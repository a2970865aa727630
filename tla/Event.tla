-------------------------------- MODULE Event --------------------------------
(***************************************************************************)
(* kernel/event.c: events that stay signaled until event_unsignal, and     *)
(* events that release one thread per signal (EVENT_FLAG_AUTOUNSIGNAL).    *)
(*                                                                         *)
(* event_unsignal writes e->signaled without taking thread_lock.  It is    *)
(* still one step here: the write is a single store of FALSE, and each     *)
(* critical section of the other routines reads e->signaled once, so the   *)
(* store takes effect either before or after that section.                 *)
(***************************************************************************)
EXTENDS WaitQueue

CONSTANT EventQueue  \* &e->wait

ASSUME EventAssumption == EventQueue \in Queues

VARIABLES
  event_magic,         \* e->magic = EVENT_MAGIC
  signaled,      \* e->signaled
  autounsignal,  \* e->flags & EVENT_FLAG_AUTOUNSIGNAL
  budget         \* history of an auto-unsignal event: signals not yet used up

evars == <<event_magic, signaled, autounsignal, budget>>
eventvars == <<wqvars, evars>>

\* The one thread a signaled event may let through, as a number.
AsNumber(s) == IF s THEN 1 ELSE 0

EventInit ==
  /\ WQInit
  /\ event_magic = TRUE
  /\ signaled \in BOOLEAN
  /\ autounsignal \in BOOLEAN
  /\ budget = AsNumber(signaled)

\* A destroyed event is initialised again, with nobody left inside.
event_init(initial, auto) ==
  /\ ~event_magic
  /\ \A t \in Threads : frame[t] # EventQueue
  /\ event_magic' = TRUE
  /\ signaled' = initial
  /\ autounsignal' = auto
  /\ budget' = AsNumber(initial)
  /\ list' = [list EXCEPT ![EventQueue] = <<>>]
  /\ UNCHANGED <<frame, block_ret, timer>>

event_destroy(t) ==
  /\ frame[t] = NoQueue
  /\ event_magic
  /\ event_magic' = FALSE
  /\ signaled' = FALSE
  /\ autounsignal' = FALSE
  /\ budget' = 0
  /\ wait_queue_destroy(EventQueue)

\* Mutant: an auto-unsignal event stays signaled after letting a thread by.
event_wait_keeps_signal(t) ==
  /\ frame[t] = NoQueue
  /\ event_magic
  /\ signaled
  /\ budget' = IF autounsignal THEN budget - 1 ELSE budget
  /\ UNCHANGED <<wqvars, event_magic, signaled, autounsignal>>

\* event_wait_timeout on a signaled event falls through.
event_wait_signaled(t) ==
  /\ frame[t] = NoQueue
  /\ event_magic
  /\ signaled
  /\ signaled' = ~autounsignal
  /\ budget' = IF autounsignal THEN budget - 1 ELSE budget
  /\ UNCHANGED <<wqvars, event_magic, autounsignal>>

\* On an unsignaled event it blocks; with a timeout of zero it just returns.
event_wait_unsignaled(t, timeout) ==
  /\ frame[t] = NoQueue
  /\ event_magic
  /\ ~signaled
  /\ \/ timeout = ZERO_TIME /\ UNCHANGED wqvars
     \/ wait_queue_block(t, EventQueue, timeout)
  /\ UNCHANGED evars

event_wait_timeout(t, timeout) ==
  \/ event_wait_signaled(t)
  \/ event_wait_unsignaled(t, timeout)

\* The rest of event_wait_timeout: return what wait_queue_block returned.
event_wait_return(t) ==
  /\ frame[t] = EventQueue
  /\ wait_queue_return(t)
  /\ UNCHANGED evars

event_timeout(t) ==
  /\ frame[t] = EventQueue
  /\ wait_queue_timeout_handler(t)
  /\ UNCHANGED evars

\* Mutant: an auto-unsignal event becomes signaled even if it woke a thread.
event_signal_auto_always_signals ==
  /\ event_magic
  /\ ~signaled
  /\ autounsignal
  /\ wait_queue_wake_one(EventQueue, NO_ERROR)
  /\ signaled' = TRUE
  /\ budget' = IF list[EventQueue] = <<>> THEN budget + 1 ELSE budget
  /\ UNCHANGED <<event_magic, autounsignal>>

\* Signal an auto-unsignal event: wake one thread, or else stay signaled.
event_signal_auto ==
  /\ event_magic
  /\ ~signaled
  /\ autounsignal
  /\ wait_queue_wake_one(EventQueue, NO_ERROR)
  /\ signaled' = (list[EventQueue] = <<>>)
  /\ budget' = IF list[EventQueue] = <<>> THEN budget + 1 ELSE budget
  /\ UNCHANGED <<event_magic, autounsignal>>

\* Mutant: only one of the waiting threads is released.
event_signal_all_wakes_one ==
  /\ event_magic
  /\ ~signaled
  /\ ~autounsignal
  /\ signaled' = TRUE
  /\ wait_queue_wake_one(EventQueue, NO_ERROR)
  /\ UNCHANGED <<event_magic, autounsignal, budget>>

\* Signal an ordinary event: release everybody, and stay signaled.
event_signal_all ==
  /\ event_magic
  /\ ~signaled
  /\ ~autounsignal
  /\ signaled' = TRUE
  /\ wait_queue_wake_all(EventQueue, NO_ERROR)
  /\ UNCHANGED <<event_magic, autounsignal, budget>>

\* Signaling a signaled event changes nothing.  Threads and interrupt
\* handlers signal alike.
event_signal == event_signal_auto \/ event_signal_all

event_unsignal ==
  /\ event_magic
  /\ signaled' = FALSE
  /\ budget' = 0
  /\ UNCHANGED <<wqvars, event_magic, autounsignal>>

EventNext ==
  \/ \E initial, auto \in BOOLEAN : event_init(initial, auto)
  \/ event_signal
  \/ event_unsignal
  \/ \E t \in Threads :
       \/ event_destroy(t)
       \/ \E timeout \in Timeouts : event_wait_timeout(t, timeout)
       \/ event_wait_return(t)
       \/ event_timeout(t)

EventSpec == EventInit /\ [][EventNext]_eventvars

EventTypeOK ==
  /\ WQTypeOK
  /\ event_magic \in BOOLEAN
  /\ signaled \in BOOLEAN
  /\ autounsignal \in BOOLEAN
  /\ budget \in Int

(***************************************************************************)
(* Properties.                                                             *)
(***************************************************************************)
(***************************************************************************)
(* No wake-up is lost: no thread sleeps on an event that is signaled,      *)
(* whatever signals, unsignals, waits and timeouts came before.            *)
(***************************************************************************)
NoSleeperOnSignaled == signaled => list[EventQueue] = <<>>

(***************************************************************************)
(* "Only one waiting thread is allowed to proceed": an auto-unsignal event *)
(* lets through at most one thread per signal it accepted, and a signal    *)
(* that found nobody waiting is still there for the next thread.           *)
(***************************************************************************)
OneReleasePerSignal == event_magic /\ autounsignal => budget = AsNumber(signaled)
==============================================================================
