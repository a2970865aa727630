------------------------------ MODULE WaitQueue ------------------------------
(***************************************************************************)
(* The wait queues of kernel/thread.c, as the synchronisation objects of   *)
(* the kernel (mutex, semaphore, event) use them.                          *)
(*                                                                         *)
(* Every wait_queue_* routine runs under thread_lock with interrupts off,  *)
(* so each of them is one atomic step, except wait_queue_block: it leaves  *)
(* the critical section in thread_resched and continues, under the lock    *)
(* again, when the scheduler picks the thread.  It is therefore two steps, *)
(* wait_queue_block and wait_queue_return, and anything may happen between *)
(* them.  Which runnable thread is picked is left open here; module Sched  *)
(* models that choice.                                                     *)
(***************************************************************************)
EXTENDS Integers, Sequences, SequencesExt

CONSTANTS Threads,   \* the threads that call into the kernel
          Queues,    \* the wait queues
          NoQueue,   \* NULL
          Timeouts   \* the timeouts that callers pass

(***************************************************************************)
(* What wait_queue_block returns, and the classes of its timeout argument. *)
(***************************************************************************)
NO_ERROR             == "NO_ERROR"
ERR_TIMED_OUT        == "ERR_TIMED_OUT"
ERR_OBJECT_DESTROYED == "ERR_OBJECT_DESTROYED"
ERR_THREAD_DETACHED  == "ERR_THREAD_DETACHED"
ERR_CANCELLED        == "ERR_CANCELLED"
Status == {NO_ERROR, ERR_TIMED_OUT, ERR_OBJECT_DESTROYED, ERR_THREAD_DETACHED,
           ERR_CANCELLED}

ZERO_TIME     == "zero"
FINITE_TIME   == "finite"
INFINITE_TIME == "infinite"
AllTimeouts == {ZERO_TIME, FINITE_TIME, INFINITE_TIME}

ASSUME WaitQueueAssumption == /\ NoQueue \notin Queues
                              /\ Timeouts \subseteq AllTimeouts

VARIABLES
  list,        \* list[q]: the threads linked into q's list, head first
  frame,       \* frame[t]: the queue of the wait_queue_block call t is in
  block_ret,   \* block_ret[t]: t->wait_queue_block_ret
  timer        \* timer[t]: the timer on t's stack is in a timer queue

wqvars == <<list, frame, block_ret, timer>>

\* t is THREAD_BLOCKED: linked into the list of the queue it waits on.
Blocked(t) == frame[t] \in Queues /\ t \in Range(list[frame[t]])

\* t has been taken off the list and has not run yet.
Woken(t) == frame[t] \in Queues /\ t \notin Range(list[frame[t]])

WQInit ==
  /\ list = [q \in Queues |-> <<>>]
  /\ frame = [t \in Threads |-> NoQueue]
  /\ block_ret = [t \in Threads |-> NO_ERROR]
  /\ timer = [t \in Threads |-> FALSE]

(***************************************************************************)
(* wait_queue_block up to thread_resched.  With a timeout of zero the      *)
(* routine returns ERR_TIMED_OUT without touching anything: callers model  *)
(* that case themselves.                                                   *)
(***************************************************************************)
wait_queue_block(t, q, timeout) ==
  /\ timeout # ZERO_TIME
  /\ list' = [list EXCEPT ![q] = Append(@, t)]
  /\ frame' = [frame EXCEPT ![t] = q]
  /\ block_ret' = [block_ret EXCEPT ![t] = NO_ERROR]
  /\ timer' = [timer EXCEPT ![t] = timeout # INFINITE_TIME]

\* Mutant: the stack timer is left armed when the wait ends.
wait_queue_return_keeps_timer(t) ==
  /\ Woken(t)
  /\ frame' = [frame EXCEPT ![t] = NoQueue]
  /\ block_ret' = [block_ret EXCEPT ![t] = NO_ERROR]
  /\ UNCHANGED <<list, timer>>

\* Mutant: a thread comes back from thread_resched while still queued.
wait_queue_return_spurious(t) ==
  /\ frame[t] \in Queues
  /\ frame' = [frame EXCEPT ![t] = NoQueue]
  /\ timer' = [timer EXCEPT ![t] = FALSE]
  /\ block_ret' = [block_ret EXCEPT ![t] = NO_ERROR]
  /\ UNCHANGED list

\* The rest of wait_queue_block: cancel the timer, return block_ret[t].  The
\* field is not read again before the next wait sets it: it is kept NO_ERROR
\* between waits.
wait_queue_return(t) ==
  /\ Woken(t)
  /\ frame' = [frame EXCEPT ![t] = NoQueue]
  /\ timer' = [timer EXCEPT ![t] = FALSE]
  /\ block_ret' = [block_ret EXCEPT ![t] = NO_ERROR]
  /\ UNCHANGED list

wait_queue_wake_one(q, err) ==
  /\ IF list[q] = <<>>
       THEN UNCHANGED <<list, block_ret>>
       ELSE /\ list' = [list EXCEPT ![q] = Tail(@)]
            /\ block_ret' = [block_ret EXCEPT ![Head(list[q])] = err]
  /\ UNCHANGED <<frame, timer>>

wait_queue_wake_all(q, err) ==
  /\ list' = [list EXCEPT ![q] = <<>>]
  /\ block_ret' = [t \in Threads |->
                     IF t \in Range(list[q]) THEN err ELSE block_ret[t]]
  /\ UNCHANGED <<frame, timer>>

wait_queue_destroy(q) == wait_queue_wake_all(q, ERR_OBJECT_DESTROYED)

\* Mutant: the check for THREAD_BLOCKED is dropped.
thread_unblock_unchecked(t, err) ==
  /\ list' = [q \in Queues |-> RemoveFirst(list[q], t)]
  /\ block_ret' = [block_ret EXCEPT ![t] = err]

\* Mutant: the thread is made ready without being unlinked from the queue.
thread_unblock_not_unlinked(t, err) ==
  /\ Blocked(t)
  /\ block_ret' = [block_ret EXCEPT ![t] = err]
  /\ UNCHANGED list

\* Takes t off whatever queue it is in; nothing happens if it is not blocked.
thread_unblock_from_wait_queue(t, err) ==
  /\ IF Blocked(t)
       THEN /\ list' = [list EXCEPT ![frame[t]] = RemoveFirst(@, t)]
            /\ block_ret' = [block_ret EXCEPT ![t] = err]
       ELSE UNCHANGED <<list, block_ret>>

\* Mutant: the waiter is handed the handler's own error code.
wait_queue_timeout_handler_wrong_code(t) ==
  /\ timer[t]
  /\ timer' = [timer EXCEPT ![t] = FALSE]
  /\ thread_unblock_from_wait_queue(t, "ERR_NOT_BLOCKED")
  /\ UNCHANGED frame

\* The timer of t's wait fires, in interrupt context.
wait_queue_timeout_handler(t) ==
  /\ timer[t]
  /\ timer' = [timer EXCEPT ![t] = FALSE]
  /\ thread_unblock_from_wait_queue(t, ERR_TIMED_OUT)
  /\ UNCHANGED frame

(***************************************************************************)
(* The wait queues on their own, used by arbitrary callers.                *)
(***************************************************************************)
WQNext ==
  \/ \E t \in Threads, q \in Queues, timeout \in AllTimeouts :
        frame[t] = NoQueue /\ wait_queue_block(t, q, timeout)
  \/ \E t \in Threads : wait_queue_return(t)
  \/ \E t \in Threads : wait_queue_timeout_handler(t)
  \/ \E q \in Queues : wait_queue_wake_one(q, NO_ERROR)
  \/ \E q \in Queues, err \in {NO_ERROR, ERR_THREAD_DETACHED} :
        wait_queue_wake_all(q, err)
  \/ \E q \in Queues : wait_queue_destroy(q)

\* The scheduler eventually runs a woken thread, and armed timers fire.
WQFairness ==
  \A t \in Threads : /\ WF_wqvars(wait_queue_return(t))
                     /\ WF_wqvars(wait_queue_timeout_handler(t))

WQSafety == WQInit /\ [][WQNext]_wqvars

WQSpec == WQSafety /\ WQFairness

WQTypeOK ==
  /\ list \in [Queues -> Seq(Threads)]
  /\ frame \in [Threads -> Queues \cup {NoQueue}]
  /\ block_ret \in [Threads -> Status]
  /\ timer \in [Threads -> BOOLEAN]

(***************************************************************************)
(* A thread is linked into at most one wait queue, at most once, and only  *)
(* into the queue whose wait_queue_block it is in: the single queue_node   *)
(* of a thread_t is never in two lists, whatever mix of wake-ups and       *)
(* timeouts took threads off the lists before.                             *)
(***************************************************************************)
QueueNodeUnique ==
  \A q \in Queues :
    /\ IsInjective(list[q])
    /\ \A t \in Range(list[q]) : frame[t] = q

(***************************************************************************)
(* The timer of a timed wait lives on the stack of the waiting thread: it  *)
(* is never still queued once wait_queue_block has returned.               *)
(***************************************************************************)
NoDanglingTimer == \A t \in Threads : timer[t] => frame[t] # NoQueue

(***************************************************************************)
(* A wake-up is final.  Between the wake-up and the moment the thread runs *)
(* again its timer may still fire; it must not replace the return code the *)
(* waker chose by ERR_TIMED_OUT.                                           *)
(***************************************************************************)
WakeIsFinal ==
  [][\A t \in Threads :
       Woken(t) => \/ frame'[t] = NoQueue
                   \/ frame'[t] = frame[t] /\ block_ret'[t] = block_ret[t]
                      /\ Woken(t)']_wqvars

(***************************************************************************)
(* A wait with a finite timeout ends even if nobody ever wakes the queue.  *)
(***************************************************************************)
TimedWaitEnds == \A t \in Threads : timer[t] ~> frame[t] = NoQueue
==============================================================================
