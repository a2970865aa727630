-------------------------------- MODULE Timer --------------------------------
(***************************************************************************)
(* kernel/timer.c with PLATFORM_HAS_DYNAMIC_TIMER: a queue of timers per   *)
(* CPU, sorted by expiry in wrapping lk_time_t arithmetic, and a one-shot  *)
(* hardware timer per CPU that must be programmed for the queue's head.    *)
(*                                                                         *)
(* A timer is used by one owner, as the kernel's own timers are: its owner *)
(* does not set it twice, nor cancel it from elsewhere while setting it.   *)
(* Time passes between any two steps, within the bounds that interrupt     *)
(* latency and the duration of a tick have.                                *)
(***************************************************************************)
EXTENDS Integers, Sequences, SequencesExt

CONSTANTS Timers, CPUs,
          TimeBits,     \* width of lk_time_t: 32 in the code
          OFF,          \* the state of a hardware timer that is stopped
          Delays,       \* arguments of timer_set_oneshot
          Periods,      \* arguments of timer_set_periodic
          Latency,      \* bound: how long an expired hardware timer is pending
          TickTime,     \* bound: how long one timer_tick lasts
          SetTime       \* bound: from reading the time to taking timer_lock

ASSUME TimerAssumption ==
  /\ TimeBits \in Nat \ {0}
  /\ Delays \subseteq Nat /\ Periods \subseteq Nat
  /\ OFF \notin Int
  /\ CPUs \cap {"thread", "nobody"} = {}
  /\ {Latency, TickTime, SetTime} \subseteq Nat

Modulus == 2 ^ TimeBits
Time == 0..(Modulus - 1)

VARIABLES
  time,        \* current_time()
  queue,       \* queue[c]: timers[c].timer_queue
  scheduled,   \* timer->scheduled_time
  periodic,    \* timer->periodic_time
  callback,    \* timer->callback is not NULL
  hw,          \* hw[c]: when c's hardware timer expires from now, or OFF
  tick,        \* tick[c]: the timer_tick that c is in
  setting,     \* setting[t]: the timer_set that t is the argument of
  left         \* history: the time left until t is due, not wrapped

vars == <<time, queue, scheduled, periodic, callback, hw, tick, setting, left>>

NotSetting == [by |-> "nobody"]
Outside == [phase |-> "outside"]

\* TIME_LT and TIME_GT: the difference as a signed number of TimeBits bits.
Signed(d) == IF d % Modulus >= Modulus \div 2 THEN (d % Modulus) - Modulus
                                              ELSE d % Modulus

\* Mutant: the times are compared as unsigned numbers.
TIME_LT_unsigned(a, b) == a < b

TIME_LT(a, b) == Signed(a - b) < 0
TIME_GT(a, b) == Signed(a - b) > 0

Init ==
  /\ time \in Time
  /\ queue = [c \in CPUs |-> <<>>]
  /\ scheduled = [t \in Timers |-> 0]
  /\ periodic = [t \in Timers |-> 0]
  /\ callback = [t \in Timers |-> FALSE]
  /\ hw = [c \in CPUs |-> OFF]
  /\ tick = [c \in CPUs |-> Outside]
  /\ setting = [t \in Timers |-> NotSetting]
  /\ left = [t \in Timers |-> 0]

(***************************************************************************)
(* The platform's one-shot timer: it expires after delay, with a delay of  *)
(* 0 at once.  If it had expired already its interrupt just stays pending. *)
(***************************************************************************)
platform_set_oneshot_timer(c, delay) ==
  hw' = IF delay = 0 /\ hw[c] # OFF /\ hw[c] <= 0 THEN hw
        ELSE [hw EXCEPT ![c] = delay]

Queued(t) == \E c \in CPUs : t \in Range(queue[c])

\* Mutant: a new timer always goes to the end of the queue.
insert_timer_in_queue_at_end(q, t, expiry) == Append(q, t)

\* q with t inserted in front of the first entry that expires after it.
insert_timer_in_queue(q, t, expiry) ==
  LET later == {i \in DOMAIN q : TIME_GT(scheduled[q[i]], expiry)}
      i == IF later = {} THEN Len(q) + 1
                         ELSE CHOOSE i \in later : \A j \in later : i <= j
  IN  InsertAt(q, i, t)

(***************************************************************************)
(* timer_set up to the lock: the time is read with interrupts still on.    *)
(* Calls come from a thread on a CPU outside timer_tick, or from the timer *)
(* callback a CPU is running.  A timer that is queued already panics.      *)
(***************************************************************************)
timer_set(by, t, delay, period) ==
  /\ ~Queued(t)
  /\ setting[t] = NotSetting
  /\ scheduled' = [scheduled EXCEPT ![t] = (time + delay) % Modulus]
  /\ periodic' = [periodic EXCEPT ![t] = period]
  /\ callback' = [callback EXCEPT ![t] = TRUE]
  /\ setting' = [setting EXCEPT ![t] = [by |-> by, delay |-> delay]]
  /\ left' = [left EXCEPT ![t] = delay]
  /\ UNCHANGED <<time, queue, hw, tick>>

\* A delay of 0 is taken for 1.
timer_set_oneshot(by, t, delay) ==
  timer_set(by, t, IF delay = 0 THEN 1 ELSE delay, 0)

timer_set_periodic(by, t, period) ==
  LET p == IF period = 0 THEN 1 ELSE period IN timer_set(by, t, p, p)

\* The rest of timer_set, on the CPU its caller is on by then.
timer_set_insert(c, t) ==
  LET q == insert_timer_in_queue(queue[c], t, scheduled[t]) IN
  /\ setting[t] # NotSetting
  /\ setting[t].by = IF tick[c].phase = "callback" THEN c ELSE "thread"
  /\ tick[c].phase \in {"outside", "callback"}
  /\ setting' = [setting EXCEPT ![t] = NotSetting]
  /\ queue' = [queue EXCEPT ![c] = q]
  /\ IF Head(q) = t THEN platform_set_oneshot_timer(c, setting[t].delay) ELSE UNCHANGED hw
  /\ UNCHANGED <<time, scheduled, periodic, callback, tick, left>>

\* Mutant: the hardware timer is not set again for the new head.
timer_cancel_no_rearm(c, t) ==
  LET q == [d \in CPUs |-> RemoveFirst(queue[d], t)] IN
  /\ setting[t] = NotSetting
  /\ tick[c].phase \in {"outside", "callback"}
  /\ queue' = q
  /\ periodic' = [periodic EXCEPT ![t] = 0]
  /\ callback' = [callback EXCEPT ![t] = FALSE]
  /\ hw' = IF q[c] = <<>> \/ Head(q[c]) # Head(queue[c])
             THEN [hw EXCEPT ![c] = OFF] ELSE hw
  /\ left' = [left EXCEPT ![t] = 0]
  /\ UNCHANGED <<time, scheduled, tick, setting>>

\* Called on c, by a thread or by the callback c is running.  The timer may
\* be in another CPU's queue, whose hardware timer is then left as it is.
timer_cancel(c, t) ==
  LET q == [d \in CPUs |-> RemoveFirst(queue[d], t)]
      next == scheduled[Head(q[c])]
  IN  /\ setting[t] = NotSetting
      /\ tick[c].phase \in {"outside", "callback"}
      /\ queue' = q
      /\ periodic' = [periodic EXCEPT ![t] = 0]
      /\ callback' = [callback EXCEPT ![t] = FALSE]
      /\ CASE q[c] = <<>> -> hw' = [hw EXCEPT ![c] = OFF]
           [] q[c] # <<>> /\ Head(q[c]) # Head(queue[c]) ->
                platform_set_oneshot_timer(c, IF TIME_LT(next, time) THEN 0
                                              ELSE (next - time) % Modulus)
           [] OTHER -> UNCHANGED hw
      /\ left' = [left EXCEPT ![t] = 0]
      /\ UNCHANGED <<time, scheduled, tick, setting>>

(***************************************************************************)
(* timer_tick.  It runs with interrupts off, so no other code runs on its  *)
(* CPU until it ends, but it gives up timer_lock around each callback.     *)
(***************************************************************************)
\* The hardware timer, which has expired, is stopped and timer_tick called.
platform_tick(c) ==
  /\ tick[c] = Outside
  /\ hw[c] # OFF /\ hw[c] <= 0
  /\ hw' = [hw EXCEPT ![c] = OFF]
  /\ tick' = [tick EXCEPT ![c] = [phase |-> "entered", now |-> time]]
  /\ UNCHANGED <<time, queue, scheduled, periodic, callback, setting, left>>

\* The head of queue q, if there is one, is due at the time of c's tick.
HeadIsDue(c, q) == IF q = <<>> THEN FALSE
                   ELSE ~TIME_LT(tick[c].now, scheduled'[Head(q)])

\* The first due timer is taken off the queue q and the lock given up.
timer_tick_dequeue(c, q) ==
  /\ HeadIsDue(c, q)
  /\ queue' = [queue EXCEPT ![c] = Tail(q)]
  /\ tick' = [tick EXCEPT ![c] = [phase |-> "dequeued", now |-> tick[c].now,
                                  timer |-> Head(q)]]
  /\ UNCHANGED hw

\* No timer is due: set the hardware timer for the head, if there is one,
\* relative to the time at which the tick began.
timer_tick_end(c, q) ==
  /\ ~HeadIsDue(c, q)
  /\ queue' = [queue EXCEPT ![c] = q]
  /\ IF q = <<>> THEN UNCHANGED hw
     ELSE platform_set_oneshot_timer(c, (scheduled'[Head(q)] - tick[c].now) % Modulus)
  /\ tick' = [tick EXCEPT ![c] = Outside]

\* Without the lock: note whether the timer is periodic and call its
\* callback.  A timer cancelled since it was dequeued has none to call, and
\* the call is a fault; that takes a second CPU.
timer_tick_call(c) ==
  /\ tick[c].phase = "dequeued"
  /\ callback[tick[c].timer]
  /\ tick' = [tick EXCEPT ![c] = [phase |-> "callback", now |-> tick[c].now,
                                  timer |-> tick[c].timer,
                                  periodic |-> periodic[tick[c].timer] > 0]]
  /\ left' = [left EXCEPT ![tick[c].timer] = 0]
  /\ UNCHANGED <<time, queue, scheduled, periodic, callback, hw, setting>>

\* Mutant: what the timer was before its callback ran decides.
Requeue_stale(c) == tick[c].phase = "callback" /\ tick[c].periodic

\* The callback of a periodic timer neither cancelled nor requeued it.
Requeue(c) ==
  /\ tick[c].phase = "callback"
  /\ tick[c].periodic
  /\ ~Queued(tick[c].timer)
  /\ periodic[tick[c].timer] > 0

\* Under the lock, on entry and after each callback: put a periodic timer
\* back, and go on with the next due timer or end the tick.
timer_tick(c) ==
  LET t == tick[c].timer
      expiry == (tick[c].now + periodic[t]) % Modulus
      q == IF Requeue(c) THEN insert_timer_in_queue(queue[c], t, expiry) ELSE queue[c]
  IN  /\ tick[c].phase \in {"entered", "callback"}
      /\ \A u \in Timers : setting[u].by # c
      /\ IF Requeue(c)
           THEN /\ scheduled' = [scheduled EXCEPT ![t] = expiry]
                /\ left' = [left EXCEPT ![t] =
                              periodic[t] - ((time - tick[c].now) % Modulus)]
           ELSE UNCHANGED <<scheduled, left>>
      /\ timer_tick_dequeue(c, q) \/ timer_tick_end(c, q)
      /\ UNCHANGED <<time, periodic, callback, setting>>

(***************************************************************************)
(* A millisecond passes.  Interrupts are not pending for more than Latency *)
(* once their CPU can take them, and critical regions are bounded.         *)
(***************************************************************************)
clock ==
  /\ \A c \in CPUs :
       IF tick[c] = Outside THEN hw[c] # OFF => hw[c] > -Latency
                            ELSE (time - tick[c].now) % Modulus < TickTime
  /\ \A t \in Timers : setting[t] # NotSetting => left[t] > setting[t].delay - SetTime
  /\ time' = (time + 1) % Modulus
  /\ hw' = [c \in CPUs |-> IF hw[c] = OFF THEN OFF ELSE hw[c] - 1]
  /\ left' = [t \in Timers |->
                IF Queued(t) \/ setting[t] # NotSetting THEN left[t] - 1 ELSE left[t]]
  /\ UNCHANGED <<queue, scheduled, periodic, callback, tick, setting>>

\* Where the code that sets or cancels a timer on c runs.
Context(c) == IF tick[c].phase = "callback" THEN c ELSE "thread"

Next ==
  \/ clock
  \/ \E c \in CPUs :
       \/ platform_tick(c) \/ timer_tick(c) \/ timer_tick_call(c)
       \/ \E t \in Timers :
            \/ timer_set_insert(c, t) \/ timer_cancel(c, t)
            \/ tick[c].phase \in {"outside", "callback"} /\
                 \/ \E delay \in Delays : timer_set_oneshot(Context(c), t, delay)
                 \/ \E period \in Periods : timer_set_periodic(Context(c), t, period)

Spec == Init /\ [][Next]_vars

(***************************************************************************)
(* Properties.                                                             *)
(***************************************************************************)
(***************************************************************************)
(* Each queue is in the order in which its timers are really due, also     *)
(* when the clock wraps between two of them, and holds a timer only once.  *)
(***************************************************************************)
SortedQueue ==
  \A c \in CPUs : \A i, j \in DOMAIN queue[c] :
    i < j => /\ queue[c][i] # queue[c][j]
             /\ left[queue[c][i]] <= left[queue[c][j]]

\* No callback is called before the delay its timer was set with is over.
NeverEarly ==
  \A c \in CPUs : tick[c].phase = "dequeued" => left[tick[c].timer] <= 0

(***************************************************************************)
(* No timer is forgotten.  However timers were set, cancelled and          *)
(* requeued, by threads and by callbacks, a queued timer is never overdue  *)
(* by more than the latencies add up to: the hardware timer is always      *)
(* programmed early enough for it.                                         *)
(***************************************************************************)
Slack == IF TickTime > SetTime THEN TickTime ELSE SetTime
Late == Latency + TickTime + Slack
NeverLate == \A t \in Timers : Queued(t) => left[t] >= -Late

(***************************************************************************)
(* "Timers may be canceled or reprogrammed from within their callback": a  *)
(* cancelled timer is in no queue, not even if it is periodic and it is    *)
(* its own callback that cancelled it.                                     *)
(***************************************************************************)
CancelIsFinal == \A t \in Timers : Queued(t) => callback[t]
==============================================================================
