-------------------------------- MODULE Sched --------------------------------
(***************************************************************************)
(* The scheduler: kernel/thread.c with kernel/mp.c, for the build with     *)
(* PLATFORM_HAS_DYNAMIC_TIMER.  One CPU is the WITH_SMP=0 build.           *)
(*                                                                         *)
(* Every routine runs under thread_lock with interrupts off.  Its critical *)
(* section is one step, up to thread_resched: the lock stays held across   *)
(* the context switch and is released on the stack of the thread that was  *)
(* switched in, which first completes the call it was switched out of      *)
(* (thread_resched_return).  While a CPU holds the lock the others go on   *)
(* taking interrupts, and a timer callback that was dequeued may spin on   *)
(* the lock for any length of time.                                        *)
(*                                                                         *)
(* The idle thread of a CPU is named by the CPU itself.                    *)
(***************************************************************************)
EXTENDS Integers, Sequences, SequencesExt, FiniteSetsExt

CONSTANTS Threads, CPUs, Queues,
          NUM_PRIORITIES,
          InitialQuantum,   \* 5 in thread_resched
          NoCpu,            \* -1
          NoQueue,          \* NULL
          Main,             \* the thread kmain starts, "bootstrap2"
          Priority,         \* Priority[t]: the priority t is created with
          Uses,             \* the uses of the kernel that are looked at
          UseOf             \* UseOf[u]: which threads make which calls

IDLE_PRIORITY    == 0
HIGHEST_PRIORITY == NUM_PRIORITIES - 1
DEFAULT_PRIORITY == NUM_PRIORITIES \div 2
Priorities       == 0..HIGHEST_PRIORITY

ASSUME SchedAssumption ==
  /\ NUM_PRIORITIES \in Nat \ {0, 1}
  /\ InitialQuantum \in Nat \ {0}
  /\ NoCpu \notin CPUs /\ CPUs \cap Threads = {}
  /\ Queues \cap Threads = {} /\ NoQueue \notin Queues \cup Threads
  /\ Main \in Threads /\ {"none", "yield"} \cap Threads = {}
  /\ Priority \in [Threads -> Priorities]
  /\ \A u \in Uses : /\ UseOf[u].created \cup UseOf[u].realtimers \subseteq Threads
                    /\ UseOf[u].pinned \in [Threads -> CPUs \cup {NoCpu}]
                    /\ UseOf[u].priorities \subseteq Int

States == {"NONE", "SUSPENDED", "READY", "RUNNING", "BLOCKED", "SLEEPING", "DEATH"}

\* A thread waits on a queue or, in thread_join, on another thread's
\* retcode_wait_queue, which is named by that thread.
WaitQueues == Queues \cup Threads

NoCallback == <<>>

VARIABLES
  state,          \* t->state; NONE: the structure is free
  priority,       \* t->priority
  pinned_cpu,     \* t->pinned_cpu, which nobody changes later
  quantum,        \* t->remaining_quantum, at least 0 (only <= 0 is tested)
  realtime,       \* the threads with THREAD_FLAG_REAL_TIME
  detached,       \* the threads with THREAD_FLAG_DETACHED
  runq,           \* run_queue and run_queue_bitmap
  current,        \* current[c]: get_current_thread() on c
  list,           \* list[q]: wait->list
  frame,          \* frame[t]: the queue of the wait_queue_block call t is in
  timed,          \* the threads whose current wait has a finite timeout
  block_ret,      \* t->wait_queue_block_ret
  timer,          \* timer[t]: the CPU in whose timer queue t's stack timer is
  cont,           \* cont[t]: what t's current call does after unlocking
  active_cpus, idle_cpus, realtime_cpus,    \* mp
  preempt_timer,  \* the CPUs whose preempt_timer is queued
  ipi,            \* the CPUs with MP_IPI_RESCHEDULE pending
  callback,       \* callback[c]: the timer callback c is about to run
  resched,        \* resched[c]: c's interrupt will return INT_RESCHEDULE
  thread_lock,    \* the CPU that holds the lock across a context switch
  released,       \* the secondary CPUs have been let go
  starting,       \* the CPUs that are active but have not enabled interrupts yet
  seen,           \* seen[c]: the idle mask a starting CPU loaded, {} before that
  overtaken,      \* the starting CPUs with another CPU in the middle of its own
                  \* update of the mask, begun after they loaded it
  use             \* what the threads do with all this, fixed from the start

waitvars == <<list, frame, timed, block_ret, timer>>
lifevars == <<realtime, detached, cont, priority>>
irqvars  == <<callback, resched>>
runvars  == <<state, quantum, runq, current, idle_cpus, realtime_cpus,
              preempt_timer, thread_lock>>
startvars == <<released, starting, seen, overtaken>>
vars == <<waitvars, lifevars, irqvars, runvars, active_cpus, ipi>>

PriorityArgs == UseOf[use].priorities   \* arguments of thread_set_priority
Timeouts     == UseOf[use].timeouts     \* arguments of wait_queue_block
Created      == UseOf[use].created      \* the threads that get created,
RealTimers   == UseOf[use].realtimers   \* that get flagged real time,
Sleepers     == UseOf[use].sleepers     \* that sleep,
Joiners      == UseOf[use].joiners      \* that join,
Detachers    == UseOf[use].detachers    \* that detach,
Exiters      == UseOf[use].exiters      \* and that exit

(***************************************************************************)
(* Run queues.                                                             *)
(***************************************************************************)
insert_in_run_queue_head(rq, t, p) ==
  [list   |-> [rq.list EXCEPT ![p] = <<t>> \o @],
   bitmap |-> rq.bitmap \cup {p}]

insert_in_run_queue_tail(rq, t, p) ==
  [list   |-> [rq.list EXCEPT ![p] = Append(@, t)],
   bitmap |-> rq.bitmap \cup {p}]

\* The threads of s that have priority p, the last one first.
LastFirst(s, p) ==
  LET at == {i \in DOMAIN s : priority[s[i]] = p}
      nth(k) == CHOOSE i \in at : Cardinality({j \in at : j >= i}) = k
  IN  [k \in 1..Cardinality(at) |-> s[nth(k)]]

\* The threads of s, each in turn inserted at the head.
insert_all_in_run_queue_head(rq, s) ==
  [list   |-> [p \in Priorities |-> LastFirst(s, p) \o rq.list[p]],
   bitmap |-> rq.bitmap \cup {priority[t] : t \in Range(s)}]

\* Positions in s of the threads that may run on c.
Eligible(c, s) == {i \in DOMAIN s : pinned_cpu[s[i]] \in {NoCpu, c}}

\* Mutant: the bit of a run queue that becomes empty is not cleared.
get_top_thread_keeps_bit(c, rq) ==
  LET queues == {p \in rq.bitmap : Eligible(c, rq.list[p]) # {}}
      p == Max(queues)
      i == Min(Eligible(c, rq.list[p]))
  IN  IF queues = {}
        THEN [thread |-> c, runq |-> rq]
        ELSE [thread |-> rq.list[p][i],
              runq   |-> [rq EXCEPT !.list[p] = RemoveAt(@, i)]]

\* Mutant: the head of the highest queue is taken, wherever it is pinned.
get_top_thread_ignores_pin(c, rq) ==
  LET p == Max(rq.bitmap)
      rest == Tail(rq.list[p])
  IN  IF rq.bitmap = {}
        THEN [thread |-> c, runq |-> rq]
        ELSE [thread |-> Head(rq.list[p]),
              runq   |-> [list   |-> [rq.list EXCEPT ![p] = rest],
                          bitmap |-> IF rest = <<>> THEN rq.bitmap \ {p}
                                                    ELSE rq.bitmap]]

\* The thread to run next on c, and the run queue without it.
get_top_thread(c, rq) ==
  LET queues == {p \in rq.bitmap : Eligible(c, rq.list[p]) # {}}
      p == Max(queues)
      i == Min(Eligible(c, rq.list[p]))
      rest == RemoveAt(rq.list[p], i)
  IN  IF queues = {}
        THEN [thread |-> c, runq |-> rq]
        ELSE [thread |-> rq.list[p][i],
              runq   |-> [list   |-> [rq.list EXCEPT ![p] = rest],
                          bitmap |-> IF rest = <<>> THEN rq.bitmap \ {p}
                                                    ELSE rq.bitmap]]

thread_is_idle(x) == x \in CPUs
thread_is_realtime(x) == x \in realtime /\ priority[x] > DEFAULT_PRIORITY
thread_is_real_time_or_idle(x) == x \in realtime \/ thread_is_idle(x)

SetBit(mask, c, on) == IF on THEN mask \cup {c} ELSE mask \ {c}

\* Mutant: the idle CPUs are left alone.
mp_reschedule_skips_idle(c) ==
  ipi' = ipi \cup (((active_cpus \ realtime_cpus) \ idle_cpus) \ {c})

\* MP_CPU_ALL_BUT_LOCAL, flags 0: the CPUs that get a reschedule IPI from c.
mp_reschedule(c) == ipi' = ipi \cup ((active_cpus \ realtime_cpus) \ {c})

(***************************************************************************)
(* Pick the next thread for c from run queue rq, with the thread states st *)
(* and quanta qt its caller has set up, and switch to it.                  *)
(***************************************************************************)
thread_resched(c, rq, st, qt) ==
  LET top == get_top_thread(c, rq)
      old == current[c]
      new == top.thread
  IN  /\ runq' = top.runq
      /\ state' = IF thread_is_idle(new) THEN st ELSE [st EXCEPT ![new] = "RUNNING"]
      /\ thread_lock' = c
      /\ IF new = old
           THEN /\ quantum' = qt
                /\ UNCHANGED <<current, idle_cpus, realtime_cpus, preempt_timer>>
           ELSE /\ quantum' = IF ~thread_is_idle(new) /\ qt[new] <= 0
                                THEN [qt EXCEPT ![new] = InitialQuantum] ELSE qt
                /\ current' = [current EXCEPT ![c] = new]
                /\ idle_cpus' = SetBit(idle_cpus, c, thread_is_idle(new))
                /\ realtime_cpus' = SetBit(realtime_cpus, c, thread_is_realtime(new))
                /\ preempt_timer' =
                     CASE ~thread_is_real_time_or_idle(new)
                             /\ thread_is_real_time_or_idle(old) -> preempt_timer \cup {c}
                       [] thread_is_real_time_or_idle(new)
                             /\ ~thread_is_real_time_or_idle(old) -> preempt_timer \ {c}
                       [] OTHER -> preempt_timer

\* The thread keeps the CPU and unlocks.
no_resched(rq, st) ==
  /\ runq' = rq
  /\ state' = st
  /\ UNCHANGED <<quantum, current, idle_cpus, realtime_cpus, preempt_timer, thread_lock>>

(***************************************************************************)
(* Where code can run.  A CPU takes interrupts once it has enabled them,   *)
(* unless it holds the lock; a thread runs on it when no interrupt is      *)
(* being handled.                                                          *)
(***************************************************************************)
interrupts_enabled(c) ==
  /\ c \in active_cpus /\ c \notin starting
  /\ thread_lock # c /\ callback[c] = NoCallback

lock_free == thread_lock = NoCpu

runs(c) ==
  /\ interrupts_enabled(c)
  /\ ~resched[c]
  /\ lock_free
  /\ current[c] \in Threads

calls(c) == runs(c) /\ cont[current[c]] = "none"

\* Mutant: the timer of the wait is not cancelled.
thread_resched_return_keeps_timer(c) ==
  LET me == current[c] IN
  /\ thread_lock = c
  /\ thread_lock' = NoCpu
  /\ IF me \in Threads /\ frame[me] # NoQueue
       THEN /\ timed' = timed \ {me}
            /\ frame' = [frame EXCEPT ![me] = NoQueue]
            /\ state' = IF frame[me] \in Threads /\ block_ret[me] = "NO_ERROR"
                          THEN [state EXCEPT ![frame[me]] = "NONE"] ELSE state
       ELSE UNCHANGED <<timed, frame, state>>
  /\ UNCHANGED <<timer, list, block_ret, lifevars, irqvars, active_cpus, ipi,
                 quantum, runq, current, idle_cpus, realtime_cpus, preempt_timer>>

(***************************************************************************)
(* The stack that was switched to: complete wait_queue_block, and          *)
(* thread_join after it, and unlock.                                       *)
(***************************************************************************)
thread_resched_return(c) ==
  LET me == current[c] IN
  /\ thread_lock = c
  /\ thread_lock' = NoCpu
  /\ IF me \in Threads /\ frame[me] # NoQueue
       THEN /\ timer' = [timer EXCEPT ![me] = IF me \in timed THEN NoCpu ELSE @]
            /\ timed' = timed \ {me}
            /\ frame' = [frame EXCEPT ![me] = NoQueue]
            /\ state' = IF frame[me] \in Threads /\ block_ret[me] = "NO_ERROR"
                          THEN [state EXCEPT ![frame[me]] = "NONE"] ELSE state
       ELSE UNCHANGED <<timer, timed, frame, state>>
  /\ UNCHANGED <<list, block_ret, lifevars, irqvars, active_cpus, ipi,
                 quantum, runq, current, idle_cpus, realtime_cpus, preempt_timer>>

(***************************************************************************)
(* Threads come and go.                                                    *)
(***************************************************************************)
thread_create(c, t) ==
  /\ calls(c)
  /\ state[t] = "NONE"
  /\ state' = [state EXCEPT ![t] = "SUSPENDED"]
  /\ priority' = [priority EXCEPT ![t] = Priority[t]]
  /\ quantum' = [quantum EXCEPT ![t] = 0]
  /\ realtime' = realtime \ {t}
  /\ detached' = detached \ {t}
  /\ list' = [list EXCEPT ![t] = <<>>]
  /\ block_ret' = [block_ret EXCEPT ![t] = "NO_ERROR"]
  /\ UNCHANGED <<frame, timed, timer, cont, irqvars, active_cpus, ipi, runq,
                 current, idle_cpus, realtime_cpus, preempt_timer, thread_lock>>

\* Mutant: the preemption timer of the current thread goes on.
thread_set_real_time_keeps_timer(c, t) ==
  /\ calls(c)
  /\ state[t] # "NONE"
  /\ realtime' = realtime \cup {t}
  /\ UNCHANGED <<waitvars, detached, cont, priority, irqvars, active_cpus, ipi, runvars>>

thread_set_real_time(c, t) ==
  /\ calls(c)
  /\ state[t] # "NONE"
  /\ preempt_timer' = IF t = current[c] THEN preempt_timer \ {c} ELSE preempt_timer
  /\ realtime' = realtime \cup {t}
  /\ UNCHANGED <<waitvars, detached, cont, priority, irqvars, active_cpus, ipi,
                 state, quantum, runq, current, idle_cpus, realtime_cpus, thread_lock>>

\* The thread that resumes another yields once it has unlocked.
thread_resume(c, t) ==
  /\ calls(c)
  /\ state[t] = "SUSPENDED"
  /\ no_resched(insert_in_run_queue_head(runq, t, priority[t]),
                [state EXCEPT ![t] = "READY"])
  /\ mp_reschedule(c)
  /\ cont' = [cont EXCEPT ![current[c]] = "yield"]
  /\ UNCHANGED <<waitvars, realtime, detached, priority, irqvars, active_cpus>>

\* wait_queue_wake_all without rescheduling, on the run queue and the states.
WakeAll(q, err) ==
  /\ list' = [list EXCEPT ![q] = <<>>]
  /\ block_ret' = [t \in Threads |-> IF t \in Range(list[q]) THEN err ELSE block_ret[t]]
  /\ UNCHANGED <<frame, timed, timer>>

Readied(st, ts) == [t \in Threads |-> IF t \in ts THEN "READY" ELSE st[t]]

\* mp_reschedule, unless the queue woke nobody.
mp_reschedule_if_woken(c, q) ==
  IF list[q] # <<>> THEN mp_reschedule(c) ELSE UNCHANGED ipi

\* wait_queue_block, up to its thread_resched.
block(c, q, timeout) ==
  LET me == current[c] IN
  /\ timeout # "zero"
  /\ list' = [list EXCEPT ![q] = Append(@, me)]
  /\ frame' = [frame EXCEPT ![me] = q]
  /\ block_ret' = [block_ret EXCEPT ![me] = "NO_ERROR"]
  /\ timed' = IF timeout = "finite" THEN timed \cup {me} ELSE timed
  /\ timer' = [timer EXCEPT ![me] = IF timeout = "finite" THEN c ELSE @]
  /\ thread_resched(c, runq, [state EXCEPT ![me] = "BLOCKED"], quantum)

\* thread_join on a live thread blocks; on a dead one it frees it.  Nothing
\* happens if the thread is detached or the timeout is zero.
thread_join_wait(c, t, timeout) ==
  /\ calls(c)
  /\ t # current[c]
  /\ t \notin detached
  /\ state[t] \notin {"NONE", "DEATH"}
  /\ block(c, t, timeout)
  /\ UNCHANGED <<lifevars, irqvars, active_cpus, ipi>>

thread_join_dead(c, t) ==
  /\ runs(c)
  /\ \/ cont[current[c]] = t
     \/ cont[current[c]] = "none" /\ current[c] \in Joiners
  /\ t \notin detached
  /\ state[t] = "DEATH"
  /\ cont' = [cont EXCEPT ![current[c]] = "none"]
  /\ no_resched(runq, [state EXCEPT ![t] = "NONE"])
  /\ UNCHANGED <<waitvars, realtime, detached, priority, irqvars, active_cpus, ipi>>

\* Mutant: the threads that are joining t are not told.
thread_detach_no_wake(c, t) ==
  /\ calls(c)
  /\ state[t] # "NONE"
  /\ detached' = IF state[t] = "DEATH" THEN detached \ {t} ELSE detached \cup {t}
  /\ cont' = IF state[t] = "DEATH" THEN [cont EXCEPT ![current[c]] = t] ELSE cont
  /\ UNCHANGED <<waitvars, runvars, realtime, priority, irqvars, active_cpus, ipi>>

\* Detaching a dead thread unlocks, and then joins it.
thread_detach(c, t) ==
  /\ calls(c)
  /\ state[t] # "NONE"
  /\ WakeAll(t, "ERR_THREAD_DETACHED")
  /\ no_resched(insert_all_in_run_queue_head(runq, list[t]), Readied(state, Range(list[t])))
  /\ mp_reschedule_if_woken(c, t)
  /\ IF state[t] = "DEATH"
       THEN /\ detached' = detached \ {t}
            /\ cont' = [cont EXCEPT ![current[c]] = t]
       ELSE /\ detached' = detached \cup {t}
            /\ UNCHANGED cont
  /\ UNCHANGED <<realtime, priority, irqvars, active_cpus>>

\* A detached thread frees itself, any other wakes the threads joining it.
thread_exit(c) ==
  LET me == current[c] IN
  /\ calls(c)
  /\ IF me \in detached
       THEN /\ thread_resched(c, runq, [state EXCEPT ![me] = "NONE"], quantum)
            /\ UNCHANGED <<waitvars, ipi>>
       ELSE /\ WakeAll(me, "NO_ERROR")
            /\ mp_reschedule_if_woken(c, me)
            /\ thread_resched(c, insert_all_in_run_queue_head(runq, list[me]),
                              [Readied(state, Range(list[me])) EXCEPT ![me] = "DEATH"],
                              quantum)
  /\ UNCHANGED <<lifevars, irqvars, active_cpus>>

(***************************************************************************)
(* Giving up the CPU.                                                      *)
(***************************************************************************)
thread_yield(c) ==
  LET me == current[c] IN
  /\ runs(c)
  /\ cont[me] \in {"none", "yield"}
  /\ cont' = [cont EXCEPT ![me] = "none"]
  /\ thread_resched(c, insert_in_run_queue_tail(runq, me, priority[me]),
                    [state EXCEPT ![me] = "READY"], [quantum EXCEPT ![me] = 0])
  /\ UNCHANGED <<waitvars, realtime, detached, priority, irqvars, active_cpus, ipi>>

\* Mutant: a thread keeps its place in the run queue whatever its quantum.
thread_preempt_ignores_quantum(c) ==
  LET me == current[c] IN
  /\ interrupts_enabled(c)
  /\ resched[c]
  /\ lock_free
  /\ resched' = [resched EXCEPT ![c] = FALSE]
  /\ IF thread_is_idle(me)
       THEN thread_resched(c, runq, state, quantum)
       ELSE thread_resched(c, insert_in_run_queue_head(runq, me, priority[me]),
                           [state EXCEPT ![me] = "READY"], quantum)
  /\ UNCHANGED <<waitvars, lifevars, callback, active_cpus, ipi>>

\* On the way out of an interrupt.  The idle thread is in no run queue.
thread_preempt(c) ==
  LET me == current[c] IN
  /\ interrupts_enabled(c)
  /\ resched[c]
  /\ lock_free
  /\ resched' = [resched EXCEPT ![c] = FALSE]
  /\ IF thread_is_idle(me)
       THEN thread_resched(c, runq, state, quantum)
       ELSE thread_resched(c, IF quantum[me] > 0
                                THEN insert_in_run_queue_head(runq, me, priority[me])
                                ELSE insert_in_run_queue_tail(runq, me, priority[me]),
                           [state EXCEPT ![me] = "READY"], quantum)
  /\ UNCHANGED <<waitvars, lifevars, callback, active_cpus, ipi>>

thread_set_priority(c, arg) ==
  LET me == current[c]
      p == CASE arg <= IDLE_PRIORITY -> IDLE_PRIORITY + 1
             [] arg > HIGHEST_PRIORITY -> HIGHEST_PRIORITY
             [] OTHER -> arg
  IN  /\ calls(c)
      /\ priority' = [priority EXCEPT ![me] = p]
      /\ thread_resched(c, insert_in_run_queue_head(runq, me, p),
                        [state EXCEPT ![me] = "READY"], quantum)
      /\ UNCHANGED <<waitvars, realtime, detached, cont, irqvars, active_cpus, ipi>>

thread_sleep(c) ==
  LET me == current[c] IN
  /\ calls(c)
  /\ timer' = [timer EXCEPT ![me] = c]
  /\ thread_resched(c, runq, [state EXCEPT ![me] = "SLEEPING"], quantum)
  /\ UNCHANGED <<list, frame, timed, block_ret, lifevars, irqvars, active_cpus, ipi>>

(***************************************************************************)
(* Wait queues.                                                            *)
(***************************************************************************)
wait_queue_block(c, q, timeout) ==
  /\ calls(c)
  /\ block(c, q, timeout)
  /\ UNCHANGED <<lifevars, irqvars, active_cpus, ipi>>

\* The waking thread, if it is to reschedule, goes to the head of the run
\* queue first, so that the woken threads are ahead of it.
waker_in_run_queue(c, reschedule) ==
  IF reschedule THEN insert_in_run_queue_head(runq, current[c], priority[current[c]])
                ELSE runq

\* Wake the threads ts, a prefix of list[q], with return code err.
wake(c, q, n, reschedule, err) ==
  LET ts == SubSeq(list[q], 1, n)
      rq == insert_all_in_run_queue_head(waker_in_run_queue(c, reschedule), ts)
      st == Readied(state, Range(ts))
  IN  /\ list' = [list EXCEPT ![q] = SubSeq(@, n + 1, Len(@))]
      /\ block_ret' = [t \in Threads |-> IF t \in Range(ts) THEN err ELSE block_ret[t]]
      /\ mp_reschedule(c)
      /\ IF reschedule
           THEN thread_resched(c, rq, [st EXCEPT ![current[c]] = "READY"], quantum)
           ELSE no_resched(rq, st)
      /\ UNCHANGED <<frame, timed, timer, lifevars, active_cpus>>

wait_queue_wake_one(c, q, reschedule) ==
  /\ calls(c)
  /\ list[q] # <<>>
  /\ wake(c, q, 1, reschedule, "NO_ERROR")
  /\ UNCHANGED irqvars

wait_queue_wake_all(c, q, reschedule, err) ==
  /\ calls(c)
  /\ list[q] # <<>>
  /\ wake(c, q, Len(list[q]), reschedule, err)
  /\ UNCHANGED irqvars

\* A device interrupt wakes a thread without rescheduling and then returns
\* INT_RESCHEDULE, as drivers that signal an event do.
irq_wake_one(c, q) ==
  /\ interrupts_enabled(c)
  /\ lock_free
  /\ list[q] # <<>>
  /\ wake(c, q, 1, FALSE, "NO_ERROR")
  /\ resched' = [resched EXCEPT ![c] = TRUE]
  /\ UNCHANGED callback

(***************************************************************************)
(* Interrupts.                                                             *)
(***************************************************************************)
\* timer_tick takes t's stack timer off c's queue; its callback comes next.
timer_tick(c, t) ==
  /\ interrupts_enabled(c)
  /\ timer[t] = c
  /\ timer' = [timer EXCEPT ![t] = NoCpu]
  /\ callback' = [callback EXCEPT ![c] =
                    <<IF state[t] = "SLEEPING" THEN "sleep" ELSE "timeout", t>>]
  /\ UNCHANGED <<list, frame, timed, block_ret, lifevars, resched, runvars,
                 active_cpus, ipi>>

\* Mutant: the check for THREAD_BLOCKED is dropped.
thread_unblock_unchecked(c, t, err) ==
  /\ list' = [q \in WaitQueues |-> RemoveFirst(list[q], t)]
  /\ block_ret' = [block_ret EXCEPT ![t] = err]
  /\ no_resched(insert_in_run_queue_head(runq, t, priority[t]),
                [state EXCEPT ![t] = "READY"])
  /\ mp_reschedule(c)
  /\ resched' = [resched EXCEPT ![c] = TRUE]

\* Takes t off the queue it is in, if it is still blocked.
thread_unblock_from_wait_queue(c, t, err) ==
  IF state[t] = "BLOCKED"
    THEN /\ list' = [list EXCEPT ![frame[t]] = RemoveFirst(@, t)]
         /\ block_ret' = [block_ret EXCEPT ![t] = err]
         /\ no_resched(insert_in_run_queue_head(runq, t, priority[t]),
                       [state EXCEPT ![t] = "READY"])
         /\ mp_reschedule(c)
         /\ resched' = [resched EXCEPT ![c] = TRUE]
    ELSE UNCHANGED <<list, block_ret, runvars, ipi, resched>>

wait_queue_timeout_handler(c, t) ==
  /\ lock_free
  /\ callback[c] = <<"timeout", t>>
  /\ callback' = [callback EXCEPT ![c] = NoCallback]
  /\ thread_unblock_from_wait_queue(c, t, "ERR_TIMED_OUT")
  /\ UNCHANGED <<frame, timed, timer, lifevars, active_cpus>>

\* The sleeper becomes ready; no other CPU is told.
thread_sleep_handler(c, t) ==
  /\ lock_free
  /\ callback[c] = <<"sleep", t>>
  /\ callback' = [callback EXCEPT ![c] = NoCallback]
  /\ resched' = [resched EXCEPT ![c] = TRUE]
  /\ no_resched(insert_in_run_queue_head(runq, t, priority[t]),
                [state EXCEPT ![t] = "READY"])
  /\ UNCHANGED <<waitvars, lifevars, active_cpus, ipi>>

\* The preemption tick.
thread_timer_tick(c) ==
  LET me == current[c] IN
  /\ interrupts_enabled(c)
  /\ c \in preempt_timer
  /\ ~thread_is_real_time_or_idle(me)
  /\ quantum' = [quantum EXCEPT ![me] = Max({@ - 1, 0})]
  /\ resched' = [resched EXCEPT ![c] = @ \/ quantum'[me] <= 0]
  /\ UNCHANGED <<waitvars, lifevars, callback, active_cpus, ipi, state, runq, current,
                 idle_cpus, realtime_cpus, preempt_timer, thread_lock>>

mp_mbx_reschedule_irq(c) ==
  /\ interrupts_enabled(c)
  /\ c \in ipi
  /\ ipi' = ipi \ {c}
  /\ resched' = [resched EXCEPT ![c] = TRUE]
  /\ UNCHANGED <<waitvars, lifevars, callback, runvars, active_cpus>>

\* Main releases the secondary CPUs, which wait on arm_boot_cpu_lock.
arch_init(c) ==
  /\ calls(c) /\ current[c] = Main
  /\ active_cpus # CPUs /\ ~released
  /\ released' = TRUE
  /\ UNCHANGED <<vars, starting, seen, overtaken>>

(***************************************************************************)
(* The boot CPU, which is the first, in thread_become_idle and the others  *)
(* in thread_secondary_cpu_entry mark the CPU active, which is atomic, and *)
(* then idle.  mp_set_cpu_idle is a plain read-modify-write of the mask    *)
(* that is done without thread_lock: between its load and its store the    *)
(* other CPUs go on changing the mask, and the store is lost when it falls *)
(* between the load and the store of a CPU that switches threads.  The CPU *)
(* then enables interrupts and yields for the first time, which for an     *)
(* idle thread is what a preemption does.                                  *)
(***************************************************************************)
mp_set_curr_cpu_active(c) ==
  /\ c \notin active_cpus
  /\ active_cpus = {} \/ released
  /\ active_cpus' = active_cpus \cup {c}
  /\ starting' = starting \cup {c}
  /\ UNCHANGED <<waitvars, lifevars, irqvars, runvars, ipi, released, seen, overtaken>>

mp_set_cpu_idle_load(c) ==
  /\ c \in starting
  /\ seen[c] = {}
  /\ seen' = [seen EXCEPT ![c] = {idle_cpus}]
  /\ UNCHANGED <<vars, released, starting, overtaken>>

mp_set_cpu_idle_store(c) ==
  /\ c \in starting
  /\ \E mask \in seen[c] :
       \/ idle_cpus' = mask \cup {c}
       \/ c \in overtaken /\ UNCHANGED idle_cpus
  /\ seen' = [seen EXCEPT ![c] = {}]
  /\ overtaken' = overtaken \ {c}
  /\ starting' = starting \ {c}
  /\ resched' = [resched EXCEPT ![c] = TRUE]
  /\ UNCHANGED <<waitvars, lifevars, callback, active_cpus, ipi, state, quantum, runq,
                 current, realtime_cpus, preempt_timer, thread_lock, released>>

thread_become_idle(c) ==
  mp_set_curr_cpu_active(c) \/ mp_set_cpu_idle_load(c) \/ mp_set_cpu_idle_store(c)

\* Each CPU runs on its idle thread; the boot CPU has created and resumed Main.
Init ==
  /\ state = [t \in Threads |-> IF t = Main THEN "READY" ELSE "NONE"]
  /\ priority = Priority
  /\ quantum = [t \in Threads |-> 0]
  /\ realtime = {}
  /\ detached = {Main}
  /\ runq = [list   |-> [p \in Priorities |-> IF p = Priority[Main] THEN <<Main>> ELSE <<>>],
             bitmap |-> {Priority[Main]}]
  /\ current = [c \in CPUs |-> c]
  /\ list = [q \in WaitQueues |-> <<>>]
  /\ frame = [t \in Threads |-> NoQueue]
  /\ timed = {}
  /\ block_ret = [t \in Threads |-> "NO_ERROR"]
  /\ timer = [t \in Threads |-> NoCpu]
  /\ cont = [t \in Threads |-> "none"]
  /\ active_cpus = {} /\ idle_cpus = {} /\ realtime_cpus = {}
  /\ preempt_timer = {}
  /\ ipi = {}
  /\ callback = [c \in CPUs |-> NoCallback]
  /\ resched = [c \in CPUs |-> FALSE]
  /\ thread_lock = NoCpu
  /\ released = FALSE
  /\ starting = {} /\ seen = [c \in CPUs |-> {}] /\ overtaken = {}
  /\ use \in Uses
  /\ pinned_cpu = UseOf[use].pinned

thread_step(c) ==
  \/ \E t \in Created : thread_create(c, t)
  \/ \E t \in Threads : thread_resume(c, t)
  \/ \E t \in RealTimers : thread_set_real_time(c, t)
  \/ current[c] \in Joiners /\ \E t \in Threads, timeout \in Timeouts :
       thread_join_wait(c, t, timeout)
  \/ \E t \in Threads : thread_join_dead(c, t)
  \/ current[c] \in Detachers /\ \E t \in Threads : thread_detach(c, t)
  \/ current[c] \in Exiters /\ thread_exit(c)
  \/ thread_yield(c)
  \/ \E p \in PriorityArgs : thread_set_priority(c, p)
  \/ current[c] \in Sleepers /\ thread_sleep(c)
  \/ \E q \in Queues :
       \/ \E timeout \in Timeouts : wait_queue_block(c, q, timeout)
       \/ \E reschedule \in BOOLEAN :
            \/ wait_queue_wake_one(c, q, reschedule)
            \/ \E err \in {"NO_ERROR", "ERR_OBJECT_DESTROYED"} :
                 wait_queue_wake_all(c, q, reschedule, err)

interrupt(c) ==
  \/ mp_mbx_reschedule_irq(c)
  \/ thread_timer_tick(c)
  \/ \E q \in Queues : irq_wake_one(c, q)
  \/ \E t \in Threads : \/ timer_tick(c, t)
                        \/ wait_queue_timeout_handler(c, t)
                        \/ thread_sleep_handler(c, t)
  \/ thread_preempt(c)

\* What the other steps mean to a starting CPU: thread_resched updates the
\* mask when it switches threads, some time before the lock is released.
scheduling_beside_start ==
  /\ overtaken' = CASE current' # current      -> {c \in starting : seen[c] # {}}
                    [] thread_lock' = NoCpu    -> {}
                    [] OTHER                   -> overtaken
  /\ UNCHANGED <<released, starting, seen>>

boot_step(c) == arch_init(c) \/ thread_become_idle(c)

Next ==
  /\ \E c \in CPUs :
       \/ boot_step(c)
       \/ /\ thread_resched_return(c) \/ thread_step(c) \/ interrupt(c)
          /\ scheduling_beside_start
  /\ UNCHANGED <<use, pinned_cpu>>

Spec == Init /\ [][Next]_<<vars, startvars, use, pinned_cpu>>

(***************************************************************************)
(* The CPU goes on executing, and an interrupt that is due stays pending   *)
(* in the interrupt controller until the CPU takes it.                     *)
(***************************************************************************)
Fairness ==
  \A c \in CPUs :
    /\ WF_startvars(thread_become_idle(c))
    /\ WF_vars(thread_resched_return(c))
    /\ SF_vars(thread_preempt(c))
    /\ SF_vars(thread_timer_tick(c))

FairSpec == Spec /\ Fairness

(***************************************************************************)
(* Properties.                                                             *)
(***************************************************************************)
\* How many times t occurs in sequence s.
Occurrences(s, t) == Cardinality({i \in DOMAIN s : s[i] = t})

(***************************************************************************)
(* The single queue_node of a thread is in the run queue of its priority   *)
(* while it is ready, in the list of the queue it waits on while it is     *)
(* blocked, in no list otherwise, and never in two: wake-ups, timeouts,    *)
(* preemption and priority changes race for it on all CPUs.  The bitmap    *)
(* get_top_thread trusts has a bit for exactly the run queues that are not *)
(* empty: a stale 0 would hide ready threads for ever.                     *)
(***************************************************************************)
QueueNodeExact ==
  /\ \A t \in Threads :
       /\ \A p \in Priorities :
            Occurrences(runq.list[p], t)
              = IF state[t] = "READY" /\ priority[t] = p THEN 1 ELSE 0
       /\ \A q \in WaitQueues :
            Occurrences(list[q], t)
              = IF state[t] = "BLOCKED" /\ frame[t] = q THEN 1 ELSE 0
  /\ runq.bitmap = {p \in Priorities : runq.list[p] # <<>>}

(***************************************************************************)
(* No thread runs on two CPUs, every running thread has a CPU, and a       *)
(* pinned thread has no other CPU than its own: two CPUs choose from the   *)
(* same run queues, while wake-ups and timeouts put threads back.          *)
(***************************************************************************)
RunningExact ==
  /\ \A t \in Threads :
       state[t] = "RUNNING" <=> \E c \in CPUs : current[c] = t
  /\ \A c, d \in CPUs : current[c] = current[d] => c = d
  /\ \A c \in CPUs :
       \/ current[c] = c
       \/ (current[c] \in Threads /\ pinned_cpu[current[c]] \in {NoCpu, c})

(***************************************************************************)
(* The preemption timer of a CPU is queued exactly while the CPU runs a    *)
(* thread that is neither real time nor idle.  Queued once too often,      *)
(* timer_set panics at the next switch; missing, the thread is never       *)
(* preempted.                                                              *)
(***************************************************************************)
PreemptTimerExact ==
  preempt_timer = {c \in CPUs : ~thread_is_real_time_or_idle(current[c])}

(***************************************************************************)
(* No CPU sits idle next to a ready thread, unless an interrupt that will  *)
(* make it look is already on its way.  This takes threads that may run    *)
(* anywhere and do not sleep: nobody is told of a thread that a pinned one *)
(* displaces, nor, on other CPUs, of a thread whose sleep is over.         *)
(***************************************************************************)
WorkConserving ==
  Sleepers = {} /\ Range(pinned_cpu) = {NoCpu} =>
    \A c \in active_cpus \ starting :
      current[c] = c /\ thread_lock = NoCpu /\ ~resched[c] /\ c \notin ipi
        => \A p \in Priorities : Eligible(c, runq.list[p]) = {}

(***************************************************************************)
(* A wait with INFINITE_TIME "waits indefinitely": only a wait that has a  *)
(* timeout ever returns ERR_TIMED_OUT.                                     *)
(***************************************************************************)
OnlyTimedWaitsTimeOut ==
  \A t \in Threads :
    frame[t] # NoQueue /\ block_ret[t] = "ERR_TIMED_OUT" => t \in timed

(***************************************************************************)
(* Round robin: with equal priorities and no real time thread, the         *)
(* preemption tick sees to it that every ready thread gets to run, however *)
(* often the others wake each other to the head of the run queue.          *)
(***************************************************************************)
ReadyThreadRuns == \A t \in Threads : state[t] = "READY" ~> state[t] # "READY"

(***************************************************************************)
(* On one CPU the scheduler implements the wait queues of WaitQueue: the   *)
(* steps in which the run queues, the lock and the interrupts are at work  *)
(* are invisible there, a timer is armed until its callback has run, and   *)
(* every change to a wait queue is one of the atomic operations that the   *)
(* mutex, the semaphore and the event are built from.                      *)
(***************************************************************************)
WQ == INSTANCE WaitQueue WITH
        Queues <- WaitQueues,
        Timeouts <- {"finite", "infinite"},
        block_ret <- [t \in Threads |->
                        IF frame[t] = NoQueue THEN "NO_ERROR" ELSE block_ret[t]],
        timer  <- [t \in Threads |->
                     \/ (timer[t] # NoCpu /\ frame[t] # NoQueue)
                     \/ \E c \in CPUs : callback[c] = <<"timeout", t>>]

ImplementsWaitQueue == WQ!WQSafety

(***************************************************************************)
(* thread_exit wakes the threads blocked in thread_join; when such a       *)
(* thread runs, the dead thread it waited for is still there to be freed.  *)
(***************************************************************************)
JoinerFindsThread ==
  \A t \in Threads :
    frame[t] \in Threads /\ state[t] # "BLOCKED" /\ block_ret[t] = "NO_ERROR"
      => state[frame[t]] = "DEATH"

(***************************************************************************)
(* Joining is safe as long as one thread does it, even if the joined       *)
(* thread detaches itself meanwhile: a blocked joiner waits for a thread   *)
(* that will still wake it, a joiner that was woken, and a thread between  *)
(* the two halves of thread_detach, find the dead thread there.            *)
(***************************************************************************)
JoinSafe ==
  /\ JoinerFindsThread
  /\ \A t \in Threads :
       /\ state[t] = "BLOCKED" /\ frame[t] \in Threads
            => state[frame[t]] \notin {"NONE", "DEATH"} /\ frame[t] \notin detached
       /\ cont[t] \in Threads => state[cont[t]] = "DEATH"
==============================================================================
