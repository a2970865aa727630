------------------------------- MODULE MCSched -------------------------------
(* Instances of Sched for TLC. *)
EXTENDS Sched

CONSTANTS t1, t2, t3, c0, c1

MCEqual == [t \in Threads |-> 1]
\* t1, which joins, is below the other two.
MCJoinerLow == [t \in Threads |-> IF t = t1 THEN 1 ELSE 2]
\* t2, which may be pinned, is above the other two.
MCPinnedHigh == [t \in Threads |-> IF t = t2 THEN 2 ELSE 1]

\* Threads that are created, yield, wait without a timeout and wake.
MCPlain ==
  [created |-> Threads, pinned |-> [t \in Threads |-> NoCpu], priorities |-> {},
   timeouts |-> {"infinite"}, sleepers |-> {}, realtimers |-> {}, joiners |-> {},
   detachers |-> {}, exiters |-> {}]

MCUseOf ==
  [plain |-> MCPlain,
   timed |-> [MCPlain EXCEPT !.timeouts = {"finite", "infinite"}],
   \* Every operation.
   all |-> [MCPlain EXCEPT !.timeouts = {"finite", "infinite"}, !.priorities = {0, 9},
                           !.sleepers = {t2}, !.realtimers = {t2}, !.joiners = {t1, t2},
                           !.detachers = {t1, t2}, !.exiters = {t1, t2}],
   \* Two threads, and t2 may only run on c0.
   pinned |-> [MCPlain EXCEPT !.created = {t1, t2}, !.timeouts = {"finite", "infinite"},
                              !.pinned = [t \in Threads |-> IF t = t2 THEN c0 ELSE NoCpu],
                              !.sleepers = {t2}, !.realtimers = {t1}],
   \* t1 joins t2, which exits, and t3 detaches it.
   join |-> [MCPlain EXCEPT !.sleepers = {t3}, !.joiners = {t1}, !.detachers = {t3},
                            !.exiters = {t2}]]

\* Nothing but its own updates reads the mask of idle CPUs, and nobody reads the
\* return code of a wait that is over: states that differ in those only are
\* taken for one.
MCView ==
  <<list, frame, timed, timer, [t \in {u \in Threads : frame[u] # NoQueue} |-> block_ret[t]],
    lifevars, irqvars, state, quantum, runq, current, realtime_cpus,
    preempt_timer, thread_lock, active_cpus, ipi, released, starting,
    {c \in CPUs : seen[c] # {}}, use, pinned_cpu>>
==============================================================================
