-------------------------------- MODULE Mutex --------------------------------
(***************************************************************************)
(* kernel/mutex.c: a mutex that hands itself over to the thread at the     *)
(* head of its wait queue.  m->count is the number of threads that own the *)
(* mutex or are inside mutex_acquire_timeout; a thread that times out      *)
(* takes its own contribution back, but only once it runs again.           *)
(***************************************************************************)
EXTENDS WaitQueue, FiniteSets

CONSTANTS MutexQueue,  \* &m->wait
          NoThread     \* NULL

ASSUME MutexAssumption ==
  /\ MutexQueue \in Queues
  /\ NoThread \notin Threads
  /\ IsFiniteSet(Threads)

VARIABLES
  magic,    \* m->magic = MUTEX_MAGIC
  holder,   \* m->holder
  count     \* m->count

mvars == <<magic, holder, count>>
vars == <<wqvars, mvars>>

Init ==
  /\ WQInit
  /\ magic = TRUE
  /\ holder = NoThread
  /\ count = 0

(***************************************************************************)
(* Re-initialising a destroyed mutex.  wait_queue_destroy's contract       *)
(* (kernel/wait.h) puts it on the caller that no thread is still inside.   *)
(***************************************************************************)
mutex_init ==
  /\ ~magic
  /\ \A t \in Threads : frame[t] # MutexQueue
  /\ magic' = TRUE
  /\ holder' = NoThread
  /\ count' = 0
  /\ list' = [list EXCEPT ![MutexQueue] = <<>>]
  /\ UNCHANGED <<frame, block_ret, timer>>

\* The holder may destroy the mutex, and anyone may when it has no holder.
mutex_destroy(t) ==
  /\ frame[t] = NoQueue
  /\ magic
  /\ holder \in {NoThread, t}
  /\ magic' = FALSE
  /\ count' = 0
  /\ wait_queue_destroy(MutexQueue)
  /\ UNCHANGED holder

\* Mutant: the mutex is taken without looking at the count.
mutex_acquire_unchecked(t, timeout) ==
  /\ frame[t] = NoQueue
  /\ magic
  /\ holder # t
  /\ count' = count + 1
  /\ holder' = t
  /\ UNCHANGED <<wqvars, magic>>

\* The mutex is free: ++m->count is 1.  Acquiring a mutex one holds panics.
mutex_acquire_free(t, timeout) ==
  /\ frame[t] = NoQueue
  /\ magic
  /\ holder # t
  /\ count + 1 <= 1
  /\ count' = count + 1
  /\ holder' = t
  /\ UNCHANGED <<wqvars, magic>>

\* The mutex is taken: join the queue, or back out at once if timeout is 0.
mutex_acquire_contended(t, timeout) ==
  /\ frame[t] = NoQueue
  /\ magic
  /\ holder # t
  /\ count + 1 > 1
  /\ \/ /\ timeout = ZERO_TIME
        /\ UNCHANGED <<wqvars, mvars>>
     \/ /\ count' = count + 1
        /\ wait_queue_block(t, MutexQueue, timeout)
        /\ UNCHANGED <<magic, holder>>

mutex_acquire_timeout(t, timeout) ==
  \/ mutex_acquire_free(t, timeout)
  \/ mutex_acquire_contended(t, timeout)

\* Mutant: a timed-out thread does not take its count back.
mutex_acquire_return_no_backout(t) ==
  /\ frame[t] = MutexQueue
  /\ wait_queue_return(t)
  /\ holder' = IF block_ret[t] = NO_ERROR THEN t ELSE holder
  /\ UNCHANGED <<magic, count>>

\* The rest of mutex_acquire_timeout once wait_queue_block has returned.
mutex_acquire_return(t) ==
  /\ frame[t] = MutexQueue
  /\ wait_queue_return(t)
  /\ IF block_ret[t] = NO_ERROR
       THEN holder' = t /\ UNCHANGED count
       ELSE /\ count' = IF block_ret[t] = ERR_TIMED_OUT
                          THEN count - 1 ELSE count
            /\ UNCHANGED holder
  /\ UNCHANGED magic

\* Releasing a mutex one does not hold panics.
mutex_release(t) ==
  /\ frame[t] = NoQueue
  /\ magic
  /\ holder = t
  /\ holder' = NoThread
  /\ count' = count - 1
  /\ IF count - 1 >= 1
       THEN wait_queue_wake_one(MutexQueue, NO_ERROR)
       ELSE UNCHANGED wqvars
  /\ UNCHANGED magic

\* A wait for the mutex times out.
mutex_timeout(t) ==
  /\ frame[t] = MutexQueue
  /\ wait_queue_timeout_handler(t)
  /\ UNCHANGED mvars

Next ==
  \/ mutex_init
  \/ \E t \in Threads :
       \/ mutex_destroy(t)
       \/ \E timeout \in Timeouts : mutex_acquire_timeout(t, timeout)
       \/ mutex_acquire_return(t)
       \/ mutex_release(t)
       \/ mutex_timeout(t)

Spec == Init /\ [][Next]_vars

\* Woken threads get to run, timers fire and holders let go of the mutex.
Fairness ==
  \A t \in Threads : /\ WF_vars(mutex_acquire_return(t))
                     /\ WF_vars(mutex_timeout(t))
                     /\ WF_vars(mutex_release(t))

FairSpec == Spec /\ Fairness

TypeOK ==
  /\ WQTypeOK
  /\ magic \in BOOLEAN
  /\ holder \in Threads \cup {NoThread}
  /\ count \in Int

(***************************************************************************)
(* Properties.                                                             *)
(***************************************************************************)
\* t's wait for the mutex is over, and t has not run since.
Returning(t) == frame[t] = MutexQueue /\ Woken(t)

\* t was handed the mutex and has not run since.
Granted(t) == Returning(t) /\ block_ret[t] = NO_ERROR

Owns(t) == holder = t \/ Granted(t)

Acquiring == {t \in Threads : frame[t] = MutexQueue}

(***************************************************************************)
(* Mutual exclusion, hand-over included: mutex_release passes the mutex to *)
(* a queued thread that only becomes m->holder when it runs, and in that   *)
(* window neither a newcomer nor a timed-out waiter may own it too.        *)
(***************************************************************************)
MutualExclusion ==
  magic => \A t, u \in Threads : Owns(t) /\ Owns(u) => t = u

(***************************************************************************)
(* m->count is exactly the holder plus the threads inside the acquire      *)
(* call: blocked, handed the mutex, or timed out and not yet backed out.   *)
(* A count that drifts makes the fast path wrong for good.                 *)
(***************************************************************************)
CountExact ==
  magic => count = Cardinality(Acquiring \cup ({holder} \ {NoThread}))

(***************************************************************************)
(* "This function waits up to timeout ms for the mutex to become           *)
(* available": a thread that waits for the mutex leaves mutex_acquire      *)
(* again, as long as holders release what they hold.                       *)
(***************************************************************************)
AcquireReturns ==
  \A t \in Threads : frame[t] = MutexQueue ~> frame[t] = NoQueue

==============================================================================
