------------------------------ MODULE Semaphore ------------------------------
(***************************************************************************)
(* kernel/semaphore.c: a counting semaphore whose count goes negative by   *)
(* the number of threads that wait.  A waiter that times out adds its one  *)
(* back itself, but only once it runs again.                               *)
(***************************************************************************)
EXTENDS WaitQueue, FiniteSets

CONSTANTS SemQueue,    \* &sem->wait
          MaxValue,    \* bound: the largest initial value
          MaxTokens    \* bound: posts stop when this many units are unused

ASSUME SemaphoreAssumption ==
  /\ SemQueue \in Queues
  /\ MaxValue \in Nat
  /\ MaxTokens \in Nat
  /\ IsFiniteSet(Threads)

VARIABLES
  sem_magic,   \* sem->wait.magic = WAIT_QUEUE_MAGIC
  sem_count,   \* sem->count
  tokens   \* history: initial value plus posts minus successful waits

svars == <<sem_magic, sem_count, tokens>>
semvars == <<wqvars, svars>>

SemInit ==
  /\ WQInit
  /\ sem_magic = TRUE
  /\ sem_count \in 0..MaxValue
  /\ tokens = sem_count

\* A destroyed semaphore is initialised again, with nobody left inside.
sem_init(value) ==
  /\ ~sem_magic
  /\ \A t \in Threads : frame[t] # SemQueue
  /\ sem_magic' = TRUE
  /\ sem_count' = value
  /\ tokens' = value
  /\ list' = [list EXCEPT ![SemQueue] = <<>>]
  /\ UNCHANGED <<frame, block_ret, timer>>

sem_destroy(t) ==
  /\ frame[t] = NoQueue
  /\ sem_magic
  /\ sem_magic' = FALSE
  /\ sem_count' = 0
  /\ tokens' = 0
  /\ wait_queue_destroy(SemQueue)

\* Mutant: the count is tested before it is incremented.
sem_post_tests_old_count ==
  /\ sem_magic
  /\ tokens < MaxTokens
  /\ sem_count' = sem_count + 1
  /\ IF sem_count + 1 < 0
       THEN /\ wait_queue_wake_one(SemQueue, NO_ERROR)
            /\ tokens' = IF list[SemQueue] = <<>> THEN tokens + 1 ELSE tokens
       ELSE /\ tokens' = tokens + 1
            /\ UNCHANGED wqvars
  /\ UNCHANGED sem_magic

\* If the count is not positive a thread may be waiting: pass it the unit.
\* Threads and interrupt handlers post alike.
sem_post ==
  /\ sem_magic
  /\ tokens < MaxTokens
  /\ sem_count' = sem_count + 1
  /\ IF sem_count + 1 <= 0
       THEN /\ wait_queue_wake_one(SemQueue, NO_ERROR)
            /\ tokens' = IF list[SemQueue] = <<>> THEN tokens + 1 ELSE tokens
       ELSE /\ tokens' = tokens + 1
            /\ UNCHANGED wqvars
  /\ UNCHANGED sem_magic

\* sem_wait and sem_timedwait when a unit is there: --sem->count is not < 0.
sem_wait_available(t) ==
  /\ frame[t] = NoQueue
  /\ sem_magic
  /\ sem_count - 1 >= 0
  /\ sem_count' = sem_count - 1
  /\ tokens' = tokens - 1
  /\ UNCHANGED <<wqvars, sem_magic>>

\* sem_wait and sem_timedwait when there is none.
sem_wait_empty(t, timeout) ==
  /\ frame[t] = NoQueue
  /\ sem_magic
  /\ sem_count - 1 < 0
  /\ \/ /\ timeout = ZERO_TIME
        /\ UNCHANGED <<wqvars, sem_count>>
     \/ /\ sem_count' = sem_count - 1
        /\ wait_queue_block(t, SemQueue, timeout)
  /\ UNCHANGED <<sem_magic, tokens>>

sem_wait(t) == sem_wait_available(t) \/ sem_wait_empty(t, INFINITE_TIME)

sem_timedwait(t, timeout) == sem_wait_available(t) \/ sem_wait_empty(t, timeout)

\* Never blocks; with a count <= 0 it returns ERR_NOT_READY and changes nothing.
sem_trywait(t) ==
  /\ frame[t] = NoQueue
  /\ sem_magic
  /\ sem_count > 0
  /\ sem_count' = sem_count - 1
  /\ tokens' = tokens - 1
  /\ UNCHANGED <<wqvars, sem_magic>>

\* Mutant: every failed wait, not only a timeout, gives its unit back twice.
sem_wait_return_double_backout(t) ==
  /\ frame[t] = SemQueue
  /\ wait_queue_return(t)
  /\ sem_count' = IF block_ret[t] = ERR_TIMED_OUT THEN sem_count + 2 ELSE sem_count
  /\ UNCHANGED <<sem_magic, tokens>>

\* The rest of sem_wait and sem_timedwait after wait_queue_block.
sem_wait_return(t) ==
  /\ frame[t] = SemQueue
  /\ wait_queue_return(t)
  /\ sem_count' = IF block_ret[t] = ERR_TIMED_OUT THEN sem_count + 1 ELSE sem_count
  /\ UNCHANGED <<sem_magic, tokens>>

sem_timeout(t) ==
  /\ frame[t] = SemQueue
  /\ wait_queue_timeout_handler(t)
  /\ UNCHANGED svars

SemNext ==
  \/ \E value \in 0..MaxValue : sem_init(value)
  \/ sem_post
  \/ \E t \in Threads :
       \/ sem_destroy(t)
       \/ sem_wait(t)
       \/ sem_trywait(t)
       \/ \E timeout \in Timeouts : sem_timedwait(t, timeout)
       \/ sem_wait_return(t)
       \/ sem_timeout(t)

SemSpec == SemInit /\ [][SemNext]_semvars

SemTypeOK ==
  /\ WQTypeOK
  /\ sem_magic \in BOOLEAN
  /\ sem_count \in Int
  /\ tokens \in Int

(***************************************************************************)
(* Properties.                                                             *)
(***************************************************************************)
\* Inside a wait that has not been given a unit: blocked, or timed out and
\* not yet backed out.
Pending ==
  {t \in Threads : /\ frame[t] = SemQueue
                   /\ Blocked(t) \/ (Woken(t) /\ block_ret[t] = ERR_TIMED_OUT)}

(***************************************************************************)
(* The semaphore never gives out more units than it was initialised with   *)
(* and was posted, whatever mix of waits, timeouts and posts ran, and      *)
(* sem->count is the unused units minus the waiters that have not been     *)
(* served, those that timed out and have not run yet included.             *)
(***************************************************************************)
SemCountExact ==
  sem_magic => /\ tokens >= 0
               /\ sem_count = tokens - Cardinality(Pending)
==============================================================================
