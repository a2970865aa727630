--------------------------------- MODULE Sync ---------------------------------
(***************************************************************************)
(* A mutex, a semaphore and an event used by the same threads.  The three  *)
(* objects have a wait queue each, but a thread has only one queue_node,   *)
(* one wait_queue_block_ret and one timer on its stack, which it takes     *)
(* from one object to the next: a thread that timed out of the mutex may   *)
(* go on to wait for the semaphore, and the object it left may be          *)
(* destroyed and initialised again behind its back.                        *)
(***************************************************************************)
EXTENDS Mutex, Semaphore, Event

ASSUME SyncAssumption ==
  /\ Queues = {MutexQueue, SemQueue, EventQueue}
  /\ Cardinality(Queues) = 3

syncvars == <<wqvars, mvars, svars, evars>>

\* The objects are memory that has not been initialised as anything yet.
SyncInit ==
  /\ WQInit
  /\ magic = FALSE /\ holder = NoThread /\ count = 0
  /\ sem_magic = FALSE /\ sem_count = 0 /\ tokens = 0
  /\ event_magic = FALSE /\ signaled = FALSE /\ autounsignal = FALSE /\ budget = 0

(***************************************************************************)
(* A step of one object leaves the other two alone.                        *)
(***************************************************************************)
OnMutex(A) == A /\ UNCHANGED <<svars, evars>>
OnSem(A)   == A /\ UNCHANGED <<mvars, evars>>
OnEvent(A) == A /\ UNCHANGED <<mvars, svars>>

SyncNext ==
  \/ OnMutex(Next)
  \/ OnSem(SemNext)
  \/ OnEvent(EventNext)

SyncSafety == SyncInit /\ [][SyncNext]_syncvars

(***************************************************************************)
(* The scheduler runs every woken thread and armed timers fire; holders    *)
(* let go of the mutex, posts and signals keep coming.  The last three are *)
(* what the callers owe each other, as the comments of the wait functions  *)
(* put it.                                                                 *)
(***************************************************************************)
SyncFairness ==
  /\ \A t \in Threads :
       /\ WF_syncvars(OnMutex(mutex_acquire_return(t)))
       /\ WF_syncvars(OnMutex(mutex_timeout(t)))
       /\ WF_syncvars(OnMutex(mutex_release(t)))
       /\ WF_syncvars(OnSem(sem_wait_return(t)))
       /\ WF_syncvars(OnSem(sem_timeout(t)))
       /\ WF_syncvars(OnEvent(event_wait_return(t)))
       /\ WF_syncvars(OnEvent(event_timeout(t)))
  /\ WF_syncvars(OnSem(sem_post))
  /\ WF_syncvars(OnEvent(event_signal))

SyncSpec == SyncSafety /\ SyncFairness

SyncTypeOK == TypeOK /\ SemTypeOK /\ EventTypeOK

(***************************************************************************)
(* mutex_acquire and sem_wait keep their promise to callers that use no    *)
(* timeouts: in an execution in which nobody uses a timed wait and nobody  *)
(* waits while it holds the mutex, every thread that waits for the mutex   *)
(* or the semaphore leaves the call again, however often the objects are   *)
(* destroyed and initialised again.                                        *)
(***************************************************************************)
UntimedWaitsReturn ==
  [](\A t \in Threads : ~timer[t] /\ (magic /\ holder = t => frame[t] = NoQueue))
    => \A t \in Threads :
         frame[t] \in {MutexQueue, SemQueue} ~> frame[t] = NoQueue

(***************************************************************************)
(* As long as signals keep coming every waiting thread leaves event_wait,  *)
(* even if the event is unsignaled or destroyed behind its back.           *)
(***************************************************************************)
EventWaitReturns ==
  \A t \in Threads : frame[t] = EventQueue ~> frame[t] = NoQueue
===============================================================================
