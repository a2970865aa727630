----------------------------- MODULE SyncProofs -----------------------------
(***************************************************************************)
(* What TLAPS proves of the mutex, the semaphore and the event, for any    *)
(* finite number of threads: first of the mutex alone and the semaphore    *)
(* alone, then of all three used by the same threads.  There each keeps    *)
(* its guarantees, because a step of one object does nothing to the queue  *)
(* of another that the other can notice.                                   *)
(***************************************************************************)
EXTENDS Sync, WaitQueueProofs, FiniteSetTheorems

-----------------------------------------------------------------------------
(***************************************************************************)
(* kernel/mutex.c: mutual exclusion and the exactness of m->count.         *)
(***************************************************************************)

(***************************************************************************)
(* The inductive invariant.  Mutual exclusion rests on the count, because  *)
(* the fast path looks at nothing else; the count is exact because only a  *)
(* timeout takes a thread out of the queue without the mutex, and because  *)
(* the mutex is handed over only when it has no holder.                    *)
(***************************************************************************)
\* The holder is not inside mutex_acquire.
HolderOutside == holder # NoThread => frame[holder] # MutexQueue

\* The mutex is on its way to one thread at a time, and has no holder then.
OneHandOver ==
  \A t \in Threads : Granted(t) => /\ holder = NoThread
                                   /\ \A u \in Threads : Granted(u) => u = t

\* A wait on a mutex that has not been destroyed succeeds or times out.
WokenForAReason ==
  \A t \in Threads : Returning(t) => block_ret[t] \in {NO_ERROR, ERR_TIMED_OUT}

HandOver == HolderOutside /\ OneHandOver /\ WokenForAReason

MutexType == magic \in BOOLEAN /\ holder \in Threads \cup {NoThread} /\ count \in Int

MutexInv == WQInv /\ MutexType /\ (magic => HandOver) /\ CountExact

(***************************************************************************)
(* The mutex uses its wait queue as WaitQueue allows: every operation of   *)
(* the mutex is an operation of its own wait queue or leaves it alone.     *)
(***************************************************************************)
LEMMA MutexQueueStep ==
  ASSUME WQInv, [Next]_vars
  PROVE  WQAt(MutexQueue)
<1>1. CASE mutex_init
  <2>1. list' = list
    BY <1>1, InitQueueEffect, MutexAssumption DEF mutex_init
  <2> QED
    BY <1>1, <2>1 DEF mutex_init, wqvars, WQAt
<1>2. ASSUME NEW t \in Threads, mutex_destroy(t)
      PROVE  WQAt(MutexQueue)
  BY <1>2 DEF mutex_destroy, wait_queue_destroy, WQAt
<1>3. ASSUME NEW t \in Threads, NEW timeout \in Timeouts, mutex_acquire_timeout(t, timeout)
      PROVE  WQAt(MutexQueue)
  BY <1>3, WaitQueueAssumption
     DEF mutex_acquire_timeout, mutex_acquire_free, mutex_acquire_contended, WQAt
<1>4. ASSUME NEW t \in Threads, mutex_acquire_return(t)
      PROVE  WQAt(MutexQueue)
  BY <1>4 DEF mutex_acquire_return, WQAt
<1>5. ASSUME NEW t \in Threads, mutex_release(t)
      PROVE  WQAt(MutexQueue)
  BY <1>5 DEF mutex_release, WQAt
<1>6. ASSUME NEW t \in Threads, mutex_timeout(t)
      PROVE  WQAt(MutexQueue)
  BY <1>6 DEF mutex_timeout, WQAt
<1>7. CASE UNCHANGED vars
  BY <1>7 DEF vars, WQAt
<1> QED
  BY <1>1, <1>2, <1>3, <1>4, <1>5, <1>6, <1>7 DEF Next

LEMMA MutexWaitQueueStep ==
  ASSUME WQInv, [Next]_vars
  PROVE  [WQNext]_wqvars
BY MutexQueueStep, AtIsNext, MutexAssumption

(***************************************************************************)
(* What the operations of the wait queue do to the sets of threads that    *)
(* have been woken.                                                        *)
(***************************************************************************)
LEMMA WokenOnReturn ==
  ASSUME WQInv, NEW t \in Threads, wait_queue_return(t)
  PROVE  \A u \in Threads : Returning(u)' <=> Returning(u) /\ u # t
BY WaitQueueAssumption, MutexAssumption DEF wait_queue_return, Returning, Woken, WQInv, WQTypeOK

\* What it takes to be woken from the mutex's own queue.
LEMMA ReturningMeans ==
  ASSUME NEW u \in Threads
  PROVE  Returning(u) <=> frame[u] = MutexQueue /\ u \notin Range(list[MutexQueue])
BY MutexAssumption DEF Returning, Woken

LEMMA ReturningMeansPrimed ==
  ASSUME NEW u \in Threads
  PROVE  Returning(u)' <=> frame'[u] = MutexQueue /\ u \notin Range(list'[MutexQueue])
BY MutexAssumption DEF Returning, Woken

LEMMA WokenOnBlock ==
  ASSUME WQInv, NEW t \in Threads, NEW timeout \in AllTimeouts,
         frame[t] = NoQueue, wait_queue_block(t, MutexQueue, timeout)
  PROVE  \A u \in Threads : Returning(u)' <=> Returning(u)
<1>1. MutexQueue \in Queues /\ NoQueue # MutexQueue
  BY MutexAssumption, WaitQueueAssumption
<1>2. list[MutexQueue] \in Seq(Threads)
  BY <1>1 DEF WQInv, WQTypeOK
<1>3. Range(list'[MutexQueue]) = Range(list[MutexQueue]) \cup {t}
  BY <1>1, <1>2, AppendLemma DEF wait_queue_block, WQInv, WQTypeOK
<1>4. \A u \in Threads : frame'[u] = IF u = t THEN MutexQueue ELSE frame[u]
  BY DEF wait_queue_block, WQInv, WQTypeOK
<1> QED
  BY <1>1, <1>3, <1>4, ReturningMeans, ReturningMeansPrimed

LEMMA WokenOnWakeOne ==
  ASSUME WQInv, wait_queue_wake_one(MutexQueue, NO_ERROR), list[MutexQueue] # <<>>
  PROVE  /\ frame' = frame
         /\ Head(list[MutexQueue]) \in Threads
         /\ \A u \in Threads :
              /\ Returning(u)' <=> Returning(u) \/ u = Head(list[MutexQueue])
              /\ block_ret'[u] = IF u = Head(list[MutexQueue]) THEN NO_ERROR
                                                               ELSE block_ret[u]
<1> DEFINE s == list[MutexQueue]
<1>1. MutexQueue \in Queues
  BY MutexAssumption
<1>2. s \in Seq(Threads) /\ IsInjective(s) /\ \A u \in Range(s) : frame[u] = MutexQueue
  BY <1>1 DEF WQInv, WQTypeOK, QueueNodeUnique
<1>3. /\ Head(s) \in Threads /\ Head(s) \in Range(s)
      /\ Range(Tail(s)) = Range(s) \ {Head(s)}
  BY <1>2, TailLemma
<1>4. /\ frame' = frame
      /\ list'[MutexQueue] = Tail(s)
      /\ \A u \in Threads : block_ret'[u] = IF u = Head(s) THEN NO_ERROR ELSE block_ret[u]
  BY <1>1, <1>3 DEF wait_queue_wake_one, WQInv, WQTypeOK
<1> HIDE DEF s
<1>5. ASSUME NEW u \in Threads
      PROVE  Returning(u)' <=> frame[u] = MutexQueue /\ u \notin Range(s) \ {Head(s)}
  BY <1>3, <1>4, ReturningMeansPrimed
<1>6. ASSUME NEW u \in Threads
      PROVE  Returning(u) <=> frame[u] = MutexQueue /\ u \notin Range(s)
  BY ReturningMeans DEF s
<1> QED
  BY <1>2, <1>3, <1>4, <1>5, <1>6 DEF s

LEMMA WokenOnTimeout ==
  ASSUME WQInv, NEW t \in Threads, frame[t] = MutexQueue, wait_queue_timeout_handler(t)
  PROVE  /\ frame' = frame
         /\ \A u \in Threads :
              \/ (Returning(u)' <=> Returning(u)) /\ block_ret'[u] = block_ret[u]
              \/ u = t /\ block_ret'[u] = ERR_TIMED_OUT
<1>1. MutexQueue \in Queues
  BY MutexAssumption
<1>2. frame' = frame
  BY DEF wait_queue_timeout_handler
<1>3. CASE Blocked(t)
  <2>2. /\ list' = [list EXCEPT ![MutexQueue] = RemoveFirst(list[MutexQueue], t)]
        /\ block_ret' = [block_ret EXCEPT ![t] = ERR_TIMED_OUT]
    BY <1>3 DEF wait_queue_timeout_handler, thread_unblock_from_wait_queue
  <2>3. list[MutexQueue] \in Seq(Threads) /\ IsInjective(list[MutexQueue])
    BY <1>1 DEF WQInv, WQTypeOK, QueueNodeUnique
  <2>4. Range(list'[MutexQueue]) = Range(list[MutexQueue]) \ {t}
    BY <1>1, <2>2, <2>3, RemoveFirstLemma DEF WQInv, WQTypeOK
  <2>5. \A u \in Threads : u # t => (Returning(u)' <=> Returning(u))
    BY <1>2, <2>4, ReturningMeans, ReturningMeansPrimed
  <2> QED
    BY <1>2, <2>2, <2>5 DEF WQInv, WQTypeOK
<1>4. CASE ~Blocked(t)
  BY <1>2, <1>4, ReturningMeans, ReturningMeansPrimed
     DEF wait_queue_timeout_handler, thread_unblock_from_wait_queue
<1> QED
  BY <1>3, <1>4

(***************************************************************************)
(* The count, as threads come and go.                                      *)
(***************************************************************************)
Contenders == Acquiring \cup ({holder} \ {NoThread})

LEMMA ContendersFinite ==
  ASSUME MutexType
  PROVE  IsFiniteSet(Contenders) /\ Cardinality(Contenders) \in Nat
<1>1. Contenders \subseteq Threads
  BY DEF Contenders, Acquiring, MutexType
<1> QED
  BY <1>1, MutexAssumption, FS_Subset, FS_CardinalityType

LEMMA CountIsContenders == CountExact <=> (magic => count = Cardinality(Contenders))
BY DEF CountExact, Contenders

LEMMA MutexInitInv == Init => MutexInv
<1> SUFFICES ASSUME Init
             PROVE  MutexInv
  OBVIOUS
<1>1. WQInv
  BY WQInitInv DEF Init
<1>2. MutexType
  BY DEF Init, MutexType
<1>3. \A t \in Threads : frame[t] = NoQueue
  BY DEF Init, WQInit
<1>4. HandOver
  BY <1>3, WaitQueueAssumption
     DEF Init, HandOver, HolderOutside, OneHandOver, WokenForAReason, Granted, Returning, Woken
<1>5. Contenders = {}
  BY <1>3, WaitQueueAssumption, MutexAssumption DEF Contenders, Acquiring, Init
<1>6. CountExact
  BY <1>5, FS_EmptySet, CountIsContenders DEF Init
<1> QED
  BY <1>1, <1>2, <1>4, <1>6 DEF MutexInv

\* mutex_init starts over, with nobody inside.
LEMMA InitStep ==
  ASSUME MutexInv, WQInv', mutex_init
  PROVE  MutexInv'
<1>1. /\ MutexType'
      /\ holder' = NoThread /\ count' = 0
      /\ \A t \in Threads : frame'[t] # MutexQueue
  BY DEF mutex_init, MutexType, MutexInv
<1>2. HandOver'
  BY <1>1, WaitQueueAssumption
     DEF HandOver, HolderOutside, OneHandOver, WokenForAReason, Granted, Returning, Woken
<1>3. Contenders' = {}
  BY <1>1, WaitQueueAssumption, MutexAssumption DEF Contenders, Acquiring
<1>4. CountExact'
  BY <1>1, <1>3, FS_EmptySet DEF CountExact, Contenders
<1> QED
  BY <1>1, <1>2, <1>4 DEF MutexInv

\* The fast path: a count of zero means that nobody owns or wants the mutex.
LEMMA AcquireFreeStep ==
  ASSUME MutexInv, WQInv', NEW t \in Threads, NEW timeout, mutex_acquire_free(t, timeout)
  PROVE  MutexInv'
<1>1. /\ magic /\ magic' = magic /\ holder' = t /\ count' = count + 1
      /\ count <= 0 /\ frame[t] = NoQueue
      /\ list' = list /\ frame' = frame /\ block_ret' = block_ret
  BY DEF mutex_acquire_free, wqvars, MutexInv, MutexType
<1>2. MutexType'
  BY <1>1 DEF MutexInv, MutexType
<1>3. count = 0 /\ Contenders = {}
  <2>1. count = Cardinality(Contenders)
    BY <1>1, CountIsContenders DEF MutexInv
  <2>2. IsFiniteSet(Contenders) /\ Cardinality(Contenders) \in Nat
    BY ContendersFinite DEF MutexInv
  <2>3. count = 0
    BY <1>1, <2>1, <2>2
  <2> QED
    BY <2>1, <2>2, <2>3, FS_EmptySet
<1>4. \A u \in Threads : frame[u] # MutexQueue
  BY <1>3 DEF Contenders, Acquiring
<1>5. \A u \in Threads : ~Returning(u)'
  BY <1>1, <1>4, MutexAssumption DEF Returning, Woken
<1>6. HandOver'
  BY <1>1, <1>5, WaitQueueAssumption, MutexAssumption
     DEF HandOver, HolderOutside, OneHandOver, WokenForAReason, Granted
<1>7. Contenders' = {t}
  BY <1>1, <1>4, MutexAssumption DEF Contenders, Acquiring
<1>8. CountExact'
  BY <1>1, <1>3, <1>7, FS_Singleton DEF CountExact, Contenders
<1> QED
  BY <1>2, <1>6, <1>8 DEF MutexInv

\* A thread that queues up is a contender more, and changes no hand-over.
LEMMA AcquireContendedStep ==
  ASSUME MutexInv, WQInv', NEW t \in Threads, NEW timeout \in AllTimeouts,
         mutex_acquire_contended(t, timeout)
  PROVE  MutexInv'
<1>1. CASE UNCHANGED <<wqvars, mvars>>
  BY <1>1 DEF wqvars, mvars, MutexInv, MutexType, HandOver, HolderOutside, OneHandOver,
              WokenForAReason, Granted, Returning, Woken, CountExact, Acquiring
<1>2. CASE /\ count' = count + 1
           /\ wait_queue_block(t, MutexQueue, timeout)
           /\ UNCHANGED <<magic, holder>>
  <2>1. magic /\ frame[t] = NoQueue /\ holder # t
    BY DEF mutex_acquire_contended
  <2>2. MutexType'
    BY <1>2 DEF MutexInv, MutexType
  <2>3. \A u \in Threads : /\ Returning(u)' <=> Returning(u)
                           /\ frame'[u] = IF u = t THEN MutexQueue ELSE frame[u]
                           /\ u # t => block_ret'[u] = block_ret[u]
    BY <1>2, <2>1, WokenOnBlock DEF MutexInv, WQInv, WQTypeOK, wait_queue_block
  <2>4. ~Returning(t)
    BY <2>1, WaitQueueAssumption DEF Returning, Woken
  <2>5. HandOver'
    BY <1>2, <2>1, <2>3, <2>4
       DEF MutexInv, MutexType, HandOver, HolderOutside, OneHandOver, WokenForAReason, Granted
  <2>6. /\ Contenders' = Contenders \cup {t}
        /\ t \notin Contenders
    BY <1>2, <2>1, <2>3, WaitQueueAssumption, MutexAssumption DEF Contenders, Acquiring
  <2>7. CountExact'
    <3>1. count = Cardinality(Contenders) /\ IsFiniteSet(Contenders)
      BY <2>1, ContendersFinite, CountIsContenders DEF MutexInv
    <3>2. Cardinality(Contenders') = Cardinality(Contenders) + 1
      BY <2>6, <3>1, FS_AddElement
    <3> QED
      BY <1>2, <3>1, <3>2 DEF CountExact, Contenders
  <2> QED
    BY <2>2, <2>5, <2>7 DEF MutexInv
<1> QED
  BY <1>1, <1>2 DEF mutex_acquire_contended, mvars, wqvars

\* The end of mutex_acquire: the thread becomes the holder or backs out.
LEMMA AcquireReturnStep ==
  ASSUME MutexInv, WQInv', NEW t \in Threads, mutex_acquire_return(t)
  PROVE  MutexInv'
<1>1. /\ wait_queue_return(t) /\ magic' = magic
      /\ Returning(t) /\ frame[t] = MutexQueue
      /\ \A u \in Threads : frame'[u] = IF u = t THEN NoQueue ELSE frame[u]
      /\ \A u \in Threads : u # t => block_ret'[u] = block_ret[u]
  BY MutexAssumption
     DEF mutex_acquire_return, wait_queue_return, Returning, Woken, MutexInv, WQInv, WQTypeOK
<1>2. MutexType'
  BY DEF mutex_acquire_return, MutexInv, MutexType
<1>3. \A u \in Threads : Returning(u)' <=> Returning(u) /\ u # t
  BY <1>1, WokenOnReturn DEF MutexInv
<1>4. ASSUME magic
      PROVE  HandOver' /\ CountExact'
  <2>1. /\ count = Cardinality(Contenders) /\ IsFiniteSet(Contenders)
        /\ HolderOutside /\ OneHandOver /\ WokenForAReason
    BY <1>4, ContendersFinite, CountIsContenders DEF MutexInv, HandOver
  <2>2. CASE block_ret[t] = NO_ERROR
    <3>1. holder' = t /\ count' = count
      BY <2>2 DEF mutex_acquire_return
    <3>2. holder = NoThread /\ \A u \in Threads : Granted(u) => u = t
      BY <1>1, <2>1, <2>2 DEF OneHandOver, Granted
    <3>3. HandOver'
      BY <1>1, <1>3, <2>1, <3>1, <3>2, WaitQueueAssumption, MutexAssumption
         DEF HandOver, HolderOutside, OneHandOver, WokenForAReason, Granted
    <3>4. Contenders' = Contenders
      BY <1>1, <3>1, <3>2, WaitQueueAssumption, MutexAssumption DEF Contenders, Acquiring
    <3> QED
      BY <2>1, <3>1, <3>3, <3>4 DEF CountExact, Contenders
  <2>3. CASE block_ret[t] # NO_ERROR
    <3>1. block_ret[t] = ERR_TIMED_OUT
      BY <1>1, <2>1, <2>3 DEF WokenForAReason
    <3>2. holder' = holder /\ count' = count - 1
      BY <2>3, <3>1 DEF mutex_acquire_return
    <3>3. holder # t
      BY <1>1, <2>1, WaitQueueAssumption, MutexAssumption DEF HolderOutside
    <3>4. HandOver'
      BY <1>1, <1>3, <2>1, <3>2, <3>3
         DEF HandOver, HolderOutside, OneHandOver, WokenForAReason, Granted,
             MutexInv, MutexType
    <3>5. Contenders' = Contenders \ {t} /\ t \in Contenders
      BY <1>1, <3>2, <3>3, WaitQueueAssumption, MutexAssumption DEF Contenders, Acquiring
    <3>6. Cardinality(Contenders') = Cardinality(Contenders) - 1
      BY <2>1, <3>5, FS_RemoveElement
    <3> QED
      BY <2>1, <3>2, <3>4, <3>6 DEF CountExact, Contenders
  <2> QED
    BY <2>2, <2>3
<1> QED
  BY <1>1, <1>2, <1>4 DEF MutexInv, CountExact

\* mutex_release hands the mutex to at most one thread.
LEMMA ReleaseStep ==
  ASSUME MutexInv, WQInv', NEW t \in Threads, mutex_release(t)
  PROVE  MutexInv'
<1>1. /\ frame[t] = NoQueue /\ magic /\ holder = t
      /\ holder' = NoThread /\ count' = count - 1 /\ magic' = magic
  BY DEF mutex_release
<1>2. MutexType'
  BY <1>1 DEF MutexInv, MutexType
<1>3. /\ count = Cardinality(Contenders) /\ IsFiniteSet(Contenders)
      /\ OneHandOver /\ WokenForAReason
  BY <1>1, ContendersFinite, CountIsContenders DEF MutexInv, HandOver
<1>4. \A u \in Threads : ~Granted(u)
  BY <1>1, <1>3, MutexAssumption DEF OneHandOver
<1>5. frame' = frame
  BY DEF mutex_release, wait_queue_wake_one, wqvars
<1>6. HandOver'
  <2>1. CASE wait_queue_wake_one(MutexQueue, NO_ERROR) /\ list[MutexQueue] # <<>>
    BY <1>1, <1>3, <1>4, <2>1, WokenOnWakeOne
       DEF MutexInv, HandOver, HolderOutside, OneHandOver, WokenForAReason, Granted
  <2>2. CASE UNCHANGED <<list, frame, block_ret>>
    BY <1>1, <1>3, <1>4, <2>2
       DEF HandOver, HolderOutside, OneHandOver, WokenForAReason, Granted, Returning, Woken
  <2> QED
    BY <2>1, <2>2 DEF mutex_release, wait_queue_wake_one, wqvars
<1>7. Contenders' = Contenders \ {t} /\ t \in Contenders
  BY <1>1, <1>5, WaitQueueAssumption, MutexAssumption DEF Contenders, Acquiring
<1>8. CountExact'
  <2>1. Cardinality(Contenders') = Cardinality(Contenders) - 1
    BY <1>3, <1>7, FS_RemoveElement
  <2> QED
    BY <1>1, <1>3, <2>1 DEF CountExact, Contenders
<1> QED
  BY <1>2, <1>6, <1>8 DEF MutexInv

\* A timeout never wakes a thread with the mutex.
LEMMA TimeoutStep ==
  ASSUME MutexInv, WQInv', NEW t \in Threads, mutex_timeout(t)
  PROVE  MutexInv'
<1>1. /\ frame[t] = MutexQueue /\ wait_queue_timeout_handler(t)
      /\ magic' = magic /\ holder' = holder /\ count' = count
  BY DEF mutex_timeout, mvars
<1>2. /\ frame' = frame
      /\ \A u \in Threads :
           \/ (Returning(u)' <=> Returning(u)) /\ block_ret'[u] = block_ret[u]
           \/ u = t /\ block_ret'[u] = ERR_TIMED_OUT
  BY <1>1, WokenOnTimeout DEF MutexInv
<1>3. \A u \in Threads : Granted(u)' => Granted(u)
  BY <1>2 DEF Granted, NO_ERROR, ERR_TIMED_OUT
<1>4. ASSUME magic
      PROVE  HandOver'
  <2>1. HandOver
    BY <1>4 DEF MutexInv
  <2>2. HolderOutside' /\ WokenForAReason'
    BY <1>1, <1>2, <2>1 DEF HandOver, HolderOutside, WokenForAReason
  <2>3. OneHandOver'
    BY <1>1, <1>3, <2>1 DEF HandOver, OneHandOver
  <2> QED
    BY <2>2, <2>3 DEF HandOver
<1> QED
  BY <1>1, <1>2, <1>4 DEF MutexInv, MutexType, CountExact, Acquiring

\* Every operation of the mutex preserves the invariant.
LEMMA MutexNextInv == MutexInv /\ [Next]_vars => MutexInv'
<1> SUFFICES ASSUME MutexInv, [Next]_vars
             PROVE  MutexInv'
  OBVIOUS
<1>0. WQInv'
  BY MutexWaitQueueStep, WQNextInv DEF MutexInv
<1>1. CASE mutex_init
  BY <1>0, <1>1, InitStep
<1>2. ASSUME NEW t \in Threads, mutex_destroy(t)
      PROVE  MutexInv'
  <2>1. magic' = FALSE /\ holder' = holder /\ count' = 0
    BY <1>2 DEF mutex_destroy
  <2>2. MutexType'
    <3>1. magic' \in BOOLEAN
      BY <2>1, Zenon
    <3>2. holder' \in Threads \cup {NoThread} /\ count' \in Int
      BY <2>1 DEF MutexInv, MutexType
    <3> QED
      BY <3>1, <3>2, Zenon DEF MutexType
  <2>3. ~(magic')
    BY <2>1
  <2> QED
    BY <1>0, <2>2, <2>3, Zenon DEF MutexInv, CountExact
<1>3. ASSUME NEW t \in Threads, NEW timeout \in Timeouts, mutex_acquire_timeout(t, timeout)
      PROVE  MutexInv'
  BY <1>0, <1>3, AcquireFreeStep, AcquireContendedStep, WaitQueueAssumption
     DEF mutex_acquire_timeout
<1>4. ASSUME NEW t \in Threads, mutex_acquire_return(t)
      PROVE  MutexInv'
  BY <1>0, <1>4, AcquireReturnStep
<1>5. ASSUME NEW t \in Threads, mutex_release(t)
      PROVE  MutexInv'
  BY <1>0, <1>5, ReleaseStep
<1>6. ASSUME NEW t \in Threads, mutex_timeout(t)
      PROVE  MutexInv'
  BY <1>0, <1>6, TimeoutStep
<1>7. CASE UNCHANGED vars
  BY <1>0, <1>7 DEF vars, wqvars, mvars, MutexInv, MutexType, HandOver, HolderOutside,
                    OneHandOver, WokenForAReason, Granted, Returning, Woken, CountExact, Acquiring
<1> QED
  BY <1>1, <1>2, <1>3, <1>4, <1>5, <1>6, <1>7 DEF Next

\* The inductive invariant holds in every execution of the mutex.
LEMMA MutexInvariance == Spec => []MutexInv
BY MutexInitInv, MutexNextInv, PTL DEF Spec

(***************************************************************************)
(* The variables of kernel/mutex.c and of its wait queue keep their types. *)
(***************************************************************************)
THEOREM MutexTypeCorrect == Spec => []TypeOK
<1>1. MutexInv => TypeOK
  BY DEF MutexInv, WQInv, MutexType, TypeOK
<1> QED
  BY <1>1, MutexInvariance, PTL

(***************************************************************************)
(* Mutual exclusion: whatever threads acquire, release, time out of and    *)
(* destroy the mutex, two of them never own it together, not even while    *)
(* mutex_release is handing it to a thread that has yet to run.            *)
(***************************************************************************)
THEOREM MutexExcludes == Spec => []MutualExclusion
<1>1. MutexInv => MutualExclusion
  <2> SUFFICES ASSUME MutexInv, magic, NEW t \in Threads, NEW u \in Threads,
                      Owns(t), Owns(u)
               PROVE  t = u
    BY DEF MutualExclusion
  <2> QED
    BY MutexAssumption DEF MutexInv, HandOver, OneHandOver, Owns
<1> QED
  BY <1>1, MutexInvariance, PTL

(***************************************************************************)
(* m->count is exact: the holder and the threads inside mutex_acquire.     *)
(***************************************************************************)
THEOREM MutexCountIsExact == Spec => []CountExact
<1>1. MutexInv => CountExact
  BY DEF MutexInv
<1> QED
  BY <1>1, MutexInvariance, PTL

(***************************************************************************)
(* The mutex implements the wait queue it is built on: what is proved of   *)
(* the wait queues holds for the one inside a mutex.                       *)
(***************************************************************************)
THEOREM MutexImplementsWaitQueue == Spec => WQSafety
<1>1. Init => WQInit
  BY DEF Init
<1>2. MutexInv /\ [Next]_vars => [WQNext]_wqvars
  BY MutexWaitQueueStep DEF MutexInv
<1> QED
  BY <1>1, <1>2, MutexInvariance, PTL DEF Spec, WQSafety

-----------------------------------------------------------------------------
(***************************************************************************)
(* kernel/semaphore.c: the count.                                          *)
(***************************************************************************)

(***************************************************************************)
(* The inductive invariant.  The count alone is not inductive: a waiter    *)
(* gives its unit back only for ERR_TIMED_OUT, so that nothing but a post  *)
(* and a timeout may take a thread off the queue of a live semaphore.      *)
(***************************************************************************)
SemType == sem_magic \in BOOLEAN /\ sem_count \in Int /\ tokens \in Int

\* A wait on a semaphore that has not been destroyed succeeds or times out.
ServedOrTimedOut ==
  \A t \in Threads : frame[t] = SemQueue /\ Woken(t)
                       => block_ret[t] \in {NO_ERROR, ERR_TIMED_OUT}

SemInv == WQInv /\ SemType /\ (sem_magic => ServedOrTimedOut) /\ SemCountExact

(***************************************************************************)
(* The semaphore's operations are operations of its own wait queue.        *)
(***************************************************************************)
LEMMA SemQueueStep ==
  ASSUME WQInv, [SemNext]_semvars
  PROVE  WQAt(SemQueue)
<1>1. ASSUME NEW value, sem_init(value)
      PROVE  WQAt(SemQueue)
  <2>1. list' = list
    BY <1>1, InitQueueEffect, SemaphoreAssumption DEF sem_init
  <2> QED
    BY <1>1, <2>1 DEF sem_init, wqvars, WQAt
<1>2. CASE sem_post
  BY <1>2 DEF sem_post, WQAt
<1>3. ASSUME NEW t \in Threads, sem_destroy(t)
      PROVE  WQAt(SemQueue)
  BY <1>3 DEF sem_destroy, wait_queue_destroy, WQAt
<1>4. ASSUME NEW t \in Threads, sem_wait_available(t) \/ sem_trywait(t)
      PROVE  WQAt(SemQueue)
  BY <1>4 DEF sem_wait_available, sem_trywait, WQAt
<1>5. ASSUME NEW t \in Threads, NEW timeout \in AllTimeouts, sem_wait_empty(t, timeout)
      PROVE  WQAt(SemQueue)
  BY <1>5 DEF sem_wait_empty, WQAt
<1>6. ASSUME NEW t \in Threads, sem_wait_return(t) \/ sem_timeout(t)
      PROVE  WQAt(SemQueue)
  BY <1>6 DEF sem_wait_return, sem_timeout, WQAt
<1>7. CASE UNCHANGED semvars
  BY <1>7 DEF semvars, WQAt
<1> QED
  BY <1>1, <1>2, <1>3, <1>4, <1>5, <1>6, <1>7, WaitQueueAssumption
     DEF SemNext, sem_wait, sem_timedwait, AllTimeouts

(***************************************************************************)
(* The waiters without a unit, as the list and the return codes give them. *)
(***************************************************************************)
Waiting(t) == frame[t] = SemQueue /\ (t \in Range(list[SemQueue]) \/ block_ret[t] = ERR_TIMED_OUT)

LEMMA PendingMeans == Pending = {t \in Threads : Waiting(t)}
BY SemaphoreAssumption DEF Pending, Waiting, Blocked, Woken

LEMMA ServedMeans ==
  ServedOrTimedOut <=>
    \A t \in Threads : frame[t] = SemQueue /\ t \notin Range(list[SemQueue])
                         => block_ret[t] \in {NO_ERROR, ERR_TIMED_OUT}
BY SemaphoreAssumption DEF ServedOrTimedOut, Woken

LEMMA PendingFinite == IsFiniteSet(Pending) /\ Cardinality(Pending) \in Nat
<1>1. Pending \subseteq Threads
  BY DEF Pending
<1> QED
  BY <1>1, SemaphoreAssumption, FS_Subset, FS_CardinalityType

\* The invariant of a live semaphore, from what a step does to the waiters.
LEMMA SemKeeps ==
  ASSUME SemInv, WQInv', SemType', sem_magic' = sem_magic, tokens' >= 0, ServedOrTimedOut',
         sem_magic => sem_count' - sem_count + Cardinality(Pending')
                        = tokens' - tokens + Cardinality(Pending)
  PROVE  SemInv'
<1>1. Cardinality(Pending) \in Nat
  BY PendingFinite
<1>2. IsFiniteSet(Pending') /\ Cardinality(Pending') \in Nat
  <2>1. Pending' \subseteq Threads
    BY DEF Pending
  <2> QED
    BY <2>1, SemaphoreAssumption, FS_Subset, FS_CardinalityType
<1>3. SemCountExact'
  BY <1>1, <1>2 DEF SemInv, SemType, SemCountExact
<1> QED
  BY <1>3 DEF SemInv

\* A step that leaves the waiters and their return codes alone.
LEMMA SemSameWaiters ==
  ASSUME SemInv, Untouched(SemQueue)
  PROVE  /\ Pending' = Pending
         /\ ServedOrTimedOut => ServedOrTimedOut'
<1>1. Pending' = {t \in Threads : Waiting(t)'}
  BY SemaphoreAssumption DEF Pending, Waiting, Blocked, Woken
<1>2. \A t \in Threads : Waiting(t)' <=> Waiting(t)
  BY DEF Untouched, Waiting
<1>3. ServedOrTimedOut => ServedOrTimedOut'
  BY SemaphoreAssumption DEF Untouched, ServedOrTimedOut, Woken
<1> QED
  BY <1>1, <1>2, <1>3, PendingMeans

LEMMA SemInitInv == SemInit => SemInv
<1> SUFFICES ASSUME SemInit
             PROVE  SemInv
  OBVIOUS
<1>1. \A t \in Threads : frame[t] # SemQueue
  BY SemaphoreAssumption, WaitQueueAssumption DEF SemInit, WQInit
<1>2. Pending = {} /\ ServedOrTimedOut
  BY <1>1 DEF Pending, ServedOrTimedOut
<1>3. WQInv /\ SemType /\ tokens >= 0 /\ sem_count = tokens
  BY WQInitInv, SemaphoreAssumption DEF SemInit, SemType
<1>4. SemCountExact
  BY <1>2, <1>3, FS_EmptySet DEF SemCountExact, SemType
<1> QED
  BY <1>2, <1>3, <1>4 DEF SemInv

\* sem_init starts over, with nobody inside.
LEMMA SemInitStep ==
  ASSUME SemInv, WQInv', NEW value \in 0 .. MaxValue, sem_init(value)
  PROVE  SemInv'
<1>1. \A t \in Threads : frame'[t] # SemQueue
  BY DEF sem_init
<1>2. Pending' = {} /\ ServedOrTimedOut'
  BY <1>1 DEF Pending, ServedOrTimedOut
<1>3. SemType' /\ tokens' >= 0 /\ sem_count' = tokens'
  BY SemaphoreAssumption DEF sem_init, SemType
<1>4. SemCountExact'
  BY <1>2, <1>3, FS_EmptySet DEF SemCountExact, SemType
<1> QED
  BY <1>2, <1>3, <1>4 DEF SemInv

LEMMA SemDestroyStep ==
  ASSUME SemInv, WQInv', NEW t \in Threads, sem_destroy(t)
  PROVE  SemInv'
<1>1. sem_magic' = FALSE /\ sem_count' = 0 /\ tokens' = 0
  BY DEF sem_destroy
<1>2. SemType'
  <2>1. sem_magic' \in BOOLEAN
    BY <1>1, Zenon
  <2>2. sem_count' \in Int /\ tokens' \in Int
    BY <1>1
  <2> QED
    BY <2>1, <2>2, Zenon DEF SemType
<1> QED
  BY <1>1, <1>2 DEF SemInv, SemCountExact

\* A post serves the head of the queue, or leaves a unit for the next wait.
LEMMA SemPostStep ==
  ASSUME SemInv, WQInv', sem_post
  PROVE  SemInv'
<1>1. /\ sem_magic /\ sem_magic' = sem_magic /\ sem_count' = sem_count + 1
      /\ sem_count \in Int /\ tokens \in Int /\ tokens >= 0 /\ ServedOrTimedOut
  BY DEF sem_post, SemInv, SemType, SemCountExact
<1>2. CASE UNCHANGED wqvars /\ tokens' = tokens + 1
  <2>1. Pending' = Pending /\ ServedOrTimedOut'
    BY <1>1, <1>2, UnchangedUntouched, SemSameWaiters
  <2>2. SemType' /\ tokens' >= 0
    BY <1>1, <1>2 DEF SemInv, SemType
  <2> QED
    BY <1>1, <1>2, <2>1, <2>2, SemKeeps, PendingFinite
<1>3. CASE /\ list[SemQueue] # <<>> /\ tokens' = tokens
           /\ wait_queue_wake_one(SemQueue, NO_ERROR)
  <2> DEFINE h == Head(list[SemQueue])
  <2>1. /\ h \in Threads /\ h \in Range(list[SemQueue])
        /\ Range(list'[SemQueue]) = Range(list[SemQueue]) \ {h}
        /\ frame' = frame
        /\ \A u \in Threads : block_ret'[u] = IF u = h THEN NO_ERROR ELSE block_ret[u]
    BY <1>3, WakeOneEffect, SemaphoreAssumption DEF SemInv
  <2>2. frame[h] = SemQueue
    BY <2>1, SemaphoreAssumption DEF SemInv, WQInv, QueueNodeUnique
  <2> HIDE DEF h
  <2>3. Pending' = Pending \ {h} /\ h \in Pending
    <3>1. Pending' = {u \in Threads : Waiting(u)'}
      BY SemaphoreAssumption DEF Pending, Waiting, Blocked, Woken
    <3>2. \A u \in Threads : Waiting(u)' <=> Waiting(u) /\ u # h
      BY <2>1 DEF Waiting, NO_ERROR, ERR_TIMED_OUT
    <3>3. Waiting(h)
      BY <2>1, <2>2 DEF Waiting
    <3> QED
      BY <2>1, <3>1, <3>2, <3>3, PendingMeans
  <2>4. ServedOrTimedOut'
    BY <1>1, <2>1, SemaphoreAssumption DEF ServedOrTimedOut, Woken
  <2>5. Cardinality(Pending') = Cardinality(Pending) - 1
    BY <2>3, PendingFinite, FS_RemoveElement
  <2>6. SemType' /\ tokens' >= 0
    BY <1>1, <1>3 DEF SemInv, SemType
  <2> QED
    BY <1>1, <1>3, <2>4, <2>5, <2>6, SemKeeps, PendingFinite
<1> QED
  BY <1>2, <1>3 DEF sem_post, wait_queue_wake_one, wqvars

\* A unit is taken: the count was positive, and so was the number of units.
LEMMA SemTakeStep ==
  ASSUME SemInv, WQInv', NEW t \in Threads, sem_wait_available(t) \/ sem_trywait(t)
  PROVE  SemInv'
<1>1. /\ sem_magic /\ sem_magic' = sem_magic /\ UNCHANGED wqvars
      /\ sem_count \in Int /\ tokens \in Int /\ ServedOrTimedOut
      /\ sem_count' = sem_count - 1 /\ tokens' = tokens - 1 /\ sem_count >= 1
  BY DEF sem_wait_available, sem_trywait, SemInv, SemType
<1>2. Pending' = Pending /\ ServedOrTimedOut'
  BY <1>1, UnchangedUntouched, SemSameWaiters
<1>3. tokens' >= 0
  BY <1>1, PendingFinite DEF SemInv, SemCountExact
<1>4. SemType'
  BY <1>1 DEF SemInv, SemType
<1> QED
  BY <1>1, <1>2, <1>3, <1>4, SemKeeps, PendingFinite

\* There is no unit: a waiter more, or nothing at all with a timeout of 0.
LEMMA SemBlockStep ==
  ASSUME SemInv, WQInv', NEW t \in Threads, NEW timeout, sem_wait_empty(t, timeout)
  PROVE  SemInv'
<1>1. /\ sem_magic /\ sem_magic' = sem_magic /\ tokens' = tokens /\ frame[t] = NoQueue
      /\ sem_count \in Int /\ tokens \in Int /\ tokens >= 0 /\ ServedOrTimedOut
  BY DEF sem_wait_empty, SemInv, SemType, SemCountExact
<1>2. CASE UNCHANGED <<wqvars, sem_count>>
  <2>1. Pending' = Pending /\ ServedOrTimedOut'
    BY <1>1, <1>2, UnchangedUntouched, SemSameWaiters
  <2>2. SemType' /\ tokens' >= 0
    BY <1>1, <1>2 DEF SemInv, SemType
  <2> QED
    BY <1>1, <1>2, <2>1, <2>2, SemKeeps, PendingFinite
<1>3. CASE sem_count' = sem_count - 1 /\ wait_queue_block(t, SemQueue, timeout)
  <2>1. /\ Range(list'[SemQueue]) = Range(list[SemQueue]) \cup {t}
        /\ \A u \in Threads : frame'[u] = IF u = t THEN SemQueue ELSE frame[u]
        /\ \A u \in Threads : block_ret'[u] = IF u = t THEN NO_ERROR ELSE block_ret[u]
    BY <1>1, <1>3, BlockEffect, SemaphoreAssumption DEF SemInv
  <2>2. Pending' = Pending \cup {t} /\ t \notin Pending
    <3>1. Pending' = {u \in Threads : Waiting(u)'}
      BY SemaphoreAssumption DEF Pending, Waiting, Blocked, Woken
    <3>2. \A u \in Threads : Waiting(u)' <=> Waiting(u) \/ u = t
      BY <2>1 DEF Waiting
    <3>3. ~Waiting(t)
      BY <1>1, SemaphoreAssumption, WaitQueueAssumption DEF Waiting
    <3> QED
      BY <3>1, <3>2, <3>3, PendingMeans
  <2>3. ServedOrTimedOut'
    BY <1>1, <2>1, SemaphoreAssumption DEF ServedOrTimedOut, Woken
  <2>4. Cardinality(Pending') = Cardinality(Pending) + 1
    BY <2>2, PendingFinite, FS_AddElement
  <2>5. SemType' /\ tokens' >= 0
    BY <1>1, <1>3 DEF SemInv, SemType
  <2> QED
    BY <1>1, <1>3, <2>3, <2>4, <2>5, SemKeeps, PendingFinite
<1> QED
  BY <1>2, <1>3 DEF sem_wait_empty

\* A wait ends: a served thread changes nothing, a timed-out one backs out.
LEMMA SemReturnStep ==
  ASSUME SemInv, WQInv', NEW t \in Threads, sem_wait_return(t)
  PROVE  SemInv'
<1>1. /\ frame[t] = SemQueue /\ wait_queue_return(t)
      /\ sem_magic' = sem_magic /\ tokens' = tokens
      /\ sem_count \in Int /\ tokens \in Int
      /\ sem_count' = IF block_ret[t] = ERR_TIMED_OUT THEN sem_count + 1 ELSE sem_count
  BY DEF sem_wait_return, SemInv, SemType
<1>2. SemType'
  BY <1>1 DEF SemInv, SemType
<1>3. CASE ~sem_magic
  BY <1>1, <1>2, <1>3 DEF SemInv, SemCountExact
<1>4. CASE sem_magic
  <2>1. /\ list' = list /\ t \notin Range(list[SemQueue])
        /\ \A u \in Threads : frame'[u] = IF u = t THEN NoQueue ELSE frame[u]
        /\ \A u \in Threads : block_ret'[u] = IF u = t THEN NO_ERROR ELSE block_ret[u]
    BY <1>1, ReturnEffect DEF SemInv
  <2>2. Pending' = Pending \ {t}
    <3>1. Pending' = {u \in Threads : Waiting(u)'}
      BY SemaphoreAssumption DEF Pending, Waiting, Blocked, Woken
    <3>2. \A u \in Threads : Waiting(u)' <=> Waiting(u) /\ u # t
      BY <2>1, SemaphoreAssumption, WaitQueueAssumption DEF Waiting
    <3> QED
      BY <3>1, <3>2, PendingMeans
  <2>3. t \in Pending <=> block_ret[t] = ERR_TIMED_OUT
    BY <1>1, <2>1, PendingMeans DEF Waiting
  <2>4. ServedOrTimedOut'
    BY <1>4, <2>1, SemaphoreAssumption, WaitQueueAssumption
       DEF SemInv, ServedOrTimedOut, Woken
  <2>5. Cardinality(Pending') = Cardinality(Pending) - (IF t \in Pending THEN 1 ELSE 0)
    <3>1. CASE t \in Pending
      BY <2>2, <3>1, PendingFinite, FS_RemoveElement
    <3>2. CASE t \notin Pending
      <4>1. Pending' = Pending
        BY <2>2, <3>2
      <4> QED
        BY <3>2, <4>1, PendingFinite
    <3> QED
      BY <3>1, <3>2
  <2>6. tokens' >= 0
    BY <1>1, <1>4 DEF SemInv, SemCountExact
  <2> QED
    BY <1>1, <1>2, <2>3, <2>4, <2>5, <2>6, SemKeeps, PendingFinite
<1> QED
  BY <1>3, <1>4

\* A waiter that times out goes on counting until it runs.
LEMMA SemTimeoutStep ==
  ASSUME SemInv, WQInv', NEW t \in Threads, sem_timeout(t)
  PROVE  SemInv'
<1>1. /\ frame[t] = SemQueue /\ wait_queue_timeout_handler(t)
      /\ sem_magic' = sem_magic /\ tokens' = tokens /\ sem_count' = sem_count
  BY DEF sem_timeout, svars
<1>2. SemType'
  BY <1>1 DEF SemInv, SemType
<1>3. CASE ~sem_magic
  BY <1>1, <1>2, <1>3 DEF SemInv, SemCountExact
<1>4. CASE sem_magic
  <2>1. /\ Range(list'[SemQueue]) = Range(list[SemQueue]) \ {t}
        /\ frame' = frame
        /\ \A u \in Threads :
             block_ret'[u] = IF u = t /\ u \in Range(list[SemQueue]) THEN ERR_TIMED_OUT
                                                                     ELSE block_ret[u]
    BY <1>1, TimeoutEffect, SemaphoreAssumption DEF SemInv
  <2>2. Pending' = Pending
    <3>1. Pending' = {u \in Threads : Waiting(u)'}
      BY SemaphoreAssumption DEF Pending, Waiting, Blocked, Woken
    <3>2. \A u \in Threads : Waiting(u)' <=> Waiting(u)
      BY <2>1 DEF Waiting
    <3> QED
      BY <3>1, <3>2, PendingMeans
  <2>3. ServedOrTimedOut'
    BY <1>4, <2>1, SemaphoreAssumption DEF SemInv, ServedOrTimedOut, Woken
  <2>4. tokens' >= 0
    BY <1>1, <1>4 DEF SemInv, SemCountExact
  <2> QED
    BY <1>1, <1>2, <2>2, <2>3, <2>4, SemKeeps, PendingFinite DEF SemInv, SemType
<1> QED
  BY <1>3, <1>4

\* Whatever leaves the semaphore and its queue alone keeps the invariant.
LEMMA SemUntouched ==
  ASSUME SemInv, WQInv', Untouched(SemQueue), UNCHANGED svars
  PROVE  SemInv'
<1>1. Pending' = Pending /\ (ServedOrTimedOut => ServedOrTimedOut')
  BY SemSameWaiters
<1> QED
  BY <1>1 DEF svars, SemInv, SemType, SemCountExact

\* Every operation of the semaphore preserves the invariant.
LEMMA SemNextInv == SemInv /\ [SemNext]_semvars => SemInv'
<1> SUFFICES ASSUME SemInv, [SemNext]_semvars
             PROVE  SemInv'
  OBVIOUS
<1>0. WQInv'
  BY SemQueueStep, AtIsNext, WQNextInv, SemaphoreAssumption DEF SemInv
<1>1. CASE UNCHANGED semvars
  BY <1>0, <1>1, UnchangedUntouched, SemUntouched DEF semvars
<1>2. CASE SemNext
  BY <1>0, <1>2, SemInitStep, SemDestroyStep, SemPostStep, SemTakeStep, SemBlockStep,
     SemReturnStep, SemTimeoutStep
     DEF SemNext, sem_wait, sem_timedwait
<1> QED
  BY <1>1, <1>2

(***************************************************************************)
(* A semaphore gives out no unit twice and loses none: sem->count is the   *)
(* unused units minus the waiters that have not been served, whatever mix  *)
(* of waits, timeouts and posts ran.                                       *)
(***************************************************************************)
THEOREM SemCountIsExact == SemSpec => []SemCountExact
<1>1. SemInv => SemCountExact
  BY DEF SemInv
<1> QED
  BY <1>1, SemInitInv, SemNextInv, PTL DEF SemSpec

-----------------------------------------------------------------------------
(***************************************************************************)
(* kernel/event.c.                                                         *)
(***************************************************************************)

EventType == /\ event_magic \in BOOLEAN /\ signaled \in BOOLEAN
             /\ autounsignal \in BOOLEAN /\ budget \in Int

EventInv == WQInv /\ EventType /\ NoSleeperOnSignaled /\ OneReleasePerSignal

\* The event's operations are operations of its own wait queue.
LEMMA EventQueueStep ==
  ASSUME WQInv, [EventNext]_eventvars
  PROVE  WQAt(EventQueue)
<1>1. ASSUME NEW initial, NEW auto, event_init(initial, auto)
      PROVE  WQAt(EventQueue)
  <2>1. list' = list
    BY <1>1, InitQueueEffect, EventAssumption DEF event_init
  <2> QED
    BY <1>1, <2>1 DEF event_init, wqvars, WQAt
<1>2. CASE event_signal \/ event_unsignal
  BY <1>2 DEF event_signal, event_signal_auto, event_signal_all, event_unsignal, WQAt
<1>3. ASSUME NEW t \in Threads, event_destroy(t)
      PROVE  WQAt(EventQueue)
  BY <1>3 DEF event_destroy, wait_queue_destroy, WQAt
<1>4. ASSUME NEW t \in Threads, NEW timeout \in AllTimeouts, event_wait_timeout(t, timeout)
      PROVE  WQAt(EventQueue)
  BY <1>4 DEF event_wait_timeout, event_wait_signaled, event_wait_unsignaled, WQAt
<1>5. ASSUME NEW t \in Threads, event_wait_return(t) \/ event_timeout(t)
      PROVE  WQAt(EventQueue)
  BY <1>5 DEF event_wait_return, event_timeout, WQAt
<1>6. CASE UNCHANGED eventvars
  BY <1>6 DEF eventvars, WQAt
<1> QED
  BY <1>1, <1>2, <1>3, <1>4, <1>5, <1>6, WaitQueueAssumption DEF EventNext

LEMMA EventUntouched ==
  ASSUME EventInv, WQInv', Untouched(EventQueue), UNCHANGED evars
  PROVE  EventInv'
BY DEF evars, EventInv, EventType, NoSleeperOnSignaled, OneReleasePerSignal, AsNumber, Untouched

\* An unsignaled event may have any number of sleepers.
LEMMA EventUnsignaled ==
  ASSUME WQInv', event_magic' \in BOOLEAN, signaled' = FALSE, autounsignal' \in BOOLEAN,
         budget' = 0
  PROVE  EventInv'
<1>1. ~(signaled')
  OBVIOUS
<1>2. signaled' \in BOOLEAN
  BY Zenon
<1>3. budget' \in Int /\ AsNumber(signaled') = 0
  BY <1>1 DEF AsNumber
<1>4. EventType'
  BY <1>2, <1>3, Zenon DEF EventType
<1>5. NoSleeperOnSignaled' /\ OneReleasePerSignal'
  BY <1>1, <1>3 DEF NoSleeperOnSignaled, OneReleasePerSignal
<1> QED
  BY <1>4, <1>5 DEF EventInv

\* Whatever becomes signaled has no sleepers, and one release to give.
LEMMA EventSignaled ==
  ASSUME WQInv', event_magic' \in BOOLEAN, signaled' = TRUE, autounsignal' \in BOOLEAN,
         budget' \in Int, event_magic' /\ autounsignal' => budget' = 1,
         list'[EventQueue] = <<>>
  PROVE  EventInv'
BY DEF EventInv, EventType, NoSleeperOnSignaled, OneReleasePerSignal, AsNumber

LEMMA EventInitStep ==
  ASSUME EventInv, WQInv', NEW initial \in BOOLEAN, NEW auto \in BOOLEAN,
         event_init(initial, auto)
  PROVE  EventInv'
<1>1. list'[EventQueue] = <<>>
  BY EventAssumption DEF event_init, EventInv, WQInv, WQTypeOK
<1>2. /\ event_magic' \in BOOLEAN /\ autounsignal' \in BOOLEAN
      /\ signaled' = initial /\ budget' = AsNumber(initial)
  BY Zenon DEF event_init
<1>3. CASE initial
  BY <1>1, <1>2, <1>3, EventSignaled DEF AsNumber
<1>4. CASE ~initial
  BY <1>1, <1>2, <1>4, EventUnsignaled DEF AsNumber
<1> QED
  BY <1>3, <1>4

\* An auto-unsignal event is unsignaled by the thread it lets through.
LEMMA EventWaitSignaledStep ==
  ASSUME EventInv, WQInv', NEW t \in Threads, event_wait_signaled(t)
  PROVE  EventInv'
<1>1. /\ event_magic' = event_magic /\ autounsignal' = autounsignal
      /\ event_magic /\ signaled /\ signaled' = ~autounsignal
      /\ budget' = IF autounsignal THEN budget - 1 ELSE budget
      /\ list' = list
  BY DEF event_wait_signaled, wqvars
<1>2. /\ event_magic' \in BOOLEAN /\ autounsignal' \in BOOLEAN /\ budget' \in Int
      /\ list[EventQueue] = <<>> /\ (autounsignal => budget = 1)
  BY <1>1 DEF EventInv, EventType, NoSleeperOnSignaled, OneReleasePerSignal, AsNumber
<1>3. CASE autounsignal
  <2>1. signaled' = FALSE
    BY <1>1, <1>3, Zenon
  <2>2. budget' = 0
    BY <1>1, <1>2, <1>3
  <2> QED
    BY <1>2, <2>1, <2>2, EventUnsignaled
<1>4. CASE ~autounsignal
  <2>1. signaled' = TRUE
    BY <1>1, <1>4, Zenon
  <2> QED
    BY <1>1, <1>2, <1>4, <2>1, EventSignaled
<1> QED
  BY <1>3, <1>4

\* A signal wakes one thread, or all of them, or stays for the next.
LEMMA EventSignalStep ==
  ASSUME EventInv, WQInv', event_signal
  PROVE  EventInv'
<1>1. /\ event_magic' \in BOOLEAN /\ autounsignal' \in BOOLEAN
      /\ event_magic /\ ~signaled /\ event_magic' = event_magic
      /\ autounsignal' = autounsignal /\ budget \in Int
  BY DEF event_signal, event_signal_auto, event_signal_all, EventInv, EventType
<1>2. CASE event_signal_auto
  <2>1. autounsignal /\ budget = 0
    BY <1>1, <1>2 DEF event_signal_auto, EventInv, OneReleasePerSignal, AsNumber
  <2>2. CASE list[EventQueue] = <<>>
    <3>1. budget' = 1 /\ list' = list
      BY <1>2, <2>1, <2>2 DEF event_signal_auto, wait_queue_wake_one
    <3>2. signaled' = TRUE
      BY <1>2, <2>2, Zenon DEF event_signal_auto
    <3> QED
      BY <1>1, <2>2, <3>1, <3>2, EventSignaled
  <2>3. CASE list[EventQueue] # <<>>
    <3>1. signaled' = FALSE /\ budget' = 0
      BY <1>2, <2>1, <2>3 DEF event_signal_auto
    <3> QED
      BY <1>1, <3>1, EventUnsignaled
  <2> QED
    BY <2>2, <2>3
<1>3. CASE event_signal_all
  <2>1. list'[EventQueue] = <<>>
    BY <1>3, WakeAllEffect, EventAssumption DEF event_signal_all, EventInv
  <2>2. ~autounsignal /\ signaled' = TRUE /\ budget' = budget
    BY <1>3 DEF event_signal_all
  <2> QED
    BY <1>1, <2>1, <2>2, EventSignaled
<1> QED
  BY <1>2, <1>3 DEF event_signal

\* A thread that waits, returns or times out: only an unsignaled event gains sleepers.
LEMMA EventQueueOnlyStep ==
  ASSUME EventInv, WQInv', UNCHANGED evars, signaled => UNCHANGED list
  PROVE  EventInv'
BY DEF evars, EventInv, EventType, NoSleeperOnSignaled, OneReleasePerSignal, AsNumber

LEMMA EventTimeoutStep ==
  ASSUME EventInv, WQInv', NEW t \in Threads, event_timeout(t)
  PROVE  EventInv'
<1>1. UNCHANGED evars /\ frame[t] = EventQueue /\ wait_queue_timeout_handler(t)
  BY DEF event_timeout
<1>2. ASSUME signaled
      PROVE  list' = list
  <2>1. list[EventQueue] = <<>>
    BY <1>2 DEF EventInv, NoSleeperOnSignaled
  <2>2. ~Blocked(t)
    BY <1>1, <2>1, EmptyList DEF Blocked
  <2> QED
    BY <1>1, <2>2 DEF wait_queue_timeout_handler, thread_unblock_from_wait_queue
<1> QED
  BY <1>1, <1>2, EventQueueOnlyStep

\* Every operation of the event preserves the invariant.
LEMMA EventNextInv == EventInv /\ [EventNext]_eventvars => EventInv'
<1> SUFFICES ASSUME EventInv, [EventNext]_eventvars
             PROVE  EventInv'
  OBVIOUS
<1>0. WQInv'
  BY EventQueueStep, AtIsNext, WQNextInv, EventAssumption DEF EventInv
<1>1. ASSUME NEW initial \in BOOLEAN, NEW auto \in BOOLEAN, event_init(initial, auto)
      PROVE  EventInv'
  BY <1>0, <1>1, EventInitStep
<1>2. CASE event_signal
  BY <1>0, <1>2, EventSignalStep
<1>3. CASE event_unsignal
  BY <1>0, <1>3, EventUnsignaled DEF event_unsignal, EventInv, EventType
<1>4. ASSUME NEW t \in Threads, event_destroy(t)
      PROVE  EventInv'
  <2>1. /\ event_magic' \in BOOLEAN /\ signaled' = FALSE /\ autounsignal' \in BOOLEAN
        /\ budget' = 0
    BY <1>4, Zenon DEF event_destroy
  <2> QED
    BY <1>0, <2>1, EventUnsignaled
<1>5. ASSUME NEW t \in Threads, NEW timeout \in Timeouts, event_wait_timeout(t, timeout)
      PROVE  EventInv'
  <2>1. CASE event_wait_signaled(t)
    BY <1>0, <2>1, EventWaitSignaledStep
  <2>2. CASE event_wait_unsignaled(t, timeout)
    BY <1>0, <2>2, EventQueueOnlyStep DEF event_wait_unsignaled
  <2> QED
    BY <1>5, <2>1, <2>2 DEF event_wait_timeout
<1>6. ASSUME NEW t \in Threads, event_wait_return(t)
      PROVE  EventInv'
  BY <1>0, <1>6, EventQueueOnlyStep DEF event_wait_return, wait_queue_return
<1>7. ASSUME NEW t \in Threads, event_timeout(t)
      PROVE  EventInv'
  BY <1>0, <1>7, EventTimeoutStep
<1>8. CASE UNCHANGED eventvars
  BY <1>0, <1>8, UnchangedUntouched, EventUntouched DEF eventvars
<1> QED
  BY <1>1, <1>2, <1>3, <1>4, <1>5, <1>6, <1>7, <1>8 DEF EventNext

(***************************************************************************)
(* The three objects together.                                             *)
(***************************************************************************)
SyncInv == MutexInv /\ SemInv /\ EventInv

LEMMA DifferentQueues ==
  /\ MutexQueue \in Queues /\ SemQueue \in Queues /\ EventQueue \in Queues
  /\ MutexQueue # SemQueue /\ MutexQueue # EventQueue /\ SemQueue # EventQueue
<1>1. \A x, y : Cardinality({x, y}) # 3
  <2> TAKE x, y
  <2>1. IsFiniteSet({x}) /\ Cardinality({x}) = 1
    BY FS_Singleton
  <2>2. Cardinality({x} \cup {y}) = IF y \in {x} THEN Cardinality({x}) ELSE Cardinality({x}) + 1
    BY <2>1, FS_AddElement
  <2>3. {x} \cup {y} = {x, y}
    OBVIOUS
  <2> QED
    BY <2>1, <2>2, <2>3
<1>2. MutexQueue # SemQueue
  <2> SUFFICES ASSUME MutexQueue = SemQueue
               PROVE  FALSE
    OBVIOUS
  <2>1. Queues = {MutexQueue, EventQueue}
    BY SyncAssumption
  <2> QED
    BY <1>1, <2>1, SyncAssumption
<1>3. MutexQueue # EventQueue
  <2> SUFFICES ASSUME MutexQueue = EventQueue
               PROVE  FALSE
    OBVIOUS
  <2>1. Queues = {MutexQueue, SemQueue}
    BY SyncAssumption
  <2> QED
    BY <1>1, <2>1, SyncAssumption
<1>4. SemQueue # EventQueue
  <2> SUFFICES ASSUME SemQueue = EventQueue
               PROVE  FALSE
    OBVIOUS
  <2>1. Queues = {MutexQueue, SemQueue}
    BY SyncAssumption
  <2> QED
    BY <1>1, <2>1, SyncAssumption
<1> QED
  BY <1>2, <1>3, <1>4, MutexAssumption, SemaphoreAssumption, EventAssumption

LEMMA MutexUntouched ==
  ASSUME MutexInv, WQInv', Untouched(MutexQueue), UNCHANGED mvars
  PROVE  MutexInv'
<1>1. magic' = magic /\ holder' = holder /\ count' = count
  BY DEF mvars
<1>2. \A t \in Threads : /\ Returning(t)' <=> Returning(t)
                         /\ Returning(t) => block_ret'[t] = block_ret[t]
                         /\ frame'[t] = MutexQueue <=> frame[t] = MutexQueue
  BY ReturningMeans, ReturningMeansPrimed DEF Untouched
<1>3. Acquiring' = Acquiring
  BY <1>2 DEF Acquiring
<1>4. HandOver => HandOver'
  BY <1>1, <1>2
     DEF HandOver, HolderOutside, OneHandOver, WokenForAReason, Granted, MutexInv, MutexType
<1> QED
  BY <1>1, <1>3, <1>4 DEF MutexInv, MutexType, CountExact

LEMMA SyncInitInv == SyncInit => SyncInv
<1> SUFFICES ASSUME SyncInit
             PROVE  SyncInv
  OBVIOUS
<1>1. WQInv
  BY WQInitInv DEF SyncInit
<1>2. /\ magic \in BOOLEAN /\ sem_magic \in BOOLEAN /\ event_magic \in BOOLEAN
      /\ signaled \in BOOLEAN /\ autounsignal \in BOOLEAN
      /\ ~magic /\ ~sem_magic /\ ~event_magic /\ ~signaled
  BY Zenon DEF SyncInit
<1>3. MutexInv
  <2>1. holder \in Threads \cup {NoThread} /\ count \in Int
    BY DEF SyncInit
  <2> QED
    BY <1>1, <1>2, <2>1, Zenon DEF MutexInv, MutexType, CountExact
<1>4. SemInv
  <2>1. sem_count \in Int /\ tokens \in Int
    BY DEF SyncInit
  <2> QED
    BY <1>1, <1>2, <2>1, Zenon DEF SemInv, SemType, SemCountExact
<1>5. EventInv
  <2>1. budget \in Int
    BY DEF SyncInit
  <2> QED
    BY <1>1, <1>2, <2>1, Zenon DEF EventInv, EventType, NoSleeperOnSignaled, OneReleasePerSignal
<1> QED
  BY <1>3, <1>4, <1>5 DEF SyncInv

\* A step of one object preserves the invariants of all three.
LEMMA SyncNextInv == SyncInv /\ [SyncNext]_syncvars => SyncInv' /\ [WQNext]_wqvars
<1> SUFFICES ASSUME SyncInv, [SyncNext]_syncvars
             PROVE  SyncInv' /\ [WQNext]_wqvars
  OBVIOUS
<1>0. WQInv /\ MutexInv /\ SemInv /\ EventInv
  BY DEF SyncInv, MutexInv
<1>1. CASE OnMutex(Next)
  <2>1. WQAt(MutexQueue) /\ UNCHANGED <<svars, evars>> /\ MutexInv'
    BY <1>0, <1>1, MutexQueueStep, MutexNextInv DEF OnMutex
  <2>2. Untouched(SemQueue) /\ Untouched(EventQueue) /\ [WQNext]_wqvars
    BY <1>0, <2>1, OthersUntouched, AtIsNext, DifferentQueues
  <2> QED
    BY <1>0, <2>1, <2>2, SemUntouched, EventUntouched DEF SyncInv, MutexInv
<1>2. CASE OnSem(SemNext)
  <2>1. WQAt(SemQueue) /\ UNCHANGED <<mvars, evars>> /\ SemInv'
    BY <1>0, <1>2, SemQueueStep, SemNextInv DEF OnSem
  <2>2. Untouched(MutexQueue) /\ Untouched(EventQueue) /\ [WQNext]_wqvars
    BY <1>0, <2>1, OthersUntouched, AtIsNext, DifferentQueues
  <2> QED
    BY <1>0, <2>1, <2>2, MutexUntouched, EventUntouched DEF SyncInv, SemInv
<1>3. CASE OnEvent(EventNext)
  <2>1. WQAt(EventQueue) /\ UNCHANGED <<mvars, svars>> /\ EventInv'
    BY <1>0, <1>3, EventQueueStep, EventNextInv DEF OnEvent
  <2>2. Untouched(MutexQueue) /\ Untouched(SemQueue) /\ [WQNext]_wqvars
    BY <1>0, <2>1, OthersUntouched, AtIsNext, DifferentQueues
  <2> QED
    BY <1>0, <2>1, <2>2, MutexUntouched, SemUntouched DEF SyncInv, EventInv
<1>4. CASE UNCHANGED syncvars
  <2>1. UNCHANGED wqvars /\ UNCHANGED mvars /\ UNCHANGED svars /\ UNCHANGED evars
    BY <1>4 DEF syncvars
  <2>2. WQInv' /\ [WQNext]_wqvars
    BY <1>0, <2>1, WQNextInv
  <2> QED
    BY <1>0, <2>1, <2>2, UnchangedUntouched, MutexUntouched, SemUntouched, EventUntouched
       DEF SyncInv
<1> QED
  BY <1>1, <1>2, <1>3, <1>4 DEF SyncNext

LEMMA SyncInvariance == SyncSafety => []SyncInv
<1>1. SyncInv /\ [SyncNext]_syncvars => SyncInv'
  BY SyncNextInv
<1> QED
  BY <1>1, SyncInitInv, PTL DEF SyncSafety

(***************************************************************************)
(* The three objects together implement the wait queues: what is proved of *)
(* those, the finality of a wake-up included, holds for threads that carry *)
(* one queue_node and one timer from object to object.                     *)
(***************************************************************************)
THEOREM SyncImplementsWaitQueue == SyncSafety => WQSafety
<1>1. SyncInit => WQInit
  BY DEF SyncInit
<1>2. SyncInv /\ [SyncNext]_syncvars => [WQNext]_wqvars
  BY SyncNextInv
<1> QED
  BY <1>1, <1>2, SyncInvariance, PTL DEF SyncSafety, WQSafety

\* A late timer, or a step of another object, changes no woken thread's result.
THEOREM SyncWakeUpsAreFinal == SyncSafety => WakeIsFinal
BY SyncImplementsWaitQueue, WakeUpsAreFinal, PTL

\* A thread is in one queue at a time, and takes no armed timer along.
THEOREM SyncQueueNodes == SyncSafety => [](QueueNodeUnique /\ NoDanglingTimer)
BY SyncImplementsWaitQueue, QueueNodesAreUnique, TimersDoNotDangle, PTL

\* The variables of all three objects keep their types.
THEOREM SyncTypeCorrect == SyncSafety => []SyncTypeOK
<1>1. SyncInv => SyncTypeOK
  BY DEF SyncInv, MutexInv, MutexType, SemInv, SemType, EventInv, EventType, WQInv,
         SyncTypeOK, TypeOK, SemTypeOK, EventTypeOK
<1> QED
  BY <1>1, SyncInvariance, PTL

(***************************************************************************)
(* The mutex excludes and the counts of mutex and semaphore are exact,     *)
(* whatever the same threads do with the other two objects in between.     *)
(***************************************************************************)
THEOREM SyncCounts == SyncSafety => [](MutualExclusion /\ CountExact /\ SemCountExact)
<1>1. SyncInv => MutualExclusion
  <2> SUFFICES ASSUME MutexInv, magic, NEW t \in Threads, NEW u \in Threads,
                      Owns(t), Owns(u)
               PROVE  t = u
    BY DEF MutualExclusion, SyncInv
  <2> QED
    BY MutexAssumption DEF MutexInv, HandOver, OneHandOver, Owns
<1>2. SyncInv => CountExact /\ SemCountExact
  BY DEF SyncInv, MutexInv, SemInv
<1> QED
  BY <1>1, <1>2, SyncInvariance, PTL

(***************************************************************************)
(* No thread sleeps on a signaled event, whatever signals, unsignals,      *)
(* waits and timeouts came before.                                         *)
(***************************************************************************)
THEOREM SyncNoSleeperOnSignaled == SyncSafety => []NoSleeperOnSignaled
<1>1. SyncInv => NoSleeperOnSignaled
  BY DEF SyncInv, EventInv
<1> QED
  BY <1>1, SyncInvariance, PTL

\* An auto-unsignal event lets through one thread per signal, and loses no signal.
THEOREM SyncOneReleasePerSignal == SyncSafety => []OneReleasePerSignal
<1>1. SyncInv => OneReleasePerSignal
  BY DEF SyncInv, EventInv
<1> QED
  BY <1>1, SyncInvariance, PTL
=============================================================================
