--------------------------- MODULE WaitQueueProofs ---------------------------
(***************************************************************************)
(* What TLAPS proves of the wait queues, for any number of threads and     *)
(* queues.                                                                 *)
(***************************************************************************)
EXTENDS WaitQueue, ListProofs

(***************************************************************************)
(* The inductive invariant.  The types alone are not inductive: what a     *)
(* wake-up or a timeout does to a list is only known for a list that holds *)
(* each thread once, and a thread may only start to wait because no list   *)
(* holds it yet.                                                           *)
(***************************************************************************)
WQInv == WQTypeOK /\ QueueNodeUnique /\ NoDanglingTimer

\* A thread is in no list but the one of the queue it waits on.
LEMMA NotElsewhere ==
  ASSUME WQInv, NEW t \in Threads, NEW q \in Queues, frame[t] # q
  PROVE  t \notin Range(list[q])
BY DEF WQInv, QueueNodeUnique

LEMMA WQInitInv == WQInit => WQInv
BY EmptyList DEF WQInit, WQInv, WQTypeOK, QueueNodeUnique, NoDanglingTimer, Status

\* wait_queue_block: the thread joins the one list it is in.
LEMMA BlockInv ==
  ASSUME WQInv, NEW t \in Threads, NEW q \in Queues, NEW timeout \in AllTimeouts,
         frame[t] = NoQueue, wait_queue_block(t, q, timeout)
  PROVE  WQInv'
<1>1. t \notin Range(list[q])
  BY NotElsewhere, WaitQueueAssumption
<1>2. list[q] \in Seq(Threads) /\ IsInjective(list[q])
  BY DEF WQInv, WQTypeOK, QueueNodeUnique
<1>3. /\ Append(list[q], t) \in Seq(Threads)
      /\ Range(Append(list[q], t)) = Range(list[q]) \cup {t}
      /\ IsInjective(Append(list[q], t))
  BY <1>1, <1>2, AppendLemma
<1>4. list' = [list EXCEPT ![q] = Append(list[q], t)]
  BY DEF wait_queue_block
<1>5. WQTypeOK'
  BY <1>3, <1>4 DEF WQInv, WQTypeOK, wait_queue_block, Status
<1>6. QueueNodeUnique'
  <2> SUFFICES ASSUME NEW p \in Queues
               PROVE  IsInjective(list'[p]) /\ \A u \in Range(list'[p]) : frame'[u] = p
    BY DEF QueueNodeUnique
  <2>1. CASE p = q
    <3>1. list'[p] = Append(list[q], t)
      BY <1>4, <2>1 DEF WQInv, WQTypeOK
    <3>2. \A u \in Range(list[q]) : u \in Threads
      BY <1>2, RangeOfSeq
    <3> QED
      BY <1>3, <2>1, <3>1, <3>2 DEF WQInv, WQTypeOK, QueueNodeUnique, wait_queue_block
  <2>2. CASE p # q
    <3>1. list'[p] = list[p]
      BY <1>4, <2>2 DEF WQInv, WQTypeOK
    <3>2. t \notin Range(list[p])
      BY NotElsewhere, WaitQueueAssumption
    <3> QED
      BY <3>1, <3>2 DEF WQInv, WQTypeOK, QueueNodeUnique, wait_queue_block
  <2> QED
    BY <2>1, <2>2
<1>7. NoDanglingTimer'
  BY WaitQueueAssumption DEF WQInv, WQTypeOK, NoDanglingTimer, wait_queue_block
<1> QED
  BY <1>5, <1>6, <1>7 DEF WQInv

\* The end of wait_queue_block: the thread is in no list any more.
LEMMA ReturnInv ==
  ASSUME WQInv, NEW t \in Threads, wait_queue_return(t)
  PROVE  WQInv'
<1>1. WQTypeOK'
  BY DEF WQInv, WQTypeOK, wait_queue_return, Status
<1>2. \A p \in Queues : t \notin Range(list[p])
  BY NotElsewhere DEF wait_queue_return, Woken
<1>3. QueueNodeUnique'
  BY <1>2 DEF WQInv, WQTypeOK, QueueNodeUnique, wait_queue_return
<1>4. NoDanglingTimer'
  BY DEF WQInv, WQTypeOK, NoDanglingTimer, wait_queue_return
<1> QED
  BY <1>1, <1>3, <1>4 DEF WQInv

(***************************************************************************)
(* Taking threads off one list, whichever they are, preserves the          *)
(* invariant as long as nobody's wait begins or ends.                      *)
(***************************************************************************)
LEMMA ShrinkInv ==
  ASSUME WQInv, NEW q \in Queues, NEW s \in Seq(Threads),
         IsInjective(s), Range(s) \subseteq Range(list[q]),
         list' = [list EXCEPT ![q] = s],
         frame' = frame,
         block_ret' \in [Threads -> Status],
         timer' \in [Threads -> BOOLEAN],
         \A t \in Threads : timer'[t] => timer[t]
  PROVE  WQInv'
<1>1. WQTypeOK'
  BY DEF WQInv, WQTypeOK
<1>2. QueueNodeUnique'
  <2> SUFFICES ASSUME NEW p \in Queues
               PROVE  IsInjective(list'[p]) /\ \A u \in Range(list'[p]) : frame'[u] = p
    BY DEF QueueNodeUnique
  <2>1. CASE p = q
    <3>1. list'[p] = s
      BY <2>1 DEF WQInv, WQTypeOK
    <3> QED
      BY <2>1, <3>1 DEF WQInv, QueueNodeUnique
  <2>2. CASE p # q
    <3>1. list'[p] = list[p]
      BY <2>2 DEF WQInv, WQTypeOK
    <3> QED
      BY <3>1 DEF WQInv, QueueNodeUnique
  <2> QED
    BY <2>1, <2>2
<1>3. NoDanglingTimer'
  BY DEF WQInv, NoDanglingTimer
<1> QED
  BY <1>1, <1>2, <1>3 DEF WQInv

LEMMA WakeOneInv ==
  ASSUME WQInv, NEW q \in Queues, NEW err \in Status, wait_queue_wake_one(q, err)
  PROVE  WQInv'
<1>1. list[q] \in Seq(Threads) /\ IsInjective(list[q])
  BY DEF WQInv, WQTypeOK, QueueNodeUnique
<1>2. CASE list[q] = <<>>
  BY <1>2 DEF wait_queue_wake_one, WQInv, WQTypeOK, QueueNodeUnique, NoDanglingTimer
<1>3. CASE list[q] # <<>>
  <2>1. /\ Tail(list[q]) \in Seq(Threads)
        /\ IsInjective(Tail(list[q]))
        /\ Range(Tail(list[q])) \subseteq Range(list[q])
        /\ Head(list[q]) \in Threads
    BY <1>1, <1>3, TailLemma
  <2>2. /\ list' = [list EXCEPT ![q] = Tail(list[q])]
        /\ block_ret' = [block_ret EXCEPT ![Head(list[q])] = err]
        /\ frame' = frame /\ timer' = timer
    BY <1>3 DEF wait_queue_wake_one
  <2>3. block_ret' \in [Threads -> Status] /\ timer' \in [Threads -> BOOLEAN]
    BY <2>1, <2>2 DEF WQInv, WQTypeOK
  <2> QED
    BY <2>1, <2>2, <2>3, ShrinkInv
<1> QED
  BY <1>2, <1>3

LEMMA WakeAllInv ==
  ASSUME WQInv, NEW q \in Queues, NEW err \in Status, wait_queue_wake_all(q, err)
  PROVE  WQInv'
<1>1. /\ list' = [list EXCEPT ![q] = <<>>]
      /\ frame' = frame /\ timer' = timer
  BY DEF wait_queue_wake_all
<1>2. block_ret' \in [Threads -> Status] /\ timer' \in [Threads -> BOOLEAN]
  BY DEF wait_queue_wake_all, WQInv, WQTypeOK
<1>3. /\ <<>> \in Seq(Threads) /\ IsInjective(<<>>)
      /\ Range(<<>>) \subseteq Range(list[q])
  BY EmptyList
<1> QED
  BY <1>1, <1>2, <1>3, ShrinkInv

LEMMA TimeoutInv ==
  ASSUME WQInv, NEW t \in Threads, wait_queue_timeout_handler(t)
  PROVE  WQInv'
<1>1. /\ frame' = frame
      /\ timer' \in [Threads -> BOOLEAN]
      /\ \A u \in Threads : timer'[u] => timer[u]
  BY DEF wait_queue_timeout_handler, WQInv, WQTypeOK
<1>2. CASE Blocked(t)
  <2> DEFINE q == frame[t]
             s == RemoveFirst(list[q], t)
  <2>1. q \in Queues
    BY <1>2 DEF Blocked
  <2>2. list[q] \in Seq(Threads) /\ IsInjective(list[q])
    BY <2>1 DEF WQInv, WQTypeOK, QueueNodeUnique
  <2>3. /\ s \in Seq(Threads) /\ IsInjective(s)
        /\ Range(s) \subseteq Range(list[q])
    BY <2>2, RemoveFirstLemma
  <2>4. list' = [list EXCEPT ![q] = s]
    BY <1>2 DEF wait_queue_timeout_handler, thread_unblock_from_wait_queue
  <2>5. block_ret' \in [Threads -> Status]
    BY <1>2 DEF wait_queue_timeout_handler, thread_unblock_from_wait_queue,
                WQInv, WQTypeOK, Status
  <2> HIDE DEF q, s
  <2> QED
    BY <1>1, <2>1, <2>3, <2>4, <2>5, ShrinkInv
<1>3. CASE ~Blocked(t)
  <2>1. list' = list /\ block_ret' = block_ret
    BY <1>3 DEF wait_queue_timeout_handler, thread_unblock_from_wait_queue
  <2> QED
    BY <1>1, <2>1 DEF WQInv, WQTypeOK, QueueNodeUnique, NoDanglingTimer
<1> QED
  BY <1>2, <1>3

(***************************************************************************)
(* What the operations do to the lists, as sets of threads, and to what    *)
(* the threads' waits will return.                                         *)
(***************************************************************************)
LEMMA BlockEffect ==
  ASSUME WQInv, NEW t \in Threads, NEW q \in Queues, NEW timeout,
         frame[t] = NoQueue, wait_queue_block(t, q, timeout)
  PROVE  /\ t \notin Range(list[q])
         /\ Range(list'[q]) = Range(list[q]) \cup {t}
         /\ \A p \in Queues \ {q} : list'[p] = list[p]
         /\ \A u \in Threads : frame'[u] = IF u = t THEN q ELSE frame[u]
         /\ \A u \in Threads : block_ret'[u] = IF u = t THEN NO_ERROR ELSE block_ret[u]
<1>1. t \notin Range(list[q])
  BY NotElsewhere, WaitQueueAssumption
<1>2. list[q] \in Seq(Threads)
  BY DEF WQInv, WQTypeOK
<1>3. /\ list'[q] = Append(list[q], t)
      /\ \A p \in Queues \ {q} : list'[p] = list[p]
      /\ \A u \in Threads : frame'[u] = IF u = t THEN q ELSE frame[u]
      /\ \A u \in Threads : block_ret'[u] = IF u = t THEN NO_ERROR ELSE block_ret[u]
  BY DEF wait_queue_block, WQInv, WQTypeOK
<1> QED
  BY <1>1, <1>2, <1>3, AppendLemma

LEMMA ReturnEffect ==
  ASSUME WQInv, NEW t \in Threads, wait_queue_return(t)
  PROVE  /\ frame[t] \in Queues /\ t \notin Range(list[frame[t]])
         /\ list' = list
         /\ \A u \in Threads : frame'[u] = IF u = t THEN NoQueue ELSE frame[u]
         /\ \A u \in Threads : block_ret'[u] = IF u = t THEN NO_ERROR ELSE block_ret[u]
BY DEF wait_queue_return, Woken, WQInv, WQTypeOK

LEMMA WakeOneEffect ==
  ASSUME WQInv, NEW q \in Queues, NEW err, list[q] # <<>>, wait_queue_wake_one(q, err)
  PROVE  /\ Head(list[q]) \in Threads /\ Head(list[q]) \in Range(list[q])
         /\ Range(list'[q]) = Range(list[q]) \ {Head(list[q])}
         /\ \A p \in Queues \ {q} : list'[p] = list[p]
         /\ frame' = frame
         /\ \A u \in Threads :
              block_ret'[u] = IF u = Head(list[q]) THEN err ELSE block_ret[u]
<1>1. list[q] \in Seq(Threads) /\ IsInjective(list[q])
  BY DEF WQInv, WQTypeOK, QueueNodeUnique
<1>2. /\ Head(list[q]) \in Threads /\ Head(list[q]) \in Range(list[q])
      /\ Range(Tail(list[q])) = Range(list[q]) \ {Head(list[q])}
  BY <1>1, TailLemma
<1>3. /\ list' = [list EXCEPT ![q] = Tail(list[q])]
      /\ block_ret' = [block_ret EXCEPT ![Head(list[q])] = err]
      /\ frame' = frame
  BY DEF wait_queue_wake_one
<1>4. /\ list'[q] = Tail(list[q])
      /\ \A p \in Queues \ {q} : list'[p] = list[p]
  BY <1>3 DEF WQInv, WQTypeOK
<1>5. \A u \in Threads :
        block_ret'[u] = IF u = Head(list[q]) THEN err ELSE block_ret[u]
  BY <1>2, <1>3 DEF WQInv, WQTypeOK
<1> QED
  BY <1>2, <1>3, <1>4, <1>5

LEMMA WakeAllEffect ==
  ASSUME WQInv, NEW q \in Queues, NEW err, wait_queue_wake_all(q, err)
  PROVE  /\ list'[q] = <<>>
         /\ \A p \in Queues \ {q} : list'[p] = list[p]
         /\ frame' = frame
         /\ \A u \in Threads :
              block_ret'[u] = IF u \in Range(list[q]) THEN err ELSE block_ret[u]
BY DEF wait_queue_wake_all, WQInv, WQTypeOK

LEMMA TimeoutEffect ==
  ASSUME WQInv, NEW t \in Threads, NEW q \in Queues, frame[t] = q,
         wait_queue_timeout_handler(t)
  PROVE  /\ Range(list'[q]) = Range(list[q]) \ {t}
         /\ \A p \in Queues \ {q} : list'[p] = list[p]
         /\ frame' = frame
         /\ \A u \in Threads :
              block_ret'[u] = IF u = t /\ u \in Range(list[q]) THEN ERR_TIMED_OUT
                                                               ELSE block_ret[u]
<1>1. frame' = frame
  BY DEF wait_queue_timeout_handler
<1>2. list[q] \in Seq(Threads) /\ IsInjective(list[q])
  BY DEF WQInv, WQTypeOK, QueueNodeUnique
<1>3. CASE t \in Range(list[q])
  <2>1. /\ list' = [list EXCEPT ![q] = RemoveFirst(list[q], t)]
        /\ block_ret' = [block_ret EXCEPT ![t] = ERR_TIMED_OUT]
    BY <1>3 DEF wait_queue_timeout_handler, thread_unblock_from_wait_queue, Blocked
  <2>2. /\ list'[q] = RemoveFirst(list[q], t)
        /\ \A p \in Queues \ {q} : list'[p] = list[p]
        /\ \A u \in Threads : block_ret'[u] = IF u = t THEN ERR_TIMED_OUT ELSE block_ret[u]
    BY <2>1 DEF WQInv, WQTypeOK
  <2>3. Range(list'[q]) = Range(list[q]) \ {t}
    BY <1>2, <2>2, RemoveFirstLemma
  <2> QED
    BY <1>1, <1>3, <2>2, <2>3
<1>4. CASE t \notin Range(list[q])
  <2>1. list' = list /\ block_ret' = block_ret
    BY <1>4 DEF wait_queue_timeout_handler, thread_unblock_from_wait_queue, Blocked
  <2> QED
    BY <1>1, <1>4, <2>1
<1> QED
  BY <1>3, <1>4

\* Initialising the queue of an object that nobody is inside.
LEMMA NobodyInside ==
  ASSUME WQInv, NEW q \in Queues, \A t \in Threads : frame[t] # q
  PROVE  list[q] = <<>>
<1>1. list[q] \in Seq(Threads)
  BY DEF WQInv, WQTypeOK
<1>2. \A t \in Range(list[q]) : t \in Threads /\ frame[t] = q
  BY <1>1, RangeOfSeq DEF WQInv, QueueNodeUnique
<1> QED
  BY <1>1, <1>2, EmptyRange

LEMMA InitQueueEffect ==
  ASSUME WQInv, NEW q \in Queues, \A t \in Threads : frame[t] # q,
         list' = [list EXCEPT ![q] = <<>>]
  PROVE  list' = list
<1>1. list[q] = <<>>
  BY NobodyInside
<1> QED
  BY <1>1 DEF WQInv, WQTypeOK

(***************************************************************************)
(* The steps of one queue, and what another queue notices of them.         *)
(***************************************************************************)
WQAt(q) ==
  \/ \E t \in Threads, timeout \in AllTimeouts :
        frame[t] = NoQueue /\ wait_queue_block(t, q, timeout)
  \/ \E t \in Threads :
        frame[t] = q /\ (wait_queue_return(t) \/ wait_queue_timeout_handler(t))
  \/ wait_queue_wake_one(q, NO_ERROR)
  \/ \E err \in {NO_ERROR, ERR_OBJECT_DESTROYED} : wait_queue_wake_all(q, err)
  \/ UNCHANGED wqvars

\* They are steps of the wait queues.
LEMMA AtIsNext ==
  ASSUME NEW q \in Queues, WQAt(q)
  PROVE  [WQNext]_wqvars
BY DEF WQAt, WQNext, wait_queue_destroy

\* The same threads wait on q, in the same order, and will be told the same.
Untouched(q) ==
  /\ list'[q] = list[q]
  /\ \A t \in Threads : /\ frame'[t] = q <=> frame[t] = q
                        /\ frame[t] = q => block_ret'[t] = block_ret[t]

LEMMA UnchangedUntouched ==
  ASSUME NEW q, UNCHANGED wqvars
  PROVE  Untouched(q)
BY DEF wqvars, Untouched

LEMMA OthersUntouched ==
  ASSUME WQInv, NEW p \in Queues, NEW q \in Queues, p # q, WQAt(p)
  PROVE  Untouched(q)
<1>1. ASSUME NEW t \in Threads, NEW timeout \in AllTimeouts,
             frame[t] = NoQueue, wait_queue_block(t, p, timeout)
      PROVE  Untouched(q)
  BY <1>1, BlockEffect, WaitQueueAssumption DEF Untouched
<1>2. ASSUME NEW t \in Threads, frame[t] = p, wait_queue_return(t)
      PROVE  Untouched(q)
  BY <1>2, ReturnEffect, WaitQueueAssumption DEF Untouched
<1>3. ASSUME NEW t \in Threads, frame[t] = p, wait_queue_timeout_handler(t)
      PROVE  Untouched(q)
  BY <1>3, TimeoutEffect DEF Untouched
<1>4. ASSUME wait_queue_wake_one(p, NO_ERROR)
      PROVE  Untouched(q)
  <2>1. CASE list[p] = <<>>
    BY <1>4, <2>1 DEF wait_queue_wake_one, Untouched
  <2>2. CASE list[p] # <<>>
    <3>1. frame[Head(list[p])] = p
      BY <1>4, <2>2, WakeOneEffect DEF WQInv, QueueNodeUnique
    <3> QED
      BY <1>4, <2>2, <3>1, WakeOneEffect DEF Untouched
  <2> QED
    BY <2>1, <2>2
<1>5. ASSUME NEW err, wait_queue_wake_all(p, err)
      PROVE  Untouched(q)
  <2>1. \A t \in Range(list[p]) : frame[t] = p
    BY DEF WQInv, QueueNodeUnique
  <2> QED
    BY <1>5, <2>1, WakeAllEffect DEF Untouched
<1>6. CASE UNCHANGED wqvars
  BY <1>6 DEF wqvars, Untouched
<1> QED
  BY <1>1, <1>2, <1>3, <1>4, <1>5, <1>6 DEF WQAt

\* Every operation of the wait queues preserves the invariant.
LEMMA WQNextInv == WQInv /\ [WQNext]_wqvars => WQInv'
<1> SUFFICES ASSUME WQInv, [WQNext]_wqvars
             PROVE  WQInv'
  OBVIOUS
<1>1. ASSUME NEW t \in Threads, NEW q \in Queues, NEW timeout \in AllTimeouts,
             frame[t] = NoQueue, wait_queue_block(t, q, timeout)
      PROVE  WQInv'
  BY <1>1, BlockInv
<1>3. ASSUME NEW t \in Threads, wait_queue_return(t)
      PROVE  WQInv'
  BY <1>3, ReturnInv
<1>4. ASSUME NEW t \in Threads, wait_queue_timeout_handler(t)
      PROVE  WQInv'
  BY <1>4, TimeoutInv
<1>5. ASSUME NEW q \in Queues, wait_queue_wake_one(q, NO_ERROR)
      PROVE  WQInv'
  BY <1>5, WakeOneInv DEF Status
<1>6. ASSUME NEW q \in Queues, NEW err \in {NO_ERROR, ERR_THREAD_DETACHED},
             wait_queue_wake_all(q, err)
      PROVE  WQInv'
  BY <1>6, WakeAllInv DEF Status
<1>7. ASSUME NEW q \in Queues, wait_queue_destroy(q)
      PROVE  WQInv'
  BY <1>7, WakeAllInv DEF Status, wait_queue_destroy
<1>8. CASE UNCHANGED wqvars
  BY <1>8 DEF wqvars, WQInv, WQTypeOK, QueueNodeUnique, NoDanglingTimer
<1> QED
  BY <1>1, <1>3, <1>4, <1>5, <1>6, <1>7, <1>8 DEF WQNext

\* The inductive invariant holds in every execution.
LEMMA WQInvariance == WQSafety => []WQInv
BY WQInitInv, WQNextInv, PTL DEF WQSafety

(***************************************************************************)
(* The queue_node of a thread is never in two wait queues, nor twice in    *)
(* one, and the variables of kernel/thread.c's wait queues keep their      *)
(* types, however many threads wait, are woken and time out.               *)
(***************************************************************************)
THEOREM QueueNodesAreUnique == WQSafety => [](WQTypeOK /\ QueueNodeUnique)
<1>1. WQInv => WQTypeOK /\ QueueNodeUnique
  BY DEF WQInv
<1> QED
  BY <1>1, WQInvariance, PTL

(***************************************************************************)
(* The timer that wait_queue_block puts on its stack is never in a timer   *)
(* queue after wait_queue_block has returned.                              *)
(***************************************************************************)
THEOREM TimersDoNotDangle == WQSafety => []NoDanglingTimer
<1>1. WQInv => NoDanglingTimer
  BY DEF WQInv
<1> QED
  BY <1>1, WQInvariance, PTL

\* What WakeIsFinal says of one thread in one step.
StaysWoken(t) ==
  Woken(t) => \/ frame'[t] = NoQueue
              \/ frame'[t] = frame[t] /\ block_ret'[t] = block_ret[t] /\ Woken(t)'

\* No step of the wait queues takes a wake-up back.
LEMMA StepStaysWoken ==
  ASSUME WQInv, [WQNext]_wqvars, NEW t \in Threads
  PROVE  StaysWoken(t)
<1> SUFFICES ASSUME Woken(t)
             PROVE  \/ frame'[t] = NoQueue
                    \/ frame'[t] = frame[t] /\ block_ret'[t] = block_ret[t] /\ Woken(t)'
  BY DEF StaysWoken
<1>0. frame[t] \in Queues /\ frame[t] # NoQueue /\ t \notin Range(list[frame[t]])
  BY WaitQueueAssumption DEF Woken
<1>a. \A q \in Queues : list[q] \in Seq(Threads) /\ IsInjective(list[q])
  BY DEF WQInv, WQTypeOK, QueueNodeUnique
<1>b. \A q \in Queues : t \notin Range(list[q])
  BY <1>0, NotElsewhere
<1>1. ASSUME NEW u \in Threads, NEW q \in Queues, NEW timeout \in AllTimeouts,
             frame[u] = NoQueue, wait_queue_block(u, q, timeout)
      PROVE  frame'[t] = frame[t] /\ block_ret'[t] = block_ret[t] /\ Woken(t)'
  <2>1. u # t
    BY <1>0, <1>1
  <2>2. Range(Append(list[q], u)) = Range(list[q]) \cup {u}
    BY <1>a, AppendLemma
  <2>3. frame'[t] = frame[t] /\ block_ret'[t] = block_ret[t]
    BY <1>1, <2>1 DEF wait_queue_block, WQInv, WQTypeOK
  <2>4. t \notin Range(list'[frame[t]])
    <3>1. CASE frame[t] = q
      <4>1. list'[q] = Append(list[q], u)
        BY <1>1 DEF wait_queue_block, WQInv, WQTypeOK
      <4> QED
        BY <1>b, <2>1, <2>2, <3>1, <4>1
    <3>2. CASE frame[t] # q
      <4>1. list'[frame[t]] = list[frame[t]]
        BY <1>0, <1>1, <3>2 DEF wait_queue_block, WQInv, WQTypeOK
      <4> QED
        BY <1>0, <4>1
    <3> QED
      BY <3>1, <3>2
  <2> QED
    BY <1>0, <2>3, <2>4 DEF Woken
<1>3. ASSUME NEW u \in Threads, wait_queue_return(u)
      PROVE  \/ frame'[t] = NoQueue
             \/ frame'[t] = frame[t] /\ block_ret'[t] = block_ret[t] /\ Woken(t)'
  BY <1>0, <1>3 DEF wait_queue_return, Woken, WQInv, WQTypeOK
<1>4. ASSUME NEW u \in Threads, wait_queue_timeout_handler(u)
      PROVE  frame'[t] = frame[t] /\ block_ret'[t] = block_ret[t] /\ Woken(t)'
  <2>1. CASE Blocked(u)
    <3>1. u # t /\ frame[u] \in Queues
      BY <1>0, <2>1 DEF Blocked
    <3>2. /\ list' = [list EXCEPT ![frame[u]] = RemoveFirst(list[frame[u]], u)]
          /\ block_ret' = [block_ret EXCEPT ![u] = ERR_TIMED_OUT]
          /\ frame' = frame
      BY <1>4, <2>1 DEF wait_queue_timeout_handler, thread_unblock_from_wait_queue
    <3>3. Range(RemoveFirst(list[frame[u]], u)) \subseteq Range(list[frame[u]])
      BY <1>a, <3>1, RemoveFirstLemma
    <3>4. t \notin Range(list'[frame[t]])
      BY <1>0, <1>b, <3>1, <3>2, <3>3 DEF WQInv, WQTypeOK
    <3> QED
      BY <1>0, <3>1, <3>2, <3>4 DEF Woken, WQInv, WQTypeOK
  <2>2. CASE ~Blocked(u)
    BY <1>0, <1>4, <2>2 DEF wait_queue_timeout_handler, thread_unblock_from_wait_queue,
                            Woken
  <2> QED
    BY <2>1, <2>2
<1>5. ASSUME NEW q \in Queues, wait_queue_wake_one(q, NO_ERROR)
      PROVE  frame'[t] = frame[t] /\ block_ret'[t] = block_ret[t] /\ Woken(t)'
  <2>1. CASE list[q] = <<>>
    BY <1>0, <1>5, <2>1 DEF wait_queue_wake_one, Woken
  <2>2. CASE list[q] # <<>>
    <3>1. /\ Head(list[q]) \in Range(list[q])
          /\ Range(Tail(list[q])) \subseteq Range(list[q])
      BY <1>a, <2>2, TailLemma
    <3>2. Head(list[q]) # t
      BY <1>b, <3>1
    <3>3. /\ list' = [list EXCEPT ![q] = Tail(list[q])]
          /\ block_ret' = [block_ret EXCEPT ![Head(list[q])] = NO_ERROR]
          /\ frame' = frame
      BY <1>5, <2>2 DEF wait_queue_wake_one
    <3>4. t \notin Range(list'[frame[t]])
      BY <1>0, <1>b, <3>1, <3>3 DEF WQInv, WQTypeOK
    <3> QED
      BY <1>0, <3>2, <3>3, <3>4 DEF Woken, WQInv, WQTypeOK
  <2> QED
    BY <2>1, <2>2
<1>6. ASSUME NEW q \in Queues, NEW err, wait_queue_wake_all(q, err)
      PROVE  frame'[t] = frame[t] /\ block_ret'[t] = block_ret[t] /\ Woken(t)'
  <2>1. frame' = frame /\ block_ret'[t] = block_ret[t]
    BY <1>6, <1>b DEF wait_queue_wake_all
  <2>2. list'[frame[t]] = list[frame[t]] \/ list'[frame[t]] = <<>>
    BY <1>0, <1>6 DEF wait_queue_wake_all, WQInv, WQTypeOK
  <2>3. t \notin Range(list'[frame[t]])
    BY <1>0, <2>2, EmptyList
  <2> QED
    BY <1>0, <2>1, <2>3 DEF Woken
<1>7. CASE UNCHANGED wqvars
  BY <1>0, <1>7 DEF wqvars, Woken
<1> QED
  BY <1>1, <1>3, <1>4, <1>5, <1>6, <1>7 DEF WQNext, wait_queue_destroy

(***************************************************************************)
(* Once a thread has been woken neither a timer that fires late nor        *)
(* another wake-up changes what its wait_queue_block returns.              *)
(***************************************************************************)
THEOREM WakeUpsAreFinal == WQSafety => WakeIsFinal
<1>1. WQInv /\ [WQNext]_wqvars =>
        [\A t \in Threads :
           Woken(t) => \/ frame'[t] = NoQueue
                       \/ frame'[t] = frame[t] /\ block_ret'[t] = block_ret[t]
                          /\ Woken(t)']_wqvars
  BY StepStaysWoken DEF StaysWoken
<1> QED
  BY <1>1, WQInvariance, PTL DEF WQSafety, WakeIsFinal
==============================================================================
