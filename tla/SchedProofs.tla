------------------------------ MODULE SchedProofs ------------------------------
(***************************************************************************)
(* What TLAPS proves of the scheduler, for any number of threads, CPUs,    *)
(* wait queues and priorities and any use of the kernel: the run queues,   *)
(* the wait queues and the CPUs agree with the states of the threads.      *)
(***************************************************************************)
EXTENDS Sched, ListProofs

(***************************************************************************)
(* The run queues rq hold the ready threads, for states st and priorities  *)
(* pri: a routine of the scheduler sets up all three before it calls       *)
(* thread_resched.                                                         *)
(***************************************************************************)
RunQueue == [list : [Priorities -> Seq(Threads)], bitmap : SUBSET Priorities]

InRunQueue(s, p, st, pri) ==
  /\ IsInjective(s)
  /\ Range(s) = {t \in Threads : st[t] = "READY" /\ pri[t] = p}

Ready(rq, st, pri) ==
  /\ rq \in RunQueue
  /\ st \in [Threads -> States]
  /\ pri \in [Threads -> Priorities]
  /\ \A p \in Priorities : InRunQueue(rq.list[p], p, st, pri)
  /\ rq.bitmap = {p \in Priorities : rq.list[p] # <<>>}

\* Only the ready threads matter.
LEMMA ReadyKept ==
  ASSUME NEW rq, NEW st, NEW pri, Ready(rq, st, pri),
         NEW st2 \in [Threads -> States], NEW pri2 \in [Threads -> Priorities],
         \A t \in Threads : /\ st2[t] = "READY" <=> st[t] = "READY"
                            /\ st[t] = "READY" => pri2[t] = pri[t]
  PROVE  Ready(rq, st2, pri2)
<1> SUFFICES ASSUME NEW p \in Priorities
             PROVE  InRunQueue(rq.list[p], p, st2, pri2)
  BY DEF Ready
<1>1. {t \in Threads : st2[t] = "READY" /\ pri2[t] = p}
        = {t \in Threads : st[t] = "READY" /\ pri[t] = p}
  OBVIOUS
<1> QED
  BY <1>1 DEF Ready, InRunQueue

\* A thread that is not in the run queues becomes ready, at the head or tail.
LEMMA InsertHead ==
  ASSUME NEW rq, NEW st, NEW pri, Ready(rq, st, pri), NEW t \in Threads, st[t] # "READY"
  PROVE  Ready(insert_in_run_queue_head(rq, t, pri[t]), [st EXCEPT ![t] = "READY"], pri)
<1> DEFINE p == pri[t]
           s == rq.list[p]
           new == insert_in_run_queue_head(rq, t, p)
           now == [st EXCEPT ![t] = "READY"]
<1>1. /\ p \in Priorities /\ s \in Seq(Threads) /\ IsInjective(s) /\ t \notin Range(s)
      /\ rq.list \in [Priorities -> Seq(Threads)] /\ st \in [Threads -> States]
  BY DEF Ready, RunQueue, InRunQueue
<1>2. /\ <<t>> \o s \in Seq(Threads) /\ Range(<<t>> \o s) = {t} \cup Range(s)
      /\ IsInjective(<<t>> \o s) /\ <<t>> \o s # <<>>
  BY <1>1, PrependLemma
<1>3. new.bitmap = rq.bitmap \cup {p} /\ new.list = [rq.list EXCEPT ![p] = <<t>> \o s]
  BY DEF insert_in_run_queue_head
<1>4. new \in RunQueue
  BY <1>1, <1>2 DEF insert_in_run_queue_head, Ready, RunQueue
<1>5. now \in [Threads -> States]
  BY <1>1 DEF States
<1>6. ASSUME NEW i \in Priorities
      PROVE  InRunQueue(new.list[i], i, now, pri)
  <2>1. CASE i = p
    <3>1. new.list[i] = <<t>> \o s
      BY <1>1, <1>3, <2>1
    <3>2. Range(s) = {x \in Threads : st[x] = "READY" /\ pri[x] = p}
      BY <1>1 DEF Ready, InRunQueue
    <3> HIDE DEF s, p
    <3>3. {x \in Threads : now[x] = "READY" /\ pri[x] = p} = {t} \cup Range(s)
      BY <1>1, <3>2 DEF p
    <3> QED
      BY <1>2, <2>1, <3>1, <3>3 DEF InRunQueue
  <2>2. CASE i # p
    <3>1. new.list[i] = rq.list[i]
      BY <1>1, <1>3, <2>2
    <3>2. {x \in Threads : now[x] = "READY" /\ pri[x] = i}
            = {x \in Threads : st[x] = "READY" /\ pri[x] = i}
      BY <1>1, <2>2
    <3> QED
      BY <3>1, <3>2 DEF Ready, InRunQueue
  <2> QED
    BY <2>1, <2>2
<1>7. new.bitmap = {i \in Priorities : new.list[i] # <<>>}
  BY <1>1, <1>2, <1>3 DEF Ready
<1> QED
  BY <1>4, <1>5, <1>6, <1>7 DEF Ready

LEMMA InsertTail ==
  ASSUME NEW rq, NEW st, NEW pri, Ready(rq, st, pri), NEW t \in Threads, st[t] # "READY"
  PROVE  Ready(insert_in_run_queue_tail(rq, t, pri[t]), [st EXCEPT ![t] = "READY"], pri)
<1> DEFINE p == pri[t]
           s == rq.list[p]
           new == insert_in_run_queue_tail(rq, t, p)
           now == [st EXCEPT ![t] = "READY"]
<1>1. /\ p \in Priorities /\ s \in Seq(Threads) /\ IsInjective(s) /\ t \notin Range(s)
      /\ rq.list \in [Priorities -> Seq(Threads)] /\ st \in [Threads -> States]
  BY DEF Ready, RunQueue, InRunQueue
<1>2. /\ Append(s, t) \in Seq(Threads) /\ Range(Append(s, t)) = Range(s) \cup {t}
      /\ IsInjective(Append(s, t)) /\ Append(s, t) # <<>>
  <2>1. /\ Append(s, t) \in Seq(Threads) /\ Range(Append(s, t)) = Range(s) \cup {t}
        /\ IsInjective(Append(s, t))
    BY <1>1, AppendLemma
  <2> QED
    BY <2>1, EmptyList
<1>3. new.bitmap = rq.bitmap \cup {p} /\ new.list = [rq.list EXCEPT ![p] = Append(s, t)]
  BY DEF insert_in_run_queue_tail
<1>4. new \in RunQueue
  BY <1>1, <1>2 DEF insert_in_run_queue_tail, Ready, RunQueue
<1>5. now \in [Threads -> States]
  BY <1>1 DEF States
<1>6. ASSUME NEW i \in Priorities
      PROVE  InRunQueue(new.list[i], i, now, pri)
  <2>1. CASE i = p
    <3>1. new.list[i] = Append(s, t)
      BY <1>1, <1>3, <2>1
    <3>2. Range(s) = {x \in Threads : st[x] = "READY" /\ pri[x] = p}
      BY <1>1 DEF Ready, InRunQueue
    <3> HIDE DEF s, p
    <3>3. {x \in Threads : now[x] = "READY" /\ pri[x] = p} = Range(s) \cup {t}
      BY <1>1, <3>2 DEF p
    <3> QED
      BY <1>2, <2>1, <3>1, <3>3 DEF InRunQueue
  <2>2. CASE i # p
    <3>1. new.list[i] = rq.list[i]
      BY <1>1, <1>3, <2>2
    <3>2. {x \in Threads : now[x] = "READY" /\ pri[x] = i}
            = {x \in Threads : st[x] = "READY" /\ pri[x] = i}
      BY <1>1, <2>2
    <3> QED
      BY <3>1, <3>2 DEF Ready, InRunQueue
  <2> QED
    BY <2>1, <2>2
<1>7. new.bitmap = {i \in Priorities : new.list[i] # <<>>}
  BY <1>1, <1>2, <1>3 DEF Ready
<1> QED
  BY <1>4, <1>5, <1>6, <1>7 DEF Ready

\* The part of a wait queue's list that goes to one run queue.
LEMMA LastFirstLemma ==
  ASSUME NEW s \in Seq(Threads), IsInjective(s), NEW p
  PROVE  /\ LastFirst(s, p) \in Seq(Threads)
         /\ IsInjective(LastFirst(s, p))
         /\ Range(LastFirst(s, p)) = {t \in Range(s) : priority[t] = p}
<1> DEFINE at == {i \in DOMAIN s : priority[s[i]] = p}
           n == Cardinality(at)
           R(i) == Cardinality({j \in at : j >= i})
           nth(k) == CHOOSE i \in at : R(i) = k
           u == LastFirst(s, p)
<1>1. DOMAIN s = 1 .. Len(s) /\ Len(s) \in Nat /\ \A i \in DOMAIN s : s[i] \in Threads
  BY LenProperties, ElementOfSeq
<1>2. at \subseteq Nat /\ IsFiniteSet(at)
  <2>1. at \in SUBSET (1 .. Len(s)) /\ IsFiniteSet(1 .. Len(s))
    BY <1>1, FS_Interval
  <2>2. IsFiniteSet(at)
    BY <2>1, FS_Subset
  <2> QED
    BY <2>1, <2>2
<1>3. /\ n \in Nat
      /\ \A i \in at : R(i) \in 1 .. n
      /\ \A k \in 1 .. n : \E i \in at : R(i) = k
      /\ \A i, j \in at : R(i) = R(j) => i = j
  <2> HIDE DEF at
  <2> QED
    BY <1>2, RankLemma
<1>4. u = [k \in 1 .. n |-> s[nth(k)]]
  BY DEF LastFirst
<1> HIDE DEF u, n, R
<1>5. \A k \in 1 .. n : nth(k) \in at /\ R(nth(k)) = k
  BY <1>3
<1>6. \A i \in at : nth(R(i)) = i
  BY <1>3, <1>5
<1> HIDE DEF nth
<1>7. u \in Seq(Threads)
  <2>1. \A k \in 1 .. n : s[nth(k)] \in Threads
    BY <1>1, <1>5
  <2> QED
    BY <1>3, <1>4, <2>1, IsASeq
<1>8. IsInjective(u)
  <2> SUFFICES ASSUME NEW k \in 1 .. n, NEW l \in 1 .. n, u[k] = u[l]
               PROVE  k = l
    BY <1>4 DEF IsInjective
  <2>1. s[nth(k)] = s[nth(l)]
    BY <1>4
  <2>2. nth(k) = nth(l)
    BY <1>5, <2>1 DEF IsInjective
  <2> QED
    BY <1>5, <2>2
<1>9. Range(u) \subseteq {t \in Range(s) : priority[t] = p}
  <2>1. \A k \in 1 .. n : s[nth(k)] \in Range(s) /\ priority[s[nth(k)]] = p
    BY <1>5 DEF Range
  <2> QED
    BY <1>4, <2>1 DEF Range
<1>10. {t \in Range(s) : priority[t] = p} \subseteq Range(u)
  <2> SUFFICES ASSUME NEW i \in DOMAIN s, priority[s[i]] = p
               PROVE  s[i] \in Range(u)
    BY DEF Range
  <2>1. R(i) \in 1 .. n /\ u[R(i)] = s[i]
    BY <1>3, <1>4, <1>6
  <2> QED
    BY <1>4, <2>1 DEF Range
<1> QED
  BY <1>7, <1>8, <1>9, <1>10 DEF u

\* Several threads become ready, those that a wake-up takes from a list.
LEMMA InsertAll ==
  ASSUME NEW rq, NEW st, Ready(rq, st, priority), NEW s \in Seq(Threads), IsInjective(s),
         \A t \in Range(s) : st[t] # "READY"
  PROVE  Ready(insert_all_in_run_queue_head(rq, s), Readied(st, Range(s)), priority)
<1> DEFINE new == insert_all_in_run_queue_head(rq, s)
           now == Readied(st, Range(s))
<1>1. /\ rq.list \in [Priorities -> Seq(Threads)] /\ rq.bitmap \subseteq Priorities
      /\ st \in [Threads -> States] /\ priority \in [Threads -> Priorities]
      /\ rq.bitmap = {p \in Priorities : rq.list[p] # <<>>}
      /\ \A p \in Priorities : InRunQueue(rq.list[p], p, st, priority)
  BY DEF Ready, RunQueue
<1>2. \A t \in Range(s) : t \in Threads
  BY RangeOfSeq
<1>3. ASSUME NEW p \in Priorities
      PROVE  /\ LastFirst(s, p) \o rq.list[p] \in Seq(Threads)
             /\ InRunQueue(LastFirst(s, p) \o rq.list[p], p, now, priority)
  <2> DEFINE u == LastFirst(s, p)
             v == rq.list[p]
  <2>1. u \in Seq(Threads) /\ IsInjective(u) /\ Range(u) = {t \in Range(s) : priority[t] = p}
    BY LastFirstLemma
  <2>2. /\ v \in Seq(Threads) /\ IsInjective(v)
        /\ Range(v) = {t \in Threads : st[t] = "READY" /\ priority[t] = p}
    BY <1>1 DEF InRunQueue
  <2> HIDE DEF u, v
  <2>3. Range(u) \cap Range(v) = {}
    BY <2>1, <2>2
  <2>4. u \o v \in Seq(Threads) /\ IsInjective(u \o v) /\ Range(u \o v) = Range(u) \cup Range(v)
    BY <2>1, <2>2, <2>3, ConcatInjective, ConcatProperties, RangeConcatenation
  <2>5. {t \in Threads : now[t] = "READY" /\ priority[t] = p} = Range(u) \cup Range(v)
    BY <1>2, <2>1, <2>2 DEF Readied
  <2> QED
    BY <2>4, <2>5 DEF InRunQueue, u, v
<1>4. /\ new.list = [p \in Priorities |-> LastFirst(s, p) \o rq.list[p]]
      /\ new.bitmap = rq.bitmap \cup {priority[t] : t \in Range(s)}
  BY DEF insert_all_in_run_queue_head
<1>5. new \in RunQueue
  BY <1>1, <1>2, <1>3 DEF insert_all_in_run_queue_head, RunQueue
<1>6. now \in [Threads -> States]
  BY <1>1 DEF Readied, States
<1>7. new.bitmap = {p \in Priorities : new.list[p] # <<>>}
  <2> SUFFICES ASSUME NEW p \in Priorities
               PROVE  p \in new.bitmap <=> LastFirst(s, p) \o rq.list[p] # <<>>
    BY <1>1, <1>2, <1>4
  <2> DEFINE u == LastFirst(s, p)
             v == rq.list[p]
  <2>1. u \in Seq(Threads) /\ v \in Seq(Threads) /\ Range(u) = {t \in Range(s) : priority[t] = p}
    BY <1>1, LastFirstLemma
  <2> HIDE DEF u, v
  <2>2. u \o v = <<>> <=> u = <<>> /\ v = <<>>
    <3>1. u \o v \in Seq(Threads) /\ Range(u \o v) = Range(u) \cup Range(v)
      BY <2>1, ConcatProperties, RangeConcatenation
    <3>2. u \o v = <<>> <=> Range(u) \cup Range(v) = {}
      BY <3>1, EmptyList, EmptyRange
    <3>3. (u = <<>> <=> Range(u) = {}) /\ (v = <<>> <=> Range(v) = {})
      BY <2>1, EmptyList, EmptyRange
    <3> QED
      BY <3>2, <3>3
  <2>3. u = <<>> <=> \A t \in Range(s) : priority[t] # p
    BY <2>1, EmptyList, EmptyRange
  <2>4. p \in rq.bitmap <=> v # <<>>
    BY <1>1 DEF v
  <2> QED
    BY <1>4, <2>2, <2>3, <2>4 DEF u, v
<1> QED
  BY <1>1, <1>3, <1>4, <1>5, <1>6, <1>7 DEF Ready

(***************************************************************************)
(* get_top_thread takes a ready thread that may run on c out of the run    *)
(* queues, or finds none.                                                  *)
(***************************************************************************)
LEMMA TopThread ==
  ASSUME NEW c \in CPUs, NEW rq, NEW st, NEW pri, Ready(rq, st, pri)
  PROVE  LET top == get_top_thread(c, rq)
         IN  \/ /\ top.thread = c /\ top.runq = rq
                /\ \A p \in Priorities : Eligible(c, rq.list[p]) = {}
             \/ /\ top.thread \in Threads
                /\ st[top.thread] = "READY"
                /\ pinned_cpu[top.thread] \in {NoCpu, c}
                /\ Ready(top.runq, [st EXCEPT ![top.thread] = "RUNNING"], pri)
<1> DEFINE queues == {q \in rq.bitmap : Eligible(c, rq.list[q]) # {}}
           p == Max(queues)
           s == rq.list[p]
           i == Min(Eligible(c, s))
           rest == RemoveAt(s, i)
           t == s[i]
           new == [list   |-> [rq.list EXCEPT ![p] = rest],
                   bitmap |-> IF rest = <<>> THEN rq.bitmap \ {p} ELSE rq.bitmap]
           top == get_top_thread(c, rq)
           now == [st EXCEPT ![t] = "RUNNING"]
<1>1. CASE queues = {}
  <2>1. top = [thread |-> c, runq |-> rq]
    BY <1>1 DEF get_top_thread
  <2>2. rq.bitmap = {q \in Priorities : rq.list[q] # <<>>}
    BY DEF Ready
  <2>3. Eligible(c, <<>>) = {}
    BY DEF Eligible
  <2>4. \A q \in Priorities : Eligible(c, rq.list[q]) = {}
    BY <1>1, <2>2, <2>3
  <2> QED
    BY <2>1, <2>4
<1>2. CASE queues # {}
  <2>1. top = [thread |-> t, runq |-> new]
    BY <1>2 DEF get_top_thread
  <2>2. /\ rq.list \in [Priorities -> Seq(Threads)] /\ rq.bitmap \subseteq Priorities
        /\ st \in [Threads -> States] /\ pri \in [Threads -> Priorities]
        /\ rq.bitmap = {q \in Priorities : rq.list[q] # <<>>}
        /\ \A q \in Priorities : InRunQueue(rq.list[q], q, st, pri)
    BY DEF Ready, RunQueue
  <2>3. p \in queues
    <3>1. HIGHEST_PRIORITY \in Nat /\ queues \subseteq 0 .. HIGHEST_PRIORITY
      BY <2>2, SchedAssumption DEF HIGHEST_PRIORITY, Priorities
    <3> HIDE DEF queues
    <3> QED
      BY <1>2, <3>1, GreatestExists
  <2> HIDE DEF p
  <2>4. p \in Priorities /\ p \in rq.bitmap /\ Eligible(c, s) # {}
    BY <2>2, <2>3
  <2>5. /\ s \in Seq(Threads) /\ IsInjective(s)
        /\ Range(s) = {x \in Threads : st[x] = "READY" /\ pri[x] = p}
    BY <2>2, <2>4 DEF InRunQueue
  <2> HIDE DEF s
  <2>6. i \in Eligible(c, s)
    <3>1. Eligible(c, s) \subseteq Nat
      BY <2>5, LenProperties DEF Eligible
    <3> QED
      BY <2>4, <3>1, LeastExists
  <2> HIDE DEF i
  <2>7. /\ i \in 1 .. Len(s) /\ t \in Range(s) /\ pinned_cpu[t] \in {NoCpu, c}
    BY <2>5, <2>6, LenProperties DEF Eligible, Range
  <2>8. rest \in Seq(Threads) /\ IsInjective(rest) /\ Range(rest) = Range(s) \ {t}
    BY <2>5, <2>7, RemoveAtLemma
  <2> HIDE DEF t, rest
  <2>9. t \in Threads /\ st[t] = "READY" /\ pri[t] = p
    BY <2>5, <2>7
  <2>10. new \in RunQueue
    BY <2>2, <2>4, <2>8 DEF RunQueue
  <2>11. now \in [Threads -> States]
    BY <2>2 DEF States
  <2>12. ASSUME NEW q \in Priorities
         PROVE  InRunQueue(new.list[q], q, now, pri)
    <3>1. CASE q = p
      <4>1. new.list[q] = rest
        BY <2>2, <2>4, <3>1
      <4>2. {x \in Threads : now[x] = "READY" /\ pri[x] = p} = Range(s) \ {t}
        BY <2>2, <2>5, <2>9
      <4> QED
        BY <2>8, <3>1, <4>1, <4>2 DEF InRunQueue
    <3>2. CASE q # p
      <4>1. new.list[q] = rq.list[q]
        BY <2>2, <2>4, <3>2
      <4>2. {x \in Threads : now[x] = "READY" /\ pri[x] = q}
              = {x \in Threads : st[x] = "READY" /\ pri[x] = q}
        BY <2>2, <2>9, <3>2
      <4> QED
        BY <2>2, <4>1, <4>2 DEF InRunQueue
    <3> QED
      BY <3>1, <3>2
  <2>13. new.bitmap = {q \in Priorities : new.list[q] # <<>>}
    BY <2>2, <2>4
  <2> HIDE DEF new, now
  <2>14. Ready(new, now, pri)
    BY <2>2, <2>10, <2>11, <2>12, <2>13 DEF Ready
  <2> HIDE DEF top
  <2> QED
    BY <2>1, <2>7, <2>9, <2>14 DEF now, top
<1> QED
  BY <1>1, <1>2

(***************************************************************************)
(* thread_resched, called on c with run queues rq and states st in which   *)
(* the thread it switches away from is not running any more.               *)
(***************************************************************************)
CpuType == /\ current \in [CPUs -> CPUs \cup Threads]
           /\ active_cpus \subseteq CPUs

Reschedulable(c, st) ==
  /\ \A t \in Threads : st[t] = "RUNNING" <=> \E d \in CPUs \ {c} : current[d] = t
  /\ \A d, e \in CPUs : current[d] = current[e] => d = e
  /\ \A d \in CPUs : \/ current[d] = d
                     \/ current[d] \in Threads /\ pinned_cpu[current[d]] \in {NoCpu, d}

\* The thread c runs next was ready; it is the idle thread only if no thread
\* that may run on c stays ready.
Chosen(c, st) ==
  /\ \A d \in CPUs : d # c => current'[d] = current[d]
  /\ current'[c] \in Threads \cup {c}
  /\ \A t \in Threads :
       /\ state'[t] = IF current'[c] = t THEN "RUNNING" ELSE st[t]
       /\ current'[c] = t => st[t] = "READY"
  /\ current'[c] = c => \A t \in Threads : state'[t] = "READY" => pinned_cpu[t] \notin {NoCpu, c}

LEMMA Resched ==
  ASSUME CpuType, NEW c \in active_cpus, NEW rq, NEW st, NEW qt, NEW pri, Ready(rq, st, pri),
         Reschedulable(c, st), thread_resched(c, rq, st, qt),
         active_cpus' = active_cpus, pinned_cpu' = pinned_cpu
  PROVE  /\ Ready(runq', state', pri)
         /\ CpuType' /\ RunningExact'
         /\ Chosen(c, st)
<1> DEFINE new == get_top_thread(c, rq).thread
           old == current[c]
<1>0. c \in CPUs /\ \A t \in Threads : t \notin CPUs
  BY SchedAssumption DEF CpuType
<1>1. \/ /\ new = c /\ get_top_thread(c, rq).runq = rq
         /\ \A p \in Priorities : Eligible(c, rq.list[p]) = {}
      \/ /\ new \in Threads /\ st[new] = "READY" /\ pinned_cpu[new] \in {NoCpu, c}
         /\ Ready(get_top_thread(c, rq).runq, [st EXCEPT ![new] = "RUNNING"], pri)
  BY <1>0, TopThread
<1>2. /\ runq' = get_top_thread(c, rq).runq
      /\ state' = IF new \in CPUs THEN st ELSE [st EXCEPT ![new] = "RUNNING"]
      /\ current' = [current EXCEPT ![c] = new]
  <2>1. CASE new = old
    <3>1. /\ runq' = get_top_thread(c, rq).runq
          /\ state' = IF new \in CPUs THEN st ELSE [st EXCEPT ![new] = "RUNNING"]
          /\ current' = current
      BY <2>1 DEF thread_resched, thread_is_idle
    <3>2. current = [current EXCEPT ![c] = current[c]]
      BY DEF CpuType
    <3> QED
      BY <2>1, <3>1, <3>2
  <2>2. CASE new # old
    BY <2>2 DEF thread_resched, thread_is_idle
  <2> QED
    BY <2>1, <2>2
<1> HIDE DEF new, old
<1>3. Ready(runq', state', pri)
  BY <1>0, <1>1, <1>2
<1>4. \A d \in CPUs : current'[d] = IF d = c THEN new ELSE current[d]
  BY <1>2 DEF CpuType
<1>5. CpuType'
  BY <1>0, <1>1, <1>2 DEF CpuType
<1>6. \A t \in Threads : state'[t] = IF new = t THEN "RUNNING" ELSE st[t]
  BY <1>0, <1>1, <1>2 DEF Ready
<1>7. \A t \in Threads : state'[t] = "RUNNING" <=> \E d \in CPUs : current'[d] = t
  BY <1>0, <1>1, <1>4, <1>6 DEF Reschedulable
<1>8. new \in Threads => \A d \in CPUs : d # c => current[d] # new
  BY <1>1, <1>0 DEF Reschedulable
<1>9. \A d, e \in CPUs : current'[d] = current'[e] => d = e
  <2> SUFFICES ASSUME NEW d \in CPUs, NEW e \in CPUs, current'[d] = current'[e]
               PROVE  d = e
    OBVIOUS
  <2>1. \A x \in CPUs : x # c => current[x] # new
    BY <1>0, <1>1, <1>8 DEF Reschedulable
  <2> QED
    BY <1>4, <2>1 DEF Reschedulable
<1>10. \A d \in CPUs : \/ current'[d] = d
                       \/ current'[d] \in Threads /\ pinned_cpu'[current'[d]] \in {NoCpu, d}
  BY <1>1, <1>4 DEF Reschedulable
<1>11. RunningExact'
  BY <1>7, <1>9, <1>10 DEF RunningExact
<1>12. ASSUME current'[c] = c, NEW t \in Threads, state'[t] = "READY"
       PROVE  pinned_cpu[t] \notin {NoCpu, c}
  <2>1. runq' = rq /\ \A p \in Priorities : Eligible(c, rq.list[p]) = {}
    BY <1>0, <1>1, <1>2, <1>4, <1>12
  <2>2. PICK p \in Priorities : t \in Range(rq.list[p])
    BY <1>3, <1>12, <2>1 DEF Ready, InRunQueue
  <2>3. PICK i \in DOMAIN rq.list[p] : rq.list[p][i] = t
    BY <2>2 DEF Range
  <2>4. Eligible(c, rq.list[p]) = {}
    BY <2>1
  <2> QED
    BY <2>3, <2>4 DEF Eligible
<1>14. Chosen(c, st)
  BY <1>0, <1>1, <1>4, <1>6, <1>12 DEF Chosen
<1> QED
  BY <1>3, <1>5, <1>11, <1>14

-------------------------------------------------------------------------------
(***************************************************************************)
(* The inductive invariant.  Its parts are stated for any states st, so    *)
(* that they can be shown for the states a routine sets up and carried     *)
(* across thread_resched.                                                  *)
(***************************************************************************)
\* The lists of the wait queues hold the blocked threads.
Waiting(ls, fr, st) ==
  /\ ls \in [WaitQueues -> Seq(Threads)]
  /\ fr \in [Threads -> WaitQueues \cup {NoQueue}]
  /\ \A q \in WaitQueues :
       /\ IsInjective(ls[q])
       /\ Range(ls[q]) = {t \in Threads : st[t] = "BLOCKED" /\ fr[t] = q}
  /\ \A t \in Threads : st[t] = "BLOCKED" => fr[t] # NoQueue

\* A thread that is being joined is alive, and not detached.
Joining(fr, st, det) ==
  \A t \in Threads :
    st[t] = "BLOCKED" /\ fr[t] \in Threads =>
      st[fr[t]] \notin {"NONE", "DEATH"} /\ fr[t] \notin det

\* A thread whose sleep is over, by the timer, sleeps until its handler runs,
\* which runs once.
Sleeping(cb, tm, st) ==
  \A c \in CPUs, t \in Threads :
    cb[c] = <<"sleep", t>> => /\ st[t] = "SLEEPING" /\ tm[t] = NoCpu
                              /\ \A d \in CPUs : cb[d] = <<"sleep", t>> => d = c

\* A CPU that is not active yet is on its idle thread.
IdleUntilActive == \A c \in CPUs \ active_cpus : current[c] = c

OtherTypes ==
  /\ timer \in [Threads -> CPUs \cup {NoCpu}]
  /\ callback \in [CPUs -> {NoCallback} \cup ({"sleep", "timeout"} \X Threads)]
  /\ use \in Uses

SchedInv ==
  /\ OtherTypes /\ CpuType /\ IdleUntilActive /\ RunningExact
  /\ Ready(runq, state, priority)
  /\ Waiting(list, frame, state)
  /\ Joining(frame, state, detached)
  /\ Sleeping(callback, timer, state)

\* The threads that do not run, in the next state but with the states st.
OffCpu(st) ==
  /\ OtherTypes'
  /\ Waiting(list', frame', st)
  /\ Joining(frame', st, detached')
  /\ Sleeping(callback', timer', st)

(***************************************************************************)
(* A step of CPU c that ends in thread_resched.                            *)
(***************************************************************************)
LEMMA SwitchStep ==
  ASSUME SchedInv, NEW c \in active_cpus, NEW rq, NEW st, NEW qt,
         thread_resched(c, rq, st, qt), Ready(rq, st, priority'), OffCpu(st),
         \A t \in Threads : st[t] = "RUNNING" <=> state[t] = "RUNNING" /\ t # current[c],
         active_cpus' = active_cpus, pinned_cpu' = pinned_cpu
  PROVE  SchedInv' /\ Chosen(c, st)
<1>1. c \in CPUs /\ \A t \in Threads : t \notin CPUs
  BY SchedAssumption DEF SchedInv, CpuType
<1>2. Reschedulable(c, st)
  BY <1>1 DEF SchedInv, RunningExact, Reschedulable
<1>3. /\ Ready(runq', state', priority')
      /\ CpuType' /\ RunningExact' /\ Chosen(c, st)
  BY <1>2, Resched DEF SchedInv
<1>4. \A t \in Threads : \/ state'[t] = st[t]
                         \/ st[t] = "READY" /\ state'[t] = "RUNNING"
  BY <1>3 DEF Chosen
<1>5. Waiting(list', frame', state')
  <2>1. \A t \in Threads : state'[t] = "BLOCKED" <=> st[t] = "BLOCKED"
    BY <1>4
  <2> QED
    BY <2>1 DEF OffCpu, Waiting
<1>6. Joining(frame', state', detached')
  <2>1. \A t \in Threads : /\ state'[t] = "BLOCKED" => st[t] = "BLOCKED"
                           /\ state'[t] \in {"NONE", "DEATH"} => st[t] \in {"NONE", "DEATH"}
    BY <1>4
  <2> QED
    BY <2>1 DEF OffCpu, Joining
<1>7. Sleeping(callback', timer', state')
  <2>1. \A t \in Threads : st[t] = "SLEEPING" => state'[t] = "SLEEPING"
    BY <1>4
  <2> QED
    BY <2>1 DEF OffCpu, Sleeping
<1>8. IdleUntilActive'
  BY <1>3 DEF SchedInv, IdleUntilActive, Chosen
<1> QED
  BY <1>3, <1>5, <1>6, <1>7, <1>8 DEF SchedInv, OffCpu

\* A step in which no CPU switches to another thread.
LEMMA KeepStep ==
  ASSUME SchedInv, UNCHANGED <<current, idle_cpus, active_cpus, pinned_cpu>>,
         Ready(runq', state', priority'), OffCpu(state'),
         \A t \in Threads : state'[t] = "RUNNING" <=> state[t] = "RUNNING"
  PROVE  SchedInv'
<1>1. CpuType' /\ IdleUntilActive'
  BY DEF SchedInv, CpuType, IdleUntilActive
<1>2. RunningExact'
  BY DEF SchedInv, RunningExact
<1> QED
  BY <1>1, <1>2 DEF SchedInv, OffCpu

(***************************************************************************)
(* What most steps leave as it is.                                         *)
(***************************************************************************)
LEMMA StaysAsleep ==
  ASSUME SchedInv, NEW st, callback' = callback,
         \A t \in Threads : state[t] = "SLEEPING" => st[t] = "SLEEPING" /\ timer'[t] = timer[t]
  PROVE  Sleeping(callback', timer', st)
BY DEF SchedInv, Sleeping

LEMMA StaysWaiting ==
  ASSUME SchedInv, NEW st, list' = list, frame' = frame,
         \A t \in Threads : st[t] = "BLOCKED" <=> state[t] = "BLOCKED"
  PROVE  Waiting(list', frame', st)
BY DEF SchedInv, Waiting

LEMMA StaysJoined ==
  ASSUME SchedInv, NEW st,
         \A t \in Threads : st[t] = "BLOCKED" => state[t] = "BLOCKED" /\ frame'[t] = frame[t],
         \A t \in Threads : /\ st[t] \in {"NONE", "DEATH"} => state[t] \in {"NONE", "DEATH"}
                            /\ t \in detached' => t \in detached
  PROVE  Joining(frame', st, detached')
BY DEF SchedInv, Joining

\* The thread that runs on c.
LEMMA CurrentThread ==
  ASSUME SchedInv, NEW c \in CPUs, runs(c)
  PROVE  c \in active_cpus /\ current[c] \in Threads /\ state[current[c]] = "RUNNING"
BY DEF SchedInv, RunningExact, runs, interrupts_enabled

LEMMA OtherTypesStay ==
  ASSUME SchedInv, timer' = timer, callback' = callback, use' = use
  PROVE  OtherTypes'
BY DEF SchedInv, OtherTypes

\* The variables that SchedInv is about.
LEMMA SchedStutter ==
  ASSUME SchedInv, UNCHANGED <<state, runq, priority, current, idle_cpus, active_cpus,
                               list, frame, detached, callback, timer, use, pinned_cpu>>
  PROVE  SchedInv'
<1>1. Ready(runq', state', priority')
  BY DEF SchedInv
<1>2. OffCpu(state')
  BY OtherTypesStay DEF SchedInv, OffCpu
<1> QED
  BY <1>1, <1>2, KeepStep

-------------------------------------------------------------------------------
(***************************************************************************)
(* The steps.  Nothing changes how the kernel is used.                     *)
(***************************************************************************)
Fixed == UNCHANGED <<use, pinned_cpu>>

(***************************************************************************)
(* What a step of c that ends in thread_resched does, when it leaves the   *)
(* thread on c in state x and wakes the threads W: these, but for the one  *)
(* that c now runs, are ready, and no other thread is affected.            *)
(***************************************************************************)
Switched(c, x, W) ==
  /\ \A d \in CPUs : d # c => current'[d] = current[d]
  /\ current'[c] \in Threads \cup {c}
  /\ \A t \in Threads :
       state'[t] = IF current'[c] = t THEN "RUNNING"
                   ELSE IF t = current[c] THEN x ELSE IF t \in W THEN "READY" ELSE state[t]
  /\ \A t \in Threads :
       current'[c] = t => "READY" = IF t = current[c] THEN x ELSE
                                    IF t \in W THEN "READY" ELSE state[t]
  /\ current'[c] = c => \A t \in Threads : state'[t] = "READY" => pinned_cpu[t] \notin {NoCpu, c}

LEMMA ChosenSwitched ==
  ASSUME NEW c, NEW st, NEW x, NEW W, Chosen(c, st),
         \A t \in Threads : st[t] = IF t = current[c] THEN x ELSE
                                    IF t \in W THEN "READY" ELSE state[t]
  PROVE  Switched(c, x, W)
<1>1. /\ \A d \in CPUs : d # c => current'[d] = current[d]
      /\ current'[c] \in Threads \cup {c}
      /\ current'[c] = c => \A t \in Threads : state'[t] = "READY" => pinned_cpu[t] \notin {NoCpu, c}
  BY DEF Chosen
<1>2. \A t \in Threads : /\ state'[t] = IF current'[c] = t THEN "RUNNING" ELSE st[t]
                         /\ current'[c] = t => st[t] = "READY"
  BY DEF Chosen
<1> QED
  BY <1>1, <1>2 DEF Switched

(***************************************************************************)
(* The thread on c stays ready and gives way.                              *)
(***************************************************************************)
LEMMA GiveWay ==
  ASSUME SchedInv, Fixed, NEW c \in active_cpus, current[c] \in Threads, NEW rq, NEW qt,
         thread_resched(c, rq, [state EXCEPT ![current[c]] = "READY"], qt),
         Ready(rq, [state EXCEPT ![current[c]] = "READY"], priority'),
         UNCHANGED <<list, frame, detached, callback, timer, active_cpus>>
  PROVE  SchedInv' /\ Switched(c, "READY", {})
<1> DEFINE me == current[c]
           st == [state EXCEPT ![me] = "READY"]
<1>1. c \in CPUs /\ state \in [Threads -> States] /\ state[me] = "RUNNING"
  BY DEF SchedInv, CpuType, Ready, RunningExact
<1>2. \A t \in Threads : st[t] = IF t = me THEN "READY" ELSE state[t]
  BY <1>1
<1> HIDE DEF st
<1>3. OffCpu(st)
  BY <1>1, <1>2, OtherTypesStay, StaysWaiting, StaysJoined, StaysAsleep DEF OffCpu, Fixed
<1>4. \A t \in Threads : st[t] = "RUNNING" <=> state[t] = "RUNNING" /\ t # current[c]
  BY <1>2
<1>5. SchedInv' /\ Chosen(c, st)
  BY <1>3, <1>4, SwitchStep DEF st, Fixed
<1>6. Switched(c, "READY", {})
  BY <1>2, <1>5, ChosenSwitched
<1> QED
  BY <1>5, <1>6

LEMMA YieldStep ==
  ASSUME SchedInv, Fixed, NEW c \in CPUs, thread_yield(c)
  PROVE  SchedInv' /\ Switched(c, "READY", {})
<1>1. c \in active_cpus /\ current[c] \in Threads /\ state[current[c]] = "RUNNING"
  BY CurrentThread DEF thread_yield
<1>2. Ready(insert_in_run_queue_tail(runq, current[c], priority[current[c]]),
            [state EXCEPT ![current[c]] = "READY"], priority)
  BY <1>1, InsertTail DEF SchedInv
<1>3. /\ UNCHANGED <<list, frame, detached, callback, timer, active_cpus, priority>>
      /\ \E qt : thread_resched(c, insert_in_run_queue_tail(runq, current[c], priority[current[c]]),
                                [state EXCEPT ![current[c]] = "READY"], qt)
  BY DEF thread_yield, waitvars, irqvars
<1> QED
  BY <1>1, <1>2, <1>3, GiveWay

LEMMA PreemptStep ==
  ASSUME SchedInv, Fixed, NEW c \in CPUs, thread_preempt(c)
  PROVE  SchedInv' /\ Switched(c, "READY", {})
<1>1. /\ c \in active_cpus
      /\ UNCHANGED <<list, frame, detached, callback, timer, active_cpus, priority>>
  BY DEF thread_preempt, interrupts_enabled, waitvars, lifevars
<1>2. CASE current[c] \in CPUs
  <2>1. thread_resched(c, runq, state, quantum)
    BY <1>2 DEF thread_preempt, thread_is_idle
  <2>2. OffCpu(state)
    BY <1>1, OtherTypesStay DEF SchedInv, OffCpu, Fixed
  <2>3. \A t \in Threads : t # current[c]
    BY <1>2, SchedAssumption
  <2>4. Ready(runq, state, priority')
    BY <1>1 DEF SchedInv
  <2>5. SchedInv' /\ Chosen(c, state)
    BY <1>1, <2>1, <2>2, <2>3, <2>4, SwitchStep DEF Fixed
  <2> QED
    BY <2>3, <2>5, ChosenSwitched
<1>3. CASE current[c] \notin CPUs
  <2> DEFINE me == current[c]
             rq == IF quantum[me] > 0
                     THEN insert_in_run_queue_head(runq, me, priority[me])
                     ELSE insert_in_run_queue_tail(runq, me, priority[me])
  <2>1. me \in Threads /\ state[me] = "RUNNING"
    BY <1>3 DEF SchedInv, CpuType, RunningExact
  <2>2. thread_resched(c, rq, [state EXCEPT ![me] = "READY"], quantum)
    BY <1>3 DEF thread_preempt, thread_is_idle
  <2>3. Ready(rq, [state EXCEPT ![me] = "READY"], priority')
    <3>1. Ready(insert_in_run_queue_head(runq, me, priority[me]),
                [state EXCEPT ![me] = "READY"], priority)
      BY <2>1, InsertHead DEF SchedInv
    <3>2. Ready(insert_in_run_queue_tail(runq, me, priority[me]),
                [state EXCEPT ![me] = "READY"], priority)
      BY <2>1, InsertTail DEF SchedInv
    <3> QED
      BY <1>1, <3>1, <3>2
  <2> HIDE DEF rq
  <2> QED
    BY <1>1, <2>1, <2>2, <2>3, GiveWay
<1> QED
  BY <1>2, <1>3

LEMMA SetPriorityStep ==
  ASSUME SchedInv, Fixed, NEW c \in CPUs, NEW arg \in PriorityArgs, thread_set_priority(c, arg)
  PROVE  SchedInv' /\ Switched(c, "READY", {})
<1> DEFINE me == current[c]
           p == CASE arg <= IDLE_PRIORITY -> IDLE_PRIORITY + 1
                  [] arg > HIGHEST_PRIORITY -> HIGHEST_PRIORITY
                  [] OTHER -> arg
           pri == [priority EXCEPT ![me] = p]
<1>1. c \in active_cpus /\ me \in Threads /\ state[me] = "RUNNING"
  BY CurrentThread DEF thread_set_priority, calls
<1>2. /\ UNCHANGED <<list, frame, detached, callback, timer, active_cpus>>
      /\ priority' = pri
      /\ thread_resched(c, insert_in_run_queue_head(runq, me, p),
                        [state EXCEPT ![me] = "READY"], quantum)
  BY DEF thread_set_priority, waitvars, irqvars
<1>3. p \in Priorities
  <2>1. arg \in Int /\ NUM_PRIORITIES \in Nat /\ NUM_PRIORITIES > 1
    <3>1. use \in Uses /\ UseOf[use].priorities \subseteq Int
      BY SchedAssumption DEF SchedInv, OtherTypes
    <3>2. NUM_PRIORITIES \in Nat /\ NUM_PRIORITIES > 1
      BY SchedAssumption
    <3> QED
      BY <3>1, <3>2 DEF PriorityArgs
  <2>2. CASE arg <= IDLE_PRIORITY
    BY <2>1, <2>2 DEF Priorities, IDLE_PRIORITY, HIGHEST_PRIORITY
  <2>3. CASE ~(arg <= IDLE_PRIORITY) /\ arg > HIGHEST_PRIORITY
    BY <2>1, <2>3 DEF Priorities, IDLE_PRIORITY, HIGHEST_PRIORITY
  <2>4. CASE ~(arg <= IDLE_PRIORITY) /\ ~(arg > HIGHEST_PRIORITY)
    BY <2>1, <2>4 DEF Priorities, IDLE_PRIORITY, HIGHEST_PRIORITY
  <2> QED
    BY <2>2, <2>3, <2>4
<1> HIDE DEF p
<1>4. Ready(runq, state, priority) /\ priority \in [Threads -> Priorities]
  BY DEF SchedInv, Ready
<1>5. pri \in [Threads -> Priorities] /\ pri[me] = p
  BY <1>1, <1>3, <1>4
<1>6. Ready(runq, state, pri)
  <2>1. \A t \in Threads : state[t] = "READY" => pri[t] = priority[t]
    BY <1>1, <1>4
  <2>2. state \in [Threads -> States]
    BY <1>4 DEF Ready
  <2> HIDE DEF pri
  <2> QED
    BY <1>4, <1>5, <2>1, <2>2, ReadyKept
<1> HIDE DEF pri
<1>7. Ready(insert_in_run_queue_head(runq, me, pri[me]), [state EXCEPT ![me] = "READY"], pri)
  BY <1>1, <1>6, InsertHead
<1>8. Ready(insert_in_run_queue_head(runq, me, p), [state EXCEPT ![me] = "READY"], priority')
  BY <1>2, <1>5, <1>7
<1> QED
  BY <1>1, <1>2, <1>8, GiveWay

(***************************************************************************)
(* The thread on c sleeps or exits detached.                               *)
(***************************************************************************)
LEMMA OffTheCpu ==
  ASSUME SchedInv, NEW c \in CPUs, current[c] \in Threads, NEW x \in States \ {"READY", "RUNNING"}
  PROVE  /\ Ready(runq, [state EXCEPT ![current[c]] = x], priority)
         /\ \A t \in Threads : [state EXCEPT ![current[c]] = x][t]
                                 = IF t = current[c] THEN x ELSE state[t]
         /\ state[current[c]] = "RUNNING"
<1> DEFINE me == current[c]
           st == [state EXCEPT ![me] = x]
<1>1. state \in [Threads -> States] /\ state[me] = "RUNNING" /\ st \in [Threads -> States]
  BY DEF SchedInv, Ready, RunningExact
<1>2. \A t \in Threads : st[t] = IF t = me THEN x ELSE state[t]
  BY <1>1
<1> HIDE DEF st
<1>3. Ready(runq, state, priority) /\ priority \in [Threads -> Priorities]
  BY DEF SchedInv, Ready
<1>4. Ready(runq, st, priority)
  BY <1>1, <1>2, <1>3, ReadyKept
<1> QED
  BY <1>1, <1>2, <1>4 DEF st

LEMMA SleepStep ==
  ASSUME SchedInv, Fixed, NEW c \in CPUs, thread_sleep(c)
  PROVE  SchedInv' /\ Switched(c, "SLEEPING", {})
<1> DEFINE me == current[c]
           st == [state EXCEPT ![me] = "SLEEPING"]
<1>1. c \in active_cpus /\ me \in Threads /\ state[me] = "RUNNING"
  BY CurrentThread DEF thread_sleep, calls
<1>2. /\ UNCHANGED <<list, frame, detached, callback, active_cpus, priority>>
      /\ timer' = [timer EXCEPT ![me] = c]
      /\ thread_resched(c, runq, st, quantum)
  BY DEF thread_sleep, lifevars, irqvars
<1>3. /\ Ready(runq, st, priority')
      /\ \A t \in Threads : st[t] = IF t = me THEN "SLEEPING" ELSE state[t]
  BY <1>1, <1>2, OffTheCpu DEF States
<1> HIDE DEF st
<1>4. OtherTypes'
  BY <1>2 DEF SchedInv, OtherTypes, Fixed
<1>5. \A t \in Threads : t # me => timer'[t] = timer[t]
  BY <1>2 DEF SchedInv, OtherTypes
<1>6. OffCpu(st)
  BY <1>1, <1>2, <1>3, <1>4, <1>5, StaysWaiting, StaysJoined, StaysAsleep DEF OffCpu
<1>7. SchedInv' /\ Chosen(c, st)
  BY <1>1, <1>2, <1>3, <1>6, SwitchStep DEF Fixed
<1> QED
  BY <1>3, <1>7, ChosenSwitched

(***************************************************************************)
(* The thread on c blocks on queue q.                                      *)
(***************************************************************************)
LEMMA BlockStep ==
  ASSUME SchedInv, Fixed, NEW c \in CPUs, runs(c), NEW q \in WaitQueues, NEW timeout,
         block(c, q, timeout), UNCHANGED <<detached, priority, callback, active_cpus>>,
         q \in Threads => state[q] \notin {"NONE", "DEATH"} /\ q \notin detached
  PROVE  SchedInv' /\ Switched(c, "BLOCKED", {})
<1> DEFINE me == current[c]
           st == [state EXCEPT ![me] = "BLOCKED"]
<1>1. c \in active_cpus /\ me \in Threads /\ state[me] = "RUNNING"
  BY CurrentThread
<1>2. /\ list' = [list EXCEPT ![q] = Append(list[q], me)]
      /\ frame' = [frame EXCEPT ![me] = q]
      /\ timer' = [timer EXCEPT ![me] = IF timeout = "finite" THEN c ELSE timer[me]]
      /\ thread_resched(c, runq, st, quantum)
  BY DEF block
<1>3. /\ Ready(runq, st, priority')
      /\ \A t \in Threads : st[t] = IF t = me THEN "BLOCKED" ELSE state[t]
  BY <1>1, OffTheCpu DEF States
<1> HIDE DEF st
<1>4. /\ list \in [WaitQueues -> Seq(Threads)]
      /\ frame \in [Threads -> WaitQueues \cup {NoQueue}]
      /\ NoQueue \notin WaitQueues
      /\ \A r \in WaitQueues :
           /\ IsInjective(list[r])
           /\ Range(list[r]) = {t \in Threads : state[t] = "BLOCKED" /\ frame[t] = r}
      /\ \A t \in Threads : state[t] = "BLOCKED" => frame[t] # NoQueue
  BY SchedAssumption DEF SchedInv, Waiting, WaitQueues
<1>5. /\ Append(list[q], me) \in Seq(Threads) /\ IsInjective(Append(list[q], me))
      /\ Range(Append(list[q], me)) = Range(list[q]) \cup {me}
  BY <1>1, <1>4, AppendLemma
<1>6. \A t \in Threads : frame'[t] = IF t = me THEN q ELSE frame[t]
  BY <1>1, <1>2, <1>4
<1>7. Waiting(list', frame', st)
  <2>1. list' \in [WaitQueues -> Seq(Threads)] /\ frame' \in [Threads -> WaitQueues \cup {NoQueue}]
    BY <1>1, <1>2, <1>4, <1>5
  <2>2. ASSUME NEW r \in WaitQueues
        PROVE  /\ IsInjective(list'[r])
               /\ Range(list'[r]) = {t \in Threads : st[t] = "BLOCKED" /\ frame'[t] = r}
    <3>1. CASE r = q
      <4>1. list'[r] = Append(list[q], me)
        BY <1>2, <1>4, <3>1
      <4>2. {t \in Threads : st[t] = "BLOCKED" /\ frame'[t] = q} = Range(list[q]) \cup {me}
        BY <1>1, <1>3, <1>4, <1>6
      <4> QED
        BY <1>5, <3>1, <4>1, <4>2
    <3>2. CASE r # q
      <4>1. list'[r] = list[r]
        BY <1>2, <1>4, <3>2
      <4>2. {t \in Threads : st[t] = "BLOCKED" /\ frame'[t] = r} = Range(list[r])
        BY <1>1, <1>3, <1>4, <1>6, <3>2
      <4> QED
        BY <1>4, <4>1, <4>2
    <3> QED
      BY <3>1, <3>2
  <2>3. \A t \in Threads : st[t] = "BLOCKED" => frame'[t] # NoQueue
    BY <1>3, <1>4, <1>6
  <2> QED
    BY <2>1, <2>2, <2>3 DEF Waiting
<1>8. Joining(frame', st, detached')
  BY <1>1, <1>3, <1>6 DEF SchedInv, Joining
<1>9. OtherTypes' /\ \A t \in Threads : t # me => timer'[t] = timer[t]
  BY <1>1, <1>2 DEF SchedInv, OtherTypes, Fixed
<1>10. Sleeping(callback', timer', st)
  BY <1>1, <1>3, <1>9, StaysAsleep
<1>11. OffCpu(st)
  BY <1>7, <1>8, <1>9, <1>10 DEF OffCpu
<1>12. SchedInv' /\ Chosen(c, st)
  BY <1>1, <1>2, <1>3, <1>11, SwitchStep DEF Fixed
<1> QED
  BY <1>3, <1>12, ChosenSwitched

(***************************************************************************)
(* Waking the threads of ts, which leaves rest in the list of q.           *)
(***************************************************************************)
LEMMA Woken ==
  ASSUME SchedInv, NEW q \in WaitQueues, NEW ts \in Seq(Threads), NEW rest \in Seq(Threads),
         IsInjective(ts), IsInjective(rest),
         Range(ts) \subseteq Range(list[q]), Range(rest) = Range(list[q]) \ Range(ts)
  PROVE  /\ \A t \in Range(ts) : t \in Threads /\ state[t] = "BLOCKED" /\ frame[t] = q
         /\ \A t \in Threads : Readied(state, Range(ts))[t]
                                 = IF t \in Range(ts) THEN "READY" ELSE state[t]
         /\ Waiting([list EXCEPT ![q] = rest], frame, Readied(state, Range(ts)))
         /\ Ready(insert_all_in_run_queue_head(runq, ts), Readied(state, Range(ts)), priority)
<1> DEFINE st == Readied(state, Range(ts))
           ls == [list EXCEPT ![q] = rest]
<1>1. \A t \in Threads : st[t] = IF t \in Range(ts) THEN "READY" ELSE state[t]
  BY DEF Readied
<1>2. /\ list \in [WaitQueues -> Seq(Threads)]
      /\ frame \in [Threads -> WaitQueues \cup {NoQueue}]
      /\ \A r \in WaitQueues :
           /\ IsInjective(list[r])
           /\ Range(list[r]) = {t \in Threads : state[t] = "BLOCKED" /\ frame[t] = r}
      /\ \A t \in Threads : state[t] = "BLOCKED" => frame[t] # NoQueue
  BY DEF SchedInv, Waiting
<1>3. \A t \in Range(ts) : t \in Threads /\ state[t] = "BLOCKED" /\ frame[t] = q
  BY <1>2
<1>4. Ready(insert_all_in_run_queue_head(runq, ts), st, priority)
  BY <1>3, InsertAll DEF SchedInv
<1> HIDE DEF st
<1>5. ls \in [WaitQueues -> Seq(Threads)]
  BY <1>2
<1>6. ASSUME NEW r \in WaitQueues
      PROVE  /\ IsInjective(ls[r])
             /\ Range(ls[r]) = {t \in Threads : st[t] = "BLOCKED" /\ frame[t] = r}
  <2>1. CASE r = q
    <3>1. ls[r] = rest
      BY <1>2, <2>1
    <3>2. {t \in Threads : st[t] = "BLOCKED" /\ frame[t] = q} = Range(list[q]) \ Range(ts)
      BY <1>1, <1>2
    <3> QED
      BY <2>1, <3>1, <3>2
  <2>2. CASE r # q
    <3>1. ls[r] = list[r]
      BY <1>2, <2>2
    <3>2. {t \in Threads : st[t] = "BLOCKED" /\ frame[t] = r} = Range(list[r])
      BY <1>1, <1>2, <1>3, <2>2
    <3> QED
      BY <1>2, <3>1, <3>2
  <2> QED
    BY <2>1, <2>2
<1>7. Waiting(ls, frame, st)
  BY <1>1, <1>2, <1>5, <1>6 DEF Waiting
<1> QED
  BY <1>1, <1>3, <1>4, <1>7 DEF st

LEMMA WokenAll ==
  ASSUME SchedInv, NEW q \in WaitQueues
  PROVE  LET st == Readied(state, Range(list[q]))
         IN  /\ \A t \in Range(list[q]) : t \in Threads /\ state[t] = "BLOCKED" /\ frame[t] = q
             /\ \A t \in Threads : st[t] = IF t \in Range(list[q]) THEN "READY" ELSE state[t]
             /\ Waiting([list EXCEPT ![q] = <<>>], frame, st)
             /\ Ready(insert_all_in_run_queue_head(runq, list[q]), st, priority)
<1>1. list[q] \in Seq(Threads) /\ IsInjective(list[q])
  BY DEF SchedInv, Waiting
<1>2. <<>> \in Seq(Threads) /\ IsInjective(<<>>) /\ Range(<<>>) = Range(list[q]) \ Range(list[q])
  BY EmptyList
<1> QED
  BY <1>1, <1>2, Woken

\* The joined threads stay alive when threads are woken.
LEMMA WokenJoined ==
  ASSUME SchedInv, NEW S, NEW st, UNCHANGED <<frame, detached>>,
         \A t \in Threads : st[t] = IF t \in S THEN "READY" ELSE state[t]
  PROVE  Joining(frame', st, detached')
BY DEF SchedInv, Joining

\* wait_queue_wake_one and wait_queue_wake_all, by a thread or an interrupt.
LEMMA WakeStep ==
  ASSUME SchedInv, Fixed, NEW c \in active_cpus, NEW q \in WaitQueues, NEW n \in 0 .. Len(list[q]),
         NEW reschedule \in BOOLEAN, NEW err, wake(c, q, n, reschedule, err), callback' = callback,
         reschedule => current[c] \in Threads
  PROVE  /\ SchedInv'
         /\ IF reschedule THEN \E W \in SUBSET Range(list[q]) : Switched(c, "READY", W)
                          ELSE UNCHANGED current
<1> DEFINE me == current[c]
           ts == SubSeq(list[q], 1, n)
           rest == SubSeq(list[q], n + 1, Len(list[q]))
           W == Range(ts)
           st == Readied(state, W)
<1>1. /\ UNCHANGED <<frame, timer, detached, priority, active_cpus>>
      /\ list' = [list EXCEPT ![q] = rest]
  BY DEF wake, lifevars
<1>2. c \in CPUs /\ list[q] \in Seq(Threads) /\ IsInjective(list[q])
  BY DEF SchedInv, CpuType, Waiting
<1>3. /\ ts \in Seq(Threads) /\ IsInjective(ts) /\ rest \in Seq(Threads) /\ IsInjective(rest)
      /\ Range(rest) = Range(list[q]) \ W /\ W \subseteq Range(list[q])
  BY <1>2, SplitLemma
<1> HIDE DEF ts, rest
<1>4. /\ \A t \in W : t \in Threads /\ state[t] = "BLOCKED" /\ frame[t] = q
      /\ \A t \in Threads : st[t] = IF t \in W THEN "READY" ELSE state[t]
      /\ Waiting([list EXCEPT ![q] = rest], frame, st)
      /\ Ready(insert_all_in_run_queue_head(runq, ts), st, priority)
  BY <1>3, Woken
<1>5. CASE ~reschedule
  <2>1. /\ runq' = insert_all_in_run_queue_head(runq, ts) /\ state' = st
        /\ UNCHANGED <<current, idle_cpus>>
    BY <1>5 DEF wake, no_resched, waker_in_run_queue, ts
  <2> HIDE DEF st, W
  <2>2. OffCpu(state')
    BY <1>1, <1>4, <2>1, OtherTypesStay, WokenJoined, StaysAsleep DEF OffCpu, Fixed
  <2> QED
    BY <1>1, <1>4, <1>5, <2>1, <2>2, KeepStep DEF Fixed
<1>6. CASE reschedule
  <2> DEFINE rq1 == insert_in_run_queue_head(runq, me, priority[me])
             st1 == [state EXCEPT ![me] = "READY"]
             rq2 == insert_all_in_run_queue_head(rq1, ts)
             st2 == [st EXCEPT ![me] = "READY"]
  <2>1. me \in Threads /\ state[me] = "RUNNING" /\ me \notin W /\ state \in [Threads -> States]
    BY <1>2, <1>4, <1>6 DEF SchedInv, RunningExact, Ready
  <2>2. thread_resched(c, rq2, st2, quantum)
    BY <1>6 DEF wake, waker_in_run_queue, ts
  <2>3. Ready(rq1, st1, priority)
    BY <2>1, InsertHead DEF SchedInv
  <2>4. \A t \in W : st1[t] # "READY"
    BY <1>4, <2>1
  <2> HIDE DEF rq1
  <2>5. Ready(rq2, Readied(st1, W), priority)
    BY <1>3, <2>3, <2>4, InsertAll
  <2>6. Readied(st1, W) = st2
    BY <2>1 DEF Readied
  <2>7. \A t \in Threads : st2[t] = IF t \in W \cup {me} THEN "READY" ELSE state[t]
    BY <2>1 DEF Readied
  <2> HIDE DEF rq2, st1, st2, st, W
  <2>8. Ready(rq2, st2, priority')
    BY <1>1, <2>5, <2>6
  <2>9. Waiting(list', frame', st2)
    <3>1. \A t \in Threads : st2[t] = "BLOCKED" <=> st[t] = "BLOCKED"
      BY <1>4, <2>1, <2>7
    <3> QED
      BY <1>1, <1>4, <3>1 DEF Waiting
  <2>10. Joining(frame', st2, detached')
    BY <1>1, <2>7, WokenJoined
  <2>11. Sleeping(callback', timer', st2)
    BY <1>1, <1>4, <2>1, <2>7, StaysAsleep
  <2>12. OffCpu(st2)
    BY <1>1, <2>9, <2>10, <2>11, OtherTypesStay DEF OffCpu, Fixed
  <2>13. \A t \in Threads : st2[t] = "RUNNING" <=> state[t] = "RUNNING" /\ t # current[c]
    BY <1>4, <2>1, <2>7
  <2>14. SchedInv' /\ Chosen(c, st2)
    BY <1>1, <2>2, <2>8, <2>12, <2>13, SwitchStep DEF Fixed
  <2>15. Switched(c, "READY", W)
    BY <2>7, <2>14, ChosenSwitched
  <2> QED
    BY <1>3, <1>6, <2>14, <2>15
<1> QED
  BY <1>5, <1>6

\* thread_detach wakes the threads that are joining t.
LEMMA DetachStep ==
  ASSUME SchedInv, Fixed, NEW c \in CPUs, NEW t \in Threads, thread_detach(c, t)
  PROVE  SchedInv'
<1> DEFINE W == Range(list[t])
           st == Readied(state, W)
<1>1. /\ UNCHANGED <<frame, timer, priority, callback, active_cpus, current, idle_cpus>>
      /\ list' = [list EXCEPT ![t] = <<>>] /\ state' = st
      /\ runq' = insert_all_in_run_queue_head(runq, list[t])
      /\ detached' \subseteq detached \cup {t}
  BY DEF thread_detach, WakeAll, no_resched, irqvars
<1>2. t \in WaitQueues
  BY DEF WaitQueues
<1>3. /\ \A x \in W : x \in Threads /\ state[x] = "BLOCKED" /\ frame[x] = t
      /\ \A x \in Threads : st[x] = IF x \in W THEN "READY" ELSE state[x]
      /\ Waiting([list EXCEPT ![t] = <<>>], frame, st)
      /\ Ready(insert_all_in_run_queue_head(runq, list[t]), st, priority)
  BY <1>2, WokenAll
<1>4. \A x \in Threads : state[x] = "BLOCKED" /\ frame[x] = t => x \in W
  BY <1>2 DEF SchedInv, Waiting
<1> HIDE DEF st, W
<1>5. Joining(frame', st, detached')
  BY <1>1, <1>3, <1>4 DEF SchedInv, Joining
<1>6. OffCpu(state')
  BY <1>1, <1>3, <1>5, OtherTypesStay, StaysAsleep DEF OffCpu, Fixed
<1> QED
  BY <1>1, <1>3, <1>6, KeepStep DEF Fixed

LEMMA ExitStep ==
  ASSUME SchedInv, Fixed, NEW c \in CPUs, thread_exit(c)
  PROVE  /\ SchedInv'
         /\ IF current[c] \in detached THEN Switched(c, "NONE", {})
                                       ELSE Switched(c, "DEATH", Range(list[current[c]]))
<1> DEFINE me == current[c]
<1>1. c \in active_cpus /\ me \in Threads /\ state[me] = "RUNNING"
  BY CurrentThread DEF thread_exit, calls
<1>2. UNCHANGED <<detached, priority, callback, active_cpus>>
  BY DEF thread_exit, lifevars, irqvars
<1>3. CASE me \in detached
  <2> DEFINE st == [state EXCEPT ![me] = "NONE"]
  <2>1. UNCHANGED <<list, frame, timer>> /\ thread_resched(c, runq, st, quantum)
    BY <1>3 DEF thread_exit, waitvars
  <2>2. /\ Ready(runq, st, priority')
        /\ \A t \in Threads : st[t] = IF t = me THEN "NONE" ELSE state[t]
    BY <1>1, <1>2, OffTheCpu DEF States
  <2> HIDE DEF st
  <2>3. Joining(frame', st, detached')
    BY <1>2, <1>3, <2>1, <2>2 DEF SchedInv, Joining
  <2>4. OffCpu(st)
    BY <1>1, <1>2, <2>1, <2>2, <2>3, OtherTypesStay, StaysWaiting, StaysAsleep DEF OffCpu, Fixed
  <2>5. SchedInv' /\ Chosen(c, st)
    BY <1>1, <1>2, <2>1, <2>2, <2>4, SwitchStep DEF Fixed
  <2> QED
    BY <1>3, <2>2, <2>5, ChosenSwitched
<1>4. CASE me \notin detached
  <2> DEFINE W == Range(list[me])
             st1 == Readied(state, W)
             st == [st1 EXCEPT ![me] = "DEATH"]
             rq == insert_all_in_run_queue_head(runq, list[me])
  <2>1. /\ UNCHANGED <<frame, timer>> /\ list' = [list EXCEPT ![me] = <<>>]
        /\ thread_resched(c, rq, st, quantum)
    BY <1>4 DEF thread_exit, WakeAll
  <2>2. me \in WaitQueues
    BY <1>1 DEF WaitQueues
  <2>3. /\ \A x \in W : x \in Threads /\ state[x] = "BLOCKED" /\ frame[x] = me
        /\ \A x \in Threads : st1[x] = IF x \in W THEN "READY" ELSE state[x]
        /\ Waiting([list EXCEPT ![me] = <<>>], frame, st1)
        /\ Ready(rq, st1, priority)
    BY <2>2, WokenAll
  <2>4. \A x \in Threads : state[x] = "BLOCKED" /\ frame[x] = me => x \in W
    BY <2>2 DEF SchedInv, Waiting
  <2> HIDE DEF st1, W, rq
  <2>5. st1 \in [Threads -> States] /\ priority \in [Threads -> Priorities] /\ me \notin W
    BY <1>1, <2>3 DEF Ready
  <2>6. /\ st \in [Threads -> States]
        /\ \A x \in Threads : st[x] = IF x = me THEN "DEATH" ELSE st1[x]
    BY <1>1, <2>5 DEF States
  <2> HIDE DEF st
  <2>7. st1[me] = "RUNNING"
    BY <1>1, <2>3, <2>5
  <2>8. Ready(rq, st, priority')
    BY <1>2, <2>3, <2>5, <2>6, <2>7, ReadyKept
  <2>9. Waiting(list', frame', st)
    <3>1. \A x \in Threads : st[x] = "BLOCKED" <=> st1[x] = "BLOCKED"
      BY <2>6, <2>7
    <3> QED
      BY <2>1, <2>3, <3>1 DEF Waiting
  <2>10. Joining(frame', st, detached')
    BY <1>1, <1>2, <2>1, <2>3, <2>4, <2>6 DEF SchedInv, Joining
  <2>11. Sleeping(callback', timer', st)
    BY <1>1, <1>2, <2>1, <2>3, <2>6, StaysAsleep
  <2>12. OffCpu(st)
    BY <1>2, <2>1, <2>9, <2>10, <2>11, OtherTypesStay DEF OffCpu, Fixed
  <2>13. \A t \in Threads : st[t] = "RUNNING" <=> state[t] = "RUNNING" /\ t # current[c]
    BY <1>1, <2>3, <2>6
  <2>14. SchedInv' /\ Chosen(c, st)
    BY <1>1, <1>2, <2>1, <2>8, <2>12, <2>13, SwitchStep DEF Fixed
  <2>15. \A x \in Threads : st[x] = IF x = current[c] THEN "DEATH" ELSE
                                    IF x \in W THEN "READY" ELSE state[x]
    BY <2>3, <2>6
  <2>16. Switched(c, "DEATH", W)
    BY <2>14, <2>15, ChosenSwitched
  <2> QED
    BY <1>4, <2>14, <2>16 DEF W
<1> QED
  BY <1>3, <1>4

(***************************************************************************)
(* A thread that is in no list changes its state.                          *)
(***************************************************************************)
LEMMA CreateStep ==
  ASSUME SchedInv, Fixed, NEW c \in CPUs, NEW t \in Threads, thread_create(c, t)
  PROVE  SchedInv'
<1>1. /\ state[t] = "NONE" /\ state' = [state EXCEPT ![t] = "SUSPENDED"]
      /\ priority' = [priority EXCEPT ![t] = Priority[t]]
      /\ detached' = detached \ {t} /\ list' = [list EXCEPT ![t] = <<>>]
      /\ UNCHANGED <<frame, timer, callback, active_cpus, runq, current, idle_cpus>>
  BY DEF thread_create, irqvars
<1>2. /\ state \in [Threads -> States] /\ priority \in [Threads -> Priorities]
      /\ Priority \in [Threads -> Priorities]
  BY SchedAssumption DEF SchedInv, Ready
<1>3. \A x \in Threads : /\ state'[x] = IF x = t THEN "SUSPENDED" ELSE state[x]
                         /\ priority'[x] = IF x = t THEN Priority[t] ELSE priority[x]
  BY <1>1, <1>2
<1>4. state' \in [Threads -> States] /\ priority' \in [Threads -> Priorities]
  BY <1>1, <1>2 DEF States
<1>5. Ready(runq', state', priority')
  <2>1. Ready(runq, state, priority)
    BY DEF SchedInv
  <2>2. Ready(runq, state', priority')
    BY <1>1, <1>3, <1>4, <2>1, ReadyKept
  <2> QED
    BY <1>1, <2>2
<1>6. list' = list
  <2>1. t \in WaitQueues /\ list \in [WaitQueues -> Seq(Threads)]
    BY DEF WaitQueues, SchedInv, Waiting
  <2>2. Range(list[t]) = {}
    <3>1. \A x \in Threads : ~(state[x] = "BLOCKED" /\ frame[x] = t)
      BY <1>1 DEF SchedInv, Joining
    <3> QED
      BY <2>1, <3>1 DEF SchedInv, Waiting
  <2>3. list[t] = <<>>
    BY <2>1, <2>2, EmptyRange
  <2> QED
    BY <1>1, <2>1, <2>3
<1>7. Joining(frame', state', detached')
  BY <1>1, <1>3 DEF SchedInv, Joining
<1>8. Waiting(list', frame', state')
  <2>1. \A x \in Threads : state'[x] = "BLOCKED" <=> state[x] = "BLOCKED"
    BY <1>1, <1>3
  <2> QED
    BY <1>1, <1>6, <2>1, StaysWaiting
<1>9. Sleeping(callback', timer', state')
  <2>1. \A x \in Threads : state[x] = "SLEEPING" => state'[x] = "SLEEPING" /\ timer'[x] = timer[x]
    BY <1>1, <1>3
  <2> QED
    BY <1>1, <2>1, StaysAsleep
<1>10. OffCpu(state')
  BY <1>1, <1>7, <1>8, <1>9, OtherTypesStay DEF OffCpu, Fixed
<1> QED
  BY <1>1, <1>3, <1>5, <1>10, KeepStep DEF Fixed

\* A dead thread is freed.
LEMMA FreeStep ==
  ASSUME SchedInv, Fixed, NEW t \in Threads, state[t] = "DEATH",
         state' = [state EXCEPT ![t] = "NONE"],
         UNCHANGED <<priority, callback, active_cpus, runq, current, idle_cpus, list, detached>>,
         frame' \in [Threads -> WaitQueues \cup {NoQueue}],
         \A x \in Threads : state[x] = "BLOCKED" => frame'[x] = frame[x],
         \A x \in Threads : state[x] = "SLEEPING" => timer'[x] = timer[x],
         timer' \in [Threads -> CPUs \cup {NoCpu}]
  PROVE  SchedInv'
<1>1. state \in [Threads -> States] /\ priority \in [Threads -> Priorities]
  BY DEF SchedInv, Ready
<1>2. \A x \in Threads : state'[x] = IF x = t THEN "NONE" ELSE state[x]
  BY <1>1
<1>3. state' \in [Threads -> States]
  BY <1>1 DEF States
<1>4. Ready(runq', state', priority')
  <2>1. Ready(runq, state, priority)
    BY DEF SchedInv
  <2>2. Ready(runq, state', priority)
    BY <1>1, <1>2, <1>3, <2>1, ReadyKept
  <2> QED
    BY <2>2
<1>5. Waiting(list', frame', state')
  BY <1>2 DEF SchedInv, Waiting
<1>6. Joining(frame', state', detached')
  BY <1>2 DEF SchedInv, Joining
<1>7. Sleeping(callback', timer', state')
  BY <1>2, StaysAsleep
<1>8. OffCpu(state')
  BY <1>5, <1>6, <1>7 DEF OffCpu, SchedInv, OtherTypes, Fixed
<1> QED
  BY <1>2, <1>4, <1>8, KeepStep DEF Fixed

LEMMA JoinDeadStep ==
  ASSUME SchedInv, Fixed, NEW c \in CPUs, NEW t \in Threads, thread_join_dead(c, t)
  PROVE  SchedInv'
<1>1. /\ state[t] = "DEATH" /\ state' = [state EXCEPT ![t] = "NONE"]
      /\ UNCHANGED <<priority, callback, active_cpus, runq, current, idle_cpus, list, detached,
                     frame, timer>>
  BY DEF thread_join_dead, no_resched, waitvars, irqvars
<1>2. /\ frame' \in [Threads -> WaitQueues \cup {NoQueue}]
      /\ timer' \in [Threads -> CPUs \cup {NoCpu}]
  BY <1>1 DEF SchedInv, Waiting, OtherTypes
<1> QED
  BY <1>1, <1>2, FreeStep

(***************************************************************************)
(* The call that was switched out is completed.  A joiner frees the thread *)
(* it was told of: here it matters that it is still there.                 *)
(***************************************************************************)
LEMMA ReschedReturnStep ==
  ASSUME SchedInv, Fixed, JoinerFindsThread, NEW c \in CPUs, thread_resched_return(c)
  PROVE  SchedInv'
<1> DEFINE me == current[c]
<1>1. UNCHANGED <<priority, callback, active_cpus, runq, current, idle_cpus, list, detached>>
  BY DEF thread_resched_return, lifevars, irqvars
<1>2. CASE ~(me \in Threads /\ frame[me] # NoQueue)
  <2>1. UNCHANGED <<timer, frame, state>>
    BY <1>2 DEF thread_resched_return
  <2> QED
    BY <1>1, <2>1, SchedStutter DEF Fixed
<1>3. CASE me \in Threads /\ frame[me] # NoQueue
  <2>1. state[me] = "RUNNING"
    BY <1>3 DEF SchedInv, RunningExact
  <2>2. /\ timer' = [timer EXCEPT ![me] = IF me \in timed THEN NoCpu ELSE timer[me]]
        /\ frame' = [frame EXCEPT ![me] = NoQueue]
        /\ state' = IF frame[me] \in Threads /\ block_ret[me] = "NO_ERROR"
                      THEN [state EXCEPT ![frame[me]] = "NONE"] ELSE state
    BY <1>3 DEF thread_resched_return
  <2>3. /\ frame' \in [Threads -> WaitQueues \cup {NoQueue}]
        /\ timer' \in [Threads -> CPUs \cup {NoCpu}]
        /\ \A x \in Threads : x # me => frame'[x] = frame[x] /\ timer'[x] = timer[x]
    BY <1>3, <2>2 DEF SchedInv, Waiting, OtherTypes
  <2>4. CASE frame[me] \in Threads /\ block_ret[me] = "NO_ERROR"
    <3>1. state[frame[me]] = "DEATH"
      BY <1>3, <2>1, <2>4 DEF JoinerFindsThread
    <3>2. state' = [state EXCEPT ![frame[me]] = "NONE"]
      BY <2>2, <2>4
    <3> QED
      BY <1>1, <2>1, <2>3, <2>4, <3>1, <3>2, FreeStep
  <2>5. CASE ~(frame[me] \in Threads /\ block_ret[me] = "NO_ERROR")
    <3>1. state' = state
      BY <2>2, <2>5
    <3>2. Waiting(list', frame', state')
      BY <1>1, <2>1, <2>3, <3>1 DEF SchedInv, Waiting
    <3>3. Joining(frame', state', detached')
      BY <1>1, <2>1, <2>3, <3>1, StaysJoined
    <3>4. Sleeping(callback', timer', state')
      BY <1>1, <2>1, <2>3, <3>1, StaysAsleep
    <3>5. OffCpu(state')
      BY <1>1, <2>3, <3>2, <3>3, <3>4 DEF OffCpu, SchedInv, OtherTypes, Fixed
    <3>6. Ready(runq', state', priority')
      BY <1>1, <3>1 DEF SchedInv
    <3> QED
      BY <1>1, <3>1, <3>5, <3>6, KeepStep DEF Fixed
  <2> QED
    BY <2>4, <2>5
<1> QED
  BY <1>2, <1>3

(***************************************************************************)
(* A thread becomes ready: it is resumed, its sleep is over, or its wait   *)
(* has timed out.                                                          *)
(***************************************************************************)
LEMMA ReadyStep ==
  ASSUME SchedInv, Fixed, NEW t \in Threads, state[t] \notin {"READY", "RUNNING"},
         state' = [state EXCEPT ![t] = "READY"],
         runq' = insert_in_run_queue_head(runq, t, priority[t]),
         UNCHANGED <<priority, active_cpus, current, idle_cpus, frame, timer, detached>>,
         list' \in [WaitQueues -> Seq(Threads)],
         \A q \in WaitQueues : /\ IsInjective(list'[q])
                               /\ Range(list'[q]) = Range(list[q]) \ {t},
         callback' \in [CPUs -> {NoCallback} \cup ({"sleep", "timeout"} \X Threads)],
         \A c \in CPUs : callback'[c] # <<"sleep", t>> /\ callback'[c] \in {callback[c], NoCallback}
  PROVE  SchedInv'
<1>1. state \in [Threads -> States]
  BY DEF SchedInv, Ready
<1>2. \A x \in Threads : state'[x] = IF x = t THEN "READY" ELSE state[x]
  BY <1>1
<1>3. Ready(runq', state', priority')
  BY InsertHead DEF SchedInv
<1>4. Waiting(list', frame', state')
  <2>1. \A q \in WaitQueues :
          Range(list'[q]) = {x \in Threads : state'[x] = "BLOCKED" /\ frame'[x] = q}
    BY <1>2 DEF SchedInv, Waiting
  <2> QED
    BY <1>2, <2>1 DEF SchedInv, Waiting
<1>5. Joining(frame', state', detached')
  BY <1>2 DEF SchedInv, Joining
<1>6. Sleeping(callback', timer', state')
  <2> SUFFICES ASSUME NEW c \in CPUs, NEW x \in Threads, callback'[c] = <<"sleep", x>>
               PROVE  /\ state'[x] = "SLEEPING" /\ timer[x] = NoCpu
                      /\ \A d \in CPUs : callback'[d] = <<"sleep", x>> => d = c
    BY DEF Sleeping
  <2>1. <<"sleep", x>> # NoCallback
    BY DEF NoCallback
  <2>2. \A d \in CPUs : callback'[d] = <<"sleep", x>> => callback[d] = <<"sleep", x>>
    BY <2>1
  <2>3. x # t
    OBVIOUS
  <2> QED
    BY <1>2, <2>2, <2>3 DEF SchedInv, Sleeping
<1>7. OffCpu(state')
  BY <1>4, <1>5, <1>6 DEF OffCpu, SchedInv, OtherTypes, Fixed
<1> QED
  BY <1>2, <1>3, <1>7, KeepStep DEF Fixed

LEMMA ResumeStep ==
  ASSUME SchedInv, Fixed, NEW c \in CPUs, NEW t \in Threads, thread_resume(c, t)
  PROVE  SchedInv'
<1>1. /\ state[t] = "SUSPENDED" /\ state' = [state EXCEPT ![t] = "READY"]
      /\ runq' = insert_in_run_queue_head(runq, t, priority[t])
      /\ UNCHANGED <<priority, active_cpus, current, idle_cpus, frame, timer, detached, list,
                     callback>>
  BY DEF thread_resume, no_resched, waitvars, irqvars
<1>2. \A q \in WaitQueues : /\ IsInjective(list'[q])
                            /\ Range(list'[q]) = Range(list[q]) \ {t}
  BY <1>1 DEF SchedInv, Waiting
<1>3. \A d \in CPUs : callback'[d] # <<"sleep", t>>
  BY <1>1 DEF SchedInv, Sleeping
<1>4. /\ list' \in [WaitQueues -> Seq(Threads)]
      /\ callback' \in [CPUs -> {NoCallback} \cup ({"sleep", "timeout"} \X Threads)]
  BY <1>1 DEF SchedInv, Waiting, OtherTypes
<1>5. \A d \in CPUs : callback'[d] \in {callback[d], NoCallback}
  BY <1>1
<1> QED
  BY <1>1, <1>2, <1>3, <1>4, <1>5, ReadyStep

LEMMA SleepHandlerStep ==
  ASSUME SchedInv, Fixed, NEW c \in CPUs, NEW t \in Threads, thread_sleep_handler(c, t)
  PROVE  SchedInv'
<1>1. /\ callback[c] = <<"sleep", t>> /\ callback' = [callback EXCEPT ![c] = NoCallback]
      /\ state' = [state EXCEPT ![t] = "READY"]
      /\ runq' = insert_in_run_queue_head(runq, t, priority[t])
      /\ UNCHANGED <<priority, active_cpus, current, idle_cpus, frame, timer, detached, list>>
  BY DEF thread_sleep_handler, no_resched, waitvars, lifevars
<1>2. state[t] = "SLEEPING" /\ \A d \in CPUs : callback[d] = <<"sleep", t>> => d = c
  BY <1>1 DEF SchedInv, Sleeping
<1>3. \A q \in WaitQueues : /\ IsInjective(list'[q])
                            /\ Range(list'[q]) = Range(list[q]) \ {t}
  BY <1>1, <1>2 DEF SchedInv, Waiting
<1>4. /\ list' \in [WaitQueues -> Seq(Threads)]
      /\ callback' \in [CPUs -> {NoCallback} \cup ({"sleep", "timeout"} \X Threads)]
      /\ \A d \in CPUs : callback'[d] = IF d = c THEN NoCallback ELSE callback[d]
  BY <1>1 DEF SchedInv, Waiting, OtherTypes
<1>5. NoCallback # <<"sleep", t>>
  BY DEF NoCallback
<1>6. \A d \in CPUs : callback'[d] # <<"sleep", t>> /\ callback'[d] \in {callback[d], NoCallback}
  BY <1>2, <1>4, <1>5
<1> QED
  BY <1>1, <1>2, <1>3, <1>4, <1>6, ReadyStep

LEMMA TimeoutStep ==
  ASSUME SchedInv, Fixed, NEW c \in CPUs, NEW t \in Threads, wait_queue_timeout_handler(c, t)
  PROVE  SchedInv'
<1>1. /\ callback[c] = <<"timeout", t>> /\ callback' = [callback EXCEPT ![c] = NoCallback]
      /\ UNCHANGED <<frame, timer, detached, priority, active_cpus>>
      /\ thread_unblock_from_wait_queue(c, t, "ERR_TIMED_OUT")
  BY DEF wait_queue_timeout_handler, lifevars
<1>2. /\ callback' \in [CPUs -> {NoCallback} \cup ({"sleep", "timeout"} \X Threads)]
      /\ \A d \in CPUs : callback'[d] = IF d = c THEN NoCallback ELSE callback[d]
  BY <1>1 DEF SchedInv, OtherTypes
<1>3. \A x \in Threads : NoCallback # <<"sleep", x>>
  BY DEF NoCallback
<1>4. CASE state[t] = "BLOCKED"
  <2> DEFINE q == frame[t]
  <2>1. /\ list' = [list EXCEPT ![q] = RemoveFirst(list[q], t)]
        /\ state' = [state EXCEPT ![t] = "READY"]
        /\ runq' = insert_in_run_queue_head(runq, t, priority[t])
        /\ UNCHANGED <<current, idle_cpus>>
    BY <1>1, <1>4 DEF thread_unblock_from_wait_queue, no_resched
  <2>2. /\ q \in WaitQueues /\ list \in [WaitQueues -> Seq(Threads)]
        /\ \A r \in WaitQueues :
             /\ IsInjective(list[r])
             /\ Range(list[r]) = {x \in Threads : state[x] = "BLOCKED" /\ frame[x] = r}
    BY <1>4 DEF SchedInv, Waiting
  <2> HIDE DEF q
  <2>3. /\ RemoveFirst(list[q], t) \in Seq(Threads) /\ IsInjective(RemoveFirst(list[q], t))
        /\ Range(RemoveFirst(list[q], t)) = Range(list[q]) \ {t}
    BY <2>2, RemoveFirstLemma
  <2>4. /\ list' \in [WaitQueues -> Seq(Threads)]
        /\ \A r \in WaitQueues : list'[r] = IF r = q THEN RemoveFirst(list[q], t) ELSE list[r]
    BY <2>1, <2>2, <2>3
  <2>5. \A r \in WaitQueues : r # q => t \notin Range(list[r])
    BY <2>2 DEF q
  <2>6. \A r \in WaitQueues : IsInjective(list'[r]) /\ Range(list'[r]) = Range(list[r]) \ {t}
    BY <2>2, <2>3, <2>4, <2>5
  <2>7. \A d \in CPUs : callback'[d] # <<"sleep", t>> /\ callback'[d] \in {callback[d], NoCallback}
    <3>1. \A d \in CPUs : callback[d] # <<"sleep", t>>
      BY <1>4 DEF SchedInv, Sleeping
    <3> QED
      BY <1>2, <1>3, <3>1
  <2> QED
    BY <1>1, <1>2, <1>4, <2>1, <2>4, <2>6, <2>7, ReadyStep
<1>5. CASE state[t] # "BLOCKED"
  <2>1. UNCHANGED <<list, state, runq, current, idle_cpus>>
    BY <1>1, <1>5 DEF thread_unblock_from_wait_queue, runvars
  <2>2. Sleeping(callback', timer', state')
    BY <1>1, <1>2, <1>3, <2>1 DEF SchedInv, Sleeping
  <2>3. OffCpu(state')
    BY <1>1, <1>2, <2>1, <2>2 DEF OffCpu, SchedInv, OtherTypes, Fixed
  <2>4. Ready(runq', state', priority')
    BY <1>1, <2>1 DEF SchedInv
  <2> QED
    BY <1>1, <2>1, <2>3, <2>4, KeepStep DEF Fixed
<1> QED
  BY <1>4, <1>5

\* The callback of a timer that was queued has not been taken before.
LEMMA TimerTickStep ==
  ASSUME SchedInv, Fixed, NEW c \in CPUs, NEW t \in Threads, timer_tick(c, t)
  PROVE  SchedInv'
<1> DEFINE kind == IF state[t] = "SLEEPING" THEN "sleep" ELSE "timeout"
<1>1. /\ timer[t] = c /\ timer' = [timer EXCEPT ![t] = NoCpu]
      /\ callback[c] = NoCallback /\ callback' = [callback EXCEPT ![c] = <<kind, t>>]
      /\ UNCHANGED <<list, frame, detached, priority, state, runq, current, idle_cpus, active_cpus>>
  BY DEF timer_tick, interrupts_enabled, lifevars, runvars
<1>2. /\ timer \in [Threads -> CPUs \cup {NoCpu}] /\ NoCpu \notin CPUs
      /\ callback \in [CPUs -> {NoCallback} \cup ({"sleep", "timeout"} \X Threads)]
  BY SchedAssumption DEF SchedInv, OtherTypes
<1>3. /\ \A x \in Threads : timer'[x] = IF x = t THEN NoCpu ELSE timer[x]
      /\ \A d \in CPUs : callback'[d] = IF d = c THEN <<kind, t>> ELSE callback[d]
  BY <1>1, <1>2
<1>4. OtherTypes'
  BY <1>1, <1>2 DEF SchedInv, OtherTypes, Fixed
<1>5. \A d \in CPUs : callback[d] # <<"sleep", t>>
  BY <1>1, <1>2 DEF SchedInv, Sleeping
<1>6. Sleeping(callback', timer', state')
  <2> SUFFICES ASSUME NEW d \in CPUs, NEW x \in Threads, callback'[d] = <<"sleep", x>>
               PROVE  /\ state[x] = "SLEEPING" /\ timer'[x] = NoCpu
                      /\ \A e \in CPUs : callback'[e] = <<"sleep", x>> => e = d
    BY <1>1 DEF Sleeping
  <2>1. CASE d = c
    <3>1. x = t /\ kind = "sleep"
      BY <1>3, <2>1
    <3> QED
      BY <1>3, <1>5, <2>1, <3>1
  <2>2. CASE d # c
    <3>1. callback[d] = <<"sleep", x>> /\ x # t
      BY <1>3, <1>5, <2>2
    <3>2. \A e \in CPUs : callback'[e] = <<"sleep", x>> => callback[e] = <<"sleep", x>>
      BY <1>3, <3>1
    <3> QED
      BY <1>3, <3>1, <3>2 DEF SchedInv, Sleeping
  <2> QED
    BY <2>1, <2>2
<1>7. OffCpu(state')
  BY <1>1, <1>4, <1>6 DEF OffCpu, SchedInv
<1>8. Ready(runq', state', priority')
  BY <1>1 DEF SchedInv
<1> QED
  BY <1>1, <1>7, <1>8, KeepStep DEF Fixed

\* A CPU that starts changes nothing but its own marks.
LEMMA BootKeeps ==
  ASSUME NEW c \in CPUs, boot_step(c)
  PROVE  /\ UNCHANGED <<list, frame, timed, block_ret, timer, realtime, detached, cont, priority,
                        callback, ipi, state, quantum, runq, current, realtime_cpus,
                        preempt_timer, thread_lock>>
         /\ active_cpus' \in {active_cpus, active_cpus \cup {c}}
         /\ resched' \in {resched, [resched EXCEPT ![c] = TRUE]}
<1>1. CASE UNCHANGED vars
  BY <1>1 DEF vars, waitvars, lifevars, irqvars, runvars
<1>2. CASE mp_set_curr_cpu_active(c)
  BY <1>2 DEF mp_set_curr_cpu_active, waitvars, lifevars, irqvars, runvars
<1>3. CASE mp_set_cpu_idle_store(c)
  BY <1>3 DEF mp_set_cpu_idle_store, waitvars, lifevars
<1> QED
  BY <1>1, <1>2, <1>3 DEF boot_step, arch_init, thread_become_idle, mp_set_cpu_idle_load

LEMMA BootStep ==
  ASSUME SchedInv, Fixed, NEW c \in CPUs, boot_step(c)
  PROVE  SchedInv'
<1>1. /\ active_cpus' \in {active_cpus, active_cpus \cup {c}}
      /\ UNCHANGED <<list, frame, timer, detached, priority, callback, state, runq, current>>
  BY BootKeeps
<1>2. CpuType' /\ IdleUntilActive'
  BY <1>1 DEF SchedInv, CpuType, IdleUntilActive
<1>3. RunningExact'
  BY <1>1 DEF SchedInv, RunningExact, Fixed
<1>4. OtherTypes'
  BY <1>1, OtherTypesStay DEF Fixed
<1> QED
  BY <1>1, <1>2, <1>3, <1>4 DEF SchedInv

(***************************************************************************)
(* The operations on wait queues, by threads and by an interrupt.          *)
(***************************************************************************)
LEMMA WaitStep ==
  ASSUME SchedInv, Fixed, NEW c \in CPUs, NEW q \in Queues, NEW timeout,
         wait_queue_block(c, q, timeout)
  PROVE  SchedInv' /\ Switched(c, "BLOCKED", {})
<1>1. runs(c) /\ block(c, q, timeout) /\ UNCHANGED <<detached, priority, callback, active_cpus>>
  BY DEF wait_queue_block, calls, lifevars, irqvars
<1>2. q \in WaitQueues /\ q \notin Threads
  BY SchedAssumption DEF WaitQueues
<1> QED
  BY <1>1, <1>2, BlockStep

LEMMA JoinWaitStep ==
  ASSUME SchedInv, Fixed, NEW c \in CPUs, NEW t \in Threads, NEW timeout,
         thread_join_wait(c, t, timeout)
  PROVE  SchedInv' /\ Switched(c, "BLOCKED", {})
<1>1. /\ runs(c) /\ block(c, t, timeout) /\ UNCHANGED <<detached, priority, callback, active_cpus>>
      /\ state[t] \notin {"NONE", "DEATH"} /\ t \notin detached
  BY DEF thread_join_wait, calls, lifevars, irqvars
<1>2. t \in WaitQueues
  BY DEF WaitQueues
<1> QED
  BY <1>1, <1>2, BlockStep

LEMMA WakeOneStep ==
  ASSUME SchedInv, Fixed, NEW c \in CPUs, NEW q \in Queues, NEW reschedule \in BOOLEAN,
         wait_queue_wake_one(c, q, reschedule)
  PROVE  /\ SchedInv'
         /\ IF reschedule THEN \E W \in SUBSET Range(list[q]) : Switched(c, "READY", W)
                          ELSE UNCHANGED current
<1>1. /\ c \in active_cpus /\ current[c] \in Threads
      /\ wake(c, q, 1, reschedule, "NO_ERROR") /\ callback' = callback
  BY CurrentThread DEF wait_queue_wake_one, calls, irqvars
<1>2. q \in WaitQueues /\ list[q] \in Seq(Threads) /\ list[q] # <<>>
  BY DEF WaitQueues, SchedInv, Waiting, wait_queue_wake_one
<1>3. 1 \in 0 .. Len(list[q])
  BY <1>2, EmptySeq
<1> QED
  BY <1>1, <1>2, <1>3, WakeStep

LEMMA WakeAllStep ==
  ASSUME SchedInv, Fixed, NEW c \in CPUs, NEW q \in Queues, NEW reschedule \in BOOLEAN, NEW err,
         wait_queue_wake_all(c, q, reschedule, err)
  PROVE  /\ SchedInv'
         /\ IF reschedule THEN \E W \in SUBSET Range(list[q]) : Switched(c, "READY", W)
                          ELSE UNCHANGED current
<1>1. /\ c \in active_cpus /\ current[c] \in Threads
      /\ wake(c, q, Len(list[q]), reschedule, err) /\ callback' = callback
  BY CurrentThread DEF wait_queue_wake_all, calls, irqvars
<1>2. q \in WaitQueues /\ list[q] \in Seq(Threads)
  BY DEF WaitQueues, SchedInv, Waiting
<1>3. Len(list[q]) \in 0 .. Len(list[q])
  BY <1>2, LenProperties
<1> QED
  BY <1>1, <1>2, <1>3, WakeStep

LEMMA IrqWakeStep ==
  ASSUME SchedInv, Fixed, NEW c \in CPUs, NEW q \in Queues, irq_wake_one(c, q)
  PROVE  SchedInv'
<1>1. c \in active_cpus /\ wake(c, q, 1, FALSE, "NO_ERROR") /\ callback' = callback
  BY DEF irq_wake_one, interrupts_enabled
<1>2. q \in WaitQueues /\ list[q] \in Seq(Threads) /\ list[q] # <<>>
  BY DEF WaitQueues, SchedInv, Waiting, irq_wake_one
<1>3. 1 \in 0 .. Len(list[q])
  BY <1>2, EmptySeq
<1> QED
  BY <1>1, <1>2, <1>3, WakeStep

(***************************************************************************)
(* The invariant holds at the start, and every step keeps it.              *)
(***************************************************************************)
LEMMA SchedInit == Init => SchedInv
<1> SUFFICES ASSUME Init PROVE SchedInv
  OBVIOUS
<1>1. /\ Main \in Threads /\ Priority \in [Threads -> Priorities] /\ NoQueue \notin Threads
      /\ Priority[Main] \in Priorities /\ CPUs \cap Threads = {}
  BY SchedAssumption
<1>2. OtherTypes /\ CpuType /\ IdleUntilActive
  BY DEF Init, OtherTypes, CpuType, IdleUntilActive
<1>3. RunningExact
  BY <1>1 DEF Init, RunningExact
<1>4. Ready(runq, state, priority)
  <2> DEFINE p0 == Priority[Main]
             s == <<Main>>
  <2>1. /\ s \in Seq(Threads) /\ Range(s) = {Main} /\ IsInjective(s) /\ s # <<>>
    BY <1>1 DEF Range, IsInjective
  <2>2. <<>> \in Seq(Threads) /\ IsInjective(<<>>) /\ Range(<<>>) = {}
    BY EmptyList
  <2>3. state \in [Threads -> States] /\ \A t \in Threads : state[t] = "READY" <=> t = Main
    BY <1>1 DEF Init, States
  <2>4. /\ runq.bitmap = {p0} /\ priority = Priority
        /\ runq.list = [p \in Priorities |-> IF p = p0 THEN s ELSE <<>>]
    BY DEF Init
  <2> HIDE DEF s
  <2>5. runq \in RunQueue
    <3>1. runq.list \in [Priorities -> Seq(Threads)] /\ runq.bitmap \in SUBSET Priorities
      BY <1>1, <2>1, <2>2, <2>4
    <3>2. runq = [list |-> runq.list, bitmap |-> runq.bitmap]
      BY DEF Init
    <3> QED
      BY <3>1, <3>2 DEF RunQueue
  <2>6. ASSUME NEW p \in Priorities
        PROVE  InRunQueue(runq.list[p], p, state, priority)
    <3>1. CASE p = p0
      <4>1. runq.list[p] = s /\ {t \in Threads : state[t] = "READY" /\ priority[t] = p} = {Main}
        BY <1>1, <2>3, <2>4, <3>1
      <4> QED
        BY <2>1, <4>1 DEF InRunQueue
    <3>2. CASE p # p0
      <4>1. runq.list[p] = <<>> /\ {t \in Threads : state[t] = "READY" /\ priority[t] = p} = {}
        BY <1>1, <2>3, <2>4, <3>2
      <4> QED
        BY <2>2, <4>1 DEF InRunQueue
    <3> QED
      BY <3>1, <3>2
  <2>7. runq.bitmap = {p \in Priorities : runq.list[p] # <<>>}
    BY <1>1, <2>1, <2>4
  <2> QED
    BY <1>1, <2>3, <2>4, <2>5, <2>6, <2>7 DEF Ready
<1>5. Waiting(list, frame, state)
  <2>1. \A t \in Threads : state[t] # "BLOCKED"
    BY DEF Init
  <2>2. /\ list \in [WaitQueues -> Seq(Threads)]
        /\ frame \in [Threads -> WaitQueues \cup {NoQueue}]
        /\ \A q \in WaitQueues : list[q] = <<>>
    BY EmptyList DEF Init
  <2> QED
    BY <2>1, <2>2, EmptyList DEF Waiting
<1>6. Joining(frame, state, detached)
  BY DEF Init, Joining
<1>7. Sleeping(callback, timer, state)
  <2>1. \A t : <<"sleep", t>> # NoCallback
    BY DEF NoCallback
  <2> QED
    BY <2>1 DEF Init, Sleeping
<1> QED
  BY <1>2, <1>3, <1>4, <1>5, <1>6, <1>7 DEF SchedInv

LEMMA SchedNext ==
  ASSUME SchedInv, JoinerFindsThread, [Next]_<<vars, startvars, use, pinned_cpu>>
  PROVE  SchedInv'
<1>1. CASE UNCHANGED <<vars, startvars, use, pinned_cpu>>
  BY <1>1, SchedStutter DEF vars, waitvars, lifevars, irqvars, runvars
<1>2. CASE Next
  <2>1. PICK c \in CPUs : boot_step(c) \/ thread_resched_return(c)
                            \/ thread_step(c) \/ interrupt(c)
    BY <1>2 DEF Next
  <2>2. Fixed
    BY <1>2 DEF Next, Fixed
  <2>3. CASE boot_step(c)
    BY <2>2, <2>3, BootStep
  <2>4. CASE thread_resched_return(c)
    BY <2>2, <2>4, ReschedReturnStep
  <2>5. CASE thread_step(c)
    <3>1. ASSUME NEW t \in Created, thread_create(c, t) PROVE SchedInv'
      <4>1. t \in Threads
        BY SchedAssumption DEF SchedInv, OtherTypes, Created
      <4> QED
        BY <2>2, <3>1, <4>1, CreateStep
    <3>2. ASSUME NEW t \in Threads, thread_resume(c, t) PROVE SchedInv'
      BY <2>2, <3>2, ResumeStep
    <3>3. ASSUME NEW t \in RealTimers, thread_set_real_time(c, t) PROVE SchedInv'
      BY <2>2, <3>3, SchedStutter DEF thread_set_real_time, Fixed, waitvars, irqvars
    <3>4. ASSUME NEW t \in Threads, NEW timeout, thread_join_wait(c, t, timeout) PROVE SchedInv'
      BY <2>2, <3>4, JoinWaitStep
    <3>5. ASSUME NEW t \in Threads, thread_join_dead(c, t) PROVE SchedInv'
      BY <2>2, <3>5, JoinDeadStep
    <3>6. ASSUME NEW t \in Threads, thread_detach(c, t) PROVE SchedInv'
      BY <2>2, <3>6, DetachStep
    <3>7. ASSUME thread_exit(c) PROVE SchedInv'
      BY <2>2, <3>7, ExitStep
    <3>8. ASSUME thread_yield(c) PROVE SchedInv'
      BY <2>2, <3>8, YieldStep
    <3>9. ASSUME NEW p \in PriorityArgs, thread_set_priority(c, p) PROVE SchedInv'
      BY <2>2, <3>9, SetPriorityStep
    <3>10. ASSUME thread_sleep(c) PROVE SchedInv'
      BY <2>2, <3>10, SleepStep
    <3>11. ASSUME NEW q \in Queues, NEW timeout, wait_queue_block(c, q, timeout) PROVE SchedInv'
      BY <2>2, <3>11, WaitStep
    <3>12. ASSUME NEW q \in Queues, NEW reschedule \in BOOLEAN,
                  wait_queue_wake_one(c, q, reschedule)
           PROVE  SchedInv'
      BY <2>2, <3>12, WakeOneStep
    <3>13. ASSUME NEW q \in Queues, NEW reschedule \in BOOLEAN, NEW err,
                  wait_queue_wake_all(c, q, reschedule, err)
           PROVE  SchedInv'
      BY <2>2, <3>13, WakeAllStep
    <3> QED
      BY <2>5, <3>1, <3>2, <3>3, <3>4, <3>5, <3>6, <3>7, <3>8, <3>9, <3>10, <3>11, <3>12, <3>13
         DEF thread_step
  <2>6. CASE interrupt(c)
    <3>1. ASSUME mp_mbx_reschedule_irq(c) PROVE SchedInv'
      BY <2>2, <3>1, SchedStutter
         DEF mp_mbx_reschedule_irq, Fixed, waitvars, lifevars, runvars
    <3>2. ASSUME thread_timer_tick(c) PROVE SchedInv'
      BY <2>2, <3>2, SchedStutter DEF thread_timer_tick, Fixed, waitvars, lifevars
    <3>3. ASSUME NEW q \in Queues, irq_wake_one(c, q) PROVE SchedInv'
      BY <2>2, <3>3, IrqWakeStep
    <3>4. ASSUME NEW t \in Threads, timer_tick(c, t) PROVE SchedInv'
      BY <2>2, <3>4, TimerTickStep
    <3>5. ASSUME NEW t \in Threads, wait_queue_timeout_handler(c, t) PROVE SchedInv'
      BY <2>2, <3>5, TimeoutStep
    <3>6. ASSUME NEW t \in Threads, thread_sleep_handler(c, t) PROVE SchedInv'
      BY <2>2, <3>6, SleepHandlerStep
    <3>7. ASSUME thread_preempt(c) PROVE SchedInv'
      BY <2>2, <3>7, PreemptStep
    <3> QED
      BY <2>6, <3>1, <3>2, <3>3, <3>4, <3>5, <3>6, <3>7 DEF interrupt
  <2> QED
    BY <2>1, <2>3, <2>4, <2>5, <2>6
<1> QED
  BY <1>1, <1>2

-------------------------------------------------------------------------------
(***************************************************************************)
(* Each queue_node is where the state of its thread says, and nowhere else. *)
(***************************************************************************)
LEMMA OccursOnce ==
  ASSUME NEW S, NEW s \in Seq(S), IsInjective(s), NEW t
  PROVE  Occurrences(s, t) = IF t \in Range(s) THEN 1 ELSE 0
<1> DEFINE at == {i \in DOMAIN s : s[i] = t}
<1>1. CASE t \in Range(s)
  <2>1. PICK i \in DOMAIN s : s[i] = t
    BY <1>1 DEF Range
  <2>2. at = {i}
    BY <2>1 DEF IsInjective
  <2> QED
    BY <1>1, <2>2, FS_Singleton DEF Occurrences
<1>2. CASE t \notin Range(s)
  <2>1. at = {}
    BY <1>2 DEF Range
  <2> QED
    BY <1>2, <2>1, FS_EmptySet DEF Occurrences
<1> QED
  BY <1>1, <1>2

LEMMA InvNodes == SchedInv => QueueNodeExact
<1> SUFFICES ASSUME SchedInv PROVE QueueNodeExact
  OBVIOUS
<1>1. ASSUME NEW t \in Threads, NEW p \in Priorities
      PROVE  Occurrences(runq.list[p], t) = IF state[t] = "READY" /\ priority[t] = p THEN 1 ELSE 0
  <2>1. /\ runq.list[p] \in Seq(Threads) /\ IsInjective(runq.list[p])
        /\ t \in Range(runq.list[p]) <=> state[t] = "READY" /\ priority[t] = p
    BY DEF SchedInv, Ready, RunQueue, InRunQueue
  <2> QED
    BY <2>1, OccursOnce
<1>2. ASSUME NEW t \in Threads, NEW q \in WaitQueues
      PROVE  Occurrences(list[q], t) = IF state[t] = "BLOCKED" /\ frame[t] = q THEN 1 ELSE 0
  <2>1. /\ list[q] \in Seq(Threads) /\ IsInjective(list[q])
        /\ t \in Range(list[q]) <=> state[t] = "BLOCKED" /\ frame[t] = q
    BY DEF SchedInv, Waiting
  <2> QED
    BY <2>1, OccursOnce
<1>3. runq.bitmap = {p \in Priorities : runq.list[p] # <<>>}
  BY DEF SchedInv, Ready
<1> QED
  BY <1>1, <1>2, <1>3 DEF QueueNodeExact

(***************************************************************************)
(* Whatever calls the threads make, the run queues, the wait queues and    *)
(* the CPUs agree with the states of the threads for as long as a joiner   *)
(* that was woken finds the thread it joins: the one thing that can break  *)
(* the scheduler's lists is that thread_join frees a thread that has been  *)
(* freed, and may have been created anew, in the meantime.                 *)
(***************************************************************************)
THEOREM SchedInvariance == Spec /\ []JoinerFindsThread => []SchedInv
<1>1. SchedInv /\ JoinerFindsThread /\ [Next]_<<vars, startvars, use, pinned_cpu>> => SchedInv'
  BY SchedNext
<1> QED
  BY <1>1, SchedInit, PTL DEF Spec

(***************************************************************************)
(* The single queue_node of a thread is in the one list its state says.    *)
(***************************************************************************)
THEOREM SchedQueueNodes == Spec /\ []JoinerFindsThread => []QueueNodeExact
BY SchedInvariance, InvNodes, PTL

(***************************************************************************)
(* No thread runs on two CPUs, and only on a CPU it may run on.            *)
(***************************************************************************)
THEOREM SchedRunning == Spec /\ []JoinerFindsThread => []RunningExact
<1>1. SchedInv => RunningExact
  BY DEF SchedInv
<1> QED
  BY <1>1, SchedInvariance, PTL

-------------------------------------------------------------------------------
(***************************************************************************)
(* A wait_queue_block call ends before its thread does anything else: only *)
(* a thread that is blocked, ready or running is in one, and if it runs,   *)
(* its CPU has not yet released the lock since it switched to it.          *)
(***************************************************************************)
CallInv ==
  /\ \A c \in CPUs : current[c] \in Threads /\ frame[current[c]] # NoQueue => thread_lock = c
  /\ \A t \in Threads : frame[t] # NoQueue => state[t] \in {"READY", "RUNNING", "BLOCKED"}

LEMMA RunsOutOfCalls ==
  ASSUME SchedInv, CallInv, NEW c \in CPUs, current[c] \in Threads, thread_lock = NoCpu
  PROVE  frame[current[c]] = NoQueue
BY SchedAssumption DEF CallInv

\* A step in which c switches to another thread.
LEMMA SwitchReturns ==
  ASSUME SchedInv, CallInv, NEW c \in CPUs, NEW x, NEW W, Switched(c, x, W),
         thread_lock = NoCpu, thread_lock' = c,
         \A t \in Threads : t # current[c] => frame'[t] = frame[t],
         current[c] \in Threads /\ frame'[current[c]] # NoQueue => x \in {"READY", "BLOCKED"}
  PROVE  CallInv'
<1>1. \A d, e \in CPUs : current[d] = current[e] => d = e
  BY DEF SchedInv, RunningExact
<1>2. \A d \in CPUs : current[d] \in Threads => frame[current[d]] = NoQueue
  BY RunsOutOfCalls
<1>3. \A d \in CPUs : current'[d] \in Threads /\ frame'[current'[d]] # NoQueue => d = c
  BY <1>1, <1>2 DEF Switched
<1>4. \A t \in Threads : frame'[t] # NoQueue => state'[t] \in {"READY", "RUNNING", "BLOCKED"}
  <2> SUFFICES ASSUME NEW t \in Threads, frame'[t] # NoQueue
               PROVE  state'[t] \in {"READY", "RUNNING", "BLOCKED"}
    OBVIOUS
  <2>1. CASE t = current[c]
    BY <2>1 DEF Switched
  <2>2. CASE t # current[c]
    BY <2>2 DEF Switched, CallInv
  <2> QED
    BY <2>1, <2>2
<1> QED
  BY <1>3, <1>4 DEF CallInv

\* A step in which no thread leaves its CPU or a call.
LEMMA KeepReturns ==
  ASSUME CallInv, UNCHANGED <<current, frame, thread_lock>>,
         \A t \in Threads : state[t] \in {"READY", "RUNNING", "BLOCKED"} =>
                            state'[t] \in {"READY", "RUNNING", "BLOCKED"}
  PROVE  CallInv'
BY DEF CallInv

LEMMA ReschedLocks ==
  ASSUME NEW c, NEW rq, NEW st, NEW qt, thread_resched(c, rq, st, qt)
  PROVE  thread_lock' = c
BY DEF thread_resched

LEMMA WakeReturns ==
  ASSUME SchedInv, Fixed, CallInv, NEW c \in active_cpus, NEW q \in WaitQueues,
         NEW n \in 0 .. Len(list[q]), NEW reschedule \in BOOLEAN, NEW err,
         wake(c, q, n, reschedule, err), callback' = callback,
         reschedule => current[c] \in Threads, thread_lock = NoCpu
  PROVE  CallInv'
<1>1. c \in CPUs /\ frame' = frame
  BY DEF SchedInv, CpuType, wake
<1>2. CASE reschedule
  <2>1. \E W \in SUBSET Range(list[q]) : Switched(c, "READY", W)
    BY <1>2, WakeStep
  <2>2. thread_lock' = c
    BY <1>2, ReschedLocks DEF wake
  <2> QED
    BY <1>1, <2>1, <2>2, SwitchReturns
<1>3. CASE ~reschedule
  <2> DEFINE W == Range(SubSeq(list[q], 1, n))
  <2>1. /\ UNCHANGED <<current, frame, thread_lock>>
        /\ state' = Readied(state, W)
    BY <1>3 DEF wake, no_resched
  <2>2. \A t \in Threads : state'[t] = IF t \in W THEN "READY" ELSE state[t]
    BY <2>1 DEF Readied
  <2> QED
    BY <2>1, <2>2, KeepReturns
<1> QED
  BY <1>2, <1>3

\* What an interrupt or a call finds.
LEMMA CallerHolds ==
  ASSUME SchedInv, NEW c \in CPUs, runs(c)
  PROVE  c \in active_cpus /\ current[c] \in Threads /\ state[current[c]] = "RUNNING"
         /\ thread_lock = NoCpu
BY CurrentThread DEF runs, lock_free

LEMMA OneOrAll ==
  ASSUME SchedInv, NEW q \in Queues, list[q] # <<>>
  PROVE  q \in WaitQueues /\ q \notin Threads
         /\ 1 \in 0 .. Len(list[q]) /\ Len(list[q]) \in 0 .. Len(list[q])
<1>1. q \in WaitQueues /\ q \notin Threads /\ list[q] \in Seq(Threads)
  BY SchedAssumption DEF WaitQueues, SchedInv, Waiting
<1> QED
  BY <1>1, EmptySeq, LenProperties

LEMMA CallNext ==
  ASSUME SchedInv, CallInv, JoinerFindsThread, [Next]_<<vars, startvars, use, pinned_cpu>>
  PROVE  CallInv'
<1>0. state \in [Threads -> States] /\ frame \in [Threads -> WaitQueues \cup {NoQueue}]
  BY DEF SchedInv, Ready, Waiting
<1>1. CASE UNCHANGED <<vars, startvars, use, pinned_cpu>>
  BY <1>1, KeepReturns DEF vars, waitvars, runvars
<1>2. CASE Next
  <2>1. PICK c \in CPUs : boot_step(c) \/ thread_resched_return(c)
                            \/ thread_step(c) \/ interrupt(c)
    BY <1>2 DEF Next
  <2>2. Fixed
    BY <1>2 DEF Next, Fixed
  <2>3. CASE boot_step(c)
    BY <2>3, BootKeeps, KeepReturns
  <2>4. CASE thread_resched_return(c)
    <3> DEFINE me == current[c]
    <3>1. thread_lock = c /\ UNCHANGED current
      BY <2>4 DEF thread_resched_return
    <3>2. \A d \in CPUs : current[d] \in Threads /\ frame[current[d]] # NoQueue => d = c
      BY <3>1 DEF CallInv
    <3>3. \A d \in CPUs : current[d] \in Threads => frame'[current[d]] = NoQueue
      <4>1. CASE me \in Threads /\ frame[me] # NoQueue
        <5>1. frame' = [frame EXCEPT ![me] = NoQueue]
          BY <2>4, <4>1 DEF thread_resched_return
        <5> QED
          BY <1>0, <3>2, <4>1, <5>1
      <4>2. CASE ~(me \in Threads /\ frame[me] # NoQueue)
        <5>1. frame' = frame
          BY <2>4, <4>2 DEF thread_resched_return
        <5> QED
          BY <3>2, <4>2, <5>1
      <4> QED
        BY <4>1, <4>2
    <3>4. ASSUME NEW t \in Threads, frame'[t] # NoQueue
          PROVE  state'[t] \in {"READY", "RUNNING", "BLOCKED"}
      <4>1. CASE me \in Threads /\ frame[me] # NoQueue
        <5>1. /\ frame' = [frame EXCEPT ![me] = NoQueue]
              /\ state' = IF frame[me] \in Threads /\ block_ret[me] = "NO_ERROR"
                            THEN [state EXCEPT ![frame[me]] = "NONE"] ELSE state
          BY <2>4, <4>1 DEF thread_resched_return
        <5>2. frame[t] # NoQueue /\ state[t] \in {"READY", "RUNNING", "BLOCKED"}
          BY <1>0, <3>4, <4>1, <5>1 DEF CallInv
        <5>3. CASE frame[me] \in Threads /\ block_ret[me] = "NO_ERROR"
          <6>1. state[me] = "RUNNING"
            BY <4>1 DEF SchedInv, RunningExact
          <6>2. state[frame[me]] = "DEATH"
            BY <4>1, <5>3, <6>1 DEF JoinerFindsThread
          <6>3. state'[t] = state[t]
            BY <1>0, <5>1, <5>2, <5>3, <6>2
          <6> QED
            BY <5>2, <6>3
        <5>4. CASE ~(frame[me] \in Threads /\ block_ret[me] = "NO_ERROR")
          BY <5>1, <5>2, <5>4
        <5> QED
          BY <5>3, <5>4
      <4>2. CASE ~(me \in Threads /\ frame[me] # NoQueue)
        BY <2>4, <3>4, <4>2 DEF thread_resched_return, CallInv
      <4> QED
        BY <4>1, <4>2
    <3> QED
      BY <3>1, <3>3, <3>4 DEF CallInv
  <2>5. CASE thread_step(c)
    <3>1. ASSUME NEW t \in Threads, thread_create(c, t) PROVE CallInv'
      <4>1. UNCHANGED <<current, frame, thread_lock>> /\ state' = [state EXCEPT ![t] = "SUSPENDED"]
            /\ state[t] = "NONE"
        BY <3>1 DEF thread_create
      <4> QED
        BY <1>0, <4>1, KeepReturns
    <3>2. ASSUME NEW t \in Threads, thread_resume(c, t) PROVE CallInv'
      <4>1. UNCHANGED <<current, frame, thread_lock>> /\ state' = [state EXCEPT ![t] = "READY"]
        BY <3>2 DEF thread_resume, no_resched, waitvars
      <4> QED
        BY <1>0, <4>1, KeepReturns
    <3>3. ASSUME NEW t \in RealTimers, thread_set_real_time(c, t) PROVE CallInv'
      BY <3>3, KeepReturns DEF thread_set_real_time, waitvars
    <3>4. ASSUME NEW t \in Threads, NEW timeout, thread_join_wait(c, t, timeout) PROVE CallInv'
      <4>1. /\ runs(c) /\ frame' = [frame EXCEPT ![current[c]] = t] /\ thread_lock' = c
        BY <3>4, ReschedLocks DEF thread_join_wait, calls, block
      <4>2. Switched(c, "BLOCKED", {})
        BY <2>2, <3>4, JoinWaitStep
      <4> QED
        BY <1>0, <4>1, <4>2, CallerHolds, SwitchReturns
    <3>5. ASSUME NEW t \in Threads, thread_join_dead(c, t) PROVE CallInv'
      <4>1. /\ UNCHANGED <<current, frame, thread_lock>> /\ state' = [state EXCEPT ![t] = "NONE"]
            /\ state[t] = "DEATH"
        BY <3>5 DEF thread_join_dead, no_resched, waitvars
      <4> QED
        BY <1>0, <4>1, KeepReturns
    <3>6. ASSUME NEW t \in Threads, thread_detach(c, t) PROVE CallInv'
      <4>1. /\ UNCHANGED <<current, frame, thread_lock>>
            /\ \A x \in Threads : state'[x] = IF x \in Range(list[t]) THEN "READY" ELSE state[x]
        BY <3>6 DEF thread_detach, no_resched, WakeAll, Readied
      <4> QED
        BY <4>1, KeepReturns
    <3>7. ASSUME thread_exit(c) PROVE CallInv'
      <4>1. runs(c) /\ frame' = frame /\ thread_lock' = c
        BY <3>7, ReschedLocks DEF thread_exit, calls, WakeAll, waitvars
      <4>2. \E x, W : Switched(c, x, W)
        BY <2>2, <3>7, ExitStep
      <4> QED
        BY <4>1, <4>2, CallerHolds, RunsOutOfCalls, SwitchReturns
    <3>8. ASSUME thread_yield(c) PROVE CallInv'
      <4>1. runs(c) /\ frame' = frame /\ thread_lock' = c
        BY <3>8, ReschedLocks DEF thread_yield, waitvars
      <4> QED
        BY <2>2, <3>8, <4>1, CallerHolds, YieldStep, SwitchReturns
    <3>9. ASSUME NEW p \in PriorityArgs, thread_set_priority(c, p) PROVE CallInv'
      <4>1. runs(c) /\ frame' = frame /\ thread_lock' = c
        BY <3>9, ReschedLocks DEF thread_set_priority, calls, waitvars
      <4> QED
        BY <2>2, <3>9, <4>1, CallerHolds, SetPriorityStep, SwitchReturns
    <3>10. ASSUME thread_sleep(c) PROVE CallInv'
      <4>1. runs(c) /\ frame' = frame /\ thread_lock' = c
        BY <3>10, ReschedLocks DEF thread_sleep, calls
      <4> QED
        BY <2>2, <3>10, <4>1, CallerHolds, SleepStep, RunsOutOfCalls, SwitchReturns
    <3>11. ASSUME NEW q \in Queues, NEW timeout, wait_queue_block(c, q, timeout) PROVE CallInv'
      <4>1. /\ runs(c) /\ frame' = [frame EXCEPT ![current[c]] = q] /\ thread_lock' = c
        BY <3>11, ReschedLocks DEF wait_queue_block, calls, block
      <4>2. Switched(c, "BLOCKED", {})
        BY <2>2, <3>11, WaitStep
      <4> QED
        BY <1>0, <4>1, <4>2, CallerHolds, SwitchReturns
    <3>12. ASSUME NEW q \in Queues, NEW reschedule \in BOOLEAN,
                  wait_queue_wake_one(c, q, reschedule)
           PROVE  CallInv'
      <4>1. runs(c) /\ list[q] # <<>> /\ wake(c, q, 1, reschedule, "NO_ERROR") /\ callback' = callback
        BY <3>12 DEF wait_queue_wake_one, calls, irqvars
      <4> QED
        BY <2>2, <4>1, CallerHolds, OneOrAll, WakeReturns
    <3>13. ASSUME NEW q \in Queues, NEW reschedule \in BOOLEAN, NEW err,
                  wait_queue_wake_all(c, q, reschedule, err)
           PROVE  CallInv'
      <4>1. runs(c) /\ list[q] # <<>> /\ wake(c, q, Len(list[q]), reschedule, err)
            /\ callback' = callback
        BY <3>13 DEF wait_queue_wake_all, calls, irqvars
      <4> QED
        BY <2>2, <4>1, CallerHolds, OneOrAll, WakeReturns
    <3>14. Created \subseteq Threads
      BY SchedAssumption DEF SchedInv, OtherTypes, Created
    <3> QED
      BY <2>5, <3>1, <3>2, <3>3, <3>4, <3>5, <3>6, <3>7, <3>8, <3>9, <3>10, <3>11, <3>12, <3>13,
         <3>14 DEF thread_step
  <2>6. CASE interrupt(c)
    <3>1. ASSUME mp_mbx_reschedule_irq(c) PROVE CallInv'
      BY <3>1, KeepReturns DEF mp_mbx_reschedule_irq, waitvars, runvars
    <3>2. ASSUME thread_timer_tick(c) PROVE CallInv'
      BY <3>2, KeepReturns DEF thread_timer_tick, waitvars
    <3>3. ASSUME NEW q \in Queues, irq_wake_one(c, q) PROVE CallInv'
      <4>1. /\ list[q] # <<>> /\ wake(c, q, 1, FALSE, "NO_ERROR") /\ callback' = callback
            /\ c \in active_cpus /\ thread_lock = NoCpu
        BY <3>3 DEF irq_wake_one, interrupts_enabled, lock_free
      <4> QED
        BY <2>2, <4>1, OneOrAll, WakeReturns
    <3>4. ASSUME NEW t \in Threads, timer_tick(c, t) PROVE CallInv'
      BY <3>4, KeepReturns DEF timer_tick, runvars
    <3>5. ASSUME NEW t \in Threads, wait_queue_timeout_handler(c, t) PROVE CallInv'
      <4>1. /\ UNCHANGED <<current, frame, thread_lock>>
            /\ state' \in {state, [state EXCEPT ![t] = "READY"]}
        BY <3>5 DEF wait_queue_timeout_handler, thread_unblock_from_wait_queue, no_resched, runvars
      <4> QED
        BY <1>0, <4>1, KeepReturns
    <3>6. ASSUME NEW t \in Threads, thread_sleep_handler(c, t) PROVE CallInv'
      <4>1. UNCHANGED <<current, frame, thread_lock>> /\ state' = [state EXCEPT ![t] = "READY"]
        BY <3>6 DEF thread_sleep_handler, no_resched, waitvars
      <4> QED
        BY <1>0, <4>1, KeepReturns
    <3>7. ASSUME thread_preempt(c) PROVE CallInv'
      <4>1. thread_lock = NoCpu /\ frame' = frame /\ thread_lock' = c
        BY <3>7, ReschedLocks DEF thread_preempt, lock_free, waitvars
      <4> QED
        BY <2>2, <3>7, <4>1, PreemptStep, SwitchReturns
    <3> QED
      BY <2>6, <3>1, <3>2, <3>3, <3>4, <3>5, <3>6, <3>7 DEF interrupt
  <2> QED
    BY <2>1, <2>3, <2>4, <2>5, <2>6
<1> QED
  BY <1>1, <1>2

-------------------------------------------------------------------------------
(***************************************************************************)
(* Joining.  The threads in thread_join, and between the two halves of     *)
(* thread_detach, are the ones that make these calls.                      *)
(***************************************************************************)
OnlyJoinersJoin == \A t \in Threads : frame[t] \in Threads => t \in Joiners

DetachFindsThread ==
  \A t \in Threads : cont[t] \in Threads =>
    t \in Detachers /\ frame[t] = NoQueue /\ state[cont[t]] = "DEATH"

JoinInv == OnlyJoinersJoin /\ DetachFindsThread /\ JoinerFindsThread

\* No thread of the system joins another.
NoJoiner == \A u \in Uses : UseOf[u].joiners = {}

\* A single thread of the system joins and detaches the others.
OneReaper ==
  \A u \in Uses : \A x, y \in UseOf[u].joiners \cup UseOf[u].detachers : x = y

\* A step in which nobody is woken by the end of the thread that it joins.
LEMMA QuietJoin ==
  ASSUME JoinInv, Fixed, frame' = frame,
         \A t \in Threads : cont'[t] \in Threads => cont'[t] = cont[t],
         \A t \in Threads : state[t] = "DEATH" => state'[t] = "DEATH",
         \A t \in Threads :
           frame[t] \in Threads /\ state'[t] # "BLOCKED" /\ block_ret'[t] = "NO_ERROR"
             => state[t] # "BLOCKED" /\ block_ret[t] = "NO_ERROR"
  PROVE  JoinInv'
<1>1. Joiners' = Joiners /\ Detachers' = Detachers
  BY DEF Fixed, Joiners, Detachers
<1>2. OnlyJoinersJoin'
  BY <1>1 DEF JoinInv, OnlyJoinersJoin
<1>3. DetachFindsThread'
  BY <1>1 DEF JoinInv, DetachFindsThread
<1>4. JoinerFindsThread'
  BY DEF JoinInv, JoinerFindsThread
<1> QED
  BY <1>2, <1>3, <1>4 DEF JoinInv

\* A step in which the thread on c stays ready, waits or sleeps.
LEMMA QuietSwitch ==
  ASSUME SchedInv, JoinInv, Fixed, NEW c \in CPUs, NEW x, NEW W, Switched(c, x, W), frame' = frame,
         \A t \in Threads : cont'[t] \in Threads => cont'[t] = cont[t],
         \A t \in W : t \in Threads => state[t] = "BLOCKED" /\ frame[t] \notin Threads,
         \A t \in Threads : frame[t] \in Threads => block_ret'[t] = block_ret[t]
  PROVE  JoinInv'
<1>1. current[c] \in Threads => state[current[c]] = "RUNNING"
  BY DEF SchedInv, RunningExact
<1>2. \A t \in Threads : state[t] = "DEATH" => state'[t] = "DEATH"
  BY <1>1 DEF Switched
<1>3. \A t \in Threads : frame[t] \in Threads /\ state[t] = "BLOCKED" => state'[t] = "BLOCKED"
  BY <1>1 DEF Switched
<1> QED
  BY <1>2, <1>3, QuietJoin

\* The thread on c blocks on q.
LEMMA BlockJoin ==
  ASSUME SchedInv, JoinInv, Fixed, NEW c \in CPUs, calls(c), NEW q \in WaitQueues, NEW timeout,
         block(c, q, timeout), Switched(c, "BLOCKED", {}), cont' = cont,
         q \in Threads => current[c] \in Joiners
  PROVE  JoinInv'
<1> DEFINE me == current[c]
<1>1. me \in Threads /\ state[me] = "RUNNING" /\ cont[me] = "none" /\ "none" \notin Threads
  BY CallerHolds, SchedAssumption DEF calls
<1>2. Joiners' = Joiners /\ Detachers' = Detachers
  BY DEF Fixed, Joiners, Detachers
<1>3. /\ \A t \in Threads : frame'[t] = IF t = me THEN q ELSE frame[t]
      /\ \A t \in Threads : t # me => block_ret'[t] = block_ret[t]
  <2>1. frame \in [Threads -> WaitQueues \cup {NoQueue}]
    BY DEF SchedInv, Waiting
  <2>2. frame' = [frame EXCEPT ![me] = q]
    BY DEF block
  <2>3. \A t \in Threads : t # me => block_ret'[t] = block_ret[t]
    BY DEF block
  <2> QED
    BY <1>1, <2>1, <2>2, <2>3
<1>4. /\ state'[me] = "BLOCKED"
      /\ \A t \in Threads : state[t] = "DEATH" => state'[t] = "DEATH"
      /\ \A t \in Threads : state[t] = "BLOCKED" => state'[t] = "BLOCKED"
  BY <1>1 DEF Switched
<1>5. OnlyJoinersJoin'
  BY <1>1, <1>2, <1>3 DEF JoinInv, OnlyJoinersJoin
<1>6. DetachFindsThread'
  BY <1>1, <1>2, <1>3, <1>4 DEF JoinInv, DetachFindsThread
<1>7. JoinerFindsThread'
  BY <1>1, <1>3, <1>4 DEF JoinInv, JoinerFindsThread
<1> QED
  BY <1>5, <1>6, <1>7 DEF JoinInv

\* Threads that wait on a queue are woken.
LEMMA WakeJoin ==
  ASSUME SchedInv, JoinInv, Fixed, NEW c \in active_cpus, NEW q \in Queues, list[q] # <<>>,
         NEW n \in 0 .. Len(list[q]), NEW reschedule \in BOOLEAN, NEW err,
         wake(c, q, n, reschedule, err), callback' = callback,
         reschedule => current[c] \in Threads
  PROVE  JoinInv'
<1> DEFINE W == Range(SubSeq(list[q], 1, n))
<1>1. /\ c \in CPUs /\ frame' = frame /\ cont' = cont
      /\ \A t \in Threads : t \notin W => block_ret'[t] = block_ret[t]
  BY DEF SchedInv, CpuType, wake, lifevars
<1>2. q \in WaitQueues /\ q \notin Threads /\ list[q] \in Seq(Threads)
  BY OneOrAll DEF SchedInv, Waiting
<1>3. \A t \in Range(list[q]) : state[t] = "BLOCKED" /\ frame[t] = q
  BY <1>2 DEF SchedInv, Waiting
<1>4. W \subseteq Range(list[q])
  BY <1>2, SplitLemma DEF SchedInv, Waiting
<1>5. CASE reschedule
  <2>1. \E V \in SUBSET Range(list[q]) : Switched(c, "READY", V)
    BY <1>2, <1>5, WakeStep
  <2> HIDE DEF W
  <2> QED
    BY <1>1, <1>2, <1>3, <1>4, <2>1, QuietSwitch
<1>6. CASE ~reschedule
  <2>1. state' = Readied(state, W)
    BY <1>6 DEF wake, no_resched
  <2>2. \A t \in Threads : state'[t] = IF t \in W THEN "READY" ELSE state[t]
    BY <2>1 DEF Readied
  <2> HIDE DEF W
  <2> QED
    BY <1>1, <1>2, <1>3, <1>4, <2>2, QuietJoin
<1> QED
  BY <1>5, <1>6

\* A dead thread t is freed by the thread me, which is not in thread_join any
\* more: nobody else joins or detaches.
LEMMA FreeJoin ==
  ASSUME SchedInv, JoinInv, Fixed, OneReaper, NEW t \in Threads, NEW me \in Threads,
         me \in Joiners \cup Detachers, frame'[me] = NoQueue, cont'[me] \notin Threads,
         block_ret' = block_ret, state' = [state EXCEPT ![t] = "NONE"],
         \A x \in Threads : x # me => frame'[x] = frame[x] /\ cont'[x] = cont[x]
  PROVE  JoinInv'
<1>1. Joiners' = Joiners /\ Detachers' = Detachers /\ NoQueue \notin Threads
  BY SchedAssumption DEF Fixed, Joiners, Detachers
<1>2. \A x \in Joiners \cup Detachers : x = me
  BY DEF SchedInv, OtherTypes, OneReaper, Joiners, Detachers
<1>3. \A x \in Threads : frame'[x] \notin Threads /\ cont'[x] \notin Threads
  BY <1>1, <1>2 DEF JoinInv, OnlyJoinersJoin, DetachFindsThread
<1> QED
  BY <1>3 DEF JoinInv, OnlyJoinersJoin, DetachFindsThread, JoinerFindsThread

\* A thread exits, and wakes the threads that join it.
LEMMA ExitJoin ==
  ASSUME SchedInv, JoinInv, Fixed, NEW c \in CPUs, thread_exit(c)
  PROVE  JoinInv'
<1> DEFINE me == current[c]
           W == Range(list[me])
<1>1. me \in Threads /\ state[me] = "RUNNING" /\ me \in WaitQueues
  BY CallerHolds DEF thread_exit, calls, WaitQueues
<1>2. frame' = frame /\ cont' = cont
  BY DEF thread_exit, lifevars, WakeAll, waitvars
<1>3. CASE me \in detached
  <2>1. Switched(c, "NONE", {}) /\ block_ret' = block_ret
    BY <1>3, ExitStep DEF thread_exit, waitvars
  <2> QED
    BY <1>2, <2>1, QuietSwitch
<1>4. CASE me \notin detached
  <2>1. /\ Switched(c, "DEATH", W)
        /\ \A t \in Threads : t \notin W => block_ret'[t] = block_ret[t]
    BY <1>4, ExitStep DEF thread_exit, WakeAll
  <2>2. \A t \in W : t \in Threads /\ state[t] = "BLOCKED" /\ frame[t] = me
    BY <1>1 DEF SchedInv, Waiting
  <2> HIDE DEF W
  <2>3. /\ state'[me] = "DEATH"
        /\ \A t \in Threads : state[t] = "DEATH" => state'[t] = "DEATH"
        /\ \A t \in Threads : state[t] = "BLOCKED" /\ t \notin W => state'[t] = "BLOCKED"
    BY <1>1, <2>1, <2>2 DEF Switched
  <2>4. Joiners' = Joiners /\ Detachers' = Detachers
    BY DEF Fixed, Joiners, Detachers
  <2>5. OnlyJoinersJoin' /\ DetachFindsThread'
    BY <1>2, <2>3, <2>4 DEF JoinInv, OnlyJoinersJoin, DetachFindsThread
  <2>6. JoinerFindsThread'
    BY <1>2, <2>1, <2>2, <2>3 DEF JoinInv, JoinerFindsThread
  <2> QED
    BY <2>5, <2>6 DEF JoinInv
<1> QED
  BY <1>3, <1>4

LEMMA DetachJoin ==
  ASSUME SchedInv, CallInv, JoinInv, Fixed, NEW c \in CPUs, current[c] \in Detachers,
         NEW t \in Threads, thread_detach(c, t)
  PROVE  JoinInv'
<1> DEFINE me == current[c]
           W == Range(list[t])
<1>1. /\ me \in Threads /\ state[me] = "RUNNING" /\ frame[me] = NoQueue
      /\ cont[me] = "none" /\ t \in WaitQueues
  BY CallerHolds, RunsOutOfCalls DEF thread_detach, calls, WaitQueues
<1>2. /\ frame' = frame
      /\ \A x \in Threads : state'[x] = IF x \in W THEN "READY" ELSE state[x]
      /\ \A x \in Threads : block_ret'[x] = IF x \in W THEN "ERR_THREAD_DETACHED" ELSE block_ret[x]
      /\ cont' = IF state[t] = "DEATH" THEN [cont EXCEPT ![me] = t] ELSE cont
  BY DEF thread_detach, WakeAll, no_resched, Readied
<1>3. \A x \in W : x \in Threads /\ state[x] = "BLOCKED"
  BY <1>1 DEF SchedInv, Waiting
<1> HIDE DEF W
<1>4. Joiners' = Joiners /\ Detachers' = Detachers
  BY DEF Fixed, Joiners, Detachers
<1>5. OnlyJoinersJoin'
  BY <1>2, <1>4 DEF JoinInv, OnlyJoinersJoin
<1>6. DetachFindsThread'
  <2>1. \A x \in Threads : state[x] = "DEATH" => state'[x] = "DEATH"
    BY <1>2, <1>3
  <2>2. CASE state[t] = "DEATH"
    <3>1. \A x \in Threads : x # me => cont'[x] = cont[x]
      BY <1>2, <2>2
    <3>2. cont'[me] \in Threads => cont'[me] = t \/ cont'[me] = cont[me]
      BY <1>2, <2>2
    <3> QED
      BY <1>1, <1>2, <1>4, <2>1, <2>2, <3>1, <3>2 DEF JoinInv, DetachFindsThread
  <2>3. CASE state[t] # "DEATH"
    BY <1>2, <1>4, <2>1, <2>3 DEF JoinInv, DetachFindsThread
  <2> QED
    BY <2>2, <2>3
<1>7. JoinerFindsThread'
  BY <1>2, <1>3 DEF JoinInv, JoinerFindsThread
<1> QED
  BY <1>5, <1>6, <1>7 DEF JoinInv

LEMMA JoinDeadJoin ==
  ASSUME SchedInv, CallInv, JoinInv, Fixed, OneReaper, NEW c \in CPUs, NEW t \in Threads,
         thread_join_dead(c, t), cont \in [Threads -> {"none", "yield"} \cup Threads]
  PROVE  JoinInv'
<1> DEFINE me == current[c]
<1>1. me \in Threads /\ frame[me] = NoQueue
  BY CallerHolds, RunsOutOfCalls DEF thread_join_dead
<1>2. /\ state' = [state EXCEPT ![t] = "NONE"] /\ frame' = frame /\ block_ret' = block_ret
      /\ cont' = [cont EXCEPT ![me] = "none"]
      /\ \/ cont[me] = t
         \/ cont[me] = "none" /\ me \in Joiners
  BY DEF thread_join_dead, no_resched, waitvars
<1>3. me \in Joiners \cup Detachers
  BY <1>1, <1>2 DEF JoinInv, DetachFindsThread
<1>4. cont'[me] \notin Threads /\ \A x \in Threads : x # me => cont'[x] = cont[x]
  BY <1>1, <1>2, SchedAssumption
<1> QED
  BY <1>1, <1>2, <1>3, <1>4, FreeJoin

LEMMA ReturnJoin ==
  ASSUME SchedInv, JoinInv, Fixed, OneReaper, NEW c \in CPUs, thread_resched_return(c)
  PROVE  JoinInv'
<1> DEFINE me == current[c]
<1>1. UNCHANGED <<cont, block_ret>> /\ NoQueue \notin Threads
  BY SchedAssumption DEF thread_resched_return, lifevars
<1>2. CASE ~(me \in Threads /\ frame[me] # NoQueue)
  <2>1. frame' = frame /\ state' = state
    BY <1>2 DEF thread_resched_return
  <2> QED
    BY <1>1, <2>1, QuietJoin
<1>3. CASE me \in Threads /\ frame[me] # NoQueue
  <2>1. /\ frame' = [frame EXCEPT ![me] = NoQueue]
        /\ state' = IF frame[me] \in Threads /\ block_ret[me] = "NO_ERROR"
                      THEN [state EXCEPT ![frame[me]] = "NONE"] ELSE state
    BY <1>3 DEF thread_resched_return
  <2>2. frame'[me] = NoQueue /\ \A x \in Threads : x # me => frame'[x] = frame[x]
    BY <1>3, <2>1 DEF SchedInv, Waiting
  <2>3. CASE frame[me] \in Threads /\ block_ret[me] = "NO_ERROR"
    <3>1. me \in Joiners /\ cont'[me] \notin Threads
      BY <1>1, <1>3, <2>3 DEF JoinInv, OnlyJoinersJoin, DetachFindsThread
    <3>2. state' = [state EXCEPT ![frame[me]] = "NONE"]
      BY <2>1, <2>3
    <3> QED
      BY <1>1, <1>3, <2>2, <2>3, <3>1, <3>2, FreeJoin
  <2>4. CASE ~(frame[me] \in Threads /\ block_ret[me] = "NO_ERROR")
    <3>1. state' = state
      BY <2>1, <2>4
    <3>2. Joiners' = Joiners /\ Detachers' = Detachers
      BY DEF Fixed, Joiners, Detachers
    <3> QED
      BY <1>1, <2>2, <3>1, <3>2
         DEF JoinInv, OnlyJoinersJoin, DetachFindsThread, JoinerFindsThread
  <2> QED
    BY <2>3, <2>4
<1> QED
  BY <1>2, <1>3

\* What a thread's current call still has to do.
ContType == cont \in [Threads -> {"none", "yield"} \cup Threads]

LEMMA ContNext ==
  ASSUME ContType, [Next]_<<vars, startvars, use, pinned_cpu>>
  PROVE  ContType'
<1>1. ASSUME NEW x, NEW v \in {"none", "yield"} \cup Threads, cont' = [cont EXCEPT ![x] = v]
      PROVE  ContType'
  BY <1>1 DEF ContType
<1>2. CASE cont' = cont
  BY <1>2 DEF ContType
<1>3. ASSUME NEW c \in CPUs, thread_step(c)
      PROVE  \/ cont' = cont
             \/ \E v \in {"none", "yield"} \cup Threads : cont' = [cont EXCEPT ![current[c]] = v]
  <2>1. ASSUME NEW t \in Threads,
               thread_resume(c, t) \/ thread_join_dead(c, t) \/ thread_detach(c, t)
        PROVE  \/ cont' = cont
               \/ \E v \in {"none", "yield"} \cup Threads : cont' = [cont EXCEPT ![current[c]] = v]
    BY <2>1 DEF thread_resume, thread_join_dead, thread_detach
  <2>2. ASSUME thread_yield(c)
        PROVE  cont' = [cont EXCEPT ![current[c]] = "none"]
    BY <2>2 DEF thread_yield
  <2>3. ASSUME NEW t, NEW timeout, NEW q, NEW p, NEW reschedule, NEW err,
               \/ thread_create(c, t) \/ thread_set_real_time(c, t)
               \/ thread_join_wait(c, t, timeout) \/ thread_exit(c)
               \/ thread_set_priority(c, p) \/ thread_sleep(c)
               \/ wait_queue_block(c, q, timeout) \/ wait_queue_wake_one(c, q, reschedule)
               \/ wait_queue_wake_all(c, q, reschedule, err)
        PROVE  cont' = cont
    BY <2>3 DEF thread_create, thread_set_real_time, thread_join_wait, thread_exit,
                thread_set_priority, thread_sleep, wait_queue_block, wait_queue_wake_one,
                wait_queue_wake_all, wake, lifevars
  <2> QED
    BY <1>3, <2>1, <2>2, <2>3 DEF thread_step
<1>4. ASSUME NEW c \in CPUs,
             boot_step(c) \/ thread_resched_return(c) \/ interrupt(c)
      PROVE  cont' = cont
  BY <1>4, BootKeeps DEF thread_resched_return, interrupt, mp_mbx_reschedule_irq,
              thread_timer_tick, irq_wake_one, timer_tick, wait_queue_timeout_handler,
              thread_sleep_handler, thread_preempt, wake, lifevars
<1> QED
  BY <1>1, <1>2, <1>3, <1>4 DEF Next, vars, lifevars

\* What wait_queue_block returns.
RetType ==
  block_ret \in [Threads -> {"NO_ERROR", "ERR_TIMED_OUT", "ERR_OBJECT_DESTROYED",
                             "ERR_THREAD_DETACHED"}]

LEMMA RetNext ==
  ASSUME RetType, [Next]_<<vars, startvars, use, pinned_cpu>>
  PROVE  RetType'
<1> DEFINE Errors == {"NO_ERROR", "ERR_TIMED_OUT", "ERR_OBJECT_DESTROYED", "ERR_THREAD_DETACHED"}
<1>1. CASE block_ret' = block_ret
  BY <1>1 DEF RetType
<1>2. ASSUME NEW x, NEW err \in Errors, block_ret' = [block_ret EXCEPT ![x] = err]
      PROVE  RetType'
  BY <1>2 DEF RetType
<1>3. ASSUME NEW W, NEW err \in Errors,
             block_ret' = [t \in Threads |-> IF t \in W THEN err ELSE block_ret[t]]
      PROVE  RetType'
  BY <1>3 DEF RetType
<1>4. ASSUME NEW c, NEW q, NEW n, NEW reschedule, NEW err \in Errors, wake(c, q, n, reschedule, err)
      PROVE  RetType'
  <2>1. block_ret' = [t \in Threads |-> IF t \in Range(SubSeq(list[q], 1, n)) THEN err
                                        ELSE block_ret[t]]
    BY <1>4 DEF wake
  <2> QED
    BY <1>3, <2>1
<1>5. ASSUME NEW c \in CPUs, thread_step(c) PROVE RetType'
  <2>1. ASSUME NEW t, thread_create(c, t) PROVE RetType'
    BY <1>2, <2>1 DEF thread_create
  <2>2. ASSUME NEW t \in Threads, thread_detach(c, t) PROVE RetType'
    <3>1. block_ret' = [x \in Threads |-> IF x \in Range(list[t]) THEN "ERR_THREAD_DETACHED"
                                          ELSE block_ret[x]]
      BY <2>2 DEF thread_detach, WakeAll
    <3> QED
      BY <1>3, <3>1
  <2>3. ASSUME thread_exit(c) PROVE RetType'
    <3>1. CASE current[c] \in detached
      BY <1>1, <2>3, <3>1 DEF thread_exit, waitvars
    <3>2. CASE current[c] \notin detached
      <4>1. block_ret' = [x \in Threads |-> IF x \in Range(list[current[c]]) THEN "NO_ERROR"
                                            ELSE block_ret[x]]
        BY <2>3, <3>2 DEF thread_exit, WakeAll
      <4> QED
        BY <1>3, <4>1
    <3> QED
      BY <3>1, <3>2
  <2>4. ASSUME NEW q, NEW timeout, thread_join_wait(c, q, timeout) \/ wait_queue_block(c, q, timeout)
        PROVE  RetType'
    <3>1. block_ret' = [block_ret EXCEPT ![current[c]] = "NO_ERROR"]
      BY <2>4 DEF thread_join_wait, wait_queue_block, block
    <3> QED
      BY <1>2, <3>1
  <2>5. ASSUME NEW q, NEW reschedule, NEW err \in {"NO_ERROR", "ERR_OBJECT_DESTROYED"},
               wait_queue_wake_one(c, q, reschedule) \/ wait_queue_wake_all(c, q, reschedule, err)
        PROVE  RetType'
    BY <1>4, <2>5 DEF wait_queue_wake_one, wait_queue_wake_all
  <2>6. ASSUME NEW t, NEW p,
               \/ thread_resume(c, t) \/ thread_set_real_time(c, t) \/ thread_join_dead(c, t)
               \/ thread_yield(c) \/ thread_set_priority(c, p) \/ thread_sleep(c)
        PROVE  block_ret' = block_ret
    BY <2>6 DEF thread_resume, thread_set_real_time, thread_join_dead, thread_yield,
                thread_set_priority, thread_sleep, waitvars
  <2> QED
    BY <1>1, <1>5, <2>1, <2>2, <2>3, <2>4, <2>5, <2>6 DEF thread_step
<1>6. ASSUME NEW c \in CPUs, interrupt(c) PROVE RetType'
  <2>1. ASSUME NEW q, irq_wake_one(c, q) PROVE RetType'
    BY <1>4, <2>1 DEF irq_wake_one
  <2>2. ASSUME NEW t \in Threads, wait_queue_timeout_handler(c, t) PROVE RetType'
    <3>1. block_ret' = block_ret \/ block_ret' = [block_ret EXCEPT ![t] = "ERR_TIMED_OUT"]
      BY <2>2 DEF wait_queue_timeout_handler, thread_unblock_from_wait_queue
    <3> QED
      BY <1>1, <1>2, <3>1
  <2>3. ASSUME NEW t, \/ mp_mbx_reschedule_irq(c) \/ thread_timer_tick(c) \/ timer_tick(c, t)
                      \/ thread_sleep_handler(c, t) \/ thread_preempt(c)
        PROVE  block_ret' = block_ret
    BY <2>3 DEF mp_mbx_reschedule_irq, thread_timer_tick, timer_tick, thread_sleep_handler,
                thread_preempt, waitvars
  <2> QED
    BY <1>1, <1>6, <2>1, <2>2, <2>3 DEF interrupt
<1>7. ASSUME NEW c \in CPUs, boot_step(c) \/ thread_resched_return(c)
      PROVE  block_ret' = block_ret
  BY <1>7, BootKeeps DEF thread_resched_return
<1> QED
  BY <1>1, <1>5, <1>6, <1>7 DEF Next, vars, waitvars

LEMMA JoinNext ==
  ASSUME SchedInv, CallInv, ContType, RetType, JoinInv, OneReaper, [Next]_<<vars, startvars, use, pinned_cpu>>
  PROVE  JoinInv'
<1>0. state \in [Threads -> States]
  BY DEF SchedInv, Ready
<1>1. CASE UNCHANGED <<vars, startvars, use, pinned_cpu>>
  BY <1>1, QuietJoin DEF vars, waitvars, runvars, lifevars, Fixed
<1>2. CASE Next
  <2>1. PICK c \in CPUs : boot_step(c) \/ thread_resched_return(c)
                            \/ thread_step(c) \/ interrupt(c)
    BY <1>2 DEF Next
  <2>2. Fixed
    BY <1>2 DEF Next, Fixed
  <2>3. CASE boot_step(c)
    BY <2>2, <2>3, BootKeeps, QuietJoin
  <2>4. CASE thread_resched_return(c)
    BY <2>2, <2>4, ReturnJoin
  <2>5. CASE thread_step(c)
    <3>1. ASSUME NEW t \in Threads, thread_create(c, t) PROVE JoinInv'
      <4>1. /\ UNCHANGED <<frame, cont>> /\ state' = [state EXCEPT ![t] = "SUSPENDED"]
            /\ state[t] = "NONE" /\ \A x \in Threads : x # t => block_ret'[x] = block_ret[x]
        BY <3>1 DEF thread_create
      <4>2. frame[t] \notin Threads
        BY <4>1, SchedAssumption DEF CallInv
      <4> QED
        BY <1>0, <2>2, <4>1, <4>2, QuietJoin
    <3>2. ASSUME NEW t \in Threads, thread_resume(c, t) PROVE JoinInv'
      <4>1. /\ UNCHANGED <<frame, block_ret>> /\ state' = [state EXCEPT ![t] = "READY"]
            /\ state[t] = "SUSPENDED" /\ cont' = [cont EXCEPT ![current[c]] = "yield"]
        BY <3>2 DEF thread_resume, no_resched, waitvars
      <4>2. \A x \in Threads : cont'[x] \in Threads => cont'[x] = cont[x]
        BY <4>1, SchedAssumption DEF ContType
      <4> QED
        BY <1>0, <2>2, <4>1, <4>2, QuietJoin
    <3>3. ASSUME NEW t \in RealTimers, thread_set_real_time(c, t) PROVE JoinInv'
      BY <2>2, <3>3, QuietJoin DEF thread_set_real_time, waitvars
    <3>4. ASSUME NEW t \in Threads, NEW timeout, current[c] \in Joiners,
                 thread_join_wait(c, t, timeout)
          PROVE  JoinInv'
      <4>1. calls(c) /\ block(c, t, timeout) /\ cont' = cont /\ t \in WaitQueues
        BY <3>4 DEF thread_join_wait, lifevars, WaitQueues
      <4>2. Switched(c, "BLOCKED", {})
        BY <2>2, <3>4, JoinWaitStep
      <4> QED
        BY <2>2, <3>4, <4>1, <4>2, BlockJoin
    <3>5. ASSUME NEW t \in Threads, thread_join_dead(c, t) PROVE JoinInv'
      BY <2>2, <3>5, JoinDeadJoin DEF ContType
    <3>6. ASSUME NEW t \in Threads, current[c] \in Detachers, thread_detach(c, t) PROVE JoinInv'
      BY <2>2, <3>6, DetachJoin
    <3>7. ASSUME thread_exit(c) PROVE JoinInv'
      BY <2>2, <3>7, ExitJoin
    <3>8. ASSUME thread_yield(c) PROVE JoinInv'
      <4>1. UNCHANGED <<frame, block_ret>> /\ cont' = [cont EXCEPT ![current[c]] = "none"]
        BY <3>8 DEF thread_yield, waitvars
      <4>2. \A x \in Threads : cont'[x] \in Threads => cont'[x] = cont[x]
        BY <4>1, SchedAssumption DEF ContType
      <4>3. Switched(c, "READY", {})
        BY <2>2, <3>8, YieldStep
      <4> QED
        BY <2>2, <4>1, <4>2, <4>3, QuietSwitch
    <3>9. ASSUME NEW p \in PriorityArgs, thread_set_priority(c, p) PROVE JoinInv'
      <4>1. UNCHANGED <<frame, block_ret, cont>>
        BY <3>9 DEF thread_set_priority, waitvars
      <4>2. Switched(c, "READY", {})
        BY <2>2, <3>9, SetPriorityStep
      <4> QED
        BY <2>2, <4>1, <4>2, QuietSwitch
    <3>10. ASSUME thread_sleep(c) PROVE JoinInv'
      <4>1. UNCHANGED <<frame, block_ret, cont>>
        BY <3>10 DEF thread_sleep, lifevars
      <4>2. Switched(c, "SLEEPING", {})
        BY <2>2, <3>10, SleepStep
      <4> QED
        BY <2>2, <4>1, <4>2, QuietSwitch
    <3>11. ASSUME NEW q \in Queues, NEW timeout, wait_queue_block(c, q, timeout) PROVE JoinInv'
      <4>1. /\ calls(c) /\ block(c, q, timeout) /\ cont' = cont
            /\ q \in WaitQueues /\ q \notin Threads
        BY <3>11, SchedAssumption DEF wait_queue_block, lifevars, WaitQueues
      <4>2. Switched(c, "BLOCKED", {})
        BY <2>2, <3>11, WaitStep
      <4> QED
        BY <2>2, <4>1, <4>2, BlockJoin
    <3>12. ASSUME NEW q \in Queues, NEW reschedule \in BOOLEAN,
                  wait_queue_wake_one(c, q, reschedule)
           PROVE  JoinInv'
      <4>1. runs(c) /\ list[q] # <<>> /\ wake(c, q, 1, reschedule, "NO_ERROR") /\ callback' = callback
        BY <3>12 DEF wait_queue_wake_one, calls, irqvars
      <4> QED
        BY <2>2, <4>1, CallerHolds, OneOrAll, WakeJoin
    <3>13. ASSUME NEW q \in Queues, NEW reschedule \in BOOLEAN, NEW err,
                  wait_queue_wake_all(c, q, reschedule, err)
           PROVE  JoinInv'
      <4>1. runs(c) /\ list[q] # <<>> /\ wake(c, q, Len(list[q]), reschedule, err)
            /\ callback' = callback
        BY <3>13 DEF wait_queue_wake_all, calls, irqvars
      <4> QED
        BY <2>2, <4>1, CallerHolds, OneOrAll, WakeJoin
    <3>14. Created \subseteq Threads
      BY SchedAssumption DEF SchedInv, OtherTypes, Created
    <3> QED
      BY <2>5, <3>1, <3>2, <3>3, <3>4, <3>5, <3>6, <3>7, <3>8, <3>9, <3>10, <3>11, <3>12, <3>13,
         <3>14 DEF thread_step
  <2>6. CASE interrupt(c)
    <3>1. ASSUME mp_mbx_reschedule_irq(c) PROVE JoinInv'
      BY <2>2, <3>1, QuietJoin DEF mp_mbx_reschedule_irq, waitvars, runvars, lifevars
    <3>2. ASSUME thread_timer_tick(c) PROVE JoinInv'
      BY <2>2, <3>2, QuietJoin DEF thread_timer_tick, waitvars, lifevars
    <3>3. ASSUME NEW q \in Queues, irq_wake_one(c, q) PROVE JoinInv'
      <4>1. /\ list[q] # <<>> /\ wake(c, q, 1, FALSE, "NO_ERROR") /\ callback' = callback
            /\ c \in active_cpus
        BY <3>3 DEF irq_wake_one, interrupts_enabled
      <4> QED
        BY <2>2, <4>1, OneOrAll, WakeJoin
    <3>4. ASSUME NEW t \in Threads, timer_tick(c, t) PROVE JoinInv'
      BY <2>2, <3>4, QuietJoin DEF timer_tick, runvars, lifevars
    <3>5. ASSUME NEW t \in Threads, wait_queue_timeout_handler(c, t) PROVE JoinInv'
      <4>1. UNCHANGED <<frame, cont>>
        BY <3>5 DEF wait_queue_timeout_handler, lifevars
      <4>2. CASE state[t] = "BLOCKED"
        <5>1. /\ state' = [state EXCEPT ![t] = "READY"]
              /\ block_ret' = [block_ret EXCEPT ![t] = "ERR_TIMED_OUT"]
          BY <3>5, <4>2 DEF wait_queue_timeout_handler, thread_unblock_from_wait_queue, no_resched
        <5>2. block_ret'[t] # "NO_ERROR" /\ \A x \in Threads : x # t => block_ret'[x] = block_ret[x]
          BY <5>1 DEF RetType
        <5> QED
          BY <1>0, <2>2, <4>1, <4>2, <5>1, <5>2, QuietJoin
      <4>3. CASE state[t] # "BLOCKED"
        <5>1. UNCHANGED <<state, block_ret>>
          BY <3>5, <4>3 DEF wait_queue_timeout_handler, thread_unblock_from_wait_queue, runvars
        <5> QED
          BY <2>2, <4>1, <5>1, QuietJoin
      <4> QED
        BY <4>2, <4>3
    <3>6. ASSUME NEW t \in Threads, thread_sleep_handler(c, t) PROVE JoinInv'
      <4>1. /\ UNCHANGED <<frame, cont, block_ret>> /\ state' = [state EXCEPT ![t] = "READY"]
            /\ callback[c] = <<"sleep", t>>
        BY <3>6 DEF thread_sleep_handler, no_resched, waitvars, lifevars
      <4>2. state[t] = "SLEEPING"
        BY <4>1 DEF SchedInv, Sleeping
      <4> QED
        BY <1>0, <2>2, <4>1, <4>2, QuietJoin
    <3>7. ASSUME thread_preempt(c) PROVE JoinInv'
      <4>1. UNCHANGED <<frame, block_ret, cont>>
        BY <3>7 DEF thread_preempt, waitvars, lifevars
      <4>2. Switched(c, "READY", {})
        BY <2>2, <3>7, PreemptStep
      <4> QED
        BY <2>2, <4>1, <4>2, QuietSwitch
    <3> QED
      BY <2>6, <3>1, <3>2, <3>3, <3>4, <3>5, <3>6, <3>7 DEF interrupt
  <2> QED
    BY <2>1, <2>3, <2>4, <2>5, <2>6
<1> QED
  BY <1>1, <1>2

\* Without a joiner there is nothing to find.
LEMMA NobodyJoins ==
  ASSUME SchedInv, OnlyJoinersJoin, NoJoiner, [Next]_<<vars, startvars, use, pinned_cpu>>
  PROVE  JoinerFindsThread /\ OnlyJoinersJoin'
<1>1. Joiners = {} /\ use' = use
  BY DEF SchedInv, OtherTypes, NoJoiner, Joiners, Next
<1>2. /\ frame \in [Threads -> WaitQueues \cup {NoQueue}]
      /\ Queues \cap Threads = {} /\ NoQueue \notin Threads
  BY SchedAssumption DEF SchedInv, Waiting
<1>3. ASSUME UNCHANGED frame PROVE OnlyJoinersJoin'
  BY <1>1, <1>3 DEF OnlyJoinersJoin, Joiners
<1>4. ASSUME NEW c, NEW q \in Queues \cup {NoQueue}, frame' = [frame EXCEPT ![current[c]] = q]
      PROVE  OnlyJoinersJoin'
  <2>1. \A t \in Threads : frame'[t] \in {frame[t], q}
    BY <1>2, <1>4
  <2>2. Joiners' = Joiners /\ q \notin Threads
    BY <1>1, <1>2 DEF Joiners
  <2> QED
    BY <2>1, <2>2 DEF OnlyJoinersJoin
<1>5. ASSUME NEW c \in CPUs, thread_step(c) PROVE OnlyJoinersJoin'
  <2>1. ASSUME NEW q \in Queues, NEW timeout, wait_queue_block(c, q, timeout)
        PROVE  OnlyJoinersJoin'
    BY <1>4, <2>1 DEF wait_queue_block, block
  <2>2. ASSUME NEW t, NEW q, NEW p, NEW reschedule, NEW err,
               \/ thread_create(c, t) \/ thread_resume(c, t) \/ thread_set_real_time(c, t)
               \/ thread_join_dead(c, t) \/ thread_detach(c, t) \/ thread_exit(c)
               \/ thread_yield(c) \/ thread_set_priority(c, p) \/ thread_sleep(c)
               \/ wait_queue_wake_one(c, q, reschedule) \/ wait_queue_wake_all(c, q, reschedule, err)
        PROVE  UNCHANGED frame
    BY <2>2 DEF thread_create, thread_resume, thread_set_real_time, thread_join_dead, thread_detach,
                thread_exit, thread_yield, thread_set_priority, thread_sleep, wait_queue_wake_one,
                wait_queue_wake_all, wake, WakeAll, waitvars
  <2> QED
    BY <1>1, <1>3, <1>5, <2>1, <2>2 DEF thread_step
<1>6. ASSUME NEW c \in CPUs, thread_resched_return(c) PROVE OnlyJoinersJoin'
  BY <1>3, <1>4, <1>6 DEF thread_resched_return
<1>7. ASSUME NEW c \in CPUs, boot_step(c) \/ interrupt(c) PROVE UNCHANGED frame
  BY <1>7, BootKeeps DEF interrupt, mp_mbx_reschedule_irq, thread_timer_tick, irq_wake_one,
              timer_tick, wait_queue_timeout_handler, thread_sleep_handler, thread_preempt, wake,
              waitvars
<1>8. OnlyJoinersJoin'
  BY <1>3, <1>5, <1>6, <1>7 DEF Next, vars, waitvars
<1>9. JoinerFindsThread
  BY <1>1 DEF OnlyJoinersJoin, JoinerFindsThread
<1> QED
  BY <1>8, <1>9

\* Without a joiner, or with one thread that reaps the others, the scheduler's
\* lists are right without further conditions.
LEMMA NoJoinerInvariance ==
  ASSUME NoJoiner
  PROVE  Spec => []SchedInv
<1>1. Init => SchedInv /\ OnlyJoinersJoin
  <2>1. Init => OnlyJoinersJoin
    BY SchedAssumption DEF Init, OnlyJoinersJoin
  <2> QED
    BY <2>1, SchedInit
<1>2. SchedInv /\ OnlyJoinersJoin /\ [Next]_<<vars, startvars, use, pinned_cpu>>
        => SchedInv' /\ OnlyJoinersJoin'
  BY NobodyJoins, SchedNext
<1> QED
  BY <1>1, <1>2, PTL DEF Spec

JoinIInv == SchedInv /\ CallInv /\ ContType /\ RetType /\ JoinInv

LEMMA JoinInit == Init => JoinIInv
<1> SUFFICES ASSUME Init PROVE JoinIInv
  OBVIOUS
<1>1. ContType /\ RetType
  BY DEF Init, ContType, RetType
<1>2. CallInv
  BY SchedAssumption DEF Init, CallInv
<1>3. JoinInv
  BY SchedAssumption DEF Init, JoinInv, OnlyJoinersJoin, DetachFindsThread, JoinerFindsThread
<1> QED
  BY <1>1, <1>2, <1>3, SchedInit DEF JoinIInv

LEMMA OneReaperInvariance ==
  ASSUME OneReaper
  PROVE  Spec => []JoinIInv
<1>1. JoinIInv /\ [Next]_<<vars, startvars, use, pinned_cpu>> => JoinIInv'
  <2> SUFFICES ASSUME JoinIInv, [Next]_<<vars, startvars, use, pinned_cpu>>
               PROVE  JoinIInv'
    OBVIOUS
  <2>1. SchedInv /\ CallInv /\ ContType /\ RetType /\ JoinInv /\ JoinerFindsThread
    BY DEF JoinIInv, JoinInv
  <2>2. SchedInv'
    BY <2>1, SchedNext
  <2>3. CallInv'
    BY <2>1, CallNext
  <2>4. ContType' /\ RetType'
    BY <2>1, ContNext, RetNext
  <2>5. JoinInv'
    BY <2>1, JoinNext
  <2> QED
    BY <2>2, <2>3, <2>4, <2>5 DEF JoinIInv
<1> QED
  BY <1>1, JoinInit, PTL DEF Spec

(***************************************************************************)
(* One thread that joins and detaches the others is safe from them: what   *)
(* it waits for or is about to free is there, whoever exits, detaches      *)
(* itself or times out meanwhile.                                          *)
(***************************************************************************)
THEOREM SchedJoinSafe ==
  ASSUME OneReaper
  PROVE  Spec => []JoinSafe
<1>1. JoinIInv => JoinSafe
  BY DEF JoinIInv, JoinInv, DetachFindsThread, SchedInv, Joining, JoinSafe
<1> QED
  BY <1>1, OneReaperInvariance, PTL

(***************************************************************************)
(* The queue_nodes and the CPUs are then in order unconditionally; and so  *)
(* they are if no thread joins another.                                    *)
(***************************************************************************)
THEOREM SchedOrder ==
  ASSUME NoJoiner \/ OneReaper
  PROVE  Spec => [](QueueNodeExact /\ RunningExact)
<1>1. SchedInv => QueueNodeExact /\ RunningExact
  BY InvNodes DEF SchedInv
<1>2. CASE NoJoiner
  BY <1>1, <1>2, NoJoinerInvariance, PTL
<1>3. CASE OneReaper
  <2>1. JoinIInv => SchedInv
    BY DEF JoinIInv
  <2> QED
    BY <1>1, <1>3, <2>1, OneReaperInvariance, PTL
<1> QED
  BY <1>2, <1>3

-------------------------------------------------------------------------------
(***************************************************************************)
(* The preemption timer.                                                   *)
(***************************************************************************)
OneCpu == \A c, d \in CPUs : c = d

\* No thread of the system is flagged real time.
NoRealTimer == \A u \in Uses : UseOf[u].realtimers = {}

\* thread_resched stops or starts the timer of its CPU.
LEMMA PreemptSwitch ==
  ASSUME CpuType, PreemptTimerExact, NEW c \in CPUs, NEW rq, NEW st, NEW qt,
         thread_resched(c, rq, st, qt), realtime' = realtime
  PROVE  PreemptTimerExact'
<1> DEFINE new == get_top_thread(c, rq).thread
           old == current[c]
<1>1. CASE new = old
  BY <1>1 DEF thread_resched, PreemptTimerExact, thread_is_real_time_or_idle, thread_is_idle
<1>2. CASE new # old
  <2>1. /\ current' = [current EXCEPT ![c] = new]
        /\ preempt_timer' =
             CASE ~thread_is_real_time_or_idle(new)
                     /\ thread_is_real_time_or_idle(old) -> preempt_timer \cup {c}
               [] thread_is_real_time_or_idle(new)
                     /\ ~thread_is_real_time_or_idle(old) -> preempt_timer \ {c}
               [] OTHER -> preempt_timer
    BY <1>2 DEF thread_resched
  <2> HIDE DEF new
  <2>2. \A d \in CPUs : current'[d] = IF d = c THEN new ELSE current[d]
    BY <2>1 DEF CpuType
  <2>3. \A x : thread_is_real_time_or_idle(x)' <=> x \in realtime \/ x \in CPUs
    BY DEF thread_is_real_time_or_idle, thread_is_idle
  <2>4. \A x : thread_is_real_time_or_idle(x) <=> x \in realtime \/ x \in CPUs
    BY DEF thread_is_real_time_or_idle, thread_is_idle
  <2> DEFINE R == realtime \cup CPUs
  <2>5. preempt_timer = {d \in CPUs : current[d] \notin R}
    BY <2>4 DEF PreemptTimerExact
  <2>6. preempt_timer' = {d \in CPUs : current'[d] \notin R}
    <3>1. CASE new \notin R /\ old \in R
      <4>1. preempt_timer' = preempt_timer \cup {c}
        BY <2>1, <2>4, <3>1
      <4> QED
        BY <2>2, <2>5, <3>1, <4>1
    <3>2. CASE new \in R /\ old \notin R
      <4>1. preempt_timer' = preempt_timer \ {c}
        BY <2>1, <2>4, <3>2
      <4> QED
        BY <2>2, <2>5, <3>2, <4>1
    <3>3. CASE new \in R <=> old \in R
      <4>1. preempt_timer' = preempt_timer
        BY <2>1, <2>4, <3>3
      <4> QED
        BY <2>2, <2>5, <3>3, <4>1
    <3> QED
      BY <3>1, <3>2, <3>3
  <2> QED
    BY <2>6 DEF PreemptTimerExact, thread_is_real_time_or_idle, thread_is_idle
<1> QED
  BY <1>1, <1>2

LEMMA PreemptKept ==
  ASSUME PreemptTimerExact, UNCHANGED <<current, realtime, preempt_timer>>
  PROVE  PreemptTimerExact'
BY DEF PreemptTimerExact, thread_is_real_time_or_idle, thread_is_idle

LEMMA PreemptNext ==
  ASSUME SchedInv, PreemptTimerExact, OneCpu \/ NoRealTimer, [Next]_<<vars, startvars, use, pinned_cpu>>
  PROVE  PreemptTimerExact'
<1>0. CpuType
  BY DEF SchedInv
<1>1. CASE UNCHANGED <<vars, startvars, use, pinned_cpu>>
  BY <1>1, PreemptKept DEF vars, lifevars, runvars
<1>2. ASSUME NEW c \in CPUs, thread_step(c) PROVE PreemptTimerExact'
  <2>1. ASSUME NEW t \in Threads, thread_create(c, t) PROVE PreemptTimerExact'
    <3>1. /\ UNCHANGED <<current, preempt_timer>> /\ realtime' = realtime \ {t}
          /\ state[t] = "NONE"
      BY <2>1 DEF thread_create
    <3>2. \A d \in CPUs : current[d] # t
      BY <3>1 DEF SchedInv, RunningExact
    <3> QED
      BY <3>1, <3>2 DEF PreemptTimerExact, thread_is_real_time_or_idle, thread_is_idle
  <2>2. ASSUME NEW t \in RealTimers, thread_set_real_time(c, t) PROVE PreemptTimerExact'
    <3>1. OneCpu
      BY <2>2 DEF SchedInv, OtherTypes, NoRealTimer, RealTimers
    <3>2. /\ current' = current /\ realtime' = realtime \cup {t}
          /\ preempt_timer' = IF t = current[c] THEN preempt_timer \ {c} ELSE preempt_timer
      BY <2>2 DEF thread_set_real_time
    <3>3. \A d \in CPUs : d = c
      BY <3>1 DEF OneCpu
    <3> QED
      BY <3>2, <3>3 DEF PreemptTimerExact, thread_is_real_time_or_idle, thread_is_idle
  <2>3. ASSUME NEW t, thread_resume(c, t) \/ thread_join_dead(c, t) \/ thread_detach(c, t)
        PROVE  UNCHANGED <<current, realtime, preempt_timer>>
    BY <2>3 DEF thread_resume, thread_join_dead, thread_detach, no_resched
  <2>4. ASSUME NEW t, NEW q, NEW timeout, NEW p,
               \/ thread_join_wait(c, t, timeout) \/ thread_exit(c) \/ thread_yield(c)
               \/ thread_set_priority(c, p) \/ thread_sleep(c) \/ wait_queue_block(c, q, timeout)
        PROVE  realtime' = realtime /\ \E rq, st, qt : thread_resched(c, rq, st, qt)
    BY <2>4 DEF thread_join_wait, thread_exit, thread_yield, thread_set_priority, thread_sleep,
                wait_queue_block, block, lifevars
  <2>5. ASSUME NEW q, NEW reschedule, NEW err,
               wait_queue_wake_one(c, q, reschedule) \/ wait_queue_wake_all(c, q, reschedule, err)
        PROVE  PreemptTimerExact'
    <3>1. \E n, e : wake(c, q, n, reschedule, e)
      BY <2>5 DEF wait_queue_wake_one, wait_queue_wake_all
    <3>2. realtime' = realtime /\ \/ \E rq, st, qt : thread_resched(c, rq, st, qt)
                                  \/ UNCHANGED <<current, preempt_timer>>
      BY <3>1 DEF wake, no_resched, lifevars
    <3> QED
      BY <1>0, <3>2, PreemptSwitch, PreemptKept
  <2>6. Created \subseteq Threads
    BY SchedAssumption DEF SchedInv, OtherTypes, Created
  <2> QED
    BY <1>0, <1>2, <2>1, <2>2, <2>3, <2>4, <2>5, <2>6, PreemptSwitch, PreemptKept DEF thread_step
<1>3. ASSUME NEW c \in CPUs, interrupt(c) PROVE PreemptTimerExact'
  <2>1. ASSUME NEW t, NEW q,
               \/ mp_mbx_reschedule_irq(c) \/ thread_timer_tick(c) \/ irq_wake_one(c, q)
               \/ timer_tick(c, t) \/ wait_queue_timeout_handler(c, t) \/ thread_sleep_handler(c, t)
        PROVE  UNCHANGED <<current, realtime, preempt_timer>>
    BY <2>1 DEF mp_mbx_reschedule_irq, thread_timer_tick, irq_wake_one, wake, timer_tick,
                wait_queue_timeout_handler, thread_unblock_from_wait_queue, thread_sleep_handler,
                no_resched, lifevars, runvars
  <2>2. ASSUME thread_preempt(c)
        PROVE  realtime' = realtime /\ \E rq, st, qt : thread_resched(c, rq, st, qt)
    BY <2>2 DEF thread_preempt, lifevars
  <2> QED
    BY <1>0, <1>3, <2>1, <2>2, PreemptSwitch, PreemptKept DEF interrupt
<1>4. ASSUME NEW c \in CPUs, boot_step(c) \/ thread_resched_return(c)
      PROVE  UNCHANGED <<current, realtime, preempt_timer>>
  BY <1>4, BootKeeps DEF thread_resched_return, lifevars
<1> QED
  BY <1>1, <1>2, <1>3, <1>4, PreemptKept DEF Next

(***************************************************************************)
(* The preemption timer of a CPU is queued exactly while it runs a thread  *)
(* that is neither real time nor idle, on one CPU or as long as no thread  *)
(* is flagged real time: thread_set_real_time does not reach the timer of  *)
(* another CPU that runs the thread.                                       *)
(***************************************************************************)
THEOREM SchedPreemptTimer ==
  ASSUME OneCpu \/ NoRealTimer
  PROVE  Spec /\ []JoinerFindsThread => []PreemptTimerExact
<1>1. Init => PreemptTimerExact
  BY DEF Init, PreemptTimerExact, thread_is_real_time_or_idle, thread_is_idle
<1>2. SchedInv /\ PreemptTimerExact /\ [Next]_<<vars, startvars, use, pinned_cpu>> => PreemptTimerExact'
  BY PreemptNext
<1> QED
  BY <1>1, <1>2, SchedInvariance, PTL DEF Spec

-------------------------------------------------------------------------------
(***************************************************************************)
(* Timeouts on one CPU.  A stack timer belongs to a thread that sleeps or  *)
(* is in a wait with a timeout; so does a timeout that has fired, until    *)
(* its handler has run: the CPU does nothing else in between.              *)
(***************************************************************************)
TimedInv ==
  /\ OnlyTimedWaitsTimeOut
  /\ thread_lock \in CPUs \cup {NoCpu}
  /\ \A t \in Threads :
       timer[t] # NoCpu => state[t] = "SLEEPING" \/ (frame[t] # NoQueue /\ t \in timed)
  /\ \A c \in CPUs, t \in Threads :
       callback[c] = <<"timeout", t>> => frame[t] # NoQueue /\ t \in timed
  /\ \A c \in CPUs : callback[c] # NoCallback => thread_lock = NoCpu

\* A step that touches neither the waits nor the timers.
LEMMA TimedKept ==
  ASSUME TimedInv, UNCHANGED <<frame, timed, timer, callback>>,
         \/ thread_lock' = thread_lock
         \/ thread_lock' \in CPUs /\ \A c \in CPUs : callback[c] = NoCallback,
         \A t \in Threads : state[t] = "SLEEPING" => state'[t] = "SLEEPING",
         \A t \in Threads : block_ret'[t] = "ERR_TIMED_OUT" => block_ret[t] = "ERR_TIMED_OUT"
  PROVE  TimedInv'
BY DEF TimedInv, OnlyTimedWaitsTimeOut

\* A step in which the only CPU switches.
LEMMA TimedSwitch ==
  ASSUME SchedInv, TimedInv, OneCpu, NEW c \in CPUs, NEW x, NEW W, Switched(c, x, W),
         UNCHANGED <<frame, timed, timer, callback>>, thread_lock' = c, callback[c] = NoCallback,
         \A t \in W : t \in Threads => state[t] = "BLOCKED",
         \A t \in Threads : block_ret'[t] = "ERR_TIMED_OUT" => block_ret[t] = "ERR_TIMED_OUT"
  PROVE  TimedInv'
<1>1. current[c] \in Threads => state[current[c]] = "RUNNING"
  BY DEF SchedInv, RunningExact
<1>2. \A t \in Threads : state[t] = "SLEEPING" => state'[t] = "SLEEPING"
  BY <1>1 DEF Switched
<1>3. \A d \in CPUs : callback[d] = NoCallback
  BY DEF OneCpu
<1> QED
  BY <1>2, <1>3, TimedKept

LEMMA TimedBlock ==
  ASSUME SchedInv, CallInv, RetType, TimedInv, OneCpu, NEW c \in CPUs, runs(c), NEW q \in WaitQueues,
         NEW timeout, block(c, q, timeout), Switched(c, "BLOCKED", {}), callback' = callback
  PROVE  TimedInv'
<1> DEFINE me == current[c]
<1>1. /\ me \in Threads /\ state[me] = "RUNNING" /\ frame[me] = NoQueue /\ NoQueue \notin WaitQueues
  BY CallerHolds, RunsOutOfCalls, SchedAssumption DEF WaitQueues
<1>2. \A d \in CPUs : callback[d] = NoCallback
  BY DEF OneCpu, runs, interrupts_enabled
<1>3. /\ frame' = [frame EXCEPT ![me] = q]
      /\ block_ret' = [block_ret EXCEPT ![me] = "NO_ERROR"]
      /\ timed' = IF timeout = "finite" THEN timed \cup {me} ELSE timed
      /\ timer' = [timer EXCEPT ![me] = IF timeout = "finite" THEN c ELSE timer[me]]
      /\ thread_lock' = c
  BY ReschedLocks DEF block
<1>4. /\ \A t \in Threads : frame'[t] = IF t = me THEN q ELSE frame[t]
      /\ \A t \in Threads : block_ret'[t] = IF t = me THEN "NO_ERROR" ELSE block_ret[t]
  BY <1>1, <1>3 DEF SchedInv, Waiting, RetType
<1>5. \A t \in Threads : timer'[t] = IF t = me /\ timeout = "finite" THEN c ELSE timer[t]
  BY <1>1, <1>3 DEF SchedInv, OtherTypes
<1>6. \A t \in Threads : t # me /\ state[t] = "SLEEPING" => state'[t] = "SLEEPING"
  BY DEF Switched
<1>7. timer[me] = NoCpu
  BY <1>1 DEF TimedInv
<1>8. \A t \in Threads : t # me => (t \in timed' <=> t \in timed)
  BY <1>3
<1>9. OnlyTimedWaitsTimeOut'
  BY <1>4, <1>8 DEF TimedInv, OnlyTimedWaitsTimeOut
<1>10. \A t \in Threads :
         timer'[t] # NoCpu => state'[t] = "SLEEPING" \/ (frame'[t] # NoQueue /\ t \in timed')
  <2> SUFFICES ASSUME NEW t \in Threads, timer'[t] # NoCpu
               PROVE  state'[t] = "SLEEPING" \/ (frame'[t] # NoQueue /\ t \in timed')
    OBVIOUS
  <2>1. CASE t = me
    BY <1>1, <1>3, <1>4, <1>5, <1>7, <2>1
  <2>2. CASE t # me
    BY <1>4, <1>5, <1>6, <1>8, <2>2 DEF TimedInv
  <2> QED
    BY <2>1, <2>2
<1>11. \A t : <<"timeout", t>> # NoCallback
  BY DEF NoCallback
<1> QED
  BY <1>2, <1>3, <1>9, <1>10, <1>11 DEF TimedInv

LEMMA TimedWake ==
  ASSUME SchedInv, Fixed, TimedInv, OneCpu, NEW c \in active_cpus, NEW q \in Queues, list[q] # <<>>,
         NEW n \in 0 .. Len(list[q]), NEW reschedule \in BOOLEAN, NEW err,
         wake(c, q, n, reschedule, err), err # "ERR_TIMED_OUT", callback' = callback,
         callback[c] = NoCallback, reschedule => current[c] \in Threads
  PROVE  TimedInv'
<1> DEFINE W == Range(SubSeq(list[q], 1, n))
<1>1. /\ c \in CPUs /\ UNCHANGED <<frame, timed, timer>>
      /\ \A t \in Threads : block_ret'[t] = IF t \in W THEN err ELSE block_ret[t]
  BY DEF SchedInv, CpuType, wake
<1>2. q \in WaitQueues /\ list[q] \in Seq(Threads) /\ IsInjective(list[q])
  BY OneOrAll DEF SchedInv, Waiting
<1>3. \A t \in Range(list[q]) : state[t] = "BLOCKED"
  BY <1>2 DEF SchedInv, Waiting
<1>4. W \subseteq Range(list[q])
  BY <1>2, SplitLemma
<1>5. CASE reschedule
  <2>1. \E V \in SUBSET Range(list[q]) : Switched(c, "READY", V)
    BY <1>2, <1>5, WakeStep
  <2>2. thread_lock' = c
    BY <1>5, ReschedLocks DEF wake
  <2> HIDE DEF W
  <2> QED
    BY <1>1, <1>3, <2>1, <2>2, TimedSwitch
<1>6. CASE ~reschedule
  <2>1. state' = Readied(state, W) /\ thread_lock' = thread_lock
    BY <1>6 DEF wake, no_resched
  <2>2. \A t \in Threads : state'[t] = IF t \in W THEN "READY" ELSE state[t]
    BY <2>1 DEF Readied
  <2> HIDE DEF W
  <2> QED
    BY <1>1, <1>3, <1>4, <2>1, <2>2, TimedKept
<1> QED
  BY <1>5, <1>6

LEMMA TimedReturn ==
  ASSUME SchedInv, JoinerFindsThread, TimedInv, NEW c \in CPUs, thread_resched_return(c)
  PROVE  TimedInv'
<1> DEFINE me == current[c]
<1>1. /\ thread_lock = c /\ thread_lock' = NoCpu /\ UNCHANGED <<callback, block_ret>>
  BY DEF thread_resched_return, irqvars
<1>2. (\A d \in CPUs : callback[d] = NoCallback) /\ \A t : <<"timeout", t>> # NoCallback
  BY <1>1, SchedAssumption DEF TimedInv, NoCallback
<1>3. CASE ~(me \in Threads /\ frame[me] # NoQueue)
  <2>1. UNCHANGED <<timer, timed, frame, state>>
    BY <1>3 DEF thread_resched_return
  <2> QED
    BY <1>1, <1>2, <2>1 DEF TimedInv, OnlyTimedWaitsTimeOut
<1>4. CASE me \in Threads /\ frame[me] # NoQueue
  <2>1. /\ timer' = [timer EXCEPT ![me] = IF me \in timed THEN NoCpu ELSE timer[me]]
        /\ timed' = timed \ {me}
        /\ frame' = [frame EXCEPT ![me] = NoQueue]
        /\ state' = IF frame[me] \in Threads /\ block_ret[me] = "NO_ERROR"
                      THEN [state EXCEPT ![frame[me]] = "NONE"] ELSE state
    BY <1>4 DEF thread_resched_return
  <2>2. state[me] = "RUNNING" /\ state \in [Threads -> States]
    BY <1>4 DEF SchedInv, RunningExact, Ready
  <2>3. \A t \in Threads : state[t] = "SLEEPING" => state'[t] = "SLEEPING"
    <3>1. CASE frame[me] \in Threads /\ block_ret[me] = "NO_ERROR"
      <4>1. state[frame[me]] = "DEATH"
        BY <1>4, <2>2, <3>1 DEF JoinerFindsThread
      <4> QED
        BY <2>1, <2>2, <3>1, <4>1
    <3>2. CASE ~(frame[me] \in Threads /\ block_ret[me] = "NO_ERROR")
      BY <2>1, <3>2
    <3> QED
      BY <3>1, <3>2
  <2>4. \A t \in Threads : frame'[t] = IF t = me THEN NoQueue ELSE frame[t]
    BY <1>4, <2>1 DEF SchedInv, Waiting
  <2>5. /\ \A t \in Threads : t # me => timer'[t] = timer[t]
        /\ timer'[me] = IF me \in timed THEN NoCpu ELSE timer[me]
    BY <1>4, <2>1 DEF SchedInv, OtherTypes
  <2>6. timer'[me] = NoCpu
    BY <1>4, <2>2, <2>5 DEF TimedInv
  <2>7. OnlyTimedWaitsTimeOut'
    BY <1>1, <2>1, <2>4 DEF TimedInv, OnlyTimedWaitsTimeOut
  <2>8. \A t \in Threads :
          timer'[t] # NoCpu => state'[t] = "SLEEPING" \/ (frame'[t] # NoQueue /\ t \in timed')
    BY <2>1, <2>3, <2>4, <2>5, <2>6 DEF TimedInv
  <2> QED
    BY <1>1, <1>2, <2>7, <2>8 DEF TimedInv
<1> QED
  BY <1>3, <1>4

LEMMA TimedNext ==
  ASSUME SchedInv, CallInv, RetType, JoinerFindsThread, TimedInv, OneCpu,
         [Next]_<<vars, startvars, use, pinned_cpu>>
  PROVE  TimedInv'
<1>0. state \in [Threads -> States] /\ block_ret \in [Threads -> {block_ret[t] : t \in Threads}]
  BY DEF SchedInv, Ready, RetType
<1>1. CASE UNCHANGED <<vars, startvars, use, pinned_cpu>>
  BY <1>1, TimedKept DEF vars, waitvars, irqvars, runvars
<1>2. CASE Next
  <2>1. PICK c \in CPUs : boot_step(c) \/ thread_resched_return(c)
                            \/ thread_step(c) \/ interrupt(c)
    BY <1>2 DEF Next
  <2>2. Fixed
    BY <1>2 DEF Next, Fixed
  <2>3. CASE boot_step(c)
    BY <2>3, BootKeeps, TimedKept
  <2>4. CASE thread_resched_return(c)
    BY <2>4, TimedReturn
  <2>5. CASE thread_step(c)
    <3>0. ASSUME runs(c) PROVE callback[c] = NoCallback
      BY <3>0 DEF runs, interrupts_enabled
    <3>1. ASSUME NEW t \in Threads, thread_create(c, t) PROVE TimedInv'
      <4>1. /\ UNCHANGED <<frame, timed, timer, callback, thread_lock>>
            /\ state' = [state EXCEPT ![t] = "SUSPENDED"] /\ state[t] = "NONE"
            /\ block_ret' = [block_ret EXCEPT ![t] = "NO_ERROR"]
        BY <3>1 DEF thread_create, irqvars
      <4> QED
        BY <1>0, <4>1, TimedKept
    <3>2. ASSUME NEW t \in Threads, thread_resume(c, t) PROVE TimedInv'
      <4>1. /\ UNCHANGED <<frame, timed, timer, callback, thread_lock, block_ret>>
            /\ state' = [state EXCEPT ![t] = "READY"] /\ state[t] = "SUSPENDED"
        BY <3>2 DEF thread_resume, no_resched, waitvars, irqvars
      <4> QED
        BY <1>0, <4>1, TimedKept
    <3>3. ASSUME NEW t \in RealTimers, thread_set_real_time(c, t) PROVE TimedInv'
      BY <3>3, TimedKept DEF thread_set_real_time, waitvars, irqvars
    <3>4. ASSUME NEW t \in Threads, NEW timeout, thread_join_wait(c, t, timeout) PROVE TimedInv'
      <4>1. runs(c) /\ block(c, t, timeout) /\ callback' = callback /\ t \in WaitQueues
        BY <3>4 DEF thread_join_wait, calls, irqvars, WaitQueues
      <4>2. Switched(c, "BLOCKED", {})
        BY <2>2, <3>4, JoinWaitStep
      <4> QED
        BY <4>1, <4>2, TimedBlock
    <3>5. ASSUME NEW t \in Threads, thread_join_dead(c, t) PROVE TimedInv'
      <4>1. /\ UNCHANGED <<frame, timed, timer, callback, thread_lock, block_ret>>
            /\ state' = [state EXCEPT ![t] = "NONE"] /\ state[t] = "DEATH"
        BY <3>5 DEF thread_join_dead, no_resched, waitvars, irqvars
      <4> QED
        BY <1>0, <4>1, TimedKept
    <3>6. ASSUME NEW t \in Threads, thread_detach(c, t) PROVE TimedInv'
      <4>1. /\ UNCHANGED <<frame, timed, timer, callback, thread_lock>>
            /\ \A x \in Threads : state'[x] = IF x \in Range(list[t]) THEN "READY" ELSE state[x]
            /\ \A x \in Threads : block_ret'[x] = IF x \in Range(list[t])
                                                    THEN "ERR_THREAD_DETACHED" ELSE block_ret[x]
        BY <3>6 DEF thread_detach, WakeAll, no_resched, Readied, irqvars
      <4>2. \A x \in Range(list[t]) : state[x] = "BLOCKED"
        BY DEF SchedInv, Waiting, WaitQueues
      <4> QED
        BY <4>1, <4>2, TimedKept
    <3>7. ASSUME thread_exit(c) PROVE TimedInv'
      <4>1. /\ runs(c) /\ UNCHANGED <<frame, timed, timer, callback>> /\ thread_lock' = c
        BY <3>7, ReschedLocks DEF thread_exit, calls, WakeAll, waitvars, irqvars
      <4>2. current[c] \in WaitQueues
        BY <4>1, CallerHolds DEF WaitQueues
      <4>3. CASE current[c] \in detached
        <5>1. Switched(c, "NONE", {}) /\ block_ret' = block_ret
          BY <2>2, <3>7, <4>3, ExitStep DEF thread_exit, waitvars
        <5> QED
          BY <3>0, <4>1, <5>1, TimedSwitch
      <4>4. CASE current[c] \notin detached
        <5>1. /\ Switched(c, "DEATH", Range(list[current[c]]))
              /\ \A x \in Threads : block_ret'[x] = IF x \in Range(list[current[c]])
                                                      THEN "NO_ERROR" ELSE block_ret[x]
          BY <2>2, <3>7, <4>4, ExitStep DEF thread_exit, WakeAll
        <5>2. \A x \in Range(list[current[c]]) : state[x] = "BLOCKED"
          BY <4>2 DEF SchedInv, Waiting
        <5> QED
          BY <3>0, <4>1, <5>1, <5>2, TimedSwitch
      <4> QED
        BY <4>3, <4>4
    <3>8. ASSUME thread_yield(c) PROVE TimedInv'
      <4>1. /\ runs(c) /\ UNCHANGED <<frame, timed, timer, block_ret, callback>> /\ thread_lock' = c
        BY <3>8, ReschedLocks DEF thread_yield, waitvars, irqvars
      <4>2. Switched(c, "READY", {})
        BY <2>2, <3>8, YieldStep
      <4> QED
        BY <3>0, <4>1, <4>2, TimedSwitch
    <3>9. ASSUME NEW p \in PriorityArgs, thread_set_priority(c, p) PROVE TimedInv'
      <4>1. /\ runs(c) /\ UNCHANGED <<frame, timed, timer, block_ret, callback>> /\ thread_lock' = c
        BY <3>9, ReschedLocks DEF thread_set_priority, calls, waitvars, irqvars
      <4>2. Switched(c, "READY", {})
        BY <2>2, <3>9, SetPriorityStep
      <4> QED
        BY <3>0, <4>1, <4>2, TimedSwitch
    <3>10. ASSUME thread_sleep(c) PROVE TimedInv'
      <4> DEFINE me == current[c]
      <4>1. /\ runs(c) /\ UNCHANGED <<frame, timed, block_ret, callback>> /\ thread_lock' = c
            /\ timer' = [timer EXCEPT ![me] = c]
        BY <3>10, ReschedLocks DEF thread_sleep, calls, irqvars
      <4>2. Switched(c, "SLEEPING", {}) /\ me \in Threads
        BY <2>2, <3>10, <4>1, SleepStep, CallerHolds
      <4>3. \A t \in Threads : state[t] = "SLEEPING" \/ t = me => state'[t] = "SLEEPING"
        BY <4>2 DEF Switched
      <4>4. \A t \in Threads : t # me => timer'[t] = timer[t]
        BY <4>1 DEF SchedInv, OtherTypes
      <4>5. \A d \in CPUs : callback[d] = NoCallback
        BY <3>0, <4>1 DEF OneCpu
      <4>6. \A t : <<"timeout", t>> # NoCallback
        BY DEF NoCallback
      <4> QED
        BY <4>1, <4>3, <4>4, <4>5, <4>6 DEF TimedInv, OnlyTimedWaitsTimeOut
    <3>11. ASSUME NEW q \in Queues, NEW timeout, wait_queue_block(c, q, timeout) PROVE TimedInv'
      <4>1. runs(c) /\ block(c, q, timeout) /\ callback' = callback /\ q \in WaitQueues
        BY <3>11 DEF wait_queue_block, calls, irqvars, WaitQueues
      <4>2. Switched(c, "BLOCKED", {})
        BY <2>2, <3>11, WaitStep
      <4> QED
        BY <4>1, <4>2, TimedBlock
    <3>12. ASSUME NEW q \in Queues, NEW reschedule \in BOOLEAN,
                  wait_queue_wake_one(c, q, reschedule)
           PROVE  TimedInv'
      <4>1. runs(c) /\ list[q] # <<>> /\ wake(c, q, 1, reschedule, "NO_ERROR") /\ callback' = callback
        BY <3>12 DEF wait_queue_wake_one, calls, irqvars
      <4> QED
        BY <2>2, <3>0, <4>1, CallerHolds, OneOrAll, TimedWake
    <3>13. ASSUME NEW q \in Queues, NEW reschedule \in BOOLEAN,
                  NEW err \in {"NO_ERROR", "ERR_OBJECT_DESTROYED"},
                  wait_queue_wake_all(c, q, reschedule, err)
           PROVE  TimedInv'
      <4>1. /\ runs(c) /\ list[q] # <<>> /\ wake(c, q, Len(list[q]), reschedule, err)
            /\ callback' = callback /\ err # "ERR_TIMED_OUT"
        BY <3>13 DEF wait_queue_wake_all, calls, irqvars
      <4> QED
        BY <2>2, <3>0, <4>1, CallerHolds, OneOrAll, TimedWake
    <3>14. Created \subseteq Threads
      BY SchedAssumption DEF SchedInv, OtherTypes, Created
    <3> QED
      BY <2>5, <3>1, <3>2, <3>3, <3>4, <3>5, <3>6, <3>7, <3>8, <3>9, <3>10, <3>11, <3>12, <3>13,
         <3>14 DEF thread_step
  <2>6. CASE interrupt(c)
    <3>1. ASSUME mp_mbx_reschedule_irq(c) PROVE TimedInv'
      BY <3>1, TimedKept DEF mp_mbx_reschedule_irq, waitvars, runvars
    <3>2. ASSUME thread_timer_tick(c) PROVE TimedInv'
      BY <3>2, TimedKept DEF thread_timer_tick, waitvars
    <3>3. ASSUME NEW q \in Queues, irq_wake_one(c, q) PROVE TimedInv'
      <4>1. /\ list[q] # <<>> /\ wake(c, q, 1, FALSE, "NO_ERROR") /\ callback' = callback
            /\ c \in active_cpus /\ callback[c] = NoCallback
        BY <3>3 DEF irq_wake_one, interrupts_enabled
      <4> QED
        BY <2>2, <4>1, OneOrAll, TimedWake
    <3>4. ASSUME NEW t \in Threads, timer_tick(c, t) PROVE TimedInv'
      <4> DEFINE kind == IF state[t] = "SLEEPING" THEN "sleep" ELSE "timeout"
      <4>1. /\ UNCHANGED <<frame, timed, block_ret, thread_lock, state>>
            /\ timer[t] = c /\ timer' = [timer EXCEPT ![t] = NoCpu]
            /\ callback' = [callback EXCEPT ![c] = <<kind, t>>] /\ thread_lock # c
        BY <3>4 DEF timer_tick, interrupts_enabled, runvars
      <4>2. thread_lock = NoCpu /\ c # NoCpu /\ \A d \in CPUs : d = c
        BY <4>1, SchedAssumption DEF TimedInv, OneCpu
      <4>3. callback'[c] = <<kind, t>>
        BY <4>1 DEF SchedInv, OtherTypes
      <4>4. kind = "timeout" => frame[t] # NoQueue /\ t \in timed
        BY <4>1, <4>2 DEF TimedInv
      <4> HIDE DEF kind
      <4>5. \A x \in Threads : callback'[c] = <<"timeout", x>> => kind = "timeout" /\ x = t
        BY <4>3
      <4>6. \A x \in Threads : timer'[x] # NoCpu => timer[x] # NoCpu
        BY <4>1 DEF SchedInv, OtherTypes
      <4> QED
        BY <4>1, <4>2, <4>4, <4>5, <4>6 DEF TimedInv, OnlyTimedWaitsTimeOut
    <3>5. ASSUME NEW t \in Threads, wait_queue_timeout_handler(c, t) PROVE TimedInv'
      <4>1. /\ UNCHANGED <<frame, timed, timer, thread_lock>>
            /\ callback[c] = <<"timeout", t>> /\ callback' = [callback EXCEPT ![c] = NoCallback]
            /\ \/ UNCHANGED <<state, block_ret>>
               \/ /\ state[t] = "BLOCKED" /\ state' = [state EXCEPT ![t] = "READY"]
                  /\ block_ret' = [block_ret EXCEPT ![t] = "ERR_TIMED_OUT"]
        BY <3>5 DEF wait_queue_timeout_handler, thread_unblock_from_wait_queue, no_resched, runvars
      <4>2. \A d \in CPUs : callback'[d] = IF d = c THEN NoCallback ELSE callback[d]
        BY <4>1 DEF SchedInv, OtherTypes
      <4>3. \A x \in Threads : state[x] = "SLEEPING" => state'[x] = "SLEEPING"
        BY <1>0, <4>1
      <4>4. \A x \in Threads : x # t => block_ret'[x] = block_ret[x]
        BY <4>1 DEF RetType
      <4>5. t \in timed /\ \A x : <<"timeout", x>> # NoCallback
        BY <4>1 DEF TimedInv, NoCallback
      <4>6. OnlyTimedWaitsTimeOut'
        BY <4>1, <4>4, <4>5 DEF TimedInv, OnlyTimedWaitsTimeOut
      <4>7. \A x \in Threads :
              timer'[x] # NoCpu => state'[x] = "SLEEPING" \/ (frame'[x] # NoQueue /\ x \in timed')
        BY <4>1, <4>3 DEF TimedInv
      <4>8. /\ \A d \in CPUs, x \in Threads :
                 callback'[d] = <<"timeout", x>> => frame'[x] # NoQueue /\ x \in timed'
            /\ \A d \in CPUs : callback'[d] # NoCallback => thread_lock' = NoCpu
            /\ thread_lock' \in CPUs \cup {NoCpu}
        BY <4>1, <4>2, <4>5 DEF TimedInv
      <4> QED
        BY <4>6, <4>7, <4>8 DEF TimedInv
    <3>6. ASSUME NEW t \in Threads, thread_sleep_handler(c, t) PROVE TimedInv'
      <4>1. /\ UNCHANGED <<frame, timed, timer, thread_lock, block_ret>>
            /\ callback[c] = <<"sleep", t>> /\ callback' = [callback EXCEPT ![c] = NoCallback]
            /\ state' = [state EXCEPT ![t] = "READY"]
        BY <3>6 DEF thread_sleep_handler, no_resched, waitvars
      <4>2. \A d \in CPUs : callback'[d] = IF d = c THEN NoCallback ELSE callback[d]
        BY <4>1 DEF SchedInv, OtherTypes
      <4>3. timer[t] = NoCpu
        BY <4>1 DEF SchedInv, Sleeping
      <4>4. \A x \in Threads : x # t => state'[x] = state[x]
        BY <1>0, <4>1
      <4>5. \A x : <<"timeout", x>> # NoCallback
        BY DEF NoCallback
      <4> QED
        BY <4>1, <4>2, <4>3, <4>4, <4>5 DEF TimedInv, OnlyTimedWaitsTimeOut
    <3>7. ASSUME thread_preempt(c) PROVE TimedInv'
      <4>1. /\ UNCHANGED <<frame, timed, timer, block_ret, callback>> /\ thread_lock' = c
            /\ callback[c] = NoCallback
        BY <3>7, ReschedLocks DEF thread_preempt, interrupts_enabled, waitvars
      <4>2. Switched(c, "READY", {})
        BY <2>2, <3>7, PreemptStep
      <4> QED
        BY <4>1, <4>2, TimedSwitch
    <3> QED
      BY <2>6, <3>1, <3>2, <3>3, <3>4, <3>5, <3>6, <3>7 DEF interrupt
  <2> QED
    BY <2>1, <2>3, <2>4, <2>5, <2>6
<1> QED
  BY <1>1, <1>2

(***************************************************************************)
(* On one CPU a wait with INFINITE_TIME never returns ERR_TIMED_OUT.  On   *)
(* two it may: the handler of an earlier wait's timer can be late.         *)
(***************************************************************************)
THEOREM SchedTimeouts ==
  ASSUME OneCpu
  PROVE  Spec /\ []JoinerFindsThread => []OnlyTimedWaitsTimeOut
<1>1. Init => CallInv /\ RetType /\ TimedInv
  <2>1. Init => CallInv /\ RetType
    BY JoinInit DEF JoinIInv
  <2>2. Init => TimedInv
    BY DEF Init, TimedInv, OnlyTimedWaitsTimeOut, NoCallback
  <2> QED
    BY <2>1, <2>2
<1>2. SchedInv /\ CallInv /\ RetType /\ JoinerFindsThread /\ TimedInv
        /\ [Next]_<<vars, startvars, use, pinned_cpu>> => CallInv' /\ RetType' /\ TimedInv'
  BY CallNext, RetNext, TimedNext
<1>3. TimedInv => OnlyTimedWaitsTimeOut
  BY DEF TimedInv
<1> QED
  BY <1>1, <1>2, <1>3, SchedInvariance, PTL DEF Spec

-------------------------------------------------------------------------------
(***************************************************************************)
(* No CPU is idle next to a ready thread.  An idle CPU is never marked     *)
(* real time, so mp_reschedule interrupts it; in between nothing becomes   *)
(* ready but the thread that gives way, which its CPU takes up again.      *)
(***************************************************************************)
MpInv ==
  /\ realtime \subseteq Threads /\ DOMAIN pinned_cpu = Threads /\ DOMAIN resched = CPUs
  /\ \A c \in CPUs : current[c] = c => c \notin realtime_cpus

Anywhere == Sleepers = {} /\ Range(pinned_cpu) = {NoCpu}

WorkInv ==
  Anywhere =>
    /\ \A t \in Threads : state[t] # "SLEEPING"
    /\ \A c \in active_cpus \ starting :
         current[c] = c /\ ~resched[c] /\ c \notin ipi => \A t \in Threads : state[t] # "READY"

LEMMA Raised ==
  ASSUME DOMAIN resched = CPUs, NEW c \in CPUs, NEW v, resched' = [resched EXCEPT ![c] = v]
  PROVE  /\ DOMAIN resched' = CPUs /\ resched'[c] = v
         /\ \A d \in CPUs : d # c => resched'[d] = resched[d]
OBVIOUS

LEMMA MpSwitch ==
  ASSUME SchedInv, Fixed, MpInv, NEW c \in CPUs, NEW rq, NEW st, NEW qt,
         thread_resched(c, rq, st, qt), realtime' = realtime, DOMAIN resched' = CPUs
  PROVE  MpInv'
<1> DEFINE new == get_top_thread(c, rq).thread
<1>1. CpuType /\ c \notin Threads
  BY SchedAssumption DEF SchedInv
<1>2. CASE new = current[c]
  <2>1. UNCHANGED <<current, realtime_cpus>>
    BY <1>2 DEF thread_resched
  <2> QED
    BY <2>1 DEF MpInv, Fixed
<1>3. CASE new # current[c]
  <2>1. /\ current' = [current EXCEPT ![c] = new]
        /\ realtime_cpus' = SetBit(realtime_cpus, c, thread_is_realtime(new))
    BY <1>3 DEF thread_resched
  <2> HIDE DEF new
  <2>2. \A d \in CPUs : current'[d] = IF d = c THEN new ELSE current[d]
    BY <1>1, <2>1 DEF CpuType
  <2>3. new = c => c \notin realtime_cpus'
    BY <1>1, <2>1 DEF MpInv, thread_is_realtime, SetBit
  <2>4. \A d \in CPUs : d # c /\ d \in realtime_cpus' => d \in realtime_cpus
    BY <2>1 DEF SetBit
  <2> QED
    BY <2>2, <2>3, <2>4 DEF MpInv, Fixed
<1> QED
  BY <1>2, <1>3

LEMMA MpKept ==
  ASSUME MpInv, Fixed, UNCHANGED <<current, realtime_cpus>>, realtime' \subseteq Threads,
         DOMAIN resched' = CPUs
  PROVE  MpInv'
BY DEF MpInv, Fixed

LEMMA MpNext ==
  ASSUME SchedInv, MpInv, [Next]_<<vars, startvars, use, pinned_cpu>>
  PROVE  MpInv'
<1>0. /\ DOMAIN resched = CPUs /\ realtime \subseteq Threads
      /\ Created \subseteq Threads /\ RealTimers \subseteq Threads
  BY SchedAssumption DEF MpInv, SchedInv, OtherTypes, Created, RealTimers
<1>1. CASE UNCHANGED <<vars, startvars, use, pinned_cpu>>
  BY <1>0, <1>1, MpKept DEF vars, lifevars, runvars, irqvars, Fixed
<1>2. CASE Next
  <2>1. PICK c \in CPUs : boot_step(c) \/ thread_resched_return(c)
                            \/ thread_step(c) \/ interrupt(c)
    BY <1>2 DEF Next
  <2>2. Fixed
    BY <1>2 DEF Next, Fixed
  <2>3. CASE boot_step(c) \/ thread_resched_return(c)
    <3>1. /\ UNCHANGED <<current, realtime_cpus, realtime>>
          /\ resched' = resched \/ resched' = [resched EXCEPT ![c] = TRUE]
      BY <2>3, BootKeeps DEF thread_resched_return, lifevars, irqvars
    <3> QED
      BY <1>0, <2>2, <3>1, Raised, MpKept
  <2>4. CASE thread_step(c)
    <3>1. ASSUME NEW t \in Threads,
                 \/ thread_create(c, t) \/ thread_set_real_time(c, t) \/ thread_resume(c, t)
                 \/ thread_join_dead(c, t) \/ thread_detach(c, t)
          PROVE  MpInv'
      <4>1. /\ UNCHANGED <<current, realtime_cpus, resched>> /\ realtime' \subseteq Threads
        BY <1>0, <3>1 DEF thread_create, thread_set_real_time, thread_resume, thread_join_dead,
                          thread_detach, no_resched, irqvars
      <4> QED
        BY <1>0, <2>2, <4>1, MpKept
    <3>2. ASSUME NEW t, NEW q, NEW timeout, NEW p,
                 \/ thread_join_wait(c, t, timeout) \/ thread_exit(c) \/ thread_yield(c)
                 \/ thread_set_priority(c, p) \/ thread_sleep(c) \/ wait_queue_block(c, q, timeout)
          PROVE  MpInv'
      <4>1. /\ UNCHANGED <<realtime, resched>> /\ \E rq, st, qt : thread_resched(c, rq, st, qt)
        BY <3>2 DEF thread_join_wait, thread_exit, thread_yield, thread_set_priority, thread_sleep,
                    wait_queue_block, block, lifevars, irqvars
      <4> QED
        BY <1>0, <2>2, <4>1, MpSwitch
    <3>3. ASSUME NEW q, NEW reschedule, NEW err,
                 wait_queue_wake_one(c, q, reschedule) \/ wait_queue_wake_all(c, q, reschedule, err)
          PROVE  MpInv'
      <4>1. resched' = resched /\ \E n, e : wake(c, q, n, reschedule, e)
        BY <3>3 DEF wait_queue_wake_one, wait_queue_wake_all, irqvars
      <4>2. realtime' = realtime /\ \/ \E rq, st, qt : thread_resched(c, rq, st, qt)
                                    \/ UNCHANGED <<current, realtime_cpus>>
        BY <4>1 DEF wake, no_resched, lifevars
      <4> QED
        BY <1>0, <2>2, <4>1, <4>2, MpSwitch, MpKept
    <3> QED
      BY <1>0, <2>4, <3>1, <3>2, <3>3 DEF thread_step
  <2>5. CASE interrupt(c)
    <3>1. ASSUME NEW t, NEW q,
                 \/ mp_mbx_reschedule_irq(c) \/ thread_timer_tick(c) \/ irq_wake_one(c, q)
                 \/ timer_tick(c, t) \/ wait_queue_timeout_handler(c, t)
                 \/ thread_sleep_handler(c, t)
          PROVE  MpInv'
      <4>1. UNCHANGED <<current, realtime_cpus, realtime>>
        BY <3>1 DEF mp_mbx_reschedule_irq, thread_timer_tick, irq_wake_one, wake, timer_tick,
                    wait_queue_timeout_handler, thread_unblock_from_wait_queue,
                    thread_sleep_handler, no_resched, lifevars, runvars
      <4>2. resched' = resched \/ \E v : resched' = [resched EXCEPT ![c] = v]
        BY <3>1 DEF mp_mbx_reschedule_irq, thread_timer_tick, irq_wake_one, timer_tick,
                    wait_queue_timeout_handler, thread_unblock_from_wait_queue,
                    thread_sleep_handler
      <4> QED
        BY <1>0, <2>2, <4>1, <4>2, Raised, MpKept
    <3>2. ASSUME thread_preempt(c) PROVE MpInv'
      <4>1. /\ realtime' = realtime /\ resched' = [resched EXCEPT ![c] = FALSE]
            /\ \E rq, st, qt : thread_resched(c, rq, st, qt)
        BY <3>2 DEF thread_preempt, lifevars
      <4> QED
        BY <1>0, <2>2, <4>1, Raised, MpSwitch
    <3> QED
      BY <2>5, <3>1, <3>2 DEF interrupt
  <2> QED
    BY <2>1, <2>3, <2>4, <2>5
<1> QED
  BY <1>1, <1>2

\* A step in which nothing becomes ready.
LEMMA WorkKept ==
  ASSUME WorkInv, Fixed,
         \A t \in Threads : /\ state'[t] = "READY" => state[t] = "READY"
                            /\ state'[t] = "SLEEPING" => state[t] = "SLEEPING",
         \A c \in active_cpus' \ starting' :
           \/ resched'[c]
           \/ /\ c \in active_cpus \ starting /\ current[c] = current'[c]
              /\ resched[c] \/ c \in ipi => resched'[c] \/ c \in ipi'
  PROVE  WorkInv'
<1>1. Anywhere' => Anywhere
  BY DEF Anywhere, Sleepers, Fixed
<1> QED
  BY <1>1 DEF WorkInv

\* A step in which c switches and nobody is woken.
LEMMA WorkSwitch ==
  ASSUME SchedInv, MpInv, WorkInv, Fixed, NEW c \in active_cpus, NEW x, Switched(c, x, {}),
         x # "SLEEPING" \/ Sleepers # {}, UNCHANGED <<active_cpus, starting, ipi>>,
         \A d \in active_cpus : d # c => resched'[d] = resched[d]
  PROVE  WorkInv'
<1> SUFFICES ASSUME Anywhere'
             PROVE  /\ \A t \in Threads : state'[t] # "SLEEPING"
                    /\ \A d \in active_cpus' \ starting' :
                         current'[d] = d /\ ~resched'[d] /\ d \notin ipi'
                           => \A t \in Threads : state'[t] # "READY"
  BY DEF WorkInv
<1>1. Anywhere /\ active_cpus \subseteq CPUs
  BY DEF Anywhere, Sleepers, Fixed, SchedInv, CpuType
<1>2. \A t \in Threads : pinned_cpu[t] = NoCpu
  BY <1>1 DEF Anywhere, MpInv, Range
<1>3. \A t \in Threads : state'[t] # "SLEEPING"
  BY <1>1 DEF Switched, WorkInv, Anywhere
<1>4. current'[c] = c => \A t \in Threads : state'[t] # "READY"
  BY <1>2 DEF Switched
<1>5. ASSUME NEW d \in active_cpus \ starting, d # c, current'[d] = d, ~resched'[d], d \notin ipi'
      PROVE  \A t \in Threads : state'[t] # "READY"
  <2>1. current[d] = d /\ ~resched[d] /\ d \notin ipi
    BY <1>1, <1>5 DEF Switched
  <2>2. \A t \in Threads : state[t] # "READY"
    BY <1>1, <2>1 DEF WorkInv
  <2>3. \A t \in Threads : state'[t] = "READY" => t = current[c] /\ current'[c] # t
    BY <2>2 DEF Switched
  <2>4. \A t \in Threads : current'[c] = t => t = current[c]
    BY <2>2 DEF Switched
  <2> QED
    BY <1>4, <2>3, <2>4 DEF Switched
<1> QED
  BY <1>3, <1>4, <1>5

\* A step that tells the other CPUs.
LEMMA WorkTold ==
  ASSUME SchedInv, MpInv, WorkInv, Fixed, NEW c \in CPUs, mp_reschedule(c),
         UNCHANGED <<active_cpus, starting>>,
         \A d \in CPUs : d # c => current'[d] = current[d],
         \A t \in Threads : state'[t] = "SLEEPING" => state[t] = "SLEEPING",
         current'[c] = c /\ ~resched'[c] =>
           \A t \in Threads : state'[t] = "READY" => pinned_cpu[t] # NoCpu
  PROVE  WorkInv'
<1> SUFFICES ASSUME Anywhere'
             PROVE  /\ \A t \in Threads : state'[t] # "SLEEPING"
                    /\ \A d \in active_cpus' \ starting' :
                         current'[d] = d /\ ~resched'[d] /\ d \notin ipi'
                           => \A t \in Threads : state'[t] # "READY"
  BY DEF WorkInv
<1>1. Anywhere /\ active_cpus \subseteq CPUs
  BY DEF Anywhere, Sleepers, Fixed, SchedInv, CpuType
<1>2. \A t \in Threads : pinned_cpu[t] = NoCpu
  BY <1>1 DEF Anywhere, MpInv, Range
<1>3. \A d \in active_cpus : d # c /\ current'[d] = d => d \in ipi'
  BY <1>1 DEF mp_reschedule, MpInv
<1> QED
  BY <1>1, <1>2, <1>3 DEF WorkInv

LEMMA WorkWake ==
  ASSUME SchedInv, MpInv, WorkInv, Fixed, NEW c \in active_cpus, NEW q \in Queues, list[q] # <<>>,
         NEW n \in 0 .. Len(list[q]), NEW reschedule \in BOOLEAN, NEW err,
         wake(c, q, n, reschedule, err), callback' = callback, starting' = starting,
         reschedule => current[c] \in Threads,
         current[c] \in Threads \/ resched'[c]
  PROVE  WorkInv'
<1> DEFINE W == Range(SubSeq(list[q], 1, n))
<1>1. c \in CPUs /\ c \notin Threads /\ UNCHANGED active_cpus /\ mp_reschedule(c)
  BY SchedAssumption DEF SchedInv, CpuType, wake
<1>2. q \in WaitQueues
  BY DEF WaitQueues
<1>3. CASE reschedule
  <2>1. PICK V \in SUBSET Range(list[q]) : Switched(c, "READY", V)
    BY <1>2, <1>3, WakeStep
  <2>2. /\ \A d \in CPUs : d # c => current'[d] = current[d]
        /\ \A t \in Threads : state'[t] = "SLEEPING" => state[t] = "SLEEPING"
        /\ current'[c] = c => \A t \in Threads : state'[t] = "READY" => pinned_cpu[t] # NoCpu
    BY <2>1 DEF Switched
  <2> QED
    BY <1>1, <2>2, WorkTold
<1>4. CASE ~reschedule
  <2>1. state' = Readied(state, W) /\ current' = current
    BY <1>4 DEF wake, no_resched
  <2>2. \A t \in Threads : state'[t] = IF t \in W THEN "READY" ELSE state[t]
    BY <2>1 DEF Readied
  <2> HIDE DEF W
  <2> QED
    BY <1>1, <2>1, <2>2, WorkTold
<1> QED
  BY <1>3, <1>4

LEMMA WorkExit ==
  ASSUME SchedInv, MpInv, WorkInv, Fixed, starting' = starting, NEW c \in CPUs, thread_exit(c)
  PROVE  WorkInv'
<1>1. /\ c \in active_cpus /\ current[c] \in Threads /\ UNCHANGED <<active_cpus, resched>>
  BY CallerHolds DEF thread_exit, calls, irqvars
<1>2. CASE current[c] \in detached
  <2>1. Switched(c, "NONE", {}) /\ ipi' = ipi
    BY <1>2, ExitStep DEF thread_exit
  <2> QED
    BY <1>1, <2>1, WorkSwitch
<1>3. CASE current[c] \notin detached
  <2> DEFINE W == Range(list[current[c]])
  <2>1. Switched(c, "DEATH", W)
    BY <1>3, ExitStep
  <2>2. CASE list[current[c]] = <<>>
    <3>1. W = {} /\ ipi' = ipi
      BY <1>3, <2>2, EmptyList DEF thread_exit, mp_reschedule_if_woken
    <3> QED
      BY <1>1, <2>1, <3>1, WorkSwitch
  <2>3. CASE list[current[c]] # <<>>
    <3>1. mp_reschedule(c)
      BY <1>3, <2>3 DEF thread_exit, mp_reschedule_if_woken
    <3> HIDE DEF W
    <3>2. /\ \A d \in CPUs : d # c => current'[d] = current[d]
          /\ \A t \in Threads : state'[t] = "SLEEPING" => state[t] = "SLEEPING"
          /\ current'[c] = c => \A t \in Threads : state'[t] = "READY" => pinned_cpu[t] # NoCpu
      BY <2>1 DEF Switched
    <3> QED
      BY <1>1, <3>1, <3>2, WorkTold
  <2> QED
    BY <2>2, <2>3
<1> QED
  BY <1>2, <1>3

LEMMA WorkDetach ==
  ASSUME SchedInv, MpInv, WorkInv, Fixed, starting' = starting, NEW c \in CPUs,
         NEW t \in Threads, thread_detach(c, t)
  PROVE  WorkInv'
<1>1. /\ c \notin Threads /\ current[c] \in Threads /\ UNCHANGED <<current, active_cpus, resched>>
      /\ \A x \in Threads : state'[x] = IF x \in Range(list[t]) THEN "READY" ELSE state[x]
  BY CallerHolds, SchedAssumption DEF thread_detach, calls, no_resched, Readied, irqvars
<1>2. CASE list[t] = <<>>
  <2>1. Range(list[t]) = {} /\ ipi' = ipi
    BY <1>2, EmptyList DEF thread_detach, mp_reschedule_if_woken
  <2> QED
    BY <1>1, <2>1, WorkKept
<1>3. CASE list[t] # <<>>
  <2>1. mp_reschedule(c)
    BY <1>3 DEF thread_detach, mp_reschedule_if_woken
  <2> QED
    BY <1>1, <2>1, WorkTold
<1> QED
  BY <1>2, <1>3

LEMMA WorkSched ==
  ASSUME SchedInv, JoinerFindsThread, MpInv, WorkInv, Fixed, starting' = starting, NEW c \in CPUs,
         thread_resched_return(c) \/ thread_step(c) \/ interrupt(c)
  PROVE  WorkInv'
<1>0. /\ state \in [Threads -> States] /\ DOMAIN resched = CPUs /\ active_cpus \subseteq CPUs
      /\ \A d \in CPUs : d \notin Threads
  BY SchedAssumption DEF SchedInv, Ready, CpuType, MpInv
<1>1. CASE thread_resched_return(c)
  <2>1. /\ UNCHANGED <<current, ipi, active_cpus, resched>>
        /\ state' = state \/ \E t \in Threads : state' = [state EXCEPT ![t] = "NONE"]
    BY <1>1 DEF thread_resched_return, irqvars
  <2> QED
    BY <1>0, <2>1, WorkKept
<1>2. CASE thread_step(c)
  <2>1. ASSUME NEW t \in Threads, thread_create(c, t) PROVE WorkInv'
    <3>1. /\ UNCHANGED <<current, ipi, active_cpus, resched>>
          /\ state' = [state EXCEPT ![t] = "SUSPENDED"]
      BY <2>1 DEF thread_create, irqvars
    <3> QED
      BY <1>0, <3>1, WorkKept
  <2>2. ASSUME NEW t \in Threads, thread_resume(c, t) PROVE WorkInv'
    <3>1. /\ UNCHANGED <<current, active_cpus>> /\ mp_reschedule(c) /\ current[c] \in Threads
          /\ state' = [state EXCEPT ![t] = "READY"]
      BY <2>2 DEF thread_resume, no_resched, calls, runs
    <3> QED
      BY <1>0, <3>1, WorkTold
  <2>3. ASSUME NEW t \in RealTimers, thread_set_real_time(c, t) PROVE WorkInv'
    BY <2>3, WorkKept DEF thread_set_real_time, irqvars
  <2>4. ASSUME NEW t \in Threads, NEW timeout, thread_join_wait(c, t, timeout) PROVE WorkInv'
    <3>1. c \in active_cpus /\ UNCHANGED <<active_cpus, ipi, resched>>
      BY <2>4, CallerHolds DEF thread_join_wait, calls, irqvars
    <3>2. Switched(c, "BLOCKED", {})
      BY <2>4, JoinWaitStep
    <3> QED
      BY <3>1, <3>2, WorkSwitch
  <2>5. ASSUME NEW t \in Threads, thread_join_dead(c, t) PROVE WorkInv'
    <3>1. /\ UNCHANGED <<current, ipi, active_cpus, resched>>
          /\ state' = [state EXCEPT ![t] = "NONE"]
      BY <2>5 DEF thread_join_dead, no_resched, irqvars
    <3> QED
      BY <1>0, <3>1, WorkKept
  <2>6. ASSUME NEW t \in Threads, thread_detach(c, t) PROVE WorkInv'
    BY <2>6, WorkDetach
  <2>7. ASSUME thread_exit(c) PROVE WorkInv'
    BY <2>7, WorkExit
  <2>8. ASSUME thread_yield(c) PROVE WorkInv'
    <3>1. c \in active_cpus /\ UNCHANGED <<active_cpus, ipi, resched>>
      BY <2>8, CallerHolds DEF thread_yield, irqvars
    <3>2. Switched(c, "READY", {})
      BY <2>8, YieldStep
    <3> QED
      BY <3>1, <3>2, WorkSwitch
  <2>9. ASSUME NEW p \in PriorityArgs, thread_set_priority(c, p) PROVE WorkInv'
    <3>1. c \in active_cpus /\ UNCHANGED <<active_cpus, ipi, resched>>
      BY <2>9, CallerHolds DEF thread_set_priority, calls, irqvars
    <3>2. Switched(c, "READY", {})
      BY <2>9, SetPriorityStep
    <3> QED
      BY <3>1, <3>2, WorkSwitch
  <2>10. ASSUME current[c] \in Sleepers, thread_sleep(c) PROVE WorkInv'
    <3>1. c \in active_cpus /\ UNCHANGED <<active_cpus, ipi, resched>>
      BY <2>10, CallerHolds DEF thread_sleep, calls, irqvars
    <3>2. Switched(c, "SLEEPING", {}) /\ Sleepers # {}
      BY <2>10, SleepStep
    <3> QED
      BY <3>1, <3>2, WorkSwitch
  <2>11. ASSUME NEW q \in Queues, NEW timeout, wait_queue_block(c, q, timeout) PROVE WorkInv'
    <3>1. c \in active_cpus /\ UNCHANGED <<active_cpus, ipi, resched>>
      BY <2>11, CallerHolds DEF wait_queue_block, calls, irqvars
    <3>2. Switched(c, "BLOCKED", {})
      BY <2>11, WaitStep
    <3> QED
      BY <3>1, <3>2, WorkSwitch
  <2>12. ASSUME NEW q \in Queues, NEW reschedule \in BOOLEAN,
                wait_queue_wake_one(c, q, reschedule)
         PROVE  WorkInv'
    <3>1. runs(c) /\ list[q] # <<>> /\ wake(c, q, 1, reschedule, "NO_ERROR") /\ callback' = callback
      BY <2>12 DEF wait_queue_wake_one, calls, irqvars
    <3> QED
      BY <3>1, CallerHolds, OneOrAll, WorkWake
  <2>13. ASSUME NEW q \in Queues, NEW reschedule \in BOOLEAN, NEW err,
                wait_queue_wake_all(c, q, reschedule, err)
         PROVE  WorkInv'
    <3>1. runs(c) /\ list[q] # <<>> /\ wake(c, q, Len(list[q]), reschedule, err)
          /\ callback' = callback
      BY <2>13 DEF wait_queue_wake_all, calls, irqvars
    <3> QED
      BY <3>1, CallerHolds, OneOrAll, WorkWake
  <2>14. Created \subseteq Threads
    BY SchedAssumption DEF SchedInv, OtherTypes, Created
  <2> QED
    BY <1>2, <2>1, <2>2, <2>3, <2>4, <2>5, <2>6, <2>7, <2>8, <2>9, <2>10, <2>11, <2>12, <2>13,
       <2>14 DEF thread_step
<1>3. CASE interrupt(c)
  <2>1. ASSUME mp_mbx_reschedule_irq(c) PROVE WorkInv'
    <3>1. /\ UNCHANGED <<state, current, active_cpus>> /\ ipi' = ipi \ {c}
          /\ resched' = [resched EXCEPT ![c] = TRUE]
      BY <2>1 DEF mp_mbx_reschedule_irq, runvars
    <3>2. resched'[c] /\ \A d \in CPUs : d # c => resched'[d] = resched[d]
      BY <1>0, <3>1, Raised
    <3> QED
      BY <1>0, <3>1, <3>2, WorkKept
  <2>2. ASSUME thread_timer_tick(c) PROVE WorkInv'
    <3> DEFINE due == quantum'[current[c]] <= 0
    <3>1. /\ UNCHANGED <<state, current, active_cpus, ipi>>
          /\ resched' = [resched EXCEPT ![c] = resched[c] \/ due]
      BY <2>2 DEF thread_timer_tick
    <3> HIDE DEF due
    <3>2. /\ resched'[c] = (resched[c] \/ due)
          /\ \A d \in CPUs : d # c => resched'[d] = resched[d]
      BY <1>0, <3>1, Raised
    <3> QED
      BY <1>0, <3>1, <3>2, WorkKept
  <2>3. ASSUME NEW q \in Queues, irq_wake_one(c, q) PROVE WorkInv'
    <3>1. /\ list[q] # <<>> /\ wake(c, q, 1, FALSE, "NO_ERROR") /\ callback' = callback
          /\ c \in active_cpus /\ resched' = [resched EXCEPT ![c] = TRUE]
      BY <2>3 DEF irq_wake_one, interrupts_enabled
    <3>2. resched'[c]
      BY <1>0, <3>1, Raised
    <3> QED
      BY <3>1, <3>2, OneOrAll, WorkWake
  <2>4. ASSUME NEW t \in Threads, timer_tick(c, t) PROVE WorkInv'
    BY <2>4, WorkKept DEF timer_tick, runvars
  <2>5. ASSUME NEW t \in Threads, wait_queue_timeout_handler(c, t) PROVE WorkInv'
    <3>1. CASE state[t] = "BLOCKED"
      <4>1. /\ UNCHANGED <<current, active_cpus>> /\ mp_reschedule(c)
            /\ resched' = [resched EXCEPT ![c] = TRUE] /\ state' = [state EXCEPT ![t] = "READY"]
        BY <2>5, <3>1 DEF wait_queue_timeout_handler, thread_unblock_from_wait_queue, no_resched
      <4>2. resched'[c]
        BY <1>0, <4>1, Raised
      <4> QED
        BY <1>0, <4>1, <4>2, WorkTold
    <3>2. CASE state[t] # "BLOCKED"
      <4>1. UNCHANGED <<current, active_cpus, resched, ipi, state>>
        BY <2>5, <3>2 DEF wait_queue_timeout_handler, thread_unblock_from_wait_queue, runvars
      <4> QED
        BY <4>1, WorkKept
    <3> QED
      BY <3>1, <3>2
  <2>6. ASSUME NEW t \in Threads, thread_sleep_handler(c, t) PROVE WorkInv'
    <3>1. state[t] = "SLEEPING"
      BY <2>6 DEF thread_sleep_handler, SchedInv, Sleeping
    <3>2. ~Anywhere
      BY <3>1 DEF WorkInv
    <3>3. ~Anywhere'
      BY <3>2 DEF Anywhere, Sleepers, Fixed
    <3> QED
      BY <3>3 DEF WorkInv
  <2>7. ASSUME thread_preempt(c) PROVE WorkInv'
    <3>1. /\ c \in active_cpus /\ UNCHANGED <<active_cpus, ipi>>
          /\ resched' = [resched EXCEPT ![c] = FALSE]
      BY <2>7 DEF thread_preempt, interrupts_enabled
    <3>2. \A d \in CPUs : d # c => resched'[d] = resched[d]
      BY <1>0, <3>1, Raised
    <3>3. Switched(c, "READY", {})
      BY <2>7, PreemptStep
    <3> QED
      BY <1>0, <3>1, <3>2, <3>3, WorkSwitch
  <2> QED
    BY <1>3, <2>1, <2>2, <2>3, <2>4, <2>5, <2>6, <2>7 DEF interrupt
<1> QED
  BY <1>1, <1>2, <1>3

\* A CPU that starts looks at the run queues before it counts.
LEMMA WorkBoot ==
  ASSUME SchedInv, MpInv, WorkInv, Fixed, NEW c \in CPUs, boot_step(c)
  PROVE  WorkInv'
<1>1. UNCHANGED <<state, current, ipi>> /\ DOMAIN resched = CPUs
  BY BootKeeps DEF MpInv
<1>2. CASE UNCHANGED <<active_cpus, starting, resched>>
  BY <1>1, <1>2, WorkKept
<1>3. CASE mp_set_curr_cpu_active(c)
  <2>1. /\ active_cpus' \ starting' \subseteq active_cpus \ starting /\ resched' = resched
    BY <1>3 DEF mp_set_curr_cpu_active, irqvars
  <2> QED
    BY <1>1, <2>1, WorkKept
<1>4. CASE mp_set_cpu_idle_store(c)
  <2>1. /\ active_cpus' = active_cpus /\ starting' = starting \ {c}
        /\ resched' = [resched EXCEPT ![c] = TRUE] /\ active_cpus \subseteq CPUs
    BY <1>4 DEF mp_set_cpu_idle_store, SchedInv, CpuType
  <2>2. resched'[c] /\ \A d \in CPUs : d # c => resched'[d] = resched[d]
    BY <1>1, <2>1, Raised
  <2> QED
    BY <1>1, <2>1, <2>2, WorkKept
<1> QED
  BY <1>2, <1>3, <1>4 DEF boot_step, arch_init, thread_become_idle, mp_set_cpu_idle_load, vars, irqvars

LEMMA WorkNext ==
  ASSUME SchedInv, JoinerFindsThread, MpInv, WorkInv, [Next]_<<vars, startvars, use, pinned_cpu>>
  PROVE  WorkInv'
<1>1. CASE UNCHANGED <<vars, startvars, use, pinned_cpu>>
  BY <1>1, WorkKept DEF vars, startvars, irqvars, runvars, Fixed
<1>2. CASE Next
  BY <1>2, WorkSched, WorkBoot DEF Next, Fixed, scheduling_beside_start
<1> QED
  BY <1>1, <1>2

(***************************************************************************)
(* On any number of CPUs, an idle CPU next to a thread that is ready and   *)
(* may run on it has been told, or is about to look, as long as threads    *)
(* may run anywhere and do not sleep.                                      *)
(***************************************************************************)
THEOREM SchedWorkConserving == Spec /\ []JoinerFindsThread => []WorkConserving
<1>1. Init => MpInv /\ WorkInv
  <2> SUFFICES ASSUME Init PROVE MpInv /\ WorkInv
    OBVIOUS
  <2>1. DOMAIN pinned_cpu = Threads
    BY SchedAssumption DEF Init
  <2>2. MpInv
    BY <2>1 DEF Init, MpInv
  <2>3. WorkInv
    BY DEF Init, WorkInv
  <2> QED
    BY <2>2, <2>3
<1>2. SchedInv /\ JoinerFindsThread /\ MpInv /\ WorkInv /\ [Next]_<<vars, startvars, use, pinned_cpu>>
        => MpInv' /\ WorkInv'
  BY MpNext, WorkNext
<1>3. SchedInv /\ WorkInv => WorkConserving
  <2> SUFFICES ASSUME SchedInv, WorkInv, Anywhere, NEW c \in active_cpus \ starting, current[c] = c,
                      ~resched[c], c \notin ipi, NEW p \in Priorities
               PROVE  Eligible(c, runq.list[p]) = {}
    BY DEF WorkConserving, Anywhere
  <2>1. \A t \in Threads : state[t] # "READY"
    BY DEF WorkInv
  <2>2. runq.list[p] \in Seq(Threads) /\ Range(runq.list[p]) = {}
    BY <2>1 DEF SchedInv, Ready, RunQueue, InRunQueue
  <2>3. runq.list[p] = <<>>
    BY <2>2, EmptyRange
  <2>4. Eligible(c, <<>>) = {}
    BY DEF Eligible
  <2> QED
    BY <2>3, <2>4
<1> QED
  BY <1>1, <1>2, <1>3, SchedInvariance, PTL DEF Spec

-------------------------------------------------------------------------------
(***************************************************************************)
(* The refinement of WaitQueue on one CPU.  What the wait queues see of    *)
(* return codes and timers:                                                *)
(***************************************************************************)
Ret == [t \in Threads |-> IF frame[t] = NoQueue THEN "NO_ERROR" ELSE block_ret[t]]

Armed == [t \in Threads |-> \/ (timer[t] # NoCpu /\ frame[t] # NoQueue)
                            \/ \E c \in CPUs : callback[c] = <<"timeout", t>>]

\* A timer is in its queue or its callback is under way, never both.
FiredOnce == \A c \in CPUs, t \in Threads : callback[c] = <<"timeout", t>> => timer[t] = NoCpu

RefInv == SchedInv /\ CallInv /\ RetType /\ TimedInv /\ FiredOnce

LEMMA QueuesStutter ==
  ASSUME UNCHANGED <<list, frame>>, Ret' = Ret, Armed' = Armed
  PROVE  UNCHANGED WQ!wqvars
BY DEF WQ!wqvars, Ret, Armed

\* A thread is blocked in its queue or has been woken, as its state says.
LEMMA QueuesAgree ==
  ASSUME SchedInv, NEW t \in Threads, frame[t] # NoQueue
  PROVE  /\ frame[t] \in WaitQueues
         /\ WQ!Blocked(t) <=> state[t] = "BLOCKED"
         /\ WQ!Woken(t) <=> state[t] # "BLOCKED"
<1>1. frame[t] \in WaitQueues
  BY DEF SchedInv, Waiting
<1>2. t \in Range(list[frame[t]]) <=> state[t] = "BLOCKED"
  BY <1>1 DEF SchedInv, Waiting
<1> QED
  BY <1>1, <1>2 DEF WQ!Blocked, WQ!Woken, WQ!Range, Range

LEMMA QueuesBlock ==
  ASSUME NEW t \in Threads, NEW q \in WaitQueues, NEW timed_wait \in BOOLEAN,
         frame[t] = NoQueue, list' = [list EXCEPT ![q] = Append(@, t)],
         frame' = [frame EXCEPT ![t] = q], Ret' = [Ret EXCEPT ![t] = "NO_ERROR"],
         Armed' = [Armed EXCEPT ![t] = timed_wait]
  PROVE  WQ!WQNext
<1> DEFINE timeout == IF timed_wait THEN "finite" ELSE "infinite"
<1>1. timeout \in WQ!AllTimeouts /\ timeout # "zero" /\ (timeout # "infinite") = timed_wait
  BY DEF WQ!AllTimeouts, WQ!FINITE_TIME, WQ!INFINITE_TIME
<1>2. WQ!wait_queue_block(t, q, timeout)
  BY <1>1 DEF WQ!wait_queue_block, WQ!ZERO_TIME, WQ!INFINITE_TIME, WQ!NO_ERROR, Ret, Armed
<1> QED
  BY <1>1, <1>2 DEF WQ!WQNext

LEMMA QueuesReturn ==
  ASSUME NEW t \in Threads, WQ!Woken(t), list' = list,
         frame' = [frame EXCEPT ![t] = NoQueue], Ret' = [Ret EXCEPT ![t] = "NO_ERROR"],
         Armed' = [Armed EXCEPT ![t] = FALSE]
  PROVE  WQ!WQNext
<1>1. WQ!wait_queue_return(t)
  BY DEF WQ!wait_queue_return, WQ!NO_ERROR, Ret, Armed
<1> QED
  BY <1>1 DEF WQ!WQNext

\* The library's operator, as instantiated with WaitQueue, is itself.
LEMMA SameRemoveFirst == \A s, e : WQ!RemoveFirst(s, e) = RemoveFirst(s, e)
<1>1. \A S : WQ!Min(S) = Min(S)
  BY DEF WQ!Min, Min
<1> QED
  BY <1>1 DEF WQ!RemoveFirst, WQ!RemoveAt, WQ!SelectInSeq, RemoveFirst, RemoveAt, SelectInSeq

LEMMA QueuesTimeout ==
  ASSUME NEW t \in Threads, Armed[t], Armed' = [Armed EXCEPT ![t] = FALSE], frame' = frame,
         IF WQ!Blocked(t)
           THEN /\ list' = [list EXCEPT ![frame[t]] = RemoveFirst(@, t)]
                /\ Ret' = [Ret EXCEPT ![t] = "ERR_TIMED_OUT"]
           ELSE list' = list /\ Ret' = Ret
  PROVE  WQ!WQNext
<1>1. WQ!wait_queue_timeout_handler(t)
  BY SameRemoveFirst DEF WQ!wait_queue_timeout_handler, WQ!thread_unblock_from_wait_queue,
                         WQ!ERR_TIMED_OUT, Ret, Armed
<1> QED
  BY <1>1 DEF WQ!WQNext

LEMMA QueuesWakeOne ==
  ASSUME NEW q \in WaitQueues, list[q] # <<>>, list' = [list EXCEPT ![q] = Tail(@)],
         frame' = frame, Ret' = [Ret EXCEPT ![Head(list[q])] = "NO_ERROR"], Armed' = Armed
  PROVE  WQ!WQNext
<1>1. WQ!wait_queue_wake_one(q, "NO_ERROR")
  BY DEF WQ!wait_queue_wake_one, Ret, Armed
<1> QED
  BY <1>1 DEF WQ!WQNext, WQ!NO_ERROR

LEMMA QueuesWakeAll ==
  ASSUME NEW q \in WaitQueues,
         NEW err \in {"NO_ERROR", "ERR_THREAD_DETACHED", "ERR_OBJECT_DESTROYED"},
         list' = [list EXCEPT ![q] = <<>>], frame' = frame,
         Ret' = [t \in Threads |-> IF t \in Range(list[q]) THEN err ELSE Ret[t]], Armed' = Armed
  PROVE  WQ!WQNext
<1>1. WQ!wait_queue_wake_all(q, err)
  BY DEF WQ!wait_queue_wake_all, WQ!Range, Range, Ret, Armed
<1> QED
  BY <1>1 DEF WQ!WQNext, WQ!wait_queue_destroy, WQ!NO_ERROR, WQ!ERR_THREAD_DETACHED,
              WQ!ERR_OBJECT_DESTROYED

\* What a step does that leaves the timers and their callbacks alone.
LEMMA ArmedKept ==
  ASSUME UNCHANGED <<frame, timer, callback>>
  PROVE  Armed' = Armed /\ (FiredOnce => FiredOnce')
BY DEF Armed, FiredOnce

LEMMA FiredKept ==
  ASSUME FiredOnce, \A t \in Threads : timer'[t] \in {timer[t], NoCpu},
         \A c \in CPUs, t \in Threads :
           callback'[c] = <<"timeout", t>> => callback[c] = <<"timeout", t>>
  PROVE  FiredOnce'
BY DEF FiredOnce

Refines == FiredOnce' /\ [WQ!WQNext]_(WQ!wqvars)

LEMMA RefQuiet ==
  ASSUME FiredOnce, UNCHANGED <<list, frame, block_ret, timer, callback>>
  PROVE  Refines
<1>1. Ret' = Ret
  BY DEF Ret
<1> QED
  BY <1>1, ArmedKept, QueuesStutter DEF Refines

LEMMA RefBlock ==
  ASSUME RefInv, OneCpu, NEW c \in CPUs, runs(c), NEW q \in WaitQueues, NEW timeout,
         block(c, q, timeout), callback' = callback
  PROVE  Refines
<1> DEFINE me == current[c]
           timed_wait == (timeout = "finite")
<1>1. me \in Threads /\ state[me] = "RUNNING" /\ frame[me] = NoQueue
  <2>1. me \in Threads /\ thread_lock = NoCpu
    BY DEF runs, lock_free
  <2>2. frame[me] = NoQueue
    BY <2>1, RunsOutOfCalls DEF RefInv
  <2> QED
    BY <2>1, <2>2 DEF RefInv, SchedInv, RunningExact
<1>2. \A d \in CPUs : callback[d] = NoCallback
  BY DEF runs, interrupts_enabled, OneCpu
<1>3. timer[me] = NoCpu
  BY <1>1 DEF RefInv, TimedInv
<1>4. /\ list' = [list EXCEPT ![q] = Append(@, me)]
      /\ frame' = [frame EXCEPT ![me] = q]
      /\ block_ret' = [block_ret EXCEPT ![me] = "NO_ERROR"]
      /\ timer' = [timer EXCEPT ![me] = IF timeout = "finite" THEN c ELSE @]
  BY DEF block
<1>5. frame \in [Threads -> WaitQueues \cup {NoQueue}] /\ DOMAIN block_ret = Threads
      /\ timer \in [Threads -> CPUs \cup {NoCpu}]
  BY DEF RefInv, SchedInv, Waiting, OtherTypes, RetType
<1>6. c # NoCpu /\ q # NoQueue
  BY SchedAssumption DEF WaitQueues
<1> HIDE DEF me
<1>7. Ret' = [Ret EXCEPT ![me] = "NO_ERROR"]
  BY <1>1, <1>4, <1>5, <1>6 DEF Ret
<1>8. Armed' = [Armed EXCEPT ![me] = timed_wait]
  <2>1. \A d \in CPUs, t \in Threads : callback[d] # <<"timeout", t>>
    BY <1>2 DEF NoCallback
  <2>2. \A t \in Threads : Armed[t] = (timer[t] # NoCpu /\ frame[t] # NoQueue)
    BY <2>1 DEF Armed
  <2>3. \A t \in Threads : Armed'[t] = (timer'[t] # NoCpu /\ frame'[t] # NoQueue)
    BY <2>1 DEF Armed
  <2>4. \A t \in Threads : Armed'[t] = IF t = me THEN timed_wait ELSE Armed[t]
    BY <1>1, <1>3, <1>4, <1>5, <1>6, <2>2, <2>3
  <2>5. Armed = [t \in Threads |-> Armed[t]] /\ Armed' = [t \in Threads |-> Armed'[t]]
    BY DEF Armed
  <2> HIDE DEF timed_wait
  <2> QED
    BY <2>4, <2>5
<1>9. FiredOnce'
  <2>1. \A d \in CPUs, t \in Threads : callback'[d] # <<"timeout", t>>
    BY <1>2 DEF NoCallback
  <2> QED
    BY <2>1 DEF FiredOnce
<1>10. timed_wait \in BOOLEAN
  OBVIOUS
<1> HIDE DEF timed_wait
<1> QED
  BY <1>1, <1>4, <1>7, <1>8, <1>9, <1>10, QueuesBlock DEF Refines

LEMMA HeadAndTail ==
  ASSUME NEW S, NEW s \in Seq(S), s # <<>>
  PROVE  /\ Range(SubSeq(s, 1, 1)) = {Head(s)}
         /\ SubSeq(s, 1 + 1, Len(s)) = Tail(s)
<1>1. Len(s) \in Nat \ {0}
  BY EmptySeq, LenProperties
<1>2. /\ Len(SubSeq(s, 1, 1)) = 1 /\ SubSeq(s, 1, 1)[1] = s[1]
      /\ SubSeq(s, 1, 1) \in Seq(S)
  BY <1>1, SubSeqProperties
<1>3. DOMAIN SubSeq(s, 1, 1) = {1}
  BY <1>2
<1>4. Range(SubSeq(s, 1, 1)) = {Head(s)}
  BY <1>2, <1>3 DEF Range
<1>5. SubSeq(s, 2, Len(s)) = Tail(s)
  BY <1>1
<1> QED
  BY <1>4, <1>5

LEMMA RefWakeOne ==
  ASSUME RefInv, NEW c \in CPUs, NEW q \in WaitQueues, list[q] # <<>>, NEW reschedule,
         wake(c, q, 1, reschedule, "NO_ERROR"), callback' = callback
  PROVE  Refines
<1> DEFINE h == Head(list[q])
<1>1. /\ list \in [WaitQueues -> Seq(Threads)] /\ frame[h] = q /\ h \in Threads /\ q # NoQueue
      /\ DOMAIN block_ret = Threads
  <2>1. list[q] \in Seq(Threads) /\ h \in Threads /\ h \in Range(list[q])
    BY DEF RefInv, SchedInv, Waiting, Range
  <2> QED
    BY <2>1, SchedAssumption DEF RefInv, SchedInv, Waiting, WaitQueues, RetType
<1>2. list[q] \in Seq(Threads)
  BY <1>1
<1>3. /\ Range(SubSeq(list[q], 1, 1)) = {h}
      /\ SubSeq(list[q], 1 + 1, Len(list[q])) = Tail(list[q])
  BY <1>2, HeadAndTail
<1>4. /\ list' = [list EXCEPT ![q] = SubSeq(@, 1 + 1, Len(@))]
      /\ block_ret' = [t \in Threads |-> IF t \in Range(SubSeq(list[q], 1, 1))
                                            THEN "NO_ERROR" ELSE block_ret[t]]
      /\ UNCHANGED <<frame, timer>>
  BY DEF wake
<1>5. list' = [list EXCEPT ![q] = Tail(@)]
  BY <1>1, <1>3, <1>4
<1>6. Ret' = [Ret EXCEPT ![h] = "NO_ERROR"]
  BY <1>1, <1>3, <1>4 DEF Ret
<1>7. Armed' = Armed /\ FiredOnce'
  BY <1>4, ArmedKept DEF RefInv
<1> QED
  BY <1>4, <1>5, <1>6, <1>7, QueuesWakeOne DEF Refines

\* All the threads of a queue are woken at once.
LEMMA RefAll ==
  ASSUME RefInv, NEW q \in WaitQueues,
         NEW err \in {"NO_ERROR", "ERR_THREAD_DETACHED", "ERR_OBJECT_DESTROYED"},
         list' = [list EXCEPT ![q] = <<>>],
         block_ret' = [t \in Threads |-> IF t \in Range(list[q]) THEN err ELSE block_ret[t]],
         UNCHANGED <<frame, timer, callback>>
  PROVE  Refines
<1>1. \A t \in Range(list[q]) : frame[t] # NoQueue
  BY SchedAssumption DEF RefInv, SchedInv, Waiting, WaitQueues
<1>2. Ret' = [t \in Threads |-> IF t \in Range(list[q]) THEN err ELSE Ret[t]]
  BY <1>1 DEF Ret
<1>3. Armed' = Armed /\ FiredOnce'
  BY ArmedKept DEF RefInv
<1> QED
  BY <1>2, <1>3, QueuesWakeAll DEF Refines

LEMMA RefWakeAll ==
  ASSUME RefInv, NEW c \in CPUs, NEW q \in WaitQueues, NEW reschedule,
         NEW err \in {"NO_ERROR", "ERR_OBJECT_DESTROYED"},
         wake(c, q, Len(list[q]), reschedule, err), callback' = callback
  PROVE  Refines
<1>1. list \in [WaitQueues -> Seq(Threads)] /\ list[q] \in Seq(Threads)
  BY DEF RefInv, SchedInv, Waiting
<1>2. /\ SubSeq(list[q], 1, Len(list[q])) = list[q]
      /\ SubSeq(list[q], Len(list[q]) + 1, Len(list[q])) = <<>>
  BY <1>1
<1>3. /\ list' = [list EXCEPT ![q] = SubSeq(@, Len(list[q]) + 1, Len(@))]
      /\ block_ret' = [t \in Threads |-> IF t \in Range(SubSeq(list[q], 1, Len(list[q])))
                                            THEN err ELSE block_ret[t]]
      /\ UNCHANGED <<frame, timer, callback>>
  BY DEF wake
<1>4. list' = [list EXCEPT ![q] = <<>>]
  BY <1>1, <1>2, <1>3
<1> QED
  BY <1>2, <1>3, <1>4, RefAll

\* A free thread has no joiners and is in no call: thread_create resets nothing
\* that a wait queue holds.
LEMMA RefCreate ==
  ASSUME RefInv, NEW c \in CPUs, NEW t \in Threads, thread_create(c, t)
  PROVE  Refines
<1>1. /\ state[t] = "NONE" /\ list' = [list EXCEPT ![t] = <<>>]
      /\ block_ret' = [block_ret EXCEPT ![t] = "NO_ERROR"]
      /\ UNCHANGED <<frame, timer, callback>>
  BY DEF thread_create, irqvars
<1>2. t \in WaitQueues /\ list \in [WaitQueues -> Seq(Threads)] /\ list[t] \in Seq(Threads)
  BY DEF RefInv, SchedInv, Waiting, WaitQueues
<1>3. Range(list[t]) = {}
  BY <1>1, <1>2 DEF RefInv, SchedInv, Waiting, Joining
<1>4. list' = list
  BY <1>1, <1>2, <1>3, EmptyRange
<1>5. frame[t] = NoQueue
  BY <1>1 DEF RefInv, CallInv
<1>6. Ret' = Ret
  BY <1>1, <1>5 DEF Ret, RefInv, RetType
<1> QED
  BY <1>1, <1>4, <1>6, ArmedKept, QueuesStutter DEF Refines, RefInv

LEMMA RefSleep ==
  ASSUME RefInv, OneCpu, NEW c \in CPUs, thread_sleep(c)
  PROVE  Refines
<1> DEFINE me == current[c]
<1>1. /\ me \in Threads /\ thread_lock = NoCpu /\ callback[c] = NoCallback
      /\ timer' = [timer EXCEPT ![me] = c] /\ UNCHANGED <<list, frame, block_ret, callback>>
  BY DEF thread_sleep, calls, runs, interrupts_enabled, lock_free, irqvars
<1>2. frame[me] = NoQueue
  BY <1>1, RunsOutOfCalls DEF RefInv
<1>3. Ret' = Ret
  BY <1>1 DEF Ret
<1>4. Armed' = Armed
  <2>1. \A t \in Threads : t # me => timer'[t] = timer[t]
    BY <1>1 DEF RefInv, SchedInv, OtherTypes
  <2> HIDE DEF me
  <2>2. \A t \in Threads : (timer'[t] # NoCpu /\ frame'[t] # NoQueue)
                              <=> (timer[t] # NoCpu /\ frame[t] # NoQueue)
    BY <1>1, <1>2, <2>1
  <2> QED
    BY <1>1, <2>2 DEF Armed
<1>5. FiredOnce'
  <2>1. \A d \in CPUs, t \in Threads : callback'[d] # <<"timeout", t>>
    BY <1>1 DEF NoCallback, OneCpu
  <2> QED
    BY <2>1 DEF FiredOnce
<1> QED
  BY <1>1, <1>3, <1>4, <1>5, QueuesStutter DEF Refines

LEMMA RefReturn ==
  ASSUME RefInv, NEW c \in CPUs, thread_resched_return(c)
  PROVE  Refines
<1> DEFINE me == current[c]
<1>1. UNCHANGED <<list, block_ret, callback>> /\ thread_lock = c
  BY DEF thread_resched_return, irqvars
<1>2. CASE ~(me \in Threads /\ frame[me] # NoQueue)
  <2>1. UNCHANGED <<frame, timer>>
    BY <1>2 DEF thread_resched_return
  <2> QED
    BY <1>1, <2>1, RefQuiet DEF RefInv
<1>3. CASE me \in Threads /\ frame[me] # NoQueue
  <2>1. /\ timer' = [timer EXCEPT ![me] = IF me \in timed THEN NoCpu ELSE @]
        /\ frame' = [frame EXCEPT ![me] = NoQueue]
    BY <1>3 DEF thread_resched_return
  <2>2. /\ timer \in [Threads -> CPUs \cup {NoCpu}] /\ DOMAIN frame = Threads
        /\ state[me] = "RUNNING"
    BY <1>3 DEF RefInv, SchedInv, OtherTypes, Waiting, RunningExact
  <2>3. \A d \in CPUs, t \in Threads : callback[d] # <<"timeout", t>>
    BY <1>1, SchedAssumption DEF RefInv, TimedInv, NoCallback
  <2>4. WQ!Woken(me)
    BY <1>3, <2>2, QueuesAgree DEF RefInv
  <2> HIDE DEF me
  <2>5. Ret' = [Ret EXCEPT ![me] = "NO_ERROR"]
    BY <1>1, <1>3, <2>1, <2>2 DEF Ret
  <2>6. Armed' = [Armed EXCEPT ![me] = FALSE]
    <3>1. \A t \in Threads : Armed[t] = (timer[t] # NoCpu /\ frame[t] # NoQueue)
      BY <2>3 DEF Armed
    <3>2. \A t \in Threads : Armed'[t] = (timer'[t] # NoCpu /\ frame'[t] # NoQueue)
      BY <1>1, <2>3 DEF Armed
    <3>3. \A t \in Threads : Armed'[t] = IF t = me THEN FALSE ELSE Armed[t]
      BY <1>3, <2>1, <2>2, <3>1, <3>2
    <3>4. Armed = [t \in Threads |-> Armed[t]] /\ Armed' = [t \in Threads |-> Armed'[t]]
      BY DEF Armed
    <3> QED
      BY <3>3, <3>4
  <2>7. FiredOnce'
    BY <1>1, <2>3 DEF FiredOnce
  <2> QED
    BY <1>1, <1>3, <2>1, <2>4, <2>5, <2>6, <2>7, QueuesReturn DEF Refines
<1> QED
  BY <1>2, <1>3

\* timer_tick takes the timer off its queue: it is armed until the handler ran.
LEMMA RefTick ==
  ASSUME RefInv, NEW c \in CPUs, NEW t \in Threads, timer_tick(c, t)
  PROVE  Refines
<1> DEFINE kind == IF state[t] = "SLEEPING" THEN "sleep" ELSE "timeout"
<1>1. /\ callback[c] = NoCallback /\ timer[t] = c
      /\ timer' = [timer EXCEPT ![t] = NoCpu] /\ callback' = [callback EXCEPT ![c] = <<kind, t>>]
      /\ UNCHANGED <<list, frame, block_ret>>
  BY DEF timer_tick, interrupts_enabled
<1>2. DOMAIN callback = CPUs /\ DOMAIN timer = Threads /\ c # NoCpu
  BY SchedAssumption DEF RefInv, SchedInv, OtherTypes
<1>3. /\ callback'[c] = <<kind, t>> /\ \A d \in CPUs : d # c => callback'[d] = callback[d]
      /\ timer'[t] = NoCpu /\ \A x \in Threads : x # t => timer'[x] = timer[x]
  BY <1>1, <1>2
<1>4. kind = "sleep" => frame[t] = NoQueue
  BY DEF RefInv, CallInv
<1>5. kind = "timeout" => frame[t] # NoQueue
  BY <1>1, <1>2 DEF RefInv, TimedInv
<1>6. kind \in {"sleep", "timeout"} /\ \A x : callback[c] # <<"timeout", x>>
  BY <1>1 DEF NoCallback
<1> HIDE DEF kind
<1>7. ASSUME NEW x \in Threads
      PROVE  (\/ (timer'[x] # NoCpu /\ frame'[x] # NoQueue)
              \/ \E d \in CPUs : callback'[d] = <<"timeout", x>>)
             <=> (\/ (timer[x] # NoCpu /\ frame[x] # NoQueue)
                  \/ \E d \in CPUs : callback[d] = <<"timeout", x>>)
  <2>1. CASE x # t
    BY <1>1, <1>3, <1>6, <2>1
  <2>2. CASE x = t /\ kind = "timeout"
    BY <1>1, <1>2, <1>3, <1>5, <2>2
  <2>3. CASE x = t /\ kind = "sleep"
    <3>1. frame[x] = NoQueue /\ frame'[x] = NoQueue
      BY <1>1, <1>4, <2>3
    <3>2. (\E d \in CPUs : callback'[d] = <<"timeout", x>>)
            <=> \E d \in CPUs : callback[d] = <<"timeout", x>>
      BY <1>3, <1>6, <2>3
    <3> QED
      BY <3>1, <3>2
  <2> QED
    BY <1>6, <2>1, <2>2, <2>3
<1>8. Armed' = Armed
  BY <1>7 DEF Armed
<1>9. FiredOnce'
  BY <1>3 DEF RefInv, FiredOnce
<1>10. Ret' = Ret
  BY <1>1 DEF Ret
<1> QED
  BY <1>1, <1>8, <1>9, <1>10, QueuesStutter DEF Refines

LEMMA RefHandler ==
  ASSUME RefInv, OneCpu, NEW c \in CPUs, NEW t \in Threads, wait_queue_timeout_handler(c, t)
  PROVE  Refines
<1>1. /\ callback[c] = <<"timeout", t>> /\ callback' = [callback EXCEPT ![c] = NoCallback]
      /\ UNCHANGED <<frame, timer>>
      /\ IF state[t] = "BLOCKED"
           THEN /\ list' = [list EXCEPT ![frame[t]] = RemoveFirst(@, t)]
                /\ block_ret' = [block_ret EXCEPT ![t] = "ERR_TIMED_OUT"]
           ELSE UNCHANGED <<list, block_ret>>
  BY DEF wait_queue_timeout_handler, thread_unblock_from_wait_queue
<1>2. frame[t] # NoQueue /\ timer[t] = NoCpu
  BY <1>1 DEF RefInv, TimedInv, FiredOnce
<1>3. DOMAIN callback = CPUs /\ DOMAIN block_ret = Threads
  BY DEF RefInv, SchedInv, OtherTypes, RetType
<1>4. \A d \in CPUs : d = c
  BY DEF OneCpu
<1>5. \A d \in CPUs, x \in Threads : callback'[d] # <<"timeout", x>>
  BY <1>1, <1>3, <1>4 DEF NoCallback
<1>6. Armed[t] /\ Armed' = [Armed EXCEPT ![t] = FALSE]
  <2>0. \A x \in Threads : (\E d \in CPUs : callback[d] = <<"timeout", x>>) <=> x = t
    BY <1>1, <1>4
  <2>1. \A x \in Threads : Armed[x] = (x = t \/ (timer[x] # NoCpu /\ frame[x] # NoQueue))
    BY <2>0 DEF Armed
  <2>2. \A x \in Threads : Armed'[x] = (timer[x] # NoCpu /\ frame[x] # NoQueue)
    BY <1>1, <1>5 DEF Armed
  <2>3. \A x \in Threads : Armed'[x] = IF x = t THEN FALSE ELSE Armed[x]
    BY <1>2, <2>1, <2>2
  <2>4. Armed = [x \in Threads |-> Armed[x]] /\ Armed' = [x \in Threads |-> Armed'[x]]
    BY DEF Armed
  <2> QED
    BY <2>1, <2>3, <2>4
<1>7. WQ!Blocked(t) <=> state[t] = "BLOCKED"
  BY <1>2, QueuesAgree DEF RefInv
<1>8. IF state[t] = "BLOCKED" THEN Ret' = [Ret EXCEPT ![t] = "ERR_TIMED_OUT"] ELSE Ret' = Ret
  BY <1>1, <1>2, <1>3 DEF Ret
<1>9. FiredOnce'
  BY <1>5 DEF FiredOnce
<1>10. WQ!WQNext
  <2>1. CASE state[t] = "BLOCKED"
    BY <1>1, <1>6, <1>7, <1>8, <2>1, QueuesTimeout
  <2>2. CASE state[t] # "BLOCKED"
    BY <1>1, <1>6, <1>7, <1>8, <2>2, QueuesTimeout
  <2> QED
    BY <2>1, <2>2
<1> QED
  BY <1>9, <1>10 DEF Refines

LEMMA RefSleepHandler ==
  ASSUME RefInv, NEW c \in CPUs, NEW t \in Threads, thread_sleep_handler(c, t)
  PROVE  Refines
<1>1. /\ callback[c] = <<"sleep", t>> /\ callback' = [callback EXCEPT ![c] = NoCallback]
      /\ UNCHANGED <<list, frame, block_ret, timer>>
  BY DEF thread_sleep_handler, waitvars
<1>2. DOMAIN callback = CPUs
  BY DEF RefInv, SchedInv, OtherTypes
<1>3. \A x \in Threads : callback[c] # <<"timeout", x>> /\ callback'[c] # <<"timeout", x>>
  BY <1>1, <1>2 DEF NoCallback
<1>4. \A d \in CPUs : d # c => callback'[d] = callback[d]
  BY <1>1, <1>2
<1>5. \A x \in Threads : (\E d \in CPUs : callback'[d] = <<"timeout", x>>)
                            <=> \E d \in CPUs : callback[d] = <<"timeout", x>>
  BY <1>3, <1>4
<1>6. Armed' = Armed /\ Ret' = Ret
  BY <1>1, <1>5 DEF Armed, Ret
<1>7. FiredOnce'
  BY <1>1, <1>3, <1>4 DEF RefInv, FiredOnce
<1> QED
  BY <1>1, <1>6, <1>7, QueuesStutter DEF Refines

LEMMA RefNext ==
  ASSUME RefInv, OneCpu, [Next]_<<vars, startvars, use, pinned_cpu>>
  PROVE  Refines
<1>0. FiredOnce
  BY DEF RefInv
<1>1. CASE UNCHANGED <<vars, startvars, use, pinned_cpu>>
  BY <1>0, <1>1, RefQuiet DEF vars, waitvars, irqvars
<1>2. CASE Next
  <2>1. PICK c \in CPUs : boot_step(c) \/ thread_resched_return(c)
                            \/ thread_step(c) \/ interrupt(c)
    BY <1>2 DEF Next
  <2>2. CASE boot_step(c)
    BY <1>0, <2>2, BootKeeps, RefQuiet
  <2>3. CASE thread_resched_return(c)
    BY <2>3, RefReturn
  <2>4. CASE thread_step(c)
    <3>1. ASSUME NEW t \in Threads, thread_create(c, t) PROVE Refines
      BY <3>1, RefCreate
    <3>2. ASSUME NEW t, NEW p, \/ thread_resume(c, t) \/ thread_set_real_time(c, t)
                               \/ thread_join_dead(c, t) \/ thread_yield(c)
                               \/ thread_set_priority(c, p)
          PROVE  Refines
      <4>1. UNCHANGED <<list, frame, block_ret, timer, callback>>
        BY <3>2 DEF thread_resume, thread_set_real_time, thread_join_dead, thread_yield,
                    thread_set_priority, waitvars, irqvars
      <4> QED
        BY <1>0, <4>1, RefQuiet
    <3>3. ASSUME NEW t \in Threads, NEW timeout, thread_join_wait(c, t, timeout) PROVE Refines
      <4>1. runs(c) /\ block(c, t, timeout) /\ callback' = callback /\ t \in WaitQueues
        BY <3>3 DEF thread_join_wait, calls, irqvars, WaitQueues
      <4> QED
        BY <4>1, RefBlock
    <3>4. ASSUME NEW t \in Threads, thread_detach(c, t) PROVE Refines
      <4>1. WakeAll(t, "ERR_THREAD_DETACHED") /\ callback' = callback /\ t \in WaitQueues
        BY <3>4 DEF thread_detach, irqvars, WaitQueues
      <4> QED
        BY <4>1, RefAll DEF WakeAll
    <3>5. ASSUME thread_exit(c) PROVE Refines
      <4> DEFINE me == current[c]
      <4>1. me \in WaitQueues /\ callback' = callback
        BY <3>5 DEF thread_exit, calls, runs, irqvars, WaitQueues
      <4>2. CASE me \in detached
        BY <1>0, <3>5, <4>1, <4>2, RefQuiet DEF thread_exit, waitvars
      <4>3. CASE me \notin detached
        BY <3>5, <4>1, <4>3, RefAll DEF thread_exit, WakeAll
      <4> QED
        BY <4>2, <4>3
    <3>6. ASSUME thread_sleep(c) PROVE Refines
      BY <3>6, RefSleep
    <3>7. ASSUME NEW q \in Queues, NEW timeout, wait_queue_block(c, q, timeout) PROVE Refines
      <4>1. runs(c) /\ block(c, q, timeout) /\ callback' = callback /\ q \in WaitQueues
        BY <3>7 DEF wait_queue_block, calls, irqvars, WaitQueues
      <4> QED
        BY <4>1, RefBlock
    <3>8. ASSUME NEW q \in Queues, NEW reschedule, wait_queue_wake_one(c, q, reschedule)
          PROVE  Refines
      <4>1. /\ list[q] # <<>> /\ wake(c, q, 1, reschedule, "NO_ERROR") /\ callback' = callback
            /\ q \in WaitQueues
        BY <3>8 DEF wait_queue_wake_one, irqvars, WaitQueues
      <4> QED
        BY <4>1, RefWakeOne
    <3>9. ASSUME NEW q \in Queues, NEW reschedule, NEW err \in {"NO_ERROR", "ERR_OBJECT_DESTROYED"},
                 wait_queue_wake_all(c, q, reschedule, err)
          PROVE  Refines
      <4>1. wake(c, q, Len(list[q]), reschedule, err) /\ callback' = callback /\ q \in WaitQueues
        BY <3>9 DEF wait_queue_wake_all, irqvars, WaitQueues
      <4> QED
        BY <4>1, RefWakeAll
    <3>10. Created \subseteq Threads
      BY SchedAssumption DEF Created, RefInv, SchedInv, OtherTypes
    <3> QED
      BY <2>4, <3>1, <3>2, <3>3, <3>4, <3>5, <3>6, <3>7, <3>8, <3>9, <3>10 DEF thread_step
  <2>5. CASE interrupt(c)
    <3>1. ASSUME mp_mbx_reschedule_irq(c) \/ thread_timer_tick(c) \/ thread_preempt(c)
          PROVE  Refines
      <4>1. UNCHANGED <<list, frame, block_ret, timer, callback>>
        BY <3>1 DEF mp_mbx_reschedule_irq, thread_timer_tick, thread_preempt, waitvars
      <4> QED
        BY <1>0, <4>1, RefQuiet
    <3>2. ASSUME NEW q \in Queues, irq_wake_one(c, q) PROVE Refines
      <4>1. /\ list[q] # <<>> /\ wake(c, q, 1, FALSE, "NO_ERROR") /\ callback' = callback
            /\ q \in WaitQueues
        BY <3>2 DEF irq_wake_one, WaitQueues
      <4> QED
        BY <4>1, RefWakeOne
    <3>3. ASSUME NEW t \in Threads, \/ timer_tick(c, t) \/ wait_queue_timeout_handler(c, t)
                                    \/ thread_sleep_handler(c, t)
          PROVE  Refines
      BY <3>3, RefTick, RefHandler, RefSleepHandler
    <3> QED
      BY <2>5, <3>1, <3>2, <3>3 DEF interrupt
  <2> QED
    BY <2>1, <2>2, <2>3, <2>4, <2>5
<1> QED
  BY <1>1, <1>2

(***************************************************************************)
(* On one CPU, thread.c implements the wait queues that the mutex, the     *)
(* semaphore and the event are proved correct on: what its run queues,     *)
(* lock, interrupts and late timer callbacks add is invisible to them.     *)
(***************************************************************************)
THEOREM SchedImplementsWaitQueue ==
  ASSUME OneCpu
  PROVE  Spec /\ []JoinerFindsThread => ImplementsWaitQueue
<1>1. Init => CallInv /\ RetType /\ TimedInv /\ FiredOnce
  <2>1. Init => CallInv /\ RetType
    BY JoinInit DEF JoinIInv
  <2>2. Init => TimedInv /\ FiredOnce
    BY DEF Init, TimedInv, OnlyTimedWaitsTimeOut, FiredOnce, NoCallback
  <2> QED
    BY <2>1, <2>2
<1>2. Init => WQ!WQInit
  BY DEF Init, WQ!WQInit, WQ!NO_ERROR, NoCallback
<1>3. SchedInv /\ CallInv /\ RetType /\ JoinerFindsThread /\ TimedInv /\ FiredOnce
        /\ [Next]_<<vars, startvars, use, pinned_cpu>>
        => /\ CallInv' /\ RetType' /\ TimedInv' /\ FiredOnce'
           /\ [WQ!WQNext]_(WQ!wqvars)
  BY CallNext, RetNext, TimedNext, RefNext DEF Refines, RefInv
<1> QED
  BY <1>1, <1>2, <1>3, SchedInvariance, PTL DEF Spec, ImplementsWaitQueue, WQ!WQSafety

-------------------------------------------------------------------------------
(***************************************************************************)
(* The condition on joiners is met by the uses named above.                *)
(***************************************************************************)
LEMMA JoinersFindThreads ==
  ASSUME NoJoiner \/ OneReaper
  PROVE  Spec => []JoinerFindsThread
<1>1. CASE NoJoiner
  <2>1. Init => SchedInv /\ OnlyJoinersJoin
    BY SchedInit, JoinInit DEF JoinIInv, JoinInv
  <2>2. SchedInv /\ OnlyJoinersJoin /\ [Next]_<<vars, startvars, use, pinned_cpu>>
          => SchedInv' /\ OnlyJoinersJoin'
    BY <1>1, NobodyJoins, SchedNext
  <2>3. SchedInv /\ OnlyJoinersJoin => JoinerFindsThread
    BY <1>1 DEF SchedInv, OtherTypes, NoJoiner, Joiners, OnlyJoinersJoin, JoinerFindsThread
  <2> QED
    BY <2>1, <2>2, <2>3, PTL DEF Spec
<1>2. CASE OneReaper
  <2>1. JoinIInv => JoinerFindsThread
    BY DEF JoinIInv, JoinInv
  <2> QED
    BY <1>2, <2>1, OneReaperInvariance, PTL
<1> QED
  BY <1>1, <1>2

(***************************************************************************)
(* With no joiner, or one thread that reaps the others, and any number of  *)
(* CPUs: idle CPUs know of ready threads and, if no thread turns real      *)
(* time, the preemption timers are exact.                                  *)
(***************************************************************************)
THEOREM SchedManyCpus ==
  ASSUME NoJoiner \/ OneReaper, NoRealTimer
  PROVE  Spec => [](WorkConserving /\ PreemptTimerExact)
BY JoinersFindThreads, SchedWorkConserving, SchedPreemptTimer, PTL

(***************************************************************************)
(* The same threads on one CPU: the preemption timer is exact with         *)
(* real-time threads too, no wait ends by a timeout it did not ask for,    *)
(* and thread.c implements WaitQueue.                                      *)
(***************************************************************************)
THEOREM SchedOneCpu ==
  ASSUME NoJoiner \/ OneReaper, OneCpu
  PROVE  Spec => [](PreemptTimerExact /\ OnlyTimedWaitsTimeOut) /\ ImplementsWaitQueue
BY JoinersFindThreads, SchedPreemptTimer, SchedTimeouts, SchedImplementsWaitQueue, PTL

===============================================================================
