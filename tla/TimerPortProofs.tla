---------------------------- MODULE TimerPortProofs ----------------------------
(***************************************************************************)
(* The proofs about kernel/timer.c and kernel/port.c.  The two modules     *)
(* share no constant and no variable: the first half of this one is about  *)
(* Timer's Spec, the second about Port's PortSpec, and neither half cites  *)
(* the other.                                                              *)
(***************************************************************************)
EXTENDS Timer, Port, WaitQueueProofs

(***************************************************************************)
(* TIMERS.                                                                 *)
(***************************************************************************)

(***************************************************************************)
(* The hypotheses: one CPU, and delays and periods that together with the  *)
(* latencies stay below half the range of lk_time_t, which TIME_LT needs.  *)
(***************************************************************************)
Uniprocessor == \E c : CPUs = {c}

Half == Modulus \div 2
Fits(d) == d + Late < Half
DelaysFit == \A d \in Delays \cup Periods \cup {1} : Fits(d)

TickTyped(k) ==
  /\ k.phase \in {"outside", "entered", "dequeued", "callback"}
  /\ k = Outside <=> k.phase = "outside"
  /\ k.phase # "outside" => k.now \in Time
  /\ k.phase \in {"dequeued", "callback"} => k.timer \in Timers

Calls == [by : CPUs \cup {"thread"}, delay : Nat]

TimerTypeOK ==
  /\ time \in Time
  /\ queue \in [CPUs -> Seq(Timers)]
  /\ scheduled \in [Timers -> Time]
  /\ periodic \in [Timers -> Nat]
  /\ callback \in [Timers -> BOOLEAN]
  /\ hw \in [CPUs -> Int \cup {OFF}]
  /\ DOMAIN tick = CPUs /\ \A c \in CPUs : TickTyped(tick[c])
  /\ setting \in [Timers -> Calls \cup {NotSetting}]
  /\ left \in [Timers -> Int]

(***************************************************************************)
(* Who uses a timer, on the only CPU c: a timer that is being set is in no *)
(* queue, a timer that was dequeued is neither, and while its callback     *)
(* runs nobody but the callback sets it.                                   *)
(***************************************************************************)
Tracked(c, t) == t \in Range(queue[c]) \/ setting[t] # NotSetting

SettingOK(c) ==
  \A t \in Timers : setting[t] # NotSetting =>
    /\ t \notin Range(queue[c]) /\ callback[t]
    /\ setting[t].delay >= 1 /\ Fits(setting[t].delay)
    /\ setting[t].delay - SetTime <= left[t] /\ left[t] <= setting[t].delay
    /\ setting[t].by # "thread" => tick[c].phase = "callback"

TickOK(c) ==
  /\ tick[c].phase = "dequeued" =>
       ~Tracked(c, tick[c].timer) /\ callback[tick[c].timer] /\ left[tick[c].timer] <= 0
  /\ tick[c].phase = "callback" => setting[tick[c].timer].by # "thread"

CallbackOK(c) ==
  \A t \in Timers :
    /\ (periodic[t] > 0 => callback[t] /\ Fits(periodic[t]))
    /\ (t \in Range(queue[c]) => callback[t])

(***************************************************************************)
(* The times.  The expiry of a timer that somebody waits for is its time   *)
(* left, wrapped; a tick is never older than TickTime, and a timer in the  *)
(* queue overdue at most by how late the tick began and by its age.        *)
(***************************************************************************)
Due(sched, now, rest) == (sched - now) - rest \in {0, Modulus, -Modulus}

TimeOK(c) ==
  \A t \in Timers : Tracked(c, t) => Fits(left[t]) /\ Due(scheduled[t], time, left[t])

Age(c) == IF tick[c] = Outside THEN 0 ELSE (time - tick[c].now) % Modulus

LateOK(c) ==
  /\ Age(c) <= TickTime
  /\ \A t \in Range(queue[c]) : left[t] >= -(Latency + Slack) - Age(c)

(***************************************************************************)
(* Outside the tick the hardware timer is armed for the head of the queue, *)
(* Slack too late at most.                                                 *)
(***************************************************************************)
ArmedOK(c) ==
  tick[c] = Outside /\ queue[c] # <<>> =>
    /\ hw[c] # OFF /\ hw[c] >= -Latency
    /\ hw[c] <= left[Head(queue[c])] + Slack

\* The list q is in the order of l, the times left.
Sorted(q, l) ==
  \A i, j \in DOMAIN q : i < j => q[i] # q[j] /\ l[q[i]] <= l[q[j]]

CpuInv(c) ==
  /\ SettingOK(c) /\ TickOK(c) /\ CallbackOK(c) /\ TimeOK(c) /\ LateOK(c) /\ ArmedOK(c)
  /\ Sorted(queue[c], left)

TimerInv == TimerTypeOK /\ \A c \in CPUs : CpuInv(c)

-----------------------------------------------------------------------------
LEMMA Sizes ==
  ASSUME DelaysFit
  PROVE  /\ Modulus \in Nat \ {0} /\ Half \in Nat \ {0} /\ 2 * Half <= Modulus
         /\ Latency \in Nat /\ TickTime \in Nat /\ SetTime \in Nat
         /\ Slack \in Nat /\ TickTime <= Slack /\ SetTime <= Slack
         /\ Late \in Nat /\ Late = Latency + TickTime + Slack /\ 1 + Late < Half
<1>1. Latency \in Nat /\ TickTime \in Nat /\ SetTime \in Nat
  BY TimerAssumption
<1>2. Slack \in Nat /\ TickTime <= Slack /\ SetTime <= Slack
  BY <1>1 DEF Slack
<1>3. Late \in Nat /\ Late = Latency + TickTime + Slack
  BY <1>1, <1>2 DEF Late
<1>4. Modulus \in Int
  BY TimerAssumption DEF Modulus
<1>5. 1 + Late < Half
  BY DEF DelaysFit, Fits
<1>6. Half \in Int /\ 2 * Half <= Modulus
  BY <1>4 DEF Half
<1> QED
  BY <1>1, <1>2, <1>3, <1>4, <1>5, <1>6

LEMMA Quotient ==
  ASSUME NEW a \in Int, NEW m \in Nat \ {0}
  PROVE  /\ a % m \in 0 .. (m - 1) /\ a \div m \in Int
         /\ a = m * (a \div m) + (a % m)
OBVIOUS

\* Remainders of numbers that wrap at most once.
LEMMA Remainder ==
  ASSUME NEW a \in Int, NEW m \in Nat \ {0}
  PROVE  /\ a \in 0 .. (m - 1) => a % m = a
         /\ a \in m .. (2 * m - 1) => a % m = a - m
         /\ a \in (-m) .. (-1) => a % m = a + m
<1> DEFINE q == a \div m
           r == a % m
           z == m * q
<1>1. q \in Int /\ r \in 0 .. (m - 1) /\ a = z + r
  BY Quotient
<1> HIDE DEF q, r
<1>2. z \in Int /\ (q = 0 => z = 0) /\ (q = 1 => z = m) /\ (q = -1 => z = -m)
  BY <1>1
<1>3. (q >= 1 => z >= m) /\ (q <= -1 => z <= -m)
  BY <1>1
<1>4. (q >= 2 => z >= 2 * m) /\ (q <= -2 => z <= -(2 * m))
  BY <1>1
<1> HIDE DEF z
<1>5. a \in 0 .. (m - 1) => r = a
  BY <1>1, <1>2, <1>3, <1>4
<1>6. a \in m .. (2 * m - 1) => r = a - m
  BY <1>1, <1>2, <1>3, <1>4
<1>7. a \in (-m) .. (-1) => r = a + m
  BY <1>1, <1>2, <1>3, <1>4
<1> QED
  BY <1>5, <1>6, <1>7 DEF r

\* The difference of two times, modulo the range of lk_time_t.
LEMMA Difference ==
  ASSUME DelaysFit, NEW a \in Time, NEW b \in Time
  PROVE  /\ (a - b) % Modulus \in Time
         /\ (a - b) % Modulus = IF a >= b THEN a - b ELSE (a - b) + Modulus
<1> DEFINE x == a - b
<1>1. /\ Modulus \in Nat \ {0} /\ x \in Int /\ x <= Modulus - 1 /\ x >= -(Modulus - 1)
      /\ a >= b <=> x >= 0
  BY Sizes DEF Time
<1> HIDE DEF x
<1>2. x >= 0 => x % Modulus = x
  BY <1>1, Remainder
<1>3. ~(x >= 0) => x % Modulus = x + Modulus
  <2>1. ~(x >= 0) => x \in (-Modulus) .. (-1)
    BY <1>1
  <2> QED
    BY <1>1, <2>1, Remainder, Zenon
<1>4. x % Modulus \in Time /\ x % Modulus = IF x >= 0 THEN x ELSE x + Modulus
  BY <1>1, <1>2, <1>3 DEF Time
<1> QED
  BY <1>1, <1>4 DEF x

\* A time some time after another.
LEMMA Later ==
  ASSUME DelaysFit, NEW a \in Time, NEW n \in Nat, n < Modulus
  PROVE  /\ (a + n) % Modulus \in Time
         /\ (a + n) % Modulus = IF a + n < Modulus THEN a + n ELSE (a + n) - Modulus
<1> DEFINE x == a + n
<1>1. Modulus \in Nat \ {0} /\ x \in Int /\ 0 <= x /\ x <= 2 * Modulus - 1
  BY Sizes DEF Time
<1>a. x = a + n
  OBVIOUS
<1> HIDE DEF x
<1>2. x < Modulus => x % Modulus = x
  BY <1>1, Remainder
<1>3. ~(x < Modulus) => x % Modulus = x - Modulus
  BY <1>1, Remainder
<1>4. x % Modulus \in Time /\ x % Modulus = IF x < Modulus THEN x ELSE x - Modulus
  BY <1>1, <1>2, <1>3 DEF Time
<1> QED
  BY <1>4 DEF x

\* TIME_LT and TIME_GT see the true difference of two times if that is below
\* half the range of lk_time_t.
LEMMA SignedIs ==
  ASSUME DelaysFit, NEW a \in Time, NEW b \in Time, NEW y \in Int, -Half < y, y < Half,
         (a - b) - y \in {0, Modulus, -Modulus, 2 * Modulus, -(2 * Modulus)}
  PROVE  Signed(a - b) = y
<1> DEFINE d == (a - b) % Modulus
<1>1. d \in Time /\ d = IF a >= b THEN a - b ELSE (a - b) + Modulus
  BY Difference
<1> HIDE DEF d
<1>2. Modulus \in Nat \ {0} /\ Half \in Nat \ {0} /\ 2 * Half <= Modulus
  BY Sizes
<1>3. (IF d >= Half THEN d - Modulus ELSE d) = y
  BY <1>1, <1>2 DEF Time
<1> QED
  BY <1>3 DEF Signed, d, Half
-----------------------------------------------------------------------------
(***************************************************************************)
(* Lists in the order of the times left.                                   *)
(***************************************************************************)
LEMMA SortedInjective ==
  ASSUME NEW S, NEW q \in Seq(S), NEW l, Sorted(q, l)
  PROVE  IsInjective(q)
BY LenProperties DEF Sorted, IsInjective

\* The head is due first.
LEMMA HeadFirst ==
  ASSUME NEW S, NEW q \in Seq(S), NEW l \in [S -> Int], Sorted(q, l), NEW e \in Range(q)
  PROVE  /\ q # <<>> /\ Head(q) \in Range(q) /\ Head(q) \in S /\ e \in S
         /\ l[Head(q)] <= l[e]
<1>1. Len(q) \in Nat /\ DOMAIN q = 1 .. Len(q) /\ \A i \in DOMAIN q : q[i] \in S
  BY LenProperties, ElementOfSeq
<1>2. PICK i \in DOMAIN q : e = q[i]
  BY DEF Range
<1>3. q # <<>> /\ 1 \in DOMAIN q /\ Head(q) = q[1]
  BY <1>1, <1>2
<1>4. l[q[1]] <= l[q[i]]
  <2>1. CASE i = 1
    BY <1>1, <1>2, <2>1
  <2>2. CASE i # 1
    BY <1>1, <1>2, <1>3, <2>2 DEF Sorted
  <2> QED
    BY <2>1, <2>2
<1> QED
  BY <1>1, <1>2, <1>3, <1>4 DEF Range

LEMMA InsertSorted ==
  ASSUME NEW S, NEW q \in Seq(S), NEW l \in [S -> Int], Sorted(q, l),
         NEW e \in S, e \notin Range(q), NEW k \in 1 .. (Len(q) + 1),
         \A i \in DOMAIN q : i < k => l[q[i]] <= l[e],
         k \in DOMAIN q => l[e] < l[q[k]]
  PROVE  /\ InsertAt(q, k, e) \in Seq(S) /\ Sorted(InsertAt(q, k, e), l)
         /\ Range(InsertAt(q, k, e)) = Range(q) \cup {e}
         /\ InsertAt(q, k, e) # <<>>
         /\ Head(InsertAt(q, k, e)) = IF k = 1 THEN e ELSE Head(q)
<1> DEFINE s == InsertAt(q, k, e)
<1>1. Len(q) \in Nat /\ DOMAIN q = 1 .. Len(q) /\ \A i \in DOMAIN q : q[i] \in S
  BY LenProperties, ElementOfSeq
<1>2. /\ s \in Seq(S) /\ DOMAIN s = 1 .. (Len(q) + 1)
      /\ \A i \in DOMAIN s : s[i] = IF i < k THEN q[i] ELSE IF i = k THEN e ELSE q[i - 1]
  <2>1. /\ InsertAt(q, k, e) \in Seq(S)
        /\ DOMAIN InsertAt(q, k, e) = 1 .. (Len(q) + 1)
        /\ \A i \in DOMAIN InsertAt(q, k, e) :
             InsertAt(q, k, e)[i] = IF i < k THEN q[i] ELSE IF i = k THEN e ELSE q[i - 1]
    BY InsertAtIs
  <2> QED
    BY <2>1
<1> HIDE DEF s
<1>m. PICK m : m = Len(q)
  OBVIOUS
<1>d. m \in Nat /\ DOMAIN q = 1 .. m /\ DOMAIN s = 1 .. (m + 1) /\ k \in 1 .. (m + 1)
  BY <1>1, <1>2, <1>m
<1>3. \A i \in DOMAIN q : q[i] # e
  BY DEF Range
<1>4. \A i \in DOMAIN q : k <= i => l[e] < l[q[i]]
  <2> SUFFICES ASSUME NEW i \in DOMAIN q, k <= i PROVE l[e] < l[q[i]]
    OBVIOUS
  <2>1. k \in DOMAIN q
    BY <1>1
  <2>2. l[q[k]] <= l[q[i]]
    <3>1. CASE k = i
      BY <1>1, <3>1
    <3>2. CASE k < i
      BY <1>1, <2>1, <3>2 DEF Sorted
    <3> QED
      BY <1>1, <3>1, <3>2
  <2>3. q[k] \in S /\ q[i] \in S
    BY <1>1, <2>1
  <2>4. l[e] \in Int /\ l[q[k]] \in Int /\ l[q[i]] \in Int
    BY <2>3
  <2> QED
    BY <2>1, <2>2, <2>4
<1>5. Sorted(s, l)
  <2> SUFFICES ASSUME NEW i \in DOMAIN s, NEW j \in DOMAIN s, i < j
               PROVE  s[i] # s[j] /\ l[s[i]] <= l[s[j]]
    BY DEF Sorted
  <2>0. /\ i \in Int /\ j \in Int /\ k \in Int /\ 1 <= k
        /\ 1 <= i /\ i < j /\ j <= Len(q) + 1
    BY <1>1, <1>2
  <2>1. CASE j < k
    <3>0. i \in DOMAIN q /\ j \in DOMAIN q /\ i < k /\ j < k
      BY <1>d, <2>0, <2>1
    <3>1. s[i] = q[i] /\ s[j] = q[j] /\ i \in DOMAIN q /\ j \in DOMAIN q
      BY <1>2, <3>0, Zenon
    <3> QED
      BY <3>1 DEF Sorted
  <2>2. CASE j = k
    <3>0. i \in DOMAIN q /\ i < k /\ ~(j < k)
      BY <1>d, <2>0, <2>2
    <3>1. s[i] = q[i] /\ s[j] = e /\ i \in DOMAIN q /\ i < k
      BY <1>2, <2>2, <3>0, Zenon
    <3> QED
      BY <1>3, <3>1
  <2>3. CASE j > k /\ i = k
    <3>0. j - 1 \in DOMAIN q /\ k <= j - 1 /\ ~(j < k) /\ j # k /\ ~(i < k)
      BY <1>d, <2>0, <2>3
    <3>1. s[i] = e /\ s[j] = q[j - 1] /\ j - 1 \in DOMAIN q /\ k <= j - 1
      BY <1>2, <2>3, <3>0, Zenon
    <3>2. l[e] < l[q[j - 1]] /\ l[e] \in Int /\ l[q[j - 1]] \in Int
      BY <1>1, <1>4, <3>1
    <3> QED
      BY <1>3, <3>1, <3>2
  <2>4. CASE j > k /\ i < k
    <3>0. i \in DOMAIN q /\ j - 1 \in DOMAIN q /\ i < j - 1 /\ ~(j < k) /\ j # k
      BY <1>d, <2>0, <2>4
    <3>1. s[i] = q[i] /\ s[j] = q[j - 1] /\ i \in DOMAIN q /\ j - 1 \in DOMAIN q /\ i < j - 1
      BY <1>2, <2>4, <3>0, Zenon
    <3> QED
      BY <3>1 DEF Sorted
  <2>5. CASE j > k /\ i > k
    <3>0. /\ i - 1 \in DOMAIN q /\ j - 1 \in DOMAIN q /\ i - 1 < j - 1
          /\ ~(j < k) /\ j # k /\ ~(i < k) /\ i # k
      BY <1>d, <2>0, <2>5, SMTT(30)
    <3>1. s[i] = q[i - 1] /\ s[j] = q[j - 1]
      BY <1>2, <3>0, Zenon
    <3> QED
      BY <3>0, <3>1 DEF Sorted
  <2> QED
    BY <2>0, <2>1, <2>2, <2>3, <2>4, <2>5
<1>6. Range(s) = Range(q) \cup {e}
  <2>1. \A i \in DOMAIN s : s[i] \in Range(q) \cup {e}
    <3> SUFFICES ASSUME NEW i \in DOMAIN s PROVE s[i] = e \/ \E j \in DOMAIN q : s[i] = q[j]
      BY DEF Range
    <3>1. CASE i < k
      BY <1>1, <1>2, <3>1
    <3>2. CASE i = k
      BY <1>2, <3>2
    <3>3. CASE i > k
      <4>1. i - 1 \in DOMAIN q /\ s[i] = q[i - 1]
        BY <1>d, <1>2, <3>3, SMTT(30)
      <4> QED
        BY <4>1
    <3> QED
      BY <1>2, <3>1, <3>2, <3>3
  <2>2. e \in Range(s)
    BY <1>d, <1>2, SMTT(30) DEF Range
  <2>3. \A j \in DOMAIN q : \E i \in DOMAIN s : s[i] = q[j]
    <3> SUFFICES ASSUME NEW j \in DOMAIN q PROVE \E i \in DOMAIN s : s[i] = q[j]
      OBVIOUS
    <3>1. CASE j < k
      BY <1>d, <1>2, <3>1, SMTT(30)
    <3>2. CASE ~(j < k)
      <4>0. j + 1 \in DOMAIN s /\ ~(j + 1 < k) /\ j + 1 # k /\ (j + 1) - 1 = j
        BY <1>d, <3>2, SMTT(30)
      <4>1. s[j + 1] = q[(j + 1) - 1]
        BY <1>2, <4>0, Zenon
      <4> QED
        BY <4>0, <4>1
    <3> QED
      BY <3>1, <3>2
  <2> QED
    BY <2>1, <2>2, <2>3 DEF Range
<1>7. 1 \in DOMAIN s /\ s # <<>> /\ Head(s) = s[1]
  BY <1>1, <1>2
<1>8. Head(s) = IF k = 1 THEN e ELSE Head(q)
  <2>1. k # 1 => 1 \in DOMAIN q /\ Head(q) = q[1] /\ 1 < k
    BY <1>1
  <2> QED
    BY <1>2, <1>7, <2>1, SMTT(30)
<1> QED
  BY <1>2, <1>5, <1>6, <1>7, <1>8 DEF s

LEMMA RemoveSorted ==
  ASSUME NEW S, NEW q \in Seq(S), NEW l, Sorted(q, l), NEW e
  PROVE  /\ RemoveFirst(q, e) \in Seq(S) /\ Sorted(RemoveFirst(q, e), l)
         /\ Range(RemoveFirst(q, e)) = Range(q) \ {e}
<1>1. IsInjective(q)
  BY SortedInjective
<1>2. /\ RemoveFirst(q, e) \in Seq(S)
      /\ Range(RemoveFirst(q, e)) = Range(q) \ {e}
  BY <1>1, RemoveFirstLemma
<1>3. Len(q) \in Nat /\ DOMAIN q = 1 .. Len(q)
  BY LenProperties
<1>4. CASE ~ \E i \in 1 .. Len(q) : q[i] = e
  BY <1>2, <1>4 DEF RemoveFirst
<1>5. CASE \E i \in 1 .. Len(q) : q[i] = e
  <2>1. PICK k \in 1 .. Len(q) : RemoveFirst(q, e) = RemoveAt(q, k)
    BY <1>1, <1>5, RemoveFirstAt
  <2> DEFINE s == RemoveAt(q, k)
  <2>2. /\ DOMAIN s = 1 .. (Len(q) - 1)
        /\ \A i \in DOMAIN s : s[i] = IF i < k THEN q[i] ELSE q[i + 1]
    BY RemoveAtIs
  <2> HIDE DEF s
  <2>3. ASSUME NEW i \in DOMAIN s, NEW j \in DOMAIN s, i < j
        PROVE  s[i] # s[j] /\ l[s[i]] <= l[s[j]]
    <3>1. PICK a \in DOMAIN q, b \in DOMAIN q : a < b /\ s[i] = q[a] /\ s[j] = q[b]
      <4>1. CASE i < k /\ j < k
        BY <1>3, <2>2, <2>3, <4>1
      <4>2. CASE i < k /\ ~(j < k)
        <5>1. i \in DOMAIN q /\ j + 1 \in DOMAIN q /\ i < j + 1
          BY <1>3, <2>2, <2>3, <4>2
        <5> QED
          BY <2>2, <4>2, <5>1
      <4>3. CASE ~(i < k) /\ ~(j < k)
        <5>1. i + 1 \in DOMAIN q /\ j + 1 \in DOMAIN q /\ i + 1 < j + 1
          BY <1>3, <2>2, <2>3, <4>3
        <5> QED
          BY <2>2, <4>3, <5>1
      <4> QED
        BY <1>3, <2>2, <2>3, <4>1, <4>2, <4>3
    <3> QED
      BY <3>1 DEF Sorted
  <2> QED
    BY <1>2, <2>1, <2>3 DEF Sorted, s
<1> QED
  BY <1>4, <1>5

LEMMA SortedSame ==
  ASSUME NEW q, NEW l, NEW m, Sorted(q, l), \A e \in Range(q) : m[e] = l[e]
  PROVE  Sorted(q, m)
BY DEF Sorted, Range

LEMMA TailSorted ==
  ASSUME NEW S, NEW q \in Seq(S), NEW l, Sorted(q, l), q # <<>>
  PROVE  Tail(q) \in Seq(S) /\ Sorted(Tail(q), l) /\ Range(Tail(q)) = Range(q) \ {Head(q)}
<1>1. IsInjective(q)
  BY SortedInjective
<1>2. Tail(q) \in Seq(S) /\ Range(Tail(q)) = Range(q) \ {Head(q)}
  BY <1>1, TailLemma
<1>3. /\ Len(q) \in Nat /\ DOMAIN q = 1 .. Len(q)
      /\ DOMAIN Tail(q) = 1 .. (Len(q) - 1)
      /\ \A i \in DOMAIN Tail(q) : Tail(q)[i] = q[i + 1]
  BY HeadTailProperties, LenProperties, EmptySeq
<1> DEFINE s == Tail(q)
<1> HIDE DEF s
<1>4. ASSUME NEW i \in DOMAIN s, NEW j \in DOMAIN s, i < j
      PROVE  s[i] # s[j] /\ l[s[i]] <= l[s[j]]
  <2>1. /\ i + 1 \in DOMAIN q /\ j + 1 \in DOMAIN q /\ i + 1 < j + 1
        /\ s[i] = q[i + 1] /\ s[j] = q[j + 1]
    BY <1>3, <1>4 DEF s
  <2> QED
    BY <2>1 DEF Sorted
<1> QED
  BY <1>2, <1>4 DEF Sorted, s
-----------------------------------------------------------------------------
(***************************************************************************)
(* The comparisons and the insertion.                                      *)
(***************************************************************************)
LEMMA Compare ==
  ASSUME DelaysFit, NEW n \in Time, NEW a \in Time, NEW b \in Time, NEW x \in Int, NEW y \in Int,
         Fits(x), Fits(y), x >= -Late, y >= -Late, Due(a, n, x), Due(b, n, y)
  PROVE  (TIME_GT(a, b) <=> x > y) /\ (TIME_LT(a, b) <=> x < y)
<1>1. Modulus \in Nat \ {0} /\ Half \in Nat \ {0} /\ Late \in Nat
  BY Sizes
<1>2. x - y \in Int /\ -Half < x - y /\ x - y < Half
  BY <1>1 DEF Fits
<1>3. (a - b) - (x - y) \in {0, Modulus, -Modulus, 2 * Modulus, -(2 * Modulus)}
  BY <1>1 DEF Due, Time
<1>4. Signed(a - b) = x - y
  BY <1>2, <1>3, SignedIs
<1> QED
  BY <1>4 DEF TIME_GT, TIME_LT

LEMMA InsertQueue ==
  ASSUME NEW q \in Seq(Timers), NEW l \in [Timers -> Int], Sorted(q, l),
         NEW t \in Timers, t \notin Range(q), NEW expiry,
         \A u \in Range(q) : TIME_GT(scheduled[u], expiry) <=> l[u] > l[t]
  PROVE  /\ insert_timer_in_queue(q, t, expiry) \in Seq(Timers)
         /\ Sorted(insert_timer_in_queue(q, t, expiry), l)
         /\ Range(insert_timer_in_queue(q, t, expiry)) = Range(q) \cup {t}
         /\ insert_timer_in_queue(q, t, expiry) # <<>>
         /\ \/ Head(insert_timer_in_queue(q, t, expiry)) = t
            \/ q # <<>> /\ Head(insert_timer_in_queue(q, t, expiry)) = Head(q)
<1> DEFINE later == {i \in DOMAIN q : TIME_GT(scheduled[q[i]], expiry)}
           k == IF later = {} THEN Len(q) + 1
                              ELSE CHOOSE i \in later : \A j \in later : i <= j
<1>1. insert_timer_in_queue(q, t, expiry) = InsertAt(q, k, t)
  BY DEF insert_timer_in_queue
<1>2. Len(q) \in Nat /\ DOMAIN q = 1 .. Len(q) /\ \A i \in DOMAIN q : q[i] \in Timers
  BY LenProperties, ElementOfSeq
<1>3. \A i \in DOMAIN q : /\ i \in later <=> l[q[i]] > l[t]
                           /\ l[q[i]] \in Int /\ l[t] \in Int
  BY <1>2 DEF Range
<1>4. later \subseteq DOMAIN q
  OBVIOUS
<1> HIDE DEF later
<1>5. /\ k \in 1 .. (Len(q) + 1)
      /\ \A i \in DOMAIN q : i < k => l[q[i]] <= l[t]
      /\ k \in DOMAIN q => l[t] < l[q[k]]
  <2>1. CASE later = {}
    <3>1. k = Len(q) + 1
      BY <2>1
    <3> HIDE DEF k
    <3>2. k \notin DOMAIN q /\ k \in 1 .. (Len(q) + 1)
      BY <1>2, <3>1
    <3>3. \A i \in DOMAIN q : l[q[i]] <= l[t]
      BY <1>3, <2>1
    <3> QED
      BY <3>2, <3>3
  <2>2. CASE later # {}
    <3>1. \E i \in later : \A j \in later : i <= j
      BY <1>2, <1>4, <2>2, LeastElement, SMTT(30)
    <3>2. k \in later /\ \A j \in later : k <= j
      BY <2>2, <3>1
    <3> HIDE DEF k
    <3>3. k \in DOMAIN q /\ l[t] < l[q[k]] /\ k \in 1 .. (Len(q) + 1)
      BY <1>2, <1>3, <1>4, <3>2
    <3>4. ASSUME NEW i \in DOMAIN q, i < k
          PROVE  l[q[i]] <= l[t]
      <4>1. i \notin later
        BY <1>2, <3>2, <3>3, <3>4
      <4> QED
        BY <1>3, <4>1
    <3> QED
      BY <3>3, <3>4
  <2> QED
    BY <2>1, <2>2
<1> HIDE DEF k
<1>6. /\ InsertAt(q, k, t) \in Seq(Timers) /\ Sorted(InsertAt(q, k, t), l)
      /\ Range(InsertAt(q, k, t)) = Range(q) \cup {t}
      /\ InsertAt(q, k, t) # <<>>
      /\ Head(InsertAt(q, k, t)) = IF k = 1 THEN t ELSE Head(q)
  BY <1>5, InsertSorted
<1>7. k # 1 => q # <<>>
  BY <1>2, <1>5
<1> QED
  BY <1>1, <1>6, <1>7

(***************************************************************************)
(* The invariant as the steps use it.                                      *)
(***************************************************************************)
LEMMA QueuedIs ==
  ASSUME NEW c, CPUs = {c}, NEW t
  PROVE  Queued(t) <=> t \in Range(queue[c])
BY DEF Queued

LEMMA TypeFacts ==
  ASSUME TimerTypeOK, NEW c, CPUs = {c}
  PROVE  /\ queue[c] \in Seq(Timers)
         /\ \A t \in Range(queue[c]) : t \in Timers
         /\ hw[c] \in Int \cup {OFF} /\ TickTyped(tick[c])
<1>1. queue[c] \in Seq(Timers)
  BY DEF TimerTypeOK
<1>2. \A t \in Range(queue[c]) : t \in Timers
  BY <1>1, RangeOfSeq
<1> QED
  BY <1>1, <1>2 DEF TimerTypeOK

LEMMA TimerFacts ==
  ASSUME TimerTypeOK, NEW t \in Timers
  PROVE  /\ scheduled[t] \in Time /\ periodic[t] \in Nat /\ left[t] \in Int
         /\ setting[t] # NotSetting => setting[t] \in Calls /\ setting[t].delay \in Nat
<1>1. scheduled[t] \in Time /\ periodic[t] \in Nat /\ left[t] \in Int
  BY DEF TimerTypeOK
<1>2. setting[t] # NotSetting => setting[t] \in Calls
  BY DEF TimerTypeOK
<1>3. \A k \in Calls : k.delay \in Nat
  BY DEF Calls
<1> QED
  BY <1>1, <1>2, <1>3

LEMMA Late1 ==
  ASSUME DelaysFit, TimerTypeOK, NEW c, CPUs = {c}, CpuInv(c)
  PROVE  /\ Age(c) \in Nat /\ Age(c) <= TickTime
         /\ \A t \in Timers : Tracked(c, t) => left[t] >= -Late
<1>1. Age(c) \in Nat /\ Age(c) <= TickTime
  <2>1. CASE tick[c] = Outside
    BY <2>1, Sizes DEF Age
  <2>2. CASE tick[c] # Outside
    <3>1. tick[c].now \in Time /\ time \in Time
      BY <2>2, TypeFacts DEF TickTyped, TimerTypeOK
    <3>2. Age(c) \in Time
      BY <2>2, <3>1, Difference DEF Age
    <3> QED
      BY <3>2, Sizes DEF Time, CpuInv, LateOK
  <2> QED
    BY <2>1, <2>2
<1>2. ASSUME NEW t \in Timers, Tracked(c, t)
      PROVE  left[t] >= -Late
  <2>0. left[t] \in Int
    BY TimerFacts
  <2>1. CASE t \in Range(queue[c])
    <3>1. left[t] >= -(Latency + Slack) - Age(c)
      BY <2>1 DEF CpuInv, LateOK
    <3> QED
      BY <1>1, <2>0, <3>1, Sizes
  <2>2. CASE setting[t] # NotSetting
    <3>1. setting[t].delay >= 1 /\ setting[t].delay - SetTime <= left[t] /\ setting[t].delay \in Nat
      BY <2>2, TimerFacts DEF CpuInv, SettingOK
    <3> QED
      BY <2>0, <3>1, Sizes
  <2> QED
    BY <1>2, <2>1, <2>2 DEF Tracked
<1> QED
  BY <1>1, <1>2

LEMMA CallIsCall ==
  ASSUME NEW by \in CPUs \cup {"thread"}, NEW delay \in Nat
  PROVE  /\ [by |-> by, delay |-> delay] \in Calls
         /\ [by |-> by, delay |-> delay] # NotSetting
         /\ NotSetting.by = "nobody"
<1>1. NotSetting.by = "nobody"
  BY DEF NotSetting
<1>2. by # "nobody"
  BY TimerAssumption
<1>3. [by |-> by, delay |-> delay].by = by
  OBVIOUS
<1> QED
  BY <1>1, <1>2, <1>3 DEF Calls

LEMMA TimerInitInv ==
  ASSUME DelaysFit, NEW c, CPUs = {c}, Init
  PROVE  TimerTypeOK /\ CpuInv(c)
<1>1. queue[c] = <<>> /\ tick[c] = Outside /\ \A t \in Timers : setting[t] = NotSetting
  BY DEF Init
<1>2. Range(<<>>) = {}
  BY EmptyList
<1>3. Outside.phase = "outside" /\ TickTyped(Outside)
  BY DEF Outside, TickTyped
<1>4. TimerTypeOK
  <2>1. 0 \in Time
    BY Sizes DEF Time
  <2>2. \A S : <<>> \in Seq(S)
    BY EmptyList
  <2> QED
    BY <1>3, <2>1, <2>2 DEF Init, TimerTypeOK
<1>5. Sorted(queue[c], left)
  BY <1>1 DEF Sorted
<1>6. Age(c) = 0
  BY <1>1 DEF Age
<1> QED
  BY <1>1, <1>2, <1>3, <1>4, <1>5, <1>6, Sizes
     DEF Init, CpuInv, SettingOK, TickOK, CallbackOK, TimeOK, LateOK, ArmedOK, Tracked

(***************************************************************************)
(* A millisecond passes.                                                   *)
(***************************************************************************)
LEMMA ClockInv ==
  ASSUME DelaysFit, TimerTypeOK, NEW c, CPUs = {c}, CpuInv(c), clock
  PROVE  TimerTypeOK' /\ CpuInv(c)'
<1>0. /\ Modulus \in Nat \ {0} /\ Half \in Nat \ {0} /\ 2 * Half <= Modulus
      /\ Latency \in Nat /\ TickTime \in Nat /\ Slack \in Nat /\ Late \in Nat
      /\ TickTime <= Late /\ 1 + Late < Half
  BY Sizes
<1>1. /\ time \in Time /\ time' \in Time
      /\ time' = IF time + 1 < Modulus THEN time + 1 ELSE (time + 1) - Modulus
  <2>1. 1 \in Nat /\ 1 < Modulus
    BY <1>0
  <2> QED
    BY <2>1, Later DEF clock, TimerTypeOK
<1>2. /\ UNCHANGED <<queue, scheduled, periodic, callback, tick, setting>>
      /\ hw' = [d \in CPUs |-> IF hw[d] = OFF THEN OFF ELSE hw[d] - 1]
      /\ left' = [t \in Timers |-> IF Queued(t) \/ setting[t] # NotSetting
                                      THEN left[t] - 1 ELSE left[t]]
  BY DEF clock
<1>3. \A t \in Timers : left[t] \in Int /\ left'[t] = IF Tracked(c, t) THEN left[t] - 1 ELSE left[t]
  BY <1>2, QueuedIs, TimerFacts DEF Tracked
<1>4. hw'[c] = IF hw[c] = OFF THEN OFF ELSE hw[c] - 1
  BY <1>2
<1>5. TimerTypeOK'
  <2>1. left' \in [Timers -> Int]
    BY <1>2, <1>3
  <2>2. hw' \in [CPUs -> Int \cup {OFF}]
    BY <1>2 DEF TimerTypeOK
  <2> QED
    BY <1>1, <1>2, <2>1, <2>2 DEF TimerTypeOK
<1>6. /\ queue[c] \in Seq(Timers) /\ \A t \in Range(queue[c]) : t \in Timers
      /\ TickTyped(tick[c]) /\ hw[c] \in Int \cup {OFF}
  BY TypeFacts
<1>7. \A t \in Timers : Tracked(c, t)' <=> Tracked(c, t)
  BY <1>2 DEF Tracked
<1>8. SettingOK(c)'
  <2> SUFFICES ASSUME NEW t \in Timers, setting[t] # NotSetting
               PROVE  /\ t \notin Range(queue[c]) /\ callback[t]
                      /\ setting[t].delay >= 1 /\ Fits(setting[t].delay)
                      /\ setting[t].delay - SetTime <= left'[t] /\ left'[t] <= setting[t].delay
                      /\ setting[t].by # "thread" => tick[c].phase = "callback"
    BY <1>2 DEF SettingOK
  <2>1. left[t] > setting[t].delay - SetTime
    BY DEF clock
  <2>2. setting[t].delay \in Nat /\ left[t] \in Int /\ SetTime \in Nat
    BY TimerFacts, Sizes
  <2>3. left'[t] = left[t] - 1
    BY <1>3 DEF Tracked
  <2>4. /\ t \notin Range(queue[c]) /\ callback[t]
        /\ setting[t].delay >= 1 /\ Fits(setting[t].delay) /\ left[t] <= setting[t].delay
        /\ setting[t].by # "thread" => tick[c].phase = "callback"
    BY DEF CpuInv, SettingOK
  <2>5. setting[t].delay - SetTime <= left'[t] /\ left'[t] <= setting[t].delay
    BY <2>1, <2>2, <2>3, <2>4
  <2> QED
    BY <2>4, <2>5
<1>9. TickOK(c)'
  <2>1. tick[c].phase = "dequeued" => tick[c].timer \in Timers
    BY <1>6 DEF TickTyped
  <2> QED
    BY <1>2, <1>3, <1>7, <2>1 DEF TickOK, CpuInv
<1>10. CallbackOK(c)'
  BY <1>2 DEF CallbackOK, CpuInv
<1>11. TimeOK(c)'
  <2> SUFFICES ASSUME NEW t \in Timers, Tracked(c, t)
               PROVE  Fits(left'[t]) /\ Due(scheduled[t], time', left'[t])
    BY <1>2, <1>7 DEF TimeOK
  <2>1. Fits(left[t]) /\ Due(scheduled[t], time, left[t])
    BY DEF CpuInv, TimeOK
  <2>2. left[t] >= -Late /\ scheduled[t] \in Time /\ left[t] \in Int /\ left'[t] = left[t] - 1
    BY <1>3, Late1, TimerFacts
  <2>3. Fits(left'[t])
    BY <1>0, <2>1, <2>2 DEF Fits
  <2>4. Due(scheduled[t], time', left'[t])
    BY <1>0, <1>1, <2>1, <2>2 DEF Due, Time, Fits
  <2> QED
    BY <2>3, <2>4
<1>12. Age(c) \in Nat /\ Age(c) <= TickTime
  BY Late1
<1>13. ASSUME tick[c] # Outside
       PROVE  Age(c)' = Age(c) + 1 /\ Age(c) < TickTime
  <2>1. tick[c].now \in Time
    BY <1>6, <1>13 DEF TickTyped
  <2>2. Age(c) = (time - tick[c].now) % Modulus /\ Age(c)' = (time' - tick[c].now) % Modulus
    BY <1>2, <1>13 DEF Age
  <2>3. Age(c) < TickTime
    BY <1>13, <2>2 DEF clock
  <2>4. /\ Age(c) = IF time >= tick[c].now THEN time - tick[c].now ELSE (time - tick[c].now) + Modulus
        /\ Age(c)' = IF time' >= tick[c].now THEN time' - tick[c].now
                                             ELSE (time' - tick[c].now) + Modulus
    BY <1>1, <2>1, <2>2, Difference
  <2> DEFINE now == tick[c].now
             g == Age(c)
             h == Age(c)'
  <2>5. /\ now \in Time /\ g \in Nat /\ g < TickTime
        /\ g = IF time >= now THEN time - now ELSE (time - now) + Modulus
        /\ h = IF time' >= now THEN time' - now ELSE (time' - now) + Modulus
    BY <1>12, <2>1, <2>3, <2>4
  <2> HIDE DEF now, g, h
  <2>6. h = g + 1
    BY <1>0, <1>1, <2>5 DEF Time
  <2> QED
    BY <2>3, <2>6 DEF g, h
<1>14. ASSUME tick[c] = Outside
       PROVE  Age(c)' = 0
  BY <1>2, <1>14 DEF Age
<1>15. ASSUME tick[c] = Outside, queue[c] # <<>>
       PROVE  /\ hw[c] \in Int /\ hw'[c] = hw[c] - 1 /\ hw'[c] # OFF /\ hw'[c] >= -Latency
              /\ Head(queue[c]) \in Timers /\ Head(queue[c]) \in Range(queue[c])
              /\ hw'[c] <= left'[Head(queue[c])] + Slack
  <2>1. hw[c] # OFF /\ hw[c] >= -Latency /\ hw[c] <= left[Head(queue[c])] + Slack
    BY <1>15 DEF CpuInv, ArmedOK
  <2>2. hw[c] > -Latency
    BY <1>15, <2>1 DEF clock
  <2>3. hw[c] \in Int /\ hw'[c] = hw[c] - 1 /\ hw'[c] # OFF
    BY <1>4, <1>6, <2>1, TimerAssumption
  <2>4. Head(queue[c]) \in Timers /\ Head(queue[c]) \in Range(queue[c])
    BY <1>6, <1>15, TailLemma
  <2>5. left[Head(queue[c])] \in Int /\ left'[Head(queue[c])] = left[Head(queue[c])] - 1
    BY <1>3, <2>4 DEF Tracked
  <2> QED
    BY <1>0, <2>1, <2>2, <2>3, <2>4, <2>5
<1>16. ArmedOK(c)'
  BY <1>2, <1>15 DEF ArmedOK
<1>17. Sorted(queue[c], left)' /\ Sorted(queue[c], left)
  <2>1. \A i \in DOMAIN queue[c] : queue[c][i] \in Timers /\ Tracked(c, queue[c][i])
    BY <1>6 DEF Tracked, Range
  <2>2. \A i \in DOMAIN queue[c] : /\ left[queue[c][i]] \in Int
                                   /\ left'[queue[c][i]] = left[queue[c][i]] - 1
    BY <1>3, <2>1
  <2>3. Sorted(queue[c], left)
    BY DEF CpuInv
  <2>4. Sorted(queue[c], left)'
    <3> SUFFICES ASSUME NEW i \in DOMAIN queue[c], NEW j \in DOMAIN queue[c], i < j
                 PROVE  queue[c][i] # queue[c][j] /\ left'[queue[c][i]] <= left'[queue[c][j]]
      BY <1>2 DEF Sorted
    <3>1. queue[c][i] # queue[c][j] /\ left[queue[c][i]] <= left[queue[c][j]]
      BY <2>3 DEF Sorted
    <3>2. /\ left[queue[c][i]] \in Int /\ left[queue[c][j]] \in Int
          /\ left'[queue[c][i]] = left[queue[c][i]] - 1 /\ left'[queue[c][j]] = left[queue[c][j]] - 1
      BY <2>2
    <3> QED
      BY <3>1, <3>2
  <2> QED
    BY <2>3, <2>4
<1>18. LateOK(c)'
  <2>1. CASE tick[c] = Outside
    <3>1. ASSUME NEW t \in Range(queue[c])
          PROVE  left'[t] >= -(Latency + Slack) - 0
      <4> DEFINE h == Head(queue[c])
      <4>1. queue[c] # <<>> /\ h \in Timers /\ left[h] <= left[t] /\ t \in Timers
        <5>1. left \in [Timers -> Int]
          BY DEF TimerTypeOK
        <5> QED
          BY <1>6, <1>17, <5>1, HeadFirst
      <4>2. hw[c] \in Int /\ hw'[c] >= -Latency /\ hw'[c] <= left'[h] + Slack /\ h \in Range(queue[c])
            /\ hw'[c] = hw[c] - 1
        BY <1>15, <2>1, <4>1
      <4>3. /\ left'[h] = left[h] - 1 /\ left'[t] = left[t] - 1
            /\ left[h] \in Int /\ left[t] \in Int
        BY <1>3, <4>1, <4>2 DEF Tracked
      <4> HIDE DEF h
      <4> QED
        BY <1>0, <4>1, <4>2, <4>3
    <3> QED
      BY <1>0, <1>2, <1>14, <2>1, <3>1 DEF LateOK
  <2>2. CASE tick[c] # Outside
    <3>1. ASSUME NEW t \in Range(queue[c])
          PROVE  left'[t] >= -(Latency + Slack) - (Age(c) + 1)
      <4>1. left[t] >= -(Latency + Slack) - Age(c)
        BY DEF CpuInv, LateOK
      <4>2. left[t] \in Int /\ left'[t] = left[t] - 1
        BY <1>3, <1>6 DEF Tracked
      <4> QED
        BY <1>0, <1>12, <4>1, <4>2
    <3>2. Age(c)' = Age(c) + 1 /\ Age(c)' <= TickTime
      BY <1>0, <1>12, <1>13, <2>2
    <3> QED
      BY <1>2, <3>1, <3>2 DEF LateOK
  <2> QED
    BY <2>1, <2>2
<1> QED
  BY <1>5, <1>8, <1>9, <1>10, <1>11, <1>16, <1>17, <1>18 DEF CpuInv

(***************************************************************************)
(* The interrupt.                                                          *)
(***************************************************************************)
LEMMA PlatformTickInv ==
  ASSUME DelaysFit, TimerTypeOK, NEW c, CPUs = {c}, CpuInv(c), platform_tick(c)
  PROVE  TimerTypeOK' /\ CpuInv(c)'
<1> DEFINE k == [phase |-> "entered", now |-> time]
<1>1. /\ tick[c] = Outside
      /\ hw' = [hw EXCEPT ![c] = OFF] /\ tick' = [tick EXCEPT ![c] = k]
      /\ UNCHANGED <<time, queue, scheduled, periodic, callback, setting, left>>
  BY DEF platform_tick
<1>2. k.phase = "entered" /\ k.now = time /\ Outside.phase = "outside" /\ k # Outside
  <2>1. k.phase = "entered" /\ k.now = time /\ Outside.phase = "outside"
    BY DEF Outside
  <2> QED
    BY <2>1
<1> HIDE DEF k
<1>3. tick'[c] = k /\ DOMAIN tick' = CPUs
  BY <1>1 DEF TimerTypeOK
<1>4. time \in Time
  BY DEF TimerTypeOK
<1>5. TickTyped(k)
  BY <1>2, <1>4 DEF TickTyped
<1>6. TimerTypeOK'
  <2>1. \A d \in CPUs : TickTyped(tick'[d])
    BY <1>3, <1>5
  <2>2. hw' \in [CPUs -> Int \cup {OFF}]
    BY <1>1 DEF TimerTypeOK
  <2> QED
    BY <1>1, <1>3, <2>1, <2>2 DEF TimerTypeOK
<1>7. Age(c) = 0 /\ Age(c)' = 0
  <2>1. Age(c) = 0
    BY <1>1 DEF Age
  <2>2. Age(c)' = (time - time) % Modulus
    BY <1>1, <1>2, <1>3 DEF Age
  <2>3. (time - time) % Modulus = 0
    <3>1. (time - time) % Modulus = IF time >= time THEN time - time ELSE (time - time) + Modulus
      BY <1>4, Difference
    <3> QED
      BY <1>4, <3>1 DEF Time
  <2> QED
    BY <2>1, <2>2, <2>3
<1>8. SettingOK(c)'
  BY <1>1, <1>2 DEF SettingOK, CpuInv
<1>9. TickOK(c)'
  BY <1>2, <1>3 DEF TickOK
<1>10. CallbackOK(c)' /\ TimeOK(c)' /\ Sorted(queue[c], left)'
  BY <1>1 DEF CallbackOK, TimeOK, CpuInv, Tracked, Sorted
<1>11. LateOK(c)'
  BY <1>1, <1>7 DEF LateOK, CpuInv
<1>12. ArmedOK(c)'
  BY <1>2, <1>3 DEF ArmedOK
<1> QED
  BY <1>6, <1>8, <1>9, <1>10, <1>11, <1>12 DEF CpuInv

(***************************************************************************)
(* timer_set and timer_cancel.                                             *)
(***************************************************************************)
LEMMA SetInv ==
  ASSUME DelaysFit, TimerTypeOK, NEW c, CPUs = {c}, CpuInv(c),
         tick[c].phase \in {"outside", "callback"},
         NEW t \in Timers, NEW delay \in Nat, delay >= 1, Fits(delay), NEW period \in {0, delay},
         timer_set(Context(c), t, delay, period)
  PROVE  TimerTypeOK' /\ CpuInv(c)'
<1> DEFINE by == Context(c)
           k == [by |-> by, delay |-> delay]
<1>0. /\ Modulus \in Nat \ {0} /\ Half \in Nat \ {0} /\ 2 * Half <= Modulus
      /\ SetTime \in Nat /\ Late \in Nat
  BY Sizes
<1>1. /\ t \notin Range(queue[c]) /\ setting[t] = NotSetting
      /\ scheduled' = [scheduled EXCEPT ![t] = (time + delay) % Modulus]
      /\ periodic' = [periodic EXCEPT ![t] = period]
      /\ callback' = [callback EXCEPT ![t] = TRUE]
      /\ setting' = [setting EXCEPT ![t] = k]
      /\ left' = [left EXCEPT ![t] = delay]
      /\ UNCHANGED <<time, queue, hw, tick>>
  BY QueuedIs DEF timer_set
<1>2. /\ by \in CPUs \cup {"thread"}
      /\ by # "thread" => tick[c].phase = "callback"
      /\ tick[c].phase = "callback" => by # "thread"
  <2>1. c # "thread"
    BY TimerAssumption
  <2> QED
    BY <2>1 DEF Context
<1> HIDE DEF by
<1>3. k \in Calls /\ k # NotSetting /\ k.by = by /\ k.delay = delay
  <2>1. k \in Calls /\ k # NotSetting
    BY <1>2, CallIsCall
  <2> QED
    BY <2>1
<1> HIDE DEF k
<1>4. /\ time \in Time /\ delay < Modulus
      /\ (time + delay) % Modulus \in Time
      /\ (time + delay) % Modulus = IF time + delay < Modulus THEN time + delay
                                                             ELSE (time + delay) - Modulus
  <2>1. time \in Time
    BY DEF TimerTypeOK
  <2>2. delay < Modulus
    BY <1>0 DEF Fits
  <2> QED
    BY <2>1, <2>2, Later
<1>5. TimerTypeOK'
  <2>1. scheduled' \in [Timers -> Time] /\ periodic' \in [Timers -> Nat]
    BY <1>1, <1>4 DEF TimerTypeOK
  <2>2. callback' \in [Timers -> BOOLEAN] /\ left' \in [Timers -> Int]
    BY <1>1 DEF TimerTypeOK
  <2>3. setting' \in [Timers -> Calls \cup {NotSetting}]
    BY <1>1, <1>3 DEF TimerTypeOK
  <2> QED
    BY <1>1, <2>1, <2>2, <2>3 DEF TimerTypeOK
<1>6. /\ scheduled'[t] = (time + delay) % Modulus /\ periodic'[t] = period
      /\ setting'[t] = k /\ left'[t] = delay
      /\ \A u \in Timers \ {t} : /\ scheduled'[u] = scheduled[u] /\ periodic'[u] = periodic[u]
                                  /\ setting'[u] = setting[u] /\ left'[u] = left[u]
  BY <1>1 DEF TimerTypeOK
<1>7. /\ callback'[t]
      /\ \A u \in Timers \ {t} : callback'[u] <=> callback[u]
  BY <1>1 DEF TimerTypeOK
<1>8. \A u \in Range(queue[c]) : u \in Timers /\ u # t
  BY <1>1, TypeFacts
<1>9. SettingOK(c)'
  <2> SUFFICES ASSUME NEW u \in Timers, setting'[u] # NotSetting
               PROVE  /\ u \notin Range(queue[c]) /\ callback'[u]
                      /\ setting'[u].delay >= 1 /\ Fits(setting'[u].delay)
                      /\ setting'[u].delay - SetTime <= left'[u] /\ left'[u] <= setting'[u].delay
                      /\ setting'[u].by # "thread" => tick[c].phase = "callback"
    BY <1>1 DEF SettingOK
  <2>1. CASE u = t
    BY <1>0, <1>1, <1>2, <1>3, <1>6, <1>7, <2>1
  <2>2. CASE u # t
    BY <1>6, <1>7, <2>2 DEF CpuInv, SettingOK
  <2> QED
    BY <2>1, <2>2
<1>10. TickOK(c)'
  <2>1. tick[c].phase # "dequeued"
    OBVIOUS
  <2>2. ASSUME tick[c].phase = "callback"
        PROVE  setting'[tick[c].timer].by # "thread"
    <3>1. tick[c].timer \in Timers /\ setting[tick[c].timer].by # "thread"
      BY <2>2, TypeFacts DEF TickTyped, CpuInv, TickOK
    <3> QED
      BY <1>2, <1>3, <1>6, <2>2, <3>1
  <2> QED
    BY <1>1, <2>1, <2>2 DEF TickOK
<1>11. CallbackOK(c)'
  <2> SUFFICES ASSUME NEW u \in Timers
               PROVE  /\ periodic'[u] > 0 => callback'[u] /\ Fits(periodic'[u])
                      /\ u \in Range(queue[c]) => callback'[u]
    BY <1>1 DEF CallbackOK
  <2>1. CASE u = t
    <3>1. periodic'[u] > 0 => Fits(periodic'[u])
      BY <1>6, <2>1
    <3> QED
      BY <1>1, <1>7, <2>1, <3>1
  <2>2. CASE u # t
    <3>1. periodic'[u] = periodic[u] /\ (callback'[u] <=> callback[u])
      BY <1>6, <1>7, <2>2
    <3>2. /\ periodic[u] > 0 => callback[u] /\ Fits(periodic[u])
          /\ u \in Range(queue[c]) => callback[u]
      BY Zenon DEF CpuInv, CallbackOK
    <3> QED
      BY <3>1, <3>2, Zenon
  <2> QED
    BY <2>1, <2>2
<1>12. TimeOK(c)'
  <2> SUFFICES ASSUME NEW u \in Timers, u \in Range(queue[c]) \/ setting'[u] # NotSetting
               PROVE  Fits(left'[u]) /\ Due(scheduled'[u], time, left'[u])
    BY <1>1 DEF TimeOK, Tracked
  <2>1. CASE u = t
    <3>1. Due(scheduled'[t], time, delay)
      BY <1>0, <1>4, <1>6 DEF Due, Time
    <3> QED
      BY <1>6, <2>1, <3>1
  <2>2. CASE u # t
    BY <1>6, <2>2 DEF CpuInv, TimeOK, Tracked
  <2> QED
    BY <2>1, <2>2
<1>13. \A u \in Range(queue[c]) : left'[u] = left[u]
  BY <1>6, <1>8
<1>14. Age(c)' = Age(c)
  BY <1>1 DEF Age
<1>15. LateOK(c)'
  BY <1>1, <1>13, <1>14 DEF LateOK, CpuInv
<1>16. ArmedOK(c)'
  <2>1. queue[c] # <<>> => left'[Head(queue[c])] = left[Head(queue[c])]
    BY <1>13, TypeFacts, TailLemma
  <2> QED
    BY <1>1, <2>1 DEF ArmedOK, CpuInv
<1>17. Sorted(queue[c], left')
  BY <1>13, SortedSame DEF CpuInv
<1>18. Sorted(queue[c], left)'
  BY <1>1, <1>17
<1> QED
  BY <1>5, <1>9, <1>10, <1>11, <1>12, <1>15, <1>16, <1>18 DEF CpuInv

\* The timers of the queue and a new one are compared rightly.
LEMMA InsertCompare ==
  ASSUME DelaysFit, TimerTypeOK, NEW c, CPUs = {c}, CpuInv(c),
         NEW expiry \in Time, NEW x \in Int, Fits(x), x >= -Late, Due(expiry, time, x)
  PROVE  \A u \in Range(queue[c]) : TIME_GT(scheduled[u], expiry) <=> left[u] > x
<1> SUFFICES ASSUME NEW u \in Range(queue[c])
             PROVE  TIME_GT(scheduled[u], expiry) <=> left[u] > x
  OBVIOUS
<1>1. u \in Timers /\ Tracked(c, u)
  BY TypeFacts DEF Tracked
<1>2. scheduled[u] \in Time /\ left[u] \in Int /\ left[u] >= -Late /\ time \in Time
  BY <1>1, TimerFacts, Late1 DEF TimerTypeOK
<1>3. Fits(left[u]) /\ Due(scheduled[u], time, left[u])
  BY <1>1 DEF CpuInv, TimeOK
<1> QED
  BY <1>2, <1>3, Compare

LEMMA SetInsertInv ==
  ASSUME DelaysFit, TimerTypeOK, NEW c, CPUs = {c}, CpuInv(c), NEW t \in Timers,
         timer_set_insert(c, t)
  PROVE  TimerTypeOK' /\ CpuInv(c)'
<1> DEFINE q == insert_timer_in_queue(queue[c], t, scheduled[t])
           delay == setting[t].delay
<1>0. /\ Modulus \in Nat \ {0} /\ Half \in Nat \ {0} /\ 2 * Half <= Modulus
      /\ SetTime \in Nat /\ Late \in Nat /\ Slack \in Nat /\ SetTime <= Slack /\ Latency \in Nat
  BY Sizes
<1>1. /\ setting[t] # NotSetting
      /\ tick[c].phase \in {"outside", "callback"}
      /\ setting' = [setting EXCEPT ![t] = NotSetting]
      /\ queue' = [queue EXCEPT ![c] = q]
      /\ IF Head(q) = t THEN platform_set_oneshot_timer(c, delay) ELSE UNCHANGED hw
      /\ UNCHANGED <<time, scheduled, periodic, callback, tick, left>>
  BY DEF timer_set_insert
<1>2. /\ t \notin Range(queue[c]) /\ callback[t] /\ delay >= 1 /\ delay \in Nat
      /\ delay - SetTime <= left[t] /\ left[t] \in Int
  BY <1>1, TimerFacts DEF CpuInv, SettingOK
<1>3. Tracked(c, t)
  BY <1>1 DEF Tracked
<1>4. Fits(left[t]) /\ Due(scheduled[t], time, left[t]) /\ left[t] >= -Late /\ scheduled[t] \in Time
  BY <1>3, Late1, TimerFacts DEF CpuInv, TimeOK
<1>5. /\ q \in Seq(Timers) /\ Sorted(q, left) /\ Range(q) = Range(queue[c]) \cup {t}
      /\ q # <<>> /\ (Head(q) = t \/ (queue[c] # <<>> /\ Head(q) = Head(queue[c])))
  <2>1. \A u \in Range(queue[c]) : TIME_GT(scheduled[u], scheduled[t]) <=> left[u] > left[t]
    BY <1>2, <1>4, InsertCompare
  <2>2. queue[c] \in Seq(Timers) /\ left \in [Timers -> Int] /\ Sorted(queue[c], left)
    BY TypeFacts DEF TimerTypeOK, CpuInv
  <2> QED
    BY <1>2, <2>1, <2>2, InsertQueue
<1> HIDE DEF q, delay
<1>6. Head(q) = t => hw' = [hw EXCEPT ![c] = delay]
  BY <1>1, <1>2 DEF platform_set_oneshot_timer
<1>7. queue'[c] = q
  BY <1>1 DEF TimerTypeOK
<1>8. TimerTypeOK'
  <2>1. queue' \in [CPUs -> Seq(Timers)]
    BY <1>1, <1>5 DEF TimerTypeOK
  <2>2. setting' \in [Timers -> Calls \cup {NotSetting}]
    BY <1>1 DEF TimerTypeOK
  <2>3. hw' \in [CPUs -> Int \cup {OFF}]
    <3>1. CASE Head(q) = t
      BY <1>2, <1>6, <3>1 DEF TimerTypeOK
    <3>2. CASE Head(q) # t
      BY <1>1, <3>2 DEF TimerTypeOK
    <3> QED
      BY <3>1, <3>2
  <2> QED
    BY <1>1, <2>1, <2>2, <2>3 DEF TimerTypeOK
<1>9. /\ setting'[t] = NotSetting
      /\ \A u \in Timers \ {t} : setting'[u] = setting[u]
  BY <1>1 DEF TimerTypeOK
<1>10. SettingOK(c)'
  <2> SUFFICES ASSUME NEW u \in Timers, setting'[u] # NotSetting
               PROVE  /\ u \notin Range(q) /\ callback[u]
                      /\ setting'[u].delay >= 1 /\ Fits(setting'[u].delay)
                      /\ setting'[u].delay - SetTime <= left[u] /\ left[u] <= setting'[u].delay
                      /\ setting'[u].by # "thread" => tick[c].phase = "callback"
    BY <1>1, <1>7 DEF SettingOK
  <2>1. u # t /\ setting'[u] = setting[u]
    BY <1>9
  <2> QED
    BY <1>5, <2>1 DEF CpuInv, SettingOK
<1>11. TickOK(c)'
  <2>1. ASSUME tick[c].phase = "callback"
        PROVE  setting'[tick[c].timer].by # "thread"
    <3>1. tick[c].timer \in Timers /\ setting[tick[c].timer].by # "thread"
      BY <2>1, TypeFacts DEF TickTyped, CpuInv, TickOK
    <3>2. NotSetting.by = "nobody"
      BY DEF NotSetting
    <3> QED
      BY <1>9, <3>1, <3>2
  <2> QED
    BY <1>1, <2>1 DEF TickOK
<1>12. CallbackOK(c)'
  BY <1>1, <1>2, <1>5, <1>7 DEF CallbackOK, CpuInv
<1>13. TimeOK(c)'
  <2> SUFFICES ASSUME NEW u \in Timers, u \in Range(q) \/ setting'[u] # NotSetting
               PROVE  Fits(left[u]) /\ Due(scheduled[u], time, left[u])
    BY <1>1, <1>7 DEF TimeOK, Tracked
  <2>1. Tracked(c, u)
    BY <1>3, <1>5, <1>9 DEF Tracked
  <2> QED
    BY <2>1 DEF CpuInv, TimeOK
<1>14. Age(c)' = Age(c) /\ Age(c) \in Nat
  BY <1>1, Late1 DEF Age
<1>15. LateOK(c)'
  <2>1. left[t] >= -(Latency + Slack) - Age(c)
    BY <1>0, <1>2, <1>14
  <2> QED
    BY <1>1, <1>5, <1>7, <1>14, <2>1 DEF LateOK, CpuInv
<1>16. ArmedOK(c)'
  <2> SUFFICES ASSUME tick[c] = Outside
               PROVE  hw'[c] # OFF /\ hw'[c] >= -Latency /\ hw'[c] <= left[Head(q)] + Slack
    BY <1>1, <1>7 DEF ArmedOK
  <2>1. CASE Head(q) = t
    <3>1. hw'[c] = delay
      BY <1>6, <2>1 DEF TimerTypeOK
    <3>2. delay # OFF
      BY <1>2, TimerAssumption
    <3> QED
      BY <1>0, <1>2, <2>1, <3>1, <3>2
  <2>2. CASE Head(q) # t
    BY <1>1, <1>5, <2>2 DEF CpuInv, ArmedOK
  <2> QED
    BY <2>1, <2>2
<1>17. Sorted(queue[c], left)'
  BY <1>1, <1>5, <1>7
<1> QED
  BY <1>8, <1>10, <1>11, <1>12, <1>13, <1>15, <1>16, <1>17 DEF CpuInv

LEMMA CancelInv ==
  ASSUME DelaysFit, TimerTypeOK, NEW c, CPUs = {c}, CpuInv(c), NEW t \in Timers,
         timer_cancel(c, t)
  PROVE  TimerTypeOK' /\ CpuInv(c)'
<1> DEFINE f == [d \in CPUs |-> RemoveFirst(queue[d], t)]
           q == RemoveFirst(queue[c], t)
           n == Head(q)
           delay == IF TIME_LT(scheduled[n], time) THEN 0 ELSE (scheduled[n] - time) % Modulus
<1>0. /\ Modulus \in Nat \ {0} /\ Half \in Nat \ {0} /\ 2 * Half <= Modulus
      /\ Late \in Nat /\ Slack \in Nat /\ Latency \in Nat /\ 1 + Late < Half
  BY Sizes
<1>1. /\ setting[t] = NotSetting
      /\ tick[c].phase \in {"outside", "callback"}
      /\ queue' = f
      /\ periodic' = [periodic EXCEPT ![t] = 0]
      /\ callback' = [callback EXCEPT ![t] = FALSE]
      /\ left' = [left EXCEPT ![t] = 0]
      /\ UNCHANGED <<time, scheduled, tick, setting>>
  BY DEF timer_cancel
<1>2. f[c] = q
  OBVIOUS
<1>3. /\ q = <<>> => hw' = [hw EXCEPT ![c] = OFF]
      /\ q # <<>> /\ n # Head(queue[c]) => platform_set_oneshot_timer(c, delay)
      /\ q # <<>> /\ n = Head(queue[c]) => hw' = hw
  BY <1>2 DEF timer_cancel
<1>4. /\ queue[c] \in Seq(Timers) /\ left \in [Timers -> Int] /\ Sorted(queue[c], left)
      /\ hw[c] \in Int \cup {OFF} /\ time \in Time /\ scheduled \in [Timers -> Time]
  BY TypeFacts DEF TimerTypeOK, CpuInv
<1>5. q \in Seq(Timers) /\ Sorted(q, left) /\ Range(q) = Range(queue[c]) \ {t}
  BY <1>4, RemoveSorted
<1>6. queue'[c] = q
  BY <1>1, <1>2
<1>7. f \in [CPUs -> Seq(Timers)]
  BY <1>5
<1>8. q # <<>> => /\ n \in Range(q) /\ n \in Timers /\ n # t /\ n \in Range(queue[c])
                  /\ queue[c] # <<>>
  <2>1. q # <<>> => n \in Range(q) /\ n \in Timers
    BY <1>5, TailLemma
  <2>2. n \in Range(queue[c]) => queue[c] # <<>>
    BY EmptyList
  <2> QED
    BY <1>5, <2>1, <2>2
<1> HIDE DEF f, q, n
<1>9. ASSUME q # <<>>
      PROVE  delay = IF left[n] < 0 THEN 0 ELSE left[n]
  <2>1. Tracked(c, n) /\ n \in Timers
    BY <1>8, <1>9 DEF Tracked
  <2>2. /\ Fits(left[n]) /\ Due(scheduled[n], time, left[n]) /\ left[n] >= -Late
        /\ scheduled[n] \in Time /\ left[n] \in Int
    BY <2>1, Late1, TimerFacts DEF CpuInv, TimeOK
  <2>3. Fits(0) /\ Due(time, time, 0) /\ 0 >= -Late
    BY <1>0, <1>4 DEF Fits, Due, Time
  <2>4. TIME_LT(scheduled[n], time) <=> left[n] < 0
    BY <1>4, <2>2, <2>3, Compare
  <2>5. (scheduled[n] - time) % Modulus = IF scheduled[n] >= time THEN scheduled[n] - time
                                                         ELSE (scheduled[n] - time) + Modulus
    BY <1>4, <2>2, Difference
  <2> DEFINE g == scheduled[n]
             x == left[n]
             y == (g - time) % Modulus
  <2>6. /\ g \in Time /\ x \in Int /\ x >= -Late /\ x + Late < Half /\ (g - time) - x \in {0, Modulus, -Modulus}
        /\ y = IF g >= time THEN g - time ELSE (g - time) + Modulus
    BY <2>2, <2>5 DEF Due, Fits
  <2> HIDE DEF g, x, y
  <2>7. ~(x < 0) => y = x
    <3>1. /\ g \in Int /\ time \in Int /\ x \in Int /\ Modulus \in Int
          /\ g - time < Modulus /\ x < Modulus
      BY <1>0, <1>4, <2>6 DEF Time
    <3>2. CASE (g - time) - x = 0
      BY <2>6, <3>1, <3>2
    <3>3. CASE (g - time) - x = Modulus
      BY <3>1, <3>3
    <3>4. CASE (g - time) - x = -Modulus
      BY <2>6, <3>1, <3>4
    <3> QED
      BY <2>6, <3>2, <3>3, <3>4
  <2> QED
    BY <2>4, <2>7 DEF g, x, y
<1>10. ASSUME q # <<>>
       PROVE  delay \in Nat
  <2>1. left[n] \in Int
    BY <1>4, <1>8, <1>10
  <2> QED
    BY <1>9, <1>10, <2>1
<1> HIDE DEF delay
<1>11. hw' \in [CPUs -> Int \cup {OFF}]
  <2>0. hw \in [CPUs -> Int \cup {OFF}]
    BY DEF TimerTypeOK
  <2>1. CASE q = <<>>
    BY <1>3, <2>0, <2>1
  <2>2. CASE q # <<>> /\ n # Head(queue[c])
    BY <1>3, <1>10, <2>0, <2>2 DEF platform_set_oneshot_timer
  <2>3. CASE q # <<>> /\ n = Head(queue[c])
    BY <1>3, <2>0, <2>3
  <2> QED
    BY <2>1, <2>2, <2>3
<1>12. TimerTypeOK'
  <2>1. periodic' \in [Timers -> Nat] /\ left' \in [Timers -> Int]
    BY <1>1 DEF TimerTypeOK
  <2>2. callback' \in [Timers -> BOOLEAN]
    BY <1>1 DEF TimerTypeOK
  <2> QED
    BY <1>1, <1>7, <1>11, <2>1, <2>2 DEF TimerTypeOK
<1>13. /\ periodic'[t] = 0
       /\ \A u \in Timers \ {t} : periodic'[u] = periodic[u] /\ left'[u] = left[u]
  BY <1>1 DEF TimerTypeOK
<1>14. \A u \in Timers \ {t} : callback'[u] <=> callback[u]
  BY <1>1 DEF TimerTypeOK
<1>15. SettingOK(c)'
  <2> SUFFICES ASSUME NEW u \in Timers, setting[u] # NotSetting
               PROVE  /\ u \notin Range(q) /\ callback'[u]
                      /\ setting[u].delay >= 1 /\ Fits(setting[u].delay)
                      /\ setting[u].delay - SetTime <= left'[u] /\ left'[u] <= setting[u].delay
                      /\ setting[u].by # "thread" => tick[c].phase = "callback"
    BY <1>1, <1>6 DEF SettingOK
  <2>1. u # t
    BY <1>1
  <2>2. left'[u] = left[u] /\ (callback'[u] <=> callback[u])
    BY <1>13, <1>14, <2>1
  <2>3. /\ u \notin Range(queue[c]) /\ callback[u]
        /\ setting[u].delay >= 1 /\ Fits(setting[u].delay)
        /\ setting[u].delay - SetTime <= left[u] /\ left[u] <= setting[u].delay
        /\ setting[u].by # "thread" => tick[c].phase = "callback"
    BY DEF CpuInv, SettingOK
  <2> QED
    BY <1>5, <2>2, <2>3, Zenon
<1>16. TickOK(c)'
  BY <1>1 DEF TickOK, CpuInv
<1>17. CallbackOK(c)'
  <2> SUFFICES ASSUME NEW u \in Timers
               PROVE  /\ periodic'[u] > 0 => callback'[u] /\ Fits(periodic'[u])
                      /\ u \in Range(q) => callback'[u]
    BY <1>6 DEF CallbackOK
  <2>1. CASE u = t
    <3>1. ~(periodic'[u] > 0) /\ u \notin Range(q)
      BY <1>5, <1>13, <2>1
    <3> QED
      BY <3>1
  <2>2. CASE u # t
    <3>1. periodic'[u] = periodic[u] /\ (callback'[u] <=> callback[u])
      BY <1>13, <1>14, <2>2
    <3>2. /\ periodic[u] > 0 => callback[u] /\ Fits(periodic[u])
          /\ u \in Range(queue[c]) => callback[u]
      BY Zenon DEF CpuInv, CallbackOK
    <3> QED
      BY <1>5, <3>1, <3>2, Zenon
  <2> QED
    BY <2>1, <2>2
<1>18. TimeOK(c)'
  <2> SUFFICES ASSUME NEW u \in Timers, u \in Range(q) \/ setting[u] # NotSetting
               PROVE  Fits(left'[u]) /\ Due(scheduled[u], time, left'[u])
    BY <1>1, <1>6 DEF TimeOK, Tracked
  <2>1. u # t
    BY <1>1, <1>5
  <2>2. Tracked(c, u)
    BY <1>5 DEF Tracked
  <2> QED
    BY <1>13, <2>1, <2>2 DEF CpuInv, TimeOK
<1>19. Age(c)' = Age(c)
  BY <1>1 DEF Age
<1>20. \A u \in Range(q) : u \in Range(queue[c]) /\ left'[u] = left[u]
  BY <1>5, <1>13, TypeFacts
<1>21. LateOK(c)'
  BY <1>6, <1>19, <1>20 DEF LateOK, CpuInv
<1>22. ArmedOK(c)'
  <2> SUFFICES ASSUME tick[c] = Outside, q # <<>>
               PROVE  hw'[c] # OFF /\ hw'[c] >= -Latency /\ hw'[c] <= left'[n] + Slack
    BY <1>1, <1>6 DEF ArmedOK, n
  <2>1. left'[n] = left[n] /\ left[n] \in Int
    BY <1>4, <1>8, <1>13
  <2>2. /\ hw[c] # OFF /\ hw[c] >= -Latency
        /\ hw[c] <= left[Head(queue[c])] + Slack
    BY <1>8 DEF CpuInv, ArmedOK
  <2>3. hw[c] \in Int
    BY <1>4, <2>2
  <2>4. CASE n = Head(queue[c])
    BY <1>3, <2>1, <2>2, <2>4
  <2>5. CASE n # Head(queue[c])
    <3>1. Head(queue[c]) \in Timers /\ left[Head(queue[c])] <= left[n]
      BY <1>4, <1>8, HeadFirst
    <3>2. left[Head(queue[c])] \in Int
      BY <1>4, <3>1
    <3>3. hw[c] <= left[n] + Slack
      BY <1>0, <2>1, <2>2, <2>3, <3>1, <3>2
    <3>4. hw' = IF delay = 0 /\ hw[c] # OFF /\ hw[c] <= 0 THEN hw ELSE [hw EXCEPT ![c] = delay]
      BY <1>3, <2>5 DEF platform_set_oneshot_timer
    <3>5. CASE delay = 0 /\ hw[c] <= 0
      BY <2>1, <2>2, <3>3, <3>4, <3>5
    <3>6. CASE ~(delay = 0 /\ hw[c] <= 0)
      <4>1. hw'[c] = delay
        BY <2>2, <3>4, <3>6 DEF TimerTypeOK
      <4>2. delay \in Nat /\ delay = IF left[n] < 0 THEN 0 ELSE left[n]
        BY <1>9, <1>10
      <4>3. delay # OFF
        BY <4>2, TimerAssumption
      <4>4. delay >= -Latency /\ delay <= left[n] + Slack
        BY <1>0, <2>1, <2>3, <3>3, <3>6, <4>2
      <4> QED
        BY <2>1, <4>1, <4>3, <4>4
    <3> QED
      BY <3>5, <3>6
  <2> QED
    BY <2>4, <2>5
<1>23. Sorted(q, left')
  BY <1>5, <1>20, SortedSame
<1>24. Sorted(queue[c], left)'
  BY <1>6, <1>23
<1> QED
  BY <1>12, <1>15, <1>16, <1>17, <1>18, <1>21, <1>22, <1>24 DEF CpuInv

(***************************************************************************)
(* timer_tick.                                                             *)
(***************************************************************************)
LEMMA TickCallInv ==
  ASSUME DelaysFit, TimerTypeOK, NEW c, CPUs = {c}, CpuInv(c), timer_tick_call(c)
  PROVE  TimerTypeOK' /\ CpuInv(c)'
<1> DEFINE t == tick[c].timer
           k == [phase |-> "callback", now |-> tick[c].now, timer |-> tick[c].timer,
                 periodic |-> periodic[tick[c].timer] > 0]
<1>1. /\ tick[c].phase = "dequeued"
      /\ tick' = [tick EXCEPT ![c] = k]
      /\ left' = [left EXCEPT ![t] = 0]
      /\ UNCHANGED <<time, queue, scheduled, periodic, callback, hw, setting>>
  BY DEF timer_tick_call
<1>2. k.phase = "callback" /\ k.now = tick[c].now /\ k.timer = t
  OBVIOUS
<1>3. Outside.phase = "outside"
  BY DEF Outside
<1> HIDE DEF k
<1>4. k # Outside /\ tick[c] # Outside
  BY <1>1, <1>2, <1>3
<1>5. t \in Timers /\ tick[c].now \in Time
  BY <1>1, TypeFacts DEF TickTyped
<1>6. ~Tracked(c, t)
  BY <1>1 DEF CpuInv, TickOK
<1> HIDE DEF t
<1>7. tick'[c] = k /\ DOMAIN tick' = CPUs
  BY <1>1 DEF TimerTypeOK
<1>8. TickTyped(k)
  BY <1>2, <1>3, <1>4, <1>5 DEF TickTyped
<1>9. TimerTypeOK'
  <2>1. left' \in [Timers -> Int]
    <3>1. left' = [left EXCEPT ![t] = 0] /\ left \in [Timers -> Int]
      BY <1>1 DEF TimerTypeOK
    <3> QED
      BY <1>5, <3>1
  <2>2. \A d \in CPUs : TickTyped(tick'[d])
    BY <1>7, <1>8
  <2> QED
    BY <1>1, <1>7, <2>1, <2>2 DEF TimerTypeOK
<1>10. \A u \in Timers : Tracked(c, u) => left'[u] = left[u]
  BY <1>1, <1>6 DEF TimerTypeOK
<1>11. \A u \in Range(queue[c]) : left'[u] = left[u]
  BY <1>10, TypeFacts DEF Tracked
<1>12. Age(c)' = Age(c)
  BY <1>1, <1>2, <1>4, <1>7 DEF Age
<1>13. SettingOK(c)'
  <2> SUFFICES ASSUME NEW u \in Timers, setting[u] # NotSetting
               PROVE  /\ u \notin Range(queue[c]) /\ callback[u]
                      /\ setting[u].delay >= 1 /\ Fits(setting[u].delay)
                      /\ setting[u].delay - SetTime <= left'[u] /\ left'[u] <= setting[u].delay
    BY <1>1, <1>2, <1>7 DEF SettingOK
  <2>1. left'[u] = left[u]
    BY <1>10 DEF Tracked
  <2> QED
    BY <2>1 DEF CpuInv, SettingOK
<1>14. TickOK(c)'
  <2>1. NotSetting.by = "nobody" /\ setting[t] = NotSetting
    BY <1>6 DEF NotSetting, Tracked
  <2> QED
    BY <1>1, <1>2, <1>7, <2>1 DEF TickOK
<1>15. CallbackOK(c)'
  BY <1>1 DEF CallbackOK, CpuInv
<1>16. TimeOK(c)'
  BY <1>1, <1>10 DEF TimeOK, CpuInv, Tracked
<1>17. LateOK(c)'
  BY <1>1, <1>11, <1>12 DEF LateOK, CpuInv
<1>18. ArmedOK(c)'
  BY <1>4, <1>7 DEF ArmedOK
<1>19. Sorted(queue[c], left')
  BY <1>11, SortedSame DEF CpuInv
<1>20. Sorted(queue[c], left)'
  BY <1>1, <1>19
<1> QED
  BY <1>9, <1>13, <1>14, <1>15, <1>16, <1>17, <1>18, <1>20 DEF CpuInv

\* What the tick compares, and what it sets the hardware timer to: g is the
\* age of the tick that began at now, x the time left at time n until s.
LEMMA HeadDue ==
  ASSUME DelaysFit, NEW n \in Time, NEW now \in Time, NEW s \in Time, NEW x \in Int,
         NEW g \in Nat, g <= TickTime, g = (n - now) % Modulus,
         Fits(x), x >= -(Latency + Slack) - g, Due(s, n, x)
  PROVE  /\ TIME_LT(now, s) <=> g + x >= 1
         /\ g + x >= 1 => (s - now) % Modulus = g + x
<1>1. /\ Modulus \in Nat \ {0} /\ Half \in Nat \ {0} /\ 2 * Half <= Modulus
      /\ Late \in Nat /\ Slack \in Nat /\ Latency \in Nat /\ TickTime \in Nat
      /\ Late = Latency + TickTime + Slack /\ 1 + Late < Half
  BY Sizes
<1>2. g = IF n >= now THEN n - now ELSE (n - now) + Modulus
  BY Difference
<1> DEFINE w == g + x
<1>3. w \in Int /\ -Half < w /\ w < Half
  BY <1>1 DEF Fits
<1>4. (now - s) - (-w) \in {0, Modulus, -Modulus, 2 * Modulus, -(2 * Modulus)}
  BY <1>1, <1>2 DEF Due, Time
<1> HIDE DEF w
<1>5. -w \in Int /\ -Half < -w /\ -w < Half
  BY <1>1, <1>3
<1>6. Signed(now - s) = -w
  BY <1>4, <1>5, SignedIs
<1>7. TIME_LT(now, s) <=> w >= 1
  BY <1>3, <1>6 DEF TIME_LT
<1> DEFINE y == (s - now) % Modulus
<1>8. y \in Time /\ y = IF s >= now THEN s - now ELSE (s - now) + Modulus
  BY Difference
<1> HIDE DEF y
<1>9. y - w \in {0, Modulus, -Modulus, 2 * Modulus, -(2 * Modulus), 3 * Modulus, -(3 * Modulus)}
  BY <1>1, <1>3, <1>4, <1>8 DEF Time
<1>10. w >= 1 => y = w
  BY <1>1, <1>3, <1>8, <1>9 DEF Time
<1> QED
  BY <1>7, <1>10 DEF w, y

\* The queue a periodic timer has been put back into.
LEMMA Requeued ==
  ASSUME DelaysFit, TimerTypeOK, NEW c, CPUs = {c}, CpuInv(c), timer_tick(c)
  PROVE  \E q \in Seq(Timers) :
           /\ timer_tick_dequeue(c, q) \/ timer_tick_end(c, q)
           /\ Sorted(q, left')
           /\ scheduled' \in [Timers -> Time] /\ left' \in [Timers -> Int]
           /\ \A u \in Timers : setting[u] # NotSetting =>
                /\ u \notin Range(q) /\ setting[u].by = "thread"
                /\ left'[u] = left[u] /\ scheduled'[u] = scheduled[u]
           /\ \A u \in Range(q) :
                /\ u \in Timers /\ callback[u]
                /\ Fits(left'[u]) /\ Due(scheduled'[u], time, left'[u])
                /\ left'[u] >= -(Latency + Slack) - Age(c)
<1> DEFINE t == tick[c].timer
           now == tick[c].now
           p == periodic[t]
           expiry == (now + p) % Modulus
           x == p - Age(c)
           old == queue[c]
           q == insert_timer_in_queue(queue[c], t, expiry)
<1>0. /\ Modulus \in Nat \ {0} /\ Half \in Nat \ {0} /\ 2 * Half <= Modulus
      /\ Late \in Nat /\ Slack \in Nat /\ Latency \in Nat /\ TickTime \in Nat /\ TickTime <= Late
  BY Sizes
<1>1. /\ tick[c].phase \in {"entered", "callback"}
      /\ \A u \in Timers : setting[u].by # c
      /\ IF Requeue(c) THEN timer_tick_dequeue(c, q) \/ timer_tick_end(c, q)
                       ELSE timer_tick_dequeue(c, old) \/ timer_tick_end(c, old)
  BY DEF timer_tick
<1>2. tick[c] # Outside /\ Age(c) = (time - now) % Modulus
  <2>1. Outside.phase = "outside"
    BY DEF Outside
  <2> QED
    BY <1>1, <2>1 DEF Age
<1>3. IF Requeue(c) THEN scheduled' = [scheduled EXCEPT ![t] = expiry] /\ left' = [left EXCEPT ![t] = x]
                    ELSE scheduled' = scheduled /\ left' = left
  BY <1>2 DEF timer_tick
<1>4. /\ old \in Seq(Timers) /\ Sorted(old, left) /\ \A u \in Range(old) : u \in Timers
      /\ scheduled \in [Timers -> Time] /\ left \in [Timers -> Int]
      /\ time \in Time /\ now \in Time
  BY <1>1, TypeFacts DEF TimerTypeOK, CpuInv, TickTyped
<1>5. \A u \in Timers : setting[u] # NotSetting => u \notin Range(old) /\ setting[u].by = "thread"
  <2> SUFFICES ASSUME NEW u \in Timers, setting[u] # NotSetting
               PROVE  u \notin Range(old) /\ setting[u].by = "thread"
    OBVIOUS
  <2>1. u \notin Range(old)
    BY DEF CpuInv, SettingOK
  <2>2. setting[u] \in Calls
    BY TimerFacts
  <2>3. setting[u].by \in CPUs \cup {"thread"}
    BY <2>2 DEF Calls
  <2> QED
    BY <1>1, <2>1, <2>3
<1>6. ASSUME NEW u \in Range(old)
      PROVE  /\ callback[u] /\ Fits(left[u]) /\ Due(scheduled[u], time, left[u])
             /\ left[u] >= -(Latency + Slack) - Age(c)
  <2>1. u \in Timers /\ Tracked(c, u)
    BY <1>4 DEF Tracked
  <2>2. callback[u]
    BY <2>1 DEF CpuInv, CallbackOK
  <2>3. Fits(left[u]) /\ Due(scheduled[u], time, left[u])
    BY <2>1 DEF CpuInv, TimeOK
  <2>4. left[u] >= -(Latency + Slack) - Age(c)
    BY DEF CpuInv, LateOK
  <2> QED
    BY <2>2, <2>3, <2>4
<1>7. CASE ~Requeue(c)
  <2> HIDE DEF old, t, now, p, expiry, x, q
  <2>1. timer_tick_dequeue(c, old) \/ timer_tick_end(c, old)
    BY <1>1, <1>7
  <2>2. scheduled' = scheduled /\ left' = left
    BY <1>3, <1>7
  <2> QED
    BY <1>4, <1>5, <1>6, <2>1, <2>2
<1>8. CASE Requeue(c)
  <2>1. t \in Timers /\ t \notin Range(old) /\ p > 0 /\ p \in Nat
    <3>1. tick[c].phase = "callback" /\ t \notin Range(old) /\ p > 0
      BY <1>8, QueuedIs DEF Requeue
    <3>2. t \in Timers
      BY <3>1, TypeFacts DEF TickTyped
    <3> QED
      BY <3>1, <3>2, TimerFacts
  <2>2. setting[t] = NotSetting
    <3>1. setting[t].by # "thread"
      BY <1>8 DEF Requeue, CpuInv, TickOK
    <3> QED
      BY <1>5, <2>1, <3>1
  <2>3. callback[t] /\ Fits(p)
    BY <2>1 DEF CpuInv, CallbackOK
  <2>4. p + Late < Half
    BY <2>3 DEF Fits
  <2> DEFINE g == Age(c)
  <2>5. g \in Nat /\ g <= TickTime
    BY Late1
  <2>6. g = IF time >= now THEN time - now ELSE (time - now) + Modulus
    BY <1>2, <1>4, Difference
  <2> HIDE DEF old, t, now, p
  <2>7. p < Modulus
    BY <1>0, <2>1, <2>4
  <2>8. expiry \in Time /\ expiry = IF now + p < Modulus THEN now + p ELSE (now + p) - Modulus
    BY <1>4, <2>1, <2>7, Later
  <2> HIDE DEF expiry
  <2>9. x = p - g
    OBVIOUS
  <2> HIDE DEF g, x
  <2>10. x \in Int /\ x + Late < Half /\ x >= -Late /\ x >= -(Latency + Slack) - g
    BY <1>0, <2>1, <2>4, <2>5, <2>9
  <2>11. (expiry - time) - x \in {0, Modulus, -Modulus}
    BY <1>0, <1>4, <2>1, <2>5, <2>6, <2>8, <2>9 DEF Time
  <2>12. Fits(x) /\ Due(expiry, time, x)
    BY <2>10, <2>11 DEF Fits, Due
  <2>13. scheduled' = [scheduled EXCEPT ![t] = expiry] /\ left' = [left EXCEPT ![t] = x]
    BY <1>3, <1>8
  <2>14. scheduled' \in [Timers -> Time] /\ left' \in [Timers -> Int]
    BY <1>4, <2>1, <2>8, <2>10, <2>13
  <2>15. /\ scheduled'[t] = expiry /\ left'[t] = x
         /\ \A u \in Timers \ {t} : scheduled'[u] = scheduled[u] /\ left'[u] = left[u]
    BY <1>4, <2>1, <2>13
  <2>16. \A u \in Range(old) : u \in Timers /\ u # t
    BY <1>4, <2>1
  <2>17. Sorted(old, left')
    <3>1. \A u \in Range(old) : left'[u] = left[u]
      BY <2>15, <2>16
    <3> QED
      BY <1>4, <3>1, SortedSame
  <2>18. \A u \in Range(old) : TIME_GT(scheduled[u], expiry) <=> left'[u] > left'[t]
    <3>1. \A u \in Range(old) : TIME_GT(scheduled[u], expiry) <=> left[u] > x
      BY <2>8, <2>10, <2>12, InsertCompare DEF old
    <3> QED
      BY <2>15, <2>16, <3>1
  <2>19. q = insert_timer_in_queue(old, t, expiry)
    BY DEF old
  <2> HIDE DEF q
  <2>20. q \in Seq(Timers) /\ Sorted(q, left') /\ Range(q) = Range(old) \cup {t}
    <3> DEFINE l == left'
    <3>1. old \in Seq(Timers) /\ l \in [Timers -> Int] /\ Sorted(old, l)
      BY <1>4, <2>14, <2>17
    <3>2. t \in Timers /\ t \notin Range(old)
      BY <2>1
    <3>3. \A u \in Range(old) : TIME_GT(scheduled[u], expiry) <=> l[u] > l[t]
      BY <2>18
    <3> HIDE DEF l
    <3>4. /\ insert_timer_in_queue(old, t, expiry) \in Seq(Timers)
          /\ Sorted(insert_timer_in_queue(old, t, expiry), l)
          /\ Range(insert_timer_in_queue(old, t, expiry)) = Range(old) \cup {t}
      BY <3>1, <3>2, <3>3, InsertQueue
    <3> QED
      BY <2>19, <3>4 DEF l
  <2>21. timer_tick_dequeue(c, q) \/ timer_tick_end(c, q)
    BY <1>1, <1>8
  <2>22. ASSUME NEW u \in Timers, setting[u] # NotSetting
         PROVE  /\ u \notin Range(q) /\ setting[u].by = "thread"
                /\ left'[u] = left[u] /\ scheduled'[u] = scheduled[u]
    BY <1>5, <2>2, <2>15, <2>20, <2>22
  <2>23. ASSUME NEW u \in Range(q)
         PROVE  /\ u \in Timers /\ callback[u]
                /\ Fits(left'[u]) /\ Due(scheduled'[u], time, left'[u])
                /\ left'[u] >= -(Latency + Slack) - Age(c)
    <3>1. CASE u = t
      BY <2>1, <2>3, <2>10, <2>12, <2>15, <3>1 DEF g
    <3>2. CASE u \in Range(old)
      BY <1>6, <2>15, <2>16, <3>2
    <3> QED
      BY <2>20, <3>1, <3>2
  <2> QED
    BY <2>14, <2>20, <2>21, <2>22, <2>23
<1> QED
  BY <1>7, <1>8

LEMMA TickInv ==
  ASSUME DelaysFit, TimerTypeOK, NEW c, CPUs = {c}, CpuInv(c), timer_tick(c)
  PROVE  TimerTypeOK' /\ CpuInv(c)'
<1>0. /\ Modulus \in Nat \ {0} /\ Late \in Nat /\ Slack \in Nat /\ Latency \in Nat
      /\ TickTime \in Nat /\ TickTime <= Slack
  BY Sizes
<1>1. PICK q \in Seq(Timers) :
           /\ timer_tick_dequeue(c, q) \/ timer_tick_end(c, q)
           /\ Sorted(q, left')
           /\ scheduled' \in [Timers -> Time] /\ left' \in [Timers -> Int]
           /\ \A u \in Timers : setting[u] # NotSetting =>
                /\ u \notin Range(q) /\ setting[u].by = "thread"
                /\ left'[u] = left[u] /\ scheduled'[u] = scheduled[u]
           /\ \A u \in Range(q) :
                /\ u \in Timers /\ callback[u]
                /\ Fits(left'[u]) /\ Due(scheduled'[u], time, left'[u])
                /\ left'[u] >= -(Latency + Slack) - Age(c)
  BY Requeued
<1>2. /\ tick[c].phase \in {"entered", "callback"}
      /\ UNCHANGED <<time, periodic, callback, setting>>
  BY DEF timer_tick
<1>3. Outside.phase = "outside"
  BY DEF Outside
<1>4. time \in Time /\ tick[c].now \in Time /\ tick[c] # Outside
  BY <1>2, <1>3, TypeFacts DEF TimerTypeOK, TickTyped
<1>5. Age(c) = (time - tick[c].now) % Modulus /\ Age(c) \in Nat /\ Age(c) <= TickTime
  BY <1>4, Late1 DEF Age
<1> DEFINE h == Head(q)
<1>6. ASSUME q # <<>>
      PROVE  /\ h \in Range(q) /\ h \in Timers /\ left'[h] \in Int /\ scheduled'[h] \in Time
             /\ TIME_LT(tick[c].now, scheduled'[h]) <=> Age(c) + left'[h] >= 1
             /\ Age(c) + left'[h] >= 1 => (scheduled'[h] - tick[c].now) % Modulus = Age(c) + left'[h]
  <2>1. h \in Range(q) /\ h \in Timers
    BY <1>1, <1>6, TailLemma
  <2>2. left'[h] \in Int /\ scheduled'[h] \in Time
    BY <1>1, <2>1
  <2>3. Fits(left'[h]) /\ Due(scheduled'[h], time, left'[h]) /\ left'[h] >= -(Latency + Slack) - Age(c)
    BY <1>1, <2>1
  <2> HIDE DEF h
  <2> QED
    BY <1>4, <1>5, <2>1, <2>2, <2>3, HeadDue
<1>7. CASE timer_tick_dequeue(c, q)
  <2> DEFINE k == [phase |-> "dequeued", now |-> tick[c].now, timer |-> h]
  <2>1. /\ q # <<>> /\ ~TIME_LT(tick[c].now, scheduled'[h])
        /\ queue' = [queue EXCEPT ![c] = Tail(q)]
        /\ tick' = [tick EXCEPT ![c] = k]
        /\ hw' = hw
    BY <1>7 DEF timer_tick_dequeue, HeadIsDue
  <2>2. k.phase = "dequeued" /\ k.now = tick[c].now /\ k.timer = h
    OBVIOUS
  <2> HIDE DEF k
  <2>3. /\ Tail(q) \in Seq(Timers) /\ Sorted(Tail(q), left')
        /\ Range(Tail(q)) = Range(q) \ {h}
    BY <1>1, <2>1, TailSorted
  <2>4. h \in Range(q) /\ h \in Timers /\ left'[h] <= 0
    <3>1. left'[h] \in Int /\ ~(Age(c) + left'[h] >= 1)
      BY <1>6, <2>1
    <3> QED
      BY <1>5, <1>6, <2>1, <3>1
  <2> HIDE DEF h
  <2>5. queue'[c] = Tail(q) /\ tick'[c] = k /\ DOMAIN tick' = CPUs
    BY <2>1 DEF TimerTypeOK
  <2>6. k # Outside /\ TickTyped(k)
    BY <1>3, <1>4, <2>2, <2>4 DEF TickTyped
  <2>7. TimerTypeOK'
    <3>1. queue' \in [CPUs -> Seq(Timers)]
      BY <2>1, <2>3 DEF TimerTypeOK
    <3>2. \A d \in CPUs : TickTyped(tick'[d])
      BY <2>5, <2>6
    <3> QED
      BY <1>1, <1>2, <2>1, <2>5, <3>1, <3>2 DEF TimerTypeOK
  <2>8. SettingOK(c)'
    BY <1>1, <1>2, <2>3, <2>5 DEF SettingOK, CpuInv
  <2>9. TickOK(c)'
    <3>1. setting[h] = NotSetting /\ callback[h] /\ h \notin Range(Tail(q))
      BY <1>1, <2>3, <2>4
    <3> QED
      BY <1>2, <2>2, <2>4, <2>5, <3>1 DEF TickOK, Tracked
  <2>10. CallbackOK(c)'
    BY <1>1, <1>2, <2>3, <2>5 DEF CallbackOK, CpuInv
  <2>11. TimeOK(c)'
    <3> SUFFICES ASSUME NEW u \in Timers, u \in Range(Tail(q)) \/ setting[u] # NotSetting
                 PROVE  Fits(left'[u]) /\ Due(scheduled'[u], time, left'[u])
      BY <1>2, <2>5 DEF TimeOK, Tracked
    <3>1. CASE u \in Range(Tail(q))
      BY <1>1, <2>3, <3>1
    <3>2. CASE setting[u] # NotSetting
      BY <1>1, <3>2 DEF CpuInv, TimeOK, Tracked
    <3> QED
      BY <3>1, <3>2
  <2>12. Age(c)' = Age(c)
    BY <1>2, <1>5, <2>2, <2>5, <2>6 DEF Age
  <2>13. LateOK(c)'
    BY <1>1, <1>5, <2>3, <2>5, <2>12 DEF LateOK
  <2>14. ArmedOK(c)'
    BY <2>5, <2>6 DEF ArmedOK
  <2>15. Sorted(queue[c], left)'
    BY <2>3, <2>5
  <2> QED
    BY <2>7, <2>8, <2>9, <2>10, <2>11, <2>13, <2>14, <2>15 DEF CpuInv
<1>8. CASE timer_tick_end(c, q)
  <2>1. /\ q # <<>> => TIME_LT(tick[c].now, scheduled'[h])
        /\ queue' = [queue EXCEPT ![c] = q]
        /\ tick' = [tick EXCEPT ![c] = Outside]
        /\ q = <<>> => hw' = hw
        /\ q # <<>> => platform_set_oneshot_timer(c, (scheduled'[h] - tick[c].now) % Modulus)
    BY <1>8 DEF timer_tick_end, HeadIsDue
  <2>2. queue'[c] = q /\ tick'[c] = Outside /\ DOMAIN tick' = CPUs
    BY <2>1 DEF TimerTypeOK
  <2>3. ASSUME q # <<>>
        PROVE  /\ left'[h] \in Int /\ Age(c) + left'[h] >= 1
               /\ hw' = [hw EXCEPT ![c] = Age(c) + left'[h]]
    <3>1. /\ left'[h] \in Int /\ Age(c) + left'[h] >= 1
          /\ (scheduled'[h] - tick[c].now) % Modulus = Age(c) + left'[h]
      BY <1>6, <2>1, <2>3
    <3>2. platform_set_oneshot_timer(c, Age(c) + left'[h])
      BY <2>1, <2>3, <3>1
    <3>3. Age(c) + left'[h] # 0
      BY <1>5, <3>1
    <3> QED
      BY <3>1, <3>2, <3>3 DEF platform_set_oneshot_timer
  <2>4. hw' \in [CPUs -> Int \cup {OFF}]
    <3>0. hw \in [CPUs -> Int \cup {OFF}]
      BY DEF TimerTypeOK
    <3>1. CASE q = <<>>
      BY <2>1, <3>0, <3>1
    <3>2. CASE q # <<>>
      <4>1. Age(c) + left'[h] \in Int
        BY <1>5, <2>3, <3>2
      <4> QED
        BY <2>3, <3>0, <3>2, <4>1
    <3> QED
      BY <3>1, <3>2
  <2>5. TimerTypeOK'
    <3>1. queue' \in [CPUs -> Seq(Timers)]
      BY <1>1, <2>1 DEF TimerTypeOK
    <3>2. TickTyped(Outside)
      BY <1>3 DEF TickTyped
    <3>3. \A d \in CPUs : TickTyped(tick'[d])
      BY <2>2, <3>2
    <3> QED
      BY <1>1, <1>2, <2>2, <2>4, <3>1, <3>3 DEF TimerTypeOK
  <2>6. SettingOK(c)'
    BY <1>1, <1>2, <2>2 DEF SettingOK, CpuInv
  <2>7. TickOK(c)'
    BY <1>3, <2>2 DEF TickOK
  <2>8. CallbackOK(c)'
    BY <1>1, <1>2, <2>2 DEF CallbackOK, CpuInv
  <2>9. TimeOK(c)'
    <3> SUFFICES ASSUME NEW u \in Timers, u \in Range(q) \/ setting[u] # NotSetting
                 PROVE  Fits(left'[u]) /\ Due(scheduled'[u], time, left'[u])
      BY <1>2, <2>2 DEF TimeOK, Tracked
    <3>1. CASE u \in Range(q)
      BY <1>1, <3>1
    <3>2. CASE setting[u] # NotSetting
      BY <1>1, <3>2 DEF CpuInv, TimeOK, Tracked
    <3> QED
      BY <3>1, <3>2
  <2>10. Age(c)' = 0
    BY <2>2 DEF Age
  <2>11. ASSUME NEW u \in Range(q)
         PROVE  left'[u] >= -(Latency + Slack)
    <3>1. q # <<>> /\ left'[h] <= left'[u] /\ u \in Timers /\ left'[u] \in Int
      BY <1>1, HeadFirst
    <3>2. left'[h] \in Int /\ Age(c) + left'[h] >= 1
      BY <2>3, <3>1
    <3> QED
      BY <1>0, <1>5, <3>1, <3>2
  <2>12. LateOK(c)'
    <3>1. \A u \in Range(q) : left'[u] >= -(Latency + Slack) - 0
      BY <1>0, <2>11
    <3> QED
      BY <1>0, <2>2, <2>10, <3>1 DEF LateOK
  <2>13. ArmedOK(c)'
    <3> SUFFICES ASSUME q # <<>>
                 PROVE  hw'[c] # OFF /\ hw'[c] >= -Latency /\ hw'[c] <= left'[h] + Slack
      BY <2>2 DEF ArmedOK
    <3>1. hw'[c] = Age(c) + left'[h] /\ left'[h] \in Int /\ Age(c) + left'[h] >= 1
      BY <2>3 DEF TimerTypeOK
    <3>2. hw'[c] \in Int
      BY <1>5, <3>1
    <3>3. hw'[c] # OFF
      BY <3>2, TimerAssumption
    <3> QED
      BY <1>0, <1>5, <3>1, <3>3
  <2>14. Sorted(queue[c], left)'
    BY <1>1, <2>2
  <2> QED
    BY <2>5, <2>6, <2>7, <2>8, <2>9, <2>12, <2>13, <2>14 DEF CpuInv
<1> QED
  BY <1>1, <1>7, <1>8

-----------------------------------------------------------------------------
LEMMA TimerStep ==
  ASSUME DelaysFit, NEW c, CPUs = {c}, TimerTypeOK, CpuInv(c), [Next]_vars
  PROVE  TimerTypeOK' /\ CpuInv(c)'
<1>1. CASE UNCHANGED vars
  <2>1. UNCHANGED <<time, queue, scheduled, periodic, callback, hw, tick, setting, left>>
    BY <1>1 DEF vars
  <2>2. TimerTypeOK'
    BY <2>1 DEF TimerTypeOK
  <2>3. SettingOK(c)' /\ TickOK(c)' /\ CallbackOK(c)'
    BY <2>1 DEF CpuInv, SettingOK, TickOK, CallbackOK, Tracked
  <2>4. TimeOK(c)' /\ LateOK(c)' /\ ArmedOK(c)' /\ Sorted(queue[c], left)'
    BY <2>1 DEF CpuInv, TimeOK, LateOK, ArmedOK, Age, Tracked
  <2> QED
    BY <2>2, <2>3, <2>4 DEF CpuInv
<1>2. CASE clock
  BY <1>2, ClockInv
<1>3. CASE platform_tick(c)
  BY <1>3, PlatformTickInv
<1>4. CASE timer_tick(c)
  BY <1>4, TickInv
<1>5. CASE timer_tick_call(c)
  BY <1>5, TickCallInv
<1>6. ASSUME NEW t \in Timers, timer_set_insert(c, t) \/ timer_cancel(c, t)
      PROVE  TimerTypeOK' /\ CpuInv(c)'
  BY <1>6, SetInsertInv, CancelInv
<1>7. ASSUME NEW t \in Timers, tick[c].phase \in {"outside", "callback"},
             \/ \E delay \in Delays : timer_set_oneshot(Context(c), t, delay)
             \/ \E period \in Periods : timer_set_periodic(Context(c), t, period)
      PROVE  TimerTypeOK' /\ CpuInv(c)'
  <2>1. \A d \in Delays \cup Periods : d \in Nat /\ Fits(d) /\ Fits(1)
    BY TimerAssumption DEF DelaysFit
  <2>2. \E d \in Nat, p \in Nat :
          d >= 1 /\ Fits(d) /\ p \in {0, d} /\ timer_set(Context(c), t, d, p)
    <3>1. ASSUME NEW delay \in Delays, timer_set_oneshot(Context(c), t, delay)
          PROVE  <2>2
      <4> DEFINE d == IF delay = 0 THEN 1 ELSE delay
      <4>1. d \in Nat /\ d >= 1 /\ Fits(d) /\ timer_set(Context(c), t, d, 0)
        BY <2>1, <3>1 DEF timer_set_oneshot
      <4> HIDE DEF d
      <4> QED
        BY <4>1
    <3>2. ASSUME NEW period \in Periods, timer_set_periodic(Context(c), t, period)
          PROVE  <2>2
      <4> DEFINE d == IF period = 0 THEN 1 ELSE period
      <4>1. d \in Nat /\ d >= 1 /\ Fits(d) /\ timer_set(Context(c), t, d, d)
        BY <2>1, <3>2 DEF timer_set_periodic
      <4> HIDE DEF d
      <4> QED
        BY <4>1
    <3> QED
      BY <1>7, <3>1, <3>2
  <2> QED
    BY <1>7, <2>2, SetInv
<1> QED
  BY <1>1, <1>2, <1>3, <1>4, <1>5, <1>6, <1>7 DEF Next

LEMMA TimerInvariant ==
  ASSUME Uniprocessor, DelaysFit
  PROVE  Spec => []TimerInv
<1>1. PICK c : CPUs = {c}
  BY DEF Uniprocessor
<1>2. Init => TimerInv
  BY <1>1, TimerInitInv DEF TimerInv
<1>3. TimerInv /\ [Next]_vars => TimerInv'
  BY <1>1, TimerStep DEF TimerInv
<1> QED
  BY <1>2, <1>3, PTL DEF Spec

(***************************************************************************)
(* kernel/timer.c in a build for one CPU: the fields of the timers, the    *)
(* queue, the hardware timer and the state of timer_tick keep their types. *)
(***************************************************************************)
THEOREM TimerTypeCorrect ==
  ASSUME Uniprocessor, DelaysFit
  PROVE  Spec => []TimerTypeOK
<1>1. TimerInv => TimerTypeOK
  BY DEF TimerInv
<1> QED
  BY <1>1, TimerInvariant, PTL

(***************************************************************************)
(* insert_timer_in_queue keeps the queue in the order in which the timers  *)
(* are really due: TIME_GT compares wrapped times, with the clock wrapping *)
(* between any two of them, and yet never confuses before and after.       *)
(***************************************************************************)
THEOREM TimerSortedQueue ==
  ASSUME Uniprocessor, DelaysFit
  PROVE  Spec => []SortedQueue
<1>1. TimerInv => SortedQueue
  BY DEF TimerInv, CpuInv, Sorted, SortedQueue
<1> QED
  BY <1>1, TimerInvariant, PTL

(***************************************************************************)
(* timer_tick dequeues no timer whose delay is not over, neither one that  *)
(* was set, nor a periodic one that was put back at now + periodic_time.   *)
(***************************************************************************)
THEOREM TimerNeverEarly ==
  ASSUME Uniprocessor, DelaysFit
  PROVE  Spec => []NeverEarly
<1>1. TimerInv => NeverEarly
  BY DEF TimerInv, CpuInv, TickOK, NeverEarly
<1> QED
  BY <1>1, TimerInvariant, PTL

(***************************************************************************)
(* timer_set, timer_cancel and timer_tick program the hardware timer so    *)
(* that no queued timer is overdue by more than Late, whatever threads and *)
(* callbacks set and cancel, however often and in whatever order.          *)
(***************************************************************************)
THEOREM TimerNeverLate ==
  ASSUME Uniprocessor, DelaysFit
  PROVE  Spec => []NeverLate
<1>1. PICK c : CPUs = {c}
  BY DEF Uniprocessor
<1>2. TimerInv => NeverLate
  BY <1>1, Late1, QueuedIs DEF TimerInv, NeverLate, Tracked
<1> QED
  BY <1>2, TimerInvariant, PTL

(***************************************************************************)
(* timer_tick puts no timer back that its callback has cancelled: a timer  *)
(* that timer_cancel disarmed is in no queue until it is set again.        *)
(***************************************************************************)
THEOREM TimerCancelIsFinal ==
  ASSUME Uniprocessor, DelaysFit
  PROVE  Spec => []CancelIsFinal
<1>1. PICK c : CPUs = {c}
  BY DEF Uniprocessor
<1>2. TimerInv => CancelIsFinal
  BY <1>1, QueuedIs DEF TimerInv, CpuInv, CallbackOK, CancelIsFinal
<1> QED
  BY <1>2, TimerInvariant, PTL
-----------------------------------------------------------------------------
(***************************************************************************)
(* PORTS.                                                                  *)
(***************************************************************************)
(***************************************************************************)
(* The types.  A ring holds PORT_BUFF_SIZE packets at most.                *)
(***************************************************************************)
PortBufs == {b \in Rings : Len(b.packets) <= PORT_BUFF_SIZE}

WriteObjects == [magic : {"free", "W", "X"}, name : Names \cup {None}, mode : Modes \cup {None},
                 buf : PortBufs \cup {None}, rps : Seq(ReadPorts)]
ReadObjects == [magic : {"free", "open"}, buf : PortBufs \cup {None},
                wport : WritePorts \cup {None}, gport : Groups \cup {None}]
GroupObjects == [magic : {"free", "open", "closing"}, rps : Seq(ReadPorts)]

Risks == {"none", "crowd", "remove", "close"}

PortTypeOK ==
  /\ write_port_list \in Seq(WritePorts)
  /\ wp \in [WritePorts -> WriteObjects]
  /\ rp \in [ReadPorts -> ReadObjects]
  /\ pg \in [Groups -> GroupObjects]
  /\ timed \subseteq Threads
  /\ risk \in Risks
  /\ written \in [WritePorts -> Nat]

\* b holds the packets from the next one due to the one before packet n.
InOrder(b, n) ==
  /\ \A i \in 1 .. Len(b.packets) : b.packets[i] = (b.got + (i - 1)) % Stamps
  /\ (b.got + Len(b.packets)) % Stamps = n

(***************************************************************************)
(* The objects: what is freed points nowhere, the list of write ports      *)
(* holds no freed one, no list holds an object twice, and the pointers     *)
(* agree with each other as LinksExact says.                               *)
(***************************************************************************)
WriteSide ==
  /\ \A w \in WritePorts :
       IF wp[w].magic = "free"
         THEN wp[w].rps = <<>> /\ wp[w].buf = None /\ wp[w].mode = None
         ELSE /\ wp[w].buf = None <=> wp[w].rps # <<>>
              /\ wp[w].mode = "UNICAST" => Len(wp[w].rps) <= 1
              /\ IsInjective(wp[w].rps)
  /\ \A w \in Range(write_port_list) : wp[w].magic # "free"
  /\ IsInjective(write_port_list)

ReadSide ==
  \A r \in ReadPorts : /\ rp[r].magic = "free" => rp[r].wport = None /\ rp[r].gport = None
                       /\ rp[r].magic = "open" <=> rp[r].buf # None

GroupSide ==
  \A g \in Groups : /\ pg[g].magic = "free" => pg[g].rps = <<>>
                    /\ IsInjective(pg[g].rps)

WriteLinks == \A r \in ReadPorts, w \in WritePorts : rp[r].wport = w <=> r \in Range(wp[w].rps)

GroupLinks ==
  \A r \in ReadPorts, g \in Groups :
    /\ r \in Range(pg[g].rps) => rp[r].gport = g
    /\ rp[r].gport = g => r \in Range(pg[g].rps) \/ risk = "remove"

\* The ring of write port w, wherever it is, and its packets.
RingOf(w) == IF wp[w].buf # None THEN wp[w].buf ELSE rp[Head(wp[w].rps)].buf
UnicastOK == \A w \in WritePorts : wp[w].mode = "UNICAST" => InOrder(RingOf(w), written[w])

ObjectsOK == WriteSide /\ ReadSide /\ GroupSide /\ WriteLinks /\ GroupLinks /\ UnicastOK

(***************************************************************************)
(* The readers.  Busy(x) will look at x again: they sleep on it, or have   *)
(* been woken for a packet, as those of Waking(x) have.                    *)
(***************************************************************************)
Busy(x) == {t \in Threads : frame[t] = x /\ block_ret[t] = NO_ERROR}
Waking(x) == Busy(x) \ Range(list[x])

OpenAt(x) == IF x \in Groups THEN OpenGroup(x) ELSE Open(x)

\* Packets that a read of x can take, as pairs of a port and a number.
Members(x) == IF x \in Groups THEN Range(pg[x].rps) ELSE {x}
Held(r) == IF rp[r].buf = None THEN 0 ELSE Len(rp[r].buf.packets)
Available(x) == {p \in ReadPorts \X (1 .. PORT_BUFF_SIZE) :
                   p[1] \in Members(x) /\ p[2] <= Held(p[1])}

Calm == risk \in {"none", "close"}

\* The return code of a sleeper is not set yet, and nobody sleeps on a read
\* port that is closed.
AsleepOK == \A x \in Queues : Range(list[x]) \subseteq Busy(x)
ClosedOK == \A r \in ReadPorts : ~Open(r) => list[r] = <<>>

\* Nobody uses what is closed, unless it was closed under a woken reader.
UsersOK == \A x \in Queues : OpenAt(x) \/ Busy(x) = {} \/ risk = "close"

\* Nobody reads a port directly that is in a group, unless readers crowd.
DirectOK == Calm => \A r \in ReadPorts : rp[r].gport # None => Busy(r) = {}

\* For every packet a reader is on its way, as long as there are sleepers.
CountOK ==
  Calm => \A x \in Queues :
    list[x] # <<>> => Cardinality(Available(x)) <= Cardinality(Waking(x))

ReadersOK == AsleepOK /\ ClosedOK /\ UsersOK /\ DirectOK /\ CountOK

PortInv == PortTypeOK /\ WQInv /\ ObjectsOK /\ ReadersOK /\ FaultHasCause

-----------------------------------------------------------------------------
(***************************************************************************)
(* Arithmetic modulo the number of stamps.                                 *)
(***************************************************************************)
LEMMA Division ==
  ASSUME NEW a \in Int, NEW m \in Nat \ {0}
  PROVE  /\ a % m \in 0 .. (m - 1) /\ a \div m \in Int
         /\ a = m * (a \div m) + (a % m)
OBVIOUS

\* The remainder is the only number that is one.
LEMMA RemainderUnique ==
  ASSUME NEW m \in Nat \ {0}, NEW q \in Int, NEW p \in Int,
         NEW r \in 0 .. (m - 1), NEW s \in 0 .. (m - 1), m * q + r = m * p + s
  PROVE  r = s
<1> DEFINE d == q - p
           z == m * d
<1>1. d \in Int /\ z = m * q - m * p
  OBVIOUS
<1>2. m * q \in Int /\ m * p \in Int
  OBVIOUS
<1>3. z = s - r
  BY <1>1, <1>2
<1>4. (d >= 1 => z >= m) /\ (d <= -1 => z <= -m) /\ (d = 0 => z = 0)
  BY <1>1
<1> HIDE DEF z, d
<1> QED
  BY <1>1, <1>3, <1>4

LEMMA RemainderSum ==
  ASSUME NEW m \in Nat \ {0}, NEW a \in Int, NEW b \in Int
  PROVE  ((a % m) + b) % m = (a + b) % m
<1> DEFINE r == a % m
           q == a \div m
           s == (r + b) % m
           p == (r + b) \div m
           v == (a + b) % m
           u == (a + b) \div m
<1>1. r \in Int /\ q \in Int /\ a = m * q + r
  BY Division
<1> HIDE DEF r, q
<1>2. p \in Int /\ s \in 0 .. (m - 1) /\ r + b = m * p + s
  BY <1>1, Division
<1>3. u \in Int /\ v \in 0 .. (m - 1) /\ a + b = m * u + v
  BY Division
<1> HIDE DEF s, p, v, u
<1>4. m * (q + p) = m * q + m * p
  BY <1>1, <1>2
<1>5. m * q \in Int /\ m * p \in Int /\ m * u \in Int /\ q + p \in Int
  BY <1>1, <1>2, <1>3
<1>6. m * (q + p) + s = m * u + v
  BY <1>1, <1>2, <1>3, <1>4, <1>5
<1>7. s = v
  BY <1>2, <1>3, <1>5, <1>6, RemainderUnique
<1> QED
  BY <1>7 DEF s, v, r
-----------------------------------------------------------------------------
(***************************************************************************)
(* The ring.                                                               *)
(***************************************************************************)
LEMMA StampsPositive == Stamps \in Nat \ {0}
BY PortAssumption DEF Stamps

LEMMA BufFacts ==
  ASSUME NEW b \in PortBufs
  PROVE  /\ b \in Rings /\ b.packets \in Seq(Int) /\ b.got \in Nat /\ b # None
         /\ Len(b.packets) \in Nat /\ Len(b.packets) <= PORT_BUFF_SIZE
         /\ DOMAIN b.packets = 1 .. Len(b.packets)
         /\ (b.packets = <<>> <=> Len(b.packets) = 0)
<1>1. b \in Rings /\ b # None /\ Len(b.packets) <= PORT_BUFF_SIZE
  BY PortAssumption DEF PortBufs
<1>2. b.packets \in Seq(Int) /\ b.got \in Nat
  BY <1>1 DEF Rings
<1> QED
  BY <1>1, <1>2, LenProperties, EmptySeq

LEMMA MakeBuf ==
  /\ make_buf \in PortBufs /\ make_buf.packets = <<>> /\ InOrder(make_buf, 0)
<1>1. make_buf \in Rings /\ make_buf.packets = <<>> /\ make_buf.got = 0
  BY DEF make_buf, Rings
<1>2. Len(make_buf.packets) = 0
  BY <1>1
<1>3. (0 + 0) % Stamps = 0
  BY StampsPositive
<1>4. InOrder(make_buf, 0)
  BY <1>1, <1>2, <1>3 DEF InOrder
<1> QED
  BY <1>1, <1>2, <1>4, PortAssumption DEF PortBufs

LEMMA BufWrite ==
  ASSUME NEW b \in PortBufs, NEW count \in Nat, buf_fits(b, count),
         NEW first \in Nat \cup {Unmarked}
  PROVE  /\ buf_write(b, first, count) \in PortBufs
         /\ Len(buf_write(b, first, count).packets) = Len(b.packets) + count
         /\ first \in Nat /\ InOrder(b, first) =>
              InOrder(buf_write(b, first, count), (first + count) % Stamps)
<1> DEFINE more == [i \in 1 .. count |-> Packet(first, i - 1)]
           s == b.packets
           c == buf_write(b, first, count)
<1>1. /\ b \in Rings /\ s \in Seq(Int) /\ b.got \in Nat /\ Len(s) \in Nat
      /\ DOMAIN s = 1 .. Len(s)
  BY BufFacts
<1>2. \A i \in 1 .. count : Packet(first, i - 1) \in Int
  <2> SUFFICES ASSUME NEW i \in 1 .. count PROVE Packet(first, i - 1) \in Int
    OBVIOUS
  <2>1. CASE first = Unmarked
    BY <2>1 DEF Packet, Unmarked
  <2>2. CASE first # Unmarked
    <3>1. first + (i - 1) \in Int
      BY <2>2
    <3> DEFINE x == first + (i - 1)
    <3> HIDE DEF x
    <3>2. x % Stamps \in Int
      BY <3>1, StampsPositive, Division DEF x
    <3> QED
      BY <2>2, <3>2 DEF Packet, x
  <2> QED
    BY <2>1, <2>2
<1>3. more \in Seq(Int) /\ Len(more) = count /\ \A i \in 1 .. count : more[i] = Packet(first, i - 1)
  BY <1>2
<1> HIDE DEF more
<1>4. /\ s \o more \in Seq(Int) /\ Len(s \o more) = Len(s) + count
      /\ \A i \in 1 .. (Len(s) + count) :
           (s \o more)[i] = IF i <= Len(s) THEN s[i] ELSE more[i - Len(s)]
  BY <1>1, <1>3, ConcatProperties
<1>5. c = [b EXCEPT !.packets = s \o more]
  BY DEF buf_write, more
<1>6. c \in Rings /\ c.packets = s \o more /\ c.got = b.got
  BY <1>1, <1>4, <1>5 DEF Rings
<1> HIDE DEF c, s
<1>7. Len(c.packets) = Len(s) + count
  BY <1>4, <1>6
<1>8. c \in PortBufs
  <2>1. Len(s) + count <= PORT_BUFF_SIZE
    BY <1>1, PortAssumption DEF buf_fits, s
  <2> QED
    BY <1>6, <1>7, <2>1 DEF PortBufs
<1>9. ASSUME first \in Nat, InOrder(b, first)
      PROVE  InOrder(c, (first + count) % Stamps)
  <2> DEFINE got == b.got
             n == Len(s)
  <2>1. /\ \A i \in 1 .. n : s[i] = (got + (i - 1)) % Stamps
        /\ (got + n) % Stamps = first /\ got \in Nat /\ n \in Nat
    BY <1>1, <1>9 DEF InOrder, s
  <2> HIDE DEF got, n
  <2>2. ASSUME NEW i \in 1 .. (n + count)
        PROVE  (s \o more)[i] = (got + (i - 1)) % Stamps
    <3>1. CASE i <= n
      <4>1. i \in 1 .. n /\ i \in 1 .. (Len(s) + count) /\ i <= Len(s)
        BY <2>1, <3>1 DEF n
      <4> QED
        BY <1>4, <2>1, <4>1
    <3>2. CASE ~(i <= n)
      <4> DEFINE j == i - n
      <4>1. j \in 1 .. count /\ i \in 1 .. (Len(s) + count) /\ ~(i <= Len(s)) /\ i - Len(s) = j
        BY <2>1, <3>2 DEF n
      <4>2. (s \o more)[i] = more[j]
        BY <1>4, <4>1
      <4>3. more[j] = (first + (j - 1)) % Stamps
        <5>1. first # Unmarked
          BY <1>9 DEF Unmarked
        <5>2. more[j] = Packet(first, j - 1)
          BY <1>3, <4>1
        <5> QED
          BY <5>1, <5>2 DEF Packet
      <4>4. got + n \in Int /\ j - 1 \in Int /\ (got + n) + (j - 1) = got + (i - 1)
        BY <2>1, <4>1
      <4> HIDE DEF j
      <4>5. (((got + n) % Stamps) + (j - 1)) % Stamps = ((got + n) + (j - 1)) % Stamps
        BY <4>4, StampsPositive, RemainderSum
      <4> QED
        BY <2>1, <4>2, <4>3, <4>4, <4>5
    <3> QED
      BY <3>1, <3>2
  <2>3. (got + (n + count)) % Stamps = (first + count) % Stamps
    <3>1. got + n \in Int /\ count \in Int /\ (got + n) + count = got + (n + count)
      BY <2>1
    <3>2. (((got + n) % Stamps) + count) % Stamps = ((got + n) + count) % Stamps
      BY <3>1, StampsPositive, RemainderSum
    <3> QED
      BY <2>1, <3>1, <3>2
  <2> QED
    BY <1>6, <1>7, <2>2, <2>3 DEF InOrder, got, n
<1> QED
  BY <1>7, <1>8, <1>9 DEF c, s

LEMMA BufRead ==
  ASSUME NEW b \in PortBufs, b.packets # <<>>
  PROVE  /\ buf_read(b) \in PortBufs
         /\ Len(buf_read(b).packets) = Len(b.packets) - 1
         /\ \A n : InOrder(b, n) => InOrder(buf_read(b), n)
<1> DEFINE s == b.packets
           next == (b.got + 1) % Stamps
           c == buf_read(b)
<1>1. b \in Rings /\ s \in Seq(Int) /\ b.got \in Nat /\ Len(s) \in Nat /\ Len(s) >= 1
      /\ Len(s) <= PORT_BUFF_SIZE
  BY BufFacts
<1>2. /\ Tail(s) \in Seq(Int) /\ Len(Tail(s)) = Len(s) - 1 /\ Head(s) = s[1]
      /\ \A i \in 1 .. (Len(s) - 1) : Tail(s)[i] = s[i + 1]
  BY <1>1, HeadTailProperties, EmptySeq
<1>3. next \in Nat
  <2>1. b.got + 1 \in Int
    BY <1>1
  <2> QED
    BY <2>1, StampsPositive, Division
<1>4. c = [b EXCEPT !.packets = Tail(s), !.got = IF Head(s) = Unmarked THEN b.got ELSE next]
  BY DEF buf_read
<1>5. /\ c \in Rings /\ c.packets = Tail(s)
      /\ c.got = IF Head(s) = Unmarked THEN b.got ELSE next
  <2> DEFINE h == IF Head(s) = Unmarked THEN b.got ELSE next
  <2>1. h \in Nat
    BY <1>1, <1>3
  <2> HIDE DEF h, next
  <2>2. c = [b EXCEPT !.packets = Tail(s), !.got = h]
    BY <1>4 DEF h
  <2> HIDE DEF c, s
  <2>3. c \in Rings /\ c.packets = Tail(s) /\ c.got = h
    BY <1>1, <1>2, <2>1, <2>2 DEF Rings
  <2> QED
    BY <2>3 DEF h
<1> HIDE DEF c
<1>6. c \in PortBufs /\ Len(c.packets) = Len(s) - 1
  <2> HIDE DEF s, next
  <2>1. c.packets = Tail(s) /\ c \in Rings
    BY <1>5
  <2>2. Len(c.packets) = Len(s) - 1 /\ Len(s) - 1 <= PORT_BUFF_SIZE
    BY <1>1, <1>2, <2>1, PortAssumption
  <2> QED
    BY <2>1, <2>2 DEF PortBufs
<1>7. ASSUME NEW n, InOrder(b, n)
      PROVE  InOrder(c, n)
  <2> DEFINE got == b.got
             m == Len(s)
  <2>1. /\ \A i \in 1 .. m : s[i] = (got + (i - 1)) % Stamps
        /\ (got + m) % Stamps = n /\ got \in Nat /\ m \in Nat /\ m >= 1
    BY <1>1, <1>7 DEF InOrder
  <2>2. c.got = next
    <3>1. s[1] = (got + (1 - 1)) % Stamps /\ got + (1 - 1) \in Int
      BY <2>1
    <3>2. (got + (1 - 1)) % Stamps >= 0
      <4> DEFINE x == got + (1 - 1)
      <4>1. x \in Int
        BY <3>1
      <4> HIDE DEF x
      <4>2. x % Stamps \in 0 .. (Stamps - 1)
        BY <4>1, StampsPositive, Division
      <4> QED
        BY <4>2, StampsPositive DEF x
    <3>3. s[1] # Unmarked
      BY <3>1, <3>2 DEF Unmarked
    <3> QED
      BY <1>2, <1>5, <3>3
  <2>3. ASSUME NEW i \in Int
        PROVE  (next + i) % Stamps = ((got + 1) + i) % Stamps
    <3>1. got + 1 \in Int
      BY <2>1
    <3> QED
      BY <3>1, StampsPositive, RemainderSum
  <2> HIDE DEF next, got, m
  <2>4. ASSUME NEW i \in 1 .. (m - 1)
        PROVE  Tail(s)[i] = (next + (i - 1)) % Stamps
    <3>1. i + 1 \in 1 .. m /\ i - 1 \in Int /\ (got + 1) + (i - 1) = got + ((i + 1) - 1)
      BY <2>1
    <3>2. Tail(s)[i] = s[i + 1]
      BY <1>2 DEF m
    <3>3. s[i + 1] = (got + ((i + 1) - 1)) % Stamps
      BY <2>1, <3>1
    <3> QED
      BY <2>3, <3>1, <3>2, <3>3
  <2>5. (next + (m - 1)) % Stamps = n
    <3>1. m - 1 \in Int /\ (got + 1) + (m - 1) = got + m
      BY <2>1
    <3> QED
      BY <2>1, <2>3, <3>1
  <2> QED
    BY <1>5, <1>6, <2>2, <2>4, <2>5 DEF InOrder, m
<1> QED
  BY <1>6, <1>7 DEF c
-----------------------------------------------------------------------------
(***************************************************************************)
(* The objects and their fields.                                           *)
(***************************************************************************)
LEMMA WriteFields ==
  ASSUME NEW o \in WriteObjects
  PROVE  /\ o.magic \in {"free", "W", "X"} /\ o.mode \in Modes \cup {None}
         /\ o.buf \in PortBufs \cup {None} /\ o.rps \in Seq(ReadPorts)
         /\ (o.buf # None => o.buf \in PortBufs)
BY DEF WriteObjects

LEMMA WriteUpdate ==
  ASSUME NEW o \in WriteObjects
  PROVE  /\ \A b \in PortBufs \cup {None} : LET n == [o EXCEPT !.buf = b] IN
              n \in WriteObjects /\ n.magic = o.magic /\ n.mode = o.mode /\ n.buf = b /\ n.rps = o.rps
         /\ \A s \in Seq(ReadPorts) : LET n == [o EXCEPT !.rps = s] IN
              n \in WriteObjects /\ n.magic = o.magic /\ n.mode = o.mode /\ n.buf = o.buf /\ n.rps = s
         /\ \A m \in {"free", "W", "X"} : LET n == [o EXCEPT !.magic = m] IN
              n \in WriteObjects /\ n.magic = m /\ n.mode = o.mode /\ n.buf = o.buf /\ n.rps = o.rps
BY DEF WriteObjects

LEMMA ReadFields ==
  ASSUME NEW o \in ReadObjects
  PROVE  /\ o.magic \in {"free", "open"} /\ o.buf \in PortBufs \cup {None}
         /\ o.wport \in WritePorts \cup {None} /\ o.gport \in Groups \cup {None}
         /\ (o.buf # None => o.buf \in PortBufs)
BY DEF ReadObjects

LEMMA ReadUpdate ==
  ASSUME NEW o \in ReadObjects
  PROVE  /\ \A b \in PortBufs \cup {None} : LET n == [o EXCEPT !.buf = b] IN
              n \in ReadObjects /\ n.magic = o.magic /\ n.buf = b /\ n.wport = o.wport /\ n.gport = o.gport
         /\ \A w \in WritePorts \cup {None} : LET n == [o EXCEPT !.wport = w] IN
              n \in ReadObjects /\ n.magic = o.magic /\ n.buf = o.buf /\ n.wport = w /\ n.gport = o.gport
         /\ \A g \in Groups \cup {None} : LET n == [o EXCEPT !.gport = g] IN
              n \in ReadObjects /\ n.magic = o.magic /\ n.buf = o.buf /\ n.wport = o.wport /\ n.gport = g
BY DEF ReadObjects

LEMMA GroupFields ==
  ASSUME NEW o \in GroupObjects
  PROVE  o.magic \in {"free", "open", "closing"} /\ o.rps \in Seq(ReadPorts)
BY DEF GroupObjects

LEMMA GroupUpdate ==
  ASSUME NEW o \in GroupObjects
  PROVE  /\ \A s \in Seq(ReadPorts) : LET n == [o EXCEPT !.rps = s] IN
              n \in GroupObjects /\ n.magic = o.magic /\ n.rps = s
         /\ \A m \in {"free", "open", "closing"} : LET n == [o EXCEPT !.magic = m] IN
              n \in GroupObjects /\ n.magic = m /\ n.rps = o.rps
BY DEF GroupObjects

LEMMA FreeObjects ==
  /\ FreeWrite \in WriteObjects /\ FreeWrite.magic = "free" /\ FreeWrite.mode = None
  /\ FreeWrite.buf = None /\ FreeWrite.rps = <<>>
  /\ FreeRead \in ReadObjects /\ FreeRead.magic = "free" /\ FreeRead.buf = None
  /\ FreeRead.wport = None /\ FreeRead.gport = None
  /\ FreeGroup \in GroupObjects /\ FreeGroup.magic = "free" /\ FreeGroup.rps = <<>>
BY EmptyList DEF FreeWrite, FreeRead, FreeGroup, WriteObjects, ReadObjects, GroupObjects

LEMMA PortTypes ==
  ASSUME PortTypeOK
  PROVE  /\ \A w \in WritePorts : wp[w] \in WriteObjects /\ written[w] \in Nat
         /\ \A r \in ReadPorts : rp[r] \in ReadObjects
         /\ \A g \in Groups : pg[g] \in GroupObjects
         /\ \A w \in Range(write_port_list) : w \in WritePorts
<1>1. \A w \in Range(write_port_list) : w \in WritePorts
  BY RangeOfSeq DEF PortTypeOK
<1> QED
  BY <1>1 DEF PortTypeOK

\* The same as field facts.
LEMMA PortFields ==
  ASSUME PortTypeOK
  PROVE  /\ \A w \in WritePorts : /\ wp[w].magic \in {"free", "W", "X"}
                                  /\ wp[w].buf \in PortBufs \cup {None}
                                  /\ wp[w].rps \in Seq(ReadPorts)
                                  /\ \A r \in Range(wp[w].rps) : r \in ReadPorts
         /\ \A r \in ReadPorts : /\ rp[r].magic \in {"free", "open"}
                                 /\ rp[r].buf \in PortBufs \cup {None}
                                 /\ rp[r].wport \in WritePorts \cup {None}
                                 /\ rp[r].gport \in Groups \cup {None}
         /\ \A g \in Groups : /\ pg[g].magic \in {"free", "open", "closing"}
                              /\ pg[g].rps \in Seq(ReadPorts)
                              /\ \A r \in Range(pg[g].rps) : r \in ReadPorts
<1>1. \A w \in WritePorts : /\ wp[w].magic \in {"free", "W", "X"}
                            /\ wp[w].buf \in PortBufs \cup {None}
                            /\ wp[w].rps \in Seq(ReadPorts)
  BY PortTypes, WriteFields
<1>2. \A r \in ReadPorts : /\ rp[r].magic \in {"free", "open"}
                           /\ rp[r].buf \in PortBufs \cup {None}
                           /\ rp[r].wport \in WritePorts \cup {None}
                           /\ rp[r].gport \in Groups \cup {None}
  BY PortTypes, ReadFields
<1>3. \A g \in Groups : pg[g].magic \in {"free", "open", "closing"} /\ pg[g].rps \in Seq(ReadPorts)
  BY PortTypes, GroupFields
<1> QED
  BY <1>1, <1>2, <1>3, RangeOfSeq
-----------------------------------------------------------------------------
(***************************************************************************)
(* What the wait queues' routines do to the readers.                       *)
(***************************************************************************)
LEMMA ReaderFacts ==
  ASSUME WQInv, AsleepOK, NEW x \in Queues
  PROVE  /\ list[x] \in Seq(Threads) /\ IsInjective(list[x])
         /\ Range(list[x]) \subseteq Busy(x) /\ Busy(x) \subseteq Threads
         /\ (list[x] = <<>> <=> Range(list[x]) = {})
         /\ (Forgotten(x) <=> Busy(x) = {})
         /\ (OnItsWay(x) <=> Waking(x) # {})
         /\ Len(list[x]) \in Nat
<1>1. list[x] \in Seq(Threads) /\ IsInjective(list[x])
  BY DEF WQInv, WQTypeOK, QueueNodeUnique
<1>2. Range(list[x]) \subseteq Busy(x) /\ Busy(x) \subseteq Threads
  BY DEF AsleepOK, Busy
<1>3. list[x] = <<>> <=> Range(list[x]) = {}
  BY <1>1, EmptyRange, EmptyList
<1>4. Forgotten(x) <=> Busy(x) = {}
  BY <1>2 DEF Forgotten, Busy, Woken
<1>5. OnItsWay(x) <=> Waking(x) # {}
  BY <1>2 DEF OnItsWay, Busy, Waking, Woken
<1> QED
  BY <1>1, <1>2, <1>3, <1>4, <1>5, LenProperties

LEMMA SameReaders ==
  ASSUME WQInv, AsleepOK, UNCHANGED wqvars
  PROVE  /\ WQInv' /\ AsleepOK'
         /\ \A x \in Queues : Busy(x)' = Busy(x) /\ Waking(x)' = Waking(x) /\ list'[x] = list[x]
<1>1. list' = list /\ frame' = frame /\ block_ret' = block_ret /\ timer' = timer
  BY DEF wqvars
<1>2. WQInv'
  BY <1>1 DEF WQInv, WQTypeOK, QueueNodeUnique, NoDanglingTimer
<1>3. \A x : Busy(x)' = Busy(x)
  BY <1>1 DEF Busy
<1>4. AsleepOK'
  BY <1>1, <1>3 DEF AsleepOK
<1> QED
  BY <1>1, <1>2, <1>3, <1>4 DEF Waking

\* Sleepers are taken off the lists, with a packet to read.
LEMMA WakenReaders ==
  ASSUME WQInv, AsleepOK, frame' = frame, block_ret' = block_ret, timer' = timer,
         list' \in [Queues -> Seq(Threads)],
         \A x \in Queues : IsInjective(list'[x]) /\ Range(list'[x]) \subseteq Range(list[x])
  PROVE  /\ WQInv' /\ AsleepOK'
         /\ \A x \in Queues : Busy(x)' = Busy(x) /\ Waking(x) \subseteq Waking(x)'
<1>1. WQTypeOK' /\ QueueNodeUnique' /\ NoDanglingTimer'
  BY DEF WQInv, WQTypeOK, QueueNodeUnique, NoDanglingTimer
<1>2. \A x : Busy(x)' = Busy(x)
  BY DEF Busy
<1>3. AsleepOK'
  BY <1>2 DEF AsleepOK
<1>4. \A x \in Queues : Waking(x)' = Busy(x) \ Range(list'[x])
  BY <1>2 DEF Waking
<1> QED
  BY <1>1, <1>2, <1>3, <1>4 DEF WQInv, Waking

\* The sleepers of some queues are sent away with an error.
LEMMA SendAway ==
  ASSUME WQInv, AsleepOK, NEW Q \in SUBSET Queues, NEW err \in Status \ {NO_ERROR},
         frame' = frame, timer' = timer,
         list' = [x \in Queues |-> IF x \in Q THEN <<>> ELSE list[x]],
         block_ret' = [t \in Threads |-> IF t \in UNION {Range(list[x]) : x \in Q}
                                           THEN err ELSE block_ret[t]]
  PROVE  /\ WQInv' /\ AsleepOK'
         /\ \A x \in Queues : /\ x \in Q => list'[x] = <<>> /\ Busy(x)' = Waking(x)
                              /\ x \notin Q => list'[x] = list[x] /\ Busy(x)' = Busy(x)
                              /\ Waking(x)' = Waking(x)
<1>1. \A x \in Queues : list'[x] = IF x \in Q THEN <<>> ELSE list[x]
  OBVIOUS
<1>2. WQTypeOK'
  BY EmptyList DEF WQInv, WQTypeOK
<1>3. QueueNodeUnique' /\ NoDanglingTimer'
  BY <1>1, EmptyList DEF WQInv, QueueNodeUnique, NoDanglingTimer
<1>4. ASSUME NEW x \in Queues, NEW t \in Threads, frame[t] = x
      PROVE  t \in UNION {Range(list[y]) : y \in Q} <=> x \in Q /\ t \in Range(list[x])
  BY <1>4 DEF WQInv, QueueNodeUnique
<1>5. \A x \in Queues : Busy(x)' = IF x \in Q THEN Waking(x) ELSE Busy(x)
  <2> SUFFICES ASSUME NEW x \in Queues, NEW t \in Threads
               PROVE  (frame'[t] = x /\ block_ret'[t] = NO_ERROR) <=>
                        (/\ frame[t] = x /\ block_ret[t] = NO_ERROR
                         /\ (x \in Q => t \notin Range(list[x])))
    BY DEF Busy, Waking
  <2>1. block_ret'[t] = IF t \in UNION {Range(list[y]) : y \in Q} THEN err ELSE block_ret[t]
    OBVIOUS
  <2> QED
    BY <1>4, <2>1
<1>6. AsleepOK'
  BY <1>1, <1>5, EmptyList DEF AsleepOK
<1>7. \A x \in Queues : Waking(x)' = Waking(x)
  BY <1>1, <1>5, EmptyList DEF Waking
<1> QED
  BY <1>1, <1>2, <1>3, <1>5, <1>6, <1>7 DEF WQInv

LEMMA DestroyReaders ==
  ASSUME WQInv, AsleepOK, NEW q \in Queues, wait_queue_destroy(q)
  PROVE  /\ WQInv' /\ AsleepOK'
         /\ list'[q] = <<>> /\ Busy(q)' = Waking(q)
         /\ \A x \in Queues : /\ x # q => list'[x] = list[x] /\ Busy(x)' = Busy(x)
                              /\ Waking(x)' = Waking(x)
<1>1. frame' = frame /\ timer' = timer
  BY DEF wait_queue_destroy, wait_queue_wake_all
<1>2. list' = [x \in Queues |-> IF x \in {q} THEN <<>> ELSE list[x]]
  BY DEF wait_queue_destroy, wait_queue_wake_all, WQInv, WQTypeOK
<1>3. UNION {Range(list[x]) : x \in {q}} = Range(list[q])
  OBVIOUS
<1>4. block_ret' = [t \in Threads |-> IF t \in UNION {Range(list[x]) : x \in {q}}
                                        THEN ERR_OBJECT_DESTROYED ELSE block_ret[t]]
  BY <1>3 DEF wait_queue_destroy, wait_queue_wake_all
<1>5. ERR_OBJECT_DESTROYED \in Status \ {NO_ERROR} /\ {q} \in SUBSET Queues
  BY DEF Status, NO_ERROR, ERR_OBJECT_DESTROYED
<1> QED
  BY <1>1, <1>2, <1>4, <1>5, SendAway

\* A reader goes to sleep, for the first time or again.
LEMMA BlockReader ==
  ASSUME WQInv, AsleepOK, NEW t \in Threads, NEW q \in Queues, NEW timeout \in AllTimeouts,
         wait_queue_block(t, q, timeout),
         frame[t] = NoQueue \/ (frame[t] = q /\ t \notin Range(list[q]))
  PROVE  /\ WQInv' /\ AsleepOK'
         /\ \A x \in Queues : /\ Busy(x)' = IF x = q THEN Busy(x) \cup {t} ELSE Busy(x)
                              /\ x # q => list'[x] = list[x] /\ Waking(x)' = Waking(x)
<1>1. \A x \in Queues : t \notin Range(list[x])
  BY NotElsewhere, WaitQueueAssumption
<1>2. list[q] \in Seq(Threads) /\ IsInjective(list[q])
  BY DEF WQInv, WQTypeOK, QueueNodeUnique
<1>3. /\ Append(list[q], t) \in Seq(Threads)
      /\ Range(Append(list[q], t)) = Range(list[q]) \cup {t}
      /\ IsInjective(Append(list[q], t))
  BY <1>1, <1>2, AppendLemma
<1>4. /\ list' = [list EXCEPT ![q] = Append(list[q], t)]
      /\ frame' = [frame EXCEPT ![t] = q] /\ block_ret' = [block_ret EXCEPT ![t] = NO_ERROR]
      /\ timer' = [timer EXCEPT ![t] = timeout # INFINITE_TIME]
  BY DEF wait_queue_block
<1>5. WQTypeOK'
  BY <1>3, <1>4 DEF WQInv, WQTypeOK, Status
<1>6. /\ \A x \in Queues : list'[x] = IF x = q THEN Append(list[q], t) ELSE list[x]
      /\ \A u \in Threads : /\ frame'[u] = IF u = t THEN q ELSE frame[u]
                            /\ block_ret'[u] = IF u = t THEN NO_ERROR ELSE block_ret[u]
                            /\ u # t => timer'[u] = timer[u]
  BY <1>4 DEF WQInv, WQTypeOK
<1>7. \A x \in Queues : \A u \in Range(list[x]) : u \in Threads /\ frame[u] = x
  BY RangeOfSeq DEF WQInv, WQTypeOK, QueueNodeUnique
<1>8. QueueNodeUnique'
  <2> SUFFICES ASSUME NEW x \in Queues
               PROVE  IsInjective(list'[x]) /\ \A u \in Range(list'[x]) : frame'[u] = x
    BY DEF QueueNodeUnique
  <2>1. IsInjective(list[x])
    BY DEF WQInv, QueueNodeUnique
  <2> QED
    BY <1>1, <1>3, <1>6, <1>7, <2>1
<1>9. NoDanglingTimer'
  BY <1>6, WaitQueueAssumption DEF WQInv, NoDanglingTimer
<1>10. \A x \in Queues : Busy(x)' = IF x = q THEN Busy(x) \cup {t} ELSE Busy(x)
  BY <1>6, WaitQueueAssumption DEF Busy
<1>11. AsleepOK'
  BY <1>3, <1>6, <1>10 DEF AsleepOK
<1> QED
  BY <1>5, <1>6, <1>8, <1>9, <1>10, <1>11 DEF WQInv, Waking

\* A reader that was woken leaves.
LEMMA ReturnReader ==
  ASSUME WQInv, AsleepOK, NEW t \in Threads, wait_queue_return(t)
  PROVE  /\ WQInv' /\ AsleepOK'
         /\ frame[t] \in Queues
         /\ \A x \in Queues : /\ list'[x] = list[x] /\ Busy(x)' = Busy(x) \ {t}
                              /\ Waking(x)' = Waking(x) \ {t}
<1>1. WQInv'
  BY ReturnInv
<1>2. /\ frame[t] \in Queues /\ t \notin Range(list[frame[t]]) /\ list' = list
      /\ \A u \in Threads : /\ frame'[u] = IF u = t THEN NoQueue ELSE frame[u]
                            /\ block_ret'[u] = IF u = t THEN NO_ERROR ELSE block_ret[u]
  BY ReturnEffect
<1>3. \A x \in Queues : t \notin Range(list[x])
  BY <1>2, NotElsewhere
<1>4. \A x \in Queues : Busy(x)' = Busy(x) \ {t}
  BY <1>2, WaitQueueAssumption DEF Busy
<1>5. AsleepOK'
  BY <1>2, <1>3, <1>4 DEF AsleepOK
<1> QED
  BY <1>1, <1>2, <1>4, <1>5 DEF Waking

LEMMA TimeoutReader ==
  ASSUME WQInv, AsleepOK, NEW t \in Threads, wait_queue_timeout_handler(t)
  PROVE  /\ WQInv' /\ AsleepOK'
         /\ \A x \in Queues : /\ Range(list'[x]) \subseteq Range(list[x])
                              /\ Busy(x)' \subseteq Busy(x) /\ Waking(x)' = Waking(x)
<1>1. WQInv'
  BY TimeoutInv
<1> DEFINE q == frame[t]
<1>2. q \in Queues
  BY WaitQueueAssumption DEF wait_queue_timeout_handler, WQInv, WQTypeOK, NoDanglingTimer
<1>3. /\ Range(list'[q]) = Range(list[q]) \ {t}
      /\ \A p \in Queues \ {q} : list'[p] = list[p]
      /\ frame' = frame
      /\ \A u \in Threads :
           block_ret'[u] = IF u = t /\ u \in Range(list[q]) THEN ERR_TIMED_OUT ELSE block_ret[u]
  BY <1>2, TimeoutEffect
<1>4. \A x \in Queues : Range(list'[x]) = IF x = q THEN Range(list[x]) \ {t} ELSE Range(list[x])
  BY <1>3
<1>5. ERR_TIMED_OUT # NO_ERROR
  BY DEF ERR_TIMED_OUT, NO_ERROR
<1>6. \A x \in Queues : Busy(x)' = IF x = q /\ t \in Range(list[q]) THEN Busy(x) \ {t} ELSE Busy(x)
  BY <1>3, <1>5 DEF Busy
<1> HIDE DEF q
<1>7. AsleepOK'
  <2> SUFFICES ASSUME NEW x \in Queues PROVE Range(list'[x]) \subseteq Busy(x)'
    BY DEF AsleepOK
  <2>1. Range(list[x]) \subseteq Busy(x)
    BY DEF AsleepOK
  <2> QED
    BY <1>4, <1>6, <2>1
<1> QED
  BY <1>1, <1>4, <1>6, <1>7 DEF Waking
-----------------------------------------------------------------------------
(***************************************************************************)
(* Counting packets and the readers that are on their way to them.         *)
(***************************************************************************)
Places == ReadPorts \X (1 .. PORT_BUFF_SIZE)

LEMMA FiniteSides ==
  /\ \A A : A \subseteq Places => IsFiniteSet(A) /\ Cardinality(A) \in Nat
  /\ \A W : W \subseteq Threads => IsFiniteSet(W) /\ Cardinality(W) \in Nat
<1>1. IsFiniteSet(1 .. PORT_BUFF_SIZE)
  BY FS_Interval, PortAssumption
<1>2. IsFiniteSet(Places)
  BY <1>1, FS_Product, PortAssumption DEF Places
<1>3. IsFiniteSet(Threads)
  BY PortAssumption
<1> QED
  BY <1>2, <1>3, FS_Subset, FS_CardinalityType

LEMMA FewerPackets ==
  ASSUME NEW A \in SUBSET Places, NEW B \in SUBSET A,
         NEW W \in SUBSET Threads, NEW V \in SUBSET Threads, W \subseteq V,
         Cardinality(A) <= Cardinality(W)
  PROVE  Cardinality(B) <= Cardinality(V)
<1>1. IsFiniteSet(A) /\ IsFiniteSet(V) /\ IsFiniteSet(B) /\ IsFiniteSet(W)
  BY FiniteSides
<1>2. Cardinality(B) <= Cardinality(A) /\ Cardinality(W) <= Cardinality(V)
  BY <1>1, FS_Subset
<1>3. /\ Cardinality(A) \in Nat /\ Cardinality(B) \in Nat
      /\ Cardinality(W) \in Nat /\ Cardinality(V) \in Nat
  BY <1>1, FS_CardinalityType
<1> QED
  BY <1>2, <1>3

LEMMA OnePacketLess ==
  ASSUME NEW A \in SUBSET Places, NEW p \in A, NEW B \in SUBSET (A \ {p}),
         NEW W \in SUBSET Threads, NEW V \in SUBSET Threads, NEW t, W \subseteq V \cup {t},
         Cardinality(A) <= Cardinality(W)
  PROVE  Cardinality(B) <= Cardinality(V)
<1>1. IsFiniteSet(A) /\ IsFiniteSet(V) /\ IsFiniteSet(W) /\ IsFiniteSet(A \ {p})
  BY FiniteSides
<1>2. Cardinality(A \ {p}) = Cardinality(A) - 1
  BY <1>1, FS_RemoveElement
<1>3. Cardinality(B) <= Cardinality(A \ {p})
  BY <1>1, FS_Subset
<1>4. IsFiniteSet(V \cup {t}) /\ Cardinality(V \cup {t}) <= Cardinality(V) + 1
  <2>1. Cardinality(V) \in Nat
    BY <1>1, FS_CardinalityType
  <2>2. /\ IsFiniteSet(V \cup {t})
        /\ Cardinality(V \cup {t}) = Cardinality(V) \/ Cardinality(V \cup {t}) = Cardinality(V) + 1
    BY <1>1, FS_AddElement
  <2> QED
    BY <2>1, <2>2
<1>5. Cardinality(W) <= Cardinality(V \cup {t})
  BY <1>4, FS_Subset
<1>6. /\ Cardinality(A) \in Nat /\ Cardinality(A \ {p}) \in Nat /\ Cardinality(V \cup {t}) \in Nat
      /\ Cardinality(W) \in Nat /\ Cardinality(V) \in Nat /\ Cardinality(B) \in Nat
  BY <1>1, <1>4, FS_CardinalityType, FiniteSides
<1> QED
  BY <1>2, <1>3, <1>4, <1>5, <1>6

LEMMA MorePackets ==
  ASSUME NEW A \in SUBSET Places, NEW C \in SUBSET Places, NEW B \in SUBSET (A \cup C),
         NEW W \in SUBSET Threads, NEW V \in SUBSET Threads, NEW D \in SUBSET Threads,
         W \cup D \subseteq V, W \cap D = {},
         Cardinality(A) <= Cardinality(W), Cardinality(C) <= Cardinality(D)
  PROVE  Cardinality(B) <= Cardinality(V)
<1>1. /\ IsFiniteSet(A) /\ IsFiniteSet(C) /\ IsFiniteSet(A \cup C) /\ IsFiniteSet(W)
      /\ IsFiniteSet(D) /\ IsFiniteSet(V) /\ IsFiniteSet(B) /\ IsFiniteSet(A \cap C)
      /\ IsFiniteSet(W \cup D)
  <2>1. A \cup C \subseteq Places /\ A \cap C \subseteq Places /\ B \subseteq Places /\ W \cup D \subseteq Threads
    OBVIOUS
  <2> QED
    BY <2>1, FiniteSides
<1>2. Cardinality(A \cup C) = Cardinality(A) + Cardinality(C) - Cardinality(A \cap C)
  BY <1>1, FS_Union
<1>3. Cardinality(W \cup D) = Cardinality(W) + Cardinality(D)
  <2>1. Cardinality(W \cup D) = Cardinality(W) + Cardinality(D) - Cardinality(W \cap D)
    BY <1>1, FS_Union
  <2>2. Cardinality(W \cap D) = 0
    BY FS_EmptySet
  <2>3. Cardinality(W) \in Nat /\ Cardinality(D) \in Nat
    BY <1>1, FS_CardinalityType
  <2> QED
    BY <2>1, <2>2, <2>3
<1>4. Cardinality(B) <= Cardinality(A \cup C) /\ Cardinality(W \cup D) <= Cardinality(V)
  BY <1>1, FS_Subset
<1>5. /\ Cardinality(A) \in Nat /\ Cardinality(C) \in Nat /\ Cardinality(A \cup C) \in Nat
      /\ Cardinality(W) \in Nat /\ Cardinality(D) \in Nat /\ Cardinality(V) \in Nat
      /\ Cardinality(B) \in Nat /\ Cardinality(A \cap C) \in Nat /\ Cardinality(W \cup D) \in Nat
  BY <1>1, FS_CardinalityType
<1> QED
  BY <1>2, <1>3, <1>4, <1>5

\* What a step may do to the packets and the readers of a queue with sleepers.
Counted(x) ==
  \/ Available(x)' = {}
  \/ /\ list[x] # <<>>
     /\ \/ Available(x)' \subseteq Available(x) /\ Waking(x) \subseteq Waking(x)'
        \/ \E p \in Available(x), t \in Threads : /\ Available(x)' \subseteq Available(x) \ {p}
                                                  /\ Waking(x) \subseteq Waking(x)' \cup {t}
        \/ \E C \in SUBSET Places, D \in SUBSET Waking(x)' :
             /\ Available(x)' \subseteq Available(x) \cup C
             /\ Waking(x) \subseteq Waking(x)' /\ Waking(x) \cap D = {}
             /\ Cardinality(C) <= Cardinality(D)

LEMMA CountStep ==
  ASSUME CountOK, Calm' => Calm, \A x \in Queues : Calm' /\ list'[x] # <<>> => Counted(x)
  PROVE  CountOK'
<1> SUFFICES ASSUME Calm', NEW x \in Queues, list'[x] # <<>>
             PROVE  (Cardinality(Available(x)) <= Cardinality(Waking(x)))'
  BY DEF CountOK
<1> DEFINE A == Available(x)
           B == Available(x)'
           W == Waking(x)
           V == Waking(x)'
<1>1. A \in SUBSET Places /\ B \in SUBSET Places
  BY DEF Available, Places
<1>2. W \in SUBSET Threads /\ V \in SUBSET Threads
  BY DEF Waking, Busy
<1>3. list[x] # <<>> => Cardinality(A) <= Cardinality(W)
  BY DEF CountOK
<1>4. Counted(x)
  OBVIOUS
<1>5. CASE B = {}
  <2>1. Cardinality(B) = 0 /\ Cardinality(V) \in Nat
    BY <1>2, <1>5, FS_EmptySet, FiniteSides
  <2> QED
    BY <2>1
<1>6. CASE list[x] # <<>> /\ B \subseteq A /\ W \subseteq V
  <2> HIDE DEF A, B, W, V
  <2>1. Cardinality(B) <= Cardinality(V)
    BY <1>1, <1>2, <1>3, <1>6, FewerPackets
  <2> QED
    BY <2>1 DEF B, V
<1>7. CASE list[x] # <<>> /\ \E p \in A, t \in Threads : B \subseteq A \ {p} /\ W \subseteq V \cup {t}
  <2> HIDE DEF A, B, W, V
  <2>1. PICK p \in A, t \in Threads : B \subseteq A \ {p} /\ W \subseteq V \cup {t}
    BY <1>7
  <2>2. B \in SUBSET (A \ {p})
    BY <2>1
  <2>3. Cardinality(B) <= Cardinality(V)
    BY <1>1, <1>2, <1>3, <1>7, <2>1, <2>2, OnePacketLess
  <2> QED
    BY <2>3 DEF B, V
<1>8. CASE list[x] # <<>> /\ \E C \in SUBSET Places, D \in SUBSET V :
             B \subseteq A \cup C /\ W \subseteq V /\ W \cap D = {} /\ Cardinality(C) <= Cardinality(D)
  <2> HIDE DEF A, B, W, V
  <2>1. PICK C \in SUBSET Places, D \in SUBSET V :
             B \subseteq A \cup C /\ W \subseteq V /\ W \cap D = {} /\ Cardinality(C) <= Cardinality(D)
    BY <1>8
  <2>2. B \in SUBSET (A \cup C) /\ D \in SUBSET Threads /\ W \cup D \subseteq V
    BY <1>2, <2>1
  <2>3. Cardinality(B) <= Cardinality(V)
    BY <1>1, <1>2, <1>3, <1>8, <2>1, <2>2, MorePackets
  <2> QED
    BY <2>3 DEF B, V
<1> QED
  BY <1>4, <1>5, <1>6, <1>7, <1>8 DEF Counted

\* Fewer members, or fewer packets in them, are fewer packets.
LEMMA FewerAvailable ==
  ASSUME NEW x, \A r \in ReadPorts : Held(r) \in Nat /\ Held(r)' \in Nat,
         \A r \in Members(x)' \cap ReadPorts : r \in Members(x) /\ Held(r)' <= Held(r)
  PROVE  Available(x)' \subseteq Available(x)
<1> SUFFICES ASSUME NEW p \in Places, p[1] \in Members(x)', p[2] <= Held(p[1])'
             PROVE  p[1] \in Members(x) /\ p[2] <= Held(p[1])
  BY DEF Available, Places
<1>1. p[1] \in ReadPorts /\ p[2] \in Nat
  BY PortAssumption DEF Places
<1>2. p[1] \in Members(x) /\ Held(p[1])' <= Held(p[1]) /\ Held(p[1]) \in Nat /\ Held(p[1])' \in Nat
  BY <1>1
<1> QED
  BY <1>1, <1>2

LEMMA HeldFacts ==
  ASSUME NEW o \in ReadObjects
  PROVE  /\ (IF o.buf = None THEN 0 ELSE Len(o.buf.packets)) \in Nat
         /\ (IF o.buf = None THEN 0 ELSE Len(o.buf.packets)) <= PORT_BUFF_SIZE
<1>1. CASE o.buf = None
  BY <1>1, PortAssumption
<1>2. CASE o.buf # None
  <2>1. o.buf \in PortBufs
    BY <1>2, ReadFields
  <2> QED
    BY <1>2, <2>1, BufFacts
<1> QED
  BY <1>1, <1>2

LEMMA HeldNumbers ==
  ASSUME PortTypeOK, PortTypeOK'
  PROVE  \A r \in ReadPorts : /\ Held(r) \in Nat /\ Held(r) <= PORT_BUFF_SIZE
                              /\ Held(r)' \in Nat /\ Held(r)' <= PORT_BUFF_SIZE
<1> SUFFICES ASSUME NEW r \in ReadPorts
             PROVE  /\ Held(r) \in Nat /\ Held(r) <= PORT_BUFF_SIZE
                    /\ Held(r)' \in Nat /\ Held(r)' <= PORT_BUFF_SIZE
  OBVIOUS
<1>1. rp[r] \in ReadObjects /\ rp'[r] \in ReadObjects
  BY DEF PortTypeOK
<1> QED
  BY <1>1, HeldFacts DEF Held
-----------------------------------------------------------------------------
(***************************************************************************)
(* What most steps have in common.                                         *)
(***************************************************************************)
LEMMA QueueKinds ==
  /\ \A r \in ReadPorts : r \in Queues /\ r \notin Groups /\ r # None
  /\ \A g \in Groups : g \in Queues /\ g \notin ReadPorts /\ g # None
  /\ \A x \in Queues : x \in ReadPorts \/ x \in Groups
  /\ \A w \in WritePorts : w # None
  /\ \A b \in PortBufs : b # None
  /\ None # "UNICAST"
BY PortAssumption DEF PortBufs, AllModes

LEMMA RiskFacts ==
  ASSUME NEW kind \in Risks, NEW happens, Risk(kind, happens), PortTypeOK
  PROVE  /\ risk' \in Risks
         /\ risk # "none" => risk' = risk
         /\ happens => risk' = kind
         /\ ~happens => risk' = risk
         /\ Calm' => Calm
BY DEF Risk, Risks, PortTypeOK, Calm

\* Nobody goes to sleep, and there are no more packets than before.
LEMMA ReadersFewer ==
  ASSUME WQInv, ReadersOK, WQInv', AsleepOK', risk' = risk,
         \A r \in ReadPorts : /\ Open(r) => Open(r)'
                              /\ rp'[r].gport # None => rp[r].gport # None,
         \A g \in Groups : OpenGroup(g) => OpenGroup(g)',
         \A x \in Queues : /\ Range(list'[x]) \subseteq Range(list[x])
                           /\ Busy(x)' \subseteq Busy(x) /\ Waking(x) \subseteq Waking(x)'
                           /\ Available(x)' \subseteq Available(x)
  PROVE  ReadersOK'
<1>1. \A x \in Queues : list[x] = <<>> => list'[x] = <<>>
  <2> SUFFICES ASSUME NEW x \in Queues, list[x] = <<>> PROVE list'[x] = <<>>
    OBVIOUS
  <2>1. Range(list'[x]) = {}
    BY EmptyList
  <2>2. list'[x] \in Seq(Threads)
    BY DEF WQInv, WQTypeOK
  <2> QED
    BY <2>1, <2>2, EmptyRange
<1>2. ClosedOK'
  BY <1>1, QueueKinds DEF ReadersOK, ClosedOK
<1>3. UsersOK'
  <2> SUFFICES ASSUME NEW x \in Queues PROVE OpenAt(x)' \/ Busy(x)' = {} \/ risk' = "close"
    BY DEF UsersOK
  <2>1. OpenAt(x) \/ Busy(x) = {} \/ risk = "close"
    BY DEF ReadersOK, UsersOK
  <2>2. OpenAt(x) => OpenAt(x)'
    BY QueueKinds DEF OpenAt
  <2>3. Busy(x) = {} => Busy(x)' = {}
    OBVIOUS
  <2> QED
    BY <2>1, <2>2, <2>3
<1>4. DirectOK'
  BY QueueKinds DEF ReadersOK, DirectOK, Calm
<1>5. CountOK'
  <2>1. Calm' => Calm
    BY DEF Calm
  <2>2. \A x \in Queues : Calm' /\ list'[x] # <<>> => Counted(x)
    BY <1>1 DEF Counted
  <2> QED
    BY <2>1, <2>2, CountStep DEF ReadersOK
<1> QED
  BY <1>2, <1>3, <1>4, <1>5 DEF ReadersOK

\* The read side does not change.
LEMMA ReadersSame ==
  ASSUME WQInv, ReadersOK, UNCHANGED <<wqvars, rp, pg, risk>>
  PROVE  WQInv' /\ ReadersOK'
<1>1. AsleepOK /\ rp' = rp /\ pg' = pg /\ risk' = risk /\ UNCHANGED wqvars
  BY DEF ReadersOK
<1>2. /\ WQInv' /\ AsleepOK'
      /\ \A x \in Queues : Busy(x)' = Busy(x) /\ Waking(x)' = Waking(x) /\ list'[x] = list[x]
  BY <1>1, SameReaders
<1>3. \A x : Available(x)' = Available(x)
  BY <1>1 DEF Available, Members, Held
<1>4. /\ \A r \in ReadPorts : Open(r)' = Open(r) /\ rp'[r].gport = rp[r].gport
      /\ \A g \in Groups : OpenGroup(g)' = OpenGroup(g)
  BY <1>1 DEF Open, OpenGroup
<1> QED
  BY <1>1, <1>2, <1>3, <1>4, ReadersFewer

LEMMA SameObjects ==
  ASSUME PortTypeOK, ObjectsOK, UNCHANGED <<write_port_list, wp, rp, pg, written>>,
         timed' \subseteq Threads, risk' \in Risks, risk = "remove" => risk' = "remove"
  PROVE  PortTypeOK' /\ ObjectsOK'
<1>1. PortTypeOK'
  BY DEF PortTypeOK
<1>2. WriteSide' /\ ReadSide' /\ GroupSide' /\ WriteLinks' /\ GroupLinks'
  BY DEF ObjectsOK, WriteSide, ReadSide, GroupSide, WriteLinks, GroupLinks
<1>3. UnicastOK'
  BY DEF ObjectsOK, UnicastOK, RingOf
<1> QED
  BY <1>1, <1>2, <1>3 DEF ObjectsOK

\* The code breaks, for one of the two causes.
LEMMA BreakInv ==
  ASSUME PortInv, NEW how, Break(how), risk \in {"remove", "close"}
  PROVE  PortInv'
<1>1. UNCHANGED <<wqvars, rp, pg, risk>> /\ UNCHANGED <<write_port_list, wp, rp, pg, written>>
      /\ timed' = timed
  BY DEF Break
<1>2. WQInv' /\ ReadersOK'
  BY <1>1, ReadersSame DEF PortInv
<1>3. PortTypeOK' /\ ObjectsOK'
  BY <1>1, SameObjects DEF PortInv, PortTypeOK
<1>4. FaultHasCause'
  BY <1>1 DEF FaultHasCause
<1> QED
  BY <1>2, <1>3, <1>4 DEF PortInv

\* A pointer to a group that is freed, or that does not list the port.
LEMMA StalePointer ==
  ASSUME PortInv, NEW r \in ReadPorts, rp[r].gport # None,
         pg[rp[r].gport].magic = "free" \/ r \notin Range(pg[rp[r].gport].rps)
  PROVE  risk = "remove"
<1>1. rp[r].gport \in Groups
  BY PortFields DEF PortInv
<1>2. r \notin Range(pg[rp[r].gport].rps)
  BY <1>1, EmptyList DEF PortInv, ObjectsOK, GroupSide
<1> QED
  BY <1>1, <1>2 DEF PortInv, ObjectsOK, GroupLinks
-----------------------------------------------------------------------------
(***************************************************************************)
(* The write side: only the write port changes.                            *)
(***************************************************************************)
LEMMA CreateInv ==
  ASSUME PortInv, NEW name \in Names, NEW mode \in Modes, port_create(name, mode)
  PROVE  PortInv'
<1> DEFINE new == [magic |-> "W", name |-> name, mode |-> mode, buf |-> make_buf, rps |-> <<>>]
<1>1. PICK w \in WritePorts : /\ wp[w].magic = "free"
                              /\ wp' = [wp EXCEPT ![w] = new]
                              /\ written' = [written EXCEPT ![w] = 0]
  BY DEF port_create
<1>2. UNCHANGED <<wqvars, rp, pg, risk>> /\ UNCHANGED <<write_port_list, timed, broken>>
  BY DEF port_create
<1>3. /\ new \in WriteObjects /\ new.magic = "W" /\ new.mode = mode /\ new.buf = make_buf
      /\ new.rps = <<>>
  BY MakeBuf, EmptyList DEF WriteObjects
<1> HIDE DEF new
<1>4. /\ \A v \in WritePorts : wp'[v] = IF v = w THEN new ELSE wp[v]
      /\ \A v \in WritePorts : written'[v] = IF v = w THEN 0 ELSE written[v]
  BY <1>1 DEF PortInv, PortTypeOK
<1>5. PortTypeOK'
  BY <1>1, <1>2, <1>3 DEF PortInv, PortTypeOK
<1>6. WQInv' /\ ReadersOK' /\ FaultHasCause'
  <2>1. WQInv' /\ ReadersOK'
    BY <1>2, ReadersSame DEF PortInv
  <2> QED
    BY <1>2, <2>1 DEF PortInv, FaultHasCause
<1>7. make_buf # None /\ Len(<<>>) = 0
  BY MakeBuf, QueueKinds
<1>8. WriteSide'
  <2>1. \A v \in Range(write_port_list) : v \in WritePorts
    BY PortTypes DEF PortInv
  <2> QED
    BY <1>2, <1>3, <1>4, <1>7, <2>1, EmptyList DEF PortInv, ObjectsOK, WriteSide
<1>9. ReadSide' /\ GroupSide' /\ GroupLinks'
  BY <1>2 DEF PortInv, ObjectsOK, ReadSide, GroupSide, GroupLinks
<1>10. \A v \in WritePorts : wp'[v].rps = wp[v].rps
  BY <1>1, <1>3, <1>4 DEF PortInv, ObjectsOK, WriteSide
<1>11. WriteLinks'
  BY <1>2, <1>10 DEF PortInv, ObjectsOK, WriteLinks
<1>12. UnicastOK'
  <2> SUFFICES ASSUME NEW v \in WritePorts, wp'[v].mode = "UNICAST"
               PROVE  InOrder(RingOf(v)', written'[v])
    BY DEF UnicastOK, InOrder
  <2>1. CASE v = w
    <3>1. RingOf(v)' = make_buf /\ written'[v] = 0
      BY <1>3, <1>4, <1>7, <2>1 DEF RingOf
    <3> QED
      BY <3>1, MakeBuf
  <2>2. CASE v # w
    <3>1. RingOf(v)' = RingOf(v) /\ written'[v] = written[v] /\ wp[v].mode = "UNICAST"
      BY <1>2, <1>4, <2>2 DEF RingOf
    <3> QED
      BY <3>1 DEF PortInv, ObjectsOK, UnicastOK
  <2> QED
    BY <2>1, <2>2
<1> QED
  BY <1>5, <1>6, <1>8, <1>9, <1>11, <1>12 DEF PortInv, ObjectsOK

LEMMA CreateInsertInv ==
  ASSUME PortInv, NEW w \in WritePorts, port_create_insert(w)
  PROVE  PortInv'
<1>1. /\ wp[w].magic = "W" /\ w \notin Range(write_port_list)
      /\ write_port_list' = Append(write_port_list, w)
      /\ UNCHANGED <<wqvars, rp, pg, risk>>
      /\ wp' = wp /\ timed' = timed /\ broken' = broken /\ written' = written
  BY DEF port_create_insert, Listed
<1>2. write_port_list \in Seq(WritePorts) /\ IsInjective(write_port_list)
  BY DEF PortInv, PortTypeOK, ObjectsOK, WriteSide
<1>3. /\ write_port_list' \in Seq(WritePorts) /\ IsInjective(write_port_list')
      /\ Range(write_port_list') = Range(write_port_list) \cup {w}
  BY <1>1, <1>2, AppendLemma
<1>4. PortTypeOK'
  BY <1>1, <1>3 DEF PortInv, PortTypeOK
<1>5. WQInv' /\ ReadersOK'
  BY <1>1, ReadersSame DEF PortInv
<1>6. WriteSide'
  BY <1>1, <1>3 DEF PortInv, ObjectsOK, WriteSide
<1>7. ReadSide' /\ GroupSide' /\ GroupLinks' /\ WriteLinks'
  BY <1>1 DEF PortInv, ObjectsOK, ReadSide, GroupSide, GroupLinks, WriteLinks
<1>8. UnicastOK' /\ FaultHasCause'
  BY <1>1 DEF PortInv, ObjectsOK, UnicastOK, RingOf, FaultHasCause
<1> QED
  BY <1>4, <1>5, <1>6, <1>7, <1>8 DEF PortInv, ObjectsOK

\* The number of the next packet, and how it moves on.
LEMMA NumberFacts ==
  ASSUME PortInv, NEW w \in WritePorts, NEW count \in Nat, Advance(w, count)
  PROVE  /\ Number(w) \in Nat \cup {Unmarked}
         /\ wp[w].mode = "UNICAST" => Number(w) = written[w] /\ Number(w) \in Nat
         /\ written' \in [WritePorts -> Nat]
         /\ \A v \in WritePorts :
              written'[v] = IF v = w /\ wp[w].mode = "UNICAST"
                              THEN (written[w] + count) % Stamps ELSE written[v]
<1>1. written \in [WritePorts -> Nat]
  BY DEF PortInv, PortTypeOK
<1> DEFINE x == written[w] + count
<1>2. x \in Int
  BY <1>1
<1> HIDE DEF x
<1>3. x % Stamps \in Nat
  BY <1>2, StampsPositive, Division
<1>4. written' = IF wp[w].mode = "UNICAST" THEN [written EXCEPT ![w] = x % Stamps] ELSE written
  BY DEF Advance, x
<1>5. /\ written' \in [WritePorts -> Nat]
      /\ \A v \in WritePorts : written'[v] = IF v = w /\ wp[w].mode = "UNICAST"
                                               THEN x % Stamps ELSE written[v]
  BY <1>1, <1>3, <1>4
<1> QED
  BY <1>1, <1>5 DEF x, Number

LEMMA WritePendingInv ==
  ASSUME PortInv, NEW w \in WritePorts, NEW count \in WriteCounts, port_write_pending(w, count)
  PROVE  PortInv'
<1> DEFINE b == buf_write(wp[w].buf, Number(w), count)
           new == [wp[w] EXCEPT !.buf = b]
<1>0. count \in Nat
  BY PortAssumption
<1>1. /\ wp[w].magic = "W" /\ wp[w].buf # None /\ buf_fits(wp[w].buf, count)
      /\ wp' = [wp EXCEPT ![w] = new] /\ Advance(w, count)
      /\ UNCHANGED <<wqvars, rp, pg, risk>> /\ UNCHANGED <<write_port_list, timed, broken>>
  BY DEF port_write_pending
<1>2. wp[w].buf \in PortBufs /\ wp[w] \in WriteObjects
  BY <1>1, PortFields, PortTypes DEF PortInv
<1>3. /\ Number(w) \in Nat \cup {Unmarked}
      /\ wp[w].mode = "UNICAST" => Number(w) = written[w] /\ Number(w) \in Nat
      /\ written' \in [WritePorts -> Nat]
      /\ \A v \in WritePorts :
           written'[v] = IF v = w /\ wp[w].mode = "UNICAST"
                           THEN (written[w] + count) % Stamps ELSE written[v]
  BY <1>0, <1>1, NumberFacts
<1>4. /\ b \in PortBufs
      /\ wp[w].mode = "UNICAST" /\ InOrder(wp[w].buf, written[w]) =>
           InOrder(b, (written[w] + count) % Stamps)
  BY <1>0, <1>1, <1>2, <1>3, BufWrite
<1> HIDE DEF b
<1>5. /\ new \in WriteObjects /\ new.magic = wp[w].magic /\ new.mode = wp[w].mode
      /\ new.buf = b /\ new.rps = wp[w].rps
  <2>1. b \in PortBufs \cup {None}
    BY <1>4
  <2> QED
    BY <1>2, <2>1, WriteUpdate, ZenonT(40)
<1> HIDE DEF new
<1>6. \A v \in WritePorts : wp'[v] = IF v = w THEN new ELSE wp[v]
  BY <1>1 DEF PortInv, PortTypeOK
<1>7. PortTypeOK'
  BY <1>1, <1>3, <1>5 DEF PortInv, PortTypeOK
<1>8. WQInv' /\ ReadersOK'
  BY <1>1, ReadersSame DEF PortInv
<1>9. b # None
  BY <1>4, QueueKinds
<1>10. WriteSide'
  <2>1. \A v \in Range(write_port_list) : v \in WritePorts
    BY PortTypes DEF PortInv
  <2> QED
    BY <1>1, <1>5, <1>6, <1>9, <2>1 DEF PortInv, ObjectsOK, WriteSide
<1>11. ReadSide' /\ GroupSide' /\ GroupLinks' /\ FaultHasCause'
  BY <1>1 DEF PortInv, ObjectsOK, ReadSide, GroupSide, GroupLinks, FaultHasCause
<1>12. WriteLinks'
  BY <1>1, <1>5, <1>6 DEF PortInv, ObjectsOK, WriteLinks
<1>13. UnicastOK'
  <2> SUFFICES ASSUME NEW v \in WritePorts, wp'[v].mode = "UNICAST"
               PROVE  InOrder(RingOf(v)', written'[v])
    BY DEF UnicastOK, InOrder
  <2>0. InOrder(RingOf(v), written[v])
    BY <1>5, <1>6 DEF PortInv, ObjectsOK, UnicastOK
  <2>1. CASE v = w
    <3>1. RingOf(v)' = b /\ RingOf(v) = wp[w].buf /\ wp[w].mode = "UNICAST"
      BY <1>1, <1>5, <1>6, <1>9, <2>1 DEF RingOf
    <3> QED
      BY <1>3, <1>4, <2>0, <2>1, <3>1
  <2>2. CASE v # w
    <3>1. RingOf(v)' = RingOf(v) /\ written'[v] = written[v]
      BY <1>1, <1>3, <1>6, <2>2 DEF RingOf
    <3> QED
      BY <2>0, <3>1
  <2> QED
    BY <2>1, <2>2
<1> QED
  BY <1>7, <1>8, <1>10, <1>11, <1>12, <1>13 DEF PortInv, ObjectsOK

LEMMA CloseWriteInv ==
  ASSUME PortInv, NEW w \in WritePorts, port_close_write(w)
  PROVE  PortInv'
<1> DEFINE new == [wp[w] EXCEPT !.magic = "X"]
<1>1. /\ wp[w].magic = "W" /\ wp' = [wp EXCEPT ![w] = new] /\ written' = written
      /\ UNCHANGED <<wqvars, rp, pg, risk>> /\ UNCHANGED <<write_port_list, timed, broken>>
  BY DEF port_close_write
<1>2. /\ new \in WriteObjects /\ new.magic = "X" /\ new.mode = wp[w].mode
      /\ new.buf = wp[w].buf /\ new.rps = wp[w].rps
  BY PortTypes, WriteUpdate DEF PortInv
<1> HIDE DEF new
<1>3. \A v \in WritePorts : wp'[v] = IF v = w THEN new ELSE wp[v]
  BY <1>1 DEF PortInv, PortTypeOK
<1>4. PortTypeOK'
  BY <1>1, <1>2 DEF PortInv, PortTypeOK
<1>5. WQInv' /\ ReadersOK'
  BY <1>1, ReadersSame DEF PortInv
<1>6. WriteSide'
  <2>1. \A v \in Range(write_port_list) : v \in WritePorts
    BY PortTypes DEF PortInv
  <2> QED
    BY <1>1, <1>2, <1>3, <2>1 DEF PortInv, ObjectsOK, WriteSide
<1>7. ReadSide' /\ GroupSide' /\ GroupLinks' /\ FaultHasCause'
  BY <1>1 DEF PortInv, ObjectsOK, ReadSide, GroupSide, GroupLinks, FaultHasCause
<1>8. \A v \in WritePorts : /\ wp'[v].rps = wp[v].rps /\ wp'[v].buf = wp[v].buf
                            /\ wp'[v].mode = wp[v].mode
  BY <1>2, <1>3
<1>9. WriteLinks' /\ UnicastOK'
  BY <1>1, <1>8 DEF PortInv, ObjectsOK, WriteLinks, UnicastOK, RingOf
<1> QED
  BY <1>4, <1>5, <1>6, <1>7, <1>9 DEF PortInv, ObjectsOK
-----------------------------------------------------------------------------
LEMMA AvailableSame ==
  ASSUME NEW x, x \in Groups => pg'[x].rps = pg[x].rps,
         \A r \in ReadPorts : rp'[r].buf = rp[r].buf
  PROVE  Available(x)' = Available(x)
<1>1. \A r \in ReadPorts : Held(r)' = Held(r)
  BY DEF Held
<1>2. Members(x)' = Members(x)
  BY DEF Members
<1>3. \A p \in Places : p[1] \in ReadPorts
  BY DEF Places
<1> QED
  BY <1>1, <1>2, <1>3 DEF Available, Places

\* port_destroy: the readers are sent away and the read ports are orphans.
LEMMA DestroyInv ==
  ASSUME PortInv, NEW w \in WritePorts, port_destroy(w)
  PROVE  PortInv'
<1> DEFINE readers == Range(wp[w].rps)
           queues == readers \cup ({rp[r].gport : r \in readers} \ {None})
<1>1. readers \subseteq ReadPorts
  BY PortFields DEF PortInv
<1>2. queues \subseteq Queues
  <2>1. \A r \in readers : rp[r].gport \in Groups \cup {None}
    BY <1>1, PortFields DEF PortInv
  <2> QED
    BY <1>1, <2>1, QueueKinds
<1>3. CASE \E q \in queues \cap Groups : pg[q].magic = "free"
  <2>1. PICK q \in queues \cap Groups : pg[q].magic = "free"
    BY <1>3
  <2>2. PICK r \in readers : rp[r].gport = q /\ q # None
    BY <1>1, <2>1, QueueKinds
  <2>3. risk = "remove"
    BY <1>1, <2>1, <2>2, StalePointer
  <2>4. Break("freed group")
    BY <1>3 DEF port_destroy
  <2> QED
    BY <2>3, <2>4, BreakInv
<1>4. CASE ~ \E q \in queues \cap Groups : pg[q].magic = "free"
  <2>1. /\ wp[w].magic = "X"
        /\ write_port_list' = RemoveFirst(write_port_list, w)
        /\ list' = [x \in Queues |-> IF x \in queues THEN <<>> ELSE list[x]]
        /\ block_ret' = [t \in Threads |-> IF t \in UNION {Range(list[x]) : x \in queues}
                                             THEN ERR_CANCELLED ELSE block_ret[t]]
        /\ rp' = [r \in ReadPorts |-> IF r \in readers THEN [rp[r] EXCEPT !.wport = None]
                                                       ELSE rp[r]]
        /\ wp' = [wp EXCEPT ![w] = FreeWrite]
        /\ written' = [written EXCEPT ![w] = 0]
    BY <1>4 DEF port_destroy
  <2>2. /\ frame' = frame /\ timer' = timer /\ pg' = pg /\ timed' = timed /\ broken' = broken
        /\ risk' = risk
    BY <1>4 DEF port_destroy
  <2> HIDE DEF queues
  <2>3. ERR_CANCELLED \in Status \ {NO_ERROR} /\ queues \in SUBSET Queues /\ AsleepOK /\ WQInv
    BY <1>2 DEF Status, ERR_CANCELLED, NO_ERROR, PortInv, ReadersOK
  <2>4. /\ WQInv' /\ AsleepOK'
        /\ \A x \in Queues : /\ x \in queues => list'[x] = <<>> /\ Busy(x)' = Waking(x)
                             /\ x \notin queues => list'[x] = list[x] /\ Busy(x)' = Busy(x)
                             /\ Waking(x)' = Waking(x)
    BY <2>1, <2>2, <2>3, SendAway
  <2>5. \A r \in ReadPorts :
          /\ rp'[r] \in ReadObjects /\ rp'[r].magic = rp[r].magic /\ rp'[r].buf = rp[r].buf
          /\ rp'[r].gport = rp[r].gport
          /\ rp'[r].wport = IF r \in readers THEN None ELSE rp[r].wport
    <3> SUFFICES ASSUME NEW r \in ReadPorts
                 PROVE /\ rp'[r] \in ReadObjects /\ rp'[r].magic = rp[r].magic /\ rp'[r].buf = rp[r].buf
                       /\ rp'[r].gport = rp[r].gport
                       /\ rp'[r].wport = IF r \in readers THEN None ELSE rp[r].wport
      OBVIOUS
    <3>1. rp[r] \in ReadObjects
      BY PortTypes DEF PortInv
    <3>2. None \in WritePorts \cup {None}
      OBVIOUS
    <3> QED
      BY <2>1, <3>1, <3>2, ReadUpdate, SMTT(30)
  <2>6. \A v \in WritePorts : /\ wp'[v] = IF v = w THEN FreeWrite ELSE wp[v]
                              /\ v # w => written'[v] = written[v]
    BY <2>1 DEF PortInv, PortTypeOK
  <2>7. /\ write_port_list' \in Seq(WritePorts) /\ IsInjective(write_port_list')
        /\ Range(write_port_list') = Range(write_port_list) \ {w}
    BY <2>1, RemoveFirstLemma DEF PortInv, PortTypeOK, ObjectsOK, WriteSide
  <2>8. PortTypeOK'
    <3>1. rp' \in [ReadPorts -> ReadObjects]
      BY <2>1, <2>5
    <3>2. wp' \in [WritePorts -> WriteObjects] /\ written' \in [WritePorts -> Nat]
      BY <2>1, FreeObjects DEF PortInv, PortTypeOK
    <3> QED
      BY <2>2, <2>7, <3>1, <3>2 DEF PortInv, PortTypeOK
  <2>9. ReadersOK'
    <3>1. \A r \in ReadPorts : Open(r)' = Open(r) /\ rp'[r].gport = rp[r].gport
      BY <2>5 DEF Open
    <3>2. \A g \in Groups : OpenGroup(g)' = OpenGroup(g)
      BY <2>2 DEF OpenGroup
    <3>3. \A x : Available(x)' = Available(x)
      BY <2>2, <2>5, AvailableSame
    <3>4. \A x \in Queues : Range(list'[x]) \subseteq Range(list[x]) /\ Busy(x)' \subseteq Busy(x)
      BY <2>4, EmptyList DEF Waking
    <3> QED
      BY <2>2, <2>4, <3>1, <3>2, <3>3, <3>4, ReadersFewer DEF PortInv
  <2>10. WriteSide'
    <3>1. \A v \in Range(write_port_list) : v \in WritePorts
      BY PortTypes DEF PortInv
    <3>2. \A v \in Range(write_port_list') : v \in WritePorts /\ v # w /\ v \in Range(write_port_list)
      BY <2>7, <3>1
    <3>3. \A v \in Range(write_port_list') : wp'[v].magic # "free"
      BY <2>6, <3>2 DEF PortInv, ObjectsOK, WriteSide
    <3> QED
      BY <2>6, <2>7, <3>3, FreeObjects DEF PortInv, ObjectsOK, WriteSide
  <2>11. ReadSide' /\ GroupSide' /\ GroupLinks' /\ FaultHasCause'
    BY <2>2, <2>5 DEF PortInv, ObjectsOK, ReadSide, GroupSide, GroupLinks, FaultHasCause
  <2>12. WriteLinks'
    <3> SUFFICES ASSUME NEW r \in ReadPorts, NEW v \in WritePorts
                 PROVE  rp'[r].wport = v <=> r \in Range(wp'[v].rps)
      BY DEF WriteLinks
    <3>1. /\ rp[r].wport = v <=> r \in Range(wp[v].rps)
          /\ rp[r].wport = w <=> r \in readers
      BY DEF PortInv, ObjectsOK, WriteLinks
    <3> QED
      BY <2>5, <2>6, <3>1, FreeObjects, EmptyList, QueueKinds
  <2>13. UnicastOK'
    <3> SUFFICES ASSUME NEW v \in WritePorts, wp'[v].mode = "UNICAST"
                 PROVE  InOrder(RingOf(v)', written'[v])
      BY DEF UnicastOK, InOrder
    <3>1. v # w
      BY <2>6, FreeObjects, QueueKinds
    <3>2. wp'[v] = wp[v] /\ written'[v] = written[v]
      BY <2>6, <3>1
    <3>3. RingOf(v)' = RingOf(v)
      <4>1. CASE wp[v].buf # None
        BY <3>2, <4>1 DEF RingOf
      <4>2. CASE wp[v].buf = None
        <5>1. wp[v].rps # <<>> /\ wp[v].rps \in Seq(ReadPorts)
          BY <3>2, <4>2, PortFields, QueueKinds DEF PortInv, ObjectsOK, WriteSide
        <5>2. Head(wp[v].rps) \in ReadPorts
          BY <5>1, TailLemma
        <5> QED
          BY <2>5, <3>2, <4>2, <5>2 DEF RingOf
      <4> QED
        BY <4>1, <4>2
    <3> QED
      BY <3>2, <3>3 DEF PortInv, ObjectsOK, UnicastOK
  <2> QED
    BY <2>4, <2>8, <2>9, <2>10, <2>11, <2>12, <2>13 DEF PortInv, ObjectsOK
<1> QED
  BY <1>3, <1>4

\* A list of one element.
LEMMA OneElement ==
  ASSUME NEW S, NEW s \in Seq(S), IsInjective(s), NEW e
  PROVE  /\ s = <<e>> <=> Range(s) = {e}
         /\ s # <<>> /\ Len(s) <= 1 => Range(s) = {Head(s)}
         /\ s = <<e>> => Head(s) = e
         /\ Len(s) <= 1 <=> \A x, y \in Range(s) : x = y
<1>1. Len(s) \in Nat /\ DOMAIN s = 1 .. Len(s) /\ (s = <<>> <=> Len(s) = 0)
  BY LenProperties, EmptySeq
<1>2. \A i, j \in DOMAIN s : s[i] = s[j] => i = j
  BY DEF IsInjective
<1>3. Range(s) = {s[i] : i \in 1 .. Len(s)}
  BY <1>1 DEF Range
<1>4. Len(s) <= 1 <=> \A x, y \in Range(s) : x = y
  <2>1. ASSUME \A x, y \in Range(s) : x = y, Len(s) > 1 PROVE FALSE
    <3>1. 1 \in 1 .. Len(s) /\ 2 \in 1 .. Len(s)
      BY <1>1, <2>1
    <3>2. s[1] \in Range(s) /\ s[2] \in Range(s)
      BY <1>3, <3>1
    <3>3. s[1] = s[2]
      BY <2>1, <3>2
    <3> QED
      BY <1>1, <1>2, <3>1, <3>3
  <2>2. ASSUME Len(s) <= 1 PROVE \A x, y \in Range(s) : x = y
    <3>1. \A i, j \in 1 .. Len(s) : i = j
      BY <1>1, <2>2
    <3> QED
      BY <1>3, <3>1
  <2> QED
    BY <1>1, <2>1, <2>2
<1>5. s # <<>> => Head(s) = s[1] /\ s[1] \in Range(s)
  BY <1>1, <1>3, HeadTailProperties
<1>6. s # <<>> /\ Len(s) <= 1 => Range(s) = {Head(s)}
  BY <1>4, <1>5
<1>7. ASSUME Range(s) = {e} PROVE s = <<e>>
  <2>1. s # <<>>
    BY <1>7, EmptyList
  <2>2. Len(s) = 1
    BY <1>1, <1>4, <1>7, <2>1
  <2>3. s[1] = e
    BY <1>5, <1>7, <2>1
  <2> QED
    BY <2>2, <2>3, <1>1
<1>8. ASSUME s = <<e>> PROVE Range(s) = {e} /\ Head(s) = e
  <2>1. Len(s) = 1 /\ s[1] = e
    BY <1>8
  <2>2. s # <<>>
    BY <1>1, <2>1
  <2> QED
    BY <1>4, <1>5, <1>6, <2>1, <2>2
<1> QED
  BY <1>4, <1>6, <1>7, <1>8

\* Where the ring of a unicast port is.
LEMMA UnicastRing ==
  ASSUME PortInv, NEW v \in WritePorts, wp[v].mode = "UNICAST"
  PROVE  /\ wp[v].magic # "free" /\ InOrder(RingOf(v), written[v])
         /\ wp[v].buf # None => RingOf(v) = wp[v].buf
         /\ wp[v].buf = None => /\ Head(wp[v].rps) \in ReadPorts
                                /\ Range(wp[v].rps) = {Head(wp[v].rps)}
                                /\ rp[Head(wp[v].rps)].wport = v
                                /\ RingOf(v) = rp[Head(wp[v].rps)].buf
<1>1. wp[v].magic # "free"
  BY QueueKinds DEF PortInv, ObjectsOK, WriteSide
<1>2. InOrder(RingOf(v), written[v])
  BY DEF PortInv, ObjectsOK, UnicastOK
<1>3. ASSUME wp[v].buf = None
      PROVE  /\ Head(wp[v].rps) \in ReadPorts
             /\ Range(wp[v].rps) = {Head(wp[v].rps)}
             /\ rp[Head(wp[v].rps)].wport = v
             /\ RingOf(v) = rp[Head(wp[v].rps)].buf
  <2>1. wp[v].rps # <<>> /\ Len(wp[v].rps) <= 1 /\ IsInjective(wp[v].rps)
    BY <1>1, <1>3 DEF PortInv, ObjectsOK, WriteSide
  <2>2. wp[v].rps \in Seq(ReadPorts)
    BY PortFields DEF PortInv
  <2>3. Head(wp[v].rps) \in ReadPorts /\ Range(wp[v].rps) = {Head(wp[v].rps)}
    BY <2>1, <2>2, TailLemma, OneElement
  <2>4. rp[Head(wp[v].rps)].wport = v
    BY <2>3 DEF PortInv, ObjectsOK, WriteLinks
  <2> QED
    BY <1>3, <2>3, <2>4 DEF RingOf
<1> QED
  BY <1>1, <1>2, <1>3 DEF RingOf

\* The write port that a lookup finds is in the list.
LEMMA FoundFacts ==
  ASSUME PortInv, NEW name, Found(name) # 0
  PROVE  /\ write_port_list[Found(name)] \in WritePorts
         /\ wp[write_port_list[Found(name)]].magic # "free"
<1> DEFINE I == {i \in 1 .. Len(write_port_list) : wp[write_port_list[i]].name = name}
<1>1. write_port_list \in Seq(WritePorts)
  BY DEF PortInv, PortTypeOK
<1>2. DOMAIN write_port_list = 1 .. Len(write_port_list) /\ Len(write_port_list) \in Nat
  BY <1>1, LenProperties
<1>3. Found(name) = IF I # {} THEN Min(I) ELSE 0
  BY DEF Found, SelectInSeq
<1>4. I \subseteq Nat
  BY <1>2
<1>5. I # {} /\ Found(name) = Min(I)
  BY <1>3
<1> HIDE DEF I
<1>6. Found(name) \in I
  BY <1>4, <1>5, LeastExists
<1>7. Found(name) \in DOMAIN write_port_list
  BY <1>2, <1>6 DEF I
<1>8. write_port_list[Found(name)] \in Range(write_port_list)
  BY <1>7 DEF Range
<1> QED
  BY <1>8, PortTypes DEF PortInv, ObjectsOK, WriteSide

\* port_open: the first reader takes the ring over.
LEMMA OpenInv ==
  ASSUME PortInv, NEW name \in Names, NEW r \in ReadPorts, port_open(name, r)
  PROVE  PortInv'
<1> DEFINE w == write_port_list[Found(name)]
           b == IF wp[w].buf # None THEN wp[w].buf ELSE make_buf
           new == [magic |-> "open", wport |-> w, gport |-> None, buf |-> b]
           s == Append(wp[w].rps, r)
           half == [wp[w] EXCEPT !.buf = None]
           neww == [half EXCEPT !.rps = s]
<1>1. /\ FreeReadPort(r) /\ Found(name) # 0
      /\ wp[w].buf = None => wp[w].mode # "UNICAST"
      /\ rp' = [rp EXCEPT ![r] = new]
      /\ wp' = [wp EXCEPT ![w] = neww]
  BY DEF port_open
<1>2. UNCHANGED wqvars /\ UNCHANGED <<write_port_list, pg, timed, broken, risk, written>>
  BY DEF port_open
<1>3. w \in WritePorts /\ wp[w].magic # "free"
  BY <1>1, FoundFacts
<1> HIDE DEF w
<1>4. b \in PortBufs
  BY <1>3, PortFields, MakeBuf DEF PortInv
<1>5. b # None
  BY <1>4, QueueKinds
<1>6. /\ new \in ReadObjects /\ new.magic = "open" /\ new.wport = w /\ new.gport = None
      /\ new.buf = b
  <2> HIDE DEF b
  <2> QED
    BY <1>3, <1>4 DEF ReadObjects
<1>7. rp[r].magic = "free" /\ rp[r].wport = None /\ rp[r].gport = None /\ rp[r].buf = None
  BY <1>1 DEF FreeReadPort, PortInv, ObjectsOK, ReadSide
<1>8. \A v \in WritePorts : r \notin Range(wp[v].rps)
  BY <1>7, QueueKinds DEF PortInv, ObjectsOK, WriteLinks
<1>9. wp[w].rps \in Seq(ReadPorts) /\ IsInjective(wp[w].rps) /\ wp[w] \in WriteObjects
  BY <1>3, PortFields, PortTypes DEF PortInv, ObjectsOK, WriteSide
<1>10. /\ s \in Seq(ReadPorts) /\ Range(s) = Range(wp[w].rps) \cup {r} /\ IsInjective(s)
       /\ s # <<>>
  <2>1. s \in Seq(ReadPorts) /\ Range(s) = Range(wp[w].rps) \cup {r} /\ IsInjective(s)
    BY <1>3, <1>8, <1>9, AppendLemma
  <2> QED
    BY <2>1, EmptyList
<1>11. /\ neww \in WriteObjects /\ neww.magic = wp[w].magic /\ neww.mode = wp[w].mode
       /\ neww.buf = None /\ neww.rps = s
  <2>1. /\ half \in WriteObjects /\ half.magic = wp[w].magic /\ half.mode = wp[w].mode
        /\ half.buf = None
    <3>1. None \in PortBufs \cup {None}
      OBVIOUS
    <3> QED
      BY <1>9, <3>1, WriteUpdate, ZenonT(40)
  <2> HIDE DEF half, s
  <2> QED
    BY <1>10, <2>1, WriteUpdate, ZenonT(60)
<1> HIDE DEF b, new, s, half, neww
<1>12. /\ \A v \in WritePorts : wp'[v] = IF v = w THEN neww ELSE wp[v]
       /\ \A p \in ReadPorts : rp'[p] = IF p = r THEN new ELSE rp[p]
  BY <1>1, <1>3 DEF PortInv, PortTypeOK
<1>13. PortTypeOK'
  BY <1>1, <1>2, <1>6, <1>11 DEF PortInv, PortTypeOK
<1>14. WriteSide'
  <2>1. \A v \in Range(write_port_list) : v \in WritePorts
    BY PortTypes DEF PortInv
  <2>2. wp[w].mode = "UNICAST" => Len(s) <= 1
    <3> HAVE wp[w].mode = "UNICAST"
    <3>1. wp[w].rps = <<>>
      BY <1>1, <1>3 DEF PortInv, ObjectsOK, WriteSide
    <3>2. \A x, y \in Range(s) : x = y
      BY <1>10, <3>1, EmptyList
    <3> QED
      BY <1>10, <3>2, OneElement
  <2> QED
    BY <1>2, <1>3, <1>10, <1>11, <1>12, <2>1, <2>2 DEF PortInv, ObjectsOK, WriteSide
<1>15. ReadSide' /\ GroupSide'
  BY <1>2, <1>5, <1>6, <1>12 DEF PortInv, ObjectsOK, ReadSide, GroupSide
<1>16. WriteLinks'
  <2> SUFFICES ASSUME NEW p \in ReadPorts, NEW v \in WritePorts
               PROVE  rp'[p].wport = v <=> p \in Range(wp'[v].rps)
    BY DEF WriteLinks
  <2>1. rp[p].wport = v <=> p \in Range(wp[v].rps)
    BY DEF PortInv, ObjectsOK, WriteLinks
  <2> QED
    BY <1>6, <1>8, <1>10, <1>11, <1>12, <2>1
<1>17. GroupLinks'
  <2> SUFFICES ASSUME NEW p \in ReadPorts, NEW g \in Groups
               PROVE  /\ p \in Range(pg'[g].rps) => rp'[p].gport = g
                      /\ rp'[p].gport = g => p \in Range(pg'[g].rps) \/ risk' = "remove"
    BY DEF GroupLinks
  <2>1. rp'[p].gport = rp[p].gport
    BY <1>6, <1>7, <1>12
  <2> QED
    BY <1>2, <2>1 DEF PortInv, ObjectsOK, GroupLinks
<1>18. UnicastOK'
  <2> SUFFICES ASSUME NEW v \in WritePorts, wp'[v].mode = "UNICAST"
               PROVE  InOrder(RingOf(v)', written'[v])
    BY DEF UnicastOK, InOrder
  <2>0. wp[v].mode = "UNICAST" /\ written'[v] = written[v]
    BY <1>2, <1>11, <1>12
  <2>1. InOrder(RingOf(v), written[v])
    BY <2>0, UnicastRing
  <2>2. RingOf(v)' = RingOf(v)
    <3>1. CASE v = w
      <4>1. wp[w].buf # None /\ wp[w].rps = <<>>
        BY <1>1, <1>3, <2>0, <3>1 DEF PortInv, ObjectsOK, WriteSide
      <4>2. Range(s) = {r}
        BY <1>10, <4>1, EmptyList
      <4>3. Head(s) = r
        BY <1>10, <4>2, OneElement
      <4> QED
        BY <1>6, <1>11, <1>12, <3>1, <4>1, <4>3 DEF RingOf, b
    <3>2. CASE v # w /\ wp[v].buf # None
      BY <1>12, <3>2 DEF RingOf
    <3>3. CASE v # w /\ wp[v].buf = None
      <4>1. Head(wp[v].rps) \in ReadPorts /\ Head(wp[v].rps) \in Range(wp[v].rps)
        BY <2>0, <3>3, UnicastRing
      <4>2. Head(wp[v].rps) # r
        BY <1>8, <4>1
      <4> QED
        BY <1>12, <3>3, <4>1, <4>2 DEF RingOf
    <3> QED
      BY <3>1, <3>2, <3>3
  <2> QED
    BY <2>0, <2>1, <2>2
<1>19. /\ WQInv' /\ AsleepOK'
       /\ \A x \in Queues : Busy(x)' = Busy(x) /\ Waking(x)' = Waking(x) /\ list'[x] = list[x]
  BY <1>2, SameReaders DEF PortInv, ReadersOK
<1>20. r \in Queues /\ Busy(r) = {} /\ list[r] = <<>>
  <2>1. r \in Queues /\ AsleepOK /\ WQInv
    BY QueueKinds DEF PortInv, ReadersOK
  <2>2. Busy(r) = {}
    BY <1>1, <2>1, ReaderFacts DEF FreeReadPort
  <2> QED
    BY <2>1, <2>2, ReaderFacts
<1>21. ClosedOK' /\ UsersOK' /\ DirectOK'
  <2>1. \A p \in ReadPorts : p # r => (Open(p)' <=> Open(p)) /\ rp'[p].gport = rp[p].gport
    BY <1>12 DEF Open
  <2>2. \A g \in Groups : OpenGroup(g)' <=> OpenGroup(g)
    BY <1>2 DEF OpenGroup
  <2>3. rp'[r].gport = None
    BY <1>6, <1>12
  <2>4. ClosedOK'
    BY <1>19, <1>20, <2>1, QueueKinds DEF PortInv, ReadersOK, ClosedOK
  <2>5. UsersOK'
    BY <1>2, <1>19, <1>20, <2>1, <2>2, QueueKinds DEF PortInv, ReadersOK, UsersOK, OpenAt
  <2>6. DirectOK'
    BY <1>2, <1>19, <2>1, <2>3, QueueKinds DEF PortInv, ReadersOK, DirectOK, Calm
  <2> QED
    BY <2>4, <2>5, <2>6
<1>22. CountOK'
  <2>1. Calm' => Calm
    BY <1>2 DEF Calm
  <2>2. ASSUME NEW x \in Queues, list'[x] # <<>>
        PROVE  Counted(x)
    <3>1. x # r /\ list[x] # <<>>
      BY <1>19, <1>20, <2>2
    <3>2. Available(x)' \subseteq Available(x)
      <4>1. \A p \in ReadPorts : Held(p) \in Nat /\ Held(p)' \in Nat
        BY <1>13, HeldNumbers DEF PortInv
      <4>2. ASSUME NEW p \in Members(x)' \cap ReadPorts
            PROVE  p \in Members(x) /\ Held(p)' <= Held(p)
        <5>1. p \in Members(x)
          BY <1>2 DEF Members
        <5>2. p # r
          BY <1>7, <3>1, <5>1, QueueKinds DEF Members, PortInv, ObjectsOK, GroupLinks
        <5>3. Held(p)' = Held(p)
          BY <1>12, <5>2 DEF Held
        <5> QED
          BY <4>1, <5>1, <5>3
      <4> QED
        BY <4>1, <4>2, FewerAvailable
    <3> QED
      BY <1>19, <3>1, <3>2 DEF Counted
  <2> QED
    BY <2>1, <2>2, CountStep DEF PortInv, ReadersOK
<1>23. FaultHasCause'
  BY <1>2 DEF PortInv, FaultHasCause
<1> QED
  BY <1>13, <1>14, <1>15, <1>16, <1>17, <1>18, <1>19, <1>21, <1>22, <1>23
  DEF PortInv, ObjectsOK, ReadersOK
-----------------------------------------------------------------------------
(***************************************************************************)
(* Groups: the write side does not notice.                                 *)
(***************************************************************************)
LEMMA WritesSame ==
  ASSUME PortInv, wp' = wp, write_port_list' = write_port_list, written' = written,
         \A r \in ReadPorts : rp'[r].wport = rp[r].wport /\ rp'[r].buf = rp[r].buf
  PROVE  WriteSide' /\ WriteLinks' /\ UnicastOK'
<1>1. WriteSide' /\ WriteLinks'
  BY DEF PortInv, ObjectsOK, WriteSide, WriteLinks
<1>2. UnicastOK'
  <2> SUFFICES ASSUME NEW v \in WritePorts, wp[v].mode = "UNICAST"
               PROVE  InOrder(RingOf(v)', written[v])
    BY DEF UnicastOK, InOrder
  <2>1. RingOf(v)' = RingOf(v)
    BY UnicastRing DEF RingOf
  <2> QED
    BY <2>1, UnicastRing
<1> QED
  BY <1>1, <1>2

LEMMA GroupInv ==
  ASSUME PortInv, NEW g \in Groups, NEW ports \in SeqOf(ReadPorts, 2), port_group(g, ports)
  PROVE  PortInv'
<1> DEFINE new == [magic |-> "open", rps |-> ports]
           happens == \E t \in Threads : frame[t] \in Range(ports)
<1>1. /\ FreeGroupAt(g) /\ IsInjective(ports)
      /\ \A r \in Range(ports) : Open(r) /\ rp[r].gport = None
      /\ pg' = [pg EXCEPT ![g] = new]
      /\ rp' = [r \in ReadPorts |-> IF r \in Range(ports) THEN [rp[r] EXCEPT !.gport = g]
                                                          ELSE rp[r]]
      /\ Risk("crowd", happens)
      /\ UNCHANGED wqvars
  BY DEF port_group
<1>2. write_port_list' = write_port_list /\ wp' = wp /\ timed' = timed /\ broken' = broken
      /\ written' = written
  BY DEF port_group
<1>3. ports \in Seq(ReadPorts)
  <2>1. PICK m \in 0 .. 2 : ports \in [1 .. m -> ReadPorts]
    BY DEF SeqOf
  <2> QED
    BY <2>1
<1>4. Range(ports) \subseteq ReadPorts
  BY <1>3, RangeOfSeq
<1>5. new \in GroupObjects /\ new.magic = "open" /\ new.rps = ports
  BY <1>3 DEF GroupObjects
<1>6. /\ risk' \in Risks /\ (risk # "none" => risk' = risk) /\ (Calm' => Calm)
      /\ (happens => risk' = "crowd")
  <2>1. "crowd" \in Risks
    BY DEF Risks
  <2> HIDE DEF happens
  <2> QED
    BY <1>1, <2>1, RiskFacts DEF PortInv
<1> HIDE DEF new
<1>7. \A r \in ReadPorts :
        /\ rp'[r] \in ReadObjects /\ rp'[r].magic = rp[r].magic /\ rp'[r].buf = rp[r].buf
        /\ rp'[r].wport = rp[r].wport
        /\ rp'[r].gport = IF r \in Range(ports) THEN g ELSE rp[r].gport
  <2> SUFFICES ASSUME NEW r \in ReadPorts
               PROVE  /\ rp'[r] \in ReadObjects /\ rp'[r].magic = rp[r].magic
                      /\ rp'[r].buf = rp[r].buf /\ rp'[r].wport = rp[r].wport
                      /\ rp'[r].gport = IF r \in Range(ports) THEN g ELSE rp[r].gport
    OBVIOUS
  <2>1. rp[r] \in ReadObjects /\ g \in Groups \cup {None}
    BY PortTypes DEF PortInv
  <2>2. rp'[r] = IF r \in Range(ports) THEN [rp[r] EXCEPT !.gport = g] ELSE rp[r]
    BY <1>1
  <2> QED
    BY <2>1, <2>2, ReadUpdate
<1>8. \A h \in Groups : pg'[h] = IF h = g THEN new ELSE pg[h]
  BY <1>1 DEF PortInv, PortTypeOK
<1>9. PortTypeOK'
  <2>1. rp' \in [ReadPorts -> ReadObjects]
    BY <1>1, <1>7
  <2> QED
    BY <1>1, <1>2, <1>5, <1>6, <2>1 DEF PortInv, PortTypeOK
<1>10. WriteSide' /\ WriteLinks' /\ UnicastOK'
  BY <1>2, <1>7, WritesSame
<1>11. ReadSide'
  BY <1>1, <1>7 DEF PortInv, ObjectsOK, ReadSide, Open
<1>12. GroupSide'
  BY <1>1, <1>5, <1>8 DEF PortInv, ObjectsOK, GroupSide
<1>13. GroupLinks'
  <2> SUFFICES ASSUME NEW p \in ReadPorts, NEW h \in Groups
               PROVE  /\ p \in Range(pg'[h].rps) => rp'[p].gport = h
                      /\ rp'[p].gport = h => p \in Range(pg'[h].rps) \/ risk' = "remove"
    BY DEF GroupLinks
  <2>1. /\ p \in Range(pg[h].rps) => rp[p].gport = h
        /\ rp[p].gport = h => p \in Range(pg[h].rps) \/ risk = "remove"
    BY DEF PortInv, ObjectsOK, GroupLinks
  <2>2. rp[p].gport # g
    BY <1>1 DEF FreeGroupAt
  <2> QED
    BY <1>1, <1>5, <1>6, <1>7, <1>8, <2>1, <2>2, QueueKinds
<1>14. /\ WQInv' /\ AsleepOK'
       /\ \A x \in Queues : Busy(x)' = Busy(x) /\ Waking(x)' = Waking(x) /\ list'[x] = list[x]
  BY <1>1, SameReaders DEF PortInv, ReadersOK
<1>15. list[g] = <<>>
  <2>1. g \in Queues /\ AsleepOK /\ WQInv
    BY QueueKinds DEF PortInv, ReadersOK
  <2> QED
    BY <1>1, <2>1, ReaderFacts DEF FreeGroupAt
<1>16. ClosedOK' /\ UsersOK'
  <2>1. \A r \in ReadPorts : Open(r)' <=> Open(r)
    BY <1>7 DEF Open
  <2>2. OpenGroup(g)' /\ \A h \in Groups : OpenGroup(h) => OpenGroup(h)'
    BY <1>5, <1>8 DEF OpenGroup
  <2>3. ClosedOK'
    BY <1>14, <2>1, QueueKinds DEF PortInv, ReadersOK, ClosedOK
  <2>4. risk = "close" => risk' = "close"
    BY <1>6
  <2> QED
    BY <1>14, <2>1, <2>2, <2>3, <2>4, QueueKinds DEF PortInv, ReadersOK, UsersOK, OpenAt
<1>17. DirectOK'
  <2> SUFFICES ASSUME Calm', NEW r \in ReadPorts, rp'[r].gport # None PROVE Busy(r)' = {}
    BY DEF DirectOK
  <2>1. Calm /\ ~happens
    BY <1>6 DEF Calm
  <2>2. CASE r \in Range(ports)
    BY <1>14, <2>1, <2>2, QueueKinds DEF Busy
  <2>3. CASE r \notin Range(ports)
    BY <1>7, <1>14, <2>1, <2>3, QueueKinds DEF PortInv, ReadersOK, DirectOK
  <2> QED
    BY <2>2, <2>3
<1>18. CountOK'
  <2>1. ASSUME NEW x \in Queues, list'[x] # <<>>
        PROVE  Counted(x)
    <3>1. x # g /\ list[x] # <<>>
      BY <1>14, <1>15, <2>1
    <3>2. Available(x)' = Available(x)
      BY <1>7, <1>8, <3>1, AvailableSame
    <3> QED
      BY <1>14, <3>1, <3>2 DEF Counted
  <2> QED
    BY <1>6, <2>1, CountStep DEF PortInv, ReadersOK
<1>19. FaultHasCause'
  BY <1>2, <1>6 DEF PortInv, FaultHasCause
<1> QED
  BY <1>9, <1>10, <1>11, <1>12, <1>13, <1>14, <1>16, <1>17, <1>18, <1>19
  DEF PortInv, ObjectsOK, ReadersOK

\* A packet wakes the first sleeper.
LEMMA WakeOneReader ==
  ASSUME WQInv, AsleepOK, NEW q \in Queues, wait_queue_wake_one(q, NO_ERROR)
  PROVE  /\ WQInv' /\ AsleepOK'
         /\ \A x \in Queues : /\ Busy(x)' = Busy(x) /\ Waking(x) \subseteq Waking(x)'
                              /\ x # q => list'[x] = list[x] /\ Waking(x)' = Waking(x)
                              /\ list[x] = <<>> => list'[x] = <<>>
         /\ list'[q] # <<>> => /\ Len(list[q]) > 1
                               /\ Head(list[q]) \in Waking(q)' /\ Head(list[q]) \notin Waking(q)
<1>1. list[q] \in Seq(Threads) /\ IsInjective(list[q]) /\ Range(list[q]) \subseteq Busy(q)
  BY ReaderFacts
<1>2. CASE list[q] = <<>>
  <2>1. UNCHANGED wqvars
    BY <1>2 DEF wait_queue_wake_one, wqvars
  <2> QED
    BY <1>2, <2>1, SameReaders
<1>3. CASE list[q] # <<>>
  <2> DEFINE h == Head(list[q])
             s == Tail(list[q])
  <2>1. h \in Threads /\ h \in Range(list[q]) /\ s \in Seq(Threads) /\ IsInjective(s)
        /\ Range(s) = Range(list[q]) \ {h}
    BY <1>1, <1>3, TailLemma
  <2>2. /\ list' = [list EXCEPT ![q] = s] /\ block_ret' = [block_ret EXCEPT ![h] = NO_ERROR]
        /\ frame' = frame /\ timer' = timer
    BY <1>3 DEF wait_queue_wake_one
  <2>3. block_ret[h] = NO_ERROR
    BY <1>1, <2>1 DEF Busy
  <2>4. Len(s) = Len(list[q]) - 1 /\ Len(list[q]) \in Nat /\ (s # <<>> => Len(s) # 0)
    BY <1>1, <1>3, <2>1, HeadTailProperties, EmptySeq, LenProperties
  <2> HIDE DEF h, s
  <2>5. block_ret' = block_ret
    BY <2>1, <2>2, <2>3 DEF WQInv, WQTypeOK
  <2>6. /\ list' \in [Queues -> Seq(Threads)] /\ list'[q] = s
        /\ \A x \in Queues : x # q => list'[x] = list[x]
    BY <2>1, <2>2 DEF WQInv, WQTypeOK
  <2>7. \A x \in Queues : IsInjective(list'[x]) /\ Range(list'[x]) \subseteq Range(list[x])
    BY <2>1, <2>6 DEF WQInv, QueueNodeUnique
  <2>8. /\ WQInv' /\ AsleepOK'
        /\ \A x \in Queues : Busy(x)' = Busy(x) /\ Waking(x) \subseteq Waking(x)'
    BY <2>2, <2>5, <2>6, <2>7, WakenReaders
  <2>9. \A x \in Queues : x # q => Waking(x)' = Waking(x)
    BY <2>6, <2>8 DEF Waking
  <2>10. h \in Waking(q)' /\ h \notin Waking(q)
    BY <1>1, <2>1, <2>6, <2>8 DEF Waking
  <2>11. s # <<>> => Len(list[q]) > 1
    <3> DEFINE m == Len(s)
               k == Len(list[q])
    <3>1. m = k - 1 /\ k \in Nat /\ (s # <<>> => m # 0) /\ m \in Nat
      BY <2>1, <2>4, LenProperties
    <3> HIDE DEF m, k
    <3>2. s # <<>> => k > 1
      BY <3>1
    <3> QED
      BY <3>2 DEF k
  <2> QED
    BY <1>3, <2>6, <2>8, <2>9, <2>10, <2>11 DEF h
<1> QED
  BY <1>2, <1>3

LEMMA GroupAddInv ==
  ASSUME PortInv, NEW g \in Groups, NEW r \in ReadPorts, port_group_add(g, r)
  PROVE  PortInv'
<1> DEFINE n == Len(rp[r].buf.packets)
           s == Append(pg[g].rps, r)
           new == [pg[g] EXCEPT !.rps = s]
           newr == [rp[r] EXCEPT !.gport = g]
           happens == (\E t \in Threads : frame[t] = r) \/ LeavesSleeper(g, n)
<1>1. /\ OpenGroup(g) /\ Open(r) /\ rp[r].gport = None
      /\ pg' = [pg EXCEPT ![g] = new]
      /\ rp' = [rp EXCEPT ![r] = newr]
      /\ IF buf_is_empty(rp[r].buf) THEN UNCHANGED wqvars ELSE wait_queue_wake_one(g, NO_ERROR)
      /\ Risk("crowd", happens)
  BY DEF port_group_add
<1>2. write_port_list' = write_port_list /\ wp' = wp /\ timed' = timed /\ broken' = broken
      /\ written' = written
  BY DEF port_group_add
<1>3. /\ risk' \in Risks /\ (risk # "none" => risk' = risk) /\ (Calm' => Calm)
      /\ (happens => risk' = "crowd")
  <2>1. "crowd" \in Risks
    BY DEF Risks
  <2> HIDE DEF happens
  <2> QED
    BY <1>1, <2>1, RiskFacts DEF PortInv
<1>4. r \notin Range(pg[g].rps)
  BY <1>1, QueueKinds DEF PortInv, ObjectsOK, GroupLinks
<1>5. pg[g].rps \in Seq(ReadPorts) /\ IsInjective(pg[g].rps) /\ pg[g] \in GroupObjects
  BY PortFields, PortTypes DEF PortInv, ObjectsOK, GroupSide
<1>6. s \in Seq(ReadPorts) /\ IsInjective(s) /\ Range(s) = Range(pg[g].rps) \cup {r}
  BY <1>4, <1>5, AppendLemma
<1> HIDE DEF s
<1>7. new \in GroupObjects /\ new.magic = pg[g].magic /\ new.rps = s
  BY <1>5, <1>6, GroupUpdate
<1>8. /\ newr \in ReadObjects /\ newr.magic = rp[r].magic /\ newr.buf = rp[r].buf
      /\ newr.wport = rp[r].wport /\ newr.gport = g
  <2>1. rp[r] \in ReadObjects /\ g \in Groups \cup {None}
    BY PortTypes DEF PortInv
  <2> QED
    BY <2>1, ReadUpdate, Zenon
<1> HIDE DEF new, newr, n
<1>9. /\ \A h \in Groups : pg'[h] = IF h = g THEN new ELSE pg[h]
      /\ \A p \in ReadPorts : rp'[p] = IF p = r THEN newr ELSE rp[p]
  BY <1>1 DEF PortInv, PortTypeOK
<1>10. \A p \in ReadPorts :
         /\ rp'[p].magic = rp[p].magic /\ rp'[p].buf = rp[p].buf /\ rp'[p].wport = rp[p].wport
         /\ rp'[p].gport = IF p = r THEN g ELSE rp[p].gport
  BY <1>8, <1>9
<1>11. PortTypeOK'
  BY <1>1, <1>2, <1>3, <1>7, <1>8 DEF PortInv, PortTypeOK
<1>12. WriteSide' /\ WriteLinks' /\ UnicastOK'
  BY <1>2, <1>10, WritesSame
<1>13. ReadSide'
  BY <1>1, <1>10 DEF PortInv, ObjectsOK, ReadSide, Open
<1>14. GroupSide'
  BY <1>1, <1>6, <1>7, <1>9 DEF PortInv, ObjectsOK, GroupSide, OpenGroup
<1>15. GroupLinks'
  <2> SUFFICES ASSUME NEW p \in ReadPorts, NEW h \in Groups
               PROVE  /\ p \in Range(pg'[h].rps) => rp'[p].gport = h
                      /\ rp'[p].gport = h => p \in Range(pg'[h].rps) \/ risk' = "remove"
    BY DEF GroupLinks
  <2>1. /\ p \in Range(pg[h].rps) => rp[p].gport = h
        /\ rp[p].gport = h => p \in Range(pg[h].rps) \/ risk = "remove"
    BY DEF PortInv, ObjectsOK, GroupLinks
  <2> QED
    BY <1>1, <1>3, <1>6, <1>7, <1>9, <1>10, <2>1, QueueKinds
<1>16. /\ rp[r].buf \in PortBufs /\ n \in Nat /\ Held(r) = n
       /\ (buf_is_empty(rp[r].buf) <=> n = 0)
  <2>1. rp[r].buf # None
    BY <1>1 DEF PortInv, ObjectsOK, ReadSide, Open
  <2>2. rp[r].buf \in PortBufs
    BY <2>1, PortFields DEF PortInv
  <2> QED
    BY <2>1, <2>2, BufFacts DEF n, Held, buf_is_empty
<1>17. g \in Queues /\ g \in Groups /\ WQInv /\ AsleepOK
  BY QueueKinds DEF PortInv, ReadersOK
<1>18. /\ WQInv' /\ AsleepOK'
       /\ \A x \in Queues : /\ Busy(x)' = Busy(x) /\ Waking(x) \subseteq Waking(x)'
                            /\ x # g => list'[x] = list[x] /\ Waking(x)' = Waking(x)
                            /\ list[x] = <<>> => list'[x] = <<>>
       /\ n # 0 /\ list'[g] # <<>> =>
            /\ Len(list[g]) > 1
            /\ Head(list[g]) \in Waking(g)' /\ Head(list[g]) \notin Waking(g)
  <2>1. CASE n = 0
    <3>1. UNCHANGED wqvars
      BY <1>1, <1>16, <2>1
    <3> QED
      BY <1>17, <2>1, <3>1, SameReaders
  <2>2. CASE n # 0
    <3>1. wait_queue_wake_one(g, NO_ERROR)
      BY <1>1, <1>16, <2>2
    <3> QED
      BY <1>17, <3>1, WakeOneReader
  <2> QED
    BY <2>1, <2>2
<1>19. ClosedOK' /\ UsersOK'
  <2>1. \A p \in ReadPorts : Open(p)' <=> Open(p)
    BY <1>10 DEF Open
  <2>2. \A h \in Groups : OpenGroup(h) => OpenGroup(h)'
    BY <1>7, <1>9 DEF OpenGroup
  <2>3. ClosedOK'
    BY <1>18, <2>1, QueueKinds DEF PortInv, ReadersOK, ClosedOK
  <2>4. risk = "close" => risk' = "close"
    BY <1>3
  <2> QED
    BY <1>18, <2>1, <2>2, <2>3, <2>4, QueueKinds DEF PortInv, ReadersOK, UsersOK, OpenAt
<1>20. DirectOK'
  <2> SUFFICES ASSUME Calm', NEW p \in ReadPorts, rp'[p].gport # None PROVE Busy(p)' = {}
    BY DEF DirectOK
  <2>1. Calm /\ ~happens
    BY <1>3 DEF Calm
  <2>2. CASE p = r
    BY <1>18, <2>1, <2>2, QueueKinds DEF Busy
  <2>3. CASE p # r
    BY <1>10, <1>18, <2>1, <2>3, QueueKinds DEF PortInv, ReadersOK, DirectOK
  <2> QED
    BY <2>2, <2>3
<1>21. \A p \in ReadPorts : Held(p)' = Held(p)
  BY <1>10 DEF Held
<1>22. CountOK'
  <2>1. ASSUME NEW x \in Queues, Calm', list'[x] # <<>>
        PROVE  Counted(x)
    <3>1. list[x] # <<>>
      BY <1>18, <2>1
    <3>2. CASE x # g
      <4>1. Available(x)' = Available(x)
        BY <1>9, <1>10, <3>2, AvailableSame
      <4> QED
        BY <1>18, <3>1, <3>2, <4>1 DEF Counted
    <3>3. CASE x = g
      <4> DEFINE C == {p \in Places : p[1] = r /\ p[2] <= n}
      <4>1. Members(g)' = Members(g) \cup {r}
        BY <1>6, <1>7, <1>9 DEF Members
      <4>2. Available(g)' \subseteq Available(g) \cup C
        <5> SUFFICES ASSUME NEW p \in Places, p[1] \in Members(g)', p[2] <= Held(p[1])'
                     PROVE  p \in Available(g) \cup C
          BY DEF Available, Places
        <5>1. p[1] \in ReadPorts
          BY DEF Places
        <5>2. p[2] <= Held(p[1])
          BY <1>21, <5>1
        <5> QED
          BY <1>16, <4>1, <5>2 DEF Available, Places
      <4>3. CASE n = 0
        <5>1. C = {}
          BY <4>3 DEF Places
        <5>2. Available(g)' \subseteq Available(g)
          BY <4>2, <5>1
        <5> QED
          BY <1>17, <1>18, <3>1, <3>3, <5>2 DEF Counted
      <4>4. CASE n # 0
        <5>1. Len(list[g]) > 1 /\ Head(list[g]) \in Waking(g)' /\ Head(list[g]) \notin Waking(g)
          BY <1>18, <2>1, <3>3, <4>4
        <5>2. n = 1
          BY <1>3, <1>16, <1>17, <2>1, <4>4, <5>1, QueueKinds DEF LeavesSleeper, Calm
        <5>3. C \subseteq {<<r, 1>>}
          BY <5>2 DEF Places
        <5> DEFINE D == {Head(list[g])}
                   E == {<<r, 1>>}
        <5>4. Available(g)' \subseteq Available(g) \cup E
          BY <4>2, <5>3
        <5>5. E \in SUBSET Places
          BY PortAssumption DEF Places
        <5>6. Cardinality(E) = 1 /\ Cardinality(D) = 1
          BY FS_Singleton
        <5>7. D \in SUBSET Waking(g)' /\ Waking(g) \cap D = {} /\ Waking(g) \subseteq Waking(g)'
          BY <1>17, <1>18, <5>1
        <5>8. Cardinality(E) <= Cardinality(D)
          BY <5>6
        <5> HIDE DEF D, E
        <5> QED
          BY <3>1, <3>3, <5>4, <5>5, <5>7, <5>8 DEF Counted
      <4> QED
        BY <4>3, <4>4
    <3> QED
      BY <3>2, <3>3
  <2> QED
    BY <1>3, <2>1, CountStep DEF PortInv, ReadersOK
<1>23. FaultHasCause'
  BY <1>2, <1>3 DEF PortInv, FaultHasCause
<1> QED
  BY <1>11, <1>12, <1>13, <1>14, <1>15, <1>18, <1>19, <1>20, <1>22, <1>23
  DEF PortInv, ObjectsOK, ReadersOK

\* port_group_remove leaves the pointer of the read port behind.
LEMMA GroupRemoveInv ==
  ASSUME PortInv, NEW g \in Groups, NEW r \in ReadPorts, port_group_remove(g, r)
  PROVE  PortInv'
<1> DEFINE s == RemoveFirst(pg[g].rps, r)
           new == [pg[g] EXCEPT !.rps = s]
<1>1. CASE r \notin Range(pg[g].rps)
  <2>1. rp[r].gport = g /\ rp[r].gport # None /\ Break("lock held")
    BY <1>1, QueueKinds DEF port_group_remove
  <2>2. risk = "remove"
    BY <1>1, <2>1, StalePointer
  <2> QED
    BY <2>1, <2>2, BreakInv
<1>2. CASE r \in Range(pg[g].rps)
  <2>1. /\ pg' = [pg EXCEPT ![g] = new] /\ Risk("remove", TRUE) /\ UNCHANGED wqvars
        /\ write_port_list' = write_port_list /\ wp' = wp /\ rp' = rp /\ timed' = timed
        /\ broken' = broken /\ written' = written /\ OpenGroup(g)
    BY <1>2 DEF port_group_remove
  <2>2. risk' = "remove" /\ risk \in {"none", "remove"}
    BY <2>1 DEF Risk
  <2>3. s \in Seq(ReadPorts) /\ IsInjective(s) /\ Range(s) = Range(pg[g].rps) \ {r}
    BY PortFields, RemoveFirstLemma DEF PortInv, ObjectsOK, GroupSide
  <2> HIDE DEF s
  <2>4. new \in GroupObjects /\ new.magic = pg[g].magic /\ new.rps = s
    <3>1. pg[g] \in GroupObjects
      BY PortTypes DEF PortInv
    <3> QED
      BY <2>3, <3>1, GroupUpdate
  <2> HIDE DEF new
  <2>5. \A h \in Groups : pg'[h] = IF h = g THEN new ELSE pg[h]
    BY <2>1 DEF PortInv, PortTypeOK
  <2>6. PortTypeOK'
    BY <2>1, <2>2, <2>4 DEF PortInv, PortTypeOK, Risks
  <2>7. WriteSide' /\ WriteLinks' /\ UnicastOK'
    BY <2>1, WritesSame
  <2>8. ReadSide' /\ GroupSide'
    BY <2>1, <2>3, <2>4, <2>5 DEF PortInv, ObjectsOK, ReadSide, GroupSide, OpenGroup
  <2>9. GroupLinks'
    <3> SUFFICES ASSUME NEW p \in ReadPorts, NEW h \in Groups, p \in Range(pg'[h].rps)
                 PROVE  rp'[p].gport = h
      BY <2>2 DEF GroupLinks
    <3> QED
      BY <2>1, <2>3, <2>4, <2>5 DEF PortInv, ObjectsOK, GroupLinks
  <2>10. /\ WQInv' /\ AsleepOK'
         /\ \A x \in Queues : Busy(x)' = Busy(x) /\ list'[x] = list[x]
    BY <2>1, SameReaders DEF PortInv, ReadersOK
  <2>11. ClosedOK'
    BY <2>1, <2>10, QueueKinds DEF PortInv, ReadersOK, ClosedOK, Open
  <2>12. UsersOK'
    <3>1. \A x \in Queues : OpenAt(x)' <=> OpenAt(x)
      BY <2>1, <2>4, <2>5 DEF OpenAt, Open, OpenGroup
    <3> QED
      BY <2>2, <2>10, <3>1 DEF PortInv, ReadersOK, UsersOK
  <2>13. DirectOK' /\ CountOK' /\ FaultHasCause'
    BY <2>2 DEF DirectOK, CountOK, Calm, FaultHasCause
  <2> QED
    BY <2>6, <2>7, <2>8, <2>9, <2>10, <2>11, <2>12, <2>13 DEF PortInv, ObjectsOK, ReadersOK
<1> QED
  BY <1>1, <1>2
-----------------------------------------------------------------------------
(***************************************************************************)
(* Reading.                                                                *)
(***************************************************************************)
LEMMA MemberFacts ==
  ASSUME PortInv, NEW x \in Queues, x \in ReadPorts => Open(x), NEW r \in Members(x)
  PROVE  /\ r \in ReadPorts /\ rp[r].buf \in PortBufs
         /\ Held(r) = Len(rp[r].buf.packets)
         /\ (rp[r].buf.packets = <<>> <=> Held(r) = 0)
<1>1. r \in ReadPorts
  BY PortFields, QueueKinds DEF Members, PortInv
<1>2. Open(r)
  <2>1. CASE x \in Groups
    <3>1. rp[r].gport = x /\ x # None
      BY <1>1, <2>1, QueueKinds DEF Members, PortInv, ObjectsOK, GroupLinks
    <3>2. rp[r].magic # "free" /\ rp[r].magic \in {"free", "open"}
      BY <1>1, <3>1, PortFields DEF PortInv, ObjectsOK, ReadSide
    <3> QED
      BY <3>2 DEF Open
  <2>2. CASE x \notin Groups
    BY <2>2, QueueKinds DEF Members
  <2> QED
    BY <2>1, <2>2
<1>3. rp[r].buf # None
  BY <1>1, <1>2 DEF Open, PortInv, ObjectsOK, ReadSide
<1>4. rp[r].buf \in PortBufs
  BY <1>1, <1>3, PortFields DEF PortInv
<1> QED
  BY <1>1, <1>3, <1>4, BufFacts DEF Held

LEMMA SourceFacts ==
  ASSUME PortInv, NEW x \in Queues, x \in ReadPorts => Open(x)
  PROVE  /\ Source(x) = None => Available(x) = {}
         /\ Source(x) # None => /\ Source(x) \in Members(x) /\ Source(x) \in ReadPorts
                                /\ rp[Source(x)].buf \in PortBufs
                                /\ rp[Source(x)].buf.packets # <<>>
<1> DEFINE m == IF x \in Groups THEN pg[x].rps ELSE <<x>>
           I == {i \in 1 .. Len(m) : ~buf_is_empty(rp[m[i]].buf)}
           first == SelectInSeq(m, LAMBDA r : ~buf_is_empty(rp[r].buf))
<1>1. m \in Seq(ReadPorts) /\ Range(m) = Members(x)
  <2>1. CASE x \in Groups
    BY <2>1, PortFields DEF Members, PortInv
  <2>2. CASE x \notin Groups
    <3>1. x \in ReadPorts
      BY <2>2, QueueKinds
    <3>2. <<x>> \in Seq(ReadPorts) /\ DOMAIN <<x>> = {1} /\ <<x>>[1] = x
      BY <3>1
    <3>3. Range(<<x>>) = {x}
      BY <3>2, Zenon DEF Range
    <3> QED
      BY <2>2, <3>2, <3>3 DEF Members
  <2> QED
    BY <2>1, <2>2
<1>2. first = IF I # {} THEN Min(I) ELSE 0
  BY DEF SelectInSeq
<1>3. Source(x) = IF first = 0 THEN None ELSE m[first]
  BY DEF Source
<1> HIDE DEF m, first
<1>4. DOMAIN m = 1 .. Len(m) /\ Len(m) \in Nat
  BY <1>1, LenProperties
<1>5. ASSUME I # {}
      PROVE  /\ Source(x) # None /\ Source(x) \in Members(x) /\ Source(x) \in ReadPorts
             /\ ~buf_is_empty(rp[Source(x)].buf)
  <2>1. I \subseteq Nat
    BY <1>4
  <2>2. first \in I
    BY <1>2, <1>5, <2>1, LeastExists
  <2>3. first \in DOMAIN m /\ first # 0 /\ ~buf_is_empty(rp[m[first]].buf)
    BY <1>4, <2>2
  <2>4. m[first] \in Range(m)
    BY <2>3 DEF Range
  <2>5. m[first] \in ReadPorts
    BY <1>1, <2>4, MemberFacts
  <2> QED
    BY <1>1, <1>3, <2>3, <2>4, <2>5, QueueKinds
<1>6. ASSUME I = {}
      PROVE  Source(x) = None /\ Available(x) = {}
  <2>1. Source(x) = None
    BY <1>2, <1>3, <1>6
  <2>2. \A r \in Members(x) : Held(r) = 0
    <3> SUFFICES ASSUME NEW r \in Range(m) PROVE Held(r) = 0
      BY <1>1
    <3>1. PICK i \in 1 .. Len(m) : m[i] = r
      BY <1>4 DEF Range
    <3>2. buf_is_empty(rp[r].buf)
      BY <1>6, <3>1
    <3> QED
      BY <1>1, <3>2, MemberFacts DEF buf_is_empty
  <2>3. \A p \in Places : p[2] > 0
    BY PortAssumption DEF Places
  <2>4. \A p \in Places : p[1] \in Members(x) => ~(p[2] <= Held(p[1]))
    <3> SUFFICES ASSUME NEW p \in Places, p[1] \in Members(x), p[2] <= Held(p[1]) PROVE FALSE
      OBVIOUS
    <3>1. p[2] \in Nat /\ p[2] > 0
      BY <2>3, PortAssumption DEF Places
    <3>2. Held(p[1]) = 0
      BY <2>2
    <3> QED
      BY <3>1, <3>2
  <2>5. Available(x) = {}
    BY <2>4 DEF Available, Places
  <2> QED
    BY <2>1, <2>5
<1> QED
  BY <1>5, <1>6, MemberFacts DEF buf_is_empty

\* The oldest packet of a port is taken.
LEMMA TakeEffect ==
  ASSUME PortInv, NEW r \in ReadPorts, rp[r].buf \in PortBufs, rp[r].buf.packets # <<>>, Take(r),
         UNCHANGED <<write_port_list, wp, pg, written, risk>>, timed' \subseteq Threads
  PROVE  /\ PortTypeOK' /\ ObjectsOK'
         /\ \A p \in ReadPorts : /\ Open(p)' <=> Open(p)
                                 /\ rp'[p].gport = rp[p].gport
                                 /\ Held(p)' = IF p = r THEN Held(p) - 1 ELSE Held(p)
         /\ \A x : Members(x)' = Members(x)
         /\ \A g \in Groups : OpenGroup(g)' <=> OpenGroup(g)
<1> DEFINE b == buf_read(rp[r].buf)
           new == [rp[r] EXCEPT !.buf = b]
<1>1. rp' = [rp EXCEPT ![r] = new]
  BY DEF Take
<1>2. /\ b \in PortBufs /\ Len(b.packets) = Len(rp[r].buf.packets) - 1
      /\ \A n : InOrder(rp[r].buf, n) => InOrder(b, n)
  BY BufRead
<1> HIDE DEF b
<1>3. /\ new \in ReadObjects /\ new.magic = rp[r].magic /\ new.buf = b
      /\ new.wport = rp[r].wport /\ new.gport = rp[r].gport
  <2>1. rp[r] \in ReadObjects /\ b \in PortBufs \cup {None}
    BY <1>2, PortTypes DEF PortInv
  <2> QED
    BY <2>1, ReadUpdate, Zenon
<1> HIDE DEF new
<1>4. \A p \in ReadPorts : rp'[p] = IF p = r THEN new ELSE rp[p]
  BY <1>1 DEF PortInv, PortTypeOK
<1>5. PortTypeOK'
  BY <1>1, <1>3 DEF PortInv, PortTypeOK
<1>6. \A p \in ReadPorts : /\ rp'[p].magic = rp[p].magic /\ rp'[p].wport = rp[p].wport
                           /\ rp'[p].gport = rp[p].gport
                           /\ rp'[p].buf = IF p = r THEN b ELSE rp[p].buf
  BY <1>3, <1>4
<1>7. b # None /\ rp[r].buf # None
  BY <1>2, QueueKinds
<1>8. WriteSide' /\ GroupSide' /\ ReadSide'
  BY <1>6, <1>7 DEF PortInv, ObjectsOK, WriteSide, GroupSide, ReadSide
<1>9. WriteLinks' /\ GroupLinks'
  BY <1>6 DEF PortInv, ObjectsOK, WriteLinks, GroupLinks
<1>10. UnicastOK'
  <2> SUFFICES ASSUME NEW v \in WritePorts, wp[v].mode = "UNICAST"
               PROVE  InOrder(RingOf(v)', written[v])
    BY DEF UnicastOK, InOrder
  <2>1. InOrder(RingOf(v), written[v])
    BY UnicastRing
  <2>2. CASE wp[v].buf # None
    BY <2>1, <2>2 DEF RingOf
  <2>3. CASE wp[v].buf = None
    <3> DEFINE h == Head(wp[v].rps)
    <3>1. h \in ReadPorts /\ RingOf(v) = rp[h].buf
      BY <2>3, UnicastRing
    <3>2. RingOf(v)' = rp'[h].buf
      BY <2>3 DEF RingOf
    <3> HIDE DEF h
    <3>3. rp'[h].buf = IF h = r THEN b ELSE rp[h].buf
      BY <1>6, <3>1
    <3> QED
      BY <1>2, <2>1, <3>1, <3>2, <3>3
  <2> QED
    BY <2>2, <2>3
<1>11. \A p \in ReadPorts : Held(p)' = IF p = r THEN Held(p) - 1 ELSE Held(p)
  BY <1>2, <1>6, <1>7 DEF Held
<1>12. \A p \in ReadPorts : (Open(p)' <=> Open(p)) /\ rp'[p].gport = rp[p].gport
  BY <1>6 DEF Open
<1>13. (\A x : Members(x)' = Members(x)) /\ \A g \in Groups : OpenGroup(g)' <=> OpenGroup(g)
  BY DEF Members, OpenGroup
<1> QED
  BY <1>5, <1>8, <1>9, <1>10, <1>11, <1>12, <1>13 DEF ObjectsOK

\* Nobody has more packets after that, and those who can read the port less.
LEMMA TakeAvailable ==
  ASSUME PortInv, PortTypeOK', NEW r \in ReadPorts, rp[r].buf \in PortBufs,
         rp[r].buf.packets # <<>>,
         \A p \in ReadPorts : Held(p)' = IF p = r THEN Held(p) - 1 ELSE Held(p),
         \A x : Members(x)' = Members(x)
  PROVE  /\ \A x : Available(x)' \subseteq Available(x)
         /\ \A x : r \in Members(x) =>
              <<r, Held(r)>> \in Available(x) /\ <<r, Held(r)>> \notin Available(x)'
<1>1. \A p \in ReadPorts : /\ Held(p) \in Nat /\ Held(p) <= PORT_BUFF_SIZE
                           /\ Held(p)' \in Nat /\ Held(p)' <= PORT_BUFF_SIZE
  BY HeldNumbers DEF PortInv
<1>2. \A p \in ReadPorts : Held(p)' <= Held(p)
  BY <1>1
<1>3. \A x : Available(x)' \subseteq Available(x)
  BY <1>1, <1>2, FewerAvailable
<1>4. Held(r) > 0
  <2>1. rp[r].buf # None
    BY QueueKinds
  <2> QED
    BY <1>1, <2>1, BufFacts DEF Held
<1>5. ASSUME NEW x, r \in Members(x)
      PROVE  <<r, Held(r)>> \in Available(x) /\ <<r, Held(r)>> \notin Available(x)'
  <2>0. PICK k \in Nat : k = Held(r)
    BY <1>1
  <2> DEFINE p == <<r, k>>
  <2>1. p \in Places /\ p[1] = r /\ p[2] = k
    BY <1>1, <1>4, <2>0, PortAssumption DEF Places
  <2> HIDE DEF p
  <2>2. p \in Available(x)
    BY <1>1, <1>5, <2>0, <2>1 DEF Available, Places
  <2>3. ~(p[2] <= Held(p[1])')
    <3>1. ~(k <= Held(r)')
      BY <1>1, <2>0
    <3> QED
      BY <2>1, <3>1
  <2>4. p \notin Available(x)'
    BY <2>3 DEF Available
  <2> QED
    BY <2>0, <2>2, <2>4 DEF p
<1> QED
  BY <1>3, <1>5

LEMMA ReadTakeInv ==
  ASSUME PortInv, NEW r \in ReadPorts, rp[r].buf \in PortBufs, rp[r].buf.packets # <<>>, Take(r),
         UNCHANGED <<wqvars, write_port_list, wp, pg, timed, broken, risk, written>>
  PROVE  PortInv'
<1>1. /\ UNCHANGED wqvars /\ UNCHANGED <<write_port_list, wp, pg, written, risk>>
      /\ timed' = timed /\ broken' = broken /\ risk' = risk
  OBVIOUS
<1>2. timed' \subseteq Threads /\ AsleepOK /\ WQInv
  BY <1>1 DEF PortInv, PortTypeOK, ReadersOK
<1>3. /\ PortTypeOK' /\ ObjectsOK'
      /\ \A p \in ReadPorts : /\ Open(p)' <=> Open(p)
                              /\ rp'[p].gport = rp[p].gport
                              /\ Held(p)' = IF p = r THEN Held(p) - 1 ELSE Held(p)
      /\ \A x : Members(x)' = Members(x)
      /\ \A g \in Groups : OpenGroup(g)' <=> OpenGroup(g)
  BY <1>1, <1>2, TakeEffect
<1>4. \A x : Available(x)' \subseteq Available(x)
  BY <1>3, TakeAvailable
<1>5. /\ WQInv' /\ AsleepOK'
      /\ \A x \in Queues : Busy(x)' = Busy(x) /\ Waking(x)' = Waking(x) /\ list'[x] = list[x]
  BY <1>1, <1>2, SameReaders
<1>6. ReadersOK'
  BY <1>1, <1>3, <1>4, <1>5, ReadersFewer DEF PortInv
<1> QED
  BY <1>1, <1>3, <1>5, <1>6 DEF PortInv, FaultHasCause

\* A reader that finds nothing goes to sleep.
LEMMA ReadBlockInv ==
  ASSUME PortInv, NEW t \in Threads, NEW q \in Queues, NEW timeout \in AllTimeouts,
         wait_queue_block(t, q, timeout),
         \/ frame[t] = NoQueue /\ OpenAt(q)
         \/ frame[t] = q /\ t \notin Range(list[q]) /\ t \in Busy(q),
         q \in ReadPorts => Open(q),
         Available(q) = {},
         UNCHANGED <<write_port_list, wp, rp, pg, broken, written>>, timed' \subseteq Threads,
         risk' \in Risks, risk # "none" => risk' = risk, Calm' => Calm,
         frame[t] # NoQueue \/ q \in Groups \/ rp[q].gport = None \/ ~Calm'
  PROVE  PortInv'
<1>1. AsleepOK /\ WQInv /\ PortTypeOK /\ ObjectsOK
  BY DEF PortInv, ReadersOK
<1>2. /\ WQInv' /\ AsleepOK'
      /\ \A x \in Queues : /\ Busy(x)' = IF x = q THEN Busy(x) \cup {t} ELSE Busy(x)
                           /\ x # q => list'[x] = list[x] /\ Waking(x)' = Waking(x)
  BY <1>1, BlockReader
<1>3. PortTypeOK' /\ ObjectsOK'
  BY <1>1, SameObjects
<1>4. \A x \in Queues : OpenAt(x)' <=> OpenAt(x)
  BY DEF OpenAt, Open, OpenGroup
<1>5. ClosedOK'
  BY <1>2, QueueKinds DEF PortInv, ReadersOK, ClosedOK, Open
<1>6. OpenAt(q) \/ Busy(q)' = Busy(q)
  BY <1>2
<1>7. UsersOK'
  BY <1>2, <1>4, <1>6 DEF PortInv, ReadersOK, UsersOK
<1>8. DirectOK'
  <2> SUFFICES ASSUME Calm', NEW p \in ReadPorts, rp[p].gport # None PROVE Busy(p)' = {}
    BY DEF DirectOK
  <2>1. Busy(p) = {}
    BY DEF PortInv, ReadersOK, DirectOK
  <2>2. p # q
    BY <2>1, QueueKinds, WaitQueueAssumption
  <2> QED
    BY <1>2, <2>1, <2>2, QueueKinds
<1>9. CountOK'
  <2>1. \A x : Available(x)' = Available(x)
    BY DEF Available, Members, Held
  <2>2. \A x \in Queues : Calm' /\ list'[x] # <<>> => Counted(x)
    BY <1>2, <2>1 DEF Counted
  <2> QED
    BY <2>2, CountStep DEF PortInv, ReadersOK
<1>10. FaultHasCause'
  BY DEF PortInv, FaultHasCause
<1> QED
  BY <1>2, <1>3, <1>5, <1>7, <1>8, <1>9, <1>10 DEF PortInv, ReadersOK

LEMMA ReadInv ==
  ASSUME PortInv, NEW t \in Threads, NEW x \in Queues, NEW timeout \in Timeouts,
         port_read(t, x, timeout)
  PROVE  PortInv'
<1>1. /\ frame[t] = NoQueue /\ (x \in ReadPorts => Open(x)) /\ (x \in Groups => OpenGroup(x))
      /\ write_port_list' = write_port_list /\ wp' = wp /\ pg' = pg /\ broken' = broken
      /\ written' = written
  BY DEF port_read
<1>2. CASE Source(x) # None /\ Take(Source(x)) /\ UNCHANGED <<wqvars, timed, risk>>
  <2> DEFINE r == Source(x)
  <2>1. /\ r \in ReadPorts /\ rp[r].buf \in PortBufs /\ rp[r].buf.packets # <<>>
    BY <1>1, <1>2, SourceFacts
  <2>2. Take(r) /\ UNCHANGED <<wqvars, write_port_list, wp, pg, timed, broken, risk, written>>
    BY <1>1, <1>2
  <2> HIDE DEF r
  <2> QED
    BY <2>1, <2>2, ReadTakeInv
<1>3. CASE /\ Source(x) = None /\ wait_queue_block(t, x, timeout)
           /\ timed' = IF timeout = INFINITE_TIME THEN timed ELSE timed \cup {t}
           /\ Risk("crowd", x \in ReadPorts /\ rp[x].gport # None) /\ UNCHANGED rp
  <2> DEFINE happens == x \in ReadPorts /\ rp[x].gport # None
  <2>1. Available(x) = {}
    BY <1>1, <1>3, SourceFacts
  <2>2. /\ risk' \in Risks /\ (risk # "none" => risk' = risk) /\ (Calm' => Calm)
        /\ (happens => risk' = "crowd")
    <3>1. "crowd" \in Risks
      BY DEF Risks
    <3> HIDE DEF happens
    <3>2. Risk("crowd", happens)
      BY <1>3 DEF happens
    <3> QED
      BY <3>1, <3>2, RiskFacts DEF PortInv
  <2>3. x \in Groups \/ rp[x].gport = None \/ ~Calm'
    BY <2>2, QueueKinds DEF Calm
  <2>4. timed' \subseteq Threads /\ timeout \in AllTimeouts /\ OpenAt(x)
    BY <1>1, <1>3, WaitQueueAssumption, QueueKinds DEF PortInv, PortTypeOK, OpenAt
  <2> HIDE DEF happens
  <2> QED
    BY <1>1, <1>3, <2>1, <2>2, <2>3, <2>4, ReadBlockInv
<1> QED
  BY <1>2, <1>3 DEF port_read

\* A reader takes the packet it was woken for, or one that came before.
LEMMA ResumeTakeInv ==
  ASSUME PortInv, NEW t \in Threads, NEW x \in Queues, frame[t] = x, block_ret[t] = NO_ERROR,
         wait_queue_return(t), NEW r \in ReadPorts, r \in Members(x), rp[r].buf \in PortBufs,
         rp[r].buf.packets # <<>>, Take(r), timed' \subseteq Threads,
         UNCHANGED <<write_port_list, wp, pg, broken, risk, written>>
  PROVE  PortInv'
<1>1. UNCHANGED <<write_port_list, wp, pg, written, risk>> /\ broken' = broken /\ risk' = risk
      /\ AsleepOK /\ WQInv
  BY DEF PortInv, ReadersOK
<1>2. /\ PortTypeOK' /\ ObjectsOK'
      /\ \A p \in ReadPorts : /\ Open(p)' <=> Open(p)
                              /\ rp'[p].gport = rp[p].gport
                              /\ Held(p)' = IF p = r THEN Held(p) - 1 ELSE Held(p)
      /\ \A y : Members(y)' = Members(y)
      /\ \A g \in Groups : OpenGroup(g)' <=> OpenGroup(g)
  BY <1>1, TakeEffect
<1>3. /\ \A y : Available(y)' \subseteq Available(y)
      /\ <<r, Held(r)>> \in Available(x) /\ <<r, Held(r)>> \notin Available(x)'
  BY <1>2, TakeAvailable
<1>4. /\ WQInv' /\ AsleepOK'
      /\ \A y \in Queues : /\ list'[y] = list[y] /\ Busy(y)' = Busy(y) \ {t}
                           /\ Waking(y)' = Waking(y) \ {t}
  BY <1>1, ReturnReader
<1>5. \A y \in Queues : y # x => t \notin Busy(y)
  BY DEF Busy
<1>6. ClosedOK' /\ UsersOK' /\ DirectOK'
  <2>1. ClosedOK'
    BY <1>2, <1>4, QueueKinds DEF PortInv, ReadersOK, ClosedOK
  <2>2. \A y \in Queues : OpenAt(y)' <=> OpenAt(y)
    BY <1>2, QueueKinds DEF OpenAt
  <2>3. UsersOK'
    BY <1>1, <1>4, <2>2 DEF PortInv, ReadersOK, UsersOK
  <2>4. DirectOK'
    BY <1>1, <1>2, <1>4, QueueKinds DEF PortInv, ReadersOK, DirectOK, Calm
  <2> QED
    BY <2>1, <2>3, <2>4
<1>7. CountOK'
  <2>1. ASSUME NEW y \in Queues, list'[y] # <<>>
        PROVE  Counted(y)
    <3>1. list[y] # <<>>
      BY <1>4, <2>1
    <3>2. CASE y = x
      <4>1. PICK p : p = <<r, Held(r)>>
        OBVIOUS
      <4>2. p \in Available(x) /\ Available(x)' \subseteq Available(x) \ {p}
        BY <1>3, <4>1
      <4>3. Waking(x) \subseteq Waking(x)' \cup {t}
        BY <1>4
      <4> QED
        BY <3>1, <3>2, <4>2, <4>3 DEF Counted
    <3>3. CASE y # x
      <4>1. Waking(y) \subseteq Waking(y)'
        BY <1>4, <1>5, <3>3 DEF Waking
      <4> QED
        BY <1>3, <3>1, <4>1 DEF Counted
    <3> QED
      BY <3>2, <3>3
  <2>2. Calm' => Calm
    BY <1>1 DEF Calm
  <2> QED
    BY <2>1, <2>2, CountStep DEF PortInv, ReadersOK
<1>8. FaultHasCause'
  BY <1>1 DEF PortInv, FaultHasCause
<1> QED
  BY <1>2, <1>4, <1>6, <1>7, <1>8 DEF PortInv, ReadersOK

LEMMA ResumeInv ==
  ASSUME PortInv, NEW t \in Threads, port_read_resume(t)
  PROVE  PortInv'
<1> DEFINE x == frame[t]
           freed == \/ x \in ReadPorts /\ rp[x].magic = "free"
                    \/ x \in Groups /\ pg[x].magic = "free"
<1>0. x \in Queues /\ t \notin Range(list[x]) /\ AsleepOK /\ WQInv
  BY DEF port_read_resume, Woken, PortInv, ReadersOK
<1>1. ~freed => (x \in ReadPorts => Open(x))
  <2> SUFFICES ASSUME ~freed, x \in ReadPorts PROVE Open(x)
    OBVIOUS
  <2>1. rp[x].magic \in {"free", "open"}
    BY PortFields DEF PortInv
  <2> QED
    BY <2>1 DEF Open
<1>2. CASE /\ block_ret[t] # NO_ERROR /\ wait_queue_return(t) /\ timed' = timed \ {t}
           /\ UNCHANGED <<write_port_list, wp, rp, pg, broken, risk, written>>
  <2>1. /\ WQInv' /\ AsleepOK'
        /\ \A y \in Queues : /\ list'[y] = list[y] /\ Busy(y)' = Busy(y) \ {t}
                             /\ Waking(y)' = Waking(y) \ {t}
    BY <1>0, <1>2, ReturnReader
  <2>2. \A y \in Queues : Waking(y) \subseteq Waking(y)' /\ Busy(y)' \subseteq Busy(y)
    BY <1>2, <2>1 DEF Waking, Busy
  <2>3. PortTypeOK' /\ ObjectsOK'
    <3>1. timed' \subseteq Threads /\ risk' = risk /\ risk' \in Risks
      BY <1>2 DEF PortInv, PortTypeOK
    <3> QED
      BY <1>2, <3>1, SameObjects DEF PortInv
  <2>4. \A y : Available(y)' = Available(y)
    BY <1>2 DEF Available, Members, Held
  <2>5. /\ \A p \in ReadPorts : (Open(p)' <=> Open(p)) /\ rp'[p].gport = rp[p].gport
        /\ \A g \in Groups : OpenGroup(g)' <=> OpenGroup(g)
    BY <1>2 DEF Open, OpenGroup
  <2>6. ReadersOK'
    BY <1>2, <2>1, <2>2, <2>4, <2>5, ReadersFewer DEF PortInv
  <2> QED
    BY <1>2, <2>1, <2>3, <2>6 DEF PortInv, FaultHasCause
<1>3. CASE block_ret[t] = NO_ERROR /\ freed /\ Break("freed port")
  <2>1. ~OpenAt(x)
    BY <1>0, <1>3, QueueKinds DEF OpenAt, Open, OpenGroup
  <2>2. t \in Busy(x)
    BY <1>3 DEF Busy
  <2>3. risk = "close"
    BY <1>0, <2>1, <2>2 DEF PortInv, ReadersOK, UsersOK
  <2> QED
    BY <1>3, <2>3, BreakInv
<1>4. CASE /\ block_ret[t] = NO_ERROR /\ ~freed /\ Source(x) # None /\ Take(Source(x))
           /\ wait_queue_return(t) /\ timed' = timed \ {t}
           /\ UNCHANGED <<write_port_list, wp, pg, broken, risk, written>>
  <2> DEFINE r == Source(x)
  <2>1. /\ r \in ReadPorts /\ r \in Members(x) /\ rp[r].buf \in PortBufs
        /\ rp[r].buf.packets # <<>>
    BY <1>0, <1>1, <1>4, SourceFacts
  <2>2. timed' \subseteq Threads /\ Take(r)
    BY <1>4 DEF PortInv, PortTypeOK
  <2> HIDE DEF r, freed
  <2> QED
    BY <1>0, <1>4, <2>1, <2>2, ResumeTakeInv
<1>5. CASE /\ block_ret[t] = NO_ERROR /\ ~freed /\ Source(x) = None
           /\ wait_queue_block(t, x, IF t \in timed THEN FINITE_TIME ELSE INFINITE_TIME)
           /\ UNCHANGED pvars
  <2>1. Available(x) = {}
    BY <1>0, <1>1, <1>5, SourceFacts
  <2>2. /\ UNCHANGED <<write_port_list, wp, rp, pg, broken, written>> /\ timed' \subseteq Threads
        /\ risk' \in Risks /\ risk' = risk /\ (Calm' => Calm)
    BY <1>5 DEF PortInv, PortTypeOK, pvars, Calm
  <2>3. t \in Busy(x) /\ frame[t] # NoQueue
    BY <1>0, <1>5, WaitQueueAssumption DEF Busy
  <2> DEFINE timeout == IF t \in timed THEN FINITE_TIME ELSE INFINITE_TIME
  <2>4. timeout \in AllTimeouts
    BY DEF AllTimeouts
  <2> HIDE DEF timeout
  <2>5. wait_queue_block(t, x, timeout)
    BY <1>5 DEF timeout
  <2> QED
    BY <1>0, <1>1, <1>5, <2>1, <2>2, <2>3, <2>4, <2>5, ReadBlockInv
<1> QED
  BY <1>2, <1>3, <1>4, <1>5 DEF port_read_resume

LEMMA PortTimeoutInv ==
  ASSUME PortInv, NEW t \in Threads, port_timeout(t)
  PROVE  PortInv'
<1>1. /\ wait_queue_timeout_handler(t) /\ rp' = rp /\ pg' = pg /\ risk' = risk /\ broken' = broken
      /\ UNCHANGED <<write_port_list, wp, rp, pg, written>> /\ timed' = timed
  BY DEF port_timeout, pvars
<1>2. /\ WQInv' /\ AsleepOK'
      /\ \A x \in Queues : /\ Range(list'[x]) \subseteq Range(list[x])
                           /\ Busy(x)' \subseteq Busy(x) /\ Waking(x)' = Waking(x)
  BY <1>1, TimeoutReader DEF PortInv, ReadersOK
<1>3. PortTypeOK' /\ ObjectsOK'
  BY <1>1, SameObjects DEF PortInv, PortTypeOK
<1>4. \A x : Available(x)' = Available(x)
  BY <1>1 DEF Available, Members, Held
<1>5. /\ \A p \in ReadPorts : (Open(p)' <=> Open(p)) /\ rp'[p].gport = rp[p].gport
      /\ \A g \in Groups : OpenGroup(g)' <=> OpenGroup(g)
  BY <1>1 DEF Open, OpenGroup
<1>6. ReadersOK'
  BY <1>1, <1>2, <1>4, <1>5, ReadersFewer DEF PortInv
<1> QED
  BY <1>1, <1>2, <1>3, <1>6 DEF PortInv, FaultHasCause
-----------------------------------------------------------------------------
(***************************************************************************)
(* Closing.                                                                *)
(***************************************************************************)
LEMMA CloseReadInv ==
  ASSUME PortInv, NEW r \in ReadPorts, port_close_read(r)
  PROVE  PortInv'
<1> DEFINE w == rp[r].wport
           g == rp[r].gport
           last == w # None /\ wp[w].rps = <<r>>
           stale == g # None /\ (pg[g].magic = "free" \/ r \notin Range(pg[g].rps))
<1>1. CASE stale
  <2>1. Break("cleared node") /\ risk = "remove"
    BY <1>1, StalePointer DEF port_close_read
  <2> QED
    BY <2>1, BreakInv
<1>2. CASE ~stale
  <2> DEFINE s == RemoveFirst(wp[w].rps, r)
             half == [wp[w] EXCEPT !.rps = s]
             neww == [half EXCEPT !.buf = IF last THEN rp[r].buf ELSE wp[w].buf]
             sg == RemoveFirst(pg[g].rps, r)
             newg == [pg[g] EXCEPT !.rps = sg]
             happens == OnItsWay(r)
  <2>1. /\ Open(r)
        /\ wp' = IF w = None THEN wp ELSE [wp EXCEPT ![w] = neww]
        /\ pg' = IF g = None THEN pg ELSE [pg EXCEPT ![g] = newg]
        /\ rp' = [rp EXCEPT ![r] = FreeRead]
        /\ wait_queue_destroy(r)
        /\ Risk("close", happens)
        /\ write_port_list' = write_port_list /\ timed' = timed /\ broken' = broken
        /\ written' = written
    BY <1>2 DEF port_close_read
  <2>2. w \in WritePorts \cup {None} /\ g \in Groups \cup {None}
    BY PortFields DEF PortInv
  <2>3. /\ risk' \in Risks /\ (risk # "none" => risk' = risk) /\ (Calm' => Calm)
        /\ (happens => risk' = "close")
    <3>1. "close" \in Risks
      BY DEF Risks
    <3> HIDE DEF happens
    <3> QED
      BY <2>1, <3>1, RiskFacts DEF PortInv
  <2>4. rp[r].buf \in PortBufs /\ rp[r].buf # None
    BY <2>1, PortFields DEF Open, PortInv, ObjectsOK, ReadSide
  <2>5. ASSUME w # None
        PROVE  /\ wp[w].magic # "free" /\ wp[w].rps \in Seq(ReadPorts) /\ IsInjective(wp[w].rps)
               /\ r \in Range(wp[w].rps) /\ wp[w].buf = None /\ wp[w] \in WriteObjects
               /\ (last <=> Range(wp[w].rps) = {r})
               /\ (wp[w].mode = "UNICAST" => last)
               /\ s \in Seq(ReadPorts) /\ IsInjective(s) /\ Range(s) = Range(wp[w].rps) \ {r}
               /\ (s = <<>> <=> last) /\ (last => Len(s) <= 1)
    <3>1. w \in WritePorts /\ r \in Range(wp[w].rps)
      BY <2>2, <2>5 DEF PortInv, ObjectsOK, WriteLinks
    <3>2. wp[w].rps \in Seq(ReadPorts) /\ wp[w].rps # <<>> /\ wp[w] \in WriteObjects
      BY <3>1, EmptyList, PortFields, PortTypes DEF PortInv
    <3>3. wp[w].magic # "free" /\ wp[w].buf = None /\ IsInjective(wp[w].rps)
          /\ (wp[w].mode = "UNICAST" => Len(wp[w].rps) <= 1)
      BY <3>1, <3>2 DEF PortInv, ObjectsOK, WriteSide
    <3>4. /\ last <=> Range(wp[w].rps) = {r}
          /\ Len(wp[w].rps) <= 1 => Range(wp[w].rps) = {r}
      <4> DEFINE u == wp[w].rps
      <4>1. u \in Seq(ReadPorts) /\ IsInjective(u) /\ u # <<>> /\ r \in Range(u)
        BY <3>1, <3>2, <3>3
      <4> HIDE DEF u
      <4>2. u = <<r>> <=> Range(u) = {r}
        BY <4>1, OneElement
      <4>3. Len(u) <= 1 => Range(u) = {Head(u)}
        BY <4>1, OneElement
      <4> QED
        BY <2>5, <4>1, <4>2, <4>3 DEF u
    <3>5. wp[w].mode = "UNICAST" => last
      BY <3>3, <3>4
    <3>6. s \in Seq(ReadPorts) /\ IsInjective(s) /\ Range(s) = Range(wp[w].rps) \ {r}
      BY <3>2, <3>3, RemoveFirstLemma
    <3>7. s = <<>> <=> last
      BY <3>1, <3>4, <3>6, EmptyRange, EmptyList
    <3>8. last => Len(s) <= 1
      BY <3>7
    <3> QED
      BY <3>1, <3>2, <3>3, <3>4, <3>5, <3>6, <3>7, <3>8
  <2> HIDE DEF s, last
  <2>6. ASSUME w # None
        PROVE  /\ neww \in WriteObjects /\ neww.magic = wp[w].magic /\ neww.mode = wp[w].mode
               /\ neww.buf = (IF last THEN rp[r].buf ELSE None) /\ neww.rps = s
    <3>1. /\ half \in WriteObjects /\ half.magic = wp[w].magic /\ half.mode = wp[w].mode
          /\ half.buf = None /\ half.rps = s
      BY <2>5, <2>6, WriteUpdate, ZenonT(60)
    <3> HIDE DEF half
    <3> DEFINE b == IF last THEN rp[r].buf ELSE None
    <3>2. neww = [half EXCEPT !.buf = b]
      BY <2>5, <2>6
    <3>4. b \in PortBufs \cup {None}
      BY <2>4
    <3>5. half \in WriteObjects
      BY <3>1
    <3> HIDE DEF b, neww
    <3>3. /\ neww \in WriteObjects /\ neww.magic = half.magic /\ neww.mode = half.mode
          /\ neww.buf = b /\ neww.rps = half.rps
      BY <3>2, <3>4, <3>5, WriteUpdate, ZenonT(60)
    <3> QED
      BY <3>1, <3>3 DEF b
  <2>7. ASSUME g # None
        PROVE  /\ newg \in GroupObjects /\ newg.magic = pg[g].magic /\ newg.rps = sg
               /\ IsInjective(sg) /\ Range(sg) = Range(pg[g].rps) \ {r} /\ pg[g].magic # "free"
    <3>1. g \in Groups /\ pg[g].magic # "free"
      BY <1>2, <2>2, <2>7
    <3>2. pg[g] \in GroupObjects /\ pg[g].rps \in Seq(ReadPorts) /\ IsInjective(pg[g].rps)
      BY <3>1, PortFields, PortTypes DEF PortInv, ObjectsOK, GroupSide
    <3>3. sg \in Seq(ReadPorts) /\ IsInjective(sg) /\ Range(sg) = Range(pg[g].rps) \ {r}
      BY <3>2, RemoveFirstLemma
    <3> HIDE DEF sg
    <3> QED
      BY <3>1, <3>2, <3>3, GroupUpdate, ZenonT(60)
  <2> HIDE DEF neww, newg, half, sg, stale
  <2>8. /\ \A v \in WritePorts : wp'[v] = IF v = w THEN neww ELSE wp[v]
        /\ \A h \in Groups : pg'[h] = IF h = g THEN newg ELSE pg[h]
        /\ \A p \in ReadPorts : rp'[p] = IF p = r THEN FreeRead ELSE rp[p]
    <3>1. \A v \in WritePorts : wp'[v] = IF v = w THEN neww ELSE wp[v]
      BY <2>1, <2>2, QueueKinds DEF PortInv, PortTypeOK
    <3>2. \A h \in Groups : pg'[h] = IF h = g THEN newg ELSE pg[h]
      BY <2>1, <2>2, QueueKinds DEF PortInv, PortTypeOK
    <3>3. \A p \in ReadPorts : rp'[p] = IF p = r THEN FreeRead ELSE rp[p]
      BY <2>1 DEF PortInv, PortTypeOK
    <3> QED
      BY <3>1, <3>2, <3>3
  <2>9. PortTypeOK'
    <3>1. wp' \in [WritePorts -> WriteObjects]
      BY <2>1, <2>2, <2>6 DEF PortInv, PortTypeOK
    <3>2. pg' \in [Groups -> GroupObjects]
      BY <2>1, <2>2, <2>7 DEF PortInv, PortTypeOK
    <3>3. rp' \in [ReadPorts -> ReadObjects]
      BY <2>1, FreeObjects DEF PortInv, PortTypeOK
    <3> QED
      BY <2>1, <2>3, <3>1, <3>2, <3>3 DEF PortInv, PortTypeOK
  <2>10. WriteSide'
    <3>1. \A v \in Range(write_port_list) : v \in WritePorts
      BY PortTypes DEF PortInv
    <3>2. \A v \in WritePorts : v = w => v # None
      BY QueueKinds
    <3>3. \A v \in WritePorts : v # w => wp'[v] = wp[v]
      BY <2>8
    <3>4. w \in WritePorts =>
            /\ wp'[w].magic # "free" /\ (wp'[w].buf = None <=> wp'[w].rps # <<>>)
            /\ (wp'[w].mode = "UNICAST" => Len(wp'[w].rps) <= 1)
            /\ IsInjective(wp'[w].rps)
      BY <2>4, <2>5, <2>6, <2>8, <3>2
    <3> QED
      BY <2>1, <3>1, <3>3, <3>4 DEF PortInv, ObjectsOK, WriteSide
  <2>11. ReadSide' /\ GroupSide'
    <3>1. ReadSide'
      BY <2>8, FreeObjects DEF PortInv, ObjectsOK, ReadSide
    <3>2. GroupSide'
      BY <2>7, <2>8, QueueKinds DEF PortInv, ObjectsOK, GroupSide
    <3> QED
      BY <3>1, <3>2
  <2>12. WriteLinks'
    <3> SUFFICES ASSUME NEW p \in ReadPorts, NEW v \in WritePorts
                 PROVE  rp'[p].wport = v <=> p \in Range(wp'[v].rps)
      BY DEF WriteLinks
    <3>1. /\ rp[p].wport = v <=> p \in Range(wp[v].rps)
          /\ rp[r].wport = v <=> r \in Range(wp[v].rps)
      BY DEF PortInv, ObjectsOK, WriteLinks
    <3>2. v # None
      BY QueueKinds
    <3>3. p = r => rp'[p].wport = None
      BY <2>8, FreeObjects
    <3>4. CASE v = w
      <4>1. Range(wp'[v].rps) = Range(wp[v].rps) \ {r}
        BY <2>5, <2>6, <2>8, <3>2, <3>4
      <4> QED
        BY <2>8, <3>1, <3>2, <3>3, <4>1
    <3>5. CASE v # w
      BY <2>8, <3>1, <3>2, <3>3, <3>5
    <3> QED
      BY <3>4, <3>5
  <2>13. GroupLinks'
    <3> SUFFICES ASSUME NEW p \in ReadPorts, NEW h \in Groups
                 PROVE  /\ p \in Range(pg'[h].rps) => rp'[p].gport = h
                        /\ rp'[p].gport = h => p \in Range(pg'[h].rps) \/ risk' = "remove"
      BY DEF GroupLinks
    <3>1. /\ p \in Range(pg[h].rps) => rp[p].gport = h
          /\ rp[p].gport = h => p \in Range(pg[h].rps) \/ risk = "remove"
          /\ h # None /\ (risk = "remove" => risk' = "remove")
      BY <2>3, QueueKinds DEF PortInv, ObjectsOK, GroupLinks
    <3>2. p = r => rp'[p].gport = None
      BY <2>8, FreeObjects
    <3>3. CASE h = g
      <4>1. Range(pg'[h].rps) = Range(pg[h].rps) \ {r}
        BY <2>7, <2>8, <3>1, <3>3
      <4> QED
        BY <2>8, <3>1, <3>2, <4>1
    <3>4. CASE h # g
      BY <2>8, <3>1, <3>2, <3>4
    <3> QED
      BY <3>3, <3>4
  <2>14. UnicastOK'
    <3> SUFFICES ASSUME NEW v \in WritePorts, wp'[v].mode = "UNICAST"
                 PROVE  InOrder(RingOf(v)', written'[v])
      BY DEF UnicastOK, InOrder
    <3>1. v # None
      BY QueueKinds
    <3>2. wp[v].mode = "UNICAST"
      BY <2>6, <2>8, <3>1
    <3>3. InOrder(RingOf(v), written[v])
      BY <3>2, UnicastRing
    <3>4. RingOf(v)' = RingOf(v)
      <4>1. CASE v = w
        <5>1. last /\ wp[v].buf = None /\ Range(wp[v].rps) = {r}
          BY <2>5, <3>1, <3>2, <4>1
        <5>2. Head(wp[v].rps) = r /\ RingOf(v) = rp[Head(wp[v].rps)].buf
          BY <3>2, <5>1, UnicastRing
        <5>3. wp'[v].buf = rp[r].buf
          BY <2>6, <2>8, <3>1, <4>1, <5>1
        <5> QED
          BY <2>4, <5>2, <5>3 DEF RingOf
      <4>2. CASE v # w /\ wp[v].buf # None
        BY <2>8, <4>2 DEF RingOf
      <4>3. CASE v # w /\ wp[v].buf = None
        <5>1. Head(wp[v].rps) \in ReadPorts /\ rp[Head(wp[v].rps)].wport = v
          BY <3>2, <4>3, UnicastRing
        <5>2. Head(wp[v].rps) # r
          BY <4>3, <5>1
        <5> QED
          BY <2>8, <4>3, <5>1, <5>2 DEF RingOf
      <4> QED
        BY <4>1, <4>2, <4>3
    <3> QED
      BY <2>1, <3>3, <3>4
  <2>15. r \in Queues /\ AsleepOK /\ WQInv
    BY QueueKinds DEF PortInv, ReadersOK
  <2>16. /\ WQInv' /\ AsleepOK' /\ list'[r] = <<>> /\ Busy(r)' = Waking(r)
         /\ \A x \in Queues : /\ x # r => list'[x] = list[x] /\ Busy(x)' = Busy(x)
                              /\ Waking(x)' = Waking(x)
    BY <2>1, <2>15, DestroyReaders
  <2>17. ClosedOK'
    <3>1. \A p \in ReadPorts : p # r => (Open(p)' <=> Open(p))
      BY <2>8 DEF Open
    <3> QED
      BY <2>16, <3>1, QueueKinds DEF PortInv, ReadersOK, ClosedOK
  <2>18. UsersOK'
    <3> SUFFICES ASSUME NEW x \in Queues PROVE OpenAt(x)' \/ Busy(x)' = {} \/ risk' = "close"
      BY DEF UsersOK
    <3>1. CASE x = r
      BY <2>3, <2>15, <2>16, <3>1, ReaderFacts
    <3>2. CASE x # r
      <4>1. OpenAt(x) => OpenAt(x)'
        <5>1. CASE x \in Groups
          <6>1. pg'[x].magic = pg[x].magic
            BY <2>7, <2>8, <5>1, QueueKinds
          <6> QED
            BY <5>1, <6>1 DEF OpenAt, OpenGroup
        <5>2. CASE x \notin Groups
          BY <2>8, <3>2, <5>2, QueueKinds DEF OpenAt, Open
        <5> QED
          BY <5>1, <5>2
      <4>2. OpenAt(x) \/ Busy(x) = {} \/ risk = "close"
        BY DEF PortInv, ReadersOK, UsersOK
      <4> QED
        BY <2>3, <2>16, <3>2, <4>1, <4>2
    <3> QED
      BY <3>1, <3>2
  <2>19. DirectOK'
    <3> SUFFICES ASSUME Calm', NEW p \in ReadPorts, rp'[p].gport # None PROVE Busy(p)' = {}
      BY DEF DirectOK
    <3>1. p # r /\ rp[p].gport # None
      BY <2>8, FreeObjects
    <3> QED
      BY <2>3, <2>16, <3>1, QueueKinds DEF PortInv, ReadersOK, DirectOK
  <2>20. CountOK'
    <3>1. ASSUME NEW x \in Queues, list'[x] # <<>>
          PROVE  Counted(x)
      <4>1. x # r /\ list[x] # <<>>
        BY <2>16, <3>1
      <4>2. \A p \in ReadPorts : Held(p) \in Nat /\ Held(p)' \in Nat
        BY <2>9, HeldNumbers DEF PortInv
      <4>3. ASSUME NEW p \in Members(x)' \cap ReadPorts
            PROVE  p \in Members(x) /\ Held(p)' <= Held(p)
        <5>1. p \in Members(x)
          <6>1. CASE x \in Groups
            BY <2>7, <2>8, <6>1, QueueKinds DEF Members
          <6>2. CASE x \notin Groups
            BY <6>2 DEF Members
          <6> QED
            BY <6>1, <6>2
        <5>2. CASE p = r
          <6>1. Held(p)' = 0
            BY <2>8, <5>2, FreeObjects DEF Held
          <6> QED
            BY <4>2, <5>1, <6>1
        <5>3. CASE p # r
          <6>1. Held(p)' = Held(p)
            BY <2>8, <5>3 DEF Held
          <6> QED
            BY <4>2, <5>1, <6>1
        <5> QED
          BY <5>2, <5>3
      <4>4. Available(x)' \subseteq Available(x)
        BY <4>2, <4>3, FewerAvailable
      <4> QED
        BY <2>16, <4>1, <4>4 DEF Counted
    <3> QED
      BY <2>3, <3>1, CountStep DEF PortInv, ReadersOK
  <2>21. FaultHasCause'
    BY <2>1, <2>3 DEF PortInv, FaultHasCause
  <2> QED
    BY <2>9, <2>10, <2>11, <2>12, <2>13, <2>14, <2>16, <2>17, <2>18, <2>19, <2>20, <2>21
    DEF PortInv, ObjectsOK, ReadersOK
<1> QED
  BY <1>1, <1>2

\* The members of a group forget it.
LEMMA DisbandEffect ==
  ASSUME PortInv, NEW g \in Groups, Disband(g),
         UNCHANGED <<write_port_list, wp, timed, written>>,
         risk' \in Risks, risk = "remove" => risk' = "remove"
  PROVE  /\ PortTypeOK' /\ ObjectsOK'
         /\ \A p \in ReadPorts : /\ Open(p)' <=> Open(p)
                                 /\ rp'[p].gport # None => rp[p].gport # None
                                 /\ rp'[p].buf = rp[p].buf
         /\ \A h \in Groups : h # g => pg'[h] = pg[h]
         /\ pg'[g].rps = <<>>
<1> DEFINE members == Range(pg[g].rps)
<1>1. /\ rp' = [r \in ReadPorts |-> IF r \in members THEN [rp[r] EXCEPT !.gport = None] ELSE rp[r]]
      /\ pg' = [pg EXCEPT ![g] = FreeGroup]
  BY DEF Disband
<1>2. \A r \in ReadPorts :
        /\ rp'[r] \in ReadObjects /\ rp'[r].magic = rp[r].magic /\ rp'[r].buf = rp[r].buf
        /\ rp'[r].wport = rp[r].wport
        /\ rp'[r].gport = IF r \in members THEN None ELSE rp[r].gport
  <2> SUFFICES ASSUME NEW r \in ReadPorts
               PROVE  /\ rp'[r] \in ReadObjects /\ rp'[r].magic = rp[r].magic
                      /\ rp'[r].buf = rp[r].buf /\ rp'[r].wport = rp[r].wport
                      /\ rp'[r].gport = IF r \in members THEN None ELSE rp[r].gport
    OBVIOUS
  <2>1. rp[r] \in ReadObjects /\ None \in Groups \cup {None}
    BY PortTypes DEF PortInv
  <2>2. rp'[r] = IF r \in members THEN [rp[r] EXCEPT !.gport = None] ELSE rp[r]
    BY <1>1
  <2> QED
    BY <2>1, <2>2, ReadUpdate
<1>3. \A h \in Groups : pg'[h] = IF h = g THEN FreeGroup ELSE pg[h]
  BY <1>1 DEF PortInv, PortTypeOK
<1>4. PortTypeOK'
  <2>1. rp' \in [ReadPorts -> ReadObjects]
    BY <1>1, <1>2
  <2>2. pg' \in [Groups -> GroupObjects]
    BY <1>1, FreeObjects DEF PortInv, PortTypeOK
  <2> QED
    BY <2>1, <2>2 DEF PortInv, PortTypeOK
<1>5. WriteSide' /\ WriteLinks' /\ UnicastOK'
  BY <1>2, WritesSame
<1>6. ReadSide'
  BY <1>2 DEF PortInv, ObjectsOK, ReadSide
<1>7. GroupSide'
  BY <1>3, FreeObjects, EmptyList DEF PortInv, ObjectsOK, GroupSide
<1>8. GroupLinks'
  <2> SUFFICES ASSUME NEW p \in ReadPorts, NEW h \in Groups
               PROVE  /\ p \in Range(pg'[h].rps) => rp'[p].gport = h
                      /\ rp'[p].gport = h => p \in Range(pg'[h].rps) \/ risk' = "remove"
    BY DEF GroupLinks
  <2>1. /\ p \in Range(pg[h].rps) => rp[p].gport = h
        /\ rp[p].gport = h => p \in Range(pg[h].rps) \/ risk = "remove"
        /\ p \in members => rp[p].gport = g
        /\ h # None
    BY QueueKinds DEF PortInv, ObjectsOK, GroupLinks
  <2> QED
    BY <1>2, <1>3, <2>1, FreeObjects, EmptyList
<1> QED
  BY <1>2, <1>3, <1>4, <1>5, <1>6, <1>7, <1>8, FreeObjects DEF ObjectsOK, Open

LEMMA CloseGroupInv ==
  ASSUME PortInv, NEW g \in Groups, port_close_group(g)
  PROVE  PortInv'
<1> DEFINE happens == OnItsWay(g)
<1>1. /\ wait_queue_destroy(g) /\ Risk("close", happens)
      /\ write_port_list' = write_port_list /\ wp' = wp /\ timed' = timed /\ broken' = broken
      /\ written' = written
  BY DEF port_close_group
<1>2. /\ risk' \in Risks /\ (risk # "none" => risk' = risk) /\ (Calm' => Calm)
      /\ (happens => risk' = "close")
  <2>1. "close" \in Risks
    BY DEF Risks
  <2> HIDE DEF happens
  <2> QED
    BY <1>1, <2>1, RiskFacts DEF PortInv
<1>3. /\ PortTypeOK' /\ ObjectsOK'
      /\ \A p \in ReadPorts : /\ Open(p)' <=> Open(p)
                              /\ rp'[p].gport # None => rp[p].gport # None
                              /\ rp'[p].buf = rp[p].buf
      /\ \A h \in Groups : h # g => pg'[h] = pg[h]
  <2>1. CASE list[g] = <<>>
    <3>1. Disband(g)
      BY <2>1 DEF port_close_group
    <3> QED
      BY <1>1, <1>2, <3>1, DisbandEffect
  <2>2. CASE list[g] # <<>>
    <3> DEFINE new == [pg[g] EXCEPT !.magic = "closing"]
    <3>1. pg' = [pg EXCEPT ![g] = new] /\ rp' = rp
      BY <2>2 DEF port_close_group
    <3>2. new \in GroupObjects /\ new.magic = "closing" /\ new.rps = pg[g].rps
      <4>1. pg[g] \in GroupObjects /\ "closing" \in {"free", "open", "closing"}
        BY PortTypes DEF PortInv
      <4> QED
        BY <4>1, GroupUpdate
    <3> HIDE DEF new
    <3>3. \A h \in Groups : pg'[h] = IF h = g THEN new ELSE pg[h]
      BY <3>1 DEF PortInv, PortTypeOK
    <3>4. PortTypeOK'
      BY <1>1, <1>2, <3>1, <3>2 DEF PortInv, PortTypeOK
    <3>5. WriteSide' /\ WriteLinks' /\ UnicastOK'
      BY <1>1, <3>1, WritesSame
    <3>6. ReadSide' /\ GroupSide'
      BY <3>1, <3>2, <3>3 DEF PortInv, ObjectsOK, ReadSide, GroupSide
    <3>7. GroupLinks'
      BY <1>2, <3>1, <3>2, <3>3 DEF PortInv, ObjectsOK, GroupLinks
    <3> QED
      BY <3>1, <3>3, <3>4, <3>5, <3>6, <3>7 DEF ObjectsOK, Open
  <2> QED
    BY <2>1, <2>2
<1>4. g \in Queues /\ AsleepOK /\ WQInv
  BY QueueKinds DEF PortInv, ReadersOK
<1>5. /\ WQInv' /\ AsleepOK' /\ list'[g] = <<>> /\ Busy(g)' = Waking(g)
      /\ \A x \in Queues : /\ x # g => list'[x] = list[x] /\ Busy(x)' = Busy(x)
                           /\ Waking(x)' = Waking(x)
  BY <1>1, <1>4, DestroyReaders
<1>6. ClosedOK'
  BY <1>3, <1>5, QueueKinds DEF PortInv, ReadersOK, ClosedOK
<1>7. UsersOK'
  <2> SUFFICES ASSUME NEW x \in Queues PROVE OpenAt(x)' \/ Busy(x)' = {} \/ risk' = "close"
    BY DEF UsersOK
  <2>1. CASE x = g
    BY <1>2, <1>4, <1>5, <2>1, ReaderFacts
  <2>2. CASE x # g
    <3>1. OpenAt(x) => OpenAt(x)'
      BY <1>3, <2>2, QueueKinds DEF OpenAt, OpenGroup
    <3>2. OpenAt(x) \/ Busy(x) = {} \/ risk = "close"
      BY DEF PortInv, ReadersOK, UsersOK
    <3> QED
      BY <1>2, <1>5, <2>2, <3>1, <3>2
  <2> QED
    BY <2>1, <2>2
<1>8. DirectOK'
  BY <1>2, <1>3, <1>5, QueueKinds DEF PortInv, ReadersOK, DirectOK
<1>9. CountOK'
  <2>1. ASSUME NEW x \in Queues, list'[x] # <<>>
        PROVE  Counted(x)
    <3>1. x # g /\ list[x] # <<>>
      BY <1>5, <2>1
    <3>2. Available(x)' = Available(x)
      BY <1>3, <3>1, AvailableSame
    <3> QED
      BY <1>5, <3>1, <3>2 DEF Counted
  <2> QED
    BY <1>2, <2>1, CountStep DEF PortInv, ReadersOK
<1>10. FaultHasCause'
  BY <1>1, <1>2 DEF PortInv, FaultHasCause
<1> QED
  BY <1>3, <1>5, <1>6, <1>7, <1>8, <1>9, <1>10 DEF PortInv, ReadersOK

LEMMA CloseGroupFinishInv ==
  ASSUME PortInv, NEW g \in Groups, port_close_group_finish(g)
  PROVE  PortInv'
<1>1. /\ pg[g].magic = "closing" /\ Disband(g) /\ UNCHANGED wqvars
      /\ UNCHANGED <<write_port_list, wp, timed, written>> /\ risk' = risk /\ broken' = broken
  BY DEF port_close_group_finish
<1>2. risk' \in Risks /\ AsleepOK /\ WQInv
  BY <1>1 DEF PortInv, PortTypeOK, ReadersOK
<1>3. /\ PortTypeOK' /\ ObjectsOK'
      /\ \A p \in ReadPorts : /\ Open(p)' <=> Open(p)
                              /\ rp'[p].gport # None => rp[p].gport # None
                              /\ rp'[p].buf = rp[p].buf
      /\ \A h \in Groups : h # g => pg'[h] = pg[h]
      /\ pg'[g].rps = <<>>
  BY <1>1, <1>2, DisbandEffect
<1>4. /\ WQInv' /\ AsleepOK'
      /\ \A x \in Queues : Busy(x)' = Busy(x) /\ Waking(x)' = Waking(x) /\ list'[x] = list[x]
  BY <1>1, <1>2, SameReaders
<1>5. \A h \in Groups : OpenGroup(h) => OpenGroup(h)'
  BY <1>1, <1>3 DEF OpenGroup
<1>6. \A x \in Queues : Available(x)' \subseteq Available(x)
  <2> SUFFICES ASSUME NEW x \in Queues PROVE Available(x)' \subseteq Available(x)
    OBVIOUS
  <2>1. CASE x = g
    <3>1. Members(x)' = {}
      BY <1>3, <2>1, EmptyList DEF Members
    <3> QED
      BY <3>1 DEF Available
  <2>2. CASE x # g
    BY <1>3, <2>2, AvailableSame
  <2> QED
    BY <2>1, <2>2
<1>7. ReadersOK'
  BY <1>1, <1>3, <1>4, <1>5, <1>6, ReadersFewer DEF PortInv
<1> QED
  BY <1>1, <1>3, <1>4, <1>7 DEF PortInv, FaultHasCause
-----------------------------------------------------------------------------
(***************************************************************************)
(* Writing to read ports.                                                  *)
(***************************************************************************)
\* The first n elements of a list are dropped.
LEMMA DropLemma ==
  ASSUME NEW S, NEW s \in Seq(S), IsInjective(s), NEW n \in Nat
  PROVE  LET v == SubSeq(s, n + 1, Len(s)) IN
         /\ v \in Seq(S) /\ IsInjective(v) /\ Range(v) \subseteq Range(s)
         /\ v # <<>> => Len(s) > n /\ Cardinality(Range(s) \ Range(v)) = n
<1> SUFFICES ASSUME NEW v, v = SubSeq(s, n + 1, Len(s))
             PROVE  /\ v \in Seq(S) /\ IsInjective(v) /\ Range(v) \subseteq Range(s)
                    /\ v # <<>> => Len(s) > n /\ Cardinality(Range(s) \ Range(v)) = n
  OBVIOUS
<1>0. Len(s) \in Nat
  BY LenProperties
<1>1. CASE n <= Len(s)
  <2> DEFINE u == SubSeq(s, 1, n)
  <2>1. n \in 0 .. Len(s)
    BY <1>0, <1>1
  <2>2. /\ u \in Seq(S) /\ IsInjective(u) /\ v \in Seq(S) /\ IsInjective(v)
        /\ Range(v) = Range(s) \ Range(u) /\ Range(u) \subseteq Range(s)
    BY <2>1, SplitLemma
  <2>3. 1 \in 1 .. (Len(s) + 1) /\ n \in (1 - 1) .. Len(s)
    BY <1>0, <2>1
  <2>4. Len(u) = n
    BY <2>1, <1>0, <2>3, SubSeqProperties
  <2> HIDE DEF u
  <2>5. Range(s) \ Range(v) = Range(u)
    BY <2>2
  <2>6. Cardinality(Range(u)) = n
    <3>1. DOMAIN u = 1 .. n
      BY <2>2, <2>4, LenProperties
    <3>2. u \in Bijection(1 .. n, Range(u))
      <4>1. u \in [1 .. n -> Range(u)]
        <5>1. u \in [1 .. n -> S]
          BY <2>2, <3>1, <2>4
        <5> QED
          BY <3>1, <5>1 DEF Range
      <4>2. \A i, j \in 1 .. n : u[i] = u[j] => i = j
        BY <2>2, <3>1 DEF IsInjective
      <4>3. \A e \in Range(u) : \E i \in 1 .. n : u[i] = e
        BY <3>1 DEF Range
      <4> QED
        BY <4>1, <4>2, <4>3 DEF Bijection, Injection, Surjection, IsInjective
    <3>3. IsFiniteSet(1 .. n) /\ Cardinality(1 .. n) = n
      BY FS_Interval
    <3>4. ExistsBijection(1 .. n, Range(u))
      BY <3>2 DEF ExistsBijection
    <3> QED
      BY <3>3, <3>4, FS_Bijection
  <2>7. n = Len(s) => v = <<>>
    <3> HAVE n = Len(s)
    <3>1. Len(v) = 0
      BY <1>0, SubSeqProperties
    <3> QED
      BY <2>2, <3>1, EmptySeq
  <2>8. v # <<>> => Len(s) > n
    <3> DEFINE m == Len(s)
    <3>1. m \in Nat /\ n <= m /\ (n = m => v = <<>>)
      BY <1>0, <1>1, <2>7
    <3> HIDE DEF m
    <3>2. v # <<>> => m > n
      BY <3>1
    <3> QED
      BY <3>2 DEF m
  <2>9. Cardinality(Range(s) \ Range(v)) = n
    BY <2>5, <2>6
  <2> HIDE DEF u
  <2> QED
    BY <2>2, <2>8, <2>9
<1>2. CASE n > Len(s)
  <2>1. v = <<>>
    BY <1>0, <1>2
  <2> QED
    BY <2>1, EmptyList
<1> QED
  BY <1>0, <1>1, <1>2

\* What a write to read ports does to the objects.
WriteRings(w, count, hit) ==
  rp' = [r \in ReadPorts |->
           IF r \in hit THEN [rp[r] EXCEPT !.buf = buf_write(rp[r].buf, Number(w), count)]
                        ELSE rp[r]]

LEMMA WriteEffect ==
  ASSUME PortInv, NEW w \in WritePorts, NEW count \in Nat, NEW hit, hit = Hit(w, count), hit # {},
         wp[w].buf = None, Advance(w, count), WriteRings(w, count, hit),
         UNCHANGED <<write_port_list, wp, pg, timed>>,
         risk' \in Risks, risk = "remove" => risk' = "remove"
  PROVE  /\ PortTypeOK' /\ ObjectsOK'
         /\ hit \subseteq ReadPorts
         /\ \A r \in ReadPorts : /\ Open(r)' <=> Open(r)
                                 /\ rp'[r].gport = rp[r].gport
                                 /\ Held(r)' = IF r \in hit THEN Held(r) + count ELSE Held(r)
         /\ \A x : Members(x)' = Members(x)
         /\ \A g \in Groups : OpenGroup(g)' <=> OpenGroup(g)
<1> DEFINE b(r) == buf_write(rp[r].buf, Number(w), count)
<1>1. /\ write_port_list' = write_port_list /\ wp' = wp /\ pg' = pg /\ timed' = timed
  OBVIOUS
<1>2. \A r \in hit : r \in ReadPorts /\ rp[r].wport = w /\ buf_fits(rp[r].buf, count)
  BY PortFields DEF Hit, PortInv, ObjectsOK, WriteLinks
<1>3. \A r \in hit : Open(r) /\ rp[r].buf \in PortBufs
  <2> SUFFICES ASSUME NEW r \in hit PROVE Open(r) /\ rp[r].buf \in PortBufs
    OBVIOUS
  <2>1. r \in ReadPorts /\ rp[r].wport # None
    BY <1>2, QueueKinds
  <2>2. rp[r].magic \in {"free", "open"} /\ rp[r].buf \in PortBufs \cup {None}
    BY <2>1, PortFields DEF PortInv
  <2>3. rp[r].magic = "open" /\ rp[r].buf # None
    BY <2>1, <2>2 DEF PortInv, ObjectsOK, ReadSide
  <2> QED
    BY <2>2, <2>3 DEF Open
<1>4. /\ Number(w) \in Nat \cup {Unmarked}
      /\ wp[w].mode = "UNICAST" => Number(w) = written[w] /\ Number(w) \in Nat
      /\ written' \in [WritePorts -> Nat]
      /\ \A v \in WritePorts :
           written'[v] = IF v = w /\ wp[w].mode = "UNICAST"
                           THEN (written[w] + count) % Stamps ELSE written[v]
  BY NumberFacts
<1>5. \A r \in hit : /\ b(r) \in PortBufs /\ Len(b(r).packets) = Len(rp[r].buf.packets) + count
                     /\ wp[w].mode = "UNICAST" /\ InOrder(rp[r].buf, written[w]) =>
                          InOrder(b(r), (written[w] + count) % Stamps)
  BY <1>2, <1>3, <1>4, BufWrite
<1>6. /\ DOMAIN rp' = ReadPorts /\ rp' = [r \in DOMAIN rp' |-> rp'[r]]
      /\ \A r \in ReadPorts : rp'[r] = IF r \in hit THEN [rp[r] EXCEPT !.buf = b(r)] ELSE rp[r]
  BY DEF WriteRings
<1> HIDE DEF b
<1>7. \A r \in ReadPorts :
        /\ rp'[r] \in ReadObjects /\ rp'[r].magic = rp[r].magic
        /\ rp'[r].buf = IF r \in hit THEN b(r) ELSE rp[r].buf
        /\ rp'[r].wport = rp[r].wport /\ rp'[r].gport = rp[r].gport
  <2> SUFFICES ASSUME NEW r \in ReadPorts
               PROVE  /\ rp'[r] \in ReadObjects /\ rp'[r].magic = rp[r].magic
                      /\ rp'[r].buf = IF r \in hit THEN b(r) ELSE rp[r].buf
                      /\ rp'[r].wport = rp[r].wport /\ rp'[r].gport = rp[r].gport
    OBVIOUS
  <2>1. rp[r] \in ReadObjects
    BY PortTypes DEF PortInv
  <2>2. CASE r \in hit
    <3>1. PICK c : c = b(r)
      OBVIOUS
    <3>2. c \in PortBufs \cup {None}
      BY <1>5, <2>2, <3>1
    <3> DEFINE o == [rp[r] EXCEPT !.buf = c]
    <3>3. /\ o \in ReadObjects /\ o.magic = rp[r].magic /\ o.buf = c
          /\ o.wport = rp[r].wport /\ o.gport = rp[r].gport
      BY ONLY <2>1, <3>2, ReadUpdate, Zenon
    <3>4. rp'[r] = o
      BY <1>6, <2>2, <3>1
    <3> HIDE DEF o
    <3> QED
      BY <2>2, <3>1, <3>3, <3>4
  <2>3. CASE r \notin hit
    BY <1>6, <2>1, <2>3
  <2> QED
    BY <2>2, <2>3
<1>8. PortTypeOK'
  <2>1. rp' \in [ReadPorts -> ReadObjects]
    BY <1>6, <1>7
  <2> QED
    BY <1>1, <1>4, <2>1 DEF PortInv, PortTypeOK
<1>9. WriteSide' /\ WriteLinks' /\ GroupSide' /\ GroupLinks'
  BY <1>1, <1>7 DEF PortInv, ObjectsOK, WriteSide, WriteLinks, GroupSide, GroupLinks
<1>10. ReadSide'
  <2> SUFFICES ASSUME NEW r \in ReadPorts
               PROVE  /\ rp'[r].magic = "free" => rp'[r].wport = None /\ rp'[r].gport = None
                      /\ rp'[r].magic = "open" <=> rp'[r].buf # None
    BY DEF ReadSide
  <2>1. /\ rp[r].magic = "free" => rp[r].wport = None /\ rp[r].gport = None
        /\ rp[r].magic = "open" <=> rp[r].buf # None
    BY DEF PortInv, ObjectsOK, ReadSide
  <2>2. r \in hit => rp[r].magic = "open" /\ b(r) # None
    BY <1>3, <1>5, QueueKinds DEF Open
  <2> QED
    BY <1>7, <2>1, <2>2
<1>11. UnicastOK'
  <2> SUFFICES ASSUME NEW v \in WritePorts, wp[v].mode = "UNICAST"
               PROVE  InOrder(RingOf(v)', written'[v])
    BY <1>1 DEF UnicastOK, InOrder
  <2>1. InOrder(RingOf(v), written[v])
    BY UnicastRing
  <2>2. CASE wp[v].buf # None
    <3>1. RingOf(v)' = RingOf(v) /\ v # w
      BY <1>1, <2>2 DEF RingOf
    <3>2. written'[v] = written[v]
      BY <1>4, <3>1
    <3> QED
      BY <2>1, <3>1, <3>2
  <2>3. CASE wp[v].buf = None
    <3> DEFINE h == Head(wp[v].rps)
    <3>1. h \in ReadPorts /\ RingOf(v) = rp[h].buf /\ RingOf(v)' = rp'[h].buf
      BY <1>1, <2>3, UnicastRing DEF RingOf
    <3>2. Range(wp[v].rps) = {h} /\ rp[h].wport = v
      BY <2>3, UnicastRing
    <3> HIDE DEF h
    <3>3. CASE v = w /\ h \in hit
      <4>1. RingOf(v)' = b(h) /\ written'[v] = (written[w] + count) % Stamps
        BY <1>4, <1>7, <3>1, <3>3
      <4> QED
        BY <1>5, <2>1, <3>1, <3>3, <4>1
    <3>4. CASE v = w /\ h \notin hit
      <4>1. hit \subseteq Range(wp[w].rps)
        BY DEF Hit
      <4> QED
        BY <3>2, <3>4, <4>1
    <3>5. CASE v # w
      <4>1. h \notin hit
        BY <1>2, <3>2, <3>5
      <4>2. RingOf(v)' = RingOf(v) /\ written'[v] = written[v]
        BY <1>4, <1>7, <3>1, <3>5, <4>1
      <4> QED
        BY <2>1, <4>2
    <3> QED
      BY <3>3, <3>4, <3>5
  <2> QED
    BY <2>2, <2>3
<1>12. \A r \in ReadPorts : /\ Open(r)' <=> Open(r)
                            /\ Held(r)' = IF r \in hit THEN Held(r) + count ELSE Held(r)
  <2> SUFFICES ASSUME NEW r \in ReadPorts
               PROVE  /\ Open(r)' <=> Open(r)
                      /\ Held(r)' = IF r \in hit THEN Held(r) + count ELSE Held(r)
    OBVIOUS
  <2>1. Open(r)' <=> Open(r)
    BY <1>7 DEF Open
  <2>2. r \in hit => b(r) # None /\ rp[r].buf # None
    BY <1>3, <1>5, QueueKinds
  <2> QED
    BY <1>5, <1>7, <2>1, <2>2 DEF Held
<1>13. (\A x : Members(x)' = Members(x)) /\ \A g \in Groups : OpenGroup(g)' <=> OpenGroup(g)
  BY <1>1 DEF Members, OpenGroup
<1> QED
  BY <1>2, <1>7, <1>8, <1>9, <1>10, <1>11, <1>12, <1>13 DEF ObjectsOK

\* The readers that a write wakes, as far as anybody sleeps: one for each
\* port of hit that is read through x.
LEMMA WakersAre ==
  ASSUME PortInv, NEW hit \in SUBSET ReadPorts, NEW s, NEW x \in Queues
  PROVE  /\ Wakers(s, hit, x) \in SUBSET ReadPorts
         /\ Calm /\ list[x] # <<>> => Wakers(s, hit, x) = hit \cap Members(x)
<1>1. CASE x \in Groups
  <2>1. Wakers(s, hit, x) = {r \in hit : rp[r].gport = x}
    BY <1>1 DEF Wakers
  <2>2. ASSUME Calm PROVE \A r \in hit : rp[r].gport = x <=> r \in Range(pg[x].rps)
    <3>1. risk # "remove"
      BY <2>2 DEF Calm
    <3> QED
      BY <1>1, <3>1 DEF PortInv, ObjectsOK, GroupLinks
  <2> QED
    BY <1>1, <2>1, <2>2 DEF Members
<1>2. CASE x \notin Groups
  <2> DEFINE W == Wakers(s, hit, x)
  <2>1. W \subseteq hit \cap {x} /\ (x \in hit /\ rp[x].gport = None => x \in W)
    BY <1>2 DEF Wakers
  <2> HIDE DEF W
  <2>2. ASSUME Calm, list[x] # <<>> PROVE rp[x].gport = None
    <3>1. x \in ReadPorts /\ AsleepOK /\ WQInv
      BY <1>2, QueueKinds DEF PortInv, ReadersOK
    <3>2. Busy(x) # {}
      BY <2>2, <3>1, ReaderFacts
    <3> QED
      BY <2>2, <3>1, <3>2 DEF PortInv, ReadersOK, DirectOK
  <2>3. Members(x) = {x}
    BY <1>2 DEF Members
  <2>4. W \in SUBSET ReadPorts /\ (Calm /\ list[x] # <<>> => W = hit \cap Members(x))
    BY <2>1, <2>2, <2>3
  <2> QED
    BY <2>4 DEF W
<1> QED
  BY <1>1, <1>2

\* One packet more in each port of H.
LEMMA OneMore ==
  ASSUME NEW H \in SUBSET ReadPorts, NEW f
  PROVE  Cardinality({<<r, f[r]>> : r \in H}) <= Cardinality(H)
<1> DEFINE C == {<<r, f[r]>> : r \in H}
           m == [r \in H |-> <<r, f[r]>>]
<1>1. IsFiniteSet(H)
  BY PortAssumption, FS_Subset
<1>2. m \in Surjection(H, C)
  BY DEF Surjection
<1> HIDE DEF m
<1> QED
  BY <1>1, <1>2, FS_Surjection

LEMMA WriteReadersInv ==
  ASSUME PortInv, NEW w \in WritePorts, NEW count \in WriteCounts, port_write_readers(w, count)
  PROVE  PortInv'
<1>0. count \in Nat /\ count >= 1
  BY PortAssumption
<1>1. PICK hit : hit = Hit(w, count)
  OBVIOUS
<1>2. wp[w].buf = None /\ hit # {}
  BY <1>1 DEF port_write_readers
<1>3. hit \subseteq ReadPorts
  BY <1>1, PortFields DEF Hit, PortInv
<1>4. CASE \E r \in hit : rp[r].gport # None /\ pg[rp[r].gport].magic = "free"
  <2>1. PICK r \in hit : rp[r].gport # None /\ pg[rp[r].gport].magic = "free"
    BY <1>4
  <2>2. risk = "remove"
    BY <1>3, <2>1, StalePointer
  <2>3. Break("freed group")
    BY <1>1, <1>4 DEF port_write_readers
  <2> QED
    BY <2>2, <2>3, BreakInv
<1>5. CASE ~ \E r \in hit : rp[r].gport # None /\ pg[rp[r].gport].magic = "free"
  <2>1. PICK n : n = [q \in Queues |-> Cardinality(Wakers(wp[w].rps, hit, q))]
    OBVIOUS
  <2>2. PICK happens : happens = \E r \in hit : \/ LeavesSleeper(r, count)
                                                \/ LeavesSleeper(rp[r].gport, count)
    OBVIOUS
  <2>3. /\ rp' = [r \in ReadPorts |->
                    IF r \in hit THEN [rp[r] EXCEPT !.buf = buf_write(rp[r].buf, Number(w), count)]
                                 ELSE rp[r]]
        /\ Advance(w, count)
        /\ Risk("crowd", happens)
        /\ UNCHANGED <<frame, block_ret, timer, write_port_list, wp, pg, timed, broken>>
    BY <1>1, <1>5, <2>2 DEF port_write_readers
  <2>4. /\ list' = [q \in Queues |-> SubSeq(list[q], Cardinality(Wakers(wp[w].rps, hit, q)) + 1,
                                            Len(list[q]))]
    BY <1>1, <1>5 DEF port_write_readers
  <2>5. list' = [q \in Queues |-> SubSeq(list[q], n[q] + 1, Len(list[q]))]
    BY <2>1, <2>4
  <2>6. /\ frame' = frame /\ block_ret' = block_ret /\ timer' = timer /\ broken' = broken
        /\ UNCHANGED <<write_port_list, wp, pg, timed>>
    BY <2>3
  <2>7. /\ risk' \in Risks /\ (risk # "none" => risk' = risk) /\ (Calm' => Calm)
        /\ (happens => risk' = "crowd")
    <3>1. "crowd" \in Risks
      BY DEF Risks
    <3> QED
      BY <2>3, <3>1, RiskFacts DEF PortInv
  <2>8. /\ PortTypeOK' /\ ObjectsOK'
        /\ \A r \in ReadPorts : /\ Open(r)' <=> Open(r)
                                /\ rp'[r].gport = rp[r].gport
                                /\ Held(r)' = IF r \in hit THEN Held(r) + count ELSE Held(r)
        /\ \A x : Members(x)' = Members(x)
        /\ \A g \in Groups : OpenGroup(g)' <=> OpenGroup(g)
    <3>1. WriteRings(w, count, hit)
      BY <2>3 DEF WriteRings
    <3>2. risk' \in Risks /\ (risk = "remove" => risk' = "remove")
      BY <2>7
    <3> QED
      BY <1>0, <1>1, <1>2, <2>3, <2>6, <3>1, <3>2, WriteEffect
  <2>9. \A x \in Queues : n[x] \in Nat /\ n[x] = Cardinality(Wakers(wp[w].rps, hit, x))
    <3> SUFFICES ASSUME NEW x \in Queues PROVE Cardinality(Wakers(wp[w].rps, hit, x)) \in Nat
      BY <2>1
    <3>1. Wakers(wp[w].rps, hit, x) \in SUBSET ReadPorts
      BY <1>3, WakersAre
    <3> QED
      BY <3>1, PortAssumption, FS_Subset, FS_CardinalityType
  <2>10. \A x \in Queues :
           /\ list'[x] \in Seq(Threads) /\ IsInjective(list'[x])
           /\ Range(list'[x]) \subseteq Range(list[x])
           /\ list'[x] # <<>> => /\ Len(list[x]) > n[x]
                                 /\ Cardinality(Range(list[x]) \ Range(list'[x])) = n[x]
    <3> SUFFICES ASSUME NEW x \in Queues
                 PROVE  /\ list'[x] \in Seq(Threads) /\ IsInjective(list'[x])
                        /\ Range(list'[x]) \subseteq Range(list[x])
                        /\ list'[x] # <<>> =>
                             /\ Len(list[x]) > n[x]
                             /\ Cardinality(Range(list[x]) \ Range(list'[x])) = n[x]
      OBVIOUS
    <3>1. list[x] \in Seq(Threads) /\ IsInjective(list[x])
      BY ReaderFacts DEF PortInv, ReadersOK
    <3>2. list'[x] = SubSeq(list[x], n[x] + 1, Len(list[x])) /\ n[x] \in Nat
      BY <2>5, <2>9
    <3>3. PICK u : u = list[x]
      OBVIOUS
    <3>4. PICK v : v = list'[x]
      OBVIOUS
    <3>5. PICK k : k = n[x]
      OBVIOUS
    <3>6. u \in Seq(Threads) /\ IsInjective(u) /\ k \in Nat /\ v = SubSeq(u, k + 1, Len(u))
      BY <3>1, <3>2, <3>3, <3>4, <3>5
    <3>7. /\ v \in Seq(Threads) /\ IsInjective(v) /\ Range(v) \subseteq Range(u)
          /\ v # <<>> => Len(u) > k /\ Cardinality(Range(u) \ Range(v)) = k
      BY ONLY <3>6, DropLemma, Zenon
    <3> QED
      BY <3>3, <3>4, <3>5, <3>7
  <2>11. /\ WQInv' /\ AsleepOK'
         /\ \A x \in Queues : Busy(x)' = Busy(x) /\ Waking(x) \subseteq Waking(x)'
    <3>1. list' \in [Queues -> Seq(Threads)]
      BY <2>5, <2>10
    <3> QED
      BY <2>6, <2>10, <3>1, WakenReaders DEF PortInv, ReadersOK
  <2>12. \A x \in Queues : list'[x] # <<>> => list[x] # <<>>
    <3> SUFFICES ASSUME NEW x \in Queues, list'[x] # <<>>, list[x] = <<>> PROVE FALSE
      OBVIOUS
    <3>1. Range(list'[x]) = {}
      BY <2>10, EmptyList
    <3> QED
      BY <2>10, <3>1, EmptyRange
  <2>13. ClosedOK'
    BY <2>8, <2>12, QueueKinds DEF PortInv, ReadersOK, ClosedOK
  <2>14. UsersOK'
    <3>1. risk = "close" => risk' = "close"
      BY <2>7
    <3> QED
      BY <2>8, <2>11, <3>1, QueueKinds DEF PortInv, ReadersOK, UsersOK, OpenAt
  <2>15. DirectOK'
    BY <2>7, <2>8, <2>11, QueueKinds DEF PortInv, ReadersOK, DirectOK
  <2>16. CountOK'
    <3>1. ASSUME NEW x \in Queues, Calm', list'[x] # <<>>
          PROVE  Counted(x)
      <4>1. Calm /\ list[x] # <<>> /\ ~happens
        BY <2>7, <2>12, <3>1 DEF Calm
      <4>2. PICK H : H = hit \cap Members(x)
        OBVIOUS
      <4>3. H = Wakers(wp[w].rps, hit, x) /\ n[x] = Cardinality(H) /\ H \in SUBSET ReadPorts
        BY <1>3, <2>9, <4>1, <4>2, WakersAre
      <4>4. \A r \in ReadPorts : /\ Held(r) \in Nat /\ Held(r)' \in Nat
                                 /\ Held(r)' <= PORT_BUFF_SIZE
        BY <2>8, HeldNumbers DEF PortInv
      <4>5. CASE H = {}
        <5>1. \A r \in Members(x)' \cap ReadPorts : r \in Members(x) /\ Held(r)' <= Held(r)
          BY <2>8, <4>2, <4>4, <4>5
        <5>2. Available(x)' \subseteq Available(x)
          BY <4>4, <5>1, FewerAvailable
        <5> QED
          BY <2>11, <4>1, <5>2 DEF Counted
      <4>6. CASE H # {}
        <5>1. n[x] >= 1
          <6>1. IsFiniteSet(H)
            BY <4>3, PortAssumption, FS_Subset
          <6>2. Cardinality(H) # 0
            BY <4>6, <6>1, FS_EmptySet
          <6> QED
            BY <2>9, <4>3, <6>2
        <5>2. Len(list[x]) > 1
          <6>1. Len(list[x]) \in Nat /\ Len(list[x]) > n[x]
            BY <2>10, <3>1, ReaderFacts DEF PortInv, ReadersOK
          <6> QED
            BY <5>1, <6>1, <2>9
        <5>3. count = 1
          <6>1. PICK r \in hit : r \in Members(x)
            BY <4>2, <4>6
          <6>2. r = x \/ rp[r].gport = x
            BY <1>3, <6>1 DEF Members, PortInv, ObjectsOK, GroupLinks
          <6>3. ~LeavesSleeper(x, count)
            BY <2>2, <4>1, <6>1, <6>2
          <6>4. x # None
            BY QueueKinds
          <6> QED
            BY <1>0, <5>2, <6>3, <6>4 DEF LeavesSleeper
        <5>4. PICK f : f = [r \in ReadPorts |-> Held(r) + 1]
          OBVIOUS
        <5>5. PICK C : C = {<<r, f[r]>> : r \in H}
          OBVIOUS
        <5>6. PICK D : D = Range(list[x]) \ Range(list'[x])
          OBVIOUS
        <5>7. Cardinality(C) <= Cardinality(D)
          BY <2>10, <3>1, <4>3, <5>5, <5>6, OneMore
        <5>8. \A r \in H : /\ r \in ReadPorts /\ f[r] = Held(r) + 1 /\ Held(r)' = Held(r) + 1
                           /\ f[r] \in 1 .. PORT_BUFF_SIZE
          <6> SUFFICES ASSUME NEW r \in H
                       PROVE  /\ r \in ReadPorts /\ f[r] = Held(r) + 1 /\ Held(r)' = Held(r) + 1
                              /\ f[r] \in 1 .. PORT_BUFF_SIZE
            OBVIOUS
          <6>1. r \in ReadPorts /\ r \in hit
            BY <4>2, <4>3
          <6>2. f[r] = Held(r) + 1 /\ Held(r)' = Held(r) + 1
            BY <2>8, <5>3, <5>4, <6>1
          <6> QED
            BY <4>4, <6>1, <6>2, PortAssumption
        <5>9. C \in SUBSET Places
          BY <5>5, <5>8 DEF Places
        <5>10. Available(x)' \subseteq Available(x) \cup C
          <6> SUFFICES ASSUME NEW p \in Places, p[1] \in Members(x)', p[2] <= Held(p[1])',
                              p \notin C
                       PROVE  p[1] \in Members(x) /\ p[2] <= Held(p[1])
            BY DEF Available, Places
          <6>1. p[1] \in ReadPorts /\ p[2] \in Nat /\ p = <<p[1], p[2]>> /\ p[1] \in Members(x)
            BY <2>8, PortAssumption DEF Places
          <6>2. CASE p[1] \in H
            <7>1. p[2] # f[p[1]]
              BY <5>5, <6>1, <6>2
            <7> QED
              BY <4>4, <5>8, <6>1, <6>2, <7>1
          <6>3. CASE p[1] \notin H
            <7>1. p[1] \notin hit
              BY <4>2, <6>1, <6>3
            <7> QED
              BY <2>8, <6>1, <7>1
          <6> QED
            BY <6>2, <6>3
        <5>11. D \in SUBSET Waking(x)' /\ Waking(x) \cap D = {}
          <6>1. Range(list[x]) \subseteq Busy(x)
            BY DEF PortInv, ReadersOK, AsleepOK
          <6> QED
            BY <2>11, <5>6, <6>1 DEF Waking
        <5> QED
          BY <2>11, <4>1, <5>7, <5>9, <5>10, <5>11 DEF Counted
      <4> QED
        BY <4>5, <4>6
    <3> QED
      BY <2>7, <3>1, CountStep DEF PortInv, ReadersOK
  <2>17. FaultHasCause'
    BY <2>6, <2>7 DEF PortInv, FaultHasCause
  <2> QED
    BY <2>8, <2>11, <2>13, <2>14, <2>15, <2>16, <2>17 DEF PortInv, ReadersOK
<1> QED
  BY <1>4, <1>5
-----------------------------------------------------------------------------
(***************************************************************************)
(* The invariant and the theorems.                                         *)
(***************************************************************************)
LEMMA PortInitInv == PortInit => PortInv
<1> SUFFICES ASSUME PortInit PROVE PortInv
  OBVIOUS
<1>1. /\ WQInit /\ write_port_list = <<>> /\ timed = {} /\ broken = "no" /\ risk = "none"
      /\ wp = [w \in WritePorts |-> FreeWrite] /\ written = [w \in WritePorts |-> 0]
      /\ rp = [r \in ReadPorts |-> FreeRead] /\ pg = [g \in Groups |-> FreeGroup]
  BY DEF PortInit
<1>2. /\ \A w \in WritePorts : wp[w] = FreeWrite
      /\ \A r \in ReadPorts : rp[r] = FreeRead
      /\ \A g \in Groups : pg[g] = FreeGroup
  BY <1>1
<1>3. WQInv
  BY <1>1, WQInitInv
<1>4. PortTypeOK
  BY <1>1, FreeObjects, EmptyList DEF PortTypeOK, Risks
<1>5. WriteSide
  BY <1>1, <1>2, FreeObjects, EmptyList DEF WriteSide
<1>6. ReadSide /\ GroupSide
  BY <1>2, FreeObjects, EmptyList DEF ReadSide, GroupSide
<1>7. WriteLinks /\ GroupLinks
  BY <1>2, FreeObjects, EmptyList, QueueKinds DEF WriteLinks, GroupLinks
<1>8. UnicastOK
  BY <1>2, FreeObjects, QueueKinds DEF UnicastOK
<1>9. \A x \in Queues : list[x] = <<>> /\ Busy(x) = {}
  BY <1>1, WaitQueueAssumption DEF WQInit, Busy
<1>10. ReadersOK
  BY <1>9, EmptyList, QueueKinds DEF ReadersOK, AsleepOK, ClosedOK, UsersOK, DirectOK, CountOK
<1>11. FaultHasCause
  BY <1>1 DEF FaultHasCause
<1> QED
  BY <1>3, <1>4, <1>5, <1>6, <1>7, <1>8, <1>10, <1>11 DEF PortInv, ObjectsOK

LEMMA PortStep == PortInv /\ [PortNext]_portvars => PortInv'
<1> SUFFICES ASSUME PortInv, [PortNext]_portvars PROVE PortInv'
  OBVIOUS
<1>1. ASSUME NEW name \in Names, NEW mode \in Modes, port_create(name, mode) PROVE PortInv'
  BY <1>1, CreateInv
<1>2. ASSUME NEW w \in WritePorts, port_create_insert(w) PROVE PortInv'
  BY <1>2, CreateInsertInv
<1>3. ASSUME NEW w \in WritePorts, NEW count \in WriteCounts, port_write(w, count) PROVE PortInv'
  BY <1>3, WritePendingInv, WriteReadersInv DEF port_write
<1>4. ASSUME NEW w \in WritePorts, port_close_write(w) PROVE PortInv'
  BY <1>4, CloseWriteInv
<1>5. ASSUME NEW w \in WritePorts, port_destroy(w) PROVE PortInv'
  BY <1>5, DestroyInv
<1>6. ASSUME NEW r \in ReadPorts, NEW name \in Names, port_open(name, r) PROVE PortInv'
  BY <1>6, OpenInv
<1>7. ASSUME NEW r \in ReadPorts, port_close_read(r) PROVE PortInv'
  BY <1>7, CloseReadInv
<1>8. ASSUME NEW g \in Groups, NEW ports \in SeqOf(ReadPorts, 2), port_group(g, ports)
      PROVE  PortInv'
  BY <1>8, GroupInv
<1>9. ASSUME NEW g \in Groups, NEW r \in ReadPorts, port_group_add(g, r) PROVE PortInv'
  BY <1>9, GroupAddInv
<1>10. ASSUME NEW g \in Groups, NEW r \in ReadPorts, port_group_remove(g, r) PROVE PortInv'
  BY <1>10, GroupRemoveInv
<1>11. ASSUME NEW g \in Groups, port_close_group(g) PROVE PortInv'
  BY <1>11, CloseGroupInv
<1>12. ASSUME NEW g \in Groups, port_close_group_finish(g) PROVE PortInv'
  BY <1>12, CloseGroupFinishInv
<1>13. ASSUME NEW t \in Threads, NEW x \in Queues, NEW timeout \in Timeouts,
              port_read(t, x, timeout)
       PROVE  PortInv'
  BY <1>13, ReadInv
<1>14. ASSUME NEW t \in Threads, port_read_resume(t) PROVE PortInv'
  BY <1>14, ResumeInv
<1>15. ASSUME NEW t \in Threads, port_timeout(t) PROVE PortInv'
  BY <1>15, PortTimeoutInv
<1>16. CASE UNCHANGED portvars
  <2>1. /\ UNCHANGED <<wqvars, rp, pg, risk>> /\ UNCHANGED <<write_port_list, wp, rp, pg, written>>
        /\ timed' = timed /\ risk' = risk /\ broken' = broken
    BY <1>16 DEF portvars, pvars
  <2>2. WQInv' /\ ReadersOK'
    BY <2>1, ReadersSame DEF PortInv
  <2>3. PortTypeOK' /\ ObjectsOK'
    BY <2>1, SameObjects DEF PortInv, PortTypeOK
  <2>4. FaultHasCause'
    BY <2>1 DEF PortInv, FaultHasCause
  <2> QED
    BY <2>2, <2>3, <2>4 DEF PortInv
<1> QED
  BY <1>1, <1>2, <1>3, <1>4, <1>5, <1>6, <1>7, <1>8, <1>9, <1>10, <1>11, <1>12, <1>13, <1>14,
     <1>15, <1>16
  DEF PortNext

LEMMA PortInvariant == PortSpec => []PortInv
BY PortInitInv, PortStep, PTL DEF PortSpec

(***************************************************************************)
(* kernel/port.c: the fields of the ports and groups keep their types, and *)
(* no ring ever holds more than PORT_BUFF_SIZE packets.                    *)
(***************************************************************************)
THEOREM PortTypeCorrect == PortSpec => []PortTypeOK
<1>1. PortInv => PortTypeOK
  BY DEF PortInv
<1> QED
  BY <1>1, PortInvariant, PTL

(***************************************************************************)
(* port_open, port_close, port_destroy and the group calls keep the lists  *)
(* and the pointers of write ports, read ports and groups in agreement,    *)
(* and hand the ring over and back; only port_group_remove leaves a        *)
(* pointer behind.                                                         *)
(***************************************************************************)
THEOREM PortLinksExact == PortSpec => []LinksExact
<1>1. PortInv => LinksExact
  <2> SUFFICES ASSUME PortInv PROVE LinksExact
    OBVIOUS
  <2>1. \A w \in WritePorts :
          wp[w].magic # "free" => /\ wp[w].buf = None <=> wp[w].rps # <<>>
                                  /\ wp[w].mode = "UNICAST" => Len(wp[w].rps) <= 1
                                  /\ IsInjective(wp[w].rps)
    BY DEF PortInv, ObjectsOK, WriteSide
  <2> QED
    BY <2>1 DEF PortInv, ObjectsOK, ReadSide, WriteLinks, GroupLinks, LinksExact
<1> QED
  BY <1>1, PortInvariant, PTL

(***************************************************************************)
(* Every packet that port_write accepted for a unicast port is read once   *)
(* and in order, whoever opens and closes the port in between: no packet   *)
(* is lost, doubled or reordered when the ring changes hands.              *)
(***************************************************************************)
THEOREM PortUnicastExact == PortSpec => []UnicastExact
<1>1. PortInv => UnicastExact
  <2> SUFFICES ASSUME PortInv, NEW w \in WritePorts, wp[w].mode = "UNICAST"
               PROVE  LET b == RingOf(w)
                          n == Len(b.packets)
                      IN  /\ b.packets = [i \in 1 .. n |-> (b.got + i - 1) % Stamps]
                          /\ (b.got + n) % Stamps = written[w]
    BY DEF UnicastExact, RingOf
  <2>1. PICK b : b = RingOf(w)
    OBVIOUS
  <2>2. b \in PortBufs
    <3>1. CASE wp[w].buf # None
      BY <2>1, <3>1, PortFields, UnicastRing DEF PortInv
    <3>2. CASE wp[w].buf = None
      <4> DEFINE h == Head(wp[w].rps)
      <4>1. h \in ReadPorts /\ rp[h].wport # None /\ b = rp[h].buf
        BY <2>1, <3>2, UnicastRing, QueueKinds
      <4> HIDE DEF h
      <4>2. rp[h].magic \in {"free", "open"} /\ rp[h].buf \in PortBufs \cup {None}
        BY <4>1, PortFields DEF PortInv
      <4>3. rp[h].buf # None
        BY <4>1, <4>2 DEF PortInv, ObjectsOK, ReadSide
      <4> QED
        BY <4>1, <4>2, <4>3
    <3> QED
      BY <3>1, <3>2
  <2>3. PICK n : n = Len(b.packets)
    OBVIOUS
  <2>4. /\ \A i \in 1 .. n : b.packets[i] = (b.got + (i - 1)) % Stamps
        /\ (b.got + n) % Stamps = written[w]
    BY <2>1, <2>3, UnicastRing DEF InOrder
  <2>5. PICK s : s = b.packets
    OBVIOUS
  <2>6. s \in [1 .. n -> Int]
    <3>1. s \in Seq(Int) /\ Len(s) = n
      BY <2>2, <2>3, <2>5, BufFacts
    <3> QED
      BY <3>1, LenProperties
  <2>7. s = [i \in 1 .. n |-> (b.got + i - 1) % Stamps]
    <3>1. \A i \in 1 .. n : s[i] = (b.got + i - 1) % Stamps
      BY <2>4, <2>5
    <3>2. s = [i \in 1 .. n |-> s[i]]
      BY <2>6
    <3> QED
      BY <3>1, <3>2
  <2> QED
    BY ONLY <2>1, <2>3, <2>4, <2>5, <2>7, Zenon
<1> QED
  BY <1>1, PortInvariant, PTL

(***************************************************************************)
(* As long as readers do not crowd and no port was removed from a group,   *)
(* port_write and port_group_add wake a reader for every packet: nobody    *)
(* sleeps in port_read next to a packet that no reader is on its way to.   *)
(***************************************************************************)
THEOREM PortNoSleeperOnPackets == PortSpec => []NoSleeperOnPackets
<1>1. PortInv => NoSleeperOnPackets
  <2> SUFFICES ASSUME PortInv, Calm, NEW x \in Queues, list[x] # <<>>, Source(x) # None
               PROVE  OnItsWay(x)
    BY DEF NoSleeperOnPackets, Calm
  <2>1. WQInv /\ AsleepOK /\ (x \in ReadPorts => Open(x))
    BY DEF PortInv, ReadersOK, ClosedOK
  <2>2. PICK r \in ReadPorts : /\ r \in Members(x) /\ rp[r].buf \in PortBufs
                               /\ rp[r].buf.packets # <<>>
    BY <2>1, SourceFacts
  <2>3. Held(r) >= 1
    <3>1. Held(r) = Len(rp[r].buf.packets)
      BY <2>2, QueueKinds DEF Held
    <3> QED
      BY <2>2, <3>1, BufFacts
  <2>4. <<r, 1>> \in Available(x)
    BY <2>2, <2>3, PortAssumption DEF Available
  <2>5. Available(x) \subseteq Places /\ Waking(x) \subseteq Threads
    BY DEF Available, Places, Waking, Busy
  <2>6. Cardinality(Available(x)) # 0
    <3>1. IsFiniteSet(Available(x)) /\ Available(x) # {}
      BY <2>4, <2>5, FiniteSides
    <3> QED
      BY <3>1, FS_EmptySet
  <2>7. Cardinality(Available(x)) <= Cardinality(Waking(x))
    BY DEF PortInv, ReadersOK, CountOK
  <2>8. Waking(x) # {}
    <3> SUFFICES ASSUME Waking(x) = {} PROVE FALSE
      OBVIOUS
    <3>1. Cardinality(Waking(x)) = 0 /\ Cardinality(Available(x)) \in Nat
      BY <2>5, FS_EmptySet, FiniteSides
    <3> QED
      BY <2>6, <2>7, <3>1
  <2> QED
    BY <2>1, <2>8, ReaderFacts
<1> QED
  BY <1>1, PortInvariant, PTL

(***************************************************************************)
(* kernel/port.c follows no pointer to a freed object and never returns    *)
(* with thread_lock held, unless a port was removed from a group or        *)
(* something was closed under a reader that was woken and had not run.     *)
(***************************************************************************)
THEOREM PortFaultHasCause == PortSpec => []FaultHasCause
<1>1. PortInv => FaultHasCause
  BY DEF PortInv
<1> QED
  BY <1>1, PortInvariant, PTL
=============================================================================
