------------------------------ MODULE ListProofs ------------------------------
(***************************************************************************)
(* Lemmas about the operators that model the lists of include/list.h: what *)
(* adding, removing, moving and searching do to a list as a set of         *)
(* elements, and that no element gets into it twice.                       *)
(***************************************************************************)
EXTENDS Integers, Sequences, SequencesExt, FiniteSets, SequenceTheorems, FiniteSetTheorems,
        WellFoundedInduction, TLAPS

(***************************************************************************)
(* The list operations, on lists that hold every element at most once.     *)
(***************************************************************************)
\* list_add_tail: the list gains the element and still holds it only once.
LEMMA AppendLemma ==
  ASSUME NEW S, NEW s \in Seq(S), NEW e \in S
  PROVE  /\ Append(s, e) \in Seq(S)
         /\ Range(Append(s, e)) = Range(s) \cup {e}
         /\ IsInjective(s) /\ e \notin Range(s) => IsInjective(Append(s, e))
<1>1. /\ Append(s, e) \in Seq(S)
      /\ DOMAIN Append(s, e) = DOMAIN s \cup {Len(s) + 1}
      /\ Len(s) + 1 \notin DOMAIN s
      /\ \A i \in DOMAIN s : Append(s, e)[i] = s[i]
      /\ Append(s, e)[Len(s) + 1] = e
  BY AppendProperties, LenProperties
<1>2. Range(Append(s, e)) = Range(s) \cup {e}
  BY <1>1, Zenon DEF Range
<1>3. ASSUME IsInjective(s), e \notin Range(s)
      PROVE  IsInjective(Append(s, e))
  <2>1. \A i \in DOMAIN s : s[i] # e
    BY <1>3 DEF Range
  <2> QED
    BY <1>1, <1>3, <2>1 DEF IsInjective
<1> QED
  BY <1>1, <1>2, <1>3

\* list_remove_head: the list loses its head, and no other element.
LEMMA TailLemma ==
  ASSUME NEW S, NEW s \in Seq(S), s # <<>>
  PROVE  /\ Head(s) \in S
         /\ Head(s) \in Range(s)
         /\ Tail(s) \in Seq(S)
         /\ IsInjective(s) => /\ Range(Tail(s)) = Range(s) \ {Head(s)}
                              /\ IsInjective(Tail(s))
<1>1. /\ Head(s) \in S
      /\ Tail(s) \in Seq(S)
      /\ Len(s) \in Nat \ {0}
      /\ DOMAIN s = 1 .. Len(s)
      /\ DOMAIN Tail(s) = 1 .. (Len(s) - 1)
      /\ \A i \in DOMAIN Tail(s) : Tail(s)[i] = s[i + 1]
      /\ Head(s) = s[1]
  BY HeadTailProperties, LenProperties, EmptySeq
<1>2. Head(s) \in Range(s)
  BY <1>1 DEF Range
<1>3. ASSUME IsInjective(s)
      PROVE  Range(Tail(s)) = Range(s) \ {Head(s)}
  <2>1. ASSUME NEW x \in Range(Tail(s))
        PROVE  x \in Range(s) \ {Head(s)}
    <3>1. PICK i \in DOMAIN Tail(s) : x = Tail(s)[i]
      BY <2>1 DEF Range
    <3>2. /\ i + 1 \in DOMAIN s /\ i + 1 # 1 /\ 1 \in DOMAIN s
          /\ x = s[i + 1]
      BY <1>1, <3>1
    <3> QED
      BY <1>1, <1>3, <3>2 DEF Range, IsInjective
  <2>2. ASSUME NEW x \in Range(s), x # Head(s)
        PROVE  x \in Range(Tail(s))
    <3>1. PICK i \in DOMAIN s : x = s[i]
      BY <2>2 DEF Range
    <3>2. i - 1 \in DOMAIN Tail(s) /\ Tail(s)[i - 1] = s[i]
      BY <1>1, <2>2, <3>1
    <3> QED
      BY <3>1, <3>2 DEF Range
  <2> QED
    BY <2>1, <2>2
<1>4. ASSUME IsInjective(s)
      PROVE  IsInjective(Tail(s))
  <2> SUFFICES ASSUME NEW i \in DOMAIN Tail(s), NEW j \in DOMAIN Tail(s),
                      Tail(s)[i] = Tail(s)[j]
               PROVE  i = j
    BY DEF IsInjective
  <2>1. /\ i + 1 \in DOMAIN s /\ j + 1 \in DOMAIN s
        /\ s[i + 1] = s[j + 1]
        /\ i \in Int /\ j \in Int
    BY <1>1
  <2>2. i + 1 = j + 1
    BY <2>1, <1>4 DEF IsInjective
  <2> QED
    BY <2>1, <2>2
<1> QED
  BY <1>1, <1>2, <1>3, <1>4

\* list_delete, by position: what comes after that element moves up.
LEMMA RemoveAtIs ==
  ASSUME NEW S, NEW s \in Seq(S), NEW k \in 1 .. Len(s)
  PROVE  /\ RemoveAt(s, k) \in Seq(S)
         /\ DOMAIN RemoveAt(s, k) = 1 .. (Len(s) - 1)
         /\ \A i \in DOMAIN RemoveAt(s, k) :
              RemoveAt(s, k)[i] = IF i < k THEN s[i] ELSE s[i + 1]
<1> DEFINE r == RemoveAt(s, k)
           a == SubSeq(s, 1, k - 1)
           b == SubSeq(s, k + 1, Len(s))
<1>1. Len(s) \in Nat /\ DOMAIN s = 1 .. Len(s) /\ \A i \in DOMAIN s : s[i] \in S
  BY LenProperties, ElementOfSeq
<1>2. /\ a \in Seq(S) /\ Len(a) = k - 1
      /\ \A i \in 1 .. (k - 1) : a[i] = s[i]
  BY <1>1, SubSeqProperties
<1>3. /\ b \in Seq(S) /\ Len(b) = Len(s) - k
      /\ \A i \in 1 .. (Len(s) - k) : b[i] = s[k + i]
  <2>1. /\ k + 1 \in Int /\ Len(s) \in Int
        /\ \A i \in (k + 1) .. Len(s) : s[i] \in S
    BY <1>1
  <2>2. /\ b \in Seq(S)
        /\ Len(b) = IF k + 1 <= Len(s) THEN Len(s) - (k + 1) + 1 ELSE 0
        /\ \A i \in 1 .. (Len(s) - (k + 1) + 1) : b[i] = s[(k + 1) + i - 1]
    BY <2>1, SubSeqProperties
  <2> HIDE DEF b
  <2>3. Len(b) = Len(s) - k
    <3>1. k \in Int /\ Len(s) \in Int /\ k <= Len(s)
      BY <1>1
    <3>2. CASE k + 1 <= Len(s)
      <4>1. Len(b) = Len(s) - (k + 1) + 1
        BY <2>2, <3>2
      <4> QED
        BY <3>1, <4>1
    <3>3. CASE ~(k + 1 <= Len(s))
      <4>1. Len(b) = 0
        BY <2>2, <3>3
      <4>2. k = Len(s)
        BY <3>1, <3>3
      <4> QED
        BY <3>1, <4>1, <4>2
    <3> QED
      BY <3>2, <3>3
  <2>4. ASSUME NEW i \in 1 .. (Len(s) - k)
        PROVE  b[i] = s[k + i]
    <3>1. i \in 1 .. (Len(s) - (k + 1) + 1) /\ (k + 1) + i - 1 = k + i
      BY <1>1
    <3> QED
      BY <2>2, <3>1, Zenon
  <2> QED
    BY <2>2, <2>3, <2>4
<1>4. /\ r \in Seq(S)
      /\ DOMAIN r = 1 .. (Len(s) - 1)
      /\ \A i \in DOMAIN r : r[i] = IF i < k THEN s[i] ELSE s[i + 1]
  <2>1. r = a \o b
    BY DEF RemoveAt
  <2> HIDE DEF a, b, r
  <2>2. /\ r \in Seq(S) /\ Len(r) = Len(a) + Len(b)
        /\ \A i \in 1 .. (Len(a) + Len(b)) :
             r[i] = IF i <= Len(a) THEN a[i] ELSE b[i - Len(a)]
    BY <1>2, <1>3, <2>1, ConcatProperties
  <2>3. DOMAIN r = 1 .. (Len(s) - 1)
    BY <1>1, <1>2, <1>3, <2>2, LenProperties
  <2>5. Len(a) + Len(b) = Len(s) - 1
    BY <1>1, <1>2, <1>3
  <2>4. ASSUME NEW i \in DOMAIN r
        PROVE  r[i] = IF i < k THEN s[i] ELSE s[i + 1]
    <3>1. CASE i < k
      <4>1. i \in 1 .. (k - 1) /\ i <= Len(a) /\ i \in 1 .. (Len(a) + Len(b))
        BY <1>1, <1>2, <2>3, <2>5, <3>1
      <4>2. r[i] = a[i]
        BY <2>2, <4>1, Zenon
      <4> QED
        BY <1>2, <3>1, <4>1, <4>2
    <3>2. CASE ~(i < k)
      <4>1. i - Len(a) \in 1 .. (Len(s) - k) /\ k + (i - Len(a)) = i + 1
        BY <1>1, <1>2, <2>3, <3>2
      <4>2. r[i] = b[i - Len(a)]
        <5>1. i \in 1 .. (Len(a) + Len(b)) /\ ~(i <= Len(a))
          BY <1>1, <1>2, <2>3, <2>5, <3>2
        <5> QED
          BY <2>2, <5>1, Zenon
      <4> QED
        BY <1>3, <3>2, <4>1, <4>2
    <3> QED
      BY <3>1, <3>2
  <2> QED
    BY <2>2, <2>3, <2>4
<1> QED
  BY <1>4

\* list_delete, by position: the list loses that element, and no other.
LEMMA RemoveAtLemma ==
  ASSUME NEW S, NEW s \in Seq(S), IsInjective(s), NEW k \in 1 .. Len(s)
  PROVE  /\ RemoveAt(s, k) \in Seq(S)
         /\ Range(RemoveAt(s, k)) = Range(s) \ {s[k]}
         /\ IsInjective(RemoveAt(s, k))
<1> DEFINE r == RemoveAt(s, k)
<1>1. Len(s) \in Nat /\ DOMAIN s = 1 .. Len(s)
  BY LenProperties
<1>4. /\ r \in Seq(S)
      /\ DOMAIN r = 1 .. (Len(s) - 1)
      /\ \A i \in DOMAIN r : r[i] = IF i < k THEN s[i] ELSE s[i + 1]
  BY RemoveAtIs
<1> HIDE DEF r
<1>5. IsInjective(r)
  <2> SUFFICES ASSUME NEW i \in DOMAIN r, NEW j \in DOMAIN r, r[i] = r[j]
               PROVE  i = j
    BY DEF IsInjective
  <2> QED
    BY <1>1, <1>4 DEF IsInjective
<1>6. ASSUME NEW x \in Range(r)
      PROVE  x \in Range(s) \ {s[k]}
  <2>1. PICK i \in DOMAIN r : x = r[i]
    BY <1>6 DEF Range
  <2>2. PICK j \in DOMAIN s : j # k /\ x = s[j]
    BY <1>1, <1>4, <2>1
  <2> QED
    BY <1>1, <2>2 DEF Range, IsInjective
<1>7. ASSUME NEW x \in Range(s), x # s[k]
      PROVE  x \in Range(r)
  <2>1. PICK j \in DOMAIN s : x = s[j]
    BY <1>7 DEF Range
  <2>2. \E i \in DOMAIN r : x = r[i]
    <3>1. CASE j < k
      BY <1>1, <1>4, <2>1, <3>1
    <3>2. CASE j > k
      <4>1. j - 1 \in DOMAIN r /\ r[j - 1] = s[j]
        BY <1>1, <1>4, <3>2
      <4> QED
        BY <2>1, <4>1
    <3> QED
      BY <1>1, <1>7, <2>1, <3>1, <3>2
  <2> QED
    BY <2>2 DEF Range
<1> QED
  BY <1>4, <1>5, <1>6, <1>7 DEF r

\* list_delete: the element is removed where it is.
LEMMA RemoveFirstAt ==
  ASSUME NEW S, NEW s \in Seq(S), NEW e, IsInjective(s), \E i \in 1 .. Len(s) : s[i] = e
  PROVE  \E k \in 1 .. Len(s) : s[k] = e /\ RemoveFirst(s, e) = RemoveAt(s, k)
<1>0. Len(s) \in Nat /\ DOMAIN s = 1 .. Len(s)
  BY LenProperties
<1> PICK k \in 1 .. Len(s) : s[k] = e
  OBVIOUS
<1> DEFINE I == {i \in 1 .. Len(s) : s[i] = e}
<1>1. I = {k}
  BY <1>0 DEF IsInjective
<1>2. Min({k}) = k
  BY <1>0 DEF Min
<1>3. SelectInSeq(s, LAMBDA v : v = e) = k
  BY <1>1, <1>2 DEF SelectInSeq
<1>4. RemoveFirst(s, e) = RemoveAt(s, k)
  BY <1>3 DEF RemoveFirst
<1> QED
  BY <1>4

\* list_delete: the list loses the given element, and no other.
LEMMA RemoveFirstLemma ==
  ASSUME NEW S, NEW s \in Seq(S), NEW e, IsInjective(s)
  PROVE  /\ RemoveFirst(s, e) \in Seq(S)
         /\ Range(RemoveFirst(s, e)) = Range(s) \ {e}
         /\ IsInjective(RemoveFirst(s, e))
<1>0. Len(s) \in Nat /\ DOMAIN s = 1 .. Len(s)
  BY LenProperties
<1>1. CASE ~ \E i \in 1 .. Len(s) : s[i] = e
  <2>1. RemoveFirst(s, e) = s
    BY <1>1 DEF RemoveFirst
  <2>2. e \notin Range(s)
    BY <1>0, <1>1 DEF Range
  <2> QED
    BY <2>1, <2>2
<1>2. CASE \E i \in 1 .. Len(s) : s[i] = e
  BY <1>2, RemoveFirstAt, RemoveAtLemma
<1> QED
  BY <1>1, <1>2

\* list_add_before: the list with e at position k.
LEMMA InsertAtIs ==
  ASSUME NEW S, NEW s \in Seq(S), NEW e \in S, NEW k \in 1 .. (Len(s) + 1)
  PROVE  /\ InsertAt(s, k, e) \in Seq(S)
         /\ DOMAIN InsertAt(s, k, e) = 1 .. (Len(s) + 1)
         /\ \A i \in DOMAIN InsertAt(s, k, e) :
              InsertAt(s, k, e)[i] = IF i < k THEN s[i] ELSE IF i = k THEN e ELSE s[i - 1]
<1> DEFINE a == SubSeq(s, 1, k - 1)
           b == SubSeq(s, k, Len(s))
           u == <<e>>
           c == a \o u
           r == c \o b
<1>1. /\ Len(s) \in Nat /\ k \in Nat /\ 1 <= k /\ k <= Len(s) + 1 /\ DOMAIN s = 1 .. Len(s)
      /\ \A i \in 1 .. Len(s) : s[i] \in S
  BY LenProperties, ElementOfSeq
<1>2. a \in Seq(S) /\ Len(a) = k - 1 /\ \A i \in 1 .. (k - 1) : a[i] = s[i]
  BY <1>1, SMT
<1>3. /\ b \in Seq(S) /\ Len(b) = (Len(s) + 1) - k
      /\ \A i \in 1 .. ((Len(s) + 1) - k) : b[i] = s[(k + i) - 1]
  BY <1>1, SMT
<1>4. u \in Seq(S) /\ Len(u) = 1 /\ u[1] = e
  BY SMT
<1>5. r = InsertAt(s, k, e)
  BY DEF InsertAt
<1> HIDE DEF a, b, u
<1>6. /\ c \in Seq(S) /\ Len(c) = k
      /\ \A i \in 1 .. k : c[i] = IF i < k THEN s[i] ELSE e
  <2>1. /\ c \in Seq(S) /\ Len(c) = Len(a) + Len(u)
        /\ \A i \in 1 .. (Len(a) + Len(u)) :
             c[i] = IF i <= Len(a) THEN a[i] ELSE u[i - Len(a)]
    BY <1>2, <1>4, ConcatProperties
  <2> HIDE DEF c
  <2>2. Len(c) = k
    BY <1>1, <1>2, <1>4, <2>1
  <2>3. ASSUME NEW i \in 1 .. k
        PROVE  c[i] = IF i < k THEN s[i] ELSE e
    <3>1. i \in 1 .. (Len(a) + Len(u))
      BY <1>1, <1>2, <1>4
    <3>2. c[i] = IF i <= Len(a) THEN a[i] ELSE u[i - Len(a)]
      BY <2>1, <3>1
    <3>3. CASE i < k
      <4>1. i <= Len(a) /\ i \in 1 .. (k - 1)
        BY <1>1, <1>2, <3>3
      <4> QED
        BY <1>2, <3>2, <3>3, <4>1
    <3>4. CASE i = k
      <4>1. ~(i <= Len(a)) /\ i - Len(a) = 1
        BY <1>1, <1>2, <3>4
      <4> QED
        BY <1>4, <3>2, <3>4, <4>1
    <3> QED
      BY <1>1, <3>3, <3>4
  <2> QED
    BY <2>1, <2>2, <2>3
<1> HIDE DEF c
<1>7. /\ r \in Seq(S) /\ Len(r) = Len(c) + Len(b)
      /\ \A i \in 1 .. (Len(c) + Len(b)) : r[i] = IF i <= Len(c) THEN c[i] ELSE b[i - Len(c)]
  BY <1>3, <1>6, ConcatProperties
<1> HIDE DEF r
<1>8. DOMAIN r = 1 .. (Len(s) + 1) /\ Len(c) + Len(b) = Len(s) + 1
  BY <1>1, <1>3, <1>6, <1>7, LenProperties
<1>9. ASSUME NEW i \in DOMAIN r
      PROVE  r[i] = IF i < k THEN s[i] ELSE IF i = k THEN e ELSE s[i - 1]
  <2>1. r[i] = IF i <= Len(c) THEN c[i] ELSE b[i - Len(c)]
    BY <1>7, <1>8
  <2>2. CASE i <= k
    <3>1. i \in 1 .. k
      BY <1>1, <1>8, <2>2
    <3> QED
      BY <1>1, <1>6, <2>1, <2>2, <3>1
  <2>3. CASE ~(i <= k)
    <3>1. i - k \in 1 .. ((Len(s) + 1) - k) /\ (k + (i - k)) - 1 = i - 1
      BY <1>1, <1>8, <2>3
    <3>2. r[i] = b[i - k]
      BY <1>6, <2>1, <2>3
    <3>3. b[i - k] = s[(k + (i - k)) - 1]
      BY <1>3, <3>1, Zenon
    <3> QED
      BY <1>1, <1>8, <2>3, <3>1, <3>2, <3>3
  <2> QED
    BY <2>2, <2>3
<1> QED
  BY <1>5, <1>7, <1>8, <1>9

\* The empty list.
LEMMA EmptyList == /\ Range(<<>>) = {}
                   /\ IsInjective(<<>>)
                   /\ \A S : <<>> \in Seq(S)
BY DEF Range, IsInjective

\* A list that is not empty has an element.
LEMMA EmptyRange ==
  ASSUME NEW S, NEW s \in Seq(S), Range(s) = {}
  PROVE  s = <<>>
BY TailLemma

(***************************************************************************)
(* Searching a list from its head, as list_for_every_entry does.           *)
(***************************************************************************)
\* A set of natural numbers that is not empty has a least element.
LEMMA LeastElement ==
  ASSUME NEW I, I \subseteq Nat, I # {}
  PROVE  \E x \in I : \A y \in I : x <= y
<1>1. IsWellFoundedOn(OpToRel(<, Nat), Nat)
  BY NatLessThanWellFounded
<1>2. PICK x \in I : \A y \in I : ~(<<y, x>> \in OpToRel(<, Nat))
  BY <1>1, WFMin
<1>3. ASSUME NEW y \in I
      PROVE  x <= y
  <2>1. x \in Nat /\ y \in Nat /\ <<y, x>> \in Nat \X Nat
    OBVIOUS
  <2>2. ~(y < x)
    BY <1>2, <2>1, Zenon DEF OpToRel
  <2> QED
    BY <2>1, <2>2
<1> QED
  BY <1>3

LEMMA LeastExists ==
  ASSUME NEW I, I \subseteq Nat, I # {}
  PROVE  Min(I) \in I
BY LeastElement DEF Min

\* Two lists without an element in common, one after the other.
LEMMA ConcatInjective ==
  ASSUME NEW S, NEW s \in Seq(S), NEW t \in Seq(S), IsInjective(s), IsInjective(t),
         Range(s) \cap Range(t) = {}
  PROVE  IsInjective(s \o t)
<1>1. /\ Len(s) \in Nat /\ Len(t) \in Nat
      /\ DOMAIN s = 1 .. Len(s) /\ DOMAIN t = 1 .. Len(t)
  BY LenProperties
<1>2. /\ s \o t \in Seq(S) /\ Len(s \o t) = Len(s) + Len(t)
      /\ \A i \in 1 .. (Len(s) + Len(t)) :
           (s \o t)[i] = IF i <= Len(s) THEN s[i] ELSE t[i - Len(s)]
  BY ConcatProperties
<1>3. DOMAIN (s \o t) = 1 .. (Len(s) + Len(t))
  BY <1>2, LenProperties
<1> DEFINE c == s \o t
<1> HIDE DEF c
<1> SUFFICES ASSUME NEW i \in 1 .. (Len(s) + Len(t)), NEW j \in 1 .. (Len(s) + Len(t)),
                    c[i] = c[j]
             PROVE  i = j
  BY <1>3 DEF IsInjective, c
<1>4. ASSUME NEW k \in 1 .. (Len(s) + Len(t))
      PROVE  \/ k \in DOMAIN s /\ c[k] = s[k]
             \/ k - Len(s) \in DOMAIN t /\ c[k] = t[k - Len(s)]
  <2>1. CASE k <= Len(s)
    <3>1. k \in DOMAIN s
      BY <1>1, <2>1
    <3> QED
      BY <1>2, <2>1, <3>1, Zenon DEF c
  <2>2. CASE ~(k <= Len(s))
    <3>1. k - Len(s) \in DOMAIN t
      BY <1>1, <2>2
    <3> QED
      BY <1>2, <2>2, <3>1, Zenon DEF c
  <2> QED
    BY <2>1, <2>2
<1>5. \A k \in DOMAIN s, l \in DOMAIN t : s[k] # t[l]
  BY DEF Range
<1>6. CASE i \in DOMAIN s /\ c[i] = s[i] /\ j \in DOMAIN s /\ c[j] = s[j]
  BY <1>6 DEF IsInjective
<1>7. CASE /\ i - Len(s) \in DOMAIN t /\ c[i] = t[i - Len(s)]
           /\ j - Len(s) \in DOMAIN t /\ c[j] = t[j - Len(s)]
  <2>1. i - Len(s) = j - Len(s)
    BY <1>7 DEF IsInjective
  <2> QED
    BY <1>1, <2>1
<1> QED
  BY <1>4, <1>5, <1>6, <1>7

\* Moving an element to the tail keeps the elements of the list.
LEMMA MoveToTail ==
  ASSUME NEW S, NEW s \in Seq(S), IsInjective(s), NEW e \in Range(s)
  PROVE  LET m == Append(RemoveFirst(s, e), e)
         IN  m \in Seq(S) /\ IsInjective(m) /\ Range(m) = Range(s)
<1>1. e \in S
  BY RangeOfSeq
<1>2. /\ RemoveFirst(s, e) \in Seq(S)
      /\ Range(RemoveFirst(s, e)) = Range(s) \ {e}
      /\ IsInjective(RemoveFirst(s, e))
  BY RemoveFirstLemma
<1> DEFINE r == RemoveFirst(s, e)
<1>3. /\ Append(r, e) \in Seq(S)
      /\ Range(Append(r, e)) = Range(r) \cup {e}
      /\ IsInjective(Append(r, e))
  <2> HIDE DEF r
  <2>1. r \in Seq(S) /\ IsInjective(r) /\ e \notin Range(r)
    BY <1>2 DEF r
  <2> QED
    BY <1>1, <2>1, AppendLemma
<1> QED
  BY <1>2, <1>3

\* A list of all elements of a finite set exists, and names each once.
LEMMA EnumerationLemma ==
  ASSUME NEW S, IsFiniteSet(S), NEW s, s = CHOOSE x \in SetToSeqs(S) : TRUE
  PROVE  s \in Seq(S) /\ IsInjective(s) /\ Range(s) = S
<1> DEFINE n == Cardinality(S)
<1>1. n \in Nat /\ ExistsBijection(1 .. n, S)
  BY FS_CardinalityType
<1> HIDE DEF n
<1>2. SetToSeqs(S) = Injection(1 .. n, S)
  BY DEF SetToSeqs, Injection, IsInjective, n
<1>3. s \in Injection(1 .. n, S)
  BY <1>1, <1>2 DEF ExistsBijection, Bijection
<1>4. Cardinality(1 .. n) = n
  BY <1>1, FS_Interval
<1>5. s \in Surjection(1 .. n, S)
  BY <1>3, <1>4, FS_Injection DEF n
<1>6. s \in [1 .. n -> S] /\ IsInjective(s) /\ \A x \in S : \E i \in 1 .. n : s[i] = x
  BY <1>3, <1>5 DEF Injection, Surjection
<1>7. s \in Seq(S)
  BY <1>1, <1>6
<1> QED
  BY <1>6, <1>7 DEF Range

\* list_add_head.
LEMMA PrependLemma ==
  ASSUME NEW S, NEW s \in Seq(S), NEW e \in S
  PROVE  /\ <<e>> \o s \in Seq(S)
         /\ Range(<<e>> \o s) = {e} \cup Range(s)
         /\ IsInjective(s) /\ e \notin Range(s) => IsInjective(<<e>> \o s)
         /\ <<e>> \o s # <<>>
<1>1. /\ <<e>> \in Seq(S) /\ Len(<<e>>) = 1
      /\ Range(<<e>>) = {e} /\ IsInjective(<<e>>)
  <2>1. <<e>> \in Seq(S) /\ Len(<<e>>) = 1 /\ DOMAIN <<e>> = {1} /\ <<e>>[1] = e
    BY SMT
  <2>2. Range(<<e>>) = {e} /\ IsInjective(<<e>>)
    BY <2>1, Zenon DEF Range, IsInjective
  <2> QED
    BY <2>1, <2>2
<1> DEFINE u == <<e>>
<1> HIDE DEF u
<1>2. u \in Seq(S) /\ Range(u) = {e} /\ IsInjective(u) /\ u # <<>>
  BY <1>1 DEF u
<1>3. u \o s \in Seq(S) /\ Range(u \o s) = {e} \cup Range(s)
  BY <1>2, ConcatProperties, RangeConcatenation
<1>4. IsInjective(s) /\ e \notin Range(s) => IsInjective(u \o s)
  BY <1>2, ConcatInjective
<1>5. u \o s # <<>>
  BY <1>3, EmptyList
<1> QED
  BY <1>3, <1>4, <1>5 DEF u

\* A list is cut after its n-th element.
LEMMA SplitLemma ==
  ASSUME NEW S, NEW s \in Seq(S), IsInjective(s), NEW n \in 0 .. Len(s)
  PROVE  LET u == SubSeq(s, 1, n)
             v == SubSeq(s, n + 1, Len(s))
         IN  /\ u \in Seq(S) /\ IsInjective(u)
             /\ v \in Seq(S) /\ IsInjective(v)
             /\ Range(v) = Range(s) \ Range(u)
             /\ Range(u) \subseteq Range(s)
<1> DEFINE u == SubSeq(s, 1, n)
           v == SubSeq(s, n + 1, Len(s))
<1>1. /\ Len(s) \in Nat /\ n \in Nat /\ n <= Len(s) /\ DOMAIN s = 1 .. Len(s)
      /\ \A i \in 1 .. Len(s) : s[i] \in S
  BY LenProperties, ElementOfSeq
<1>2. u \in Seq(S) /\ DOMAIN u = 1 .. n /\ \A i \in 1 .. n : u[i] = s[i]
  BY <1>1, SMT
<1>3. v \in Seq(S) /\ DOMAIN v = 1 .. (Len(s) - n) /\ \A i \in 1 .. (Len(s) - n) : v[i] = s[n + i]
  BY <1>1, SMT
<1> HIDE DEF u, v
<1>4. IsInjective(u)
  BY <1>1, <1>2 DEF IsInjective
<1>5. IsInjective(v)
  <2> SUFFICES ASSUME NEW i \in 1 .. (Len(s) - n), NEW j \in 1 .. (Len(s) - n), v[i] = v[j]
               PROVE  i = j
    BY <1>3 DEF IsInjective
  <2>1. n + i \in DOMAIN s /\ n + j \in DOMAIN s /\ s[n + i] = s[n + j]
    BY <1>1, <1>3
  <2>2. n + i = n + j
    BY <2>1 DEF IsInjective
  <2> QED
    BY <1>1, <2>2
<1>6. Range(u) \subseteq Range(s)
  BY <1>1, <1>2 DEF Range
<1>7. ASSUME NEW x \in Range(v)
      PROVE  x \in Range(s) /\ x \notin Range(u)
  <2>1. PICK i \in 1 .. (Len(s) - n) : x = s[n + i]
    BY <1>3, <1>7 DEF Range
  <2>2. n + i \in DOMAIN s
    BY <1>1
  <2>3. ASSUME NEW j \in DOMAIN u, u[j] = x
        PROVE  FALSE
    <3>1. j \in 1 .. n /\ j \in DOMAIN s /\ s[j] = s[n + i]
      BY <1>1, <1>2, <2>1, <2>3
    <3>2. j = n + i
      BY <2>2, <3>1 DEF IsInjective
    <3> QED
      BY <1>1, <3>1, <3>2
  <2> QED
    BY <2>1, <2>2, <2>3 DEF Range
<1>8. ASSUME NEW x \in Range(s), x \notin Range(u)
      PROVE  x \in Range(v)
  <2>1. PICK j \in 1 .. Len(s) : x = s[j]
    BY <1>1, <1>8 DEF Range
  <2>2. ~(j \in 1 .. n)
    BY <1>2, <1>8, <2>1 DEF Range
  <2>3. j - n \in 1 .. (Len(s) - n) /\ n + (j - n) = j
    BY <1>1, <2>2
  <2>4. v[j - n] = x
    BY <1>3, <2>1, <2>3
  <2> QED
    BY <1>3, <2>3, <2>4 DEF Range
<1>9. Range(v) = Range(s) \ Range(u)
  BY <1>7, <1>8
<1> QED
  BY <1>2, <1>3, <1>4, <1>5, <1>6, <1>9 DEF u, v

\* A set of numbers up to n that is not empty has a greatest element.
LEMMA GreatestExists ==
  ASSUME NEW n \in Nat, NEW I, I \subseteq 0 .. n, I # {}
  PROVE  Max(I) \in I
<1> DEFINE J == {j \in 0 .. n : n - j \in I}
<1>1. J \subseteq Nat /\ J # {}
  <2>1. PICK i \in I : TRUE
    OBVIOUS
  <2>2. n - i \in 0 .. n /\ n - (n - i) = i
    OBVIOUS
  <2>3. n - i \in J
    BY <2>1, <2>2
  <2> QED
    BY <2>3
<1>2. PICK m \in J : \A j \in J : m <= j
  BY <1>1, LeastElement
<1>3. ASSUME NEW k \in I
      PROVE  n - m >= k
  <2>1. n - k \in J /\ k \in Int /\ m \in Int
    <3>1. k \in 0 .. n /\ n - k \in 0 .. n /\ n - (n - k) = k
      OBVIOUS
    <3> QED
      BY <3>1
  <2>2. m <= n - k
    BY <1>2, <2>1
  <2> QED
    BY <2>1, <2>2
<1>4. n - m \in I
  OBVIOUS
<1> QED
  BY <1>3, <1>4 DEF Max

\* The k-th greatest element of a finite set of numbers, for every k up to
\* the number of its elements.
LEMMA RankLemma ==
  ASSUME NEW D, D \subseteq Nat, IsFiniteSet(D)
  PROVE  LET R(i) == Cardinality({j \in D : j >= i})
         IN  /\ Cardinality(D) \in Nat
             /\ \A i \in D : R(i) \in 1 .. Cardinality(D)
             /\ \A k \in 1 .. Cardinality(D) : \E i \in D : R(i) = k
             /\ \A i, j \in D : R(i) = R(j) => i = j
<1> DEFINE n == Cardinality(D)
           A(i) == {j \in D : j >= i}
           R(i) == Cardinality(A(i))
           f == [i \in D |-> R(i)]
<1>1. n \in Nat
  BY FS_CardinalityType
<1>2. ASSUME NEW i \in D
      PROVE  IsFiniteSet(A(i)) /\ R(i) \in 1 .. n
  <2>1. A(i) \in SUBSET D
    OBVIOUS
  <2>2. IsFiniteSet(A(i)) /\ Cardinality(A(i)) <= n
    BY <2>1, FS_Subset
  <2>3. i \in A(i)
    OBVIOUS
  <2>4. Cardinality(A(i)) \in Nat
    BY <2>2, FS_CardinalityType
  <2>5. Cardinality(A(i)) # 0
    BY <2>2, <2>3, FS_EmptySet
  <2> QED
    BY <1>1, <2>2, <2>4, <2>5
<1>3. ASSUME NEW i \in D, NEW j \in D, R(i) = R(j), i < j
      PROVE  FALSE
  <2>1. A(j) \in SUBSET A(i)
    <3> SUFFICES ASSUME NEW k \in D, k >= j PROVE k >= i
      OBVIOUS
    <3>1. i \in Nat /\ j \in Nat /\ k \in Nat
      OBVIOUS
    <3> QED
      BY <1>3, <3>1
  <2>2. A(i) = A(j)
    BY <1>2, <1>3, <2>1, FS_Subset
  <2>3. i \in A(i) /\ i \notin A(j)
    BY <1>3
  <2> QED
    BY <2>2, <2>3
<1>4. \A i, j \in D : R(i) = R(j) => i = j
  <2> SUFFICES ASSUME NEW i \in D, NEW j \in D, R(i) = R(j), i # j
               PROVE  FALSE
    OBVIOUS
  <2>1. i < j \/ j < i
    OBVIOUS
  <2> HIDE DEF R
  <2> QED
    BY <1>3, <2>1
<1> HIDE DEF R
<1>5. f \in Injection(D, 1 .. n)
  <2>1. f \in [D -> 1 .. n]
    BY <1>2
  <2>2. \A i, j \in D : f[i] = f[j] => i = j
    BY <1>4
  <2> HIDE DEF f
  <2> QED
    BY <2>1, <2>2 DEF Injection, IsInjective
<1>6. IsFiniteSet(1 .. n) /\ Cardinality(1 .. n) = n
  BY <1>1, FS_Interval
<1>7. f \in Surjection(D, 1 .. n)
  BY <1>5, <1>6, FS_Injection
<1>8. \A k \in 1 .. n : \E i \in D : R(i) = k
  <2>1. \A k \in 1 .. n : \E i \in D : f[i] = k
    BY <1>7 DEF Surjection
  <2> QED
    BY <2>1
<1> QED
  BY <1>1, <1>2, <1>4, <1>8 DEF R
===============================================================================
