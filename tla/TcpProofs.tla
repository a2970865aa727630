------------------------------ MODULE TcpProofs ------------------------------
(***************************************************************************)
(* What TLAPS proves of lib/minip/tcp.c, for any sizes of window, buffer   *)
(* and sequence space and any number of bytes: the reference count of the  *)
(* socket is exact, the assertions on references, on list membership and   *)
(* on the length of an acknowledgement hold, whatever waits has somebody   *)
(* or a timer that owes it the wake-up, and both byte streams arrive in    *)
(* order, once and without a gap.                                          *)
(***************************************************************************)
EXTENDS Tcp, FiniteSetTheorems, SequenceTheorems, TLAPS

States == {"none", "CLOSED", "SYN_RCVD", "ESTABLISHED", "CLOSE_WAIT", "LAST_ACK",
           "FIN_WAIT_1", "FIN_WAIT_2", "CLOSING", "TIME_WAIT"}
SeqNum == 0 .. (SeqSpace - 1)

Fields == {"state", "ref", "in_list", "queued", "fault", "rx_win_low", "rx_win_high",
           "rx_buffer", "rx_event", "rx_full_mss_count", "acked", "tx_win_low",
           "tx_highest_seq", "tx_buffer", "tx_event", "wire"}

Basic(sk) == DOMAIN sk = Fields /\ sk.ref \in Int /\ sk.queued \subseteq Timers

RxTyped(sk) ==
  sk.rx_win_low \in Int /\ sk.rx_win_high \in Int /\ sk.rx_buffer \in Seq(Int)

IsSocket(sk) ==
  /\ Basic(sk)
  /\ sk.state \in States \ {"none"}
  /\ RxTyped(sk)
  /\ sk.tx_win_low \in SeqNum /\ sk.tx_highest_seq \in SeqNum /\ sk.tx_buffer \in Seq(Int)

(***************************************************************************)
(* The references other than those of the list and of the queued timers,   *)
(* which the socket accounts for itself.                                   *)
(***************************************************************************)
Spare(sk) == sk.ref - Cardinality(sk.queued) - One(sk.in_list)

Holders == One(firing # "none") + One(input) + One(app.reading) + One(app.writing > 0)

(***************************************************************************)
(* Everything in tx_buffer has been sent, and is in front of               *)
(* tx_highest_seq, whenever the lock is free.                              *)
(***************************************************************************)
AllSent(sk) ==
  /\ Len(sk.tx_buffer) <= TxBufferSize
  /\ sk.state = "SYN_RCVD" => sk.tx_buffer = <<>>
  /\ sk.state \in {"ESTABLISHED", "CLOSE_WAIT"} =>
       Dist(sk.tx_highest_seq, sk.tx_win_low) = Len(sk.tx_buffer)

\* NothingStranded, of socket sk while timer t is about to call back.
RetransmitDue(sk, t) ==
  sk.state \in {"ESTABLISHED", "CLOSE_WAIT"} /\ sk.tx_buffer # <<>> =>
    "retransmit" \in sk.queued \cup {t}

AckDue(sk, t) ==
  /\ sk.state = "SYN_RCVD" => sk.acked = sk.rx_win_low
  /\ sk.state = "ESTABLISHED" /\ sk.acked # sk.rx_win_low =>
       "ack_delay" \in sk.queued \cup {t}

EventsSet(sk) ==
  /\ ~sk.rx_event => sk.rx_buffer = <<>> /\ sk.state \in {"SYN_RCVD", "ESTABLISHED"}
  /\ ~sk.tx_event => /\ Len(sk.tx_buffer) = TxBufferSize
                     /\ sk.state \in {"ESTABLISHED", "CLOSE_WAIT"}

(***************************************************************************)
(* The socket is in the list until tcp_close of a closed connection, the   *)
(* last ACK or the end of TIME_WAIT takes it off, whichever comes first.   *)
(* h is the application's handle.                                          *)
(***************************************************************************)
ClosedByApp == {"LAST_ACK", "FIN_WAIT_1", "FIN_WAIT_2", "CLOSING", "TIME_WAIT"}

Listed(sk, t, h) ==
  /\ sk.state \notin {"CLOSED", "TIME_WAIT"} => sk.in_list
  /\ sk.state = "CLOSED" /\ h # "closed" => sk.in_list
  /\ "time_wait" \in sk.queued \cup {t} =>
       /\ sk.state \in {"TIME_WAIT", "CLOSED"}
       /\ sk.state = "TIME_WAIT" => sk.in_list
  /\ ~("time_wait" \in sk.queued /\ t = "time_wait")
  /\ sk.state \in ClosedByApp => h = "closed"
  /\ h = "closed" => sk.state \in ClosedByApp \cup {"CLOSED"}

Sound(sk, t, h) ==
  /\ IsSocket(sk) /\ AllSent(sk) /\ RetransmitDue(sk, t) /\ AckDue(sk, t)
  /\ EventsSet(sk) /\ Listed(sk, t, h)

AppFields == {"handle", "reading", "writing", "got", "written", "unacked"}

Around ==
  /\ DOMAIN app = AppFields /\ app.writing \in Nat /\ app.written \in Nat
  /\ firing \in Timers \cup {"none"}
  /\ accepted => app.handle = "none"

BeforeSyn ==
  s = NoSocket /\ ~accepted /\ app.handle = "none" /\ ~app.reading /\ app.writing = 0
  /\ ~input /\ firing = "none"

Connected == Sound(s, firing, app.handle) /\ Spare(s) = Holders

TcpInv ==
  /\ OnlyTwoAssertsFail
  /\ Running => Around /\ (BeforeSyn \/ Connected)

-----------------------------------------------------------------------------
(***************************************************************************)
(* Wrapping arithmetic.                                                    *)
(***************************************************************************)
LEMMA Quotient ==
  ASSUME NEW a \in Int, NEW m \in Nat \ {0}
  PROVE  /\ a % m \in 0 .. (m - 1) /\ a \div m \in Int
         /\ a = m * (a \div m) + (a % m)
OBVIOUS

LEMMA Remainder ==
  ASSUME NEW a \in Int, NEW m \in Nat \ {0}
  PROVE  /\ a \in 0 .. (m - 1) => a % m = a
         /\ a \in m .. (2 * m - 1) => a % m = a - m
         /\ a \in (-m) .. (-1) => a % m = a + m
<1> DEFINE q == a \div m
           r == a % m
           z == m * q
<1>1. q \in Int /\ r \in 0 .. (m - 1) /\ a = z + r
  BY Quotient
<1> HIDE DEF q, r
<1>2. z \in Int /\ (q = 0 => z = 0) /\ (q = 1 => z = m) /\ (q = -1 => z = -m)
  BY <1>1
<1>3. (q >= 1 => z >= m) /\ (q <= -1 => z <= -m)
  BY <1>1
<1>4. (q >= 2 => z >= 2 * m) /\ (q <= -2 => z <= -(2 * m))
  BY <1>1
<1> HIDE DEF z
<1>5. a \in 0 .. (m - 1) => r = a
  BY <1>1, <1>2, <1>3, <1>4
<1>6. a \in m .. (2 * m - 1) => r = a - m
  BY <1>1, <1>2, <1>3, <1>4
<1>7. a \in (-m) .. (-1) => r = a + m
  BY <1>1, <1>2, <1>3, <1>4
<1> QED
  BY <1>5, <1>6, <1>7 DEF r

LEMMA Sizes ==
  /\ SeqSpace \in Nat \ {0} /\ TxBufferSize \in Nat \ {0} /\ 2 * TxBufferSize <= SeqSpace
  /\ SeqSpace \div 2 \in Nat /\ 2 * (SeqSpace \div 2) = SeqSpace
<1>1. /\ SeqSpace \in Nat /\ TxBufferSize \in Nat \ {0} /\ AppBytes \in Nat
      /\ 2 * (TxBufferSize + AppBytes) <= SeqSpace /\ SeqSpace % 2 = 0
  BY SeqSpaceAssumption, SizesAssumption
<1>2. SeqSpace \in Nat \ {0} /\ 2 * TxBufferSize <= SeqSpace
  BY <1>1
<1>3. SeqSpace = 2 * (SeqSpace \div 2) + (SeqSpace % 2) /\ SeqSpace \div 2 \in Int
  BY <1>1, Quotient
<1> QED
  BY <1>1, <1>2, <1>3

LEMMA DistIs ==
  ASSUME NEW a \in SeqNum, NEW b \in SeqNum
  PROVE  /\ Dist(a, b) = (IF a >= b THEN a - b ELSE a - b + SeqSpace)
         /\ Dist(a, b) \in SeqNum
<1>1. SeqSpace \in Nat \ {0} /\ a - b \in Int
  BY Sizes DEF SeqNum
<1>2. a >= b => (a - b) % SeqSpace = a - b
  BY <1>1, Remainder DEF SeqNum
<1>3. ~(a >= b) => (a - b) % SeqSpace = a - b + SeqSpace
  BY <1>1, Remainder DEF SeqNum
<1> QED
  BY <1>1, <1>2, <1>3 DEF Dist, SeqNum

LEMMA Advance ==
  ASSUME NEW a \in SeqNum, NEW n \in 0 .. SeqSpace
  PROVE  /\ (a + n) % SeqSpace = (IF a + n < SeqSpace THEN a + n ELSE (a + n) - SeqSpace)
         /\ (a + n) % SeqSpace \in SeqNum
<1>1. SeqSpace \in Nat \ {0} /\ a + n \in Int
  BY Sizes DEF SeqNum
<1>2. a + n < SeqSpace => (a + n) % SeqSpace = a + n
  BY <1>1, Remainder DEF SeqNum
<1>3. ~(a + n < SeqSpace) => (a + n) % SeqSpace = (a + n) - SeqSpace
  <2> DEFINE x == a + n
  <2>2. x \in Int /\ SeqSpace \in Nat \ {0} /\ x <= 2 * SeqSpace - 1
    BY <1>1 DEF SeqNum
  <2> HIDE DEF x
  <2>3. x \in SeqSpace .. (2 * SeqSpace - 1) => x % SeqSpace = x - SeqSpace
    BY <2>2, Remainder
  <2>4. ~(x < SeqSpace) => x % SeqSpace = x - SeqSpace
    BY <2>2, <2>3
  <2> QED
    BY <2>4 DEF x
<1> QED
  BY <1>1, <1>2, <1>3 DEF SeqNum

\* An acknowledgement that is taken lies within what has been sent.
LEMMA AckWithin ==
  ASSUME NEW low \in SeqNum, NEW high \in SeqNum, NEW seq \in SeqNum,
         Dist(high, low) <= TxBufferSize,
         ~SEQUENCE_LTE(seq, low), ~SEQUENCE_GT(seq, high)
  PROVE  /\ Dist(seq, low) <= Dist(high, low)
         /\ Dist(high, seq) = Dist(high, low) - Dist(seq, low)
<1>1. seq # low /\ Dist(seq, low) < SeqSpace \div 2
  BY DEF SEQUENCE_LTE, SEQUENCE_GT, SEQUENCE_GTE
<1>2. seq = high \/ ~(Dist(seq, high) < SeqSpace \div 2)
  BY DEF SEQUENCE_GT, SEQUENCE_GTE
<1>3. /\ Dist(seq, low) = (IF seq >= low THEN seq - low ELSE seq - low + SeqSpace)
      /\ Dist(high, low) = (IF high >= low THEN high - low ELSE high - low + SeqSpace)
      /\ Dist(seq, high) = (IF seq >= high THEN seq - high ELSE seq - high + SeqSpace)
      /\ Dist(high, seq) = (IF high >= seq THEN high - seq ELSE high - seq + SeqSpace)
  BY DistIs
<1> QED
  BY <1>1, <1>2, <1>3, Sizes DEF SeqNum

LEMMA DistAdvance ==
  ASSUME NEW high \in SeqNum, NEW low \in SeqNum, NEW n \in Nat,
         Dist(high, low) + n < SeqSpace
  PROVE  Dist((high + n) % SeqSpace, low) = Dist(high, low) + n
<1> DEFINE up == (high + n) % SeqSpace
<1>1. Dist(high, low) = (IF high >= low THEN high - low ELSE high - low + SeqSpace)
      /\ Dist(high, low) \in SeqNum
  BY DistIs
<1>2. SeqSpace \in Nat \ {0} /\ n \in 0 .. SeqSpace
  BY <1>1, Sizes DEF SeqNum
<1>3. up \in SeqNum /\ up = (IF high + n < SeqSpace THEN high + n ELSE (high + n) - SeqSpace)
  BY <1>2, Advance
<1> HIDE DEF up
<1>4. Dist(up, low) = (IF up >= low THEN up - low ELSE up - low + SeqSpace)
  BY <1>3, DistIs
<1>5. Dist(up, low) = Dist(high, low) + n
  BY <1>1, <1>2, <1>3, <1>4 DEF SeqNum
<1> QED
  BY <1>5 DEF up

-----------------------------------------------------------------------------
(***************************************************************************)
(* The functions of tcp.c on sockets.  Keeps: what changes is among fs.    *)
(***************************************************************************)
Keeps(sk, n, fs) == DOMAIN n = Fields /\ \A f \in Fields \ fs : n[f] = sk[f]

LEMMA KeepsTwice ==
  ASSUME NEW a, NEW b, NEW c, NEW fs, NEW gs, Keeps(a, b, fs), Keeps(b, c, gs)
  PROVE  Keeps(a, c, fs \cup gs)
BY DEF Keeps

LEMMA AssertIs ==
  ASSUME NEW p, NEW sk, DOMAIN sk = Fields, NEW name
  PROVE  /\ Keeps(sk, Assert(p, sk, name), {"fault"})
         /\ Assert(p, sk, name).fault = (IF p \/ sk.fault # "none" THEN sk.fault ELSE name)
BY DEF Assert, Keeps, Fields

LEMMA Inc ==
  ASSUME NEW sk, DOMAIN sk = Fields
  PROVE  /\ Keeps(sk, inc_socket_ref(sk), {"ref", "fault"})
         /\ inc_socket_ref(sk).ref = sk.ref + 1
         /\ inc_socket_ref(sk).fault = (IF sk.ref > 0 \/ sk.fault # "none" THEN sk.fault ELSE "ref")
<1> DEFINE a == Assert(sk.ref > 0, sk, "ref")
<1>1. /\ Keeps(sk, a, {"fault"})
      /\ a.fault = (IF sk.ref > 0 \/ sk.fault # "none" THEN sk.fault ELSE "ref")
  BY DEF Assert, Keeps, Fields
<1>2. inc_socket_ref(sk) = [a EXCEPT !.ref = @ + 1]
  BY DEF inc_socket_ref
<1>3. a.ref = sk.ref /\ DOMAIN a = Fields
  BY <1>1 DEF Keeps, Fields
<1> HIDE DEF a
<1>4. Keeps(a, inc_socket_ref(sk), {"ref"}) /\ inc_socket_ref(sk).ref = sk.ref + 1
  BY <1>2, <1>3 DEF Keeps, Fields
<1>5. inc_socket_ref(sk).fault = a.fault
  BY <1>4 DEF Keeps, Fields
<1> QED
  BY <1>1, <1>4, <1>5 DEF Keeps

LEMMA Dec ==
  ASSUME NEW sk, DOMAIN sk = Fields
  PROVE  Keeps(sk, dec_socket_ref(sk), {"ref"}) /\ dec_socket_ref(sk).ref = sk.ref - 1
BY DEF dec_socket_ref, Keeps, Fields

LEMMA Remove ==
  ASSUME NEW sk, DOMAIN sk = Fields
  PROVE  LET n == remove_socket_from_list(sk) IN
         /\ Keeps(sk, n, {"in_list", "fault"}) /\ n.in_list = FALSE
         /\ n.fault = (IF sk.in_list \/ sk.fault # "none" THEN sk.fault ELSE "list")
<1> DEFINE a == Assert(sk.in_list, sk, "list")
           n == remove_socket_from_list(sk)
<1>1. /\ Keeps(sk, a, {"fault"})
      /\ a.fault = (IF sk.in_list \/ sk.fault # "none" THEN sk.fault ELSE "list")
  BY AssertIs
<1>2. n = [a EXCEPT !.in_list = FALSE]
  BY DEF remove_socket_from_list
<1> HIDE DEF a, n
<1>3. Keeps(a, n, {"in_list"}) /\ n.in_list = FALSE /\ n.fault = a.fault
  BY <1>1, <1>2 DEF Keeps, Fields
<1>4. Keeps(sk, n, {"in_list", "fault"}) /\ n.in_list = FALSE /\ n.fault = a.fault
  BY <1>1, <1>3 DEF Keeps
<1> QED
  BY <1>1, <1>4 DEF n

LEMMA Counted ==
  ASSUME NEW q \in SUBSET Timers, NEW t \in Timers
  PROVE  /\ Cardinality(q) \in Nat
         /\ t \notin q => Cardinality(q \cup {t}) = Cardinality(q) + 1
         /\ t \in q => Cardinality(q \ {t}) = Cardinality(q) - 1
<1>1. IsFiniteSet(Timers)
  <2>1. IsFiniteSet({"ack_delay"}) /\ IsFiniteSet({"retransmit"}) /\ IsFiniteSet({"time_wait"})
    BY FS_Singleton
  <2>2. IsFiniteSet({"ack_delay"} \cup {"retransmit"})
    BY <2>1, FS_Union
  <2>3. IsFiniteSet(({"ack_delay"} \cup {"retransmit"}) \cup {"time_wait"})
    BY <2>1, <2>2, FS_Union
  <2>4. Timers = ({"ack_delay"} \cup {"retransmit"}) \cup {"time_wait"}
    BY DEF Timers
  <2> QED
    BY <2>3, <2>4
<1>2. IsFiniteSet(q)
  BY <1>1, FS_Subset
<1> QED
  BY <1>2, FS_AddElement, FS_RemoveElement, FS_CardinalityType

(***************************************************************************)
(* n is what a function made of sk on behalf of somebody who holds a       *)
(* reference: no assertion on references fails and none is lost or gained. *)
(***************************************************************************)
Balanced(sk, n) ==
  /\ Basic(n) /\ Spare(n) = Spare(sk)
  /\ (Spare(sk) > 0 \/ sk.fault # "none") => n.fault = sk.fault

LEMMA BalancedTwice ==
  ASSUME NEW a, NEW b, NEW c, Balanced(a, b), Balanced(b, c)
  PROVE  Balanced(a, c)
BY DEF Balanced

LEMMA SpareIs ==
  ASSUME NEW sk, Basic(sk)
  PROVE  Spare(sk) \in Int /\ (Spare(sk) > 0 => sk.ref > 0)
<1>1. Cardinality(sk.queued) \in Nat /\ sk.ref \in Int
  BY Counted DEF Basic, Timers
<1>2. One(sk.in_list) \in {0, 1}
  BY DEF One
<1> QED
  BY <1>1, <1>2 DEF Spare

\* What leaves the references alone.
LEMMA BalancedKeeps ==
  ASSUME NEW sk, NEW n, NEW fs, Basic(sk), Keeps(sk, n, fs),
         fs \cap {"ref", "queued", "in_list", "fault"} = {}
  PROVE  Balanced(sk, n)
<1>1. n.ref = sk.ref /\ n.queued = sk.queued /\ n.in_list = sk.in_list /\ n.fault = sk.fault
  BY DEF Keeps, Fields
<1>2. DOMAIN n = Fields
  BY DEF Keeps
<1> QED
  BY <1>1, <1>2 DEF Balanced, Basic, Spare

LEMMA TimerSet ==
  ASSUME NEW sk, Basic(sk), NEW t \in Timers
  PROVE  LET n == tcp_timer_set(sk, t) IN
         /\ Keeps(sk, n, {"ref", "queued", "fault"}) /\ n.queued = sk.queued \cup {t}
         /\ Balanced(sk, n)
<1> DEFINE n == tcp_timer_set(sk, t)
           q == [sk EXCEPT !.queued = @ \cup {t}]
<1>1. CASE t \in sk.queued
  <2>1. n = sk /\ sk.queued = sk.queued \cup {t}
    BY <1>1 DEF tcp_timer_set
  <2> QED
    BY <2>1 DEF Keeps, Balanced, Basic
<1>2. CASE t \notin sk.queued
  <2>1. n = inc_socket_ref(q)
    BY <1>2 DEF tcp_timer_set
  <2>2. Keeps(sk, q, {"queued"}) /\ q.queued = sk.queued \cup {t}
    BY DEF Keeps, Fields, Basic
  <2>3. q.ref = sk.ref /\ q.fault = sk.fault /\ q.in_list = sk.in_list /\ DOMAIN q = Fields
    BY <2>2 DEF Keeps, Fields
  <2> HIDE DEF q
  <2>4. /\ Keeps(q, n, {"ref", "fault"}) /\ n.ref = q.ref + 1
        /\ n.fault = (IF q.ref > 0 \/ q.fault # "none" THEN q.fault ELSE "ref")
    BY <2>1, <2>3, Inc
  <2> HIDE DEF n
  <2>5. Keeps(sk, n, {"ref", "queued", "fault"})
    BY <2>2, <2>4 DEF Keeps
  <2>6. n.queued = sk.queued \cup {t} /\ n.in_list = sk.in_list /\ DOMAIN n = Fields
    BY <2>2, <2>3, <2>4 DEF Keeps, Fields
  <2>7. Cardinality(n.queued) = Cardinality(sk.queued) + 1 /\ Cardinality(sk.queued) \in Nat
    BY <1>2, <2>6, Counted DEF Basic
  <2>8. Basic(n) /\ n.ref = sk.ref + 1 /\ sk.ref \in Int
    BY <2>3, <2>4, <2>6 DEF Basic
  <2>9. One(n.in_list) = One(sk.in_list) /\ One(sk.in_list) \in Int
    BY <2>6 DEF One
  <2>10. Spare(n) = Spare(sk)
    BY <2>7, <2>8, <2>9 DEF Spare
  <2>11. (Spare(sk) > 0 \/ sk.fault # "none") => n.fault = sk.fault
    BY <2>3, <2>4, SpareIs
  <2> QED
    BY <2>5, <2>6, <2>8, <2>10, <2>11 DEF Balanced, n
<1> QED
  BY <1>1, <1>2

LEMMA TimerCancel ==
  ASSUME NEW sk, Basic(sk), NEW t \in Timers
  PROVE  LET n == tcp_timer_cancel(sk, t) IN
         /\ Keeps(sk, n, {"ref", "queued"}) /\ n.queued = sk.queued \ {t}
         /\ Balanced(sk, n)
<1> DEFINE n == tcp_timer_cancel(sk, t)
           q == [sk EXCEPT !.queued = @ \ {t}]
<1>1. CASE t \notin sk.queued
  <2>1. n = sk /\ sk.queued = sk.queued \ {t}
    BY <1>1 DEF tcp_timer_cancel
  <2> QED
    BY <2>1 DEF Keeps, Balanced, Basic
<1>2. CASE t \in sk.queued
  <2>1. n = dec_socket_ref(q)
    BY <1>2 DEF tcp_timer_cancel
  <2>2. Keeps(sk, q, {"queued"}) /\ q.queued = sk.queued \ {t}
    BY DEF Keeps, Fields, Basic
  <2>3. q.ref = sk.ref /\ q.fault = sk.fault /\ q.in_list = sk.in_list /\ DOMAIN q = Fields
    BY <2>2 DEF Keeps, Fields
  <2> HIDE DEF q
  <2>4. Keeps(q, n, {"ref"}) /\ n.ref = q.ref - 1
    BY <2>1, <2>3, Dec
  <2> HIDE DEF n
  <2>5. Keeps(sk, n, {"ref", "queued"})
    BY <2>2, <2>4 DEF Keeps
  <2>6. n.queued = sk.queued \ {t} /\ n.in_list = sk.in_list /\ DOMAIN n = Fields
        /\ n.fault = sk.fault
    BY <2>2, <2>3, <2>4 DEF Keeps, Fields
  <2>7. Cardinality(n.queued) = Cardinality(sk.queued) - 1 /\ Cardinality(sk.queued) \in Nat
    BY <1>2, <2>6, Counted DEF Basic
  <2>8. Basic(n) /\ n.ref = sk.ref - 1 /\ sk.ref \in Int
    BY <2>3, <2>4, <2>6 DEF Basic
  <2>9. One(n.in_list) = One(sk.in_list) /\ One(sk.in_list) \in Int
    BY <2>6 DEF One
  <2>10. Spare(n) = Spare(sk)
    BY <2>7, <2>8, <2>9 DEF Spare
  <2> QED
    BY <2>5, <2>6, <2>8, <2>10 DEF Balanced, n
<1> QED
  BY <1>1, <1>2

LEMMA SocketSend ==
  ASSUME NEW sk, Basic(sk), RxTyped(sk), NEW data, NEW flags, NEW seq
  PROVE  LET n == tcp_socket_send(sk, data, flags, seq) IN
         /\ Keeps(sk, n, {"ref", "queued", "rx_win_high", "acked", "wire"})
         /\ n.queued = sk.queued \ {"ack_delay"} /\ n.acked = n.rx_win_low
         /\ Balanced(sk, n) /\ RxTyped(n)
<1> DEFINE high == (sk.rx_win_low + RxWinSize - Len(sk.rx_buffer) - 1) % SeqSpace
           edge == IF SEQUENCE_GTE(high, sk.rx_win_high) THEN high ELSE sk.rx_win_high
           told == [sk EXCEPT !.rx_win_high = edge, !.acked = sk.rx_win_low]
           off == tcp_timer_cancel(told, "ack_delay")
           n == tcp_socket_send(sk, data, flags, seq)
<1>1. edge \in Int
  <2>1. SeqSpace \in Nat \ {0} /\ RxWinSize \in Nat
    BY Sizes, SizesAssumption
  <2>2. Len(sk.rx_buffer) \in Nat
    BY DEF RxTyped
  <2> DEFINE x == sk.rx_win_low + RxWinSize - Len(sk.rx_buffer) - 1
  <2>3. x \in Int
    BY <2>1, <2>2 DEF RxTyped
  <2> HIDE DEF x
  <2>4. x % SeqSpace \in Int
    BY <2>1, <2>3, Quotient
  <2>5. high = x % SeqSpace
    BY DEF x
  <2> QED
    BY <2>4, <2>5 DEF RxTyped
<1>2. n = tcp_send(off, data, flags, seq)
  BY DEF tcp_socket_send
<1> HIDE DEF edge
<1>3. /\ Keeps(sk, told, {"rx_win_high", "acked"})
      /\ told.rx_win_high = edge /\ told.acked = sk.rx_win_low
  BY DEF Keeps, Fields, Basic
<1> HIDE DEF told
<1>4. Balanced(sk, told) /\ Basic(told)
  BY <1>3, BalancedKeeps DEF Balanced
<1>5. /\ Keeps(told, off, {"ref", "queued"}) /\ off.queued = told.queued \ {"ack_delay"}
      /\ Balanced(told, off) /\ Basic(off)
  BY <1>4, TimerCancel DEF Timers, Balanced
<1> HIDE DEF off, n
<1>6. Keeps(off, n, {"wire"})
  BY <1>2, <1>5 DEF tcp_send, Keeps, Fields, Basic
<1>7. Balanced(off, n)
  BY <1>5, <1>6, BalancedKeeps
<1>8. Balanced(sk, n)
  BY <1>4, <1>5, <1>7, BalancedTwice
<1>9. Keeps(sk, n, {"ref", "queued", "rx_win_high", "acked", "wire"})
  BY <1>3, <1>5, <1>6 DEF Keeps
<1>10. n.queued = sk.queued \ {"ack_delay"}
  BY <1>3, <1>5, <1>6 DEF Keeps, Fields
<1>11. n.acked = sk.rx_win_low /\ n.rx_win_low = sk.rx_win_low
       /\ n.rx_win_high = edge /\ n.rx_buffer = sk.rx_buffer
  BY <1>3, <1>5, <1>6 DEF Keeps, Fields
<1>12. RxTyped(n)
  BY <1>1, <1>11 DEF RxTyped
<1> QED
  BY <1>8, <1>9, <1>10, <1>11, <1>12 DEF n

LEMMA SendAck ==
  ASSUME NEW sk, Basic(sk), RxTyped(sk)
  PROVE  LET n == send_ack(sk) IN
         /\ Keeps(sk, n, {"ref", "queued", "rx_win_high", "acked", "wire"})
         /\ n.queued \cup {"ack_delay"} = sk.queued \cup {"ack_delay"}
         /\ n.acked \in {sk.acked, n.rx_win_low}
         /\ sk.state = "ESTABLISHED" => n.acked = n.rx_win_low
         /\ sk.state = "SYN_RCVD" => n = sk
         /\ Balanced(sk, n) /\ RxTyped(n)
<1> DEFINE n == send_ack(sk)
           told == tcp_socket_send(sk, <<>>, {}, sk.tx_win_low)
<1>1. CASE sk.state \in {"ESTABLISHED", "CLOSE_WAIT", "FIN_WAIT_2"}
  <2>1. n = told
    BY <1>1 DEF send_ack
  <2> HIDE DEF n
  <2>2. /\ Keeps(sk, told, {"ref", "queued", "rx_win_high", "acked", "wire"})
        /\ told.queued = sk.queued \ {"ack_delay"} /\ told.acked = told.rx_win_low
        /\ Balanced(sk, told) /\ RxTyped(told)
    BY SocketSend
  <2> HIDE DEF told
  <2>3. n.queued \cup {"ack_delay"} = sk.queued \cup {"ack_delay"}
    BY <2>1, <2>2
  <2>4. sk.state # "SYN_RCVD"
    BY <1>1
  <2> QED
    BY <2>1, <2>2, <2>3, <2>4 DEF n
<1>2. CASE sk.state \notin {"ESTABLISHED", "CLOSE_WAIT", "FIN_WAIT_2"}
  <2>1. n = sk
    BY <1>2 DEF send_ack
  <2> HIDE DEF n
  <2>2. Keeps(sk, sk, {"ref", "queued", "rx_win_high", "acked", "wire"}) /\ Balanced(sk, sk)
    BY DEF Keeps, Balanced, Basic
  <2> QED
    BY <1>2, <2>1, <2>2 DEF n
<1> QED
  BY <1>1, <1>2

LEMMA Cut ==
  ASSUME NEW q \in Seq(Int), NEW a \in Int, NEW b \in Int, a >= 1, b <= Len(q)
  PROVE  /\ SubSeq(q, a, b) \in Seq(Int)
         /\ a <= b + 1 => Len(SubSeq(q, a, b)) = b - a + 1
         /\ a > b => SubSeq(q, a, b) = <<>>
<1>1. Len(q) \in Nat /\ \A i \in 1 .. Len(q) : q[i] \in Int
  OBVIOUS
<1>2. CASE a <= b
  <2>1. SubSeq(q, a, b) \in Seq(Int) /\ Len(SubSeq(q, a, b)) = b - a + 1
    BY <1>1, <1>2
  <2> QED
    BY <1>2, <2>1
<1>3. CASE a > b
  <2>1. SubSeq(q, a, b) = <<>>
    BY <1>1, <1>3
  <2> QED
    BY <1>3, <2>1
<1> QED
  BY <1>2, <1>3

LEMMA HandleAck ==
  ASSUME NEW sk, NEW t, NEW h, Sound(sk, t, h), NEW seq \in SeqNum,
         sk.state \in {"ESTABLISHED", "CLOSE_WAIT"}
  PROVE  LET n == handle_ack(sk, seq) IN
         Sound(n, t, h) /\ Balanced(sk, n) /\ n.state = sk.state
<1> DEFINE n == handle_ack(sk, seq)
           len == Dist(seq, sk.tx_win_low)
           rest == SubSeq(sk.tx_buffer, len + 1, Len(sk.tx_buffer))
           moved == [sk EXCEPT !.tx_buffer = rest, !.tx_win_low = seq, !.tx_event = TRUE]
<1>1. IsSocket(sk) /\ Basic(sk) /\ DOMAIN sk = Fields
  BY DEF Sound, IsSocket, Basic
<1>2. CASE SEQUENCE_LTE(seq, sk.tx_win_low) \/ SEQUENCE_GT(seq, sk.tx_highest_seq)
  <2>1. n = sk
    BY <1>2 DEF handle_ack
  <2> QED
    BY <1>1, <2>1 DEF Balanced
<1>3. CASE ~SEQUENCE_LTE(seq, sk.tx_win_low) /\ ~SEQUENCE_GT(seq, sk.tx_highest_seq)
  <2>1. /\ sk.tx_win_low \in SeqNum /\ sk.tx_highest_seq \in SeqNum
        /\ sk.tx_buffer \in Seq(Int) /\ Len(sk.tx_buffer) \in Nat
        /\ Dist(sk.tx_highest_seq, sk.tx_win_low) = Len(sk.tx_buffer)
        /\ Len(sk.tx_buffer) <= TxBufferSize
    BY <1>1 DEF IsSocket, Sound, AllSent
  <2>2. /\ len <= Len(sk.tx_buffer) /\ len \in Nat
        /\ Dist(sk.tx_highest_seq, seq) = Len(sk.tx_buffer) - len
    <3>1. Dist(sk.tx_highest_seq, sk.tx_win_low) <= TxBufferSize
      BY <2>1
    <3>2. len \in Nat
      <4>1. len \in SeqNum
        BY <2>1, DistIs
      <4> QED
        BY <4>1, Sizes DEF SeqNum
    <3> DEFINE low == sk.tx_win_low
               high == sk.tx_highest_seq
    <3>3. /\ low \in SeqNum /\ high \in SeqNum /\ Dist(high, low) <= TxBufferSize
          /\ ~SEQUENCE_LTE(seq, low) /\ ~SEQUENCE_GT(seq, high)
      BY <1>3, <2>1, <3>1
    <3> HIDE DEF low, high
    <3>4. Dist(seq, low) <= Dist(high, low) /\ Dist(high, seq) = Dist(high, low) - Dist(seq, low)
      BY <3>3, AckWithin
    <3> QED
      BY <2>1, <3>2, <3>4 DEF low, high
  <2>3. rest \in Seq(Int) /\ Len(rest) = Len(sk.tx_buffer) - len
    <3> HIDE DEF len
    <3>1. len + 1 >= 1 /\ len + 1 \in Int /\ len + 1 <= Len(sk.tx_buffer) + 1
      BY <2>1, <2>2
    <3>2. Len(rest) = Len(sk.tx_buffer) - (len + 1) + 1 /\ rest \in Seq(Int)
      BY <2>1, <3>1, Cut
    <3> QED
      BY <2>1, <2>2, <3>2
  <2>4. Assert(len <= Len(sk.tx_buffer), sk, "acked_len") = sk
    BY <2>2 DEF Assert
  <2>5. n = IF moved.tx_win_low = moved.tx_highest_seq
              THEN tcp_timer_cancel(moved, "retransmit")
              ELSE tcp_timer_set(moved, "retransmit")
    BY <1>3, <2>4 DEF handle_ack
  <2> HIDE DEF n, len, rest
  <2>6. /\ Keeps(sk, moved, {"tx_buffer", "tx_win_low", "tx_event"})
        /\ moved.tx_buffer = rest /\ moved.tx_win_low = seq /\ moved.tx_event = TRUE
    BY <1>1 DEF Keeps, Fields
  <2> HIDE DEF moved
  <2>7. Balanced(sk, moved) /\ Basic(moved)
    BY <1>1, <2>6, BalancedKeeps DEF Balanced
  <2>8. /\ Keeps(moved, n, {"ref", "queued", "fault"}) /\ Balanced(moved, n)
        /\ n.queued \cup {"retransmit"} = moved.queued \cup {"retransmit"}
        /\ seq # moved.tx_highest_seq => "retransmit" \in n.queued
    <3>1. CASE seq = moved.tx_highest_seq
      <4>1. n = tcp_timer_cancel(moved, "retransmit")
        BY <2>5, <2>6, <3>1
      <4>2. /\ Keeps(moved, n, {"ref", "queued"}) /\ Balanced(moved, n)
            /\ n.queued = moved.queued \ {"retransmit"}
        BY <2>7, <4>1, TimerCancel DEF Timers
      <4> QED
        BY <3>1, <4>2 DEF Keeps
    <3>2. CASE seq # moved.tx_highest_seq
      <4>1. n = tcp_timer_set(moved, "retransmit")
        BY <2>5, <2>6, <3>2
      <4>2. /\ Keeps(moved, n, {"ref", "queued", "fault"}) /\ Balanced(moved, n)
            /\ n.queued = moved.queued \cup {"retransmit"}
        BY <2>7, <4>1, TimerSet DEF Timers
      <4> QED
        BY <3>2, <4>2
    <3> QED
      BY <3>1, <3>2
  <2>9. /\ n.state = sk.state /\ n.in_list = sk.in_list /\ n.rx_win_low = sk.rx_win_low
        /\ n.rx_win_high = sk.rx_win_high /\ n.rx_buffer = sk.rx_buffer
        /\ n.rx_event = sk.rx_event /\ n.acked = sk.acked
        /\ n.tx_highest_seq = sk.tx_highest_seq
        /\ moved.queued = sk.queued /\ moved.tx_highest_seq = sk.tx_highest_seq
    BY <2>6, <2>8 DEF Keeps, Fields
  <2>10. n.tx_buffer = rest /\ n.tx_win_low = seq /\ n.tx_event = TRUE
    BY <2>6, <2>8 DEF Keeps, Fields
  <2>11. Balanced(sk, n) /\ Basic(n)
    BY <2>7, <2>8, BalancedTwice DEF Balanced
  <2>12. IsSocket(n)
    BY <1>1, <2>3, <2>9, <2>10, <2>11 DEF IsSocket, RxTyped
  <2>13. AllSent(n)
    BY <2>1, <2>2, <2>3, <2>9, <2>10, Sizes DEF AllSent
  <2>14. RetransmitDue(n, t)
    <3>1. seq = sk.tx_highest_seq => rest = <<>>
      <4>1. seq = sk.tx_highest_seq => Dist(sk.tx_highest_seq, seq) = 0
        BY DistIs, <2>1 DEF SeqNum
      <4> QED
        BY <2>2, <2>3, <4>1
    <3> QED
      BY <2>8, <2>9, <2>10, <3>1 DEF RetransmitDue
  <2>15. AckDue(n, t) /\ Listed(n, t, h)
    <3>1. /\ "ack_delay" \in sk.queued <=> "ack_delay" \in n.queued
          /\ "time_wait" \in sk.queued <=> "time_wait" \in n.queued
      BY <2>8, <2>9
    <3> QED
      BY <2>9, <3>1 DEF Sound, AckDue, Listed
  <2>16. EventsSet(n)
    <3>1. EventsSet(sk)
      BY DEF Sound
    <3> QED
      BY <2>9, <2>10, <3>1, Zenon DEF EventsSet
  <2> QED
    BY <2>9, <2>11, <2>12, <2>13, <2>14, <2>15, <2>16 DEF Sound, n
<1> QED
  BY <1>2, <1>3

RxFields == {"ref", "queued", "fault", "rx_win_low", "rx_win_high", "rx_buffer",
             "rx_event", "rx_full_mss_count", "acked", "wire"}

\* What only touches the receiving side, with ack_delay set or cancelled.
LEMMA RxOnly ==
  ASSUME NEW sk, NEW n, NEW t, NEW u, NEW h, Sound(sk, t, h),
         u = t \/ (u = "none" /\ t # "retransmit"),
         Keeps(sk, n, RxFields), Basic(n), RxTyped(n), AckDue(n, u),
         n.queued \cup {"ack_delay"} = sk.queued \cup {"ack_delay"},
         ~n.rx_event => n.rx_buffer = <<>> /\ n.state \in {"SYN_RCVD", "ESTABLISHED"}
  PROVE  Sound(n, u, h) /\ n.state = sk.state
<1>1. /\ n.state = sk.state /\ n.in_list = sk.in_list /\ n.tx_win_low = sk.tx_win_low
      /\ n.tx_highest_seq = sk.tx_highest_seq /\ n.tx_buffer = sk.tx_buffer
      /\ n.tx_event = sk.tx_event
  BY DEF Keeps, Fields, RxFields
<1>2. IsSocket(n)
  BY <1>1 DEF Sound, IsSocket
<1>3. AllSent(n)
  BY <1>1 DEF Sound, AllSent
<1>4. /\ "retransmit" \in n.queued <=> "retransmit" \in sk.queued
      /\ "time_wait" \in n.queued <=> "time_wait" \in sk.queued
  OBVIOUS
<1>5. RetransmitDue(n, u)
  BY <1>1, <1>4 DEF Sound, RetransmitDue
<1>6. Listed(n, u, h)
  <2>1. Listed(sk, t, h)
    BY DEF Sound
  <2> QED
    BY <1>1, <1>4, <2>1 DEF Listed
<1>7. EventsSet(n)
  <2>1. EventsSet(sk)
    BY DEF Sound
  <2> QED
    BY <1>1, <2>1, Zenon DEF EventsSet
<1> QED
  BY <1>1, <1>2, <1>3, <1>5, <1>6, <1>7 DEF Sound

LEMMA SendAckSound ==
  ASSUME NEW sk, NEW t, NEW h, Sound(sk, t, h),
         NEW u, u = t \/ (u = "none" /\ t = "ack_delay")
  PROVE  LET n == send_ack(sk) IN Sound(n, u, h) /\ Balanced(sk, n) /\ n.state = sk.state
<1> DEFINE n == send_ack(sk)
<1>1. Basic(sk) /\ RxTyped(sk)
  BY DEF Sound, IsSocket
<1>2. /\ Keeps(sk, n, {"ref", "queued", "rx_win_high", "acked", "wire"})
      /\ n.queued \cup {"ack_delay"} = sk.queued \cup {"ack_delay"}
      /\ sk.state = "ESTABLISHED" => n.acked = n.rx_win_low
      /\ sk.state = "SYN_RCVD" => n = sk
      /\ Balanced(sk, n) /\ RxTyped(n)
  BY <1>1, SendAck
<1> HIDE DEF n
<1>3. /\ Keeps(sk, n, RxFields) /\ Basic(n)
  BY <1>2 DEF Keeps, RxFields, Balanced
<1>4. n.state = sk.state /\ n.rx_event = sk.rx_event /\ n.rx_buffer = sk.rx_buffer
  BY <1>2 DEF Keeps, Fields
<1>5. AckDue(n, u)
  BY <1>2, <1>4 DEF Sound, AckDue
<1>6. ~n.rx_event => n.rx_buffer = <<>> /\ n.state \in {"SYN_RCVD", "ESTABLISHED"}
  <2>1. EventsSet(sk)
    BY DEF Sound
  <2> QED
    BY <1>4, <2>1, Zenon DEF EventsSet
<1>7. Sound(n, u, h)
  BY <1>2, <1>3, <1>5, <1>6, RxOnly
<1> QED
  BY <1>2, <1>4, <1>7 DEF n

LEMMA HandleData ==
  ASSUME NEW sk, NEW t, NEW h, Sound(sk, t, h), sk.state = "ESTABLISHED",
         NEW data \in Seq(Int), NEW seq \in Int
  PROVE  LET n == handle_data(sk, data, seq) IN
         /\ Sound(n, t, h) /\ n.state = sk.state /\ Spare(n) = Spare(sk)
         /\ sk.fault = "none" /\ Spare(sk) > 0 => n.fault \in {"none", "offset"}
<1> DEFINE n == handle_data(sk, data, seq)
           len == Len(data)
           top == (seq + len - 1) % SeqSpace
           offset == Dist(seq, sk.rx_win_low)
           copy_len == Least(Dist(sk.rx_win_high, sk.rx_win_low), len - offset)
           full == IF copy_len >= Mss THEN sk.rx_full_mss_count + 1 ELSE 0
           low == (sk.rx_win_low + copy_len) % SeqSpace
           buf == cbuf_write(sk.rx_buffer, SubSeq(data, offset + 1, offset + copy_len))
           got == [sk EXCEPT !.rx_win_low = low, !.rx_buffer = buf, !.rx_event = TRUE]
           owing == [got EXCEPT !.rx_full_mss_count = full]
           InWin == SEQUENCE_LTE(seq, sk.rx_win_low) /\ SEQUENCE_GTE(top, sk.rx_win_low)
           Now == full >= 2 \/ 2 * (RxWinSize - Dist(sk.rx_win_high, low)) > RxWinSize
<1>1. IsSocket(sk) /\ Basic(sk) /\ RxTyped(sk) /\ DOMAIN sk = Fields
  BY DEF Sound, IsSocket, Basic
<1>2. CASE ~InWin
  <2>1. n = send_ack(sk)
    BY <1>2 DEF handle_data
  <2>2. Sound(n, t, h) /\ Balanced(sk, n) /\ n.state = sk.state
    BY <2>1, SendAckSound
  <2> QED
    BY <2>2 DEF Balanced
<1>3. CASE InWin /\ offset >= len
  <2>1. n = Assert(FALSE, sk, "offset")
    BY <1>3 DEF handle_data
  <2>2. /\ Keeps(sk, n, {"fault"})
        /\ n.fault = (IF FALSE \/ sk.fault # "none" THEN sk.fault ELSE "offset")
    BY <1>1, <2>1 DEF Assert, Keeps, Fields
  <2> HIDE DEF n
  <2>3. /\ n.state = sk.state /\ n.in_list = sk.in_list /\ n.queued = sk.queued
        /\ n.ref = sk.ref /\ n.rx_win_low = sk.rx_win_low /\ n.rx_win_high = sk.rx_win_high
        /\ n.rx_buffer = sk.rx_buffer /\ n.rx_event = sk.rx_event /\ n.acked = sk.acked
    BY <2>2 DEF Keeps, Fields
  <2>4. Basic(n) /\ RxTyped(n) /\ Keeps(sk, n, RxFields) /\ Spare(n) = Spare(sk)
    BY <1>1, <2>2, <2>3 DEF Basic, RxTyped, Keeps, RxFields, Spare
  <2>5. AckDue(n, t)
    BY <2>3 DEF Sound, AckDue
  <2>6. ~n.rx_event => n.rx_buffer = <<>> /\ n.state \in {"SYN_RCVD", "ESTABLISHED"}
    <3>1. EventsSet(sk)
      BY DEF Sound
    <3> QED
      BY <2>3, <3>1, Zenon DEF EventsSet
  <2>7. Sound(n, t, h)
    BY <2>3, <2>4, <2>5, <2>6, RxOnly
  <2> QED
    BY <2>2, <2>3, <2>4, <2>7 DEF n
<1>4. CASE InWin /\ ~(offset >= len)
  <2>1. low \in Int /\ buf \in Seq(Int)
    <3>1. /\ SeqSpace \in Nat \ {0} /\ RxWinSize \in Nat \ {0} /\ len \in Nat
          /\ sk.rx_win_low \in Int /\ sk.rx_win_high \in Int /\ sk.rx_buffer \in Seq(Int)
      BY <1>1, Sizes, SizesAssumption DEF RxTyped
    <3> DEFINE room == Dist(sk.rx_win_high, sk.rx_win_low)
    <3>2. offset \in Nat /\ room \in Nat
      <4>1. seq - sk.rx_win_low \in Int /\ sk.rx_win_high - sk.rx_win_low \in Int
        BY <3>1
      <4>2. \A x \in Int : x % SeqSpace \in Nat
        BY <3>1, Quotient
      <4> QED
        BY <4>1, <4>2 DEF Dist
    <3> HIDE DEF offset, room, len
    <3>3. copy_len \in Int /\ offset + copy_len <= len
      BY <1>4, <3>1, <3>2 DEF Least, room
    <3> HIDE DEF copy_len
    <3>4. low \in Int
      <4> DEFINE x == sk.rx_win_low + copy_len
      <4>1. x \in Int
        BY <3>1, <3>3
      <4> HIDE DEF x
      <4>2. x % SeqSpace \in Int
        BY <3>1, <4>1, Quotient
      <4> QED
        BY <4>2 DEF x
    <3> DEFINE new == SubSeq(data, offset + 1, offset + copy_len)
    <3>5. new \in Seq(Int)
      <4>1. offset + 1 \in Int /\ offset + copy_len \in Int /\ offset + 1 >= 1
            /\ offset + copy_len <= Len(data)
        BY <3>2, <3>3 DEF len
      <4> QED
        BY <4>1, Cut
    <3> HIDE DEF new
    <3>6. buf \in Seq(Int)
      <4> DEFINE take == Least(Len(new), RxWinSize - 1 - Len(sk.rx_buffer))
      <4>1. take \in Int /\ take <= Len(new)
        BY <3>1, <3>5 DEF Least
      <4> HIDE DEF take
      <4>2. SubSeq(new, 1, take) \in Seq(Int)
        BY <3>5, <4>1, Cut
      <4>3. buf = sk.rx_buffer \o SubSeq(new, 1, take)
        BY DEF cbuf_write, take, new
      <4> HIDE DEF buf
      <4> QED
        BY <3>1, <4>2, <4>3
    <3> QED
      BY <3>4, <3>6
  <2>2. n = IF Now THEN [send_ack(got) EXCEPT !.rx_full_mss_count = 0]
            ELSE tcp_timer_set(owing, "ack_delay")
    BY <1>4 DEF handle_data
  <2> HIDE DEF n, low, buf, full, Now
  <2>3. /\ Keeps(sk, got, {"rx_win_low", "rx_buffer", "rx_event"})
        /\ got.rx_win_low = low /\ got.rx_buffer = buf /\ got.rx_event = TRUE
    BY <1>1 DEF Keeps, Fields
  <2>4. got.state = sk.state /\ got.rx_win_high = sk.rx_win_high /\ got.queued = sk.queued
    BY <2>3 DEF Keeps, Fields
  <2>5. Balanced(sk, got) /\ Basic(got) /\ RxTyped(got)
    <3>1. RxTyped(got)
      BY <1>1, <2>1, <2>3, <2>4 DEF RxTyped
    <3> HIDE DEF got
    <3> QED
      BY <1>1, <2>3, <3>1, BalancedKeeps DEF Balanced
  <2>6. /\ Keeps(sk, n, RxFields) /\ RxTyped(n) /\ AckDue(n, t) /\ Balanced(sk, n)
        /\ n.queued \cup {"ack_delay"} = sk.queued \cup {"ack_delay"} /\ n.rx_event = TRUE
    <3>1. CASE Now
      <4> DEFINE sent == send_ack(got)
      <4>1. n = [sent EXCEPT !.rx_full_mss_count = 0]
        BY <2>2, <3>1
      <4>2. /\ Keeps(got, sent, {"ref", "queued", "rx_win_high", "acked", "wire"})
            /\ sent.queued \cup {"ack_delay"} = got.queued \cup {"ack_delay"}
            /\ got.state = "ESTABLISHED" => sent.acked = sent.rx_win_low
            /\ Balanced(got, sent) /\ RxTyped(sent)
        BY <2>5, SendAck
      <4> HIDE DEF sent, got
      <4>3. Keeps(sent, n, {"rx_full_mss_count"}) /\ Basic(sent)
        BY <4>1, <4>2 DEF Keeps, Fields, Balanced, Basic
      <4>4. Balanced(sent, n)
        BY <4>3, BalancedKeeps
      <4>5. Balanced(sk, n)
        BY <2>5, <4>2, <4>4, BalancedTwice
      <4>6. /\ n.queued = sent.queued /\ n.acked = sent.acked /\ n.rx_win_low = sent.rx_win_low
            /\ n.rx_win_high = sent.rx_win_high /\ n.rx_buffer = sent.rx_buffer
            /\ n.rx_event = sent.rx_event /\ n.state = sent.state
        BY <4>3 DEF Keeps, Fields
      <4>7. sent.rx_event = got.rx_event /\ sent.state = got.state
        BY <4>2 DEF Keeps, Fields
      <4>8. RxTyped(n) /\ AckDue(n, t)
        BY <2>4, <4>2, <4>6, <4>7 DEF RxTyped, AckDue
      <4>9. Keeps(sk, n, RxFields)
        BY <2>3, <4>2, <4>3 DEF Keeps, RxFields
      <4> QED
        BY <2>3, <2>4, <4>2, <4>5, <4>6, <4>7, <4>8, <4>9
    <3>2. CASE ~Now
      <4>1. n = tcp_timer_set(owing, "ack_delay")
        BY <2>2, <3>2
      <4>2. Keeps(got, owing, {"rx_full_mss_count"})
        BY <2>5 DEF Keeps, Fields, Basic
      <4> HIDE DEF owing, got
      <4>3. Balanced(got, owing) /\ Basic(owing)
        BY <2>5, <4>2, BalancedKeeps DEF Balanced
      <4>4. /\ Keeps(owing, n, {"ref", "queued", "fault"}) /\ Balanced(owing, n)
            /\ n.queued = owing.queued \cup {"ack_delay"}
        BY <4>1, <4>3, TimerSet DEF Timers
      <4>5. Balanced(sk, n)
        BY <2>5, <4>3, <4>4, BalancedTwice
      <4>6. /\ owing.queued = got.queued /\ n.rx_win_low = got.rx_win_low
            /\ n.rx_win_high = got.rx_win_high /\ n.rx_buffer = got.rx_buffer
            /\ n.rx_event = got.rx_event /\ n.state = got.state
        BY <4>2, <4>4 DEF Keeps, Fields
      <4>7. RxTyped(n) /\ AckDue(n, t)
        BY <2>4, <2>5, <4>4, <4>6 DEF RxTyped, AckDue
      <4>8. Keeps(sk, n, RxFields)
        BY <2>3, <4>2, <4>4 DEF Keeps, RxFields
      <4> QED
        BY <2>3, <2>4, <4>4, <4>5, <4>6, <4>7, <4>8
    <3> QED
      BY <3>1, <3>2
  <2>7. Sound(n, t, h) /\ n.state = sk.state
    BY <2>6, RxOnly DEF Balanced
  <2> QED
    BY <2>6, <2>7 DEF Balanced, n
<1> QED
  BY <1>2, <1>3, <1>4

\* Once the connection is closed on this side, little is left to keep.
LEMMA Light ==
  ASSUME NEW n, NEW t, NEW h, IsSocket(n), n.state \notin {"SYN_RCVD", "ESTABLISHED", "CLOSE_WAIT"},
         Len(n.tx_buffer) <= TxBufferSize, n.rx_event = TRUE, n.tx_event = TRUE, Listed(n, t, h)
  PROVE  Sound(n, t, h)
BY DEF Sound, AllSent, RetransmitDue, AckDue, EventsSet

LEMMA LightBefore ==
  ASSUME NEW sk, NEW t, NEW h, Sound(sk, t, h),
         sk.state \notin {"SYN_RCVD", "ESTABLISHED", "CLOSE_WAIT"}
  PROVE  (sk.rx_event <=> TRUE) /\ (sk.tx_event <=> TRUE)
<1>1. EventsSet(sk)
  BY DEF Sound
<1> QED
  BY <1>1, Zenon DEF EventsSet

LEMMA RemoteClose ==
  ASSUME NEW sk, NEW t, NEW h, Sound(sk, t, h)
  PROVE  LET n == tcp_remote_close(sk) IN
         Sound(n, t, h) /\ Balanced(sk, n) /\ n.state = "CLOSED" /\ n.in_list = sk.in_list
<1> DEFINE n == tcp_remote_close(sk)
           a == [sk EXCEPT !.state = "CLOSED"]
           b == tcp_timer_cancel(a, "retransmit")
           c == tcp_timer_cancel(b, "ack_delay")
<1>1. IsSocket(sk) /\ Basic(sk) /\ DOMAIN sk = Fields
  BY DEF Sound, IsSocket, Basic
<1>2. CASE sk.state = "CLOSED"
  <2>1. n = sk
    BY <1>2 DEF tcp_remote_close
  <2> QED
    BY <1>1, <1>2, <2>1 DEF Balanced
<1>3. CASE sk.state # "CLOSED"
  <2>1. n = tcp_wakeup_waiters(c)
    BY <1>3 DEF tcp_remote_close
  <2>2. Keeps(sk, a, {"state"}) /\ a.state = "CLOSED"
    BY <1>1 DEF Keeps, Fields
  <2> HIDE DEF a
  <2>3. Balanced(sk, a) /\ Basic(a)
    BY <1>1, <2>2, BalancedKeeps DEF Balanced
  <2>4. /\ Keeps(a, b, {"ref", "queued"}) /\ Balanced(a, b) /\ Basic(b)
        /\ b.queued = a.queued \ {"retransmit"}
    BY <2>3, TimerCancel DEF Timers, Balanced
  <2> HIDE DEF b
  <2>5. /\ Keeps(b, c, {"ref", "queued"}) /\ Balanced(b, c) /\ Basic(c)
        /\ c.queued = b.queued \ {"ack_delay"}
    BY <2>4, TimerCancel DEF Timers, Balanced
  <2> HIDE DEF c, n
  <2>6. /\ Keeps(c, n, {"rx_event", "tx_event"})
        /\ n.rx_event = TRUE /\ n.tx_event = TRUE
    BY <2>1, <2>5 DEF tcp_wakeup_waiters, Keeps, Fields, Basic
  <2>7. Balanced(c, n)
    BY <2>5, <2>6, BalancedKeeps
  <2>8. Balanced(sk, n) /\ Basic(n)
    <3>1. Balanced(sk, c)
      BY <2>3, <2>4, <2>5, BalancedTwice
    <3> QED
      BY <2>7, <3>1, BalancedTwice DEF Balanced
  <2>9. /\ Keeps(a, n, {"ref", "queued", "rx_event", "tx_event"})
        /\ n.queued = sk.queued \ {"retransmit", "ack_delay"}
    <3>1. Keeps(a, n, {"ref", "queued", "rx_event", "tx_event"})
      BY <2>4, <2>5, <2>6 DEF Keeps
    <3>2. n.queued = c.queued /\ a.queued = sk.queued
      BY <2>2, <2>6 DEF Keeps, Fields
    <3> QED
      BY <2>4, <2>5, <3>1, <3>2
  <2>10. /\ n.state = "CLOSED" /\ n.in_list = sk.in_list /\ n.rx_win_low = sk.rx_win_low
         /\ n.rx_win_high = sk.rx_win_high /\ n.rx_buffer = sk.rx_buffer
         /\ n.tx_win_low = sk.tx_win_low /\ n.tx_highest_seq = sk.tx_highest_seq
         /\ n.tx_buffer = sk.tx_buffer
    BY <2>2, <2>9 DEF Keeps, Fields
  <2>11. IsSocket(n)
    BY <1>1, <2>8, <2>10 DEF IsSocket, RxTyped, States
  <2>12. Listed(n, t, h)
    <3>1. Listed(sk, t, h)
      BY DEF Sound
    <3> QED
      BY <1>3, <2>9, <2>10, <3>1 DEF Listed, ClosedByApp
  <2>13. Len(n.tx_buffer) <= TxBufferSize
    BY <2>10 DEF Sound, AllSent
  <2>14. Sound(n, t, h)
    BY <2>6, <2>10, <2>11, <2>12, <2>13, Light
  <2> QED
    BY <2>8, <2>10, <2>14 DEF n
<1> QED
  BY <1>2, <1>3

\* The socket leaves the list, and the reference of the list goes with it.
LEMMA Unlist ==
  ASSUME NEW r, NEW t, NEW u, Sound(r, t, "closed"), r.in_list <=> TRUE,
         \/ r.state = "CLOSED" /\ u = t
         \/ r.state = "TIME_WAIT" /\ u = "none" /\ t = "time_wait"
  PROVE  LET n == dec_socket_ref(remove_socket_from_list(r)) IN
         Sound(n, u, "closed") /\ Balanced(r, n)
<1> DEFINE m == remove_socket_from_list(r)
           n == dec_socket_ref(m)
<1>1. IsSocket(r) /\ Basic(r) /\ DOMAIN r = Fields
  BY DEF Sound, IsSocket, Basic
<1>2. /\ Keeps(r, m, {"in_list", "fault"}) /\ m.in_list = FALSE
      /\ m.fault = (IF r.in_list \/ r.fault # "none" THEN r.fault ELSE "list")
  BY <1>1, Remove
<1> HIDE DEF m
<1>3. Keeps(m, n, {"ref"}) /\ n.ref = m.ref - 1
  BY <1>2, Dec DEF Keeps
<1> HIDE DEF n
<1>4. /\ Keeps(r, n, {"in_list", "fault", "ref"})
      /\ n.ref = r.ref - 1 /\ n.in_list = FALSE /\ n.fault = r.fault
  <2>1. m.fault = r.fault
    BY <1>2
  <2> QED
    BY <1>2, <1>3, <2>1 DEF Keeps, Fields
<1>5. /\ n.state = r.state /\ n.queued = r.queued /\ n.rx_win_low = r.rx_win_low
      /\ n.rx_win_high = r.rx_win_high /\ n.rx_buffer = r.rx_buffer
      /\ n.tx_win_low = r.tx_win_low /\ n.tx_highest_seq = r.tx_highest_seq
      /\ n.tx_buffer = r.tx_buffer /\ n.rx_event = r.rx_event /\ n.tx_event = r.tx_event
  BY <1>4 DEF Keeps, Fields
<1>6. Basic(n) /\ IsSocket(n)
  BY <1>1, <1>4, <1>5 DEF IsSocket, RxTyped, Basic, Keeps
<1>7. Balanced(r, n)
  <2>1. One(n.in_list) = 0 /\ One(r.in_list) = 1
    BY <1>4 DEF One
  <2>2. Cardinality(r.queued) \in Nat /\ r.ref \in Int
    BY <1>1, Counted DEF Basic, Timers
  <2>3. Spare(n) = Spare(r)
    BY <1>4, <1>5, <2>1, <2>2 DEF Spare
  <2> QED
    BY <1>4, <1>6, <2>3 DEF Balanced
<1>8. Listed(n, u, "closed")
  <2>1. Listed(r, t, "closed")
    BY DEF Sound
  <2> QED
    BY <1>5, <2>1 DEF Listed, ClosedByApp
<1>9. EventsSet(n)
  <2>1. EventsSet(r)
    BY DEF Sound
  <2> QED
    BY <1>5, <2>1, Zenon DEF EventsSet
<1>10. AllSent(n) /\ RetransmitDue(n, u) /\ AckDue(n, u)
  BY <1>5 DEF Sound, AllSent, RetransmitDue, AckDue
<1> QED
  BY <1>6, <1>7, <1>8, <1>9, <1>10 DEF Sound, n, m

LEMMA InLastAck ==
  ASSUME NEW sk, NEW t, NEW h, Sound(sk, t, h), sk.state = "LAST_ACK", NEW seg
  PROVE  LET n == in_last_ack(sk, seg) IN Sound(n, t, h) /\ Balanced(sk, n)
<1> DEFINE n == in_last_ack(sk, seg)
           r == tcp_remote_close(sk)
<1>1. CASE ~Ack(seg)
  <2>1. n = sk
    BY <1>1 DEF in_last_ack
  <2> QED
    BY <2>1 DEF Balanced, Sound, IsSocket
<1>2. CASE Ack(seg)
  <2>1. n = dec_socket_ref(remove_socket_from_list(r))
    BY <1>2 DEF in_last_ack
  <2>2. /\ Sound(r, t, h) /\ Balanced(sk, r) /\ r.state = "CLOSED" /\ r.in_list = sk.in_list
    BY RemoteClose
  <2>3. (sk.in_list <=> TRUE) /\ h = "closed"
    <3>1. Listed(sk, t, h)
      BY DEF Sound
    <3> QED
      BY <3>1, Zenon DEF Listed, ClosedByApp
  <2> HIDE DEF r, n
  <2>4. r.in_list <=> TRUE
    BY <2>2, <2>3, Zenon
  <2>5. Sound(n, t, h) /\ Balanced(r, n)
    BY <2>1, <2>2, <2>3, <2>4, Unlist
  <2> QED
    BY <2>2, <2>5, BalancedTwice DEF n
<1> QED
  BY <1>1, <1>2

LEMMA InSynRcvd ==
  ASSUME NEW sk, NEW t, NEW h, Sound(sk, t, h), sk.state = "SYN_RCVD", NEW seg
  PROVE  LET n == in_syn_rcvd(sk, seg) IN Sound(n, t, h) /\ Balanced(sk, n)
<1> DEFINE n == in_syn_rcvd(sk, seg)
           Opens == "SYN" \notin seg.flags /\ Ack(seg) /\ seg.ack = sk.tx_win_low
<1>1. IsSocket(sk) /\ Basic(sk) /\ DOMAIN sk = Fields
  BY DEF Sound, IsSocket, Basic
<1>2. CASE ~Opens
  <2>1. n = sk
    BY <1>2 DEF in_syn_rcvd
  <2> QED
    BY <1>1, <2>1 DEF Balanced
<1>3. CASE Opens
  <2>1. n = [sk EXCEPT !.tx_highest_seq = sk.tx_win_low, !.state = "ESTABLISHED"]
    BY <1>3 DEF in_syn_rcvd
  <2> HIDE DEF n, Opens
  <2>2. /\ Keeps(sk, n, {"tx_highest_seq", "state"})
        /\ n.tx_highest_seq = sk.tx_win_low /\ n.state = "ESTABLISHED"
    BY <1>1, <2>1 DEF Keeps, Fields
  <2>3. Balanced(sk, n) /\ Basic(n)
    BY <1>1, <2>2, BalancedKeeps DEF Balanced
  <2>4. /\ n.queued = sk.queued /\ n.in_list = sk.in_list /\ n.rx_win_low = sk.rx_win_low
        /\ n.rx_win_high = sk.rx_win_high /\ n.rx_buffer = sk.rx_buffer /\ n.acked = sk.acked
        /\ n.rx_event = sk.rx_event /\ n.tx_win_low = sk.tx_win_low
        /\ n.tx_buffer = sk.tx_buffer /\ n.tx_event = sk.tx_event
    BY <2>2 DEF Keeps, Fields
  <2>5. IsSocket(n)
    BY <1>1, <2>2, <2>3, <2>4 DEF IsSocket, RxTyped, States
  <2>6. AllSent(n) /\ RetransmitDue(n, t)
    <3>1. sk.tx_buffer = <<>> /\ sk.tx_win_low \in SeqNum
      BY <1>1 DEF Sound, AllSent, IsSocket
    <3>2. Dist(sk.tx_win_low, sk.tx_win_low) = 0
      BY <3>1, DistIs DEF SeqNum
    <3> QED
      BY <2>2, <2>4, <3>1, <3>2, Sizes DEF AllSent, RetransmitDue
  <2>7. AckDue(n, t)
    BY <2>2, <2>4 DEF Sound, AckDue
  <2>8. EventsSet(n)
    <3>1. EventsSet(sk)
      BY DEF Sound
    <3> QED
      BY <2>2, <2>4, <3>1, Zenon DEF EventsSet
  <2>9. Listed(n, t, h)
    <3>1. Listed(sk, t, h)
      BY DEF Sound
    <3> QED
      BY <2>2, <2>4, <3>1 DEF Listed, ClosedByApp
  <2> QED
    BY <2>3, <2>5, <2>6, <2>7, <2>8, <2>9 DEF Sound, n
<1> QED
  BY <1>2, <1>3

LEMMA EnterTimeWait ==
  ASSUME NEW sk, NEW t, NEW h, Sound(sk, t, h), sk.state \in ClosedByApp \ {"TIME_WAIT"}
  PROVE  LET n == tcp_timer_set([sk EXCEPT !.state = "TIME_WAIT"], "time_wait") IN
         Sound(n, t, h) /\ Balanced(sk, n)
<1> DEFINE a == [sk EXCEPT !.state = "TIME_WAIT"]
           n == tcp_timer_set(a, "time_wait")
<1>1. IsSocket(sk) /\ Basic(sk) /\ DOMAIN sk = Fields
  BY DEF Sound, IsSocket, Basic
<1>2. Keeps(sk, a, {"state"}) /\ a.state = "TIME_WAIT"
  BY <1>1 DEF Keeps, Fields
<1> HIDE DEF a
<1>3. Balanced(sk, a) /\ Basic(a)
  BY <1>1, <1>2, BalancedKeeps DEF Balanced
<1>4. /\ Keeps(a, n, {"ref", "queued", "fault"}) /\ Balanced(a, n)
      /\ n.queued = a.queued \cup {"time_wait"}
  BY <1>3, TimerSet DEF Timers
<1> HIDE DEF n
<1>5. Balanced(sk, n) /\ Basic(n)
  BY <1>3, <1>4, BalancedTwice DEF Balanced
<1>6. /\ n.queued = sk.queued \cup {"time_wait"} /\ n.state = "TIME_WAIT"
      /\ n.in_list = sk.in_list /\ n.rx_win_low = sk.rx_win_low
      /\ n.rx_win_high = sk.rx_win_high /\ n.rx_buffer = sk.rx_buffer
      /\ n.rx_event = sk.rx_event /\ n.tx_win_low = sk.tx_win_low
      /\ n.tx_highest_seq = sk.tx_highest_seq
      /\ n.tx_buffer = sk.tx_buffer /\ n.tx_event = sk.tx_event
  BY <1>2, <1>4 DEF Keeps, Fields
<1>7. IsSocket(n)
  BY <1>1, <1>5, <1>6 DEF IsSocket, RxTyped, States
<1>8. Listed(n, t, h)
  <2>1. Listed(sk, t, h)
    BY DEF Sound
  <2> QED
    BY <1>6, <2>1 DEF Listed, ClosedByApp
<1>9. EventsSet(n)
  <2>1. (sk.rx_event <=> TRUE) /\ (sk.tx_event <=> TRUE)
    BY LightBefore DEF ClosedByApp
  <2> QED
    BY <1>6, <2>1, Zenon DEF EventsSet
<1>10. AllSent(n) /\ RetransmitDue(n, t) /\ AckDue(n, t)
  BY <1>6 DEF Sound, AllSent, RetransmitDue, AckDue
<1> QED
  BY <1>5, <1>7, <1>8, <1>9, <1>10 DEF Sound, n, a

\* A FIN moves rx_win_low and sends an ACK, in some states.
LEMMA FinReceivedKeeps ==
  ASSUME NEW sk, Basic(sk), RxTyped(sk)
  PROVE  LET n == FinReceived(sk) IN
         /\ Keeps(sk, n, {"ref", "queued", "rx_win_low", "rx_win_high", "acked", "wire"})
         /\ n.queued \cup {"ack_delay"} = sk.queued \cup {"ack_delay"}
         /\ sk.state = "ESTABLISHED" => n.acked = n.rx_win_low
         /\ Balanced(sk, n) /\ RxTyped(n)
<1> DEFINE low == (sk.rx_win_low + 1) % SeqSpace
           k == [sk EXCEPT !.rx_win_low = low]
           n == FinReceived(sk)
<1>1. low \in Int
  <2> DEFINE x == sk.rx_win_low + 1
  <2>1. x \in Int /\ SeqSpace \in Nat \ {0}
    BY Sizes DEF RxTyped
  <2> HIDE DEF x
  <2>2. x % SeqSpace \in Int
    BY <2>1, Quotient
  <2> QED
    BY <2>2 DEF x
<1>2. n = send_ack(k)
  BY DEF FinReceived
<1> HIDE DEF low
<1>3. Keeps(sk, k, {"rx_win_low"}) /\ k.rx_win_low = low
  BY DEF Keeps, Fields, Basic
<1> HIDE DEF k
<1>4. k.state = sk.state /\ k.rx_buffer = sk.rx_buffer /\ k.rx_win_high = sk.rx_win_high
      /\ k.queued = sk.queued
  BY <1>3 DEF Keeps, Fields
<1>5. Balanced(sk, k) /\ Basic(k) /\ RxTyped(k)
  <2>1. RxTyped(k)
    BY <1>1, <1>3, <1>4 DEF RxTyped
  <2> QED
    BY <1>3, <2>1, BalancedKeeps DEF Balanced
<1>6. /\ Keeps(k, n, {"ref", "queued", "rx_win_high", "acked", "wire"})
      /\ n.queued \cup {"ack_delay"} = k.queued \cup {"ack_delay"}
      /\ k.state = "ESTABLISHED" => n.acked = n.rx_win_low
      /\ Balanced(k, n) /\ RxTyped(n)
  BY <1>2, <1>5, SendAck
<1> HIDE DEF n
<1>7. Keeps(sk, n, {"ref", "queued", "rx_win_low", "rx_win_high", "acked", "wire"})
  BY <1>3, <1>6 DEF Keeps
<1>8. Balanced(sk, n)
  BY <1>5, <1>6, BalancedTwice
<1> QED
  BY <1>4, <1>6, <1>7, <1>8 DEF n

LEMMA FinReceivedSound ==
  ASSUME NEW sk, NEW t, NEW h, Sound(sk, t, h), sk.state \in {"FIN_WAIT_1", "FIN_WAIT_2"}
  PROVE  LET n == FinReceived(sk) IN
         Sound(n, t, h) /\ Balanced(sk, n) /\ n.state = sk.state
<1> DEFINE n == FinReceived(sk)
<1>1. Basic(sk) /\ RxTyped(sk)
  BY DEF Sound, IsSocket
<1>2. /\ Keeps(sk, n, {"ref", "queued", "rx_win_low", "rx_win_high", "acked", "wire"})
      /\ n.queued \cup {"ack_delay"} = sk.queued \cup {"ack_delay"}
      /\ Balanced(sk, n) /\ RxTyped(n)
  BY <1>1, FinReceivedKeeps
<1> HIDE DEF n
<1>3. Keeps(sk, n, RxFields) /\ Basic(n)
  BY <1>2 DEF Keeps, RxFields, Balanced
<1>4. n.state = sk.state /\ n.rx_event = sk.rx_event
  BY <1>2 DEF Keeps, Fields
<1>5. sk.rx_event <=> TRUE
  BY LightBefore
<1>6. n.rx_event <=> TRUE
  BY <1>4, <1>5, Zenon
<1>7. AckDue(n, t)
  BY <1>4 DEF AckDue
<1>8. Sound(n, t, h)
  BY <1>2, <1>3, <1>6, <1>7, RxOnly
<1> QED
  BY <1>2, <1>4, <1>8 DEF n

\* A step from one state to the next that changes nothing else.
LEMMA StateOnly ==
  ASSUME NEW sk, NEW t, NEW h, Sound(sk, t, h), sk.state \in {"FIN_WAIT_1"},
         NEW state \in {"FIN_WAIT_2", "CLOSING"}
  PROVE  LET n == [sk EXCEPT !.state = state] IN
         Sound(n, t, h) /\ Balanced(sk, n) /\ n.state = state
<1> DEFINE n == [sk EXCEPT !.state = state]
<1>1. IsSocket(sk) /\ Basic(sk) /\ DOMAIN sk = Fields
  BY DEF Sound, IsSocket, Basic
<1>2. Keeps(sk, n, {"state"}) /\ n.state = state
  BY <1>1 DEF Keeps, Fields
<1> HIDE DEF n
<1>3. Balanced(sk, n) /\ Basic(n)
  BY <1>1, <1>2, BalancedKeeps DEF Balanced
<1>4. /\ n.queued = sk.queued /\ n.in_list = sk.in_list /\ n.rx_win_low = sk.rx_win_low
      /\ n.rx_win_high = sk.rx_win_high /\ n.rx_buffer = sk.rx_buffer
      /\ n.rx_event = sk.rx_event /\ n.tx_win_low = sk.tx_win_low
      /\ n.tx_highest_seq = sk.tx_highest_seq
      /\ n.tx_buffer = sk.tx_buffer /\ n.tx_event = sk.tx_event
  BY <1>2 DEF Keeps, Fields
<1>5. IsSocket(n)
  BY <1>1, <1>2, <1>3, <1>4 DEF IsSocket, RxTyped, States
<1>6. Listed(n, t, h)
  <2>1. Listed(sk, t, h)
    BY DEF Sound
  <2> QED
    BY <1>2, <1>4, <2>1 DEF Listed, ClosedByApp
<1>7. EventsSet(n)
  <2>1. (sk.rx_event <=> TRUE) /\ (sk.tx_event <=> TRUE)
    BY LightBefore
  <2> QED
    BY <1>4, <2>1, Zenon DEF EventsSet
<1>8. AllSent(n) /\ RetransmitDue(n, t) /\ AckDue(n, t)
  BY <1>2, <1>4 DEF Sound, AllSent, RetransmitDue, AckDue
<1> QED
  BY <1>2, <1>3, <1>5, <1>6, <1>7, <1>8 DEF Sound, n

LEMMA InFinWait2 ==
  ASSUME NEW sk, NEW t, NEW h, Sound(sk, t, h), sk.state = "FIN_WAIT_2", NEW seg
  PROVE  LET n == in_fin_wait_2(sk, seg) IN Sound(n, t, h) /\ Balanced(sk, n)
<1> DEFINE n == in_fin_wait_2(sk, seg)
           f == FinReceived(sk)
<1>1. CASE ~Fin(seg)
  <2>1. n = sk
    BY <1>1 DEF in_fin_wait_2
  <2> QED
    BY <2>1 DEF Balanced, Sound, IsSocket
<1>2. CASE Fin(seg)
  <2>1. n = tcp_timer_set([f EXCEPT !.state = "TIME_WAIT"], "time_wait")
    BY <1>2 DEF in_fin_wait_2
  <2>2. Sound(f, t, h) /\ Balanced(sk, f) /\ f.state = sk.state
    BY FinReceivedSound
  <2> HIDE DEF f, n
  <2>3. Sound(n, t, h) /\ Balanced(f, n)
    BY <2>1, <2>2, EnterTimeWait DEF ClosedByApp
  <2> QED
    BY <2>2, <2>3, BalancedTwice DEF n
<1> QED
  BY <1>1, <1>2

LEMMA InFinWait1 ==
  ASSUME NEW sk, NEW t, NEW h, Sound(sk, t, h), sk.state = "FIN_WAIT_1", NEW seg
  PROVE  LET n == in_fin_wait_1(sk, seg) IN Sound(n, t, h) /\ Balanced(sk, n)
<1> DEFINE n == in_fin_wait_1(sk, seg)
           a == [sk EXCEPT !.state = "FIN_WAIT_2"]
           f == FinReceived(sk)
<1>1. CASE Ack(seg)
  <2>1. n = in_fin_wait_2(a, seg)
    BY <1>1 DEF in_fin_wait_1
  <2>2. Sound(a, t, h) /\ Balanced(sk, a) /\ a.state = "FIN_WAIT_2"
    BY StateOnly
  <2> HIDE DEF a, n
  <2>3. Sound(n, t, h) /\ Balanced(a, n)
    BY <2>1, <2>2, InFinWait2
  <2> QED
    BY <2>2, <2>3, BalancedTwice DEF n
<1>2. CASE ~Ack(seg) /\ Fin(seg)
  <2>1. n = [f EXCEPT !.state = "CLOSING"]
    BY <1>2 DEF in_fin_wait_1
  <2>2. Sound(f, t, h) /\ Balanced(sk, f) /\ f.state = sk.state
    BY FinReceivedSound
  <2> HIDE DEF f, n
  <2>3. Sound(n, t, h) /\ Balanced(f, n)
    BY <2>1, <2>2, StateOnly
  <2> QED
    BY <2>2, <2>3, BalancedTwice DEF n
<1>3. CASE ~Ack(seg) /\ ~Fin(seg)
  <2>1. n = sk
    BY <1>3 DEF in_fin_wait_1
  <2> QED
    BY <2>1 DEF Balanced, Sound, IsSocket
<1> QED
  BY <1>1, <1>2, <1>3

SegmentTyped(seg) == seg.data \in Seq(Int) /\ seg.seq \in Int /\ seg.ack \in SeqNum

LEMMA InCloseWait ==
  ASSUME NEW sk, NEW t, NEW h, Sound(sk, t, h), sk.state = "CLOSE_WAIT",
         NEW seg, SegmentTyped(seg)
  PROVE  LET n == in_close_wait(sk, seg) IN Sound(n, t, h) /\ Balanced(sk, n)
<1> DEFINE n == in_close_wait(sk, seg)
           acked == IF Ack(seg) THEN handle_ack(sk, seg.ack) ELSE sk
<1>1. Sound(acked, t, h) /\ Balanced(sk, acked) /\ acked.state = sk.state
  <2>1. CASE Ack(seg)
    BY <2>1, HandleAck DEF SegmentTyped
  <2>2. CASE ~Ack(seg)
    BY <2>2 DEF Balanced, Sound, IsSocket
  <2> QED
    BY <2>1, <2>2
<1>2. n = IF Fin(seg) THEN send_ack(acked) ELSE acked
  BY DEF in_close_wait
<1> HIDE DEF acked, n
<1>3. CASE Fin(seg)
  <2>1. Sound(n, t, h) /\ Balanced(acked, n)
    BY <1>1, <1>2, <1>3, SendAckSound
  <2> QED
    BY <1>1, <2>1, BalancedTwice DEF n
<1>4. CASE ~Fin(seg)
  BY <1>1, <1>2, <1>4 DEF n
<1> QED
  BY <1>3, <1>4

\* Balanced, but for the assertion in handle_data.
Settled(sk, n) ==
  /\ Spare(n) = Spare(sk)
  /\ sk.fault = "none" /\ Spare(sk) > 0 => n.fault \in {"none", "offset"}

LEMMA InEstablished ==
  ASSUME NEW sk, NEW t, NEW h, Sound(sk, t, h), sk.state = "ESTABLISHED",
         NEW seg, SegmentTyped(seg)
  PROVE  LET n == in_established(sk, seg) IN Sound(n, t, h) /\ Settled(sk, n)
<1> DEFINE n == in_established(sk, seg)
           acked == IF Ack(seg) THEN handle_ack(sk, seg.ack) ELSE sk
           got == IF seg.data # <<>> THEN handle_data(acked, seg.data, seg.seq) ELSE acked
           highest == IF seg.data # <<>> THEN seg.seq + Len(seg.data) - 1 ELSE seg.seq
           Closes == Fin(seg) /\ SEQUENCE_GTE(got.rx_win_low, highest % SeqSpace)
           f == FinReceived(got)
<1>1. Sound(acked, t, h) /\ Balanced(sk, acked) /\ acked.state = sk.state
  <2>1. CASE Ack(seg)
    BY <2>1, HandleAck DEF SegmentTyped
  <2>2. CASE ~Ack(seg)
    BY <2>2 DEF Balanced, Sound, IsSocket
  <2> QED
    BY <2>1, <2>2
<1>2. n = IF Closes THEN [f EXCEPT !.state = "CLOSE_WAIT", !.rx_event = TRUE] ELSE got
  BY DEF in_established, FinReceived
<1> HIDE DEF acked, n
<1>3. Sound(got, t, h) /\ got.state = "ESTABLISHED" /\ Settled(sk, got)
  <2>1. CASE seg.data # <<>>
    <3>1. /\ Sound(got, t, h) /\ got.state = acked.state /\ Spare(got) = Spare(acked)
          /\ acked.fault = "none" /\ Spare(acked) > 0 => got.fault \in {"none", "offset"}
      BY <1>1, <2>1, HandleData DEF SegmentTyped
    <3> HIDE DEF got
    <3> QED
      BY <1>1, <3>1 DEF Balanced, Settled
  <2>2. CASE seg.data = <<>>
    <3>1. got = acked
      BY <2>2
    <3> HIDE DEF got
    <3> QED
      BY <1>1, <3>1 DEF Balanced, Settled
  <2> QED
    BY <2>1, <2>2
<1> HIDE DEF got, Closes
<1>4. CASE ~Closes
  BY <1>2, <1>3, <1>4 DEF n
<1>5. CASE Closes
  <2>1. IsSocket(got) /\ Basic(got) /\ RxTyped(got)
    BY <1>3 DEF Sound, IsSocket
  <2>2. /\ Keeps(got, f, {"ref", "queued", "rx_win_low", "rx_win_high", "acked", "wire"})
        /\ f.queued \cup {"ack_delay"} = got.queued \cup {"ack_delay"}
        /\ Balanced(got, f) /\ RxTyped(f)
    BY <2>1, FinReceivedKeeps
  <2> HIDE DEF f
  <2>3. /\ Keeps(f, n, {"state", "rx_event"}) /\ n.state = "CLOSE_WAIT" /\ n.rx_event = TRUE
    BY <1>2, <1>5, <2>2 DEF Keeps, Fields
  <2>4. Balanced(f, n) /\ Basic(n)
    BY <2>2, <2>3, BalancedKeeps DEF Balanced
  <2>5. Balanced(got, n)
    BY <2>2, <2>4, BalancedTwice
  <2>6. Settled(sk, n)
    BY <1>3, <2>5 DEF Settled, Balanced
  <2>7. /\ n.queued = f.queued /\ n.in_list = got.in_list /\ n.rx_win_low = f.rx_win_low
        /\ n.rx_win_high = f.rx_win_high /\ n.rx_buffer = f.rx_buffer
        /\ n.tx_win_low = got.tx_win_low /\ n.tx_highest_seq = got.tx_highest_seq
        /\ n.tx_buffer = got.tx_buffer /\ n.tx_event = got.tx_event
    BY <2>2, <2>3 DEF Keeps, Fields
  <2>8. IsSocket(n)
    BY <2>1, <2>2, <2>3, <2>4, <2>7 DEF IsSocket, RxTyped, States
  <2>9. AllSent(n)
    BY <1>3, <2>3, <2>7 DEF Sound, AllSent
  <2>10. /\ "retransmit" \in n.queued <=> "retransmit" \in got.queued
         /\ "time_wait" \in n.queued <=> "time_wait" \in got.queued
    BY <2>2, <2>7
  <2>11. RetransmitDue(n, t) /\ AckDue(n, t)
    BY <1>3, <2>3, <2>7, <2>10 DEF Sound, RetransmitDue, AckDue
  <2>12. EventsSet(n)
    <3>1. EventsSet(got)
      BY <1>3 DEF Sound
    <3> QED
      BY <2>3, <2>7, <3>1, Zenon DEF EventsSet
  <2>13. Listed(n, t, h)
    <3>1. Listed(got, t, h)
      BY <1>3 DEF Sound
    <3> QED
      BY <1>3, <2>3, <2>7, <2>10, <3>1 DEF Listed, ClosedByApp
  <2> QED
    BY <2>6, <2>8, <2>9, <2>11, <2>12, <2>13 DEF Sound, n
<1> QED
  BY <1>4, <1>5

LEMMA HandledSound ==
  ASSUME NEW sk, NEW t, NEW h, Sound(sk, t, h), NEW seg, SegmentTyped(seg)
  PROVE  LET n == Handled(sk, seg) IN Sound(n, t, h) /\ Settled(sk, n)
<1> DEFINE n == Handled(sk, seg)
<1>1. \A m : Balanced(sk, m) => Settled(sk, m)
  BY DEF Balanced, Settled
<1>2. CASE "RST" \in seg.flags
  <2>1. n = tcp_remote_close(sk)
    BY <1>2 DEF Handled
  <2> QED
    BY <1>1, <2>1, RemoteClose
<1>3. CASE "RST" \notin seg.flags
  <2>1. sk.state \in States \ {"none"}
    BY DEF Sound, IsSocket
  <2>2. CASE sk.state = "SYN_RCVD"
    <3>1. n = in_syn_rcvd(sk, seg)
      BY <1>3, <2>2 DEF Handled
    <3> QED
      BY <1>1, <2>2, <3>1, InSynRcvd
  <2>3. CASE sk.state = "ESTABLISHED"
    <3>1. n = in_established(sk, seg)
      BY <1>3, <2>3 DEF Handled
    <3> QED
      BY <2>3, <3>1, InEstablished
  <2>4. CASE sk.state = "CLOSE_WAIT"
    <3>1. n = in_close_wait(sk, seg)
      BY <1>3, <2>4 DEF Handled
    <3> QED
      BY <1>1, <2>4, <3>1, InCloseWait
  <2>5. CASE sk.state = "LAST_ACK"
    <3>1. n = in_last_ack(sk, seg)
      BY <1>3, <2>5 DEF Handled
    <3> QED
      BY <1>1, <2>5, <3>1, InLastAck
  <2>6. CASE sk.state = "FIN_WAIT_1"
    <3>1. n = in_fin_wait_1(sk, seg)
      BY <1>3, <2>6 DEF Handled
    <3> QED
      BY <1>1, <2>6, <3>1, InFinWait1
  <2>7. CASE sk.state = "FIN_WAIT_2"
    <3>1. n = in_fin_wait_2(sk, seg)
      BY <1>3, <2>7 DEF Handled
    <3> QED
      BY <1>1, <2>7, <3>1, InFinWait2
  <2>8. CASE sk.state = "CLOSING"
    <3>1. n = IF Ack(seg) THEN tcp_timer_set([sk EXCEPT !.state = "TIME_WAIT"], "time_wait")
              ELSE sk
      BY <1>3, <2>8 DEF Handled, in_closing
    <3>2. CASE Ack(seg)
      BY <1>1, <2>8, <3>1, <3>2, EnterTimeWait DEF ClosedByApp
    <3>3. CASE ~Ack(seg)
      BY <3>1, <3>3 DEF Settled
    <3> QED
      BY <3>2, <3>3
  <2>9. CASE sk.state \in {"TIME_WAIT", "CLOSED"}
    <3>1. n = sk
      BY <1>3, <2>9 DEF Handled
    <3> QED
      BY <3>1 DEF Settled
  <2> QED
    BY <2>1, <2>2, <2>3, <2>4, <2>5, <2>6, <2>7, <2>8, <2>9 DEF States
<1> QED
  BY <1>2, <1>3

\* What the peer may send has the right types.
LEMMA PeerSegments ==
  ASSUME NEW seg \in FromPeer
  PROVE  SegmentTyped(seg)
<1>1. SeqSpace \in Nat \ {0} /\ PeerIsn \in Int /\ LocalIsn \in Int /\ 0 \in SeqNum
  BY Sizes, ArgumentsAssumption DEF SeqNum
<1>2. \A x \in Int : x % SeqSpace \in SeqNum
  BY <1>1, Quotient DEF SeqNum
<1>3. CASE seg = SynSegment
  BY <1>1, <1>3 DEF SynSegment, SegmentTyped
<1>4. CASE seg = RstSegment
  BY <1>1, <1>4 DEF RstSegment, SegmentTyped
<1>5. CASE seg \in DataSegments
  <2>1. PICK f \in {{"ACK"}, {"ACK", "FIN"}, {"FIN"}}, k \in 1 .. peer.total + 1,
             n \in 0 .. Mss, a \in Acks :
          seg = [flags |-> f, seq |-> SeqOf(k), ack |-> a,
                 data |-> [i \in 1 .. n |-> k + i - 1]]
    BY <1>5 DEF DataSegments
  <2>2. k \in Int /\ n \in Nat
    OBVIOUS
  <2>3. SeqOf(k) \in Int
    <3>1. PeerIsn + k \in Int
      BY <1>1, <2>2
    <3> QED
      BY <1>2, <3>1 DEF SeqOf, SeqNum
  <2>4. [i \in 1 .. n |-> k + i - 1] \in Seq(Int)
    BY <2>2
  <2>5. a \in SeqNum
    <3>1. PICK i \in 1 .. Dist(peer.rcv_nxt, LocalIsn) : a = (LocalIsn + i) % SeqSpace
      BY DEF Acks
    <3>2. LocalIsn + i \in Int
      BY <1>1
    <3> QED
      BY <1>2, <3>1, <3>2
  <2> QED
    BY <2>1, <2>3, <2>4, <2>5 DEF SegmentTyped
<1> QED
  BY <1>3, <1>4, <1>5 DEF FromPeer

-----------------------------------------------------------------------------
(***************************************************************************)
(* The timers and the calls of the application.                            *)
(***************************************************************************)
LEMMA RefOnly ==
  ASSUME NEW sk, NEW n, NEW t, NEW h, Sound(sk, t, h), Keeps(sk, n, {"ref", "fault"}), n.ref \in Int
  PROVE  Sound(n, t, h) /\ Spare(n) = Spare(sk) + (n.ref - sk.ref)
<1>1. /\ n.state = sk.state /\ n.queued = sk.queued /\ n.in_list = sk.in_list
      /\ n.rx_win_low = sk.rx_win_low /\ n.rx_win_high = sk.rx_win_high
      /\ n.rx_buffer = sk.rx_buffer /\ n.rx_event = sk.rx_event /\ n.acked = sk.acked
      /\ n.tx_win_low = sk.tx_win_low /\ n.tx_highest_seq = sk.tx_highest_seq
      /\ n.tx_buffer = sk.tx_buffer /\ n.tx_event = sk.tx_event
  BY DEF Keeps, Fields
<1>2. IsSocket(sk) /\ Basic(sk)
  BY DEF Sound, IsSocket
<1>3. Basic(n) /\ IsSocket(n)
  BY <1>1, <1>2 DEF Basic, IsSocket, RxTyped, Keeps
<1>4. AllSent(n) /\ RetransmitDue(n, t) /\ AckDue(n, t)
  BY <1>1 DEF Sound, AllSent, RetransmitDue, AckDue
<1>5. EventsSet(n)
  <2>1. EventsSet(sk)
    BY DEF Sound
  <2> QED
    BY <1>1, <2>1, Zenon DEF EventsSet
<1>6. Listed(n, t, h)
  <2>1. Listed(sk, t, h)
    BY DEF Sound
  <2> QED
    BY <1>1, <2>1 DEF Listed
<1>7. Cardinality(sk.queued) \in Nat /\ One(sk.in_list) \in Int /\ sk.ref \in Int
  <2>1. Cardinality(sk.queued) \in Nat /\ sk.ref \in Int
    BY <1>2, Counted DEF Basic, Timers
  <2> QED
    BY <2>1 DEF One
<1>8. Spare(n) = Spare(sk) + (n.ref - sk.ref)
  BY <1>1, <1>7 DEF Spare
<1> QED
  BY <1>3, <1>4, <1>5, <1>6, <1>8 DEF Sound

LEMMA IncSound ==
  ASSUME NEW sk, NEW t, NEW h, Sound(sk, t, h), sk.ref > 0
  PROVE  LET n == inc_socket_ref(sk) IN
         Sound(n, t, h) /\ Spare(n) = Spare(sk) + 1 /\ n.fault = sk.fault
<1> DEFINE n == inc_socket_ref(sk)
<1>1. DOMAIN sk = Fields /\ sk.ref \in Int /\ Basic(sk)
  BY DEF Sound, IsSocket, Basic
<1>2. /\ Keeps(sk, n, {"ref", "fault"}) /\ n.ref = sk.ref + 1
      /\ n.fault = (IF sk.ref > 0 \/ sk.fault # "none" THEN sk.fault ELSE "ref")
  BY <1>1, Inc
<1> HIDE DEF n
<1>3. n.ref \in Int /\ n.ref - sk.ref = 1
  BY <1>1, <1>2
<1>4. Sound(n, t, h) /\ Spare(n) = Spare(sk) + (n.ref - sk.ref)
  BY <1>2, <1>3, RefOnly
<1> QED
  BY <1>2, <1>3, <1>4 DEF n

LEMMA DecSound ==
  ASSUME NEW sk, NEW t, NEW h, Sound(sk, t, h)
  PROVE  LET n == dec_socket_ref(sk) IN
         Sound(n, t, h) /\ Spare(n) = Spare(sk) - 1 /\ n.fault = sk.fault
<1> DEFINE n == dec_socket_ref(sk)
<1>1. DOMAIN sk = Fields /\ sk.ref \in Int /\ Basic(sk)
  BY DEF Sound, IsSocket, Basic
<1>2. Keeps(sk, n, {"ref"}) /\ n.ref = sk.ref - 1
  BY <1>1, Dec
<1> HIDE DEF n
<1>3. n.ref \in Int /\ n.ref - sk.ref = -1 /\ Keeps(sk, n, {"ref", "fault"}) /\ n.fault = sk.fault
  BY <1>1, <1>2 DEF Keeps, Fields
<1>4. Sound(n, t, h) /\ Spare(n) = Spare(sk) + (n.ref - sk.ref)
  BY <1>3, RefOnly
<1>5. Spare(sk) \in Int
  BY <1>1, SpareIs
<1> QED
  BY <1>3, <1>4, <1>5 DEF n

\* What changes of the sending side is the end of what was sent.
LEMMA TxOnly ==
  ASSUME NEW sk, NEW n, NEW t, NEW u, NEW h, Sound(sk, t, h),
         u = t \/ (u = "none" /\ t = "retransmit"), sk.state \in {"ESTABLISHED", "CLOSE_WAIT"},
         Keeps(sk, n, {"ref", "queued", "fault", "rx_win_high", "acked", "wire",
                       "tx_highest_seq", "tx_buffer", "tx_event"}),
         Basic(n), RxTyped(n), n.acked = n.rx_win_low,
         n.queued = (sk.queued \ {"ack_delay"}) \cup {"retransmit"},
         n.tx_highest_seq \in SeqNum, n.tx_buffer \in Seq(Int),
         Len(n.tx_buffer) <= TxBufferSize,
         Dist(n.tx_highest_seq, n.tx_win_low) = Len(n.tx_buffer),
         ~n.tx_event => Len(n.tx_buffer) = TxBufferSize
  PROVE  Sound(n, u, h)
<1>1. /\ n.state = sk.state /\ n.in_list = sk.in_list /\ n.rx_event = sk.rx_event
      /\ n.rx_buffer = sk.rx_buffer /\ n.tx_win_low = sk.tx_win_low
  BY DEF Keeps, Fields
<1>2. IsSocket(n)
  BY <1>1 DEF Sound, IsSocket
<1>3. AllSent(n) /\ RetransmitDue(n, u) /\ AckDue(n, u)
  BY <1>1 DEF AllSent, RetransmitDue, AckDue
<1>4. EventsSet(n)
  <2>1. EventsSet(sk)
    BY DEF Sound
  <2> QED
    BY <1>1, <2>1, Zenon DEF EventsSet
<1>5. Listed(n, u, h)
  <2>1. Listed(sk, t, h)
    BY DEF Sound
  <2>2. "time_wait" \in n.queued <=> "time_wait" \in sk.queued
    OBVIOUS
  <2> QED
    BY <1>1, <2>1, <2>2 DEF Listed
<1> QED
  BY <1>2, <1>3, <1>4, <1>5 DEF Sound

LEMMA RetransmitSound ==
  ASSUME NEW sk, NEW h, Sound(sk, "retransmit", h)
  PROVE  LET n == tcp_retransmit(sk) IN Sound(n, "none", h) /\ Balanced(sk, n)
<1> DEFINE n == tcp_retransmit(sk)
           Idle == sk.state \notin {"ESTABLISHED", "CLOSE_WAIT"} \/ Outstanding(sk) = <<>>
           data == SubSeq(Outstanding(sk), 1, Least(Mss, Len(Outstanding(sk))))
           sent == tcp_socket_send(sk, data, {}, sk.tx_win_low)
<1>1. IsSocket(sk) /\ Basic(sk) /\ RxTyped(sk)
  BY DEF Sound, IsSocket
<1>2. sk.state \in {"ESTABLISHED", "CLOSE_WAIT"} => Outstanding(sk) = sk.tx_buffer
  <2>1. sk.tx_buffer \in Seq(Int)
    BY <1>1 DEF IsSocket
  <2>2. SubSeq(sk.tx_buffer, 1, Len(sk.tx_buffer)) = sk.tx_buffer
    BY <2>1, SubSeqFull
  <2> QED
    BY <2>2 DEF Outstanding, Sound, AllSent
<1>3. CASE Idle
  <2>1. n = sk
    BY <1>3 DEF tcp_retransmit
  <2>2. RetransmitDue(sk, "none")
    BY <1>2, <1>3 DEF RetransmitDue
  <2>3. AckDue(sk, "none") /\ Listed(sk, "none", h)
    BY DEF Sound, AckDue, Listed
  <2> QED
    BY <1>1, <2>1, <2>2, <2>3 DEF Sound, Balanced
<1>4. CASE ~Idle
  <2>1. n = tcp_timer_set(sent, "retransmit")
    BY <1>4 DEF tcp_retransmit
  <2>2. /\ Keeps(sk, sent, {"ref", "queued", "rx_win_high", "acked", "wire"})
        /\ sent.queued = sk.queued \ {"ack_delay"} /\ sent.acked = sent.rx_win_low
        /\ Balanced(sk, sent) /\ RxTyped(sent) /\ Basic(sent)
    BY <1>1, SocketSend DEF Balanced
  <2> HIDE DEF sent
  <2>3. /\ Keeps(sent, n, {"ref", "queued", "fault"}) /\ Balanced(sent, n)
        /\ n.queued = sent.queued \cup {"retransmit"}
    BY <2>1, <2>2, TimerSet DEF Timers
  <2> HIDE DEF n
  <2>4. Balanced(sk, n) /\ Basic(n)
    BY <2>2, <2>3, BalancedTwice DEF Balanced
  <2>5. /\ n.acked = n.rx_win_low /\ n.tx_highest_seq = sk.tx_highest_seq
        /\ n.tx_buffer = sk.tx_buffer /\ n.tx_event = sk.tx_event
        /\ n.tx_win_low = sk.tx_win_low
        /\ n.rx_win_low = sent.rx_win_low /\ n.rx_win_high = sent.rx_win_high
        /\ n.rx_buffer = sent.rx_buffer
    BY <2>2, <2>3 DEF Keeps, Fields
  <2>6. RxTyped(n)
    BY <2>2, <2>5 DEF RxTyped
  <2>7. Keeps(sk, n, {"ref", "queued", "fault", "rx_win_high", "acked", "wire",
                      "tx_highest_seq", "tx_buffer", "tx_event"})
    BY <2>2, <2>3 DEF Keeps
  <2>8. /\ n.tx_highest_seq \in SeqNum /\ n.tx_buffer \in Seq(Int)
        /\ Len(n.tx_buffer) <= TxBufferSize /\ sk.state \in {"ESTABLISHED", "CLOSE_WAIT"}
        /\ Dist(n.tx_highest_seq, n.tx_win_low) = Len(n.tx_buffer)
    BY <1>1, <1>4, <2>5 DEF IsSocket, Sound, AllSent
  <2>9. ~n.tx_event => Len(n.tx_buffer) = TxBufferSize
    <3>1. EventsSet(sk)
      BY DEF Sound
    <3> QED
      BY <2>5, <3>1, Zenon DEF EventsSet
  <2>10. n.queued = (sk.queued \ {"ack_delay"}) \cup {"retransmit"}
    BY <2>2, <2>3
  <2>11. Sound(n, "none", h)
    BY <2>4, <2>5, <2>6, <2>7, <2>8, <2>9, <2>10, TxOnly
  <2> QED
    BY <2>4, <2>11 DEF n
<1> QED
  BY <1>3, <1>4

\* One turn of tcp_write: k bytes of data go into tx_buffer and out.
LEMMA WriteSound ==
  ASSUME NEW sk, NEW t, NEW h, Sound(sk, t, h), sk.state \in {"ESTABLISHED", "CLOSE_WAIT"},
         NEW k \in Nat \ {0}, k <= TxBufferSize - Len(sk.tx_buffer),
         NEW data \in Seq(Int), Len(data) = k,
         NEW event, ~event => Len(sk.tx_buffer) + k = TxBufferSize
  PROVE  LET filled == [sk EXCEPT !.tx_buffer = @ \o data, !.tx_event = event]
             n == tcp_write_pending_data(filled)
         IN  Sound(n, t, h) /\ Balanced(sk, n)
<1> DEFINE buf == sk.tx_buffer \o data
           filled == [sk EXCEPT !.tx_buffer = buf, !.tx_event = event]
           n == tcp_write_pending_data(filled)
<1>1. IsSocket(sk) /\ Basic(sk) /\ RxTyped(sk) /\ DOMAIN sk = Fields
  BY DEF Sound, IsSocket, Basic
<1>2. /\ sk.tx_buffer \in Seq(Int) /\ Len(sk.tx_buffer) \in Nat
      /\ Dist(sk.tx_highest_seq, sk.tx_win_low) = Len(sk.tx_buffer)
      /\ sk.tx_highest_seq \in SeqNum /\ sk.tx_win_low \in SeqNum
  BY <1>1 DEF Sound, AllSent, IsSocket
<1>3. buf \in Seq(Int) /\ Len(buf) = Len(sk.tx_buffer) + k
  <2>1. buf \in Seq(Int) /\ Len(buf) = Len(sk.tx_buffer) + Len(data)
    BY <1>2, ConcatProperties
  <2> HIDE DEF buf
  <2> QED
    BY <2>1
<1>4. Len(buf) <= TxBufferSize /\ Len(buf) \in Nat
  BY <1>2, <1>3, Sizes
<1> HIDE DEF buf
<1>5. /\ Keeps(sk, filled, {"tx_buffer", "tx_event"})
      /\ filled.tx_buffer = buf /\ filled.tx_event = event
  BY <1>1 DEF Keeps, Fields
<1> HIDE DEF filled
<1>6. /\ filled.tx_highest_seq = sk.tx_highest_seq /\ filled.tx_win_low = sk.tx_win_low
      /\ filled.rx_win_low = sk.rx_win_low /\ filled.rx_win_high = sk.rx_win_high
      /\ filled.rx_buffer = sk.rx_buffer /\ filled.queued = sk.queued
  BY <1>5 DEF Keeps, Fields
<1>7. Balanced(sk, filled) /\ Basic(filled) /\ RxTyped(filled)
  <2>1. RxTyped(filled)
    BY <1>1, <1>6 DEF RxTyped
  <2> QED
    BY <1>1, <1>5, <2>1, BalancedKeeps DEF Balanced
<1> DEFINE old == Len(sk.tx_buffer)
           pending == SubSeq(buf, old + 1, Len(buf))
           sent == tcp_socket_send(filled, <<>>, {}, filled.tx_highest_seq)
           high == (sk.tx_highest_seq + k) % SeqSpace
           wire == sent.wire \cup Segments(pending, sk.tx_highest_seq)
           m == [sent EXCEPT !.wire = wire, !.tx_highest_seq = high]
<1>8. pending # <<>> /\ Len(pending) = k
  <2>1. old + 1 \in Int /\ Len(buf) \in Int /\ old + 1 >= 1 /\ old + 1 <= Len(buf) + 1
        /\ Len(buf) - (old + 1) + 1 = k
    BY <1>2, <1>3, <1>4
  <2> HIDE DEF old
  <2>2. Len(pending) = Len(buf) - (old + 1) + 1
    BY <1>3, <2>1, Cut
  <2> HIDE DEF pending
  <2> QED
    BY <2>1, <2>2
<1>9. /\ Keeps(filled, sent, {"ref", "queued", "rx_win_high", "acked", "wire"})
      /\ sent.queued = filled.queued \ {"ack_delay"} /\ sent.acked = sent.rx_win_low
      /\ Balanced(filled, sent) /\ RxTyped(sent) /\ Basic(sent)
  BY <1>7, SocketSend DEF Balanced
<1>10. n = tcp_timer_set(m, "retransmit")
  <2>1. sent.tx_highest_seq = sk.tx_highest_seq
    BY <1>6, <1>9 DEF Keeps, Fields
  <2>2. Dist(filled.tx_highest_seq, filled.tx_win_low) = old
    BY <1>2, <1>6
  <2>3. n = tcp_timer_set([sent EXCEPT
               !.wire = @ \cup Segments(pending, sk.tx_highest_seq),
               !.tx_highest_seq = (@ + Len(pending)) % SeqSpace], "retransmit")
    BY <1>5, <1>6, <1>8, <2>2 DEF tcp_write_pending_data
  <2> HIDE DEF pending, sent
  <2> QED
    BY <1>8, <2>1, <2>3
<1> HIDE DEF old, pending, sent, high, wire, n
<1>11. /\ Keeps(sent, m, {"wire", "tx_highest_seq"}) /\ m.tx_highest_seq = high
  BY <1>9 DEF Keeps, Fields, Basic
<1> HIDE DEF m
<1>12. Balanced(sent, m) /\ Basic(m)
  BY <1>9, <1>11, BalancedKeeps DEF Balanced
<1>13. /\ Keeps(m, n, {"ref", "queued", "fault"}) /\ Balanced(m, n)
       /\ n.queued = m.queued \cup {"retransmit"}
  BY <1>10, <1>12, TimerSet DEF Timers
<1>14. Balanced(sk, n) /\ Basic(n)
  <2>1. Balanced(sk, sent)
    BY <1>7, <1>9, BalancedTwice
  <2>2. Balanced(sk, m)
    BY <1>12, <2>1, BalancedTwice
  <2> QED
    BY <1>13, <2>2, BalancedTwice DEF Balanced
<1>15. Keeps(sent, n, {"wire", "tx_highest_seq", "ref", "queued", "fault"})
  BY <1>11, <1>13 DEF Keeps
<1>16. n.tx_highest_seq = high /\ n.queued = sent.queued \cup {"retransmit"}
  BY <1>11, <1>13 DEF Keeps, Fields
<1>17. /\ n.acked = sent.acked /\ n.rx_win_low = sent.rx_win_low
       /\ n.rx_win_high = sent.rx_win_high /\ n.rx_buffer = sent.rx_buffer
       /\ n.tx_buffer = sent.tx_buffer /\ n.tx_event = sent.tx_event
       /\ n.tx_win_low = sent.tx_win_low
  BY <1>15 DEF Keeps, Fields
<1>18. sent.tx_buffer = buf /\ sent.tx_event = event /\ sent.tx_win_low = sk.tx_win_low
  BY <1>5, <1>6, <1>9 DEF Keeps, Fields
<1>19. Keeps(sk, n, {"ref", "queued", "fault", "rx_win_high", "acked", "wire",
                     "tx_highest_seq", "tx_buffer", "tx_event"})
  BY <1>5, <1>9, <1>15 DEF Keeps
<1>20. /\ high \in SeqNum
       /\ Dist(high, sk.tx_win_low) = Len(buf)
  <2>1. Len(buf) < SeqSpace /\ k \in 0 .. SeqSpace
    BY <1>2, <1>3, <1>4, Sizes
  <2>2. Dist(sk.tx_highest_seq, sk.tx_win_low) + k < SeqSpace
    BY <1>2, <1>3, <2>1
  <2>3. high \in SeqNum
    BY <1>2, <2>1, Advance DEF high
  <2>4. Dist(high, sk.tx_win_low) = Dist(sk.tx_highest_seq, sk.tx_win_low) + k
    BY <1>2, <2>2, DistAdvance DEF high
  <2> QED
    BY <1>2, <1>3, <2>3, <2>4
<1>21. RxTyped(n) /\ n.acked = n.rx_win_low
  BY <1>9, <1>17 DEF RxTyped
<1>22. ~n.tx_event => Len(n.tx_buffer) = TxBufferSize
  <2>1. ~event => Len(buf) = TxBufferSize
    BY <1>3
  <2> QED
    BY <1>17, <1>18, <2>1, Zenon
<1>23. n.queued = (sk.queued \ {"ack_delay"}) \cup {"retransmit"}
  BY <1>6, <1>9, <1>16
<1>24. n.tx_highest_seq \in SeqNum /\ n.tx_buffer \in Seq(Int) /\ Len(n.tx_buffer) <= TxBufferSize
       /\ Dist(n.tx_highest_seq, n.tx_win_low) = Len(n.tx_buffer)
  BY <1>3, <1>4, <1>16, <1>17, <1>18, <1>20
<1>25. Sound(n, t, h)
  BY <1>14, <1>19, <1>21, <1>22, <1>23, <1>24, TxOnly
<1> QED
  BY <1>14, <1>25 DEF n, filled, buf

\* tcp_read takes the first k bytes of rx_buffer.
LEMMA ReadSound ==
  ASSUME NEW sk, NEW t, NEW h, Sound(sk, t, h), NEW k \in 0 .. Len(sk.rx_buffer)
  PROVE  LET n == [sk EXCEPT !.rx_buffer = SubSeq(@, k + 1, Len(@)),
                             !.rx_event = ~(k = Len(sk.rx_buffer) /\ sk.state = "ESTABLISHED")]
         IN  Sound(n, t, h) /\ Balanced(sk, n)
<1> DEFINE rest == SubSeq(sk.rx_buffer, k + 1, Len(sk.rx_buffer))
           Empty == k = Len(sk.rx_buffer) /\ sk.state = "ESTABLISHED"
           n == [sk EXCEPT !.rx_buffer = rest, !.rx_event = ~Empty]
<1>1. IsSocket(sk) /\ Basic(sk) /\ RxTyped(sk) /\ DOMAIN sk = Fields
  BY DEF Sound, IsSocket, Basic
<1>2. rest \in Seq(Int) /\ (k = Len(sk.rx_buffer) => rest = <<>>)
  <2>1. sk.rx_buffer \in Seq(Int) /\ Len(sk.rx_buffer) \in Nat
    BY <1>1 DEF RxTyped
  <2>2. k + 1 \in Int /\ k + 1 >= 1 /\ (k = Len(sk.rx_buffer) => k + 1 > Len(sk.rx_buffer))
    BY <2>1
  <2> QED
    BY <2>1, <2>2, Cut
<1> HIDE DEF rest, Empty
<1>3. Keeps(sk, n, {"rx_buffer", "rx_event"}) /\ n.rx_buffer = rest /\ n.rx_event = ~Empty
  BY <1>1 DEF Keeps, Fields
<1> HIDE DEF n
<1>4. Balanced(sk, n) /\ Basic(n)
  BY <1>1, <1>3, BalancedKeeps DEF Balanced
<1>5. /\ n.state = sk.state /\ n.rx_win_low = sk.rx_win_low /\ n.rx_win_high = sk.rx_win_high
      /\ n.acked = sk.acked /\ n.queued = sk.queued
  BY <1>3 DEF Keeps, Fields
<1>6. RxTyped(n) /\ AckDue(n, t)
  BY <1>1, <1>2, <1>3, <1>5 DEF RxTyped, Sound, AckDue
<1>7. ~n.rx_event => n.rx_buffer = <<>> /\ n.state \in {"SYN_RCVD", "ESTABLISHED"}
  <2>1. ~n.rx_event => Empty
    BY <1>3, Zenon
  <2>2. Empty => rest = <<>> /\ sk.state = "ESTABLISHED"
    BY <1>2 DEF Empty
  <2> QED
    BY <1>3, <1>5, <2>1, <2>2
<1>8. Keeps(sk, n, RxFields)
  BY <1>3 DEF Keeps, RxFields
<1>9. Sound(n, t, h)
  BY <1>4, <1>5, <1>6, <1>7, <1>8, RxOnly
<1> QED
  BY <1>4, <1>9 DEF n, rest, Empty

\* tcp_close of a connection that is still open for writing.
LEMMA FinishSound ==
  ASSUME NEW sk, NEW t, NEW h, Sound(sk, t, h),
         sk.state \in {"SYN_RCVD", "ESTABLISHED", "CLOSE_WAIT"},
         NEW state \in {"FIN_WAIT_1", "LAST_ACK"}
  PROVE  LET n == tcp_wakeup_waiters(Finish(sk, state)) IN
         Sound(n, t, "closed") /\ Spare(n) = Spare(sk) /\ n.fault = sk.fault
<1> DEFINE a == [sk EXCEPT !.state = state]
           b == tcp_socket_send(a, <<>>, {"FIN"}, sk.tx_win_low)
           c == Finish(sk, state)
           n == tcp_wakeup_waiters(c)
<1>1. IsSocket(sk) /\ Basic(sk) /\ RxTyped(sk) /\ DOMAIN sk = Fields
  BY DEF Sound, IsSocket, Basic
<1>2. c = [b EXCEPT !.tx_win_low = (@ + 1) % SeqSpace]
  BY DEF Finish
<1>3. Keeps(sk, a, {"state"}) /\ a.state = state
  BY <1>1 DEF Keeps, Fields
<1> HIDE DEF a
<1>4. a.rx_win_low = sk.rx_win_low /\ a.rx_win_high = sk.rx_win_high
      /\ a.rx_buffer = sk.rx_buffer /\ a.queued = sk.queued
  BY <1>3 DEF Keeps, Fields
<1>5. Balanced(sk, a) /\ Basic(a) /\ RxTyped(a)
  <2>1. RxTyped(a)
    BY <1>1, <1>4 DEF RxTyped
  <2> QED
    BY <1>1, <1>3, <2>1, BalancedKeeps DEF Balanced
<1>6. /\ Keeps(a, b, {"ref", "queued", "rx_win_high", "acked", "wire"})
      /\ b.queued = a.queued \ {"ack_delay"} /\ Balanced(a, b) /\ RxTyped(b) /\ Basic(b)
  BY <1>5, SocketSend DEF Balanced
<1> HIDE DEF b, c, n
<1>7. Keeps(b, c, {"tx_win_low"}) /\ c.tx_win_low = (b.tx_win_low + 1) % SeqSpace
  BY <1>2, <1>6 DEF Keeps, Fields, Basic
<1>8. Keeps(c, n, {"rx_event", "tx_event"}) /\ n.rx_event = TRUE /\ n.tx_event = TRUE
  BY <1>7 DEF n, tcp_wakeup_waiters, Keeps, Fields
<1>9. Keeps(b, n, {"tx_win_low", "rx_event", "tx_event"})
  BY <1>7, <1>8 DEF Keeps
<1>10. Balanced(b, n) /\ Basic(n)
  BY <1>6, <1>9, BalancedKeeps DEF Balanced
<1>11. Spare(n) = Spare(sk)
  BY <1>5, <1>6, <1>10 DEF Balanced
<1>12. n.tx_win_low \in SeqNum
  <2>1. b.tx_win_low = sk.tx_win_low /\ n.tx_win_low = c.tx_win_low
    BY <1>3, <1>6, <1>8 DEF Keeps, Fields
  <2>2. sk.tx_win_low \in SeqNum /\ 1 \in 0 .. SeqSpace
    BY <1>1, Sizes DEF IsSocket
  <2> QED
    BY <1>7, <2>1, <2>2, Advance
<1>13. /\ n.state = state /\ n.in_list = sk.in_list /\ n.tx_buffer = sk.tx_buffer
       /\ n.fault = sk.fault
       /\ n.tx_highest_seq = sk.tx_highest_seq /\ n.queued = sk.queued \ {"ack_delay"}
       /\ n.rx_win_low = b.rx_win_low /\ n.rx_win_high = b.rx_win_high
       /\ n.rx_buffer = b.rx_buffer
  BY <1>3, <1>4, <1>6, <1>9 DEF Keeps, Fields
<1>14. IsSocket(n)
  <2>1. RxTyped(n)
    BY <1>6, <1>13 DEF RxTyped
  <2> QED
    BY <1>1, <1>10, <1>12, <1>13, <2>1 DEF IsSocket, States
<1>15. Listed(n, t, "closed")
  <2>1. Listed(sk, t, h)
    BY DEF Sound
  <2> QED
    BY <1>13, <2>1 DEF Listed, ClosedByApp
<1>16. Len(n.tx_buffer) <= TxBufferSize
  BY <1>13 DEF Sound, AllSent
<1>17. Sound(n, t, "closed")
  BY <1>8, <1>13, <1>14, <1>15, <1>16, Light
<1> QED
  BY <1>11, <1>13, <1>17 DEF n, c

\* tcp_close of a connection that the peer has reset.
LEMMA CloseClosed ==
  ASSUME NEW sk, NEW t, NEW h, Sound(sk, t, h), sk.state = "CLOSED", h # "closed"
  PROVE  LET n == tcp_wakeup_waiters(
                    dec_socket_ref(
                      tcp_timer_cancel(
                        tcp_timer_cancel(remove_socket_from_list(sk), "ack_delay"), "retransmit")))
         IN  Sound(n, t, "closed") /\ Spare(n) = Spare(sk) /\ n.fault = sk.fault
<1> DEFINE a == remove_socket_from_list(sk)
           b == tcp_timer_cancel(a, "ack_delay")
           c == tcp_timer_cancel(b, "retransmit")
           d == dec_socket_ref(c)
           n == tcp_wakeup_waiters(d)
<1>1. IsSocket(sk) /\ Basic(sk) /\ RxTyped(sk) /\ DOMAIN sk = Fields
  BY DEF Sound, IsSocket, Basic
<1>2. /\ Keeps(sk, a, {"in_list", "fault"}) /\ a.in_list = FALSE
      /\ a.fault = (IF sk.in_list \/ sk.fault # "none" THEN sk.fault ELSE "list")
  BY <1>1, Remove
<1>3. sk.in_list <=> TRUE
  <2>1. Listed(sk, t, h)
    BY DEF Sound
  <2> QED
    BY <2>1, Zenon DEF Listed
<1> HIDE DEF a
<1>4. a.fault = sk.fault /\ a.ref = sk.ref /\ a.queued = sk.queued
  BY <1>2, <1>3 DEF Keeps, Fields
<1>5. Basic(a)
  BY <1>1, <1>2, <1>4 DEF Basic, Keeps
<1>6. Keeps(a, b, {"ref", "queued"}) /\ b.queued = a.queued \ {"ack_delay"}
      /\ Balanced(a, b) /\ Basic(b)
  BY <1>5, TimerCancel DEF Timers, Balanced
<1> HIDE DEF b
<1>7. Keeps(b, c, {"ref", "queued"}) /\ c.queued = b.queued \ {"retransmit"}
      /\ Balanced(b, c) /\ Basic(c)
  BY <1>6, TimerCancel DEF Timers, Balanced
<1> HIDE DEF c
<1>8. Keeps(c, d, {"ref"}) /\ d.ref = c.ref - 1
  BY <1>7, Dec DEF Basic
<1> HIDE DEF d
<1>9. Keeps(d, n, {"rx_event", "tx_event"}) /\ n.rx_event = TRUE /\ n.tx_event = TRUE
  BY <1>8 DEF tcp_wakeup_waiters, Keeps, Fields
<1> HIDE DEF n
<1>10. Keeps(a, c, {"ref", "queued"}) /\ Keeps(c, n, {"ref", "rx_event", "tx_event"})
       /\ n.ref = d.ref
  BY <1>6, <1>7, <1>8, <1>9 DEF Keeps, Fields
<1>11. /\ n.in_list = FALSE /\ n.queued = c.queued /\ n.ref = c.ref - 1
       /\ n.fault = sk.fault /\ c.in_list = FALSE
  BY <1>2, <1>4, <1>8, <1>10 DEF Keeps, Fields
<1>12. Spare(n) = Spare(sk)
  <2>1. Spare(c) = Spare(a)
    BY <1>6, <1>7 DEF Balanced
  <2>2. Cardinality(sk.queued) \in Nat /\ sk.ref \in Int
    BY <1>1, Counted DEF Basic, Timers
  <2>3. Cardinality(c.queued) \in Nat /\ c.ref \in Int
    BY <1>7, Counted DEF Basic, Timers
  <2>4. One(sk.in_list) = 1 /\ One(a.in_list) = 0 /\ One(c.in_list) = 0 /\ One(n.in_list) = 0
    BY <1>2, <1>3, <1>11 DEF One
  <2>5. Spare(a) = sk.ref - Cardinality(sk.queued) - 0
    BY <1>4, <2>4 DEF Spare
  <2>6. Spare(c) = c.ref - Cardinality(c.queued) - 0
    BY <2>4 DEF Spare
  <2>7. Spare(n) = (c.ref - 1) - Cardinality(c.queued) - 0
    BY <1>11, <2>4 DEF Spare
  <2>8. Spare(sk) = sk.ref - Cardinality(sk.queued) - 1
    BY <2>4 DEF Spare
  <2> QED
    BY <2>1, <2>2, <2>3, <2>5, <2>6, <2>7, <2>8
<1>13. /\ n.state = sk.state /\ n.rx_win_low = sk.rx_win_low /\ n.rx_win_high = sk.rx_win_high
       /\ n.rx_buffer = sk.rx_buffer /\ n.tx_win_low = sk.tx_win_low
       /\ n.tx_highest_seq = sk.tx_highest_seq /\ n.tx_buffer = sk.tx_buffer
  BY <1>2, <1>10 DEF Keeps, Fields
<1>14. IsSocket(n)
  <2>1. Basic(n)
    BY <1>7, <1>10, <1>11 DEF Basic, Keeps
  <2>2. RxTyped(n)
    BY <1>1, <1>13 DEF RxTyped
  <2> QED
    BY <1>1, <1>13, <2>1, <2>2 DEF IsSocket
<1>15. Listed(n, t, "closed")
  <2>1. Listed(sk, t, h)
    BY DEF Sound
  <2>2. "time_wait" \in n.queued <=> "time_wait" \in sk.queued
    BY <1>4, <1>6, <1>7, <1>11
  <2> QED
    BY <1>13, <2>1, <2>2 DEF Listed, ClosedByApp
<1>16. Len(n.tx_buffer) <= TxBufferSize
  BY <1>13 DEF Sound, AllSent
<1>17. Sound(n, t, "closed")
  BY <1>9, <1>13, <1>14, <1>15, <1>16, Light
<1> QED
  BY <1>11, <1>12, <1>17 DEF n, d, c, b, a

-----------------------------------------------------------------------------
(***************************************************************************)
(* The steps.                                                              *)
(***************************************************************************)
LEMMA OneIs ==
  ASSUME NEW p
  PROVE  One(p) \in {0, 1} /\ (p => One(p) = 1) /\ (~p => One(p) = 0)
BY DEF One

\* A step that leaves the socket sound or stops at one of the two assertions.
LEMMA Arrives ==
  ASSUME s'.fault \in {"none", "offset", "time_wait"},
         s'.fault = "none" => Around' /\ Sound(s', firing', app'.handle) /\ Spare(s') = Holders'
  PROVE  TcpInv'
BY DEF TcpInv, OnlyTwoAssertsFail, Running, Connected

LEMMA LiveConnected ==
  ASSUME TcpInv, Live
  PROVE  Around /\ Connected /\ s.fault = "none" /\ s.ref > 0
<1>1. s.fault = "none" /\ s.ref > 0 /\ Around /\ (BeforeSyn \/ Connected)
  BY DEF TcpInv, Live, Running
<1>2. ~BeforeSyn
  <2>1. NoSocket.ref = 0
    BY DEF NoSocket
  <2> QED
    BY <1>1, <2>1 DEF BeforeSyn
<1> QED
  BY <1>1, <1>2

LEMMA ListenStep ==
  ASSUME TcpInv, tcp_input_listen
  PROVE  TcpInv'
<1> DEFINE low == (PeerIsn + 1) % SeqSpace
           high == (low + RxWinSize - 1) % SeqSpace
           new == [create_tcp_socket EXCEPT
                     !.state = "SYN_RCVD", !.in_list = TRUE,
                     !.rx_win_low = low, !.rx_win_high = high]
           sent == tcp_socket_send(new, <<>>, {"SYN"}, new.tx_win_low)
<1>1. /\ s' = [sent EXCEPT !.tx_win_low = (@ + 1) % SeqSpace]
      /\ accepted' = TRUE /\ UNCHANGED <<app, input, firing>>
  BY DEF tcp_input_listen
<1>2. Around /\ BeforeSyn
  BY DEF tcp_input_listen, TcpInv, Running, Connected, Sound, IsSocket
<1>3. low \in Int /\ high \in Int
  <2>1. SeqSpace \in Nat \ {0} /\ RxWinSize \in Nat /\ PeerIsn \in Int
    BY Sizes, SizesAssumption, ArgumentsAssumption
  <2>2. \A x \in Int : x % SeqSpace \in Int
    BY <2>1, Quotient
  <2>3. low \in Int
    BY <2>1, <2>2
  <2> HIDE DEF low
  <2>4. low + RxWinSize - 1 \in Int
    BY <2>1, <2>3
  <2> QED
    BY <2>2, <2>3, <2>4
<1> HIDE DEF low, high
<1>4. /\ DOMAIN new = Fields /\ new.state = "SYN_RCVD" /\ new.in_list = TRUE
      /\ new.ref = 1 /\ new.queued = {} /\ new.fault = "none"
      /\ new.rx_win_low = low /\ new.rx_win_high = high /\ new.rx_buffer = <<>>
      /\ new.tx_event = TRUE /\ new.tx_buffer = <<>>
      /\ new.tx_win_low = LocalIsn /\ new.tx_highest_seq = LocalIsn
  BY DEF create_tcp_socket, NoSocket, Fields
<1> HIDE DEF new
<1>5. Basic(new) /\ RxTyped(new) /\ Spare(new) = 0
  <2>1. Cardinality(new.queued) = 0 /\ One(new.in_list) = 1
    BY <1>4, FS_EmptySet DEF One
  <2> QED
    BY <1>3, <1>4, <2>1 DEF Basic, RxTyped, Spare
<1>6. /\ Keeps(new, sent, {"ref", "queued", "rx_win_high", "acked", "wire"})
      /\ sent.queued = new.queued \ {"ack_delay"} /\ sent.acked = sent.rx_win_low
      /\ Balanced(new, sent) /\ RxTyped(sent) /\ Basic(sent)
  BY <1>5, SocketSend DEF Balanced
<1> HIDE DEF sent
<1>7. Keeps(sent, s', {"tx_win_low"}) /\ s'.tx_win_low = (sent.tx_win_low + 1) % SeqSpace
  BY <1>1, <1>6 DEF Keeps, Fields, Basic
<1>8. Balanced(sent, s') /\ Basic(s')
  BY <1>6, <1>7, BalancedKeeps DEF Balanced
<1>9. /\ s'.state = "SYN_RCVD" /\ s'.in_list = TRUE /\ s'.queued = {} /\ s'.fault = "none"
      /\ s'.rx_buffer = <<>> /\ s'.tx_buffer = <<>> /\ s'.tx_event = TRUE
      /\ s'.tx_highest_seq = LocalIsn /\ sent.tx_win_low = LocalIsn
      /\ s'.acked = s'.rx_win_low
      /\ s'.rx_win_low = sent.rx_win_low /\ s'.rx_win_high = sent.rx_win_high
  BY <1>4, <1>6, <1>7 DEF Keeps, Fields
<1>10. Spare(s') = 0
  BY <1>5, <1>6, <1>8 DEF Balanced
<1>11. IsSocket(s')
  <2>1. LocalIsn \in SeqNum /\ 1 \in 0 .. SeqSpace
    BY Sizes, ArgumentsAssumption DEF SeqNum
  <2>2. s'.tx_win_low \in SeqNum
    BY <1>7, <1>9, <2>1, Advance
  <2>3. RxTyped(s')
    BY <1>3, <1>6, <1>9 DEF RxTyped
  <2> QED
    BY <1>8, <1>9, <2>1, <2>2, <2>3 DEF IsSocket, States
<1>12. Sound(s', firing', app'.handle)
  <2>1. AllSent(s') /\ RetransmitDue(s', firing') /\ AckDue(s', firing') /\ EventsSet(s')
    BY <1>9, Sizes DEF AllSent, RetransmitDue, AckDue, EventsSet
  <2>2. Listed(s', firing', app'.handle)
    BY <1>1, <1>2, <1>9 DEF Listed, BeforeSyn, ClosedByApp
  <2> QED
    BY <1>11, <2>1, <2>2 DEF Sound
<1>13. Around' /\ Holders' = 0
  <2>1. Holders' = 0
    BY <1>1, <1>2 DEF BeforeSyn, Holders, One
  <2> QED
    BY <1>1, <1>2, <2>1 DEF Around, BeforeSyn
<1> QED
  BY <1>9, <1>10, <1>12, <1>13, Arrives

LEMMA LookupStep ==
  ASSUME TcpInv, lookup_socket
  PROVE  TcpInv'
<1>1. Around /\ Connected /\ s.fault = "none" /\ s.ref > 0
  BY LiveConnected DEF lookup_socket
<1>2. /\ s' = inc_socket_ref(s) /\ ~input /\ input' = TRUE
      /\ UNCHANGED <<accepted, app, firing>>
  BY DEF lookup_socket
<1>3. /\ Sound(s', firing, app.handle) /\ Spare(s') = Spare(s) + 1 /\ s'.fault = "none"
  BY <1>1, <1>2, IncSound DEF Connected
<1>4. Holders' = Holders + 1
  <2>1. One(input) = 0 /\ One(input') = 1
    BY <1>2 DEF One
  <2>2. One(firing # "none") \in {0, 1} /\ One(app.reading) \in {0, 1}
        /\ One(app.writing > 0) \in {0, 1}
    BY DEF One
  <2> QED
    BY <1>2, <2>1, <2>2 DEF Holders
<1>5. Around'
  BY <1>1, <1>2 DEF Around
<1> QED
  BY <1>1, <1>2, <1>3, <1>4, <1>5, Arrives DEF Connected

LEMMA InputStep ==
  ASSUME TcpInv, tcp_input
  PROVE  TcpInv'
<1>1. Around /\ Connected /\ s.fault = "none" /\ s.ref > 0
  BY LiveConnected DEF tcp_input
<1>2. PICK seg \in FromPeer : s' = dec_socket_ref(Handled(s, seg))
  BY DEF tcp_input
<1>3. input /\ input' = FALSE /\ UNCHANGED <<accepted, app, firing>>
  BY DEF tcp_input
<1>4. One(input) = 1 /\ One(input') = 0
  BY <1>3 DEF One
<1>5. One(firing # "none") \in {0, 1} /\ One(app.reading) \in {0, 1}
      /\ One(app.writing > 0) \in {0, 1}
  BY DEF One
<1>6. Holders' = Holders - 1 /\ Holders > 0 /\ Holders \in Int
  <2> DEFINE f == One(firing # "none")
             r == One(app.reading)
             w == One(app.writing > 0)
  <2>1. Holders = f + 1 + r + w /\ Holders' = f + 0 + r + w
    BY <1>3, <1>4 DEF Holders
  <2>2. f \in {0, 1} /\ r \in {0, 1} /\ w \in {0, 1}
    BY <1>5
  <2> HIDE DEF f, r, w
  <2> QED
    BY <2>1, <2>2
<1> DEFINE n == Handled(s, seg)
<1>7. Sound(n, firing, app.handle) /\ Settled(s, n)
  BY <1>1, HandledSound, PeerSegments DEF Connected
<1> HIDE DEF n
<1>8. Spare(n) = Spare(s) /\ n.fault \in {"none", "offset"}
  BY <1>1, <1>6, <1>7 DEF Settled, Connected
<1>9. Sound(s', firing, app.handle) /\ Spare(s') = Spare(n) - 1 /\ s'.fault = n.fault
  BY <1>2, <1>7, DecSound DEF n
<1>10. Around'
  BY <1>1, <1>3 DEF Around
<1> QED
  BY <1>1, <1>3, <1>6, <1>8, <1>9, <1>10, Arrives DEF Connected

LEMMA FireStep ==
  ASSUME TcpInv, NEW t \in Timers, net_timer_fire(t)
  PROVE  TcpInv'
<1>1. Around /\ Connected /\ s.fault = "none" /\ s.ref > 0
  BY LiveConnected DEF net_timer_fire
<1>2. /\ firing = "none" /\ firing' = t /\ t \in s.queued
      /\ s' = [s EXCEPT !.queued = @ \ {t}]
      /\ UNCHANGED <<accepted, app, input>>
  BY DEF net_timer_fire
<1>3. Sound(s, "none", app.handle) /\ IsSocket(s) /\ Basic(s) /\ DOMAIN s = Fields
  BY <1>1, <1>2 DEF Connected, Sound, IsSocket, Basic
<1>4. Keeps(s, s', {"queued"}) /\ s'.queued = s.queued \ {t}
  BY <1>2, <1>3 DEF Keeps, Fields
<1>5. /\ s'.state = s.state /\ s'.ref = s.ref /\ s'.in_list = s.in_list /\ s'.fault = s.fault
      /\ s'.rx_win_low = s.rx_win_low /\ s'.rx_win_high = s.rx_win_high
      /\ s'.rx_buffer = s.rx_buffer /\ s'.rx_event = s.rx_event /\ s'.acked = s.acked
      /\ s'.tx_win_low = s.tx_win_low /\ s'.tx_highest_seq = s.tx_highest_seq
      /\ s'.tx_buffer = s.tx_buffer /\ s'.tx_event = s.tx_event
  BY <1>4 DEF Keeps, Fields
<1>6. IsSocket(s')
  BY <1>3, <1>4, <1>5 DEF IsSocket, Basic, RxTyped, Keeps
<1>7. Spare(s') = Spare(s) + 1
  <2>1. Cardinality(s'.queued) = Cardinality(s.queued) - 1 /\ Cardinality(s.queued) \in Nat
    BY <1>2, <1>3, <1>4, Counted DEF Basic
  <2>2. One(s'.in_list) = One(s.in_list) /\ One(s.in_list) \in Int
    BY <1>5 DEF One
  <2>3. s.ref \in Int
    BY <1>3 DEF Basic
  <2> QED
    BY <1>5, <2>1, <2>2, <2>3 DEF Spare
<1>8. s'.queued \cup {t} = s.queued /\ t # "none"
  BY <1>2, <1>4 DEF Timers
<1>9. AllSent(s') /\ RetransmitDue(s', t) /\ AckDue(s', t)
  BY <1>3, <1>5, <1>8 DEF Sound, AllSent, RetransmitDue, AckDue
<1>10. EventsSet(s')
  <2>1. EventsSet(s)
    BY <1>3 DEF Sound
  <2> QED
    BY <1>5, <2>1, Zenon DEF EventsSet
<1>11. Listed(s', t, app.handle)
  <2>1. Listed(s, "none", app.handle)
    BY <1>3 DEF Sound
  <2> QED
    BY <1>4, <1>5, <1>8, <2>1 DEF Listed
<1>12. Sound(s', t, app.handle)
  BY <1>6, <1>9, <1>10, <1>11 DEF Sound
<1>13. Holders' = Holders + 1
  <2>1. One(firing # "none") = 0 /\ One(firing' # "none") = 1
    BY <1>2, <1>8 DEF One
  <2>2. One(input) \in {0, 1} /\ One(app.reading) \in {0, 1} /\ One(app.writing > 0) \in {0, 1}
    BY DEF One
  <2> QED
    BY <1>2, <2>1, <2>2 DEF Holders
<1>14. Around'
  BY <1>1, <1>2 DEF Around
<1> QED
  BY <1>1, <1>2, <1>5, <1>7, <1>12, <1>13, <1>14, Arrives DEF Connected

\* A callback that leaves the socket sound gives its reference back.
LEMMA CallbackStep ==
  ASSUME TcpInv, NEW t \in Timers, NEW n, Callback(t, n), s.fault = "none",
         Sound(n, "none", app.handle), Balanced(s, n)
  PROVE  TcpInv'
<1>1. Around /\ Connected /\ s.fault = "none" /\ s.ref > 0
  BY LiveConnected DEF Callback
<1>2. /\ firing = t /\ firing' = "none" /\ s' = dec_socket_ref(n)
      /\ UNCHANGED <<accepted, app, input>>
  BY DEF Callback
<1>3. Holders' = Holders - 1 /\ Holders > 0 /\ Holders \in Int
  <2> DEFINE i == One(input)
             r == One(app.reading)
             w == One(app.writing > 0)
  <2>1. One(firing # "none") = 1 /\ One(firing' # "none") = 0
    BY <1>2 DEF One, Timers
  <2>2. Holders = 1 + i + r + w /\ Holders' = 0 + i + r + w
    BY <1>2, <2>1 DEF Holders
  <2>3. i \in {0, 1} /\ r \in {0, 1} /\ w \in {0, 1}
    BY OneIs
  <2> HIDE DEF i, r, w
  <2> QED
    BY <2>2, <2>3
<1>4. Spare(n) = Spare(s) /\ n.fault = "none"
  BY <1>1, <1>3 DEF Balanced, Connected
<1>5. Sound(s', "none", app.handle) /\ Spare(s') = Spare(n) - 1 /\ s'.fault = n.fault
  BY <1>2, DecSound
<1>6. Around'
  BY <1>1, <1>2 DEF Around
<1> QED
  BY <1>1, <1>2, <1>3, <1>4, <1>5, <1>6, Arrives DEF Connected

LEMMA RetransmitStep ==
  ASSUME TcpInv, handle_retransmit_timeout
  PROVE  TcpInv'
<1>1. Callback("retransmit", tcp_retransmit(s)) /\ "retransmit" \in Timers
  BY DEF handle_retransmit_timeout, Timers
<1>2. Connected /\ s.fault = "none" /\ firing = "retransmit"
  BY <1>1, LiveConnected DEF Callback
<1>3. Sound(tcp_retransmit(s), "none", app.handle) /\ Balanced(s, tcp_retransmit(s))
  BY <1>2, RetransmitSound DEF Connected
<1> QED
  BY <1>1, <1>2, <1>3, CallbackStep

LEMMA DelayedAckStep ==
  ASSUME TcpInv, handle_delayed_ack_timeout
  PROVE  TcpInv'
<1>1. Callback("ack_delay", send_ack(s)) /\ "ack_delay" \in Timers
  BY DEF handle_delayed_ack_timeout, Timers
<1>2. Connected /\ s.fault = "none" /\ firing = "ack_delay"
  BY <1>1, LiveConnected DEF Callback
<1>3. Sound(send_ack(s), "none", app.handle) /\ Balanced(s, send_ack(s))
  BY <1>2, SendAckSound DEF Connected
<1> QED
  BY <1>1, <1>2, <1>3, CallbackStep

LEMMA TimeWaitStep ==
  ASSUME TcpInv, handle_time_wait_timeout
  PROVE  TcpInv'
<1> DEFINE sk == Assert(s.state = "TIME_WAIT", s, "time_wait")
           n == IF sk.fault # "none" THEN sk ELSE dec_socket_ref(remove_socket_from_list(sk))
<1>1. Callback("time_wait", n) /\ "time_wait" \in Timers
  BY DEF handle_time_wait_timeout, Timers
<1>2. /\ Connected /\ s.fault = "none" /\ firing = "time_wait" /\ s' = dec_socket_ref(n)
  BY <1>1, LiveConnected DEF Callback
<1>3. CASE s.state = "TIME_WAIT"
  <2>1. sk = s
    BY <1>3 DEF Assert
  <2>2. n = dec_socket_ref(remove_socket_from_list(s))
    BY <1>2, <2>1
  <2>3. (s.in_list <=> TRUE) /\ app.handle = "closed"
    <3>1. Listed(s, "time_wait", app.handle)
      BY <1>2 DEF Connected, Sound
    <3> QED
      BY <1>3, <3>1, Zenon DEF Listed, ClosedByApp
  <2> HIDE DEF n, sk
  <2>4. Sound(n, "none", app.handle) /\ Balanced(s, n)
    BY <1>2, <1>3, <2>2, <2>3, Unlist DEF Connected
  <2> QED
    BY <1>1, <1>2, <2>4, CallbackStep
<1>4. CASE s.state # "TIME_WAIT"
  <2>1. DOMAIN s = Fields
    BY <1>2 DEF Connected, Sound, IsSocket, Basic
  <2>2. sk.fault = "time_wait" /\ DOMAIN sk = Fields
    BY <1>2, <1>4, <2>1 DEF Assert, Fields
  <2>3. n = sk
    BY <2>2
  <2> HIDE DEF n, sk
  <2>4. s'.fault = "time_wait"
    BY <1>2, <2>2, <2>3, Dec DEF Keeps, Fields
  <2> QED
    BY <2>4, Arrives
<1> QED
  BY <1>3, <1>4

LEMMA ReadStep ==
  ASSUME TcpInv, tcp_read
  PROVE  TcpInv'
<1>1. Around /\ Connected /\ s.fault = "none" /\ s.ref > 0
  BY LiveConnected DEF tcp_read
<1>2. /\ s' = inc_socket_ref(s) /\ ~app.reading /\ app' = [app EXCEPT !.reading = TRUE]
      /\ UNCHANGED <<accepted, input, firing>>
  BY DEF tcp_read
<1>3. DOMAIN app' = AppFields /\ app'.handle = app.handle /\ app'.writing = app.writing
      /\ app'.written = app.written /\ app'.reading = TRUE
  BY <1>1, <1>2 DEF Around, AppFields
<1>4. Sound(s', firing, app.handle) /\ Spare(s') = Spare(s) + 1 /\ s'.fault = "none"
  BY <1>1, <1>2, IncSound DEF Connected
<1>5. Holders' = Holders + 1
  <2> DEFINE f == One(firing # "none")
             i == One(input)
             w == One(app.writing > 0)
  <2>1. One(app.reading) = 0 /\ One(app'.reading) = 1
    BY <1>2, <1>3 DEF One
  <2>2. Holders = f + i + 0 + w /\ Holders' = f + i + 1 + w
    BY <1>2, <1>3, <2>1 DEF Holders
  <2>3. f \in {0, 1} /\ i \in {0, 1} /\ w \in {0, 1}
    BY OneIs
  <2> HIDE DEF f, i, w
  <2> QED
    BY <2>2, <2>3
<1>6. Around'
  BY <1>1, <1>2, <1>3 DEF Around
<1> QED
  BY <1>1, <1>2, <1>3, <1>4, <1>5, <1>6, Arrives DEF Connected

LEMMA ReadResumeStep ==
  ASSUME TcpInv, tcp_read_resume
  PROVE  TcpInv'
<1>1. Around /\ Connected /\ s.fault = "none" /\ s.ref > 0
  BY LiveConnected DEF tcp_read_resume
<1> DEFINE k(len) == Least(len, Len(s.rx_buffer))
           read(len) == [s EXCEPT !.rx_buffer = SubSeq(@, k(len) + 1, Len(@)),
                           !.rx_event = ~(k(len) = Len(s.rx_buffer) /\ s.state = "ESTABLISHED")]
           opened(len) == /\ RxWinSize - Len(read(len).rx_buffer) >= Mss
                          /\ Dist(read(len).rx_win_high, read(len).rx_win_low) < Mss
           again(len) == k(len) = 0 /\ s.state = "ESTABLISHED"
<1>2. PICK len \in ReadLens :
        /\ app' = [app EXCEPT !.reading = again(len), !.got = @ \o SubSeq(s.rx_buffer, 1, k(len))]
        /\ s' = IF again(len) THEN read(len)
                ELSE dec_socket_ref(IF k(len) > 0 /\ opened(len) THEN send_ack(read(len))
                                    ELSE read(len))
  BY DEF tcp_read_resume
<1>3. app.reading /\ UNCHANGED <<accepted, input, firing>>
  BY DEF tcp_read_resume
<1>4. k(len) \in 0 .. Len(s.rx_buffer)
  <2>1. len \in Nat \ {0}
    BY ArgumentsAssumption
  <2>2. Len(s.rx_buffer) \in Nat
    BY <1>1 DEF Connected, Sound, IsSocket, RxTyped
  <2> QED
    BY <2>1, <2>2 DEF Least
<1> DEFINE r == read(len)
           sent == IF k(len) > 0 /\ opened(len) THEN send_ack(r) ELSE r
           Again == again(len)
<1>5. Sound(r, firing, app.handle) /\ Balanced(s, r)
  <2> DEFINE j == k(len)
  <2>1. r = [s EXCEPT !.rx_buffer = SubSeq(@, j + 1, Len(@)),
               !.rx_event = ~(j = Len(s.rx_buffer) /\ s.state = "ESTABLISHED")]
        /\ j \in 0 .. Len(s.rx_buffer)
    BY <1>4
  <2> HIDE DEF j, r
  <2> QED
    BY <1>1, <2>1, ReadSound DEF Connected
<1>6. s' = IF Again THEN r ELSE dec_socket_ref(sent)
  BY <1>2
<1>7. DOMAIN app' = AppFields /\ app'.handle = app.handle /\ app'.writing = app.writing
      /\ app'.written = app.written /\ app'.reading = Again
  BY <1>1, <1>2 DEF Around, AppFields
<1> HIDE DEF r, Again
<1>8. Sound(sent, firing, app.handle) /\ Balanced(s, sent)
  <2>1. CASE k(len) > 0 /\ opened(len)
    <3>1. sent = send_ack(r)
      BY <2>1
    <3>2. Sound(sent, firing, app.handle) /\ Balanced(r, sent)
      BY <1>5, <3>1, SendAckSound
    <3> HIDE DEF sent
    <3> QED
      BY <1>5, <3>2, BalancedTwice
  <2>2. CASE ~(k(len) > 0 /\ opened(len))
    <3>1. sent = r
      BY <2>2
    <3> QED
      BY <1>5, <3>1
  <2> QED
    BY <2>1, <2>2
<1> HIDE DEF sent
<1>9. One(app.reading) = 1
  BY <1>3 DEF One
<1> DEFINE f == One(firing # "none")
           i == One(input)
           w == One(app.writing > 0)
<1>10. f \in {0, 1} /\ i \in {0, 1} /\ w \in {0, 1}
  BY OneIs
<1>11. Holders = f + i + 1 + w /\ Holders' = f + i + One(Again) + w
  BY <1>3, <1>7, <1>9 DEF Holders
<1> HIDE DEF f, i, w
<1>12. Holders > 0 /\ Holders \in Int /\ Holders' = Holders + One(Again) - 1
  BY <1>10, <1>11, OneIs
<1>13. Around'
  BY <1>1, <1>3, <1>7 DEF Around
<1>14. CASE Again
  <2>1. s' = r /\ One(Again) = 1
    BY <1>6, <1>14 DEF One
  <2>2. Spare(s') = Spare(s) /\ s'.fault = "none"
    BY <1>1, <1>5, <1>12, <2>1 DEF Balanced, Connected
  <2> QED
    BY <1>1, <1>3, <1>5, <1>7, <1>12, <1>13, <2>1, <2>2, Arrives DEF Connected
<1>15. CASE ~Again
  <2>1. s' = dec_socket_ref(sent) /\ One(Again) = 0
    BY <1>6, <1>15 DEF One
  <2>2. Sound(s', firing, app.handle) /\ Spare(s') = Spare(sent) - 1 /\ s'.fault = sent.fault
    BY <1>8, <2>1, DecSound
  <2>3. Spare(sent) = Spare(s) /\ sent.fault = "none"
    BY <1>1, <1>8, <1>12 DEF Balanced, Connected
  <2> QED
    BY <1>1, <1>3, <1>7, <1>12, <1>13, <2>1, <2>2, <2>3, Arrives DEF Connected
<1> QED
  BY <1>14, <1>15

LEMMA WriteStep ==
  ASSUME TcpInv, tcp_write
  PROVE  TcpInv'
<1>1. Around /\ Connected /\ s.fault = "none" /\ s.ref > 0
  BY LiveConnected DEF tcp_write
<1>2. PICK len \in WriteLens : app' = [app EXCEPT !.writing = len]
  BY DEF tcp_write
<1>3. s' = inc_socket_ref(s) /\ app.writing = 0 /\ UNCHANGED <<accepted, input, firing>>
  BY DEF tcp_write
<1>4. len \in Nat \ {0}
  BY ArgumentsAssumption
<1>5. DOMAIN app' = AppFields /\ app'.handle = app.handle /\ app'.writing = len
      /\ app'.written = app.written /\ app'.reading = app.reading
  BY <1>1, <1>2 DEF Around, AppFields
<1>6. Sound(s', firing, app.handle) /\ Spare(s') = Spare(s) + 1 /\ s'.fault = "none"
  BY <1>1, <1>3, IncSound DEF Connected
<1>7. Holders' = Holders + 1
  <2> DEFINE f == One(firing # "none")
             i == One(input)
             r == One(app.reading)
  <2>1. One(app.writing > 0) = 0 /\ One(app'.writing > 0) = 1
    BY <1>3, <1>4, <1>5 DEF One
  <2>2. Holders = f + i + r + 0 /\ Holders' = f + i + r + 1
    BY <1>3, <1>5, <2>1 DEF Holders
  <2>3. f \in {0, 1} /\ i \in {0, 1} /\ r \in {0, 1}
    BY OneIs
  <2> HIDE DEF f, i, r
  <2> QED
    BY <2>2, <2>3
<1>8. Around'
  BY <1>1, <1>3, <1>4, <1>5 DEF Around
<1> QED
  BY <1>1, <1>3, <1>5, <1>6, <1>7, <1>8, Arrives DEF Connected

LEMMA WriteResumeStep ==
  ASSUME TcpInv, tcp_write_resume
  PROVE  TcpInv'
<1>1. Around /\ Connected /\ s.fault = "none" /\ s.ref > 0
  BY LiveConnected DEF tcp_write_resume
<1>2. app.writing > 0 /\ UNCHANGED <<accepted, input, firing>>
  BY DEF tcp_write_resume
<1> DEFINE f == One(firing # "none")
           i == One(input)
           r == One(app.reading)
           k == Least(TxBufferSize - Len(s.tx_buffer), app.writing)
           data == [j \in 1 .. k |-> app.written + j]
           event == Len(s.tx_buffer) + k # TxBufferSize
           filled == [s EXCEPT !.tx_buffer = @ \o data, !.tx_event = event]
           sent == tcp_write_pending_data(filled)
<1>3. f \in {0, 1} /\ i \in {0, 1} /\ r \in {0, 1}
  BY OneIs
<1>4. Holders = f + i + r + 1
  BY <1>2 DEF Holders, One
<1>5. app'.reading = app.reading => Holders' = f + i + r + One(app'.writing > 0)
  BY <1>2 DEF Holders
<1> HIDE DEF f, i, r
<1>6. Holders > 0 /\ Holders \in Int
  BY <1>3, <1>4
<1>7. CASE s.state \notin {"ESTABLISHED", "CLOSE_WAIT"}
  <2>1. app' = [app EXCEPT !.writing = 0] /\ s' = dec_socket_ref(s)
    BY <1>7 DEF tcp_write_resume
  <2>2. DOMAIN app' = AppFields /\ app'.handle = app.handle /\ app'.writing = 0
        /\ app'.written = app.written /\ app'.reading = app.reading
    BY <1>1, <2>1 DEF Around, AppFields
  <2>3. Sound(s', firing, app.handle) /\ Spare(s') = Spare(s) - 1 /\ s'.fault = s.fault
    BY <1>1, <2>1, DecSound DEF Connected
  <2>4. Holders' = Holders - 1
    <3>1. One(app'.writing > 0) = 0
      BY <2>2 DEF One
    <3> QED
      BY <1>3, <1>4, <1>5, <2>2, <3>1
  <2>5. Around'
    BY <1>1, <1>2, <2>2 DEF Around
  <2> QED
    BY <1>1, <1>2, <2>2, <2>3, <2>4, <2>5, Arrives DEF Connected
<1>8. CASE s.state \in {"ESTABLISHED", "CLOSE_WAIT"}
  <2>1. /\ k > 0 /\ app' = [app EXCEPT !.writing = @ - k, !.written = @ + k]
        /\ s' = IF k = app.writing THEN dec_socket_ref(sent) ELSE sent
    BY <1>8 DEF tcp_write_resume
  <2>2. /\ k \in Nat \ {0} /\ k <= TxBufferSize - Len(s.tx_buffer) /\ k <= app.writing
        /\ Len(s.tx_buffer) \in Nat
    <3>1. Len(s.tx_buffer) \in Nat /\ app.writing \in Nat /\ TxBufferSize \in Nat
      BY <1>1, Sizes DEF Connected, Sound, IsSocket, Around
    <3> QED
      BY <2>1, <3>1 DEF Least
  <2>3. DOMAIN app' = AppFields /\ app'.handle = app.handle /\ app'.writing = app.writing - k
        /\ app'.written = app.written + k /\ app'.reading = app.reading
    BY <1>1, <2>1 DEF Around, AppFields
  <2>4. Sound(sent, firing, app.handle) /\ Balanced(s, sent)
    <3> HIDE DEF k
    <3>1. data \in Seq(Int) /\ Len(data) = k
      BY <1>1, <2>2 DEF Around
    <3>2. ~event => Len(s.tx_buffer) + k = TxBufferSize
      OBVIOUS
    <3> HIDE DEF data, event
    <3> QED
      BY <1>1, <1>8, <2>2, <3>1, <3>2, WriteSound DEF Connected
  <2> HIDE DEF k, sent
  <2>5. Spare(sent) = Spare(s) /\ sent.fault = "none"
    BY <1>1, <1>6, <2>4 DEF Balanced, Connected
  <2>6. app'.writing \in Nat /\ app'.written \in Nat /\ (app'.writing > 0 <=> k # app.writing)
    BY <1>1, <2>2, <2>3 DEF Around
  <2>7. Around'
    BY <1>1, <1>2, <2>3, <2>6 DEF Around
  <2>8. CASE k = app.writing
    <3>1. Holders' = Holders - 1
      <4>1. One(app'.writing > 0) = 0
        BY <2>6, <2>8 DEF One
      <4> QED
        BY <1>3, <1>4, <1>5, <2>3, <4>1
    <3>2. Sound(s', firing, app.handle) /\ Spare(s') = Spare(sent) - 1 /\ s'.fault = sent.fault
      BY <2>1, <2>4, <2>8, DecSound
    <3> QED
      BY <1>1, <1>2, <2>3, <2>5, <2>7, <3>1, <3>2, Arrives DEF Connected
  <2>9. CASE k # app.writing
    <3>1. Holders' = Holders
      <4>1. One(app'.writing > 0) = 1
        BY <2>6, <2>9 DEF One
      <4> QED
        BY <1>3, <1>4, <1>5, <2>3, <4>1
    <3>2. s' = sent
      BY <2>1, <2>9
    <3> QED
      BY <1>1, <1>2, <2>3, <2>4, <2>5, <2>7, <3>1, <3>2, Arrives DEF Connected
  <2> QED
    BY <2>8, <2>9
<1> QED
  BY <1>7, <1>8

LEMMA CloseStep ==
  ASSUME TcpInv, tcp_close
  PROVE  TcpInv'
<1>1. Around /\ Connected /\ s.fault = "none" /\ s.ref > 0
  BY LiveConnected DEF tcp_close
<1>2. /\ app.handle = "open"
      /\ app' = [app EXCEPT !.handle = "closed", !.unacked = s.tx_buffer # <<>>]
      /\ UNCHANGED <<accepted, input, firing>>
  BY DEF tcp_close
<1>3. DOMAIN app' = AppFields /\ app'.handle = "closed" /\ app'.writing = app.writing
      /\ app'.written = app.written /\ app'.reading = app.reading
  BY <1>1, <1>2 DEF Around, AppFields
<1>4. Holders' = Holders
  BY <1>2, <1>3 DEF Holders
<1>5. Around'
  BY <1>1, <1>2, <1>3 DEF Around
<1>6. s.state \in {"CLOSED", "SYN_RCVD", "ESTABLISHED", "CLOSE_WAIT"}
  BY <1>1, <1>2 DEF Connected, Sound, IsSocket, States, Listed, ClosedByApp
<1>7. Sound(s', firing, "closed") /\ Spare(s') = Spare(s) /\ s'.fault = s.fault
  <2>1. CASE s.state = "CLOSED"
    <3>1. s' = tcp_wakeup_waiters(
                 dec_socket_ref(
                   tcp_timer_cancel(
                     tcp_timer_cancel(remove_socket_from_list(s), "ack_delay"), "retransmit")))
      BY <2>1 DEF tcp_close
    <3> QED
      BY <1>1, <1>2, <2>1, <3>1, CloseClosed DEF Connected
  <2>2. CASE s.state \in {"SYN_RCVD", "ESTABLISHED"}
    <3>1. s' = tcp_wakeup_waiters(Finish(s, "FIN_WAIT_1"))
      BY <2>2 DEF tcp_close
    <3> QED
      BY <1>1, <2>2, <3>1, FinishSound DEF Connected
  <2>3. CASE s.state = "CLOSE_WAIT"
    <3>1. s' = tcp_wakeup_waiters(Finish(s, "LAST_ACK"))
      BY <2>3 DEF tcp_close
    <3> QED
      BY <1>1, <2>3, <3>1, FinishSound DEF Connected
  <2> QED
    BY <1>6, <2>1, <2>2, <2>3
<1> QED
  BY <1>1, <1>2, <1>3, <1>4, <1>5, <1>7, Arrives DEF Connected

LEMMA AcceptStep ==
  ASSUME TcpInv, tcp_accept_timeout
  PROVE  TcpInv'
<1>1. /\ accepted /\ accepted' = FALSE /\ app' = [app EXCEPT !.handle = "open"]
      /\ UNCHANGED <<s, input, firing>> /\ s.fault = "none"
  BY DEF tcp_accept_timeout, Running
<1>2. Around /\ Connected
  BY <1>1 DEF TcpInv, Running, BeforeSyn
<1>3. DOMAIN app' = AppFields /\ app'.handle = "open" /\ app'.writing = app.writing
      /\ app'.written = app.written /\ app'.reading = app.reading
  BY <1>1, <1>2 DEF Around, AppFields
<1>4. Around' /\ Holders' = Holders
  BY <1>1, <1>2, <1>3 DEF Around, Holders
<1>5. Listed(s, firing, "open")
  <2>1. Listed(s, firing, app.handle) /\ app.handle = "none"
    BY <1>1, <1>2 DEF Connected, Sound, Around
  <2> QED
    BY <2>1 DEF Listed
<1>6. Sound(s', firing', app'.handle) /\ Spare(s') = Holders'
  BY <1>1, <1>2, <1>3, <1>4, <1>5 DEF Connected, Sound
<1> QED
  BY <1>1, <1>4, <1>6, Arrives

LEMMA TcpInitially == TcpInit => TcpInv
<1> SUFFICES ASSUME TcpInit PROVE TcpInv
  OBVIOUS
<1>1. /\ s = NoSocket /\ accepted = FALSE /\ input = FALSE /\ firing = "none"
      /\ app = [handle |-> "none", reading |-> FALSE, writing |-> 0,
                got |-> <<>>, written |-> 0, unacked |-> FALSE]
  BY DEF TcpInit
<1>2. s.fault = "none"
  BY <1>1 DEF NoSocket
<1>3. BeforeSyn
  BY <1>1 DEF BeforeSyn
<1>4. Around
  BY <1>1 DEF Around, AppFields
<1> QED
  BY <1>2, <1>3, <1>4 DEF TcpInv, OnlyTwoAssertsFail

LEMMA TcpStep == TcpInv /\ [TcpNext]_vars => TcpInv'
<1> SUFFICES ASSUME TcpInv, [TcpNext]_vars PROVE TcpInv'
  OBVIOUS
<1>1. CASE TcpNext
  <2>1. ASSUME peer_receive PROVE TcpInv'
    BY <2>1 DEF peer_receive, TcpInv, OnlyTwoAssertsFail, Running, Around, BeforeSyn,
                Connected, Holders
  <2> QED
    BY <1>1, <2>1, ListenStep, AcceptStep, LookupStep, InputStep, FireStep, RetransmitStep,
       DelayedAckStep, TimeWaitStep, ReadStep, ReadResumeStep, WriteStep, WriteResumeStep,
       CloseStep DEF TcpNext
<1>2. CASE UNCHANGED vars
  BY <1>2 DEF vars, TcpInv, OnlyTwoAssertsFail, Running, Around, BeforeSyn, Connected, Holders
<1> QED
  BY <1>1, <1>2

-----------------------------------------------------------------------------
(***************************************************************************)
(* The inductive invariant of a connection, for any sizes of the windows,  *)
(* the buffers and the sequence space and any number of bytes.             *)
(***************************************************************************)
THEOREM TcpInvariant == TcpSpec => []TcpInv
BY TcpInitially, TcpStep, PTL DEF TcpSpec

(***************************************************************************)
(* s->ref is the number of those who hold the socket, whatever the order   *)
(* of segments, timers, calls and resets: no timer that is set again, no   *)
(* callback and no call that fails leaks a reference or drops one twice.   *)
(***************************************************************************)
THEOREM TcpRefsExact == TcpSpec => []RefsExact
<1>1. TcpInv => RefsExact
  <2> SUFFICES ASSUME TcpInv, Running PROVE
        s.ref = One(s.in_list) + Cardinality(s.queued) + One(firing # "none")
                + One(input) + One(app.reading) + One(app.writing > 0)
    BY DEF RefsExact
  <2>1. CASE BeforeSyn
    <3>1. s.ref = 0 /\ s.in_list = FALSE /\ s.queued = {}
      BY <2>1 DEF BeforeSyn, NoSocket
    <3>2. Cardinality(s.queued) = 0
      BY <3>1, FS_EmptySet
    <3>3. /\ One(s.in_list) = 0 /\ One(firing # "none") = 0 /\ One(input) = 0
          /\ One(app.reading) = 0 /\ One(app.writing > 0) = 0
      BY <2>1, <3>1 DEF BeforeSyn, One
    <3> QED
      BY <3>1, <3>2, <3>3
  <2>2. CASE Connected
    <3>1. Basic(s) /\ Spare(s) = Holders
      BY <2>2 DEF Connected, Sound, IsSocket
    <3>2. Cardinality(s.queued) \in Nat /\ s.ref \in Int
      BY <3>1, Counted DEF Basic, Timers
    <3> DEFINE l == One(s.in_list)
               f == One(firing # "none")
               i == One(input)
               r == One(app.reading)
               w == One(app.writing > 0)
               c == Cardinality(s.queued)
    <3>3. l \in {0, 1} /\ f \in {0, 1} /\ i \in {0, 1} /\ r \in {0, 1} /\ w \in {0, 1}
      BY OneIs
    <3>4. s.ref - c - l = f + i + r + w
      BY <3>1 DEF Spare, Holders
    <3>5. c \in Nat
      BY <3>2
    <3> HIDE DEF l, f, i, r, w, c
    <3>6. s.ref = l + c + f + i + r + w
      BY <3>2, <3>3, <3>4, <3>5
    <3> QED
      BY <3>6 DEF l, f, i, r, w, c
  <2> QED
    BY <2>1, <2>2 DEF TcpInv
<1> QED
  BY <1>1, TcpInvariant, PTL

(***************************************************************************)
(* Of the assertions of tcp.c, those on reference counts, on the list and  *)
(* on the length of an acknowledgement never fail, at any sequence number  *)
(* and across the wrap at SeqSpace.                                        *)
(***************************************************************************)
THEOREM TcpAsserts == TcpSpec => []OnlyTwoAssertsFail
BY TcpInvariant, PTL DEF TcpInv

(***************************************************************************)
(* Bytes that were sent and not acknowledged always have their retransmit  *)
(* timer and bytes received and not acknowledged the delayed ACK, and a    *)
(* reader or writer sleeps only while there is nothing for it to do.       *)
(***************************************************************************)
THEOREM TcpNothingStranded == TcpSpec => []NothingStranded
<1>1. TcpInv => NothingStranded
  <2> SUFFICES ASSUME TcpInv, Live PROVE
        /\ s.state \in {"ESTABLISHED", "CLOSE_WAIT"} /\ s.tx_buffer # <<>> =>
             "retransmit" \in s.queued \cup {firing}
        /\ s.state = "ESTABLISHED" /\ s.acked # s.rx_win_low =>
             "ack_delay" \in s.queued \cup {firing}
        /\ EventsSet(s)
    BY DEF NothingStranded, EventsSet
  <2>1. Connected
    BY LiveConnected
  <2> QED
    BY <2>1 DEF Connected, Sound, RetransmitDue, AckDue
<1> QED
  BY <1>1, TcpInvariant, PTL

-----------------------------------------------------------------------------
(***************************************************************************)
(* The byte streams.  b carries the bytes after the first a ones.          *)
(***************************************************************************)
From(b, a) == \A i \in DOMAIN b : b[i] = a + i

\* The sequence number on this side of the byte after the first k ones.
Local(k) == (LocalIsn + (1 + k)) % SeqSpace

(***************************************************************************)
(* Receiving: got are the bytes tcp_read returned, total those the peer    *)
(* has.  The bytes behind rx_buffer are the next ones of the peer's        *)
(* stream, rx_win_low counts them until the FIN, and what the window       *)
(* offers fits the circular buffer.                                        *)
(***************************************************************************)
RxFlow(sk, got, total) ==
  LET r == Len(got) + Len(sk.rx_buffer) IN
  /\ sk.rx_buffer \in Seq(Int) /\ From(sk.rx_buffer, Len(got))
  /\ sk.state \in {"SYN_RCVD", "ESTABLISHED"} =>
       /\ r <= total /\ sk.rx_win_low = SeqOf(1 + r) /\ sk.rx_win_high \in SeqNum
       /\ Dist(sk.rx_win_high, sk.rx_win_low) + Len(sk.rx_buffer) <= RxWinSize - 1

(***************************************************************************)
(* Sending: of the bytes written, tx_buffer keeps the last ones, and       *)
(* tx_win_low is the sequence number of the first of them.                 *)
(***************************************************************************)
TxFlow(sk, written) ==
  sk.state \in {"SYN_RCVD", "ESTABLISHED", "CLOSE_WAIT"} =>
    LET a == written - Len(sk.tx_buffer) IN
    a >= 0 /\ sk.tx_win_low = Local(a) /\ From(sk.tx_buffer, a)

(***************************************************************************)
(* What is on the wire: a SYN, bytes that were written, under their own    *)
(* sequence numbers, and after tcp_close a FIN behind the bytes that were  *)
(* acknowledged.                                                           *)
(***************************************************************************)
IsSyn(seg) == seg.flags = {"SYN"} /\ seg.seq = LocalIsn
IsData(seg, written) ==
  /\ seg.flags = {} /\ seg.data \in Seq(Int)
  /\ \E k \in Nat : seg.seq = Local(k) /\ From(seg.data, k) /\ k + Len(seg.data) <= written
IsFin(seg, ap) ==
  /\ seg.flags = {"FIN"} /\ ap.handle = "closed"
  /\ \E a \in 0 .. ap.written : seg.seq = Local(a) /\ (~ap.unacked => a = ap.written)

WireFlow(wire, ap) ==
  \A seg \in wire : IsSyn(seg) \/ IsData(seg, ap.written) \/ IsFin(seg, ap)

Flow(sk, ap, total) ==
  RxFlow(sk, ap.got, total) /\ TxFlow(sk, ap.written) /\ WireFlow(sk.wire, ap)

PeerFlow ==
  /\ peer.rx \in Seq(Int) /\ From(peer.rx, 0) /\ Len(peer.rx) <= app.written
  /\ ~peer.synced => peer.rx = <<>> /\ ~peer.eof
  /\ peer.synced /\ ~peer.eof => peer.rcv_nxt = Local(Len(peer.rx))
  /\ peer.eof => app.handle = "closed" /\ (~app.unacked => Len(peer.rx) = app.written)

PeerFields == {"synced", "rcv_nxt", "rx", "eof", "total"}

AppFlow ==
  /\ DOMAIN app = AppFields /\ app.got \in Seq(Int) /\ From(app.got, 0)
  /\ app.writing \in Nat /\ app.written \in Nat /\ app.written + app.writing <= AppBytes
  /\ s.state = "none" => app.got = <<>> /\ app.written = 0
  /\ DOMAIN peer = PeerFields /\ peer.total \in PeerTotals

StreamInv == Flow(s, app, peer.total) /\ PeerFlow /\ AppFlow

-----------------------------------------------------------------------------
\* Sequence numbers i and j places after b.
LEMMA Apart ==
  ASSUME NEW b \in SeqNum, NEW i \in Nat, NEW j \in Nat, i <= j, j < SeqSpace
  PROVE  LET x == (b + i) % SeqSpace
             y == (b + j) % SeqSpace
         IN  /\ x \in SeqNum /\ y \in SeqNum
             /\ (x + (j - i)) % SeqSpace = y
             /\ Dist(y, x) = j - i
             /\ i < j => Dist(x, y) = SeqSpace - (j - i)
<1> DEFINE x == (b + i) % SeqSpace
           y == (b + j) % SeqSpace
<1>1. SeqSpace \in Nat \ {0} /\ b \in Nat /\ b < SeqSpace
  BY Sizes DEF SeqNum
<1>2. i \in 0 .. SeqSpace /\ j \in 0 .. SeqSpace /\ j - i \in 0 .. SeqSpace
  BY <1>1
<1>3. x \in SeqNum /\ x = (IF b + i < SeqSpace THEN b + i ELSE (b + i) - SeqSpace)
  BY <1>2, Advance
<1>4. y \in SeqNum /\ y = (IF b + j < SeqSpace THEN b + j ELSE (b + j) - SeqSpace)
  BY <1>2, Advance
<1> HIDE DEF x, y
<1>5. (x + (j - i)) % SeqSpace =
        (IF x + (j - i) < SeqSpace THEN x + (j - i) ELSE (x + (j - i)) - SeqSpace)
  BY <1>2, <1>3, Advance
<1>6. (x + (j - i)) % SeqSpace = y
  <2> DEFINE z == (x + (j - i)) % SeqSpace
  <2>1. z = (IF x + (j - i) < SeqSpace THEN x + (j - i) ELSE (x + (j - i)) - SeqSpace)
    BY <1>5
  <2> HIDE DEF z
  <2>2. z = y
    BY <1>1, <1>3, <1>4, <2>1 DEF SeqNum
  <2> QED
    BY <2>2 DEF z
<1>7. /\ Dist(y, x) = (IF y >= x THEN y - x ELSE y - x + SeqSpace)
      /\ Dist(x, y) = (IF x >= y THEN x - y ELSE x - y + SeqSpace)
  BY <1>3, <1>4, DistIs
<1>8. Dist(y, x) = j - i
  BY <1>1, <1>3, <1>4, <1>7 DEF SeqNum
<1>9. i < j => Dist(x, y) = SeqSpace - (j - i)
  BY <1>1, <1>3, <1>4, <1>7 DEF SeqNum
<1> QED
  BY <1>3, <1>4, <1>6, <1>8, <1>9 DEF x, y

LEMMA DistInverse ==
  ASSUME NEW a \in SeqNum, NEW b \in SeqNum
  PROVE  a = (b + Dist(a, b)) % SeqSpace
<1> DEFINE d == Dist(a, b)
           r == (b + d) % SeqSpace
<1>1. d = (IF a >= b THEN a - b ELSE a - b + SeqSpace) /\ d \in SeqNum
  BY DistIs
<1>2. SeqSpace \in Nat \ {0} /\ d \in 0 .. SeqSpace
  BY <1>1, Sizes DEF SeqNum
<1> HIDE DEF d
<1>3. r = (IF b + d < SeqSpace THEN b + d ELSE (b + d) - SeqSpace)
  BY <1>2, Advance
<1> HIDE DEF r
<1>4. a = r
  BY <1>1, <1>2, <1>3 DEF SeqNum
<1> QED
  BY <1>4 DEF r, d

LEMMA LocalApart ==
  ASSUME NEW i \in Nat, NEW j \in Nat, i <= j, j <= AppBytes
  PROVE  /\ Local(i) \in SeqNum /\ Local(j) \in SeqNum
         /\ (Local(i) + (j - i)) % SeqSpace = Local(j)
         /\ Dist(Local(j), Local(i)) = j - i
         /\ i < j => Dist(Local(i), Local(j)) = SeqSpace - (j - i)
         /\ 2 * (TxBufferSize + AppBytes) <= SeqSpace /\ TxBufferSize \in Nat \ {0}
         /\ AppBytes \in Nat /\ SeqSpace \in Nat \ {0}
<1>1. /\ SeqSpace \in Nat \ {0} /\ TxBufferSize \in Nat \ {0} /\ AppBytes \in Nat
      /\ 2 * (TxBufferSize + AppBytes) <= SeqSpace /\ LocalIsn \in SeqNum
  BY Sizes, SizesAssumption, ArgumentsAssumption DEF SeqNum
<1> DEFINE m == 1 + i
           n == 1 + j
<1>2. m \in Nat /\ n \in Nat /\ m <= n /\ n < SeqSpace /\ n - m = j - i /\ (i < j => m < n)
  BY <1>1
<1> HIDE DEF m, n
<1> DEFINE x == (LocalIsn + m) % SeqSpace
           y == (LocalIsn + n) % SeqSpace
<1>3. /\ x \in SeqNum /\ y \in SeqNum /\ (x + (n - m)) % SeqSpace = y
      /\ Dist(y, x) = n - m /\ (m < n => Dist(x, y) = SeqSpace - (n - m))
  BY <1>1, <1>2, Apart
<1>4. x = Local(i) /\ y = Local(j)
  BY DEF Local, m, n
<1> HIDE DEF x, y
<1> QED
  BY <1>1, <1>2, <1>3, <1>4

LEMMA SeqOfApart ==
  ASSUME NEW total \in PeerTotals, NEW i \in Nat, NEW j \in Nat, i <= j, j <= total + 1
  PROVE  /\ SeqOf(i) \in SeqNum /\ SeqOf(j) \in SeqNum
         /\ (SeqOf(i) + (j - i)) % SeqSpace = SeqOf(j)
         /\ Dist(SeqOf(j), SeqOf(i)) = j - i
         /\ i < j => Dist(SeqOf(i), SeqOf(j)) = SeqSpace - (j - i)
         /\ 2 * (RxWinSize + total) <= SeqSpace /\ RxWinSize \in Nat \ {0} /\ total \in Nat
         /\ SeqSpace \in Nat \ {0}
<1>1. /\ SeqSpace \in Nat \ {0} /\ RxWinSize \in Nat \ {0} /\ total \in Nat
      /\ 2 * (RxWinSize + total) <= SeqSpace /\ PeerIsn \in SeqNum
  BY Sizes, SizesAssumption, ArgumentsAssumption DEF SeqNum
<1>2. j < SeqSpace
  BY <1>1
<1> DEFINE x == (PeerIsn + i) % SeqSpace
           y == (PeerIsn + j) % SeqSpace
<1>3. /\ x \in SeqNum /\ y \in SeqNum /\ (x + (j - i)) % SeqSpace = y
      /\ Dist(y, x) = j - i /\ (i < j => Dist(x, y) = SeqSpace - (j - i))
  BY <1>1, <1>2, Apart
<1>4. x = SeqOf(i) /\ y = SeqOf(j)
  BY DEF SeqOf
<1> HIDE DEF x, y
<1> QED
  BY <1>1, <1>3, <1>4

-----------------------------------------------------------------------------
\* Parts and joins of streams.
LEMMA FromCut ==
  ASSUME NEW b \in Seq(Int), NEW a \in Int, From(b, a), NEW i \in Nat, NEW j \in Nat,
         i <= j, j <= Len(b)
  PROVE  LET c == SubSeq(b, i + 1, j) IN c \in Seq(Int) /\ Len(c) = j - i /\ From(c, a + i)
<1> DEFINE c == SubSeq(b, i + 1, j)
<1>1. Len(b) \in Nat /\ DOMAIN b = 1 .. Len(b)
  OBVIOUS
<1>2. c \in Seq(Int) /\ Len(c) = j - i
  <2> DEFINE k == i + 1
  <2>1. k \in Int /\ k >= 1 /\ k <= j + 1 /\ j - k + 1 = j - i
    OBVIOUS
  <2> HIDE DEF k
  <2>2. SubSeq(b, k, j) \in Seq(Int) /\ Len(SubSeq(b, k, j)) = j - k + 1
    BY <2>1, Cut
  <2> QED
    BY <2>1, <2>2 DEF k
<1>3. \A x \in 1 .. (j - i) : c[x] = b[i + x]
  <2> DEFINE k == i + 1
  <2>1. k \in Int /\ j - k + 1 = j - i /\ \A x \in k .. j : b[x] \in Int
    BY <1>1
  <2>2. \A x \in 1 .. (j - i) : k + x - 1 = i + x
    OBVIOUS
  <2> HIDE DEF k
  <2>3. \A x \in 1 .. (j - k + 1) : SubSeq(b, k, j)[x] = b[k + x - 1]
    BY <2>1, SubSeqProperties, SMTT(30)
  <2>4. \A x \in 1 .. (j - i) : SubSeq(b, k, j)[x] = b[i + x]
    BY <2>1, <2>2, <2>3
  <2> QED
    BY <2>4 DEF k
<1> HIDE DEF c
<1>4. DOMAIN c = 1 .. (j - i)
  BY <1>2
<1>5. From(c, a + i)
  <2> SUFFICES ASSUME NEW x \in 1 .. (j - i) PROVE c[x] = (a + i) + x
    BY <1>4 DEF From
  <2>1. i + x \in DOMAIN b
    BY <1>1
  <2>2. b[i + x] = a + (i + x)
    BY <2>1 DEF From
  <2> QED
    BY <1>3, <2>2
<1> QED
  BY <1>2, <1>5 DEF c

LEMMA FromJoin ==
  ASSUME NEW b \in Seq(Int), NEW c \in Seq(Int), NEW a \in Int,
         From(b, a), From(c, a + Len(b))
  PROVE  b \o c \in Seq(Int) /\ Len(b \o c) = Len(b) + Len(c) /\ From(b \o c, a)
<1> DEFINE d == b \o c
<1>1. /\ d \in Seq(Int) /\ Len(d) = Len(b) + Len(c)
      /\ \A i \in 1 .. Len(d) : d[i] = IF i <= Len(b) THEN b[i] ELSE c[i - Len(b)]
  BY ConcatProperties
<1> HIDE DEF d
<1>2. Len(b) \in Nat /\ Len(c) \in Nat /\ DOMAIN d = 1 .. Len(d)
      /\ DOMAIN b = 1 .. Len(b) /\ DOMAIN c = 1 .. Len(c)
  BY <1>1
<1>3. From(d, a)
  <2> SUFFICES ASSUME NEW i \in 1 .. Len(d) PROVE d[i] = a + i
    BY <1>2 DEF From
  <2>1. CASE i <= Len(b)
    <3>1. i \in DOMAIN b /\ d[i] = b[i]
      BY <1>1, <1>2, <2>1
    <3> QED
      BY <3>1 DEF From
  <2>2. CASE ~(i <= Len(b))
    <3> DEFINE k == i - Len(b)
    <3>1. k \in DOMAIN c /\ d[i] = c[k] /\ (a + Len(b)) + k = a + i
      BY <1>1, <1>2, <2>2
    <3> HIDE DEF k
    <3> QED
      BY <3>1 DEF From
  <2> QED
    BY <2>1, <2>2
<1> QED
  BY <1>1, <1>3 DEF d

-----------------------------------------------------------------------------
(***************************************************************************)
(* The functions of tcp.c and the streams.                                 *)
(***************************************************************************)
FlowFields == {"state", "rx_win_low", "rx_win_high", "rx_buffer", "tx_win_low", "tx_buffer", "wire"}

AppTyped(ap, total) ==
  ap.got \in Seq(Int) /\ ap.written \in Nat /\ ap.written <= AppBytes /\ total \in PeerTotals

LEMMA FlowKeeps ==
  ASSUME NEW sk, NEW n, NEW fs, NEW ap, NEW total, Flow(sk, ap, total), Keeps(sk, n, fs),
         fs \cap FlowFields = {}
  PROVE  Flow(n, ap, total)
<1>1. /\ n.state = sk.state /\ n.rx_win_low = sk.rx_win_low /\ n.rx_win_high = sk.rx_win_high
      /\ n.rx_buffer = sk.rx_buffer /\ n.tx_win_low = sk.tx_win_low
      /\ n.tx_buffer = sk.tx_buffer /\ n.wire = sk.wire
  BY DEF Keeps, Fields, FlowFields
<1> QED
  BY <1>1 DEF Flow, RxFlow, TxFlow

\* A connection that is closed on this side receives and sends no byte.
Calm(sk, n) == DOMAIN n = Fields /\ n.rx_buffer = sk.rx_buffer /\ n.wire = sk.wire

LEMMA FlowLate ==
  ASSUME NEW sk, NEW n, NEW ap, NEW total, Flow(sk, ap, total), Calm(sk, n),
         n.state \notin {"SYN_RCVD", "ESTABLISHED", "CLOSE_WAIT"}
  PROVE  Flow(n, ap, total)
BY DEF Flow, RxFlow, TxFlow, Calm

LEMMA CalmKeeps ==
  ASSUME NEW sk, NEW n, NEW fs, Keeps(sk, n, fs), fs \cap {"rx_buffer", "wire"} = {}
  PROVE  Calm(sk, n)
BY DEF Calm, Keeps, Fields

LEMMA CalmTwice ==
  ASSUME NEW a, NEW b, NEW c, Calm(a, b), Calm(b, c)
  PROVE  Calm(a, c)
BY DEF Calm

LEMMA SendWire ==
  ASSUME NEW sk, Basic(sk), RxTyped(sk), NEW data, NEW flags, NEW seq
  PROVE  LET n == tcp_socket_send(sk, data, flags, seq) IN
         /\ data = <<>> /\ flags = {} => n.wire = sk.wire
         /\ n.wire \subseteq sk.wire \cup {[seq |-> seq, data |-> data, flags |-> flags]}
<1> DEFINE high == (sk.rx_win_low + RxWinSize - Len(sk.rx_buffer) - 1) % SeqSpace
           edge == IF SEQUENCE_GTE(high, sk.rx_win_high) THEN high ELSE sk.rx_win_high
           told == [sk EXCEPT !.rx_win_high = edge, !.acked = sk.rx_win_low]
           off == tcp_timer_cancel(told, "ack_delay")
           n == tcp_socket_send(sk, data, flags, seq)
<1>1. n = tcp_send(off, data, flags, seq)
  BY DEF tcp_socket_send
<1> HIDE DEF edge
<1>2. Keeps(sk, told, {"rx_win_high", "acked"})
  BY DEF Keeps, Fields, Basic
<1> HIDE DEF told
<1>3. Basic(told)
  BY <1>2, BalancedKeeps DEF Balanced
<1>4. Keeps(told, off, {"ref", "queued"})
  BY <1>3, TimerCancel DEF Timers
<1> HIDE DEF off, n
<1>5. off.wire = sk.wire /\ DOMAIN off = Fields
  BY <1>2, <1>4 DEF Keeps, Fields
<1>6. n.wire = IF data = <<>> /\ flags = {} THEN sk.wire
               ELSE sk.wire \cup {[seq |-> seq, data |-> data, flags |-> flags]}
  BY <1>1, <1>5 DEF tcp_send, Fields
<1>7. n.wire \subseteq sk.wire \cup {[seq |-> seq, data |-> data, flags |-> flags]}
  BY <1>6
<1> QED
  BY <1>6, <1>7 DEF n

LEMMA SendWindow ==
  ASSUME NEW sk, Basic(sk), RxTyped(sk), NEW data, NEW flags, NEW seq
  PROVE  tcp_socket_send(sk, data, flags, seq).rx_win_high
           \in {(sk.rx_win_low + RxWinSize - Len(sk.rx_buffer) - 1) % SeqSpace, sk.rx_win_high}
<1> DEFINE high == (sk.rx_win_low + RxWinSize - Len(sk.rx_buffer) - 1) % SeqSpace
           edge == IF SEQUENCE_GTE(high, sk.rx_win_high) THEN high ELSE sk.rx_win_high
           told == [sk EXCEPT !.rx_win_high = edge, !.acked = sk.rx_win_low]
           off == tcp_timer_cancel(told, "ack_delay")
           n == tcp_socket_send(sk, data, flags, seq)
<1>1. n = tcp_send(off, data, flags, seq)
  BY DEF tcp_socket_send
<1> HIDE DEF high
<1>0. edge \in {high, sk.rx_win_high}
  OBVIOUS
<1> HIDE DEF edge
<1>2. Keeps(sk, told, {"rx_win_high", "acked"}) /\ told.rx_win_high = edge
  BY DEF Keeps, Fields, Basic
<1> HIDE DEF told
<1>3. Basic(told)
  BY <1>2, BalancedKeeps DEF Balanced
<1>4. Keeps(told, off, {"ref", "queued"})
  BY <1>3, TimerCancel DEF Timers
<1> HIDE DEF off, n
<1>5. off.rx_win_high = edge /\ DOMAIN off = Fields
  BY <1>2, <1>4 DEF Keeps, Fields
<1>6. n.rx_win_high = edge
  BY <1>1, <1>5 DEF tcp_send, Fields
<1> QED
  BY <1>0, <1>6 DEF n, high

\* What the peer is told fits the circular buffer.
LEMMA FlowSend ==
  ASSUME NEW sk, Basic(sk), RxTyped(sk), NEW data, NEW flags, NEW seq,
         NEW ap, NEW total, AppTyped(ap, total), RxFlow(sk, ap.got, total)
  PROVE  LET n == tcp_socket_send(sk, data, flags, seq) IN
         RxFlow(n, ap.got, total) /\ (TxFlow(sk, ap.written) => TxFlow(n, ap.written))
<1> DEFINE n == tcp_socket_send(sk, data, flags, seq)
           high == (sk.rx_win_low + RxWinSize - Len(sk.rx_buffer) - 1) % SeqSpace
<1>1. /\ Keeps(sk, n, {"ref", "queued", "rx_win_high", "acked", "wire"})
      /\ n.rx_win_high \in {high, sk.rx_win_high}
  BY SocketSend, SendWindow
<1> HIDE DEF n
<1>2. /\ n.state = sk.state /\ n.rx_win_low = sk.rx_win_low /\ n.rx_buffer = sk.rx_buffer
      /\ n.tx_win_low = sk.tx_win_low /\ n.tx_buffer = sk.tx_buffer
  BY <1>1 DEF Keeps, Fields
<1>3. TxFlow(sk, ap.written) => TxFlow(n, ap.written)
  BY <1>2 DEF TxFlow
<1>4. ASSUME sk.state \in {"SYN_RCVD", "ESTABLISHED"}
      PROVE  /\ n.rx_win_high \in SeqNum
             /\ Dist(n.rx_win_high, n.rx_win_low) + Len(n.rx_buffer) <= RxWinSize - 1
  <2>0. PICK l, g, low, old : /\ l = Len(sk.rx_buffer) /\ g = Len(ap.got)
                              /\ low = sk.rx_win_low /\ old = sk.rx_win_high
    OBVIOUS
  <2>a. l \in Nat /\ g \in Nat /\ total \in PeerTotals /\ total \in Nat
    <3>1. sk.rx_buffer \in Seq(Int) /\ ap.got \in Seq(Int) /\ total \in PeerTotals
      BY DEF RxFlow, AppTyped
    <3> QED
      BY <2>0, <3>1, SizesAssumption
  <2>1. /\ g + l <= total /\ low = SeqOf(1 + (g + l))
        /\ old \in SeqNum /\ Dist(old, low) + l <= RxWinSize - 1
    BY <1>4, <2>0 DEF RxFlow
  <2>2. low \in SeqNum /\ RxWinSize \in Nat \ {0} /\ SeqSpace \in Nat \ {0} /\ RxWinSize < SeqSpace
    <3> DEFINE j == 1 + (g + l)
    <3>2. j \in Nat /\ j <= total + 1
      BY <2>a, <2>1
    <3> HIDE DEF j
    <3>3. SeqOf(j) \in SeqNum /\ RxWinSize \in Nat \ {0} /\ SeqSpace \in Nat \ {0}
          /\ 2 * (RxWinSize + total) <= SeqSpace
      BY <2>a, <3>2, SeqOfApart
    <3>4. RxWinSize < SeqSpace
      BY <2>a, <3>3
    <3> QED
      BY <2>1, <3>3, <3>4 DEF j
  <2>3. Dist(old, low) \in Nat /\ Dist(low, low) = 0
    <3>1. Dist(old, low) \in SeqNum /\ Dist(low, low) = low - low
      BY <2>1, <2>2, DistIs DEF SeqNum
    <3> QED
      BY <2>2, <3>1 DEF SeqNum
  <2> DEFINE room == (RxWinSize - 1) - l
  <2>4. room \in Nat /\ room \in 0 .. SeqSpace /\ Dist(low, low) + room < SeqSpace
        /\ room + l = RxWinSize - 1 /\ low + RxWinSize - l - 1 = low + room
    BY <2>a, <2>1, <2>2, <2>3 DEF SeqNum
  <2>5. high = (low + room) % SeqSpace
    BY <2>0, <2>4
  <2> HIDE DEF room
  <2>6. (low + room) % SeqSpace \in SeqNum
    BY <2>2, <2>4, Advance
  <2>7. Dist((low + room) % SeqSpace, low) = Dist(low, low) + room
    BY <2>2, <2>4, DistAdvance
  <2>8. high \in SeqNum /\ Dist(high, low) = room
    BY <2>3, <2>4, <2>5, <2>6, <2>7
  <2>9. n.rx_win_low = low /\ Len(n.rx_buffer) = l /\ n.rx_win_high \in {high, old}
    BY <1>1, <1>2, <2>0
  <2> HIDE DEF high
  <2> QED
    BY <2>1, <2>4, <2>8, <2>9
<1>5. RxFlow(n, ap.got, total)
  BY <1>2, <1>4 DEF RxFlow
<1> QED
  BY <1>3, <1>5 DEF n

LEMMA FlowSendAck ==
  ASSUME NEW sk, Basic(sk), RxTyped(sk), NEW ap, NEW total, AppTyped(ap, total), Flow(sk, ap, total)
  PROVE  Flow(send_ack(sk), ap, total) /\ Calm(sk, send_ack(sk))
<1> DEFINE told == tcp_socket_send(sk, <<>>, {}, sk.tx_win_low)
           n == send_ack(sk)
<1>1. CASE sk.state \in {"ESTABLISHED", "CLOSE_WAIT", "FIN_WAIT_2"}
  <2>1. n = told
    BY <1>1 DEF send_ack
  <2>2. told.wire = sk.wire
    BY SendWire
  <2>3. Keeps(sk, told, {"ref", "queued", "rx_win_high", "acked", "wire"})
    BY SocketSend
  <2>4. RxFlow(told, ap.got, total) /\ TxFlow(told, ap.written)
    BY FlowSend DEF Flow
  <2> HIDE DEF told
  <2>5. Flow(told, ap, total)
    BY <2>2, <2>4 DEF Flow
  <2>6. Calm(sk, told)
    BY <2>2, <2>3 DEF Calm, Keeps, Fields
  <2> QED
    BY <2>1, <2>5, <2>6
<1>2. CASE sk.state \notin {"ESTABLISHED", "CLOSE_WAIT", "FIN_WAIT_2"}
  BY <1>2 DEF send_ack, Calm, Basic
<1> QED
  BY <1>1, <1>2

LEMMA CalmSendAck ==
  ASSUME NEW sk, Basic(sk), RxTyped(sk)
  PROVE  Calm(sk, send_ack(sk))
<1> DEFINE told == tcp_socket_send(sk, <<>>, {}, sk.tx_win_low)
<1>1. CASE sk.state \in {"ESTABLISHED", "CLOSE_WAIT", "FIN_WAIT_2"}
  <2>1. told.wire = sk.wire
    BY SendWire
  <2>2. Keeps(sk, told, {"ref", "queued", "rx_win_high", "acked", "wire"})
    BY SocketSend
  <2>3. send_ack(sk) = told
    BY <1>1 DEF send_ack
  <2> HIDE DEF told
  <2> QED
    BY <2>1, <2>2, <2>3 DEF Calm, Keeps, Fields
<1>2. CASE sk.state \notin {"ESTABLISHED", "CLOSE_WAIT", "FIN_WAIT_2"}
  BY <1>2 DEF send_ack, Calm, Basic
<1> QED
  BY <1>1, <1>2

LEMMA CalmFin ==
  ASSUME NEW sk, Basic(sk), RxTyped(sk)
  PROVE  Calm(sk, FinReceived(sk))
<1> DEFINE k == [sk EXCEPT !.rx_win_low = (sk.rx_win_low + 1) % SeqSpace]
<1>1. FinReceived(sk) = send_ack(k)
  BY DEF FinReceived
<1>2. (sk.rx_win_low + 1) % SeqSpace \in Int
  <2> DEFINE x == sk.rx_win_low + 1
  <2>1. x \in Int /\ SeqSpace \in Nat \ {0}
    BY Sizes DEF RxTyped
  <2> HIDE DEF x
  <2>2. x % SeqSpace \in Int
    BY <2>1, Quotient
  <2> QED
    BY <2>2 DEF x
<1>3. /\ Keeps(sk, k, {"rx_win_low"}) /\ k.rx_win_low = (sk.rx_win_low + 1) % SeqSpace
      /\ k.rx_buffer = sk.rx_buffer /\ k.rx_win_high = sk.rx_win_high
  BY DEF Keeps, Fields, Basic
<1> HIDE DEF k
<1>4. Basic(k) /\ RxTyped(k) /\ Calm(sk, k)
  <2>1. Calm(sk, k)
    BY <1>3, CalmKeeps
  <2>2. RxTyped(k)
    BY <1>2, <1>3 DEF RxTyped
  <2> QED
    BY <1>3, <2>1, <2>2, BalancedKeeps DEF Balanced
<1> QED
  BY <1>1, <1>4, CalmSendAck, CalmTwice

\* An acknowledgement takes its bytes off the front of tx_buffer.
LEMMA FlowHandleAck ==
  ASSUME NEW sk, NEW t, NEW h, Sound(sk, t, h), NEW seq \in SeqNum,
         sk.state \in {"ESTABLISHED", "CLOSE_WAIT"},
         NEW ap, NEW total, AppTyped(ap, total), Flow(sk, ap, total)
  PROVE  Flow(handle_ack(sk, seq), ap, total)
<1> DEFINE n == handle_ack(sk, seq)
           rest(len) == SubSeq(sk.tx_buffer, len + 1, Len(sk.tx_buffer))
           moved(len) == [sk EXCEPT !.tx_buffer = rest(len), !.tx_win_low = seq, !.tx_event = TRUE]
<1>1. IsSocket(sk) /\ Basic(sk) /\ DOMAIN sk = Fields
  BY DEF Sound, IsSocket, Basic
<1>2. CASE SEQUENCE_LTE(seq, sk.tx_win_low) \/ SEQUENCE_GT(seq, sk.tx_highest_seq)
  BY <1>2 DEF handle_ack
<1>3. CASE ~SEQUENCE_LTE(seq, sk.tx_win_low) /\ ~SEQUENCE_GT(seq, sk.tx_highest_seq)
  <2>0. PICK low, high, m, w, len :
          /\ low = sk.tx_win_low /\ high = sk.tx_highest_seq /\ m = Len(sk.tx_buffer)
          /\ w = ap.written /\ len = Dist(seq, low)
    OBVIOUS
  <2>1. /\ low \in SeqNum /\ high \in SeqNum /\ sk.tx_buffer \in Seq(Int) /\ m \in Nat
        /\ Dist(high, low) = m /\ m <= TxBufferSize /\ w \in Nat /\ w <= AppBytes
    BY <1>1, <2>0 DEF IsSocket, Sound, AllSent, AppTyped
  <2>2. len <= m /\ len \in Nat
    <3>1. Dist(high, low) <= TxBufferSize /\ ~SEQUENCE_LTE(seq, low) /\ ~SEQUENCE_GT(seq, high)
      BY <1>3, <2>0, <2>1
    <3>2. Dist(seq, low) <= Dist(high, low)
      BY <2>1, <3>1, AckWithin
    <3>3. Dist(seq, low) \in SeqNum
      BY <2>1, DistIs
    <3> QED
      BY <2>0, <2>1, <3>2, <3>3, Sizes DEF SeqNum
  <2>3. w - m >= 0 /\ low = Local(w - m) /\ From(sk.tx_buffer, w - m)
    BY <2>0 DEF Flow, TxFlow
  <2>4. /\ rest(len) \in Seq(Int) /\ Len(rest(len)) = m - len
        /\ From(rest(len), (w - m) + len)
    <3> DEFINE a == w - m
    <3>1. a \in Int /\ len \in Nat /\ Len(sk.tx_buffer) \in Nat /\ len <= Len(sk.tx_buffer)
          /\ From(sk.tx_buffer, a)
      BY <2>0, <2>1, <2>2, <2>3
    <3> HIDE DEF a
    <3>2. /\ rest(len) \in Seq(Int) /\ Len(rest(len)) = Len(sk.tx_buffer) - len
          /\ From(rest(len), a + len)
      BY <2>1, <3>1, FromCut
    <3> QED
      BY <2>0, <3>2 DEF a
  <2>5. seq = Local((w - m) + len)
    <3>1. seq = (low + Dist(seq, low)) % SeqSpace
      BY <2>1, DistInverse
    <3> DEFINE a == w - m
               b == (w - m) + len
    <3>2. a \in Nat /\ b \in Nat /\ a <= b /\ b <= AppBytes /\ b - a = len
      <4>1. AppBytes \in Nat
        BY SizesAssumption
      <4> QED
        BY <2>1, <2>2, <2>3, <4>1
    <3> HIDE DEF a, b
    <3>3. (Local(a) + (b - a)) % SeqSpace = Local(b)
      BY <3>2, LocalApart
    <3>4. low = Local(a)
      BY <2>3 DEF a
    <3> QED
      BY <2>0, <3>1, <3>2, <3>3, <3>4 DEF b
  <2>6. n = IF moved(len).tx_win_low = moved(len).tx_highest_seq
              THEN tcp_timer_cancel(moved(len), "retransmit")
              ELSE tcp_timer_set(moved(len), "retransmit")
    <3>1. Assert(Dist(seq, sk.tx_win_low) <= Len(sk.tx_buffer), sk, "acked_len") = sk
      BY <2>0, <2>2 DEF Assert
    <3> QED
      BY <1>3, <2>0, <3>1 DEF handle_ack
  <2>7. PICK c, v : c = rest(len) /\ v = moved(len)
    OBVIOUS
  <2>8. /\ Keeps(sk, v, {"tx_buffer", "tx_win_low", "tx_event"})
        /\ v.tx_buffer = c /\ v.tx_win_low = seq
    <3>1. v = [sk EXCEPT !.tx_buffer = c, !.tx_win_low = seq, !.tx_event = TRUE]
      BY <2>7
    <3> QED
      BY <1>1, <3>1 DEF Keeps, Fields
  <2>9. Basic(v)
    BY <1>1, <2>8, BalancedKeeps DEF Balanced
  <2>10. Keeps(v, n, {"ref", "queued", "fault"})
    <3>1. n \in {tcp_timer_cancel(v, "retransmit"), tcp_timer_set(v, "retransmit")}
      BY <2>6, <2>7
    <3>2. Keeps(v, tcp_timer_cancel(v, "retransmit"), {"ref", "queued"})
      BY <2>9, TimerCancel DEF Timers
    <3>3. Keeps(v, tcp_timer_set(v, "retransmit"), {"ref", "queued", "fault"})
      BY <2>9, TimerSet DEF Timers
    <3> HIDE DEF n
    <3> QED
      BY <3>1, <3>2, <3>3 DEF Keeps
  <2> HIDE DEF n, rest, moved
  <2>11. /\ n.state = sk.state /\ n.rx_win_low = sk.rx_win_low /\ n.rx_win_high = sk.rx_win_high
         /\ n.rx_buffer = sk.rx_buffer /\ n.wire = sk.wire
         /\ n.tx_buffer = c /\ n.tx_win_low = seq
    BY <2>8, <2>10 DEF Keeps, Fields
  <2>12. RxFlow(n, ap.got, total) /\ WireFlow(n.wire, ap)
    BY <2>11 DEF Flow, RxFlow
  <2>13. TxFlow(n, ap.written)
    <3>1. Len(c) = m - len /\ w - (m - len) = (w - m) + len /\ (w - m) + len >= 0
      BY <2>1, <2>2, <2>3, <2>4, <2>7
    <3>2. ap.written - Len(n.tx_buffer) = (w - m) + len
      BY <2>0, <2>11, <3>1
    <3> QED
      BY <2>4, <2>5, <2>7, <2>11, <3>1, <3>2 DEF TxFlow
  <2> QED
    BY <2>12, <2>13 DEF Flow, n
<1> QED
  BY <1>2, <1>3

LEMMA DistShrink ==
  ASSUME NEW high \in SeqNum, NEW low \in SeqNum, NEW n \in Nat, n <= Dist(high, low)
  PROVE  (low + n) % SeqSpace \in SeqNum /\ Dist(high, (low + n) % SeqSpace) = Dist(high, low) - n
<1> DEFINE up == (low + n) % SeqSpace
<1>1. Dist(high, low) = (IF high >= low THEN high - low ELSE high - low + SeqSpace)
      /\ Dist(high, low) \in SeqNum
  BY DistIs
<1>2. SeqSpace \in Nat \ {0} /\ n \in 0 .. SeqSpace
  BY <1>1, Sizes DEF SeqNum
<1>3. up \in SeqNum /\ up = (IF low + n < SeqSpace THEN low + n ELSE (low + n) - SeqSpace)
  BY <1>2, Advance
<1> HIDE DEF up
<1>4. Dist(high, up) = (IF high >= up THEN high - up ELSE high - up + SeqSpace)
  BY <1>3, DistIs
<1>5. Dist(high, up) = Dist(high, low) - n
  BY <1>1, <1>2, <1>3, <1>4 DEF SeqNum
<1> QED
  BY <1>3, <1>5 DEF up

\* The bytes of a segment of the peer are those its sequence number says.
PeerData(seq, data, total) ==
  /\ data \in Seq(Int)
  /\ \E k \in Nat : k >= 1 /\ seq = SeqOf(k) /\ From(data, k - 1) /\ k + Len(data) <= total + 1

\* The peer's FIN comes behind its last byte or with it.
FinBehind(seg, total) ==
  \E k \in Nat : k >= 1 /\ seg.seq = SeqOf(k) /\ k + Len(seg.data) = total + 1

\* handle_data takes a segment only if it begins at rx_win_low.
LEMMA DataInOrder ==
  ASSUME NEW total \in PeerTotals, NEW k \in Nat, k >= 1, NEW len \in Nat, k + len <= total + 1,
         NEW r \in Nat, r <= total, SEQUENCE_LTE(SeqOf(k), SeqOf(1 + r)),
         Dist(SeqOf(k), SeqOf(1 + r)) < len
  PROVE  k = 1 + r
<1> DEFINE j == 1 + r
<1>1. /\ j \in Nat /\ j <= total + 1 /\ k <= total + 1 /\ total \in Nat
      /\ SEQUENCE_LTE(SeqOf(k), SeqOf(j)) /\ Dist(SeqOf(k), SeqOf(j)) < len
  BY SizesAssumption
<1> HIDE DEF j
<1>2. SeqOf(k) = SeqOf(j) \/ ~(Dist(SeqOf(k), SeqOf(j)) < SeqSpace \div 2)
  BY <1>1 DEF SEQUENCE_LTE, SEQUENCE_GT, SEQUENCE_GTE
<1>3. 2 * (SeqSpace \div 2) = SeqSpace /\ SeqSpace \div 2 \in Nat
  BY Sizes
<1>4. CASE k < j
  <2>1. /\ Dist(SeqOf(j), SeqOf(k)) = j - k /\ Dist(SeqOf(k), SeqOf(j)) = SeqSpace - (j - k)
        /\ 2 * (RxWinSize + total) <= SeqSpace /\ RxWinSize \in Nat \ {0} /\ SeqSpace \in Nat
    BY <1>1, <1>4, SeqOfApart
  <2> QED
    BY <1>1, <1>4, <2>1
<1>5. CASE j < k
  <2>1. /\ Dist(SeqOf(k), SeqOf(j)) = k - j /\ SeqOf(k) \in SeqNum
        /\ 2 * (RxWinSize + total) <= SeqSpace /\ RxWinSize \in Nat \ {0} /\ SeqSpace \in Nat
    BY <1>1, <1>5, SeqOfApart
  <2>2. SeqOf(k) # SeqOf(j)
    <3>1. SeqOf(k) = SeqOf(j) => Dist(SeqOf(k), SeqOf(j)) = SeqOf(k) - SeqOf(k)
      BY <2>1, DistIs DEF SeqNum
    <3> QED
      BY <1>1, <1>5, <2>1, <3>1 DEF SeqNum
  <2> QED
    BY <1>1, <1>2, <1>3, <1>5, <2>1, <2>2
<1> QED
  BY <1>1, <1>4, <1>5 DEF j

\* The next bytes of the stream go into rx_buffer, as many as the window has room for.
LEMMA FlowHandleData ==
  ASSUME NEW sk, NEW t, NEW h, Sound(sk, t, h), sk.state = "ESTABLISHED",
         NEW ap, NEW total, AppTyped(ap, total), Flow(sk, ap, total),
         NEW data, NEW seq, PeerData(seq, data, total)
  PROVE  Flow(handle_data(sk, data, seq), ap, total)
<1> DEFINE n == handle_data(sk, data, seq)
           len == Len(data)
           top == (seq + len - 1) % SeqSpace
           offset == Dist(seq, sk.rx_win_low)
           copy_len == Least(Dist(sk.rx_win_high, sk.rx_win_low), len - offset)
           full == IF copy_len >= Mss THEN sk.rx_full_mss_count + 1 ELSE 0
           low == (sk.rx_win_low + copy_len) % SeqSpace
           buf == cbuf_write(sk.rx_buffer, SubSeq(data, offset + 1, offset + copy_len))
           got == [sk EXCEPT !.rx_win_low = low, !.rx_buffer = buf, !.rx_event = TRUE]
           owing == [got EXCEPT !.rx_full_mss_count = full]
           InWin == SEQUENCE_LTE(seq, sk.rx_win_low) /\ SEQUENCE_GTE(top, sk.rx_win_low)
           Now == full >= 2 \/ 2 * (RxWinSize - Dist(sk.rx_win_high, low)) > RxWinSize
<1>1. IsSocket(sk) /\ Basic(sk) /\ RxTyped(sk) /\ DOMAIN sk = Fields
  BY DEF Sound, IsSocket, Basic
<1>2. CASE ~InWin
  <2>1. n = send_ack(sk)
    BY <1>2 DEF handle_data
  <2> QED
    BY <1>1, <2>1, FlowSendAck
<1>3. CASE InWin /\ offset >= len
  <2>1. n = Assert(FALSE, sk, "offset")
    BY <1>3 DEF handle_data
  <2>2. Keeps(sk, n, {"fault"})
    BY <1>1, <2>1 DEF Assert, Keeps, Fields
  <2> HIDE DEF n
  <2>3. Flow(n, ap, total)
    BY <2>2, FlowKeeps DEF FlowFields
  <2> QED
    BY <2>3 DEF n
<1>4. CASE InWin /\ ~(offset >= len)
  <2>0. PICK o, old, b, g, l, d : /\ o = sk.rx_win_low /\ old = sk.rx_win_high /\ b = sk.rx_buffer
                                  /\ g = Len(ap.got) /\ l = Len(sk.rx_buffer) /\ d = Len(data)
    OBVIOUS
  <2>a. /\ b \in Seq(Int) /\ data \in Seq(Int) /\ l = Len(b) /\ g \in Nat /\ l \in Nat /\ d \in Nat
        /\ total \in PeerTotals /\ total \in Nat /\ RxWinSize \in Nat
    <3>1. sk.rx_buffer \in Seq(Int) /\ ap.got \in Seq(Int) /\ total \in PeerTotals
          /\ data \in Seq(Int)
      BY DEF Flow, RxFlow, AppTyped, PeerData
    <3> QED
      BY <2>0, <3>1, SizesAssumption
  <2>1. /\ From(b, g) /\ g + l <= total /\ o = SeqOf(1 + (g + l)) /\ old \in SeqNum
        /\ Dist(old, o) + l <= RxWinSize - 1
    BY <2>0 DEF Flow, RxFlow
  <2>2. PICK k \in Nat : k >= 1 /\ seq = SeqOf(k) /\ From(data, k - 1) /\ k + d <= total + 1
    BY <2>0 DEF PeerData
  <2>3. SEQUENCE_LTE(seq, o) /\ Dist(seq, o) < d
    <3>1. ~(Dist(seq, o) >= d) /\ SEQUENCE_LTE(seq, o)
      BY <1>4, <2>0
    <3>2. seq \in SeqNum /\ o \in SeqNum
      <4>1. k <= total + 1
        BY <2>a, <2>2
      <4> DEFINE j == 1 + (g + l)
      <4>2. j \in Nat /\ j <= total + 1
        BY <2>a, <2>1
      <4> HIDE DEF j
      <4>3. SeqOf(j) \in SeqNum
        BY <2>a, <4>2, SeqOfApart
      <4>4. SeqOf(k) \in SeqNum
        BY <2>a, <4>1, SeqOfApart
      <4> QED
        BY <2>1, <2>2, <4>3, <4>4 DEF j
    <3>3. Dist(seq, o) \in Int
      BY <3>2, DistIs DEF SeqNum
    <3> QED
      BY <2>a, <3>1, <3>3
  <2>4. k = 1 + (g + l)
    <3> DEFINE r == g + l
    <3>1. r \in Nat /\ r <= total
      BY <2>a, <2>1
    <3>2. SEQUENCE_LTE(SeqOf(k), SeqOf(1 + r)) /\ Dist(SeqOf(k), SeqOf(1 + r)) < d
      BY <2>1, <2>2, <2>3
    <3> HIDE DEF r
    <3>3. k = 1 + r
      BY <2>a, <2>2, <3>1, <3>2, DataInOrder
    <3> QED
      BY <3>3 DEF r
  <2>5. /\ o = seq /\ o \in SeqNum /\ Dist(seq, o) = 0
    <3>1. o = seq
      BY <2>1, <2>2, <2>4
    <3>2. k <= total + 1
      BY <2>a, <2>2
    <3>3. SeqOf(k) \in SeqNum
      BY <2>a, <3>2, SeqOfApart
    <3>4. Dist(o, o) = o - o
      BY <2>2, <3>1, <3>3, DistIs DEF SeqNum
    <3> QED
      BY <2>2, <3>1, <3>3, <3>4 DEF SeqNum
  <2>6. PICK room, c : room = Dist(old, o) /\ c = Least(room, d)
    OBVIOUS
  <2>7. room \in Nat /\ c \in Nat /\ c <= room /\ c <= d /\ l + c <= RxWinSize - 1
    <3>1. Dist(old, o) \in SeqNum
      BY <2>1, <2>5, DistIs
    <3>2. room \in Nat
      BY <2>6, <3>1, Sizes DEF SeqNum
    <3>3. c \in Nat /\ c <= room /\ c <= d
      BY <2>a, <2>6, <3>2 DEF Least
    <3> QED
      BY <2>a, <2>1, <2>6, <3>2, <3>3, SMTT(30)
  <2>8. offset = 0 /\ copy_len = c
    <3>1. offset = 0 /\ len - offset = d
      BY <2>0, <2>a, <2>5
    <3> HIDE DEF offset, len
    <3> QED
      BY <2>0, <2>6, <3>1
  <2>9. PICK new : new = SubSeq(data, 1, c)
    OBVIOUS
  <2>10. new \in Seq(Int) /\ Len(new) = c /\ From(new, g + l)
    <3> DEFINE a == k - 1
    <3>0. From(data, a) /\ c <= Len(data)
      BY <2>0, <2>2, <2>7
    <3>1. a \in Int /\ 0 \in Nat /\ c \in Nat /\ 0 <= c /\ a = g + l /\ a + 0 = a
      BY <2>a, <2>4, <2>7
    <3> HIDE DEF a
    <3>2. LET e == SubSeq(data, 0 + 1, c) IN e \in Seq(Int) /\ Len(e) = c - 0 /\ From(e, a + 0)
      BY <2>a, <3>0, <3>1, FromCut
    <3>3. 0 + 1 = 1 /\ c - 0 = c
      BY <2>7
    <3> QED
      BY <2>9, <3>1, <3>2, <3>3
  <2>11. buf = b \o new
    <3>1. SubSeq(data, offset + 1, offset + copy_len) = new
      <4>1. offset + 1 = 1 /\ offset + copy_len = c
        <5> HIDE DEF offset, copy_len
        <5> QED
          BY <2>7, <2>8
      <4> HIDE DEF offset, copy_len
      <4> QED
        BY <2>9, <4>1
    <3>2. Least(Len(new), RxWinSize - 1 - Len(b)) = Len(new)
      BY <2>a, <2>7, <2>10 DEF Least
    <3>3. SubSeq(new, 1, Len(new)) = new
      BY <2>10, SubSeqFull
    <3>4. cbuf_write(b, new) = b \o new
      BY <3>2, <3>3 DEF cbuf_write
    <3> HIDE DEF offset, copy_len
    <3> QED
      BY <2>0, <3>1, <3>4
  <2>12. b \o new \in Seq(Int) /\ Len(b \o new) = l + c /\ From(b \o new, g)
    <3>1. From(new, g + Len(b)) /\ g \in Int
      BY <2>a, <2>10
    <3>2. b \o new \in Seq(Int) /\ Len(b \o new) = Len(b) + Len(new) /\ From(b \o new, g)
      BY <2>a, <2>1, <2>10, <3>1, FromJoin
    <3> QED
      BY <2>a, <2>10, <3>2, Zenon
  <2>13. low = (o + c) % SeqSpace
    BY <2>0, <2>8
  <2>14. /\ (o + c) % SeqSpace = SeqOf(1 + (g + (l + c))) /\ g + (l + c) <= total
         /\ Dist(old, (o + c) % SeqSpace) = room - c
    <3> DEFINE j == k + c
    <3>1. j \in Nat /\ k <= j /\ j <= total + 1 /\ j - k = c
      BY <2>a, <2>2, <2>7
    <3>2. j = 1 + (g + (l + c)) /\ g + (l + c) <= total
      BY <2>a, <2>4, <2>7, <3>1
    <3> HIDE DEF j
    <3>3. (SeqOf(k) + (j - k)) % SeqSpace = SeqOf(j)
      BY <2>a, <3>1, SeqOfApart
    <3>4. Dist(old, (o + c) % SeqSpace) = Dist(old, o) - c
      BY <2>1, <2>5, <2>6, <2>7, DistShrink
    <3> QED
      BY <2>2, <2>5, <2>6, <3>1, <3>2, <3>3, <3>4
  <2>15. n = IF Now THEN [send_ack(got) EXCEPT !.rx_full_mss_count = 0]
             ELSE tcp_timer_set(owing, "ack_delay")
    BY <1>4 DEF handle_data
  <2> HIDE DEF n, full, Now
  <2>16. PICK v, nl : v = got /\ nl = (o + c) % SeqSpace
    OBVIOUS
  <2>17. v = [sk EXCEPT !.rx_win_low = nl, !.rx_buffer = b \o new, !.rx_event = TRUE]
    BY <2>11, <2>13, <2>16
  <2>18. n = IF Now THEN [send_ack(v) EXCEPT !.rx_full_mss_count = 0]
             ELSE tcp_timer_set([v EXCEPT !.rx_full_mss_count = full], "ack_delay")
    BY <2>15, <2>16
  <2> HIDE DEF got, owing, low, buf, copy_len, offset, InWin
  <2>19. PICK nb : nb = b \o new
    OBVIOUS
  <2>20. /\ Keeps(sk, v, {"rx_win_low", "rx_buffer", "rx_event"})
         /\ v.rx_win_low = nl /\ v.rx_buffer = nb
    <3>1. v = [sk EXCEPT !.rx_win_low = nl, !.rx_buffer = nb, !.rx_event = TRUE]
      BY <2>17, <2>19
    <3> QED
      BY <1>1, <3>1 DEF Keeps, Fields
  <2>21. /\ v.state = sk.state /\ v.rx_win_high = old /\ v.tx_win_low = sk.tx_win_low
         /\ v.tx_buffer = sk.tx_buffer /\ v.wire = sk.wire
    BY <2>0, <2>20 DEF Keeps, Fields
  <2>22. Flow(v, ap, total)
    <3>1. TxFlow(v, ap.written) /\ WireFlow(v.wire, ap)
      BY <2>21 DEF Flow, TxFlow
    <3>2. /\ v.rx_buffer \in Seq(Int) /\ From(v.rx_buffer, g) /\ Len(v.rx_buffer) = l + c
      BY <2>12, <2>19, <2>20
    <3>3. g + (l + c) <= total /\ v.rx_win_low = SeqOf(1 + (g + (l + c))) /\ old \in SeqNum
          /\ Dist(old, nl) = room - c
      BY <2>1, <2>14, <2>16, <2>20
    <3>4. Dist(v.rx_win_high, v.rx_win_low) + (l + c) <= RxWinSize - 1
      <4>1. Dist(v.rx_win_high, v.rx_win_low) = room - c
        BY <2>20, <2>21, <3>3
      <4> QED
        BY <2>a, <2>1, <2>6, <2>7, <4>1
    <3>5. RxFlow(v, ap.got, total)
      BY <2>0, <2>21, <3>2, <3>3, <3>4 DEF RxFlow
    <3> QED
      BY <3>1, <3>5 DEF Flow
  <2>23. Basic(v) /\ RxTyped(v)
    <3>1. nl \in Int
      BY <2>1, <2>5, <2>6, <2>7, <2>16, DistShrink DEF SeqNum
    <3>2. RxTyped(v)
      BY <2>1, <2>12, <2>19, <2>20, <2>21, <3>1 DEF RxTyped, SeqNum
    <3> QED
      BY <1>1, <2>20, <3>2, BalancedKeeps DEF Balanced
  <2>24. CASE Now
    <3> DEFINE sent == send_ack(v)
    <3>1. Flow(sent, ap, total)
      BY <2>22, <2>23, FlowSendAck
    <3>2. DOMAIN sent = Fields
      BY <2>23, SendAck DEF Keeps
    <3>3. n = [sent EXCEPT !.rx_full_mss_count = 0]
      BY <2>18, <2>24
    <3> HIDE DEF sent
    <3>4. Keeps(sent, n, {"rx_full_mss_count"})
      BY <3>2, <3>3 DEF Keeps, Fields
    <3> QED
      BY <3>1, <3>4, FlowKeeps DEF FlowFields, n
  <2>25. CASE ~Now
    <3> DEFINE owes == [v EXCEPT !.rx_full_mss_count = full]
    <3>1. n = tcp_timer_set(owes, "ack_delay")
      BY <2>18, <2>25
    <3>2. Keeps(v, owes, {"rx_full_mss_count"})
      BY <2>23 DEF Keeps, Fields, Basic
    <3> HIDE DEF owes
    <3>3. Basic(owes)
      BY <2>23, <3>2, BalancedKeeps DEF Balanced
    <3>4. Keeps(owes, n, {"ref", "queued", "fault"})
      BY <3>1, <3>3, TimerSet DEF Timers
    <3>5. Flow(owes, ap, total)
      BY <2>22, <3>2, FlowKeeps DEF FlowFields
    <3> QED
      BY <3>4, <3>5, FlowKeeps DEF FlowFields, n
  <2> QED
    BY <2>24, <2>25
<1> QED
  BY <1>2, <1>3, <1>4

Late == States \ {"none", "SYN_RCVD", "ESTABLISHED", "CLOSE_WAIT"}

\* What a late state makes of the socket leaves the streams alone.
LEMMA FlowLater ==
  ASSUME NEW sk, NEW n, NEW ap, NEW total, Flow(sk, ap, total), Calm(sk, n), n.state \in Late
  PROVE  Flow(n, ap, total)
BY FlowLate DEF Late

LEMMA CalmSet ==
  ASSUME NEW sk, Basic(sk), NEW t \in Timers
  PROVE  Calm(sk, tcp_timer_set(sk, t)) /\ tcp_timer_set(sk, t).state = sk.state
<1>1. Keeps(sk, tcp_timer_set(sk, t), {"ref", "queued", "fault"})
  BY TimerSet
<1> QED
  BY <1>1 DEF Keeps, Calm, Fields

LEMMA CalmCancel ==
  ASSUME NEW sk, Basic(sk), NEW t \in Timers
  PROVE  LET n == tcp_timer_cancel(sk, t) IN
         Calm(sk, n) /\ n.state = sk.state /\ Basic(n)
<1> DEFINE n == tcp_timer_cancel(sk, t)
<1>1. Keeps(sk, n, {"ref", "queued"}) /\ Basic(n)
  BY TimerCancel DEF Balanced
<1> HIDE DEF n
<1>2. Calm(sk, n) /\ n.state = sk.state
  BY <1>1 DEF Keeps, Calm, Fields
<1> QED
  BY <1>1, <1>2 DEF n

LEMMA CalmState ==
  ASSUME NEW sk, Basic(sk), NEW state
  PROVE  LET n == [sk EXCEPT !.state = state] IN
         /\ Calm(sk, n) /\ n.state = state /\ Basic(n) /\ Keeps(sk, n, {"state"})
         /\ RxTyped(sk) => RxTyped(n)
<1> DEFINE n == [sk EXCEPT !.state = state]
<1>1. Keeps(sk, n, {"state"}) /\ n.state = state
  BY DEF Keeps, Fields, Basic
<1> HIDE DEF n
<1>2. Calm(sk, n) /\ n.rx_win_low = sk.rx_win_low /\ n.rx_win_high = sk.rx_win_high
      /\ n.rx_buffer = sk.rx_buffer
  BY <1>1 DEF Keeps, Calm, Fields
<1>3. Basic(n)
  BY <1>1, BalancedKeeps DEF Balanced
<1>4. RxTyped(sk) => RxTyped(n)
  BY <1>2 DEF RxTyped
<1> QED
  BY <1>1, <1>2, <1>3, <1>4 DEF n

LEMMA CalmRemoteClose ==
  ASSUME NEW sk, Basic(sk)
  PROVE  Calm(sk, tcp_remote_close(sk)) /\ tcp_remote_close(sk).state = "CLOSED"
<1> DEFINE n == tcp_remote_close(sk)
           a == [sk EXCEPT !.state = "CLOSED"]
           b == tcp_timer_cancel(a, "retransmit")
           c == tcp_timer_cancel(b, "ack_delay")
<1>1. CASE sk.state = "CLOSED"
  BY <1>1 DEF tcp_remote_close, Calm, Basic
<1>2. CASE sk.state # "CLOSED"
  <2>1. n = tcp_wakeup_waiters(c)
    BY <1>2 DEF tcp_remote_close
  <2>2. Calm(sk, a) /\ a.state = "CLOSED" /\ Basic(a)
    BY CalmState
  <2> HIDE DEF a
  <2>3. Calm(a, b) /\ b.state = a.state /\ Basic(b)
    BY <2>2, CalmCancel DEF Timers
  <2> HIDE DEF b
  <2>4. Calm(b, c) /\ c.state = b.state
    BY <2>3, CalmCancel DEF Timers
  <2> HIDE DEF c, n
  <2>5. Calm(c, n) /\ n.state = c.state
    BY <2>1, <2>4 DEF tcp_wakeup_waiters, Calm, Fields
  <2> QED
    BY <2>2, <2>3, <2>4, <2>5, CalmTwice DEF n
<1> QED
  BY <1>1, <1>2

LEMMA CalmUnlist ==
  ASSUME NEW r, DOMAIN r = Fields
  PROVE  LET n == dec_socket_ref(remove_socket_from_list(r)) IN
         Calm(r, n) /\ n.state = r.state
<1> DEFINE m == remove_socket_from_list(r)
           n == dec_socket_ref(m)
<1>1. Keeps(r, m, {"in_list", "fault"})
  BY Remove
<1> HIDE DEF m
<1>2. Keeps(m, n, {"ref"})
  BY <1>1, Dec DEF Keeps
<1> HIDE DEF n
<1>3. Calm(r, n) /\ n.state = r.state
  BY <1>1, <1>2 DEF Keeps, Calm, Fields
<1> QED
  BY <1>3 DEF n, m

\* The peer's FIN in ESTABLISHED ends what handle_data may take.
LEMMA FlowInEstablished ==
  ASSUME NEW sk, NEW t, NEW h, Sound(sk, t, h), sk.state = "ESTABLISHED",
         NEW ap, NEW total, AppTyped(ap, total), Flow(sk, ap, total),
         NEW seg, SegmentTyped(seg), seg.data # <<>> => PeerData(seg.seq, seg.data, total)
  PROVE  Flow(in_established(sk, seg), ap, total)
<1> DEFINE n == in_established(sk, seg)
           acked == IF Ack(seg) THEN handle_ack(sk, seg.ack) ELSE sk
           got == IF seg.data # <<>> THEN handle_data(acked, seg.data, seg.seq) ELSE acked
           highest == IF seg.data # <<>> THEN seg.seq + Len(seg.data) - 1 ELSE seg.seq
           Closes == Fin(seg) /\ SEQUENCE_GTE(got.rx_win_low, highest % SeqSpace)
           f == FinReceived(got)
<1>1. Sound(acked, t, h) /\ acked.state = sk.state /\ Flow(acked, ap, total)
  <2>1. CASE Ack(seg)
    BY <2>1, HandleAck, FlowHandleAck DEF SegmentTyped
  <2>2. CASE ~Ack(seg)
    BY <2>2
  <2> QED
    BY <2>1, <2>2
<1>2. n = IF Closes THEN [f EXCEPT !.state = "CLOSE_WAIT", !.rx_event = TRUE] ELSE got
  BY DEF in_established, FinReceived
<1> HIDE DEF acked, n
<1>3. Sound(got, t, h) /\ got.state = "ESTABLISHED" /\ Flow(got, ap, total)
  <2>1. CASE seg.data # <<>>
    <3>1. Sound(got, t, h) /\ got.state = acked.state
      BY <1>1, <2>1, HandleData DEF SegmentTyped
    <3>2. Flow(got, ap, total)
      BY <1>1, <2>1, FlowHandleData
    <3> HIDE DEF got
    <3> QED
      BY <1>1, <3>1, <3>2
  <2>2. CASE seg.data = <<>>
    <3>1. got = acked
      BY <2>2
    <3> HIDE DEF got
    <3> QED
      BY <1>1, <3>1
  <2> QED
    BY <2>1, <2>2
<1> HIDE DEF got, Closes
<1>4. CASE ~Closes
  BY <1>2, <1>3, <1>4 DEF n
<1>5. CASE Closes
  <2>1. Basic(got) /\ RxTyped(got)
    BY <1>3 DEF Sound, IsSocket
  <2>2. /\ Keeps(got, f, {"ref", "queued", "rx_win_low", "rx_win_high", "acked", "wire"})
        /\ Calm(got, f)
    BY <2>1, FinReceivedKeeps, CalmFin
  <2> HIDE DEF f
  <2>3. /\ Keeps(f, n, {"state", "rx_event"}) /\ n.state = "CLOSE_WAIT"
    BY <1>2, <1>5, <2>2 DEF Keeps, Fields
  <2>4. /\ n.rx_buffer = got.rx_buffer /\ n.wire = got.wire
        /\ n.tx_win_low = got.tx_win_low /\ n.tx_buffer = got.tx_buffer
    BY <2>2, <2>3 DEF Keeps, Calm, Fields
  <2>5. RxFlow(n, ap.got, total)
    BY <1>3, <2>3, <2>4 DEF Flow, RxFlow
  <2>6. TxFlow(n, ap.written) /\ WireFlow(n.wire, ap)
    BY <1>3, <2>3, <2>4 DEF Flow, TxFlow
  <2> QED
    BY <2>5, <2>6 DEF Flow, n
<1> QED
  BY <1>4, <1>5

LEMMA FlowInCloseWait ==
  ASSUME NEW sk, NEW t, NEW h, Sound(sk, t, h), sk.state = "CLOSE_WAIT",
         NEW ap, NEW total, AppTyped(ap, total), Flow(sk, ap, total), NEW seg, SegmentTyped(seg)
  PROVE  Flow(in_close_wait(sk, seg), ap, total)
<1> DEFINE n == in_close_wait(sk, seg)
           acked == IF Ack(seg) THEN handle_ack(sk, seg.ack) ELSE sk
<1>1. Sound(acked, t, h) /\ Flow(acked, ap, total)
  <2>1. CASE Ack(seg)
    BY <2>1, HandleAck, FlowHandleAck DEF SegmentTyped
  <2>2. CASE ~Ack(seg)
    BY <2>2
  <2> QED
    BY <2>1, <2>2
<1>2. n = IF Fin(seg) THEN send_ack(acked) ELSE acked
  BY DEF in_close_wait
<1> HIDE DEF acked, n
<1>3. Basic(acked) /\ RxTyped(acked)
  BY <1>1 DEF Sound, IsSocket
<1>4. CASE Fin(seg)
  BY <1>1, <1>2, <1>3, <1>4, FlowSendAck DEF n
<1>5. CASE ~Fin(seg)
  BY <1>1, <1>2, <1>5 DEF n
<1> QED
  BY <1>4, <1>5

LEMMA CalmFinWait2 ==
  ASSUME NEW sk, Basic(sk), RxTyped(sk), sk.state = "FIN_WAIT_2", NEW seg
  PROVE  LET n == in_fin_wait_2(sk, seg) IN Calm(sk, n) /\ n.state \in Late
<1> DEFINE n == in_fin_wait_2(sk, seg)
           f == FinReceived(sk)
           a == [f EXCEPT !.state = "TIME_WAIT"]
<1>1. CASE ~Fin(seg)
  BY <1>1 DEF in_fin_wait_2, Calm, Basic, Late, States
<1>2. CASE Fin(seg)
  <2>1. n = tcp_timer_set(a, "time_wait")
    BY <1>2 DEF in_fin_wait_2
  <2>2. Calm(sk, f) /\ Basic(f)
    BY CalmFin, FinReceivedKeeps DEF Balanced
  <2> HIDE DEF f
  <2>3. Calm(f, a) /\ a.state = "TIME_WAIT" /\ Basic(a)
    BY <2>2, CalmState
  <2> HIDE DEF a
  <2>4. Calm(a, n) /\ n.state = a.state
    BY <2>1, <2>3, CalmSet DEF Timers
  <2> HIDE DEF n
  <2> QED
    BY <2>2, <2>3, <2>4, CalmTwice DEF n, Late, States
<1> QED
  BY <1>1, <1>2

LEMMA CalmFinWait1 ==
  ASSUME NEW sk, Basic(sk), RxTyped(sk), sk.state = "FIN_WAIT_1", NEW seg
  PROVE  LET n == in_fin_wait_1(sk, seg) IN Calm(sk, n) /\ n.state \in Late
<1> DEFINE n == in_fin_wait_1(sk, seg)
           a == [sk EXCEPT !.state = "FIN_WAIT_2"]
           f == FinReceived(sk)
           b == [f EXCEPT !.state = "CLOSING"]
<1>1. CASE Ack(seg)
  <2>1. n = in_fin_wait_2(a, seg)
    BY <1>1 DEF in_fin_wait_1
  <2>2. Calm(sk, a) /\ a.state = "FIN_WAIT_2" /\ Basic(a) /\ RxTyped(a)
    BY CalmState
  <2> HIDE DEF a
  <2>3. Calm(a, n) /\ n.state \in Late
    BY <2>1, <2>2, CalmFinWait2
  <2> HIDE DEF n
  <2> QED
    BY <2>2, <2>3, CalmTwice DEF n
<1>2. CASE ~Ack(seg) /\ Fin(seg)
  <2>1. n = b
    BY <1>2 DEF in_fin_wait_1
  <2>2. Calm(sk, f) /\ Basic(f)
    BY CalmFin, FinReceivedKeeps DEF Balanced
  <2> HIDE DEF f
  <2>3. Calm(f, b) /\ b.state = "CLOSING"
    BY <2>2, CalmState
  <2> HIDE DEF b, n
  <2> QED
    BY <2>1, <2>2, <2>3, CalmTwice DEF n, Late, States
<1>3. CASE ~Ack(seg) /\ ~Fin(seg)
  BY <1>3 DEF in_fin_wait_1, Calm, Basic, Late, States
<1> QED
  BY <1>1, <1>2, <1>3

LEMMA FlowHandled ==
  ASSUME NEW sk, NEW t, NEW h, Sound(sk, t, h),
         NEW ap, NEW total, AppTyped(ap, total), Flow(sk, ap, total),
         NEW seg, SegmentTyped(seg), seg.data # <<>> => PeerData(seg.seq, seg.data, total)
  PROVE  Flow(Handled(sk, seg), ap, total)
<1> DEFINE n == Handled(sk, seg)
<1>0. Basic(sk) /\ RxTyped(sk) /\ sk.state \in States \ {"none"} /\ DOMAIN sk = Fields
  BY DEF Sound, IsSocket, Basic
<1>1. \A m : Calm(sk, m) /\ m.state \in Late => Flow(m, ap, total)
  BY FlowLater
<1>2. CASE "RST" \in seg.flags
  <2>1. n = tcp_remote_close(sk)
    BY <1>2 DEF Handled
  <2>2. Calm(sk, n) /\ n.state = "CLOSED"
    BY <1>0, <2>1, CalmRemoteClose
  <2> HIDE DEF n
  <2> QED
    BY <1>1, <2>2 DEF n, Late, States
<1>3. CASE "RST" \notin seg.flags
  <2>1. CASE sk.state = "SYN_RCVD"
    <3>1. n = in_syn_rcvd(sk, seg)
      BY <1>3, <2>1 DEF Handled
    <3>2. CASE n = sk
      BY <3>2
    <3>3. CASE n = [sk EXCEPT !.tx_highest_seq = sk.tx_win_low, !.state = "ESTABLISHED"]
      <4> HIDE DEF n
      <4>1. Keeps(sk, n, {"tx_highest_seq", "state"}) /\ n.state = "ESTABLISHED"
        BY <1>0, <3>3 DEF Keeps, Fields
      <4>2. /\ n.rx_win_low = sk.rx_win_low /\ n.rx_win_high = sk.rx_win_high
            /\ n.rx_buffer = sk.rx_buffer /\ n.tx_win_low = sk.tx_win_low
            /\ n.tx_buffer = sk.tx_buffer /\ n.wire = sk.wire
        BY <4>1 DEF Keeps, Fields
      <4>3. RxFlow(n, ap.got, total)
        BY <2>1, <4>1, <4>2 DEF Flow, RxFlow
      <4>4. TxFlow(n, ap.written) /\ WireFlow(n.wire, ap)
        BY <2>1, <4>1, <4>2 DEF Flow, TxFlow
      <4> QED
        BY <4>3, <4>4 DEF Flow, n
    <3> QED
      BY <3>1, <3>2, <3>3 DEF in_syn_rcvd
  <2>2. CASE sk.state = "ESTABLISHED"
    <3>1. n = in_established(sk, seg)
      BY <1>3, <2>2 DEF Handled
    <3> QED
      BY <2>2, <3>1, FlowInEstablished
  <2>3. CASE sk.state = "CLOSE_WAIT"
    <3>1. n = in_close_wait(sk, seg)
      BY <1>3, <2>3 DEF Handled
    <3> QED
      BY <2>3, <3>1, FlowInCloseWait
  <2>4. CASE sk.state = "LAST_ACK"
    <3> DEFINE r == tcp_remote_close(sk)
    <3>1. n = in_last_ack(sk, seg)
      BY <1>3, <2>4 DEF Handled
    <3>2. CASE Ack(seg)
      <4>1. n = dec_socket_ref(remove_socket_from_list(r))
        BY <3>1, <3>2 DEF in_last_ack
      <4>2. Calm(sk, r) /\ r.state = "CLOSED"
        BY <1>0, CalmRemoteClose
      <4> HIDE DEF r
      <4>3. Calm(r, n) /\ n.state = r.state
        BY <4>1, <4>2, CalmUnlist DEF Calm
      <4> HIDE DEF n
      <4> QED
        BY <1>1, <4>2, <4>3, CalmTwice DEF n, Late, States
    <3>3. CASE ~Ack(seg)
      BY <3>1, <3>3 DEF in_last_ack
    <3> QED
      BY <3>2, <3>3
  <2>5. CASE sk.state = "FIN_WAIT_1"
    <3>1. n = in_fin_wait_1(sk, seg)
      BY <1>3, <2>5 DEF Handled
    <3>2. Calm(sk, n) /\ n.state \in Late
      BY <1>0, <2>5, <3>1, CalmFinWait1
    <3> QED
      BY <1>1, <3>2
  <2>6. CASE sk.state = "FIN_WAIT_2"
    <3>1. n = in_fin_wait_2(sk, seg)
      BY <1>3, <2>6 DEF Handled
    <3>2. Calm(sk, n) /\ n.state \in Late
      BY <1>0, <2>6, <3>1, CalmFinWait2
    <3> QED
      BY <1>1, <3>2
  <2>7. CASE sk.state = "CLOSING"
    <3> DEFINE a == [sk EXCEPT !.state = "TIME_WAIT"]
    <3>1. n = IF Ack(seg) THEN tcp_timer_set(a, "time_wait") ELSE sk
      BY <1>3, <2>7 DEF Handled, in_closing
    <3>2. CASE Ack(seg)
      <4>1. Calm(sk, a) /\ a.state = "TIME_WAIT" /\ Basic(a)
        BY <1>0, CalmState
      <4>2. n = tcp_timer_set(a, "time_wait")
        BY <3>1, <3>2
      <4> HIDE DEF a, n
      <4>3. Calm(a, n) /\ n.state = a.state
        BY <4>1, <4>2, CalmSet DEF Timers
      <4> QED
        BY <1>1, <4>1, <4>3, CalmTwice DEF n, Late, States
    <3>3. CASE ~Ack(seg)
      BY <3>1, <3>3
    <3> QED
      BY <3>2, <3>3
  <2>8. CASE sk.state \in {"TIME_WAIT", "CLOSED"}
    <3>1. n = sk
      BY <1>3, <2>8 DEF Handled
    <3> QED
      BY <3>1
  <2> QED
    BY <1>0, <2>1, <2>2, <2>3, <2>4, <2>5, <2>6, <2>7, <2>8 DEF States
<1> QED
  BY <1>2, <1>3

LEMMA PeerStream ==
  ASSUME NEW seg \in FromPeer, peer.total \in PeerTotals
  PROVE  /\ seg.data # <<>> => PeerData(seg.seq, seg.data, peer.total)
         /\ Fin(seg) => FinBehind(seg, peer.total)
<1>0. PICK total : total = peer.total
  OBVIOUS
<1>1. CASE seg \in {SynSegment, RstSegment}
  BY <1>1 DEF SynSegment, RstSegment, Fin
<1>2. CASE seg \notin {SynSegment, RstSegment}
  <2>1. /\ seg \in DataSegments /\ Dist(seg.seq, PeerIsn) + Len(seg.data) <= total + 1
        /\ Fin(seg) => Dist(seg.seq, PeerIsn) + Len(seg.data) = total + 1
    BY <1>0, <1>2 DEF FromPeer
  <2>2. PICK f \in {{"ACK"}, {"ACK", "FIN"}, {"FIN"}}, k \in 1 .. total + 1,
             n \in 0 .. Mss, a \in Acks :
          seg = [flags |-> f, seq |-> SeqOf(k), ack |-> a,
                 data |-> [i \in 1 .. n |-> k + i - 1]]
    BY <1>0, <2>1 DEF DataSegments
  <2>3. /\ total \in Nat /\ k \in Nat /\ k >= 1 /\ k <= total + 1 /\ n \in Nat
        /\ total \in PeerTotals
    <3>1. total \in Nat /\ Mss \in Nat
      BY <1>0, SizesAssumption
    <3> QED
      BY <1>0, <3>1
  <2>4. PICK d : d = [i \in 1 .. n |-> k + i - 1]
    OBVIOUS
  <2>5. seg.seq = SeqOf(k) /\ seg.data = d
    BY <2>2, <2>4
  <2>6. d \in Seq(Int) /\ Len(d) = n /\ DOMAIN d = 1 .. n
    BY <2>3, <2>4
  <2>7. From(d, k - 1)
    <3>1. \A i \in 1 .. n : k + i - 1 = (k - 1) + i
      BY <2>3
    <3> QED
      BY <2>4, <3>1 DEF From
  <2>8. Dist(SeqOf(k), PeerIsn) = k
    <3>1. Dist(SeqOf(k), SeqOf(0)) = k - 0
      BY <2>3, SeqOfApart
    <3>2. PeerIsn \in SeqNum /\ SeqSpace \in Nat \ {0}
      BY ArgumentsAssumption, Sizes DEF SeqNum
    <3>3. (PeerIsn + 0) % SeqSpace = (IF PeerIsn + 0 < SeqSpace THEN PeerIsn + 0
                                      ELSE (PeerIsn + 0) - SeqSpace)
      BY <3>2, Advance
    <3>4. SeqOf(0) = PeerIsn
      BY <3>2, <3>3 DEF SeqOf, SeqNum
    <3> QED
      BY <2>3, <3>1, <3>4
  <2>9. k + Len(d) <= total + 1 /\ (Fin(seg) => k + Len(d) = total + 1)
    BY <2>1, <2>5, <2>8
  <2>10. seg.data # <<>> => PeerData(seg.seq, seg.data, total)
    BY <2>3, <2>5, <2>6, <2>7, <2>9 DEF PeerData
  <2>11. Fin(seg) => FinBehind(seg, total)
    BY <2>3, <2>5, <2>9 DEF FinBehind
  <2> QED
    BY <1>0, <2>10, <2>11
<1> QED
  BY <1>1, <1>2

-----------------------------------------------------------------------------
\* While the application has not closed the socket no FIN is on the wire.
LEMMA WireGrows ==
  ASSUME NEW wire, NEW ap, NEW bp, WireFlow(wire, ap), ap.handle # "closed",
         ap.written \in Nat, bp.written \in Nat, ap.written <= bp.written
  PROVE  WireFlow(wire, bp)
<1> SUFFICES ASSUME NEW seg \in wire PROVE IsSyn(seg) \/ IsData(seg, bp.written)
  BY DEF WireFlow
<1>1. CASE IsSyn(seg)
  BY <1>1
<1>2. CASE IsData(seg, ap.written)
  <2>1. PICK k \in Nat : /\ seg.seq = Local(k) /\ From(seg.data, k)
                         /\ k + Len(seg.data) <= ap.written
    BY <1>2 DEF IsData
  <2>2. seg.flags = {} /\ seg.data \in Seq(Int)
    BY <1>2 DEF IsData
  <2>3. k + Len(seg.data) <= bp.written
    <3>1. PICK m : m = Len(seg.data)
      OBVIOUS
    <3>2. m \in Nat
      BY <2>2, <3>1
    <3>3. k + m <= bp.written
      BY <2>1, <3>1, <3>2
    <3> QED
      BY <3>1, <3>3
  <2> QED
    BY <2>1, <2>2, <2>3 DEF IsData
<1> QED
  BY <1>1, <1>2 DEF WireFlow, IsFin

LEMMA FlowSame ==
  ASSUME NEW sk, NEW ap, NEW bp, NEW total, Flow(sk, ap, total), bp.got = ap.got,
         bp.written = ap.written, bp.handle = ap.handle, bp.unacked = ap.unacked
  PROVE  Flow(sk, bp, total)
BY DEF Flow, WireFlow, IsFin

LEMMA FlowRetransmit ==
  ASSUME NEW sk, NEW t, NEW h, Sound(sk, t, h),
         NEW ap, NEW total, AppTyped(ap, total), Flow(sk, ap, total)
  PROVE  Flow(tcp_retransmit(sk), ap, total)
<1> DEFINE n == tcp_retransmit(sk)
           Idle == sk.state \notin {"ESTABLISHED", "CLOSE_WAIT"} \/ Outstanding(sk) = <<>>
<1>1. Basic(sk) /\ RxTyped(sk)
  BY DEF Sound, IsSocket
<1>2. CASE Idle
  BY <1>2 DEF tcp_retransmit
<1>3. CASE ~Idle
  <2>1. PICK b, m, w, low : b = sk.tx_buffer /\ m = Len(b) /\ w = ap.written /\ low = sk.tx_win_low
    OBVIOUS
  <2>2. /\ b \in Seq(Int) /\ m \in Nat /\ w \in Nat /\ w <= AppBytes
        /\ Dist(sk.tx_highest_seq, sk.tx_win_low) = m
    BY <1>3, <2>1 DEF Sound, IsSocket, AllSent, AppTyped
  <2>3. w - m >= 0 /\ low = Local(w - m) /\ From(b, w - m)
    BY <1>3, <2>1 DEF Flow, TxFlow
  <2>4. Outstanding(sk) = b
    <3>1. SubSeq(b, 1, Len(b)) = b
      BY <2>2, SubSeqFull
    <3> QED
      BY <2>1, <2>2, <3>1 DEF Outstanding
  <2>5. PICK j, data : j = Least(Mss, m) /\ data = SubSeq(b, 1, j)
    OBVIOUS
  <2>6. j \in Nat /\ j <= m
    <3>1. Mss \in Nat
      BY SizesAssumption
    <3> QED
      BY <2>2, <2>5, <3>1 DEF Least
  <2>7. data \in Seq(Int) /\ Len(data) = j /\ From(data, w - m)
    <3> DEFINE a == w - m
    <3>1. a \in Int /\ 0 \in Nat /\ 0 <= j /\ j <= Len(b) /\ a + 0 = a /\ 0 + 1 = 1 /\ j - 0 = j
      BY <2>1, <2>2, <2>6
    <3>2. From(b, a)
      BY <2>3
    <3> HIDE DEF a
    <3>3. LET c == SubSeq(b, 0 + 1, j) IN c \in Seq(Int) /\ Len(c) = j - 0 /\ From(c, a + 0)
      BY <2>2, <2>6, <3>1, <3>2, FromCut
    <3>4. data \in Seq(Int) /\ Len(data) = j /\ From(data, a)
      BY <2>5, <3>1, <3>3
    <3> QED
      BY <3>4 DEF a
  <2> DEFINE sent == tcp_socket_send(sk, data, {}, low)
             seg == [seq |-> low, data |-> data, flags |-> {}]
  <2>8. n = tcp_timer_set(sent, "retransmit")
    BY <1>3, <2>1, <2>4, <2>5 DEF tcp_retransmit
  <2>9. Keeps(sk, sent, {"ref", "queued", "rx_win_high", "acked", "wire"}) /\ Basic(sent)
    BY <1>1, SocketSend DEF Balanced
  <2>10. sent.wire \subseteq sk.wire \cup {seg}
    BY <1>1, SendWire
  <2>11. RxFlow(sent, ap.got, total) /\ TxFlow(sent, ap.written)
    BY <1>1, FlowSend DEF Flow
  <2>12. IsData(seg, ap.written)
    <3> DEFINE a == w - m
    <3>1. a \in Nat /\ a + j <= w
      BY <2>2, <2>3, <2>6
    <3>2. low = Local(a) /\ From(data, a)
      BY <2>3, <2>7
    <3> HIDE DEF a
    <3>3. seg.flags = {} /\ seg.data = data /\ seg.seq = low
      OBVIOUS
    <3> HIDE DEF seg
    <3> QED
      BY <2>1, <2>7, <3>1, <3>2, <3>3 DEF IsData
  <2> HIDE DEF sent, seg, n
  <2>13. Flow(sent, ap, total)
    BY <2>10, <2>11, <2>12 DEF Flow, WireFlow
  <2>14. Keeps(sent, n, {"ref", "queued", "fault"})
    BY <2>8, <2>9, TimerSet DEF Timers
  <2> QED
    BY <2>13, <2>14, FlowKeeps DEF FlowFields, n
<1> QED
  BY <1>2, <1>3

-----------------------------------------------------------------------------
\* The segments carry the bytes under their own sequence numbers.
LEMMA SegmentsCarry ==
  ASSUME NEW d \in Seq(Int), d # <<>>, NEW w \in Nat, From(d, w), w + Len(d) <= AppBytes,
         NEW seg \in Segments(d, Local(w))
  PROVE  IsData(seg, w + Len(d))
<1>1. PICK k : k = Len(d)
  OBVIOUS
<1>2. k \in Nat \ {0} /\ Mss \in Nat \ {0}
  BY <1>1, SizesAssumption
<1>3. PICK i \in 0 .. (k - 1) \div Mss :
        seg = [seq   |-> (Local(w) + i * Mss) % SeqSpace,
               data  |-> SubSeq(d, i * Mss + 1, Least((i + 1) * Mss, k)),
               flags |-> {}]
  BY <1>1 DEF Segments
<1>4. PICK q, r : q = (k - 1) \div Mss /\ r = (k - 1) % Mss
  OBVIOUS
<1>5. q \in Int /\ r \in Nat /\ k - 1 = Mss * q + r
  <2> DEFINE a == k - 1
  <2>1. a \in Int
    BY <1>2
  <2> HIDE DEF a
  <2>2. a % Mss \in 0 .. (Mss - 1) /\ a \div Mss \in Int /\ a = Mss * (a \div Mss) + (a % Mss)
    BY <1>2, <2>1, Quotient
  <2> QED
    BY <1>2, <1>4, <2>2 DEF a
<1>6. PICK x : x = i * Mss
  OBVIOUS
<1>7. i \in Nat /\ i <= q
  BY <1>3, <1>4, <1>5
<1>8. x \in Nat /\ x <= Mss * q /\ (i + 1) * Mss = x + Mss
  BY <1>2, <1>5, <1>6, <1>7
<1>9. x <= k - 1
  <2> DEFINE z == Mss * q
  <2>1. z \in Int
    BY <1>2, <1>5
  <2>2. x <= z /\ k - 1 = z + r
    BY <1>5, <1>8
  <2> HIDE DEF z
  <2> QED
    BY <1>2, <1>5, <1>8, <2>1, <2>2
<1>10. PICK y : y = Least(x + Mss, k)
  OBVIOUS
<1>11. y \in Nat /\ x <= y /\ y <= k
  BY <1>2, <1>8, <1>9, <1>10 DEF Least
<1>12. PICK c : c = SubSeq(d, x + 1, y)
  OBVIOUS
<1>13. c \in Seq(Int) /\ Len(c) = y - x /\ From(c, w + x)
  <2>1. y <= Len(d) /\ w \in Int
    BY <1>1, <1>11
  <2>2. LET e == SubSeq(d, x + 1, y) IN
        e \in Seq(Int) /\ Len(e) = y - x /\ From(e, w + x)
    BY <1>8, <1>11, <2>1, FromCut
  <2> QED
    BY <1>12, <2>2
<1>14. (Local(w) + x) % SeqSpace = Local(w + x)
  <2> DEFINE v == w + x
  <2>1. v \in Nat /\ w <= v /\ v <= AppBytes /\ v - w = x
    <3>1. AppBytes \in Nat
      BY SizesAssumption
    <3> QED
      BY <1>1, <1>2, <1>8, <1>9, <3>1
  <2> HIDE DEF v
  <2>2. (Local(w) + (v - w)) % SeqSpace = Local(v)
    BY <2>1, LocalApart
  <2> QED
    BY <2>1, <2>2 DEF v
<1>15. seg.flags = {} /\ seg.data = c /\ seg.seq = Local(w + x)
  BY <1>3, <1>6, <1>8, <1>10, <1>12, <1>14
<1>16. w + x \in Nat /\ (w + x) + Len(c) <= w + Len(d)
  BY <1>1, <1>2, <1>8, <1>11, <1>13
<1> QED
  BY <1>13, <1>15, <1>16 DEF IsData

\* One turn of tcp_write: ap before, bp after it.
LEMMA FlowWrite ==
  ASSUME NEW sk, NEW t, NEW h, Sound(sk, t, h), sk.state \in {"ESTABLISHED", "CLOSE_WAIT"},
         NEW k \in Nat \ {0}, k <= TxBufferSize - Len(sk.tx_buffer),
         NEW data \in Seq(Int), Len(data) = k, NEW event,
         NEW ap, NEW bp, NEW total, AppTyped(ap, total), Flow(sk, ap, total),
         ap.handle # "closed", From(data, ap.written),
         bp.got = ap.got, bp.written = ap.written + k, bp.written <= AppBytes
  PROVE  LET filled == [sk EXCEPT !.tx_buffer = @ \o data, !.tx_event = event]
         IN  Flow(tcp_write_pending_data(filled), bp, total)
<1> DEFINE buf == sk.tx_buffer \o data
           filled == [sk EXCEPT !.tx_buffer = buf, !.tx_event = event]
           n == tcp_write_pending_data(filled)
<1>1. IsSocket(sk) /\ Basic(sk) /\ RxTyped(sk) /\ DOMAIN sk = Fields
  BY DEF Sound, IsSocket, Basic
<1>2. PICK m, w, low, top : /\ m = Len(sk.tx_buffer) /\ w = ap.written
                            /\ low = sk.tx_win_low /\ top = sk.tx_highest_seq
  OBVIOUS
<1>3. /\ sk.tx_buffer \in Seq(Int) /\ m \in Nat /\ Dist(top, low) = m
      /\ top \in SeqNum /\ low \in SeqNum /\ w \in Nat /\ w + k <= AppBytes
  BY <1>1, <1>2 DEF Sound, AllSent, IsSocket, AppTyped
<1>4. w - m >= 0 /\ low = Local(w - m) /\ From(sk.tx_buffer, w - m)
  BY <1>2 DEF Flow, TxFlow
<1>5. top = Local(w)
  <2> DEFINE a == w - m
  <2>1. a \in Nat /\ a <= w /\ w <= AppBytes /\ w - a = m
    <3>1. AppBytes \in Nat
      BY SizesAssumption
    <3> QED
      BY <1>3, <1>4, <3>1
  <2>2. low = Local(a)
    BY <1>4
  <2> HIDE DEF a
  <2>3. (Local(a) + (w - a)) % SeqSpace = Local(w)
    BY <1>3, <2>1, LocalApart
  <2>4. top = (low + Dist(top, low)) % SeqSpace
    BY <1>3, DistInverse
  <2> QED
    BY <1>3, <2>1, <2>2, <2>3, <2>4
<1>6. buf \in Seq(Int) /\ Len(buf) = m + k /\ From(buf, w - m)
  <2> DEFINE a == w - m
  <2>1. a \in Int /\ a + m = w /\ From(sk.tx_buffer, a)
    BY <1>3, <1>4
  <2> HIDE DEF a
  <2>2. From(data, a + Len(sk.tx_buffer))
    BY <1>2, <2>1
  <2>3. buf \in Seq(Int) /\ Len(buf) = Len(sk.tx_buffer) + Len(data) /\ From(buf, a)
    BY <1>3, <2>1, <2>2, FromJoin
  <2> QED
    BY <1>2, <2>3 DEF a
<1> HIDE DEF buf
<1>7. /\ Keeps(sk, filled, {"tx_buffer", "tx_event"}) /\ filled.tx_buffer = buf
  BY <1>1 DEF Keeps, Fields
<1> HIDE DEF filled
<1>8. /\ filled.tx_highest_seq = top /\ filled.tx_win_low = low /\ filled.state = sk.state
      /\ filled.rx_win_low = sk.rx_win_low /\ filled.rx_win_high = sk.rx_win_high
      /\ filled.rx_buffer = sk.rx_buffer /\ filled.wire = sk.wire
  BY <1>2, <1>7 DEF Keeps, Fields
<1>9. Basic(filled) /\ RxTyped(filled)
  <2>1. RxTyped(filled)
    BY <1>1, <1>8 DEF RxTyped
  <2> QED
    BY <1>1, <1>7, <2>1, BalancedKeeps DEF Balanced
<1> DEFINE pending == SubSeq(buf, m + 1, m + k)
           sent == tcp_socket_send(filled, <<>>, {}, filled.tx_highest_seq)
           wire == sent.wire \cup Segments(pending, top)
           c == [sent EXCEPT !.wire = wire, !.tx_highest_seq = (@ + Len(pending)) % SeqSpace]
<1>10. pending \in Seq(Int) /\ Len(pending) = k /\ pending # <<>> /\ From(pending, w)
  <2> DEFINE a == w - m
             j == m + k
  <2>1. /\ a \in Int /\ a + m = w /\ buf \in Seq(Int) /\ From(buf, a)
        /\ m \in Nat /\ j \in Nat /\ m <= j /\ j <= Len(buf) /\ j - m = k
    BY <1>3, <1>6
  <2> HIDE DEF a, j
  <2>2. LET d == SubSeq(buf, m + 1, j) IN d \in Seq(Int) /\ Len(d) = j - m /\ From(d, a + m)
    BY ONLY <2>1, FromCut
  <2>3. pending = SubSeq(buf, m + 1, j)
    BY DEF j
  <2> HIDE DEF pending
  <2> QED
    BY <2>1, <2>2, <2>3
<1>11. /\ Keeps(filled, sent, {"ref", "queued", "rx_win_high", "acked", "wire"})
       /\ Basic(sent) /\ RxTyped(sent) /\ sent.wire = sk.wire
  BY <1>8, <1>9, SocketSend, SendWire DEF Balanced
<1>12. n = tcp_timer_set(c, "retransmit")
  <2>1. Dist(filled.tx_highest_seq, filled.tx_win_low) = m /\ Len(filled.tx_buffer) = m + k
    BY <1>3, <1>6, <1>7, <1>8
  <2> QED
    BY <1>7, <1>8, <1>10, <2>1 DEF tcp_write_pending_data
<1>13. RxFlow(filled, bp.got, total) /\ TxFlow(filled, bp.written)
  <2>1. RxFlow(filled, bp.got, total)
    BY <1>8 DEF Flow, RxFlow
  <2>2. (w + k) - (m + k) = w - m /\ bp.written = w + k
    BY <1>2, <1>3
  <2>3. TxFlow(filled, bp.written)
    BY <1>4, <1>6, <1>7, <1>8, <2>2 DEF TxFlow
  <2> QED
    BY <2>1, <2>3
<1>14. AppTyped(bp, total)
  BY <1>2, <1>3 DEF AppTyped
<1>15. RxFlow(sent, bp.got, total) /\ TxFlow(sent, bp.written)
  BY <1>9, <1>13, <1>14, FlowSend
<1>16. WireFlow(wire, bp)
  <2>1. WireFlow(sk.wire, bp)
    <3>1. /\ WireFlow(sk.wire, ap) /\ ap.written <= bp.written
          /\ ap.written \in Nat /\ bp.written \in Nat
      BY <1>2, <1>3 DEF Flow
    <3> QED
      BY <3>1, WireGrows
  <2>2. \A seg \in Segments(pending, top) : IsData(seg, bp.written)
    <3> HIDE DEF pending
    <3>1. w + Len(pending) = bp.written /\ bp.written <= AppBytes
      BY <1>2, <1>3, <1>10
    <3> QED
      BY <1>3, <1>5, <1>10, <3>1, SegmentsCarry
  <2> HIDE DEF sent, pending
  <2> QED
    BY <1>11, <2>1, <2>2 DEF WireFlow
<1> HIDE DEF sent, pending, wire
<1>17. Keeps(sent, c, {"wire", "tx_highest_seq"}) /\ c.wire = wire
  BY <1>11 DEF Keeps, Fields, Basic
<1> HIDE DEF c, n
<1>18. /\ c.state = sent.state /\ c.rx_win_low = sent.rx_win_low /\ c.rx_win_high = sent.rx_win_high
       /\ c.rx_buffer = sent.rx_buffer /\ c.tx_win_low = sent.tx_win_low
       /\ c.tx_buffer = sent.tx_buffer
  BY <1>17 DEF Keeps, Fields
<1>19. Flow(c, bp, total) /\ Basic(c)
  <2>1. RxFlow(c, bp.got, total) /\ TxFlow(c, bp.written)
    BY <1>15, <1>18 DEF RxFlow, TxFlow
  <2>2. Basic(c)
    BY <1>11, <1>17, BalancedKeeps DEF Balanced
  <2> QED
    BY <1>16, <1>17, <2>1, <2>2 DEF Flow
<1>20. Keeps(c, n, {"ref", "queued", "fault"})
  BY <1>12, <1>19, TimerSet DEF Timers
<1>21. Flow(n, bp, total)
  BY <1>19, <1>20, FlowKeeps DEF FlowFields
<1> QED
  BY <1>21 DEF n, filled, buf

\* tcp_read takes the first k bytes of rx_buffer: ap before, bp after it.
LEMMA FlowRead ==
  ASSUME NEW sk, Basic(sk), NEW k \in 0 .. Len(sk.rx_buffer), NEW event,
         NEW ap, NEW bp, NEW total, AppTyped(ap, total), Flow(sk, ap, total), From(ap.got, 0),
         bp.got = ap.got \o SubSeq(sk.rx_buffer, 1, k), bp.written = ap.written,
         bp.handle = ap.handle, bp.unacked = ap.unacked
  PROVE  LET n == [sk EXCEPT !.rx_buffer = SubSeq(@, k + 1, Len(@)), !.rx_event = event]
         IN  Flow(n, bp, total) /\ AppTyped(bp, total) /\ From(bp.got, 0)
<1>1. PICK b, l, g, head, rest :
        /\ b = sk.rx_buffer /\ l = Len(b) /\ g = Len(ap.got)
        /\ head = SubSeq(b, 1, k) /\ rest = SubSeq(b, k + 1, l)
  OBVIOUS
<1>2. /\ b \in Seq(Int) /\ l \in Nat /\ g \in Nat /\ k \in Nat /\ k <= l
      /\ From(b, g) /\ ap.got \in Seq(Int)
  BY <1>1 DEF Flow, RxFlow, AppTyped
<1>3. head \in Seq(Int) /\ Len(head) = k /\ From(head, g)
  <2>1. 0 \in Nat /\ 0 <= k /\ k <= Len(b) /\ 0 + 1 = 1 /\ k - 0 = k /\ g + 0 = g /\ g \in Int
    BY <1>1, <1>2
  <2>2. LET c == SubSeq(b, 0 + 1, k) IN c \in Seq(Int) /\ Len(c) = k - 0 /\ From(c, g + 0)
    BY <1>2, <2>1, FromCut
  <2> QED
    BY <1>1, <2>1, <2>2
<1>4. rest \in Seq(Int) /\ Len(rest) = l - k /\ From(rest, g + k)
  <2>1. l <= Len(b) /\ g \in Int
    BY <1>1, <1>2
  <2>2. LET c == SubSeq(b, k + 1, l) IN c \in Seq(Int) /\ Len(c) = l - k /\ From(c, g + k)
    BY <1>2, <2>1, FromCut
  <2> QED
    BY <1>1, <2>2
<1>5. bp.got \in Seq(Int) /\ Len(bp.got) = g + k /\ From(bp.got, 0)
  <2>1. From(head, 0 + Len(ap.got)) /\ 0 \in Int
    BY <1>1, <1>2, <1>3
  <2>2. LET d == ap.got \o head IN
        d \in Seq(Int) /\ Len(d) = Len(ap.got) + Len(head) /\ From(d, 0)
    BY <1>2, <1>3, <2>1, FromJoin
  <2>3. bp.got = ap.got \o head
    BY <1>1
  <2> QED
    BY <1>1, <1>3, <2>2, <2>3
<1> DEFINE n == [sk EXCEPT !.rx_buffer = rest, !.rx_event = event]
<1>6. Keeps(sk, n, {"rx_buffer", "rx_event"}) /\ n.rx_buffer = rest
  BY DEF Keeps, Fields, Basic
<1> HIDE DEF n
<1>7. /\ n.state = sk.state /\ n.rx_win_low = sk.rx_win_low /\ n.rx_win_high = sk.rx_win_high
      /\ n.tx_win_low = sk.tx_win_low /\ n.tx_buffer = sk.tx_buffer /\ n.wire = sk.wire
  BY <1>6 DEF Keeps, Fields
<1>8. RxFlow(n, bp.got, total)
  <2>1. (g + k) + (l - k) = g + l
    BY <1>2
  <2>2. ASSUME sk.state \in {"SYN_RCVD", "ESTABLISHED"}
        PROVE  /\ g + l <= total /\ sk.rx_win_low = SeqOf(1 + (g + l)) /\ sk.rx_win_high \in SeqNum
               /\ Dist(sk.rx_win_high, sk.rx_win_low) + (l - k) <= RxWinSize - 1
    <3>1. PICK d : d = Dist(sk.rx_win_high, sk.rx_win_low)
      OBVIOUS
    <3>2. /\ g + l <= total /\ sk.rx_win_low = SeqOf(1 + (g + l)) /\ sk.rx_win_high \in SeqNum
          /\ d + l <= RxWinSize - 1
      BY <1>1, <2>2, <3>1 DEF Flow, RxFlow
    <3>3. RxWinSize \in Nat /\ SeqSpace \in Nat \ {0}
      BY SizesAssumption, Sizes
    <3>4. d \in Int
      <4>1. total \in PeerTotals /\ total \in Nat
        BY SizesAssumption DEF AppTyped
      <4> DEFINE j == 1 + (g + l)
      <4>2. j \in Nat /\ j <= total + 1
        BY <1>2, <3>2, <4>1
      <4> HIDE DEF j
      <4>3. SeqOf(j) \in SeqNum
        BY <4>1, <4>2, SeqOfApart
      <4>4. sk.rx_win_low \in SeqNum
        BY <3>2, <4>3 DEF j
      <4>5. d \in SeqNum
        BY <3>1, <3>2, <4>4, DistIs
      <4> QED
        BY <4>5 DEF SeqNum
    <3>5. d + (l - k) <= RxWinSize - 1
      BY <1>2, <3>2, <3>3, <3>4
    <3> QED
      BY <3>1, <3>2, <3>5
  <2> QED
    BY <1>4, <1>5, <1>6, <1>7, <2>1, <2>2 DEF RxFlow
<1>9. TxFlow(n, bp.written) /\ WireFlow(n.wire, bp)
  BY <1>7 DEF Flow, TxFlow, WireFlow, IsFin
<1>10. Flow(n, bp, total) /\ AppTyped(bp, total)
  BY <1>5, <1>8, <1>9 DEF Flow, AppTyped
<1> QED
  BY <1>1, <1>5, <1>10 DEF n

\* The application opens or closes the socket: no FIN was sent yet.
LEMMA FlowHandle ==
  ASSUME NEW sk, NEW ap, NEW bp, NEW total, AppTyped(ap, total), Flow(sk, ap, total),
         ap.handle # "closed", bp.got = ap.got, bp.written = ap.written
  PROVE  Flow(sk, bp, total)
<1>1. WireFlow(sk.wire, ap) /\ ap.written \in Nat /\ ap.written <= bp.written
  BY DEF Flow, AppTyped
<1>2. WireFlow(sk.wire, bp)
  BY <1>1, WireGrows
<1> QED
  BY <1>2 DEF Flow

\* tcp_close sends the FIN behind the bytes that were acknowledged.
LEMMA FlowFinish ==
  ASSUME NEW sk, NEW t, NEW h, Sound(sk, t, h),
         sk.state \in {"SYN_RCVD", "ESTABLISHED", "CLOSE_WAIT"},
         NEW state \in {"FIN_WAIT_1", "LAST_ACK"},
         NEW ap, NEW bp, NEW total, AppTyped(ap, total), Flow(sk, ap, total),
         ap.handle # "closed", bp.got = ap.got, bp.written = ap.written, bp.handle = "closed",
         ~bp.unacked => sk.tx_buffer = <<>>
  PROVE  Flow(tcp_wakeup_waiters(Finish(sk, state)), bp, total)
<1> DEFINE a == [sk EXCEPT !.state = state]
           b == tcp_socket_send(a, <<>>, {"FIN"}, sk.tx_win_low)
           seg == [seq |-> sk.tx_win_low, data |-> <<>>, flags |-> {"FIN"}]
           c == Finish(sk, state)
           n == tcp_wakeup_waiters(c)
<1>1. Basic(sk) /\ RxTyped(sk) /\ sk.tx_buffer \in Seq(Int)
  BY DEF Sound, IsSocket
<1>2. c = [b EXCEPT !.tx_win_low = (@ + 1) % SeqSpace]
  BY DEF Finish
<1>3. Calm(sk, a) /\ a.state = state /\ Basic(a) /\ RxTyped(a)
  BY <1>1, CalmState
<1> HIDE DEF a
<1>4. Keeps(a, b, {"ref", "queued", "rx_win_high", "acked", "wire"})
      /\ b.wire \subseteq a.wire \cup {seg}
  BY <1>3, SocketSend, SendWire
<1>5. IsFin(seg, bp)
  <2>1. PICK m, w, low : m = Len(sk.tx_buffer) /\ w = ap.written /\ low = sk.tx_win_low
    OBVIOUS
  <2>2. m \in Nat /\ w \in Nat /\ (~bp.unacked => m = 0)
    BY <1>1, <2>1 DEF AppTyped
  <2>3. w - m >= 0 /\ low = Local(w - m)
    BY <2>1 DEF Flow, TxFlow
  <2> DEFINE x == w - m
  <2>4. x \in 0 .. w /\ low = Local(x) /\ (~bp.unacked => x = w)
    BY <2>2, <2>3
  <2> HIDE DEF x
  <2>5. seg.flags = {"FIN"} /\ seg.seq = low
    BY <2>1
  <2> HIDE DEF seg
  <2> QED
    BY <2>1, <2>4, <2>5 DEF IsFin
<1> HIDE DEF b, c, n, seg
<1>6. Keeps(b, c, {"tx_win_low"})
  BY <1>2, <1>4 DEF Keeps, Fields
<1>7. Keeps(c, n, {"rx_event", "tx_event"})
  BY <1>6 DEF n, tcp_wakeup_waiters, Keeps, Fields
<1>8. /\ n.state = state /\ n.rx_buffer = sk.rx_buffer /\ n.wire \subseteq sk.wire \cup {seg}
  BY <1>3, <1>4, <1>6, <1>7 DEF Keeps, Calm, Fields
<1>9. Flow(sk, bp, total)
  BY FlowHandle
<1>10. RxFlow(n, bp.got, total)
  BY <1>8, <1>9 DEF Flow, RxFlow
<1>11. TxFlow(n, bp.written)
  BY <1>8 DEF TxFlow
<1>12. WireFlow(n.wire, bp)
  BY <1>5, <1>8, <1>9 DEF Flow, WireFlow
<1> QED
  BY <1>10, <1>11, <1>12 DEF Flow, n, c

LEMMA FlowCloseClosed ==
  ASSUME NEW sk, NEW t, NEW h, Sound(sk, t, h), sk.state = "CLOSED",
         NEW ap, NEW total, Flow(sk, ap, total)
  PROVE  LET n == tcp_wakeup_waiters(
                    dec_socket_ref(
                      tcp_timer_cancel(
                        tcp_timer_cancel(remove_socket_from_list(sk), "ack_delay"), "retransmit")))
         IN  Flow(n, ap, total) /\ n.state = "CLOSED"
<1> DEFINE a == remove_socket_from_list(sk)
           b == tcp_timer_cancel(a, "ack_delay")
           c == tcp_timer_cancel(b, "retransmit")
           d == dec_socket_ref(c)
           n == tcp_wakeup_waiters(d)
<1>1. Basic(sk) /\ DOMAIN sk = Fields
  BY DEF Sound, IsSocket, Basic
<1>2. Keeps(sk, a, {"in_list", "fault"})
  BY <1>1, Remove
<1> HIDE DEF a
<1>3. Calm(sk, a) /\ a.state = sk.state /\ Basic(a)
  BY <1>1, <1>2 DEF Keeps, Calm, Fields, Basic
<1>4. Calm(a, b) /\ b.state = a.state /\ Basic(b)
  BY <1>3, CalmCancel DEF Timers
<1> HIDE DEF b
<1>5. Calm(b, c) /\ c.state = b.state /\ Basic(c)
  BY <1>4, CalmCancel DEF Timers
<1> HIDE DEF c
<1>6. Keeps(c, d, {"ref"})
  BY <1>5, Dec DEF Basic
<1> HIDE DEF d
<1>7. Calm(c, d) /\ d.state = c.state
  BY <1>6 DEF Keeps, Calm, Fields
<1>8. Calm(d, n) /\ n.state = d.state
  BY <1>7 DEF tcp_wakeup_waiters, Calm, Fields
<1> HIDE DEF n
<1>9. Calm(sk, n) /\ n.state = "CLOSED"
  BY <1>3, <1>4, <1>5, <1>7, <1>8, CalmTwice
<1>10. Flow(n, ap, total)
  BY <1>9, FlowLate
<1> QED
  BY <1>9, <1>10 DEF n, d, c, b, a

-----------------------------------------------------------------------------
(***************************************************************************)
(* The steps and the streams.                                              *)
(***************************************************************************)
LEMMA StreamTyped ==
  ASSUME StreamInv
  PROVE  AppTyped(app, peer.total)
<1>1. /\ app.got \in Seq(Int) /\ app.writing \in Nat /\ app.written \in Nat
      /\ app.written + app.writing <= AppBytes /\ peer.total \in PeerTotals
  BY DEF StreamInv, AppFlow
<1>2. AppBytes \in Nat
  BY SizesAssumption
<1>3. app.written <= AppBytes
  BY <1>1, <1>2
<1> QED
  BY <1>1, <1>3 DEF AppTyped

\* A step of the socket alone.
LEMMA SocketMoves ==
  ASSUME StreamInv, UNCHANGED <<app, peer>>, Flow(s', app, peer.total), s'.state # "none"
  PROVE  StreamInv'
<1>1. app' = app /\ peer' = peer /\ AppFlow /\ PeerFlow
  BY DEF StreamInv
<1>2. PeerFlow'
  BY <1>1 DEF PeerFlow
<1>3. AppFlow'
  BY <1>1 DEF AppFlow
<1>4. Flow(s', app', peer'.total)
  BY <1>1
<1> QED
  BY <1>2, <1>3, <1>4 DEF StreamInv

\* A step of a caller that writes and closes nothing.
LEMMA CallerMoves ==
  ASSUME StreamInv, UNCHANGED peer, Flow(s', app', peer.total), s'.state # "none",
         DOMAIN app' = AppFields, AppTyped(app', peer.total), From(app'.got, 0),
         app'.writing \in Nat, app'.written + app'.writing <= AppBytes,
         app'.written = app.written, app'.handle = app.handle, app'.unacked = app.unacked
  PROVE  StreamInv'
<1>1. peer' = peer /\ AppFlow /\ PeerFlow
  BY DEF StreamInv
<1>2. PeerFlow'
  BY <1>1 DEF PeerFlow
<1>3. AppFlow'
  BY <1>1 DEF AppFlow, AppTyped
<1>4. Flow(s', app', peer'.total)
  BY <1>1
<1> QED
  BY <1>2, <1>3, <1>4 DEF StreamInv

LEMMA IncFlow ==
  ASSUME NEW sk, DOMAIN sk = Fields, NEW ap, NEW total, Flow(sk, ap, total)
  PROVE  Flow(inc_socket_ref(sk), ap, total) /\ inc_socket_ref(sk).state = sk.state
<1> DEFINE n == inc_socket_ref(sk)
<1>1. Keeps(sk, n, {"ref", "fault"})
  BY Inc
<1> HIDE DEF n
<1>2. Flow(n, ap, total)
  BY <1>1, FlowKeeps DEF FlowFields
<1>3. n.state = sk.state
  BY <1>1 DEF Keeps, Fields
<1> QED
  BY <1>2, <1>3 DEF n

LEMMA DecFlow ==
  ASSUME NEW sk, DOMAIN sk = Fields, NEW ap, NEW total, Flow(sk, ap, total)
  PROVE  Flow(dec_socket_ref(sk), ap, total) /\ dec_socket_ref(sk).state = sk.state
<1> DEFINE n == dec_socket_ref(sk)
<1>1. Keeps(sk, n, {"ref"})
  BY Dec
<1> HIDE DEF n
<1>2. Flow(n, ap, total)
  BY <1>1, FlowKeeps DEF FlowFields
<1>3. n.state = sk.state
  BY <1>1 DEF Keeps, Fields
<1> QED
  BY <1>2, <1>3 DEF n

LEMMA SoundIs ==
  ASSUME NEW sk, NEW t, NEW h, Sound(sk, t, h)
  PROVE  DOMAIN sk = Fields /\ Basic(sk) /\ RxTyped(sk) /\ sk.state # "none"
BY DEF Sound, IsSocket, Basic

\* The SYN: no byte yet, and the whole window.
LEMMA ListenFlow ==
  ASSUME TcpInv, StreamInv, tcp_input_listen
  PROVE  StreamInv'
<1> DEFINE low == (PeerIsn + 1) % SeqSpace
           high == (low + RxWinSize - 1) % SeqSpace
           new == [create_tcp_socket EXCEPT
                     !.state = "SYN_RCVD", !.in_list = TRUE,
                     !.rx_win_low = low, !.rx_win_high = high]
           seg == [seq |-> new.tx_win_low, data |-> <<>>, flags |-> {"SYN"}]
           sent == tcp_socket_send(new, <<>>, {"SYN"}, new.tx_win_low)
<1>1. /\ s' = [sent EXCEPT !.tx_win_low = (@ + 1) % SeqSpace]
      /\ UNCHANGED <<app, peer>> /\ s.state = "none"
  BY DEF tcp_input_listen
<1>2. /\ app.got = <<>> /\ app.written = 0 /\ peer.total \in PeerTotals
      /\ AppTyped(app, peer.total)
  BY <1>1, StreamTyped DEF StreamInv, AppFlow
<1>3. PICK total : total = peer.total
  OBVIOUS
<1>4. total \in PeerTotals /\ total \in Nat
  BY <1>2, <1>3, SizesAssumption
<1>5. low = SeqOf(1) /\ low \in SeqNum /\ SeqSpace \in Nat \ {0} /\ RxWinSize \in Nat \ {0}
      /\ 2 * (RxWinSize + total) <= SeqSpace
  <2>1. 1 \in Nat /\ 1 <= 1 /\ 1 <= total + 1
    BY <1>4
  <2>2. /\ SeqOf(1) \in SeqNum /\ SeqSpace \in Nat \ {0} /\ RxWinSize \in Nat \ {0}
        /\ 2 * (RxWinSize + total) <= SeqSpace
    BY <1>4, <2>1, SeqOfApart
  <2> QED
    BY <2>2 DEF SeqOf
<1> HIDE DEF low
<1>6. high \in SeqNum /\ Dist(high, low) = RxWinSize - 1
  <2> DEFINE room == RxWinSize - 1
  <2>1. room \in Nat /\ room \in 0 .. SeqSpace /\ low + RxWinSize - 1 = low + room
        /\ room < SeqSpace
    BY <1>4, <1>5 DEF SeqNum
  <2>2. Dist(low, low) = 0
    <3>1. Dist(low, low) = low - low
      BY <1>5, DistIs DEF SeqNum
    <3> QED
      BY <1>5, <3>1 DEF SeqNum
  <2>3. high = (low + room) % SeqSpace
    BY <2>1
  <2> HIDE DEF room, high
  <2>4. (low + room) % SeqSpace \in SeqNum
    BY <1>5, <2>1, Advance
  <2>5. Dist((low + room) % SeqSpace, low) = Dist(low, low) + room
    BY <1>5, <2>1, <2>2, DistAdvance
  <2> QED
    BY <2>1, <2>2, <2>3, <2>4, <2>5 DEF room
<1> HIDE DEF high
<1>7. /\ DOMAIN new = Fields /\ new.state = "SYN_RCVD" /\ new.ref = 1 /\ new.queued = {}
      /\ new.rx_win_low = low /\ new.rx_win_high = high /\ new.rx_buffer = <<>>
      /\ new.tx_buffer = <<>> /\ new.tx_win_low = LocalIsn /\ new.wire = {}
  BY DEF create_tcp_socket, NoSocket, Fields
<1>8. seg.flags = {"SYN"} /\ seg.seq = LocalIsn
  BY <1>7
<1> HIDE DEF new
<1>9. Basic(new) /\ RxTyped(new)
  BY <1>5, <1>6, <1>7 DEF Basic, RxTyped, SeqNum
<1>10. RxFlow(new, app.got, total)
  <2>1. Len(app.got) = 0 /\ Len(new.rx_buffer) = 0 /\ new.rx_buffer \in Seq(Int)
    BY <1>2, <1>7
  <2>2. From(new.rx_buffer, Len(app.got))
    BY <1>7 DEF From
  <2>3. 0 + 0 = 0 /\ 1 + 0 = 1 /\ 0 <= total /\ (RxWinSize - 1) + 0 <= RxWinSize - 1
    BY <1>4, <1>5
  <2> QED
    BY <1>5, <1>6, <1>7, <2>1, <2>2, <2>3 DEF RxFlow
<1>11. RxFlow(sent, app.got, total)
  BY <1>2, <1>3, <1>9, <1>10, FlowSend
<1>12. /\ Keeps(new, sent, {"ref", "queued", "rx_win_high", "acked", "wire"})
       /\ sent.wire \subseteq new.wire \cup {seg}
  BY <1>9, SocketSend, SendWire
<1> HIDE DEF sent, seg
<1>13. Keeps(sent, s', {"tx_win_low"}) /\ s'.tx_win_low = (sent.tx_win_low + 1) % SeqSpace
  BY <1>1, <1>12 DEF Keeps, Fields
<1>14. /\ s'.state = "SYN_RCVD" /\ s'.tx_buffer = <<>> /\ sent.tx_win_low = LocalIsn
       /\ s'.wire \subseteq {seg}
       /\ s'.state = sent.state /\ s'.rx_buffer = sent.rx_buffer
       /\ s'.rx_win_low = sent.rx_win_low /\ s'.rx_win_high = sent.rx_win_high
  BY <1>7, <1>12, <1>13 DEF Keeps, Fields
<1>15. RxFlow(s', app.got, total)
  BY <1>11, <1>14 DEF RxFlow
<1>16. TxFlow(s', app.written)
  <2>1. Len(s'.tx_buffer) = 0 /\ app.written - 0 = 0 /\ 1 + 0 = 1
    BY <1>2, <1>14
  <2>2. From(s'.tx_buffer, 0)
    BY <1>14 DEF From
  <2>3. s'.tx_win_low = Local(0)
    BY <1>13, <1>14, <2>1 DEF Local
  <2> QED
    BY <2>1, <2>2, <2>3 DEF TxFlow
<1>17. WireFlow(s'.wire, app)
  BY <1>8, <1>14 DEF WireFlow, IsSyn
<1>18. Flow(s', app, peer.total) /\ s'.state # "none"
  BY <1>3, <1>14, <1>15, <1>16, <1>17 DEF Flow
<1> QED
  BY <1>1, <1>18, SocketMoves

LEMMA AcceptFlow ==
  ASSUME TcpInv, StreamInv, tcp_accept_timeout
  PROVE  StreamInv'
<1>1. /\ accepted /\ app' = [app EXCEPT !.handle = "open"] /\ s' = s /\ peer' = peer
      /\ s.fault = "none"
  BY DEF tcp_accept_timeout, Running
<1>2. Around /\ Connected
  BY <1>1 DEF TcpInv, Running, BeforeSyn
<1>3. app.handle = "none" /\ s.state # "none" /\ DOMAIN app = AppFields
  BY <1>1, <1>2, SoundIs DEF Around, Connected
<1>4. /\ DOMAIN app' = AppFields /\ app'.got = app.got /\ app'.written = app.written
      /\ app'.writing = app.writing /\ app'.unacked = app.unacked
  BY <1>1, <1>3 DEF AppFields
<1>5. AppTyped(app, peer.total) /\ AppFlow /\ PeerFlow /\ Flow(s, app, peer.total)
  BY StreamTyped DEF StreamInv
<1>6. Flow(s', app', peer'.total)
  <2>1. Flow(s, app', peer.total)
    BY <1>3, <1>4, <1>5, FlowHandle
  <2> QED
    BY <1>1, <2>1
<1>7. PeerFlow'
  <2>1. ~peer.eof
    BY <1>3, <1>5 DEF PeerFlow
  <2> QED
    BY <1>1, <1>4, <1>5, <2>1 DEF PeerFlow
<1>8. AppFlow'
  BY <1>1, <1>3, <1>4, <1>5 DEF AppFlow
<1> QED
  BY <1>6, <1>7, <1>8 DEF StreamInv

LEMMA LookupFlow ==
  ASSUME TcpInv, StreamInv, lookup_socket
  PROVE  StreamInv'
<1>1. Connected
  BY LiveConnected DEF lookup_socket
<1>2. s' = inc_socket_ref(s) /\ UNCHANGED <<app, peer>>
  BY DEF lookup_socket
<1>3. DOMAIN s = Fields /\ s.state # "none" /\ Flow(s, app, peer.total)
  BY <1>1, SoundIs DEF Connected, StreamInv
<1>4. Flow(s', app, peer.total) /\ s'.state # "none"
  BY <1>2, <1>3, IncFlow
<1> QED
  BY <1>2, <1>4, SocketMoves

LEMMA InputFlow ==
  ASSUME TcpInv, StreamInv, tcp_input
  PROVE  StreamInv'
<1>1. Connected
  BY LiveConnected DEF tcp_input
<1>2. PICK seg \in FromPeer : s' = dec_socket_ref(Handled(s, seg))
  BY DEF tcp_input
<1>3. UNCHANGED <<app, peer>>
  BY DEF tcp_input
<1>4. AppTyped(app, peer.total) /\ Flow(s, app, peer.total) /\ peer.total \in PeerTotals
  BY StreamTyped DEF StreamInv, AppFlow
<1>5. SegmentTyped(seg) /\ (seg.data # <<>> => PeerData(seg.seq, seg.data, peer.total))
  BY <1>4, PeerSegments, PeerStream
<1> DEFINE n == Handled(s, seg)
<1>6. Flow(n, app, peer.total)
  BY <1>1, <1>4, <1>5, FlowHandled DEF Connected
<1>7. Sound(n, firing, app.handle)
  BY <1>1, <1>5, HandledSound DEF Connected
<1> HIDE DEF n
<1>8. DOMAIN n = Fields /\ n.state # "none"
  BY <1>7, SoundIs
<1>9. s' = dec_socket_ref(n)
  BY <1>2 DEF n
<1>10. Flow(s', app, peer.total) /\ s'.state # "none"
  BY <1>6, <1>8, <1>9, DecFlow
<1> QED
  BY <1>3, <1>10, SocketMoves

LEMMA FireFlow ==
  ASSUME TcpInv, StreamInv, NEW t \in Timers, net_timer_fire(t)
  PROVE  StreamInv'
<1>1. Connected
  BY LiveConnected DEF net_timer_fire
<1>2. s' = [s EXCEPT !.queued = @ \ {t}] /\ UNCHANGED <<app, peer>>
  BY DEF net_timer_fire
<1>3. DOMAIN s = Fields /\ s.state # "none" /\ Flow(s, app, peer.total)
  BY <1>1, SoundIs DEF Connected, StreamInv
<1>4. Keeps(s, s', {"queued"}) /\ s'.state = s.state
  BY <1>2, <1>3 DEF Keeps, Fields
<1>5. Flow(s', app, peer.total)
  BY <1>3, <1>4, FlowKeeps DEF FlowFields
<1> QED
  BY <1>2, <1>3, <1>4, <1>5, SocketMoves

LEMMA CallbackFlow ==
  ASSUME StreamInv, NEW t, NEW n, Callback(t, n), Flow(n, app, peer.total),
         DOMAIN n = Fields, n.state # "none"
  PROVE  StreamInv'
<1>1. s' = dec_socket_ref(n) /\ UNCHANGED <<app, peer>>
  BY DEF Callback
<1>2. Flow(s', app, peer.total) /\ s'.state # "none"
  BY <1>1, DecFlow
<1> QED
  BY <1>1, <1>2, SocketMoves

LEMMA RetransmitFlow ==
  ASSUME TcpInv, StreamInv, handle_retransmit_timeout
  PROVE  StreamInv'
<1> DEFINE n == tcp_retransmit(s)
<1>1. Callback("retransmit", n)
  BY DEF handle_retransmit_timeout
<1>2. Connected /\ s.fault = "none" /\ firing = "retransmit"
  BY <1>1, LiveConnected DEF Callback
<1>3. Sound(n, "none", app.handle)
  BY <1>2, RetransmitSound DEF Connected
<1>4. Flow(n, app, peer.total)
  BY <1>2, StreamTyped, FlowRetransmit DEF Connected, StreamInv
<1> HIDE DEF n
<1>5. DOMAIN n = Fields /\ n.state # "none"
  BY <1>3, SoundIs
<1> QED
  BY <1>1, <1>4, <1>5, CallbackFlow

LEMMA DelayedAckFlow ==
  ASSUME TcpInv, StreamInv, handle_delayed_ack_timeout
  PROVE  StreamInv'
<1> DEFINE n == send_ack(s)
<1>1. Callback("ack_delay", n)
  BY DEF handle_delayed_ack_timeout
<1>2. Connected /\ s.fault = "none" /\ firing = "ack_delay"
  BY <1>1, LiveConnected DEF Callback
<1>3. Sound(n, "none", app.handle)
  BY <1>2, SendAckSound DEF Connected
<1>4. Flow(n, app, peer.total)
  <2>1. Basic(s) /\ RxTyped(s)
    BY <1>2, SoundIs DEF Connected
  <2> QED
    BY <2>1, StreamTyped, FlowSendAck DEF StreamInv
<1> HIDE DEF n
<1>5. DOMAIN n = Fields /\ n.state # "none"
  BY <1>3, SoundIs
<1> QED
  BY <1>1, <1>4, <1>5, CallbackFlow

LEMMA TimeWaitFlow ==
  ASSUME TcpInv, StreamInv, handle_time_wait_timeout
  PROVE  StreamInv'
<1> DEFINE sk == Assert(s.state = "TIME_WAIT", s, "time_wait")
           n == IF sk.fault # "none" THEN sk ELSE dec_socket_ref(remove_socket_from_list(sk))
<1>1. Callback("time_wait", n)
  BY DEF handle_time_wait_timeout
<1>2. Connected /\ s.fault = "none"
  BY <1>1, LiveConnected DEF Callback
<1>3. DOMAIN s = Fields /\ s.state # "none" /\ Flow(s, app, peer.total)
  BY <1>2, SoundIs DEF Connected, StreamInv
<1>4. Keeps(s, sk, {"fault"}) /\ (sk.fault = "none" => s.state = "TIME_WAIT")
  BY <1>2, <1>3 DEF Assert, Keeps, Fields
<1> HIDE DEF sk
<1>5. Flow(sk, app, peer.total) /\ sk.state = s.state /\ DOMAIN sk = Fields
  <2>1. Flow(sk, app, peer.total)
    BY <1>3, <1>4, FlowKeeps DEF FlowFields
  <2> QED
    BY <1>4, <2>1 DEF Keeps, Fields
<1>6. CASE sk.fault # "none"
  <2>1. n = sk
    BY <1>6
  <2> QED
    BY <1>1, <1>3, <1>5, <2>1, CallbackFlow
<1>7. CASE sk.fault = "none"
  <2>1. n = dec_socket_ref(remove_socket_from_list(sk))
    BY <1>7
  <2>2. s.state = "TIME_WAIT"
    BY <1>4, <1>7
  <2>3. Calm(sk, n) /\ n.state = sk.state
    BY <1>5, <2>1, CalmUnlist
  <2> HIDE DEF n
  <2>4. Flow(n, app, peer.total) /\ n.state # "none" /\ DOMAIN n = Fields
    BY <1>5, <2>2, <2>3, FlowLate DEF Calm
  <2> QED
    BY <1>1, <2>4, CallbackFlow
<1> QED
  BY <1>6, <1>7

LEMMA ReadFlow ==
  ASSUME TcpInv, StreamInv, tcp_read
  PROVE  StreamInv'
<1>1. Connected /\ DOMAIN app = AppFields
  BY LiveConnected DEF tcp_read, Around
<1>2. s' = inc_socket_ref(s) /\ app' = [app EXCEPT !.reading = TRUE] /\ UNCHANGED peer
  BY DEF tcp_read
<1>3. /\ DOMAIN app' = AppFields /\ app'.got = app.got /\ app'.written = app.written
      /\ app'.writing = app.writing /\ app'.handle = app.handle /\ app'.unacked = app.unacked
  BY <1>1, <1>2 DEF AppFields
<1>4. DOMAIN s = Fields /\ s.state # "none" /\ Flow(s, app, peer.total)
  BY <1>1, SoundIs DEF Connected, StreamInv
<1>5. Flow(s', app, peer.total) /\ s'.state # "none"
  BY <1>2, <1>4, IncFlow
<1>6. Flow(s', app', peer.total)
  BY <1>3, <1>5, FlowSame
<1>7. AppTyped(app', peer.total)
  BY <1>3, StreamTyped DEF AppTyped
<1>8. From(app'.got, 0) /\ app'.writing \in Nat /\ app'.written + app'.writing <= AppBytes
  BY <1>3 DEF StreamInv, AppFlow
<1> QED
  BY <1>2, <1>3, <1>5, <1>6, <1>7, <1>8, CallerMoves

LEMMA ReadResumeFlow ==
  ASSUME TcpInv, StreamInv, tcp_read_resume
  PROVE  StreamInv'
<1>1. Connected /\ DOMAIN app = AppFields
  BY LiveConnected DEF tcp_read_resume, Around
<1> DEFINE k(len) == Least(len, Len(s.rx_buffer))
           event(len) == ~(k(len) = Len(s.rx_buffer) /\ s.state = "ESTABLISHED")
           read(len) == [s EXCEPT !.rx_buffer = SubSeq(@, k(len) + 1, Len(@)),
                                  !.rx_event = event(len)]
           opened(len) == /\ RxWinSize - Len(read(len).rx_buffer) >= Mss
                          /\ Dist(read(len).rx_win_high, read(len).rx_win_low) < Mss
           again(len) == k(len) = 0 /\ s.state = "ESTABLISHED"
<1>2. PICK len \in ReadLens :
        /\ app' = [app EXCEPT !.reading = again(len), !.got = @ \o SubSeq(s.rx_buffer, 1, k(len))]
        /\ s' = IF again(len) THEN read(len)
                ELSE dec_socket_ref(IF k(len) > 0 /\ opened(len) THEN send_ack(read(len))
                                    ELSE read(len))
  BY DEF tcp_read_resume
<1>3. UNCHANGED peer
  BY DEF tcp_read_resume
<1>4. k(len) \in 0 .. Len(s.rx_buffer)
  <2>1. len \in Nat \ {0}
    BY ArgumentsAssumption
  <2>2. Len(s.rx_buffer) \in Nat
    BY <1>1 DEF Connected, Sound, IsSocket, RxTyped
  <2> QED
    BY <2>1, <2>2 DEF Least
<1>5. Basic(s) /\ DOMAIN s = Fields /\ s.state # "none"
  BY <1>1, SoundIs DEF Connected
<1>6. PICK j, e : j = k(len) /\ e = event(len)
  OBVIOUS
<1> DEFINE r == [s EXCEPT !.rx_buffer = SubSeq(@, j + 1, Len(@)), !.rx_event = e]
           p == send_ack(r)
<1>7. s' \in {r, dec_socket_ref(r), dec_socket_ref(p)}
  <2>1. r = read(len)
    BY <1>6
  <2> HIDE DEF r
  <2> QED
    BY <1>2, <2>1
<1>8. /\ DOMAIN app' = AppFields /\ app'.handle = app.handle /\ app'.writing = app.writing
      /\ app'.written = app.written /\ app'.unacked = app.unacked
      /\ app'.got = app.got \o SubSeq(s.rx_buffer, 1, j)
  BY <1>1, <1>2, <1>6 DEF AppFields
<1>9. j \in 0 .. Len(s.rx_buffer)
  BY <1>4, <1>6
<1>10. /\ AppTyped(app, peer.total) /\ Flow(s, app, peer.total) /\ From(app.got, 0)
       /\ app.writing \in Nat /\ app.written + app.writing <= AppBytes
  BY StreamTyped DEF StreamInv, AppFlow
<1> HIDE DEF k, event, read, opened, again
<1>11. Flow(r, app', peer.total) /\ AppTyped(app', peer.total) /\ From(app'.got, 0)
  BY <1>5, <1>8, <1>9, <1>10, FlowRead
<1>12. Keeps(s, r, {"rx_buffer", "rx_event"})
  BY <1>5 DEF Keeps, Fields
<1> HIDE DEF r
<1>13. Basic(r) /\ RxTyped(r) /\ DOMAIN r = Fields /\ r.state # "none"
  <2>1. Basic(r)
    BY <1>5, <1>12, BalancedKeeps DEF Balanced
  <2>2. /\ r.state = s.state /\ r.rx_win_low = s.rx_win_low /\ r.rx_win_high = s.rx_win_high
        /\ DOMAIN r = Fields
    BY <1>12 DEF Keeps, Fields
  <2>3. s.rx_win_low \in Int /\ s.rx_win_high \in Int
    BY <1>1, SoundIs DEF Connected, RxTyped
  <2>4. r.rx_buffer \in Seq(Int)
    BY <1>11 DEF Flow, RxFlow
  <2> QED
    BY <1>5, <2>1, <2>2, <2>3, <2>4 DEF RxTyped
<1>14. Flow(p, app', peer.total) /\ DOMAIN p = Fields /\ p.state # "none"
  <2>1. Flow(p, app', peer.total) /\ Calm(r, p)
    BY <1>11, <1>13, FlowSendAck
  <2>2. Keeps(r, p, {"ref", "queued", "rx_win_high", "acked", "wire"})
    BY <1>13, SendAck
  <2> HIDE DEF p
  <2> QED
    BY <1>13, <2>1, <2>2 DEF Keeps, Fields
<1> HIDE DEF p
<1>15. Flow(s', app', peer.total) /\ s'.state # "none"
  BY <1>7, <1>11, <1>13, <1>14, DecFlow
<1>16. app'.writing \in Nat /\ app'.written + app'.writing <= AppBytes
  BY <1>8, <1>10
<1> QED
  BY <1>3, <1>8, <1>11, <1>15, <1>16, CallerMoves

LEMMA WriteFlow ==
  ASSUME TcpInv, StreamInv, tcp_write
  PROVE  StreamInv'
<1>1. Connected /\ DOMAIN app = AppFields
  BY LiveConnected DEF tcp_write, Around
<1>2. PICK len \in WriteLens :
        app.written + len <= AppBytes /\ app' = [app EXCEPT !.writing = len]
  BY DEF tcp_write
<1>3. s' = inc_socket_ref(s) /\ UNCHANGED peer
  BY DEF tcp_write
<1>4. /\ DOMAIN app' = AppFields /\ app'.got = app.got /\ app'.written = app.written
      /\ app'.writing = len /\ app'.handle = app.handle /\ app'.unacked = app.unacked
  BY <1>1, <1>2 DEF AppFields
<1>5. DOMAIN s = Fields /\ s.state # "none" /\ Flow(s, app, peer.total)
  BY <1>1, SoundIs DEF Connected, StreamInv
<1>6. Flow(s', app, peer.total) /\ s'.state # "none"
  BY <1>3, <1>5, IncFlow
<1>7. Flow(s', app', peer.total)
  BY <1>4, <1>6, FlowSame
<1>8. AppTyped(app', peer.total)
  BY <1>4, StreamTyped DEF AppTyped
<1>9. len \in Nat
  BY ArgumentsAssumption
<1>10. From(app'.got, 0) /\ app'.writing \in Nat /\ app'.written + app'.writing <= AppBytes
  BY <1>2, <1>4, <1>9 DEF StreamInv, AppFlow
<1> QED
  BY <1>3, <1>4, <1>6, <1>7, <1>8, <1>10, CallerMoves

LEMMA WriteResumeFlow ==
  ASSUME TcpInv, StreamInv, tcp_write_resume
  PROVE  StreamInv'
<1>1. Connected /\ DOMAIN app = AppFields
  BY LiveConnected DEF tcp_write_resume, Around
<1>2. UNCHANGED peer
  BY DEF tcp_write_resume
<1>3. DOMAIN s = Fields /\ s.state # "none" /\ Flow(s, app, peer.total)
  BY <1>1, SoundIs DEF Connected, StreamInv
<1>4. /\ AppTyped(app, peer.total) /\ From(app.got, 0) /\ app.writing \in Nat /\ app.written \in Nat
      /\ app.written + app.writing <= AppBytes
  BY StreamTyped DEF StreamInv, AppFlow
<1>5. CASE s.state \notin {"ESTABLISHED", "CLOSE_WAIT"}
  <2>1. app' = [app EXCEPT !.writing = 0] /\ s' = dec_socket_ref(s)
    BY <1>5 DEF tcp_write_resume
  <2>2. /\ DOMAIN app' = AppFields /\ app'.got = app.got /\ app'.written = app.written
        /\ app'.writing = 0 /\ app'.handle = app.handle /\ app'.unacked = app.unacked
    BY <1>1, <2>1 DEF AppFields
  <2>3. Flow(s', app, peer.total) /\ s'.state # "none"
    BY <1>3, <2>1, DecFlow
  <2>4. Flow(s', app', peer.total)
    BY <2>2, <2>3, FlowSame
  <2>5. AppTyped(app', peer.total)
    BY <1>4, <2>2 DEF AppTyped
  <2>6. AppBytes \in Nat
    BY SizesAssumption
  <2>7. From(app'.got, 0) /\ app'.writing \in Nat /\ app'.written + app'.writing <= AppBytes
    BY <1>4, <2>2, <2>6
  <2> QED
    BY <1>2, <2>2, <2>3, <2>4, <2>5, <2>7, CallerMoves
<1>6. CASE s.state \in {"ESTABLISHED", "CLOSE_WAIT"}
  <2>1. PICK k : k = Least(TxBufferSize - Len(s.tx_buffer), app.writing)
    OBVIOUS
  <2> DEFINE data == [j \in 1 .. k |-> app.written + j]
             event == Len(s.tx_buffer) + k # TxBufferSize
             filled == [s EXCEPT !.tx_buffer = @ \o data, !.tx_event = event]
             sent == tcp_write_pending_data(filled)
  <2>2. /\ k > 0 /\ app' = [app EXCEPT !.writing = @ - k, !.written = @ + k]
        /\ s' = IF k = app.writing THEN dec_socket_ref(sent) ELSE sent
    BY <1>6, <2>1 DEF tcp_write_resume
  <2>3. /\ k \in Nat \ {0} /\ k <= TxBufferSize - Len(s.tx_buffer) /\ k <= app.writing
        /\ Len(s.tx_buffer) \in Nat /\ TxBufferSize \in Nat
    <3>1. Len(s.tx_buffer) \in Nat /\ TxBufferSize \in Nat
      BY <1>1, Sizes DEF Connected, Sound, IsSocket
    <3> QED
      BY <1>4, <2>1, <2>2, <3>1 DEF Least
  <2>4. /\ DOMAIN app' = AppFields /\ app'.got = app.got /\ app'.written = app.written + k
        /\ app'.writing = app.writing - k /\ app'.handle = app.handle
        /\ app'.unacked = app.unacked
    BY <1>1, <2>2 DEF AppFields
  <2>5. /\ app'.writing \in Nat /\ app'.written \in Nat /\ app'.written + app'.writing <= AppBytes
        /\ app'.written <= AppBytes /\ app.written <= app'.written
    <3>1. AppBytes \in Nat
      BY SizesAssumption
    <3>2. PICK x, y : x = app.written /\ y = app.writing
      OBVIOUS
    <3>3. x \in Nat /\ y \in Nat /\ x + y <= AppBytes /\ k \in Nat /\ k <= y
      BY <1>4, <2>3, <3>2
    <3>4. /\ y - k \in Nat /\ x + k \in Nat /\ (x + k) + (y - k) <= AppBytes
          /\ x + k <= AppBytes /\ x <= x + k
      BY <3>1, <3>3
    <3> QED
      BY <2>4, <3>2, <3>4
  <2>6. app.handle # "closed"
    BY <1>1, <1>6 DEF Connected, Sound, Listed, ClosedByApp
  <2>7. data \in Seq(Int) /\ Len(data) = k /\ From(data, app.written)
    <3>1. data \in Seq(Int) /\ Len(data) = k /\ DOMAIN data = 1 .. k
      BY <1>4, <2>3
    <3> QED
      BY <3>1 DEF From
  <2>8. ~event => Len(s.tx_buffer) + k = TxBufferSize
    OBVIOUS
  <2> HIDE DEF data, event
  <2>9. Sound(sent, firing, app.handle)
    BY <1>1, <1>6, <2>3, <2>7, <2>8, WriteSound DEF Connected
  <2>10. Flow(sent, app', peer.total)
    BY <1>1, <1>3, <1>4, <1>6, <2>3, <2>4, <2>5, <2>6, <2>7, FlowWrite DEF Connected
  <2> HIDE DEF sent
  <2>11. DOMAIN sent = Fields /\ sent.state # "none"
    BY <2>9, SoundIs
  <2>12. Flow(s', app', peer.total) /\ s'.state # "none"
    BY <2>2, <2>10, <2>11, DecFlow
  <2>13. PeerFlow /\ AppFlow /\ peer' = peer
    BY <1>2 DEF StreamInv
  <2>14. PeerFlow'
    <3>1. ~peer.eof
      BY <2>6, <2>13 DEF PeerFlow
    <3>2. Len(peer.rx) <= app'.written
      <4>1. Len(peer.rx) \in Nat /\ Len(peer.rx) <= app.written
        BY <2>13 DEF PeerFlow
      <4> QED
        BY <1>4, <2>5, <4>1
    <3> QED
      BY <2>13, <3>1, <3>2 DEF PeerFlow
  <2>15. AppFlow'
    BY <2>4, <2>5, <2>12, <2>13 DEF AppFlow
  <2> QED
    BY <2>12, <2>13, <2>14, <2>15 DEF StreamInv
<1> QED
  BY <1>5, <1>6

LEMMA CloseFlow ==
  ASSUME TcpInv, StreamInv, tcp_close
  PROVE  StreamInv'
<1>1. Connected /\ DOMAIN app = AppFields
  BY LiveConnected DEF tcp_close, Around
<1>2. /\ app.handle = "open" /\ UNCHANGED peer
      /\ app' = [app EXCEPT !.handle = "closed", !.unacked = s.tx_buffer # <<>>]
  BY DEF tcp_close
<1>3. /\ DOMAIN app' = AppFields /\ app'.got = app.got /\ app'.written = app.written
      /\ app'.writing = app.writing /\ app'.handle = "closed"
      /\ app'.unacked = (s.tx_buffer # <<>>)
  BY <1>1, <1>2 DEF AppFields
<1>4. ~app'.unacked => s.tx_buffer = <<>>
  BY <1>3
<1>5. AppTyped(app, peer.total) /\ Flow(s, app, peer.total) /\ PeerFlow /\ AppFlow
  BY StreamTyped DEF StreamInv
<1>6. s.state \in {"CLOSED", "SYN_RCVD", "ESTABLISHED", "CLOSE_WAIT"}
  BY <1>1, <1>2 DEF Connected, Sound, IsSocket, States, Listed, ClosedByApp
<1>7. Flow(s', app', peer.total) /\ s'.state # "none"
  <2>1. CASE s.state = "CLOSED"
    <3>1. s' = tcp_wakeup_waiters(
                 dec_socket_ref(
                   tcp_timer_cancel(
                     tcp_timer_cancel(remove_socket_from_list(s), "ack_delay"), "retransmit")))
      BY <2>1 DEF tcp_close
    <3>2. Flow(s', app, peer.total) /\ s'.state = "CLOSED"
      BY <1>1, <1>5, <2>1, <3>1, FlowCloseClosed DEF Connected
    <3>3. Flow(s', app', peer.total)
      BY <1>2, <1>3, <1>5, <3>2, FlowHandle
    <3> QED
      BY <3>2, <3>3
  <2>2. CASE s.state \in {"SYN_RCVD", "ESTABLISHED"}
    <3>1. s' = tcp_wakeup_waiters(Finish(s, "FIN_WAIT_1"))
      BY <2>2 DEF tcp_close
    <3>2. Flow(s', app', peer.total)
      BY <1>1, <1>2, <1>3, <1>4, <1>5, <2>2, <3>1, FlowFinish DEF Connected
    <3>3. Sound(s', firing, "closed")
      BY <1>1, <2>2, <3>1, FinishSound DEF Connected
    <3> QED
      BY <3>2, <3>3, SoundIs
  <2>3. CASE s.state = "CLOSE_WAIT"
    <3>1. s' = tcp_wakeup_waiters(Finish(s, "LAST_ACK"))
      BY <2>3 DEF tcp_close
    <3>2. Flow(s', app', peer.total)
      BY <1>1, <1>2, <1>3, <1>4, <1>5, <2>3, <3>1, FlowFinish DEF Connected
    <3>3. Sound(s', firing, "closed")
      BY <1>1, <2>3, <3>1, FinishSound DEF Connected
    <3> QED
      BY <3>2, <3>3, SoundIs
  <2> QED
    BY <1>6, <2>1, <2>2, <2>3
<1>8. PeerFlow'
  <2>1. ~peer.eof
    BY <1>2, <1>5 DEF PeerFlow
  <2> QED
    BY <1>2, <1>3, <1>5, <2>1 DEF PeerFlow
<1>9. AppFlow'
  BY <1>2, <1>3, <1>5, <1>7 DEF AppFlow
<1> QED
  BY <1>2, <1>7, <1>8, <1>9 DEF StreamInv

\* The peer finds the byte it expects in a segment that overlaps its stream.
LEMMA Overlap ==
  ASSUME NEW k \in Nat, NEW m \in Nat, NEW w \in Nat, k + m <= w, w <= AppBytes,
         NEW l \in Nat, l <= w, Dist(Local(l), Local(k)) < m
  PROVE  k <= l /\ Dist(Local(l), Local(k)) = l - k
<1>1. k <= AppBytes /\ l <= AppBytes /\ AppBytes \in Nat
  <2>1. AppBytes \in Nat
    BY SizesAssumption
  <2> QED
    BY <2>1
<1>2. CASE k <= l
  BY <1>1, <1>2, LocalApart
<1>3. CASE l < k
  <2>1. /\ Dist(Local(l), Local(k)) = SeqSpace - (k - l)
        /\ 2 * (TxBufferSize + AppBytes) <= SeqSpace /\ TxBufferSize \in Nat \ {0}
        /\ SeqSpace \in Nat \ {0}
    BY <1>1, <1>3, LocalApart
  <2> QED
    BY <1>1, <1>3, <2>1
<1> QED
  BY <1>2, <1>3

LEMMA PeerReceiveFlow ==
  ASSUME StreamInv, peer_receive
  PROVE  StreamInv'
<1>1. PICK seg \in s.wire :
        /\ IF "SYN" \in seg.flags THEN ~peer.synced
           ELSE /\ peer.synced /\ ~peer.eof
                /\ IF "FIN" \in seg.flags THEN seg.seq = peer.rcv_nxt
                   ELSE Dist(peer.rcv_nxt, seg.seq) < Len(seg.data)
        /\ peer' = PeerTakes(seg)
  BY DEF peer_receive
<1>2. s' = s /\ app' = app
  BY DEF peer_receive
<1>3. /\ AppTyped(app, peer.total) /\ Flow(s, app, peer.total) /\ PeerFlow /\ AppFlow
      /\ DOMAIN peer = PeerFields
  BY StreamTyped DEF StreamInv, AppFlow
<1>4. PICK w, l : w = app.written /\ l = Len(peer.rx)
  OBVIOUS
<1>5. w \in Nat /\ w <= AppBytes /\ l \in Nat /\ l <= w /\ peer.rx \in Seq(Int) /\ From(peer.rx, 0)
  BY <1>3, <1>4 DEF PeerFlow, AppTyped
<1>6. SUFFICES PeerFlow' /\ DOMAIN peer' = PeerFields /\ peer'.total = peer.total
  BY <1>2, <1>3 DEF StreamInv, AppFlow
<1>7. IsSyn(seg) \/ IsData(seg, w) \/ IsFin(seg, app)
  BY <1>3, <1>4 DEF Flow, WireFlow
<1>8. CASE IsSyn(seg)
  <2>1. "SYN" \in seg.flags /\ seg.seq = LocalIsn
    BY <1>8 DEF IsSyn
  <2>2. ~peer.synced /\ peer.rx = <<>> /\ ~peer.eof
    BY <1>1, <1>3, <2>1 DEF PeerFlow
  <2>3. peer' = [peer EXCEPT !.synced = TRUE, !.rcv_nxt = (LocalIsn + 1) % SeqSpace]
    BY <1>1, <2>1 DEF PeerTakes
  <2>4. /\ DOMAIN peer' = PeerFields /\ peer'.synced = TRUE /\ peer'.rx = peer.rx
        /\ peer'.eof = peer.eof /\ peer'.total = peer.total
        /\ peer'.rcv_nxt = (LocalIsn + 1) % SeqSpace
    BY <1>3, <2>3 DEF PeerFields
  <2>5. l = 0 /\ peer'.rcv_nxt = Local(0)
    <3>1. 1 + 0 = 1
      OBVIOUS
    <3> QED
      BY <1>4, <2>2, <2>4, <3>1 DEF Local
  <2>6. PeerFlow'
    BY <1>2, <1>3, <1>4, <2>2, <2>4, <2>5 DEF PeerFlow
  <2> QED
    BY <2>4, <2>6
<1>9. CASE IsFin(seg, app)
  <2>1. seg.flags = {"FIN"} /\ app.handle = "closed"
    BY <1>9 DEF IsFin
  <2>2. PICK a \in 0 .. w : seg.seq = Local(a) /\ (~app.unacked => a = w)
    BY <1>4, <1>9 DEF IsFin
  <2>3. "SYN" \notin seg.flags /\ "FIN" \in seg.flags
    BY <2>1
  <2>4. peer.synced /\ ~peer.eof /\ seg.seq = peer.rcv_nxt
    BY <1>1, <2>3
  <2>5. Local(a) = Local(l)
    BY <1>3, <1>4, <2>2, <2>4 DEF PeerFlow
  <2>6. a = l
    <3>1. AppBytes \in Nat
      BY SizesAssumption
    <3>2. a \in Nat /\ a <= AppBytes /\ l <= AppBytes
      BY <1>5, <2>2, <3>1
    <3>3. Dist(Local(l), Local(l)) = l - l
      BY <1>5, <3>2, LocalApart
    <3>4. CASE a <= l
      <4>1. Dist(Local(l), Local(a)) = l - a
        BY <1>5, <3>2, <3>4, LocalApart
      <4> QED
        BY <1>5, <2>5, <3>2, <3>3, <4>1
    <3>5. CASE l <= a
      <4>1. Dist(Local(a), Local(l)) = a - l
        BY <1>5, <3>2, <3>5, LocalApart
      <4> QED
        BY <1>5, <2>5, <3>2, <3>3, <4>1
    <3> QED
      BY <1>5, <3>2, <3>4, <3>5
  <2>7. peer' = [peer EXCEPT !.eof = TRUE, !.rcv_nxt = (@ + 1) % SeqSpace]
    BY <1>1, <2>3 DEF PeerTakes
  <2>8. /\ DOMAIN peer' = PeerFields /\ peer'.eof = TRUE /\ peer'.synced = peer.synced
        /\ peer'.rx = peer.rx /\ peer'.total = peer.total
    BY <1>3, <2>7 DEF PeerFields
  <2>9. PeerFlow'
    BY <1>2, <1>3, <1>4, <2>1, <2>2, <2>4, <2>6, <2>8 DEF PeerFlow
  <2> QED
    BY <2>8, <2>9
<1>10. CASE IsData(seg, w)
  <2>1. PICK k \in Nat : seg.seq = Local(k) /\ From(seg.data, k) /\ k + Len(seg.data) <= w
    BY <1>10 DEF IsData
  <2>2. PICK d, m : d = seg.data /\ m = Len(d)
    OBVIOUS
  <2>3. seg.flags = {} /\ d \in Seq(Int) /\ m \in Nat /\ From(d, k) /\ k + m <= w
    BY <1>10, <2>1, <2>2 DEF IsData
  <2>4. peer.synced /\ ~peer.eof /\ Dist(peer.rcv_nxt, seg.seq) < m
    BY <1>1, <2>2, <2>3
  <2>5. peer.rcv_nxt = Local(l)
    BY <1>3, <1>4, <2>4 DEF PeerFlow
  <2>6. k <= l /\ Dist(peer.rcv_nxt, seg.seq) = l - k /\ l - k < m
    <3>1. Dist(Local(l), Local(k)) < m
      BY <2>1, <2>4, <2>5
    <3>2. k <= l /\ Dist(Local(l), Local(k)) = l - k
      BY <1>5, <2>3, <3>1, Overlap
    <3> QED
      BY <2>1, <2>5, <3>1, <3>2
  <2> DEFINE skip == l - k
             new == SubSeq(d, skip + 1, m)
  <2>7. peer' = [peer EXCEPT !.rx = @ \o new, !.rcv_nxt = (@ + Len(new)) % SeqSpace]
    BY <1>1, <2>2, <2>3, <2>6 DEF PeerTakes
  <2>8. skip \in Nat /\ skip <= m /\ k + skip = l /\ l + (m - skip) = k + m
    BY <1>5, <2>3, <2>6
  <2> HIDE DEF skip
  <2>9. new \in Seq(Int) /\ Len(new) = m - skip /\ From(new, l)
    <3>1. LET c == SubSeq(d, skip + 1, m) IN
          c \in Seq(Int) /\ Len(c) = m - skip /\ From(c, k + skip)
      BY <2>2, <2>3, <2>8, FromCut
    <3> QED
      BY <2>8, <3>1
  <2> HIDE DEF new
  <2>10. /\ DOMAIN peer' = PeerFields /\ peer'.synced = peer.synced /\ peer'.eof = peer.eof
         /\ peer'.total = peer.total /\ peer'.rx = peer.rx \o new
         /\ peer'.rcv_nxt = (peer.rcv_nxt + Len(new)) % SeqSpace
    BY <1>3, <2>7 DEF PeerFields
  <2> DEFINE v == k + m
  <2>11. v \in Nat /\ l <= v /\ v <= w /\ v <= AppBytes /\ v - l = Len(new)
         /\ l + Len(new) = v
    <3>1. AppBytes \in Nat
      BY SizesAssumption
    <3> QED
      BY <1>5, <2>3, <2>6, <2>8, <2>9, <3>1
  <2> HIDE DEF v
  <2>12. peer'.rcv_nxt = Local(v)
    <3>1. (Local(l) + (v - l)) % SeqSpace = Local(v)
      BY <1>5, <2>11, LocalApart
    <3> QED
      BY <2>5, <2>10, <2>11, <3>1
  <2>13. peer'.rx \in Seq(Int) /\ Len(peer'.rx) = v /\ From(peer'.rx, 0)
    <3>1. From(new, 0 + Len(peer.rx)) /\ 0 \in Int
      BY <1>4, <1>5, <2>9
    <3>2. LET c == peer.rx \o new IN
          c \in Seq(Int) /\ Len(c) = Len(peer.rx) + Len(new) /\ From(c, 0)
      BY <1>5, <2>9, <3>1, FromJoin
    <3> QED
      BY <1>4, <2>10, <2>11, <3>2
  <2>14. PeerFlow'
    BY <1>2, <1>4, <2>4, <2>10, <2>11, <2>12, <2>13 DEF PeerFlow
  <2> QED
    BY <2>10, <2>14
<1> QED
  BY <1>7, <1>8, <1>9, <1>10

LEMMA StreamInitially == TcpInit => StreamInv
<1> SUFFICES ASSUME TcpInit PROVE StreamInv
  OBVIOUS
<1>1. /\ s = NoSocket
      /\ app = [handle |-> "none", reading |-> FALSE, writing |-> 0,
                got |-> <<>>, written |-> 0, unacked |-> FALSE]
  BY DEF TcpInit
<1>2. PICK n \in PeerTotals :
        peer = [synced |-> FALSE, rcv_nxt |-> LocalIsn, rx |-> <<>>, eof |-> FALSE, total |-> n]
  BY DEF TcpInit
<1>3. s.state = "none" /\ s.wire = {} /\ s.rx_buffer = <<>>
  BY <1>1 DEF NoSocket
<1>4. Flow(s, app, peer.total)
  BY <1>3 DEF Flow, RxFlow, TxFlow, WireFlow, From
<1>5. PeerFlow
  BY <1>1, <1>2 DEF PeerFlow, From
<1>6. AppFlow
  <2>1. AppBytes \in Nat
    BY SizesAssumption
  <2>2. DOMAIN app = AppFields /\ app.got = <<>> /\ app.writing = 0 /\ app.written = 0
    BY <1>1 DEF AppFields
  <2>3. DOMAIN peer = PeerFields /\ peer.total = n
    BY <1>2 DEF PeerFields
  <2>4. app.written + app.writing <= AppBytes
    BY <2>1, <2>2
  <2> QED
    BY <2>2, <2>3, <2>4 DEF AppFlow, From
<1> QED
  BY <1>4, <1>5, <1>6 DEF StreamInv

LEMMA StreamStep == TcpInv /\ StreamInv /\ [TcpNext]_vars => StreamInv'
<1> SUFFICES ASSUME TcpInv, StreamInv, [TcpNext]_vars PROVE StreamInv'
  OBVIOUS
<1>1. CASE TcpNext
  BY <1>1, ListenFlow, AcceptFlow, LookupFlow, InputFlow, FireFlow, RetransmitFlow,
     DelayedAckFlow, TimeWaitFlow, ReadFlow, ReadResumeFlow, WriteFlow, WriteResumeFlow,
     CloseFlow, PeerReceiveFlow DEF TcpNext
<1>2. CASE UNCHANGED vars
  <2>1. s' = s /\ app' = app /\ peer' = peer
    BY <1>2 DEF vars
  <2> QED
    BY <2>1 DEF StreamInv, PeerFlow, AppFlow
<1> QED
  BY <1>1, <1>2

-----------------------------------------------------------------------------
(***************************************************************************)
(* The end of the peer's stream.  After tcp_close rx_win_low still counts  *)
(* the bytes that arrived.  Once the peer's FIN was accepted it counts one *)
(* more, and the FIN came behind the last byte or with it.                 *)
(***************************************************************************)
EndFlow(sk, got, total) ==
  LET r == Len(got) + Len(sk.rx_buffer) IN
  /\ sk.state \in {"FIN_WAIT_1", "FIN_WAIT_2"} => sk.rx_win_low = SeqOf(1 + r)
  /\ sk.state \in {"CLOSE_WAIT", "LAST_ACK"} =>
       sk.rx_win_low = SeqOf(2 + r) /\ r \in {total - 1, total}

EndInv == EndFlow(s, app.got, peer.total)

\* What EndFlow speaks of.
RxKept(sk, n) ==
  n.state = sk.state /\ n.rx_win_low = sk.rx_win_low /\ n.rx_buffer = sk.rx_buffer

LEMMA EndKept ==
  ASSUME NEW sk, NEW n, NEW got, NEW total, EndFlow(sk, got, total), RxKept(sk, n)
  PROVE  EndFlow(n, got, total)
BY DEF EndFlow, RxKept

LEMMA EndElsewhere ==
  ASSUME NEW n, NEW got, NEW total,
         n.state \notin {"FIN_WAIT_1", "FIN_WAIT_2", "CLOSE_WAIT", "LAST_ACK"}
  PROVE  EndFlow(n, got, total)
BY DEF EndFlow

LEMMA KeptBy ==
  ASSUME NEW sk, NEW n, NEW fs, Keeps(sk, n, fs),
         fs \cap {"state", "rx_win_low", "rx_buffer"} = {}
  PROVE  RxKept(sk, n) /\ DOMAIN n = Fields
BY DEF Keeps, RxKept, Fields

LEMMA KeptTwice ==
  ASSUME NEW a, NEW b, NEW c, RxKept(a, b), RxKept(b, c)
  PROVE  RxKept(a, c)
BY DEF RxKept

LEMMA SendAckKept ==
  ASSUME NEW sk, Basic(sk), RxTyped(sk)
  PROVE  RxKept(sk, send_ack(sk))
<1>1. Keeps(sk, send_ack(sk), {"ref", "queued", "rx_win_high", "acked", "wire"})
  BY SendAck
<1> QED
  BY <1>1, KeptBy

LEMMA HandleAckKept ==
  ASSUME NEW sk, Basic(sk), NEW seq
  PROVE  RxKept(sk, handle_ack(sk, seq))
<1> DEFINE n == handle_ack(sk, seq)
           len == Dist(seq, sk.tx_win_low)
           fits == Assert(len <= Len(sk.tx_buffer), sk, "acked_len")
           moved == [fits EXCEPT !.tx_buffer = SubSeq(@, len + 1, Len(@)),
                                 !.tx_win_low = seq, !.tx_event = TRUE]
<1>1. n \in {sk, tcp_timer_cancel(moved, "retransmit"), tcp_timer_set(moved, "retransmit")}
  BY DEF handle_ack
<1>2. Keeps(sk, fits, {"fault"})
  BY AssertIs DEF Basic
<1> HIDE DEF fits
<1>3. Keeps(fits, moved, {"tx_buffer", "tx_win_low", "tx_event"})
  BY <1>2 DEF Keeps, Fields
<1> HIDE DEF moved
<1>4. Basic(moved) /\ RxKept(sk, moved)
  <2>1. /\ DOMAIN moved = Fields /\ moved.ref = sk.ref /\ moved.queued = sk.queued
        /\ moved.state = sk.state /\ moved.rx_win_low = sk.rx_win_low
        /\ moved.rx_buffer = sk.rx_buffer
    BY <1>2, <1>3 DEF Keeps, Fields
  <2> QED
    BY <2>1 DEF Basic, RxKept
<1>5. /\ Keeps(moved, tcp_timer_cancel(moved, "retransmit"), {"ref", "queued"})
      /\ Keeps(moved, tcp_timer_set(moved, "retransmit"), {"ref", "queued", "fault"})
  BY <1>4, TimerCancel, TimerSet DEF Timers
<1>6. /\ RxKept(moved, tcp_timer_cancel(moved, "retransmit"))
      /\ RxKept(moved, tcp_timer_set(moved, "retransmit"))
  BY <1>5, KeptBy
<1>7. RxKept(sk, sk)
  BY DEF RxKept
<1> HIDE DEF n
<1>8. RxKept(sk, n)
  BY <1>1, <1>4, <1>6, <1>7, KeptTwice
<1> QED
  BY <1>8 DEF n

\* The FIN takes a sequence number of its own.
LEMMA FinAdvances ==
  ASSUME NEW sk, Basic(sk), RxTyped(sk)
  PROVE  LET n == FinReceived(sk) IN
         /\ n.rx_win_low = (sk.rx_win_low + 1) % SeqSpace /\ n.rx_buffer = sk.rx_buffer
         /\ DOMAIN n = Fields
<1> DEFINE low == (sk.rx_win_low + 1) % SeqSpace
           k == [sk EXCEPT !.rx_win_low = low]
           n == FinReceived(sk)
<1>1. low \in Int
  <2> DEFINE x == sk.rx_win_low + 1
  <2>1. x \in Int /\ SeqSpace \in Nat \ {0}
    BY Sizes DEF RxTyped
  <2> HIDE DEF x
  <2>2. x % SeqSpace \in Int
    BY <2>1, Quotient
  <2> QED
    BY <2>2 DEF x
<1>2. n = send_ack(k)
  BY DEF FinReceived
<1> HIDE DEF low
<1>3. Keeps(sk, k, {"rx_win_low"}) /\ k.rx_win_low = low
  BY DEF Keeps, Fields, Basic
<1> HIDE DEF k
<1>4. k.rx_buffer = sk.rx_buffer /\ k.rx_win_high = sk.rx_win_high
  BY <1>3 DEF Keeps, Fields
<1>5. Basic(k) /\ RxTyped(k)
  <2>1. RxTyped(k)
    BY <1>1, <1>3, <1>4 DEF RxTyped
  <2> QED
    BY <1>3, <2>1, BalancedKeeps DEF Balanced
<1>6. Keeps(k, n, {"ref", "queued", "rx_win_high", "acked", "wire"})
  BY <1>2, <1>5, SendAck
<1> HIDE DEF n
<1>7. n.rx_win_low = low /\ n.rx_buffer = sk.rx_buffer /\ DOMAIN n = Fields
  BY <1>3, <1>4, <1>6 DEF Keeps, Fields
<1> QED
  BY <1>7 DEF n, low

LEMMA NextSeqOf ==
  ASSUME NEW total \in PeerTotals, NEW r \in Nat, r <= total
  PROVE  (SeqOf(1 + r) + 1) % SeqSpace = SeqOf(2 + r)
<1>1. /\ SeqSpace \in Nat \ {0} /\ RxWinSize \in Nat \ {0} /\ total \in Nat
      /\ 2 * (RxWinSize + total) <= SeqSpace /\ PeerIsn \in SeqNum
  BY Sizes, SizesAssumption, ArgumentsAssumption DEF SeqNum
<1> DEFINE i == 1 + r
           j == 2 + r
           x == (PeerIsn + i) % SeqSpace
           y == (PeerIsn + j) % SeqSpace
           z == (x + 1) % SeqSpace
<1>2. i \in 0 .. SeqSpace /\ j \in 0 .. SeqSpace /\ 1 \in 0 .. SeqSpace /\ j = i + 1
  BY <1>1
<1> HIDE DEF i, j
<1>3. x = (IF PeerIsn + i < SeqSpace THEN PeerIsn + i ELSE (PeerIsn + i) - SeqSpace)
      /\ x \in SeqNum
  BY <1>1, <1>2, Advance
<1>4. y = (IF PeerIsn + j < SeqSpace THEN PeerIsn + j ELSE (PeerIsn + j) - SeqSpace)
  BY <1>1, <1>2, Advance
<1> HIDE DEF x, y
<1>5. z = (IF x + 1 < SeqSpace THEN x + 1 ELSE (x + 1) - SeqSpace)
  BY <1>2, <1>3, Advance
<1> HIDE DEF z
<1>6. z = y
  BY <1>1, <1>2, <1>3, <1>4, <1>5 DEF SeqNum
<1> QED
  BY <1>6 DEF z, y, x, i, j, SeqOf

\* rx_win_low is not before byte e: the bytes before e have arrived.
LEMMA NotBefore ==
  ASSUME NEW total \in PeerTotals, NEW r \in Nat, r <= total,
         NEW e \in Nat, e <= total + 1, SEQUENCE_GTE(SeqOf(1 + r), SeqOf(e))
  PROVE  e <= 1 + r
<1> DEFINE j == 1 + r
<1>1. j \in Nat /\ j <= total + 1 /\ SEQUENCE_GTE(SeqOf(j), SeqOf(e)) /\ total \in Nat
  BY SizesAssumption
<1> HIDE DEF j
<1>2. SUFFICES ASSUME j < e PROVE FALSE
  BY <1>1 DEF j
<1>3. /\ Dist(SeqOf(j), SeqOf(e)) = SeqSpace - (e - j)
      /\ 2 * (RxWinSize + total) <= SeqSpace /\ RxWinSize \in Nat \ {0} /\ SeqSpace \in Nat \ {0}
  BY <1>1, <1>2, SeqOfApart
<1>4. 2 * (SeqSpace \div 2) = SeqSpace /\ SeqSpace \div 2 \in Nat
  BY Sizes
<1>5. SeqSpace - (e - j) < SeqSpace \div 2
  BY <1>1, <1>3 DEF SEQUENCE_GTE
<1>6. PICK h : h = SeqSpace \div 2
  OBVIOUS
<1>7. h \in Nat /\ 2 * h = SeqSpace /\ SeqSpace - (e - j) < h
  BY <1>4, <1>5, <1>6
<1> QED
  BY <1>1, <1>2, <1>3, <1>7 DEF j

\* The peer's FIN in ESTABLISHED is accepted when rx_win_low has reached the
\* last byte that came with it.
LEMMA EndInEstablished ==
  ASSUME NEW sk, NEW t, NEW h, Sound(sk, t, h), sk.state = "ESTABLISHED",
         NEW ap, NEW total, AppTyped(ap, total), Flow(sk, ap, total),
         NEW seg, SegmentTyped(seg), seg.data # <<>> => PeerData(seg.seq, seg.data, total),
         Fin(seg) => FinBehind(seg, total)
  PROVE  EndFlow(in_established(sk, seg), ap.got, total)
<1> DEFINE n == in_established(sk, seg)
           acked == IF Ack(seg) THEN handle_ack(sk, seg.ack) ELSE sk
           got == IF seg.data # <<>> THEN handle_data(acked, seg.data, seg.seq) ELSE acked
           highest == IF seg.data # <<>> THEN seg.seq + Len(seg.data) - 1 ELSE seg.seq
           Closes == Fin(seg) /\ SEQUENCE_GTE(got.rx_win_low, highest % SeqSpace)
           f == FinReceived(got)
<1>1. Sound(acked, t, h) /\ acked.state = sk.state /\ Flow(acked, ap, total)
  <2>1. CASE Ack(seg)
    BY <2>1, HandleAck, FlowHandleAck DEF SegmentTyped
  <2>2. CASE ~Ack(seg)
    BY <2>2
  <2> QED
    BY <2>1, <2>2
<1>2. n = IF Closes THEN [f EXCEPT !.state = "CLOSE_WAIT", !.rx_event = TRUE] ELSE got
  BY DEF in_established, FinReceived
<1> HIDE DEF acked, n
<1>3. Sound(got, t, h) /\ got.state = "ESTABLISHED" /\ Flow(got, ap, total)
  <2>1. CASE seg.data # <<>>
    <3>1. Sound(got, t, h) /\ got.state = acked.state
      BY <1>1, <2>1, HandleData DEF SegmentTyped
    <3>2. Flow(got, ap, total)
      BY <1>1, <2>1, FlowHandleData
    <3> HIDE DEF got
    <3> QED
      BY <1>1, <3>1, <3>2
  <2>2. CASE seg.data = <<>>
    <3>1. got = acked
      BY <2>2
    <3> HIDE DEF got
    <3> QED
      BY <1>1, <3>1
  <2> QED
    BY <2>1, <2>2
<1> HIDE DEF got
<1>4. CASE ~Closes
  <2>1. n.state = "ESTABLISHED"
    BY <1>2, <1>3, <1>4
  <2> QED
    BY <2>1, EndElsewhere DEF n
<1>5. CASE Closes
  <2>1. PICK r, low : r = Len(ap.got) + Len(got.rx_buffer) /\ low = got.rx_win_low
    OBVIOUS
  <2>2. r \in Nat /\ r <= total /\ low = SeqOf(1 + r) /\ total \in PeerTotals /\ total \in Nat
    <3>1. /\ got.rx_buffer \in Seq(Int) /\ ap.got \in Seq(Int) /\ total \in PeerTotals
          /\ r <= total /\ low = SeqOf(1 + r)
      BY <1>3, <2>1 DEF Flow, RxFlow, AppTyped
    <3>2. PICK l, g : l = Len(got.rx_buffer) /\ g = Len(ap.got)
      OBVIOUS
    <3>3. r \in Nat
      <4>1. l \in Nat /\ g \in Nat
        BY <3>1, <3>2
      <4>2. r = g + l
        BY <2>1, <3>2
      <4> QED
        BY <4>1, <4>2
    <3>4. total \in Nat
      BY <3>1, SizesAssumption
    <3> QED
      BY <3>1, <3>3, <3>4
  <2>3. PICK k \in Nat : k >= 1 /\ seg.seq = SeqOf(k) /\ k + Len(seg.data) = total + 1
    BY <1>5 DEF FinBehind
  <2>4. PICK m : m = Len(seg.data)
    OBVIOUS
  <2>5. m \in Nat /\ k + m = total + 1 /\ (seg.data = <<>> <=> m = 0)
    BY <2>3, <2>4 DEF SegmentTyped
  <2>6. total <= 1 + r
    <3>1. CASE seg.data = <<>>
      <4>1. k = total + 1 /\ k <= total + 1
        BY <2>2, <2>5, <3>1
      <4>2. SeqOf(k) \in SeqNum /\ SeqSpace \in Nat \ {0}
        BY <2>2, <4>1, SeqOfApart
      <4>3. SeqOf(k) % SeqSpace = SeqOf(k)
        BY <4>2, Remainder DEF SeqNum
      <4>4. SEQUENCE_GTE(SeqOf(1 + r), SeqOf(k))
        BY <1>5, <2>1, <2>2, <2>3, <3>1, <4>3
      <4>5. k <= 1 + r
        BY <2>2, <4>1, <4>4, NotBefore
      <4> QED
        BY <2>2, <4>1, <4>5
    <3>2. CASE seg.data # <<>>
      <4>1. k <= total /\ total <= total + 1 /\ m - 1 = total - k
            /\ highest = seg.seq + Len(seg.data) - 1
        BY <2>2, <2>5, <3>2
      <4> HIDE DEF highest
      <4>2. SeqOf(k) \in SeqNum /\ (SeqOf(k) + (total - k)) % SeqSpace = SeqOf(total)
            /\ SeqSpace \in Nat \ {0}
        BY <2>2, <4>1, SeqOfApart
      <4>3. highest = SeqOf(k) + (total - k)
        <5>1. SeqOf(k) + m - 1 = SeqOf(k) + (m - 1)
          BY <2>5, <4>2 DEF SeqNum
        <5> QED
          BY <2>3, <2>4, <4>1, <5>1
      <4>4. SEQUENCE_GTE(SeqOf(1 + r), SeqOf(total))
        BY <1>5, <2>1, <2>2, <4>2, <4>3
      <4> QED
        BY <2>2, <4>1, <4>4, NotBefore
    <3> QED
      BY <3>1, <3>2
  <2>7. r \in {total - 1, total}
    BY <2>2, <2>6
  <2>8. Basic(got) /\ RxTyped(got)
    BY <1>3 DEF Sound, IsSocket
  <2>9. /\ f.rx_win_low = (got.rx_win_low + 1) % SeqSpace /\ f.rx_buffer = got.rx_buffer
        /\ DOMAIN f = Fields
    BY <2>8, FinAdvances
  <2> HIDE DEF f
  <2>10. n.rx_win_low = f.rx_win_low /\ n.rx_buffer = f.rx_buffer /\ n.state = "CLOSE_WAIT"
    BY <1>2, <1>5, <2>9 DEF Fields
  <2>11. (SeqOf(1 + r) + 1) % SeqSpace = SeqOf(2 + r)
    BY <2>2, NextSeqOf
  <2>12. n.rx_win_low = SeqOf(2 + r) /\ r = Len(ap.got) + Len(n.rx_buffer)
    BY <2>1, <2>2, <2>9, <2>10, <2>11
  <2> QED
    BY <2>7, <2>10, <2>12 DEF EndFlow, n
<1> QED
  BY <1>4, <1>5

LEMMA EndInFinWait2 ==
  ASSUME NEW sk, Basic(sk), RxTyped(sk), sk.state = "FIN_WAIT_2",
         NEW got, NEW total, EndFlow(sk, got, total), NEW seg
  PROVE  EndFlow(in_fin_wait_2(sk, seg), got, total)
<1> DEFINE n == in_fin_wait_2(sk, seg)
           f == FinReceived(sk)
           a == [f EXCEPT !.state = "TIME_WAIT"]
<1>1. CASE ~Fin(seg)
  BY <1>1 DEF in_fin_wait_2
<1>2. CASE Fin(seg)
  <2>1. n = tcp_timer_set(a, "time_wait")
    BY <1>2 DEF in_fin_wait_2
  <2>2. Basic(f)
    BY FinReceivedKeeps DEF Balanced
  <2> HIDE DEF f
  <2>3. a.state = "TIME_WAIT" /\ Basic(a)
    BY <2>2, CalmState
  <2> HIDE DEF a
  <2>4. n.state = "TIME_WAIT"
    BY <2>1, <2>3, CalmSet DEF Timers
  <2> QED
    BY <2>4, EndElsewhere
<1> QED
  BY <1>1, <1>2

LEMMA EndInFinWait1 ==
  ASSUME NEW sk, Basic(sk), RxTyped(sk), sk.state = "FIN_WAIT_1",
         NEW got, NEW total, EndFlow(sk, got, total), NEW seg
  PROVE  EndFlow(in_fin_wait_1(sk, seg), got, total)
<1> DEFINE n == in_fin_wait_1(sk, seg)
           a == [sk EXCEPT !.state = "FIN_WAIT_2"]
           f == FinReceived(sk)
<1>1. CASE Ack(seg)
  <2>1. n = in_fin_wait_2(a, seg)
    BY <1>1 DEF in_fin_wait_1
  <2>2. a.state = "FIN_WAIT_2" /\ Basic(a) /\ RxTyped(a) /\ Keeps(sk, a, {"state"})
    BY CalmState
  <2> HIDE DEF a
  <2>3. a.rx_win_low = sk.rx_win_low /\ a.rx_buffer = sk.rx_buffer
    BY <2>2 DEF Keeps, Fields
  <2>4. EndFlow(a, got, total)
    BY <2>2, <2>3 DEF EndFlow
  <2> QED
    BY <2>1, <2>2, <2>4, EndInFinWait2
<1>2. CASE ~Ack(seg) /\ Fin(seg)
  <2>1. n = [f EXCEPT !.state = "CLOSING"]
    BY <1>2 DEF in_fin_wait_1
  <2>2. DOMAIN f = Fields
    BY FinAdvances
  <2> HIDE DEF f
  <2>3. n.state = "CLOSING"
    BY <2>1, <2>2 DEF Fields
  <2> QED
    BY <2>3, EndElsewhere
<1>3. CASE ~Ack(seg) /\ ~Fin(seg)
  BY <1>3 DEF in_fin_wait_1
<1> QED
  BY <1>1, <1>2, <1>3

LEMMA EndHandled ==
  ASSUME NEW sk, NEW t, NEW h, Sound(sk, t, h),
         NEW ap, NEW total, AppTyped(ap, total), Flow(sk, ap, total), EndFlow(sk, ap.got, total),
         NEW seg, SegmentTyped(seg), seg.data # <<>> => PeerData(seg.seq, seg.data, total),
         Fin(seg) => FinBehind(seg, total)
  PROVE  EndFlow(Handled(sk, seg), ap.got, total)
<1> DEFINE n == Handled(sk, seg)
<1>0. Basic(sk) /\ RxTyped(sk) /\ sk.state \in States \ {"none"} /\ DOMAIN sk = Fields
  BY DEF Sound, IsSocket, Basic
<1>1. CASE "RST" \in seg.flags
  <2>1. n = tcp_remote_close(sk)
    BY <1>1 DEF Handled
  <2>2. n.state = "CLOSED"
    BY <1>0, <2>1, CalmRemoteClose
  <2> QED
    BY <2>2, EndElsewhere
<1>2. CASE "RST" \notin seg.flags
  <2>1. CASE sk.state = "SYN_RCVD"
    <3>1. n = in_syn_rcvd(sk, seg)
      BY <1>2, <2>1 DEF Handled
    <3>2. n.state \in {"SYN_RCVD", "ESTABLISHED"}
      BY <1>0, <2>1, <3>1 DEF in_syn_rcvd, Fields
    <3> QED
      BY <3>2, EndElsewhere
  <2>2. CASE sk.state = "ESTABLISHED"
    <3>1. n = in_established(sk, seg)
      BY <1>2, <2>2 DEF Handled
    <3> QED
      BY <2>2, <3>1, EndInEstablished
  <2>3. CASE sk.state = "CLOSE_WAIT"
    <3> DEFINE acked == IF Ack(seg) THEN handle_ack(sk, seg.ack) ELSE sk
    <3>1. n = IF Fin(seg) THEN send_ack(acked) ELSE acked
      BY <1>2, <2>3 DEF Handled, in_close_wait
    <3>2. RxKept(sk, acked)
      <4>1. RxKept(sk, sk) /\ RxKept(sk, handle_ack(sk, seg.ack))
        BY <1>0, HandleAckKept DEF RxKept
      <4> QED
        BY <4>1
    <3>3. Basic(acked) /\ RxTyped(acked)
      <4>1. Ack(seg) => Sound(handle_ack(sk, seg.ack), t, h)
        BY <2>3, HandleAck DEF SegmentTyped
      <4>2. Sound(acked, t, h)
        BY <4>1
      <4> HIDE DEF acked
      <4> QED
        BY <4>2, SoundIs
    <3> HIDE DEF acked, n
    <3>4. RxKept(acked, acked) /\ RxKept(acked, send_ack(acked))
      BY <3>3, SendAckKept DEF RxKept
    <3>5. RxKept(sk, n)
      BY <3>1, <3>2, <3>4, KeptTwice
    <3> QED
      BY <3>5, EndKept DEF n
  <2>4. CASE sk.state = "LAST_ACK"
    <3> DEFINE r == tcp_remote_close(sk)
    <3>1. n = IF Ack(seg) THEN dec_socket_ref(remove_socket_from_list(r)) ELSE sk
      BY <1>2, <2>4 DEF Handled, in_last_ack
    <3>2. CASE Ack(seg)
      <4>1. Calm(sk, r) /\ r.state = "CLOSED"
        BY <1>0, CalmRemoteClose
      <4>2. n = dec_socket_ref(remove_socket_from_list(r))
        BY <3>1, <3>2
      <4> HIDE DEF r, n
      <4>3. n.state = "CLOSED"
        BY <4>1, <4>2, CalmUnlist DEF Calm
      <4> QED
        BY <4>3, EndElsewhere DEF n
    <3>3. CASE ~Ack(seg)
      BY <3>1, <3>3
    <3> QED
      BY <3>2, <3>3
  <2>5. CASE sk.state = "FIN_WAIT_1"
    <3>1. n = in_fin_wait_1(sk, seg)
      BY <1>2, <2>5 DEF Handled
    <3> QED
      BY <1>0, <2>5, <3>1, EndInFinWait1
  <2>6. CASE sk.state = "FIN_WAIT_2"
    <3>1. n = in_fin_wait_2(sk, seg)
      BY <1>2, <2>6 DEF Handled
    <3> QED
      BY <1>0, <2>6, <3>1, EndInFinWait2
  <2>7. CASE sk.state = "CLOSING"
    <3> DEFINE a == [sk EXCEPT !.state = "TIME_WAIT"]
    <3>1. n = IF Ack(seg) THEN tcp_timer_set(a, "time_wait") ELSE sk
      BY <1>2, <2>7 DEF Handled, in_closing
    <3>2. a.state = "TIME_WAIT" /\ Basic(a)
      BY <1>0, CalmState
    <3> HIDE DEF a
    <3>3. tcp_timer_set(a, "time_wait").state = "TIME_WAIT"
      BY <3>2, CalmSet DEF Timers
    <3>4. n.state \in {"TIME_WAIT", "CLOSING"}
      BY <2>7, <3>1, <3>3
    <3> QED
      BY <3>4, EndElsewhere
  <2>8. CASE sk.state \in {"TIME_WAIT", "CLOSED"}
    <3>1. n = sk
      BY <1>2, <2>8 DEF Handled
    <3> QED
      BY <3>1
  <2> QED
    BY <1>0, <2>1, <2>2, <2>3, <2>4, <2>5, <2>6, <2>7, <2>8 DEF States
<1> QED
  BY <1>1, <1>2


\* A step that leaves the received bytes and rx_win_low alone.
LEMMA EndStays ==
  ASSUME EndInv, RxKept(s, s'), app'.got = app.got, peer'.total = peer.total
  PROVE  EndInv'
<1>1. EndFlow(s', app.got, peer.total)
  BY EndKept DEF EndInv
<1> QED
  BY <1>1 DEF EndInv

\* Releasing the reference comes last in most steps.
LEMMA DecKept ==
  ASSUME NEW sk, DOMAIN sk = Fields
  PROVE  RxKept(sk, dec_socket_ref(sk)) /\ RxKept(sk, inc_socket_ref(sk))
<1>1. Keeps(sk, dec_socket_ref(sk), {"ref"}) /\ Keeps(sk, inc_socket_ref(sk), {"ref", "fault"})
  BY Dec, Inc
<1> QED
  BY <1>1, KeptBy

LEMMA EndListen ==
  ASSUME tcp_input_listen
  PROVE  EndInv'
<1> DEFINE low == (PeerIsn + 1) % SeqSpace
           high == (low + RxWinSize - 1) % SeqSpace
           new == [create_tcp_socket EXCEPT
                     !.state = "SYN_RCVD", !.in_list = TRUE,
                     !.rx_win_low = low, !.rx_win_high = high]
           sent == tcp_socket_send(new, <<>>, {"SYN"}, new.tx_win_low)
<1>1. s' = [sent EXCEPT !.tx_win_low = (@ + 1) % SeqSpace]
  BY DEF tcp_input_listen
<1>2. low \in Int /\ high \in Int
  <2>1. SeqSpace \in Nat \ {0} /\ PeerIsn \in Int /\ RxWinSize \in Int
    BY Sizes, SizesAssumption, ArgumentsAssumption
  <2>2. \A x \in Int : x % SeqSpace \in Int
    BY <2>1, Quotient
  <2>3. low \in Int
    BY <2>1, <2>2
  <2> HIDE DEF low
  <2> QED
    BY <2>1, <2>2, <2>3
<1> HIDE DEF low, high
<1>3. /\ DOMAIN new = Fields /\ new.state = "SYN_RCVD" /\ new.ref = 1 /\ new.queued = {}
      /\ new.rx_win_low = low /\ new.rx_win_high = high /\ new.rx_buffer = <<>>
  BY DEF create_tcp_socket, NoSocket, Fields
<1> HIDE DEF new
<1>4. Basic(new) /\ RxTyped(new)
  BY <1>2, <1>3 DEF Basic, RxTyped
<1>5. Keeps(new, sent, {"ref", "queued", "rx_win_high", "acked", "wire"})
  BY <1>4, SocketSend
<1> HIDE DEF sent
<1>6. sent.state = "SYN_RCVD" /\ DOMAIN sent = Fields
  BY <1>3, <1>5 DEF Keeps, Fields
<1>7. s'.state = "SYN_RCVD"
  BY <1>1, <1>6 DEF Fields
<1>8. EndFlow(s', app'.got, peer'.total)
  BY <1>7, EndElsewhere
<1> QED
  BY <1>8 DEF EndInv

LEMMA EndInput ==
  ASSUME TcpInv, StreamInv, EndInv, tcp_input
  PROVE  EndInv'
<1>1. Connected
  BY LiveConnected DEF tcp_input
<1>2. PICK seg \in FromPeer : s' = dec_socket_ref(Handled(s, seg))
  BY DEF tcp_input
<1>3. app' = app /\ peer' = peer
  BY DEF tcp_input
<1>4. AppTyped(app, peer.total) /\ Flow(s, app, peer.total) /\ peer.total \in PeerTotals
  BY StreamTyped DEF StreamInv, AppFlow
<1>5. /\ SegmentTyped(seg) /\ (seg.data # <<>> => PeerData(seg.seq, seg.data, peer.total))
      /\ Fin(seg) => FinBehind(seg, peer.total)
  BY <1>4, PeerSegments, PeerStream
<1> DEFINE n == Handled(s, seg)
<1>6. EndFlow(n, app.got, peer.total)
  BY <1>1, <1>4, <1>5, EndHandled DEF Connected, EndInv
<1>7. Sound(n, firing, app.handle)
  BY <1>1, <1>5, HandledSound DEF Connected
<1> HIDE DEF n
<1>8. DOMAIN n = Fields
  BY <1>7, SoundIs
<1>9. s' = dec_socket_ref(n)
  BY <1>2 DEF n
<1>10. EndFlow(s', app.got, peer.total)
  BY <1>6, <1>8, <1>9, DecKept, EndKept
<1> QED
  BY <1>3, <1>10 DEF EndInv

LEMMA EndCallback ==
  ASSUME EndInv, NEW t, NEW n, Callback(t, n), RxKept(s, n), DOMAIN n = Fields
  PROVE  EndInv'
<1>1. s' = dec_socket_ref(n) /\ app' = app /\ peer' = peer
  BY DEF Callback
<1>2. RxKept(s, s')
  BY <1>1, DecKept, KeptTwice
<1> QED
  BY <1>1, <1>2, EndStays

LEMMA EndTimers ==
  ASSUME TcpInv, EndInv,
         handle_retransmit_timeout \/ handle_delayed_ack_timeout \/ handle_time_wait_timeout
  PROVE  EndInv'
<1>1. CASE handle_retransmit_timeout
  <2> DEFINE n == tcp_retransmit(s)
             sent(data) == tcp_socket_send(s, data, {}, s.tx_win_low)
  <2>1. Callback("retransmit", n)
    BY <1>1 DEF handle_retransmit_timeout
  <2>2. Connected
    BY <2>1, LiveConnected DEF Callback
  <2>3. Basic(s) /\ RxTyped(s) /\ DOMAIN s = Fields
    BY <2>2, SoundIs DEF Connected
  <2>4. PICK data : n \in {s, tcp_timer_set(sent(data), "retransmit")}
    BY DEF tcp_retransmit
  <2>5. Keeps(s, sent(data), {"ref", "queued", "rx_win_high", "acked", "wire"}) /\ Basic(sent(data))
    BY <2>3, SocketSend DEF Balanced
  <2> HIDE DEF sent, n
  <2>6. Keeps(sent(data), tcp_timer_set(sent(data), "retransmit"), {"ref", "queued", "fault"})
    BY <2>5, TimerSet DEF Timers
  <2>7. RxKept(s, tcp_timer_set(sent(data), "retransmit"))
    BY <2>5, <2>6, KeptBy, KeptTwice
  <2>8. RxKept(s, s) /\ DOMAIN tcp_timer_set(sent(data), "retransmit") = Fields
    BY <2>6 DEF RxKept, Keeps
  <2>9. RxKept(s, n) /\ DOMAIN n = Fields
    BY <2>3, <2>4, <2>7, <2>8
  <2> QED
    BY <2>1, <2>9, EndCallback
<1>2. CASE handle_delayed_ack_timeout
  <2>1. Callback("ack_delay", send_ack(s))
    BY <1>2 DEF handle_delayed_ack_timeout
  <2>2. Connected
    BY <2>1, LiveConnected DEF Callback
  <2>3. Basic(s) /\ RxTyped(s)
    BY <2>2, SoundIs DEF Connected
  <2>4. Keeps(s, send_ack(s), {"ref", "queued", "rx_win_high", "acked", "wire"})
    BY <2>3, SendAck
  <2>5. RxKept(s, send_ack(s)) /\ DOMAIN send_ack(s) = Fields
    BY <2>4, KeptBy
  <2> QED
    BY <2>1, <2>5, EndCallback
<1>3. CASE handle_time_wait_timeout
  <2> DEFINE sk == Assert(s.state = "TIME_WAIT", s, "time_wait")
             m == remove_socket_from_list(sk)
             n == IF sk.fault # "none" THEN sk ELSE dec_socket_ref(m)
  <2>1. Callback("time_wait", n)
    BY <1>3 DEF handle_time_wait_timeout
  <2>2. Connected
    BY <2>1, LiveConnected DEF Callback
  <2>3. DOMAIN s = Fields
    BY <2>2, SoundIs DEF Connected
  <2>4. Keeps(s, sk, {"fault"})
    BY <2>3, AssertIs
  <2> HIDE DEF sk
  <2>5. RxKept(s, sk) /\ DOMAIN sk = Fields
    BY <2>4, KeptBy
  <2>6. Keeps(sk, m, {"in_list", "fault"})
    BY <2>5, Remove
  <2>7. RxKept(sk, m) /\ DOMAIN m = Fields
    BY <2>6, KeptBy
  <2> HIDE DEF m
  <2>8. Keeps(m, dec_socket_ref(m), {"ref"})
    BY <2>7, Dec
  <2>9. RxKept(m, dec_socket_ref(m)) /\ DOMAIN dec_socket_ref(m) = Fields
    BY <2>8, KeptBy
  <2>10. RxKept(s, dec_socket_ref(m))
    BY <2>5, <2>7, <2>9, KeptTwice
  <2>11. RxKept(s, n) /\ DOMAIN n = Fields
    BY <2>5, <2>9, <2>10
  <2> QED
    BY <2>1, <2>11, EndCallback
<1> QED
  BY <1>1, <1>2, <1>3

\* The socket is found, or a caller comes, or a timer is taken off the queue.
LEMMA EndCalls ==
  ASSUME TcpInv, StreamInv, EndInv,
         \/ lookup_socket \/ tcp_read \/ tcp_write \/ tcp_accept_timeout
         \/ \E t \in Timers : net_timer_fire(t)
  PROVE  EndInv'
<1>1. CASE lookup_socket \/ tcp_read \/ tcp_write
  <2>1. Connected /\ s' = inc_socket_ref(s) /\ peer' = peer
    BY <1>1, LiveConnected DEF lookup_socket, tcp_read, tcp_write
  <2>2. DOMAIN s = Fields /\ DOMAIN app = AppFields
    BY <2>1, SoundIs DEF Connected, StreamInv, AppFlow
  <2>3. app'.got = app.got
    BY <1>1, <2>2 DEF lookup_socket, tcp_read, tcp_write, AppFields
  <2>4. RxKept(s, s')
    BY <2>1, <2>2, DecKept
  <2> QED
    BY <2>1, <2>3, <2>4, EndStays
<1>2. CASE tcp_accept_timeout
  <2>1. s' = s /\ peer' = peer /\ app' = [app EXCEPT !.handle = "open"]
    BY <1>2 DEF tcp_accept_timeout
  <2>2. DOMAIN app = AppFields
    BY DEF StreamInv, AppFlow
  <2>3. app'.got = app.got
    BY <2>1, <2>2 DEF AppFields
  <2>4. RxKept(s, s')
    BY <2>1 DEF RxKept
  <2> QED
    BY <2>1, <2>3, <2>4, EndStays
<1>3. CASE \E t \in Timers : net_timer_fire(t)
  <2>1. PICK t \in Timers : net_timer_fire(t)
    BY <1>3
  <2>2. Connected /\ s' = [s EXCEPT !.queued = @ \ {t}] /\ app' = app /\ peer' = peer
    BY <2>1, LiveConnected DEF net_timer_fire
  <2>3. DOMAIN s = Fields
    BY <2>2, SoundIs DEF Connected
  <2>4. Keeps(s, s', {"queued"})
    BY <2>2, <2>3 DEF Keeps, Fields
  <2>5. RxKept(s, s')
    BY <2>4, KeptBy
  <2> QED
    BY <2>2, <2>5, EndStays
<1> QED
  BY <1>1, <1>2, <1>3


LEMMA EndRead ==
  ASSUME TcpInv, StreamInv, EndInv, tcp_read_resume
  PROVE  EndInv'
<1>1. Connected /\ DOMAIN app = AppFields
  BY LiveConnected DEF tcp_read_resume, Around
<1> DEFINE k(len) == Least(len, Len(s.rx_buffer))
           event(len) == ~(k(len) = Len(s.rx_buffer) /\ s.state = "ESTABLISHED")
           read(len) == [s EXCEPT !.rx_buffer = SubSeq(@, k(len) + 1, Len(@)),
                                  !.rx_event = event(len)]
           opened(len) == /\ RxWinSize - Len(read(len).rx_buffer) >= Mss
                          /\ Dist(read(len).rx_win_high, read(len).rx_win_low) < Mss
           again(len) == k(len) = 0 /\ s.state = "ESTABLISHED"
<1>2. PICK len \in ReadLens :
        /\ app' = [app EXCEPT !.reading = again(len), !.got = @ \o SubSeq(s.rx_buffer, 1, k(len))]
        /\ s' = IF again(len) THEN read(len)
                ELSE dec_socket_ref(IF k(len) > 0 /\ opened(len) THEN send_ack(read(len))
                                    ELSE read(len))
  BY DEF tcp_read_resume
<1>3. peer' = peer
  BY DEF tcp_read_resume
<1>4. PICK b, l, j, e : b = s.rx_buffer /\ l = Len(b) /\ j = k(len) /\ e = event(len)
  OBVIOUS
<1>5. /\ Basic(s) /\ RxTyped(s) /\ DOMAIN s = Fields /\ b \in Seq(Int) /\ l \in Nat
      /\ j \in Nat /\ j <= l
  <2>1. len \in Nat \ {0}
    BY ArgumentsAssumption
  <2>2. Basic(s) /\ RxTyped(s) /\ DOMAIN s = Fields
    BY <1>1, SoundIs DEF Connected
  <2>3. b \in Seq(Int) /\ l \in Nat
    BY <1>4, <2>2 DEF RxTyped
  <2> QED
    BY <1>4, <2>1, <2>2, <2>3 DEF Least
<1>6. PICK head, rest : head = SubSeq(b, 1, j) /\ rest = SubSeq(b, j + 1, l)
  OBVIOUS
<1> DEFINE r == [s EXCEPT !.rx_buffer = rest, !.rx_event = e]
<1>7. s' \in {r, dec_socket_ref(r), dec_socket_ref(send_ack(r))}
  <2>1. r = read(len)
    BY <1>4, <1>6
  <2> HIDE DEF r
  <2> QED
    BY <1>2, <2>1
<1>8. app'.got = app.got \o head
  BY <1>1, <1>2, <1>4, <1>6 DEF AppFields
<1> HIDE DEF k, event, read, opened, again
<1>9. /\ head \in Seq(Int) /\ Len(head) = j /\ rest \in Seq(Int) /\ Len(rest) = l - j
  <2>1. j + 1 \in Int /\ j + 1 >= 1 /\ j + 1 <= l + 1 /\ l - (j + 1) + 1 = l - j
        /\ 1 <= j + 1 /\ j - 1 + 1 = j
    BY <1>5
  <2> DEFINE i == j + 1
  <2>2. i \in Int /\ i >= 1 /\ i <= l + 1 /\ l - i + 1 = l - j
    BY <2>1
  <2> HIDE DEF i
  <2>3. SubSeq(b, i, l) \in Seq(Int) /\ Len(SubSeq(b, i, l)) = l - i + 1
    BY <1>4, <1>5, <2>2, Cut
  <2>4. SubSeq(b, 1, j) \in Seq(Int) /\ Len(SubSeq(b, 1, j)) = j - 1 + 1
    BY <1>4, <1>5, <2>1, Cut
  <2> QED
    BY <1>6, <2>1, <2>2, <2>3, <2>4 DEF i
<1>10. Keeps(s, r, {"rx_buffer", "rx_event"}) /\ r.rx_buffer = rest
  BY <1>5 DEF Keeps, Fields
<1> HIDE DEF r
<1>11. /\ r.state = s.state /\ r.rx_win_low = s.rx_win_low /\ r.rx_win_high = s.rx_win_high
       /\ DOMAIN r = Fields
  BY <1>10 DEF Keeps, Fields
<1>12. EndFlow(r, app'.got, peer.total)
  <2>1. PICK g : g = Len(app.got)
    OBVIOUS
  <2>2. app.got \in Seq(Int) /\ g \in Nat
    BY <2>1 DEF StreamInv, AppFlow
  <2>3. Len(app'.got) = g + j
    <3>1. Len(app.got \o head) = Len(app.got) + Len(head)
      BY <1>9, <2>2, ConcatProperties
    <3> QED
      BY <1>8, <1>9, <2>1, <3>1
  <2>4. Len(app'.got) + Len(r.rx_buffer) = g + l
    <3>1. (g + j) + (l - j) = g + l
      BY <1>5, <2>2
    <3> QED
      BY <1>9, <1>10, <2>3, <3>1
  <2>5. Len(app.got) + Len(s.rx_buffer) = g + l
    BY <1>4, <2>1
  <2> QED
    BY <1>11, <2>4, <2>5 DEF EndInv, EndFlow
<1>13. Basic(r) /\ RxTyped(r)
  <2>1. Basic(r)
    BY <1>5, <1>10, BalancedKeeps DEF Balanced
  <2> QED
    BY <1>5, <1>9, <1>10, <1>11, <2>1 DEF RxTyped
<1>14. Keeps(r, send_ack(r), {"ref", "queued", "rx_win_high", "acked", "wire"})
  BY <1>13, SendAck
<1>15. RxKept(r, send_ack(r)) /\ DOMAIN send_ack(r) = Fields
  BY <1>14, KeptBy
<1>16. RxKept(r, r)
  BY DEF RxKept
<1>17. RxKept(r, s')
  BY <1>7, <1>11, <1>15, <1>16, DecKept, KeptTwice
<1>18. EndFlow(s', app'.got, peer.total)
  BY <1>12, <1>17, EndKept
<1> QED
  BY <1>3, <1>18 DEF EndInv

LEMMA EndWrite ==
  ASSUME TcpInv, StreamInv, EndInv, tcp_write_resume
  PROVE  EndInv'
<1>1. Connected /\ DOMAIN app = AppFields
  BY LiveConnected DEF tcp_write_resume, Around
<1>2. peer' = peer
  BY DEF tcp_write_resume
<1>3. Basic(s) /\ RxTyped(s) /\ DOMAIN s = Fields
  BY <1>1, SoundIs DEF Connected
<1>4. CASE s.state \notin {"ESTABLISHED", "CLOSE_WAIT"}
  <2>1. app' = [app EXCEPT !.writing = 0] /\ s' = dec_socket_ref(s)
    BY <1>4 DEF tcp_write_resume
  <2>2. app'.got = app.got
    BY <1>1, <2>1 DEF AppFields
  <2> QED
    BY <1>2, <1>3, <2>1, <2>2, DecKept, EndStays
<1>5. CASE s.state \in {"ESTABLISHED", "CLOSE_WAIT"}
  <2>1. PICK k : k = Least(TxBufferSize - Len(s.tx_buffer), app.writing)
    OBVIOUS
  <2> DEFINE buf == s.tx_buffer \o [j \in 1 .. k |-> app.written + j]
             event == Len(s.tx_buffer) + k # TxBufferSize
             filled == [s EXCEPT !.tx_buffer = buf, !.tx_event = event]
             told == tcp_socket_send(filled, <<>>, {}, filled.tx_highest_seq)
             m(wire, seq) == [told EXCEPT !.wire = wire, !.tx_highest_seq = seq]
             n == tcp_write_pending_data(filled)
  <2>2. /\ app' = [app EXCEPT !.writing = @ - k, !.written = @ + k]
        /\ s' = IF k = app.writing THEN dec_socket_ref(n) ELSE n
    BY <1>5, <2>1 DEF tcp_write_resume
  <2>3. app'.got = app.got
    BY <1>1, <2>2 DEF AppFields
  <2> HIDE DEF buf, event
  <2>4. Keeps(s, filled, {"tx_buffer", "tx_event"})
    BY <1>3 DEF Keeps, Fields
  <2>5. \E wire, seq : n \in {filled, tcp_timer_set(m(wire, seq), "retransmit")}
    BY DEF tcp_write_pending_data
  <2> HIDE DEF filled, n
  <2>6. PICK wire, seq : n \in {filled, tcp_timer_set(m(wire, seq), "retransmit")}
    BY <2>5
  <2>7. Basic(filled) /\ RxTyped(filled) /\ RxKept(s, filled) /\ DOMAIN filled = Fields
    <3>1. RxKept(s, filled) /\ DOMAIN filled = Fields
      BY <2>4, KeptBy
    <3>2. filled.rx_win_high = s.rx_win_high
      BY <2>4 DEF Keeps, Fields
    <3>3. Basic(filled)
      BY <1>3, <2>4, BalancedKeeps DEF Balanced
    <3> QED
      BY <1>3, <3>1, <3>2, <3>3 DEF RxTyped, RxKept
  <2>8. Keeps(filled, told, {"ref", "queued", "rx_win_high", "acked", "wire"}) /\ Basic(told)
    BY <2>7, SocketSend DEF Balanced
  <2> HIDE DEF told
  <2>9. Keeps(told, m(wire, seq), {"wire", "tx_highest_seq"})
    BY <2>8 DEF Keeps, Fields
  <2>10. PICK p : p = m(wire, seq)
    OBVIOUS
  <2> HIDE DEF m
  <2>11. Keeps(told, p, {"wire", "tx_highest_seq"}) /\ n \in {filled, tcp_timer_set(p, "retransmit")}
    BY <2>6, <2>9, <2>10
  <2>12. Basic(p)
    BY <2>8, <2>11, BalancedKeeps DEF Balanced
  <2>13. Keeps(p, tcp_timer_set(p, "retransmit"), {"ref", "queued", "fault"})
    BY <2>12, TimerSet DEF Timers
  <2>14. RxKept(filled, told) /\ RxKept(told, p) /\ RxKept(p, tcp_timer_set(p, "retransmit"))
         /\ DOMAIN tcp_timer_set(p, "retransmit") = Fields
    BY <2>8, <2>11, <2>13, KeptBy
  <2>15. RxKept(s, n) /\ DOMAIN n = Fields
    BY <2>7, <2>11, <2>14, KeptTwice
  <2>16. RxKept(s, s')
    BY <2>2, <2>15, DecKept, KeptTwice
  <2> QED
    BY <1>2, <2>3, <2>16, EndStays
<1> QED
  BY <1>4, <1>5

\* tcp_close: FIN_WAIT_1 and LAST_ACK begin with what ESTABLISHED and CLOSE_WAIT had.
LEMMA EndClose ==
  ASSUME TcpInv, StreamInv, EndInv, tcp_close
  PROVE  EndInv'
<1>1. Connected /\ DOMAIN app = AppFields
  BY LiveConnected DEF tcp_close, Around
<1>2. /\ app.handle = "open" /\ peer' = peer
      /\ app' = [app EXCEPT !.handle = "closed", !.unacked = s.tx_buffer # <<>>]
  BY DEF tcp_close
<1>3. app'.got = app.got
  BY <1>1, <1>2 DEF AppFields
<1>4. s.state \in {"CLOSED", "SYN_RCVD", "ESTABLISHED", "CLOSE_WAIT"}
  BY <1>1, <1>2 DEF Connected, Sound, IsSocket, States, Listed, ClosedByApp
<1>5. Basic(s) /\ RxTyped(s)
  BY <1>1, SoundIs DEF Connected
<1>6. ASSUME NEW state, s' = tcp_wakeup_waiters(Finish(s, state))
      PROVE  s'.state = state /\ s'.rx_win_low = s.rx_win_low /\ s'.rx_buffer = s.rx_buffer
  <2> DEFINE a == [s EXCEPT !.state = state]
             b == tcp_socket_send(a, <<>>, {"FIN"}, s.tx_win_low)
             c == Finish(s, state)
  <2>1. c = [b EXCEPT !.tx_win_low = (@ + 1) % SeqSpace]
    BY DEF Finish
  <2>2. a.state = state /\ Basic(a) /\ RxTyped(a) /\ Keeps(s, a, {"state"})
    BY <1>5, CalmState
  <2> HIDE DEF a
  <2>3. Keeps(a, b, {"ref", "queued", "rx_win_high", "acked", "wire"})
    BY <2>2, SocketSend
  <2> HIDE DEF b
  <2>4. Keeps(b, c, {"tx_win_low"})
    BY <2>1, <2>3 DEF Keeps, Fields
  <2> HIDE DEF c
  <2>5. s' = tcp_wakeup_waiters(c)
    BY <1>6 DEF c
  <2>6. Keeps(c, s', {"rx_event", "tx_event"})
    BY <2>4, <2>5 DEF tcp_wakeup_waiters, Keeps, Fields
  <2>7. RxKept(a, b) /\ RxKept(b, c) /\ RxKept(c, s')
    BY <2>3, <2>4, <2>6, KeptBy
  <2>8. a.rx_win_low = s.rx_win_low /\ a.rx_buffer = s.rx_buffer
    BY <2>2 DEF Keeps, Fields
  <2> QED
    BY <2>2, <2>7, <2>8 DEF RxKept
<1>7. CASE s.state = "CLOSED"
  <2>1. s' = tcp_wakeup_waiters(
               dec_socket_ref(
                 tcp_timer_cancel(
                   tcp_timer_cancel(remove_socket_from_list(s), "ack_delay"), "retransmit")))
    BY <1>7 DEF tcp_close
  <2>2. s'.state = "CLOSED"
    BY <1>1, <1>7, <2>1, FlowCloseClosed DEF Connected, StreamInv
  <2>3. EndFlow(s', app'.got, peer'.total)
    BY <2>2, EndElsewhere
  <2> QED
    BY <2>3 DEF EndInv
<1>8. CASE s.state \in {"SYN_RCVD", "ESTABLISHED"}
  <2>1. s' = tcp_wakeup_waiters(Finish(s, "FIN_WAIT_1"))
    BY <1>8 DEF tcp_close
  <2>2. s'.state = "FIN_WAIT_1" /\ s'.rx_win_low = s.rx_win_low /\ s'.rx_buffer = s.rx_buffer
    BY <1>6, <2>1
  <2>3. s.rx_win_low = SeqOf(1 + (Len(app.got) + Len(s.rx_buffer)))
    BY <1>8 DEF StreamInv, Flow, RxFlow
  <2>4. EndFlow(s', app'.got, peer'.total)
    BY <1>3, <2>2, <2>3 DEF EndFlow
  <2> QED
    BY <2>4 DEF EndInv
<1>9. CASE s.state = "CLOSE_WAIT"
  <2>1. s' = tcp_wakeup_waiters(Finish(s, "LAST_ACK"))
    BY <1>9 DEF tcp_close
  <2>2. s'.state = "LAST_ACK" /\ s'.rx_win_low = s.rx_win_low /\ s'.rx_buffer = s.rx_buffer
    BY <1>6, <2>1
  <2>3. EndFlow(s', app'.got, peer'.total)
    BY <1>2, <1>3, <1>9, <2>2 DEF EndInv, EndFlow
  <2> QED
    BY <2>3 DEF EndInv
<1> QED
  BY <1>4, <1>7, <1>8, <1>9

LEMMA EndPeer ==
  ASSUME StreamInv, EndInv, peer_receive
  PROVE  EndInv'
<1>1. s' = s /\ app' = app
  BY DEF peer_receive
<1>2. PICK seg : peer' = PeerTakes(seg)
  BY DEF peer_receive
<1>3. DOMAIN peer = PeerFields
  BY DEF StreamInv, AppFlow
<1>4. peer'.total = peer.total
  BY <1>2, <1>3 DEF PeerTakes, PeerFields
<1>5. RxKept(s, s')
  BY <1>1 DEF RxKept
<1> QED
  BY <1>1, <1>4, <1>5, EndStays

LEMMA EndInitially == TcpInit => EndInv
<1> SUFFICES ASSUME TcpInit PROVE EndInv
  OBVIOUS
<1>1. s.state = "none"
  BY DEF TcpInit, NoSocket
<1> QED
  BY <1>1, EndElsewhere DEF EndInv

LEMMA EndStep == TcpInv /\ StreamInv /\ EndInv /\ [TcpNext]_vars => EndInv'
<1> SUFFICES ASSUME TcpInv, StreamInv, EndInv, [TcpNext]_vars PROVE EndInv'
  OBVIOUS
<1>1. CASE TcpNext
  BY <1>1, EndListen, EndCalls, EndInput, EndTimers, EndRead, EndWrite, EndClose, EndPeer DEF TcpNext
<1>2. CASE UNCHANGED vars
  <2>1. s' = s /\ app' = app /\ peer' = peer
    BY <1>2 DEF vars
  <2> QED
    BY <2>1 DEF EndInv
<1> QED
  BY <1>1, <1>2

(***************************************************************************)
(* Both byte streams of a connection, for any sizes and any number of      *)
(* bytes that fit half of the sequence space: the application reads the    *)
(* peer's bytes and the peer the application's, in order, once and without *)
(* a gap, whatever the network loses, repeats and reorders; rx_win_low     *)
(* acknowledges exactly the bytes that arrived, and once the peer's FIN    *)
(* was accepted at most the last byte of its stream is missing; a peer     *)
(* that sees the end has all of the application's bytes unless some were   *)
(* unacknowledged at tcp_close.                                            *)
(***************************************************************************)
THEOREM TcpStreamsIntact == TcpSpec => []StreamsIntact
<1>1. TcpSpec => []StreamInv
  BY StreamInitially, StreamStep, TcpInvariant, PTL DEF TcpSpec
<1>2. TcpSpec => []EndInv
  BY <1>1, EndInitially, EndStep, TcpInvariant, PTL DEF TcpSpec
<1>3. StreamInv /\ EndInv => StreamsIntact
  <2> SUFFICES ASSUME StreamInv, EndInv PROVE StreamsIntact
    OBVIOUS
  <2>1. PICK g, b : g = app.got /\ b = s.rx_buffer
    OBVIOUS
  <2>2. g \in Seq(Int) /\ b \in Seq(Int) /\ From(g, 0) /\ From(b, Len(g))
    BY <2>1 DEF StreamInv, AppFlow, Flow, RxFlow
  <2>3. From(g \o b, 0)
    <3>1. From(b, 0 + Len(g)) /\ 0 \in Int
      BY <2>2
    <3> QED
      BY <2>2, <3>1, FromJoin
  <2>4. Counts(app.got \o s.rx_buffer)
    <3>1. PICK c : c = g \o b
      OBVIOUS
    <3>2. c \in Seq(Int) /\ From(c, 0)
      BY <2>2, <2>3, <3>1
    <3>3. Counts(c)
      BY <3>2 DEF Counts, From
    <3> QED
      BY <2>1, <3>1, <3>3
  <2>5. /\ s.state \in {"SYN_RCVD", "ESTABLISHED", "FIN_WAIT_1", "FIN_WAIT_2"} =>
             s.rx_win_low = SeqOf(1 + Received)
        /\ s.state \in {"CLOSE_WAIT", "LAST_ACK"} =>
             /\ s.rx_win_low = SeqOf(2 + Received)
             /\ Received \in {peer.total - 1, peer.total}
    <3>1. s.state \in {"SYN_RCVD", "ESTABLISHED"} => s.rx_win_low = SeqOf(1 + Received)
      BY DEF StreamInv, Flow, RxFlow, Received
    <3> QED
      BY <3>1 DEF EndInv, EndFlow, Received
  <2>6. Counts(peer.rx) /\ Len(peer.rx) <= app.written
    <3>1. peer.rx \in Seq(Int) /\ From(peer.rx, 0) /\ Len(peer.rx) <= app.written
      BY DEF StreamInv, PeerFlow
    <3> QED
      BY <3>1 DEF Counts, From
  <2>7. peer.eof /\ ~app.unacked => Len(peer.rx) = app.written
    BY DEF StreamInv, PeerFlow
  <2> QED
    BY <2>4, <2>5, <2>6, <2>7 DEF StreamsIntact
<1> QED
  BY <1>1, <1>2, <1>3, PTL
==============================================================================
