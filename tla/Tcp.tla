--------------------------------- MODULE Tcp ---------------------------------
(***************************************************************************)
(* One connection of lib/minip/tcp.c: a socket that a SYN to a listening   *)
(* port creates, the application that accepts, reads, writes and closes    *)
(* it, the network thread that runs tcp_input, the thread that runs the    *)
(* network timers, and a peer on the other side of a network that loses,   *)
(* delays, duplicates and reorders segments.                               *)
(*                                                                         *)
(* The socket is a record and the functions of the file map a socket to    *)
(* what they make of it.  Everything a function does under s->lock is one  *)
(* step.  Outside the lock are: a caller asleep in event_wait, the network *)
(* thread between lookup_socket and the lock, and a timer that was taken   *)
(* off the queue and waits for the lock; each holds a reference.           *)
(*                                                                         *)
(* Bytes are numbered in the order they are written, so that a stream is   *)
(* intact when it counts 1, 2, 3, ...  Sequence numbers wrap at SeqSpace.  *)
(* tx_win_high, which nothing but a trace reads, is left out: the code     *)
(* sends without regard to the peer's window.                              *)
(***************************************************************************)
EXTENDS Integers, Sequences, FiniteSets

CONSTANTS
  SeqSpace,        \* 2^32 in the code
  Mss,             \* s->mss
  RxWinSize,       \* s->rx_win_size, the size of the circular buffer
  TxBufferSize,    \* s->tx_buffer_size
  LocalIsn,        \* what rand() gave create_tcp_socket
  PeerIsn,         \* the sequence number of the peer's SYN
  PeerTotals,      \* how many bytes the peer may have to send
  AppBytes,        \* how many bytes the application writes at most
  ReadLens,        \* lengths passed to tcp_read
  WriteLens        \* lengths passed to tcp_write

ASSUME SeqSpaceAssumption == SeqSpace \in Nat /\ SeqSpace % 2 = 0
ASSUME SizesAssumption ==
  /\ {Mss, RxWinSize, TxBufferSize} \subseteq Nat \ {0}
  /\ {AppBytes} \cup PeerTotals \subseteq Nat
  /\ \A n \in PeerTotals : 2 * (RxWinSize + n) <= SeqSpace
  /\ 2 * (TxBufferSize + AppBytes) <= SeqSpace
ASSUME ArgumentsAssumption ==
  /\ {LocalIsn, PeerIsn} \subseteq 0 .. (SeqSpace - 1)
  /\ ReadLens \cup WriteLens \subseteq Nat \ {0}

VARIABLES
  s,        \* the accepted tcp_socket_t
  accepted, \* listen_socket->accepted is this socket
  app,      \* the application: its handle and the calls it is in
  input,    \* the network thread has looked the socket up and wants its lock
  firing,   \* the timer whose callback wants the lock
  peer      \* the other side

vars == <<s, accepted, app, input, firing, peer>>

-----------------------------------------------------------------------------
(***************************************************************************)
(* Sequence numbers, timers and references                                 *)
(***************************************************************************)
Least(a, b) == IF a <= b THEN a ELSE b
Dist(a, b) == (a - b) % SeqSpace
SEQUENCE_GTE(a, b) == Dist(a, b) < SeqSpace \div 2
SEQUENCE_GT(a, b)  == a # b /\ SEQUENCE_GTE(a, b)
SEQUENCE_LTE(a, b) == ~SEQUENCE_GT(a, b)

Timers == {"ack_delay", "retransmit", "time_wait"}

\* A failed DEBUG_ASSERT stops the system; the first one is remembered.
Running == s.fault = "none"
Assert(p, sk, name) == IF p \/ sk.fault # "none" THEN sk ELSE [sk EXCEPT !.fault = name]

inc_socket_ref(sk) == [Assert(sk.ref > 0, sk, "ref") EXCEPT !.ref = @ + 1]
dec_socket_ref(sk) == [sk EXCEPT !.ref = @ - 1]

\* Mutant: a timer that is set again takes another reference.
tcp_timer_set_always_refs(sk, t) == inc_socket_ref([sk EXCEPT !.queued = @ \cup {t}])

tcp_timer_set(sk, t) ==
  IF t \in sk.queued THEN sk ELSE inc_socket_ref([sk EXCEPT !.queued = @ \cup {t}])

tcp_timer_cancel(sk, t) ==
  IF t \in sk.queued THEN dec_socket_ref([sk EXCEPT !.queued = @ \ {t}]) ELSE sk

remove_socket_from_list(sk) ==
  [Assert(sk.in_list, sk, "list") EXCEPT !.in_list = FALSE]

-----------------------------------------------------------------------------
(***************************************************************************)
(* The circular buffer: one slot is never used.                            *)
(***************************************************************************)
cbuf_write(buf, data) ==
  buf \o SubSeq(data, 1, Least(Len(data), RxWinSize - 1 - Len(buf)))

-----------------------------------------------------------------------------
(***************************************************************************)
(* Sending.  wire holds what the peer may receive, now or later; segments  *)
(* without data, SYN or FIN tell it nothing but rx_win_low and             *)
(* rx_win_high.                                                            *)
(***************************************************************************)
tcp_send(sk, data, flags, seq) ==
  IF data = <<>> /\ flags = {} THEN sk
  ELSE [sk EXCEPT !.wire = @ \cup {[seq |-> seq, data |-> data, flags |-> flags]}]

\* Mutant: the window is offered whole, whatever waits in the buffer.
tcp_socket_send_whole_window(sk, data, flags, seq) ==
  LET high == (sk.rx_win_low + RxWinSize - 1) % SeqSpace
      edge == IF SEQUENCE_GTE(high, sk.rx_win_high) THEN high ELSE sk.rx_win_high
      told == [sk EXCEPT !.rx_win_high = edge, !.acked = sk.rx_win_low]
  IN  tcp_send(tcp_timer_cancel(told, "ack_delay"), data, flags, seq)

\* Every call has PKT_ACK; flags are the others.
tcp_socket_send(sk, data, flags, seq) ==
  LET high == (sk.rx_win_low + RxWinSize - Len(sk.rx_buffer) - 1) % SeqSpace
      edge == IF SEQUENCE_GTE(high, sk.rx_win_high) THEN high ELSE sk.rx_win_high
      told == [sk EXCEPT !.rx_win_high = edge, !.acked = sk.rx_win_low]
  IN  tcp_send(tcp_timer_cancel(told, "ack_delay"), data, flags, seq)

send_ack(sk) ==
  IF sk.state \in {"ESTABLISHED", "CLOSE_WAIT", "FIN_WAIT_2"}
    THEN tcp_socket_send(sk, <<>>, {}, sk.tx_win_low)
    ELSE sk

\* The mss-sized segments that carry data from sequence number seq on.
Segments(data, seq) ==
  {[seq   |-> (seq + i * Mss) % SeqSpace,
    data  |-> SubSeq(data, i * Mss + 1, Least((i + 1) * Mss, Len(data))),
    flags |-> {}] : i \in 0 .. (Len(data) - 1) \div Mss}

tcp_write_pending_data(sk) ==
  LET outstanding == Dist(sk.tx_highest_seq, sk.tx_win_low)
      pending == SubSeq(sk.tx_buffer, outstanding + 1, Len(sk.tx_buffer))
      sent == tcp_socket_send(sk, <<>>, {}, sk.tx_highest_seq)
  IN  IF pending = <<>> THEN sk
      ELSE tcp_timer_set([sent EXCEPT
             !.wire = @ \cup Segments(pending, sk.tx_highest_seq),
             !.tx_highest_seq = (@ + Len(pending)) % SeqSpace], "retransmit")

Outstanding(sk) == SubSeq(sk.tx_buffer, 1, Dist(sk.tx_highest_seq, sk.tx_win_low))

tcp_retransmit(sk) ==
  IF sk.state \notin {"ESTABLISHED", "CLOSE_WAIT"} \/ Outstanding(sk) = <<>> THEN sk
  ELSE tcp_timer_set(
         tcp_socket_send(sk, SubSeq(Outstanding(sk), 1, Least(Mss, Len(Outstanding(sk)))),
                         {}, sk.tx_win_low),
         "retransmit")

-----------------------------------------------------------------------------
(***************************************************************************)
(* Receiving                                                               *)
(***************************************************************************)
handle_data(sk, data, seq) ==
  LET len == Len(data)
      top == (seq + len - 1) % SeqSpace
      offset == Dist(seq, sk.rx_win_low)
      copy_len == Least(Dist(sk.rx_win_high, sk.rx_win_low), len - offset)
      full == IF copy_len >= Mss THEN sk.rx_full_mss_count + 1 ELSE 0
      low == (sk.rx_win_low + copy_len) % SeqSpace
      got == [sk EXCEPT
                !.rx_win_low = low,
                !.rx_buffer = cbuf_write(@, SubSeq(data, offset + 1, offset + copy_len)),
                !.rx_event = TRUE]
  IN  IF SEQUENCE_LTE(seq, sk.rx_win_low) /\ SEQUENCE_GTE(top, sk.rx_win_low)
        THEN IF offset >= len THEN Assert(FALSE, sk, "offset")
             ELSE IF full >= 2 \/ 2 * (RxWinSize - Dist(sk.rx_win_high, low)) > RxWinSize
               THEN [send_ack(got) EXCEPT !.rx_full_mss_count = 0]
               ELSE tcp_timer_set([got EXCEPT !.rx_full_mss_count = full], "ack_delay")
        ELSE send_ack(sk)

\* Mutant: every new acknowledgement stops the retransmit timer.
handle_ack_stops_timer(sk, seq) ==
  LET acked_len == Dist(seq, sk.tx_win_low)
      moved == [sk EXCEPT
                  !.tx_buffer = SubSeq(@, acked_len + 1, Len(@)),
                  !.tx_win_low = seq,
                  !.tx_event = TRUE]
  IN  IF SEQUENCE_LTE(seq, sk.tx_win_low) \/ SEQUENCE_GT(seq, sk.tx_highest_seq) THEN sk
      ELSE tcp_timer_cancel(moved, "retransmit")

handle_ack(sk, seq) ==
  LET acked_len == Dist(seq, sk.tx_win_low)
      fits == Assert(acked_len <= Len(sk.tx_buffer), sk, "acked_len")
      moved == [fits EXCEPT
                  !.tx_buffer = SubSeq(@, acked_len + 1, Len(@)),
                  !.tx_win_low = seq,
                  !.tx_event = TRUE]
  IN  IF SEQUENCE_LTE(seq, sk.tx_win_low) \/ SEQUENCE_GT(seq, sk.tx_highest_seq) THEN sk
      ELSE IF moved.tx_win_low = moved.tx_highest_seq
             THEN tcp_timer_cancel(moved, "retransmit")
             ELSE tcp_timer_set(moved, "retransmit")

tcp_wakeup_waiters(sk) == [sk EXCEPT !.rx_event = TRUE, !.tx_event = TRUE]

\* Mutant: a reset takes the socket off the list, as tcp_close will.
tcp_remote_close_unlists(sk) ==
  tcp_wakeup_waiters(
    tcp_timer_cancel(
      tcp_timer_cancel([sk EXCEPT !.state = "CLOSED", !.in_list = FALSE], "retransmit"),
      "ack_delay"))

tcp_remote_close(sk) ==
  IF sk.state = "CLOSED" THEN sk
  ELSE tcp_wakeup_waiters(
         tcp_timer_cancel(
           tcp_timer_cancel([sk EXCEPT !.state = "CLOSED"], "retransmit"), "ack_delay"))

-----------------------------------------------------------------------------
(***************************************************************************)
(* The cases of tcp_input, by the state of the socket                      *)
(***************************************************************************)
Fin(seg) == "FIN" \in seg.flags
Ack(seg) == "ACK" \in seg.flags

in_syn_rcvd(sk, seg) ==
  IF "SYN" \notin seg.flags /\ Ack(seg) /\ seg.ack = sk.tx_win_low
    THEN [sk EXCEPT !.tx_highest_seq = sk.tx_win_low, !.state = "ESTABLISHED"]
    ELSE sk

in_established(sk, seg) ==
  LET acked == IF Ack(seg) THEN handle_ack(sk, seg.ack) ELSE sk
      got == IF seg.data # <<>> THEN handle_data(acked, seg.data, seg.seq) ELSE acked
      highest == IF seg.data # <<>> THEN seg.seq + Len(seg.data) - 1 ELSE seg.seq
      fin == [got EXCEPT !.rx_win_low = (@ + 1) % SeqSpace]
  IN  IF Fin(seg) /\ SEQUENCE_GTE(got.rx_win_low, highest % SeqSpace)
        THEN [send_ack(fin) EXCEPT !.state = "CLOSE_WAIT", !.rx_event = TRUE]
        ELSE got

in_close_wait(sk, seg) ==
  LET acked == IF Ack(seg) THEN handle_ack(sk, seg.ack) ELSE sk
  IN  IF Fin(seg) THEN send_ack(acked) ELSE acked

in_last_ack(sk, seg) ==
  IF Ack(seg) THEN dec_socket_ref(remove_socket_from_list(tcp_remote_close(sk))) ELSE sk

FinReceived(sk) == send_ack([sk EXCEPT !.rx_win_low = (@ + 1) % SeqSpace])

in_fin_wait_2(sk, seg) ==
  IF Fin(seg)
    THEN tcp_timer_set([FinReceived(sk) EXCEPT !.state = "TIME_WAIT"], "time_wait")
    ELSE sk

in_fin_wait_1(sk, seg) ==
  IF Ack(seg) THEN in_fin_wait_2([sk EXCEPT !.state = "FIN_WAIT_2"], seg)
  ELSE IF Fin(seg) THEN [FinReceived(sk) EXCEPT !.state = "CLOSING"]
  ELSE sk

in_closing(sk, seg) ==
  IF Ack(seg) THEN tcp_timer_set([sk EXCEPT !.state = "TIME_WAIT"], "time_wait") ELSE sk

\* A reset that is sent in answer is not modelled: the peer falls silent.
Handled(sk, seg) ==
  IF "RST" \in seg.flags THEN tcp_remote_close(sk)
  ELSE CASE sk.state = "SYN_RCVD"    -> in_syn_rcvd(sk, seg)
         [] sk.state = "ESTABLISHED" -> in_established(sk, seg)
         [] sk.state = "CLOSE_WAIT"  -> in_close_wait(sk, seg)
         [] sk.state = "LAST_ACK"    -> in_last_ack(sk, seg)
         [] sk.state = "FIN_WAIT_1"  -> in_fin_wait_1(sk, seg)
         [] sk.state = "FIN_WAIT_2"  -> in_fin_wait_2(sk, seg)
         [] sk.state = "CLOSING"     -> in_closing(sk, seg)
         [] sk.state \in {"TIME_WAIT", "CLOSED"} -> sk

-----------------------------------------------------------------------------
(***************************************************************************)
(* The peer.  It is a TCP that keeps to the window it was told, sends one  *)
(* byte as a probe into a closed window, sends FIN after its last byte,    *)
(* repeats what it likes, in other portions too, and may reset the         *)
(* connection.  The code provides for a FIN without PKT_ACK, so it may     *)
(* send that too.  FromPeer are the segments it may have sent up to now:   *)
(* the network may deliver any of them, at any time and more than once.    *)
(***************************************************************************)
SeqOf(k) == (PeerIsn + k) % SeqSpace

SynSegment == [flags |-> {"SYN"}, seq |-> PeerIsn, ack |-> 0, data |-> <<>>]
RstSegment == [flags |-> {"RST"}, seq |-> 0, ack |-> 0, data |-> <<>>]

Acks == {(LocalIsn + i) % SeqSpace : i \in 1 .. Dist(peer.rcv_nxt, LocalIsn)}

\* k is the first byte, n the number of bytes.
Sendable(k, n) ==
  \/ SEQUENCE_LTE(SeqOf(k + n), s.rx_win_high)
  \/ n = 1 /\ SeqOf(k) = s.rx_win_high

DataSegments ==
  {[flags |-> f, seq |-> SeqOf(k),
    ack |-> a, data |-> [i \in 1 .. n |-> k + i - 1]] :
     f \in {{"ACK"}, {"ACK", "FIN"}, {"FIN"}}, k \in 1 .. peer.total + 1, n \in 0 .. Mss, a \in Acks}

FromPeer ==
  {SynSegment, RstSegment} \cup
  {seg \in DataSegments :
     LET n == Len(seg.data)
         k == Dist(seg.seq, PeerIsn)
     IN  /\ k + n <= peer.total + 1
         /\ Sendable(k, n)
         /\ Fin(seg) => k + n = peer.total + 1
         /\ n = 0 => k = peer.total + 1 \/ k = 1}

\* The peer takes what extends its stream, and nothing after a FIN.
PeerTakes(seg) ==
  LET skip == Dist(peer.rcv_nxt, seg.seq)
      new == SubSeq(seg.data, skip + 1, Len(seg.data))
  IN  IF "SYN" \in seg.flags
        THEN [peer EXCEPT !.synced = TRUE, !.rcv_nxt = (seg.seq + 1) % SeqSpace]
      ELSE IF "FIN" \in seg.flags
        THEN [peer EXCEPT !.eof = TRUE, !.rcv_nxt = (@ + 1) % SeqSpace]
      ELSE [peer EXCEPT !.rx = @ \o new, !.rcv_nxt = (@ + Len(new)) % SeqSpace]

peer_receive ==
  /\ Running
  /\ \E seg \in s.wire :
    /\ IF "SYN" \in seg.flags THEN ~peer.synced
       ELSE /\ peer.synced /\ ~peer.eof
            /\ IF "FIN" \in seg.flags THEN seg.seq = peer.rcv_nxt
               ELSE Dist(peer.rcv_nxt, seg.seq) < Len(seg.data)
    /\ peer' = PeerTakes(seg)
  /\ UNCHANGED <<s, accepted, app, input, firing>>

-----------------------------------------------------------------------------
(***************************************************************************)
(* The steps                                                               *)
(***************************************************************************)
NoSocket ==
  [state |-> "none", ref |-> 0, in_list |-> FALSE, queued |-> {}, fault |-> "none",
   rx_win_low |-> 0, rx_win_high |-> 0, rx_buffer |-> <<>>, rx_event |-> FALSE,
   rx_full_mss_count |-> 0, acked |-> 0,
   tx_win_low |-> LocalIsn, tx_highest_seq |-> LocalIsn, tx_buffer |-> <<>>,
   tx_event |-> FALSE, wire |-> {}]

TcpInit ==
  /\ s = NoSocket
  /\ accepted = FALSE
  /\ app = [handle |-> "none", reading |-> FALSE, writing |-> 0,
            got |-> <<>>, written |-> 0, unacked |-> FALSE]
  /\ input = FALSE
  /\ firing = "none"
  /\ \E n \in PeerTotals :
       peer = [synced |-> FALSE, rcv_nxt |-> LocalIsn, rx |-> <<>>, eof |-> FALSE, total |-> n]

Live == Running /\ s.ref > 0

create_tcp_socket ==
  [NoSocket EXCEPT !.state = "CLOSED", !.ref = 1, !.tx_event = TRUE]

\* A SYN to the listening socket.  One connection is followed: that a late
\* copy of the SYN opens another one is left out.
tcp_input_listen ==
  /\ Running /\ s.state = "none"
  /\ LET low == (PeerIsn + 1) % SeqSpace
         new == [create_tcp_socket EXCEPT
                   !.state = "SYN_RCVD", !.in_list = TRUE,
                   !.rx_win_low = low,
                   !.rx_win_high = (low + RxWinSize - 1) % SeqSpace]
     IN  s' = [tcp_socket_send(new, <<>>, {"SYN"}, new.tx_win_low) EXCEPT
                 !.tx_win_low = (@ + 1) % SeqSpace]
  /\ accepted' = TRUE
  /\ UNCHANGED <<app, input, firing, peer>>

tcp_accept_timeout ==
  /\ Running /\ accepted
  /\ accepted' = FALSE
  /\ app' = [app EXCEPT !.handle = "open"]
  /\ UNCHANGED <<s, input, firing, peer>>

\* lookup_socket passes over closed sockets and bumps the reference.
lookup_socket ==
  /\ Live /\ ~input
  /\ s.in_list /\ s.state # "CLOSED"
  /\ input' = TRUE
  /\ s' = inc_socket_ref(s)
  /\ UNCHANGED <<accepted, app, firing, peer>>

\* Which segment it was is settled here: a segment that was sent after the
\* lookup could as well have been looked up now.
tcp_input ==
  /\ Live /\ input
  /\ \E seg \in FromPeer : s' = dec_socket_ref(Handled(s, seg))
  /\ input' = FALSE
  /\ UNCHANGED <<accepted, app, firing, peer>>

\* net_timer_work_routine takes a timer that is due off the queue.  The
\* reference of the queue passes to the callback.
net_timer_fire(t) ==
  /\ Live /\ firing = "none"
  /\ t \in s.queued
  /\ firing' = t
  /\ s' = [s EXCEPT !.queued = @ \ {t}]
  /\ UNCHANGED <<accepted, app, input, peer>>

Callback(t, sk) ==
  /\ Live /\ firing = t
  /\ firing' = "none"
  /\ s' = dec_socket_ref(sk)
  /\ UNCHANGED <<accepted, app, input, peer>>

handle_retransmit_timeout == Callback("retransmit", tcp_retransmit(s))

handle_delayed_ack_timeout == Callback("ack_delay", send_ack(s))

handle_time_wait_timeout ==
  Callback("time_wait",
           LET sk == Assert(s.state = "TIME_WAIT", s, "time_wait")
           IN  IF sk.fault # "none" THEN sk ELSE dec_socket_ref(remove_socket_from_list(sk)))

-----------------------------------------------------------------------------
(***************************************************************************)
(* The application: a thread that reads, one that writes and one that      *)
(* closes the socket.  None starts a call once tcp_close was called.       *)
(***************************************************************************)
tcp_read ==
  /\ Live /\ app.handle = "open" /\ ~app.reading
  /\ app' = [app EXCEPT !.reading = TRUE]
  /\ s' = inc_socket_ref(s)
  /\ UNCHANGED <<accepted, input, firing, peer>>

\* tcp_read past event_wait: no byte and still open, it waits again.
tcp_read_resume ==
  /\ Live /\ app.reading /\ s.rx_event
  /\ \E len \in ReadLens :
       LET n == Least(len, Len(s.rx_buffer))
           read == [s EXCEPT !.rx_buffer = SubSeq(@, n + 1, Len(@)),
                             !.rx_event = ~(n = Len(s.rx_buffer) /\ s.state = "ESTABLISHED")]
           opened == /\ RxWinSize - Len(read.rx_buffer) >= Mss
                     /\ Dist(read.rx_win_high, read.rx_win_low) < Mss
           again == n = 0 /\ s.state = "ESTABLISHED"
       IN  /\ app' = [app EXCEPT !.reading = again,
                                 !.got = @ \o SubSeq(s.rx_buffer, 1, n)]
           /\ s' = IF again THEN read
                   ELSE dec_socket_ref(IF n > 0 /\ opened THEN send_ack(read) ELSE read)
  /\ UNCHANGED <<accepted, input, firing, peer>>

tcp_write ==
  /\ Live /\ app.handle = "open" /\ app.writing = 0
  /\ \E len \in WriteLens :
       /\ app.written + len <= AppBytes
       /\ app' = [app EXCEPT !.writing = len]
  /\ s' = inc_socket_ref(s)
  /\ UNCHANGED <<accepted, input, firing, peer>>

\* One turn of tcp_write's loop, past event_wait.
tcp_write_resume ==
  /\ Live /\ app.writing > 0 /\ s.tx_event
  /\ LET n == Least(TxBufferSize - Len(s.tx_buffer), app.writing)
         filled == [s EXCEPT !.tx_buffer = @ \o [i \in 1 .. n |-> app.written + i],
                             !.tx_event = Len(s.tx_buffer) + n # TxBufferSize]
         sent == tcp_write_pending_data(filled)
     IN  IF s.state \notin {"ESTABLISHED", "CLOSE_WAIT"}
           THEN /\ app' = [app EXCEPT !.writing = 0]
                /\ s' = dec_socket_ref(s)
           ELSE /\ n > 0
                /\ app' = [app EXCEPT !.writing = @ - n, !.written = @ + n]
                /\ s' = IF n = app.writing THEN dec_socket_ref(sent) ELSE sent
  /\ UNCHANGED <<accepted, input, firing, peer>>

\* The FIN goes out with the sequence number of the first byte that is not
\* acknowledged.
Finish(sk, state) ==
  [tcp_socket_send([sk EXCEPT !.state = state], <<>>, {"FIN"}, sk.tx_win_low) EXCEPT
     !.tx_win_low = (@ + 1) % SeqSpace]

tcp_close ==
  /\ Live /\ app.handle = "open"
  /\ s' = tcp_wakeup_waiters(
            CASE s.state = "CLOSED" ->
                   dec_socket_ref(
                     tcp_timer_cancel(
                       tcp_timer_cancel(remove_socket_from_list(s), "ack_delay"), "retransmit"))
              [] s.state \in {"SYN_RCVD", "ESTABLISHED"} -> Finish(s, "FIN_WAIT_1")
              [] s.state = "CLOSE_WAIT" -> Finish(s, "LAST_ACK"))
  /\ app' = [app EXCEPT !.handle = "closed", !.unacked = s.tx_buffer # <<>>]
  /\ UNCHANGED <<accepted, input, firing, peer>>

TcpNext ==
  \/ tcp_input_listen \/ tcp_accept_timeout
  \/ lookup_socket \/ tcp_input
  \/ \E t \in Timers : net_timer_fire(t)
  \/ handle_retransmit_timeout \/ handle_delayed_ack_timeout \/ handle_time_wait_timeout
  \/ tcp_read \/ tcp_read_resume
  \/ tcp_write \/ tcp_write_resume
  \/ tcp_close
  \/ peer_receive

TcpSpec == TcpInit /\ [][TcpNext]_vars

-----------------------------------------------------------------------------
(***************************************************************************)
(* Properties                                                              *)
(***************************************************************************)
Counts(stream) == \A i \in DOMAIN stream : stream[i] = i

\* How many of the peer's bytes have arrived.
Received == Len(app.got) + Len(s.rx_buffer)

(***************************************************************************)
(* Both byte streams survive loss, delay, duplication and reordering: what *)
(* tcp_read returned and what is still in rx_buffer are the peer's bytes   *)
(* in order and without a gap.  While the connection is open rx_win_low    *)
(* acknowledges these bytes and no other; once the peer's FIN was accepted *)
(* it acknowledges one sequence number more, and at most the byte that     *)
(* came with the FIN is missing: tcp_input takes a FIN behind one byte     *)
(* that found no room, although "there's no outstanding data" is what it   *)
(* means to ask.  What the peer took are the bytes passed to tcp_write, in *)
(* order; a peer that sees the end of the stream has them all, unless      *)
(* tcp_close was called while some were not acknowledged.                  *)
(***************************************************************************)
StreamsIntact ==
  /\ Counts(app.got \o s.rx_buffer)
  /\ s.state \in {"SYN_RCVD", "ESTABLISHED", "FIN_WAIT_1", "FIN_WAIT_2"} =>
       s.rx_win_low = SeqOf(1 + Received)
  /\ s.state \in {"CLOSE_WAIT", "LAST_ACK"} =>
       /\ s.rx_win_low = SeqOf(2 + Received)
       /\ Received \in {peer.total - 1, peer.total}
  /\ Counts(peer.rx) /\ Len(peer.rx) <= app.written
  /\ peer.eof /\ ~app.unacked => Len(peer.rx) = app.written

(***************************************************************************)
(* s->ref counts the list, the queued timers, the callback that was taken  *)
(* off the timer queue, the network thread and the callers asleep in       *)
(* tcp_read and tcp_write, so that dec_socket_ref frees the socket when    *)
(* the last of them leaves and none of them touches it afterwards.         *)
(***************************************************************************)
One(p) == IF p THEN 1 ELSE 0

RefsExact ==
  Running => s.ref = One(s.in_list) + Cardinality(s.queued) + One(firing # "none")
                     + One(input) + One(app.reading) + One(app.writing > 0)

(***************************************************************************)
(* Nothing is left waiting for a wake-up that nobody owes: in a connection *)
(* that is open for writing, bytes that were sent and not acknowledged     *)
(* have their retransmit timer, bytes received and not acknowledged have   *)
(* the delayed ACK, rx_event is off only if there is nothing to read and   *)
(* tx_event only if the transmit buffer is full.                           *)
(***************************************************************************)
NothingStranded ==
  Live =>
    /\ s.state \in {"ESTABLISHED", "CLOSE_WAIT"} /\ s.tx_buffer # <<>> =>
         "retransmit" \in s.queued \cup {firing}
    /\ s.state = "ESTABLISHED" /\ s.acked # s.rx_win_low =>
         "ack_delay" \in s.queued \cup {firing}
    /\ ~s.rx_event => s.rx_buffer = <<>> /\ s.state \in {"SYN_RCVD", "ESTABLISHED"}
    /\ ~s.tx_event => /\ Len(s.tx_buffer) = TxBufferSize
                      /\ s.state \in {"ESTABLISHED", "CLOSE_WAIT"}

(***************************************************************************)
(* Of the assertions of tcp.c only two can fail: offset < len in           *)
(* handle_data, on a segment that begins before rx_win_low and ends after  *)
(* it, and state == STATE_TIME_WAIT in handle_time_wait_timeout, after a   *)
(* reset in TIME_WAIT.  Those on reference counts, on list membership and  *)
(* on the length of an acknowledgement hold.                               *)
(***************************************************************************)
OnlyTwoAssertsFail == s.fault \in {"none", "offset", "time_wait"}
==============================================================================
