--------------------------------- MODULE Port ---------------------------------
(***************************************************************************)
(* kernel/port.c: named ports.  A write port keeps its packets in a ring   *)
(* until somebody opens it; the first read port takes the ring over, and   *)
(* the last one to close hands it back.  A port group is read like a port: *)
(* its readers wait on the group's queue and take from any member.         *)
(*                                                                         *)
(* Every call is one critical section of thread_lock, except port_create,  *)
(* which looks the name up in one and inserts the port in another;         *)
(* port_read, which sleeps in wait_queue_block and looks again; and        *)
(* port_close on a group, which reschedules after waking the readers.      *)
(* Threads are the threads that read; any other thread, or any number of   *)
(* them, makes the other calls.                                            *)
(*                                                                         *)
(* Callers pass handles of objects that are open, and change the group of  *)
(* one read port from one thread at a time.  When the code nevertheless    *)
(* follows a pointer to freed memory or through a cleared list node, or    *)
(* returns with thread_lock held, the system is broken and stops here.     *)
(***************************************************************************)
EXTENDS WaitQueue, FiniteSets

CONSTANTS WritePorts, ReadPorts, Groups,   \* the memory objects may use
          Names, Modes,
          PORT_BUFF_SIZE,                  \* 8 in the code
          WriteCounts,                     \* the counts given to port_write
          None                             \* NULL

AllModes == {"BROADCAST", "UNICAST"}
Rings == [packets : Seq(Int), got : Nat]   \* what a port_buf_t stands for

ASSUME PortAssumption ==
  /\ Queues = ReadPorts \cup Groups
  /\ ReadPorts \cap Groups = {}
  /\ None \notin WritePorts \cup ReadPorts \cup Groups \cup AllModes \cup Rings
  /\ IsFiniteSet(Threads) /\ IsFiniteSet(ReadPorts)
  /\ Modes \subseteq AllModes
  /\ PORT_BUFF_SIZE \in Nat \ {0}
  /\ WriteCounts \subseteq Nat \ {0}

\* The packets of a unicast port are numbered, modulo Stamps.
Stamps == PORT_BUFF_SIZE + 1

VARIABLES
  write_port_list,  \* the write ports, in the order of their insertion
  wp,               \* wp[w]: the write port at w
  rp,               \* rp[r]: the read port at r
  pg,               \* pg[g]: the port group at g
  timed,            \* the readers whose timeout argument is finite
  broken,           \* how the code broke, "no" while it has not
  risk,             \* history: the kind of use that may have upset the code
  written           \* history: written[w]: packets written to w, modulo Stamps

pvars == <<write_port_list, wp, rp, pg, timed, broken, risk, written>>
portvars == <<wqvars, pvars>>

(***************************************************************************)
(* The ring of packets, oldest first: head, tail and avail stand for a     *)
(* sequence of at most PORT_BUFF_SIZE packets.  got is history: the        *)
(* packets read from it, modulo Stamps.                                    *)
(***************************************************************************)
make_buf == [packets |-> <<>>, got |-> 0]

buf_is_empty(b) == b.packets = <<>>

\* ERR_NOT_ENOUGH_BUFFER unless all the packets fit.
buf_fits(b, count) == PORT_BUFF_SIZE - Len(b.packets) >= count

\* Packets of a broadcast port are not told apart, those of a unicast port
\* are numbered from first on.
Unmarked == -1
Packet(first, i) == IF first = Unmarked THEN Unmarked ELSE (first + i) % Stamps

buf_write(b, first, count) ==
  [b EXCEPT !.packets = @ \o [i \in 1..count |-> Packet(first, i - 1)]]

buf_read(b) ==
  [b EXCEPT !.packets = Tail(@),
            !.got = IF Head(b.packets) = Unmarked THEN b.got ELSE (b.got + 1) % Stamps]

(***************************************************************************)
(* The objects.                                                            *)
(***************************************************************************)
FreeWrite == [magic |-> "free", name |-> None, mode |-> None, buf |-> None, rps |-> <<>>]
FreeRead  == [magic |-> "free", buf |-> None, wport |-> None, gport |-> None]
FreeGroup == [magic |-> "free", rps |-> <<>>]

Open(r)      == rp[r].magic = "open"
OpenGroup(g) == pg[g].magic = "open"
Listed(w)    == w \in Range(write_port_list)

PortInit ==
  /\ WQInit
  /\ write_port_list = <<>>
  /\ wp = [w \in WritePorts |-> FreeWrite]
  /\ rp = [r \in ReadPorts |-> FreeRead]
  /\ pg = [g \in Groups |-> FreeGroup]
  /\ timed = {}
  /\ broken = "no"
  /\ risk = "none"
  /\ written = [w \in WritePorts |-> 0]

\* A reader of queue q that a write woke and that has not run yet.
OnItsWay(q) == \E t \in Threads : frame[t] = q /\ Woken(t) /\ block_ret[t] = NO_ERROR

(***************************************************************************)
(* Three kinds of use upset the code, and are remembered: readers crowd    *)
(* (several packets arrive for several sleepers, or a port is read both    *)
(* directly and through a group), a port is removed from a group, a port   *)
(* or group is closed while a reader that was woken has not run.  Bound:   *)
(* one kind per execution.                                                 *)
(***************************************************************************)
Risk(kind, happens) ==
  /\ happens => risk \in {"none", kind}
  /\ risk' = IF happens THEN kind ELSE risk

\* The allocator may give out the memory of a freed object.  Memory that
\* somebody will still look at stays unused here, so that the use of a stale
\* pointer is seen for what it is.
Forgotten(q) == \A t \in Threads : frame[t] = q => Woken(t) /\ block_ret[t] # NO_ERROR
FreeReadPort(r) == rp[r].magic = "free" /\ Forgotten(r)
FreeGroupAt(g) ==
  /\ pg[g].magic = "free"
  /\ Forgotten(g)
  /\ \A r \in ReadPorts : rp[r].gport # g

Break(how) ==
  /\ broken' = how
  /\ UNCHANGED <<wqvars, write_port_list, wp, rp, pg, timed, risk, written>>

(***************************************************************************)
(* The write side.                                                         *)
(***************************************************************************)
\* port_create up to the second critical section: the name is free.  If it
\* is not, ERR_ALREADY_EXISTS or ERR_BUSY is returned and nothing changes.
port_create(name, mode) ==
  /\ \A w \in Range(write_port_list) : wp[w].name # name
  /\ \E w \in WritePorts :
       /\ wp[w].magic = "free"
       /\ wp' = [wp EXCEPT ![w] = [magic |-> "W", name |-> name, mode |-> mode,
                                   buf |-> make_buf, rps |-> <<>>]]
       /\ written' = [written EXCEPT ![w] = 0]
  /\ UNCHANGED <<wqvars, write_port_list, rp, pg, timed, broken, risk>>

\* The second critical section.  Another port of this name may be there now.
port_create_insert(w) ==
  /\ wp[w].magic = "W" /\ ~Listed(w)
  /\ write_port_list' = Append(write_port_list, w)
  /\ UNCHANGED <<wqvars, wp, rp, pg, timed, broken, risk, written>>

\* The read ports of w that a write of count packets reaches.
Hit(w, count) == {r \in Range(wp[w].rps) : buf_fits(rp[r].buf, count)}

\* The ports of hit whose write wakes a reader of q, if there is one: of its
\* group or, when those before it in the list s have woken all the readers
\* of the group, of the port itself.
Wakers(s, hit, q) ==
  LET Before(r) == {p \in hit : \E i, j \in DOMAIN s : i < j /\ s[i] = p /\ s[j] = r}
      InGroup(S, g) == {r \in S : rp[r].gport = g}
  IN  IF q \in Groups
        THEN InGroup(hit, q)
        ELSE {r \in hit \cap {q} :
                LET g == rp[r].gport
                IN  g = None \/ Cardinality(InGroup(Before(r), g)) >= Len(list[g])}

\* Several packets come for the sleepers of x, and only one is woken.
LeavesSleeper(x, count) == count > 1 /\ x # None /\ Len(list[x]) > 1

\* The number of the next packet written to w.
Number(w) == IF wp[w].mode = "UNICAST" THEN written[w] ELSE Unmarked

Advance(w, count) ==
  written' = IF wp[w].mode = "UNICAST" THEN [written EXCEPT ![w] = (@ + count) % Stamps]
                                       ELSE written

\* port_write without a read port: all the packets fit the ring, or none is
\* written and ERR_NOT_ENOUGH_BUFFER returned.
port_write_pending(w, count) ==
  /\ Listed(w) /\ wp[w].magic = "W"
  /\ wp[w].buf # None
  /\ buf_fits(wp[w].buf, count)
  /\ wp' = [wp EXCEPT ![w].buf = buf_write(@, Number(w), count)]
  /\ Advance(w, count)
  /\ UNCHANGED <<wqvars, write_port_list, rp, pg, timed, broken, risk>>

\* port_write with read ports: those whose ring is full are left out, which
\* ERR_PARTIAL_WRITE tells the caller.
port_write_readers(w, count) ==
  LET hit == Hit(w, count)
      woken(q) == Cardinality(Wakers(wp[w].rps, hit, q))
  IN  /\ Listed(w) /\ wp[w].magic = "W"
      /\ wp[w].buf = None
      /\ hit # {}
      /\ IF \E r \in hit : rp[r].gport # None /\ pg[rp[r].gport].magic = "free"
           THEN Break("freed group")
           ELSE /\ rp' = [r \in ReadPorts |->
                            IF r \in hit
                              THEN [rp[r] EXCEPT !.buf = buf_write(@, Number(w), count)]
                              ELSE rp[r]]
                /\ list' = [q \in Queues |-> SubSeq(list[q], woken(q) + 1, Len(list[q]))]
                /\ Advance(w, count)
                /\ Risk("crowd", \E r \in hit : \/ LeavesSleeper(r, count)
                                                 \/ LeavesSleeper(rp[r].gport, count))
                /\ UNCHANGED <<frame, block_ret, timer, write_port_list, wp, pg, timed, broken>>

port_write(w, count) == port_write_pending(w, count) \/ port_write_readers(w, count)

\* port_close on a write port: it can be read, but not written any more.
port_close_write(w) ==
  /\ Listed(w) /\ wp[w].magic = "W"
  /\ wp' = [wp EXCEPT ![w].magic = "X"]
  /\ UNCHANGED <<wqvars, write_port_list, rp, pg, timed, broken, risk, written>>

\* Only a closed port can be destroyed.  Its readers, and those of the groups
\* it is read through, are sent away with ERR_CANCELLED.
port_destroy(w) ==
  /\ Listed(w) /\ wp[w].magic = "X"
  /\ LET readers == Range(wp[w].rps)
         queues  == readers \cup ({rp[r].gport : r \in readers} \ {None})
         sleepers == UNION {Range(list[q]) : q \in queues}
     IN  IF \E q \in queues \cap Groups : pg[q].magic = "free"
           THEN Break("freed group")
           ELSE /\ write_port_list' = RemoveFirst(write_port_list, w)
                /\ list' = [q \in Queues |-> IF q \in queues THEN <<>> ELSE list[q]]
                /\ block_ret' = [t \in Threads |-> IF t \in sleepers THEN ERR_CANCELLED
                                                                     ELSE block_ret[t]]
                /\ rp' = [r \in ReadPorts |-> IF r \in readers
                                                THEN [rp[r] EXCEPT !.wport = None]
                                                ELSE rp[r]]
                /\ wp' = [wp EXCEPT ![w] = FreeWrite]
                /\ written' = [written EXCEPT ![w] = 0]
                /\ UNCHANGED <<frame, timer, pg, timed, broken, risk>>

(***************************************************************************)
(* The read side.                                                          *)
(***************************************************************************)
\* The write port that a lookup of name finds, the first of that name.
Found(name) == SelectInSeq(write_port_list, LAMBDA w : wp[w].name = name)

\* Mutant: the first reader gets a ring of its own, too.
port_open_new_ring(name, r) ==
  /\ FreeReadPort(r)
  /\ Found(name) # 0
  /\ LET w == write_port_list[Found(name)]
     IN  /\ wp[w].buf = None => wp[w].mode # "UNICAST"
         /\ rp' = [rp EXCEPT ![r] = [magic |-> "open", wport |-> w, gport |-> None,
                                     buf |-> make_buf]]
         /\ wp' = [wp EXCEPT ![w].buf = None, ![w].rps = Append(@, r)]
  /\ UNCHANGED <<wqvars, write_port_list, pg, timed, broken, risk, written>>

\* The first reader takes the ring over; others of a broadcast port get a
\* ring of their own.  ERR_NOT_FOUND and ERR_NOT_ALLOWED change nothing.
port_open(name, r) ==
  /\ FreeReadPort(r)
  /\ Found(name) # 0
  /\ LET w == write_port_list[Found(name)]
     IN  /\ wp[w].buf = None => wp[w].mode # "UNICAST"
         /\ rp' = [rp EXCEPT ![r] = [magic |-> "open", wport |-> w, gport |-> None,
                                     buf |-> IF wp[w].buf # None THEN wp[w].buf
                                                                 ELSE make_buf]]
         /\ wp' = [wp EXCEPT ![w].buf = None, ![w].rps = Append(@, r)]
  /\ UNCHANGED <<wqvars, write_port_list, pg, timed, broken, risk, written>>

\* port_group: ERR_BAD_HANDLE, with everything undone, if a port is in a group.
port_group(g, ports) ==
  /\ FreeGroupAt(g)
  /\ IsInjective(ports)
  /\ \A r \in Range(ports) : Open(r) /\ rp[r].gport = None
  /\ pg' = [pg EXCEPT ![g] = [magic |-> "open", rps |-> ports]]
  /\ rp' = [r \in ReadPorts |-> IF r \in Range(ports) THEN [rp[r] EXCEPT !.gport = g]
                                                      ELSE rp[r]]
  /\ Risk("crowd", \E t \in Threads : frame[t] \in Range(ports))
  /\ UNCHANGED <<wqvars, write_port_list, wp, timed, broken, written>>

\* Mutant: readers of the group are not told that the new port has packets.
port_group_add_silent(g, r) ==
  /\ OpenGroup(g) /\ Open(r) /\ rp[r].gport = None
  /\ pg' = [pg EXCEPT ![g].rps = Append(@, r)]
  /\ rp' = [rp EXCEPT ![r].gport = g]
  /\ Risk("crowd", \/ \E t \in Threads : frame[t] = r
                   \/ LeavesSleeper(g, Len(rp[r].buf.packets)))
  /\ UNCHANGED <<wqvars, write_port_list, wp, timed, broken, written>>

\* A port with packets wakes a reader of the group it joins.
port_group_add(g, r) ==
  /\ OpenGroup(g) /\ Open(r) /\ rp[r].gport = None
  /\ pg' = [pg EXCEPT ![g].rps = Append(@, r)]
  /\ rp' = [rp EXCEPT ![r].gport = g]
  /\ IF buf_is_empty(rp[r].buf) THEN UNCHANGED wqvars
                                ELSE wait_queue_wake_one(g, NO_ERROR)
  /\ Risk("crowd", \/ \E t \in Threads : frame[t] = r
                   \/ LeavesSleeper(g, Len(rp[r].buf.packets)))
  /\ UNCHANGED <<write_port_list, wp, timed, broken, written>>

\* The port leaves the group's list and keeps its gport.  To remove it again
\* finds nothing, and returns with thread_lock held.
port_group_remove(g, r) ==
  /\ OpenGroup(g) /\ Open(r) /\ rp[r].gport = g
  /\ IF r \notin Range(pg[g].rps)
       THEN Break("lock held")
       ELSE /\ pg' = [pg EXCEPT ![g].rps = RemoveFirst(@, r)]
            /\ Risk("remove", TRUE)
            /\ UNCHANGED <<wqvars, write_port_list, wp, rp, timed, broken, written>>

\* The read port that a read of x takes a packet from, if there is one.
Source(x) ==
  LET members == IF x \in Groups THEN pg[x].rps ELSE <<x>>
      first   == SelectInSeq(members, LAMBDA r : ~buf_is_empty(rp[r].buf))
  IN  IF first = 0 THEN None ELSE members[first]

Take(r) == rp' = [rp EXCEPT ![r].buf = buf_read(@)]

\* port_read up to the first wait_queue_block.
port_read(t, x, timeout) ==
  /\ frame[t] = NoQueue
  /\ x \in ReadPorts => Open(x)
  /\ x \in Groups => OpenGroup(x)
  /\ \/ /\ Source(x) # None
        /\ Take(Source(x))
        /\ UNCHANGED <<wqvars, timed, risk>>
     \/ /\ Source(x) = None
        /\ wait_queue_block(t, x, timeout)
        /\ timed' = IF timeout = INFINITE_TIME THEN timed ELSE timed \cup {t}
        /\ Risk("crowd", x \in ReadPorts /\ rp[x].gport # None)
        /\ UNCHANGED rp
  /\ UNCHANGED <<write_port_list, wp, pg, broken, written>>

\* The rest of port_read, and the next wait_queue_block when somebody else
\* took the packet.  It starts with the full timeout again.
port_read_resume(t) ==
  LET x == frame[t]
      freed == \/ x \in ReadPorts /\ rp[x].magic = "free"
               \/ x \in Groups /\ pg[x].magic = "free"
  IN  /\ Woken(t)
      /\ \/ /\ block_ret[t] # NO_ERROR
            /\ wait_queue_return(t)
            /\ timed' = timed \ {t}
            /\ UNCHANGED <<write_port_list, wp, rp, pg, broken, risk, written>>
         \/ /\ block_ret[t] = NO_ERROR /\ freed
            /\ Break("freed port")
         \/ /\ block_ret[t] = NO_ERROR /\ ~freed /\ Source(x) # None
            /\ Take(Source(x))
            /\ wait_queue_return(t)
            /\ timed' = timed \ {t}
            /\ UNCHANGED <<write_port_list, wp, pg, broken, risk, written>>
         \/ /\ block_ret[t] = NO_ERROR /\ ~freed /\ Source(x) = None
            /\ wait_queue_block(t, x, IF t \in timed THEN FINITE_TIME ELSE INFINITE_TIME)
            /\ UNCHANGED pvars

\* The timer fires, in interrupt context.
port_timeout(t) ==
  /\ wait_queue_timeout_handler(t)
  /\ UNCHANGED pvars

\* Mutant: the last reader frees the ring instead of handing it back.
port_close_read_frees_ring(r) ==
  LET w == rp[r].wport
      g == rp[r].gport
  IN  /\ Open(r)
      /\ IF g # None /\ (pg[g].magic = "free" \/ r \notin Range(pg[g].rps))
           THEN Break("cleared node")
           ELSE /\ wp' = IF w = None THEN wp
                         ELSE [wp EXCEPT ![w].rps = RemoveFirst(@, r)]
                /\ pg' = IF g = None THEN pg
                         ELSE [pg EXCEPT ![g].rps = RemoveFirst(@, r)]
                /\ rp' = [rp EXCEPT ![r] = FreeRead]
                /\ wait_queue_destroy(r)
                /\ Risk("close", OnItsWay(r))
                /\ UNCHANGED <<write_port_list, timed, broken, written>>

\* port_close on a read port.
port_close_read(r) ==
  LET w == rp[r].wport
      g == rp[r].gport
      last == w # None /\ wp[w].rps = <<r>>
  IN  /\ Open(r)
      /\ IF g # None /\ (pg[g].magic = "free" \/ r \notin Range(pg[g].rps))
           THEN Break("cleared node")
           ELSE /\ wp' = IF w = None THEN wp
                         ELSE [wp EXCEPT ![w].rps = RemoveFirst(@, r),
                                         ![w].buf = IF last THEN rp[r].buf ELSE @]
                /\ pg' = IF g = None THEN pg
                         ELSE [pg EXCEPT ![g].rps = RemoveFirst(@, r)]
                /\ rp' = [rp EXCEPT ![r] = FreeRead]
                /\ wait_queue_destroy(r)
                /\ Risk("close", OnItsWay(r))
                /\ UNCHANGED <<write_port_list, timed, broken, written>>

\* Mutant: the members keep pointing to the group.
Disband_keeps_gport(g) ==
  /\ pg' = [pg EXCEPT ![g] = FreeGroup]
  /\ UNCHANGED rp

\* The members forget the group and its memory is freed.
Disband(g) ==
  /\ rp' = [r \in ReadPorts |-> IF r \in Range(pg[g].rps) THEN [rp[r] EXCEPT !.gport = None]
                                                          ELSE rp[r]]
  /\ pg' = [pg EXCEPT ![g] = FreeGroup]

\* port_close on a group.  With readers to wake, the caller is rescheduled
\* before the members are told; nobody uses the handle any more.
port_close_group(g) ==
  /\ OpenGroup(g)
  /\ wait_queue_destroy(g)
  /\ IF list[g] = <<>>
       THEN Disband(g)
       ELSE pg' = [pg EXCEPT ![g].magic = "closing"] /\ UNCHANGED rp
  /\ Risk("close", OnItsWay(g))
  /\ UNCHANGED <<write_port_list, wp, timed, broken, written>>

port_close_group_finish(g) ==
  /\ pg[g].magic = "closing"
  /\ Disband(g)
  /\ UNCHANGED <<wqvars, write_port_list, wp, timed, broken, risk, written>>

\* A broken system does nothing any more.
Works == broken = "no"

PortNext ==
  \/ \E name \in Names, mode \in Modes : Works /\ port_create(name, mode)
  \/ \E w \in WritePorts :
       \/ Works /\ port_create_insert(w)
       \/ \E count \in WriteCounts : Works /\ port_write(w, count)
       \/ Works /\ port_close_write(w)
       \/ Works /\ port_destroy(w)
  \/ \E r \in ReadPorts :
       \/ \E name \in Names : Works /\ port_open(name, r)
       \/ Works /\ port_close_read(r)
  \/ \E g \in Groups :
       \/ \E ports \in SeqOf(ReadPorts, 2) : Works /\ port_group(g, ports)
       \/ \E r \in ReadPorts :
            \/ Works /\ port_group_add(g, r)
            \/ Works /\ port_group_remove(g, r)
       \/ Works /\ port_close_group(g)
       \/ Works /\ port_close_group_finish(g)
  \/ \E t \in Threads :
       \/ \E x \in Queues, timeout \in Timeouts : Works /\ port_read(t, x, timeout)
       \/ Works /\ port_read_resume(t)
       \/ Works /\ port_timeout(t)

PortSpec == PortInit /\ [][PortNext]_portvars

(***************************************************************************)
(* Properties.                                                             *)
(***************************************************************************)
(***************************************************************************)
(* The pointers between the three kinds of objects agree with each other:  *)
(* a write port has the ring exactly while it has no read port, a unicast  *)
(* port has one read port at most, and read ports, write ports and groups  *)
(* that know of each other do so both ways and are not freed.  Only        *)
(* port_group_remove leaves a pointer behind.                              *)
(***************************************************************************)
LinksExact ==
  /\ \A w \in WritePorts :
       wp[w].magic # "free" => /\ wp[w].buf = None <=> wp[w].rps # <<>>
                               /\ wp[w].mode = "UNICAST" => Len(wp[w].rps) <= 1
                               /\ IsInjective(wp[w].rps)
  /\ \A r \in ReadPorts, w \in WritePorts :
       rp[r].wport = w <=> r \in Range(wp[w].rps)
  /\ \A r \in ReadPorts, g \in Groups :
       /\ r \in Range(pg[g].rps) => rp[r].gport = g
       /\ rp[r].gport = g => r \in Range(pg[g].rps) \/ risk = "remove"
  /\ \A r \in ReadPorts : rp[r].magic = "open" <=> rp[r].buf # None

(***************************************************************************)
(* The readers of a unicast port, one after the other and with packets     *)
(* left over between them, get every packet that port_write accepted, in   *)
(* order and once: wherever the ring is, it holds the packets from the     *)
(* next one due to the last one written.                                   *)
(***************************************************************************)
UnicastExact ==
  \A w \in WritePorts :
    wp[w].mode = "UNICAST" =>
      LET b == IF wp[w].buf # None THEN wp[w].buf ELSE rp[Head(wp[w].rps)].buf
          n == Len(b.packets)
      IN  /\ b.packets = [i \in 1..n |-> (b.got + i - 1) % Stamps]
          /\ (b.got + n) % Stamps = written[w]

(***************************************************************************)
(* Nobody sleeps on a port or on a group that has packets unless a reader  *)
(* that was woken for them is on its way.  This needs readers that do not  *)
(* upset the count of wake-ups: several packets at a time for several      *)
(* sleepers, a port read both directly and through a group, and a port     *)
(* that was removed from its group, all leave a sleeper behind.            *)
(***************************************************************************)
NoSleeperOnPackets ==
  risk \in {"none", "close"} =>
    \A x \in Queues :
      list[x] # <<>> /\ Source(x) # None => OnItsWay(x)

(***************************************************************************)
(* The code breaks only after one of two kinds of use: a port was removed  *)
(* from a group, or a port or group was closed between the wake-up of a    *)
(* reader and the moment that reader ran.                                  *)
(***************************************************************************)
FaultHasCause == broken # "no" => risk \in {"remove", "close"}
===============================================================================
