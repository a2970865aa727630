------------------------------- MODULE MCPort -------------------------------
(* Instances of Port for TLC. *)
EXTENDS Port, TLC

PortSymmetry ==
  Permutations(Threads) \cup Permutations(WritePorts) \cup Permutations(ReadPorts)

\* What a reader is at.  A reader that was sent away with an error looks at
\* nothing any more, and the timer of a reader that was woken changes nothing
\* when it fires: states that differ in those only are taken for one.
At(t) == CASE frame[t] = NoQueue -> "outside"
           [] Blocked(t) -> <<"asleep", frame[t], t \in timed>>
           [] Woken(t) /\ block_ret[t] = NO_ERROR -> <<"woken", frame[t], t \in timed>>
           [] OTHER -> "leaving"

\* Numbers count relative to the next packet due, and no more once the write
\* port is gone.
Ring(b, attached) ==
  CASE b = None -> <<>>
    [] b # None /\ attached -> [i \in DOMAIN b.packets |->
                                 IF b.packets[i] = Unmarked THEN Unmarked
                                                            ELSE (b.packets[i] - b.got) % Stamps]
    [] OTHER -> Len(b.packets)

Due(w) ==
  LET rings == {wp[w].buf} \cup {rp[r].buf : r \in Range(wp[w].rps)}
  IN  IF wp[w].mode = "UNICAST" THEN {(written[w] - b.got) % Stamps : b \in rings \ {None}}
                                ELSE {}

PortView ==
  <<[t \in Threads |-> At(t)], list, write_port_list, pg, broken, risk,
    [w \in WritePorts |-> <<wp[w].magic, wp[w].name, wp[w].mode, wp[w].rps,
                           Ring(wp[w].buf, TRUE), Due(w)>>],
    [r \in ReadPorts |-> <<rp[r].magic, rp[r].wport, rp[r].gport,
                          Ring(rp[r].buf, rp[r].wport # None)>>]>>
=============================================================================
