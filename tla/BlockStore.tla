------------------------------ MODULE BlockStore ------------------------------
(***************************************************************************)
(* What the block cache promises to a file system: a store of blocks that  *)
(* always reads back what was last written, over a device that lags        *)
(* behind.  Blocks may reach the device at any time and in any order, but  *)
(* never with another content than the current one; after a flush they all *)
(* have, except those whose change has not been declared yet; and when the *)
(* cache is thrown away the device's content is what is left.              *)
(***************************************************************************)
CONSTANTS Blocks, Values, Zero, NoResult

VARIABLES
  store,      \* store[b]: the current content of block b
  disk,       \* disk[b]: its content on the device
  unmarked,   \* the blocks with a change that has not been declared
  got         \* the answer to the last read or flush, NoResult otherwise

bsvars == <<store, disk, unmarked, got>>

StoreInit ==
  /\ disk \in [Blocks -> Values]
  /\ store = disk
  /\ unmarked = {}
  /\ got = NoResult

WriteBack(S) == disk' = [b \in Blocks |-> IF b \in S THEN store[b] ELSE disk[b]]

Read(b)     == got' = <<b, store[b]>> /\ UNCHANGED <<store, unmarked>>
Change(b, v) == /\ store' = [store EXCEPT ![b] = v] /\ unmarked' = unmarked \cup {b}
                /\ got' = NoResult
Declare(b)  == unmarked' = unmarked \ {b} /\ got' = NoResult /\ UNCHANGED store
Clear(b)    == /\ store' = [store EXCEPT ![b] = Zero] /\ unmarked' = unmarked \ {b}
               /\ got' = NoResult
Other       == got' = NoResult /\ UNCHANGED <<store, unmarked>>
Flush(S)    == Blocks \ unmarked \subseteq S /\ got' = <<"flushed">> /\ UNCHANGED <<store, unmarked>>
Discard     == store' = disk /\ unmarked = {} /\ got' = NoResult /\ UNCHANGED <<disk, unmarked>>

StoreNext ==
  \/ \E S \in SUBSET Blocks :
       /\ WriteBack(S)
       /\ \/ \E b \in Blocks : Read(b) \/ Declare(b) \/ Clear(b)
          \/ \E b \in Blocks, v \in Values : Change(b, v)
          \/ Other
          \/ Flush(S)
  \/ Discard

StoreSpec == StoreInit /\ [][StoreNext]_bsvars
===============================================================================
