-------------------------------- MODULE Bcache --------------------------------
(***************************************************************************)
(* lib/bcache: the block cache of the file systems.  A block that is in    *)
(* the cache occupies a frame of the LRU list; bcache_get_block hands out  *)
(* a pointer into the frame, which must stay until bcache_put_block.  The  *)
(* device, lib/bio, may fail any read or write.                            *)
(*                                                                         *)
(* The cache has no lock, a file system makes one call at a time.  It      *)
(* changes a block only while it has it, says so with                      *)
(* bcache_mark_block_dirty before it puts it back, and puts back only what *)
(* it got.                                                                 *)
(*                                                                         *)
(* A list is the sequence of its entries as long as it is one.  When a     *)
(* read of the device fails the frame is put into the free list while it   *)
(* is still linked into the LRU list: from then on the cache is torn, and  *)
(* the lists are what their next and prev pointers say, each call changing *)
(* the pointers as list.h does.                                            *)
(*                                                                         *)
(* The model stops where the code does (DEBUG_ASSERT), and where a walk    *)
(* along the pointers goes round for ever or takes the head of the other   *)
(* list for a frame.                                                       *)
(***************************************************************************)
EXTENDS Integers, Sequences, SequencesExt, FiniteSets

CONSTANTS Frames,    \* cache->blocks
          Blocks,    \* the block numbers of the device
          Values,    \* what a block may hold
          Zero,      \* a block of zeros
          NoBlock, NoResult,
          MaxRefs    \* bound: pointers to one block that are out at a time

ASSUME BcacheAssumption ==
  /\ Zero \in Values
  /\ NoBlock \notin Blocks
  /\ MaxRefs \in Nat
  /\ IsFiniteSet(Frames)

VARIABLES
  free_list, lru_list,   \* cache->free_list, cache->lru_list: the entries met from the head on
  torn,       \* a read of the device has failed
  links,      \* the next and prev pointers once torn, <<>> before
  block,      \* block[f]: blocknum, ref_count, is_dirty and the content
  disk,       \* disk[b]: what the device holds
  got,        \* the answer to the last read of a block
  unmarked,   \* the blocks changed by their user and not marked dirty yet
  halted      \* how the code stopped, "no" while it did not

lists == <<free_list, lru_list, links>>
cvars == <<lists, torn, block, disk, got, unmarked, halted>>

Empty == [blocknum |-> NoBlock, ref_count |-> 0, is_dirty |-> FALSE, ptr |-> Zero]

\* The order in which bcache_create links the frames, which are all alike.
AllFrames == CHOOSE s \in SetToSeqs(Frames) : TRUE

\* bcache_create; the device holds anything.
Init ==
  /\ free_list = AllFrames
  /\ lru_list = <<>>
  /\ torn = FALSE /\ links = <<>>
  /\ block = [f \in Frames |-> Empty]
  /\ disk \in [Blocks -> Values]
  /\ got = NoResult
  /\ unmarked = {}
  /\ halted = "no"

\* find_block: the first frame of the LRU list that holds block b.
Position(b) == SelectInSeq(lru_list, LAMBDA f : block[f].blocknum = b)
Cached(b) == Position(b) # 0
find_block(b) == lru_list[Position(b)]

(***************************************************************************)
(* list.h, on the pointers of the two heads and of the frames.             *)
(***************************************************************************)
Heads == {"free_list", "lru_list"}

\* The pointers of two lists that are in order.
Ring(x, free, lru) == IF x \in Range(lru) \cup {"lru_list"} THEN <<"lru_list">> \o lru
                                                            ELSE <<"free_list">> \o free
Pointers(free, lru) ==
  LET at(x, k) == LET r == Ring(x, free, lru)
                  IN  r[((SelectInSeq(r, LAMBDA y : y = x) - 1 + k) % Len(r)) + 1]
  IN  [next |-> [x \in Frames \cup Heads |-> at(x, 1)],
       prev |-> [x \in Frames \cup Heads |-> at(x, -1)]]

list_add_tail(l, list, item) ==
  LET last == l.prev[list]
  IN  [next |-> [l.next EXCEPT ![item] = list, ![last] = item],
       prev |-> [l.prev EXCEPT ![item] = last, ![list] = item]]

\* The pointers of item itself are set by the list_add_tail that follows.
list_delete(l, item) ==
  [next |-> [l.next EXCEPT ![l.prev[item]] = l.next[item]],
   prev |-> [l.prev EXCEPT ![l.next[item]] = l.prev[item]]]

\* list_for_every_entry: path[n] is the n-th entry it looks at.  It meets
\* frames until it comes to a head or, going round, to a frame again.
Path(l, list) == LET path[n \in 1 .. Cardinality(Frames) + 1] ==
                       l.next[IF n = 1 THEN list ELSE path[n - 1]]
                 IN  path
Steps(l, list) == CHOOSE n \in 1 .. Cardinality(Frames) + 1 :
                    LET path == Path(l, list)
                    IN  /\ \A i \in 1 .. n - 1 : path[i] \in Frames
                        /\ path[n] \in Heads \cup {path[i] : i \in 1 .. n - 1}
Walk(l, list) == SubSeq(Path(l, list), 1, Steps(l, list) - 1)

\* The walk comes back to the head it started from.
Ends(list) == torn => Path(links, list)[Steps(links, list)] = list

\* The lists as the pointers l make them.
Linked(l) == [free |-> Walk(l, "free_list"), lru |-> Walk(l, "lru_list"), links |-> l]
SetLists(l) == free_list' = l.free /\ lru_list' = l.lru /\ links' = l.links

\* list_delete and list_add_tail to the LRU list.
ToTail(f) == Linked(list_add_tail(list_delete(links, f), "lru_list", f))

\* A frame that is looked up goes to the tail of the list.
Touch(f) == Append(RemoveFirst(lru_list, f), f)
Touched(f) == IF torn THEN ToTail(f)
                      ELSE [free |-> free_list, lru |-> Touch(f), links |-> links]

\* The first frame of the free list goes to the tail of the LRU list.
Popped == IF torn THEN ToTail(Head(free_list))
                  ELSE [free |-> Tail(free_list), lru |-> Append(lru_list, Head(free_list)),
                        links |-> links]

(***************************************************************************)
(* alloc_block: a free frame or else the first of the LRU list that is not *)
(* referenced, written back if it is dirty.                                *)
(***************************************************************************)
Victim == SelectInSeq(lru_list, LAMBDA f : block[f].ref_count = 0)

\* flush_block when the write succeeds.
flush_block(f) == [disk EXCEPT ![block[f].blocknum] = block[f].ptr]

FreeFrame == [frame |-> Head(free_list), lists |-> Popped, disk |-> disk,
              is_dirty |-> block[Head(free_list)].is_dirty]
LruFrame(f, d) == [frame |-> f, lists |-> Touched(f), disk |-> d, is_dirty |-> FALSE]

\* Mutant: the victim is not written back.
alloc_block_loses_dirty ==
  IF free_list # <<>>
    THEN {FreeFrame}
    ELSE {LruFrame(lru_list[i], disk) : i \in {Victim} \ {0}}

\* Mutant: the head of the LRU list is taken whether it is referenced or not.
alloc_block_takes_referenced ==
  IF free_list # <<>>
    THEN {FreeFrame}
    ELSE {LruFrame(lru_list[i], IF block[lru_list[i]].is_dirty THEN flush_block(lru_list[i])
                                                               ELSE disk) : i \in {1}}

\* The ways in which it succeeds: at most one.
alloc_block ==
  IF free_list # <<>>
    THEN {FreeFrame}
    ELSE {LruFrame(lru_list[i], IF block[lru_list[i]].is_dirty THEN flush_block(lru_list[i])
                                                               ELSE disk) :
            i \in {j \in {Victim} \ {0} : Ends("free_list")}}

\* It fails when all frames are referenced or the victim cannot be written.
alloc_block_fails ==
  /\ free_list = <<>> /\ Ends("free_list")
  /\ Victim # 0 => block[lru_list[Victim]].is_dirty

\* A frame that alloc_block returned is filled for block b.
Fill(a, b, ptr, ref_count, is_dirty) ==
  /\ SetLists(a.lists)
  /\ disk' = a.disk
  /\ block' = [block EXCEPT ![a.frame] = [blocknum |-> b, ref_count |-> ref_count,
                                          is_dirty |-> is_dirty, ptr |-> ptr]]

Halt(how) ==
  /\ halted' = how
  /\ got' = NoResult
  /\ UNCHANGED <<lists, torn, block, disk, unmarked>>

\* find_block comes to the end of the list without having met block b.
Missed(b) == ~Cached(b) /\ Ends("lru_list")

(***************************************************************************)
(* find_or_fill_block for bcache_read_block and bcache_get_block, when it  *)
(* does not return a frame: there is none for block b, or the device does  *)
(* not give the block (but may have changed the frame), and the frame is   *)
(* put into the free list as it is.                                        *)
(***************************************************************************)
find_or_fill_block_fails(b) ==
  /\ halted = "no"
  /\ Missed(b)
  /\ \/ alloc_block_fails /\ Halt("assert")
     \/ \E a \in alloc_block, ptr \in Values :
          LET l == IF torn THEN a.lists.links ELSE Pointers(a.lists.free, a.lists.lru)
          IN  /\ SetLists(Linked(list_add_tail(l, "free_list", a.frame)))
              /\ torn' = TRUE
              /\ block' = [block EXCEPT ![a.frame] = [blocknum |-> b, ref_count |-> 0,
                                                      is_dirty |-> a.is_dirty, ptr |-> ptr]]
              /\ disk' = a.disk
              /\ got' = NoResult
              /\ UNCHANGED <<unmarked, halted>>

\* Somebody got block b and has not put it back.
Held(b) == \E f \in Frames : block[f].blocknum = b /\ block[f].ref_count > 0

\* A call for block b goes astray in a torn cache: it does not find the end
\* of a list, or a block that is put back is not found where it was.
lost_in_torn_lists(b) ==
  /\ halted = "no" /\ torn
  /\ IF Cached(b) THEN Held(b) /\ block[find_block(b)].ref_count = 0
                  ELSE Ends("lru_list") => Held(b) \/ (free_list = <<>> /\ ~Ends("free_list"))
  /\ Halt("lost")

(***************************************************************************)
(* The calls.                                                              *)
(***************************************************************************)
bcache_read_block(b) ==
  /\ halted = "no"
  /\ \/ /\ Cached(b)
        /\ SetLists(Touched(find_block(b)))
        /\ got' = <<b, block[find_block(b)].ptr>>
        /\ UNCHANGED <<block, disk>>
     \/ /\ Missed(b)
        /\ \E a \in alloc_block :
             /\ Fill(a, b, a.disk[b], 0, a.is_dirty)
             /\ got' = <<b, a.disk[b]>>
  /\ UNCHANGED <<torn, unmarked, halted>>

bcache_get_block(b) ==
  /\ halted = "no"
  /\ \/ /\ Cached(b)
        /\ block[find_block(b)].ref_count < MaxRefs
        /\ SetLists(Touched(find_block(b)))
        /\ block' = [block EXCEPT ![find_block(b)].ref_count = @ + 1]
        /\ UNCHANGED disk
     \/ /\ Missed(b)
        /\ \E a \in alloc_block : Fill(a, b, a.disk[b], 1, a.is_dirty)
  /\ got' = NoResult
  /\ UNCHANGED <<torn, unmarked, halted>>

\* The user of a block changes it through the pointer it got.
user_write(b, v) ==
  /\ halted = "no"
  /\ Cached(b) /\ block[find_block(b)].ref_count > 0
  /\ block' = [block EXCEPT ![find_block(b)].ptr = v]
  /\ unmarked' = unmarked \cup {b}
  /\ got' = NoResult
  /\ UNCHANGED <<lists, torn, disk, halted>>

bcache_put_block(b) ==
  /\ halted = "no"
  /\ Cached(b) /\ block[find_block(b)].ref_count > 0
  /\ b \notin unmarked
  /\ SetLists(Touched(find_block(b)))
  /\ block' = [block EXCEPT ![find_block(b)].ref_count = @ - 1]
  /\ got' = NoResult
  /\ UNCHANGED <<torn, disk, unmarked, halted>>

\* Returns -1 and does nothing if the block is not in the cache.
bcache_mark_block_dirty(b) ==
  /\ halted = "no"
  /\ Cached(b)
  /\ SetLists(Touched(find_block(b)))
  /\ block' = [block EXCEPT ![find_block(b)].is_dirty = TRUE]
  /\ unmarked' = unmarked \ {b}
  /\ got' = NoResult
  /\ UNCHANGED <<torn, disk, halted>>

\* Mutant: a block that is in the cache is not marked dirty.
bcache_zero_block_clean(b) ==
  /\ halted = "no"
  /\ \/ /\ Cached(b)
        /\ SetLists(Touched(find_block(b)))
        /\ block' = [block EXCEPT ![find_block(b)].ptr = Zero]
        /\ UNCHANGED disk
     \/ /\ Missed(b)
        /\ \E a \in alloc_block : Fill(a, b, Zero, 0, TRUE)
  /\ unmarked' = unmarked \ {b}
  /\ got' = NoResult
  /\ UNCHANGED <<torn, halted>>

\* The block is not read from the device.  Without a frame, -1.
bcache_zero_block(b) ==
  /\ halted = "no"
  /\ \/ /\ Cached(b)
        /\ SetLists(Touched(find_block(b)))
        /\ block' = [block EXCEPT ![find_block(b)].ptr = Zero, ![find_block(b)].is_dirty = TRUE]
        /\ UNCHANGED disk
     \/ /\ Missed(b)
        /\ \E a \in alloc_block : Fill(a, b, Zero, 0, TRUE)
  /\ unmarked' = unmarked \ {b}
  /\ got' = NoResult
  /\ UNCHANGED <<torn, halted>>

\* The frames that bcache_flush writes when it stops after the n-th entry.
Flushed(n) == {f \in Range(SubSeq(lru_list, 1, n)) : block[f].is_dirty}

\* Dirty blocks are written in the order of the list until a write fails.
bcache_flush ==
  /\ halted = "no"
  /\ \E n \in 0..Len(lru_list) :
       /\ n < Len(lru_list) => block[lru_list[n + 1]].is_dirty   \* this write fails
       /\ disk' = [b \in Blocks |-> IF Cached(b) /\ find_block(b) \in Flushed(n)
                                      THEN block[find_block(b)].ptr ELSE disk[b]]
       /\ block' = [f \in Frames |-> IF f \in Flushed(n) THEN [block[f] EXCEPT !.is_dirty = FALSE]
                                                         ELSE block[f]]
       /\ got' = IF n = Len(lru_list) /\ Ends("lru_list") THEN <<"flushed">> ELSE NoResult
       /\ halted' = IF n = Len(lru_list) /\ ~Ends("lru_list") THEN "lost" ELSE "no"
  /\ UNCHANGED <<lists, torn, unmarked>>

\* bcache_destroy, which drops dirty blocks with a warning, and a new
\* bcache_create on the same device.  After a torn cache, that is Init.
bcache_destroy ==
  /\ halted = "no" /\ ~torn
  /\ \A f \in Frames : block[f].ref_count = 0
  /\ free_list' = AllFrames
  /\ lru_list' = <<>>
  /\ block' = [f \in Frames |-> Empty]
  /\ got' = NoResult
  /\ UNCHANGED <<torn, links, disk, unmarked, halted>>

Next ==
  \/ \E b \in Blocks :
       \/ bcache_read_block(b)
       \/ bcache_get_block(b)
       \/ bcache_put_block(b)
       \/ bcache_mark_block_dirty(b)
       \/ bcache_zero_block(b)
       \/ find_or_fill_block_fails(b)
       \/ lost_in_torn_lists(b)
       \/ \E v \in Values : user_write(b, v)
  \/ bcache_flush
  \/ bcache_destroy

Spec == Init /\ [][Next]_cvars

(***************************************************************************)
(* Properties.                                                             *)
(***************************************************************************)
(***************************************************************************)
(* As long as no read of the device has failed the cache and the device    *)
(* agree: every frame is in one of the two lists, no block is in two       *)
(* frames, a block that differs from the device is dirty (or its change    *)
(* has not been declared yet, and then it is referenced).  alloc_block     *)
(* drops clean frames on the strength of it.                               *)
(***************************************************************************)
CacheCoherent ==
  ~torn =>
    /\ IsInjective(free_list \o lru_list)
    /\ Range(free_list) \cup Range(lru_list) = Frames
    /\ \A f, g \in Range(lru_list) : block[f].blocknum = block[g].blocknum => f = g
    /\ \A f \in Range(lru_list) :
         LET b == block[f].blocknum
         IN  \/ block[f].is_dirty
             \/ block[f].ptr = disk[b]
             \/ b \in unmarked /\ block[f].ref_count > 0

(***************************************************************************)
(* The pointer that bcache_get_block returned stays good: while a block is *)
(* referenced its frame is not given to another block, neither by a call   *)
(* that succeeds nor by the first one whose read of the device fails.      *)
(***************************************************************************)
HeldBlocksStay ==
  [][~torn => \A f \in Frames :
       block[f].ref_count > 0 => block'[f].blocknum = block[f].blocknum]_cvars

(***************************************************************************)
(* Up to the first read of the device that fails the cache implements the  *)
(* store of blocks, with eviction, write-back and failing writes going on  *)
(* underneath: what was written last is read, a flush that succeeds leaves *)
(* nothing behind, and only bcache_destroy forgets.                        *)
(***************************************************************************)
Store == INSTANCE BlockStore WITH
           store <- [b \in Blocks |-> IF Cached(b) THEN block[find_block(b)].ptr ELSE disk[b]]

ImplementsBlockStore == Store!StoreInit /\ [][torn' \/ Store!StoreNext]_(Store!bsvars)
===============================================================================
