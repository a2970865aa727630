----------------------------- MODULE BcacheProofs -----------------------------
(***************************************************************************)
(* What TLAPS proves of lib/bcache, for any number of frames, blocks and   *)
(* references, up to the first read of the device that fails: the cache    *)
(* and the device agree, a referenced frame keeps its block, and the cache *)
(* implements the store of module BlockStore.                              *)
(***************************************************************************)
EXTENDS Bcache, ListProofs

BlockInfo == [blocknum : Blocks \cup {NoBlock}, ref_count : Nat, is_dirty : BOOLEAN, ptr : Values]

CacheType ==
  /\ free_list \in Seq(Frames) /\ lru_list \in Seq(Frames)
  /\ block \in [Frames -> BlockInfo]
  /\ disk \in [Blocks -> Values]
  /\ unmarked \subseteq Blocks

(***************************************************************************)
(* The inductive invariant.  A frame may be dropped because it is clean    *)
(* and nobody has a pointer to it.  That takes more than coherence: a      *)
(* change that has not been declared is in a frame that is still           *)
(* referenced, so that no unreferenced clean frame holds one.              *)
(***************************************************************************)
\* Every frame is in one list, once.
Lists ==
  /\ IsInjective(free_list) /\ IsInjective(lru_list)
  /\ Range(free_list) \cap Range(lru_list) = {}
  /\ Range(free_list) \cup Range(lru_list) = Frames

\* Nobody has a pointer into a free frame.
FreeUnreferenced == \A f \in Range(free_list) : block[f].ref_count = 0

\* The frames of the LRU list hold different blocks.
OneFramePerBlock ==
  /\ \A f \in Range(lru_list) : block[f].blocknum \in Blocks
  /\ \A f, g \in Range(lru_list) : block[f].blocknum = block[g].blocknum => f = g

CleanIsOnDisk ==
  \A f \in Range(lru_list) :
    \/ block[f].is_dirty
    \/ block[f].ptr = disk[block[f].blocknum]
    \/ block[f].blocknum \in unmarked

UndeclaredIsHeld ==
  \A b \in unmarked : \E f \in Range(lru_list) : block[f].blocknum = b /\ block[f].ref_count > 0

CacheInv == /\ CacheType /\ Lists /\ FreeUnreferenced /\ OneFramePerBlock
            /\ CleanIsOnDisk /\ UndeclaredIsHeld

Holds(f, b) == f \in Range(lru_list) /\ block[f].blocknum = b

\* What the cache and the device hold together: the store of BlockStore.
Content == [b \in Blocks |-> IF Cached(b) THEN block[find_block(b)].ptr ELSE disk[b]]

(***************************************************************************)
(* find_block finds the frame that holds the block.                        *)
(***************************************************************************)
LEMMA FindBlock ==
  CacheInv => \A b \in Blocks :
                /\ Cached(b) => Holds(find_block(b), b)
                /\ \A f \in Frames : Holds(f, b) => Cached(b) /\ find_block(b) = f
<1> SUFFICES ASSUME CacheInv, NEW b \in Blocks
             PROVE  /\ Cached(b) => Holds(find_block(b), b)
                    /\ \A f \in Frames : Holds(f, b) => Cached(b) /\ find_block(b) = f
  OBVIOUS
<1> DEFINE I == {i \in 1 .. Len(lru_list) : block[lru_list[i]].blocknum = b}
<1>1. Position(b) = IF I # {} THEN Min(I) ELSE 0
  BY DEF Position, SelectInSeq
<1>2. lru_list \in Seq(Frames) /\ Len(lru_list) \in Nat /\ DOMAIN lru_list = 1 .. Len(lru_list)
  BY LenProperties DEF CacheInv, CacheType
<1>3. I # {} => Min(I) \in I
  <2>1. I \subseteq Nat
    BY <1>2
  <2> QED
    BY <2>1, LeastExists
<1>4. ASSUME Cached(b)
      PROVE  Holds(find_block(b), b)
  <2>1. Position(b) \in I
    BY <1>1, <1>3, <1>4 DEF Cached
  <2> QED
    BY <1>2, <2>1 DEF Holds, find_block, Range
<1>5. ASSUME NEW f \in Frames, Holds(f, b)
      PROVE  Cached(b) /\ find_block(b) = f
  <2>1. PICK i \in 1 .. Len(lru_list) : lru_list[i] = f
    BY <1>2, <1>5 DEF Holds, Range
  <2>2. i \in I
    BY <1>5, <2>1 DEF Holds
  <2>3. Cached(b)
    BY <1>1, <1>2, <1>3, <2>2 DEF Cached
  <2> QED
    BY <1>4, <1>5, <2>3 DEF Holds, CacheInv, OneFramePerBlock
<1> QED
  BY <1>4, <1>5

\* The content of a block, from the frames.
LEMMA ContentOf ==
  CacheInv => /\ Content \in [Blocks -> Values]
              /\ \A b \in Blocks, f \in Frames : Holds(f, b) => Content[b] = block[f].ptr
              /\ \A b \in Blocks : (\A f \in Frames : ~Holds(f, b)) => Content[b] = disk[b]
<1> SUFFICES ASSUME CacheInv
             PROVE  /\ Content \in [Blocks -> Values]
                    /\ \A b \in Blocks, f \in Frames : Holds(f, b) => Content[b] = block[f].ptr
                    /\ \A b \in Blocks : (\A f \in Frames : ~Holds(f, b)) => Content[b] = disk[b]
  OBVIOUS
<1>1. \A b \in Blocks : /\ Cached(b) => find_block(b) \in Frames /\ Holds(find_block(b), b)
                        /\ \A f \in Frames : Holds(f, b) => Cached(b) /\ find_block(b) = f
  BY FindBlock, RangeOfSeq DEF Holds, CacheInv, CacheType, Lists
<1>2. \A f \in Frames : block[f].ptr \in Values
  BY DEF CacheInv, CacheType, BlockInfo
<1>3. Content \in [Blocks -> Values]
  BY <1>1, <1>2 DEF Content, CacheInv, CacheType
<1> QED
  BY <1>1, <1>3 DEF Content

LEMMA ContentOfPrimed ==
  ASSUME CacheInv'
  PROVE  /\ Content' \in [Blocks -> Values]
         /\ \A b \in Blocks, f \in Frames : Holds(f, b)' => Content'[b] = block'[f].ptr
         /\ \A b \in Blocks : (\A f \in Frames : ~Holds(f, b)') => Content'[b] = disk'[b]
<1>1. (CacheInv => /\ Content \in [Blocks -> Values]
                   /\ \A b \in Blocks, f \in Frames : Holds(f, b) => Content[b] = block[f].ptr
                   /\ \A b \in Blocks : (\A f \in Frames : ~Holds(f, b)) => Content[b] = disk[b])'
  BY ContentOf, PTL
<1> QED
  BY <1>1

LEMMA FramesOfLru == CacheInv => \A f \in Range(lru_list) : f \in Frames
BY RangeOfSeq DEF CacheInv, CacheType

LEMMA NotCached ==
  ASSUME CacheInv, NEW b \in Blocks, ~Cached(b)
  PROVE  /\ \A f \in Range(lru_list) : block[f].blocknum # b
         /\ b \notin unmarked
<1>1. \A f \in Range(lru_list) : block[f].blocknum # b
  BY FindBlock, FramesOfLru DEF Holds
<1> QED
  BY <1>1 DEF CacheInv, UndeclaredIsHeld

LEMMA FoundFrame ==
  ASSUME CacheInv, NEW b \in Blocks, Cached(b)
  PROVE  /\ find_block(b) \in Frames /\ Holds(find_block(b), b)
         /\ block[find_block(b)] \in BlockInfo /\ block[find_block(b)].blocknum = b
         /\ Content[b] = block[find_block(b)].ptr
<1>1. Holds(find_block(b), b)
  BY FindBlock
<1>2. find_block(b) \in Frames
  BY <1>1, FramesOfLru DEF Holds
<1> QED
  BY <1>1, <1>2, ContentOf DEF Holds, CacheInv, CacheType

-------------------------------------------------------------------------------
(***************************************************************************)
(* What a step must do for the store and for those who have pointers.      *)
(***************************************************************************)
\* Only current contents reach the device.
WrittenBack(S) == disk' = [c \in Blocks |-> IF c \in S THEN Content[c] ELSE disk[c]]

\* Frames that somebody has a pointer into keep their block.
HeldStay == \A f \in Frames : block[f].ref_count > 0 => block'[f].blocknum = block[f].blocknum

LEMMA DiskUnchanged ==
  ASSUME CacheInv, disk' = disk
  PROVE  WrittenBack({})
BY DEF WrittenBack, CacheInv, CacheType

(***************************************************************************)
(* A block in the cache is looked up, and its frame changed.               *)
(***************************************************************************)
\* A frame that is looked up moves to the tail of the list.
LEMMA TouchKeeps ==
  ASSUME CacheInv, NEW f \in Range(lru_list)
  PROVE  Touch(f) \in Seq(Frames) /\ IsInjective(Touch(f)) /\ Range(Touch(f)) = Range(lru_list)
BY MoveToTail DEF Touch, CacheInv, CacheType, Lists

LEMMA CachedChange ==
  ASSUME CacheInv, NEW b \in Blocks, Cached(b),
         NEW r \in BlockInfo, r.blocknum = b,
         lru_list' \in {lru_list, Touch(find_block(b))}, free_list' = free_list,
         block' = [block EXCEPT ![find_block(b)] = r], disk' = disk,
         unmarked' \subseteq unmarked \cup {b}, unmarked \subseteq unmarked' \cup {b},
         b \in unmarked' => r.ref_count > 0,
         r.is_dirty \/ r.ptr = disk[b] \/ b \in unmarked'
  PROVE  /\ CacheInv' /\ HeldStay /\ WrittenBack({})
         /\ Content' = [Content EXCEPT ![b] = r.ptr]
<1> DEFINE f == find_block(b)
<1>0. /\ f \in Frames /\ Holds(f, b)
      /\ lru_list' \in {lru_list, Touch(f)}
      /\ block' = [block EXCEPT ![f] = r]
  BY FoundFrame
<1> HIDE DEF f
<1>1. /\ lru_list' \in Seq(Frames) /\ IsInjective(lru_list')
      /\ Range(lru_list') = Range(lru_list)
  BY <1>0, TouchKeeps DEF Holds, CacheInv, CacheType, Lists
<1>2. \A g \in Frames : block'[g] = IF g = f THEN r ELSE block[g]
  BY <1>0 DEF CacheInv, CacheType
<1>3. f \in Range(lru_list) /\ block[f].blocknum = b
  BY <1>0 DEF Holds
<1>4. \A g \in Frames : block'[g].blocknum = block[g].blocknum
  BY <1>2, <1>3
<1>5. \A g \in Range(lru_list) : g \in Frames
  BY FramesOfLru
<1>6. CacheType'
  BY <1>0, <1>1 DEF CacheInv, CacheType
<1>7. Lists'
  BY <1>1 DEF CacheInv, Lists
<1>8. FreeUnreferenced'
  <2>1. \A g \in Range(free_list) : g \in Frames /\ g # f
    BY <1>3, RangeOfSeq DEF CacheInv, CacheType, Lists
  <2> QED
    BY <1>2, <2>1 DEF CacheInv, FreeUnreferenced
<1>9. OneFramePerBlock'
  BY <1>1, <1>4, <1>5 DEF CacheInv, OneFramePerBlock
<1>10. CleanIsOnDisk'
  <2> SUFFICES ASSUME NEW g \in Range(lru_list)
               PROVE  \/ block'[g].is_dirty
                      \/ block'[g].ptr = disk'[block'[g].blocknum]
                      \/ block'[g].blocknum \in unmarked'
    BY <1>1 DEF CleanIsOnDisk
  <2>1. CASE g = f
    BY <1>2, <1>3, <1>5, <2>1
  <2>2. CASE g # f
    <3>1. block'[g] = block[g] /\ block[g].blocknum # b
      BY <1>2, <1>3, <1>5, <2>2 DEF CacheInv, OneFramePerBlock
    <3> QED
      BY <3>1 DEF CacheInv, CleanIsOnDisk
  <2> QED
    BY <2>1, <2>2
<1>11. UndeclaredIsHeld'
  <2> SUFFICES ASSUME NEW c \in unmarked'
               PROVE  \E g \in Range(lru_list) :
                        block'[g].blocknum = c /\ block'[g].ref_count > 0
    BY <1>1 DEF UndeclaredIsHeld
  <2>1. CASE c = b
    BY <1>0, <1>2, <1>3, <2>1
  <2>2. CASE c # b
    <3>1. PICK g \in Range(lru_list) : block[g].blocknum = c /\ block[g].ref_count > 0
      BY <2>2 DEF CacheInv, UndeclaredIsHeld
    <3>2. block'[g] = block[g]
      BY <1>2, <1>3, <1>5, <2>2, <3>1
    <3> QED
      BY <3>1, <3>2
  <2> QED
    BY <2>1, <2>2
<1>12. CacheInv'
  BY <1>6, <1>7, <1>8, <1>9, <1>10, <1>11 DEF CacheInv
<1>13. Content' = [Content EXCEPT ![b] = r.ptr]
  <2>1. Content \in [Blocks -> Values] /\ Content' \in [Blocks -> Values]
    BY <1>12, ContentOf, ContentOfPrimed
  <2>2. ASSUME NEW c \in Blocks, NEW g \in Frames
        PROVE  Holds(g, c)' <=> Holds(g, c)
    BY <1>1, <1>4 DEF Holds
  <2>3. ASSUME NEW c \in Blocks
        PROVE  Content'[c] = IF c = b THEN r.ptr ELSE Content[c]
    <3>1. CASE c = b
      BY <1>0, <1>2, <1>12, <2>2, <3>1, ContentOfPrimed
    <3>2. CASE c # b /\ \E g \in Frames : Holds(g, c)
      <4>1. PICK g \in Frames : Holds(g, c)
        BY <3>2
      <4>2. g # f
        BY <1>3, <3>2, <4>1 DEF Holds
      <4> QED
        BY <1>2, <1>12, <2>2, <3>2, <4>1, <4>2, ContentOf, ContentOfPrimed
    <3>3. CASE c # b /\ \A g \in Frames : ~Holds(g, c)
      <4>1. Content'[c] = disk'[c]
        BY <1>12, <2>2, <3>3, ContentOfPrimed
      <4>2. Content[c] = disk[c]
        BY <3>3, ContentOf
      <4> QED
        BY <3>3, <4>1, <4>2
    <3> QED
      BY <3>1, <3>2, <3>3
  <2> QED
    BY <2>1, <2>3
<1>14. HeldStay
  BY <1>4 DEF HeldStay
<1> QED
  BY <1>12, <1>13, <1>14, DiskUnchanged

(***************************************************************************)
(* alloc_block: a frame nobody has a pointer into.  What it held, if it    *)
(* held anything, is on the device afterwards.                             *)
(***************************************************************************)
LEMMA VictimIsUnreferenced ==
  ASSUME CacheInv, Victim # 0
  PROVE  lru_list[Victim] \in Range(lru_list) /\ block[lru_list[Victim]].ref_count = 0
<1> DEFINE I == {i \in 1 .. Len(lru_list) : block[lru_list[i]].ref_count = 0}
<1>1. Victim = IF I # {} THEN Min(I) ELSE 0
  BY DEF Victim, SelectInSeq
<1>2. Len(lru_list) \in Nat /\ DOMAIN lru_list = 1 .. Len(lru_list)
  BY LenProperties DEF CacheInv, CacheType
<1>3. I \subseteq Nat
  BY <1>2
<1>4. Victim \in I
  BY <1>1, <1>3, LeastExists
<1> QED
  BY <1>2, <1>4 DEF Range

\* The frame, the lists and the device after alloc_block.
AllocGood(a) ==
  /\ a.frame \in Frames /\ block[a.frame].ref_count = 0
  /\ a.lists.free \in Seq(Frames) /\ IsInjective(a.lists.free)
  /\ a.lists.lru \in Seq(Frames) /\ IsInjective(a.lists.lru)
  /\ Range(a.lists.free) = Range(free_list) \ {a.frame}
  /\ Range(a.lists.lru) = Range(lru_list) \cup {a.frame}
  /\ a.disk \in [Blocks -> Values] /\ a.is_dirty \in BOOLEAN
  /\ \A c \in Blocks : a.disk[c] = IF Holds(a.frame, c) THEN block[a.frame].ptr ELSE disk[c]

LEMMA AllocBlock ==
  ASSUME CacheInv, ~torn, NEW a \in alloc_block
  PROVE  AllocGood(a)
<1>0. /\ free_list \in Seq(Frames) /\ IsInjective(free_list)
      /\ lru_list \in Seq(Frames) /\ IsInjective(lru_list)
      /\ disk \in [Blocks -> Values]
  BY DEF CacheInv, CacheType, Lists
<1>1. CASE free_list # <<>>
  <2> DEFINE h == Head(free_list)
  <2>1. /\ a.frame = h /\ a.disk = disk /\ a.is_dirty = block[h].is_dirty
        /\ a.lists.free = Tail(free_list) /\ a.lists.lru = Append(lru_list, h)
    BY <1>1 DEF alloc_block, FreeFrame, Popped
  <2>2. /\ h \in Frames /\ h \in Range(free_list)
        /\ Tail(free_list) \in Seq(Frames) /\ IsInjective(Tail(free_list))
        /\ Range(Tail(free_list)) = Range(free_list) \ {h}
    BY <1>0, <1>1, TailLemma
  <2> HIDE DEF h
  <2>3. h \notin Range(lru_list) /\ block[h].ref_count = 0 /\ block[h].is_dirty \in BOOLEAN
    BY <2>2 DEF CacheInv, CacheType, BlockInfo, Lists, FreeUnreferenced
  <2>4. /\ Append(lru_list, h) \in Seq(Frames) /\ IsInjective(Append(lru_list, h))
        /\ Range(Append(lru_list, h)) = Range(lru_list) \cup {h}
    BY <1>0, <2>2, <2>3, AppendLemma
  <2> QED
    BY <1>0, <2>1, <2>2, <2>3, <2>4 DEF AllocGood, Holds
<1>2. CASE free_list = <<>>
  <2> DEFINE v == lru_list[Victim]
             d == IF block[v].is_dirty THEN flush_block(v) ELSE disk
  <2>1. /\ Victim # 0 /\ a.frame = v /\ a.disk = d /\ a.is_dirty = FALSE
        /\ a.lists.free = <<>> /\ a.lists.lru = Touch(v)
    BY <1>2 DEF alloc_block, LruFrame, Touched
  <2>2. v \in Range(lru_list) /\ block[v].ref_count = 0
    BY <2>1, VictimIsUnreferenced
  <2> HIDE DEF v
  <2>3. v \in Frames /\ block[v].blocknum \in Blocks /\ block[v].ptr \in Values
    BY <2>2, FramesOfLru DEF CacheInv, CacheType, OneFramePerBlock, BlockInfo
  <2>4. Touch(v) \in Seq(Frames) /\ IsInjective(Touch(v)) /\ Range(Touch(v)) = Range(lru_list)
    BY <2>2, TouchKeeps
  <2>5. d \in [Blocks -> Values]
    BY <1>0, <2>3 DEF flush_block
  <2>6. \A c \in Blocks : d[c] = IF Holds(v, c) THEN block[v].ptr ELSE disk[c]
    <3>1. CASE block[v].is_dirty
      BY <1>0, <2>2, <2>3, <3>1 DEF flush_block, Holds
    <3>2. CASE ~block[v].is_dirty
      <4>1. block[v].blocknum \notin unmarked
        BY <2>2 DEF CacheInv, UndeclaredIsHeld, OneFramePerBlock
      <4>2. block[v].ptr = disk[block[v].blocknum]
        BY <2>2, <3>2, <4>1 DEF CacheInv, CleanIsOnDisk
      <4> QED
        BY <3>2, <4>2 DEF Holds
    <3> QED
      BY <3>1, <3>2
  <2>7. Range(<<>>) = Range(free_list) \ {v} /\ <<>> \in Seq(Frames) /\ IsInjective(<<>>)
    BY <1>2, EmptyList
  <2> HIDE DEF d
  <2> QED
    BY <2>1, <2>2, <2>3, <2>4, <2>5, <2>6, <2>7 DEF AllocGood
<1> QED
  BY <1>1, <1>2

\* A block that is not in the cache gets the frame of alloc_block.
LEMMA FillFrame ==
  ASSUME CacheInv, ~torn, NEW b \in Blocks, ~Cached(b), NEW a \in alloc_block,
         NEW ptr \in Values, NEW ref_count \in Nat, NEW is_dirty \in BOOLEAN,
         Fill(a, b, ptr, ref_count, is_dirty), is_dirty \/ ptr = a.disk[b],
         unmarked' \in {unmarked, unmarked \ {b}}
  PROVE  /\ CacheInv' /\ HeldStay
         /\ a.disk[b] = Content[b]
         /\ Content' = [Content EXCEPT ![b] = ptr]
         /\ \E S \in SUBSET Blocks : WrittenBack(S)
         /\ unmarked' = unmarked
<1> DEFINE f == a.frame
           r == [blocknum |-> b, ref_count |-> ref_count, is_dirty |-> is_dirty, ptr |-> ptr]
<1>1. AllocGood(a)
  BY AllocBlock
<1>2. /\ free_list' = a.lists.free /\ lru_list' = a.lists.lru /\ disk' = a.disk
      /\ block' = [block EXCEPT ![f] = r]
  BY DEF Fill, SetLists
<1>3. /\ \A g \in Range(lru_list) : block[g].blocknum # b
      /\ unmarked' = unmarked /\ b \notin unmarked
  BY NotCached
<1>4. r \in BlockInfo
  BY DEF BlockInfo
<1>5. r.blocknum = b /\ r.ref_count = ref_count /\ r.is_dirty = is_dirty /\ r.ptr = ptr
  OBVIOUS
<1> HIDE DEF f, r
<1>6. /\ f \in Frames /\ block[f].ref_count = 0
      /\ free_list' \in Seq(Frames) /\ IsInjective(free_list')
      /\ lru_list' \in Seq(Frames) /\ IsInjective(lru_list')
      /\ Range(free_list') = Range(free_list) \ {f}
      /\ Range(lru_list') = Range(lru_list) \cup {f}
      /\ disk' \in [Blocks -> Values]
      /\ \A c \in Blocks : disk'[c] = IF Holds(f, c) THEN block[f].ptr ELSE disk[c]
  BY <1>1, <1>2 DEF AllocGood, f
<1>7. \A g \in Frames : block'[g] = IF g = f THEN r ELSE block[g]
  BY <1>2, <1>6 DEF CacheInv, CacheType
<1>8. \A g \in Range(lru_list) : g \in Frames
  BY FramesOfLru
<1>9. CacheType'
  BY <1>2, <1>3, <1>4, <1>6 DEF CacheInv, CacheType
<1>10. Lists'
  BY <1>6 DEF CacheInv, Lists
<1>11. FreeUnreferenced'
  <2>1. \A g \in Range(free_list) : g \in Frames
    BY DEF CacheInv, Lists
  <2> QED
    BY <1>6, <1>7, <2>1 DEF CacheInv, FreeUnreferenced
<1>12. OneFramePerBlock'
  BY <1>3, <1>5, <1>6, <1>7, <1>8 DEF CacheInv, OneFramePerBlock
<1>13. disk'[b] = disk[b] /\ disk'[b] = a.disk[b]
  BY <1>2, <1>3, <1>6 DEF Holds
<1>14. CleanIsOnDisk'
  <2> SUFFICES ASSUME NEW g \in Range(lru_list) \cup {f}
               PROVE  \/ block'[g].is_dirty
                      \/ block'[g].ptr = disk'[block'[g].blocknum]
                      \/ block'[g].blocknum \in unmarked'
    BY <1>6 DEF CleanIsOnDisk
  <2>1. CASE g = f
    BY <1>5, <1>6, <1>7, <1>13, <2>1
  <2>2. CASE g # f
    <3>1. /\ block'[g] = block[g] /\ block[g].blocknum \in Blocks
          /\ ~Holds(f, block[g].blocknum)
      BY <1>7, <1>8, <2>2 DEF Holds, CacheInv, OneFramePerBlock
    <3>2. disk'[block[g].blocknum] = disk[block[g].blocknum]
      BY <1>6, <3>1
    <3> QED
      BY <1>3, <2>2, <3>1, <3>2 DEF CacheInv, CleanIsOnDisk
  <2> QED
    BY <2>1, <2>2
<1>15. UndeclaredIsHeld'
  <2> SUFFICES ASSUME NEW c \in unmarked
               PROVE  \E g \in Range(lru_list') :
                        block'[g].blocknum = c /\ block'[g].ref_count > 0
    BY <1>3 DEF UndeclaredIsHeld
  <2>1. PICK g \in Range(lru_list) : block[g].blocknum = c /\ block[g].ref_count > 0
    BY DEF CacheInv, UndeclaredIsHeld
  <2>2. g # f /\ g \in Range(lru_list') /\ block'[g] = block[g]
    BY <1>6, <1>7, <1>8, <2>1
  <2> QED
    BY <2>1, <2>2
<1>16. CacheInv'
  BY <1>9, <1>10, <1>11, <1>12, <1>14, <1>15 DEF CacheInv
<1>17. HeldStay
  BY <1>6, <1>7 DEF HeldStay
<1>18. Content \in [Blocks -> Values] /\ Content' \in [Blocks -> Values]
  BY <1>16, ContentOf, ContentOfPrimed
<1>19. \A g \in Frames : ~Holds(g, b)
  BY <1>3 DEF Holds
<1>20. a.disk[b] = Content[b]
  BY <1>13, <1>19, ContentOf
<1>21. \A c \in Blocks : disk'[c] = Content[c] \/ disk'[c] = disk[c]
  BY <1>6, ContentOf
<1>22. \E S \in SUBSET Blocks : WrittenBack(S)
  <2> DEFINE S == {c \in Blocks : disk'[c] = Content[c]}
  <2>1. WrittenBack(S)
    BY <1>6, <1>21 DEF WrittenBack
  <2> QED
    BY <2>1
<1>23. ASSUME NEW c \in Blocks
       PROVE  Content'[c] = IF c = b THEN ptr ELSE Content[c]
  <2>1. CASE c = b
    <3>1. Holds(f, b)'
      BY <1>5, <1>6, <1>7 DEF Holds
    <3> QED
      BY <1>5, <1>6, <1>7, <1>16, <2>1, <3>1, ContentOfPrimed
  <2>2. CASE c # b /\ \E g \in Frames : Holds(g, c) /\ g # f
    <3>1. PICK g \in Frames : Holds(g, c) /\ g # f
      BY <2>2
    <3>2. Holds(g, c)' /\ block'[g] = block[g]
      BY <1>6, <1>7, <3>1 DEF Holds
    <3> QED
      BY <1>16, <2>2, <3>1, <3>2, ContentOf, ContentOfPrimed
  <2>3. CASE c # b /\ \A g \in Frames : Holds(g, c) => g = f
    <3>1. \A g \in Frames : ~Holds(g, c)'
      BY <1>5, <1>6, <1>7, <2>3 DEF Holds
    <3>2. Content'[c] = disk'[c]
      BY <1>16, <3>1, ContentOfPrimed
    <3>3. disk'[c] = Content[c]
      BY <1>6, <2>3, ContentOf
    <3> QED
      BY <2>3, <3>2, <3>3
  <2> QED
    BY <2>1, <2>2, <2>3
<1>24. Content' = [Content EXCEPT ![b] = ptr]
  BY <1>18, <1>23
<1> QED
  BY <1>3, <1>16, <1>17, <1>20, <1>22, <1>24

(***************************************************************************)
(* The steps of the store.                                                 *)
(***************************************************************************)
LEMMA StoreOther ==
  ASSUME NEW S \in SUBSET Blocks, WrittenBack(S), Content' = Content, unmarked' = unmarked,
         got' = NoResult
  PROVE  Store!StoreNext
BY DEF Store!StoreNext, Store!WriteBack, Store!Other, WrittenBack, Content

LEMMA StoreRead ==
  ASSUME NEW S \in SUBSET Blocks, WrittenBack(S), Content' = Content, unmarked' = unmarked,
         NEW b \in Blocks, got' = <<b, Content[b]>>
  PROVE  Store!StoreNext
BY DEF Store!StoreNext, Store!WriteBack, Store!Read, WrittenBack, Content

LEMMA StoreDeclare ==
  ASSUME NEW S \in SUBSET Blocks, WrittenBack(S), Content' = Content,
         NEW b \in Blocks, unmarked' = unmarked \ {b}, got' = NoResult
  PROVE  Store!StoreNext
BY DEF Store!StoreNext, Store!WriteBack, Store!Declare, WrittenBack, Content

LEMMA StoreClear ==
  ASSUME NEW S \in SUBSET Blocks, WrittenBack(S), NEW b \in Blocks,
         Content' = [Content EXCEPT ![b] = Zero], unmarked' = unmarked \ {b}, got' = NoResult
  PROVE  Store!StoreNext
BY DEF Store!StoreNext, Store!WriteBack, Store!Clear, WrittenBack, Content

LEMMA StoreChange ==
  ASSUME NEW S \in SUBSET Blocks, WrittenBack(S), NEW b \in Blocks, NEW v \in Values,
         Content' = [Content EXCEPT ![b] = v], unmarked' = unmarked \cup {b}, got' = NoResult
  PROVE  Store!StoreNext
BY DEF Store!StoreNext, Store!WriteBack, Store!Change, WrittenBack, Content

LEMMA StoreFlush ==
  ASSUME NEW S \in SUBSET Blocks, WrittenBack(S), Content' = Content, unmarked' = unmarked,
         Blocks \ unmarked \subseteq S, got' = <<"flushed">>
  PROVE  Store!StoreNext
BY DEF Store!StoreNext, Store!WriteBack, Store!Flush, WrittenBack, Content

StepGood == CacheInv' /\ HeldStay /\ Store!StoreNext

-------------------------------------------------------------------------------
(***************************************************************************)
(* The calls.                                                              *)
(***************************************************************************)
\* A change of the frame that leaves the content alone.
LEMMA ContentStays ==
  ASSUME CacheInv, NEW b \in Blocks, NEW x, x = Content[b]
  PROVE  [Content EXCEPT ![b] = x] = Content
BY ContentOf

\* What is known of the content of a frame, and of a change not declared.
LEMMA FrameState ==
  ASSUME CacheInv, NEW b \in Blocks, Cached(b)
  PROVE  LET r == block[find_block(b)]
         IN  /\ r.is_dirty \/ r.ptr = disk[b] \/ b \in unmarked
             /\ b \in unmarked => r.ref_count > 0
<1>1. find_block(b) \in Range(lru_list) /\ block[find_block(b)].blocknum = b
  BY FoundFrame DEF Holds
<1> QED
  BY <1>1 DEF CacheInv, CleanIsOnDisk, UndeclaredIsHeld, OneFramePerBlock

LEMMA ReadBlockStep ==
  ASSUME CacheInv, ~torn, NEW b \in Blocks, bcache_read_block(b)
  PROVE  StepGood
<1>1. CASE Cached(b)
  <2> DEFINE f == find_block(b)
  <2>1. /\ lru_list' = Touch(f) /\ got' = <<b, block[f].ptr>>
        /\ free_list' = free_list /\ block' = block /\ disk' = disk /\ unmarked' = unmarked
    BY <1>1 DEF bcache_read_block, Touched, SetLists, Missed
  <2>2. /\ f \in Frames /\ block[f] \in BlockInfo /\ block[f].blocknum = b
        /\ Content[b] = block[f].ptr
    BY <1>1, FoundFrame
  <2>3. block' = [block EXCEPT ![f] = block[f]]
    BY <2>1, <2>2 DEF CacheInv, CacheType
  <2>4. /\ block[f].is_dirty \/ block[f].ptr = disk[b] \/ b \in unmarked
        /\ b \in unmarked => block[f].ref_count > 0
    BY <1>1, FrameState
  <2> HIDE DEF f
  <2>5. /\ CacheInv' /\ HeldStay /\ WrittenBack({})
        /\ Content' = [Content EXCEPT ![b] = block[f].ptr]
    BY <1>1, <2>1, <2>2, <2>3, <2>4, CachedChange DEF f
  <2>6. Content' = Content
    BY <2>2, <2>5, ContentStays
  <2> QED
    BY <2>1, <2>2, <2>5, <2>6, StoreRead DEF StepGood
<1>2. CASE ~Cached(b)
  <2>1. PICK a \in alloc_block : Fill(a, b, a.disk[b], 0, a.is_dirty) /\ got' = <<b, a.disk[b]>>
    BY <1>2 DEF bcache_read_block, Touched, SetLists, Missed
  <2>2. a.disk[b] \in Values /\ a.is_dirty \in BOOLEAN /\ unmarked' = unmarked
    BY AllocBlock DEF AllocGood, bcache_read_block
  <2>3. /\ CacheInv' /\ HeldStay /\ a.disk[b] = Content[b]
        /\ Content' = [Content EXCEPT ![b] = a.disk[b]]
        /\ \E S \in SUBSET Blocks : WrittenBack(S)
    BY <1>2, <2>1, <2>2, FillFrame
  <2>4. Content' = Content
    BY <2>3, ContentStays
  <2> QED
    BY <2>1, <2>2, <2>3, <2>4, StoreRead DEF StepGood
<1> QED
  BY <1>1, <1>2

LEMMA GetBlockStep ==
  ASSUME CacheInv, ~torn, NEW b \in Blocks, bcache_get_block(b)
  PROVE  StepGood
<1>0. got' = NoResult /\ unmarked' = unmarked
  BY DEF bcache_get_block, Touched, SetLists, Missed
<1>1. CASE Cached(b)
  <2> DEFINE f == find_block(b)
             r == [block[f] EXCEPT !.ref_count = block[f].ref_count + 1]
  <2>1. /\ lru_list' = Touch(f) /\ free_list' = free_list /\ disk' = disk
        /\ block' = [block EXCEPT ![f] = r]
    BY <1>1 DEF bcache_get_block, Touched, SetLists, Missed
  <2>2. /\ f \in Frames /\ block[f] \in BlockInfo /\ block[f].blocknum = b
        /\ Content[b] = block[f].ptr
    BY <1>1, FoundFrame
  <2>3. /\ r \in BlockInfo /\ r.blocknum = b /\ r.ptr = block[f].ptr
        /\ r.is_dirty = block[f].is_dirty /\ r.ref_count > 0
    BY <2>2 DEF BlockInfo
  <2> HIDE DEF r
  <2>4. r.is_dirty \/ r.ptr = disk[b] \/ b \in unmarked'
    BY <1>0, <1>1, <2>3, FrameState
  <2> HIDE DEF f
  <2>5. /\ CacheInv' /\ HeldStay /\ WrittenBack({})
        /\ Content' = [Content EXCEPT ![b] = r.ptr]
    BY <1>0, <1>1, <2>1, <2>3, <2>4, CachedChange DEF f
  <2>6. Content' = Content
    BY <2>2, <2>3, <2>5, ContentStays
  <2> QED
    BY <1>0, <2>5, <2>6, StoreOther DEF StepGood
<1>2. CASE ~Cached(b)
  <2>1. PICK a \in alloc_block : Fill(a, b, a.disk[b], 1, a.is_dirty)
    BY <1>2 DEF bcache_get_block, Touched, SetLists, Missed
  <2>2. a.disk[b] \in Values /\ a.is_dirty \in BOOLEAN
    BY AllocBlock DEF AllocGood
  <2>3. /\ CacheInv' /\ HeldStay /\ a.disk[b] = Content[b]
        /\ Content' = [Content EXCEPT ![b] = a.disk[b]]
        /\ \E S \in SUBSET Blocks : WrittenBack(S)
    BY <1>0, <1>2, <2>1, <2>2, FillFrame
  <2>4. Content' = Content
    BY <2>3, ContentStays
  <2> QED
    BY <1>0, <2>3, <2>4, StoreOther DEF StepGood
<1> QED
  BY <1>1, <1>2

LEMMA UserWriteStep ==
  ASSUME CacheInv, ~torn, NEW b \in Blocks, NEW v \in Values, user_write(b, v)
  PROVE  StepGood
<1> DEFINE f == find_block(b)
           r == [block[f] EXCEPT !.ptr = v]
<1>1. /\ Cached(b) /\ block[f].ref_count > 0 /\ got' = NoResult
      /\ lru_list' = lru_list /\ free_list' = free_list /\ disk' = disk
      /\ block' = [block EXCEPT ![f] = r] /\ unmarked' = unmarked \cup {b}
  BY DEF user_write, lists
<1>2. f \in Frames /\ block[f] \in BlockInfo /\ block[f].blocknum = b
  BY <1>1, FoundFrame
<1>3. /\ r \in BlockInfo /\ r.blocknum = b /\ r.ptr = v /\ r.ref_count > 0
  BY <1>1, <1>2 DEF BlockInfo
<1> HIDE DEF f, r
<1>4. /\ CacheInv' /\ HeldStay /\ WrittenBack({})
      /\ Content' = [Content EXCEPT ![b] = r.ptr]
  BY <1>1, <1>3, CachedChange DEF f
<1> QED
  BY <1>1, <1>3, <1>4, StoreChange DEF StepGood

\* A block is put back only after its change has been declared.
LEMMA PutBlockStep ==
  ASSUME CacheInv, ~torn, NEW b \in Blocks, bcache_put_block(b)
  PROVE  StepGood
<1> DEFINE f == find_block(b)
           r == [block[f] EXCEPT !.ref_count = block[f].ref_count - 1]
<1>1. /\ Cached(b) /\ block[f].ref_count > 0 /\ b \notin unmarked /\ got' = NoResult
      /\ lru_list' = Touch(f) /\ free_list' = free_list /\ disk' = disk
      /\ block' = [block EXCEPT ![f] = r] /\ unmarked' = unmarked
  BY DEF bcache_put_block, Touched, SetLists, Missed
<1>2. /\ f \in Frames /\ block[f] \in BlockInfo /\ block[f].blocknum = b
      /\ Content[b] = block[f].ptr
  BY <1>1, FoundFrame
<1>3. /\ r \in BlockInfo /\ r.blocknum = b /\ r.ptr = block[f].ptr
      /\ r.is_dirty = block[f].is_dirty
  BY <1>1, <1>2 DEF BlockInfo
<1> HIDE DEF r
<1>4. r.is_dirty \/ r.ptr = disk[b] \/ b \in unmarked'
  BY <1>1, <1>3, FrameState
<1> HIDE DEF f
<1>5. /\ CacheInv' /\ HeldStay /\ WrittenBack({})
      /\ Content' = [Content EXCEPT ![b] = r.ptr]
  BY <1>1, <1>3, <1>4, CachedChange DEF f
<1>6. Content' = Content
  BY <1>2, <1>3, <1>5, ContentStays
<1> QED
  BY <1>1, <1>5, <1>6, StoreOther DEF StepGood

LEMMA MarkDirtyStep ==
  ASSUME CacheInv, ~torn, NEW b \in Blocks, bcache_mark_block_dirty(b)
  PROVE  StepGood
<1> DEFINE f == find_block(b)
           r == [block[f] EXCEPT !.is_dirty = TRUE]
<1>1. /\ Cached(b) /\ got' = NoResult
      /\ lru_list' = Touch(f) /\ free_list' = free_list /\ disk' = disk
      /\ block' = [block EXCEPT ![f] = r] /\ unmarked' = unmarked \ {b}
  BY DEF bcache_mark_block_dirty, Touched, SetLists, Missed
<1>2. /\ f \in Frames /\ block[f] \in BlockInfo /\ block[f].blocknum = b
      /\ Content[b] = block[f].ptr
  BY <1>1, FoundFrame
<1>3. /\ r \in BlockInfo /\ r.blocknum = b /\ r.ptr = block[f].ptr /\ r.is_dirty
  BY <1>2 DEF BlockInfo
<1> HIDE DEF f, r
<1>4. /\ CacheInv' /\ HeldStay /\ WrittenBack({})
      /\ Content' = [Content EXCEPT ![b] = r.ptr]
  BY <1>1, <1>3, CachedChange DEF f
<1>5. Content' = Content
  BY <1>2, <1>3, <1>4, ContentStays
<1> QED
  BY <1>1, <1>4, <1>5, StoreDeclare DEF StepGood

LEMMA ZeroBlockStep ==
  ASSUME CacheInv, ~torn, NEW b \in Blocks, bcache_zero_block(b)
  PROVE  StepGood
<1>0. got' = NoResult /\ unmarked' = unmarked \ {b} /\ Zero \in Values
  BY BcacheAssumption DEF bcache_zero_block
<1>1. CASE Cached(b)
  <2> DEFINE f == find_block(b)
             r == [block[f] EXCEPT !.ptr = Zero, !.is_dirty = TRUE]
  <2>1. f \in Frames /\ block[f] \in BlockInfo /\ block[f].blocknum = b
    BY <1>1, FoundFrame
  <2>2. /\ lru_list' = Touch(f) /\ free_list' = free_list /\ disk' = disk
        /\ block' = [block EXCEPT ![f].ptr = Zero, ![f].is_dirty = TRUE]
    BY <1>1 DEF bcache_zero_block, Touched, SetLists, Missed
  <2>3. block' = [block EXCEPT ![f] = r]
    <3>1. block \in [Frames -> BlockInfo]
      BY DEF CacheInv, CacheType
    <3> HIDE DEF f
    <3> QED
      BY <2>1, <2>2, <3>1
  <2>4. r \in BlockInfo /\ r.blocknum = b /\ r.ptr = Zero /\ r.is_dirty
    BY <1>0, <2>1 DEF BlockInfo
  <2> HIDE DEF f, r
  <2>5. /\ CacheInv' /\ HeldStay /\ WrittenBack({})
        /\ Content' = [Content EXCEPT ![b] = r.ptr]
    BY <1>0, <1>1, <2>2, <2>3, <2>4, CachedChange DEF f
  <2> QED
    BY <1>0, <2>4, <2>5, StoreClear DEF StepGood
<1>2. CASE ~Cached(b)
  <2>1. PICK a \in alloc_block : Fill(a, b, Zero, 0, TRUE)
    BY <1>2 DEF bcache_zero_block, Touched, SetLists, Missed
  <2>2. /\ CacheInv' /\ HeldStay
        /\ Content' = [Content EXCEPT ![b] = Zero]
        /\ \E S \in SUBSET Blocks : WrittenBack(S)
    BY <1>0, <1>2, <2>1, FillFrame
  <2> QED
    BY <1>0, <2>2, StoreClear DEF StepGood
<1> QED
  BY <1>1, <1>2

LEMMA NothingMoved ==
  ASSUME CacheInv, UNCHANGED <<free_list, lru_list, block, disk, unmarked>>
  PROVE  CacheInv' /\ HeldStay /\ Content' = Content
<1>1. CacheInv'
  BY DEF CacheInv, CacheType, Lists, FreeUnreferenced, OneFramePerBlock, CleanIsOnDisk,
         UndeclaredIsHeld
<1>2. HeldStay
  BY DEF HeldStay
<1>3. Content' = Content
  BY DEF Content, Cached, find_block, Position, SelectInSeq
<1> QED
  BY <1>1, <1>2, <1>3

\* Without a frame everything stays as it is; when the read fails the cache
\* is torn, and the frame is one that nobody has a pointer into.
LEMMA FailStep ==
  ASSUME CacheInv, ~torn, NEW b \in Blocks, find_or_fill_block_fails(b)
  PROVE  HeldStay /\ (torn' \/ StepGood)
<1>1. CASE Halt("assert")
  <2>1. UNCHANGED <<free_list, lru_list, block, disk, unmarked>> /\ got' = NoResult
    BY <1>1 DEF Halt, lists
  <2> QED
    BY <2>1, NothingMoved, DiskUnchanged, StoreOther DEF StepGood
<1>2. CASE ~Halt("assert")
  <2>1. PICK a \in alloc_block, ptr \in Values :
          /\ block' = [block EXCEPT ![a.frame] = [blocknum |-> b, ref_count |-> 0,
                                                  is_dirty |-> a.is_dirty, ptr |-> ptr]]
          /\ torn' = TRUE
    BY <1>2 DEF find_or_fill_block_fails
  <2>2. a.frame \in Frames /\ block[a.frame].ref_count = 0
    BY AllocBlock DEF AllocGood
  <2>3. HeldStay
    BY <2>1, <2>2 DEF HeldStay, CacheInv, CacheType
  <2> QED
    BY <2>1, <2>3
<1> QED
  BY <1>1, <1>2

(***************************************************************************)
(* bcache_flush writes dirty frames, in the order of the list and perhaps  *)
(* not all of them; the frames keep what they hold.                        *)
(***************************************************************************)
LEMMA FlushedFrames ==
  ASSUME CacheInv, NEW n \in 0 .. Len(lru_list)
  PROVE  /\ Flushed(n) \subseteq {f \in Range(lru_list) : block[f].is_dirty}
         /\ n = Len(lru_list) => Flushed(n) = {f \in Range(lru_list) : block[f].is_dirty}
<1>1. /\ lru_list \in Seq(Frames) /\ Len(lru_list) \in Nat /\ n \in Nat /\ n <= Len(lru_list)
      /\ DOMAIN lru_list = 1 .. Len(lru_list)
  BY LenProperties DEF CacheInv, CacheType
<1> DEFINE s == SubSeq(lru_list, 1, n)
<1>2. /\ DOMAIN s = 1 .. n
      /\ \A i \in 1 .. n : s[i] = lru_list[i]
  BY <1>1, SMT
<1>3. Range(s) \subseteq Range(lru_list)
  BY <1>1, <1>2 DEF Range
<1>4. n = Len(lru_list) => Range(s) = Range(lru_list)
  BY <1>1, <1>2 DEF Range
<1> QED
  BY <1>3, <1>4 DEF Flushed

LEMMA FlushStep ==
  ASSUME CacheInv, ~torn, bcache_flush
  PROVE  StepGood
<1>1. PICK n \in 0 .. Len(lru_list) :
        /\ disk' = [b \in Blocks |-> IF Cached(b) /\ find_block(b) \in Flushed(n)
                                       THEN block[find_block(b)].ptr ELSE disk[b]]
        /\ block' = [f \in Frames |-> IF f \in Flushed(n)
                                        THEN [block[f] EXCEPT !.is_dirty = FALSE] ELSE block[f]]
        /\ got' = IF n = Len(lru_list) THEN <<"flushed">> ELSE NoResult
  BY DEF bcache_flush, Ends
<1> DEFINE W == Flushed(n)
<1>2. free_list' = free_list /\ lru_list' = lru_list /\ unmarked' = unmarked
  BY DEF bcache_flush, lists
<1>3. /\ W \subseteq Range(lru_list) /\ \A f \in W : block[f].is_dirty
      /\ n = Len(lru_list) => \A f \in Range(lru_list) : block[f].is_dirty => f \in W
  BY FlushedFrames
<1> HIDE DEF W
<1>4. ASSUME NEW f \in Frames
      PROVE  /\ block'[f] \in BlockInfo /\ block'[f].blocknum = block[f].blocknum
             /\ block'[f].ref_count = block[f].ref_count /\ block'[f].ptr = block[f].ptr
             /\ f \notin W => block'[f] = block[f]
  <2>1. block[f] \in BlockInfo
    BY DEF CacheInv, CacheType
  <2>2. block'[f] = IF f \in W THEN [block[f] EXCEPT !.is_dirty = FALSE] ELSE block[f]
    BY <1>1 DEF W
  <2> QED
    BY <2>1, <2>2 DEF BlockInfo
<1>5. \A f \in Range(lru_list) : f \in Frames /\ block[f].blocknum \in Blocks
  BY FramesOfLru DEF CacheInv, OneFramePerBlock
<1>6. ASSUME NEW c \in Blocks, NEW f \in Frames, Holds(f, c)
      PROVE  disk'[c] = IF f \in W THEN block[f].ptr ELSE disk[c]
  <2>1. Cached(c) /\ find_block(c) = f
    BY <1>6, FindBlock
  <2> QED
    BY <1>1, <2>1 DEF W
<1>7. ASSUME NEW c \in Blocks, \A f \in Frames : ~Holds(f, c)
      PROVE  disk'[c] = disk[c]
  <2>1. ~Cached(c)
    BY <1>7, FoundFrame
  <2> QED
    BY <1>1, <2>1
<1>8. disk' \in [Blocks -> Values]
  <2>1. \A c \in Blocks : disk'[c] \in Values
    BY <1>6, <1>7 DEF CacheInv, CacheType, BlockInfo
  <2> QED
    BY <1>1, <2>1
<1>9. CacheType'
  <2>1. block' \in [Frames -> BlockInfo]
    BY <1>1, <1>4
  <2> QED
    BY <1>2, <1>8, <2>1 DEF CacheInv, CacheType
<1>10. Lists'
  BY <1>2 DEF CacheInv, Lists
<1>11. FreeUnreferenced'
  <2>1. \A f \in Range(free_list) : f \in Frames
    BY DEF CacheInv, Lists
  <2> QED
    BY <1>2, <1>4, <2>1 DEF CacheInv, FreeUnreferenced
<1>12. OneFramePerBlock'
  BY <1>2, <1>4, <1>5 DEF CacheInv, OneFramePerBlock
<1>13. CleanIsOnDisk'
  <2> SUFFICES ASSUME NEW f \in Range(lru_list)
               PROVE  \/ block'[f].is_dirty
                      \/ block'[f].ptr = disk'[block'[f].blocknum]
                      \/ block'[f].blocknum \in unmarked'
    BY <1>2 DEF CleanIsOnDisk
  <2>1. f \in Frames /\ block[f].blocknum \in Blocks /\ Holds(f, block[f].blocknum)
    BY <1>5 DEF Holds
  <2>2. CASE f \in W
    BY <1>4, <1>6, <2>1, <2>2
  <2>3. CASE f \notin W
    BY <1>2, <1>4, <1>6, <2>1, <2>3 DEF CacheInv, CleanIsOnDisk
  <2> QED
    BY <2>2, <2>3
<1>14. UndeclaredIsHeld'
  BY <1>2, <1>4, <1>5 DEF CacheInv, UndeclaredIsHeld
<1>15. CacheInv'
  BY <1>9, <1>10, <1>11, <1>12, <1>13, <1>14 DEF CacheInv
<1>16. HeldStay
  BY <1>4 DEF HeldStay
<1>17. ASSUME NEW c \in Blocks, NEW f \in Frames
       PROVE  Holds(f, c)' <=> Holds(f, c)
  BY <1>2, <1>4 DEF Holds
<1>18. ASSUME NEW c \in Blocks
       PROVE  Content'[c] = Content[c] /\ disk'[c] \in {Content[c], disk[c]}
  <2>1. CASE \E f \in Frames : Holds(f, c)
    <3>1. PICK f \in Frames : Holds(f, c)
      BY <2>1
    <3>2. Content[c] = block[f].ptr /\ Content'[c] = block'[f].ptr
      BY <1>15, <1>17, <3>1, ContentOf, ContentOfPrimed
    <3> QED
      BY <1>4, <1>6, <3>1, <3>2
  <2>2. CASE \A f \in Frames : ~Holds(f, c)
    <3>1. Content[c] = disk[c] /\ Content'[c] = disk'[c]
      BY <1>15, <1>17, <2>2, ContentOf, ContentOfPrimed
    <3> QED
      BY <1>7, <2>2, <3>1
  <2> QED
    BY <2>1, <2>2
<1>19. Content' = Content
  <2>1. Content \in [Blocks -> Values] /\ Content' \in [Blocks -> Values]
    BY <1>15, ContentOf, ContentOfPrimed
  <2> QED
    BY <1>18, <2>1
<1> DEFINE S == {c \in Blocks : disk'[c] = Content[c]}
<1>20. WrittenBack(S)
  BY <1>8, <1>18 DEF WrittenBack
<1>21. CASE n = Len(lru_list)
  <2>1. Blocks \ unmarked \subseteq S
    <3> SUFFICES ASSUME NEW c \in Blocks, c \notin unmarked
                 PROVE  disk'[c] = Content[c]
      OBVIOUS
    <3>1. CASE \E f \in Frames : Holds(f, c)
      <4>1. PICK f \in Frames : Holds(f, c)
        BY <3>1
      <4>2. Content[c] = block[f].ptr
        BY <4>1, ContentOf
      <4>3. f \in W \/ block[f].ptr = disk[c]
        BY <1>3, <1>21, <4>1 DEF Holds, CacheInv, CleanIsOnDisk
      <4> QED
        BY <1>6, <4>1, <4>2, <4>3
    <3>2. CASE \A f \in Frames : ~Holds(f, c)
      BY <1>7, <3>2, ContentOf
    <3> QED
      BY <3>1, <3>2
  <2> HIDE DEF S
  <2>2. S \in SUBSET Blocks /\ got' = <<"flushed">>
    BY <1>1, <1>21 DEF S
  <2> QED
    BY <1>2, <1>15, <1>16, <1>19, <1>20, <2>1, <2>2, StoreFlush DEF StepGood
<1>22. CASE n # Len(lru_list)
  <2> HIDE DEF S
  <2>1. S \in SUBSET Blocks /\ got' = NoResult
    BY <1>1, <1>22 DEF S
  <2> QED
    BY <1>2, <1>15, <1>16, <1>19, <1>20, <2>1, StoreOther DEF StepGood
<1> QED
  BY <1>21, <1>22

(***************************************************************************)
(* bcache_create: all frames are free.                                     *)
(***************************************************************************)
LEMMA FreshCache ==
  /\ free_list = AllFrames /\ lru_list = <<>> /\ block = [f \in Frames |-> Empty]
  /\ disk \in [Blocks -> Values] /\ unmarked = {}
  => CacheInv /\ Content = disk
<1> SUFFICES ASSUME free_list = AllFrames, lru_list = <<>>, block = [f \in Frames |-> Empty],
                    disk \in [Blocks -> Values], unmarked = {}
             PROVE  CacheInv /\ Content = disk
  OBVIOUS
<1>1. /\ AllFrames \in Seq(Frames) /\ IsInjective(AllFrames) /\ Range(AllFrames) = Frames
  BY BcacheAssumption, EnumerationLemma DEF AllFrames
<1>2. <<>> \in Seq(Frames) /\ IsInjective(<<>>) /\ Range(<<>>) = {}
  BY EmptyList
<1>3. Empty \in BlockInfo /\ Empty.ref_count = 0
  BY BcacheAssumption DEF Empty, BlockInfo
<1>4. CacheType
  BY <1>1, <1>2, <1>3 DEF CacheType
<1>5. Lists /\ FreeUnreferenced
  BY <1>1, <1>2, <1>3 DEF Lists, FreeUnreferenced
<1>6. CacheInv
  BY <1>2, <1>4, <1>5 DEF CacheInv, OneFramePerBlock, CleanIsOnDisk, UndeclaredIsHeld
<1>7. \A b \in Blocks, f \in Frames : ~Holds(f, b)
  BY <1>2 DEF Holds
<1> QED
  BY <1>6, <1>7, ContentOf

LEMMA DestroyStep ==
  ASSUME CacheInv, bcache_destroy
  PROVE  StepGood
<1>1. /\ free_list' = AllFrames /\ lru_list' = <<>> /\ block' = [f \in Frames |-> Empty]
      /\ disk' = disk /\ unmarked' = unmarked /\ got' = NoResult
      /\ \A f \in Frames : block[f].ref_count = 0
  BY DEF bcache_destroy
<1>2. unmarked = {}
  BY <1>1, FramesOfLru DEF CacheInv, UndeclaredIsHeld
<1>3. disk \in [Blocks -> Values]
  BY DEF CacheInv, CacheType
<1>4. (/\ free_list = AllFrames /\ lru_list = <<>> /\ block = [f \in Frames |-> Empty]
       /\ disk \in [Blocks -> Values] /\ unmarked = {}
       => CacheInv /\ Content = disk)'
  BY FreshCache, PTL
<1>5. CacheInv' /\ Content' = disk
  BY <1>1, <1>2, <1>3, <1>4
<1>6. HeldStay
  BY <1>1 DEF HeldStay
<1>7. Store!StoreNext
  BY <1>1, <1>2, <1>5 DEF Store!StoreNext, Store!Discard, Content
<1> QED
  BY <1>5, <1>6, <1>7 DEF StepGood

-------------------------------------------------------------------------------
LEMMA CacheStep ==
  ASSUME CacheInv, ~torn, Next
  PROVE  HeldStay /\ (torn' \/ StepGood)
<1>1. StepGood => HeldStay
  BY DEF StepGood
<1>2. \A b \in Blocks : ~lost_in_torn_lists(b)
  BY DEF lost_in_torn_lists
<1> QED
  BY <1>1, <1>2, ReadBlockStep, GetBlockStep, PutBlockStep, MarkDirtyStep, ZeroBlockStep,
     FailStep, UserWriteStep, FlushStep, DestroyStep DEF Next

\* A torn cache is not mended.
LEMMA TornStays ==
  ASSUME torn, [Next]_cvars
  PROVE  torn'
BY DEF Next, bcache_read_block, bcache_get_block, bcache_put_block, bcache_mark_block_dirty,
       bcache_zero_block, find_or_fill_block_fails, lost_in_torn_lists, user_write, bcache_flush,
       bcache_destroy, Halt, cvars

LEMMA CacheInit ==
  ASSUME Init
  PROVE  CacheInv /\ Store!StoreInit
<1>1. CacheInv /\ Content = disk
  BY FreshCache DEF Init
<1> QED
  BY <1>1 DEF Init, Store!StoreInit, Content

LEMMA CacheStutter ==
  ASSUME CacheInv, UNCHANGED cvars
  PROVE  CacheInv' /\ UNCHANGED Store!bsvars
<1>1. UNCHANGED <<free_list, lru_list, block, disk, got, unmarked>>
  BY DEF cvars, lists
<1>2. CacheInv' /\ Content' = Content
  BY <1>1, NothingMoved
<1> QED
  BY <1>1, <1>2 DEF Store!bsvars, Content

LEMMA CacheInvariance == Spec => [](torn \/ CacheInv)
<1>1. Init => torn \/ CacheInv
  BY CacheInit
<1>2. (torn \/ CacheInv) /\ [Next]_cvars => (torn \/ CacheInv)'
  BY CacheStep, CacheStutter, TornStays DEF StepGood
<1> QED
  BY <1>1, <1>2, PTL DEF Spec

(***************************************************************************)
(* As long as the device gives what is read from it, the cache and the     *)
(* device agree whatever is read, written, evicted and flushed, and        *)
(* whichever writes fail.                                                  *)
(***************************************************************************)
THEOREM BcacheCoherent == Spec => []CacheCoherent
<1>1. torn \/ CacheInv => CacheCoherent
  <2> SUFFICES ASSUME CacheInv PROVE CacheCoherent
    BY DEF CacheCoherent
  <2>1. IsInjective(free_list \o lru_list)
    BY ConcatInjective DEF CacheInv, CacheType, Lists
  <2>2. ASSUME NEW f \in Range(lru_list)
        PROVE  LET b == block[f].blocknum
               IN  \/ block[f].is_dirty
                   \/ block[f].ptr = disk[b]
                   \/ b \in unmarked /\ block[f].ref_count > 0
    BY DEF CacheInv, CleanIsOnDisk, UndeclaredIsHeld, OneFramePerBlock
  <2> QED
    BY <2>1, <2>2 DEF CacheCoherent, CacheInv, Lists, OneFramePerBlock
<1> QED
  BY <1>1, CacheInvariance, PTL

(***************************************************************************)
(* The pointer that bcache_get_block returned stays good until it is put   *)
(* back: alloc_block never evicts the frame, not even for a read that then *)
(* fails.  (Afterwards the lists are torn and it may.)                     *)
(***************************************************************************)
THEOREM BcacheHeldBlocksStay == Spec => HeldBlocksStay
<1>1. (torn \/ CacheInv) /\ [Next]_cvars
      => [~torn => \A f \in Frames :
            block[f].ref_count > 0 => block'[f].blocknum = block[f].blocknum]_cvars
  BY CacheStep DEF HeldStay
<1> QED
  BY <1>1, CacheInvariance, PTL DEF Spec, HeldBlocksStay

(***************************************************************************)
(* Up to the first read of the device that fails the block cache           *)
(* implements the store of blocks of module BlockStore: a read returns     *)
(* what was written last, only current contents reach the device, and a    *)
(* bcache_flush that succeeds leaves nothing behind.                       *)
(***************************************************************************)
THEOREM BcacheImplementsBlockStore == Spec => ImplementsBlockStore
<1>1. Init => Store!StoreInit
  BY CacheInit
<1>2. (torn \/ CacheInv) /\ [Next]_cvars => [torn' \/ Store!StoreNext]_(Store!bsvars)
  BY CacheStep, CacheStutter, TornStays DEF StepGood
<1> QED
  BY <1>1, <1>2, CacheInvariance, PTL DEF Spec, ImplementsBlockStore
===============================================================================
