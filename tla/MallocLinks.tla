---------------------------- MODULE MallocLinks ----------------------------
(***************************************************************************)
(* What each step of Malloc does to the links: the words of the headers    *)
(* that name neighbours and form the free list.  MallocProofs puts these   *)
(* lemmas together with the proofs about the heap in FirstFitProofs.       *)
(*                                                                         *)
(* Each lemma on a step has the same plan: name the words that the step    *)
(* reads, say word by word what it writes, and then show that the four     *)
(* neighbour links are exact again, that the free list is in order again,  *)
(* and that last_alloc_block is.                                           *)
(***************************************************************************)
EXTENDS Malloc, TLAPS

(* The shape of the heap, as FirstFitProofs has it. *)
HeapInv == Tiling /\ Coalesced /\ HeldUsable

(* NeighbourLinks, link by link and without sets. *)
BackAllocExact == \A b, v \in Blocks :
  (back_alloc[b] = v) <=> (v \in AllocBlocks /\ End(v) = b)
FwdAllocExact == \A b, v \in Blocks :
  (fwd_alloc[b] = v) <=> (v \in AllocBlocks /\ End(b) = v)
BackFreeExact == \A b, v \in Blocks : b \in AllocBlocks =>
  ((back_free[b] = v) <=> (v \in FreeBlocks /\ End(v) = b))
FwdFreeExact == \A b, v \in Blocks : b \in AllocBlocks =>
  ((fwd_free[b] = v) <=> (v \in FreeBlocks /\ End(b) = v))

Links == BackAllocExact /\ FwdAllocExact /\ BackFreeExact /\ FwdFreeExact

(* FreeListSorted, in the same way. *)
HeadFirst ==
  /\ free_block_list = NULL => \A c : c \notin Listed
  /\ free_block_list # NULL =>
       free_block_list \in Listed /\ \A c \in Listed : free_block_list <= c
NextListed ==
  /\ \A b \in Listed : fwd_free[b] = NULL => \A c \in Listed : c <= b
  /\ \A b \in Listed : \A v : fwd_free[b] = v /\ v # NULL =>
       v \in Listed /\ b < v /\ \A c \in Listed : c <= b \/ v <= c
PrevListed ==
  /\ \A b \in Listed : back_free[b] = NULL => \A c \in Listed : b <= c
  /\ \A b \in Listed : \A v : back_free[b] = v /\ v # NULL =>
       v \in Listed /\ v < b /\ \A c \in Listed : c <= v \/ b <= c

Sorted == HeadFirst /\ NextListed /\ PrevListed

(* A loop that is not running keeps no pointer, so none can be left dangling. *)
LocalsReset ==
  /\ pc \in {"idle", "walk"} => search_ptr = NULL /\ trailing_search_ptr = NULL
  /\ pc \in {"idle", "search"} =>
       header = NULL /\ cursor = NULL /\ prev_free_block_cursor = NULL

(***************************************************************************)
(* The inductive invariant: the invariants of the runs, with the shape of  *)
(* the heap and the reset of the locals.  None of them is inductive alone: *)
(* a merge reads the links beside a block, the insertion in the list       *)
(* trusts the walk, the walk trusts the links, and all of them compute     *)
(* addresses that mean something only on a tiled heap.                     *)
(***************************************************************************)
IInv ==
  /\ TypeOK /\ HeapInv /\ Links /\ Sorted /\ LastAllocExact
  /\ SearchInv /\ WalkInv /\ LocalsReset

(* The link-by-link form says what NeighbourLinks says. *)
LEMMA LinksMeaning == TypeOK => (Links <=> NeighbourLinks)
<1> SUFFICES ASSUME TypeOK
             PROVE  Links <=> NeighbourLinks
  OBVIOUS
<1>1. /\ \A b \in Blocks : b # NULL
      /\ \A b \in AllocBlocks : b \in Blocks
      /\ \A b \in FreeBlocks : b \in Blocks
      /\ \A b \in Blocks :
           /\ back_alloc[b] \in Blocks \cup {NULL}
           /\ fwd_alloc[b] \in Blocks \cup {NULL}
           /\ back_free[b] \in Blocks \cup {NULL}
           /\ fwd_free[b] \in Blocks \cup {NULL}
  BY DEF TypeOK, AllocBlocks, FreeBlocks
<1>2. ASSUME Links
      PROVE  NeighbourLinks
  <2>1. ASSUME NEW b \in Blocks
        PROVE  /\ Only(back_alloc[b], {a \in AllocBlocks : End(a) = b})
               /\ Only(fwd_alloc[b], {a \in AllocBlocks : End(b) = a})
    BY <1>1, <1>2
       DEF Links, BackAllocExact, FwdAllocExact, BackFreeExact, FwdFreeExact,
           Only
  <2>2. ASSUME NEW a \in AllocBlocks
        PROVE  /\ Only(back_free[a], {b \in FreeBlocks : End(b) = a})
               /\ Only(fwd_free[a], {b \in FreeBlocks : End(a) = b})
    BY <1>1, <1>2
       DEF Links, BackAllocExact, FwdAllocExact, BackFreeExact, FwdFreeExact,
           Only
  <2> QED
    BY <2>1, <2>2 DEF NeighbourLinks
<1>3. ASSUME NeighbourLinks
      PROVE  Links
  BY <1>1, <1>3
     DEF NeighbourLinks, Links, BackAllocExact, FwdAllocExact, BackFreeExact,
         FwdFreeExact, Only
<1> QED
  BY <1>2, <1>3

(* The link-by-link form says what FreeListSorted says. *)
LEMMA SortedMeaning == TypeOK => (Sorted <=> FreeListSorted)
<1> SUFFICES ASSUME TypeOK
             PROVE  Sorted <=> FreeListSorted
  OBVIOUS
<1>1. /\ \A b \in Blocks : b # NULL /\ b \in Nat
      /\ \A b \in Listed : b \in Blocks
      /\ \A b \in Blocks :
           /\ back_free[b] \in Blocks \cup {NULL}
           /\ fwd_free[b] \in Blocks \cup {NULL}
  BY DEF TypeOK, FreeBlocks, Listed
<1>2. ASSUME Sorted
      PROVE  FreeListSorted
  BY <1>1, <1>2
     DEF Sorted, HeadFirst, NextListed, PrevListed, FreeListSorted, FirstOf,
         LastOf
<1>3. ASSUME FreeListSorted
      PROVE  Sorted
  BY <1>1, <1>3
     DEF Sorted, HeadFirst, NextListed, PrevListed, FreeListSorted, FirstOf,
         LastOf
<1> QED
  BY <1>2, <1>3

(* The sum that __malloc computes is exact. *)
LEMMA RealSize ==
  NoOverflow => \A size \in Sizes : size \in Nat /\ real_size(size) = HeaderSize + size
BY SizesAssumption, HeaderAssumption
   DEF NoOverflow, real_size, ALLOC_BLOCK_HEADER_SZ

(* Blocks are numbers, none is empty, and no two overlap. *)
LEMMA BlockFacts ==
  TypeOK /\ Tiling =>
    /\ HeaderSize \in Nat /\ HeaderSize > 0
    /\ NULL = 0
    /\ heap_start \in Nat /\ heap_start > 0
    /\ program_break \in Nat /\ program_break > 0
    /\ \A b \in Blocks : /\ b \in Nat /\ b > 0 /\ b # NULL
                         /\ length[b] \in Nat
                         /\ End(b) \in Nat /\ b < End(b)
                         /\ End(b) = b + HeaderSize + length[b]
                         /\ Body(b) = b + HeaderSize
                         /\ End(b) <= program_break
                         /\ b < program_break
                         /\ heap_start <= b
    /\ program_break \notin Blocks
    /\ NULL \notin Blocks
    /\ \A b, c \in Blocks : b < c => End(b) <= c
    /\ \A b, c \in Blocks : End(b) = End(c) => b = c
<1> SUFFICES ASSUME TypeOK, Tiling
             PROVE  /\ HeaderSize \in Nat /\ HeaderSize > 0
                    /\ NULL = 0
                    /\ heap_start \in Nat /\ heap_start > 0
                    /\ program_break \in Nat
                    /\ \A b \in Blocks : b \in Nat /\ b > 0 /\ length[b] \in Nat
  BY DEF Tiling, End, Body, ALLOC_BLOCK_HEADER_SZ
<1> QED
  BY HeaderAssumption, HeapStartsAssumption DEF TypeOK, NULL

(* Every word of a header names a block, or is NULL. *)
LEMMA LinkFacts ==
  TypeOK =>
    /\ \A b \in Blocks :
         /\ back_free[b] \in Blocks \/ back_free[b] = NULL
         /\ fwd_free[b] \in Blocks \/ fwd_free[b] = NULL
         /\ back_alloc[b] \in Blocks \/ back_alloc[b] = NULL
         /\ fwd_alloc[b] \in Blocks \/ fwd_alloc[b] = NULL
    /\ DOMAIN back_free = Blocks /\ DOMAIN fwd_free = Blocks
    /\ DOMAIN back_alloc = Blocks /\ DOMAIN fwd_alloc = Blocks
    /\ DOMAIN length = Blocks
    /\ free_block_list \in Blocks \/ free_block_list = NULL
    /\ last_alloc_block \in Blocks \/ last_alloc_block = NULL
BY DEF TypeOK

(* A block is allocated or free; a block not listed yet is free. *)
LEMMA Kinds ==
  /\ \A b : b \in Blocks <=> (b \in AllocBlocks \/ b \in FreeBlocks)
  /\ \A b : b \in AllocBlocks => b \notin FreeBlocks
  /\ pc # "walk" => Listed = FreeBlocks
  /\ \A b \in Listed : b \in FreeBlocks
BY DEF AllocBlocks, FreeBlocks, Listed

-----------------------------------------------------------------------------
(* What a step has to establish about the links again. *)
LinkTypes ==
  LET Link == [Blocks -> Blocks \cup {NULL}]
  IN  /\ back_free \in Link /\ fwd_free \in Link
      /\ back_alloc \in Link /\ fwd_alloc \in Link

Structure == LinkTypes /\ Links /\ Sorted /\ LastAllocExact

(* The last allocated block ends the heap if the last block is allocated. *)
LEMMA LastBlock ==
  TypeOK /\ Tiling /\ LastAllocExact
  /\ (\A b \in FreeBlocks : End(b) # program_break)
    => /\ last_alloc_block = NULL => Blocks = {}
       /\ last_alloc_block # NULL =>
            last_alloc_block \in AllocBlocks /\ End(last_alloc_block) = program_break
<1> SUFFICES ASSUME TypeOK, Tiling, LastAllocExact,
                    \A b \in FreeBlocks : End(b) # program_break
             PROVE  /\ last_alloc_block = NULL => Blocks = {}
                    /\ last_alloc_block # NULL =>
                         /\ last_alloc_block \in AllocBlocks
                         /\ End(last_alloc_block) = program_break
  OBVIOUS
<1>1. Blocks # {} => \E c \in AllocBlocks : End(c) = program_break
  BY BlockFacts, Kinds DEF Tiling
<1>2. CASE last_alloc_block = NULL
  BY <1>1, <1>2 DEF LastAllocExact, LastOf
<1>3. CASE last_alloc_block # NULL
  <2>1. last_alloc_block \in AllocBlocks /\ \A x \in AllocBlocks : x <= last_alloc_block
    BY <1>3 DEF LastAllocExact, LastOf
  <2>2. PICK c \in AllocBlocks : End(c) = program_break
    BY <1>1, <2>1, Kinds
  <2>3. c = last_alloc_block
    BY <2>1, <2>2, BlockFacts, Kinds
  <2> QED
    BY <2>1, <2>2, <2>3, <1>3
<1> QED
  BY <1>2, <1>3

-----------------------------------------------------------------------------
(***************************************************************************)
(* The three updates of the free list.  The lemmas are about the words of  *)
(* the listed blocks alone, whatever else a step changes.                  *)
(***************************************************************************)
(* b leaves the list: its two neighbours in the list are linked. *)
LEMMA ListRemove ==
  ASSUME TypeOK, Sorted, NEW b \in Listed,
         \A c : c \in Listed' <=> (c \in Listed /\ c # b),
         \A c \in Listed' :
           /\ back_free'[c] = IF c = fwd_free[b] THEN back_free[b] ELSE back_free[c]
           /\ fwd_free'[c] = IF c = back_free[b] THEN fwd_free[b] ELSE fwd_free[c],
         free_block_list' = IF back_free[b] # NULL THEN free_block_list
                            ELSE fwd_free[b]
  PROVE  Sorted'
<1>1. \A c \in Listed : c \in Nat /\ c # NULL
  BY DEF TypeOK, Listed, FreeBlocks
<1>2. PICK prev, nxt : prev = back_free[b] /\ nxt = fwd_free[b]
  OBVIOUS
<1>3. /\ prev = NULL => \A c \in Listed : b <= c
      /\ prev # NULL => prev \in Listed /\ prev < b
                        /\ \A c \in Listed : c <= prev \/ b <= c
      /\ nxt = NULL => \A c \in Listed : c <= b
      /\ nxt # NULL => nxt \in Listed /\ b < nxt
                       /\ \A c \in Listed : c <= b \/ nxt <= c
  BY <1>2 DEF Sorted, PrevListed, NextListed
<1>4. HeadFirst'
  <2>1. free_block_list = b => prev = NULL
    BY <1>1, <1>3 DEF Sorted, HeadFirst
  <2>2. prev = NULL => free_block_list = b
    BY <1>1, <1>3 DEF Sorted, HeadFirst
  <2> QED
    BY <1>1, <1>2, <1>3, <2>1, <2>2 DEF Sorted, HeadFirst, NULL
<1>5. NextListed'
  <2>1. ASSUME NEW c \in Listed', fwd_free'[c] = NULL, NEW d \in Listed'
        PROVE  d <= c
    <3>1. CASE c = prev
      BY <3>1, <2>1, <1>1, <1>2, <1>3
    <3>2. CASE c # prev
      BY <3>2, <2>1, <1>2 DEF Sorted, NextListed
    <3> QED
      BY <3>1, <3>2
  <2>2. ASSUME NEW c \in Listed', NEW v, fwd_free'[c] = v, v # NULL
        PROVE  v \in Listed' /\ c < v /\ \A d \in Listed' : d <= c \/ v <= d
    <3>1. CASE c = prev
      BY <3>1, <2>2, <1>1, <1>2, <1>3
    <3>2. CASE c # prev
      <4>1. v \in Listed /\ c < v /\ \A d \in Listed : d <= c \/ v <= d
        BY <3>2, <2>2, <1>2 DEF Sorted, NextListed
      <4>2. v # b
        BY <3>2, <4>1, <2>2, <1>1, <1>3
      <4> QED
        BY <4>1, <4>2
    <3> QED
      BY <3>1, <3>2
  <2> QED
    BY <2>1, <2>2 DEF NextListed, NULL
<1>6. PrevListed'
  <2>1. ASSUME NEW c \in Listed', back_free'[c] = NULL, NEW d \in Listed'
        PROVE  c <= d
    <3>1. CASE c = nxt
      BY <3>1, <2>1, <1>1, <1>2, <1>3
    <3>2. CASE c # nxt
      BY <3>2, <2>1, <1>2 DEF Sorted, PrevListed
    <3> QED
      BY <3>1, <3>2
  <2>2. ASSUME NEW c \in Listed', NEW v, back_free'[c] = v, v # NULL
        PROVE  v \in Listed' /\ v < c /\ \A d \in Listed' : d <= v \/ c <= d
    <3>1. CASE c = nxt
      BY <3>1, <2>2, <1>1, <1>2, <1>3
    <3>2. CASE c # nxt
      <4>1. v \in Listed /\ v < c /\ \A d \in Listed : d <= v \/ c <= d
        BY <3>2, <2>2, <1>2 DEF Sorted, PrevListed
      <4>2. v # b
        BY <3>2, <4>1, <2>2, <1>1, <1>3
      <4> QED
        BY <4>1, <4>2
    <3> QED
      BY <3>1, <3>2
  <2> QED
    BY <2>1, <2>2 DEF PrevListed, NULL
<1> QED
  BY <1>4, <1>5, <1>6 DEF Sorted

(* h takes the place of a, and no listed block lies between the two. *)
LEMMA ListReplace ==
  ASSUME TypeOK, Sorted, NEW a \in Listed, NEW h, h \in Nat, h # NULL,
         h \notin Listed, h < a, \A c \in Listed : c < h \/ a <= c,
         \A c : c \in Listed' <=> ((c \in Listed /\ c # a) \/ c = h),
         \A c \in Listed' :
           /\ back_free'[c] = IF c = h THEN back_free[a]
                              ELSE IF c = fwd_free[a] THEN h ELSE back_free[c]
           /\ fwd_free'[c] = IF c = h THEN fwd_free[a]
                             ELSE IF c = back_free[a] THEN h ELSE fwd_free[c],
         free_block_list' = IF back_free[a] # NULL THEN free_block_list ELSE h
  PROVE  Sorted'
<1>1. \A c \in Listed : c \in Nat /\ c # NULL
  BY DEF TypeOK, Listed, FreeBlocks
<1>2. PICK prev, nxt : prev = back_free[a] /\ nxt = fwd_free[a]
  OBVIOUS
<1>3. /\ prev = NULL => \A c \in Listed : a <= c
      /\ prev # NULL => prev \in Listed /\ prev < a
                        /\ \A c \in Listed : c <= prev \/ a <= c
      /\ nxt = NULL => \A c \in Listed : c <= a
      /\ nxt # NULL => nxt \in Listed /\ a < nxt
                       /\ \A c \in Listed : c <= a \/ nxt <= c
  BY <1>2 DEF Sorted, PrevListed, NextListed
<1>4. HeadFirst'
  <2>1. free_block_list \in Listed /\ \A c \in Listed : free_block_list <= c
    BY DEF Sorted, HeadFirst
  <2>2. prev # NULL => free_block_list # a /\ free_block_list < h
    BY <1>1, <1>3, <2>1
  <2>3. free_block_list' \in Listed' /\ free_block_list' # NULL
    BY <1>1, <1>2, <2>1, <2>2
  <2>4. \A c \in Listed' : free_block_list' <= c
    BY <1>1, <1>2, <1>3, <2>1, <2>2
  <2> QED
    BY <2>3, <2>4 DEF HeadFirst, NULL
<1>5. NextListed'
  <2>1. ASSUME NEW c \in Listed', fwd_free'[c] = NULL, NEW d \in Listed'
        PROVE  d <= c
    <3>1. CASE c = h
      BY <3>1, <2>1, <1>1, <1>2, <1>3
    <3>2. CASE c # h
      <4>1. c \in Listed /\ c # a /\ fwd_free[c] = NULL
        BY <3>2, <2>1
      <4>2. \A e \in Listed : e <= c
        BY <4>1 DEF Sorted, NextListed
      <4> QED
        BY <4>1, <4>2, <1>1, <2>1
    <3> QED
      BY <3>1, <3>2
  <2>2. ASSUME NEW c \in Listed', NEW v, fwd_free'[c] = v, v # NULL
        PROVE  v \in Listed' /\ c < v /\ \A d \in Listed' : d <= c \/ v <= d
    <3>1. CASE c = h
      BY <3>1, <2>2, <1>1, <1>2, <1>3
    <3>2. CASE c # h /\ c = prev
      BY <3>2, <2>2, <1>1, <1>2, <1>3
    <3>3. CASE c # h /\ c # prev
      <4>1. c \in Listed /\ c # a /\ fwd_free[c] = v
        BY <3>3, <2>2, <1>2
      <4>2. v \in Listed /\ c < v /\ \A d \in Listed : d <= c \/ v <= d
        BY <4>1, <2>2 DEF Sorted, NextListed
      <4>3. v # a
        BY <3>3, <4>1, <4>2, <1>1, <1>3
      <4>4. v \in Listed' /\ (h <= c \/ v <= h)
        BY <4>1, <4>2, <4>3, <1>1
      <4> QED
        BY <4>1, <4>2, <4>3, <4>4, <1>1
    <3> QED
      BY <3>1, <3>2, <3>3
  <2> QED
    BY <2>1, <2>2 DEF NextListed, NULL
<1>6. PrevListed'
  <2>1. ASSUME NEW c \in Listed', back_free'[c] = NULL, NEW d \in Listed'
        PROVE  c <= d
    <3>1. CASE c = h
      BY <3>1, <2>1, <1>1, <1>2, <1>3
    <3>2. CASE c # h
      <4>1. c \in Listed /\ c # a /\ back_free[c] = NULL
        BY <3>2, <2>1
      <4>2. \A e \in Listed : c <= e
        BY <4>1 DEF Sorted, PrevListed
      <4> QED
        BY <4>1, <4>2, <1>1, <2>1
    <3> QED
      BY <3>1, <3>2
  <2>2. ASSUME NEW c \in Listed', NEW v, back_free'[c] = v, v # NULL
        PROVE  v \in Listed' /\ v < c /\ \A d \in Listed' : d <= v \/ c <= d
    <3>1. CASE c = h
      BY <3>1, <2>2, <1>1, <1>2, <1>3
    <3>2. CASE c # h /\ c = nxt
      BY <3>2, <2>2, <1>1, <1>2, <1>3
    <3>3. CASE c # h /\ c # nxt
      <4>1. c \in Listed /\ c # a /\ back_free[c] = v
        BY <3>3, <2>2, <1>2
      <4>2. v \in Listed /\ v < c /\ \A d \in Listed : d <= v \/ c <= d
        BY <4>1, <2>2 DEF Sorted, PrevListed
      <4>3. v # a
        BY <3>3, <4>1, <4>2, <1>1, <1>3
      <4> QED
        BY <4>1, <4>2, <4>3, <1>1
    <3> QED
      BY <3>1, <3>2, <3>3
  <2> QED
    BY <2>1, <2>2 DEF PrevListed, NULL
<1> QED
  BY <1>4, <1>5, <1>6 DEF Sorted

(* h enters the list behind prev, or at the start if prev is NULL. *)
LEMMA ListInsert ==
  ASSUME TypeOK, Sorted, NEW h, h \in Nat, h # NULL, h \notin Listed,
         NEW prev, NEW nxt,
         prev = NULL => \A c \in Listed : h < c,
         prev # NULL => /\ prev \in Listed /\ prev < h
                        /\ \A c \in Listed : c <= prev \/ h < c,
         nxt = IF prev = NULL THEN free_block_list ELSE fwd_free[prev],
         \A c : c \in Listed' <=> (c \in Listed \/ c = h),
         \A c \in Listed' :
           /\ back_free'[c] = IF c = h THEN prev
                              ELSE IF c = nxt THEN h ELSE back_free[c]
           /\ fwd_free'[c] = IF c = h THEN nxt
                             ELSE IF c = prev THEN h ELSE fwd_free[c],
         free_block_list' = IF prev # NULL THEN free_block_list ELSE h
  PROVE  Sorted'
<1>1. \A c \in Listed : c \in Nat /\ c # NULL
  BY DEF TypeOK, Listed, FreeBlocks
<1>2. /\ nxt = NULL => \A c \in Listed : c < h
      /\ nxt # NULL => nxt \in Listed /\ h < nxt
                       /\ \A c \in Listed : c < h \/ nxt <= c
  <2>1. CASE prev = NULL
    BY <2>1, <1>1 DEF Sorted, HeadFirst
  <2>2. CASE prev # NULL
    <3>1. /\ nxt = NULL => \A c \in Listed : c <= prev
          /\ nxt # NULL => nxt \in Listed /\ prev < nxt
                           /\ \A c \in Listed : c <= prev \/ nxt <= c
      BY <2>2 DEF Sorted, NextListed
    <3> QED
      BY <3>1, <2>2, <1>1
  <2> QED
    BY <2>1, <2>2
<1>3. HeadFirst'
  <2>1. CASE prev = NULL
    BY <2>1, <1>1 DEF HeadFirst, NULL
  <2>2. CASE prev # NULL
    BY <2>2, <1>1 DEF Sorted, HeadFirst, NULL
  <2> QED
    BY <2>1, <2>2
<1>4. NextListed'
  <2>1. ASSUME NEW c \in Listed', fwd_free'[c] = NULL, NEW d \in Listed'
        PROVE  d <= c
    <3>1. CASE c = h
      BY <3>1, <2>1, <1>1, <1>2
    <3>2. CASE c # h
      <4>1. c \in Listed /\ fwd_free[c] = NULL
        BY <3>2, <2>1
      <4>2. \A e \in Listed : e <= c
        BY <4>1 DEF Sorted, NextListed
      <4>3. c # prev
        BY <3>2, <2>1
      <4> QED
        BY <4>1, <4>2, <4>3, <1>1, <2>1
    <3> QED
      BY <3>1, <3>2
  <2>2. ASSUME NEW c \in Listed', NEW v, fwd_free'[c] = v, v # NULL
        PROVE  v \in Listed' /\ c < v /\ \A d \in Listed' : d <= c \/ v <= d
    <3>1. CASE c = h
      BY <3>1, <2>2, <1>1, <1>2
    <3>2. CASE c # h /\ c = prev
      BY <3>2, <2>2, <1>1, <1>2
    <3>3. CASE c # h /\ c # prev
      <4>1. c \in Listed /\ fwd_free[c] = v
        BY <3>3, <2>2
      <4>2. v \in Listed /\ c < v /\ \A d \in Listed : d <= c \/ v <= d
        BY <4>1, <2>2 DEF Sorted, NextListed
      <4>3. h <= c \/ v <= h
        BY <3>3, <4>1, <4>2, <1>1
      <4> QED
        BY <4>1, <4>2, <4>3, <1>1
    <3> QED
      BY <3>1, <3>2, <3>3
  <2> QED
    BY <2>1, <2>2 DEF NextListed, NULL
<1>5. PrevListed'
  <2>1. ASSUME NEW c \in Listed', back_free'[c] = NULL, NEW d \in Listed'
        PROVE  c <= d
    <3>1. CASE c = h
      BY <3>1, <2>1, <1>1, <1>2
    <3>2. CASE c # h
      <4>1. c \in Listed /\ c # nxt /\ back_free[c] = NULL
        BY <3>2, <2>1
      <4>2. \A e \in Listed : c <= e
        BY <4>1 DEF Sorted, PrevListed
      <4> QED
        BY <4>1, <4>2, <1>1, <1>2, <2>1
    <3> QED
      BY <3>1, <3>2
  <2>2. ASSUME NEW c \in Listed', NEW v, back_free'[c] = v, v # NULL
        PROVE  v \in Listed' /\ v < c /\ \A d \in Listed' : d <= v \/ c <= d
    <3>1. CASE c = h
      BY <3>1, <2>2, <1>1, <1>2
    <3>2. CASE c # h /\ c = nxt
      BY <3>2, <2>2, <1>1, <1>2
    <3>3. CASE c # h /\ c # nxt
      <4>1. c \in Listed /\ back_free[c] = v
        BY <3>3, <2>2
      <4>2. v \in Listed /\ v < c /\ \A d \in Listed : d <= v \/ c <= d
        BY <4>1, <2>2 DEF Sorted, PrevListed
      <4>3. h <= v \/ c <= h
        BY <3>3, <4>1, <4>2, <1>1, <1>2
      <4> QED
        BY <4>1, <4>2, <4>3, <1>1
    <3> QED
      BY <3>1, <3>2, <3>3
  <2> QED
    BY <2>1, <2>2 DEF PrevListed, NULL
<1> QED
  BY <1>3, <1>4, <1>5 DEF Sorted

(* A block appended to the heap is linked to the last one. *)
LEMMA AppendLinks ==
  ASSUME IInv, NoOverflow, pc # "walk", pc' # "walk", NEW size \in Sizes,
         NEW n, n = program_break,
         \A b \in FreeBlocks : End(b) # program_break,
         length' = Put(length, n, size),
         held' = Put(held, Body(n), size),
         back_free' = Put(back_free, n, NULL),
         fwd_free' = Put(fwd_free, n, NULL),
         back_alloc' = Put(back_alloc, n, last_alloc_block),
         fwd_alloc' = Put(Store(fwd_alloc, last_alloc_block, n), n, NULL),
         last_alloc_block' = n,
         free_block_list' = free_block_list
  PROVE  Structure'
<1>1. TypeOK /\ Tiling /\ Links /\ Sorted /\ LastAllocExact
  BY DEF IInv, HeapInv
<1>2. /\ last_alloc_block = NULL => Blocks = {}
      /\ last_alloc_block # NULL =>
           last_alloc_block \in AllocBlocks /\ End(last_alloc_block) = n
  BY <1>1, LastBlock
<1>3. /\ Blocks' = Blocks \cup {n}
      /\ \A b \in Blocks : length'[b] = length[b]
      /\ length'[n] = size
  BY <1>1, BlockFacts DEF Put, Blocks
<1>4. /\ AllocBlocks' = AllocBlocks \cup {n}
      /\ FreeBlocks' = FreeBlocks
  BY <1>1, <1>3, BlockFacts
     DEF Put, AllocBlocks, FreeBlocks, Body, ALLOC_BLOCK_HEADER_SZ
<1>5. \A b \in Blocks : End(b)' = End(b) /\ End(b) <= n /\ b < n
  BY <1>1, <1>3, BlockFacts DEF End
<1>6. End(n)' > n /\ n \in Nat /\ n # NULL
  BY <1>1, <1>3, BlockFacts, SizesAssumption DEF End
<1>7. /\ \A b \in Blocks :
           /\ back_free'[b] = back_free[b]
           /\ fwd_free'[b] = fwd_free[b]
           /\ back_alloc'[b] = back_alloc[b]
           /\ fwd_alloc'[b] = IF b = last_alloc_block THEN n ELSE fwd_alloc[b]
      /\ back_free'[n] = NULL /\ fwd_free'[n] = NULL
      /\ back_alloc'[n] = last_alloc_block /\ fwd_alloc'[n] = NULL
  BY <1>1, <1>2, <1>6, BlockFacts, Kinds DEF Put, Store, TypeOK
<1>8. LinkTypes'
  BY <1>1, <1>2, <1>3, <1>6, Kinds DEF LinkTypes, TypeOK, Put, Store
<1>9. Links'
  <2>1. \A b, v \in Blocks' :
          (back_alloc'[b] = v) <=> (v \in AllocBlocks' /\ End(v)' = b)
    BY <1>1, <1>2, <1>3, <1>4, <1>5, <1>6, <1>7, BlockFacts, LinkFacts, Kinds
       DEF Links, BackAllocExact, FwdAllocExact, BackFreeExact, FwdFreeExact
  <2>2. \A b, v \in Blocks' :
          (fwd_alloc'[b] = v) <=> (v \in AllocBlocks' /\ End(b)' = v)
    BY <1>1, <1>2, <1>3, <1>4, <1>5, <1>6, <1>7, BlockFacts, LinkFacts, Kinds
       DEF Links, BackAllocExact, FwdAllocExact, BackFreeExact, FwdFreeExact
  <2>3. \A b, v \in Blocks' : b \in AllocBlocks' =>
          ((back_free'[b] = v) <=> (v \in FreeBlocks' /\ End(v)' = b))
    BY <1>1, <1>2, <1>3, <1>4, <1>5, <1>6, <1>7, BlockFacts, LinkFacts, Kinds
       DEF Links, BackAllocExact, FwdAllocExact, BackFreeExact, FwdFreeExact
  <2>4. \A b, v \in Blocks' : b \in AllocBlocks' =>
          ((fwd_free'[b] = v) <=> (v \in FreeBlocks' /\ End(b)' = v))
    BY <1>1, <1>2, <1>3, <1>4, <1>5, <1>6, <1>7, BlockFacts, LinkFacts, Kinds
       DEF Links, BackAllocExact, FwdAllocExact, BackFreeExact, FwdFreeExact
  <2> QED
    BY <2>1, <2>2, <2>3, <2>4
       DEF Links, BackAllocExact, FwdAllocExact, BackFreeExact, FwdFreeExact
<1>10. Sorted'
  <2>1. Listed' = Listed
    BY <1>4, Kinds DEF Listed
  <2>2. \A b \in Listed : back_free'[b] = back_free[b] /\ fwd_free'[b] = fwd_free[b]
    BY <1>7, Kinds
  <2> QED
    BY <1>1, <2>1, <2>2 DEF Sorted, HeadFirst, NextListed, PrevListed, NULL
<1>11. LastAllocExact'
  BY <1>1, <1>4, <1>5, <1>6, Kinds, BlockFacts DEF LastAllocExact, LastOf
<1> QED
  BY <1>8, <1>9, <1>10, <1>11 DEF Structure

-----------------------------------------------------------------------------
(* The search has found a free block, long enough for the request. *)
LEMMA SearchFound ==
  IInv /\ NoOverflow /\ Found =>
    /\ request \in Sizes /\ request \in Nat
    /\ real_size(request) = HeaderSize + request
    /\ search_ptr \in FreeBlocks
    /\ HeaderSize + length[search_ptr] >= HeaderSize + request
    /\ \A c \in FreeBlocks : LargeEnough(c) => search_ptr <= c
<1> SUFFICES ASSUME IInv, NoOverflow, Found
             PROVE  /\ request \in Sizes
                    /\ search_ptr \in FreeBlocks
                    /\ LargeEnough(search_ptr)
                    /\ \A c \in FreeBlocks : LargeEnough(c) => search_ptr <= c
  BY RealSize DEF LargeEnough, FREE_BLOCK_HEADER_SZ
<1>1. /\ pc = "search" /\ search_ptr # NULL /\ LargeEnough(search_ptr)
      /\ Listed = FreeBlocks
  BY Kinds DEF Found
<1>2. /\ request \in Sizes
      /\ search_ptr \in FreeBlocks
      /\ \A b \in FreeBlocks : b < search_ptr => ~LargeEnough(b)
  BY <1>1 DEF IInv, SearchInv
<1>3. \A b \in FreeBlocks : b \in Nat
  BY DEF IInv, TypeOK, FreeBlocks
<1> QED
  BY <1>1, <1>2, <1>3

(* What fwd_alloc of a free block says about the end of the block. *)
LEMMA FreeEnd ==
  TypeOK /\ HeapInv /\ Links =>
    \A b \in FreeBlocks :
      /\ fwd_alloc[b] = NULL => End(b) = program_break
      /\ fwd_alloc[b] # NULL => fwd_alloc[b] \in AllocBlocks /\ End(b) = fwd_alloc[b]
<1> SUFFICES ASSUME TypeOK, HeapInv, Links, NEW b \in FreeBlocks
             PROVE  /\ fwd_alloc[b] = NULL => End(b) = program_break
                    /\ fwd_alloc[b] # NULL =>
                         fwd_alloc[b] \in AllocBlocks /\ End(b) = fwd_alloc[b]
  OBVIOUS
<1>1. fwd_alloc[b] = NULL => End(b) = program_break
  BY BlockFacts, Kinds DEF HeapInv, Tiling, Coalesced, Links, FwdAllocExact
<1>2. fwd_alloc[b] # NULL => fwd_alloc[b] \in AllocBlocks /\ End(b) = fwd_alloc[b]
  BY LinkFacts, Kinds DEF HeapInv, Links, FwdAllocExact
<1> QED
  BY <1>1, <1>2

(* What back_alloc of a free block says about what is behind it. *)
LEMMA FreeStart ==
  TypeOK /\ HeapInv /\ Links =>
    \A b \in FreeBlocks :
      /\ back_alloc[b] = NULL => b = heap_start
      /\ back_alloc[b] # NULL => back_alloc[b] \in AllocBlocks /\ End(back_alloc[b]) = b
<1> SUFFICES ASSUME TypeOK, HeapInv, Links, NEW b \in FreeBlocks
             PROVE  /\ back_alloc[b] = NULL => b = heap_start
                    /\ back_alloc[b] # NULL =>
                         back_alloc[b] \in AllocBlocks /\ End(back_alloc[b]) = b
  OBVIOUS
<1>1. back_alloc[b] = NULL => b = heap_start
  BY BlockFacts, Kinds DEF HeapInv, Tiling, Coalesced, Links, BackAllocExact
<1>2. back_alloc[b] # NULL => back_alloc[b] \in AllocBlocks /\ End(back_alloc[b]) = b
  BY LinkFacts, Kinds DEF HeapInv, Links, BackAllocExact
<1> QED
  BY <1>1, <1>2

(* A block cut from a free one is linked between its neighbours. *)
LEMMA SplitLinks ==
  ASSUME IInv, NoOverflow, MallocSplit
  PROVE  Structure'
<1>1. TypeOK /\ Tiling /\ Coalesced /\ Links /\ Sorted /\ LastAllocExact /\ HeapInv
  BY DEF IInv, HeapInv
<1>2. PICK b, size, next, a :
        b = search_ptr /\ size = request /\ next = fwd_alloc[b] /\ a = SplitPoint
  OBVIOUS
<1>3. /\ b \in FreeBlocks /\ b \in Blocks /\ size \in Nat
      /\ a \in Nat /\ b < a /\ a < End(b)
      /\ a = b + HeaderSize + (length[b] - (HeaderSize + size))
      /\ length[b] - (HeaderSize + size) \in Nat
      /\ real_size(size) = HeaderSize + size
  BY <1>1, <1>2, SearchFound, BlockFacts, Kinds
     DEF MallocSplit, SplitPoint, Splittable, FREE_BLOCK_HEADER_SZ,
         MINIMUM_BLOCK_SZ
<1>4. /\ pc = "search" /\ pc' = "idle"
      /\ free_block_list' = free_block_list
      /\ length' = Put([length EXCEPT ![b] = @ - real_size(size)], a, size)
      /\ held' = Put(held, Body(a), size)
      /\ back_free' = Put(Store(back_free, next, NULL), a, b)
      /\ fwd_free' = Put(fwd_free, a, NULL)
      /\ back_alloc' = Put(Store(back_alloc, next, a), a, NULL)
      /\ fwd_alloc' = Put([fwd_alloc EXCEPT ![b] = a], a, next)
      /\ last_alloc_block' = IF next # NULL THEN last_alloc_block ELSE a
  BY <1>2 DEF MallocSplit, ReturnBlock, Found
<1>5. /\ next = NULL => End(b) = program_break
      /\ next # NULL => next \in AllocBlocks /\ next \in Blocks /\ End(b) = next
  BY <1>1, <1>2, <1>3, FreeEnd, Kinds
<1>6. a \notin Blocks /\ a # NULL
  BY <1>1, <1>3, BlockFacts
<1>7. /\ Blocks' = Blocks \cup {a}
      /\ length'[a] = size
      /\ \A c \in Blocks : length'[c] = IF c = b THEN length[b] - real_size(size)
                                        ELSE length[c]
  BY <1>1, <1>3, <1>4, <1>6, LinkFacts DEF Put, Blocks
<1>8. /\ \A c : c \in AllocBlocks' <=> (c \in AllocBlocks \/ c = a)
      /\ \A c : c \in FreeBlocks' <=> c \in FreeBlocks
  BY <1>1, <1>3, <1>4, <1>6, <1>7, BlockFacts, Kinds
     DEF Put, AllocBlocks, FreeBlocks, Body, ALLOC_BLOCK_HEADER_SZ
<1>9. /\ End(b)' = a /\ End(a)' = End(b)
      /\ \A c \in Blocks : c # b => End(c)' = End(c)
  BY <1>1, <1>3, <1>7, BlockFacts DEF End
<1>10. /\ \A c \in Blocks :
            /\ back_free'[c] = IF c = next THEN NULL ELSE back_free[c]
            /\ fwd_free'[c] = fwd_free[c]
            /\ back_alloc'[c] = IF c = next THEN a ELSE back_alloc[c]
            /\ fwd_alloc'[c] = IF c = b THEN a ELSE fwd_alloc[c]
       /\ back_free'[a] = b /\ fwd_free'[a] = NULL
       /\ back_alloc'[a] = NULL /\ fwd_alloc'[a] = next
  BY <1>1, <1>3, <1>4, <1>5, <1>6, LinkFacts, BlockFacts DEF Put, Store
<1>11. LinkTypes'
  BY <1>1, <1>3, <1>4, <1>5, <1>6, <1>7, SMTT(20)
     DEF LinkTypes, TypeOK, Put, Store
<1>12. BackAllocExact'
  BY <1>1, <1>3, <1>5, <1>6, <1>7, <1>8, <1>9, <1>10, BlockFacts, LinkFacts,
     Kinds, SMTT(20)
     DEF Links, BackAllocExact
<1>13. FwdAllocExact'
  BY <1>1, <1>3, <1>5, <1>6, <1>7, <1>8, <1>9, <1>10, BlockFacts, LinkFacts,
     Kinds
     DEF Links, FwdAllocExact
<1>14. BackFreeExact'
  <2> SUFFICES ASSUME NEW c \in AllocBlocks', NEW v \in Blocks'
               PROVE  back_free'[c] = v <=> v \in FreeBlocks' /\ End(v)' = c
    BY Kinds DEF BackFreeExact
  <2>1. CASE c = a
    BY <2>1, <1>1, <1>3, <1>6, <1>7, <1>8, <1>9, <1>10, BlockFacts, Kinds
  <2>2. CASE c # a /\ c = next
    BY <2>2, <1>1, <1>3, <1>5, <1>6, <1>7, <1>8, <1>9, <1>10, BlockFacts, Kinds
  <2>3. CASE c # a /\ c # next
    <3>1. c \in AllocBlocks /\ c \in Blocks /\ back_free'[c] = back_free[c]
      BY <2>3, <1>8, <1>10, Kinds
    <3>2. CASE v = a
      BY <2>3, <3>1, <3>2, <1>1, <1>3, <1>5, <1>6, <1>8, <1>9, BlockFacts,
         LinkFacts, Kinds
    <3>3. CASE v # a
      BY <2>3, <3>1, <3>3, <1>1, <1>3, <1>5, <1>7, <1>8, <1>9, BlockFacts, Kinds
         DEF Links, BackFreeExact
    <3> QED
      BY <3>2, <3>3
  <2> QED
    BY <2>1, <2>2, <2>3
<1>15. FwdFreeExact'
  BY <1>1, <1>3, <1>5, <1>6, <1>7, <1>8, <1>9, <1>10, BlockFacts, LinkFacts,
     Kinds
     DEF Links, FwdFreeExact
<1>16. Sorted'
  <2>1. \A c : c \in Listed' <=> c \in Listed
    BY <1>4, <1>8, Kinds DEF Listed
  <2>2. \A c \in Listed : back_free'[c] = back_free[c] /\ fwd_free'[c] = fwd_free[c]
    BY <1>1, <1>5, <1>10, BlockFacts, Kinds
  <2> QED
    BY <1>1, <1>4, <2>1, <2>2
       DEF Sorted, HeadFirst, NextListed, PrevListed, NULL
<1>17. LastAllocExact'
  <2>1. CASE next = NULL
    BY <2>1, <1>1, <1>3, <1>4, <1>5, <1>6, <1>8, BlockFacts, Kinds
       DEF LastAllocExact, LastOf
  <2>2. CASE next # NULL
    BY <2>2, <1>1, <1>3, <1>4, <1>5, <1>6, <1>8, BlockFacts, Kinds
       DEF LastAllocExact, LastOf
  <2> QED
    BY <2>1, <2>2
<1> QED
  BY <1>11, <1>12, <1>13, <1>14, <1>15, <1>16, <1>17 DEF Structure, Links

(***************************************************************************)
(* When the search has failed, it trails on the free block of highest      *)
(* address, and that block ends the heap if its forward link is NULL.      *)
(***************************************************************************)
LEMMA SearchFailed ==
  IInv /\ pc = "search" /\ search_ptr = NULL =>
    /\ request \in Sizes
    /\ Requestable(request)
    /\ trailing_search_ptr \in FreeBlocks
    /\ \A c \in FreeBlocks : c <= trailing_search_ptr /\ ~LargeEnough(c)
    /\ fwd_alloc[trailing_search_ptr] = NULL => End(trailing_search_ptr) = program_break
    /\ fwd_alloc[trailing_search_ptr] # NULL =>
         \A b \in FreeBlocks : End(b) # program_break
<1> SUFFICES ASSUME IInv, pc = "search", search_ptr = NULL
             PROVE  /\ request \in Sizes
                    /\ Requestable(request)
                    /\ trailing_search_ptr \in FreeBlocks
                    /\ \A c \in FreeBlocks :
                         c <= trailing_search_ptr /\ ~LargeEnough(c)
                    /\ fwd_alloc[trailing_search_ptr] = NULL =>
                         End(trailing_search_ptr) = program_break
                    /\ fwd_alloc[trailing_search_ptr] # NULL =>
                         \A b \in FreeBlocks : End(b) # program_break
  OBVIOUS
<1>1. TypeOK /\ Tiling /\ Coalesced /\ Links /\ Sorted
  BY DEF IInv, HeapInv
<1>2. Listed = FreeBlocks
  BY Kinds
<1>3. /\ request \in Sizes
      /\ Requestable(request)
      /\ free_block_list \in FreeBlocks
      /\ \A b \in FreeBlocks : ~LargeEnough(b)
      /\ LastOf(trailing_search_ptr, {b \in FreeBlocks : TRUE})
  BY <1>1, <1>2 DEF IInv, SearchInv, Sorted, HeadFirst, NextListed, PrevListed
<1>4. /\ trailing_search_ptr \in FreeBlocks
      /\ \A c \in FreeBlocks : c <= trailing_search_ptr
  BY <1>3 DEF LastOf
<1>5. ASSUME fwd_alloc[trailing_search_ptr] = NULL
      PROVE  End(trailing_search_ptr) = program_break
  BY <1>1, <1>4, <1>5, BlockFacts, Kinds
     DEF Tiling, Coalesced, Links, BackAllocExact, FwdAllocExact, BackFreeExact,
         FwdFreeExact
<1>6. ASSUME fwd_alloc[trailing_search_ptr] # NULL, NEW b \in FreeBlocks
      PROVE  End(b) # program_break
  <2>1. fwd_alloc[trailing_search_ptr] = End(trailing_search_ptr)
        /\ End(trailing_search_ptr) \in Blocks
    BY <1>1, <1>4, <1>6, LinkFacts, Kinds
       DEF Links, BackAllocExact, FwdAllocExact, BackFreeExact, FwdFreeExact
  <2> QED
    BY <1>1, <1>4, <2>1, BlockFacts, Kinds
<1> QED
  BY <1>3, <1>4, <1>5, <1>6

(* The last free block, grown and handed out, leaves the list. *)
LEMMA GrowLastLinks ==
  ASSUME IInv, NoOverflow, MallocGrowLast
  PROVE  Structure'
<1>1. TypeOK /\ Tiling /\ Coalesced /\ Links /\ Sorted /\ LastAllocExact
  BY DEF IInv, HeapInv
<1>2. PICK b, prev :
        /\ b = trailing_search_ptr
        /\ prev = back_free[b]
        /\ b \in FreeBlocks
        /\ \A c \in FreeBlocks : c <= b
        /\ End(b) = program_break
  BY SearchFailed DEF MallocGrowLast
<1>3. PICK size : size = request
  OBVIOUS
<1>4. /\ pc = "search" /\ pc' = "idle"
      /\ free_block_list' = IF prev # NULL THEN free_block_list ELSE NULL
      /\ length' = [length EXCEPT ![b] = size]
      /\ held' = Put(held, Body(b), size)
      /\ back_free' = [back_free EXCEPT ![b] = NULL]
      /\ fwd_free' = Store(Store(fwd_free, prev, NULL), last_alloc_block, NULL)
      /\ fwd_alloc' = Store(fwd_alloc, last_alloc_block, b)
      /\ last_alloc_block' = b
      /\ back_alloc' = back_alloc
  BY <1>2, <1>3 DEF MallocGrowLast, ReturnBlock
<1>5. size \in Nat
  BY <1>3, SearchFailed, RealSize DEF MallocGrowLast
<1>6. last_alloc_block # NULL => last_alloc_block \in AllocBlocks /\ End(last_alloc_block) = b
  <2> SUFFICES ASSUME last_alloc_block # NULL
               PROVE  last_alloc_block \in AllocBlocks /\ End(last_alloc_block) = b
    OBVIOUS
  <2>1. /\ last_alloc_block \in AllocBlocks
        /\ \A a \in AllocBlocks : a <= last_alloc_block
    BY <1>1 DEF LastAllocExact, LastOf
  <2>2. last_alloc_block < b
    BY <1>1, <1>2, <2>1, BlockFacts, Kinds
  <2>3. PICK c \in AllocBlocks : End(c) = b
    BY <1>1, <1>2, <2>1, <2>2, BlockFacts, Kinds DEF Tiling, Coalesced
  <2>4. c = last_alloc_block
    BY <1>1, <2>1, <2>2, <2>3, BlockFacts, Kinds
  <2> QED
    BY <2>1, <2>3, <2>4
<1>7. last_alloc_block = NULL => \A a : a \notin AllocBlocks
  BY <1>1 DEF LastAllocExact, LastOf
<1>8. /\ Blocks' = Blocks
      /\ \A c \in Blocks : length'[c] = IF c = b THEN size ELSE length[c]
  BY <1>1, <1>4, LinkFacts DEF Blocks
<1>9. /\ \A c : c \in AllocBlocks' <=> (c \in AllocBlocks \/ c = b)
      /\ \A c : c \in FreeBlocks' <=> (c \in FreeBlocks /\ c # b)
  BY <1>1, <1>2, <1>4, <1>8, BlockFacts, Kinds
     DEF Put, AllocBlocks, FreeBlocks, Body, ALLOC_BLOCK_HEADER_SZ
<1>10. /\ \A c \in Blocks : c # b => End(c)' = End(c) /\ End(c) <= b /\ c < b
       /\ End(b)' > b /\ \A c \in Blocks : c <= b
  BY <1>1, <1>2, <1>5, <1>8, BlockFacts, Kinds DEF End
<1>11. \A c \in Blocks :
         /\ back_free'[c] = IF c = b THEN NULL ELSE back_free[c]
         /\ fwd_free'[c] = IF c = prev \/ c = last_alloc_block THEN NULL ELSE fwd_free[c]
         /\ back_alloc'[c] = back_alloc[c]
         /\ fwd_alloc'[c] = IF c = last_alloc_block THEN b ELSE fwd_alloc[c]
  BY <1>1, <1>2, <1>4, LinkFacts, BlockFacts, Kinds DEF Store
<1>12. LinkTypes'
  BY <1>1, <1>2, <1>4, <1>6, <1>8, Kinds DEF LinkTypes, TypeOK, Store
<1>13. /\ fwd_free[b] = NULL
       /\ \A c \in FreeBlocks : End(c) # b
       /\ prev # NULL => prev \in FreeBlocks /\ prev < b /\ \A c \in Listed : c <= prev \/ b <= c
  BY <1>1, <1>2, <1>4, BlockFacts, Kinds
     DEF Sorted, NextListed, PrevListed, Coalesced
<1>14. BackAllocExact'
  BY <1>1, <1>2, <1>6, <1>7, <1>8, <1>9, <1>10, <1>11, <1>13, BlockFacts,
     LinkFacts, Kinds
     DEF Links, BackAllocExact
<1>15. FwdAllocExact'
  BY <1>1, <1>2, <1>6, <1>7, <1>8, <1>9, <1>10, <1>11, <1>13, BlockFacts,
     LinkFacts, Kinds
     DEF Links, FwdAllocExact
<1>16. BackFreeExact'
  BY <1>1, <1>2, <1>6, <1>7, <1>8, <1>9, <1>10, <1>11, <1>13, BlockFacts,
     LinkFacts, Kinds
     DEF Links, BackFreeExact
<1>17. FwdFreeExact'
  BY <1>1, <1>2, <1>6, <1>7, <1>8, <1>9, <1>10, <1>11, <1>13, BlockFacts,
     LinkFacts, Kinds
     DEF Links, FwdFreeExact
<1>18. Sorted'
  <2>1. \A c : c \in Listed' <=> (c \in Listed /\ c # b)
    BY <1>4, <1>9, Kinds DEF Listed
  <2>2. b \in Listed
    BY <1>2, <1>4, Kinds
  <2>3. \A c \in Listed' : c \in FreeBlocks /\ c \in Blocks /\ c # b /\ c # NULL
                           /\ c # last_alloc_block
    BY <1>1, <1>6, <2>1, BlockFacts, Kinds
  <2> QED
    BY <1>1, <1>2, <1>4, <1>11, <1>13, <2>1, <2>2, <2>3, ListRemove
<1>19. LastAllocExact'
  BY <1>2, <1>4, <1>8, <1>9, <1>10, <1>1, Kinds, BlockFacts
     DEF LastAllocExact, LastOf
<1> QED
  BY <1>12, <1>14, <1>15, <1>16, <1>17, <1>18, <1>19 DEF Structure, Links
(* A free block handed out whole leaves the list. *)
LEMMA WholeLinks ==
  ASSUME IInv, NoOverflow, MallocWhole
  PROVE  Structure'
<1>1. TypeOK /\ Tiling /\ Coalesced /\ Links /\ Sorted /\ LastAllocExact /\ HeapInv
  BY DEF IInv, HeapInv
<1>2. PICK b, prev, nxt, behind, ahead :
        /\ b = search_ptr
        /\ prev = back_free[b] /\ nxt = fwd_free[b]
        /\ behind = back_alloc[b] /\ ahead = fwd_alloc[b]
  OBVIOUS
<1>3. b \in FreeBlocks /\ b \in Blocks /\ b \in Listed
  BY <1>1, <1>2, SearchFound, Kinds DEF MallocWhole, Found
<1>4. /\ pc = "search" /\ pc' = "idle"
      /\ length' = length
      /\ held' = Put(held, Body(b), request)
      /\ free_block_list' = IF prev # NULL THEN free_block_list ELSE nxt
      /\ back_free' = [Store(Store(back_free, nxt, prev), ahead, NULL)
                         EXCEPT ![b] = NULL]
      /\ fwd_free' = [Store(Store(fwd_free, prev, nxt), behind, NULL)
                        EXCEPT ![b] = NULL]
      /\ back_alloc' = Store(back_alloc, ahead, b)
      /\ fwd_alloc' = Store(fwd_alloc, behind, b)
      /\ last_alloc_block' = IF ahead # NULL THEN last_alloc_block ELSE b
  BY <1>2 DEF MallocWhole, ReturnBlock, Found
<1>5. /\ ahead = NULL => End(b) = program_break
      /\ ahead # NULL => ahead \in AllocBlocks /\ ahead \in Blocks /\ End(b) = ahead
      /\ behind = NULL => b = heap_start
      /\ behind # NULL => behind \in AllocBlocks /\ behind \in Blocks /\ End(behind) = b
  BY <1>1, <1>2, <1>3, FreeEnd, FreeStart, Kinds
<1>6. /\ prev # NULL => prev \in FreeBlocks /\ prev \in Blocks /\ prev # b
      /\ nxt # NULL => nxt \in FreeBlocks /\ nxt \in Blocks /\ nxt # b
  BY <1>1, <1>2, <1>3, BlockFacts, Kinds DEF Sorted, PrevListed, NextListed
<1>7. Blocks' = Blocks /\ \A c \in Blocks : End(c)' = End(c)
  BY <1>4 DEF Blocks, End
<1>8. /\ \A c : c \in AllocBlocks' <=> (c \in AllocBlocks \/ c = b)
      /\ \A c : c \in FreeBlocks' <=> (c \in FreeBlocks /\ c # b)
  BY <1>1, <1>3, <1>4, <1>7, BlockFacts, Kinds
     DEF Put, AllocBlocks, FreeBlocks, Body, ALLOC_BLOCK_HEADER_SZ
<1>9. /\ \A c \in FreeBlocks : c # b =>
           /\ back_free'[c] = IF c = nxt THEN prev ELSE back_free[c]
           /\ fwd_free'[c] = IF c = prev THEN nxt ELSE fwd_free[c]
      /\ \A c \in AllocBlocks :
           /\ back_free'[c] = IF c = ahead THEN NULL ELSE back_free[c]
           /\ fwd_free'[c] = IF c = behind THEN NULL ELSE fwd_free[c]
      /\ back_free'[b] = NULL /\ fwd_free'[b] = NULL
      /\ \A c \in Blocks :
           /\ back_alloc'[c] = IF c = ahead THEN b ELSE back_alloc[c]
           /\ fwd_alloc'[c] = IF c = behind THEN b ELSE fwd_alloc[c]
  BY <1>1, <1>3, <1>4, <1>5, <1>6, LinkFacts, BlockFacts, Kinds DEF Store
<1>10. LinkTypes'
  BY <1>1, <1>3, <1>4, <1>5, <1>6, <1>7 DEF LinkTypes, TypeOK, Store
<1>11. BackAllocExact'
  BY <1>1, <1>3, <1>5, <1>7, <1>8, <1>9, BlockFacts, LinkFacts, Kinds
     DEF Links, BackAllocExact
<1>12. FwdAllocExact'
  BY <1>1, <1>3, <1>5, <1>7, <1>8, <1>9, BlockFacts, LinkFacts, Kinds
     DEF Links, FwdAllocExact
<1>13. BackFreeExact'
  BY <1>1, <1>3, <1>5, <1>7, <1>8, <1>9, BlockFacts, LinkFacts, Kinds
     DEF Links, BackFreeExact, Coalesced
<1>14. FwdFreeExact'
  BY <1>1, <1>3, <1>5, <1>7, <1>8, <1>9, BlockFacts, LinkFacts, Kinds
     DEF Links, FwdFreeExact, Coalesced
<1>15. Sorted'
  <2>1. \A c : c \in Listed' <=> (c \in Listed /\ c # b)
    BY <1>4, <1>8, Kinds DEF Listed
  <2>2. \A c \in Listed' : c \in FreeBlocks /\ c # b
    BY <2>1, Kinds
  <2> QED
    BY <1>1, <1>2, <1>3, <1>4, <1>9, <2>1, <2>2, ListRemove
<1>16. LastAllocExact'
  <2>1. CASE ahead = NULL
    BY <2>1, <1>1, <1>3, <1>4, <1>5, <1>8, BlockFacts, Kinds
       DEF LastAllocExact, LastOf
  <2>2. CASE ahead # NULL
    BY <2>2, <1>1, <1>3, <1>4, <1>5, <1>8, BlockFacts, Kinds
       DEF LastAllocExact, LastOf
  <2> QED
    BY <2>1, <2>2
<1> QED
  BY <1>10, <1>11, <1>12, <1>13, <1>14, <1>15, <1>16 DEF Structure, Links

-----------------------------------------------------------------------------
(* What the links of an allocated block say. *)
LEMMA AllocNeighbours ==
  TypeOK /\ Tiling /\ Links =>
    \A h \in AllocBlocks :
      /\ back_free[h] # NULL => back_free[h] \in FreeBlocks /\ End(back_free[h]) = h
      /\ fwd_free[h] # NULL => fwd_free[h] \in FreeBlocks /\ fwd_free[h] = End(h)
      /\ back_alloc[h] # NULL => back_alloc[h] \in AllocBlocks /\ End(back_alloc[h]) = h
      /\ fwd_alloc[h] # NULL => fwd_alloc[h] \in AllocBlocks /\ fwd_alloc[h] = End(h)
      /\ back_free[h] = NULL /\ back_alloc[h] = NULL => h = heap_start
      /\ back_free[h] = NULL => \A c \in FreeBlocks : End(c) # h
      /\ fwd_free[h] = NULL => \A c \in FreeBlocks : End(h) # c
<1> SUFFICES ASSUME TypeOK, Tiling, Links, NEW h \in AllocBlocks
             PROVE  /\ back_free[h] # NULL => back_free[h] \in FreeBlocks /\ End(back_free[h]) = h
                    /\ fwd_free[h] # NULL => fwd_free[h] \in FreeBlocks /\ fwd_free[h] = End(h)
                    /\ back_alloc[h] # NULL => back_alloc[h] \in AllocBlocks /\ End(back_alloc[h]) = h
                    /\ fwd_alloc[h] # NULL => fwd_alloc[h] \in AllocBlocks /\ fwd_alloc[h] = End(h)
                    /\ back_free[h] = NULL /\ back_alloc[h] = NULL => h = heap_start
                    /\ back_free[h] = NULL => \A c \in FreeBlocks : End(c) # h
                    /\ fwd_free[h] = NULL => \A c \in FreeBlocks : End(h) # c
  OBVIOUS
<1>1. back_free[h] # NULL => back_free[h] \in FreeBlocks /\ End(back_free[h]) = h
  BY LinkFacts, Kinds DEF Links, BackFreeExact
<1>2. fwd_free[h] # NULL => fwd_free[h] \in FreeBlocks /\ fwd_free[h] = End(h)
  BY LinkFacts, Kinds DEF Links, FwdFreeExact
<1>3. back_alloc[h] # NULL => back_alloc[h] \in AllocBlocks /\ End(back_alloc[h]) = h
  BY LinkFacts, Kinds DEF Links, BackAllocExact
<1>4. fwd_alloc[h] # NULL => fwd_alloc[h] \in AllocBlocks /\ fwd_alloc[h] = End(h)
  BY LinkFacts, Kinds DEF Links, FwdAllocExact
<1>5. back_free[h] = NULL => \A c \in FreeBlocks : End(c) # h
  BY BlockFacts, Kinds DEF Links, BackFreeExact
<1>6. fwd_free[h] = NULL => \A c \in FreeBlocks : End(h) # c
  BY BlockFacts, Kinds DEF Links, FwdFreeExact
<1>7. back_alloc[h] = NULL => \A c \in AllocBlocks : End(c) # h
  BY BlockFacts, Kinds DEF Links, BackAllocExact
<1>8. back_free[h] = NULL /\ back_alloc[h] = NULL => h = heap_start
  BY <1>5, <1>7, Kinds DEF Tiling
<1> QED
  BY <1>1, <1>2, <1>3, <1>4, <1>5, <1>6, <1>8

(* Between calls, the links that name free blocks name nothing else. *)
LEMMA FreeLinks ==
  TypeOK /\ Tiling /\ Links /\ Sorted /\ pc # "walk" =>
    \A c \in Blocks : /\ back_free[c] \in FreeBlocks \/ back_free[c] = NULL
                      /\ fwd_free[c] \in FreeBlocks \/ fwd_free[c] = NULL
<1> SUFFICES ASSUME TypeOK, Tiling, Links, Sorted, pc # "walk", NEW c \in Blocks
             PROVE  /\ back_free[c] \in FreeBlocks \/ back_free[c] = NULL
                    /\ fwd_free[c] \in FreeBlocks \/ fwd_free[c] = NULL
  OBVIOUS
<1>1. CASE c \in AllocBlocks
  BY <1>1, AllocNeighbours
<1>2. CASE c \in FreeBlocks
  BY <1>2, Kinds DEF Sorted, PrevListed, NextListed
<1> QED
  BY <1>1, <1>2, Kinds

(* last_alloc_block is moved back to the allocated block before h, if any. *)
LEMMA LastAllocFreed ==
  ASSUME TypeOK, HeapInv, Links, LastAllocExact, NEW h \in AllocBlocks
  PROVE  LET v == LastAllocAfterFree(h)
         IN  /\ v = NULL => \A c \in AllocBlocks : c = h
             /\ v # NULL => v \in AllocBlocks /\ v # h
                            /\ \A c \in AllocBlocks : c = h \/ c <= v
<1>1. /\ last_alloc_block # NULL /\ last_alloc_block \in AllocBlocks
      /\ \A c \in AllocBlocks : c <= last_alloc_block
  BY DEF LastAllocExact, LastOf
<1>2. /\ h \in Blocks /\ h # NULL
      /\ \A c \in AllocBlocks : c \in Blocks /\ c \in Nat /\ c # NULL
  BY BlockFacts, Kinds DEF HeapInv
<1>3. CASE h # last_alloc_block
  BY <1>1, <1>2, <1>3 DEF LastAllocAfterFree
<1>4. CASE h = last_alloc_block
  <2>1. CASE back_alloc[h] # NULL
    <3>1. back_alloc[h] \in AllocBlocks /\ End(back_alloc[h]) = h
      BY <2>1, AllocNeighbours DEF HeapInv
    <3>2. back_alloc[h] # h /\ \A c \in AllocBlocks : c = h \/ c <= back_alloc[h]
      BY <1>1, <1>2, <1>4, <3>1, BlockFacts DEF HeapInv
    <3> QED
      BY <2>1, <3>1, <3>2, <1>4 DEF LastAllocAfterFree
  <2>2. CASE back_alloc[h] = NULL /\ back_free[h] = NULL
    <3>1. h = heap_start
      BY <2>2, AllocNeighbours DEF HeapInv
    <3>2. \A c \in AllocBlocks : c = h
      BY <1>1, <1>2, <1>4, <3>1, BlockFacts DEF HeapInv
    <3> QED
      BY <2>2, <3>2, <1>4 DEF LastAllocAfterFree
  <2>3. CASE back_alloc[h] = NULL /\ back_free[h] # NULL
    <3>1. PICK f : f = back_free[h]
      OBVIOUS
    <3>2. f \in FreeBlocks /\ f \in Blocks /\ End(f) = h
      BY <2>3, <3>1, AllocNeighbours, Kinds DEF HeapInv
    <3>3. \A c \in AllocBlocks : c = h \/ c < f
      BY <1>1, <1>2, <1>4, <3>2, BlockFacts, Kinds DEF HeapInv
    <3>4. CASE back_alloc[f] # NULL
      <4>1. back_alloc[f] \in AllocBlocks /\ End(back_alloc[f]) = f
        BY <3>2, <3>4, FreeStart
      <4>2. back_alloc[f] # h /\ \A c \in AllocBlocks : c = h \/ c <= back_alloc[f]
        BY <1>2, <3>2, <3>3, <4>1, BlockFacts DEF HeapInv
      <4> QED
        BY <2>3, <3>1, <3>4, <4>1, <4>2, <1>4 DEF LastAllocAfterFree
    <3>5. CASE back_alloc[f] = NULL
      <4>1. f = heap_start
        BY <3>2, <3>5, FreeStart
      <4>2. \A c \in AllocBlocks : c = h
        BY <1>2, <3>2, <3>3, <4>1, BlockFacts DEF HeapInv
      <4> QED
        BY <2>3, <3>1, <3>5, <4>2, <1>4 DEF LastAllocAfterFree
    <3> QED
      BY <3>4, <3>5
  <2> QED
    BY <2>1, <2>2, <2>3
<1> QED
  BY <1>3, <1>4

(* Every branch of __free keeps last_alloc_block exact. *)
LEMMA ReleaseLast ==
  ASSUME TypeOK, HeapInv, Links, LastAllocExact, NEW h \in AllocBlocks, Release(h),
         \A c : c \in AllocBlocks' <=> (c \in AllocBlocks /\ c # h)
  PROVE  LastAllocExact'
<1>1. last_alloc_block' = LastAllocAfterFree(h)
  BY DEF Release
<1> QED
  BY <1>1, LastAllocFreed DEF LastAllocExact, LastOf, NULL

(* There was no free block: h is the only one and starts the list. *)
LEMMA FreeFirstLinks ==
  ASSUME IInv, NEW h \in AllocBlocks, FreeFirst(h)
  PROVE  Structure'
<1>1. TypeOK /\ Tiling /\ Coalesced /\ Links /\ Sorted /\ LastAllocExact /\ HeapInv
  BY DEF IInv, HeapInv
<1>2. PICK behind, ahead : behind = back_alloc[h] /\ ahead = fwd_alloc[h]
  OBVIOUS
<1>3. /\ pc = "idle" /\ pc' = "idle"
      /\ free_block_list = NULL /\ free_block_list' = h
      /\ held' = Forget(held, {Body(h)})
      /\ length' = [length EXCEPT ![h] = FreedLength(h)]
      /\ back_free' = Store([back_free EXCEPT ![h] = NULL], ahead, h)
      /\ fwd_free' = Store([fwd_free EXCEPT ![h] = NULL], behind, h)
      /\ fwd_alloc' = Store(fwd_alloc, behind, NULL)
      /\ back_alloc' = Store(back_alloc, ahead, NULL)
  BY <1>2 DEF FreeFirst, Release, NeighboursLose
<1>4. /\ h \in Blocks /\ h \notin FreeBlocks
      /\ behind # NULL => behind \in AllocBlocks /\ behind \in Blocks /\ behind # h /\ End(behind) = h
      /\ ahead # NULL => ahead \in AllocBlocks /\ ahead \in Blocks /\ ahead # h /\ ahead = End(h)
  BY <1>1, <1>2, AllocNeighbours, BlockFacts, Kinds
<1>5. \A c : c \notin FreeBlocks
  BY <1>1, <1>3, Kinds DEF Sorted, HeadFirst
<1>6. \A c \in Blocks : (End(h) = c <=> c = ahead) /\ (End(c) = h <=> c = behind)
  BY <1>1, <1>2, <1>4, <1>5, Kinds DEF Links, BackAllocExact, FwdAllocExact
<1>7. /\ Blocks' = Blocks
      /\ \A c \in Blocks : length'[c] = length[c] /\ End(c)' = End(c)
  <2>1. FreedLength(h) = length[h]
    BY <1>1, <1>4, BlockFacts
       DEF FreedLength, ALLOC_BLOCK_HEADER_SZ, FREE_BLOCK_HEADER_SZ
  <2> QED
    BY <1>1, <1>3, <1>4, <2>1, LinkFacts DEF Blocks, End
<1>8. /\ \A c : c \in AllocBlocks' <=> (c \in AllocBlocks /\ c # h)
      /\ \A c : c \in FreeBlocks' <=> c = h
  BY <1>1, <1>3, <1>4, <1>5, <1>7, BlockFacts, Kinds
     DEF Forget, Restrict, AllocBlocks, FreeBlocks, Body, ALLOC_BLOCK_HEADER_SZ
<1>9. \A c \in Blocks :
        /\ back_free'[c] = IF c = ahead THEN h ELSE IF c = h THEN NULL ELSE back_free[c]
        /\ fwd_free'[c] = IF c = behind THEN h ELSE IF c = h THEN NULL ELSE fwd_free[c]
        /\ back_alloc'[c] = IF c = ahead THEN NULL ELSE back_alloc[c]
        /\ fwd_alloc'[c] = IF c = behind THEN NULL ELSE fwd_alloc[c]
  BY <1>1, <1>3, <1>4, LinkFacts, BlockFacts DEF Store
<1>10. LinkTypes'
  BY <1>1, <1>3, <1>4, <1>7 DEF LinkTypes, TypeOK, Store
<1>11. BackAllocExact'
  BY <1>1, <1>4, <1>6, <1>7, <1>8, <1>9, BlockFacts, LinkFacts, Kinds
     DEF Links, BackAllocExact
<1>12. FwdAllocExact'
  BY <1>1, <1>4, <1>6, <1>7, <1>8, <1>9, BlockFacts, LinkFacts, Kinds
     DEF Links, FwdAllocExact
<1>13. BackFreeExact'
  BY <1>1, <1>4, <1>5, <1>6, <1>7, <1>8, <1>9, BlockFacts, LinkFacts, Kinds
     DEF Links, BackFreeExact
<1>14. FwdFreeExact'
  BY <1>1, <1>4, <1>5, <1>6, <1>7, <1>8, <1>9, BlockFacts, LinkFacts, Kinds
     DEF Links, FwdFreeExact
<1>15. Sorted'
  <2>1. \A c : c \in Listed' <=> c = h
    BY <1>3, <1>8, Kinds DEF Listed
  <2>2. back_free'[h] = NULL /\ fwd_free'[h] = NULL /\ h # NULL /\ h \in Nat
    BY <1>1, <1>4, <1>9, BlockFacts
  <2>3. HeadFirst'
    BY <1>3, <2>1, <2>2 DEF HeadFirst, NULL
  <2>4. NextListed'
    BY <2>1, <2>2 DEF NextListed, NULL
  <2>5. PrevListed'
    BY <2>1, <2>2 DEF PrevListed, NULL
  <2> QED
    BY <2>3, <2>4, <2>5 DEF Sorted
<1>16. LastAllocExact'
  BY <1>1, <1>8, ReleaseLast DEF FreeFirst
<1> QED
  BY <1>10, <1>11, <1>12, <1>13, <1>14, <1>15, <1>16 DEF Structure, Links

(* No free block touches h: only its neighbours learn of it for now. *)
LEMMA FreeIsolatedLinks ==
  ASSUME IInv, NEW h \in AllocBlocks, FreeIsolated(h)
  PROVE  Structure'
<1>1. TypeOK /\ Tiling /\ Coalesced /\ Links /\ Sorted /\ LastAllocExact /\ HeapInv
  BY DEF IInv, HeapInv
<1>2. PICK behind, ahead : behind = back_alloc[h] /\ ahead = fwd_alloc[h]
  OBVIOUS
<1>3. /\ pc = "idle" /\ pc' = "walk" /\ header' = h
      /\ back_free[h] = NULL /\ fwd_free[h] = NULL
      /\ free_block_list' = free_block_list
      /\ held' = Forget(held, {Body(h)})
      /\ length' = [length EXCEPT ![h] = FreedLength(h)]
      /\ back_free' = Store(back_free, ahead, h)
      /\ fwd_free' = Store(fwd_free, behind, h)
      /\ fwd_alloc' = Store(fwd_alloc, behind, NULL)
      /\ back_alloc' = Store(back_alloc, ahead, NULL)
  BY <1>2 DEF FreeIsolated, Release, NeighboursLose
<1>4. /\ h \in Blocks /\ h \notin FreeBlocks
      /\ behind # NULL => behind \in AllocBlocks /\ behind \in Blocks /\ behind # h /\ End(behind) = h
      /\ ahead # NULL => ahead \in AllocBlocks /\ ahead \in Blocks /\ ahead # h /\ ahead = End(h)
  BY <1>1, <1>2, AllocNeighbours, BlockFacts, Kinds
<1>5. \A c \in FreeBlocks : End(h) # c /\ End(c) # h
  BY <1>1, <1>3, AllocNeighbours
<1>6. \A c \in Blocks : (End(h) = c <=> c = ahead) /\ (End(c) = h <=> c = behind)
  BY <1>1, <1>2, <1>4, <1>5, Kinds DEF Links, BackAllocExact, FwdAllocExact
<1>7. /\ Blocks' = Blocks
      /\ \A c \in Blocks : length'[c] = length[c] /\ End(c)' = End(c)
  <2>1. FreedLength(h) = length[h]
    BY <1>1, <1>4, BlockFacts
       DEF FreedLength, ALLOC_BLOCK_HEADER_SZ, FREE_BLOCK_HEADER_SZ
  <2> QED
    BY <1>1, <1>3, <1>4, <2>1, LinkFacts DEF Blocks, End
<1>8. /\ \A c : c \in AllocBlocks' <=> (c \in AllocBlocks /\ c # h)
      /\ \A c : c \in FreeBlocks' <=> (c \in FreeBlocks \/ c = h)
  BY <1>1, <1>3, <1>4, <1>7, BlockFacts, Kinds
     DEF Forget, Restrict, AllocBlocks, FreeBlocks, Body, ALLOC_BLOCK_HEADER_SZ
<1>9. \A c \in Blocks :
        /\ back_free'[c] = IF c = ahead THEN h ELSE back_free[c]
        /\ fwd_free'[c] = IF c = behind THEN h ELSE fwd_free[c]
        /\ back_alloc'[c] = IF c = ahead THEN NULL ELSE back_alloc[c]
        /\ fwd_alloc'[c] = IF c = behind THEN NULL ELSE fwd_alloc[c]
  BY <1>1, <1>3, <1>4, LinkFacts, BlockFacts DEF Store
<1>10. LinkTypes'
  BY <1>1, <1>3, <1>4, <1>7 DEF LinkTypes, TypeOK, Store
<1>11. BackAllocExact'
  BY <1>1, <1>4, <1>6, <1>7, <1>8, <1>9, BlockFacts, LinkFacts, Kinds
     DEF Links, BackAllocExact
<1>12. FwdAllocExact'
  BY <1>1, <1>4, <1>6, <1>7, <1>8, <1>9, BlockFacts, LinkFacts, Kinds
     DEF Links, FwdAllocExact
<1>13. BackFreeExact'
  BY <1>1, <1>4, <1>5, <1>6, <1>7, <1>8, <1>9, BlockFacts, LinkFacts, Kinds
     DEF Links, BackFreeExact
<1>14. FwdFreeExact'
  BY <1>1, <1>4, <1>5, <1>6, <1>7, <1>8, <1>9, BlockFacts, LinkFacts, Kinds
     DEF Links, FwdFreeExact
<1>15. Sorted'
  <2>1. \A c : c \in Listed' <=> c \in Listed
    BY <1>3, <1>4, <1>8, Kinds DEF Listed
  <2>2. \A c \in Listed : back_free'[c] = back_free[c] /\ fwd_free'[c] = fwd_free[c]
    BY <1>1, <1>4, <1>9, BlockFacts, Kinds
  <2> QED
    BY <1>1, <1>3, <2>1, <2>2
       DEF Sorted, HeadFirst, NextListed, PrevListed, NULL
<1>16. LastAllocExact'
  BY <1>1, <1>8, ReleaseLast DEF FreeIsolated
<1> QED
  BY <1>10, <1>11, <1>12, <1>13, <1>14, <1>15, <1>16 DEF Structure, Links

(* h goes into the free block behind it, whose place in the list is kept. *)
LEMMA FreeMergeBackLinks ==
  ASSUME IInv, NEW h \in AllocBlocks, FreeMergeBack(h)
  PROVE  Structure'
<1>1. TypeOK /\ Tiling /\ Coalesced /\ Links /\ Sorted /\ LastAllocExact /\ HeapInv
  BY DEF IInv, HeapInv
<1>2. PICK behind, next : behind = back_free[h] /\ next = fwd_alloc[h]
  OBVIOUS
<1>3. /\ pc = "idle" /\ pc' = "idle"
      /\ behind # NULL /\ fwd_free[h] = NULL
      /\ free_block_list' = free_block_list
      /\ held' = Forget(held, {Body(h)})
      /\ length' = Forget([length EXCEPT ![behind] =
                             @ + ALLOC_BLOCK_HEADER_SZ + length[h]], {h})
      /\ fwd_alloc' = Forget([fwd_alloc EXCEPT ![behind] = next], {h})
      /\ back_free' = Forget(Store(back_free, next, behind), {h})
      /\ back_alloc' = Forget(Store(back_alloc, next, NULL), {h})
      /\ fwd_free' = Forget(fwd_free, {h})
  BY <1>2 DEF FreeMergeBack, Release
<1>4. /\ h \in Blocks /\ h \notin FreeBlocks
      /\ behind \in FreeBlocks /\ behind \in Blocks /\ behind # h /\ End(behind) = h
      /\ behind < h
      /\ next # NULL => next \in AllocBlocks /\ next \in Blocks /\ next # h /\ next = End(h)
  BY <1>1, <1>2, <1>3, AllocNeighbours, BlockFacts, Kinds
<1>5. \A c \in FreeBlocks : End(h) # c /\ End(c) # behind
  BY <1>1, <1>3, <1>4, AllocNeighbours DEF Coalesced
<1>6. \A c \in Blocks : (End(h) = c <=> c = next) /\ (End(c) = h <=> c = behind)
  BY <1>1, <1>2, <1>4, <1>5, BlockFacts, Kinds DEF Links, FwdAllocExact
<1>7. /\ \A c : c \in Blocks' <=> c \in Blocks /\ c # h
      /\ \A c \in Blocks' :
           length'[c] = IF c = behind THEN length[behind] + HeaderSize + length[h]
                        ELSE length[c]
  BY <1>1, <1>3, <1>4, LinkFacts
     DEF Blocks, Forget, Restrict, ALLOC_BLOCK_HEADER_SZ
<1>8. /\ End(behind)' = End(h)
      /\ \A c \in Blocks' : c # behind => End(c)' = End(c)
  BY <1>1, <1>4, <1>7, BlockFacts DEF End
<1>9. /\ \A c : c \in AllocBlocks' <=> (c \in AllocBlocks /\ c # h)
      /\ \A c : c \in FreeBlocks' <=> c \in FreeBlocks
  BY <1>1, <1>3, <1>4, <1>7, BlockFacts, Kinds
     DEF Forget, Restrict, AllocBlocks, FreeBlocks, Body, ALLOC_BLOCK_HEADER_SZ
<1>10. \A c \in Blocks' :
         /\ back_free'[c] = IF c = next THEN behind ELSE back_free[c]
         /\ fwd_free'[c] = fwd_free[c]
         /\ back_alloc'[c] = IF c = next THEN NULL ELSE back_alloc[c]
         /\ fwd_alloc'[c] = IF c = behind THEN next ELSE fwd_alloc[c]
  BY <1>1, <1>3, <1>4, <1>7, LinkFacts, BlockFacts DEF Store, Forget, Restrict
<1>11. BackAllocExact'
  BY <1>1, <1>4, <1>6, <1>7, <1>8, <1>9, <1>10, BlockFacts, LinkFacts, Kinds
     DEF Links, BackAllocExact
<1>12. FwdAllocExact'
  BY <1>1, <1>4, <1>6, <1>7, <1>8, <1>9, <1>10, BlockFacts, LinkFacts, Kinds
     DEF Links, FwdAllocExact
<1>13. BackFreeExact'
  BY <1>1, <1>4, <1>5, <1>6, <1>7, <1>8, <1>9, <1>10, BlockFacts, LinkFacts,
     Kinds
     DEF Links, BackFreeExact
<1>14. FwdFreeExact'
  BY <1>1, <1>4, <1>5, <1>6, <1>7, <1>8, <1>9, <1>10, BlockFacts, LinkFacts,
     Kinds
     DEF Links, FwdFreeExact
<1>15. LinkTypes'
  <2>1. \A c \in Blocks' :
          /\ back_free'[c] \in Blocks' \cup {NULL} /\ fwd_free'[c] \in Blocks' \cup {NULL}
          /\ back_alloc'[c] \in Blocks' \cup {NULL} /\ fwd_alloc'[c] \in Blocks' \cup {NULL}
    <3> SUFFICES ASSUME NEW c \in Blocks'
                 PROVE  /\ back_free'[c] \in Blocks' \cup {NULL}
                        /\ fwd_free'[c] \in Blocks' \cup {NULL}
                        /\ back_alloc'[c] \in Blocks' \cup {NULL}
                        /\ fwd_alloc'[c] \in Blocks' \cup {NULL}
      OBVIOUS
    <3>1. back_free'[c] \in Blocks' \cup {NULL} /\ fwd_free'[c] \in Blocks' \cup {NULL}
      BY <1>1, <1>3, <1>4, <1>7, <1>10, FreeLinks, Kinds
    <3>2. back_alloc'[c] \in Blocks' \cup {NULL}
      BY <1>1, <1>4, <1>6, <1>7, <1>10, LinkFacts, SMTT(20)
         DEF Links, BackAllocExact
    <3>3. fwd_alloc'[c] \in Blocks' \cup {NULL}
      BY <1>1, <1>4, <1>6, <1>7, <1>10, LinkFacts DEF Links, FwdAllocExact
    <3> QED
      BY <3>1, <3>2, <3>3
  <2>2. /\ back_free' = [c \in Blocks' |-> back_free'[c]]
        /\ fwd_free' = [c \in Blocks' |-> fwd_free'[c]]
        /\ back_alloc' = [c \in Blocks' |-> back_alloc'[c]]
        /\ fwd_alloc' = [c \in Blocks' |-> fwd_alloc'[c]]
    BY <1>1, <1>3, <1>4, <1>7, LinkFacts DEF Forget, Restrict, Store
  <2> QED
    BY <2>1, <2>2 DEF LinkTypes, NULL
<1>16. Sorted'
  <2>1. \A c : c \in Listed' <=> c \in Listed
    BY <1>3, <1>9, Kinds DEF Listed
  <2>2. \A c \in Listed : back_free'[c] = back_free[c] /\ fwd_free'[c] = fwd_free[c]
    BY <1>1, <1>4, <1>7, <1>10, BlockFacts, Kinds
  <2> QED
    BY <1>1, <1>3, <2>1, <2>2
       DEF Sorted, HeadFirst, NextListed, PrevListed, NULL
<1>17. LastAllocExact'
  BY <1>1, <1>9, ReleaseLast DEF FreeMergeBack
<1> QED
  BY <1>11, <1>12, <1>13, <1>14, <1>15, <1>16, <1>17 DEF Structure, Links

(* The free block ahead goes into h, which takes its place in the list. *)
LEMMA FreeMergeFwdLinks ==
  ASSUME IInv, NEW h \in AllocBlocks, FreeMergeFwd(h)
  PROVE  Structure'
<1>1. TypeOK /\ Tiling /\ Coalesced /\ Links /\ Sorted /\ LastAllocExact /\ HeapInv
  BY DEF IInv, HeapInv
<1>2. PICK ahead, prev, nxt, next, behind :
        /\ ahead = fwd_free[h]
        /\ prev = back_free[ahead] /\ nxt = fwd_free[ahead]
        /\ next = fwd_alloc[ahead] /\ behind = back_alloc[h]
  OBVIOUS
<1>3. /\ pc = "idle" /\ pc' = "idle"
      /\ back_free[h] = NULL /\ ahead # NULL
      /\ held' = Forget(held, {Body(h)})
      /\ length' = Forget([length EXCEPT ![h] =
                             @ + FREE_BLOCK_HEADER_SZ + length[ahead]], {ahead})
      /\ free_block_list' = IF prev # NULL THEN free_block_list ELSE h
      /\ back_free' = Forget(Store(Store([back_free EXCEPT ![h] = prev], nxt, h),
                                   next, h), {ahead})
      /\ fwd_free' = Forget(Store(Store([fwd_free EXCEPT ![h] = nxt], prev, h),
                                  behind, h), {ahead})
      /\ fwd_alloc' = Forget(Store([fwd_alloc EXCEPT ![h] = next],
                                   behind, NULL), {ahead})
      /\ back_alloc' = Forget(back_alloc, {ahead})
  BY <1>2 DEF FreeMergeFwd, Release
<1>4. /\ h \in Blocks /\ h \notin FreeBlocks
      /\ ahead \in FreeBlocks /\ ahead \in Blocks /\ ahead \in Listed
      /\ ahead # h /\ ahead = End(h) /\ h < ahead
      /\ behind # NULL => behind \in AllocBlocks /\ behind \in Blocks /\ behind # h
                          /\ behind # ahead /\ End(behind) = h
      /\ next # NULL => next \in AllocBlocks /\ next \in Blocks /\ next # h
                        /\ next # ahead /\ next = End(ahead)
      /\ prev # NULL => prev \in FreeBlocks /\ prev \in Blocks /\ prev # ahead
      /\ nxt # NULL => nxt \in FreeBlocks /\ nxt \in Blocks /\ nxt # ahead
  <2>1. /\ h \in Blocks /\ h \notin FreeBlocks
        /\ ahead \in FreeBlocks /\ ahead \in Blocks /\ ahead \in Listed
        /\ ahead # h /\ ahead = End(h) /\ h < ahead
        /\ behind # NULL => behind \in AllocBlocks /\ behind \in Blocks /\ behind # h
                            /\ behind # ahead /\ End(behind) = h
    BY <1>1, <1>2, <1>3, AllocNeighbours, BlockFacts, Kinds
  <2>2. next # NULL => next \in AllocBlocks /\ next \in Blocks /\ next # h
                       /\ next # ahead /\ next = End(ahead)
    BY <1>1, <1>2, <2>1, FreeEnd, BlockFacts, Kinds
  <2>3. /\ prev # NULL => prev \in FreeBlocks /\ prev \in Blocks /\ prev # ahead
        /\ nxt # NULL => nxt \in FreeBlocks /\ nxt \in Blocks /\ nxt # ahead
    BY <1>1, <1>2, <2>1, BlockFacts, Kinds DEF Sorted, PrevListed, NextListed
  <2> QED
    BY <2>1, <2>2, <2>3
<1>5. \A c \in FreeBlocks : End(c) # h /\ End(ahead) # c
  BY <1>1, <1>3, <1>4, AllocNeighbours DEF Coalesced
<1>6. \A c \in Blocks : /\ (End(c) = h <=> c = behind)
                        /\ (End(ahead) = c <=> c = next)
                        /\ (End(c) = ahead <=> c = h)
  BY <1>1, <1>2, <1>4, <1>5, BlockFacts, Kinds
     DEF Links, BackAllocExact, FwdAllocExact
<1>7. /\ \A c : c \in Blocks' <=> c \in Blocks /\ c # ahead
      /\ \A c \in Blocks' :
           length'[c] = IF c = h THEN length[h] + HeaderSize + length[ahead]
                        ELSE length[c]
  BY <1>1, <1>3, <1>4, LinkFacts
     DEF Blocks, Forget, Restrict, FREE_BLOCK_HEADER_SZ
<1>8. /\ End(h)' = End(ahead)
      /\ \A c \in Blocks' : c # h => End(c)' = End(c)
  BY <1>1, <1>4, <1>7, BlockFacts DEF End
<1>9. /\ \A c : c \in AllocBlocks' <=> (c \in AllocBlocks /\ c # h)
      /\ \A c : c \in FreeBlocks' <=> ((c \in FreeBlocks /\ c # ahead) \/ c = h)
  BY <1>1, <1>3, <1>4, <1>7, BlockFacts, Kinds
     DEF Forget, Restrict, AllocBlocks, FreeBlocks, Body, ALLOC_BLOCK_HEADER_SZ
<1>10. /\ \A c \in FreeBlocks' :
            /\ back_free'[c] = IF c = h THEN prev ELSE IF c = nxt THEN h ELSE back_free[c]
            /\ fwd_free'[c] = IF c = h THEN nxt ELSE IF c = prev THEN h ELSE fwd_free[c]
       /\ \A c \in AllocBlocks' :
            /\ back_free'[c] = IF c = next THEN h ELSE back_free[c]
            /\ fwd_free'[c] = IF c = behind THEN h ELSE fwd_free[c]
       /\ \A c \in Blocks' :
            /\ back_alloc'[c] = back_alloc[c]
            /\ fwd_alloc'[c] = IF c = h THEN next
                               ELSE IF c = behind THEN NULL ELSE fwd_alloc[c]
  <2>1. \A c \in Blocks' :
          /\ back_free'[c] = IF c = next /\ next # NULL THEN h
                             ELSE IF c = nxt /\ nxt # NULL THEN h
                             ELSE IF c = h THEN prev ELSE back_free[c]
          /\ fwd_free'[c] = IF c = behind /\ behind # NULL THEN h
                            ELSE IF c = prev /\ prev # NULL THEN h
                            ELSE IF c = h THEN nxt ELSE fwd_free[c]
          /\ back_alloc'[c] = back_alloc[c]
          /\ fwd_alloc'[c] = IF c = behind /\ behind # NULL THEN NULL
                             ELSE IF c = h THEN next ELSE fwd_alloc[c]
    BY <1>1, <1>3, <1>4, <1>7, LinkFacts, BlockFacts DEF Store, Forget, Restrict
  <2> QED
    BY <1>1, <1>4, <1>7, <1>9, <2>1, BlockFacts, Kinds
<1>11. BackAllocExact'
  BY <1>1, <1>4, <1>6, <1>7, <1>8, <1>9, <1>10, BlockFacts, LinkFacts, Kinds
     DEF Links, BackAllocExact
<1>12. FwdAllocExact'
  BY <1>1, <1>4, <1>6, <1>7, <1>8, <1>9, <1>10, BlockFacts, LinkFacts, Kinds
     DEF Links, FwdAllocExact
<1>13. BackFreeExact'
  BY <1>1, <1>4, <1>5, <1>6, <1>7, <1>8, <1>9, <1>10, BlockFacts, LinkFacts,
     Kinds
     DEF Links, BackFreeExact
<1>14. FwdFreeExact'
  BY <1>1, <1>4, <1>5, <1>6, <1>7, <1>8, <1>9, <1>10, BlockFacts, LinkFacts,
     Kinds
     DEF Links, FwdFreeExact
<1>15. Sorted'
  <2>1. \A c : c \in Listed' <=> ((c \in Listed /\ c # ahead) \/ c = h)
    BY <1>3, <1>9, Kinds DEF Listed
  <2>2. \A c \in Listed' : c \in FreeBlocks'
    BY <1>3, Kinds DEF Listed
  <2>3. \A c \in Listed : c < h \/ ahead <= c
    BY <1>1, <1>4, BlockFacts, Kinds
  <2>4. h \in Nat /\ h # NULL /\ h \notin Listed
    BY <1>1, <1>4, BlockFacts, Kinds
  <2>5. \A c \in Listed' :
          /\ back_free'[c] = IF c = h THEN back_free[ahead]
                             ELSE IF c = fwd_free[ahead] THEN h ELSE back_free[c]
          /\ fwd_free'[c] = IF c = h THEN fwd_free[ahead]
                            ELSE IF c = back_free[ahead] THEN h ELSE fwd_free[c]
    BY <1>2, <1>10, <2>2
  <2>6. free_block_list' = IF back_free[ahead] # NULL THEN free_block_list ELSE h
    BY <1>2, <1>3
  <2> QED
    BY <1>1, <1>4, <2>1, <2>3, <2>4, <2>5, <2>6, ListReplace
<1>16. LinkTypes'
  <2>1. \A c \in Blocks' :
          /\ back_free'[c] \in Blocks' \cup {NULL} /\ fwd_free'[c] \in Blocks' \cup {NULL}
          /\ back_alloc'[c] \in Blocks' \cup {NULL} /\ fwd_alloc'[c] \in Blocks' \cup {NULL}
    <3> SUFFICES ASSUME NEW c \in Blocks'
                 PROVE  /\ back_free'[c] \in Blocks' \cup {NULL}
                        /\ fwd_free'[c] \in Blocks' \cup {NULL}
                        /\ back_alloc'[c] \in Blocks' \cup {NULL}
                        /\ fwd_alloc'[c] \in Blocks' \cup {NULL}
      OBVIOUS
    <3>1. \A v \in Listed' : v \in Blocks'
      BY Kinds DEF Listed, FreeBlocks
    <3>2. back_free'[c] \in Blocks' \cup {NULL}
      <4>1. CASE c \in Listed'
        BY <4>1, <3>1, <1>15 DEF Sorted, PrevListed, NULL
      <4>2. CASE c \in AllocBlocks'
        BY <4>2, <1>1, <1>4, <1>6, <1>7, <1>9, <1>10, AllocNeighbours, Kinds
      <4> QED
        BY <4>1, <4>2, <1>3 DEF Listed, FreeBlocks
    <3>3. fwd_free'[c] \in Blocks' \cup {NULL}
      <4>1. CASE c \in Listed'
        BY <4>1, <3>1, <1>15 DEF Sorted, NextListed, NULL
      <4>2. CASE c \in AllocBlocks'
        BY <4>2, <1>1, <1>4, <1>6, <1>7, <1>9, <1>10, AllocNeighbours, Kinds
      <4> QED
        BY <4>1, <4>2, <1>3 DEF Listed, FreeBlocks
    <3>4. back_alloc'[c] \in Blocks' \cup {NULL}
      BY <1>1, <1>4, <1>6, <1>7, <1>10, LinkFacts, Kinds
         DEF Links, BackAllocExact
    <3>5. fwd_alloc'[c] \in Blocks' \cup {NULL}
      BY <1>1, <1>4, <1>6, <1>7, <1>10, LinkFacts, Kinds
         DEF Links, FwdAllocExact
    <3> QED
      BY <3>2, <3>3, <3>4, <3>5
  <2>2. /\ back_free' = [c \in Blocks' |-> back_free'[c]]
        /\ fwd_free' = [c \in Blocks' |-> fwd_free'[c]]
        /\ back_alloc' = [c \in Blocks' |-> back_alloc'[c]]
        /\ fwd_alloc' = [c \in Blocks' |-> fwd_alloc'[c]]
    BY <1>1, <1>3, <1>4, <1>7, LinkFacts DEF Forget, Restrict, Store
  <2> QED
    BY <2>1, <2>2 DEF LinkTypes, NULL
<1>17. LastAllocExact'
  BY <1>1, <1>9, ReleaseLast DEF FreeMergeFwd
<1> QED
  BY <1>11, <1>12, <1>13, <1>14, <1>15, <1>16, <1>17 DEF Structure, Links

(* Free on both sides: h and the block ahead go into the one behind. *)
LEMMA FreeDoubleMergeLinks ==
  ASSUME IInv, NEW h \in AllocBlocks, FreeDoubleMerge(h)
  PROVE  Structure'
<1>1. TypeOK /\ Tiling /\ Coalesced /\ Links /\ Sorted /\ LastAllocExact /\ HeapInv
  BY DEF IInv, HeapInv
<1>2. PICK behind, ahead, nxt, next :
        /\ behind = back_free[h] /\ ahead = fwd_free[h]
        /\ nxt = fwd_free[ahead] /\ next = fwd_alloc[ahead]
  OBVIOUS
<1>3. /\ pc = "idle" /\ pc' = "idle"
      /\ behind # NULL /\ ahead # NULL
      /\ free_block_list' = free_block_list
      /\ held' = Forget(held, {Body(h)})
      /\ length' = Forget([length EXCEPT ![behind] =
                             @ + ALLOC_BLOCK_HEADER_SZ + length[h]
                               + FREE_BLOCK_HEADER_SZ + length[ahead]], {h, ahead})
      /\ fwd_free' = Forget([fwd_free EXCEPT ![behind] = nxt], {h, ahead})
      /\ back_free' = Forget(Store(Store(back_free, next, behind), nxt, behind),
                             {h, ahead})
      /\ fwd_alloc' = Forget([fwd_alloc EXCEPT ![behind] = next], {h, ahead})
      /\ back_alloc' = Forget(back_alloc, {h, ahead})
  BY <1>2 DEF FreeDoubleMerge, Release
<1>4. /\ h \in Blocks /\ h \notin FreeBlocks
      /\ ahead \in FreeBlocks /\ ahead \in Blocks /\ ahead \in Listed
      /\ behind \in FreeBlocks /\ behind \in Blocks /\ behind \in Listed
      /\ ahead = End(h) /\ End(behind) = h /\ behind < h /\ h < ahead
      /\ next # NULL => next \in AllocBlocks /\ next \in Blocks /\ next # h
                        /\ next = End(ahead)
      /\ nxt # NULL => nxt \in FreeBlocks /\ nxt \in Blocks /\ nxt # ahead /\ nxt # behind
      /\ back_free[ahead] = behind
  <2>1. /\ h \in Blocks /\ h \notin FreeBlocks
        /\ ahead \in FreeBlocks /\ ahead \in Blocks /\ ahead \in Listed
        /\ behind \in FreeBlocks /\ behind \in Blocks /\ behind \in Listed
        /\ ahead = End(h) /\ End(behind) = h /\ behind < h /\ h < ahead
    BY <1>1, <1>2, <1>3, AllocNeighbours, BlockFacts, Kinds
  <2>2. next # NULL => next \in AllocBlocks /\ next \in Blocks /\ next # h
                       /\ next = End(ahead)
    BY <1>1, <1>2, <2>1, FreeEnd, BlockFacts, Kinds
  <2>3. nxt # NULL => nxt \in FreeBlocks /\ nxt \in Blocks /\ ahead < nxt
    BY <1>1, <1>2, <2>1, Kinds DEF Sorted, NextListed
  <2>4. nxt # NULL => nxt # ahead /\ nxt # behind
    BY <1>1, <2>1, <2>3, BlockFacts
  <2>5. back_free[ahead] = behind
    <3>1. PICK v : v = back_free[ahead]
      OBVIOUS
    <3>2. v # NULL
      BY <1>1, <2>1, <3>1, BlockFacts DEF Sorted, PrevListed
    <3>3. v \in Listed /\ v < ahead /\ \A c \in Listed : c <= v \/ ahead <= c
      BY <1>1, <2>1, <3>1, <3>2 DEF Sorted, PrevListed
    <3>4. v \in Blocks /\ v # h /\ behind <= v
      BY <1>1, <2>1, <3>3, BlockFacts, Kinds
    <3>5. v <= behind
      BY <1>1, <2>1, <3>3, <3>4, BlockFacts
    <3> QED
      BY <1>1, <2>1, <3>1, <3>4, <3>5, BlockFacts
  <2> QED
    BY <2>1, <2>2, <2>3, <2>4, <2>5
<1>5. \A c \in FreeBlocks : End(c) # behind /\ End(ahead) # c
  BY <1>1, <1>4 DEF Coalesced
<1>6. \A c \in Blocks : /\ (End(c) = h <=> c = behind)
                        /\ (End(ahead) = c <=> c = next)
                        /\ (End(c) = ahead <=> c = h)
  BY <1>1, <1>2, <1>4, <1>5, BlockFacts, Kinds DEF Links, FwdAllocExact
<1>7. /\ \A c : c \in Blocks' <=> c \in Blocks /\ c # h /\ c # ahead
      /\ \A c \in Blocks' :
           length'[c] = IF c = behind
                          THEN length[behind] + HeaderSize + length[h]
                                 + HeaderSize + length[ahead]
                          ELSE length[c]
  BY <1>1, <1>3, <1>4, LinkFacts
     DEF Blocks, Forget, Restrict, ALLOC_BLOCK_HEADER_SZ, FREE_BLOCK_HEADER_SZ
<1>8. /\ End(behind)' = End(ahead)
      /\ \A c \in Blocks' : c # behind => End(c)' = End(c)
  <2>1. /\ behind \in Blocks' /\ behind # h /\ behind # ahead
        /\ length'[behind] = length[behind] + HeaderSize + length[h]
                               + HeaderSize + length[ahead]
    BY <1>1, <1>4, <1>7, BlockFacts
  <2>2. End(ahead) = behind + HeaderSize + length[behind] + HeaderSize + length[h]
                       + HeaderSize + length[ahead]
    BY <1>1, <1>4, BlockFacts
  <2> QED
    BY <1>1, <1>4, <1>7, <2>1, <2>2, BlockFacts DEF End
<1>9. /\ \A c : c \in AllocBlocks' <=> (c \in AllocBlocks /\ c # h)
      /\ \A c : c \in FreeBlocks' <=> (c \in FreeBlocks /\ c # ahead)
  BY <1>1, <1>3, <1>4, <1>7, BlockFacts, Kinds
     DEF Forget, Restrict, AllocBlocks, FreeBlocks, Body, ALLOC_BLOCK_HEADER_SZ
<1>10. /\ \A c \in FreeBlocks' :
            /\ back_free'[c] = IF c = nxt THEN behind ELSE back_free[c]
            /\ fwd_free'[c] = IF c = behind THEN nxt ELSE fwd_free[c]
       /\ \A c \in AllocBlocks' :
            /\ back_free'[c] = IF c = next THEN behind ELSE back_free[c]
            /\ fwd_free'[c] = fwd_free[c]
       /\ \A c \in Blocks' :
            /\ back_alloc'[c] = back_alloc[c]
            /\ fwd_alloc'[c] = IF c = behind THEN next ELSE fwd_alloc[c]
  <2>1. \A c \in Blocks' :
          /\ back_free'[c] = IF c = nxt /\ nxt # NULL THEN behind
                             ELSE IF c = next /\ next # NULL THEN behind
                             ELSE back_free[c]
          /\ fwd_free'[c] = IF c = behind THEN nxt ELSE fwd_free[c]
          /\ back_alloc'[c] = back_alloc[c]
          /\ fwd_alloc'[c] = IF c = behind THEN next ELSE fwd_alloc[c]
    BY <1>1, <1>3, <1>4, <1>7, LinkFacts, BlockFacts DEF Store, Forget, Restrict
  <2> QED
    BY <1>1, <1>4, <1>7, <1>9, <2>1, BlockFacts, Kinds
<1>11. BackAllocExact'
  BY <1>1, <1>4, <1>6, <1>7, <1>8, <1>9, <1>10, BlockFacts, LinkFacts, Kinds
     DEF Links, BackAllocExact
<1>12. FwdAllocExact'
  BY <1>1, <1>4, <1>6, <1>7, <1>8, <1>9, <1>10, BlockFacts, LinkFacts, Kinds
     DEF Links, FwdAllocExact
<1>13. BackFreeExact'
  BY <1>1, <1>4, <1>5, <1>6, <1>7, <1>8, <1>9, <1>10, BlockFacts, LinkFacts,
     Kinds
     DEF Links, BackFreeExact
<1>14. FwdFreeExact'
  BY <1>1, <1>4, <1>5, <1>6, <1>7, <1>8, <1>9, <1>10, BlockFacts, LinkFacts,
     Kinds
     DEF Links, FwdFreeExact
<1>15. Sorted'
  <2>1. \A c : c \in Listed' <=> (c \in Listed /\ c # ahead)
    BY <1>3, <1>9, Kinds DEF Listed
  <2>2. \A c \in Listed' : c \in FreeBlocks'
    BY <1>3, Kinds DEF Listed
  <2>3. \A c \in Listed' :
          /\ back_free'[c] = IF c = fwd_free[ahead] THEN back_free[ahead] ELSE back_free[c]
          /\ fwd_free'[c] = IF c = back_free[ahead] THEN fwd_free[ahead] ELSE fwd_free[c]
    BY <1>2, <1>4, <1>10, <2>2
  <2>4. free_block_list' = IF back_free[ahead] # NULL THEN free_block_list
                           ELSE fwd_free[ahead]
    BY <1>3, <1>4
  <2> QED
    BY <1>1, <1>4, <2>1, <2>3, <2>4, ListRemove
<1>16. LinkTypes'
  <2>1. \A c \in Blocks' :
          /\ back_free'[c] \in Blocks' \cup {NULL} /\ fwd_free'[c] \in Blocks' \cup {NULL}
          /\ back_alloc'[c] \in Blocks' \cup {NULL} /\ fwd_alloc'[c] \in Blocks' \cup {NULL}
    <3> SUFFICES ASSUME NEW c \in Blocks'
                 PROVE  /\ back_free'[c] \in Blocks' \cup {NULL}
                        /\ fwd_free'[c] \in Blocks' \cup {NULL}
                        /\ back_alloc'[c] \in Blocks' \cup {NULL}
                        /\ fwd_alloc'[c] \in Blocks' \cup {NULL}
      OBVIOUS
    <3>1. \A v \in Listed' : v \in Blocks'
      BY Kinds DEF Listed, FreeBlocks
    <3>2. back_free'[c] \in Blocks' \cup {NULL}
      <4>1. CASE c \in Listed'
        BY <4>1, <3>1, <1>15 DEF Sorted, PrevListed, NULL
      <4>2. CASE c \in AllocBlocks'
        BY <4>2, <1>1, <1>4, <1>6, <1>7, <1>9, <1>10, AllocNeighbours, Kinds
      <4> QED
        BY <4>1, <4>2, <1>3 DEF Listed, FreeBlocks
    <3>3. fwd_free'[c] \in Blocks' \cup {NULL}
      <4>1. CASE c \in Listed'
        BY <4>1, <3>1, <1>15 DEF Sorted, NextListed, NULL
      <4>2. CASE c \in AllocBlocks'
        BY <4>2, <1>1, <1>4, <1>6, <1>7, <1>9, <1>10, AllocNeighbours, Kinds
      <4> QED
        BY <4>1, <4>2, <1>3 DEF Listed, FreeBlocks
    <3>4. back_alloc'[c] \in Blocks' \cup {NULL}
      BY <1>1, <1>4, <1>6, <1>7, <1>10, LinkFacts, Kinds
         DEF Links, BackAllocExact
    <3>5. fwd_alloc'[c] \in Blocks' \cup {NULL}
      BY <1>1, <1>4, <1>6, <1>7, <1>10, LinkFacts, Kinds
         DEF Links, FwdAllocExact
    <3> QED
      BY <3>2, <3>3, <3>4, <3>5
  <2>2. /\ back_free' = [c \in Blocks' |-> back_free'[c]]
        /\ fwd_free' = [c \in Blocks' |-> fwd_free'[c]]
        /\ back_alloc' = [c \in Blocks' |-> back_alloc'[c]]
        /\ fwd_alloc' = [c \in Blocks' |-> fwd_alloc'[c]]
    BY <1>1, <1>3, <1>4, <1>7, LinkFacts DEF Forget, Restrict, Store
  <2> QED
    BY <2>1, <2>2 DEF LinkTypes, NULL
<1>17. LastAllocExact'
  BY <1>1, <1>9, ReleaseLast DEF FreeDoubleMerge
<1> QED
  BY <1>11, <1>12, <1>13, <1>14, <1>15, <1>16, <1>17 DEF Structure, Links

-----------------------------------------------------------------------------
(* What the walk has found when it ends: where header belongs in the list. *)
LEMMA WalkFound ==
  IInv /\ WalkDone =>
    /\ header \in FreeBlocks
    /\ back_free[header] = NULL /\ fwd_free[header] = NULL
    /\ free_block_list # NULL
    /\ prev_free_block_cursor = NULL => \A c \in Listed : header < c
    /\ prev_free_block_cursor # NULL =>
         /\ prev_free_block_cursor \in Listed /\ prev_free_block_cursor < header
         /\ \A c \in Listed : c <= prev_free_block_cursor \/ header < c
<1> SUFFICES ASSUME IInv, WalkDone
             PROVE  /\ prev_free_block_cursor = NULL => \A c \in Listed : header < c
                    /\ prev_free_block_cursor # NULL =>
                         /\ prev_free_block_cursor \in Listed
                         /\ prev_free_block_cursor < header
                         /\ \A c \in Listed : c <= prev_free_block_cursor \/ header < c
  BY DEF IInv, WalkInv, WalkDone
<1>1. /\ pc = "walk" /\ header \in FreeBlocks
      /\ \A c \in FreeBlocks : c \in Nat
      /\ \A c \in Listed : c \in FreeBlocks /\ c # header
  BY DEF IInv, WalkInv, WalkDone, TypeOK, FreeBlocks, Listed
<1>2. CASE prev_free_block_cursor = NULL
  BY <1>1, <1>2 DEF IInv, WalkInv, WalkDone
<1>3. CASE prev_free_block_cursor # NULL
  BY <1>1, <1>3 DEF IInv, WalkInv, LastOf
<1> QED
  BY <1>2, <1>3

(* Inserting h disturbs no link of an allocated block and no other end. *)
LEMMA InsertLinks ==
  ASSUME IInv, WalkDone, NEW prev, NEW nxt,
         prev = prev_free_block_cursor,
         nxt = IF prev = NULL THEN free_block_list ELSE fwd_free[prev],
         pc' = "idle", UNCHANGED <<length, held, back_alloc, fwd_alloc, last_alloc_block>>,
         free_block_list' = IF prev # NULL THEN free_block_list ELSE header,
         back_free' \in [Blocks -> Blocks \cup {NULL}],
         fwd_free' \in [Blocks -> Blocks \cup {NULL}],
         \A c \in Blocks :
           /\ back_free'[c] = IF c = header THEN prev
                              ELSE IF c = nxt THEN header ELSE back_free[c]
           /\ fwd_free'[c] = IF c = header THEN nxt
                             ELSE IF c = prev THEN header ELSE fwd_free[c]
  PROVE  Structure'
<1>1. TypeOK /\ Tiling /\ Links /\ Sorted /\ LastAllocExact /\ pc = "walk"
  BY DEF IInv, HeapInv, WalkDone
<1>2. PICK h : h = header
  OBVIOUS
<1>3. /\ h \in FreeBlocks /\ h \in Blocks
      /\ prev = NULL => \A c \in Listed : h < c
      /\ prev # NULL => /\ prev \in Listed /\ prev < h
                        /\ \A c \in Listed : c <= prev \/ h < c
      /\ free_block_list # NULL
  BY <1>1, <1>2, WalkFound, Kinds
<1>4. nxt # NULL => nxt \in Listed
  BY <1>1, <1>3 DEF Sorted, HeadFirst, NextListed
<1>5. /\ Blocks' = Blocks /\ AllocBlocks' = AllocBlocks /\ FreeBlocks' = FreeBlocks
      /\ \A c \in Blocks : End(c)' = End(c)
  BY DEF Blocks, AllocBlocks, FreeBlocks, Body, End
<1>6. \A c \in AllocBlocks : back_free'[c] = back_free[c] /\ fwd_free'[c] = fwd_free[c]
  BY <1>1, <1>2, <1>3, <1>4, BlockFacts, Kinds
<1>7. LinkTypes'
  BY <1>1, <1>2, <1>3, <1>4, <1>5, LinkFacts, Kinds DEF LinkTypes, TypeOK, NULL
<1>8. Links'
  BY <1>1, <1>5, <1>6, Kinds
     DEF Links, BackAllocExact, FwdAllocExact, BackFreeExact, FwdFreeExact
<1>9. Sorted'
  <2>1. \A c : c \in Listed' <=> (c \in Listed \/ c = h)
    BY <1>1, <1>2, <1>3, <1>5 DEF Listed
  <2>2. h \in Nat /\ h # NULL /\ h \notin Listed /\ \A c \in Listed' : c \in Blocks
    BY <1>1, <1>2, <1>3, <2>1, BlockFacts, Kinds DEF Listed
  <2>3. \A c \in Listed' :
          /\ back_free'[c] = IF c = h THEN prev
                             ELSE IF c = nxt THEN h ELSE back_free[c]
          /\ fwd_free'[c] = IF c = h THEN nxt
                            ELSE IF c = prev THEN h ELSE fwd_free[c]
    BY <1>2, <2>2
  <2>4. free_block_list' = IF prev # NULL THEN free_block_list ELSE h
    BY <1>2
  <2> QED
    BY <1>1, <1>3, <2>1, <2>2, <2>3, <2>4, ListInsert
<1>10. LastAllocExact'
  BY <1>1, <1>5 DEF LastAllocExact
<1> QED
  BY <1>7, <1>8, <1>9, <1>10 DEF Structure

(* The block is linked after the free block that the walk has found. *)
LEMMA FreeInsertAfterLinks ==
  ASSUME IInv, FreeInsertAfter
  PROVE  Structure'
<1>1. PICK prev, nxt : prev = prev_free_block_cursor /\ nxt = fwd_free[prev]
  OBVIOUS
<1>2. /\ WalkDone /\ prev # NULL
      /\ fwd_free' = [fwd_free EXCEPT ![prev] = header,
                                      ![header] = IF nxt # NULL THEN nxt ELSE @]
      /\ back_free' = Store([back_free EXCEPT ![header] = prev], nxt, header)
      /\ free_block_list' = free_block_list
      /\ pc' = "idle"
      /\ UNCHANGED <<length, held, back_alloc, fwd_alloc, last_alloc_block>>
  BY <1>1 DEF FreeInsertAfter, EndWalk
<1>3. TypeOK /\ Tiling /\ Sorted
  BY DEF IInv, HeapInv
<1>4. /\ header \in Blocks /\ header \notin Listed /\ fwd_free[header] = NULL
      /\ prev \in Listed /\ prev \in Blocks
  BY <1>1, <1>2, WalkFound, Kinds DEF WalkDone, Listed
<1>5. nxt # NULL => nxt \in Listed /\ nxt \in Blocks
  BY <1>1, <1>3, <1>4, Kinds DEF Sorted, NextListed
<1>6. \A c \in Blocks :
        /\ back_free'[c] = IF c = header THEN prev
                           ELSE IF c = nxt THEN header ELSE back_free[c]
        /\ fwd_free'[c] = IF c = header THEN nxt
                          ELSE IF c = prev THEN header ELSE fwd_free[c]
  BY <1>2, <1>3, <1>4, <1>5, BlockFacts, LinkFacts, Kinds DEF Store
<1>7. /\ back_free' \in [Blocks -> Blocks \cup {NULL}]
      /\ fwd_free' \in [Blocks -> Blocks \cup {NULL}]
  BY <1>2, <1>3, <1>4, <1>5 DEF TypeOK, Store
<1>8. nxt = IF prev = NULL THEN free_block_list ELSE fwd_free[prev]
  BY <1>1, <1>2
<1>9. free_block_list' = IF prev # NULL THEN free_block_list ELSE header
  BY <1>2
<1>10. /\ WalkDone /\ prev = prev_free_block_cursor /\ pc' = "idle"
       /\ UNCHANGED <<length, held, back_alloc, fwd_alloc, last_alloc_block>>
  BY <1>1, <1>2
<1> QED
  BY <1>6, <1>7, <1>8, <1>9, <1>10, InsertLinks

(* The block is linked first, where the walk has found none before it. *)
LEMMA FreeInsertFirstLinks ==
  ASSUME IInv, FreeInsertFirst
  PROVE  Structure'
<1>1. PICK nxt : nxt = free_block_list
  OBVIOUS
<1>2. /\ WalkDone /\ prev_free_block_cursor = NULL
      /\ free_block_list' = header
      /\ back_free' = [back_free EXCEPT ![nxt] = header]
      /\ fwd_free' = [fwd_free EXCEPT ![header] = nxt]
      /\ pc' = "idle"
      /\ UNCHANGED <<length, held, back_alloc, fwd_alloc, last_alloc_block>>
  BY <1>1 DEF FreeInsertFirst, EndWalk
<1>3. TypeOK /\ Tiling /\ Sorted
  BY DEF IInv, HeapInv
<1>4. /\ header \in Blocks /\ header \notin Listed /\ back_free[header] = NULL
      /\ nxt # NULL /\ nxt \in Listed /\ nxt \in Blocks
  BY <1>1, <1>2, <1>3, WalkFound, Kinds DEF WalkDone, Listed, Sorted, HeadFirst
<1>5. \A c \in Blocks :
        /\ fwd_free'[c] = IF c = header THEN nxt
                          ELSE IF c = NULL THEN header ELSE fwd_free[c]
        /\ back_free'[c] = IF c = header THEN NULL
                           ELSE IF c = nxt THEN header ELSE back_free[c]
  BY <1>2, <1>3, <1>4, BlockFacts, LinkFacts, Kinds
<1>6. /\ back_free' \in [Blocks -> Blocks \cup {NULL}]
      /\ fwd_free' \in [Blocks -> Blocks \cup {NULL}]
  BY <1>2, <1>3, <1>4 DEF TypeOK
<1>7. PICK prev : prev = prev_free_block_cursor /\ prev = NULL
  BY <1>2
<1>8. /\ nxt = IF prev = NULL THEN free_block_list ELSE fwd_free[prev]
      /\ free_block_list' = IF prev # NULL THEN free_block_list ELSE header
  BY <1>1, <1>2, <1>7
<1>9. \A c \in Blocks :
        /\ back_free'[c] = IF c = header THEN prev
                           ELSE IF c = nxt THEN header ELSE back_free[c]
        /\ fwd_free'[c] = IF c = header THEN nxt
                          ELSE IF c = prev THEN header ELSE fwd_free[c]
  BY <1>5, <1>7
<1> QED
  BY <1>2, <1>6, <1>7, <1>8, <1>9, InsertLinks

=============================================================================
