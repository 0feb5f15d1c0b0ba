--------------------------- MODULE FirstFitProofs ---------------------------
(***************************************************************************)
(* What FirstFit guarantees for every header size, heap start, set of      *)
(* sizes and bound, as long as no request overflows (NoOverflow): the      *)
(* shape of the heap, and the contract with clients.                       *)
(*                                                                         *)
(* The invariants of the TLC run are inductive together, not one by one:   *)
(* a block stays coalesced only on a tiled heap, and what a client holds   *)
(* stays usable only because no merge takes in an allocated block.         *)
(***************************************************************************)
EXTENDS FirstFit, TLAPS

IInv == TypeOK /\ Tiling /\ Coalesced /\ HeldUsable

-----------------------------------------------------------------------------
(* The sum that __malloc computes is exact. *)
LEMMA RealSize ==
  NoOverflow =>
    \A size \in Sizes : size \in Nat /\ real_size(size) = HeaderSize + size
BY SizesAssumption, HeaderAssumption
   DEF NoOverflow, real_size, ALLOC_BLOCK_HEADER_SZ

(* Blocks are numbers, and none is empty: it holds at least its header. *)
LEMMA BlockFacts ==
  TypeOK =>
    /\ HeaderSize \in Nat /\ HeaderSize > 0
    /\ heap_start \in Nat /\ heap_start > 0
    /\ program_break \in Nat
    /\ \A b \in Blocks : /\ b \in Nat /\ b > 0
                         /\ length[b] \in Nat
                         /\ End(b) \in Nat /\ b < End(b)
                         /\ End(b) = b + HeaderSize + length[b]
                         /\ Body(b) = b + HeaderSize
<1> SUFFICES ASSUME TypeOK
             PROVE  /\ HeaderSize \in Nat /\ HeaderSize > 0
                    /\ heap_start \in Nat /\ heap_start > 0
                    /\ program_break \in Nat
                    /\ \A b \in Blocks : b \in Nat /\ b > 0 /\ length[b] \in Nat
  BY DEF End, Body, ALLOC_BLOCK_HEADER_SZ
<1> QED
  BY HeaderAssumption, HeapStartsAssumption DEF TypeOK, NULL

(* Blocks that end at the same address are one block. *)
LEMMA EndUnique ==
  TypeOK /\ Tiling => \A b, c \in Blocks : End(b) = End(c) => b = c
BY BlockFacts DEF Tiling

LEMMA InitInv == Init => IInv
BY HeapStartsAssumption
   DEF Init, IInv, TypeOK, Tiling, Coalesced, HeldUsable, FreeBlocks, AllocBlocks,
       Blocks, Body, NULL

-----------------------------------------------------------------------------
(* A request cut from the end of the free block b. *)
LEMMA SplitStep ==
  ASSUME NoOverflow, IInv, NEW size \in Sizes, MallocSplit(size)
  PROVE  IInv'
<1>1. PICK b, a :
        /\ b \in FreeBlocks
        /\ Splittable(b, size)
        /\ a = End(b) - real_size(size)
        /\ length' = Put([length EXCEPT ![b] = @ - real_size(size)], a, size)
        /\ held' = Put(held, Body(a), size)
  BY DEF MallocSplit
<1>2. heap_start' = heap_start /\ program_break' = program_break
  BY DEF MallocSplit
<1>3. /\ b \in Blocks
      /\ size \in Nat
      /\ real_size(size) = HeaderSize + size
      /\ length[b] - real_size(size) \in Nat
      /\ a \in Nat /\ b + HeaderSize <= a /\ a < End(b)
      /\ a = b + HeaderSize + (length[b] - real_size(size))
  BY <1>1, RealSize, BlockFacts
     DEF IInv, FreeBlocks, Splittable, FREE_BLOCK_HEADER_SZ,
         ALLOC_BLOCK_HEADER_SZ, MINIMUM_BLOCK_SZ, End
<1>4. a \notin Blocks
  BY <1>3, BlockFacts DEF IInv, Tiling
<1> DEFINE cut == [length EXCEPT ![b] = @ - real_size(size)]
<1>5. /\ DOMAIN cut = Blocks
      /\ \A x \in Blocks : cut[x] = IF x = b THEN length[b] - real_size(size)
                                    ELSE length[x]
  BY <1>3 DEF Blocks, IInv, TypeOK
<1>6. length' = Put(cut, a, size) /\ held' = Put(held, Body(a), size)
  BY <1>1
<1> HIDE DEF cut
<1>7. /\ Blocks' = Blocks \cup {a}
      /\ length'[a] = size
      /\ \A x \in Blocks : length'[x] = cut[x]
  <2>1. DOMAIN length' = Blocks \cup {a}
    BY <1>5, <1>6 DEF Put
  <2>2. \A x \in Blocks \cup {a} : length'[x] = IF x = a THEN size ELSE cut[x]
    BY <1>5, <1>6 DEF Put
  <2> QED
    BY <1>4, <2>1, <2>2 DEF Blocks
<1>8. /\ End(a)' = End(b)
      /\ End(b)' = a
      /\ \A x \in Blocks \ {b} : End(x)' = End(x)
  BY <1>3, <1>5, <1>7, RealSize, BlockFacts DEF End, ALLOC_BLOCK_HEADER_SZ, IInv
<1>9. Body(a) \notin DOMAIN held
  BY <1>3, <1>4, BlockFacts DEF IInv, HeldUsable, Body, ALLOC_BLOCK_HEADER_SZ
<1>10. DOMAIN held' = DOMAIN held \cup {Body(a)}
  BY <1>6 DEF Put
<1>11. \A p \in DOMAIN held' : held'[p] = IF p = Body(a) THEN size ELSE held[p]
  BY <1>6 DEF Put
<1>12. \A x \in Blocks : Body(x) # Body(a)
  BY <1>3, <1>4, BlockFacts DEF Body, ALLOC_BLOCK_HEADER_SZ, IInv
<1>13. FreeBlocks' = FreeBlocks
  BY <1>4, <1>7, <1>10, <1>12 DEF FreeBlocks, AllocBlocks, Body, ALLOC_BLOCK_HEADER_SZ
<1>14. TypeOK'
  <2>1. Blocks' \subseteq Nat \ {NULL} /\ (\A x \in Blocks' : length'[x] \in Nat)
    BY <1>3, <1>5, <1>7, BlockFacts DEF IInv, NULL
  <2>2. length' = [x \in Blocks' |-> length'[x]]
    BY <1>6, <1>7 DEF Put, Blocks
  <2>3. held' = [p \in DOMAIN held' |-> held'[p]]
    BY <1>6 DEF Put
  <2>4. \A p \in DOMAIN held' : held'[p] \in Sizes
    BY <1>10, <1>11 DEF IInv, TypeOK
  <2> QED
    BY <1>2, <2>1, <2>2, <2>3, <2>4 DEF IInv, TypeOK
<1>15. Tiling'
  <2>1. \A x \in Blocks' : heap_start' <= x /\ (End(x) <= program_break)'
    BY <1>2, <1>3, <1>7, <1>8, BlockFacts DEF IInv, Tiling
  <2>2. \A x, y \in Blocks' : x < y => End(x)' <= y
    BY <1>3, <1>4, <1>7, <1>8, BlockFacts DEF IInv, Tiling
  <2>3. \A x \in Blocks' : End(x)' = program_break' \/ End(x)' \in Blocks'
    BY <1>2, <1>3, <1>7, <1>8 DEF IInv, Tiling
  <2>4. ASSUME NEW x \in Blocks', x # heap_start'
        PROVE  \E y \in Blocks' : End(y)' = x
    <3>1. CASE x = a
      BY <3>1, <1>3, <1>7, <1>8
    <3>2. CASE x # a
      <4>1. PICK y \in Blocks : End(y) = x
        BY <3>2, <2>4, <1>2, <1>7 DEF IInv, Tiling
      <4> QED
        BY <4>1, <1>7, <1>8
    <3> QED
      BY <3>1, <3>2
  <2>5. ASSUME program_break' # heap_start'
        PROVE  \E y \in Blocks' : End(y)' = program_break'
    <3>1. PICK y \in Blocks : End(y) = program_break
      BY <2>5, <1>2 DEF IInv, Tiling
    <3> QED
      BY <3>1, <1>2, <1>7, <1>8
  <2> QED
    BY <2>1, <2>2, <2>3, <2>4, <2>5 DEF Tiling
<1>16. Coalesced'
  BY <1>4, <1>8, <1>13 DEF IInv, Coalesced, FreeBlocks
<1>17. HeldUsable'
  <2> SUFFICES ASSUME NEW p \in DOMAIN held'
               PROVE  \E x \in Blocks' : p = Body(x) /\ held'[p] <= length'[x]
    BY DEF HeldUsable, Body, ALLOC_BLOCK_HEADER_SZ
  <2>1. CASE p = Body(a)
    BY <2>1, <1>3, <1>7, <1>11
  <2>2. CASE p # Body(a)
    <3>1. PICK x \in Blocks : p = Body(x) /\ held[p] <= length[x]
      BY <2>2, <1>10 DEF IInv, HeldUsable
    <3>2. x # b
      BY <3>1, <2>2, <1>1, <1>10 DEF FreeBlocks, AllocBlocks
    <3> QED
      BY <3>1, <3>2, <2>2, <1>5, <1>7, <1>11
  <2> QED
    BY <2>1, <2>2
<1> QED
  BY <1>14, <1>15, <1>16, <1>17 DEF IInv

(* The free block b handed out as it is. *)
LEMMA WholeStep ==
  ASSUME NoOverflow, IInv, NEW size \in Sizes, MallocWhole(size)
  PROVE  IInv'
<1>1. PICK b \in FreeBlocks : Fits(b, size) /\ held' = Put(held, Body(b), size)
  BY DEF MallocWhole, FirstFitting
<1>2. heap_start' = heap_start /\ program_break' = program_break /\ length' = length
  BY DEF MallocWhole
<1>3. b \in Blocks /\ Body(b) \notin DOMAIN held
  BY <1>1 DEF FreeBlocks, AllocBlocks
<1>4. size <= length[b]
  BY <1>1, <1>3, RealSize, BlockFacts
     DEF IInv, Fits, FREE_BLOCK_HEADER_SZ, ALLOC_BLOCK_HEADER_SZ
<1>5. DOMAIN held' = DOMAIN held \cup {Body(b)}
  BY <1>1 DEF Put
<1>6. \A p \in DOMAIN held' : held'[p] = IF p = Body(b) THEN size ELSE held[p]
  BY <1>1 DEF Put
<1>7. Blocks' = Blocks /\ \A x \in Blocks : End(x)' = End(x) /\ Body(x)' = Body(x)
  BY <1>2 DEF Blocks, End, Body
<1>8. FreeBlocks' \subseteq FreeBlocks
  BY <1>5, <1>7 DEF FreeBlocks, AllocBlocks
<1>9. TypeOK'
  <2>1. held' = [p \in DOMAIN held' |-> held'[p]]
    BY <1>1 DEF Put
  <2>2. \A p \in DOMAIN held' : held'[p] \in Sizes
    BY <1>5, <1>6 DEF IInv, TypeOK
  <2> QED
    BY <1>2, <1>7, <2>1, <2>2 DEF IInv, TypeOK
<1>10. Tiling'
  BY <1>2, <1>7 DEF IInv, Tiling
<1>11. Coalesced'
  BY <1>7, <1>8 DEF IInv, Coalesced, FreeBlocks
<1>12. HeldUsable'
  BY <1>2, <1>3, <1>4, <1>5, <1>6, <1>7 DEF IInv, HeldUsable
<1> QED
  BY <1>9, <1>10, <1>11, <1>12 DEF IInv

(* The last block b of the heap is free and grows up to the request. *)
LEMMA GrowLastStep ==
  ASSUME NoOverflow, IInv, NEW size \in Sizes, MallocGrowLast(size)
  PROVE  IInv'
<1>1. PICK b \in FreeBlocks :
        /\ End(b) = program_break
        /\ program_break' = b + real_size(size)
        /\ length' = [length EXCEPT ![b] = size]
        /\ held' = Put(held, Body(b), size)
  BY DEF MallocGrowLast
<1>2. heap_start' = heap_start
  BY DEF MallocGrowLast
<1>3. b \in Blocks /\ Body(b) \notin DOMAIN held
  BY <1>1 DEF FreeBlocks, AllocBlocks
<1>4. /\ size \in Nat /\ length[b] < size
      /\ program_break' = b + HeaderSize + size
      /\ program_break' \in Nat /\ program_break < program_break'
  <2>1. ~Fits(b, size) /\ size \in Nat
    BY RealSize DEF MallocGrowLast, NoFit
  <2> QED
    BY <1>1, <1>3, <2>1, RealSize, BlockFacts
       DEF IInv, Fits, FREE_BLOCK_HEADER_SZ, ALLOC_BLOCK_HEADER_SZ
<1>5. DOMAIN held' = DOMAIN held \cup {Body(b)}
  BY <1>1 DEF Put
<1>6. \A p \in DOMAIN held' : held'[p] = IF p = Body(b) THEN size ELSE held[p]
  BY <1>1 DEF Put
<1>7. /\ Blocks' = Blocks
      /\ \A x \in Blocks : length'[x] = IF x = b THEN size ELSE length[x]
  BY <1>1 DEF Blocks, IInv, TypeOK
<1>8. /\ End(b)' = program_break'
      /\ \A x \in Blocks \ {b} : End(x)' = End(x) /\ End(x) <= b
      /\ \A x \in Blocks : Body(x)' = Body(x)
  <2>1. \A x \in Blocks \ {b} : End(x) <= b
    BY <1>1, <1>3, BlockFacts DEF IInv, Tiling
  <2> QED
    BY <1>3, <1>4, <1>7, <2>1 DEF End, Body
<1>9. FreeBlocks' \subseteq FreeBlocks /\ b \notin FreeBlocks'
  BY <1>3, <1>5, <1>7, <1>8 DEF FreeBlocks, AllocBlocks
<1>10. TypeOK'
  <2>1. length' \in [Blocks' -> Nat]
    BY <1>1, <1>4, <1>7 DEF IInv, TypeOK
  <2>2. held' = [p \in DOMAIN held' |-> held'[p]]
    BY <1>1 DEF Put
  <2>3. \A p \in DOMAIN held' : held'[p] \in Sizes
    BY <1>5, <1>6 DEF IInv, TypeOK
  <2> QED
    BY <1>2, <1>4, <1>7, <2>1, <2>2, <2>3 DEF IInv, TypeOK
<1>11. Tiling'
  <2>1. \A x \in Blocks' : heap_start' <= x /\ End(x)' <= program_break'
    BY <1>1, <1>2, <1>3, <1>4, <1>7, <1>8, BlockFacts DEF IInv, Tiling
  <2>2. \A x, y \in Blocks' : x < y => End(x)' <= y
    BY <1>1, <1>3, <1>7, <1>8, BlockFacts DEF IInv, Tiling
  <2>3. \A x \in Blocks' : End(x)' = program_break' \/ End(x)' \in Blocks'
    BY <1>1, <1>3, <1>7, <1>8, BlockFacts DEF IInv, Tiling
  <2>4. \A x \in Blocks' : x = heap_start' \/ \E y \in Blocks' : End(y)' = x
    BY <1>1, <1>2, <1>3, <1>7, <1>8, BlockFacts DEF IInv, Tiling
  <2>5. \E y \in Blocks' : End(y)' = program_break'
    BY <1>3, <1>7, <1>8
  <2> QED
    BY <2>1, <2>2, <2>3, <2>4, <2>5 DEF Tiling
<1>12. Coalesced'
  BY <1>8, <1>9 DEF IInv, Coalesced, FreeBlocks
<1>13. HeldUsable'
  <2> SUFFICES ASSUME NEW p \in DOMAIN held'
               PROVE  \E x \in Blocks' : p = Body(x)' /\ held'[p] <= length'[x]
    BY DEF HeldUsable
  <2>1. CASE p = Body(b)
    BY <2>1, <1>3, <1>4, <1>6, <1>7, <1>8
  <2>2. CASE p # Body(b)
    BY <2>2, <1>5, <1>6, <1>7, <1>8 DEF IInv, HeldUsable
  <2> QED
    BY <2>1, <2>2
<1> QED
  BY <1>10, <1>11, <1>12, <1>13 DEF IInv

(* A new block at the program break. *)
LEMMA AppendStep ==
  ASSUME NoOverflow, IInv, NEW size \in Sizes, MallocAppend(size)
  PROVE  IInv'
<1>1. PICK b : b = program_break
  OBVIOUS
<1>2. /\ heap_start' = heap_start
      /\ program_break' = b + real_size(size)
      /\ length' = Put(length, b, size)
      /\ held' = Put(held, Body(b), size)
      /\ \A x \in FreeBlocks : End(x) # program_break
  BY <1>1 DEF MallocAppend
<1>3. /\ size \in Nat /\ b \in Nat /\ b > 0 /\ b \notin Blocks
      /\ program_break' = b + HeaderSize + size
      /\ program_break' \in Nat /\ b < program_break'
  <2>1. size \in Nat
    BY RealSize
  <2>2. b >= heap_start
    BY <1>1, BlockFacts DEF IInv, Tiling
  <2> QED
    BY <1>1, <1>2, <2>1, <2>2, RealSize, BlockFacts
       DEF IInv, Tiling, ALLOC_BLOCK_HEADER_SZ
<1>4. DOMAIN held' = DOMAIN held \cup {Body(b)}
  BY <1>2 DEF Put
<1>5. \A p \in DOMAIN held' : held'[p] = IF p = Body(b) THEN size ELSE held[p]
  BY <1>2 DEF Put
<1>6. /\ Blocks' = Blocks \cup {b}
      /\ \A x \in Blocks' : length'[x] = IF x = b THEN size ELSE length[x]
  BY <1>2 DEF Blocks, Put
<1>7. /\ End(b)' = program_break'
      /\ \A x \in Blocks : End(x)' = End(x) /\ Body(x)' = Body(x)
      /\ Body(b)' = Body(b)
  BY <1>3, <1>6 DEF End, Body
<1>8. FreeBlocks' \subseteq FreeBlocks
  BY <1>4, <1>6, <1>7 DEF FreeBlocks, AllocBlocks
<1>9. \A x \in Blocks : Body(x) # Body(b)
  BY <1>3, BlockFacts DEF IInv, Body, ALLOC_BLOCK_HEADER_SZ
<1>10. Body(b) \notin DOMAIN held
  BY <1>9 DEF IInv, HeldUsable
<1>11. TypeOK'
  <2>1. length' = [x \in Blocks' |-> length'[x]]
    BY <1>2, <1>6 DEF Put, Blocks
  <2>2. \A x \in Blocks' : length'[x] \in Nat /\ x \in Nat \ {NULL}
    BY <1>3, <1>6, BlockFacts DEF IInv, NULL
  <2>3. held' = [p \in DOMAIN held' |-> held'[p]]
    BY <1>2 DEF Put
  <2>4. \A p \in DOMAIN held' : held'[p] \in Sizes
    BY <1>4, <1>5 DEF IInv, TypeOK
  <2> QED
    BY <1>2, <1>3, <2>1, <2>2, <2>3, <2>4 DEF IInv, TypeOK
<1>12. Tiling'
  <2>1. \A x \in Blocks' : heap_start' <= x /\ End(x)' <= program_break'
    BY <1>1, <1>2, <1>3, <1>6, <1>7, BlockFacts DEF IInv, Tiling
  <2>2. \A x, y \in Blocks' : x < y => End(x)' <= y
    BY <1>1, <1>3, <1>6, <1>7, BlockFacts DEF IInv, Tiling
  <2>3. \A x \in Blocks' : End(x)' = program_break' \/ End(x)' \in Blocks'
    BY <1>1, <1>6, <1>7 DEF IInv, Tiling
  <2>4. \A x \in Blocks' : x = heap_start' \/ \E y \in Blocks' : End(y)' = x
    BY <1>1, <1>2, <1>6, <1>7 DEF IInv, Tiling
  <2>5. \E y \in Blocks' : End(y)' = program_break'
    BY <1>6, <1>7
  <2> QED
    BY <2>1, <2>2, <2>3, <2>4, <2>5 DEF Tiling
<1>13. Coalesced'
  BY <1>7, <1>8 DEF IInv, Coalesced, FreeBlocks
<1>14. HeldUsable'
  <2> SUFFICES ASSUME NEW p \in DOMAIN held'
               PROVE  \E x \in Blocks' : p = Body(x)' /\ held'[p] <= length'[x]
    BY DEF HeldUsable
  <2>1. CASE p = Body(b)
    BY <2>1, <1>3, <1>5, <1>6, <1>7
  <2>2. CASE p # Body(b)
    <3>1. PICK x \in Blocks : p = Body(x) /\ held[p] <= length[x]
      BY <2>2, <1>4 DEF IInv, HeldUsable
    <3> QED
      BY <3>1, <2>2, <1>3, <1>5, <1>6, <1>7
  <2> QED
    BY <2>1, <2>2
<1> QED
  BY <1>11, <1>12, <1>13, <1>14 DEF IInv

(***************************************************************************)
(* Freeing h.  The merged block runs from s to the end of e, and the       *)
(* blocks that go are those that start in between.                         *)
(***************************************************************************)
LEMMA FreeStep ==
  ASSUME IInv, NEW h \in AllocBlocks, Free(h)
  PROVE  IInv'
<1>1. PICK s \in IF Behind(h) = {} THEN {h} ELSE Behind(h),
           e \in IF Ahead(h) = {} THEN {h} ELSE Ahead(h) :
        length' = Forget([length EXCEPT ![s] = End(e) - Body(s)],
                         (Behind(h) \cup {h} \cup Ahead(h)) \ {s})
  BY DEF Free
<1>2. /\ held' = Forget(held, {Body(h)})
      /\ heap_start' = heap_start /\ program_break' = program_break
  BY DEF Free
<1>3. h \in Blocks /\ h \notin FreeBlocks
  BY DEF AllocBlocks, FreeBlocks
<1>4. /\ s \in Blocks /\ e \in Blocks
      /\ s = h \/ (s \in FreeBlocks /\ End(s) = h)
      /\ e = h \/ (e \in FreeBlocks /\ End(h) = e)
      /\ s = h => Behind(h) = {}
      /\ e = h => Ahead(h) = {}
  BY <1>1, <1>3 DEF Behind, Ahead, FreeBlocks
<1>5. Behind(h) \subseteq {s} /\ Ahead(h) \subseteq {e}
  <2>1. \A x \in Behind(h) : x = s
    BY <1>1, <1>3, EndUnique DEF IInv, Behind, FreeBlocks
  <2>2. \A x \in Ahead(h) : x = e
    BY <1>1 DEF Ahead
  <2> QED
    BY <2>1, <2>2
<1>6. /\ s <= h /\ h <= e /\ s < End(e)
      /\ End(e) - Body(s) \in Nat
      /\ \A x \in Blocks : s < x /\ x < End(e) <=> x \in {h, e} \ {s}
  <2>1. s <= h /\ h <= e /\ End(h) <= End(e) /\ h < End(h)
    BY <1>3, <1>4, BlockFacts DEF IInv
  <2>2. End(e) - Body(s) \in Nat
    BY <1>3, <1>4, <2>1, BlockFacts DEF IInv
  <2>3. \A x \in Blocks : s < x /\ x < h => FALSE
    BY <1>3, <1>4, BlockFacts DEF IInv, Tiling
  <2>4. \A x \in Blocks : h < x /\ x < e => FALSE
    BY <1>3, <1>4, BlockFacts DEF IInv, Tiling
  <2>5. \A x \in Blocks : e < x => End(e) <= x
    BY <1>4 DEF IInv, Tiling
  <2>6. s < End(e) /\ e < End(e)
    BY <1>3, <1>4, <2>1, BlockFacts DEF IInv
  <2>7. ASSUME NEW x \in Blocks, s < x, x < End(e)
        PROVE  x \in {h, e} \ {s}
    BY <1>3, <1>4, <2>3, <2>4, <2>5, <2>7, BlockFacts DEF IInv
  <2>8. ASSUME NEW x \in {h, e} \ {s}
        PROVE  s < x /\ x < End(e)
    BY <1>3, <1>4, <2>1, <2>6, <2>8, BlockFacts DEF IInv
  <2> QED
    BY <2>1, <2>2, <2>6, <2>7, <2>8
<1>7. (Behind(h) \cup {h} \cup Ahead(h)) \ {s} = {h, e} \ {s}
  BY <1>1, <1>4, <1>5
<1> DEFINE grown == [length EXCEPT ![s] = End(e) - Body(s)]
           gone == {h, e} \ {s}
<1>8. /\ DOMAIN grown = Blocks
      /\ \A x \in Blocks : grown[x] = IF x = s THEN End(e) - Body(s) ELSE length[x]
  BY <1>4 DEF Blocks, IInv, TypeOK
<1>9. length' = Forget(grown, gone)
  BY <1>1, <1>7
<1> HIDE DEF grown
<1>10. /\ DOMAIN length' = Blocks \ gone
       /\ \A x \in Blocks \ gone : length'[x] = grown[x]
       /\ length' = [x \in Blocks \ gone |-> length'[x]]
  BY <1>8, <1>9 DEF Forget, Restrict
<1>11. /\ Blocks' = Blocks \ gone
       /\ s \in Blocks'
       /\ \A x \in Blocks : x \in Blocks' <=> x <= s \/ End(e) <= x
  BY <1>4, <1>6, <1>10, BlockFacts DEF IInv, Blocks
<1>12. /\ End(s)' = End(e)
       /\ \A x \in Blocks' \ {s} : End(x)' = End(x)
       /\ \A x : Body(x)' = Body(x)
  <2>1. length'[s] = End(e) - Body(s) /\ \A x \in Blocks' \ {s} : length'[x] = length[x]
    BY <1>8, <1>10, <1>11
  <2> QED
    BY <2>1, <1>4, <1>11, BlockFacts DEF IInv, End, Body, ALLOC_BLOCK_HEADER_SZ
<1>13. /\ DOMAIN held' = DOMAIN held \ {Body(h)}
       /\ \A p \in DOMAIN held' : held'[p] = held[p]
  BY <1>2 DEF Forget, Restrict
<1>14. FreeBlocks' \subseteq FreeBlocks \cup {h} /\ FreeBlocks' \subseteq Blocks'
  <2> SUFFICES ASSUME NEW x \in FreeBlocks'
               PROVE  x \in Blocks' /\ (x \in FreeBlocks \/ x = h)
    OBVIOUS
  <2>1. x \in Blocks' /\ x \in Blocks /\ Body(x) \notin DOMAIN held'
    BY <1>11, <1>12 DEF FreeBlocks, AllocBlocks
  <2>2. Body(x) = Body(h) => x = h
    BY <2>1, <1>3, BlockFacts DEF IInv
  <2> QED
    BY <2>1, <2>2, <1>13 DEF FreeBlocks, AllocBlocks
<1>15. TypeOK'
  <2>1. \A x \in Blocks' : x \in Nat \ {NULL} /\ length'[x] \in Nat
    BY <1>6, <1>8, <1>10, <1>11, BlockFacts DEF IInv, NULL
  <2>2. held' = [p \in DOMAIN held' |-> held'[p]]
    BY <1>2 DEF Forget, Restrict
  <2>3. \A p \in DOMAIN held' : held'[p] \in Sizes
    BY <1>13 DEF IInv, TypeOK
  <2>4. length' = [x \in Blocks' |-> length'[x]]
    BY <1>10, <1>11
  <2> QED
    BY <1>2, <2>1, <2>2, <2>3, <2>4 DEF IInv, TypeOK
<1>16. Tiling'
  <2>1. \A x \in Blocks' : heap_start' <= x /\ End(x)' <= program_break'
    BY <1>2, <1>4, <1>11, <1>12 DEF IInv, Tiling
  <2>2. \A x, y \in Blocks' : x < y => End(x)' <= y
    BY <1>4, <1>6, <1>11, <1>12, BlockFacts DEF IInv, Tiling
  <2>3. \A x \in Blocks' : End(x)' = program_break' \/ End(x)' \in Blocks'
    <3> SUFFICES ASSUME NEW x \in Blocks', End(x)' # program_break
                 PROVE  End(x)' \in Blocks'
      BY <1>2
    <3>1. CASE x = s
      BY <3>1, <1>4, <1>6, <1>11, <1>12, BlockFacts DEF IInv, Tiling
    <3>2. CASE x # s
      <4>1. x \in Blocks /\ End(x)' = End(x) /\ End(x) \in Blocks
        BY <3>2, <1>11, <1>12 DEF IInv, Tiling
      <4>2. x < s => End(x) <= s
        BY <4>1, <1>4 DEF IInv, Tiling
      <4>3. x < s \/ End(e) <= x
        BY <3>2, <4>1, <1>4, <1>11, BlockFacts DEF IInv
      <4> QED
        BY <4>1, <4>2, <4>3, <1>4, <1>11, BlockFacts DEF IInv
    <3> QED
      BY <3>1, <3>2
  <2>4. ASSUME NEW y \in Blocks, ~\E z \in Blocks' : End(z)' = End(y)
        PROVE  End(y) <= End(e) /\ s < End(y) /\ End(y) # End(e)
    <3>1. End(y) # End(e)
      BY <2>4, <1>11, <1>12
    <3>2. y \notin Blocks' \ {s}
      BY <2>4, <1>12
    <3>3. y = s \/ (s < y /\ y < End(e))
      BY <3>2, <1>4, <1>6, <1>11, BlockFacts DEF IInv
    <3>4. y <= e
      BY <3>3, <1>3, <1>4, <1>6, BlockFacts DEF IInv
    <3>5. End(y) <= End(e)
      BY <3>4, <1>4, BlockFacts DEF IInv, Tiling
    <3> QED
      BY <3>1, <3>3, <3>5, <1>4, BlockFacts DEF IInv
  <2>5. \A x \in Blocks' : x = heap_start' \/ \E y \in Blocks' : End(y)' = x
    <3> SUFFICES ASSUME NEW x \in Blocks', x # heap_start,
                        ~\E z \in Blocks' : End(z)' = x
                 PROVE  FALSE
      BY <1>2
    <3>1. PICK y \in Blocks : End(y) = x
      BY <1>11 DEF IInv, Tiling
    <3>2. s < x /\ x < End(e)
      BY <3>1, <2>4, <1>4, BlockFacts DEF IInv
    <3> QED
      BY <3>2, <1>4, <1>11, BlockFacts DEF IInv
  <2>6. program_break' = heap_start' \/ \E y \in Blocks' : End(y)' = program_break'
    <3> SUFFICES ASSUME program_break # heap_start,
                        ~\E z \in Blocks' : End(z)' = program_break
                 PROVE  FALSE
      BY <1>2
    <3>1. PICK y \in Blocks : End(y) = program_break
      BY DEF IInv, Tiling
    <3>2. End(y) < End(e)
      BY <3>1, <2>4, <1>4, BlockFacts DEF IInv
    <3> QED
      BY <3>1, <3>2, <1>4, BlockFacts DEF IInv, Tiling
  <2> QED
    BY <2>1, <2>2, <2>3, <2>5, <2>6 DEF Tiling
<1>17. Coalesced'
  <2> SUFFICES ASSUME NEW x \in FreeBlocks', NEW y \in FreeBlocks', End(x)' = y
               PROVE  FALSE
    BY DEF Coalesced
  <2>1. x \in Blocks /\ y \in Blocks /\ x \in Blocks' /\ y \in Blocks'
    BY <1>11, <1>14
  <2>2. CASE x = s
    <3>1. y = End(e) /\ y # h
      BY <2>1, <2>2, <1>3, <1>4, <1>6, <1>12, BlockFacts DEF IInv
    <3>2. y \in FreeBlocks
      BY <3>1, <1>14
    <3> QED
      BY <3>1, <3>2, <1>4 DEF IInv, Coalesced, Ahead
  <2>3. CASE x # s
    <3>1. End(x) = y /\ x # h /\ x \in FreeBlocks
      BY <2>1, <2>3, <1>11, <1>12, <1>14
    <3>2. CASE y = h
      BY <3>1, <3>2, <2>3, <1>5 DEF Behind
    <3>3. CASE y # h
      BY <3>1, <3>3, <1>14 DEF IInv, Coalesced
    <3> QED
      BY <3>2, <3>3
  <2> QED
    BY <2>2, <2>3
<1>18. HeldUsable'
  <2> SUFFICES ASSUME NEW p \in DOMAIN held'
               PROVE  \E x \in Blocks' : p = Body(x)' /\ held'[p] <= length'[x]
    BY DEF HeldUsable
  <2>1. PICK x \in Blocks : p = Body(x) /\ held[p] <= length[x]
    BY <1>13 DEF IInv, HeldUsable
  <2>2. x \in AllocBlocks /\ x # h
    BY <2>1, <1>13 DEF AllocBlocks
  <2>3. x # s /\ x # e
    BY <2>2, <1>4 DEF FreeBlocks
  <2> QED
    BY <2>1, <2>2, <2>3, <1>8, <1>10, <1>11, <1>12, <1>13
<1> QED
  BY <1>15, <1>16, <1>17, <1>18 DEF IInv

-----------------------------------------------------------------------------
LEMMA NextInv == NoOverflow /\ IInv /\ [Next]_vars => IInv'
<1> SUFFICES ASSUME NoOverflow, IInv, [Next]_vars
             PROVE  IInv'
  OBVIOUS
<1>1. ASSUME NEW size \in Sizes, MallocSplit(size) PROVE IInv'
  BY <1>1, SplitStep
<1>2. ASSUME NEW size \in Sizes, MallocWhole(size) PROVE IInv'
  BY <1>2, WholeStep
<1>3. ASSUME NEW size \in Sizes, MallocGrowLast(size) PROVE IInv'
  BY <1>3, GrowLastStep
<1>4. ASSUME NEW size \in Sizes, MallocAppend(size) PROVE IInv'
  BY <1>4, AppendStep
<1>5. ASSUME NEW h \in AllocBlocks, Free(h) PROVE IInv'
  BY <1>5, FreeStep
<1>6. CASE UNCHANGED vars
  BY <1>6 DEF vars, IInv, TypeOK, Tiling, Coalesced, HeldUsable, FreeBlocks,
              AllocBlocks, Blocks, Body, End
<1> QED
  BY <1>1, <1>2, <1>3, <1>4, <1>5, <1>6 DEF Next

(***************************************************************************)
(* In every reachable state of the algorithm, whatever the sizes and the   *)
(* order of the calls, the blocks tile the heap, no two free blocks touch, *)
(* and every pointer a client holds has room for what it asked for.        *)
(***************************************************************************)
THEOREM Invariance == NoOverflow => (Spec => []IInv)
<1> SUFFICES ASSUME NoOverflow
             PROVE  Spec => []IInv
  OBVIOUS
<1>1. IInv /\ [Next]_vars => IInv'
  BY NextInv
<1> QED
  BY InitInv, <1>1, PTL DEF Spec

(* The heap is always a row of well-formed blocks. *)
THEOREM TypeCorrect == NoOverflow => (Spec => []TypeOK)
<1>1. IInv => TypeOK
  BY DEF IInv
<1> QED
  BY <1>1, Invariance, PTL

(* The blocks tile the heap: the address arithmetic of the code is sound. *)
THEOREM HeapTiled == NoOverflow => (Spec => []Tiling)
<1>1. IInv => Tiling
  BY DEF IInv
<1> QED
  BY <1>1, Invariance, PTL

(***************************************************************************)
(* Every block has room for a header of its own, as the notes of q2.c on   *)
(* the layout say.  NoOverflow is needed: see malloc_overflow.             *)
(***************************************************************************)
THEOREM AlwaysMinimum == NoOverflow => (Spec => []MinimumSize)
<1>1. IInv => MinimumSize
  <2> SUFFICES ASSUME IInv
               PROVE  MinimumSize
    OBVIOUS
  <2>1. \A b \in Blocks : b \in Nat /\ length[b] \in Nat
    BY DEF IInv, TypeOK
  <2> QED
    BY <2>1, HeaderAssumption
       DEF IInv, TypeOK, Tiling, End, MinimumSize, MINIMUM_BLOCK_SZ
<1> QED
  BY <1>1, Invariance, PTL

(* Neighbouring free blocks are always merged, as q2.c claims. *)
THEOREM AlwaysCoalesced == NoOverflow => (Spec => []Coalesced)
<1>1. IInv => Coalesced
  BY DEF IInv
<1> QED
  BY <1>1, Invariance, PTL

(* A client can use as many bytes as it asked for, until it frees them. *)
THEOREM AlwaysUsable == NoOverflow => (Spec => []HeldUsable)
<1>1. IInv => HeldUsable
  BY DEF IInv
<1> QED
  BY <1>1, Invariance, PTL

-----------------------------------------------------------------------------
(* What two pointers of the client denote is disjoint. *)
RegionsApart ==
  \A p, q \in DOMAIN held : p # q => Contract!Apart(p, held[p], q, held[q])

LEMMA HeldApart == NoOverflow /\ IInv => RegionsApart
<1> SUFFICES ASSUME NoOverflow, IInv, NEW p \in DOMAIN held, NEW q \in DOMAIN held, p # q
             PROVE  p + held[p] <= q \/ q + held[q] <= p
  BY DEF RegionsApart, Contract!Apart
<1>1. PICK b \in Blocks : p = Body(b) /\ held[p] <= length[b]
  BY DEF IInv, HeldUsable
<1>2. PICK c \in Blocks : q = Body(c) /\ held[q] <= length[c]
  BY DEF IInv, HeldUsable
<1>3. held[p] \in Nat /\ held[q] \in Nat
  BY RealSize DEF IInv, TypeOK
<1>4. p + held[p] <= End(b) /\ q + held[q] <= End(c)
  BY <1>1, <1>2, <1>3, BlockFacts DEF IInv
<1>5. End(b) <= c \/ End(c) <= b
  BY <1>1, <1>2, BlockFacts DEF IInv, Tiling
<1> QED
  BY <1>1, <1>2, <1>3, <1>4, <1>5, BlockFacts DEF IInv

(* A call of __malloc gives the client a region of its own. *)
LEMMA MallocKeepsContract ==
  ASSUME NoOverflow, IInv, IInv', NEW p, NEW size \in Sizes,
         p \notin DOMAIN held, held' = Put(held, p, size)
  PROVE  Contract!Next
<1>1. DOMAIN held' = DOMAIN held \cup {p}
  BY DEF Put
<1>2. \A q \in DOMAIN held' : held'[q] = IF q = p THEN size ELSE held[q]
  BY DEF Put
<1>3. RegionsApart'
  <2>1. NoOverflow'
    BY DEF NoOverflow, ALLOC_BLOCK_HEADER_SZ
  <2> QED
    BY <2>1, HeldApart, PTL
<1>4. \A q \in DOMAIN held : Contract!Apart(p, size, q, held[q])
  BY <1>1, <1>2, <1>3 DEF RegionsApart, Contract!Apart
<1>5. Contract!Malloc(p, size)
  BY <1>4 DEF Contract!Malloc, Put
<1> QED
  BY <1>1, <1>5 DEF Contract!Next

(* One call changes one pointer of the client, and hands out no byte twice. *)
LEMMA ContractStep ==
  NoOverflow /\ IInv /\ IInv' /\ [Next]_vars => [Contract!Next]_held
<1> SUFFICES ASSUME NoOverflow, IInv, IInv', [Next]_vars
             PROVE  Contract!Next \/ held' = held
  OBVIOUS
<1>1. ASSUME NEW size \in Sizes, MallocSplit(size)
      PROVE  Contract!Next
  <2>1. PICK b, a :
          /\ b \in FreeBlocks
          /\ a = End(b) - real_size(size)
          /\ Splittable(b, size)
          /\ held' = Put(held, Body(a), size)
    BY <1>1 DEF MallocSplit
  <2>2. a \notin Blocks /\ a \in Nat
    BY <2>1, RealSize, BlockFacts
       DEF IInv, Tiling, FreeBlocks, Splittable,
           FREE_BLOCK_HEADER_SZ, ALLOC_BLOCK_HEADER_SZ, MINIMUM_BLOCK_SZ
  <2>3. Body(a) \notin DOMAIN held
    BY <2>2, BlockFacts DEF IInv, HeldUsable, Body, ALLOC_BLOCK_HEADER_SZ
  <2> QED
    BY <2>1, <2>3, MallocKeepsContract
<1>2. ASSUME NEW size \in Sizes, MallocWhole(size)
      PROVE  Contract!Next
  <2>1. PICK b \in FreeBlocks : held' = Put(held, Body(b), size)
    BY <1>2 DEF MallocWhole
  <2> QED
    BY <2>1, MallocKeepsContract DEF FreeBlocks, AllocBlocks
<1>3. ASSUME NEW size \in Sizes, MallocGrowLast(size)
      PROVE  Contract!Next
  <2>1. PICK b \in FreeBlocks : held' = Put(held, Body(b), size)
    BY <1>3 DEF MallocGrowLast
  <2> QED
    BY <2>1, MallocKeepsContract DEF FreeBlocks, AllocBlocks
<1>4. ASSUME NEW size \in Sizes, MallocAppend(size)
      PROVE  Contract!Next
  <2>1. held' = Put(held, Body(program_break), size)
    BY <1>4 DEF MallocAppend
  <2>2. program_break \notin Blocks
    BY BlockFacts DEF IInv, Tiling
  <2>3. Body(program_break) \notin DOMAIN held
    BY <2>2, BlockFacts DEF IInv, HeldUsable, Body, ALLOC_BLOCK_HEADER_SZ
  <2> QED
    BY <2>1, <2>3, MallocKeepsContract
<1>5. ASSUME NEW h \in AllocBlocks, Free(h)
      PROVE  Contract!Next
  <2>1. Body(h) \in DOMAIN held
    BY DEF AllocBlocks
  <2>2. Contract!Free(Body(h))
    BY <1>5 DEF Free, Contract!Free, Forget, Restrict, Contract!Restrict
  <2> QED
    BY <2>1, <2>2 DEF Contract!Next
<1>6. CASE UNCHANGED vars
  BY <1>6 DEF vars
<1> QED
  BY <1>1, <1>2, <1>3, <1>4, <1>5, <1>6 DEF Next

(***************************************************************************)
(* First fit keeps the contract: no call ever hands out a byte of a region *)
(* that the client still holds, and __free takes one pointer back.         *)
(***************************************************************************)
THEOREM KeepsContract == NoOverflow => (Spec => ContractSpec)
<1> SUFFICES ASSUME NoOverflow
             PROVE  Spec => ContractSpec
  OBVIOUS
<1>1. Init => Contract!Init
  BY DEF Init, Contract!Init
<1>2. IInv /\ IInv' /\ [Next]_vars => [Contract!Next]_held
  BY ContractStep
<1> QED
  BY <1>1, <1>2, Invariance, PTL DEF Spec, ContractSpec, Contract!Spec
=============================================================================
