---------------------------- MODULE MallocProofs ----------------------------
(***************************************************************************)
(* What __malloc and __free guarantee for every header size, heap start,   *)
(* set of sizes, bound and limit of the kernel, as long as no request      *)
(* overflows (NoOverflow): the links, the list and the loops are right in  *)
(* every reachable state, the code implements FirstFit, and with it the    *)
(* contract with the client.                                               *)
(*                                                                         *)
(* The shape of the heap is not proved twice.  Each step of the code is    *)
(* shown to be a step of FirstFit or to leave the heap alone, given exact  *)
(* links; FirstFitProofs then gives the shape of the heap after the step,  *)
(* and MallocLinks the links.                                              *)
(***************************************************************************)
EXTENDS MallocLinks

FFP == INSTANCE FirstFitProofs

-----------------------------------------------------------------------------
(* FirstFit looks at the same heap: its operators are those of Malloc. *)
LEMMA SameHeap ==
  /\ FF!NULL = NULL
  /\ FF!Blocks = Blocks /\ FF!AllocBlocks = AllocBlocks /\ FF!FreeBlocks = FreeBlocks
  /\ \A b : FF!End(b) = End(b) /\ FF!Body(b) = Body(b)
  /\ \A size : FF!real_size(size) = real_size(size)
  /\ \A size : FF!Requestable(size) <=> Requestable(size)
  /\ \A f, a, v : FF!Put(f, a, v) = Put(f, a, v)
  /\ \A f, S : FF!Forget(f, S) = Forget(f, S)
BY DEF FF!NULL, NULL, FF!Blocks, Blocks, FF!AllocBlocks, AllocBlocks,
       FF!FreeBlocks, FreeBlocks, FF!End, End, FF!Body, Body, FF!real_size,
       real_size, FF!Requestable, Requestable, FF!Put, Put, FF!Forget, Forget,
       FF!Restrict, Restrict, FF!ALLOC_BLOCK_HEADER_SZ, ALLOC_BLOCK_HEADER_SZ,
       FF!FREE_BLOCK_HEADER_SZ, FREE_BLOCK_HEADER_SZ

(* The invariant of FirstFitProofs is about the same heap, ... *)
LEMMA SameInvariant ==
  /\ FFP!NULL = NULL
  /\ FFP!Blocks = Blocks
  /\ FFP!Tiling <=> Tiling
  /\ FFP!Coalesced <=> Coalesced
  /\ FFP!HeldUsable <=> HeldUsable
  /\ FFP!NoOverflow <=> NoOverflow
BY DEF FFP!NULL, NULL, FFP!Blocks, Blocks, FFP!AllocBlocks, AllocBlocks,
       FFP!FreeBlocks, FreeBlocks, FFP!End, End, FFP!Body, Body,
       FFP!ALLOC_BLOCK_HEADER_SZ, ALLOC_BLOCK_HEADER_SZ, FFP!Tiling, Tiling,
       FFP!Coalesced, Coalesced, FFP!HeldUsable, HeldUsable, FFP!NoOverflow,
       NoOverflow

(* ... and so are its steps, in the copy that the proofs are about. *)
LEMMA SameSteps == FF!Next => FFP!Next
<1> USE DEF FF!End, FFP!End, FF!Body, FFP!Body, FF!Put, FFP!Put, FF!Forget,
            FFP!Forget, FF!Restrict, FFP!Restrict, FF!real_size,
            FFP!real_size, FF!Requestable, FFP!Requestable, FF!FreeBlocks,
            FFP!FreeBlocks, FF!AllocBlocks, FFP!AllocBlocks, FF!Blocks,
            FFP!Blocks, FF!FREE_BLOCK_HEADER_SZ, FFP!FREE_BLOCK_HEADER_SZ,
            FF!ALLOC_BLOCK_HEADER_SZ, FFP!ALLOC_BLOCK_HEADER_SZ,
            FF!MINIMUM_BLOCK_SZ, FFP!MINIMUM_BLOCK_SZ, FF!Fits, FFP!Fits,
            FF!NoFit, FFP!NoFit, FF!FirstFitting, FFP!FirstFitting,
            FF!Splittable, FFP!Splittable, FF!Behind, FFP!Behind, FF!Ahead,
            FFP!Ahead
<1>1. \A size : FF!MallocSplit(size) => FFP!MallocSplit(size)
  BY DEF FF!MallocSplit, FFP!MallocSplit
<1>2. \A size : FF!MallocWhole(size) => FFP!MallocWhole(size)
  BY DEF FF!MallocWhole, FFP!MallocWhole
<1>3. \A size : FF!MallocGrowLast(size) => FFP!MallocGrowLast(size)
  BY DEF FF!MallocGrowLast, FFP!MallocGrowLast
<1>4. \A size : FF!MallocAppend(size) => FFP!MallocAppend(size)
  BY DEF FF!MallocAppend, FFP!MallocAppend
<1>5. \A h : FF!Free(h) => FFP!Free(h)
  BY DEF FF!Free, FFP!Free
<1>6. FF!AllocBlocks = FFP!AllocBlocks
  OBVIOUS
<1> QED
  BY <1>1, <1>2, <1>3, <1>4, <1>5, <1>6 DEF FF!Next, FFP!Next

(***************************************************************************)
(* A step of FirstFit keeps the shape of the heap: the induction step of   *)
(* FirstFitProofs.                                                         *)
(***************************************************************************)
LEMMA HeapKept ==
  ASSUME NoOverflow, TypeOK, HeapInv, FF!Next
  PROVE  /\ HeapInv'
         /\ heap_start' \in HeapStarts
         /\ program_break' \in Nat
         /\ Blocks' \subseteq Nat \ {NULL}
         /\ length' \in [Blocks' -> Nat]
         /\ held' \in [DOMAIN held' -> Sizes]
<1>1. FFP!IInv
  BY SameInvariant DEF TypeOK, HeapInv, FFP!IInv, FFP!TypeOK
<1>2. FFP!IInv'
  BY <1>1, FFP!NextInv, SameInvariant, SameSteps, HeaderAssumption,
     HeapStartsAssumption, SizesAssumption, MaxBreakAssumption
<1>3. (FFP!Tiling /\ FFP!Coalesced /\ FFP!HeldUsable /\ FFP!TypeOK)'
  BY <1>2 DEF FFP!IInv
<1>4. /\ (FFP!Tiling <=> Tiling)' /\ (FFP!Coalesced <=> Coalesced)'
      /\ (FFP!HeldUsable <=> HeldUsable)'
      /\ (FFP!Blocks = Blocks)' /\ (FFP!NULL = NULL)'
  BY SameInvariant, PTL
<1> QED
  BY <1>3, <1>4 DEF HeapInv, FFP!TypeOK

-----------------------------------------------------------------------------
(* A block is cut from the one that the search has found. *)
LEMMA SplitImplements ==
  ASSUME IInv, NoOverflow, MallocSplit
  PROVE  FF!Next
<1>1. PICK b, a, size : b = search_ptr /\ a = SplitPoint /\ size = request
  OBVIOUS
<1>2. /\ size \in Sizes /\ real_size(size) = HeaderSize + size /\ size \in Nat
      /\ b \in FreeBlocks /\ b \in Blocks
      /\ \A c \in FreeBlocks : LargeEnough(c) => b <= c
      /\ LargeEnough(b)
  BY <1>1, SearchFound, Kinds DEF MallocSplit, Found
<1>3. FF!FirstFitting(b, size) /\ FF!Splittable(b, size)
  BY <1>1, <1>2, SameHeap
     DEF FF!FirstFitting, FF!Fits, FF!Splittable, LargeEnough, MallocSplit,
         Splittable, FF!FREE_BLOCK_HEADER_SZ, FREE_BLOCK_HEADER_SZ,
         FF!MINIMUM_BLOCK_SZ, MINIMUM_BLOCK_SZ
<1>4. a = FF!End(b) - FF!real_size(size)
  <2>1. a = b + HeaderSize + (length[b] - real_size(size))
    BY <1>1 DEF SplitPoint, FREE_BLOCK_HEADER_SZ
  <2>2. End(b) = b + HeaderSize + length[b] /\ b \in Nat /\ HeaderSize \in Nat
        /\ length[b] \in Nat
    BY <1>2, BlockFacts DEF IInv, HeapInv
  <2> QED
    BY <1>2, <2>1, <2>2, SameHeap
<1>5. /\ length' = FF!Put([length EXCEPT ![b] = @ - FF!real_size(size)], a, size)
      /\ held' = FF!Put(held, FF!Body(a), size)
      /\ UNCHANGED <<heap_start, program_break>>
  BY <1>1, SameHeap DEF MallocSplit, ReturnBlock
<1>6. FF!MallocSplit(size)
  BY <1>2, <1>3, <1>4, <1>5, SameHeap DEF FF!MallocSplit
<1> QED
  BY <1>2, <1>6 DEF FF!Next

(* The block that the search has found is handed out whole. *)
LEMMA WholeImplements ==
  ASSUME IInv, NoOverflow, MallocWhole
  PROVE  FF!Next
<1>1. PICK b, size : b = search_ptr /\ size = request
  OBVIOUS
<1>2. /\ size \in Sizes /\ b \in FreeBlocks
      /\ \A c \in FreeBlocks : LargeEnough(c) => b <= c
      /\ LargeEnough(b)
  BY <1>1, SearchFound DEF MallocWhole, Found
<1>3. FF!FirstFitting(b, size) /\ ~FF!Splittable(b, size)
  BY <1>1, <1>2, SameHeap
     DEF FF!FirstFitting, FF!Fits, FF!Splittable, LargeEnough, MallocWhole,
         Splittable, FF!FREE_BLOCK_HEADER_SZ, FREE_BLOCK_HEADER_SZ,
         FF!MINIMUM_BLOCK_SZ, MINIMUM_BLOCK_SZ
<1>4. /\ held' = FF!Put(held, FF!Body(b), size)
      /\ UNCHANGED <<heap_start, program_break, length>>
  BY <1>1, SameHeap DEF MallocWhole, ReturnBlock
<1>5. FF!MallocWhole(size)
  BY <1>2, <1>3, <1>4, SameHeap DEF FF!MallocWhole
<1> QED
  BY <1>2, <1>5 DEF FF!Next

(* The last free block grows up to the request. *)
LEMMA GrowLastImplements ==
  ASSUME IInv, NoOverflow, MallocGrowLast
  PROVE  FF!Next
<1>1. PICK b, size : b = trailing_search_ptr /\ size = request
  OBVIOUS
<1>2. /\ size \in Sizes /\ Requestable(size) /\ b \in FreeBlocks /\ b \in Blocks
      /\ \A c \in FreeBlocks : ~LargeEnough(c)
      /\ End(b) = program_break
  BY <1>1, SearchFailed, Kinds DEF MallocGrowLast
<1>3. FF!Requestable(size) /\ FF!NoFit(size)
  BY <1>1, <1>2, SameHeap
     DEF FF!NoFit, FF!Fits, LargeEnough, FF!FREE_BLOCK_HEADER_SZ,
         FREE_BLOCK_HEADER_SZ
<1>4. program_break' = b + real_size(size)
  <2>1. program_break' = program_break + (real_size(size) - (HeaderSize + length[b]))
    BY <1>1 DEF MallocGrowLast, SafeSbrk, FREE_BLOCK_HEADER_SZ
  <2>2. real_size(size) \in Nat
    BY <1>2, RealSize, HeaderAssumption
  <2> QED
    BY <1>2, <2>1, <2>2, BlockFacts DEF IInv, HeapInv
<1>5. /\ length' = [length EXCEPT ![b] = size]
      /\ held' = FF!Put(held, FF!Body(b), size)
      /\ heap_start' = heap_start
  BY <1>1, SameHeap DEF MallocGrowLast, ReturnBlock
<1>6. FF!MallocGrowLast(size)
  BY <1>2, <1>3, <1>4, <1>5, SameHeap DEF FF!MallocGrowLast
<1> QED
  BY <1>2, <1>6 DEF FF!Next

(* A block is appended, whether or not there was a list to search. *)
LEMMA AppendImplements ==
  ASSUME IInv, NEW size \in Sizes, Requestable(size),
         \A c \in FreeBlocks : ~FF!Fits(c, size) /\ End(c) # program_break,
         SafeSbrk(real_size(size)), ReturnBlock(program_break, size),
         length' = Put(length, program_break, size)
  PROVE  FF!Next
<1>1. FF!MallocAppend(size)
  BY SameHeap DEF FF!MallocAppend, FF!NoFit, SafeSbrk, ReturnBlock
<1> QED
  BY <1>1 DEF FF!Next

(* With no free block at all, the request is appended. *)
LEMMA NoFreeAppends ==
  ASSUME IInv, NoOverflow, NEW size \in Sizes, MallocNoFree(size)
  PROVE  FF!Next /\ Structure'
<1>1. /\ pc = "idle" /\ pc' = "idle" /\ free_block_list = NULL /\ Requestable(size)
      /\ \A c : c \notin FreeBlocks
  BY Kinds DEF MallocNoFree, ReturnBlock, IInv, Sorted, HeadFirst
<1>2. FF!Next
  BY <1>1, AppendImplements DEF MallocNoFree
<1>3. Structure'
  BY <1>1, AppendLinks DEF MallocNoFree, ReturnBlock
<1> QED
  BY <1>2, <1>3

(* With no free block long enough, none of them last, it is too. *)
LEMMA SearchAppends ==
  ASSUME IInv, NoOverflow, MallocAppend
  PROVE  FF!Next /\ Structure'
<1>1. PICK size : size = request
  OBVIOUS
<1>2. /\ pc = "search" /\ pc' = "idle" /\ size \in Sizes /\ Requestable(size)
      /\ \A c \in FreeBlocks : ~LargeEnough(c) /\ End(c) # program_break
  BY <1>1, SearchFailed DEF MallocAppend, ReturnBlock
<1>3. \A c \in FreeBlocks : ~FF!Fits(c, size) /\ End(c) # program_break
  BY <1>1, <1>2, SameHeap
     DEF FF!Fits, LargeEnough, FF!FREE_BLOCK_HEADER_SZ, FREE_BLOCK_HEADER_SZ
<1>4. FF!Next
  BY <1>1, <1>2, <1>3, AppendImplements DEF MallocAppend
<1>5. Store(fwd_free, last_alloc_block, NULL) = fwd_free
  <2>1. TypeOK /\ Tiling /\ LastAllocExact /\ Links
    BY DEF IInv, HeapInv
  <2>2. CASE last_alloc_block = NULL
    BY <2>2 DEF Store
  <2>3. CASE last_alloc_block # NULL
    <3>1. last_alloc_block \in AllocBlocks /\ End(last_alloc_block) = program_break
      BY <1>2, <2>1, <2>3, LastBlock
    <3>2. fwd_free[last_alloc_block] = NULL
      BY <2>1, <3>1, AllocNeighbours, BlockFacts, Kinds
    <3> QED
      BY <2>1, <2>3, <3>1, <3>2, Kinds DEF Store, TypeOK
  <2> QED
    BY <2>2, <2>3
<1>6. PICK n : n = program_break
  OBVIOUS
<1>7. /\ length' = Put(length, n, size)
      /\ held' = Put(held, Body(n), size)
      /\ back_free' = Put(back_free, n, NULL)
      /\ fwd_free' = Put(fwd_free, n, NULL)
      /\ back_alloc' = Put(back_alloc, n, last_alloc_block)
      /\ fwd_alloc' = Put(Store(fwd_alloc, last_alloc_block, n), n, NULL)
      /\ last_alloc_block' = n
      /\ free_block_list' = free_block_list
  BY <1>1, <1>5, <1>6 DEF MallocAppend, ReturnBlock
<1>8. Structure'
  BY <1>2, <1>6, <1>7, AppendLinks
<1> QED
  BY <1>4, <1>8

(* Forgetting nothing changes nothing. *)
LEMMA ForgetNothing ==
  ASSUME TypeOK, NEW h \in Blocks, NEW n
  PROVE  Forget([length EXCEPT ![h] = n], {}) = [length EXCEPT ![h] = n]
BY DEF Forget, Restrict, TypeOK

(***************************************************************************)
(* __free finds the free blocks beside h by two links; FirstFit looks at   *)
(* all free blocks.  s and e are the first and last block of the merge.    *)
(***************************************************************************)
LEMMA MergeImplements ==
  ASSUME IInv, NEW h \in AllocBlocks, Release(h), NEW s, NEW e,
         s = IF back_free[h] = NULL THEN h ELSE back_free[h],
         e = IF fwd_free[h] = NULL THEN h ELSE fwd_free[h],
         length' = Forget([length EXCEPT ![s] = End(e) - Body(s)], {h, e} \ {s})
  PROVE  FF!Next
<1>1. TypeOK /\ Tiling /\ Links
  BY DEF IInv, HeapInv
<1>2. h \in Blocks /\ h \notin FreeBlocks
  BY Kinds
<1>3. \A c \in FreeBlocks : (End(c) = h <=> c = back_free[h]) /\ (End(h) = c <=> c = fwd_free[h])
  BY <1>1, <1>2, Kinds DEF Links, BackFreeExact, FwdFreeExact
<1>4. /\ FF!Behind(h) = IF back_free[h] = NULL THEN {} ELSE {back_free[h]}
      /\ FF!Ahead(h) = IF fwd_free[h] = NULL THEN {} ELSE {fwd_free[h]}
  <2>1. /\ FF!Behind(h) = {c \in FreeBlocks : End(c) = h}
        /\ FF!Ahead(h) = {c \in FreeBlocks : End(h) = c}
    BY SameHeap DEF FF!Behind, FF!Ahead
  <2>2. /\ back_free[h] # NULL => back_free[h] \in FreeBlocks
        /\ fwd_free[h] # NULL => fwd_free[h] \in FreeBlocks
        /\ \A c \in FreeBlocks : c # NULL
    BY <1>1, AllocNeighbours, BlockFacts, Kinds
  <2> QED
    BY <1>3, <2>1, <2>2
<1>5. /\ s \in IF FF!Behind(h) = {} THEN {h} ELSE FF!Behind(h)
      /\ e \in IF FF!Ahead(h) = {} THEN {h} ELSE FF!Ahead(h)
      /\ (FF!Behind(h) \cup {h} \cup FF!Ahead(h)) \ {s} = {h, e} \ {s}
  BY <1>4
<1>6. length' = FF!Forget([length EXCEPT ![s] = FF!End(e) - FF!Body(s)],
                          (FF!Behind(h) \cup {h} \cup FF!Ahead(h)) \ {s})
  BY <1>5, SameHeap
<1>7. held' = FF!Forget(held, {FF!Body(h)}) /\ UNCHANGED <<heap_start, program_break>>
  BY SameHeap DEF Release, breaks
<1>8. FF!Free(h)
  BY <1>5, <1>6, <1>7 DEF FF!Free
<1> QED
  BY <1>8, SameHeap DEF FF!Next

(* The only free block has none beside it to merge with. *)
LEMMA FreeFirstImplements ==
  ASSUME IInv, NEW h \in AllocBlocks, FreeFirst(h)
  PROVE  FF!Next
<1>1. TypeOK /\ Tiling /\ Links /\ Sorted /\ Release(h) /\ h \in Blocks
  BY Kinds DEF IInv, HeapInv, FreeFirst
<1>2. \A c : c \notin FreeBlocks
  BY <1>1, Kinds DEF FreeFirst, Release, Sorted, HeadFirst
<1>3. back_free[h] = NULL /\ fwd_free[h] = NULL
  BY <1>1, <1>2, AllocNeighbours
<1>4. FreedLength(h) = End(h) - Body(h)
  BY <1>1, BlockFacts
     DEF FreedLength, ALLOC_BLOCK_HEADER_SZ, FREE_BLOCK_HEADER_SZ
<1>5. length' = Forget([length EXCEPT ![h] = End(h) - Body(h)], {h, h} \ {h})
  <2>1. {h, h} \ {h} = {}
    OBVIOUS
  <2> QED
    BY <1>1, <1>4, <2>1, ForgetNothing DEF FreeFirst
<1> QED
  BY <1>1, <1>3, <1>5, MergeImplements

(* A block with no free block beside it becomes one of its own. *)
LEMMA FreeIsolatedImplements ==
  ASSUME IInv, NEW h \in AllocBlocks, FreeIsolated(h)
  PROVE  FF!Next
<1>1. TypeOK /\ Tiling /\ Release(h) /\ h \in Blocks
      /\ back_free[h] = NULL /\ fwd_free[h] = NULL
  BY Kinds DEF IInv, HeapInv, FreeIsolated
<1>2. FreedLength(h) = End(h) - Body(h)
  BY <1>1, BlockFacts
     DEF FreedLength, ALLOC_BLOCK_HEADER_SZ, FREE_BLOCK_HEADER_SZ
<1>3. length' = Forget([length EXCEPT ![h] = End(h) - Body(h)], {h, h} \ {h})
  <2>1. {h, h} \ {h} = {}
    OBVIOUS
  <2> QED
    BY <1>1, <1>2, <2>1, ForgetNothing DEF FreeIsolated
<1> QED
  BY <1>1, <1>3, MergeImplements

(* The block goes into the free one behind it. *)
LEMMA FreeMergeBackImplements ==
  ASSUME IInv, NEW h \in AllocBlocks, FreeMergeBack(h)
  PROVE  FF!Next
<1>1. PICK s : s = back_free[h]
  OBVIOUS
<1>2. /\ TypeOK /\ Tiling /\ Links /\ Release(h) /\ h \in Blocks
      /\ s # NULL /\ fwd_free[h] = NULL
  BY <1>1, Kinds DEF IInv, HeapInv, FreeMergeBack
<1>3. s \in Blocks /\ s # h /\ End(s) = h
  BY <1>1, <1>2, AllocNeighbours, BlockFacts, Kinds
<1>4. length[s] + ALLOC_BLOCK_HEADER_SZ + length[h] = End(h) - Body(s)
  BY <1>2, <1>3, BlockFacts DEF ALLOC_BLOCK_HEADER_SZ
<1>5. length' = Forget([length EXCEPT ![s] = End(h) - Body(s)], {h, h} \ {s})
  <2>1. {h, h} \ {s} = {h}
    BY <1>3
  <2>2. length' = Forget([length EXCEPT ![s] = length[s] + ALLOC_BLOCK_HEADER_SZ
                                                 + length[h]], {h})
    BY <1>1 DEF FreeMergeBack
  <2> QED
    BY <1>4, <2>1, <2>2
<1> QED
  BY <1>1, <1>2, <1>5, MergeImplements

(* The free block ahead goes into it. *)
LEMMA FreeMergeFwdImplements ==
  ASSUME IInv, NEW h \in AllocBlocks, FreeMergeFwd(h)
  PROVE  FF!Next
<1>1. PICK e : e = fwd_free[h]
  OBVIOUS
<1>2. /\ TypeOK /\ Tiling /\ Links /\ Release(h) /\ h \in Blocks
      /\ e # NULL /\ back_free[h] = NULL
  BY <1>1, Kinds DEF IInv, HeapInv, FreeMergeFwd
<1>3. e \in Blocks /\ e # h /\ End(h) = e
  BY <1>1, <1>2, AllocNeighbours, BlockFacts, Kinds
<1>4. length[h] + FREE_BLOCK_HEADER_SZ + length[e] = End(e) - Body(h)
  BY <1>2, <1>3, BlockFacts DEF FREE_BLOCK_HEADER_SZ
<1>5. length' = Forget([length EXCEPT ![h] = End(e) - Body(h)], {h, e} \ {h})
  <2>1. {h, e} \ {h} = {e}
    BY <1>3
  <2>2. length' = Forget([length EXCEPT ![h] = length[h] + FREE_BLOCK_HEADER_SZ
                                                 + length[e]], {e})
    BY <1>1 DEF FreeMergeFwd
  <2> QED
    BY <1>4, <2>1, <2>2
<1> QED
  BY <1>1, <1>2, <1>5, MergeImplements

(* The free blocks on both sides become one with it. *)
LEMMA FreeDoubleMergeImplements ==
  ASSUME IInv, NEW h \in AllocBlocks, FreeDoubleMerge(h)
  PROVE  FF!Next
<1>1. PICK s, e : s = back_free[h] /\ e = fwd_free[h]
  OBVIOUS
<1>2. /\ TypeOK /\ Tiling /\ Links /\ Release(h) /\ h \in Blocks
      /\ s # NULL /\ e # NULL
  BY <1>1, Kinds DEF IInv, HeapInv, FreeDoubleMerge
<1>3. /\ s \in Blocks /\ s # h /\ End(s) = h
      /\ e \in Blocks /\ e # s /\ End(h) = e
  BY <1>1, <1>2, AllocNeighbours, BlockFacts, Kinds
<1>4. length[s] + ALLOC_BLOCK_HEADER_SZ + length[h] + FREE_BLOCK_HEADER_SZ + length[e]
        = End(e) - Body(s)
  BY <1>2, <1>3, BlockFacts DEF ALLOC_BLOCK_HEADER_SZ, FREE_BLOCK_HEADER_SZ
<1>5. length' = Forget([length EXCEPT ![s] = End(e) - Body(s)], {h, e} \ {s})
  <2>1. {h, e} \ {s} = {h, e}
    BY <1>3
  <2>2. length' = Forget([length EXCEPT ![s] = length[s] + ALLOC_BLOCK_HEADER_SZ
                            + length[h] + FREE_BLOCK_HEADER_SZ + length[e]], {h, e})
    BY <1>1 DEF FreeDoubleMerge
  <2> QED
    BY <1>4, <2>1, <2>2
<1> QED
  BY <1>1, <1>2, <1>5, MergeImplements

-----------------------------------------------------------------------------
(* An empty heap is in order. *)
LEMMA InitInv == Init => IInv
<1> SUFFICES ASSUME Init
             PROVE  IInv
  OBVIOUS
<1>1. /\ \A b : b \notin Blocks
      /\ \A b : b \notin AllocBlocks /\ b \notin FreeBlocks /\ b \notin Listed
  BY DEF Init, NoWords, Blocks, AllocBlocks, FreeBlocks, Listed
<1>2. TypeOK
  BY HeapStartsAssumption DEF Init, TypeOK, NoWords, Blocks, NULL
<1>3. HeapInv
  BY <1>1 DEF Init, HeapInv, Tiling, Coalesced, HeldUsable
<1>4. Links
  BY <1>1 DEF Links, BackAllocExact, FwdAllocExact, BackFreeExact, FwdFreeExact
<1>5. Sorted /\ LastAllocExact
  BY <1>1
     DEF Init, Sorted, HeadFirst, NextListed, PrevListed, LastAllocExact, LastOf
<1>6. SearchInv /\ WalkInv /\ LocalsReset
  BY DEF Init, SearchInv, WalkInv, LocalsReset
<1> QED
  BY <1>2, <1>3, <1>4, <1>5, <1>6 DEF IInv

(* A step that leaves the heap, the words and the list as they are. *)
LEMMA HeapUntouched ==
  ASSUME IInv, UNCHANGED <<breaks, held, words, lists>>,
         pc = "walk" => pc' = "walk" /\ header' = header, pc # "walk" => pc' # "walk"
  PROVE  /\ HeapInv' /\ Links' /\ Sorted' /\ LastAllocExact'
         /\ Blocks' = Blocks /\ AllocBlocks' = AllocBlocks /\ FreeBlocks' = FreeBlocks
         /\ Listed' = Listed
<1>1. /\ length' = length /\ held' = held /\ heap_start' = heap_start
      /\ program_break' = program_break
      /\ back_free' = back_free /\ fwd_free' = fwd_free
      /\ back_alloc' = back_alloc /\ fwd_alloc' = fwd_alloc
      /\ free_block_list' = free_block_list /\ last_alloc_block' = last_alloc_block
  BY DEF breaks, words, lists
<1>2. /\ Blocks' = Blocks /\ AllocBlocks' = AllocBlocks /\ FreeBlocks' = FreeBlocks
      /\ \A b : End(b)' = End(b) /\ Body(b)' = Body(b)
  BY <1>1 DEF Blocks, AllocBlocks, FreeBlocks, Body, End
<1>3. Listed' = Listed
  BY <1>2 DEF Listed
<1>4. HeapInv'
  BY <1>1, <1>2 DEF IInv, HeapInv, Tiling, Coalesced, HeldUsable
<1>5. Links'
  BY <1>1, <1>2
     DEF IInv, Links, BackAllocExact, FwdAllocExact, BackFreeExact, FwdFreeExact
<1>6. Sorted' /\ LastAllocExact'
  BY <1>1, <1>2, <1>3
     DEF IInv, Sorted, HeadFirst, NextListed, PrevListed, LastAllocExact, NULL
<1> QED
  BY <1>2, <1>3, <1>4, <1>5, <1>6

(* A call that returns leaves a heap in order, and no local pointer. *)
LEMMA CallReturns ==
  ASSUME NoOverflow, IInv, [FF!Next]_<<heap_start, program_break, length, held>>, Structure', kernel_break' \in Nat,
         pc' = "idle", request' \in Sizes \cup {0},
         search_ptr' = NULL, trailing_search_ptr' = NULL,
         header' = NULL, cursor' = NULL, prev_free_block_cursor' = NULL
  PROVE  IInv'
<1>1. /\ HeapInv'
      /\ heap_start' \in HeapStarts
      /\ program_break' \in Nat
      /\ Blocks' \subseteq Nat \ {NULL}
      /\ length' \in [Blocks' -> Nat]
      /\ held' \in [DOMAIN held' -> Sizes]
  <2>1. CASE FF!Next
    BY <2>1, HeapKept DEF IInv
  <2>2. CASE UNCHANGED <<heap_start, program_break, length, held>>
    BY <2>2
       DEF IInv, TypeOK, HeapInv, Tiling, Coalesced, HeldUsable, FreeBlocks,
           AllocBlocks, Blocks, Body, End
  <2> QED
    BY <2>1, <2>2
<1>2. /\ free_block_list' \in Blocks' \cup {NULL}
      /\ last_alloc_block' \in Blocks' \cup {NULL}
  BY DEF Structure, Sorted, HeadFirst, LastAllocExact, LastOf, Listed,
         FreeBlocks, AllocBlocks, NULL
<1>3. TypeOK'
  BY <1>1, <1>2 DEF Structure, LinkTypes, TypeOK, NULL
<1>4. SearchInv' /\ WalkInv' /\ LocalsReset'
  BY DEF SearchInv, WalkInv, LocalsReset, NULL
<1> QED
  BY <1>1, <1>3, <1>4 DEF Structure, IInv

(* sbrk is called for no negative amount, so the kernel's break is a number. *)
LEMMA KernelBreak ==
  ASSUME TypeOK, NEW n \in Nat, SafeSbrk(n)
  PROVE  kernel_break' \in Nat
BY DEF TypeOK, SafeSbrk, KernelBreakAfter

-----------------------------------------------------------------------------
(* The search starts at the head of the list, with nothing passed. *)
LEMMA MallocSearchStep ==
  ASSUME IInv, NoOverflow, NEW size \in Sizes, MallocSearch(size)
  PROVE  IInv'
<1>1. /\ pc = "idle" /\ pc' = "search" /\ free_block_list # NULL /\ Requestable(size)
      /\ request' = size /\ search_ptr' = free_block_list /\ trailing_search_ptr' = NULL
      /\ UNCHANGED <<breaks, held, words, lists, walkLocals>>
  BY DEF MallocSearch
<1>2. /\ HeapInv' /\ Links' /\ Sorted' /\ LastAllocExact'
      /\ Blocks' = Blocks /\ AllocBlocks' = AllocBlocks /\ FreeBlocks' = FreeBlocks
      /\ Listed' = Listed
  BY <1>1, HeapUntouched
<1>3. TypeOK'
  BY <1>1, <1>2 DEF IInv, TypeOK, breaks, words, lists, walkLocals, NULL
<1>4. free_block_list \in Listed /\ \A c \in Listed : free_block_list <= c /\ c \in Nat
  BY <1>1 DEF IInv, Sorted, HeadFirst, TypeOK, FreeBlocks, Listed
<1>5. SearchInv'
  <2>1. Requestable(size)'
    BY <1>1, <1>2 DEF Requestable, real_size, breaks, words
  <2>2. free_block_list' = free_block_list
    BY <1>1 DEF lists
  <2>3. \A c \in Listed : ~(c < free_block_list)
    BY <1>4
  <2> QED
    BY <1>1, <1>2, <1>4, <2>1, <2>2, <2>3 DEF SearchInv, LastOf, NULL
<1>6. WalkInv' /\ LocalsReset'
  BY <1>1 DEF IInv, WalkInv, LocalsReset, walkLocals, NULL
<1> QED
  BY <1>2, <1>3, <1>5, <1>6 DEF IInv

(* The search passes one more block, and still trails one behind. *)
LEMMA SearchStepStep ==
  ASSUME IInv, NoOverflow, SearchStep
  PROVE  IInv'
<1>1. PICK b, nxt : b = search_ptr /\ nxt = fwd_free[b]
  OBVIOUS
<1>2. /\ pc = "search" /\ pc' = "search" /\ b # NULL /\ ~LargeEnough(b)
      /\ search_ptr' = nxt /\ trailing_search_ptr' = b /\ request' = request
      /\ UNCHANGED <<breaks, held, words, lists, walkLocals>>
  BY <1>1 DEF SearchStep
<1>3. /\ HeapInv' /\ Links' /\ Sorted' /\ LastAllocExact'
      /\ Blocks' = Blocks /\ AllocBlocks' = AllocBlocks /\ FreeBlocks' = FreeBlocks
      /\ Listed' = Listed
  BY <1>2, HeapUntouched
<1>4. /\ b \in Listed /\ \A c \in Listed : c \in Nat /\ c # NULL /\ c \in Blocks
      /\ \A c \in Listed : c < b => ~LargeEnough(c)
      /\ request \in Sizes /\ Requestable(request) /\ free_block_list # NULL
  BY <1>1, <1>2 DEF IInv, SearchInv, TypeOK, FreeBlocks, Listed
<1>5. /\ nxt = NULL => \A c \in Listed : c <= b
      /\ nxt # NULL => nxt \in Listed /\ b < nxt /\ \A c \in Listed : c <= b \/ nxt <= c
  BY <1>1, <1>4 DEF IInv, Sorted, NextListed
<1>6. TypeOK'
  BY <1>2, <1>3, <1>4, <1>5
     DEF IInv, TypeOK, breaks, words, lists, walkLocals, NULL
<1>7. SearchInv'
  <2>1. Requestable(request)'
    BY <1>2, <1>3, <1>4 DEF Requestable, real_size, breaks, words
  <2>2. \A c \in Listed : LargeEnough(c)' <=> LargeEnough(c)
    BY <1>2 DEF LargeEnough, real_size, words
  <2>3. \A c \in Listed : (nxt = NULL \/ c < nxt) <=> c <= b
    BY <1>4, <1>5
  <2>4. \A c \in Listed : c <= b => ~LargeEnough(c)
    BY <1>2, <1>4
  <2> DEFINE passed == {c \in Listed : nxt = NULL \/ c < nxt}
  <2>5. LastOf(b, passed)
    BY <1>2, <1>4, <2>3 DEF LastOf
  <2>6. \A c \in passed : ~LargeEnough(c)
    BY <2>3, <2>4
  <2>7. free_block_list' = free_block_list
    BY <1>2 DEF lists
  <2> QED
    BY <1>2, <1>3, <1>4, <1>5, <2>1, <2>2, <2>5, <2>6, <2>7
       DEF SearchInv, LastOf, NULL
<1>8. WalkInv' /\ LocalsReset'
  BY <1>2 DEF IInv, WalkInv, LocalsReset, walkLocals, NULL
<1> QED
  BY <1>3, <1>6, <1>7, <1>8 DEF IInv


(* A block with no free block beside it is freed, and the walk begins. *)
LEMMA FreeIsolatedStep ==
  ASSUME IInv, NoOverflow, NEW h \in AllocBlocks, FreeIsolated(h)
  PROVE  IInv'
<1>1. TypeOK /\ Tiling /\ Links /\ LocalsReset /\ h \in Blocks
  BY Kinds DEF IInv, HeapInv
<1>2. PICK behind, ahead : behind = back_alloc[h] /\ ahead = fwd_alloc[h]
  OBVIOUS
<1>3. /\ pc = "idle" /\ pc' = "walk" /\ free_block_list # NULL
      /\ back_free[h] = NULL /\ fwd_free[h] = NULL
      /\ header' = h /\ cursor' = behind /\ prev_free_block_cursor' = NULL
      /\ free_block_list' = free_block_list
      /\ back_free' = Store(back_free, ahead, h)
      /\ fwd_free' = Store(fwd_free, behind, h)
      /\ length' = [length EXCEPT ![h] = FreedLength(h)]
      /\ held' = Forget(held, {Body(h)})
      /\ UNCHANGED <<breaks, searchLocals>>
  BY <1>2 DEF FreeIsolated, Release
<1>4. FF!Next /\ Structure'
  BY FreeIsolatedImplements, FreeIsolatedLinks
<1>5. /\ HeapInv'
      /\ heap_start' \in HeapStarts
      /\ program_break' \in Nat
      /\ Blocks' \subseteq Nat \ {NULL}
      /\ length' \in [Blocks' -> Nat]
      /\ held' \in [DOMAIN held' -> Sizes]
  BY <1>1, <1>4, HeapKept DEF IInv
<1>6. /\ Blocks' = Blocks
      /\ \A b : b \in AllocBlocks' <=> b \in AllocBlocks /\ b # h
      /\ \A b : b \in FreeBlocks' <=> b \in FreeBlocks \/ b = h
  <2>1. Blocks' = Blocks
    BY <1>3 DEF Blocks
  <2>2. \A p : p \in DOMAIN held' <=> p \in DOMAIN held /\ p # Body(h)
    BY <1>3 DEF Forget, Restrict
  <2>3. \A b \in Blocks : Body(b) = Body(h) <=> b = h
    BY <1>1, BlockFacts
  <2> QED
    BY <1>1, <2>1, <2>2, <2>3, Kinds DEF FreeBlocks, AllocBlocks, Body
<1>7. /\ behind # NULL => behind \in AllocBlocks /\ behind \in Blocks /\ End(behind) = h
      /\ ahead # NULL => ahead \in Blocks /\ ahead = End(h)
      /\ behind = NULL => h = heap_start
      /\ \A c \in FreeBlocks : End(c) # h
  BY <1>1, <1>2, <1>3, AllocNeighbours, Kinds
<1>8. behind # h /\ ahead # h
  BY <1>1, <1>7, BlockFacts
<1>9. TypeOK'
  BY <1>1, <1>3, <1>4, <1>5, <1>6, <1>7
     DEF TypeOK, Structure, LinkTypes, LastAllocExact, LastOf, LocalsReset,
         breaks, searchLocals, NULL, AllocBlocks
<1>10. WalkInv'
  <2>1. h \in FreeBlocks' /\ back_free'[h] = NULL /\ fwd_free'[h] = NULL
    BY <1>1, <1>3, <1>6, <1>8, LinkFacts DEF Store
  <2>2. CASE behind # NULL
    <3>1. behind \in AllocBlocks' /\ behind < h
      BY <1>1, <1>6, <1>7, <1>8, <2>2, BlockFacts
    <3>2. \A b \in FreeBlocks' : b < behind \/ h <= b
      BY <1>1, <1>6, <1>7, <2>2, BlockFacts, Kinds
    <3> QED
      BY <1>3, <2>1, <2>2, <3>1, <3>2 DEF WalkInv, NULL
  <2>3. CASE behind = NULL
    <3>1. \A b \in FreeBlocks' : h <= b
      BY <1>1, <1>6, <1>7, <2>3, BlockFacts, Kinds
    <3> QED
      BY <1>3, <2>1, <2>3, <3>1 DEF WalkInv, NULL
  <2> QED
    BY <2>2, <2>3
<1>11. SearchInv' /\ LocalsReset'
  BY <1>1, <1>3 DEF SearchInv, LocalsReset, searchLocals, NULL
<1> QED
  BY <1>4, <1>5, <1>9, <1>10, <1>11 DEF Structure, IInv

(* The walk passes one more allocated block. *)
LEMMA WalkStepStep ==
  ASSUME IInv, WalkStep
  PROVE  IInv'
<1>1. PICK c, prev, behind : c = cursor /\ prev = back_free[c] /\ behind = back_alloc[c]
  OBVIOUS
<1>2. /\ pc = "walk" /\ pc' = "walk" /\ c # NULL /\ prev_free_block_cursor = NULL
      /\ prev_free_block_cursor' = prev /\ cursor' = behind /\ header' = header
      /\ UNCHANGED <<breaks, held, words, lists, searchLocals>>
  BY <1>1 DEF WalkStep
<1>3. /\ HeapInv' /\ Links' /\ Sorted' /\ LastAllocExact'
      /\ Blocks' = Blocks /\ AllocBlocks' = AllocBlocks /\ FreeBlocks' = FreeBlocks
      /\ Listed' = Listed
  BY <1>2, HeapUntouched
<1>4. /\ TypeOK /\ Tiling /\ Links
      /\ header \in FreeBlocks /\ back_free[header] = NULL /\ fwd_free[header] = NULL
      /\ free_block_list # NULL
      /\ c \in AllocBlocks /\ c \in Blocks /\ c < header
      /\ \A b \in FreeBlocks : b < c \/ header <= b
  BY <1>1, <1>2, Kinds DEF IInv, HeapInv, WalkInv
<1>5. /\ prev # NULL => prev \in FreeBlocks /\ prev \in Blocks /\ End(prev) = c
      /\ behind # NULL => behind \in AllocBlocks /\ behind \in Blocks /\ End(behind) = c
      /\ prev = NULL /\ behind = NULL => c = heap_start
      /\ prev = NULL => \A b \in FreeBlocks : End(b) # c
  BY <1>1, <1>4, AllocNeighbours, Kinds
<1>6. TypeOK'
  BY <1>2, <1>3, <1>4, <1>5 DEF TypeOK, breaks, words, lists, searchLocals, NULL
<1>7. WalkInv'
  <2>1. /\ back_free' = back_free /\ fwd_free' = fwd_free
        /\ free_block_list' = free_block_list
    BY <1>2 DEF words, lists
  <2>2. CASE prev # NULL
    <3>1. prev < header /\ prev # header
      BY <1>4, <1>5, <2>2, BlockFacts, Kinds
    <3>2. prev \in Listed
      BY <1>5, <2>2, <3>1 DEF Listed
    <3>3. \A b \in Listed : b < header => b <= prev
      BY <1>4, <1>5, <2>2, BlockFacts, Kinds
    <3> QED
      BY <1>2, <1>3, <1>4, <2>1, <2>2, <3>1, <3>2, <3>3
         DEF WalkInv, LastOf, NULL
  <2>3. CASE prev = NULL /\ behind # NULL
    <3>1. behind < header /\ \A b \in FreeBlocks : b < behind \/ header <= b
      BY <1>4, <1>5, <2>3, BlockFacts, Kinds
    <3> QED
      BY <1>2, <1>3, <1>4, <1>5, <2>1, <2>3, <3>1 DEF WalkInv, NULL
  <2>4. CASE prev = NULL /\ behind = NULL
    <3>1. \A b \in FreeBlocks : header <= b
      BY <1>4, <1>5, <2>4, BlockFacts, Kinds
    <3> QED
      BY <1>2, <1>3, <1>4, <2>1, <2>4, <3>1 DEF WalkInv, NULL
  <2> QED
    BY <2>2, <2>3, <2>4
<1>8. SearchInv' /\ LocalsReset'
  BY <1>2 DEF IInv, SearchInv, LocalsReset, searchLocals, NULL
<1> QED
  BY <1>3, <1>6, <1>7, <1>8 DEF IInv

-----------------------------------------------------------------------------
(* The calls that return: __malloc ... *)
LEMMA MallocReturns ==
  ASSUME IInv, NoOverflow, NEW b, NEW size, ReturnBlock(b, size),
         pc \in {"idle", "search"}, FF!Next, Structure', kernel_break' \in Nat
  PROVE  IInv'
<1>1. /\ pc' = "idle" /\ request' = 0
      /\ search_ptr' = NULL /\ trailing_search_ptr' = NULL
      /\ UNCHANGED walkLocals
  BY DEF ReturnBlock
<1>2. header' = NULL /\ cursor' = NULL /\ prev_free_block_cursor' = NULL
  BY <1>1 DEF IInv, LocalsReset, walkLocals
<1> QED
  BY <1>1, <1>2, CallReturns

(* ... by any of its ways to serve a request ... *)
LEMMA MallocStep ==
  ASSUME IInv, NoOverflow,
         \/ \E size \in Sizes : MallocNoFree(size)
         \/ MallocGrowLast \/ MallocAppend \/ MallocSplit \/ MallocWhole
  PROVE  IInv' /\ FF!Next
<1>1. TypeOK
  BY DEF IInv
<1>2. \A size \in Sizes : real_size(size) \in Nat
  BY RealSize, HeaderAssumption
<1>3. ASSUME NEW size \in Sizes, MallocNoFree(size)
      PROVE  IInv' /\ FF!Next
  <2>1. /\ SafeSbrk(real_size(size)) /\ ReturnBlock(program_break, size)
        /\ pc = "idle"
    BY <1>3 DEF MallocNoFree
  <2>2. kernel_break' \in Nat
    BY <1>1, <1>2, <2>1, KernelBreak
  <2>3. FF!Next /\ Structure'
    BY <1>3, NoFreeAppends
  <2> QED
    BY <2>1, <2>2, <2>3, MallocReturns
<1>4. CASE MallocGrowLast
  <2>1. PICK b, n : b = trailing_search_ptr
                    /\ n = real_size(request) - (FREE_BLOCK_HEADER_SZ + length[b])
    OBVIOUS
  <2>2. pc = "search" /\ SafeSbrk(n) /\ ReturnBlock(b, request)
    BY <1>4, <2>1 DEF MallocGrowLast
  <2>3. n \in Nat
    <3>1. request \in Sizes /\ b \in Blocks /\ ~LargeEnough(b)
      BY <1>4, <2>1, SearchFailed, Kinds DEF MallocGrowLast
    <3>2. length[b] \in Nat
      BY <1>1, <3>1 DEF TypeOK
    <3> QED
      BY <1>2, <2>1, <3>1, <3>2, HeaderAssumption
         DEF LargeEnough, FREE_BLOCK_HEADER_SZ
  <2>4. kernel_break' \in Nat
    BY <1>1, <2>2, <2>3, KernelBreak
  <2>5. FF!Next /\ Structure'
    BY <1>4, GrowLastImplements, GrowLastLinks
  <2> QED
    BY <2>2, <2>4, <2>5, MallocReturns
<1>5. CASE MallocAppend
  <2>1. /\ pc = "search" /\ SafeSbrk(real_size(request))
        /\ ReturnBlock(program_break, request)
    BY <1>5 DEF MallocAppend
  <2>2. request \in Sizes
    BY <1>5, SearchFailed DEF MallocAppend
  <2>3. kernel_break' \in Nat
    BY <1>1, <1>2, <2>1, <2>2, KernelBreak
  <2>4. FF!Next /\ Structure'
    BY <1>5, SearchAppends
  <2> QED
    BY <2>1, <2>3, <2>4, MallocReturns
<1>6. CASE MallocSplit
  <2>1. pc = "search" /\ ReturnBlock(SplitPoint, request) /\ kernel_break' = kernel_break
    BY <1>6 DEF MallocSplit, Found
  <2>2. FF!Next /\ Structure'
    BY <1>6, SplitImplements, SplitLinks
  <2> QED
    BY <1>1, <2>1, <2>2, MallocReturns DEF TypeOK
<1>7. CASE MallocWhole
  <2>1. pc = "search" /\ ReturnBlock(search_ptr, request) /\ kernel_break' = kernel_break
    BY <1>7 DEF MallocWhole, Found
  <2>2. FF!Next /\ Structure'
    BY <1>7, WholeImplements, WholeLinks
  <2> QED
    BY <1>1, <2>1, <2>2, MallocReturns DEF TypeOK
<1> QED
  BY <1>3, <1>4, <1>5, <1>6, <1>7

(* ... and __free. *)
LEMMA FreeReturns ==
  ASSUME IInv, NoOverflow, NEW h \in AllocBlocks,
         \/ FreeFirst(h) \/ FreeDoubleMerge(h) \/ FreeMergeBack(h) \/ FreeMergeFwd(h)
  PROVE  IInv' /\ FF!Next
<1>1. FF!Next
  BY FreeFirstImplements, FreeDoubleMergeImplements, FreeMergeBackImplements,
     FreeMergeFwdImplements
<1>2. Structure'
  BY FreeFirstLinks, FreeDoubleMergeLinks, FreeMergeBackLinks, FreeMergeFwdLinks
<1>3. /\ pc = "idle" /\ UNCHANGED pc
      /\ UNCHANGED breaks /\ UNCHANGED searchLocals /\ UNCHANGED walkLocals
  BY DEF FreeFirst, FreeDoubleMerge, FreeMergeBack, FreeMergeFwd, Release
<1>4. /\ pc' = "idle" /\ request' \in Sizes \cup {0}
      /\ search_ptr' = NULL /\ trailing_search_ptr' = NULL
      /\ header' = NULL /\ cursor' = NULL /\ prev_free_block_cursor' = NULL
      /\ kernel_break' \in Nat
  BY <1>3 DEF IInv, TypeOK, LocalsReset, breaks, searchLocals, walkLocals
<1> QED
  BY <1>1, <1>2, <1>4, CallReturns

(* A __free that had to walk ends when it has linked its block. *)
LEMMA InsertStep ==
  ASSUME IInv, NoOverflow, FreeInsertAfter \/ FreeInsertFirst
  PROVE  IInv'
<1>1. /\ pc = "walk" /\ pc' = "idle"
      /\ header' = NULL /\ cursor' = NULL /\ prev_free_block_cursor' = NULL
      /\ UNCHANGED <<breaks, held, length, searchLocals>>
  BY DEF FreeInsertAfter, FreeInsertFirst, EndWalk, WalkDone
<1>2. Structure'
  BY FreeInsertAfterLinks, FreeInsertFirstLinks
<1>3. /\ request' \in Sizes \cup {0} /\ kernel_break' \in Nat
      /\ search_ptr' = NULL /\ trailing_search_ptr' = NULL
      /\ UNCHANGED <<heap_start, program_break, length, held>>
  BY <1>1 DEF IInv, TypeOK, LocalsReset, breaks, searchLocals
<1> QED
  BY <1>1, <1>2, <1>3, CallReturns

(* A store beyond the program break ends the process and changes nothing. *)
LEMMA SegFaultStep ==
  ASSUME IInv, SegFault
  PROVE  IInv'
<1>1. /\ pc # "walk" /\ pc' = "sigsegv"
      /\ UNCHANGED <<breaks, held, words, lists, searchLocals, walkLocals>>
  BY DEF SegFault, Found
<1>2. /\ HeapInv' /\ Links' /\ Sorted' /\ LastAllocExact' /\ Blocks' = Blocks
  BY <1>1, HeapUntouched
<1>3. TypeOK'
  BY <1>1, <1>2 DEF IInv, TypeOK, breaks, words, lists, searchLocals, walkLocals
<1>4. SearchInv' /\ WalkInv' /\ LocalsReset'
  BY <1>1 DEF SearchInv, WalkInv, LocalsReset
<1> QED
  BY <1>2, <1>3, <1>4 DEF IInv

(* Nothing happens. *)
LEMMA StutterStep ==
  ASSUME IInv, UNCHANGED vars
  PROVE  IInv'
<1>1. /\ pc' = pc /\ UNCHANGED <<breaks, held, words, lists, searchLocals, walkLocals>>
  BY DEF vars
<1>2. /\ HeapInv' /\ Links' /\ Sorted' /\ LastAllocExact'
      /\ Blocks' = Blocks /\ AllocBlocks' = AllocBlocks /\ FreeBlocks' = FreeBlocks
      /\ Listed' = Listed
  BY <1>1, HeapUntouched DEF walkLocals
<1>3. TypeOK'
  BY <1>1, <1>2 DEF IInv, TypeOK, breaks, words, lists, searchLocals, walkLocals
<1>4. SearchInv'
  BY <1>1, <1>2
     DEF IInv, SearchInv, searchLocals, lists, words, breaks, LargeEnough,
         Requestable
<1>5. WalkInv'
  BY <1>1, <1>2 DEF IInv, WalkInv, walkLocals, lists, words
<1>6. LocalsReset'
  BY <1>1 DEF IInv, LocalsReset, searchLocals, walkLocals
<1> QED
  BY <1>2, <1>3, <1>4, <1>5, <1>6 DEF IInv

(* Every step keeps the heap and the links in order. *)
LEMMA NextInv == NoOverflow /\ IInv /\ [Next]_vars => IInv'
<1> SUFFICES ASSUME NoOverflow, IInv, [Next]_vars
             PROVE  IInv'
  OBVIOUS
<1>1. ASSUME NEW size \in Sizes, Malloc(size)
      PROVE  IInv'
  BY <1>1, MallocStep, MallocSearchStep DEF Malloc
<1>2. ASSUME NEW h \in AllocBlocks, Free(h)
      PROVE  IInv'
  BY <1>2, FreeReturns, FreeIsolatedStep DEF Free
<1>3. CASE Continue
  BY <1>3, SearchStepStep, MallocStep, WalkStepStep, InsertStep DEF Continue
<1>4. CASE SegFault
  BY <1>4, SegFaultStep
<1>5. CASE UNCHANGED vars
  BY <1>5, StutterStep
<1> QED
  BY <1>1, <1>2, <1>3, <1>4, <1>5 DEF Next

-----------------------------------------------------------------------------
(***************************************************************************)
(* A step of the code is one call of first fit, or none: the loops of      *)
(* __malloc and __free leave the blocks and the client's pointers alone    *)
(* until they end, and the insertion in the list is not seen by first fit, *)
(* for which the block is free since the walk began.                       *)
(***************************************************************************)
LEMMA NextImplements == NoOverflow /\ IInv /\ [Next]_vars => [FF!Next]_(FF!vars)
<1> SUFFICES ASSUME NoOverflow, IInv, [Next]_vars
             PROVE  FF!Next \/ UNCHANGED <<heap_start, program_break, length, held>>
  BY DEF FF!vars
<1>1. ASSUME NEW size \in Sizes, MallocNoFree(size)
      PROVE  FF!Next
  BY <1>1, MallocStep
<1>2. ASSUME NEW size \in Sizes, MallocSearch(size)
      PROVE  UNCHANGED <<heap_start, program_break, length, held>>
  BY <1>2 DEF MallocSearch, breaks, words
<1>3. ASSUME NEW h \in AllocBlocks, Free(h)
      PROVE  FF!Next
  BY <1>3, FreeReturns, FreeIsolatedImplements DEF Free
<1>4. CASE MallocGrowLast \/ MallocAppend \/ MallocSplit \/ MallocWhole
  BY <1>4, MallocStep
<1>5. CASE SearchStep \/ WalkStep
  BY <1>5 DEF SearchStep, WalkStep, breaks, words
<1>6. CASE FreeInsertAfter \/ FreeInsertFirst
  BY <1>6 DEF FreeInsertAfter, FreeInsertFirst, EndWalk, breaks
<1>7. CASE SegFault
  BY <1>7 DEF SegFault, breaks, words
<1>8. CASE UNCHANGED vars
  BY <1>8 DEF vars, breaks, words
<1> QED
  BY <1>1, <1>2, <1>3, <1>4, <1>5, <1>6, <1>7, <1>8 DEF Next, Malloc, Continue

(* The invariant of FirstFitProofs holds of the heap of the code. *)
LEMMA FirstFitInv == IInv => FFP!IInv
BY SameInvariant DEF IInv, TypeOK, HeapInv, FFP!IInv, FFP!TypeOK

(* A step of the code does what AllocContract promises of a call. *)
LEMMA StepKeepsContract ==
  NoOverflow /\ IInv /\ IInv' /\ [Next]_vars => [FF!Contract!Next]_held
<1> SUFFICES ASSUME NoOverflow, IInv, IInv', [Next]_vars
             PROVE  [FF!Contract!Next]_held
  OBVIOUS
<1>1. FFP!IInv
  BY FirstFitInv
<1>2. FFP!IInv'
  BY FirstFitInv, PTL
<1>3. [FFP!Next]_(FFP!vars)
  BY NextImplements, SameSteps DEF FF!vars, FFP!vars
<1>4. [FFP!Contract!Next]_held
  BY <1>1, <1>2, <1>3, FFP!ContractStep, SameInvariant, HeaderAssumption,
     HeapStartsAssumption, SizesAssumption, MaxBreakAssumption
<1> QED
  BY <1>4 DEF FFP!Contract!Next, FFP!Contract!Malloc, FFP!Contract!Free,
              FFP!Contract!Restrict, FFP!Contract!Apart, FF!Contract!Next,
              FF!Contract!Malloc, FF!Contract!Free, FF!Contract!Restrict,
              FF!Contract!Apart

(* What the client holds before and after a step is of the same size. *)
LEMMA SizesKept ==
  ASSUME NoOverflow, IInv, IInv', [Next]_vars
  PROVE  \A p \in DOMAIN held \cap (DOMAIN held)' : held'[p] = held[p]
<1>1. [FF!Contract!Next]_held
  BY StepKeepsContract
<1> QED
  BY <1>1 DEF FF!Contract!Next, FF!Contract!Malloc, FF!Contract!Free,
              FF!Contract!Restrict

(* The headers that a step writes lie outside what the client keeps. *)
LEMMA StepWritesOnlyHeaders ==
  ASSUME NoOverflow, IInv, [Next]_vars
  PROVE  \A b \in Blocks' :
           (b \in Blocks /\ Header(b)' = Header(b))
           \/ \A p \in DOMAIN held \cap (DOMAIN held)' :
                b + HeaderSize <= p \/ p + held[p] <= b
<1>1. IInv'
  BY NextInv
<1>2. SUFFICES ASSUME NEW b \in Blocks', NEW p \in DOMAIN held \cap (DOMAIN held)'
               PROVE  b + HeaderSize <= p \/ p + held[p] <= b
  OBVIOUS
<1>3. TypeOK' /\ Tiling' /\ HeldUsable'
  BY <1>1 DEF IInv, HeapInv
<1>4. PICK c \in Blocks' : p = Body(c)' /\ held'[p] <= length'[c]
  BY <1>3 DEF HeldUsable
<1>5. held'[p] = held[p] /\ held'[p] \in Nat
  BY <1>1, <1>3, SizesKept, SizesAssumption DEF TypeOK
<1>6. /\ b \in Nat /\ c \in Nat /\ length'[b] \in Nat /\ length'[c] \in Nat
      /\ End(b)' = b + HeaderSize + length'[b]
      /\ End(c)' = c + HeaderSize + length'[c]
      /\ p = c + HeaderSize /\ p + held[p] <= End(c)'
  BY <1>3, <1>4, <1>5, HeaderAssumption
     DEF TypeOK, End, Body, ALLOC_BLOCK_HEADER_SZ
<1>7. /\ b < c => End(b)' <= c
      /\ c < b => End(c)' <= b
  BY <1>3, <1>4 DEF Tiling
<1> QED
  BY <1>5, <1>6, <1>7, HeaderAssumption

-----------------------------------------------------------------------------
(***************************************************************************)
(* The invariant of __malloc and __free: whatever the header size, the     *)
(* heap start, the sizes, the order of the calls and the kernel's limit,   *)
(* the blocks tile the heap, every link is exact, and the loops pass what  *)
(* they are meant to pass.  No request may overflow: see malloc_overflow.  *)
(***************************************************************************)
THEOREM Invariance == NoOverflow => (Spec => []IInv)
<1> SUFFICES ASSUME NoOverflow
             PROVE  Spec => []IInv
  OBVIOUS
<1>1. IInv /\ [Next]_vars => IInv'
  BY NextInv
<1> QED
  BY InitInv, <1>1, PTL DEF Spec

(* The words of the headers always are what their types say. *)
THEOREM TypeCorrect == NoOverflow => (Spec => []TypeOK)
<1>1. IInv => TypeOK
  BY DEF IInv
<1> QED
  BY <1>1, Invariance, PTL

(***************************************************************************)
(* The links beside a block are exact between all steps, so every merge    *)
(* of __free decides on what is there.                                     *)
(***************************************************************************)
THEOREM LinksExact == NoOverflow => (Spec => []NeighbourLinks)
<1>1. IInv => NeighbourLinks
  BY LinksMeaning DEF IInv
<1> QED
  BY <1>1, Invariance, PTL

(***************************************************************************)
(* The free list is sorted, doubly linked and complete but for the block   *)
(* that a running __free is about to insert.                               *)
(***************************************************************************)
THEOREM ListSorted == NoOverflow => (Spec => []FreeListSorted)
<1>1. IInv => FreeListSorted
  BY SortedMeaning DEF IInv
<1> QED
  BY <1>1, Invariance, PTL

(* last_alloc_block is always the last allocated block. *)
THEOREM LastAllocKnown == NoOverflow => (Spec => []LastAllocExact)
<1>1. IInv => LastAllocExact
  BY DEF IInv
<1> QED
  BY <1>1, Invariance, PTL

(* The search of __malloc has missed no block, and trails by one. *)
THEOREM SearchMissesNothing == NoOverflow => (Spec => []SearchInv)
<1>1. IInv => SearchInv
  BY DEF IInv
<1> QED
  BY <1>1, Invariance, PTL

(* The walk of __free ends at the free block before the one it frees. *)
THEOREM WalkMissesNothing == NoOverflow => (Spec => []WalkInv)
<1>1. IInv => WalkInv
  BY DEF IInv
<1> QED
  BY <1>1, Invariance, PTL

(* Every block has room for a header: only an overflow can break this. *)
THEOREM CodeMinimumSize == NoOverflow => (Spec => []MinimumSize)
<1>1. IInv => MinimumSize
  <2> SUFFICES ASSUME IInv
               PROVE  MinimumSize
    OBVIOUS
  <2>1. TypeOK /\ Tiling
    BY DEF IInv, HeapInv
  <2> QED
    BY <2>1, BlockFacts DEF Tiling, MinimumSize, MINIMUM_BLOCK_SZ
<1> QED
  BY <1>1, Invariance, PTL

(* The blocks tile the heap, so every address computed from a length is sound. *)
THEOREM CodeTiled == NoOverflow => (Spec => []Tiling)
<1>1. IInv => Tiling
  BY DEF IInv, HeapInv
<1> QED
  BY <1>1, Invariance, PTL

(***************************************************************************)
(* Free neighbours are always merged, as q2.c claims: also while the walk  *)
(* of __free is looking for the place of a block.                          *)
(***************************************************************************)
THEOREM CodeCoalesced == NoOverflow => (Spec => []Coalesced)
<1>1. IInv => Coalesced
  BY DEF IInv, HeapInv
<1> QED
  BY <1>1, Invariance, PTL

(* A client can use as many bytes as it asked for, until it frees them. *)
THEOREM CodeUsable == NoOverflow => (Spec => []HeldUsable)
<1>1. IInv => HeldUsable
  BY DEF IInv, HeapInv
<1> QED
  BY <1>1, Invariance, PTL

(* No step writes a byte that the client holds before and after it. *)
THEOREM OnlyHeadersWritten == NoOverflow => (Spec => WritesOnlyHeaders)
<1> SUFFICES ASSUME NoOverflow
             PROVE  Spec => WritesOnlyHeaders
  OBVIOUS
<1>1. IInv /\ [Next]_vars =>
        [\A b \in Blocks' :
           (b \in Blocks /\ Header(b)' = Header(b))
           \/ \A p \in DOMAIN held \cap (DOMAIN held)' :
                b + HeaderSize <= p \/ p + held[p] <= b]_vars
  BY StepWritesOnlyHeaders
<1> QED
  BY <1>1, Invariance, PTL DEF Spec, WritesOnlyHeaders

(***************************************************************************)
(* The pointer-chasing code implements first fit: a block is found by      *)
(* links that are exact, where first fit looks at the whole heap.          *)
(***************************************************************************)
THEOREM ImplementsFirstFit == NoOverflow => (Spec => FirstFitSpec)
<1> SUFFICES ASSUME NoOverflow
             PROVE  Spec => FirstFitSpec
  OBVIOUS
<1>1. Init => FF!Init
  BY DEF Init, NoWords, FF!Init
<1>2. IInv /\ [Next]_vars => [FF!Next]_(FF!vars)
  BY NextImplements
<1> QED
  BY <1>1, <1>2, Invariance, PTL DEF Spec, FirstFitSpec, FF!Spec

(***************************************************************************)
(* So the client of the code is kept the contract of AllocContract: the    *)
(* bytes of a pointer it holds are its own until it frees the pointer.     *)
(***************************************************************************)
THEOREM CodeKeepsContract == NoOverflow => (Spec => ContractSpec)
<1> SUFFICES ASSUME NoOverflow
             PROVE  Spec => ContractSpec
  OBVIOUS
<1>1. Init => FF!Contract!Init
  BY DEF Init, FF!Contract!Init
<1>2. IInv /\ IInv' /\ [Next]_vars => [FF!Contract!Next]_held
  BY StepKeepsContract
<1> QED
  BY <1>1, <1>2, Invariance, PTL DEF Spec, ContractSpec, FF!ContractSpec, FF!Contract!Spec

-----------------------------------------------------------------------------
(***************************************************************************)
(* malloc_mapped shows what happens when sbrk fails.  It is the only way:  *)
(* as long as the kernel gives what clients may ask for, its break is the  *)
(* allocator's, and no store faults.                                       *)
(***************************************************************************)
KernelFollows == kernel_break = program_break /\ pc # "sigsegv"

(* sbrk succeeds for every amount up to a request. *)
LEMMA SbrkSucceeds ==
  ASSUME TypeOK, MaxBreak <= SbrkLimit, kernel_break = program_break,
         NEW n \in Nat, program_break + n <= MaxBreak
  PROVE  /\ KernelBreakAfter(n) = program_break + n
         /\ SafeSbrk(n) => kernel_break' = program_break'
BY MaxBreakAssumption, SbrkLimitAssumption
   DEF TypeOK, KernelBreakAfter, SafeSbrk

LEMMA NoFault ==
  ASSUME NoOverflow, MaxBreak <= SbrkLimit, IInv, KernelFollows
  PROVE  ~SegFault
<1>1. TypeOK /\ Tiling
  BY DEF IInv, HeapInv
<1>2. ASSUME NEW size \in Sizes, program_break + real_size(size) <= MaxBreak
      PROVE  ~Unmapped(program_break, KernelBreakAfter(real_size(size)))
  <2>1. real_size(size) = HeaderSize + size /\ size \in Nat /\ HeaderSize \in Nat
    BY RealSize, HeaderAssumption
  <2>2. real_size(size) \in Nat
    BY <2>1
  <2>3. KernelBreakAfter(real_size(size)) = program_break + real_size(size)
    BY <1>1, <1>2, <2>2, SbrkSucceeds DEF KernelFollows
  <2> QED
    BY <1>1, <2>1, <2>3 DEF Unmapped, TypeOK
<1>3. ASSUME free_block_list = NULL, pc = "idle", NEW size \in Sizes, Requestable(size)
      PROVE  program_break + real_size(size) <= MaxBreak
  BY <1>3, Kinds DEF Requestable, IInv, Sorted, HeadFirst
<1>4. ASSUME pc = "search", search_ptr = NULL
      PROVE  request \in Sizes /\ program_break + real_size(request) <= MaxBreak
  BY <1>4, SearchFailed DEF Requestable, LargeEnough
<1>5. ASSUME Found, Splittable
      PROVE  ~Unmapped(SplitPoint, kernel_break)
  <2>1. search_ptr \in Blocks /\ request \in Sizes
    BY <1>5, SearchFound, Kinds
  <2>2. /\ real_size(request) = HeaderSize + request /\ request \in Nat
        /\ HeaderSize \in Nat
    BY <2>1, RealSize, HeaderAssumption
  <2> QED
    BY <1>1, <2>1, <2>2, BlockFacts
       DEF Unmapped, SplitPoint, FREE_BLOCK_HEADER_SZ, KernelFollows
<1> QED
  BY <1>2, <1>3, <1>4, <1>5 DEF SegFault

LEMMA KernelFollowsStep ==
  ASSUME NoOverflow, MaxBreak <= SbrkLimit, IInv, KernelFollows, [Next]_vars
  PROVE  KernelFollows'
<1>1. TypeOK
  BY DEF IInv
<1>2. \A size \in Sizes : real_size(size) \in Nat
  BY RealSize, HeaderAssumption
<1>3. ASSUME NEW size \in Sizes, MallocNoFree(size)
      PROVE  KernelFollows'
  <2>1. program_break + real_size(size) <= MaxBreak
    BY <1>3, Kinds DEF MallocNoFree, Requestable, IInv, Sorted, HeadFirst
  <2> QED
    BY <1>1, <1>2, <1>3, <2>1, SbrkSucceeds
       DEF MallocNoFree, ReturnBlock, KernelFollows
<1>4. CASE MallocAppend \/ MallocGrowLast
  <2>1. /\ pc = "search" /\ search_ptr = NULL /\ pc' = "idle"
    BY <1>4 DEF MallocAppend, MallocGrowLast, ReturnBlock
  <2>2. request \in Sizes /\ program_break + real_size(request) <= MaxBreak
    BY <2>1, SearchFailed DEF Requestable, LargeEnough
  <2>3. CASE MallocAppend
    BY <1>1, <1>2, <2>1, <2>2, <2>3, SbrkSucceeds
       DEF MallocAppend, KernelFollows
  <2>4. CASE MallocGrowLast
    <3>1. PICK b, n : b = trailing_search_ptr
                      /\ n = real_size(request) - (FREE_BLOCK_HEADER_SZ + length[b])
      OBVIOUS
    <3>2. b \in Blocks /\ ~LargeEnough(b)
      BY <2>1, <3>1, SearchFailed, Kinds
    <3>3. length[b] \in Nat /\ program_break \in Nat
      BY <1>1, <3>2 DEF TypeOK
    <3>4. n \in Nat /\ n <= real_size(request)
      BY <1>2, <2>2, <3>1, <3>2, <3>3, HeaderAssumption
         DEF LargeEnough, FREE_BLOCK_HEADER_SZ
    <3>5. program_break + n <= MaxBreak
      BY <1>2, <2>2, <3>3, <3>4, MaxBreakAssumption
    <3> QED
      BY <1>1, <2>1, <2>4, <3>1, <3>4, <3>5, SbrkSucceeds
         DEF MallocGrowLast, KernelFollows
  <2> QED
    BY <1>4, <2>3, <2>4
<1>5. ASSUME NEW h \in AllocBlocks, Free(h)
      PROVE  KernelFollows'
  BY <1>5 DEF Free, FreeFirst, FreeDoubleMerge, FreeMergeBack, FreeMergeFwd,
              FreeIsolated, Release, breaks, KernelFollows
<1>6. ASSUME NEW size \in Sizes, MallocSearch(size)
      PROVE  KernelFollows'
  BY <1>6 DEF MallocSearch, breaks, KernelFollows
<1>7. CASE MallocSplit \/ MallocWhole
  BY <1>7 DEF MallocSplit, MallocWhole, ReturnBlock, KernelFollows
<1>8. CASE SearchStep \/ WalkStep \/ FreeInsertAfter \/ FreeInsertFirst
  BY <1>8 DEF SearchStep, WalkStep, FreeInsertAfter, FreeInsertFirst, EndWalk,
              breaks, KernelFollows
<1>9. CASE SegFault
  BY <1>9, NoFault
<1>10. CASE UNCHANGED vars
  BY <1>10 DEF vars, breaks, KernelFollows
<1> QED
  BY <1>3, <1>4, <1>5, <1>6, <1>7, <1>8, <1>9, <1>10 DEF Next, Malloc, Continue

(* What a client holds lies below the kernel's break. *)
LEMMA HeldBelowBreak == IInv /\ KernelFollows => HeldMapped
<1> SUFFICES ASSUME IInv, KernelFollows, NEW p \in DOMAIN held
             PROVE  p + held[p] <= kernel_break
  BY DEF HeldMapped
<1>1. TypeOK /\ Tiling /\ HeldUsable
  BY DEF IInv, HeapInv
<1>2. PICK b \in Blocks : p = Body(b) /\ held[p] <= length[b]
  BY <1>1 DEF HeldUsable
<1>3. held[p] \in Nat
  BY <1>1, SizesAssumption DEF TypeOK
<1> QED
  BY <1>1, <1>2, <1>3, BlockFacts DEF KernelFollows

(***************************************************************************)
(* If the kernel can move its break as far as clients may push it, then    *)
(* every byte a client holds is mapped and the allocator never faults: the *)
(* violation in malloc_mapped needs an sbrk that fails.                    *)
(***************************************************************************)
THEOREM MappedUnlessSbrkFails ==
  NoOverflow /\ MaxBreak <= SbrkLimit
    => (Spec => [](HeldMapped /\ pc # "sigsegv"))
<1> SUFFICES ASSUME NoOverflow, MaxBreak <= SbrkLimit
             PROVE  Spec => [](HeldMapped /\ pc # "sigsegv")
  OBVIOUS
<1>1. Init => KernelFollows
  BY DEF Init, KernelFollows
<1>2. IInv /\ KernelFollows /\ [Next]_vars => KernelFollows'
  BY KernelFollowsStep
<1>3. IInv /\ KernelFollows => HeldMapped /\ pc # "sigsegv"
  BY HeldBelowBreak DEF KernelFollows
<1> QED
  BY <1>1, <1>2, <1>3, Invariance, PTL DEF Spec
=============================================================================
