------------------------------- MODULE Malloc -------------------------------
(***************************************************************************)
(* __malloc and __free of c/chpt7/q2.c, word by word.                      *)
(*                                                                         *)
(* A header is five words: length and four links.  The structs             *)
(* __free_block_header and __alloc_block_header lay different fields over  *)
(* the same words, and the code relies on it when it casts one into the    *)
(* other ("already filled due to struct alignment"), so the model has one  *)
(* function per word:                                                      *)
(*                                                                         *)
(*   word        of a free block         of an allocated block             *)
(*   length      length                  length                            *)
(*   back_free   prev_free_block         back_merge_on_free                *)
(*   fwd_free    nxt_free_block          fwd_merge_on_free                 *)
(*   back_alloc  back_expansion_cand     prev_neigh_alloc_block            *)
(*   fwd_alloc   fwd_expansion_cand      nxt_neigh_alloc_block             *)
(*                                                                         *)
(* The words of a header swallowed by a merge are forgotten: nothing reads *)
(* them again.  A call without a loop is one step.  The search for a free  *)
(* block in __malloc and the walk to the previous free block in __free are *)
(* one step per iteration, with pc saying which loop is running.  The      *)
(* program is single-threaded: a client calls only when pc is "idle".      *)
(***************************************************************************)
EXTENDS Heap

CONSTANT SbrkLimit  \* the kernel moves the program break no further than this

ASSUME SbrkLimitAssumption == SbrkLimit \in Nat

VARIABLES
  kernel_break,           \* the program break, as the kernel records it
  back_free,              \* the four links of each header, see above
  fwd_free,
  back_alloc,
  fwd_alloc,
  free_block_list,        \* the first free block, or NULL
  last_alloc_block,       \* the last allocated block, or NULL
  pc,                     \* "idle", or the loop a call is in, or "sigsegv"
  request,                \* size, the argument of the running __malloc
  search_ptr,             \* locals of the search loop of __malloc
  trailing_search_ptr,
  header,                 \* locals of the walk of __free
  cursor,
  prev_free_block_cursor

breaks == <<heap_start, program_break, kernel_break>>
lists == <<free_block_list, last_alloc_block>>
words == <<length, back_free, fwd_free, back_alloc, fwd_alloc>>
searchLocals == <<request, search_ptr, trailing_search_ptr>>
walkLocals == <<header, cursor, prev_free_block_cursor>>
vars == <<breaks, held, words, lists, pc, searchLocals, walkLocals>>

NoWords == [b \in {} |-> 0]

(* chpt7_q2: heap_start = program_break = sbrk(0), with empty lists. *)
Init ==
  /\ heap_start \in HeapStarts
  /\ program_break = heap_start
  /\ kernel_break = heap_start
  /\ length = NoWords
  /\ back_free = NoWords
  /\ fwd_free = NoWords
  /\ back_alloc = NoWords
  /\ fwd_alloc = NoWords
  /\ held = [p \in {} |-> 0]
  /\ free_block_list = NULL
  /\ last_alloc_block = NULL
  /\ pc = "idle"
  /\ request = 0
  /\ search_ptr = NULL
  /\ trailing_search_ptr = NULL
  /\ header = NULL
  /\ cursor = NULL
  /\ prev_free_block_cursor = NULL

-----------------------------------------------------------------------------
(* The store "if (a != NULL) a->word = v", for the word f. *)
Store(f, a, v) == IF a = NULL THEN f ELSE [f EXCEPT ![a] = v]

(***************************************************************************)
(* sbrk(n) moves the kernel's break if it can and answers -1 if it cannot. *)
(* __safe_sbrk compares the answer with NULL, which it never is, so the    *)
(* allocator adds n to its own break in either case.                       *)
(***************************************************************************)
KernelBreakAfter(n) ==
  IF kernel_break + n <= SbrkLimit THEN kernel_break + n ELSE kernel_break

(* Mutant: the program break is what the kernel says, but the call goes on. *)
SafeSbrkUnmoved(n) ==
  /\ program_break' = program_break + KernelBreakAfter(n) - kernel_break
  /\ kernel_break' = KernelBreakAfter(n)

SafeSbrk(n) ==
  /\ program_break' = program_break + n
  /\ kernel_break' = KernelBreakAfter(n)

(* __malloc returns the body of b. *)
ReturnBlock(b, size) ==
  /\ held' = Put(held, Body(b), size)
  /\ pc' = "idle"
  /\ request' = 0
  /\ search_ptr' = NULL
  /\ trailing_search_ptr' = NULL
  /\ UNCHANGED <<heap_start, walkLocals>>

(* __malloc when there is no free block: append a block to the heap. *)
MallocNoFree(size) ==
  LET new_alloc == program_break
  IN  /\ pc = "idle"
      /\ free_block_list = NULL
      /\ Requestable(size)
      /\ SafeSbrk(real_size(size))
      /\ length' = Put(length, new_alloc, size)
      /\ back_free' = Put(back_free, new_alloc, NULL)
      /\ fwd_free' = Put(fwd_free, new_alloc, NULL)
      /\ back_alloc' = Put(back_alloc, new_alloc, last_alloc_block)
      /\ fwd_alloc' =
           Put(Store(fwd_alloc, last_alloc_block, new_alloc), new_alloc, NULL)
      /\ last_alloc_block' = new_alloc
      /\ UNCHANGED free_block_list
      /\ ReturnBlock(new_alloc, size)

-----------------------------------------------------------------------------
(* __malloc when there are free blocks: search the list from its start. *)
MallocSearch(size) ==
  /\ pc = "idle"
  /\ free_block_list # NULL
  /\ Requestable(size)
  /\ pc' = "search"
  /\ request' = size
  /\ search_ptr' = free_block_list
  /\ trailing_search_ptr' = NULL
  /\ UNCHANGED <<breaks, held, words, lists, walkLocals>>

(* Mutant: the header of the request is not counted. *)
LargeEnoughUncounted(b) == FREE_BLOCK_HEADER_SZ + length[b] >= request

LargeEnough(b) == FREE_BLOCK_HEADER_SZ + length[b] >= real_size(request)

(* Mutant: trailing_search_ptr is left behind. *)
SearchStepAlone ==
  /\ pc = "search"
  /\ search_ptr # NULL
  /\ ~LargeEnough(search_ptr)
  /\ search_ptr' = fwd_free[search_ptr]
  /\ UNCHANGED <<breaks, held, words, lists, pc, request,
                 trailing_search_ptr, walkLocals>>

SearchStep ==
  /\ pc = "search"
  /\ search_ptr # NULL
  /\ ~LargeEnough(search_ptr)
  /\ trailing_search_ptr' = search_ptr
  /\ search_ptr' = fwd_free[search_ptr]
  /\ UNCHANGED <<breaks, held, words, lists, pc, request, walkLocals>>

(***************************************************************************)
(* No free block is large enough, and the last one has no allocated block  *)
(* in front of it: it is the last block of the heap and grows into the     *)
(* new block.  Its other links are already those of the new block.         *)
(***************************************************************************)
MallocGrowLast ==
  LET new_alloc == trailing_search_ptr
      prev == back_free[trailing_search_ptr]
  IN  /\ pc = "search"
      /\ search_ptr = NULL
      /\ fwd_alloc[trailing_search_ptr] = NULL
      /\ SafeSbrk(real_size(request)
                    - (FREE_BLOCK_HEADER_SZ + length[trailing_search_ptr]))
      /\ free_block_list' = IF prev # NULL THEN free_block_list ELSE NULL
      /\ length' = [length EXCEPT ![new_alloc] = request]
      /\ back_free' = [back_free EXCEPT ![new_alloc] = NULL]
      /\ fwd_free' = Store(Store(fwd_free, prev, NULL), last_alloc_block, NULL)
      /\ fwd_alloc' = Store(fwd_alloc, last_alloc_block, new_alloc)
      /\ last_alloc_block' = new_alloc
      /\ UNCHANGED back_alloc
      /\ ReturnBlock(new_alloc, request)

(* No free block is large enough or last in the heap: append a block. *)
MallocAppend ==
  LET new_alloc == program_break
  IN  /\ pc = "search"
      /\ search_ptr = NULL
      /\ fwd_alloc[trailing_search_ptr] # NULL
      /\ SafeSbrk(real_size(request))
      /\ length' = Put(length, new_alloc, request)
      /\ back_free' = Put(back_free, new_alloc, NULL)
      /\ fwd_free' =
           Put(Store(fwd_free, last_alloc_block, NULL), new_alloc, NULL)
      /\ back_alloc' = Put(back_alloc, new_alloc, last_alloc_block)
      /\ fwd_alloc' =
           Put(Store(fwd_alloc, last_alloc_block, new_alloc), new_alloc, NULL)
      /\ last_alloc_block' = new_alloc
      /\ UNCHANGED free_block_list
      /\ ReturnBlock(new_alloc, request)

-----------------------------------------------------------------------------
(* A block large enough was found, and the search loop ends at it. *)
Found == pc = "search" /\ search_ptr # NULL /\ LargeEnough(search_ptr)

(* Mutant: nothing is kept for the header of what is left. *)
SplittableToNothing ==
  FREE_BLOCK_HEADER_SZ + length[search_ptr] >= real_size(request)

Splittable ==
  FREE_BLOCK_HEADER_SZ + length[search_ptr]
    >= real_size(request) + MINIMUM_BLOCK_SZ

(* Where the new block starts when it is cut from the end of the block found. *)
SplitPoint ==
  search_ptr + FREE_BLOCK_HEADER_SZ + (length[search_ptr] - real_size(request))

MallocSplit ==
  LET new_alloc == SplitPoint
      next == fwd_alloc[search_ptr]
  IN  /\ Found
      /\ Splittable
      /\ length' = Put([length EXCEPT ![search_ptr] = @ - real_size(request)],
                       new_alloc, request)
      /\ back_free' = Put(Store(back_free, next, NULL), new_alloc, search_ptr)
      /\ fwd_free' = Put(fwd_free, new_alloc, NULL)
      /\ back_alloc' = Put(Store(back_alloc, next, new_alloc), new_alloc, NULL)
      /\ fwd_alloc' = Put([fwd_alloc EXCEPT ![search_ptr] = new_alloc],
                          new_alloc, next)
      /\ last_alloc_block' = IF next # NULL THEN last_alloc_block ELSE new_alloc
      /\ UNCHANGED <<program_break, kernel_break, free_block_list>>
      /\ ReturnBlock(new_alloc, request)

(* The block found is too short to be split: it is handed out whole. *)
MallocWhole ==
  LET new_alloc == search_ptr
      prev == back_free[search_ptr]
      nxt == fwd_free[search_ptr]
      behind == back_alloc[search_ptr]
      ahead == fwd_alloc[search_ptr]
  IN  /\ Found
      /\ ~Splittable
      /\ free_block_list' = IF prev # NULL THEN free_block_list ELSE nxt
      /\ back_free' = [Store(Store(back_free, nxt, prev), ahead, NULL)
                         EXCEPT ![new_alloc] = NULL]
      /\ fwd_free' = [Store(Store(fwd_free, prev, nxt), behind, NULL)
                        EXCEPT ![new_alloc] = NULL]
      /\ back_alloc' = Store(back_alloc, ahead, new_alloc)
      /\ fwd_alloc' = Store(fwd_alloc, behind, new_alloc)
      /\ last_alloc_block' = IF ahead # NULL THEN last_alloc_block ELSE new_alloc
      /\ UNCHANGED <<program_break, kernel_break, length>>
      /\ ReturnBlock(new_alloc, request)

-----------------------------------------------------------------------------
(***************************************************************************)
(* If sbrk did not move the kernel's break, the header that a call is      *)
(* about to write may lie beyond it.  The store then faults and the        *)
(* process dies, or succeeds because the kernel maps whole pages.          *)
(***************************************************************************)
Unmapped(b, k) == b + HeaderSize > k

SegFault ==
  /\ \/ /\ pc = "idle"
        /\ free_block_list = NULL
        /\ \E size \in Sizes :
             /\ Requestable(size)
             /\ Unmapped(program_break, KernelBreakAfter(real_size(size)))
     \/ /\ pc = "search"
        /\ search_ptr = NULL
        /\ fwd_alloc[trailing_search_ptr] # NULL
        /\ Unmapped(program_break, KernelBreakAfter(real_size(request)))
     \/ /\ Found
        /\ Splittable
        /\ Unmapped(SplitPoint, kernel_break)
  /\ pc' = "sigsegv"
  /\ UNCHANGED <<breaks, held, words, lists, searchLocals, walkLocals>>

-----------------------------------------------------------------------------
(* Mutant: the code does not look across the free block behind h. *)
LastAllocAfterFreeNear(h) ==
  IF h # last_alloc_block THEN last_alloc_block ELSE back_alloc[h]

(***************************************************************************)
(* __free(Body(h)).  Every branch first moves last_alloc_block back when h *)
(* is the last allocated block: to its neighbour if that is allocated, or  *)
(* across the free block behind it.                                        *)
(***************************************************************************)
LastAllocAfterFree(h) ==
  IF h # last_alloc_block THEN last_alloc_block
  ELSE IF back_alloc[h] # NULL THEN back_alloc[h]
  ELSE IF back_free[h] # NULL /\ back_alloc[back_free[h]] # NULL
         THEN back_alloc[back_free[h]]
  ELSE NULL

(* The client gives up the pointer to the body of h. *)
Release(h) ==
  /\ pc = "idle"
  /\ held' = Forget(held, {Body(h)})
  /\ last_alloc_block' = LastAllocAfterFree(h)
  /\ UNCHANGED <<breaks, searchLocals>>

(* Mutant: the header of h is counted as bytes that are free. *)
FreedLengthWithHeader(h) == length[h] + ALLOC_BLOCK_HEADER_SZ

(* The length of the free block that the allocated block h turns into. *)
FreedLength(h) == length[h] + ALLOC_BLOCK_HEADER_SZ - FREE_BLOCK_HEADER_SZ

(* Mutant: the neighbours are not told. *)
NeighboursKeep(h) == UNCHANGED <<fwd_alloc, back_alloc>>

(* The neighbours of h no longer see an allocated block beside them. *)
NeighboursLose(h) ==
  /\ fwd_alloc' = Store(fwd_alloc, back_alloc[h], NULL)
  /\ back_alloc' = Store(back_alloc, fwd_alloc[h], NULL)

(* There are no free blocks: h starts the list. *)
FreeFirst(h) ==
  /\ Release(h)
  /\ free_block_list = NULL
  /\ free_block_list' = h
  /\ length' = [length EXCEPT ![h] = FreedLength(h)]
  /\ back_free' = Store([back_free EXCEPT ![h] = NULL], fwd_alloc[h], h)
  /\ fwd_free' = Store([fwd_free EXCEPT ![h] = NULL], back_alloc[h], h)
  /\ NeighboursLose(h)
  /\ UNCHANGED <<pc, walkLocals>>

(* Free blocks on both sides: h and the one ahead go into the one behind. *)
FreeDoubleMerge(h) ==
  LET behind == back_free[h]
      ahead == fwd_free[h]
      gone == {h, ahead}
  IN  /\ Release(h)
      /\ free_block_list # NULL
      /\ behind # NULL
      /\ ahead # NULL
      /\ length' = Forget([length EXCEPT ![behind] =
                             @ + ALLOC_BLOCK_HEADER_SZ + length[h]
                               + FREE_BLOCK_HEADER_SZ + length[ahead]], gone)
      /\ fwd_free' =
           Forget([fwd_free EXCEPT ![behind] = fwd_free[ahead]], gone)
      /\ back_free' = Forget(Store(Store(back_free, fwd_alloc[ahead], behind),
                                   fwd_free[ahead], behind), gone)
      /\ fwd_alloc' =
           Forget([fwd_alloc EXCEPT ![behind] = fwd_alloc[ahead]], gone)
      /\ back_alloc' = Forget(back_alloc, gone)
      /\ UNCHANGED <<free_block_list, pc, walkLocals>>

(* A free block behind only: h goes into it. *)
FreeMergeBack(h) ==
  LET behind == back_free[h]
      next == fwd_alloc[h]
  IN  /\ Release(h)
      /\ free_block_list # NULL
      /\ behind # NULL
      /\ fwd_free[h] = NULL
      /\ length' = Forget([length EXCEPT ![behind] =
                             @ + ALLOC_BLOCK_HEADER_SZ + length[h]], {h})
      /\ fwd_alloc' = Forget([fwd_alloc EXCEPT ![behind] = next], {h})
      /\ back_free' = Forget(Store(back_free, next, behind), {h})
      /\ back_alloc' = Forget(Store(back_alloc, next, NULL), {h})
      /\ fwd_free' = Forget(fwd_free, {h})
      /\ UNCHANGED <<free_block_list, pc, walkLocals>>

(* A free block ahead only: it goes into h, which takes its place in the list. *)
FreeMergeFwd(h) ==
  LET ahead == fwd_free[h]
      prev == back_free[ahead]
      nxt == fwd_free[ahead]
      next == fwd_alloc[ahead]
  IN  /\ Release(h)
      /\ free_block_list # NULL
      /\ back_free[h] = NULL
      /\ ahead # NULL
      /\ length' = Forget([length EXCEPT ![h] =
                             @ + FREE_BLOCK_HEADER_SZ + length[ahead]], {ahead})
      /\ free_block_list' = IF prev # NULL THEN free_block_list ELSE h
      /\ back_free' = Forget(Store(Store([back_free EXCEPT ![h] = prev], nxt, h),
                                   next, h), {ahead})
      /\ fwd_free' = Forget(Store(Store([fwd_free EXCEPT ![h] = nxt], prev, h),
                                  back_alloc[h], h), {ahead})
      /\ fwd_alloc' = Forget(Store([fwd_alloc EXCEPT ![h] = next],
                                   back_alloc[h], NULL), {ahead})
      /\ back_alloc' = Forget(back_alloc, {ahead})
      /\ UNCHANGED <<pc, walkLocals>>

(***************************************************************************)
(* No free block beside h: its neighbours learn that it is free, and the   *)
(* walk over the allocated blocks behind it looks for the free block that  *)
(* precedes it in the list.                                                *)
(***************************************************************************)
FreeIsolated(h) ==
  /\ Release(h)
  /\ free_block_list # NULL
  /\ back_free[h] = NULL
  /\ fwd_free[h] = NULL
  /\ length' = [length EXCEPT ![h] = FreedLength(h)]
  /\ back_free' = Store(back_free, fwd_alloc[h], h)
  /\ fwd_free' = Store(fwd_free, back_alloc[h], h)
  /\ NeighboursLose(h)
  /\ pc' = "walk"
  /\ header' = h
  /\ cursor' = back_alloc[h]
  /\ prev_free_block_cursor' = NULL
  /\ UNCHANGED free_block_list

(* Mutants: the walk never looks for a free block; it does not move on. *)
WalkStepBlind ==
  /\ pc = "walk"
  /\ cursor # NULL
  /\ prev_free_block_cursor = NULL
  /\ cursor' = back_alloc[cursor]
  /\ UNCHANGED <<breaks, held, words, lists, pc, searchLocals, header,
                 prev_free_block_cursor>>

WalkStepInPlace ==
  /\ pc = "walk"
  /\ cursor # NULL
  /\ prev_free_block_cursor = NULL
  /\ prev_free_block_cursor' = back_free[cursor]
  /\ UNCHANGED <<breaks, held, words, lists, pc, searchLocals, header, cursor>>

WalkStep ==
  /\ pc = "walk"
  /\ cursor # NULL
  /\ prev_free_block_cursor = NULL
  /\ prev_free_block_cursor' = back_free[cursor]
  /\ cursor' = back_alloc[cursor]
  /\ UNCHANGED <<breaks, held, words, lists, pc, searchLocals, header>>

(* Mutant: the loop is left after its first test. *)
WalkDoneAtOnce == pc = "walk"

WalkDone == pc = "walk" /\ (cursor = NULL \/ prev_free_block_cursor # NULL)

EndWalk ==
  /\ pc' = "idle"
  /\ header' = NULL
  /\ cursor' = NULL
  /\ prev_free_block_cursor' = NULL
  /\ UNCHANGED <<breaks, held, length, back_alloc, fwd_alloc,
                 last_alloc_block, searchLocals>>

(* The walk found the previous free block: h goes in the list after it. *)
FreeInsertAfter ==
  LET prev == prev_free_block_cursor
      nxt == fwd_free[prev_free_block_cursor]
  IN  /\ WalkDone
      /\ prev # NULL
      /\ fwd_free' = [fwd_free EXCEPT ![prev] = header,
                                      ![header] = IF nxt # NULL THEN nxt ELSE @]
      /\ back_free' = Store([back_free EXCEPT ![header] = prev], nxt, header)
      /\ EndWalk
      /\ UNCHANGED free_block_list

(* There is no free block before h: it becomes the start of the list. *)
FreeInsertFirst ==
  LET nxt == free_block_list
  IN  /\ WalkDone
      /\ prev_free_block_cursor = NULL
      /\ free_block_list' = header
      /\ back_free' = [back_free EXCEPT ![nxt] = header]
      /\ fwd_free' = [fwd_free EXCEPT ![header] = nxt]
      /\ EndWalk

-----------------------------------------------------------------------------
(***************************************************************************)
(* A call begins.  A client frees only pointers it holds; __free(NULL)     *)
(* returns at once and changes nothing, so it is a stuttering step.        *)
(***************************************************************************)
Malloc(size) == MallocNoFree(size) \/ MallocSearch(size)

Free(h) ==
  \/ FreeFirst(h)
  \/ FreeDoubleMerge(h)
  \/ FreeMergeBack(h)
  \/ FreeMergeFwd(h)
  \/ FreeIsolated(h)

(* The steps of a call that is already running. *)
Continue ==
  \/ SearchStep
  \/ MallocGrowLast
  \/ MallocAppend
  \/ MallocSplit
  \/ MallocWhole
  \/ WalkStep
  \/ FreeInsertAfter
  \/ FreeInsertFirst

Next ==
  \/ \E size \in Sizes : Malloc(size)
  \/ \E h \in AllocBlocks : Free(h)
  \/ Continue
  \/ SegFault

(* A running call keeps running; nobody has to call. *)
Spec == Init /\ [][Next]_vars /\ WF_vars(Continue)

-----------------------------------------------------------------------------
TypeOK ==
  LET Link == [Blocks -> Blocks \cup {NULL}]
      Pointer == Blocks \cup {NULL}
  IN  /\ heap_start \in HeapStarts
      /\ program_break \in Nat
      /\ kernel_break \in Nat
      /\ Blocks \subseteq Nat \ {NULL}
      /\ length \in [Blocks -> Nat]
      /\ back_free \in Link /\ fwd_free \in Link
      /\ back_alloc \in Link /\ fwd_alloc \in Link
      /\ held \in [DOMAIN held -> Sizes]
      /\ free_block_list \in Pointer /\ last_alloc_block \in Pointer
      /\ pc \in {"idle", "search", "walk", "sigsegv"}
      /\ request \in Sizes \cup {0}
      /\ search_ptr \in Pointer /\ trailing_search_ptr \in Pointer
      /\ header \in Pointer /\ cursor \in Pointer
      /\ prev_free_block_cursor \in Pointer

(* v is the one element of S, or NULL if S is empty. *)
Only(v, S) == S \subseteq {v} /\ (v = NULL \/ v \in S)

(* v is the lowest (highest) address in S, or NULL if S is empty. *)
FirstOf(v, S) ==
  IF v = NULL THEN S = {} ELSE v \in S /\ \A x \in S : v <= x
LastOf(v, S) ==
  IF v = NULL THEN S = {} ELSE v \in S /\ \A x \in S : x <= v

(***************************************************************************)
(* The links between neighbours are exact: the last two words of a block   *)
(* name the allocated blocks that touch it, the middle two words of an     *)
(* allocated block the free blocks that touch it, and NULL stands for "no  *)
(* such block, or not a direct neighbour" (q2.c, NOTEs on the layout).     *)
(* Every merge in __free decides by these words alone.                     *)
(***************************************************************************)
NeighbourLinks ==
  /\ \A b \in Blocks :
       /\ Only(back_alloc[b], {a \in AllocBlocks : End(a) = b})
       /\ Only(fwd_alloc[b], {a \in AllocBlocks : End(b) = a})
  /\ \A a \in AllocBlocks :
       /\ Only(back_free[a], {b \in FreeBlocks : End(b) = a})
       /\ Only(fwd_free[a], {b \in FreeBlocks : End(a) = b})

(***************************************************************************)
(* The free blocks form one doubly linked list in order of address, which  *)
(* starts at free_block_list and misses no free block but the one that a   *)
(* running __free has not inserted yet.                                    *)
(***************************************************************************)
Listed == FreeBlocks \ (IF pc = "walk" THEN {header} ELSE {})

FreeListSorted ==
  /\ FirstOf(free_block_list, Listed)
  /\ \A b \in Listed :
       /\ FirstOf(fwd_free[b], {c \in Listed : b < c})
       /\ LastOf(back_free[b], {c \in Listed : c < b})

(***************************************************************************)
(* last_alloc_block is the allocated block of highest address.  A block    *)
(* appended to the heap is linked to it as to its neighbour.               *)
(***************************************************************************)
LastAllocExact == LastOf(last_alloc_block, AllocBlocks)

(***************************************************************************)
(* The search loop of __malloc has passed exactly the free blocks below    *)
(* search_ptr, all of them too short, and trails one block behind.         *)
(***************************************************************************)
SearchInv ==
  pc = "search" =>
    LET passed == {b \in Listed : search_ptr = NULL \/ b < search_ptr}
    IN  /\ request \in Sizes
        /\ Requestable(request)
        /\ free_block_list # NULL
        /\ search_ptr \in Listed \cup {NULL}
        /\ \A b \in passed : ~LargeEnough(b)
        /\ LastOf(trailing_search_ptr, passed)

(***************************************************************************)
(* The walk of __free has passed only allocated blocks behind header, so   *)
(* the free block it finds is the one that precedes header, and if it runs *)
(* out of neighbours there is none.                                        *)
(***************************************************************************)
WalkInv ==
  pc = "walk" =>
    /\ header \in FreeBlocks
    /\ back_free[header] = NULL
    /\ fwd_free[header] = NULL
    /\ free_block_list # NULL
    /\ IF prev_free_block_cursor # NULL
         THEN LastOf(prev_free_block_cursor, {b \in Listed : b < header})
       ELSE IF cursor # NULL
         THEN /\ cursor \in AllocBlocks
              /\ cursor < header
              /\ \A b \in FreeBlocks : b < cursor \/ header <= b
       ELSE \A b \in FreeBlocks : header <= b

-----------------------------------------------------------------------------
(***************************************************************************)
(* The allocator writes no byte of a region the client holds before and    *)
(* after the step: a header that is new or has a word changed lies outside *)
(* all of them.                                                            *)
(***************************************************************************)
Header(b) ==
  <<length[b], back_free[b], fwd_free[b], back_alloc[b], fwd_alloc[b]>>

WritesOnlyHeaders ==
  [][\A b \in Blocks' :
       (b \in Blocks /\ Header(b)' = Header(b))
       \/ \A p \in DOMAIN held \cap (DOMAIN held)' :
            b + HeaderSize <= p \/ p + held[p] <= b]_vars

(* The pointer-chasing code is the first-fit algorithm on a tiled heap. *)
FF == INSTANCE FirstFit

FirstFitSpec == FF!Spec

(***************************************************************************)
(* And so it keeps the promise to the client: a region that __malloc gives *)
(* out overlaps none that the client holds, and __free takes back the one  *)
(* that it is given, whatever the links had to be for that.                *)
(***************************************************************************)
ContractSpec == FF!ContractSpec

(***************************************************************************)
(* What the client holds can be used: it lies below the kernel's program   *)
(* break.  The "return NULL" of __safe_sbrk is there to ensure it.         *)
(***************************************************************************)
HeldMapped == \A p \in DOMAIN held : p + held[p] <= kernel_break

(***************************************************************************)
(* Every call returns, unless a store faults: neither the search nor the   *)
(* walk can go round in circles in the links.                              *)
(***************************************************************************)
CallsReturn == pc \in {"search", "walk"} ~> pc \in {"idle", "sigsegv"}

=============================================================================
