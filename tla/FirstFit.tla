------------------------------ MODULE FirstFit ------------------------------
(***************************************************************************)
(* The algorithm of c/chpt7/q2.c without its pointers: the heap is tiled   *)
(* with blocks, __malloc takes the free block of lowest address that is    *)
(* long enough and cuts the request from its end, or else grows the heap   *)
(* by as little as possible, and __free merges a block with the free       *)
(* blocks beside it.  One step is one call.  Malloc, which follows the     *)
(* links word by word, implements this; this implements AllocContract.     *)
(***************************************************************************)
EXTENDS Heap

vars == <<heap_start, program_break, length, held>>

Init ==
  /\ heap_start \in HeapStarts
  /\ program_break = heap_start
  /\ length = [b \in {} |-> 0]
  /\ held = [p \in {} |-> 0]

-----------------------------------------------------------------------------
(* The free block b can hold the request. *)
Fits(b, size) == FREE_BLOCK_HEADER_SZ + length[b] >= real_size(size)

NoFit(size) == \A b \in FreeBlocks : ~Fits(b, size)

(* The free block of lowest address that can hold the request. *)
FirstFitting(b, size) ==
  /\ b \in FreeBlocks
  /\ Fits(b, size)
  /\ \A c \in FreeBlocks : Fits(c, size) => b <= c

(* What is left of b when the request is taken from it is a block as well. *)
Splittable(b, size) ==
  FREE_BLOCK_HEADER_SZ + length[b] >= real_size(size) + MINIMUM_BLOCK_SZ

MallocSplit(size) ==
  \E b \in FreeBlocks :
    /\ FirstFitting(b, size)
    /\ Splittable(b, size)
    /\ LET a == End(b) - real_size(size)
       IN  /\ length' = Put([length EXCEPT ![b] = @ - real_size(size)], a, size)
           /\ held' = Put(held, Body(a), size)
    /\ UNCHANGED <<heap_start, program_break>>

MallocWhole(size) ==
  \E b \in FreeBlocks :
    /\ FirstFitting(b, size)
    /\ ~Splittable(b, size)
    /\ held' = Put(held, Body(b), size)
    /\ UNCHANGED <<heap_start, program_break, length>>

(* The last block of the heap is free: grow it up to the request. *)
MallocGrowLast(size) ==
  /\ Requestable(size)
  /\ NoFit(size)
  /\ \E b \in FreeBlocks :
       /\ End(b) = program_break
       /\ program_break' = b + real_size(size)
       /\ length' = [length EXCEPT ![b] = size]
       /\ held' = Put(held, Body(b), size)
  /\ UNCHANGED heap_start

(* The last block of the heap, if there is one, is allocated: append a block. *)
MallocAppend(size) ==
  /\ Requestable(size)
  /\ NoFit(size)
  /\ \A b \in FreeBlocks : End(b) # program_break
  /\ program_break' = program_break + real_size(size)
  /\ length' = Put(length, program_break, size)
  /\ held' = Put(held, Body(program_break), size)
  /\ UNCHANGED heap_start

(***************************************************************************)
(* Freeing the block h: Behind(h) is the free block ending at h and        *)
(* Ahead(h) the one starting where h ends, as sets of at most one element. *)
(* The merged block runs from s to the end of e.                           *)
(***************************************************************************)
Behind(h) == {b \in FreeBlocks : End(b) = h}
Ahead(h) == {b \in FreeBlocks : End(h) = b}

Free(h) ==
  /\ \E s \in IF Behind(h) = {} THEN {h} ELSE Behind(h),
        e \in IF Ahead(h) = {} THEN {h} ELSE Ahead(h) :
       length' = Forget([length EXCEPT ![s] = End(e) - Body(s)],
                        (Behind(h) \cup {h} \cup Ahead(h)) \ {s})
  /\ held' = Forget(held, {Body(h)})
  /\ UNCHANGED <<heap_start, program_break>>

Next ==
  \/ \E size \in Sizes : MallocSplit(size)
  \/ \E size \in Sizes : MallocWhole(size)
  \/ \E size \in Sizes : MallocGrowLast(size)
  \/ \E size \in Sizes : MallocAppend(size)
  \/ \E h \in AllocBlocks : Free(h)

Spec == Init /\ [][Next]_vars

-----------------------------------------------------------------------------
TypeOK ==
  /\ heap_start \in HeapStarts
  /\ program_break \in Nat
  /\ Blocks \subseteq Nat \ {NULL}
  /\ length \in [Blocks -> Nat]
  /\ held \in [DOMAIN held -> Sizes]

(***************************************************************************)
(* First fit with splitting and merging keeps the client's promise: no     *)
(* call ever hands out a byte of a region the client still holds, as long  *)
(* as no request overflows (NoOverflow).                                   *)
(***************************************************************************)
Contract == INSTANCE AllocContract WITH live <- held

ContractSpec == Contract!Spec

=============================================================================
