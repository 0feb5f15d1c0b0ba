-------------------------------- MODULE Heap --------------------------------
(***************************************************************************)
(* The memory that __malloc and __free (c/chpt7/q2.c) manage: the blocks   *)
(* between heap_start and program_break, each a header followed by a body. *)
(* FirstFit and Malloc, the two descriptions of the allocator, share it.   *)
(*                                                                         *)
(* An address is a number and NULL is 0, as in C.  A block is named by the *)
(* address of its header, and a client's pointer is the address of a body. *)
(***************************************************************************)
EXTENDS Integers, Functions

CONSTANTS
  HeaderSize,  \* the bytes of a block header, 40 on x86-64
  HeapStarts,  \* where the program break may be when chpt7_q2 starts
  Sizes,       \* the sizes clients ask for
  SIZE_MAX,    \* the largest size_t, 2^64 - 1 on x86-64
  MaxBreak     \* bound: clients ask for nothing that may push the break beyond

ASSUME HeaderAssumption == HeaderSize \in Nat \ {0}
ASSUME HeapStartsAssumption == HeapStarts \subseteq Nat \ {0}
ASSUME SizesAssumption == SIZE_MAX \in Nat /\ Sizes \subseteq 0..SIZE_MAX
ASSUME MaxBreakAssumption == MaxBreak \in Nat

VARIABLES
  heap_start,     \* the program break when chpt7_q2 started
  program_break,  \* the end of the heap, as the allocator records it
  length,         \* the length word of each header: the bytes of the body
  held            \* the pointers the client holds, with the size asked for

NULL == 0

(***************************************************************************)
(* Both header structs are five words long, so the two sizes are equal and *)
(* the code's "if (FREE > ALLOC)" adjustment of a request never applies.   *)
(***************************************************************************)
FREE_BLOCK_HEADER_SZ == HeaderSize
ALLOC_BLOCK_HEADER_SZ == HeaderSize
MINIMUM_BLOCK_SZ == HeaderSize

Blocks == DOMAIN length
Body(b) == b + ALLOC_BLOCK_HEADER_SZ
End(b) == b + HeaderSize + length[b]

(* A block is allocated as long as the client holds the pointer to its body. *)
AllocBlocks == {b \in Blocks : Body(b) \in DOMAIN held}
FreeBlocks == Blocks \ AllocBlocks

(* Total bytes that hold the allocation metadata and the data, as a size_t. *)
real_size(size) ==
  LET bytes == ALLOC_BLOCK_HEADER_SZ + size
  IN  IF bytes <= SIZE_MAX THEN bytes ELSE bytes - (SIZE_MAX + 1)

(* No request is so large that adding a header to it overflows. *)
NoOverflow == \A size \in Sizes : ALLOC_BLOCK_HEADER_SZ + size <= SIZE_MAX

(* f with the value v at a, which need not be in the domain of f yet. *)
Put(f, a, v) == [x \in DOMAIN f \cup {a} |-> IF x = a THEN v ELSE f[x]]

(* f without the addresses in S. *)
Forget(f, S) == Restrict(f, DOMAIN f \ S)

(***************************************************************************)
(* The bound on what a client asks for: it is served by a free block, or   *)
(* the program break stays at or below MaxBreak.                           *)
(***************************************************************************)
Requestable(size) ==
  \/ \E b \in FreeBlocks : FREE_BLOCK_HEADER_SZ + length[b] >= real_size(size)
  \/ program_break + real_size(size) <= MaxBreak

-----------------------------------------------------------------------------
(***************************************************************************)
(* The blocks tile the heap: they start at heap_start, each ends where the *)
(* next begins, and the last ends at program_break.  The illustration of   *)
(* the heap layout in q2.c shows it, and every address the code computes   *)
(* from a length relies on it.                                             *)
(***************************************************************************)
Tiling ==
  /\ \A b \in Blocks : heap_start <= b /\ End(b) <= program_break
  /\ \A b, c \in Blocks : b < c => End(b) <= c
  /\ \A b \in Blocks : End(b) = program_break \/ End(b) \in Blocks
  /\ \A b \in Blocks : b = heap_start \/ \E c \in Blocks : End(c) = b
  /\ program_break = heap_start \/ \E c \in Blocks : End(c) = program_break

(***************************************************************************)
(* "All blocks have a minimum total size (data + metadata) of              *)
(* __MINIMUM_BLOCK_SZ" (q2.c, NOTEs on the layout), so that each has room  *)
(* for a header of its own.                                                *)
(***************************************************************************)
MinimumSize ==
  /\ \A b \in Blocks : b + MINIMUM_BLOCK_SZ <= program_break
  /\ \A b, c \in Blocks : b < c => b + MINIMUM_BLOCK_SZ <= c

(***************************************************************************)
(* Neighbouring free blocks are always merged (q2.c, "consecutive free     *)
(* blocks are always merged into one").                                    *)
(***************************************************************************)
Coalesced == \A b, c \in FreeBlocks : End(b) # c

(***************************************************************************)
(* Every pointer the client holds is the body of a block at least as long  *)
(* as what it asked for, whatever was split or merged around the block.    *)
(***************************************************************************)
HeldUsable ==
  \A p \in DOMAIN held : \E b \in Blocks : p = Body(b) /\ held[p] <= length[b]

=============================================================================
