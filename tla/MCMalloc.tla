------------------------------ MODULE MCMalloc ------------------------------
(***************************************************************************)
(* Malloc for TLC: two-byte headers, so that a block can be too long for a *)
(* request by less than a header, and a heap of MaxBreak - 1 bytes.        *)
(***************************************************************************)
EXTENDS Malloc
=============================================================================
