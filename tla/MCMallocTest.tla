---------------------------- MODULE MCMallocTest ----------------------------
(***************************************************************************)
(* MallocTest for TLC, with the 40-byte headers of x86-64 and the program  *)
(* break where sbrk(0) may find it, at any of a few addresses.             *)
(***************************************************************************)
EXTENDS MallocTest
=============================================================================
