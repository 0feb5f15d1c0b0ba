-------------------------- MODULE MCParallelAppend --------------------------
(***************************************************************************)
(* ParallelAppend for TLC: every combination of O_APPEND and x.            *)
(***************************************************************************)
EXTENDS ParallelAppend
=============================================================================
