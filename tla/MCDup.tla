------------------------------- MODULE MCDup --------------------------------
(***************************************************************************)
(* Dup for TLC: every table, and every call with valid and invalid         *)
(* descriptors.                                                            *)
(***************************************************************************)
EXTENDS Dup
=============================================================================
