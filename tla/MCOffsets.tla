----------------------------- MODULE MCOffsets ------------------------------
(***************************************************************************)
(* Offsets alone for TLC, with the constants that the run of Program has.  *)
(***************************************************************************)
EXTENDS Offsets
=============================================================================
