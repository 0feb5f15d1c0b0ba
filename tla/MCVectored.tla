----------------------------- MODULE MCVectored -----------------------------
(***************************************************************************)
(* Vectored alone for TLC: one buffer, which may be longer than SSIZE_MAX. *)
(***************************************************************************)
EXTENDS Vectored
=============================================================================
