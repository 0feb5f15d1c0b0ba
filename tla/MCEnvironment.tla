--------------------------- MODULE MCEnvironment ----------------------------
(***************************************************************************)
(* Environment for TLC: every short list that a process may inherit.       *)
(***************************************************************************)
EXTENDS Environment
=============================================================================
