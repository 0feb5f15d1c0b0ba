------------------------------- MODULE MCTee --------------------------------
(***************************************************************************)
(* Tee for TLC, with a stdin that works and with one that does not.        *)
(***************************************************************************)
EXTENDS Tee
=============================================================================
