----------------------------- MODULE MCProgram ------------------------------
(***************************************************************************)
(* Program for TLC: each part with bounds of its own.                      *)
(***************************************************************************)
EXTENDS Program

(* At the edges of the checks, of int, and of what int and long turn into. *)
TypedNumbers == {0, 1, 2, 3, 4, 7, 18, 32}
=============================================================================
