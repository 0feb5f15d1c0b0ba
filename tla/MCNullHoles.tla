---------------------------- MODULE MCNullHoles -----------------------------
(***************************************************************************)
(* NullHoles for TLC: every source of up to five bytes.                    *)
(***************************************************************************)
EXTENDS NullHoles
=============================================================================
