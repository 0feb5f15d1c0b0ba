--------------------------- MODULE AllocContract ---------------------------
(***************************************************************************)
(* What the client of __malloc and __free (c/chpt7/q2.c) is promised, and  *)
(* nothing about how: every pointer it holds denotes as many bytes as it   *)
(* asked for, and those bytes belong to no other pointer it holds.         *)
(***************************************************************************)
EXTENDS Integers, Functions

CONSTANT Sizes  \* the sizes a client asks for, in bytes

VARIABLE live  \* the pointers the client holds, each with the size it asked for

(* The regions [p, p + m) and [q, q + n) have no byte in common. *)
Apart(p, m, q, n) == p + m <= q \/ q + n <= p

Init == live = [p \in {} |-> 0]

Malloc(p, size) ==
  /\ p \notin DOMAIN live
  /\ \A q \in DOMAIN live : Apart(p, size, q, live[q])
  /\ live' = [q \in DOMAIN live \cup {p} |-> IF q = p THEN size ELSE live[q]]

Free(p) == live' = Restrict(live, DOMAIN live \ {p})

(* The new pointer may be any address: it is the one that live' adds. *)
Next ==
  \/ \E p \in DOMAIN live', size \in Sizes : Malloc(p, size)
  \/ \E p \in DOMAIN live : Free(p)

Spec == Init /\ [][Next]_live

=============================================================================
