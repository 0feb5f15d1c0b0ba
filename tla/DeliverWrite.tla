---------------------------- MODULE DeliverWrite ----------------------------
(***************************************************************************)
(* deliver_write of c/shared/utils.c: write until nothing is left.  Several *)
(* processes deliver to one sink that takes the bytes in the order of the  *)
(* calls (a pipe, a terminal, or a file opened with O_APPEND).  One step   *)
(* is one write; the kernel may take less than it was offered, or fail.    *)
(* The byte <<p, k>> is the k-th of the buffer of process p.               *)
(***************************************************************************)
EXTENDS Naturals, Sequences

CONSTANTS
  Procs,       \* the processes
  MaxBytes,    \* the longest buffer considered
  ZeroWrites   \* the kernel may answer 0 although bytes were offered

(* What is assumed of the constants. *)
ConstantsOK ==
  /\ MaxBytes \in Nat
  /\ ZeroWrites \in BOOLEAN

VARIABLES
  sink,          \* the bytes taken so far
  nbytes,        \* the argument of each call
  total_written, \* the local of each call
  pc             \* "writing", "returned", or "died" in errExit

vars == <<sink, nbytes, total_written, pc>>

Init ==
  /\ sink = <<>>
  /\ nbytes \in [Procs -> 0 .. MaxBytes]
  /\ total_written = [p \in Procs |-> 0]
  /\ pc = [p \in Procs |-> "writing"]

Left(p) == nbytes[p] - total_written[p]

(* Mutant: the buffer is offered from its start again. *)
OfferedFromStart(p, n) == [k \in 1 .. n |-> <<p, k>>]

(* The first n bytes of buffer + total_written. *)
Offered(p, n) == [k \in 1 .. n |-> <<p, total_written[p] + k>>]

(* write takes n bytes, and the loop goes on. *)
Write(p) ==
  /\ pc[p] = "writing"
  /\ \E n \in 1 .. Left(p) :
       /\ sink' = sink \o Offered(p, n)
       /\ total_written' = [total_written EXCEPT ![p] = @ + n]
  /\ UNCHANGED <<nbytes, pc>>

(* Mutant: the loop ends after the first write. *)
WriteZeroEarly(p) ==
  /\ pc[p] = "writing"
  /\ Left(p) = 0 \/ total_written[p] > 0
  /\ pc' = [pc EXCEPT ![p] = "returned"]
  /\ UNCHANGED <<sink, nbytes, total_written>>

(* write answers 0: the loop ends, whether or not bytes are left. *)
WriteZero(p) ==
  /\ pc[p] = "writing"
  /\ Left(p) = 0 \/ ZeroWrites
  /\ pc' = [pc EXCEPT ![p] = "returned"]
  /\ UNCHANGED <<sink, nbytes, total_written>>

(* write answers -1, also for the call that offers nothing. *)
WriteError(p) ==
  /\ pc[p] = "writing"
  /\ pc' = [pc EXCEPT ![p] = "died"]
  /\ UNCHANGED <<sink, nbytes, total_written>>

Next == \E p \in Procs : Write(p) \/ WriteZero(p) \/ WriteError(p)

(* A process in the loop goes on calling write, and no call has to fail. *)
Spec ==
  /\ Init
  /\ [][Next]_vars
  /\ \A p \in Procs : WF_vars(Write(p) \/ WriteZero(p))

-----------------------------------------------------------------------------
TypeOK ==
  /\ sink \in Seq({<<p, k>> : p \in Procs, k \in 1 .. MaxBytes})
  /\ nbytes \in [Procs -> 0 .. MaxBytes]
  /\ total_written \in [Procs -> 0 .. MaxBytes]
  /\ \A p \in Procs : total_written[p] <= nbytes[p]
  /\ pc \in [Procs -> {"writing", "returned", "died"}]

(* The places of the bytes from p in the sink, and what p has got there. *)
From(p) == {j \in DOMAIN sink : sink[j][1] = p}
Received(p) == {sink[j][2] : j \in From(p)}

(***************************************************************************)
(* No byte of a buffer is taken twice, skipped or out of order, however    *)
(* short the writes are and whoever else writes in between.  This is what  *)
(* restarting at buffer + total_written is for.                            *)
(***************************************************************************)
OnceInOrder ==
  \A p \in Procs :
    /\ Received(p) = 1 .. total_written[p]
    /\ \A j, k \in From(p) : j < k => sink[j][2] < sink[k][2]

(***************************************************************************)
(* utils.h: "guaranteed to deliver all bytes (or die trying!)".            *)
(***************************************************************************)
AllDelivered ==
  \A p \in Procs : pc[p] = "returned" => Received(p) = 1 .. nbytes[p]

(* Where all the loops have ended. *)
Ended == \A p \in Procs : pc[p] # "writing"

=============================================================================
