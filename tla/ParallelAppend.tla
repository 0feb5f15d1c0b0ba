--------------------------- MODULE ParallelAppend ---------------------------
(***************************************************************************)
(* chpt5_q3 of c/chpt5/q3.c, run by several processes at the same time on  *)
(* one file: the experiment of c/chpt5/q3.md.  A process opens the file    *)
(* with O_APPEND, or (given the argument x) seeks to the end before each   *)
(* byte it writes.  One step is one system call.                           *)
(*                                                                         *)
(* A byte is <<p, k>>, the k-th byte that process p writes, so that a      *)
(* lost byte can be told from one that is there.                           *)
(***************************************************************************)
EXTENDS Naturals, Sequences

CONSTANTS
  Procs,     \* the processes
  Old,       \* marks the bytes that the file holds at the start
  OldBytes,  \* how many there are
  NumBytes   \* the argument num_bytes of each process

ASSUME OldAssumption == Old \notin Procs
ASSUME OldBytesAssumption == OldBytes \in Nat
ASSUME NumBytesAssumption == NumBytes \in Nat \ {0}

VARIABLES
  file,      \* the bytes of the file
  append,    \* append[p]: p was not given the x
  pc,        \* where p is in chpt5_q3
  offset,    \* of p's open file description
  num_bytes  \* the bytes p has yet to write

vars == <<file, append, pc, offset, num_bytes>>

Init ==
  /\ file = [k \in 1 .. OldBytes |-> <<Old, k>>]
  /\ append \in [Procs -> BOOLEAN]
  /\ pc = [p \in Procs |-> "open"]
  /\ offset = [p \in Procs |-> 0]
  /\ num_bytes = [p \in Procs |-> NumBytes]

-----------------------------------------------------------------------------
(* open without O_TRUNC: what is in the file stays. *)
Open(p) ==
  /\ pc[p] = "open"
  /\ pc' = [pc EXCEPT ![p] = "loop"]
  /\ UNCHANGED <<file, append, offset, num_bytes>>

(* The condition of the loop. *)
More(p) == num_bytes[p] > 0

(* Mutant: seek to the start. *)
SeekStart(p) ==
  /\ pc[p] = "loop"
  /\ More(p)
  /\ ~append[p]
  /\ offset' = [offset EXCEPT ![p] = 0]
  /\ pc' = [pc EXCEPT ![p] = "write"]
  /\ UNCHANGED <<file, append, num_bytes>>

(* Without O_APPEND: lseek(fd, 0, SEEK_END). *)
SeekEnd(p) ==
  /\ pc[p] = "loop"
  /\ More(p)
  /\ ~append[p]
  /\ offset' = [offset EXCEPT ![p] = Len(file)]
  /\ pc' = [pc EXCEPT ![p] = "write"]
  /\ UNCHANGED <<file, append, num_bytes>>

(* Mutant: O_APPEND is not passed to open. *)
WhereOffset(p) == offset[p]

(* Where the next byte of p goes: O_APPEND moves the offset to the end. *)
Where(p) == IF append[p] THEN Len(file) ELSE offset[p]

(* The file with byte b at position at, counted from 0. *)
FileWith(at, b) ==
  [i \in 1 .. IF at < Len(file) THEN Len(file) ELSE at + 1 |->
     IF i = at + 1 THEN b ELSE file[i]]

(* The first write of deliver_write(fd, data, 1). *)
Write(p) ==
  /\ \/ pc[p] = "loop" /\ append[p] /\ More(p)
     \/ pc[p] = "write"
  /\ file' = FileWith(Where(p), <<p, NumBytes - num_bytes[p] + 1>>)
  /\ offset' = [offset EXCEPT ![p] = Where(p) + 1]
  /\ pc' = [pc EXCEPT ![p] = "rest"]
  /\ UNCHANGED <<append, num_bytes>>

(* Mutant: deliver_write goes on as long as write does not fail. *)
WriteRestAgain(p) ==
  /\ pc[p] = "rest"
  /\ UNCHANGED vars

(* Its second write, of the 0 bytes that are left, answers 0. *)
WriteRest(p) ==
  /\ pc[p] = "rest"
  /\ num_bytes' = [num_bytes EXCEPT ![p] = @ - 1]
  /\ pc' = [pc EXCEPT ![p] = "loop"]
  /\ UNCHANGED <<file, append, offset>>

Close(p) ==
  /\ pc[p] = "loop"
  /\ ~More(p)
  /\ pc' = [pc EXCEPT ![p] = "done"]
  /\ UNCHANGED <<file, append, offset, num_bytes>>

(* Each of the calls may fail, and the process then ends in errExit. *)
Fail(p) ==
  /\ pc[p] \notin {"done", "died"}
  /\ pc' = [pc EXCEPT ![p] = "died"]
  /\ UNCHANGED <<file, append, offset, num_bytes>>

Step(p) == Open(p) \/ SeekEnd(p) \/ Write(p) \/ WriteRest(p) \/ Close(p)

Next == \E p \in Procs : Step(p) \/ Fail(p)

(* Each process goes on running, whatever the others do; no call has to fail. *)
Spec == Init /\ [][Next]_vars /\ \A p \in Procs : WF_vars(Step(p))

-----------------------------------------------------------------------------
(* The bytes that p has written so far. *)
Written(p) ==
  NumBytes - num_bytes[p] + IF pc[p] = "rest" THEN 1 ELSE 0

TypeOK ==
  /\ file \in Seq({<<Old, k>> : k \in 1 .. OldBytes}
                    \cup {<<p, k>> : p \in Procs, k \in 1 .. NumBytes})
  /\ append \in [Procs -> BOOLEAN]
  /\ pc \in [Procs -> {"open", "loop", "write", "rest", "done", "died"}]
  /\ offset \in [Procs -> Nat]
  /\ num_bytes \in [Procs -> 0 .. NumBytes]

(* A process never seeks beyond the end or before its own bytes. *)
OffsetBounds ==
  \A p \in Procs :
    /\ offset[p] <= Len(file)
    /\ pc[p] = "write" => OldBytes + Written(p) <= offset[p]

(***************************************************************************)
(* q3.md, with O_APPEND: "each process writes 1MB of data successfully".   *)
(* If no process seeks, every byte that write accepted is in the file, for *)
(* any order of the calls, and a process that dies loses nothing.          *)
(***************************************************************************)
NothingLost ==
  (\A p \in Procs : append[p]) =>
     \A p \in Procs : \A k \in 1 .. Written(p) :
       \E i \in DOMAIN file : file[i] = <<p, k>>

(***************************************************************************)
(* Whoever races, the bytes that survive are those of the file at the      *)
(* start, untouched, and then those of each process in the order it wrote  *)
(* them: a race loses bytes but neither moves nor repeats one.             *)
(***************************************************************************)
OldThenInOrder ==
  /\ OldBytes <= Len(file)
  /\ \A k \in 1 .. OldBytes : file[k] = <<Old, k>>
  /\ \A i, j \in DOMAIN file :
       i < j /\ file[i][1] = file[j][1] => file[i][2] < file[j][2]

(***************************************************************************)
(* How bad the race of q3.md can get: the file is never shorter than what  *)
(* one process has written, so two processes of equal shares lose at most  *)
(* half (q3.md measures 987K of 2 * 977K).                                 *)
(***************************************************************************)
AtLeastEachShare == \A p \in Procs : OldBytes + Written(p) <= Len(file)

(***************************************************************************)
(* Every run of the exercise comes to its end: the loop counts down.       *)
(***************************************************************************)
AllEnd == \A p \in Procs : <>(pc[p] \in {"done", "died"})

=============================================================================
