------------------------------ MODULE Offsets -------------------------------
(***************************************************************************)
(* The programs of chapter 5 about file offsets, c/chpt5/q1.c, q2.c, q5.c  *)
(* and q6.c, each run on a file that may hold anything.  A program is a    *)
(* script of system calls; one step is one call.  A descriptor is the      *)
(* number of an open file description, which holds the offset and the      *)
(* O_APPEND flag, so dup shares them and open does not.                    *)
(***************************************************************************)
EXTENDS FileCells, Integers, SequencesExt

CONSTANTS
  MaxOffset,    \* the argument offset of question 1 is at most this
  DataBytes,    \* stands for the 39 bytes of question 2
  RandomOffset  \* stands for random_offset of question 5

(* What is assumed of the constants. *)
ConstantsOK ==
  /\ MaxOffset \in Nat \ {0}
  /\ DataBytes \in Nat \ {0}
  /\ RandomOffset \in Nat \ {0}

VARIABLES
  file,    \* the contents, or NoFile
  ofds,    \* the open file descriptions of the running program
  fds,     \* its variables: the number of a description, or -1
  script,  \* the calls it has yet to make
  prog,    \* the question, and the offset given to question 1
  status,  \* "running", "exited", "died" or "aborted"
  before,  \* history: the file when the program was started
  clean    \* history: no call of the program failed or was short

vars == <<file, ofds, fds, script, prog, status, before, clean>>

NoFile == <<"no file">>
Variables == {"fd", "dup_fd", "fd1", "fd2", "fd3"}

(* n bytes of one text. *)
Text(t, n) == [k \in 1 .. n |-> t]

-----------------------------------------------------------------------------
(***************************************************************************)
(* The calls.  check says what the program does about a failure: errExit   *)
(* ("exit") or nothing ("none"); "deliver" is deliver_write, which also    *)
(* goes on until all bytes are written.                                    *)
(***************************************************************************)
Opens(x, flags, check) ==
  [op |-> "open", fd |-> x, flags |-> flags, check |-> check]
Dups(x, from, check) ==
  [op |-> "dup", fd |-> x, from |-> from, check |-> check]
Seeks(x, at, check) == [op |-> "lseek", fd |-> x, at |-> at, check |-> check]
Writes(x, s, check) == [op |-> "write", fd |-> x, s |-> s, check |-> check]
Closes(x) == [op |-> "close", fd |-> x, check |-> "exit"]
Fcntls(x) == [op |-> "fcntl", fd |-> x, check |-> "exit"]
AssertsAt(x, at) == [op |-> "assert", fd |-> x, at |-> at, check |-> "none"]

Question1(offset) ==
  << Opens("fd", {"O_CREAT"}, "exit"),
     Seeks("fd", offset, "exit"),
     Writes("fd", Text("test", 4), "exit") >>

(* Mutant: without O_APPEND. *)
Question2Seeking ==
  << Opens("fd", {}, "exit"),
     Seeks("fd", 0, "exit"),
     Writes("fd", Text("data", DataBytes), "deliver"),
     Closes("fd") >>

Question2 ==
  << Opens("fd", {"O_APPEND"}, "exit"),
     Seeks("fd", 0, "exit"),
     Writes("fd", Text("data", DataBytes), "deliver"),
     Closes("fd") >>

(* The flags compared at line 32 are those of fd, twice: that assert holds. *)
Question5 ==
  << Opens("fd", {"O_CREAT", "O_TRUNC"}, "exit"),
     Dups("dup_fd", "fd", "exit"),
     Fcntls("fd"),
     Fcntls("fd"),
     Seeks("fd", RandomOffset, "exit"),
     AssertsAt("dup_fd", RandomOffset),
     Closes("fd") >>

Question6 ==
  << Opens("fd1", {"O_CREAT", "O_TRUNC"}, "none"),
     Dups("fd2", "fd1", "none"),
     Opens("fd3", {}, "none"),
     Writes("fd1", Text("Hello,", 6), "none"),
     Writes("fd2", Text("world", 5) \o <<Null>>, "none"),
     Seeks("fd2", 0, "none"),
     Writes("fd1", Text("HELLO,", 6), "none"),
     Writes("fd3", Text("Gidday", 6), "none"),
     Closes("fd1"),
     Closes("fd3") >>

Script(p) ==
  CASE p[1] = "q1" -> Question1(p[2])
    [] p[1] = "q2" -> Question2
    [] p[1] = "q5" -> Question5
    [] p[1] = "q6" -> Question6

Programs == {<<"q1", n>> : n \in 1 .. MaxOffset}
              \cup {<<"q2", 0>>, <<"q5", 0>>, <<"q6", 0>>}

-----------------------------------------------------------------------------
Init ==
  /\ file \in {NoFile, <<>>, Text("old", 2), <<Hole>> \o Text("old", 7)}
  /\ ofds = <<>>
  /\ fds = [x \in Variables |-> -1]
  /\ prog \in Programs
  /\ script = Script(prog)
  /\ status = "running"
  /\ before = file
  /\ clean = TRUE

(* The next call of the program, if it is the one named. *)
Calling(op) == status = "running" /\ script # <<>> /\ Head(script).op = op
call == Head(script)
ofd == fds[call.fd]

Proceed ==
  /\ script' = Tail(script)
  /\ UNCHANGED <<prog, before>>

Succeeds == Proceed /\ UNCHANGED <<status, clean>>

(* The call answers -1. *)
Fails ==
  /\ Proceed
  /\ clean' = FALSE
  /\ status' = IF call.check = "none" THEN status ELSE "died"

(* Mutant: the descriptor names the description before. *)
OpenOneEarly ==
  /\ Calling("open")
  /\ file # NoFile \/ "O_CREAT" \in call.flags
  /\ file' = IF file = NoFile \/ "O_TRUNC" \in call.flags THEN <<>> ELSE file
  /\ ofds' = Append(ofds, [offset |-> 0, append |-> "O_APPEND" \in call.flags])
  /\ fds' = [fds EXCEPT ![call.fd] = Len(ofds)]
  /\ Succeeds

Open ==
  /\ Calling("open")
  /\ file # NoFile \/ "O_CREAT" \in call.flags
  /\ file' = IF file = NoFile \/ "O_TRUNC" \in call.flags THEN <<>> ELSE file
  /\ ofds' = Append(ofds, [offset |-> 0, append |-> "O_APPEND" \in call.flags])
  /\ fds' = [fds EXCEPT ![call.fd] = Len(ofds')]
  /\ Succeeds

(* Mutant: a description of its own, as another open would make. *)
DupAsOpen ==
  /\ Calling("dup")
  /\ fds[call.from] # -1
  /\ ofds' = Append(ofds, ofds[fds[call.from]])
  /\ fds' = [fds EXCEPT ![call.fd] = Len(ofds')]
  /\ UNCHANGED file
  /\ Succeeds

Dup ==
  /\ Calling("dup")
  /\ fds[call.from] # -1
  /\ fds' = [fds EXCEPT ![call.fd] = fds[call.from]]
  /\ UNCHANGED <<file, ofds>>
  /\ Succeeds

Seek ==
  /\ Calling("lseek")
  /\ ofd # -1
  /\ ofds' = [ofds EXCEPT ![ofd].offset = call.at]
  /\ UNCHANGED <<file, fds>>
  /\ Succeeds

Where == IF ofds[ofd].append THEN Len(file) ELSE ofds[ofd].offset

(* n bytes reach the file. *)
Put(n) ==
  /\ file' = PutAt(file, Where, SubSeq(call.s, 1, n))
  /\ ofds' = [ofds EXCEPT ![ofd].offset = Where + n]
  /\ UNCHANGED fds

Write ==
  /\ Calling("write")
  /\ ofd # -1
  /\ Put(Len(call.s))
  /\ Succeeds

(* A short write goes unnoticed, except in deliver_write, which then fails. *)
WriteShort ==
  /\ Calling("write")
  /\ ofd # -1
  /\ \E n \in 1 .. Len(call.s) - 1 : Put(n)
  /\ Proceed
  /\ clean' = FALSE
  /\ status' = IF call.check = "deliver" THEN "died" ELSE status

(* F_GETFL. *)
Fcntl ==
  /\ Calling("fcntl")
  /\ ofd # -1
  /\ UNCHANGED <<file, ofds, fds>>
  /\ Succeeds

Close ==
  /\ Calling("close")
  /\ ofd # -1
  /\ fds' = [fds EXCEPT ![call.fd] = -1]
  /\ UNCHANGED <<file, ofds>>
  /\ Succeeds

(* assert(lseek(x, 0, SEEK_CUR) == at) *)
AssertOffset ==
  /\ Calling("assert")
  /\ ofd # -1
  /\ Proceed
  /\ status' = IF ofds[ofd].offset = call.at THEN status ELSE "aborted"
  /\ UNCHANGED <<file, ofds, fds, clean>>

(* A call other than those of Succeeds; open and dup then leave the -1. *)
CallFails ==
  /\ status = "running"
  /\ script # <<>>
  /\ call.op # "assert"
  /\ Fails
  /\ UNCHANGED <<file, ofds, fds>>

(* The program returns, and its descriptors are closed. *)
Exit ==
  /\ status = "running"
  /\ script = <<>>
  /\ status' = "exited"
  /\ fds' = [x \in Variables |-> -1]
  /\ ofds' = <<>>
  /\ UNCHANGED <<file, script, prog, before, clean>>

Next ==
  \/ Open \/ Dup \/ Seek \/ Write \/ WriteShort \/ Fcntl \/ Close
  \/ AssertOffset \/ CallFails \/ Exit

Spec == Init /\ [][Next]_vars

-----------------------------------------------------------------------------
Existing == IF before = NoFile THEN <<>> ELSE before

TypeOK ==
  /\ file = NoFile \/ ToSet(file) \subseteq
       {Hole, Null, "old", "test", "data", "Hello,", "world", "HELLO,", "Gidday"}
  /\ \A i \in DOMAIN ofds : ofds[i] \in [offset : Nat, append : BOOLEAN]
  /\ fds \in [Variables -> {-1} \cup DOMAIN ofds]
  /\ status \in {"running", "exited", "died", "aborted"}
  /\ clean \in BOOLEAN

(***************************************************************************)
(* The files the programs leave behind, with before as they found it:      *)
(* question 1 writes at its offset and leaves a hole before it if it must; *)
(* question 2 appends, "regardless of calling lseek" (q2.md), also if only *)
(* part gets through; question 5 leaves an empty file; and the seek of     *)
(* fd2 in question 6 moves fd1 but not fd3, so that of "Hello," and        *)
(* "HELLO," nothing is left.  Who shares an offset in question 6 is as     *)
(* q6.md says; the length is not: line 14 of q6.c writes the zero at the   *)
(* end of "world" as well, and SizeAsExplained does not hold.              *)
(***************************************************************************)
Outcomes ==
  /\ prog[1] = "q2" /\ before # NoFile => IsPrefix(before, file)
  /\ prog[1] = "q2" /\ status = "exited" =>
       file = before \o Text("data", DataBytes)
  /\ status = "exited" /\ clean =>
       CASE prog[1] = "q1" -> file = PutAt(Existing, prog[2], Text("test", 4))
         [] prog[1] = "q5" -> file = <<>>
         [] prog[1] = "q6" -> file = Text("Gidday", 6) \o Text("world", 5) \o <<Null>>
         [] OTHER -> TRUE

(***************************************************************************)
(* "Size 11B" (q6.md, of the file after each write from the second on): if *)
(* no call fails, question 6 leaves a file of eleven bytes.                *)
(***************************************************************************)
SizeAsExplained ==
  prog[1] = "q6" /\ status = "exited" /\ clean => Len(file) = 11

(***************************************************************************)
(* The assert of question 5 about the shared offset never fails, whatever  *)
(* ran before and whatever fails in between.                               *)
(***************************************************************************)
AssertsHold == status # "aborted"

=============================================================================
