-------------------------------- MODULE Dup ---------------------------------
(***************************************************************************)
(* __dup and __dup2 of c/chpt5/q4.c, one step per fcntl or close, with     *)
(* other threads of the process opening and closing descriptors at any     *)
(* moment in between ("Note: this is not done atomically").                *)
(***************************************************************************)
EXTENDS Integers

CONSTANTS
  MaxFd, \* the limit of the process: descriptors are 0 .. MaxFd
  Files  \* open file descriptions

ASSUME MaxFdAssumption == MaxFd \in Nat

(* A file is told from the marks for a closed descriptor and for no file. *)
ASSUME FilesAssumption == {"closed", "nothing"} \cap Files = {}

VARIABLES
  table,   \* what each descriptor refers to, or Closed
  call,    \* the call that is under way, or Idle
  pc,      \* where it is
  answer,  \* what it will answer, or NoAnswer
  got,     \* history: the number that F_DUPFD chose
  lost,    \* history: what new_fd referred to when it was closed
  raced,   \* history: another thread did something during the call
  taken    \* history: ... and was given new_fd while it was free

vars == <<table, call, pc, answer, got, lost, raced, taken>>

(* The table as it would be if new_fd had not been closed yet. *)
atomicTable ==
  IF lost = "nothing" THEN table ELSE [table EXCEPT ![call.new_fd] = lost]

Contract == INSTANCE DupContract WITH table <- atomicTable

Fds == 0 .. MaxFd
Closed == "closed"
Idle == [op |-> "idle"]
NoAnswer == -99
EBADF == -9
EMFILE == -24

(* The arguments: every descriptor, and a number too small and too large. *)
Numbers == -1 .. MaxFd + 1
Calls ==
  [op : {"dup"}, old_fd : Numbers]
    \cup [op : {"dup2"}, old_fd : Numbers, new_fd : Numbers]

IsOpen(fd) == fd \in Fds /\ table[fd] # Closed

LowestFree(from) ==
  {fd \in Fds : /\ from <= fd /\ table[fd] = Closed
                /\ \A k \in Fds : from <= k /\ k < fd => table[k] # Closed}

Init ==
  /\ table \in [Fds -> Files \cup {Closed}]
  /\ call = Idle
  /\ pc = "idle"
  /\ answer = NoAnswer
  /\ got = NoAnswer
  /\ lost = "nothing"
  /\ raced = FALSE
  /\ taken = FALSE

-----------------------------------------------------------------------------
Call(c) ==
  /\ pc = "idle"
  /\ call' = c
  /\ pc' = "old"
  /\ answer' = NoAnswer
  /\ got' = NoAnswer
  /\ raced' = FALSE
  /\ taken' = FALSE
  /\ UNCHANGED <<table, lost>>

Answer(n) == answer' = n /\ pc' = "return"

(* Mutant: equal descriptors are closed and duplicated like others. *)
CheckOldOnly ==
  /\ pc = "old"
  /\ IF ~IsOpen(call.old_fd) THEN Answer(EBADF)
     ELSE /\ pc' = IF call.op = "dup" THEN "dupfd" ELSE "new"
          /\ UNCHANGED answer
  /\ UNCHANGED <<table, call, got, lost, raced, taken>>

(* fcntl(old_fd, F_GETFD), and the test for equal descriptors. *)
CheckOld ==
  /\ pc = "old"
  /\ IF ~IsOpen(call.old_fd) THEN Answer(EBADF)
     ELSE IF call.op = "dup2" /\ call.old_fd = call.new_fd
     THEN Answer(call.old_fd)
     ELSE /\ pc' = IF call.op = "dup" THEN "dupfd" ELSE "new"
          /\ UNCHANGED answer
  /\ UNCHANGED <<table, call, got, lost, raced, taken>>

(* fcntl(new_fd, F_GETFD). *)
CheckNew ==
  /\ pc = "new"
  /\ pc' = IF IsOpen(call.new_fd) THEN "close" ELSE "dupfd"
  /\ UNCHANGED <<table, call, answer, got, lost, raced, taken>>

(* Mutant: new_fd is not closed. *)
CloseNothing ==
  /\ pc = "close"
  /\ pc' = "dupfd"
  /\ UNCHANGED <<table, call, answer, got, lost, raced, taken>>

(* close(new_fd), whatever it answers. *)
Close ==
  /\ pc = "close"
  /\ table' = [table EXCEPT ![call.new_fd] = Closed]
  /\ lost' = IF IsOpen(call.new_fd) THEN table[call.new_fd] ELSE lost
  /\ pc' = "dupfd"
  /\ UNCHANGED <<call, answer, got, raced, taken>>

From == IF call.op = "dup" THEN 0 ELSE call.new_fd

(* Mutant: new_fd is used whether it is free or not. *)
DupFdOver ==
  /\ pc = "dupfd"
  /\ IsOpen(call.old_fd)
  /\ got' = From /\ got' \in Fds
  /\ table' = [table EXCEPT ![got'] = table[call.old_fd]]
  /\ lost' = "nothing"
  /\ Answer(IF call.op = "dup" THEN got' ELSE call.new_fd)
  /\ UNCHANGED <<call, raced, taken>>

(* F_DUPFD chooses a number, but __dup2 answers new_fd all the same. *)
DupFd ==
  /\ pc = "dupfd"
  /\ IsOpen(call.old_fd)
  /\ got' \in LowestFree(From) /\ From \in Fds
  /\ table' = [table EXCEPT ![got'] = table[call.old_fd]]
  /\ lost' = "nothing"
  /\ Answer(IF call.op = "dup" THEN got' ELSE call.new_fd)
  /\ UNCHANGED <<call, raced, taken>>

(* Mutant: errno is left as F_DUPFD sets it, which is EINVAL. *)
BadNumberEINVAL == Answer(-22)

(* new_fd is no descriptor. *)
BadNumber == Answer(EBADF)

(* It fails: __dup passes the error on, __dup2 only that of a bad new_fd. *)
DupFdFails ==
  /\ pc = "dupfd"
  /\ \/ /\ ~IsOpen(call.old_fd)
        /\ IF call.op = "dup" THEN Answer(EBADF)
           ELSE pc' = "died" /\ UNCHANGED answer
     \/ /\ IsOpen(call.old_fd) /\ From \notin Fds /\ BadNumber
     \/ /\ IsOpen(call.old_fd) /\ From \in Fds /\ LowestFree(From) = {}
        /\ IF call.op = "dup" THEN Answer(EMFILE)
           ELSE pc' = "died" /\ UNCHANGED answer
  /\ UNCHANGED <<table, call, got, lost, raced, taken>>

Return ==
  /\ pc = "return"
  /\ call' = Idle
  /\ pc' = "idle"
  /\ UNCHANGED <<table, answer, got, lost, raced, taken>>

-----------------------------------------------------------------------------
(* Another thread opens a file, or closes a descriptor. *)
OtherOpens ==
  /\ pc # "died"
  /\ \E fd \in LowestFree(0), f \in Files :
       /\ table' = [table EXCEPT ![fd] = f]
       /\ taken' = (taken \/ (pc = "dupfd" /\ fd = From))
  /\ raced' = TRUE
  /\ UNCHANGED <<call, pc, answer, got, lost>>

OtherCloses ==
  /\ pc # "died"
  /\ \E fd \in Fds : IsOpen(fd) /\ table' = [table EXCEPT ![fd] = Closed]
  /\ raced' = TRUE
  /\ UNCHANGED <<call, pc, answer, got, lost, taken>>

Step ==
  CheckOld \/ CheckNew \/ Close \/ DupFd \/ DupFdFails \/ Return

Next == (\E c \in Calls : Call(c)) \/ Step \/ OtherOpens \/ OtherCloses

Spec == Init /\ [][Next]_vars

-----------------------------------------------------------------------------
TypeOK ==
  /\ table \in [Fds -> Files \cup {Closed}]
  /\ call \in Calls \cup {Idle}
  /\ pc \in {"idle", "old", "new", "close", "dupfd", "return", "died"}
  /\ answer \in Fds \cup {NoAnswer, EBADF, EMFILE}
  /\ got \in Fds \cup {NoAnswer}
  /\ lost \in Files \cup {"nothing"}
  /\ raced \in BOOLEAN /\ taken \in BOOLEAN

(***************************************************************************)
(* "My implementation of the dup(2) syscall", and of dup2(2): each call    *)
(* is as good as an atomic one.  For __dup this is so whatever other       *)
(* threads do meanwhile; for __dup2 as long as none of them uses the table *)
(* during the call ("Note: this is not done atomically"), for then nobody  *)
(* sees the moment in which new_fd is closed.                              *)
(***************************************************************************)
ContractSpec ==
  /\ Contract!Init
  /\ [][Contract!Next \/ (call.op = "dup2" /\ raced')]_<<atomicTable, call, answer>>

(***************************************************************************)
(* What is left of __dup2 when other threads use the table: it ends the    *)
(* process, or answers new_fd for a duplicate that has another number,     *)
(* only if they changed the table during the call, and the latter only if  *)
(* one of them was given new_fd while __dup2 had it closed.                *)
(***************************************************************************)
RacedOnly ==
  /\ pc = "died" => raced
  /\ pc = "return" /\ call.op = "dup2" /\ answer \in Fds
       /\ call.old_fd # call.new_fd /\ ~taken => got = answer

(***************************************************************************)
(* However the calls interleave, no call changes a descriptor that is      *)
(* open, except that __dup2 closes new_fd once.  What another thread has   *)
(* opened at new_fd before that is closed as well; what it opens there     *)
(* afterwards is kept.                                                     *)
(***************************************************************************)
OthersKept ==
  [][\A fd \in Fds : IsOpen(fd) /\ table'[fd] # table[fd] =>
       \/ table'[fd] = Closed /\ UNCHANGED pc
       \/ pc = "close" /\ fd = call.new_fd /\ pc' = "dupfd"]_vars

=============================================================================
