---------------------------- MODULE DupContract -----------------------------
(***************************************************************************)
(* What dup(2) and dup2(2) promise, as c/chpt5/q4.c implements them: each  *)
(* call changes the table of descriptors in one step, at some moment       *)
(* between the call and its return.  Other threads use the table too.      *)
(***************************************************************************)
EXTENDS Integers

CONSTANTS
  MaxFd, \* the descriptors are 0 .. MaxFd
  Files  \* open file descriptions

VARIABLES
  table,  \* what each descriptor refers to, or Closed
  call,   \* the call that is under way, or Idle
  answer  \* its answer, or NoAnswer until it has taken effect

Fds == 0 .. MaxFd

(* The arguments: every descriptor, and a number too small and too large. *)
Numbers == -1 .. MaxFd + 1

Closed == "closed"
Idle == [op |-> "idle"]
NoAnswer == -99
EBADF == -9
EMFILE == -24

IsOpen(fd) == fd \in Fds /\ table[fd] # Closed

(* F_DUPFD and open take the lowest free number from some number on. *)
LowestFree(from) ==
  {fd \in Fds : /\ from <= fd /\ table[fd] = Closed
                /\ \A k \in Fds : from <= k /\ k < fd => table[k] # Closed}

Init ==
  /\ table \in [Fds -> Files \cup {Closed}]
  /\ call = Idle
  /\ answer = NoAnswer

Call(c) ==
  /\ call = Idle
  /\ call' = c
  /\ answer' = NoAnswer
  /\ UNCHANGED table

Pending == call # Idle /\ answer = NoAnswer

Refuse ==
  /\ Pending
  /\ \/ /\ ~IsOpen(call.old_fd) \/ (call.op = "dup2" /\ call.new_fd \notin Fds)
        /\ answer' = EBADF
     \/ /\ call.op = "dup" /\ LowestFree(0) = {}
        /\ answer' = EMFILE
  /\ UNCHANGED <<table, call>>

Dup ==
  /\ Pending /\ call.op = "dup" /\ IsOpen(call.old_fd)
  /\ answer' \in LowestFree(0)
  /\ table' = [table EXCEPT ![answer'] = table[call.old_fd]]
  /\ UNCHANGED call

(* new_fd is closed and used again in one step; dup2(fd, fd) does nothing. *)
Dup2 ==
  /\ Pending /\ call.op = "dup2" /\ IsOpen(call.old_fd) /\ call.new_fd \in Fds
  /\ answer' = call.new_fd
  /\ table' = [table EXCEPT ![call.new_fd] = table[call.old_fd]]
  /\ UNCHANGED call

Return ==
  /\ call # Idle /\ answer # NoAnswer
  /\ call' = Idle
  /\ UNCHANGED <<table, answer>>

Others ==
  /\ \E fd \in Fds, f \in Files \cup {Closed} :
       table' = [table EXCEPT ![fd] = f]
  /\ UNCHANGED <<call, answer>>

Next ==
  \/ \E fd \in Numbers : Call([op |-> "dup", old_fd |-> fd])
  \/ \E fd, new_fd \in Numbers :
       Call([op |-> "dup2", old_fd |-> fd, new_fd |-> new_fd])
  \/ Refuse \/ Dup \/ Dup2 \/ Return \/ Others

Spec == Init /\ [][Next]_<<table, call, answer>>
=============================================================================
