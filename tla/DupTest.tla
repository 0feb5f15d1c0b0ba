------------------------------ MODULE DupTest -------------------------------
(***************************************************************************)
(* chpt5_q4 of c/chpt5/q4.c: its calls and asserts, in their order, made   *)
(* by a process that may have inherited any descriptors.                   *)
(***************************************************************************)
EXTENDS Dup, Sequences

CONSTANTS
  Std,  \* the open file description of what is inherited
  Tmp   \* and that of the temporary file

(* What is assumed of the constants: 8 is a descriptor that may be had. *)
TestConstantsOK ==
  /\ MaxFd \in Nat /\ MaxFd >= 8
  /\ Files = {Std, Tmp}
  /\ Std # Tmp
  /\ {"closed", "nothing"} \cap Files = {}

VARIABLES
  inherited,  \* the descriptors that were open at the start
  next        \* the number of the call that is made next

testVars == <<vars, inherited, next>>

tmp_fd == CHOOSE fd \in Fds \ inherited : \A k \in Fds : k < fd => k \in inherited

dup(old_fd, expected) ==
  [call |-> [op |-> "dup", old_fd |-> old_fd], expected |-> expected]
dup2(old_fd, new_fd, expected) ==
  [call |-> [op |-> "dup2", old_fd |-> old_fd, new_fd |-> new_fd],
   expected |-> expected]

Script ==
  << dup(-1, EBADF), dup(0, 4), dup(1, 5), dup(2, 6), dup(tmp_fd, 7),
     dup2(-1, 8, EBADF), dup2(0, 8, 8), dup2(8, 8, 8), dup2(8, -1, EBADF),
     dup2(-1, tmp_fd, EBADF), dup2(0, tmp_fd, tmp_fd) >>

(* The asserts about the flags of tmp_fd, after the last two calls. *)
FlagsAsAsserted ==
  /\ next = Len(Script) - 1 => table[tmp_fd] = Tmp
  /\ next = Len(Script) => table[tmp_fd] # Tmp

(* The file has been opened; there is a free number for it. *)
TestInit ==
  /\ inherited \in SUBSET Fds /\ inherited # Fds
  /\ table = [fd \in Fds |-> IF fd = tmp_fd THEN Tmp
                             ELSE IF fd \in inherited THEN Std ELSE Closed]
  /\ call = Idle
  /\ pc = "idle"
  /\ answer = NoAnswer
  /\ got = NoAnswer
  /\ lost = "nothing"
  /\ raced = FALSE
  /\ taken = FALSE
  /\ next = 1

TestCall ==
  /\ next <= Len(Script)
  /\ Call(Script[next].call)
  /\ UNCHANGED <<inherited, next>>

TestStep == Step /\ pc # "return" /\ UNCHANGED <<inherited, next>>

TestReturn ==
  /\ pc = "return"
  /\ answer = Script[next].expected
  /\ FlagsAsAsserted
  /\ Return
  /\ next' = next + 1
  /\ UNCHANGED inherited

(* An assert fails. *)
Abort ==
  /\ pc = "return"
  /\ answer # Script[next].expected \/ ~FlagsAsAsserted
  /\ pc' = "died"
  /\ UNCHANGED <<table, call, answer, got, lost, raced, taken, inherited, next>>

TestNext == TestCall \/ TestStep \/ TestReturn \/ Abort

(* The process goes on running. *)
TestSpec == TestInit /\ [][TestNext]_testVars /\ WF_testVars(TestNext)

-----------------------------------------------------------------------------
(***************************************************************************)
(* The numbers in the asserts are right for a process that starts with     *)
(* three of the descriptors 0 to 3, one of them 0, and none of the next    *)
(* four, whatever else it has, and for no other: the test passes if and    *)
(* only if it is started so, as a shell does with 0, 1 and 2.              *)
(***************************************************************************)
StartedAsExpected ==
  0 \in inherited /\ (inherited \cup {tmp_fd}) \cap 0 .. 7 = 0 .. 3

PassesAsStarted ==
  /\ next > Len(Script) => StartedAsExpected
  /\ pc = "died" => ~StartedAsExpected

(* Where the test ends. *)
Ended == next > Len(Script) \/ pc = "died"

=============================================================================
