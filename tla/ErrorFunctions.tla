--------------------------- MODULE ErrorFunctions ---------------------------
(***************************************************************************)
(* The functions of c/shared/errors.c, called by a program that also       *)
(* prints: what they do to the buffer of stdout, to errno and to the       *)
(* process.  stdout and stderr go to one place; stderr is not buffered.    *)
(* The texts are left out, except for the error number that a message has. *)
(***************************************************************************)
EXTENDS Naturals, SequencesExt

CONSTANTS
  Errnos,    \* the error numbers
  MaxPrints, \* bound: the lines that the program prints
  MaxCalls   \* bound: the messages that come out

(* What is assumed of the constants. *)
ConstantsOK ==
  /\ MaxPrints \in Nat
  /\ MaxCalls \in Nat

VARIABLES
  EF_DUMPCORE,  \* the environment variable is set and not empty
  printed,      \* the lines printed so far
  pending,      \* those of them that are in the buffer of stdout
  out,          \* what has come out: lines and messages
  errno,
  func,         \* the function that is running
  err,          \* the error number its message shows
  savedErrno,   \* of errMsg
  pc,
  atCall        \* history: errno when the function was called

vars ==
  <<EF_DUMPCORE, printed, pending, out, errno, func, err, savedErrno, pc, atCall>>

(* useErr: the functions whose message has an error number. *)
WithNumber == {"errMsg", "errExit", "err_exit", "errExitEN"}
Functions == WithNumber \cup {"fatal", "usageErr", "cmdLineErr"}

Line(k) == [line |-> k]
Message(f, e) == [func |-> f, err |-> e, after |-> printed]
IsMessage(x) == "func" \in DOMAIN x
Messages(s) == SelectSeq(s, IsMessage)

Init ==
  /\ EF_DUMPCORE \in BOOLEAN
  /\ printed = 0
  /\ pending = <<>>
  /\ out = <<>>
  /\ errno \in Errnos
  /\ func = "none"
  /\ err = errno
  /\ savedErrno = errno
  /\ pc = "program"
  /\ atCall = errno

-----------------------------------------------------------------------------
PrintLine ==
  /\ pc = "program" /\ printed < MaxPrints
  /\ printed' = printed + 1
  /\ pending' = Append(pending, Line(printed + 1))
  /\ errno' \in Errnos
  /\ func' = "none"
  /\ UNCHANGED <<EF_DUMPCORE, out, err, savedErrno, pc, atCall>>

(* A line of a terminal, or a full buffer, comes out by itself. *)
Drain ==
  /\ pc = "program" /\ pending # <<>>
  /\ out' = Append(out, Head(pending))
  /\ pending' = Tail(pending)
  /\ UNCHANGED <<EF_DUMPCORE, printed, errno, func, err, savedErrno, pc, atCall>>

(* The program calls f after something has set errno; errnum is the number *)
(* given to errExitEN.                                                     *)
Call(f) ==
  /\ pc = "program" /\ Len(Messages(out)) < MaxCalls
  /\ func' = f
  /\ errno' \in Errnos
  /\ err' \in IF f = "errExitEN" THEN Errnos ELSE {errno'}
  /\ savedErrno' = errno'
  /\ atCall' = err'
  /\ pc' = "format"
  /\ UNCHANGED <<EF_DUMPCORE, printed, pending, out>>

(***************************************************************************)
(* vsnprintf, snprintf or strerror; each may change errno.  usageErr and   *)
(* cmdLineErr have no text to prepare: they flush first, and fprintf and   *)
(* vfprintf format as they write.  Their messages show no errno and they   *)
(* restore none, so that it makes no difference here which comes first.    *)
(***************************************************************************)
Format ==
  /\ pc = "format"
  /\ errno' \in Errnos
  /\ pc' = "flush"
  /\ UNCHANGED <<EF_DUMPCORE, printed, pending, out, func, err, savedErrno, atCall>>

(* Mutant: stdout is not flushed. *)
FlushNothing ==
  /\ pc = "flush"
  /\ pc' = "message"
  /\ UNCHANGED <<EF_DUMPCORE, printed, pending, out, errno, func, err, savedErrno,
                 atCall>>

(* err_exit leaves the buffer of stdout alone. *)
Flush ==
  /\ pc = "flush"
  /\ IF func = "err_exit" THEN UNCHANGED <<pending, out, errno>>
     ELSE out' = out \o pending /\ pending' = <<>> /\ errno' \in Errnos
  /\ pc' = "message"
  /\ UNCHANGED <<EF_DUMPCORE, printed, func, err, savedErrno, atCall>>

(* Mutant: the error number is read when the message is written. *)
ShownLate == errno

Shown == err

Put ==
  /\ pc = "message"
  /\ out' = Append(out, Message(func, Shown))
  /\ errno' \in Errnos
  /\ pc' = "end"
  /\ UNCHANGED <<EF_DUMPCORE, printed, pending, func, err, savedErrno, atCall>>

(* Mutant: errno is left as the output has set it. *)
ReturnErrnoLost ==
  /\ pc = "end" /\ func = "errMsg"
  /\ pc' = "program"
  /\ UNCHANGED <<EF_DUMPCORE, printed, pending, out, errno, func, err, savedErrno,
                 atCall>>

Return ==
  /\ pc = "end" /\ func = "errMsg"
  /\ errno' = savedErrno
  /\ pc' = "program"
  /\ UNCHANGED <<EF_DUMPCORE, printed, pending, out, func, err, savedErrno, atCall>>

(* abort and _exit lose what is in the buffer of stdout. *)
TerminateAtOnce ==
  /\ pc = "end"
  /\ \/ EF_DUMPCORE /\ func \in {"errExit", "err_exit", "errExitEN", "fatal"}
     \/ func = "err_exit"
  /\ pc' = "ended"
  /\ UNCHANGED <<EF_DUMPCORE, printed, pending, out, errno, func, err, savedErrno,
                 atCall>>

(* exit writes it. *)
Exit ==
  /\ pc = "end"
  /\ \/ ~EF_DUMPCORE /\ func \in {"errExit", "errExitEN", "fatal"}
     \/ func \in {"usageErr", "cmdLineErr"}
  /\ out' = out \o pending
  /\ pending' = <<>>
  /\ pc' = "ended"
  /\ UNCHANGED <<EF_DUMPCORE, printed, errno, func, err, savedErrno, atCall>>

Next ==
  \/ PrintLine \/ Drain \/ (\E f \in Functions : Call(f))
  \/ Format \/ Flush \/ Put \/ Return \/ TerminateAtOnce \/ Exit

Spec == Init /\ [][Next]_vars

-----------------------------------------------------------------------------
(* The numbers of the lines that come out before the k-th item. *)
LinesBefore(k) ==
  {out[j].line : j \in {m \in DOMAIN out : m < k /\ ~IsMessage(out[m])}}

TypeOK ==
  /\ EF_DUMPCORE \in BOOLEAN
  /\ printed \in 0 .. MaxPrints
  /\ Len(pending) <= printed /\ LinesBefore(Len(out) + 1) \subseteq 1 .. printed
  /\ {errno, err, savedErrno, atCall} \subseteq Errnos
  /\ pc \in {"program", "format", "flush", "message", "end", "ended"}
  /\ pc # "program" => func \in Functions

(***************************************************************************)
(* "Flush any pending stdout" (errors.c): a message of any function but    *)
(* err_exit comes out behind all that the program has printed before the   *)
(* call, and each line comes out once and in order.                        *)
(***************************************************************************)
OutputFirst ==
  /\ \A k \in DOMAIN out :
       IsMessage(out[k]) /\ out[k].func # "err_exit" =>
         LinesBefore(k) = 1 .. out[k].after
  /\ \A k \in DOMAIN out :
       ~IsMessage(out[k]) => LinesBefore(k) = 1 .. out[k].line - 1

(***************************************************************************)
(* Nothing that was printed is lost when the process ends, even if it      *)
(* dumps core, unless it ends in err_exit.                                 *)
(***************************************************************************)
NothingLost ==
  pc = "ended" /\ func # "err_exit" => LinesBefore(Len(out) + 1) = 1 .. printed

(***************************************************************************)
(* "In case we change it here" (errors.c): a message with a number shows   *)
(* the one of the call, whatever formatting and flushing do to errno, and  *)
(* errMsg returns with the errno it was called with.                       *)
(***************************************************************************)
ErrnoKept ==
  /\ pc \in {"end", "ended"} /\ func \in WithNumber =>
       \E k \in DOMAIN out :
         /\ IsMessage(out[k]) /\ out[k].err = atCall
         /\ \A j \in k + 1 .. Len(out) : ~IsMessage(out[j])
  /\ pc = "program" /\ func = "errMsg" => errno = atCall

=============================================================================
