-------------------------------- MODULE Tee ---------------------------------
(***************************************************************************)
(* chpt4_q1 of c/chpt4/q1.c: copy the standard input to a file and to the  *)
(* standard output.  One step is one system call.  The input is the        *)
(* numbers 1, 2, ..., so that a byte also tells its place.  The bytes that *)
(* the file holds at the start are 0.                                      *)
(***************************************************************************)
EXTENDS Integers, Sequences

CONSTANTS
  MaxInput,   \* the longest input considered
  BUFFER_SZ,
  Broken      \* whether reads from stdin always fail (stdin is a directory,
              \* say): a subset of BOOLEAN

(* What is assumed of the constants. *)
ConstantsOK ==
  /\ MaxInput \in Nat
  /\ BUFFER_SZ \in Nat \ {0}
  /\ Broken \subseteq BOOLEAN

VARIABLES
  broken,    \* reads fail in this run
  append,    \* the option -a
  input,     \* the number of bytes in stdin
  consumed,  \* how many of them were read
  nr_read,   \* the local: bytes in the buffer, or -1
  file,      \* the bytes of the file
  stdout,    \* the bytes sent to the standard output
  whole,     \* no write so far was short or failed
  dirty,     \* the file has bytes that no fsync has made durable
  pc

vars == <<broken, append, input, consumed, nr_read, file, stdout, whole,
          dirty, pc>>

Prior == <<0, 0>>

Init ==
  /\ broken \in Broken
  /\ append \in BOOLEAN
  /\ input \in 0 .. MaxInput
  /\ consumed = 0
  /\ nr_read = 0
  /\ file = Prior
  /\ stdout = <<>>
  /\ whole = TRUE
  /\ dirty = FALSE
  /\ pc = "open"

Kept == IF append THEN Prior ELSE <<>>

-----------------------------------------------------------------------------
(* O_CREAT | O_WRONLY, with O_APPEND or O_TRUNC. *)
Open ==
  /\ pc = "open"
  /\ file' = Kept
  /\ pc' = "read"
  /\ UNCHANGED <<broken, append, input, consumed, nr_read, stdout, whole, dirty>>

(* read answers the number of bytes it put into the buffer. *)
ReadData ==
  /\ pc = "read"
  /\ ~broken
  /\ \E n \in 1 .. BUFFER_SZ :
       /\ consumed + n <= input
       /\ nr_read' = n
       /\ consumed' = consumed + n
  /\ pc' = "write_file"
  /\ UNCHANGED <<broken, append, input, file, stdout, whole, dirty>>

(* Mutant: a short read is taken for the end. *)
ReadEndShort ==
  /\ pc = "read"
  /\ ~broken
  /\ consumed = input \/ (nr_read > 0 /\ nr_read < BUFFER_SZ)
  /\ nr_read' = 0
  /\ pc' = "fsync"
  /\ UNCHANGED <<broken, append, input, consumed, file, stdout, whole, dirty>>

(* Mutant: the loop does not end at 0. *)
ReadEndIgnored ==
  /\ pc = "read"
  /\ ~broken
  /\ consumed = input
  /\ nr_read' = 0
  /\ pc' = "write_file"
  /\ UNCHANGED <<broken, append, input, consumed, file, stdout, whole, dirty>>

(* read answers 0, and the loop ends. *)
ReadEnd ==
  /\ pc = "read"
  /\ ~broken
  /\ consumed = input
  /\ nr_read' = 0
  /\ pc' = "fsync"
  /\ UNCHANGED <<broken, append, input, consumed, file, stdout, whole, dirty>>

(* Mutant: the count of the read before is used. *)
ReadErrorStale ==
  /\ pc = "read"
  /\ pc' = "write_file"
  /\ UNCHANGED <<broken, append, input, consumed, nr_read, file, stdout, whole,
                 dirty>>

(* read answers -1, which is not 0: the body of the loop runs. *)
ReadError ==
  /\ pc = "read"
  /\ nr_read' = -1
  /\ pc' = "write_file"
  /\ UNCHANGED <<broken, append, input, consumed, file, stdout, whole, dirty>>

(* The buffer holds the last nr_read bytes of the input. *)
Buffer == [k \in 1 .. nr_read |-> consumed - nr_read + k]

(***************************************************************************)
(* What write takes of the buffer: any part from its start, or nothing if  *)
(* it fails.  For nr_read = -1 the count is SIZE_MAX, which write refuses. *)
(***************************************************************************)
Taken(out, outNext) ==
  \E n \in 0 .. (IF nr_read = -1 THEN 0 ELSE nr_read) :
    /\ outNext = out \o SubSeq(Buffer, 1, n)
    /\ whole' = (whole /\ n >= nr_read)

WriteFile ==
  /\ pc = "write_file"
  /\ Taken(file, file')
  /\ dirty' = (dirty \/ file' # file)
  /\ pc' = "write_stdout"
  /\ UNCHANGED <<broken, append, input, consumed, nr_read, stdout>>

WriteStdout ==
  /\ pc = "write_stdout"
  /\ Taken(stdout, stdout')
  /\ pc' = "read"
  /\ UNCHANGED <<broken, append, input, consumed, nr_read, file, dirty>>

(* Mutant: fsync is forgotten. *)
FsyncNothing ==
  /\ pc = "fsync"
  /\ pc' = "close"
  /\ UNCHANGED <<broken, append, input, consumed, nr_read, file, stdout, whole,
                 dirty>>

Fsync ==
  /\ pc = "fsync"
  /\ dirty' = FALSE
  /\ pc' = "close"
  /\ UNCHANGED <<broken, append, input, consumed, nr_read, file, stdout, whole>>

Close ==
  /\ pc = "close"
  /\ pc' = "exited"
  /\ UNCHANGED <<broken, append, input, consumed, nr_read, file, stdout, whole,
                 dirty>>

(* The calls whose failure ends the process: open, fsync and close. *)
Fail ==
  /\ pc \in {"open", "fsync", "close"}
  /\ pc' = "died"
  /\ UNCHANGED <<broken, append, input, consumed, nr_read, file, stdout, whole,
                 dirty>>

Next ==
  \/ Open \/ ReadData \/ ReadEnd \/ ReadError
  \/ WriteFile \/ WriteStdout
  \/ Fsync \/ Close \/ Fail

(***************************************************************************)
(* The process goes on running; and a read that could succeed does so      *)
(* sooner or later, unless stdin is broken for good.                       *)
(***************************************************************************)
Spec ==
  /\ Init
  /\ [][Next]_vars
  /\ WF_vars(Next)
  /\ SF_vars(ReadData \/ ReadEnd)

-----------------------------------------------------------------------------
TypeOK ==
  /\ broken \in BOOLEAN /\ append \in BOOLEAN
  /\ input \in 0 .. MaxInput /\ consumed \in 0 .. input
  /\ nr_read \in -1 .. BUFFER_SZ
  /\ file \in Seq(0 .. MaxInput) /\ stdout \in Seq(1 .. MaxInput)
  /\ whole \in BOOLEAN /\ dirty \in BOOLEAN
  /\ pc \in {"open", "read", "write_file", "write_stdout", "fsync", "close",
             "exited", "died"}

Ascending(s) == \A i, j \in DOMAIN s : i < j => s[i] < s[j]

(***************************************************************************)
(* Short and failed writes lose bytes, but what gets through is a          *)
(* subsequence of the input, on both sides, behind what -a keeps: a failed *)
(* read never makes an old buffer go out again.                            *)
(***************************************************************************)
NothingRepeated ==
  pc # "open" /\ pc # "died" =>
    /\ SubSeq(file, 1, Len(Kept)) = Kept
    /\ Ascending(SubSeq(file, Len(Kept) + 1, Len(file)))
    /\ Ascending(stdout)

(***************************************************************************)
(* If no write was short, both outputs are complete when the loop reads    *)
(* again and at the exit, which is only reached at the end of the input    *)
(* and with the file durable.                                              *)
(***************************************************************************)
CompleteUnlessShort ==
  /\ whole /\ pc \in {"read", "fsync", "close", "exited"} =>
       /\ file = Kept \o [k \in 1 .. consumed |-> k]
       /\ stdout = [k \in 1 .. consumed |-> k]
  /\ pc = "exited" => consumed = input /\ ~dirty

(* Where tee ends, given a stdin that can be read. *)
Ended == broken \/ pc \in {"exited", "died"}

(***************************************************************************)
(* q1.c 29: "if (nr_read == -1) errExit(...)": a read that keeps failing   *)
(* ends the process with an error.                                         *)
(***************************************************************************)
ReadErrorEnds == broken ~> pc = "died"

=============================================================================
