------------------------------ MODULE Program -------------------------------
(***************************************************************************)
(* One execution of the program run: main picks one exercise, the process  *)
(* does that and nothing else, and ends.  The parts are the small          *)
(* exercises, the two test scripts, the way from the command line to an    *)
(* exercise, and the helpers of c/shared; a behaviour is one of a single   *)
(* part.  Each part is a module of its own.  A variable has the name it    *)
(* has there and is Unused in the other parts, as a function that is not   *)
(* called has no locals; parts that use the same name share the variable.  *)
(***************************************************************************)
EXTENDS Integers, Sequences

CONSTANTS
  MaxInput, BUFFER_SZ, Broken,                   \* Tee
  Content, MaxSize, Growth,                      \* SparseCopy, NullHoles
  Procs, MaxBytes, ZeroWrites,                   \* DeliverWrite
  MaxOffset, DataBytes, RandomOffset,            \* Offsets
  Chars, SSIZE_MAX, UIO_MAXIOV, MaxIovs, MaxLen, \* Vectored
  INT_MAX, LONG_MAX, Q1_MAX_NUM_ALLOCS, Typed, NotNumber,  \* FreeRange
  UserNames, BadNames, MaxUsers,                 \* Passwd
  TypedPrefixes, Args, LongArgs, NumberArgs, ZeroArgs, MaxArgs,  \* Dispatch
  Errnos, MaxPrints, MaxCalls,                   \* ErrorFunctions
  MaxFd, Files, Std, Tmp,                        \* DupTest
  Names, Values, Empty, Unset, NoName, MaxInherited,             \* EnvTest
  SHELL, MY_SWEET, MY_NOT_SO_SWEET, OLDPWD, somevariable,
  bin_sh, eKlkl, FortyTwo

VARIABLES
  part,  \* what the process was started for
  \* of several parts
  pc, append, file, src, dst, i, status, result, errno, inherited, next,
  \* Tee
  broken, input, consumed, nr_read, stdout, whole, dirty,
  \* SparseCopy
  grown, src_file_size, data_begin, data_end, read_within_region,
  \* NullHoles
  dst_offset, total_read, nread, nonhole_begin, inside_hole, hole_begin,
  \* DeliverWrite
  sink, nbytes, total_written,
  \* Offsets
  ofds, fds, script, prog, before, clean,
  \* Vectored
  offset, op, iov, given, written, total, tmp, moved,
  \* FreeRange
  args, values, blocks,
  \* Passwd
  users, cursor, area, name, entry, order, shown, failed,
  \* Dispatch
  argv, chapter, question, filepath, idx,
  \* ErrorFunctions
  EF_DUMPCORE, printed, pending, out, func, err, savedErrno, atCall,
  \* DupTest
  table, call, answer, got, lost, raced, taken,
  \* EnvTest
  environ, called

(* The variables of one part alone. *)
teeVars == <<broken, input, consumed, nr_read, stdout, whole, dirty>>
sparseVars == <<grown, src_file_size, data_begin, data_end, read_within_region>>
nullVars ==
  <<dst_offset, total_read, nread, nonhole_begin, inside_hole, hole_begin>>
deliverVars == <<sink, nbytes, total_written>>
offsetsVars == <<ofds, fds, script, prog, before, clean>>
vectoredVars == <<offset, op, iov, given, written, total, tmp, moved>>
freeVars == <<args, values, blocks>>
passwdVars == <<users, cursor, area, name, entry, order, shown, failed>>
dispatchVars == <<argv, chapter, question, filepath, idx>>
errorVars ==
  <<EF_DUMPCORE, printed, pending, out, func, err, savedErrno, atCall>>
dupVars == <<table, call, answer, got, lost, raced, taken>>
envVars == <<environ, called>>

vars ==
  <<part, pc, append, file, src, dst, i, status, result, errno, inherited, next,
    teeVars, sparseVars, nullVars, deliverVars, offsetsVars, vectoredVars,
    freeVars, passwdVars, dispatchVars, errorVars, dupVars, envVars>>

Tee == INSTANCE Tee
Sparse == INSTANCE SparseCopy
Nulls == INSTANCE NullHoles
Deliver == INSTANCE DeliverWrite
Offsets == INSTANCE Offsets
Vectored == INSTANCE Vectored
FreeRange == INSTANCE FreeRange
Passwd == INSTANCE Passwd WITH Names <- UserNames
Dispatch == INSTANCE Dispatch
Errors == INSTANCE ErrorFunctions
DupTest == INSTANCE DupTest
EnvTest == INSTANCE EnvTest

ASSUME ConstantsAssumption ==
  /\ Tee!ConstantsOK /\ Sparse!ConstantsOK /\ Nulls!ConstantsOK
  /\ Deliver!ConstantsOK /\ Offsets!ConstantsOK /\ Vectored!ConstantsOK
  /\ FreeRange!ConstantsOK /\ Passwd!ConstantsOK /\ Dispatch!ConstantsOK
  /\ Errors!ConstantsOK /\ DupTest!TestConstantsOK /\ EnvTest!TestConstantsOK

-----------------------------------------------------------------------------
Unused == "unused"

(* What the part does not use, at the start and for good. *)
AtRest ==
  /\ part # "tee" =>
       /\ broken = Unused /\ input = Unused /\ consumed = Unused
       /\ nr_read = Unused /\ stdout = Unused /\ whole = Unused
       /\ dirty = Unused
  /\ part # "sparse_copy" =>
       /\ grown = Unused /\ src_file_size = Unused /\ data_begin = Unused
       /\ data_end = Unused /\ read_within_region = Unused
  /\ part # "null_holes" =>
       /\ dst_offset = Unused /\ total_read = Unused /\ nread = Unused
       /\ nonhole_begin = Unused /\ inside_hole = Unused
       /\ hole_begin = Unused
  /\ part # "deliver_write" =>
       /\ sink = Unused /\ nbytes = Unused /\ total_written = Unused
  /\ part # "offsets" =>
       /\ ofds = Unused /\ fds = Unused /\ script = Unused /\ prog = Unused
       /\ before = Unused /\ clean = Unused
  /\ part # "vectored" =>
       /\ offset = Unused /\ op = Unused /\ iov = Unused /\ given = Unused
       /\ written = Unused /\ total = Unused /\ tmp = Unused
       /\ moved = Unused
  /\ part # "free_range" =>
       /\ args = Unused /\ values = Unused /\ blocks = Unused
  /\ part # "passwd" =>
       /\ users = Unused /\ cursor = Unused /\ area = Unused
       /\ name = Unused /\ entry = Unused /\ order = Unused
       /\ shown = Unused /\ failed = Unused
  /\ part # "dispatch" =>
       /\ argv = Unused /\ chapter = Unused /\ question = Unused
       /\ filepath = Unused /\ idx = Unused
  /\ part # "errors" =>
       /\ EF_DUMPCORE = Unused /\ printed = Unused /\ pending = Unused
       /\ out = Unused /\ func = Unused /\ err = Unused
       /\ savedErrno = Unused /\ atCall = Unused
  /\ part # "dup_test" =>
       /\ table = Unused /\ call = Unused /\ answer = Unused
       /\ got = Unused /\ lost = Unused /\ raced = Unused /\ taken = Unused
  /\ part # "env_test" =>
       /\ environ = Unused /\ called = Unused
  /\ part \notin {"tee", "dispatch"} => append = Unused
  /\ part \notin {"tee", "offsets", "vectored"} => file = Unused
  /\ part \notin {"sparse_copy", "null_holes"} =>
       /\ src = Unused /\ dst = Unused
  /\ part \notin {"null_holes", "vectored", "free_range"} => i = Unused
  /\ part \notin {"offsets", "env_test"} => status = Unused
  /\ part \notin {"vectored", "env_test"} => result = Unused
  /\ part \notin {"passwd", "errors"} => errno = Unused
  /\ part \notin {"dup_test", "env_test"} =>
       /\ inherited = Unused /\ next = Unused
  /\ part \in {"offsets", "env_test"} => pc = Unused

Init ==
  \/ part = "tee" /\ Tee!Init /\ AtRest
  \/ part = "sparse_copy" /\ Sparse!Init /\ AtRest
  \/ part = "null_holes" /\ Nulls!Init /\ AtRest
  \/ part = "deliver_write" /\ Deliver!Init /\ AtRest
  \/ part = "offsets" /\ Offsets!Init /\ AtRest
  \/ part = "vectored" /\ Vectored!Init /\ AtRest
  \/ part = "free_range" /\ FreeRange!Init /\ AtRest
  \/ part = "passwd" /\ Passwd!Init /\ AtRest
  \/ part = "dispatch" /\ Dispatch!Init /\ AtRest
  \/ part = "errors" /\ Errors!Init /\ AtRest
  \/ part = "dup_test" /\ DupTest!TestInit /\ AtRest
  \/ part = "env_test" /\ EnvTest!TestInit /\ AtRest

Others ==
  /\ UNCHANGED part
  /\ part # "tee" => UNCHANGED teeVars
  /\ part # "sparse_copy" => UNCHANGED sparseVars
  /\ part # "null_holes" => UNCHANGED nullVars
  /\ part # "deliver_write" => UNCHANGED deliverVars
  /\ part # "offsets" => UNCHANGED offsetsVars
  /\ part # "vectored" => UNCHANGED vectoredVars
  /\ part # "free_range" => UNCHANGED freeVars
  /\ part # "passwd" => UNCHANGED passwdVars
  /\ part # "dispatch" => UNCHANGED dispatchVars
  /\ part # "errors" => UNCHANGED errorVars
  /\ part # "dup_test" => UNCHANGED dupVars
  /\ part # "env_test" => UNCHANGED envVars
  /\ part \notin {"tee", "dispatch"} => UNCHANGED append
  /\ part \notin {"tee", "offsets", "vectored"} => UNCHANGED file
  /\ part \notin {"sparse_copy", "null_holes"} => UNCHANGED <<src, dst>>
  /\ part \notin {"null_holes", "vectored", "free_range"} => UNCHANGED i
  /\ part \notin {"offsets", "env_test"} => UNCHANGED status
  /\ part \notin {"vectored", "env_test"} => UNCHANGED result
  /\ part \notin {"passwd", "errors"} => UNCHANGED errno
  /\ part \notin {"dup_test", "env_test"} => UNCHANGED <<inherited, next>>
  /\ part \in {"offsets", "env_test"} => UNCHANGED pc

Next ==
  \/ part = "tee" /\ Tee!Next /\ Others
  \/ part = "sparse_copy" /\ Sparse!Next /\ Others
  \/ part = "null_holes" /\ Nulls!Next /\ Others
  \/ part = "deliver_write" /\ Deliver!Next /\ Others
  \/ part = "offsets" /\ Offsets!Next /\ Others
  \/ part = "vectored" /\ Vectored!Next /\ Others
  \/ part = "free_range" /\ FreeRange!Next /\ Others
  \/ part = "passwd" /\ Passwd!Next /\ Others
  \/ part = "dispatch" /\ Dispatch!Next /\ Others
  \/ part = "errors" /\ Errors!Next /\ Others
  \/ part = "dup_test" /\ DupTest!TestNext /\ Others
  \/ part = "env_test" /\ EnvTest!TestNext /\ Others

(***************************************************************************)
(* The process goes on running: no part with a loop is left in the middle. *)
(* (Offsets and EnvTest are scripts without one, and in ErrorFunctions the *)
(* program that prints has no end of its own.)  A read of tee that could   *)
(* succeed does so sooner or later, and each process in deliver_write goes *)
(* on without a call that has to fail, as their modules say.               *)
(***************************************************************************)
Running ==
  \/ part = "tee" /\ Tee!Next /\ Others
  \/ part = "sparse_copy" /\ Sparse!Step /\ Others
  \/ part = "null_holes" /\ Nulls!Next /\ Others
  \/ part = "vectored" /\ Vectored!Next /\ Others
  \/ part = "free_range" /\ FreeRange!Step /\ Others
  \/ part = "passwd" /\ Passwd!Step /\ Others
  \/ part = "dispatch" /\ Dispatch!Next /\ Others
  \/ part = "dup_test" /\ DupTest!TestNext /\ Others

TeeReads == part = "tee" /\ (Tee!ReadData \/ Tee!ReadEnd) /\ Others

Delivers(p) ==
  part = "deliver_write" /\ (Deliver!Write(p) \/ Deliver!WriteZero(p)) /\ Others

Spec ==
  /\ Init /\ [][Next]_vars
  /\ WF_vars(Running) /\ SF_vars(TeeReads)
  /\ \A p \in Procs : WF_vars(Delivers(p))

-----------------------------------------------------------------------------
(***************************************************************************)
(* The type invariant of the part that runs.                               *)
(***************************************************************************)
TypeOK ==
  CASE part = "tee" -> Tee!TypeOK
    [] part = "sparse_copy" -> Sparse!TypeOK
    [] part = "null_holes" -> Nulls!TypeOK
    [] part = "deliver_write" -> Deliver!TypeOK
    [] part = "offsets" -> Offsets!TypeOK
    [] part = "vectored" -> Vectored!TypeOK
    [] part = "free_range" -> FreeRange!TypeOK
    [] part = "passwd" -> Passwd!TypeOK
    [] part = "dispatch" -> Dispatch!TypeOK
    [] part = "errors" -> Errors!TypeOK
    [] part = "dup_test" -> DupTest!TypeOK
    [] part = "env_test" -> EnvTest!TypeOK

(***************************************************************************)
(* tee: what reaches an output is in order, without repetition and behind  *)
(* what -a keeps, however short the writes; and without a short write it   *)
(* is everything, and durable, at the exit.                                *)
(***************************************************************************)
TeeOutputs ==
  part = "tee" => Tee!NothingRepeated /\ Tee!CompleteUnlessShort

(***************************************************************************)
(* q2_std: the copy reads like the source and has its holes at any moment, *)
(* and is as long as the source was when the copy began if it ends well,   *)
(* also if another process appends to the source.                          *)
(***************************************************************************)
SparseCopied == part = "sparse_copy" => Sparse!ExactSoFar /\ Sparse!AllCopied

(***************************************************************************)
(* q2_nulls_into_holes: the offsets of source and destination agree, over  *)
(* the borders of the buffers and short reads, and every null up to the    *)
(* last other byte becomes a hole, and no other byte does.                 *)
(***************************************************************************)
NullsAreHoles == part = "null_holes" => Nulls!OffsetsAgree /\ Nulls!NullsAreHoles

(***************************************************************************)
(* deliver_write: each byte is taken once and in order, and all of them    *)
(* before it returns, whatever is written in between.                      *)
(***************************************************************************)
DeliveredOnce == part = "deliver_write" => Deliver!OnceInOrder /\ Deliver!AllDelivered

(***************************************************************************)
(* Questions 1, 2, 5 and 6 of chapter 5 leave the files that follow from   *)
(* who shares an offset with whom, and the asserts of question 5 hold.     *)
(* Question 6 leaves the twelve bytes that its code writes, not the eleven *)
(* that q6.md counts: see Offsets!SizeAsExplained.                         *)
(***************************************************************************)
FilesAsWritten == part = "offsets" => Offsets!Outcomes /\ Offsets!AssertsHold

(***************************************************************************)
(* __writev gathers, __readv scatters what was gathered, and both refuse   *)
(* exactly the calls that are too large, for buffers of at most SSIZE_MAX  *)
(* bytes each: see Vectored!RefusedExactly.                                *)
(***************************************************************************)
GatheredAndScattered ==
  part = "vectored" =>
    Vectored!WritevGathers /\ Vectored!ReadvScatters /\ Vectored!RefusedExactly

(***************************************************************************)
(* chpt7_q1 frees the blocks of the range that was typed, and no other.    *)
(***************************************************************************)
RangeFreed == part = "free_range" => FreeRange!FreesRange

(***************************************************************************)
(* __getpwnam answers the user with the name or says that there is none,   *)
(* and two getpwuid in one printf show one name twice.                     *)
(***************************************************************************)
UsersFound == part = "passwd" => Passwd!FoundOrENOENT /\ Passwd!SameNameTwice

(***************************************************************************)
(* An exercise runs with what was typed for it, and the exercises that     *)
(* have a usage text, those of chapters 4 and 5, are not refused to a      *)
(* command line that fits it, once main has found the chapter.             *)
(***************************************************************************)
DispatchedAsTyped == part = "dispatch" => Dispatch!RunsAsTyped /\ Dispatch!UsageHonoured

(***************************************************************************)
(* The error functions: a message comes out behind what the program has    *)
(* printed, nothing printed is lost, and errno shows and survives.         *)
(***************************************************************************)
MessagesInOrder ==
  part = "errors" => Errors!OutputFirst /\ Errors!NothingLost /\ Errors!ErrnoKept

(***************************************************************************)
(* The tests of __dup and of __setenv pass in exactly the processes whose  *)
(* descriptors or environment they presume.                                *)
(***************************************************************************)
TestsPassAsStarted ==
  /\ part = "dup_test" => DupTest!PassesAsStarted
  /\ part = "env_test" => EnvTest!PassesAsStarted

(***************************************************************************)
(* Every part with a loop comes to its end: tee, both copies (the sparse   *)
(* one when the source stops growing), deliver_write, __writev and         *)
(* __readv, chpt7_q1, __getpwnam, the way through the arguments, and the   *)
(* test of __dup, which runs through or aborts.                            *)
(***************************************************************************)
Ended ==
  /\ part = "tee" => Tee!Ended
  /\ part = "sparse_copy" => Sparse!Ended
  /\ part = "null_holes" => Nulls!Ended
  /\ part = "deliver_write" => Deliver!Ended
  /\ part = "vectored" => Vectored!Ended
  /\ part = "free_range" => FreeRange!Ended
  /\ part = "passwd" => Passwd!Ended
  /\ part = "dispatch" => Dispatch!Ended
  /\ part = "dup_test" => DupTest!Ended

Ends == <>Ended

=============================================================================
