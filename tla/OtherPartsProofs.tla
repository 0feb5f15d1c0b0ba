-------------------------- MODULE OtherPartsProofs --------------------------
(***************************************************************************)
(* The other parts of the program: the tests of __dup and of __setenv, the *)
(* way from the command line to an exercise, the exercises about file      *)
(* offsets, and __writev with __readv.  The invariant of each is shown to  *)
(* be inductive for its module, as ProgramProofs does for the first parts, *)
(* and at the end for Program.                                             *)
(***************************************************************************)
EXTENDS ProgramProofs

-----------------------------------------------------------------------------
(* The test of __dup and __dup2. *)

(* The descriptors that are open when the test starts to call.             *)
OpenAtStart == inherited \cup {DupTest!tmp_fd}

(* The descriptors that the calls before the n-th open, as they should be. *)
OpenedBefore(n) ==
  4 .. IF n <= 2 THEN 3 ELSE IF n <= 6 THEN n + 1 ELSE IF n = 7 THEN 7 ELSE 8

(* What the table is before the n-th call, except perhaps at fd. *)
TableBefore(n, but) ==
  /\ \A fd \in DupTest!Fds \ {but} :
       DupTest!IsOpen(fd) <=> fd \in OpenAtStart \cup OpenedBefore(n)
  /\ n <= 11 /\ DupTest!tmp_fd # but => table[DupTest!tmp_fd] = Tmp
  /\ 0 \in inherited => table[0] = Std

(* What the asserts behind the calls before the n-th say of the start. *)
ShownBefore(n) ==
  /\ n >= 3 => 0 .. 3 \subseteq OpenAtStart
  /\ n >= 3 => \A k \in 4 .. 7 : k <= n + 1 => k \notin OpenAtStart
  /\ n = 12 => 0 \in inherited

AsExpected == answer = DupTest!Script[next].expected /\ DupTest!FlagsAsAsserted

DupInv ==
  /\ inherited \in SUBSET DupTest!Fds /\ inherited # DupTest!Fds
  /\ next \in 1 .. 12
  /\ DupTest!TypeOK
  /\ pc \in {"old", "new", "close", "dupfd", "return"} =>
       next <= 11 /\ call = DupTest!Script[next].call
  /\ pc # "died" => ShownBefore(next)
  /\ pc \in {"idle", "old", "new", "close"} => TableBefore(next, -1)
  /\ pc \in {"new", "close", "dupfd"} =>
       /\ DupTest!IsOpen(call.old_fd)
       /\ call.op = "dup2" => call.old_fd # call.new_fd
  /\ pc \in {"new", "close"} => call.op = "dup2"
  /\ pc = "close" => DupTest!IsOpen(call.new_fd)
  /\ pc = "dupfd" =>
       IF call.op = "dup" THEN TableBefore(next, -1)
       ELSE TableBefore(next, call.new_fd) /\ ~DupTest!IsOpen(call.new_fd)
  /\ pc = "return" =>
       /\ AsExpected => TableBefore(next + 1, -1) /\ ShownBefore(next + 1)
       /\ DupTest!StartedAsExpected => AsExpected
  /\ pc = "died" => next <= 11 /\ ~DupTest!StartedAsExpected

(* The eleven calls and what each is expected to answer. *)
LEMMA DupScript ==
  ASSUME NEW n \in 1 .. 11
  PROVE  LET s == DupTest!Script[n] IN
           /\ s.call.op = IF n <= 5 THEN "dup" ELSE "dup2"
           /\ s.call.old_fd = IF n \in {1, 6, 10} THEN -1
                              ELSE IF n = 3 THEN 1 ELSE IF n = 4 THEN 2
                              ELSE IF n = 5 THEN DupTest!tmp_fd
                              ELSE IF n \in {8, 9} THEN 8 ELSE 0
           /\ n > 5 => s.call.new_fd = IF n \in {6, 7, 8} THEN 8
                                       ELSE IF n = 9 THEN -1
                                       ELSE DupTest!tmp_fd
           /\ s.expected = IF n \in {1, 6, 9, 10} THEN -9
                           ELSE IF n <= 5 THEN n + 2
                           ELSE IF n <= 8 THEN 8 ELSE DupTest!tmp_fd
<1>1. n \in {1, 2, 3, 4, 5, 6, 7, 8, 9, 10, 11}
  OBVIOUS
<1>2. CASE n \in {1, 2, 3, 4}
  BY <1>2 DEF DupTest!Script, DupTest!dup, DupTest!dup2, DupTest!EBADF
<1>3. CASE n \in {5, 6, 7, 8}
  BY <1>3 DEF DupTest!Script, DupTest!dup, DupTest!dup2, DupTest!EBADF
<1>4. CASE n \in {9, 10, 11}
  BY <1>4 DEF DupTest!Script, DupTest!dup, DupTest!dup2, DupTest!EBADF
<1> QED
  BY <1>1, <1>2, <1>3, <1>4

(* The test of __dup makes eleven calls. *)
LEMMA DupScriptLen == Len(DupTest!Script) = 11
BY DEF DupTest!Script, DupTest!dup, DupTest!dup2

(* open gave the temporary file the lowest number that was free. *)
LEMMA TmpFd ==
  ASSUME inherited \in SUBSET DupTest!Fds, inherited # DupTest!Fds
  PROVE  /\ DupTest!tmp_fd \in DupTest!Fds \ inherited
         /\ \A k \in DupTest!Fds : k < DupTest!tmp_fd => k \in inherited
<1>1. MaxFd \in Nat
  BY ConstantsAssumption DEF DupTest!TestConstantsOK
<1>2. PICK n : n \in DupTest!Fds \ inherited
  OBVIOUS
<1>3. DupTest!Fds \ inherited \in SUBSET Nat
  BY <1>1 DEF DupTest!Fds
<1>4. PICK m \in DupTest!Fds \ inherited :
        \A k \in DupTest!Fds \ inherited : m <= k
  BY <1>2, <1>3, LeastNat
<1>5. \A k \in DupTest!Fds : k < m => k \in inherited
  BY <1>1, <1>3, <1>4 DEF DupTest!Fds
<1> QED
  BY <1>4, <1>5 DEF DupTest!tmp_fd

(* The test starts with the descriptors it inherits and the temporary file. *)
LEMMA DupInit == DupTest!TestInit => DupInv
<1> SUFFICES ASSUME DupTest!TestInit
             PROVE  DupInv
  OBVIOUS
<1> USE DEF DupTest!TestInit
<1>1. /\ Files = {Std, Tmp} /\ Std # Tmp /\ "closed" \notin Files
      /\ MaxFd \in Nat /\ MaxFd >= 8
  BY ConstantsAssumption DEF DupTest!TestConstantsOK
<1>2. /\ DupTest!tmp_fd \in DupTest!Fds \ inherited
      /\ \A k \in DupTest!Fds : k < DupTest!tmp_fd => k \in inherited
  BY TmpFd
<1>3. DupTest!TypeOK
  BY <1>1 DEF DupTest!TypeOK, DupTest!Closed, DupTest!NoAnswer, DupTest!Idle,
              DupTest!Fds
<1>4. TableBefore(1, -1)
  BY <1>1, <1>2 DEF TableBefore, DupTest!IsOpen, DupTest!Closed, OpenAtStart,
                    OpenedBefore, DupTest!Fds
<1>5. ShownBefore(1)
  BY DEF ShownBefore
<1> QED
  BY <1>3, <1>4, <1>5 DEF DupInv

(* What the steps below use of the constants, the script and the start. *)
LEMMA DupFacts ==
  ASSUME DupInv
  PROVE  /\ Files = {Std, Tmp} /\ Std # Tmp /\ "closed" \notin Files
         /\ "nothing" \notin Files
         /\ MaxFd \in Nat /\ MaxFd >= 8 /\ DupTest!Fds = 0 .. MaxFd
         /\ DupTest!tmp_fd \in DupTest!Fds
         /\ DupTest!tmp_fd \notin inherited
         /\ \A k \in DupTest!Fds : k < DupTest!tmp_fd => k \in inherited
         /\ next >= 3 /\ pc # "died" =>
              DupTest!tmp_fd \in 0 .. 3 /\ 0 .. 3 \subseteq OpenAtStart
         /\ inherited \subseteq DupTest!Fds
         /\ \A k \in OpenAtStart : k = DupTest!tmp_fd \/ k \in inherited
         /\ \A fd : DupTest!IsOpen(fd) <=> fd \in 0 .. MaxFd /\ table[fd] # "closed"
<1>1. /\ Files = {Std, Tmp} /\ Std # Tmp /\ "closed" \notin Files
      /\ "nothing" \notin Files
      /\ MaxFd \in Nat /\ MaxFd >= 8 /\ DupTest!Fds = 0 .. MaxFd
  BY ConstantsAssumption DEF DupTest!TestConstantsOK, DupTest!Fds
<1>2. /\ inherited \in SUBSET DupTest!Fds /\ inherited # DupTest!Fds
      /\ DupTest!tmp_fd \in DupTest!Fds \ inherited
      /\ \A k \in DupTest!Fds : k < DupTest!tmp_fd => k \in inherited
  BY TmpFd DEF DupInv
<1>3. ASSUME next >= 3, pc # "died"
      PROVE  DupTest!tmp_fd \in 0 .. 3 /\ 0 .. 3 \subseteq OpenAtStart
  <2>1. 0 .. 3 \subseteq OpenAtStart /\ 4 \notin OpenAtStart
    BY <1>3 DEF DupInv, ShownBefore
  <2> QED
    BY <1>1, <1>2, <2>1 DEF OpenAtStart
<1> QED
  BY <1>1, <1>2, <1>3 DEF OpenAtStart, DupTest!IsOpen, DupTest!Closed

(* A call begins. *)
LEMMA DupCall == DupInv /\ DupTest!TestCall => DupInv'
<1> SUFFICES ASSUME DupInv, DupTest!TestCall
             PROVE  DupInv'
  OBVIOUS
<1>1. /\ pc = "idle" /\ next <= 11 /\ pc' = "old" /\ next' = next
      /\ inherited' = inherited /\ table' = table /\ lost' = lost
      /\ call' = DupTest!Script[next].call
      /\ answer' = -99 /\ got' = -99 /\ raced' = FALSE /\ taken' = FALSE
  BY DupScriptLen DEF DupTest!TestCall, DupTest!Call, DupTest!NoAnswer
<1>2. next \in 1 .. 11
  BY <1>1 DEF DupInv
<1>3. call' \in DupTest!Calls
  <2>1. MaxFd \in Nat /\ MaxFd >= 8 /\ DupTest!tmp_fd \in 0 .. MaxFd
    BY DupFacts
  <2>2. DupTest!Script[next].call \in
          [op : {"dup"}, old_fd : DupTest!Numbers]
            \cup [op : {"dup2"}, old_fd : DupTest!Numbers, new_fd : DupTest!Numbers]
    <3>1. next \in {1, 2, 3, 4, 5, 6, 7, 8, 9, 10, 11}
      BY <1>2
    <3>2. CASE next \in {1, 2, 3, 4, 5}
      BY <2>1, <3>2 DEF DupTest!Script, DupTest!dup, DupTest!dup2, DupTest!Numbers
    <3>3. CASE next \in {6, 7, 8}
      BY <2>1, <3>3 DEF DupTest!Script, DupTest!dup, DupTest!dup2, DupTest!Numbers
    <3>4. CASE next \in {9, 10, 11}
      BY <2>1, <3>4 DEF DupTest!Script, DupTest!dup, DupTest!dup2, DupTest!Numbers
    <3> QED
      BY <3>1, <3>2, <3>3, <3>4
  <2> QED
    BY <1>1, <2>2 DEF DupTest!Calls
<1>4. DupTest!TypeOK'
  BY <1>1, <1>3 DEF DupInv, DupTest!TypeOK, DupTest!NoAnswer
<1>5. TableBefore(next, -1)' /\ ShownBefore(next)'
  BY <1>1 DEF DupInv, TableBefore, ShownBefore, OpenAtStart, DupTest!IsOpen,
              OpenedBefore, DupTest!tmp_fd
<1>6. call' = (DupTest!Script[next].call)'
  BY <1>1 DEF DupTest!Script, DupTest!tmp_fd, DupTest!dup, DupTest!dup2
<1>7. inherited' \in SUBSET DupTest!Fds /\ inherited' # DupTest!Fds
      /\ next' \in 1 .. 12
  BY <1>1 DEF DupInv
<1> QED
  BY <1>1, <1>2, <1>4, <1>5, <1>6, <1>7 DEF DupInv

(* Within a call the start and the script stay. *)
LEMMA DupSame ==
  ASSUME UNCHANGED <<inherited, next>>
  PROVE  /\ DupTest!tmp_fd' = DupTest!tmp_fd
         /\ DupTest!Script' = DupTest!Script
         /\ OpenAtStart' = OpenAtStart
         /\ \A n : ShownBefore(n)' <=> ShownBefore(n)
         /\ DupTest!StartedAsExpected' <=> DupTest!StartedAsExpected
         /\ table' = table =>
              /\ \A n, but : TableBefore(n, but)' <=> TableBefore(n, but)
              /\ \A fd : DupTest!IsOpen(fd)' <=> DupTest!IsOpen(fd)
              /\ DupTest!FlagsAsAsserted' <=> DupTest!FlagsAsAsserted
<1>1. DupTest!tmp_fd' = DupTest!tmp_fd
  BY DEF DupTest!tmp_fd
<1>2. DupTest!Script' = DupTest!Script
  BY <1>1 DEF DupTest!Script, DupTest!dup, DupTest!dup2
<1>3. OpenAtStart' = OpenAtStart
  BY <1>1 DEF OpenAtStart
<1>4. \A n : ShownBefore(n)' <=> ShownBefore(n)
  BY <1>3 DEF ShownBefore
<1>5. DupTest!StartedAsExpected' <=> DupTest!StartedAsExpected
  BY <1>1 DEF DupTest!StartedAsExpected
<1>6. ASSUME table' = table
      PROVE  /\ \A n, but : TableBefore(n, but)' <=> TableBefore(n, but)
             /\ \A fd : DupTest!IsOpen(fd)' <=> DupTest!IsOpen(fd)
             /\ DupTest!FlagsAsAsserted' <=> DupTest!FlagsAsAsserted
  <2>1. \A fd : DupTest!IsOpen(fd)' <=> DupTest!IsOpen(fd)
    BY <1>6 DEF DupTest!IsOpen
  <2> QED
    BY <1>1, <1>2, <1>3, <1>6, <2>1
       DEF TableBefore, OpenedBefore, DupTest!FlagsAsAsserted
<1> QED
  BY <1>1, <1>2, <1>3, <1>4, <1>5, <1>6

(* A process that is started as expected has the descriptors 0 to 3 open  *)
(* and none of the next four.                                             *)
LEMMA DupStarted ==
  ASSUME DupInv, DupTest!StartedAsExpected
  PROVE  /\ 0 \in inherited /\ DupTest!tmp_fd \in 1 .. 3
         /\ 0 .. 3 \subseteq OpenAtStart
         /\ \A k \in 4 .. 7 : k \notin OpenAtStart
<1>1. /\ 0 \in inherited /\ OpenAtStart \cap 0 .. 7 = 0 .. 3
      /\ DupTest!tmp_fd \in OpenAtStart
  BY DEF DupTest!StartedAsExpected, OpenAtStart
<1>2. 0 .. 3 \subseteq OpenAtStart /\ \A k \in 4 .. 7 : k \notin OpenAtStart
  <2>1. \A k \in 4 .. 7 : k \in 0 .. 7 /\ k \notin 0 .. 3
    OBVIOUS
  <2> QED
    BY <1>1, <2>1
<1>3. /\ DupTest!tmp_fd \in Nat /\ DupTest!tmp_fd # 0
      /\ 4 \notin OpenAtStart /\ 4 \in DupTest!Fds
      /\ DupTest!tmp_fd > 4 => 4 \in inherited
  BY <1>1, <1>2, DupFacts
<1>4. DupTest!tmp_fd \notin 4 .. 7
  BY <1>1, <1>2
<1> QED
  BY <1>1, <1>2, <1>3, <1>4 DEF OpenAtStart

(* A call returns: what is left to show. *)
LEMMA DupReturns ==
  ASSUME DupInv, pc \in {"old", "dupfd"}, pc' = "return",
         UNCHANGED <<call, raced, taken, inherited, next>>,
         table' \in [DupTest!Fds -> Files \cup {"closed"}],
         answer' \in DupTest!Fds \cup {-9, -24},
         got' \in DupTest!Fds \cup {-99}, lost' \in Files \cup {"nothing"},
         AsExpected' => TableBefore(next + 1, -1)' /\ ShownBefore(next + 1),
         DupTest!StartedAsExpected => AsExpected'
  PROVE  DupInv'
<1>1. DupTest!TypeOK'
  BY DEF DupInv, DupTest!TypeOK, DupTest!Closed, DupTest!NoAnswer,
         DupTest!EBADF, DupTest!EMFILE, DupTest!Idle, DupTest!Fds
<1>2. /\ ShownBefore(next)'
      /\ ShownBefore(next + 1)' <=> ShownBefore(next + 1)
      /\ DupTest!StartedAsExpected' <=> DupTest!StartedAsExpected
      /\ call' = (DupTest!Script[next].call)' /\ next <= 11
  BY DupSame DEF DupInv
<1>3. /\ inherited' \in SUBSET DupTest!Fds /\ inherited' # DupTest!Fds
      /\ next' \in 1 .. 12 /\ next' <= 11
  BY <1>2 DEF DupInv
<1>4. /\ AsExpected' => TableBefore(next + 1, -1)' /\ ShownBefore(next + 1)'
      /\ DupTest!StartedAsExpected' => AsExpected'
  BY <1>2
<1>5. pc' \in {"old", "new", "close", "dupfd", "return"} =>
        next' <= 11 /\ call' = (DupTest!Script[next].call)'
  BY <1>2, <1>3
<1>6. pc' = "return" =>
        /\ AsExpected' => TableBefore(next + 1, -1)' /\ ShownBefore(next + 1)'
        /\ DupTest!StartedAsExpected' => AsExpected'
  BY <1>4
<1> QED
  BY <1>1, <1>2, <1>3, <1>5, <1>6 DEF DupInv

(* F_GETFD on old_fd. *)
LEMMA DupCheckOld ==
  DupInv /\ DupTest!CheckOld /\ UNCHANGED <<inherited, next>> => DupInv'
<1> SUFFICES ASSUME DupInv, DupTest!CheckOld, UNCHANGED <<inherited, next>>
             PROVE  DupInv'
  OBVIOUS
<1>1. /\ pc = "old" /\ UNCHANGED <<table, call, got, lost, raced, taken>>
      /\ next \in 1 .. 11 /\ call = DupTest!Script[next].call
      /\ TableBefore(next, -1) /\ ShownBefore(next) /\ DupTest!TypeOK
  BY DEF DupInv, DupTest!CheckOld
<1>2. DupTest!EBADF = -9
  BY DEF DupTest!EBADF
<1>3. table \in [DupTest!Fds -> Files \cup {"closed"}]
      /\ got \in DupTest!Fds \cup {-99} /\ lost \in Files \cup {"nothing"}
  BY <1>1 DEF DupTest!TypeOK, DupTest!NoAnswer, DupTest!Closed
<1>4. CASE ~DupTest!IsOpen(call.old_fd)
  <2>1. pc' = "return" /\ answer' = -9
    BY <1>2, <1>4 DEF DupTest!CheckOld, DupTest!Answer
  <2>2. CASE next \in {1, 6, 10}
    <3>1. DupTest!Script[next].expected = -9
      BY <1>1, <2>2, DupScript
    <3>2. DupTest!FlagsAsAsserted
      BY <1>1, <2>2, DupScriptLen, DupFacts DEF DupTest!FlagsAsAsserted, TableBefore
    <3>3. AsExpected'
      BY <1>1, <2>1, <3>1, <3>2, DupSame DEF AsExpected
    <3>4. TableBefore(next + 1, -1)
      BY <1>1, <2>2 DEF TableBefore, OpenedBefore
    <3>5. ShownBefore(next + 1)
      BY <1>1, <2>2 DEF ShownBefore
    <3> QED
      BY <1>1, <1>3, <2>1, <3>3, <3>4, <3>5, DupSame, DupReturns
  <2>3. next # 9
    <3>1. next = 9 => call.old_fd = 8 /\ 8 \in OpenedBefore(next) /\ 8 \in DupTest!Fds
      BY <1>1, DupScript, DupFacts DEF OpenedBefore
    <3> QED
      BY <1>1, <1>4, <3>1 DEF TableBefore
  <2>4. CASE next \notin {1, 6, 10}
    <3>1. DupTest!Script[next].expected # -9
      BY <1>1, <2>3, <2>4, DupScript, DupFacts
    <3>2. ~AsExpected'
      BY <1>1, <2>1, <3>1, DupSame DEF AsExpected
    <3>3. ASSUME DupTest!StartedAsExpected
          PROVE  FALSE
      <4>1. call.old_fd \in DupTest!Fds
        BY <1>1, <2>4, DupScript, DupFacts
      <4>2. call.old_fd \in OpenAtStart \cup OpenedBefore(next)
        BY <1>1, <2>4, <3>3, DupScript, DupFacts, DupStarted
           DEF OpenedBefore, OpenAtStart
      <4>3. call.old_fd # -1
        BY <4>1, DupFacts
      <4> QED
        BY <1>1, <1>4, <4>1, <4>2, <4>3 DEF TableBefore
    <3> QED
      BY <1>1, <1>3, <2>1, <3>2, <3>3, DupReturns
  <2> QED
    BY <2>2, <2>4
<1>5. CASE /\ DupTest!IsOpen(call.old_fd)
           /\ call.op = "dup2" /\ call.old_fd = call.new_fd
  <2>1. pc' = "return" /\ answer' = call.old_fd
    BY <1>5 DEF DupTest!CheckOld, DupTest!Answer
  <2>2. next = 8 \/ (next = 11 /\ DupTest!tmp_fd = 0)
    BY <1>1, <1>5, DupScript, DupFacts
  <2>3. CASE next = 8
    <3>1. AsExpected'
      BY <1>1, <2>1, <2>3, DupSame, DupScript, DupScriptLen
         DEF AsExpected, DupTest!FlagsAsAsserted
    <3>2. TableBefore(next + 1, -1) /\ ShownBefore(next + 1)
      BY <1>1, <2>3 DEF TableBefore, ShownBefore, OpenedBefore
    <3>3. answer' \in DupTest!Fds
      BY <1>1, <2>1, <2>3, DupScript, DupFacts
    <3> QED
      BY <1>1, <1>3, <2>1, <3>1, <3>2, <3>3, DupSame, DupReturns
  <2>4. CASE next = 11 /\ DupTest!tmp_fd = 0
    <3>1. table[DupTest!tmp_fd] = Tmp
      BY <1>1, <2>4 DEF TableBefore
    <3>2. ~AsExpected'
      BY <1>1, <2>4, <3>1, DupSame, DupScriptLen
         DEF AsExpected, DupTest!FlagsAsAsserted
    <3>3. ~DupTest!StartedAsExpected
      BY <2>4, DupStarted
    <3>4. answer' \in DupTest!Fds
      BY <1>1, <2>1, <2>4, DupScript, DupFacts
    <3> QED
      BY <1>1, <1>3, <2>1, <3>2, <3>3, <3>4, DupReturns
  <2> QED
    BY <2>2, <2>3, <2>4
<1>6. CASE /\ DupTest!IsOpen(call.old_fd)
           /\ ~(call.op = "dup2" /\ call.old_fd = call.new_fd)
  <2>1. answer' = answer /\ pc' = IF call.op = "dup" THEN "dupfd" ELSE "new"
    BY <1>6 DEF DupTest!CheckOld
  <2>2. call.op = IF next <= 5 THEN "dup" ELSE "dup2"
    BY <1>1, DupScript
  <2>3. DupTest!TypeOK'
    BY <1>1, <2>1 DEF DupTest!TypeOK
  <2>4. /\ TableBefore(next, -1)' /\ ShownBefore(next)'
        /\ DupTest!IsOpen(call.old_fd)' /\ call' = (DupTest!Script[next].call)'
    BY <1>1, <1>6, DupSame
  <2>5. inherited' \in SUBSET DupTest!Fds /\ inherited' # DupTest!Fds
    BY DEF DupInv
  <2>6. CASE call.op = "dup"
    BY <1>1, <2>1, <2>3, <2>4, <2>5, <2>6 DEF DupInv
  <2>7. CASE call.op = "dup2"
    BY <1>1, <1>6, <2>1, <2>3, <2>4, <2>5, <2>7 DEF DupInv
  <2> QED
    BY <2>2, <2>6, <2>7
<1> QED
  BY <1>4, <1>5, <1>6

(* F_GETFD on new_fd. *)
LEMMA DupCheckNew ==
  DupInv /\ DupTest!CheckNew /\ UNCHANGED <<inherited, next>> => DupInv'
<1> SUFFICES ASSUME DupInv, DupTest!CheckNew, UNCHANGED <<inherited, next>>
             PROVE  DupInv'
  OBVIOUS
<1>1. /\ pc = "new"
      /\ pc' = IF DupTest!IsOpen(call.new_fd) THEN "close" ELSE "dupfd"
      /\ UNCHANGED <<table, call, answer, got, lost, raced, taken>>
      /\ TableBefore(next, -1) /\ call.op = "dup2" /\ next <= 11
      /\ DupTest!IsOpen(call.old_fd) /\ call.old_fd # call.new_fd
      /\ call = DupTest!Script[next].call
  BY DEF DupInv, DupTest!CheckNew
<1>2. DupTest!TypeOK'
  BY <1>1 DEF DupInv, DupTest!TypeOK
<1>3. /\ TableBefore(next, -1)' /\ ShownBefore(next)'
      /\ DupTest!IsOpen(call.old_fd)' /\ call' = (DupTest!Script[next].call)'
      /\ DupTest!IsOpen(call.new_fd)' <=> DupTest!IsOpen(call.new_fd)
      /\ inherited' \in SUBSET DupTest!Fds /\ inherited' # DupTest!Fds
  BY <1>1, DupSame DEF DupInv
<1>4. TableBefore(next, -1) /\ ~DupTest!IsOpen(call.new_fd)
        => TableBefore(next, call.new_fd)
  BY <1>1, DupFacts DEF TableBefore
<1>5. CASE DupTest!IsOpen(call.new_fd)
  BY <1>1, <1>2, <1>3, <1>5 DEF DupInv
<1>6. CASE ~DupTest!IsOpen(call.new_fd)
  <2>1. TableBefore(next, call.new_fd)'
    BY <1>1, <1>4, <1>6, DupSame
  <2> QED
    BY <1>1, <1>2, <1>3, <1>6, <2>1 DEF DupInv
<1> QED
  BY <1>5, <1>6

(* new_fd is closed: the table is as before, except there. *)
LEMMA DupClose ==
  DupInv /\ DupTest!Close /\ UNCHANGED <<inherited, next>> => DupInv'
<1> SUFFICES ASSUME DupInv, DupTest!Close, UNCHANGED <<inherited, next>>
             PROVE  DupInv'
  OBVIOUS
<1>1. /\ pc = "close" /\ pc' = "dupfd"
      /\ table' = [table EXCEPT ![call.new_fd] = "closed"]
      /\ lost' = IF DupTest!IsOpen(call.new_fd) THEN table[call.new_fd] ELSE lost
      /\ UNCHANGED <<call, answer, got, raced, taken>>
      /\ TableBefore(next, -1) /\ call.op = "dup2" /\ next \in 1 .. 11
      /\ DupTest!IsOpen(call.old_fd) /\ call.old_fd # call.new_fd
      /\ DupTest!IsOpen(call.new_fd)
      /\ call = DupTest!Script[next].call
  BY DEF DupInv, DupTest!Close, DupTest!Closed
<1>2. /\ table \in [0 .. MaxFd -> Files \cup {"closed"}]
      /\ call.new_fd \in 0 .. MaxFd /\ table[call.new_fd] \in Files
  BY <1>1, DupFacts DEF DupInv, DupTest!TypeOK, DupTest!Closed
<1>3. /\ \A fd \in 0 .. MaxFd :
           table'[fd] = IF fd = call.new_fd THEN "closed" ELSE table[fd]
      /\ table' \in [0 .. MaxFd -> Files \cup {"closed"}]
      /\ lost' \in Files
  BY <1>1, <1>2
<1>4. DupTest!TypeOK'
  BY <1>1, <1>3, DupFacts DEF DupInv, DupTest!TypeOK, DupTest!Closed
<1>5. /\ ~DupTest!IsOpen(call.new_fd)' /\ DupTest!IsOpen(call.old_fd)'
      /\ \A fd \in 0 .. MaxFd : fd # call.new_fd =>
           (DupTest!IsOpen(fd)' <=> DupTest!IsOpen(fd))
  BY <1>1, <1>2, <1>3, DupFacts DEF DupTest!IsOpen, DupTest!Closed
<1>6. call.new_fd # 0
  BY <1>1, DupScript, DupFacts
<1>7. TableBefore(next, call.new_fd)'
  <2>1. /\ \A fd \in DupTest!Fds \ {call.new_fd} :
             DupTest!IsOpen(fd) <=> fd \in OpenAtStart \cup OpenedBefore(next)
        /\ next <= 11 /\ DupTest!tmp_fd # call.new_fd => table[DupTest!tmp_fd] = Tmp
        /\ 0 \in inherited => table[0] = Std
    BY <1>1, DupFacts DEF TableBefore
  <2>2. \A n : OpenedBefore(n)' = OpenedBefore(n)
    BY DEF OpenedBefore
  <2> QED
    BY <1>1, <1>3, <1>5, <1>6, <2>1, <2>2, DupSame, DupFacts DEF TableBefore
<1>8. ShownBefore(next)' /\ call' = (DupTest!Script[next].call)'
  BY <1>1, DupSame DEF DupInv
<1>9. inherited' \in SUBSET DupTest!Fds /\ inherited' # DupTest!Fds
  BY DEF DupInv
<1> QED
  BY <1>1, <1>4, <1>5, <1>7, <1>8, <1>9 DEF DupInv

(* The calls that get as far as F_DUPFD. *)
LEMMA DupAtDupFd ==
  ASSUME DupInv, pc = "dupfd"
  PROVE  /\ next \in {2, 3, 4, 5, 7, 9, 11}
         /\ call = DupTest!Script[next].call
         /\ call.op = IF next <= 5 THEN "dup" ELSE "dup2"
         /\ next > 5 => call.new_fd = IF next = 7 THEN 8
                                      ELSE IF next = 9 THEN -1
                                      ELSE DupTest!tmp_fd
         /\ call.old_fd \in DupTest!Fds /\ DupTest!IsOpen(call.old_fd)
         /\ next = 11 => call.old_fd = 0 /\ DupTest!tmp_fd # 0
         /\ DupTest!From = IF next <= 5 THEN 0 ELSE call.new_fd
         /\ table \in [0 .. MaxFd -> Files \cup {"closed"}]
<1>1. /\ next \in 1 .. 11 /\ call = DupTest!Script[next].call
      /\ DupTest!IsOpen(call.old_fd)
      /\ call.op = "dup2" => call.old_fd # call.new_fd
  BY DEF DupInv
<1>2. call.old_fd \in DupTest!Fds
  BY <1>1 DEF DupTest!IsOpen
<1>3. next \notin {1, 6, 10}
  BY <1>1, <1>2, DupScript, DupFacts
<1>4. next # 8
  BY <1>1, DupScript
<1>5. /\ call.op = IF next <= 5 THEN "dup" ELSE "dup2"
      /\ next > 5 => call.new_fd = IF next \in {6, 7, 8} THEN 8
                                   ELSE IF next = 9 THEN -1
                                   ELSE DupTest!tmp_fd
      /\ next = 11 => call.old_fd = 0
  BY <1>1, DupScript
<1>6. table \in [0 .. MaxFd -> Files \cup {"closed"}]
  BY DupFacts DEF DupInv, DupTest!TypeOK, DupTest!Closed
<1> QED
  BY <1>1, <1>2, <1>3, <1>4, <1>5, <1>6 DEF DupTest!From

(* F_DUPFD: it takes the lowest free number, which the open descriptors of *)
(* the process decide for __dup; __dup2 has made room at new_fd.           *)
LEMMA DupDupFd ==
  DupInv /\ DupTest!DupFd /\ UNCHANGED <<inherited, next>> => DupInv'
<1> SUFFICES ASSUME DupInv, DupTest!DupFd, UNCHANGED <<inherited, next>>
             PROVE  DupInv'
  OBVIOUS
<1>1. /\ pc = "dupfd" /\ pc' = "return" /\ lost' = "nothing"
      /\ table' = [table EXCEPT ![got'] = table[call.old_fd]]
      /\ DupTest!From \in DupTest!Fds
      /\ UNCHANGED <<call, raced, taken>>
      /\ got' \in DupTest!Fds /\ DupTest!From <= got' /\ table[got'] = "closed"
      /\ \A k \in DupTest!Fds :
           DupTest!From <= k /\ k < got' => table[k] # "closed"
      /\ answer' = IF call.op = "dup" THEN got' ELSE call.new_fd
  BY DEF DupTest!DupFd, DupTest!Answer, DupTest!LowestFree, DupTest!Closed
<1>2. /\ next \in {2, 3, 4, 5, 7, 11}
      /\ call = DupTest!Script[next].call
      /\ call.op = IF next <= 5 THEN "dup" ELSE "dup2"
      /\ next > 5 => call.new_fd = IF next = 7 THEN 8 ELSE DupTest!tmp_fd
      /\ call.old_fd \in DupTest!Fds /\ DupTest!IsOpen(call.old_fd)
      /\ next = 11 => call.old_fd = 0 /\ DupTest!tmp_fd # 0
      /\ DupTest!From = IF next <= 5 THEN 0 ELSE call.new_fd
      /\ table \in [0 .. MaxFd -> Files \cup {"closed"}]
  BY <1>1, DupAtDupFd, DupFacts
<1>3. /\ \A fd \in 0 .. MaxFd :
           table'[fd] = IF fd = got' THEN table[call.old_fd] ELSE table[fd]
      /\ table' \in [DupTest!Fds -> Files \cup {"closed"}]
      /\ \A fd \in 0 .. MaxFd :
           DupTest!IsOpen(fd)' <=> fd = got' \/ DupTest!IsOpen(fd)
      /\ \A fd \in 0 .. MaxFd : DupTest!IsOpen(fd) <=> table[fd] # "closed"
  BY <1>1, <1>2, DupFacts DEF DupTest!IsOpen, DupTest!Closed
<1>4. answer' \in DupTest!Fds
  BY <1>1, <1>2, DupFacts
<1>5. DupTest!Script[next].expected =
        IF next <= 5 THEN next + 2 ELSE IF next = 7 THEN 8 ELSE DupTest!tmp_fd
  BY <1>2, DupScript
<1>6. \A n : OpenedBefore(n)' = OpenedBefore(n)
  BY DEF OpenedBefore
<1>7. CASE next \in {2, 3, 4, 5}
  <2>1. /\ TableBefore(next, -1) /\ ShownBefore(next)
        /\ answer' = got' /\ DupTest!From = 0
    BY <1>1, <1>2, <1>7 DEF DupInv
  <2>2. \A fd \in DupTest!Fds :
          DupTest!IsOpen(fd) <=> fd \in OpenAtStart \cup OpenedBefore(next)
    BY <2>1, DupFacts DEF TableBefore
  <2>3. AsExpected' <=> got' = next + 2
    BY <1>5, <1>7, <2>1, DupSame, DupScriptLen
       DEF AsExpected, DupTest!FlagsAsAsserted
  <2>4. ASSUME got' = next + 2
        PROVE  TableBefore(next + 1, -1)' /\ ShownBefore(next + 1)
    <3>1. OpenedBefore(next + 1) = OpenedBefore(next) \cup {got'}
      BY <1>7, <2>4 DEF OpenedBefore
    <3>2. /\ table[DupTest!tmp_fd] = Tmp
          /\ 0 \in inherited => table[0] = Std
      BY <1>7, <2>1, DupFacts DEF TableBefore
    <3>3. TableBefore(next + 1, -1)'
      <4>1. \A fd \in DupTest!Fds :
              DupTest!IsOpen(fd)' <=> fd \in OpenAtStart \cup OpenedBefore(next + 1)
        BY <1>3, <2>2, <3>1, DupFacts
      <4>2. DupTest!tmp_fd # got' /\ 0 # got'
        BY <1>1, <2>4, <1>7, <3>2, DupFacts
      <4>3. table'[DupTest!tmp_fd] = Tmp /\ (0 \in inherited => table'[0] = Std)
        BY <1>3, <3>2, <4>2, DupFacts
      <4> QED
        BY <1>6, <4>1, <4>3, DupSame DEF TableBefore
    <3>4. \A k \in 0 .. 3 : k \in OpenAtStart
      <4>1. \A k \in 0 .. 3 : k \in DupTest!Fds /\ k < got' /\ k \notin OpenedBefore(next)
        BY <1>7, <2>4, DupFacts DEF OpenedBefore
      <4> QED
        BY <1>1, <1>3, <2>1, <2>2, <4>1, DupFacts
    <3>5. next + 2 \notin OpenAtStart
      BY <1>1, <1>3, <2>2, <2>4, DupFacts
    <3>6. \A k \in 4 .. 7 : k <= next + 2 => k \notin OpenAtStart
      BY <1>7, <2>1, <3>5 DEF ShownBefore
    <3> QED
      BY <1>7, <3>3, <3>4, <3>6 DEF ShownBefore
  <2>5. ASSUME DupTest!StartedAsExpected
        PROVE  got' = next + 2
    <3>1. \A k \in 0 .. next + 1 : k \in OpenAtStart \cup OpenedBefore(next)
      BY <1>7, <2>5, DupStarted DEF OpenedBefore
    <3>2. /\ next + 2 \in DupTest!Fds
          /\ next + 2 \notin OpenAtStart \cup OpenedBefore(next)
      BY <1>7, <2>5, DupStarted, DupFacts DEF OpenedBefore
    <3>3. ~(got' < next + 2)
      BY <1>1, <1>3, <1>7, <2>2, <3>1, DupFacts
    <3>4. ~(next + 2 < got')
      BY <1>1, <1>3, <1>7, <2>1, <2>2, <3>2, DupFacts
    <3> QED
      BY <1>1, <1>7, <3>3, <3>4, DupFacts
  <2> QED
    BY <1>1, <1>3, <1>4, <2>3, <2>4, <2>5, DupReturns
<1>8. CASE next \in {7, 11}
  <2>1. /\ TableBefore(next, call.new_fd) /\ ~DupTest!IsOpen(call.new_fd)
        /\ call.op = "dup2" /\ answer' = call.new_fd /\ ShownBefore(next)
    BY <1>1, <1>2, <1>8 DEF DupInv
  <2>2. got' = call.new_fd
    BY <1>1, <1>2, <1>3, <1>8, <2>1, DupFacts
  <2>3. next = 7 => DupTest!tmp_fd # 8 /\ DupTest!tmp_fd \in 0 .. 3
    BY <2>1, DupFacts, <1>1
  <2>4. /\ call.new_fd # 0
        /\ next = 7 => table[DupTest!tmp_fd] = Tmp
        /\ 0 \in inherited => table[0] = Std
    BY <1>2, <1>8, <2>1, <2>3, DupFacts DEF TableBefore
  <2>5. /\ OpenedBefore(next + 1) = OpenedBefore(next) \cup {8}
        /\ next = 11 => 8 \in OpenedBefore(next)
    BY <1>8 DEF OpenedBefore
  <2>6. call.new_fd \in OpenAtStart \cup {8}
    BY <1>2, <1>8 DEF OpenAtStart
  <2>7. \A fd \in DupTest!Fds :
          DupTest!IsOpen(fd)' <=> fd \in OpenAtStart \cup OpenedBefore(next + 1)
    <3>1. \A fd \in DupTest!Fds : fd # call.new_fd =>
            (DupTest!IsOpen(fd) <=> fd \in OpenAtStart \cup OpenedBefore(next))
      BY <2>1 DEF TableBefore
    <3>2. call.new_fd # 8 => 8 \in OpenedBefore(next)
      BY <1>2, <1>8, <2>5
    <3> QED
      BY <1>3, <2>2, <2>5, <2>6, <3>1, <3>2, DupFacts
  <2>8. TableBefore(next + 1, -1)'
    <3>1. 0 \in inherited => table'[0] = Std
      BY <1>3, <2>2, <2>4, DupFacts
    <3>2. next = 7 => table'[DupTest!tmp_fd] = Tmp
      BY <1>2, <1>3, <2>2, <2>3, <2>4, DupFacts
    <3>3. next = 7 \/ ~(next + 1 <= 11)
      BY <1>8
    <3> QED
      BY <1>6, <2>7, <3>1, <3>2, <3>3, DupSame DEF TableBefore
  <2>9. ShownBefore(next + 1)
    <3>1. next = 11 => 0 \in inherited
      BY <1>1, <1>2, DupFacts DEF OpenAtStart
    <3> QED
      BY <1>8, <2>1, <3>1 DEF ShownBefore
  <2>10. AsExpected'
    <3>1. next = 11 => table'[DupTest!tmp_fd] # Tmp
      <4>1. next = 11 => 0 \in inherited
        BY <1>1, <1>2, DupFacts DEF OpenAtStart
      <4> QED
        BY <1>2, <1>3, <2>2, <2>4, <4>1, DupFacts
    <3>2. answer' = (DupTest!Script[next].expected)'
      BY <1>2, <1>5, <1>8, <2>1, DupSame
    <3>3. /\ Len(DupTest!Script)' = 11 /\ DupTest!tmp_fd' = DupTest!tmp_fd
          /\ next' = next /\ next \in {7, 11}
      BY <1>8, DupSame, DupScriptLen
    <3>4. DupTest!FlagsAsAsserted'
      BY <3>1, <3>3 DEF DupTest!FlagsAsAsserted
    <3> QED
      BY <3>2, <3>4 DEF AsExpected
  <2> QED
    BY <1>1, <1>3, <1>4, <2>8, <2>9, <2>10, DupReturns
<1> QED
  BY <1>2, <1>7, <1>8

(* No number is free from From on: __dup answers EMFILE, which no assert   *)
(* expects, or -1 is no number to start from, which the ninth call does.   *)
LEMMA DupFails ==
  DupInv /\ DupTest!DupFdFails /\ UNCHANGED <<inherited, next>> => DupInv'
<1> SUFFICES ASSUME DupInv, DupTest!DupFdFails, UNCHANGED <<inherited, next>>
             PROVE  DupInv'
  OBVIOUS
<1>1. /\ pc = "dupfd" /\ UNCHANGED <<table, call, got, lost, raced, taken>>
      /\ \/ ~DupTest!IsOpen(call.old_fd)
         \/ DupTest!From \notin DupTest!Fds /\ pc' = "return" /\ answer' = -9
         \/ /\ DupTest!From \in DupTest!Fds
            /\ \A fd \in DupTest!Fds :
                 /\ DupTest!From <= fd /\ table[fd] = "closed"
                 => \E k \in DupTest!Fds :
                      DupTest!From <= k /\ k < fd /\ table[k] = "closed"
            /\ call.op = "dup" => pc' = "return" /\ answer' = -24
  BY DEF DupTest!DupFdFails, DupTest!LowestFree, DupTest!Answer, DupTest!Closed,
         DupTest!EBADF, DupTest!EMFILE, DupTest!BadNumber
<1>2. /\ next \in {2, 3, 4, 5, 7, 9, 11}
      /\ call.op = IF next <= 5 THEN "dup" ELSE "dup2"
      /\ next > 5 => call.new_fd = IF next = 7 THEN 8
                                   ELSE IF next = 9 THEN -1
                                   ELSE DupTest!tmp_fd
      /\ DupTest!IsOpen(call.old_fd)
      /\ DupTest!From = IF next <= 5 THEN 0 ELSE call.new_fd
  BY <1>1, DupAtDupFd
<1>3. /\ DupTest!From \in DupTest!Fds <=> next # 9
      /\ \A fd \in DupTest!Fds : DupTest!IsOpen(fd) <=> table[fd] # "closed"
      /\ \A fd \in DupTest!Fds : fd \in Nat
  BY <1>2, DupFacts DEF DupTest!Fds
<1>4. /\ table' \in [DupTest!Fds -> Files \cup {"closed"}]
      /\ got' \in DupTest!Fds \cup {-99} /\ lost' \in Files \cup {"nothing"}
  BY <1>1 DEF DupInv, DupTest!TypeOK, DupTest!NoAnswer, DupTest!Closed
<1>5. CASE next = 9
  <2>1. pc' = "return" /\ answer' = -9
    BY <1>1, <1>2, <1>3, <1>5
  <2>2. TableBefore(next, -1) /\ ShownBefore(next)
    BY <1>1, <1>2, <1>5 DEF DupInv
  <2>3. TableBefore(next + 1, -1) /\ ShownBefore(next + 1)
    BY <1>5, <2>2 DEF TableBefore, ShownBefore, OpenedBefore
  <2>4. AsExpected'
    <3>1. DupTest!Script[next].expected = -9
      BY <1>5, DupScript
    <3>2. DupTest!FlagsAsAsserted'
      <4>1. Len(DupTest!Script)' = 11 /\ next' = 9
        BY <1>5, DupSame, DupScriptLen
      <4> QED
        BY <4>1 DEF DupTest!FlagsAsAsserted
    <3> QED
      BY <2>1, <3>1, <3>2, DupSame DEF AsExpected
  <2> QED
    BY <1>1, <1>4, <2>1, <2>3, <2>4, DupSame, DupReturns
<1>6. next \notin {7, 11}
  <2> SUFFICES ASSUME next \in {7, 11}
               PROVE  FALSE
    OBVIOUS
  <2>1. DupTest!From = call.new_fd /\ ~DupTest!IsOpen(call.new_fd)
    BY <1>1, <1>2 DEF DupInv
  <2>2. DupTest!From \in DupTest!Fds
    <3>1. next # 9
      OBVIOUS
    <3> QED
      BY <1>3, <3>1
  <2>3. table[call.new_fd] = "closed"
    BY <2>1, <2>2 DEF DupTest!IsOpen, DupTest!Closed
  <2>4. DupTest!From <= call.new_fd
    BY <1>3, <2>1, <2>2
  <2>5. PICK k \in DupTest!Fds : DupTest!From <= k /\ k < call.new_fd
    <3>1. /\ DupTest!IsOpen(call.old_fd) /\ call.op # "dup"
          /\ call.new_fd \in DupTest!Fds
      BY <1>2, <2>1, <2>2
    <3>2. \A fd \in DupTest!Fds :
            DupTest!From <= fd /\ table[fd] = "closed"
            => \E k \in DupTest!Fds : DupTest!From <= k /\ k < fd
      BY <1>1, <2>2, <3>1
    <3> QED
      BY <2>3, <2>4, <3>1, <3>2
  <2> QED
    BY <1>3, <2>1, <2>2, <2>5
<1>7. CASE next \in {2, 3, 4, 5}
  <2>1. pc' = "return" /\ answer' = -24 /\ DupTest!From = 0
    BY <1>1, <1>2, <1>3, <1>7
  <2>2. ~AsExpected'
    <3>1. DupTest!Script[next].expected = next + 2
      BY <1>7, DupScript
    <3>2. DupTest!Script[next].expected # -24
      BY <1>7, <3>1
    <3> QED
      BY <2>1, <3>2, DupSame DEF AsExpected
  <2>3. ASSUME DupTest!StartedAsExpected
        PROVE  FALSE
    <3>1. TableBefore(next, -1)
      BY <1>1, <1>2, <1>7 DEF DupInv
    <3>2. /\ \A k \in 0 .. next + 1 : k \in OpenAtStart \cup OpenedBefore(next)
          /\ next + 2 \in DupTest!Fds
          /\ next + 2 \notin OpenAtStart \cup OpenedBefore(next)
      BY <1>7, <2>3, DupStarted, DupFacts DEF OpenedBefore
    <3>3. \A fd \in DupTest!Fds :
            DupTest!IsOpen(fd) <=> fd \in OpenAtStart \cup OpenedBefore(next)
      BY <3>1, DupFacts DEF TableBefore
    <3>4. table[next + 2] = "closed"
      BY <1>3, <3>2, <3>3
    <3>5. PICK k \in DupTest!Fds : k < next + 2 /\ table[k] = "closed"
      BY <1>1, <1>2, <1>3, <1>7, <2>1, <3>2, <3>4
    <3>6. k \in 0 .. next + 1
      BY <1>3, <1>7, <3>5
    <3> QED
      BY <1>3, <3>2, <3>3, <3>5, <3>6
  <2> QED
    BY <1>1, <1>4, <2>1, <2>2, <2>3, DupReturns
<1> QED
  BY <1>2, <1>5, <1>6, <1>7

(* A call has answered as expected: the next one comes. *)
LEMMA DupReturn == DupInv /\ DupTest!TestReturn => DupInv'
<1> SUFFICES ASSUME DupInv, DupTest!TestReturn
             PROVE  DupInv'
  OBVIOUS
<1>1. /\ pc = "return" /\ pc' = "idle" /\ AsExpected
      /\ call' = DupTest!Idle /\ next' = next + 1 /\ next \in 1 .. 11
      /\ UNCHANGED <<table, answer, got, lost, raced, taken, inherited>>
      /\ TableBefore(next + 1, -1) /\ ShownBefore(next + 1)
  BY DEF DupInv, DupTest!TestReturn, DupTest!Return, AsExpected
<1>2. DupTest!TypeOK'
  BY <1>1 DEF DupInv, DupTest!TypeOK
<1>3. DupTest!tmp_fd' = DupTest!tmp_fd
  BY <1>1 DEF DupTest!tmp_fd
<1>4. TableBefore(next, -1)' /\ ShownBefore(next)'
  BY <1>1, <1>3 DEF TableBefore, ShownBefore, OpenAtStart, OpenedBefore,
                    DupTest!IsOpen
<1>5. inherited' \in SUBSET DupTest!Fds /\ inherited' # DupTest!Fds
      /\ next' \in 1 .. 12
  BY <1>1 DEF DupInv
<1> QED
  BY <1>1, <1>2, <1>4, <1>5 DEF DupInv

(* It has not: the process was not started as expected. *)
LEMMA DupAbort == DupInv /\ DupTest!Abort => DupInv'
<1> SUFFICES ASSUME DupInv, DupTest!Abort
             PROVE  DupInv'
  OBVIOUS
<1>1. /\ pc = "return" /\ pc' = "died" /\ ~AsExpected
      /\ UNCHANGED <<table, call, answer, got, lost, raced, taken, inherited, next>>
      /\ ~DupTest!StartedAsExpected
  BY DEF DupInv, DupTest!Abort, AsExpected
<1>2. DupTest!TypeOK' /\ ~DupTest!StartedAsExpected'
  BY <1>1, DupSame DEF DupInv, DupTest!TypeOK
<1>3. inherited' \in SUBSET DupTest!Fds /\ inherited' # DupTest!Fds
      /\ next' \in 1 .. 12
  BY <1>1 DEF DupInv
<1> QED
  BY <1>1, <1>2, <1>3 DEF DupInv

(* Each call of the script and each assert behind it. *)
LEMMA DupStep ==
  DupInv /\ [DupTest!TestNext]_(DupTest!testVars) => DupInv'
<1> SUFFICES ASSUME DupInv, [DupTest!TestNext]_(DupTest!testVars)
             PROVE  DupInv'
  OBVIOUS
<1>1. CASE UNCHANGED DupTest!testVars
  <2>1. UNCHANGED <<table, call, pc, answer, got, lost, raced, taken, inherited, next>>
    BY <1>1 DEF DupTest!testVars, DupTest!vars
  <2>2. DupTest!TypeOK' /\ AsExpected' = AsExpected
    BY <2>1, DupSame DEF DupInv, DupTest!TypeOK, AsExpected
  <2> QED
    BY <2>1, <2>2, DupSame DEF DupInv
<1>2. CASE DupTest!TestStep
  BY <1>2, DupCheckOld, DupCheckNew, DupClose, DupDupFd, DupFails
     DEF DupTest!TestStep, DupTest!Step, DupTest!Return
<1> QED
  BY <1>1, <1>2, DupCall, DupReturn, DupAbort DEF DupTest!TestNext

(* After the last call all the asserts have held, and they say of the      *)
(* start what StartedAsExpected does.                                      *)
LEMMA DupShown == DupInv => DupTest!PassesAsStarted
<1> SUFFICES ASSUME DupInv
             PROVE  DupTest!PassesAsStarted
  OBVIOUS
<1>1. pc = "died" => next <= 11 /\ ~DupTest!StartedAsExpected
  BY DEF DupInv
<1>2. ASSUME next > 11
      PROVE  DupTest!StartedAsExpected
  <2>1. next = 12 /\ ShownBefore(12)
    BY <1>1, <1>2 DEF DupInv
  <2>2. /\ 0 \in inherited /\ 0 .. 3 \subseteq OpenAtStart
        /\ \A k \in 4 .. 7 : k \notin OpenAtStart
    BY <2>1 DEF ShownBefore
  <2> QED
    BY <2>2 DEF DupTest!StartedAsExpected, OpenAtStart
<1> QED
  BY <1>1, <1>2, DupScriptLen DEF DupTest!PassesAsStarted

-----------------------------------------------------------------------------
(* The test of __setenv and __unsetenv. *)

(* The entries for n, and whether there is one at most. *)
EntriesOf(n) == {k \in DOMAIN environ : environ[k].name = n}
OnceOf(n) == \A j, k \in EntriesOf(n) : j = k

(* What is left of what was inherited, before the n-th call. *)
KeptBefore(n) ==
  /\ n <= 5 => /\ EntriesOf(MY_SWEET) = EnvTest!InheritedOf(MY_SWEET)
               /\ \A k \in EntriesOf(MY_SWEET) : environ[k] = inherited[k]
  /\ n <= 9 => (OnceOf(MY_NOT_SO_SWEET) <=> EnvTest!NotTwice(MY_NOT_SO_SWEET))
  /\ n <= 10 => (OnceOf(OLDPWD) <=> EnvTest!NotTwice(OLDPWD))

SweetAsExpected ==
  \A k \in EnvTest!InheritedOf(MY_SWEET) :
    (\A j \in EnvTest!InheritedOf(MY_SWEET) : k <= j) => inherited[k].value = eKlkl

(* What the asserts behind the calls before the n-th say of the start. *)
EnvShownBefore(n) ==
  /\ n > 5 => SweetAsExpected
  /\ n > 9 => EnvTest!NotTwice(MY_NOT_SO_SWEET)
  /\ n > 10 => EnvTest!NotTwice(OLDPWD)

EnvInv ==
  /\ EnvTest!TypeOK
  /\ inherited \in Seq(EnvTest!Entries)
  /\ next \in 1 .. 11
  /\ status \in {"call", "assert", "exited", "aborted", "crashed"}
  /\ EntriesOf(NoName) # {} => EnvTest!InheritedOf(NoName) # {}
  /\ EnvShownBefore(next)
  /\ status = "call" => KeptBefore(next)
  /\ status = "assert" =>
       /\ next <= 10 /\ KeptBefore(next + 1)
       /\ EnvTest!Holds(EnvTest!Script[next]) => EnvShownBefore(next + 1)
       /\ EnvTest!StartedAsExpected =>
            EnvTest!Holds(EnvTest!Script[next]) \/ result = "ENOMEM"
  /\ status = "exited" => next = 11
  /\ status = "aborted" => result = "ENOMEM" \/ ~EnvTest!StartedAsExpected
  /\ status = "crashed" => EnvTest!InheritedOf(NoName) # {}

(* The names of the script are five, and the values are values. *)
LEMMA EnvConstants ==
  /\ Names = {SHELL, MY_SWEET, MY_NOT_SO_SWEET, OLDPWD, somevariable}
  /\ SHELL # MY_SWEET /\ SHELL # MY_NOT_SO_SWEET /\ SHELL # OLDPWD
  /\ SHELL # somevariable /\ MY_SWEET # MY_NOT_SO_SWEET /\ MY_SWEET # OLDPWD
  /\ MY_SWEET # somevariable /\ MY_NOT_SO_SWEET # OLDPWD
  /\ MY_NOT_SO_SWEET # somevariable /\ OLDPWD # somevariable
  /\ bin_sh \in Values /\ eKlkl \in Values /\ FortyTwo \in Values
  /\ Empty \in Values /\ Unset \notin Values /\ NoName \notin Names
  /\ MaxInherited \in Nat
<1>1. EnvTest!TestConstantsOK
  BY ConstantsAssumption
<1>2. \A j, k \in 1 .. 5 : EnvTest!TestNames[j] = EnvTest!TestNames[k] => j = k
  BY <1>1 DEF EnvTest!TestConstantsOK
<1>3. /\ EnvTest!TestNames[1] = SHELL /\ EnvTest!TestNames[2] = MY_SWEET
      /\ EnvTest!TestNames[3] = MY_NOT_SO_SWEET /\ EnvTest!TestNames[4] = OLDPWD
      /\ EnvTest!TestNames[5] = somevariable
  BY DEF EnvTest!TestNames
<1>4. /\ SHELL # MY_SWEET /\ SHELL # MY_NOT_SO_SWEET /\ SHELL # OLDPWD
      /\ SHELL # somevariable /\ MY_SWEET # MY_NOT_SO_SWEET /\ MY_SWEET # OLDPWD
      /\ MY_SWEET # somevariable /\ MY_NOT_SO_SWEET # OLDPWD
      /\ MY_NOT_SO_SWEET # somevariable /\ OLDPWD # somevariable
  BY <1>2, <1>3
<1> QED
  BY <1>1, <1>4 DEF EnvTest!TestConstantsOK

(* getenv answers the value of the entry for n that comes first. *)
LEMMA EnvGet ==
  ASSUME environ \in Seq(EnvTest!Entries), NEW n
  PROVE  /\ EnvTest!Missing(n) <=> EntriesOf(n) = {}
         /\ EntriesOf(n) = {} => EnvTest!getenv(n) = Unset
         /\ \A k \in EnvTest!First(n) :
              /\ k \in EntriesOf(n) /\ EnvTest!First(n) = {k}
              /\ \A j \in EntriesOf(n) : k <= j
              /\ EnvTest!getenv(n) = environ[k].value
              /\ environ[k].value \in Values
<1>1. /\ Len(environ) \in Nat /\ DOMAIN environ = 1 .. Len(environ)
      /\ \A k \in DOMAIN environ : environ[k] \in EnvTest!Entries
  <2>1. Len(environ) \in Nat /\ environ \in [1 .. Len(environ) -> EnvTest!Entries]
    BY LenProperties
  <2> QED
    BY <2>1
<1>2. \A k \in EntriesOf(n) : k \in Nat
  BY <1>1 DEF EntriesOf
<1>3. ASSUME NEW k \in EnvTest!First(n)
      PROVE  k \in EntriesOf(n) /\ \A j \in EntriesOf(n) : k <= j
  BY <1>1 DEF EnvTest!First, EntriesOf
<1>4. ASSUME NEW k \in EnvTest!First(n)
      PROVE  /\ EnvTest!First(n) = {k} /\ EnvTest!getenv(n) = environ[k].value
             /\ environ[k].value \in Values
  <2>1. EnvTest!First(n) = {k}
    <3>1. ASSUME NEW j \in EnvTest!First(n)
          PROVE  j = k
      BY <1>2, <1>3
    <3> QED
      BY <3>1
  <2>2. environ[k] \in EnvTest!Entries
    BY <1>1 DEF EnvTest!First
  <2> QED
    BY <2>1, <2>2 DEF EnvTest!getenv, EnvTest!Missing, EnvTest!Entries
<1>5. ASSUME EntriesOf(n) # {}
      PROVE  EnvTest!First(n) # {}
  <2>1. PICK k \in EntriesOf(n) : \A j \in EntriesOf(n) : k <= j
    <3>1. PICK m : m \in EntriesOf(n)
      BY <1>5
    <3>2. EntriesOf(n) \in SUBSET Nat
      BY <1>2
    <3> QED
      BY <3>1, <3>2, LeastNat
  <2>2. \A j \in 1 .. k - 1 : environ[j].name # n
    BY <1>1, <1>2, <2>1 DEF EntriesOf
  <2>3. k \in EnvTest!First(n)
    BY <2>1, <2>2 DEF EnvTest!First, EntriesOf
  <2> QED
    BY <2>3
<1> QED
  BY <1>3, <1>4, <1>5 DEF EnvTest!Missing, EnvTest!getenv

(* The same after a step. *)
LEMMA EnvGetNext ==
  (environ \in Seq(EnvTest!Entries))' =>
    (\A n : /\ EnvTest!Missing(n) <=> EntriesOf(n) = {}
            /\ EntriesOf(n) = {} => EnvTest!getenv(n) = Unset
            /\ \A k \in EnvTest!First(n) :
                 /\ k \in EntriesOf(n) /\ EnvTest!First(n) = {k}
                 /\ \A j \in EntriesOf(n) : k <= j
                 /\ EnvTest!getenv(n) = environ[k].value
                 /\ environ[k].value \in Values)'
<1>1. environ \in Seq(EnvTest!Entries) =>
        \A n : /\ EnvTest!Missing(n) <=> EntriesOf(n) = {}
               /\ EntriesOf(n) = {} => EnvTest!getenv(n) = Unset
               /\ \A k \in EnvTest!First(n) :
                    /\ k \in EntriesOf(n) /\ EnvTest!First(n) = {k}
                    /\ \A j \in EntriesOf(n) : k <= j
                    /\ EnvTest!getenv(n) = environ[k].value
                    /\ environ[k].value \in Values
  BY EnvGet
<1> QED
  BY <1>1, PTL

(* putenv gives n the value, and leaves the entries of other names. *)
LEMMA EnvPut ==
  ASSUME environ \in Seq(EnvTest!Entries), NEW n \in Names, NEW v \in Values,
         EnvTest!putenv(n, v)
  PROVE  /\ environ' \in Seq(EnvTest!Entries)
         /\ EnvTest!getenv(n)' = v
         /\ OnceOf(n)' <=> OnceOf(n)
         /\ \A m : m # n => /\ EntriesOf(m)' = EntriesOf(m)
                            /\ \A k \in EntriesOf(m) : environ'[k] = environ[k]
<1> DEFINE e == [name |-> n, value |-> v]
<1>1. /\ Len(environ) \in Nat /\ DOMAIN environ = 1 .. Len(environ)
      /\ \A k \in DOMAIN environ : environ[k] \in EnvTest!Entries
      /\ e \in EnvTest!Entries
  <2>1. Len(environ) \in Nat /\ environ \in [1 .. Len(environ) -> EnvTest!Entries]
    BY LenProperties
  <2> QED
    BY <2>1 DEF EnvTest!Entries
<1>2. CASE EnvTest!Missing(n)
  <2>1. environ' = Append(environ, e)
    BY <1>2 DEF EnvTest!putenv
  <2>2. /\ environ' \in Seq(EnvTest!Entries)
        /\ Len(environ') = Len(environ) + 1
        /\ DOMAIN environ' = 1 .. Len(environ) + 1
        /\ environ'[Len(environ) + 1] = e
        /\ \A k \in DOMAIN environ : environ'[k] = environ[k]
    BY <1>1, <2>1, AppendProperties
  <2>3. EntriesOf(n) = {}
    BY <1>2, EnvGet
  <2>4. EntriesOf(n)' = {Len(environ) + 1}
    BY <1>1, <2>2, <2>3 DEF EntriesOf
  <2>5. EnvTest!getenv(n)' = v
    <3>1. PICK k : k \in EnvTest!First(n)'
      BY <2>2, <2>4, EnvGetNext DEF EnvTest!Missing
    <3> QED
      BY <2>2, <2>4, <3>1, EnvGetNext
  <2>6. ASSUME NEW m, m # n
        PROVE  /\ EntriesOf(m)' = EntriesOf(m)
               /\ \A k \in EntriesOf(m) : environ'[k] = environ[k]
    BY <1>1, <2>2, <2>6 DEF EntriesOf
  <2> QED
    BY <2>2, <2>3, <2>4, <2>5, <2>6 DEF OnceOf
<1>3. CASE ~EnvTest!Missing(n)
  <2>1. PICK i0 \in EnvTest!First(n) : environ' = [environ EXCEPT ![i0].value = v]
    BY <1>3 DEF EnvTest!putenv
  <2>2. i0 \in DOMAIN environ /\ environ[i0].name = n
    BY <2>1 DEF EnvTest!First
  <2>3. [environ[i0] EXCEPT !.value = v] = e
    BY <1>1, <2>2 DEF EnvTest!Entries
  <2>4. environ' = [environ EXCEPT ![i0] = e]
    BY <2>1, <2>3
  <2>5. /\ environ' \in Seq(EnvTest!Entries) /\ DOMAIN environ' = DOMAIN environ
        /\ environ'[i0] = e
        /\ \A k \in DOMAIN environ : k # i0 => environ'[k] = environ[k]
    BY <1>1, <2>2, <2>4, ExceptSeq
  <2>6. \A m : EntriesOf(m)' = EntriesOf(m)
    BY <2>2, <2>5 DEF EntriesOf
  <2>7. i0 \in EnvTest!First(n)'
    BY <1>1, <2>1, <2>2, <2>5 DEF EnvTest!First
  <2>8. EnvTest!getenv(n)' = v
    BY <2>5, <2>7, EnvGetNext
  <2>9. \A m : m # n => \A k \in EntriesOf(m) : environ'[k] = environ[k]
    BY <2>2, <2>5 DEF EntriesOf
  <2> QED
    BY <2>5, <2>6, <2>8, <2>9 DEF OnceOf
<1> QED
  BY <1>2, <1>3

(* The last entry takes the place of the first one for n: of other names   *)
(* the list has as many entries as before, and one for n if it had two.    *)
LEMMA EnvWithout ==
  ASSUME environ \in Seq(EnvTest!Entries), NEW n, NEW i0 \in EnvTest!First(n),
         environ' = EnvTest!Without(i0)
  PROVE  /\ environ' \in Seq(EnvTest!Entries)
         /\ (EnvTest!getenv(n)' = Unset) <=> OnceOf(n)
         /\ \A m : m # n => /\ OnceOf(m)' <=> OnceOf(m)
                            /\ EntriesOf(m) = {} => EntriesOf(m)' = {}
<1>1. PICK N : N = Len(environ)
  OBVIOUS
<1>2. /\ N \in Nat /\ DOMAIN environ = 1 .. N
      /\ \A k \in 1 .. N : environ[k] \in EnvTest!Entries
      /\ i0 \in 1 .. N /\ environ[i0].name = n
  <2>1. N \in Nat /\ environ \in [1 .. N -> EnvTest!Entries]
    BY <1>1, LenProperties
  <2> QED
    BY <2>1 DEF EnvTest!First
<1>3. environ' = [j \in 1 .. N - 1 |-> environ[IF j = i0 THEN N ELSE j]]
  BY <1>1 DEF EnvTest!Without
<1>4. /\ DOMAIN environ' = 1 .. N - 1
      /\ \A j \in 1 .. N - 1 : environ'[j] = environ[IF j = i0 THEN N ELSE j]
      /\ environ' \in Seq(EnvTest!Entries)
  <2>1. N - 1 \in Nat /\ environ' \in [1 .. N - 1 -> EnvTest!Entries]
    BY <1>2, <1>3
  <2>2. environ' \in Seq(EnvTest!Entries)
    BY <2>1, SeqDef
  <2> QED
    BY <1>3, <2>2
<1>5. ASSUME NEW m
      PROVE  /\ \A j \in 1 .. N - 1 :
                  j \in EntriesOf(m)' <=> (IF j = i0 THEN N ELSE j) \in EntriesOf(m)
             /\ EntriesOf(m)' \subseteq 1 .. N - 1
             /\ EntriesOf(m) \subseteq 1 .. N
  BY <1>2, <1>4 DEF EntriesOf
<1>6. i0 \in EntriesOf(n) /\ \A m : m # n => i0 \notin EntriesOf(m)
  BY <1>2 DEF EntriesOf
<1>7. ASSUME NEW m, m # n
      PROVE  /\ OnceOf(m)' <=> OnceOf(m)
             /\ EntriesOf(m) = {} => EntriesOf(m)' = {}
  <2>1. i0 \notin EntriesOf(m)
    BY <1>6, <1>7
  <2>2. ASSUME OnceOf(m), NEW j \in EntriesOf(m)', NEW k \in EntriesOf(m)'
        PROVE  j = k
    <3>1. (IF j = i0 THEN N ELSE j) = (IF k = i0 THEN N ELSE k)
      BY <1>5, <2>2 DEF OnceOf
    <3> QED
      BY <1>2, <1>5, <3>1
  <2>3. ASSUME OnceOf(m)', NEW j \in EntriesOf(m), NEW k \in EntriesOf(m)
        PROVE  j = k
    <3>1. /\ j \in 1 .. N /\ k \in 1 .. N /\ j # i0 /\ k # i0
      BY <1>5, <2>1
    <3>2. ASSUME NEW h \in EntriesOf(m)
          PROVE  (IF h = N THEN i0 ELSE h) \in EntriesOf(m)'
      <4>1. h \in 1 .. N /\ h # i0
        BY <1>5, <2>1
      <4>2. (IF h = N THEN i0 ELSE h) \in 1 .. N - 1
        BY <1>2, <4>1
      <4> QED
        BY <1>5, <4>1, <4>2
    <3>3. (IF j = N THEN i0 ELSE j) = (IF k = N THEN i0 ELSE k)
      BY <2>3, <3>2 DEF OnceOf
    <3> QED
      BY <3>1, <3>3
  <2>4. ASSUME EntriesOf(m) = {}
        PROVE  EntriesOf(m)' = {}
    BY <1>5, <2>4
  <2> QED
    BY <2>2, <2>3, <2>4 DEF OnceOf
<1>8. EntriesOf(n)' = {} <=> OnceOf(n)
  <2>1. ASSUME OnceOf(n), NEW j \in EntriesOf(n)'
        PROVE  FALSE
    <3>1. (IF j = i0 THEN N ELSE j) = i0
      BY <1>5, <1>6, <2>1 DEF OnceOf
    <3> QED
      BY <1>2, <1>5, <3>1
  <2>2. ASSUME EntriesOf(n)' = {}, NEW k \in EntriesOf(n)
        PROVE  k = i0
    <3>1. SUFFICES ASSUME k # i0
                   PROVE  FALSE
      OBVIOUS
    <3>2. k \in 1 .. N
      BY <1>5
    <3>3. (IF k = N THEN i0 ELSE k) \in 1 .. N - 1
      BY <1>2, <3>1, <3>2
    <3>4. (IF k = N THEN i0 ELSE k) \in EntriesOf(n)'
      BY <1>5, <3>1, <3>2, <3>3
    <3> QED
      BY <2>2, <3>4
  <2> QED
    BY <2>1, <2>2 DEF OnceOf
<1>9. (EnvTest!getenv(n)' = Unset) <=> EntriesOf(n)' = {}
  <2>1. ASSUME EntriesOf(n)' # {}
        PROVE  EnvTest!getenv(n)' # Unset
    <3>1. PICK k : k \in EnvTest!First(n)'
      BY <1>4, <2>1, EnvGetNext DEF EnvTest!Missing
    <3>2. EnvTest!getenv(n)' \in Values
      BY <1>4, <3>1, EnvGetNext
    <3> QED
      BY <3>2, EnvConstants
  <2> QED
    BY <1>4, <2>1, EnvGetNext
<1> QED
  BY <1>4, <1>7, <1>8, <1>9

(* Before the first call nothing has changed. *)
LEMMA EnvInit == EnvTest!TestInit => EnvInv
<1> SUFFICES ASSUME EnvTest!TestInit
             PROVE  EnvInv
  OBVIOUS
<1>1. /\ environ \in UNION {[1 .. k -> EnvTest!Entries] : k \in 0 .. MaxInherited}
      /\ called = EnvTest!NoCall /\ result = "0"
      /\ next = 1 /\ status = "call" /\ inherited = environ
  BY DEF EnvTest!TestInit, EnvTest!Init
<1>2. environ \in Seq(EnvTest!Entries)
  <2>1. PICK k \in 0 .. MaxInherited : environ \in [1 .. k -> EnvTest!Entries]
    BY <1>1
  <2>2. k \in Nat
    BY <2>1, EnvConstants
  <2> QED
    BY <2>1, <2>2, SeqDef
<1>3. EnvTest!TypeOK
  BY <1>1, <1>2 DEF EnvTest!TypeOK, EnvTest!NoCall
<1>4. \A n : EntriesOf(n) = EnvTest!InheritedOf(n)
  BY <1>1 DEF EntriesOf, EnvTest!InheritedOf
<1>5. KeptBefore(1)
  BY <1>1, <1>4 DEF KeptBefore, OnceOf, EnvTest!NotTwice
<1>6. EnvShownBefore(1)
  BY DEF EnvShownBefore
<1> QED
  BY <1>1, <1>2, <1>3, <1>4, <1>5, <1>6 DEF EnvInv

(* The ten calls and what is asserted of each. *)
LEMMA EnvScript ==
  ASSUME NEW n \in 1 .. 10
  PROVE  LET c == EnvTest!Script[n] IN
           /\ c.op = IF n <= 6 THEN "setenv" ELSE "unsetenv"
           /\ c.name = IF n \in {1, 7} THEN NoName ELSE IF n <= 4 THEN SHELL
                       ELSE IF n = 5 THEN MY_SWEET
                       ELSE IF n \in {6, 9} THEN MY_NOT_SO_SWEET
                       ELSE IF n = 8 THEN somevariable ELSE OLDPWD
           /\ n <= 6 => /\ (c.overwrite <=> n \in {3, 4, 6})
                        /\ c.value = IF n <= 3 THEN Unset
                                     ELSE IF n = 4 THEN bin_sh
                                     ELSE IF n = 5 THEN eKlkl ELSE FortyTwo
           /\ c.expected = IF n \in {1, 7} THEN "EINVAL" ELSE "0"
           /\ c.shows = IF n = 3 THEN {Empty} ELSE IF n = 4 THEN {bin_sh}
                        ELSE IF n = 5 THEN {eKlkl} ELSE IF n = 6 THEN {FortyTwo}
                        ELSE IF n \in {9, 10} THEN {Unset} ELSE {}
<1>1. n \in {1, 2, 3, 4, 5, 6, 7, 8, 9, 10}
  OBVIOUS
<1>2. CASE n = 1
  BY <1>2 DEF EnvTest!Script, EnvTest!setenv, EnvTest!unsetenv
<1>3. CASE n = 2
  BY <1>3 DEF EnvTest!Script, EnvTest!setenv, EnvTest!unsetenv
<1>4. CASE n = 3
  BY <1>4 DEF EnvTest!Script, EnvTest!setenv, EnvTest!unsetenv
<1>5. CASE n = 4
  BY <1>5 DEF EnvTest!Script, EnvTest!setenv, EnvTest!unsetenv
<1>6. CASE n = 5
  BY <1>6 DEF EnvTest!Script, EnvTest!setenv, EnvTest!unsetenv
<1>7. CASE n = 6
  BY <1>7 DEF EnvTest!Script, EnvTest!setenv, EnvTest!unsetenv
<1>8. CASE n = 7
  BY <1>8 DEF EnvTest!Script, EnvTest!setenv, EnvTest!unsetenv
<1>9. CASE n = 8
  BY <1>9 DEF EnvTest!Script, EnvTest!setenv, EnvTest!unsetenv
<1>10. CASE n = 9
  BY <1>10 DEF EnvTest!Script, EnvTest!setenv, EnvTest!unsetenv
<1>11. CASE n = 10
  BY <1>11 DEF EnvTest!Script, EnvTest!setenv, EnvTest!unsetenv
<1> QED
  BY <1>1, <1>2, <1>3, <1>4, <1>5, <1>6, <1>7, <1>8, <1>9, <1>10, <1>11

(* The test of __setenv makes ten calls. *)
LEMMA EnvScriptLen == Len(EnvTest!Script) = 10
BY DEF EnvTest!Script, EnvTest!setenv, EnvTest!unsetenv

(* What a call does to the list, and what it answers. *)
LEMMA EnvCallFacts ==
  ASSUME EnvInv, EnvTest!TestCall, NEW c, c = EnvTest!Script[next]
  PROVE  /\ next \in 1 .. 10 /\ next' = next /\ inherited' = inherited
         /\ environ' \in Seq(EnvTest!Entries)
         /\ called'.op = c.op /\ status = "call"
         /\ EntriesOf(NoName) = {} => EntriesOf(NoName)' = {}
         /\ \/ /\ result' = "crashed" /\ status' = "crashed"
               /\ EntriesOf(NoName) # {}
            \/ /\ status' = "assert"
               /\ \A m : m # c.name => (OnceOf(m)' <=> OnceOf(m))
               /\ c.op = "setenv" =>
                    /\ OnceOf(c.name)' <=> OnceOf(c.name)
                    /\ \A m : m # c.name =>
                         /\ EntriesOf(m)' = EntriesOf(m)
                         /\ \A k \in EntriesOf(m) : environ'[k] = environ[k]
               /\ IF c.name = NoName THEN result' = "EINVAL"
                  ELSE IF c.op = "setenv"
                  THEN \/ result' = "ENOMEM"
                       \/ /\ result' = "0"
                          /\ IF ~c.overwrite /\ ~EnvTest!Missing(c.name)
                             THEN environ' = environ
                             ELSE EnvTest!getenv(c.name)' = EnvTest!Contents(c.value)
                  ELSE /\ result' = "0"
                       /\ (EnvTest!getenv(c.name)' = Unset) <=> OnceOf(c.name)
<1>1. /\ next \in 1 .. 10 /\ next' = next /\ inherited' = inherited
      /\ status = "call" /\ environ \in Seq(EnvTest!Entries)
      /\ status' = IF result' = "crashed" THEN "crashed" ELSE "assert"
      /\ \/ c.name = NoName /\ EnvTest!BadName /\ called'.op = c.op
         \/ /\ c.name # NoName /\ c.op = "setenv"
            /\ EnvTest!Setenv(c.name, c.value, c.overwrite)
         \/ /\ c.name # NoName /\ c.op = "unsetenv"
            /\ EnvTest!Unsetenv(c.name) \/ EnvTest!UnsetenvCrash(c.name)
  BY EnvScriptLen DEF EnvInv, EnvTest!TestCall, EnvTest!TypeOK
<1>2. ASSUME environ' = environ
      PROVE  /\ environ' \in Seq(EnvTest!Entries)
             /\ \A m : /\ OnceOf(m)' <=> OnceOf(m)
                       /\ EntriesOf(m)' = EntriesOf(m)
                       /\ \A k \in EntriesOf(m) : environ'[k] = environ[k]
                       /\ EnvTest!getenv(m)' = EnvTest!getenv(m)
  <2>1. \A m : EntriesOf(m)' = EntriesOf(m)
    BY <1>2 DEF EntriesOf
  <2>2. \A m : EnvTest!getenv(m)' = EnvTest!getenv(m)
    BY <1>2 DEF EnvTest!getenv, EnvTest!Missing, EnvTest!First
  <2> QED
    BY <1>1, <1>2, <2>1, <2>2 DEF OnceOf
<1>3. CASE c.name = NoName
  <2>1. environ' = environ /\ result' = "EINVAL" /\ called'.op = c.op
    BY <1>1, <1>3 DEF EnvTest!BadName, EnvTest!Nothing
  <2> QED
    BY <1>1, <1>2, <1>3, <2>1
<1>4. c.name # NoName => c.name \in Names
  BY <1>1, EnvScript, EnvConstants
<1>5. CASE c.name # NoName /\ c.op = "setenv"
  <2>1. /\ called'.op = c.op
        /\ IF ~c.overwrite /\ ~EnvTest!Missing(c.name)
           THEN environ' = environ /\ result' = "0"
           ELSE \/ EnvTest!putenv(c.name, EnvTest!Contents(c.value)) /\ result' = "0"
                \/ environ' = environ /\ result' = "ENOMEM"
    BY <1>1, <1>5 DEF EnvTest!Setenv, EnvTest!Calls, EnvTest!Nothing
  <2>2. EnvTest!Contents(c.value) \in Values
    BY <1>1, <1>5, EnvScript, EnvConstants DEF EnvTest!Contents
  <2>3. CASE environ' = environ
    BY <1>1, <1>2, <1>5, <2>1, <2>3, EnvPut, <2>2, <1>4
  <2>4. CASE /\ EnvTest!putenv(c.name, EnvTest!Contents(c.value)) /\ result' = "0"
             /\ ~(~c.overwrite /\ ~EnvTest!Missing(c.name))
    <3>1. /\ environ' \in Seq(EnvTest!Entries)
          /\ EnvTest!getenv(c.name)' = EnvTest!Contents(c.value)
          /\ OnceOf(c.name)' <=> OnceOf(c.name)
          /\ \A m : m # c.name =>
               /\ EntriesOf(m)' = EntriesOf(m)
               /\ \A k \in EntriesOf(m) : environ'[k] = environ[k]
      BY <1>1, <1>4, <1>5, <2>2, <2>4, EnvPut
    <3>2. \A m : m # c.name => (OnceOf(m)' <=> OnceOf(m))
      BY <3>1 DEF OnceOf
    <3> QED
      BY <1>1, <1>5, <2>1, <2>4, <3>1, <3>2
  <2> QED
    BY <2>1, <2>3, <2>4
<1>6. CASE c.name # NoName /\ c.op = "unsetenv" /\ EnvTest!Unsetenv(c.name)
  <2>1. /\ called'.op = c.op /\ result' = "0"
        /\ IF EnvTest!Missing(c.name) THEN environ' = environ
           ELSE \E k \in EnvTest!First(c.name) : environ' = EnvTest!Without(k)
    BY <1>6 DEF EnvTest!Unsetenv, EnvTest!Calls
  <2>2. CASE EnvTest!Missing(c.name)
    <3>1. EntriesOf(c.name) = {} /\ EnvTest!getenv(c.name) = Unset
      BY <1>1, <2>2, EnvGet
    <3> QED
      BY <1>1, <1>2, <1>6, <2>1, <2>2, <3>1 DEF OnceOf
  <2>3. CASE ~EnvTest!Missing(c.name)
    <3>1. PICK k \in EnvTest!First(c.name) : environ' = EnvTest!Without(k)
      BY <2>1, <2>3
    <3> QED
      BY <1>1, <1>6, <2>1, <3>1, EnvWithout
  <2> QED
    BY <2>2, <2>3
<1>7. CASE c.name # NoName /\ c.op = "unsetenv" /\ EnvTest!UnsetenvCrash(c.name)
  <2>1. /\ called'.op = c.op /\ result' = "crashed" /\ environ' = environ
        /\ EntriesOf(NoName) # {}
    BY <1>7 DEF EnvTest!UnsetenvCrash, EnvTest!Calls, EnvTest!Nothing, EntriesOf
  <2> QED
    BY <1>1, <1>2, <2>1
<1> QED
  BY <1>1, <1>3, <1>5, <1>6, <1>7

(* As long as the test runs, what was inherited and is expected stays. *)
LEMMA EnvSame ==
  ASSUME UNCHANGED inherited
  PROVE  /\ \A n : EnvTest!InheritedOf(n)' = EnvTest!InheritedOf(n)
         /\ \A n : EnvTest!NotTwice(n)' <=> EnvTest!NotTwice(n)
         /\ SweetAsExpected' <=> SweetAsExpected
         /\ \A n : EnvShownBefore(n)' <=> EnvShownBefore(n)
         /\ EnvTest!StartedAsExpected' <=> EnvTest!StartedAsExpected
         /\ environ' = environ =>
              /\ \A n : EntriesOf(n)' = EntriesOf(n)
              /\ \A n : KeptBefore(n)' <=> KeptBefore(n)
              /\ \A n : EnvTest!getenv(n)' = EnvTest!getenv(n)
<1>1. \A n : EnvTest!InheritedOf(n)' = EnvTest!InheritedOf(n)
  BY DEF EnvTest!InheritedOf
<1>2. \A n : EnvTest!NotTwice(n)' <=> EnvTest!NotTwice(n)
  BY <1>1 DEF EnvTest!NotTwice
<1>3. SweetAsExpected' <=> SweetAsExpected
  BY <1>1 DEF SweetAsExpected
<1>4. \A n : EnvShownBefore(n)' <=> EnvShownBefore(n)
  BY <1>2, <1>3 DEF EnvShownBefore
<1>5. EnvTest!StartedAsExpected' <=> EnvTest!StartedAsExpected
  BY <1>2, <1>3 DEF EnvTest!StartedAsExpected, SweetAsExpected
<1>6. ASSUME environ' = environ
      PROVE  /\ \A n : EntriesOf(n)' = EntriesOf(n)
             /\ \A n : KeptBefore(n)' <=> KeptBefore(n)
             /\ \A n : EnvTest!getenv(n)' = EnvTest!getenv(n)
  <2>1. \A n : EntriesOf(n)' = EntriesOf(n)
    BY <1>6 DEF EntriesOf
  <2>2. \A n : EnvTest!getenv(n)' = EnvTest!getenv(n)
    BY <1>6 DEF EnvTest!getenv, EnvTest!Missing, EnvTest!First
  <2>3. \A n : OnceOf(n)' <=> OnceOf(n)
    BY <2>1 DEF OnceOf
  <2> QED
    BY <1>1, <1>2, <1>6, <2>1, <2>2, <2>3 DEF KeptBefore
<1> QED
  BY <1>1, <1>2, <1>3, <1>4, <1>5, <1>6

(* A call: what it keeps, and what the assert behind it shows. *)
LEMMA EnvCall == EnvInv /\ EnvTest!TestCall => EnvInv'
<1> SUFFICES ASSUME EnvInv, EnvTest!TestCall
             PROVE  EnvInv'
  OBVIOUS
<1>1. PICK c : c = EnvTest!Script[next]
  OBVIOUS
<1>2. /\ next \in 1 .. 10 /\ next' = next /\ inherited' = inherited
      /\ environ' \in Seq(EnvTest!Entries) /\ environ \in Seq(EnvTest!Entries)
      /\ called'.op = c.op
      /\ EntriesOf(NoName) = {} => EntriesOf(NoName)' = {}
      /\ KeptBefore(next) /\ EnvShownBefore(next)
      /\ inherited \in Seq(EnvTest!Entries)
  BY <1>1, EnvCallFacts DEF EnvInv, EnvTest!TypeOK
<1>3. /\ c.op = IF next <= 6 THEN "setenv" ELSE "unsetenv"
      /\ c.name = IF next \in {1, 7} THEN NoName ELSE IF next <= 4 THEN SHELL
                  ELSE IF next = 5 THEN MY_SWEET
                  ELSE IF next \in {6, 9} THEN MY_NOT_SO_SWEET
                  ELSE IF next = 8 THEN somevariable ELSE OLDPWD
      /\ next <= 6 => /\ (c.overwrite <=> next \in {3, 4, 6})
                      /\ c.value = IF next <= 3 THEN Unset
                                   ELSE IF next = 4 THEN bin_sh
                                   ELSE IF next = 5 THEN eKlkl ELSE FortyTwo
      /\ c.expected = IF next \in {1, 7} THEN "EINVAL" ELSE "0"
      /\ c.shows = IF next = 3 THEN {Empty} ELSE IF next = 4 THEN {bin_sh}
                   ELSE IF next = 5 THEN {eKlkl} ELSE IF next = 6 THEN {FortyTwo}
                   ELSE IF next \in {9, 10} THEN {Unset} ELSE {}
  BY <1>1, <1>2, EnvScript
<1>4. /\ EntriesOf(NoName)' # {} => EnvTest!InheritedOf(NoName)' # {}
      /\ EntriesOf(NoName) # {} => EnvTest!InheritedOf(NoName)' # {}
      /\ EnvShownBefore(next)'
      /\ inherited' \in Seq(EnvTest!Entries) /\ next' \in 1 .. 11
  BY <1>2, EnvSame DEF EnvInv
<1>5. /\ next <= 4 => c.name # MY_SWEET /\ c.op = "setenv"
      /\ next <= 8 /\ next # 6 => c.name # MY_NOT_SO_SWEET
      /\ next = 6 => c.op = "setenv"
      /\ next <= 9 => c.name # OLDPWD
  BY <1>2, <1>3, EnvConstants
<1>6. CASE result' = "crashed" /\ status' = "crashed" /\ EntriesOf(NoName) # {}
  <2>1. EnvTest!TypeOK'
    BY <1>2, <1>3, <1>6 DEF EnvTest!TypeOK
  <2> QED
    BY <1>2, <1>4, <1>6, <2>1 DEF EnvInv
<1>7. ASSUME ~(result' = "crashed" /\ status' = "crashed" /\ EntriesOf(NoName) # {})
      PROVE  EnvInv'
  <2>1. /\ status' = "assert"
        /\ \A m : m # c.name => (OnceOf(m)' <=> OnceOf(m))
        /\ c.op = "setenv" =>
             /\ OnceOf(c.name)' <=> OnceOf(c.name)
             /\ \A m : m # c.name =>
                  /\ EntriesOf(m)' = EntriesOf(m)
                  /\ \A k \in EntriesOf(m) : environ'[k] = environ[k]
        /\ IF c.name = NoName THEN result' = "EINVAL"
           ELSE IF c.op = "setenv"
           THEN \/ result' = "ENOMEM"
                \/ /\ result' = "0"
                   /\ IF ~c.overwrite /\ ~EnvTest!Missing(c.name)
                      THEN environ' = environ
                      ELSE EnvTest!getenv(c.name)' = EnvTest!Contents(c.value)
           ELSE /\ result' = "0"
                /\ (EnvTest!getenv(c.name)' = Unset) <=> OnceOf(c.name)
    BY <1>1, <1>7, EnvCallFacts
  <2>2. EnvTest!TypeOK'
    BY <1>2, <1>3, <2>1 DEF EnvTest!TypeOK
  <2>3. KeptBefore(next + 1)'
    <3>1. next + 1 <= 5 =>
            /\ EntriesOf(MY_SWEET)' = EnvTest!InheritedOf(MY_SWEET)'
            /\ \A k \in EntriesOf(MY_SWEET)' : environ'[k] = inherited'[k]
      BY <1>2, <1>5, <2>1, EnvSame DEF KeptBefore
    <3>2. next + 1 <= 9 =>
            (OnceOf(MY_NOT_SO_SWEET)' <=> EnvTest!NotTwice(MY_NOT_SO_SWEET)')
      BY <1>2, <1>3, <1>5, <2>1, EnvSame DEF KeptBefore
    <3>3. next + 1 <= 10 => (OnceOf(OLDPWD)' <=> EnvTest!NotTwice(OLDPWD)')
      BY <1>2, <1>5, <2>1, EnvSame DEF KeptBefore
    <3> QED
      BY <1>2, <3>1, <3>2, <3>3 DEF KeptBefore
  <2>4. EnvTest!Holds(EnvTest!Script[next])' <=>
          /\ result' = c.expected
          /\ c.shows # {} => EnvTest!getenv(c.name)' \in c.shows
    <3>1. EnvTest!Script' = EnvTest!Script
      BY DEF EnvTest!Script, EnvTest!setenv, EnvTest!unsetenv
    <3> QED
      BY <1>1, <1>2, <3>1 DEF EnvTest!Holds
  <2>5. CASE next \in {1, 7, 8}
    <3>1. EnvTest!Holds(EnvTest!Script[next])'
      BY <1>3, <2>1, <2>4, <2>5, EnvConstants
    <3>2. EnvShownBefore(next + 1)'
      BY <1>2, <1>4, <2>5 DEF EnvShownBefore
    <3> QED
      BY <1>2, <1>4, <2>1, <2>2, <2>3, <3>1, <3>2 DEF EnvInv
  <2>6. CASE next \in {2, 3, 4, 6}
    <3>1. EnvTest!Holds(EnvTest!Script[next])' \/ result' = "ENOMEM"
      BY <1>3, <2>1, <2>4, <2>6, EnvConstants DEF EnvTest!Contents
    <3>2. EnvShownBefore(next + 1)'
      BY <1>2, <1>4, <2>6 DEF EnvShownBefore
    <3> QED
      BY <1>2, <1>4, <2>1, <2>2, <2>3, <3>1, <3>2 DEF EnvInv
  <2>7. CASE next = 5
    <3>1. EnvTest!Holds(EnvTest!Script[next])' <=>
            result' = "0" /\ EnvTest!getenv(MY_SWEET)' = eKlkl
      BY <1>3, <2>4, <2>7
    <3>2. /\ EntriesOf(MY_SWEET) = EnvTest!InheritedOf(MY_SWEET)
          /\ \A k \in EntriesOf(MY_SWEET) : environ[k] = inherited[k]
      BY <1>2, <2>7 DEF KeptBefore
    <3>3. CASE EnvTest!Missing(MY_SWEET)
      <4>1. SweetAsExpected
        BY <1>2, <3>2, <3>3, EnvGet DEF SweetAsExpected
      <4>2. EnvTest!Holds(EnvTest!Script[next])' \/ result' = "ENOMEM"
        BY <1>3, <2>1, <2>7, <3>1, <3>3, EnvConstants DEF EnvTest!Contents
      <4>3. EnvShownBefore(next + 1)'
        BY <1>2, <2>7, <4>1, EnvSame DEF EnvShownBefore
      <4> QED
        BY <1>2, <1>4, <2>1, <2>2, <2>3, <4>2, <4>3 DEF EnvInv
    <3>4. CASE ~EnvTest!Missing(MY_SWEET)
      <4>1. PICK k \in EnvTest!First(MY_SWEET) : TRUE
        BY <3>4 DEF EnvTest!Missing
      <4>2. /\ k \in EntriesOf(MY_SWEET) /\ \A j \in EntriesOf(MY_SWEET) : k <= j
            /\ EnvTest!getenv(MY_SWEET) = environ[k].value
            /\ \A h \in EntriesOf(MY_SWEET) : h \in Nat
        <5>1. DOMAIN environ = 1 .. Len(environ) /\ Len(environ) \in Nat
          BY <1>2, LenProperties
        <5> QED
          BY <1>2, <4>1, <5>1, EnvGet DEF EntriesOf
      <4>3. SweetAsExpected <=> environ[k].value = eKlkl
        <5>1. \A h \in EntriesOf(MY_SWEET) :
                (\A j \in EntriesOf(MY_SWEET) : h <= j) => h = k
          BY <4>2
        <5> QED
          BY <3>2, <4>2, <5>1 DEF SweetAsExpected
      <4>4. result' = "ENOMEM"
              \/ (result' = "0" /\ EnvTest!getenv(MY_SWEET)' = environ[k].value)
        BY <1>2, <1>3, <2>1, <2>7, <3>4, <4>2, EnvSame, EnvConstants
      <4>5. /\ EnvTest!Holds(EnvTest!Script[next])' => SweetAsExpected
            /\ SweetAsExpected =>
                 EnvTest!Holds(EnvTest!Script[next])' \/ result' = "ENOMEM"
        BY <3>1, <4>3, <4>4
      <4>6. SweetAsExpected => EnvShownBefore(next + 1)'
        BY <1>2, <2>7, EnvSame DEF EnvShownBefore
      <4>7. EnvTest!StartedAsExpected' => SweetAsExpected
        BY <1>2, EnvSame DEF EnvTest!StartedAsExpected, SweetAsExpected
      <4> QED
        BY <1>2, <1>4, <2>1, <2>2, <2>3, <4>5, <4>6, <4>7 DEF EnvInv
    <3> QED
      BY <3>3, <3>4
  <2>8. CASE next \in {9, 10}
    <3>1. EnvTest!Holds(EnvTest!Script[next])' <=> OnceOf(c.name)
      BY <1>3, <2>1, <2>4, <2>8, EnvConstants
    <3>2. OnceOf(c.name) <=> EnvTest!NotTwice(c.name)
      BY <1>2, <1>3, <2>8 DEF KeptBefore
    <3>3. EnvTest!NotTwice(c.name) => EnvShownBefore(next + 1)'
      BY <1>2, <1>3, <2>8, EnvSame DEF EnvShownBefore
    <3>4. EnvTest!StartedAsExpected' => EnvTest!NotTwice(c.name)
      BY <1>2, <1>3, <2>8, EnvSame DEF EnvTest!StartedAsExpected
    <3> QED
      BY <1>2, <1>4, <2>1, <2>2, <2>3, <3>1, <3>2, <3>3, <3>4 DEF EnvInv
  <2> QED
    BY <1>2, <2>5, <2>6, <2>7, <2>8
<1> QED
  BY <1>6, <1>7

(* The assert behind the call, and the end. *)
LEMMA EnvAssert == EnvInv /\ EnvTest!TestAssert => EnvInv'
<1> SUFFICES ASSUME EnvInv, EnvTest!TestAssert
             PROVE  EnvInv'
  OBVIOUS
<1>1. /\ status = "assert" /\ UNCHANGED <<environ, called, result, inherited>>
      /\ next \in 1 .. 10
      /\ IF EnvTest!Holds(EnvTest!Script[next])
         THEN status' = "call" /\ next' = next + 1
         ELSE status' = "aborted" /\ next' = next
  BY DEF EnvInv, EnvTest!TestAssert, EnvTest!vars
<1>2. EnvTest!TypeOK'
  BY <1>1 DEF EnvInv, EnvTest!TypeOK
<1>3. /\ EntriesOf(NoName)' # {} => EnvTest!InheritedOf(NoName)' # {}
      /\ inherited' \in Seq(EnvTest!Entries)
  BY <1>1, EnvSame DEF EnvInv
<1>4. CASE EnvTest!Holds(EnvTest!Script[next])
  <2>1. PICK n \in 2 .. 11 : n = next + 1
    BY <1>1
  <2>2. EnvShownBefore(n) /\ KeptBefore(n) /\ next' = n
    BY <1>1, <1>4, <2>1 DEF EnvInv
  <2>3. EnvShownBefore(n)' /\ KeptBefore(n)'
    BY <1>1, <2>2, EnvSame
  <2>4. EnvShownBefore(next)' /\ KeptBefore(next)' /\ next' \in 1 .. 11
    BY <2>1, <2>2, <2>3 DEF EnvShownBefore, KeptBefore
  <2> QED
    BY <1>1, <1>2, <1>3, <1>4, <2>4 DEF EnvInv
<1>5. CASE ~EnvTest!Holds(EnvTest!Script[next])
  <2>1. EnvShownBefore(next)' /\ next' \in 1 .. 11
    BY <1>1, <1>5, EnvSame DEF EnvInv
  <2>2. result' = "ENOMEM" \/ ~EnvTest!StartedAsExpected'
    BY <1>1, <1>5, EnvSame DEF EnvInv
  <2> QED
    BY <1>1, <1>2, <1>3, <1>5, <2>1, <2>2 DEF EnvInv
<1> QED
  BY <1>4, <1>5

(* Every step of the test preserves the invariant. *)
LEMMA EnvStep ==
  EnvInv /\ [EnvTest!TestNext]_(EnvTest!testVars) => EnvInv'
<1> SUFFICES ASSUME EnvInv, [EnvTest!TestNext]_(EnvTest!testVars)
             PROVE  EnvInv'
  OBVIOUS
<1>1. CASE EnvTest!TestExit
  <2>1. /\ status = "call" /\ next = 11 /\ status' = "exited"
        /\ UNCHANGED <<environ, called, result, inherited, next>>
    BY <1>1, EnvScriptLen DEF EnvInv, EnvTest!TestExit, EnvTest!vars
  <2>2. EnvTest!TypeOK'
    BY <2>1 DEF EnvInv, EnvTest!TypeOK
  <2>3. /\ EntriesOf(NoName)' # {} => EnvTest!InheritedOf(NoName)' # {}
        /\ EnvShownBefore(next)'
        /\ inherited' \in Seq(EnvTest!Entries) /\ next' \in 1 .. 11
    BY <2>1, EnvSame DEF EnvInv
  <2> QED
    BY <2>1, <2>2, <2>3 DEF EnvInv
<1>2. CASE UNCHANGED EnvTest!testVars
  <2>1. UNCHANGED <<environ, called, result, inherited, next, status>>
    BY <1>2 DEF EnvTest!testVars, EnvTest!vars
  <2>2. EnvTest!TypeOK'
    BY <2>1 DEF EnvInv, EnvTest!TypeOK
  <2>3. EnvTest!Holds(EnvTest!Script[next])' <=> EnvTest!Holds(EnvTest!Script[next])
    <3>1. EnvTest!Script' = EnvTest!Script
      BY DEF EnvTest!Script, EnvTest!setenv, EnvTest!unsetenv
    <3> QED
      BY <2>1, <3>1, EnvSame DEF EnvTest!Holds
  <2> QED
    BY <2>1, <2>2, <2>3, EnvSame DEF EnvInv
<1> QED
  BY <1>1, <1>2, EnvCall, EnvAssert DEF EnvTest!TestNext

(* The end is reached by what is expected only, and left by nothing else. *)
LEMMA EnvShown == EnvInv => EnvTest!PassesAsStarted
BY DEF EnvInv, EnvShownBefore, SweetAsExpected, EnvTest!PassesAsStarted,
       EnvTest!StartedAsExpected

-----------------------------------------------------------------------------
(* From the command line to an exercise. *)

(* What is typed: words for the chapter and the question, and arguments. *)
TypedWords ==
  Dispatch!Words(TypedPrefixes, {4, 5, 6, 7, 8, 9})
    \cup Dispatch!Words({Dispatch!NoText, "q", "question", "c"}, {1, 2, 3, 4, 7, 9, 10})
    \cup Args

(* filepath is the first argument that is no option, if there is one. *)
FirstOperand ==
  \A k \in DOMAIN Dispatch!args :
    Dispatch!args[k] # "-a" /\ (\A j \in 1 .. k - 1 : Dispatch!args[j] = "-a")
      => filepath = Dispatch!args[k]

DispatchInv ==
  /\ Dispatch!TypeOK
  /\ argv \in Seq(TypedWords) /\ Len(argv) <= MaxArgs + 2
  /\ \A k \in 3 .. Len(argv) : argv[k] \in Args
  /\ pc = "main" => question = 0
  /\ pc \in {"main", "chptN_run"} => filepath = Dispatch!NoText /\ idx = 1
  /\ pc \in {"chptN_run", "chpt4_q1", "ran", "died"} =>
       chapter \in 4 .. 8 /\ Len(argv) >= 2 /\ argv[1].number = chapter
  /\ pc \in {"chpt4_q1", "ran", "died"} => question # 0
  /\ question # 0 => argv[2].number = question
  /\ pc = "chpt4_q1" =>
       /\ chapter = 4 /\ question = 1 /\ Dispatch!args # <<>>
       /\ append <=> "-a" \in Dispatch!ToSet(Dispatch!args)
       /\ idx <= Dispatch!Cardinality(Dispatch!Operands) + 1
       /\ IF idx = 1 THEN filepath = Dispatch!NoText
          ELSE FirstOperand /\ filepath \notin LongArgs
  /\ Dispatch!RunsAsTyped
  /\ Dispatch!UsageHonoured

(* The arguments are those behind the two words. *)
LEMMA ArgsFacts ==
  ASSUME argv \in Seq(TypedWords), \A k \in 3 .. Len(argv) : argv[k] \in Args
  PROVE  /\ Len(argv) \in Nat /\ Len(Dispatch!args) \in Nat
         /\ Dispatch!args \in Seq(Args)
         /\ DOMAIN Dispatch!args = 1 .. Len(Dispatch!args)
         /\ Len(Dispatch!args) = IF Len(argv) >= 2 THEN Len(argv) - 2 ELSE 0
         /\ \A k \in 1 .. Len(Dispatch!args) : Dispatch!args[k] \in Args
         /\ Dispatch!args = <<>> <=> Len(Dispatch!args) = 0
<1>1. Len(argv) \in Nat
  BY LenProperties
<1>2. /\ SubSeq(argv, 3, Len(argv)) \in Seq(Args)
      /\ Len(SubSeq(argv, 3, Len(argv))) = IF 3 <= Len(argv) THEN Len(argv) - 3 + 1 ELSE 0
  BY <1>1, SubSeqProperties
<1>3. /\ DOMAIN Dispatch!args = 1 .. Len(Dispatch!args)
      /\ Dispatch!args \in [1 .. Len(Dispatch!args) -> Args]
      /\ Len(Dispatch!args) \in Nat
      /\ Dispatch!args = <<>> <=> Len(Dispatch!args) = 0
  BY <1>2, LenProperties, EmptySeq DEF Dispatch!args
<1> QED
  BY <1>1, <1>2, <1>3 DEF Dispatch!args

(* Dispatch has the operators of the library under names of its own. *)
LEMMA LibraryInDispatch ==
  /\ \A S : Dispatch!Cardinality(S) = Cardinality(S)
  /\ \A S : Dispatch!ToSet(S) = {S[k] : k \in DOMAIN S}
  /\ \A S, e : Dispatch!Contains(S, e) <=> \E k \in 1 .. Len(S) : S[k] = e
<1>1. \A S : Dispatch!Cardinality(S) = Cardinality(S)
  BY DEF Dispatch!Cardinality, Cardinality
<1>2. \A S : Dispatch!ToSet(S) = {S[k] : k \in DOMAIN S}
  BY DEF Dispatch!ToSet
<1>3. \A S, e : Dispatch!Contains(S, e) <=> \E k \in 1 .. Len(S) : S[k] = e
  BY DEF Dispatch!Contains
<1> QED
  BY <1>1, <1>2, <1>3

(* The first of the operands. *)
LEMMA OperandFacts ==
  ASSUME argv \in Seq(TypedWords), \A k \in 3 .. Len(argv) : argv[k] \in Args
  PROVE  /\ Dispatch!Cardinality(Dispatch!Operands) \in 0 .. Len(Dispatch!args)
         /\ Dispatch!Cardinality(Dispatch!Operands) = 0 <=> Dispatch!Operands = {}
         /\ Dispatch!Operands # {} =>
              \E k \in Dispatch!Operands :
                /\ \A j \in Dispatch!Operands : k <= j
                /\ Dispatch!operand(1) = Dispatch!args[k]
         /\ Dispatch!Operands \subseteq 1 .. Len(Dispatch!args)
<1>1. /\ Dispatch!Operands \subseteq 1 .. Len(Dispatch!args)
      /\ Len(Dispatch!args) \in Nat
  BY ArgsFacts DEF Dispatch!Operands
<1>2. /\ IsFiniteSet(Dispatch!Operands)
      /\ Cardinality(Dispatch!Operands) <= Len(Dispatch!args)
      /\ Cardinality(Dispatch!Operands) \in Nat
  <2>1. PICK n \in Nat : n = Len(Dispatch!args)
    BY <1>1
  <2>2. IsFiniteSet(1 .. n) /\ Cardinality(1 .. n) = n
    BY FS_Interval
  <2>3. Dispatch!Operands \in SUBSET (1 .. n)
    BY <1>1, <2>1
  <2> QED
    BY <2>1, <2>2, <2>3, FS_Subset, FS_CardinalityType
<1>3. ASSUME Dispatch!Operands # {}
      PROVE  \E k \in Dispatch!Operands :
               /\ \A j \in Dispatch!Operands : k <= j
               /\ Dispatch!operand(1) = Dispatch!args[k]
  <2>1. PICK m \in Dispatch!Operands : \A j \in Dispatch!Operands : m <= j
    <3>1. PICK k : k \in Dispatch!Operands
      BY <1>3
    <3>2. Dispatch!Operands \in SUBSET Nat
      BY <1>1
    <3> QED
      BY <3>1, <3>2, LeastNat
  <2> DEFINE Upto(k) == {j \in Dispatch!Operands : j <= k}
  <2>2. \A k \in Dispatch!Operands : k \in Nat
    BY <1>1
  <2>3. Upto(m) = {m}
    BY <2>1, <2>2
  <2>4. Cardinality(Upto(m)) = 1
    BY <2>3, FS_Singleton
  <2>5. ASSUME NEW k \in Dispatch!Operands, Dispatch!Cardinality(Upto(k)) = 1
        PROVE  k = m
    <3>5. Cardinality(Upto(k)) = 1
      BY <2>5, LibraryInDispatch, Zenon
    <3>1. Upto(k) \in SUBSET Dispatch!Operands
      OBVIOUS
    <3>2. IsFiniteSet(Upto(k))
      BY <1>2, <3>1, FS_Subset
    <3>3. PICK x : Upto(k) = {x}
      BY <3>2, <3>5, FS_Singleton
    <3>4. k \in Upto(k) /\ m \in Upto(k)
      BY <2>1, <2>2
    <3> QED
      BY <3>3, <3>4
  <2>6. Dispatch!Cardinality(Upto(m)) = 1
    BY <2>4, LibraryInDispatch, Zenon
  <2>7. (CHOOSE k \in Dispatch!Operands : Dispatch!Cardinality(Upto(k)) = 1) = m
    BY <2>1, <2>5, <2>6
  <2>8. Dispatch!operand(1) = Dispatch!args[m]
    BY <2>7, Zenon DEF Dispatch!operand
  <2> QED
    BY <2>1, <2>8
<1>4. Cardinality(Dispatch!Operands) = 0 <=> Dispatch!Operands = {}
  BY <1>2, FS_EmptySet
<1>5. Dispatch!Cardinality(Dispatch!Operands) = Cardinality(Dispatch!Operands)
  BY LibraryInDispatch, Zenon
<1> QED
  BY <1>1, <1>2, <1>3, <1>4, <1>5

(* The length of a sequence that is given as a function. *)
LEMMA LenOfFunction ==
  ASSUME NEW S, NEW n \in Nat, NEW f \in [1 .. n -> S]
  PROVE  f \in Seq(S) /\ Len(f) = n
<1>1. f \in Seq(S)
  BY SeqDef
<1>2. Len(f) \in Nat /\ 1 .. Len(f) = 1 .. n
  BY <1>1, LenProperties, Zenon
<1>3. PICK m \in Nat : m = Len(f)
  BY <1>2
<1> QED
  BY <1>1, <1>2, <1>3, FS_Interval

(* The first words of two. *)
LEMMA FirstWords ==
  ASSUME NEW S, NEW c \in S, NEW q \in S, NEW n \in 0 .. 2
  PROVE  SubSeq(<<c, q>>, 1, n) \in Seq(S) /\ Len(SubSeq(<<c, q>>, 1, n)) = n
<1>1. \A k \in 1 .. n : <<c, q>>[k] \in S
  OBVIOUS
<1> QED
  BY <1>1, SubSeqProperties

(* What follows them. *)
LEMMA WordsAndArgs ==
  ASSUME NEW S, NEW A, NEW s \in Seq(S), NEW t \in Seq(A), A \subseteq S,
         Len(s) <= 2, Len(t) > 0 => Len(s) = 2
  PROVE  /\ s \o t \in Seq(S) /\ Len(s \o t) <= Len(t) + 2
         /\ \A k \in 3 .. Len(s \o t) : (s \o t)[k] \in A
<1>1. t \in Seq(S)
  BY SeqMonotonic
<1>2. /\ s \o t \in Seq(S) /\ Len(s \o t) = Len(s) + Len(t)
      /\ \A k \in 1 .. Len(s) + Len(t) :
           (s \o t)[k] = IF k <= Len(s) THEN s[k] ELSE t[k - Len(s)]
      /\ Len(s) \in Nat /\ Len(t) \in Nat
  BY <1>1, ConcatProperties, LenProperties
<1>3. \A k \in 1 .. Len(t) : t[k] \in A
  BY ElementOfSeq
<1> QED
  BY <1>2, <1>3

(* What can be typed: words and arguments in these numbers. *)
LEMMA TypedWordsFacts ==
  ASSUME NEW c \in TypedWords, NEW q \in TypedWords, NEW n \in 0 .. 2,
         NEW m \in Nat, m <= MaxArgs, MaxArgs \in Nat,
         NEW rest \in [1 .. m -> Args],
         NEW w
  PROVE  w = SubSeq(<<c, q>>, 1, n) \o (IF n = 2 THEN rest ELSE <<>>) =>
         /\ w \in Seq(TypedWords) /\ Len(w) <= MaxArgs + 2
         /\ \A k \in 3 .. Len(w) : w[k] \in Args
<1>1. rest \in Seq(Args) /\ Len(rest) = m
  BY LenOfFunction
<1>2. /\ SubSeq(<<c, q>>, 1, n) \in Seq(TypedWords)
      /\ Len(SubSeq(<<c, q>>, 1, n)) = n
  BY FirstWords
<1>3. Args \subseteq TypedWords
  BY DEF TypedWords
<1>4. PICK t : t = IF n = 2 THEN rest ELSE <<>>
  OBVIOUS
<1>5. t \in Seq(Args) /\ Len(t) <= MaxArgs /\ (Len(t) > 0 => n = 2)
  <2>1. CASE n = 2
    <3>1. t = rest
      BY <1>4, <2>1, Zenon
    <3> QED
      BY <1>1, <2>1, <3>1
  <2>2. CASE n # 2
    <3>1. t = <<>>
      BY <1>4, <2>2, Zenon
    <3>2. <<>> \in Seq(Args) /\ Len(<<>>) = 0
      BY EmptySeq
    <3>3. t \in Seq(Args) /\ Len(t) = 0
      BY <3>1, <3>2, Zenon
    <3> QED
      BY <3>3
  <2> QED
    BY <2>1, <2>2
<1>6. PICK s : s = SubSeq(<<c, q>>, 1, n)
  OBVIOUS
<1>7. s \in Seq(TypedWords) /\ Len(s) = n
  BY <1>2, <1>6, Zenon
<1>8. /\ s \o t \in Seq(TypedWords) /\ Len(s \o t) <= Len(t) + 2
      /\ \A k \in 3 .. Len(s \o t) : (s \o t)[k] \in Args
  BY <1>3, <1>5, <1>7, WordsAndArgs
<1>9. Len(s \o t) <= MaxArgs + 2
  <2>1. Len(s \o t) \in Nat /\ Len(t) \in Nat
    BY <1>5, <1>8, LenProperties
  <2> QED
    BY <1>5, <1>8, <2>1
<1> QED
  BY <1>4, <1>6, <1>8, <1>9, Zenon

(* Whatever is typed. *)
LEMMA DispatchInit == Dispatch!Init => DispatchInv
<1> SUFFICES ASSUME Dispatch!Init
             PROVE  DispatchInv
  OBVIOUS
<1>1. /\ pc = "main" /\ chapter = 0 /\ question = 0
      /\ filepath = Dispatch!NoText /\ idx = 1
  BY DEF Dispatch!Init
<1>2. append \in BOOLEAN
  BY DEF Dispatch!Init
<1>3. MaxArgs \in Nat
  BY ConstantsAssumption DEF Dispatch!ConstantsOK
<1>4. Dispatch!TypeOK
  <2>1. /\ pc \in {"main", "chptN_run", "chpt4_q1", "ran", "usage", "died"}
        /\ chapter \in 0 .. 8 /\ question \in 0 .. 7
        /\ question # 0 => question \in Dispatch!Questions[chapter]
        /\ filepath \in Args \cup {Dispatch!NoText}
    BY <1>1
  <2>2. idx \in 1 .. MaxArgs + 1
    BY <1>1, <1>3
  <2> QED
    BY <1>2, <2>1, <2>2, Zenon DEF Dispatch!TypeOK
<1>5. /\ argv \in Seq(TypedWords) /\ Len(argv) <= MaxArgs + 2
      /\ \A k \in 3 .. Len(argv) : argv[k] \in Args
  <2>1. PICK c \in Dispatch!Words(TypedPrefixes, {4, 5, 6, 7, 8, 9}),
             q \in Dispatch!Words({Dispatch!NoText, "q", "question", "c"}, {1, 2, 3, 4, 7, 9, 10}),
             rest \in Dispatch!BoundedSeq(Args, MaxArgs), n \in 0 .. 2 :
          argv = SubSeq(<<c, q>>, 1, n) \o (IF n = 2 THEN rest ELSE <<>>)
    BY DEF Dispatch!Init
  <2>2. c \in TypedWords /\ q \in TypedWords
    BY <2>1, Zenon DEF TypedWords
  <2>3. rest \in Dispatch!BoundedSeq(Args, MaxArgs) /\ n \in 0 .. 2
    BY <2>1, Zenon
  <2>4. PICK m \in 0 .. MaxArgs : rest \in [1 .. m -> Args]
    BY <2>3 DEF Dispatch!BoundedSeq, Dispatch!SeqOf
  <2>5. m \in Nat /\ m <= MaxArgs
    <3>1. m \in 0 .. MaxArgs
      BY <2>4, Zenon
    <3> QED
      BY <1>3, <3>1
  <2>6. rest \in [1 .. m -> Args]
    BY <2>4, Zenon
  <2> QED
    BY <1>3, <2>1, <2>2, <2>3, <2>5, <2>6, TypedWordsFacts
<1> QED
  BY <1>1, <1>4, <1>5 DEF DispatchInv, Dispatch!RunsAsTyped, Dispatch!UsageHonoured

(* No step changes what was typed. *)
LEMMA TypedIsKept ==
  ASSUME argv' = argv
  PROVE  /\ Dispatch!args' = Dispatch!args
         /\ Dispatch!Operands' = Dispatch!Operands
         /\ Dispatch!Cardinality(Dispatch!Operands)' = Dispatch!Cardinality(Dispatch!Operands)
<1>1. Dispatch!args' = Dispatch!args
  BY DEF Dispatch!args
<1>2. Dispatch!Operands' = Dispatch!Operands
  BY <1>1 DEF Dispatch!Operands
<1> QED
  BY <1>1, <1>2

(* Every step from main to an exercise preserves the invariant. *)
LEMMA DispatchStep ==
  DispatchInv /\ [Dispatch!Next]_Dispatch!vars => DispatchInv'
<1> SUFFICES ASSUME DispatchInv, [Dispatch!Next]_Dispatch!vars
             PROVE  DispatchInv'
  OBVIOUS
<1>1. argv' = argv
  BY DEF Dispatch!Next, Dispatch!vars, Dispatch!Main, Dispatch!MainRefuses,
         Dispatch!Question, Dispatch!NoQuestion, Dispatch!RunAtOnce,
         Dispatch!Chpt4Q1, Dispatch!Filepath, Dispatch!RunChpt4Q1,
         Dispatch!Chpt4Q2, Dispatch!Chpt5, Dispatch!Stop
<1>2. /\ Dispatch!args' = Dispatch!args
      /\ Dispatch!Operands' = Dispatch!Operands
      /\ Dispatch!Cardinality(Dispatch!Operands)' = Dispatch!Cardinality(Dispatch!Operands)
  BY <1>1, TypedIsKept
<1>3. /\ argv \in Seq(TypedWords) /\ Len(argv) <= MaxArgs + 2
      /\ \A k \in 3 .. Len(argv) : argv[k] \in Args
  BY DEF DispatchInv
<1>4. /\ Len(argv) \in Nat /\ Len(Dispatch!args) \in Nat
      /\ DOMAIN Dispatch!args = 1 .. Len(Dispatch!args)
      /\ Len(Dispatch!args) = IF Len(argv) >= 2 THEN Len(argv) - 2 ELSE 0
      /\ \A k \in 1 .. Len(Dispatch!args) : Dispatch!args[k] \in Args
      /\ Dispatch!args = <<>> <=> Len(Dispatch!args) = 0
  BY <1>3, ArgsFacts
<1>5. /\ MaxArgs \in Nat /\ Dispatch!NoText \notin LongArgs
  BY ConstantsAssumption DEF Dispatch!ConstantsOK
<1>6. \A n \in 4 .. 8 : Dispatch!Questions[n] \subseteq 1 .. 7
  BY DEF Dispatch!Questions
<1> USE DEF DispatchInv, Dispatch!TypeOK, Dispatch!RunsAsTyped,
            Dispatch!UsageHonoured, FirstOperand, Dispatch!Stop, Dispatch!Asked
<1>7. CASE UNCHANGED Dispatch!vars
  BY <1>1, <1>2, <1>7 DEF Dispatch!vars, Dispatch!FitsUsage
<1>8. CASE Dispatch!MainRefuses
  BY <1>1, <1>2, <1>8 DEF Dispatch!MainRefuses
<1>9. CASE Dispatch!Main
  BY <1>1, <1>2, <1>9 DEF Dispatch!Main, Dispatch!cmp_chpt, Dispatch!sameWord
<1>10. CASE Dispatch!NoQuestion
  BY <1>1, <1>2, <1>10 DEF Dispatch!NoQuestion
<1>11. CASE Dispatch!Question
  BY <1>1, <1>2, <1>6, <1>11 DEF Dispatch!Question, Dispatch!cmp_question, Dispatch!sameWord
<1>12. CASE Dispatch!RunAtOnce
  BY <1>1, <1>2, <1>5, <1>12 DEF Dispatch!RunAtOnce
<1>13. CASE Dispatch!Chpt4Q1
  <2>1. /\ pc = "chptN_run" /\ chapter = 4 /\ question = 1
        /\ chapter' = chapter /\ question' = question /\ idx' = idx
        /\ filepath' = filepath
    BY <1>13 DEF Dispatch!Chpt4Q1
  <2>2. CASE Dispatch!args = <<>>
    <3>1. pc' = "usage" /\ append' = append
      BY <1>13, <2>2 DEF Dispatch!Chpt4Q1
    <3>2. Len(Dispatch!args) = 0
      BY <1>4, <2>2
    <3>3. ~Dispatch!FitsUsage'
      BY <1>2, <2>1, <3>2 DEF Dispatch!FitsUsage
    <3> QED
      BY <1>1, <1>2, <2>1, <3>1, <3>3
  <2>3. CASE Dispatch!args # <<>>
    <3>1. /\ append' = Dispatch!Contains(Dispatch!args, "-a") /\ pc' = "chpt4_q1"
      BY <1>13, <2>3 DEF Dispatch!Chpt4Q1
    <3>2. append' <=> "-a" \in Dispatch!ToSet(Dispatch!args)
      <4>1. append' <=> \E k \in 1 .. Len(Dispatch!args) : Dispatch!args[k] = "-a"
        BY <3>1, LibraryInDispatch, Zenon
      <4>2. Dispatch!ToSet(Dispatch!args)
              = {Dispatch!args[k] : k \in 1 .. Len(Dispatch!args)}
        BY <1>4, LibraryInDispatch, Zenon
      <4> QED
        BY <4>1, <4>2
    <3>3. append' \in BOOLEAN
      BY <3>1 DEF Dispatch!Contains
    <3>4. 1 <= Dispatch!Cardinality(Dispatch!Operands) + 1
      BY <1>3, OperandFacts
    <3>5. ~Dispatch!FitsUsage' \/ pc' \notin {"usage", "died"}
      BY <3>1
    <3>6. (append <=> "-a" \in Dispatch!ToSet(Dispatch!args))'
      BY <1>2, <3>2, Zenon
    <3> QED
      BY <1>1, <1>2, <2>1, <2>3, <3>1, <3>3, <3>4, <3>6
  <2> QED
    BY <2>2, <2>3
<1>14. CASE Dispatch!Filepath
  <2>1. /\ pc = "chpt4_q1" /\ chapter = 4 /\ question = 1
        /\ chapter' = chapter /\ question' = question /\ idx' = idx + 1
        /\ append' = append /\ idx <= Dispatch!Cardinality(Dispatch!Operands)
        /\ filepath' = IF idx = 1 THEN Dispatch!operand(1) ELSE filepath
        /\ pc' = IF idx = 1 /\ Dispatch!operand(1) \in LongArgs THEN "usage" ELSE pc
    BY <1>14 DEF Dispatch!Filepath
  <2>2. idx \in 1 .. MaxArgs + 1
    OBVIOUS
  <2>3. /\ Dispatch!Cardinality(Dispatch!Operands) \in 0 .. Len(Dispatch!args)
        /\ Len(Dispatch!args) <= MaxArgs
    BY <1>3, <1>4, <1>5, OperandFacts
  <2>4. idx' \in 1 .. MaxArgs + 1 /\ idx' # 1
        /\ idx' <= Dispatch!Cardinality(Dispatch!Operands) + 1
    BY <1>5, <2>1, <2>2, <2>3
  <2>5. CASE idx # 1
    <3>1. pc' = pc /\ filepath' = filepath
      BY <2>1, <2>5
    <3>2. FirstOperand'
      BY <1>2, <2>5, <2>1, <3>1
    <3> QED
      BY <1>1, <1>2, <2>1, <2>4, <2>5, <3>1, <3>2
  <2>6. CASE idx = 1
    <3>1. Dispatch!Operands # {}
      BY <1>3, <2>1, <2>3, <2>6, OperandFacts
    <3>2. PICK k \in Dispatch!Operands :
            /\ \A j \in Dispatch!Operands : k <= j
            /\ Dispatch!operand(1) = Dispatch!args[k]
      BY <1>3, <3>1, OperandFacts
    <3>3. /\ k \in 1 .. Len(Dispatch!args) /\ Dispatch!args[k] # "-a"
          /\ \A j \in 1 .. Len(Dispatch!args) : Dispatch!args[j] # "-a" => k <= j
      BY <1>4, <3>2 DEF Dispatch!Operands
    <3>4. filepath' = Dispatch!args[k]
      BY <2>1, <2>6, <3>2
    <3>5. ASSUME NEW m \in 1 .. Len(Dispatch!args), Dispatch!args[m] # "-a",
                 \A j \in 1 .. m - 1 : Dispatch!args[j] = "-a"
          PROVE  m = k
      BY <1>4, <3>3, <3>5
    <3>6. FirstOperand'
      BY <1>2, <1>4, <3>4, <3>5
    <3>7. filepath' \in Args
      BY <1>4, <3>3, <3>4
    <3>8. CASE Dispatch!operand(1) \in LongArgs
      <4>1. pc' = "usage" /\ Dispatch!args[k] \in LongArgs
        BY <2>1, <2>6, <3>2, <3>8
      <4>2. ~Dispatch!FitsUsage'
        <5>1. ASSUME Dispatch!FitsUsage'
              PROVE  FALSE
          <6>1. PICK n \in {1, 2} :
                  /\ Len(Dispatch!args) = n
                  /\ Dispatch!args[n] \notin LongArgs \cup {"-a"}
                  /\ n = 2 => Dispatch!args[1] = "-a"
            BY <1>2, <2>1, <5>1 DEF Dispatch!FitsUsage
          <6>2. k = n
            BY <1>4, <3>3, <6>1
          <6> QED
            BY <4>1, <6>1, <6>2
        <5> QED
          BY <5>1
      <4> QED
        BY <1>1, <1>2, <2>1, <2>4, <3>7, <4>1, <4>2
    <3>9. CASE Dispatch!operand(1) \notin LongArgs
      <4>1. pc' = pc /\ filepath' \notin LongArgs
        BY <2>1, <2>6, <3>9
      <4> QED
        BY <1>1, <1>2, <2>1, <2>4, <3>6, <3>7, <4>1
    <3> QED
      BY <3>8, <3>9
  <2> QED
    BY <2>5, <2>6
<1>15. CASE Dispatch!RunChpt4Q1
  <2>1. /\ pc = "chpt4_q1" /\ chapter = 4 /\ question = 1 /\ pc' = "ran"
        /\ chapter' = chapter /\ question' = question /\ idx' = idx
        /\ append' = append /\ filepath' = filepath
        /\ idx > Dispatch!Cardinality(Dispatch!Operands)
    BY <1>15 DEF Dispatch!RunChpt4Q1
  <2>2. filepath \notin LongArgs /\ FirstOperand
    <3>1. CASE idx = 1
      <4>1. Dispatch!Cardinality(Dispatch!Operands) = 0
        BY <1>3, <1>4, <2>1, <3>1, OperandFacts
      <4>2. Dispatch!Operands = {}
        BY <1>3, <4>1, OperandFacts
      <4>3. FirstOperand
        BY <4>2 DEF Dispatch!Operands
      <4> QED
        BY <1>5, <2>1, <3>1, <4>3
    <3>2. CASE idx # 1
      BY <2>1, <3>2
    <3> QED
      BY <3>1, <3>2
  <2>3. \A k \in DOMAIN Dispatch!args :
          Dispatch!args[k] # "-a" /\ (\A j \in 1 .. k - 1 : Dispatch!args[j] = "-a") =>
            filepath = Dispatch!args[k]
    BY <2>2
  <2> QED
    BY <1>1, <1>2, <2>1, <2>2, <2>3
<1>16. CASE Dispatch!Chpt4Q2
  BY <1>1, <1>2, <1>5, <1>16 DEF Dispatch!Chpt4Q2, Dispatch!FitsUsage
<1>17. CASE Dispatch!Chpt5
  <2>1. /\ pc = "chptN_run" /\ chapter = 5 /\ question \in {1, 3}
        /\ chapter' = chapter /\ question' = question /\ idx' = idx
    BY <1>17 DEF Dispatch!Chpt5
  <2>2. CASE Dispatch!WrongCount
    <3>1. pc' = "usage" /\ append' = append /\ filepath' = filepath
      BY <1>17, <2>2 DEF Dispatch!Chpt5
    <3>2. ~Dispatch!FitsUsage'
      BY <1>2, <1>4, <2>1, <2>2 DEF Dispatch!WrongCount, Dispatch!FitsUsage
    <3> QED
      BY <1>1, <1>2, <2>1, <3>1, <3>2
  <2>3. CASE ~Dispatch!WrongCount
    <3>1. /\ filepath' = Dispatch!args[1]
          /\ pc' = IF Dispatch!args[1] \in LongArgs THEN "usage"
                   ELSE Dispatch!CheckNumber(Dispatch!args[2])
      BY <1>17, <2>3 DEF Dispatch!Chpt5
    <3>2. /\ Len(Dispatch!args) >= 2 /\ filepath' \in Args
          /\ question = 1 => Len(Dispatch!args) = 2
      <4>1. ~(Len(Dispatch!args) < 2) /\ ~(question = 1 /\ Len(Dispatch!args) > 2)
        BY <2>3, Zenon DEF Dispatch!WrongCount
      <4>2. PICK n \in Nat : n = Len(Dispatch!args)
        BY <1>4, Zenon
      <4>3. n \in Nat /\ ~(n < 2) /\ ~(question = 1 /\ n > 2)
        BY <4>1, <4>2, Zenon
      <4>4. n >= 2 /\ (question = 1 => n = 2)
        BY <4>3
      <4>5. Dispatch!args[1] \in Args
        BY <1>4, <4>2, <4>4
      <4> QED
        BY <3>1, <4>2, <4>4, <4>5
    <3>3. /\ append' \in BOOLEAN
          /\ append' <=> question = 3 /\ Len(Dispatch!args) < 3
      BY <1>17, <2>3, Zenon DEF Dispatch!Chpt5
    <3>4. append' <=> question = 3 /\ Len(Dispatch!args) = 2
      <4>1. PICK n \in Nat : n = Len(Dispatch!args)
        BY <1>4, Zenon
      <4>2. n \in Nat /\ n >= 2 /\ (append' <=> question = 3 /\ n < 3)
        BY <3>2, <3>3, <4>1, Zenon
      <4>3. n < 3 <=> n = 2
        BY <4>2
      <4> QED
        BY <3>3, <4>1, <4>3, Zenon
    <3>5. CASE Dispatch!args[1] \in LongArgs \/ Dispatch!args[2] \notin NumberArgs
      <4>1. pc' \in {"usage", "died"}
        BY <3>1, <3>5 DEF Dispatch!CheckNumber
      <4>2. ~Dispatch!FitsUsage'
        BY <1>2, <2>1, <3>5 DEF Dispatch!FitsUsage
      <4> QED
        BY <1>1, <1>2, <2>1, <3>2, <3>3, <4>1, <4>2
    <3>6. CASE Dispatch!args[1] \notin LongArgs /\ Dispatch!args[2] \in NumberArgs
      <4>1. pc' = "ran" /\ filepath' \notin LongArgs
        BY <3>1, <3>6 DEF Dispatch!CheckNumber
      <4> QED
        BY <1>1, <1>2, <2>1, <3>1, <3>2, <3>3, <3>4, <3>6, <4>1
    <3> QED
      BY <3>5, <3>6
  <2> QED
    BY <2>2, <2>3
<1> QED
  BY <1>7, <1>8, <1>9, <1>10, <1>11, <1>12, <1>13, <1>14, <1>15, <1>16, <1>17
     DEF Dispatch!Next

-----------------------------------------------------------------------------
(* Offsets: what a file may hold, and the calls of the running program. *)
Cells ==
  {Offsets!Hole, Offsets!Null, "old", "test", "data", "Hello,", "world",
   "HELLO,", "Gidday"}

Descriptions == [offset : Nat, append : BOOLEAN]

Calls == Offsets!Script(prog)

(* The n-th call is the next. *)
AtCall(n) ==
  /\ n \in 1 .. Len(Calls) + 1
  /\ script = SubSeq(Calls, n, Len(Calls))

OffsetsTypes ==
  /\ file = Offsets!NoFile \/ file \in Seq(Cells)
  /\ ofds \in Seq(Descriptions)
  /\ fds \in [Offsets!Variables -> {-1} \cup 1 .. Len(ofds)]
  /\ \A x \in Offsets!Variables : fds[x] # -1 => file \in Seq(Cells)
  /\ status \in {"running", "exited", "died", "aborted"}
  /\ clean \in BOOLEAN
  /\ before = Offsets!NoFile \/ before \in Seq(Cells)
  /\ prog \in Offsets!Programs

(* What the programs have done before their n-th call. *)
State1(n) ==
  /\ n = 1 => file = before /\ ofds = <<>>
  /\ n \in {2, 3} => /\ fds["fd"] = 1 /\ Len(ofds) = 1 /\ ~ofds[1].append
                     /\ file = Offsets!Existing
  /\ n = 3 => ofds[1].offset = prog[2]
  /\ n = 4 /\ clean =>
       file = Offsets!PutAt(Offsets!Existing, prog[2], Offsets!Text("test", 4))

State2(n) ==
  /\ n = 1 => file = before /\ ofds = <<>>
  /\ n \in {2, 3} => /\ fds["fd"] = 1 /\ Len(ofds) = 1 /\ ofds[1].append
                     /\ file = before
  /\ n \in {4, 5} => file = before \o Offsets!Text("data", DataBytes)
  /\ n # 1 => before # Offsets!NoFile

State5(n) ==
  /\ n = 1 => ofds = <<>>
  /\ n \in 2 .. 7 => fds["fd"] = 1
  /\ n \in 3 .. 7 => fds["dup_fd"] = 1
  /\ n = 6 => ofds[1].offset = RandomOffset
  /\ n # 1 => file = <<>>

Hello == Offsets!Text("Hello,", 6)
World == Offsets!Text("world", 5) \o <<Offsets!Null>>
HELLO == Offsets!Text("HELLO,", 6)
Gidday == Offsets!Text("Gidday", 6)
Written1 == Offsets!PutAt(<<>>, 0, Hello)
Written2 == Offsets!PutAt(Written1, 6, World)
Written3 == Offsets!PutAt(Written2, 0, HELLO)
Written4 == Offsets!PutAt(Written3, 0, Gidday)

State6(n) ==
  /\ n = 1 => ofds = <<>>
  /\ n \in 2 .. 9 => fds["fd1"] = 1 /\ ~ofds[1].append
  /\ n \in 2 .. 3 => Len(ofds) = 1
  /\ n \in 3 .. 9 => fds["fd2"] = 1
  /\ n \in 4 .. 9 => fds["fd3"] = 2 /\ Len(ofds) = 2 /\ ~ofds[2].append
  /\ n \in 4 .. 8 => ofds[2].offset = 0
  /\ n \in 2 .. 4 => file = <<>> /\ ofds[1].offset = 0
  /\ n = 5 => file = Written1 /\ ofds[1].offset = 6
  /\ n \in {6, 7} => file = Written2
  /\ n = 7 => ofds[1].offset = 0
  /\ n = 8 => file = Written3
  /\ n \in 9 .. 11 => file = Written4

StateBefore(n) ==
  /\ prog[1] = "q1" => State1(n)
  /\ prog[1] = "q2" => State2(n)
  /\ prog[1] = "q5" => State5(n)
  /\ prog[1] = "q6" /\ clean => State6(n)

OffsetsInv ==
  /\ OffsetsTypes
  /\ status = "running" => \E n \in 1 .. 11 : AtCall(n) /\ StateBefore(n)
  /\ Offsets!Outcomes
  /\ Offsets!AssertsHold

(* g is the file f with s at the offset at. *)
IsPut(g, f, at, s) ==
  /\ Len(g) = IF at + Len(s) < Len(f) THEN Len(f) ELSE at + Len(s)
  /\ \A k \in 1 .. Len(g) :
       g[k] = IF k \in at + 1 .. at + Len(s) THEN s[k - at]
              ELSE IF k <= Len(f) THEN f[k] ELSE Offsets!Hole

(* What a write leaves in a file, wherever it begins. *)
LEMMA PutAnywhere ==
  ASSUME NEW S, NEW f \in Seq(S), NEW at \in Nat, NEW s \in Seq(S), Len(s) > 0,
         Offsets!Hole \in S
  PROVE  /\ Offsets!PutAt(f, at, s) \in Seq(S)
         /\ IsPut(Offsets!PutAt(f, at, s), f, at, s)
<1>1. PICK m \in Nat : m = Len(f) /\ f \in [1 .. m -> S]
  BY LenProperties
<1>2. PICK l \in Nat : l = Len(s) /\ s \in [1 .. l -> S]
  BY LenProperties
<1>3. PICK n : n = IF at + l < m THEN m ELSE at + l
  OBVIOUS
<1>4. n \in Nat
  <2>1. m \in Nat /\ l \in Nat /\ at \in Nat
    BY <1>1, <1>2, Zenon
  <2> QED
    BY <1>3, <2>1
<1>5. PICK g : g = [k \in 1 .. n |->
                      IF k \in at + 1 .. at + l THEN s[k - at]
                      ELSE IF k <= m THEN f[k] ELSE Offsets!Hole]
  OBVIOUS
<1>6. g = Offsets!PutAt(f, at, s)
  <2>1. s # <<>>
    BY <1>2
  <2> QED
    BY <1>1, <1>2, <1>3, <1>5, <2>1, Zenon DEF Offsets!PutAt
<1>7. \A k \in 1 .. n : IF k \in at + 1 .. at + l THEN k - at \in 1 .. l
                        ELSE k <= m => k \in 1 .. m
  BY <1>1, <1>2, <1>4
<1>8. g \in [1 .. n -> S]
  <2>1. \A k \in 1 .. n :
          (IF k \in at + 1 .. at + l THEN s[k - at]
           ELSE IF k <= m THEN f[k] ELSE Offsets!Hole) \in S
    BY <1>1, <1>2, <1>7
  <2> QED
    BY <1>5, <2>1
<1>9. g \in Seq(S) /\ Len(g) = n
  BY <1>4, <1>8, LenOfFunction
<1>10. \A k \in 1 .. n :
         g[k] = IF k \in at + 1 .. at + l THEN s[k - at]
                ELSE IF k <= m THEN f[k] ELSE Offsets!Hole
  BY <1>5
<1> QED
  BY <1>1, <1>2, <1>3, <1>6, <1>9, <1>10, Zenon DEF IsPut

(* n bytes of one text. *)
LEMMA TextFacts ==
  ASSUME NEW t, NEW n \in Nat
  PROVE  /\ Offsets!Text(t, n) \in Seq({t}) /\ Len(Offsets!Text(t, n)) = n
         /\ \A k \in 1 .. n : Offsets!Text(t, n)[k] = t
<1>1. PICK f : f = [k \in 1 .. n |-> t]
  OBVIOUS
<1>2. f \in [1 .. n -> {t}] /\ \A k \in 1 .. n : f[k] = t
  BY <1>1
<1>3. f = Offsets!Text(t, n)
  BY <1>1 DEF Offsets!Text
<1> QED
  BY <1>2, <1>3, LenOfFunction

(* A program goes through its script from the front. *)
LEMMA Suffix ==
  ASSUME NEW S, NEW s \in Seq(S), NEW n \in 1 .. Len(s) + 1
  PROVE  /\ n <= Len(s) => /\ SubSeq(s, n, Len(s)) # <<>>
                           /\ Head(SubSeq(s, n, Len(s))) = s[n]
                           /\ Tail(SubSeq(s, n, Len(s))) = SubSeq(s, n + 1, Len(s))
         /\ n = Len(s) + 1 => SubSeq(s, n, Len(s)) = <<>>
<1>1. PICK l \in Nat : l = Len(s) /\ s \in [1 .. l -> S]
  BY LenProperties
<1>2. n \in 1 .. l + 1
  BY <1>1
<1>3. ASSUME NEW m \in 1 .. l + 1
      PROVE  /\ SubSeq(s, m, l) \in Seq(S)
             /\ Len(SubSeq(s, m, l)) = l - m + 1
             /\ \A k \in 1 .. l - m + 1 : SubSeq(s, m, l)[k] = s[m + k - 1]
  <2>1. m \in Int /\ l \in Int /\ \A k \in m .. l : s[k] \in S
    BY <1>1
  <2>2. (IF m <= l THEN l - m + 1 ELSE 0) = l - m + 1
    BY <1>3
  <2> QED
    BY <2>1, <2>2, SubSeqProperties
<1>4. CASE n <= l
  <2>1. PICK r : r = SubSeq(s, n, l)
    OBVIOUS
  <2>2. PICK u : u = SubSeq(s, n + 1, l)
    OBVIOUS
  <2>3. /\ r \in Seq(S) /\ Len(r) = l - n + 1
        /\ \A k \in 1 .. l - n + 1 : r[k] = s[n + k - 1]
    BY <1>2, <1>3, <2>1
  <2>4. /\ u \in Seq(S) /\ Len(u) = l - n
        /\ \A k \in 1 .. l - n : u[k] = s[n + k]
    <3>1. n + 1 \in 1 .. l + 1 /\ l - (n + 1) + 1 = l - n
      BY <1>1, <1>2, <1>4
    <3>2. \A k \in 1 .. l - n : n + 1 + k - 1 = n + k
      BY <1>1, <1>2
    <3> QED
      BY <1>3, <2>2, <3>1, <3>2
  <2>5. r # <<>> /\ Head(r) = s[n]
    BY <1>1, <1>2, <1>4, <2>3
  <2>6. Tail(r) = u
    <3>1. /\ Tail(r) \in Seq(S) /\ Len(Tail(r)) = l - n
          /\ \A k \in 1 .. l - n : Tail(r)[k] = r[k + 1]
      BY <1>1, <1>2, <1>4, <2>3, <2>5, HeadTailProperties
    <3>2. \A k \in 1 .. l - n : r[k + 1] = s[n + k]
      BY <1>1, <1>2, <1>4, <2>3
    <3> QED
      BY <1>1, <1>2, <2>4, <3>1, <3>2, SeqEqual
  <2>7. n # l + 1
    BY <1>1, <1>2, <1>4
  <2> QED
    BY <1>1, <1>4, <2>1, <2>2, <2>5, <2>6, <2>7, Zenon
<1>5. CASE n = l + 1
  <2>1. SubSeq(s, n, l) \in Seq(S) /\ Len(SubSeq(s, n, l)) = 0
    BY <1>1, <1>3, <1>5
  <2>2. SubSeq(s, n, l) = <<>>
    BY <2>1, EmptySeq
  <2> QED
    BY <1>1, <1>5, <2>2
<1> QED
  BY <1>1, <1>2, <1>4, <1>5

(* The script of question 1. *)
LEMMA Script1 ==
  ASSUME NEW n
  PROVE  LET s == Offsets!Question1(n) IN
           /\ \E S : s \in Seq(S)
           /\ Len(s) = 3
           /\ s[1] = Offsets!Opens("fd", {"O_CREAT"}, "exit")
           /\ s[2] = Offsets!Seeks("fd", n, "exit")
           /\ s[3] = Offsets!Writes("fd", Offsets!Text("test", 4), "exit")
<1>1. PICK a, b, c : /\ a = Offsets!Opens("fd", {"O_CREAT"}, "exit")
                     /\ b = Offsets!Seeks("fd", n, "exit")
                     /\ c = Offsets!Writes("fd", Offsets!Text("test", 4), "exit")
  OBVIOUS
<1>2. Offsets!Question1(n) = <<a, b, c>>
  BY <1>1, Zenon DEF Offsets!Question1
<1>3. /\ <<a, b, c>> \in Seq({a, b, c}) /\ Len(<<a, b, c>>) = 3
      /\ <<a, b, c>>[1] = a /\ <<a, b, c>>[2] = b /\ <<a, b, c>>[3] = c
  OBVIOUS
<1> QED
  BY <1>1, <1>2, <1>3, Zenon

(* The script of question 2. *)
LEMMA Script2 ==
  LET s == Offsets!Question2 IN
    /\ \E S : s \in Seq(S)
    /\ Len(s) = 4
    /\ s[1] = Offsets!Opens("fd", {"O_APPEND"}, "exit")
    /\ s[2] = Offsets!Seeks("fd", 0, "exit")
    /\ s[3] = Offsets!Writes("fd", Offsets!Text("data", DataBytes), "deliver")
    /\ s[4] = Offsets!Closes("fd")
<1>1. PICK a, b, c, d :
        /\ a = Offsets!Opens("fd", {"O_APPEND"}, "exit")
        /\ b = Offsets!Seeks("fd", 0, "exit")
        /\ c = Offsets!Writes("fd", Offsets!Text("data", DataBytes), "deliver")
        /\ d = Offsets!Closes("fd")
  OBVIOUS
<1> DEFINE t == <<a, b, c, d>>
<1>2. Offsets!Question2 = t
  BY <1>1, Zenon DEF Offsets!Question2
<1>3. /\ t \in Seq({a, b, c, d}) /\ Len(t) = 4
      /\ t[1] = a /\ t[2] = b /\ t[3] = c
      /\ t[4] = d
  OBVIOUS
<1> HIDE DEF t
<1> QED
  BY <1>1, <1>2, <1>3, Zenon

(* The script of question 5. *)
LEMMA Script5 ==
  LET s == Offsets!Question5 IN
    /\ \E S : s \in Seq(S)
    /\ Len(s) = 7
    /\ s[1] = Offsets!Opens("fd", {"O_CREAT", "O_TRUNC"}, "exit")
    /\ s[2] = Offsets!Dups("dup_fd", "fd", "exit")
    /\ s[3] = Offsets!Fcntls("fd")
    /\ s[4] = Offsets!Fcntls("fd")
    /\ s[5] = Offsets!Seeks("fd", RandomOffset, "exit")
    /\ s[6] = Offsets!AssertsAt("dup_fd", RandomOffset)
    /\ s[7] = Offsets!Closes("fd")
<1>1. PICK a, b, c, d, e, g, h :
        /\ a = Offsets!Opens("fd", {"O_CREAT", "O_TRUNC"}, "exit")
        /\ b = Offsets!Dups("dup_fd", "fd", "exit")
        /\ c = Offsets!Fcntls("fd")
        /\ d = Offsets!Fcntls("fd")
        /\ e = Offsets!Seeks("fd", RandomOffset, "exit")
        /\ g = Offsets!AssertsAt("dup_fd", RandomOffset)
        /\ h = Offsets!Closes("fd")
  OBVIOUS
<1> DEFINE t == <<a, b, c, d, e, g, h>>
<1>2. Offsets!Question5 = t
  BY <1>1, Zenon DEF Offsets!Question5
<1>3. /\ t \in Seq({a, b, c, d, e, g, h}) /\ Len(t) = 7
      /\ t[1] = a /\ t[2] = b /\ t[3] = c
      /\ t[4] = d /\ t[5] = e /\ t[6] = g
      /\ t[7] = h
  OBVIOUS
<1> HIDE DEF t
<1> QED
  BY <1>1, <1>2, <1>3, Zenon

(* The script of question 6. *)
LEMMA Script6 ==
  LET s == Offsets!Question6 IN
    /\ \E S : s \in Seq(S)
    /\ Len(s) = 10
    /\ s[1] = Offsets!Opens("fd1", {"O_CREAT", "O_TRUNC"}, "none")
    /\ s[2] = Offsets!Dups("fd2", "fd1", "none")
    /\ s[3] = Offsets!Opens("fd3", {}, "none")
    /\ s[4] = Offsets!Writes("fd1", Hello, "none")
    /\ s[5] = Offsets!Writes("fd2", World, "none")
    /\ s[6] = Offsets!Seeks("fd2", 0, "none")
    /\ s[7] = Offsets!Writes("fd1", HELLO, "none")
    /\ s[8] = Offsets!Writes("fd3", Gidday, "none")
    /\ s[9] = Offsets!Closes("fd1")
    /\ s[10] = Offsets!Closes("fd3")
<1>1. PICK a, b, c, d, e, g, h, j, k, l :
        /\ a = Offsets!Opens("fd1", {"O_CREAT", "O_TRUNC"}, "none")
        /\ b = Offsets!Dups("fd2", "fd1", "none")
        /\ c = Offsets!Opens("fd3", {}, "none")
        /\ d = Offsets!Writes("fd1", Hello, "none")
        /\ e = Offsets!Writes("fd2", World, "none")
        /\ g = Offsets!Seeks("fd2", 0, "none")
        /\ h = Offsets!Writes("fd1", HELLO, "none")
        /\ j = Offsets!Writes("fd3", Gidday, "none")
        /\ k = Offsets!Closes("fd1")
        /\ l = Offsets!Closes("fd3")
  OBVIOUS
<1> DEFINE t == <<a, b, c, d, e, g, h, j, k, l>>
<1>2. Offsets!Question6 = t
  BY <1>1, Zenon DEF Offsets!Question6, Hello, World, HELLO, Gidday
<1>3. /\ t \in Seq({a, b, c, d, e, g, h, j, k, l}) /\ Len(t) = 10
      /\ t[1] = a /\ t[2] = b /\ t[3] = c
      /\ t[4] = d /\ t[5] = e /\ t[6] = g
      /\ t[7] = h /\ t[8] = j /\ t[9] = k
      /\ t[10] = l
  OBVIOUS
<1> HIDE DEF t
<1> QED
  BY <1>1, <1>2, <1>3, Zenon

(* What the calls may name. *)
WellFormed(c) ==
  /\ c.op \in {"open", "dup", "lseek", "write", "fcntl", "close", "assert"}
  /\ c.fd \in Offsets!Variables
  /\ c.op = "dup" => c.from \in Offsets!Variables
  /\ c.op = "lseek" => c.at \in Nat
  /\ c.op = "write" => c.s \in Seq(Cells) /\ Len(c.s) > 0

(* What is written. *)
LEMMA WrittenTexts ==
  /\ Offsets!Text("test", 4) \in Seq(Cells) /\ Len(Offsets!Text("test", 4)) = 4
  /\ /\ Offsets!Text("data", DataBytes) \in Seq(Cells)
     /\ Len(Offsets!Text("data", DataBytes)) = DataBytes
  /\ DataBytes \in Nat \ {0} /\ RandomOffset \in Nat \ {0} /\ MaxOffset \in Nat
  /\ Hello \in Seq(Cells) /\ Len(Hello) = 6
  /\ HELLO \in Seq(Cells) /\ Len(HELLO) = 6
  /\ Gidday \in Seq(Cells) /\ Len(Gidday) = 6
  /\ World \in Seq(Cells) /\ Len(World) = 6
<1>1. DataBytes \in Nat \ {0} /\ RandomOffset \in Nat \ {0} /\ MaxOffset \in Nat
  BY ConstantsAssumption DEF Offsets!ConstantsOK
<1>2. ASSUME NEW t \in Cells, NEW n \in Nat
      PROVE  Offsets!Text(t, n) \in Seq(Cells) /\ Len(Offsets!Text(t, n)) = n
  <2>1. Offsets!Text(t, n) \in Seq({t}) /\ Len(Offsets!Text(t, n)) = n
    BY TextFacts
  <2>2. {t} \subseteq Cells
    OBVIOUS
  <2> QED
    BY <2>1, <2>2, SeqMonotonic
<1>3. /\ "test" \in Cells /\ "data" \in Cells /\ "Hello," \in Cells
      /\ "world" \in Cells /\ "HELLO," \in Cells /\ "Gidday" \in Cells
      /\ Offsets!Null \in Cells
  BY DEF Cells
<1>4. World \in Seq(Cells) /\ Len(World) = 6
  <2>1. /\ Offsets!Text("world", 5) \in Seq(Cells)
        /\ Len(Offsets!Text("world", 5)) = 5
    BY <1>2, <1>3
  <2>2. PICK u : u = Offsets!Text("world", 5)
    OBVIOUS
  <2>3. PICK x : x = Offsets!Null
    OBVIOUS
  <2>4. x \in Cells
    BY <1>3, <2>3
  <2>5. <<x>> \in Seq(Cells) /\ Len(<<x>>) = 1
    BY <2>4
  <2>6. u \in Seq(Cells) /\ Len(u) = 5
    BY <2>1, <2>2
  <2>7. u \o <<x>> \in Seq(Cells) /\ Len(u \o <<x>>) = 6
    <3>1. /\ u \o <<x>> \in Seq(Cells)
          /\ Len(u \o <<x>>) = Len(u) + Len(<<x>>)
      BY <2>5, <2>6, ConcatProperties, Zenon
    <3>2. Len(u \o <<x>>) = 5 + 1
      BY <2>5, <2>6, <3>1, Zenon
    <3>3. 5 + 1 = 6
      OBVIOUS
    <3> QED
      BY <3>1, <3>2, <3>3, Zenon
  <2> QED
    BY <2>2, <2>3, <2>7, Zenon DEF World
<1>5. 4 \in Nat /\ 6 \in Nat /\ DataBytes \in Nat
  BY <1>1
<1> QED
  BY <1>1, <1>2, <1>3, <1>4, <1>5 DEF Hello, HELLO, Gidday

(* Every call of every script is such. *)
LEMMA CallsWellFormed ==
  ASSUME prog \in Offsets!Programs
  PROVE  /\ \E S : Calls \in Seq(S)
         /\ prog[1] = "q1" => Len(Calls) = 3 /\ prog[2] \in Nat /\ Calls = Offsets!Question1(prog[2])
         /\ prog[1] = "q2" => Len(Calls) = 4 /\ Calls = Offsets!Question2
         /\ prog[1] = "q5" => Len(Calls) = 7 /\ Calls = Offsets!Question5
         /\ prog[1] = "q6" => Len(Calls) = 10 /\ Calls = Offsets!Question6
         /\ prog[1] \in {"q1", "q2", "q5", "q6"}
         /\ \A n \in 1 .. Len(Calls) : WellFormed(Calls[n])
<1>1. /\ prog[1] \in {"q1", "q2", "q5", "q6"}
      /\ prog[1] = "q1" => prog[2] \in Nat
  BY WrittenTexts DEF Offsets!Programs
<1>2. /\ "fd" \in Offsets!Variables /\ "dup_fd" \in Offsets!Variables
      /\ "fd1" \in Offsets!Variables /\ "fd2" \in Offsets!Variables
      /\ "fd3" \in Offsets!Variables
  BY DEF Offsets!Variables
<1>3. ASSUME NEW x \in Offsets!Variables, NEW y \in Offsets!Variables,
             NEW flags, NEW check
      PROVE  /\ WellFormed(Offsets!Opens(x, flags, check))
             /\ WellFormed(Offsets!Dups(x, y, check))
             /\ WellFormed(Offsets!Closes(x))
             /\ WellFormed(Offsets!Fcntls(x))
             /\ \A n : WellFormed(Offsets!AssertsAt(x, n))
             /\ \A n \in Nat : WellFormed(Offsets!Seeks(x, n, check))
             /\ \A s \in Seq(Cells) :
                  Len(s) > 0 => WellFormed(Offsets!Writes(x, s, check))
  BY DEF WellFormed, Offsets!Opens, Offsets!Dups, Offsets!Closes, Offsets!Fcntls,
         Offsets!AssertsAt, Offsets!Seeks, Offsets!Writes
<1>8. /\ WellFormed(Offsets!Writes("fd", Offsets!Text("test", 4), "exit"))
      /\ WellFormed(Offsets!Writes("fd", Offsets!Text("data", DataBytes), "deliver"))
      /\ WellFormed(Offsets!Writes("fd1", Hello, "none"))
      /\ WellFormed(Offsets!Writes("fd2", World, "none"))
      /\ WellFormed(Offsets!Writes("fd1", HELLO, "none"))
      /\ WellFormed(Offsets!Writes("fd3", Gidday, "none"))
  <2>1. /\ Offsets!Text("test", 4) \in Seq(Cells) /\ Len(Offsets!Text("test", 4)) > 0
        /\ Offsets!Text("data", DataBytes) \in Seq(Cells)
        /\ Len(Offsets!Text("data", DataBytes)) > 0
        /\ Hello \in Seq(Cells) /\ Len(Hello) > 0
        /\ HELLO \in Seq(Cells) /\ Len(HELLO) > 0
        /\ Gidday \in Seq(Cells) /\ Len(Gidday) > 0
        /\ World \in Seq(Cells) /\ Len(World) > 0
    <3>1. DataBytes \in Nat \ {0}
      BY WrittenTexts, Zenon
    <3>2. 4 > 0 /\ 6 > 0 /\ DataBytes > 0
      BY <3>1
    <3> QED
      BY <3>2, WrittenTexts, Zenon
  <2> QED
    BY <1>2, <1>3, <2>1, Zenon
<1>4. CASE prog[1] = "q1"
  <2>1. Calls = Offsets!Question1(prog[2])
    BY <1>4 DEF Calls, Offsets!Script
  <2>2. /\ \E S : Calls \in Seq(S)
        /\ Len(Calls) = 3
        /\ Calls[1] = Offsets!Opens("fd", {"O_CREAT"}, "exit")
        /\ Calls[2] = Offsets!Seeks("fd", prog[2], "exit")
        /\ Calls[3] = Offsets!Writes("fd", Offsets!Text("test", 4), "exit")
    BY <2>1, Script1, Zenon
  <2>3. WellFormed(Calls[1]) /\ WellFormed(Calls[2]) /\ WellFormed(Calls[3])
    BY <1>1, <1>2, <1>3, <1>4, <1>8, <2>2
  <2> QED
    BY <1>1, <1>4, <2>1, <2>2, <2>3
<1>5. CASE prog[1] = "q2"
  <2>1. Calls = Offsets!Question2
    BY <1>5 DEF Calls, Offsets!Script
  <2>2. /\ \E S : Calls \in Seq(S)
        /\ Len(Calls) = 4
        /\ Calls[1] = Offsets!Opens("fd", {"O_APPEND"}, "exit")
        /\ Calls[2] = Offsets!Seeks("fd", 0, "exit")
        /\ Calls[3] = Offsets!Writes("fd", Offsets!Text("data", DataBytes), "deliver")
        /\ Calls[4] = Offsets!Closes("fd")
    BY <2>1, Script2, Zenon
  <2>3. /\ WellFormed(Calls[1]) /\ WellFormed(Calls[2]) /\ WellFormed(Calls[3])
        /\ WellFormed(Calls[4])
    BY <1>2, <1>3, <1>8, <2>2
  <2> QED
    BY <1>1, <1>5, <2>1, <2>2, <2>3
<1>6. CASE prog[1] = "q5"
  <2>1. Calls = Offsets!Question5
    BY <1>6 DEF Calls, Offsets!Script
  <2>2. /\ \E S : Calls \in Seq(S)
        /\ Len(Calls) = 7
        /\ Calls[1] = Offsets!Opens("fd", {"O_CREAT", "O_TRUNC"}, "exit")
        /\ Calls[2] = Offsets!Dups("dup_fd", "fd", "exit")
        /\ Calls[3] = Offsets!Fcntls("fd")
        /\ Calls[4] = Offsets!Fcntls("fd")
        /\ Calls[5] = Offsets!Seeks("fd", RandomOffset, "exit")
        /\ Calls[6] = Offsets!AssertsAt("dup_fd", RandomOffset)
        /\ Calls[7] = Offsets!Closes("fd")
    BY <2>1, Script5, Zenon
  <2>4. RandomOffset \in Nat
    BY WrittenTexts
  <2>3. /\ WellFormed(Calls[1]) /\ WellFormed(Calls[2]) /\ WellFormed(Calls[3])
        /\ WellFormed(Calls[4]) /\ WellFormed(Calls[5]) /\ WellFormed(Calls[6])
        /\ WellFormed(Calls[7])
    BY <1>2, <1>3, <2>2, <2>4
  <2> QED
    BY <1>1, <1>6, <2>1, <2>2, <2>3
<1>7. CASE prog[1] = "q6"
  <2>1. Calls = Offsets!Question6
    BY <1>7 DEF Calls, Offsets!Script
  <2>2. /\ \E S : Calls \in Seq(S)
        /\ Len(Calls) = 10
        /\ Calls[1] = Offsets!Opens("fd1", {"O_CREAT", "O_TRUNC"}, "none")
        /\ Calls[2] = Offsets!Dups("fd2", "fd1", "none")
        /\ Calls[3] = Offsets!Opens("fd3", {}, "none")
        /\ Calls[4] = Offsets!Writes("fd1", Hello, "none")
        /\ Calls[5] = Offsets!Writes("fd2", World, "none")
        /\ Calls[6] = Offsets!Seeks("fd2", 0, "none")
        /\ Calls[7] = Offsets!Writes("fd1", HELLO, "none")
        /\ Calls[8] = Offsets!Writes("fd3", Gidday, "none")
        /\ Calls[9] = Offsets!Closes("fd1")
        /\ Calls[10] = Offsets!Closes("fd3")
    BY <2>1, Script6, Zenon
  <2>3. /\ WellFormed(Calls[1]) /\ WellFormed(Calls[2]) /\ WellFormed(Calls[3])
        /\ WellFormed(Calls[6]) /\ WellFormed(Calls[9]) /\ WellFormed(Calls[10])
    BY <1>2, <1>3, <2>2
  <2>4. /\ WellFormed(Calls[4]) /\ WellFormed(Calls[5])
        /\ WellFormed(Calls[7]) /\ WellFormed(Calls[8])
    BY <1>2, <1>3, <1>8, <2>2
  <2> QED
    BY <1>1, <1>7, <2>1, <2>2, <2>3, <2>4
<1> QED
  BY <1>1, <1>4, <1>5, <1>6, <1>7

(* Each step is the next call of the script, or the call fails. *)
LEMMA OneCall ==
  ASSUME Offsets!Next, script # <<>>
  PROVE  /\ status = "running"
         /\ Offsets!call.op = "open" => Offsets!Open \/ Offsets!CallFails
         /\ Offsets!call.op = "dup" => Offsets!Dup \/ Offsets!CallFails
         /\ Offsets!call.op = "lseek" => Offsets!Seek \/ Offsets!CallFails
         /\ Offsets!call.op = "write" =>
              Offsets!Write \/ Offsets!WriteShort \/ Offsets!CallFails
         /\ Offsets!call.op = "fcntl" => Offsets!Fcntl \/ Offsets!CallFails
         /\ Offsets!call.op = "close" => Offsets!Close \/ Offsets!CallFails
         /\ Offsets!call.op = "assert" => Offsets!AssertOffset
BY DEF Offsets!Next, Offsets!Open, Offsets!Dup, Offsets!Seek, Offsets!Write,
       Offsets!WriteShort, Offsets!Fcntl, Offsets!Close, Offsets!AssertOffset,
       Offsets!CallFails, Offsets!Exit, Offsets!Calling, Offsets!call

(* open makes a description, and the descriptor names it. *)
LEMMA OpenEffect ==
  ASSUME OffsetsTypes, WellFormed(Offsets!call), Offsets!Open
  PROVE  /\ file' = IF file = Offsets!NoFile \/ "O_TRUNC" \in Offsets!call.flags
                    THEN <<>> ELSE file
         /\ Len(ofds') = Len(ofds) + 1
         /\ \A k \in 1 .. Len(ofds) : ofds'[k] = ofds[k]
         /\ ofds'[Len(ofds) + 1].offset = 0
         /\ ofds'[Len(ofds) + 1].append <=> "O_APPEND" \in Offsets!call.flags
         /\ fds' = [fds EXCEPT ![Offsets!call.fd] = Len(ofds) + 1]
         /\ clean' = clean /\ status' = status /\ prog' = prog /\ before' = before
         /\ script' = Tail(script)
         /\ OffsetsTypes'
<1>1. PICK d : d = [offset |-> 0, append |-> "O_APPEND" \in Offsets!call.flags]
  OBVIOUS
<1>2. /\ d \in Descriptions /\ d.offset = 0
      /\ d.append <=> "O_APPEND" \in Offsets!call.flags
  <2>1. CASE "O_APPEND" \in Offsets!call.flags
    <3>1. d = [offset |-> 0, append |-> TRUE]
      BY <1>1, <2>1, Zenon
    <3> QED
      BY <2>1, <3>1 DEF Descriptions
  <2>2. CASE "O_APPEND" \notin Offsets!call.flags
    <3>1. ("O_APPEND" \in Offsets!call.flags) = FALSE
      BY <2>2
    <3>2. d = [offset |-> 0, append |-> FALSE]
      BY <1>1, <3>1, Zenon
    <3> QED
      BY <2>2, <3>2 DEF Descriptions
  <2> QED
    BY <2>1, <2>2
<1>3. /\ file' = IF file = Offsets!NoFile \/ "O_TRUNC" \in Offsets!call.flags
                 THEN <<>> ELSE file
      /\ ofds' = Append(ofds, d)
      /\ fds' = [fds EXCEPT ![Offsets!call.fd] = Len(ofds')]
      /\ clean' = clean /\ status' = status /\ prog' = prog /\ before' = before
      /\ script' = Tail(script)
  BY <1>1, Zenon DEF Offsets!Open, Offsets!Succeeds, Offsets!Proceed
<1>4. ofds \in Seq(Descriptions) /\ Len(ofds) \in Nat
  BY LenProperties DEF OffsetsTypes
<1>5. /\ Append(ofds, d) \in Seq(Descriptions)
      /\ Len(Append(ofds, d)) = Len(ofds) + 1
      /\ \A k \in 1 .. Len(ofds) : Append(ofds, d)[k] = ofds[k]
      /\ Append(ofds, d)[Len(ofds) + 1] = d
  BY <1>2, <1>4, AppendProperties
<1>6. /\ ofds' \in Seq(Descriptions) /\ Len(ofds') = Len(ofds) + 1
      /\ \A k \in 1 .. Len(ofds) : ofds'[k] = ofds[k]
      /\ ofds'[Len(ofds) + 1] = d
  BY <1>3, <1>5, Zenon
<1>7. fds' = [fds EXCEPT ![Offsets!call.fd] = Len(ofds) + 1]
  BY <1>3, <1>6, Zenon
<1>8. file' \in Seq(Cells)
  <2>1. <<>> \in Seq(Cells)
    BY EmptySeq
  <2> QED
    BY <1>3, <2>1, Zenon DEF OffsetsTypes
<1>9. OffsetsTypes'
  <2>1. fds' \in [Offsets!Variables -> {-1} \cup 1 .. Len(ofds) + 1]
    BY <1>4, <1>7 DEF OffsetsTypes, WellFormed
  <2>2. fds' \in [Offsets!Variables -> {-1} \cup 1 .. Len(ofds')]
    BY <1>6, <2>1, Zenon
  <2> QED
    BY <1>3, <1>6, <1>8, <2>2, Zenon DEF OffsetsTypes
<1> QED
  BY <1>2, <1>3, <1>6, <1>7, <1>9, Zenon

(* dup, fcntl, close, and the assert leave the descriptions alone. *)
LEMMA DupEffect ==
  ASSUME OffsetsTypes, WellFormed(Offsets!call), Offsets!Dup, Offsets!call.op = "dup"
  PROVE  /\ file' = file /\ ofds' = ofds
         /\ fds' = [fds EXCEPT ![Offsets!call.fd] = fds[Offsets!call.from]]
         /\ clean' = clean /\ status' = status /\ prog' = prog /\ before' = before
         /\ script' = Tail(script)
         /\ OffsetsTypes'
BY DEF Offsets!Dup, Offsets!Succeeds, Offsets!Proceed, OffsetsTypes, WellFormed

(* fcntl changes nothing. *)
LEMMA FcntlEffect ==
  ASSUME OffsetsTypes, Offsets!Fcntl
  PROVE  /\ file' = file /\ ofds' = ofds /\ fds' = fds
         /\ clean' = clean /\ status' = status /\ prog' = prog /\ before' = before
         /\ script' = Tail(script)
         /\ OffsetsTypes'
BY DEF Offsets!Fcntl, Offsets!Succeeds, Offsets!Proceed, OffsetsTypes

(* close takes the description from its descriptor. *)
LEMMA CloseEffect ==
  ASSUME OffsetsTypes, WellFormed(Offsets!call), Offsets!Close
  PROVE  /\ file' = file /\ ofds' = ofds
         /\ fds' = [fds EXCEPT ![Offsets!call.fd] = -1]
         /\ clean' = clean /\ status' = status /\ prog' = prog /\ before' = before
         /\ script' = Tail(script)
         /\ OffsetsTypes'
BY DEF Offsets!Close, Offsets!Succeeds, Offsets!Proceed, OffsetsTypes, WellFormed

(* The assert goes through only where the offset is the expected one. *)
LEMMA AssertEffect ==
  ASSUME OffsetsTypes, Offsets!AssertOffset
  PROVE  /\ file' = file /\ ofds' = ofds /\ fds' = fds
         /\ status' = IF ofds[fds[Offsets!call.fd]].offset = Offsets!call.at
                      THEN status ELSE "aborted"
         /\ clean' = clean /\ prog' = prog /\ before' = before
         /\ script' = Tail(script)
         /\ OffsetsTypes'
BY DEF Offsets!AssertOffset, Offsets!Proceed, Offsets!ofd, OffsetsTypes

(* A call that fails leaves the file and the descriptions alone. *)
LEMMA FailEffect ==
  ASSUME OffsetsTypes, Offsets!CallFails
  PROVE  /\ file' = file /\ ofds' = ofds /\ fds' = fds /\ ~clean'
         /\ status' = IF Offsets!call.check = "none" THEN status ELSE "died"
         /\ prog' = prog /\ before' = before
         /\ script' = Tail(script)
         /\ OffsetsTypes'
BY DEF Offsets!CallFails, Offsets!Fails, Offsets!Proceed, OffsetsTypes

(* A description with another offset. *)
LEMMA Moved ==
  ASSUME NEW s \in Seq(Descriptions), NEW k \in 1 .. Len(s), NEW at \in Nat,
         NEW t, t = [s EXCEPT ![k].offset = at]
  PROVE  /\ t \in Seq(Descriptions) /\ Len(t) = Len(s)
         /\ t[k].offset = at /\ (t[k].append <=> s[k].append)
         /\ \A j \in 1 .. Len(s) \ {k} : t[j] = s[j]
<1>1. PICK l \in Nat : l = Len(s) /\ s \in [1 .. l -> Descriptions]
  BY LenProperties
<1>2. k \in 1 .. l
  BY <1>1
<1>4. /\ t \in [1 .. l -> Descriptions]
      /\ t[k].offset = at /\ t[k].append = s[k].append
      /\ \A j \in 1 .. l \ {k} : t[j] = s[j]
  <2>1. s[k] \in Descriptions
    BY <1>1, <1>2
  <2>2. PICK r : r = [s[k] EXCEPT !.offset = at]
    OBVIOUS
  <2>3. r \in Descriptions /\ r.offset = at /\ r.append = s[k].append
    BY <2>1, <2>2 DEF Descriptions
  <2>4. t = [s EXCEPT ![k] = r]
    BY <2>2
  <2> QED
    BY <1>1, <1>2, <2>3, <2>4
<1>5. t \in Seq(Descriptions) /\ Len(t) = l
  BY <1>1, <1>4, LenOfFunction
<1> QED
  BY <1>1, <1>4, <1>5, Zenon

(* lseek moves the description that the descriptor names. *)
LEMMA SeekEffect ==
  ASSUME OffsetsTypes, WellFormed(Offsets!call), Offsets!Seek,
         Offsets!call.op = "lseek"
  PROVE  LET o == fds[Offsets!call.fd] IN
           /\ file' = file /\ fds' = fds
           /\ o \in 1 .. Len(ofds) /\ Len(ofds') = Len(ofds)
           /\ \A k \in 1 .. Len(ofds) \ {o} : ofds'[k] = ofds[k]
           /\ ofds'[o].offset = Offsets!call.at
           /\ ofds'[o].append <=> ofds[o].append
           /\ clean' = clean /\ status' = status /\ prog' = prog /\ before' = before
           /\ script' = Tail(script)
           /\ OffsetsTypes'
<1> DEFINE o == fds[Offsets!call.fd]
<1>1. o \in 1 .. Len(ofds) /\ ofds \in Seq(Descriptions) /\ Offsets!call.at \in Nat
  BY DEF Offsets!Seek, Offsets!ofd, OffsetsTypes, WellFormed
<1>2. /\ file' = file /\ fds' = fds
      /\ ofds' = [ofds EXCEPT ![o].offset = Offsets!call.at]
      /\ clean' = clean /\ status' = status /\ prog' = prog /\ before' = before
      /\ script' = Tail(script)
  BY DEF Offsets!Seek, Offsets!ofd, Offsets!Succeeds, Offsets!Proceed
<1>3. /\ ofds' \in Seq(Descriptions) /\ Len(ofds') = Len(ofds)
      /\ ofds'[o].offset = Offsets!call.at
      /\ ofds'[o].append <=> ofds[o].append
      /\ \A k \in 1 .. Len(ofds) \ {o} : ofds'[k] = ofds[k]
  BY <1>1, <1>2, Moved
<1>4. OffsetsTypes'
  BY <1>2, <1>3, Zenon DEF OffsetsTypes
<1> QED
  BY <1>1, <1>2, <1>3, <1>4, Zenon

(* n bytes, or all of them, where the offset or the end of the file is. *)
LEMMA PutEffect ==
  ASSUME OffsetsTypes, WellFormed(Offsets!call), Offsets!call.op = "write",
         Offsets!ofd # -1, NEW n \in Nat, Offsets!Put(n),
         before' = before, prog' = prog, clean' \in BOOLEAN,
         status' \in {"running", "exited", "died", "aborted"}
  PROVE  LET o == fds[Offsets!call.fd]
             at == IF ofds[o].append THEN Len(file) ELSE ofds[o].offset
         IN  n \in 1 .. Len(Offsets!call.s) =>
             /\ o \in 1 .. Len(ofds) /\ at \in Nat
             /\ file' = Offsets!PutAt(file, at, SubSeq(Offsets!call.s, 1, n))
             /\ fds' = fds /\ Len(ofds') = Len(ofds)
             /\ \A k \in 1 .. Len(ofds) \ {o} : ofds'[k] = ofds[k]
             /\ ofds'[o].offset = at + n
             /\ ofds'[o].append <=> ofds[o].append
             /\ SubSeq(Offsets!call.s, 1, n) \in Seq(Cells)
             /\ Len(SubSeq(Offsets!call.s, 1, n)) = n
             /\ n = Len(Offsets!call.s) => SubSeq(Offsets!call.s, 1, n) = Offsets!call.s
             /\ OffsetsTypes'
<1>1. ASSUME n \in 1 .. Len(Offsets!call.s)
      PROVE  LET o == fds[Offsets!call.fd]
                 at == IF ofds[o].append THEN Len(file) ELSE ofds[o].offset
             IN  /\ o \in 1 .. Len(ofds) /\ at \in Nat
                 /\ file' = Offsets!PutAt(file, at, SubSeq(Offsets!call.s, 1, n))
                 /\ fds' = fds /\ Len(ofds') = Len(ofds)
                 /\ \A k \in 1 .. Len(ofds) \ {o} : ofds'[k] = ofds[k]
                 /\ ofds'[o].offset = at + n
                 /\ ofds'[o].append <=> ofds[o].append
                 /\ SubSeq(Offsets!call.s, 1, n) \in Seq(Cells)
                 /\ Len(SubSeq(Offsets!call.s, 1, n)) = n
                 /\ n = Len(Offsets!call.s) =>
                      SubSeq(Offsets!call.s, 1, n) = Offsets!call.s
                 /\ OffsetsTypes'
  <2> DEFINE o == fds[Offsets!call.fd]
             at == IF ofds[o].append THEN Len(file) ELSE ofds[o].offset
  <2>1. o \in 1 .. Len(ofds) /\ ofds \in Seq(Descriptions) /\ file \in Seq(Cells)
    BY DEF Offsets!ofd, OffsetsTypes, WellFormed
  <2>2. PICK l \in Nat : /\ l = Len(Offsets!call.s) /\ l > 0
                         /\ Offsets!call.s \in [1 .. l -> Cells]
                         /\ Offsets!call.s \in Seq(Cells)
    BY LenProperties DEF WellFormed
  <2>3. n \in 1 .. l
    BY <1>1, <2>2, Zenon
  <2>4. PICK s : s = SubSeq(Offsets!call.s, 1, n)
    OBVIOUS
  <2>5. s \in Seq(Cells) /\ Len(s) = n /\ \A k \in 1 .. n : s[k] = Offsets!call.s[k]
    <3>1. 1 \in Int /\ n \in Int /\ \A k \in 1 .. n : Offsets!call.s[k] \in Cells
      BY <2>2, <2>3
    <3>2. (IF 1 <= n THEN n - 1 + 1 ELSE 0) = n /\ \A k \in 1 .. n : 1 + k - 1 = k
      BY <2>3
    <3> QED
      BY <2>4, <3>1, <3>2, SubSeqProperties
  <2>6. n = Len(Offsets!call.s) => s = Offsets!call.s
    BY <2>2, <2>5, SeqEqual
  <2>7. at \in Nat
    <3>1. ofds[o] \in Descriptions
      BY <2>1, ElementOfSeq
    <3>2. ofds[o].offset \in Nat /\ Len(file) \in Nat
      BY <2>1, <3>1, LenProperties DEF Descriptions
    <3> QED
      BY <3>2
  <2>8. /\ file' = Offsets!PutAt(file, at, s)
        /\ ofds' = [ofds EXCEPT ![o].offset = at + n]
        /\ fds' = fds
    BY <2>4, Zenon DEF Offsets!Put, Offsets!Where, Offsets!ofd
  <2>9. file' \in Seq(Cells)
    <3>1. Len(s) > 0 /\ Offsets!Hole \in Cells
      <4>1. Offsets!Hole \in Cells
        BY Zenon DEF Cells
      <4> QED
        BY <2>3, <2>5, <4>1
    <3> QED
      BY <2>1, <2>5, <2>7, <2>8, <3>1, PutAnywhere, Zenon
  <2>10. at + n \in Nat
    BY <2>3, <2>7
  <2> HIDE DEF at
  <2>11. /\ ofds' \in Seq(Descriptions) /\ Len(ofds') = Len(ofds)
         /\ ofds'[o].offset = at + n
         /\ ofds'[o].append <=> ofds[o].append
         /\ \A k \in 1 .. Len(ofds) \ {o} : ofds'[k] = ofds[k]
    <3>1. PICK v : v = at + n
      OBVIOUS
    <3>2. v \in Nat
      BY <2>10, <3>1, Zenon
    <3>3. o \in 1 .. Len(ofds) /\ ofds \in Seq(Descriptions)
      BY <2>1, Zenon
    <3>4. ofds' = [ofds EXCEPT ![o].offset = v]
      BY <2>8, <3>1, Zenon
    <3>5. /\ ofds' \in Seq(Descriptions) /\ Len(ofds') = Len(ofds)
          /\ ofds'[o].offset = v
          /\ ofds'[o].append <=> ofds[o].append
          /\ \A k \in 1 .. Len(ofds) \ {o} : ofds'[k] = ofds[k]
      BY <3>2, <3>3, <3>4, Moved
    <3> QED
      BY <3>1, <3>5, Zenon
  <2>12. OffsetsTypes'
    BY <2>8, <2>9, <2>11, Zenon DEF OffsetsTypes
  <2> QED
    BY <2>1, <2>4, <2>5, <2>6, <2>7, <2>8, <2>11, <2>12, Zenon DEF at
<1> QED
  BY <1>1

(* write takes all bytes. *)
LEMMA WriteEffect ==
  ASSUME OffsetsTypes, WellFormed(Offsets!call), Offsets!call.op = "write",
         Offsets!Write
  PROVE  LET o == fds[Offsets!call.fd]
             at == IF ofds[o].append THEN Len(file) ELSE ofds[o].offset
         IN  /\ o \in 1 .. Len(ofds)
             /\ file' = Offsets!PutAt(file, at, Offsets!call.s)
             /\ fds' = fds /\ Len(ofds') = Len(ofds)
             /\ \A k \in 1 .. Len(ofds) \ {o} : ofds'[k] = ofds[k]
             /\ ofds'[o].offset = at + Len(Offsets!call.s)
             /\ ofds'[o].append <=> ofds[o].append
             /\ clean' = clean /\ status' = status /\ prog' = prog
             /\ before' = before /\ script' = Tail(script)
             /\ OffsetsTypes'
<1> DEFINE n == Len(Offsets!call.s)
<1>1. /\ Offsets!ofd # -1 /\ Offsets!Put(n)
      /\ clean' = clean /\ status' = status /\ prog' = prog
      /\ before' = before /\ script' = Tail(script)
  BY DEF Offsets!Write, Offsets!Succeeds, Offsets!Proceed
<1>2. n \in Nat /\ n \in 1 .. n
  BY LenProperties DEF WellFormed
<1>3. clean' \in BOOLEAN /\ status' \in {"running", "exited", "died", "aborted"}
  BY <1>1, Zenon DEF OffsetsTypes
<1> HIDE DEF n
<1>4. LET o == fds[Offsets!call.fd]
          at == IF ofds[o].append THEN Len(file) ELSE ofds[o].offset
      IN  /\ o \in 1 .. Len(ofds) /\ at \in Nat
          /\ file' = Offsets!PutAt(file, at, SubSeq(Offsets!call.s, 1, n))
          /\ fds' = fds /\ Len(ofds') = Len(ofds)
          /\ \A k \in 1 .. Len(ofds) \ {o} : ofds'[k] = ofds[k]
          /\ ofds'[o].offset = at + n
          /\ ofds'[o].append <=> ofds[o].append
          /\ n = Len(Offsets!call.s) =>
               SubSeq(Offsets!call.s, 1, n) = Offsets!call.s
          /\ OffsetsTypes'
  <2>1. n \in 1 .. Len(Offsets!call.s)
    BY <1>2, Zenon DEF n
  <2> QED
    BY <1>1, <1>2, <1>3, <2>1, PutEffect, Zenon
<1>5. SubSeq(Offsets!call.s, 1, n) = Offsets!call.s
  BY <1>4, Zenon DEF n
<1> QED
  BY <1>1, <1>4, <1>5, Zenon DEF n

(* write takes only some. *)
LEMMA ShortEffect ==
  ASSUME OffsetsTypes, WellFormed(Offsets!call), Offsets!call.op = "write",
         Offsets!WriteShort
  PROVE  LET o == fds[Offsets!call.fd]
             at == IF ofds[o].append THEN Len(file) ELSE ofds[o].offset
         IN  /\ \E s \in Seq(Cells) :
                  Len(s) > 0 /\ file' = Offsets!PutAt(file, at, s)
             /\ ~clean'
             /\ status' = IF Offsets!call.check = "deliver" THEN "died" ELSE status
             /\ prog' = prog /\ before' = before /\ script' = Tail(script)
             /\ OffsetsTypes'
<1>1. /\ Offsets!ofd # -1 /\ ~clean' /\ clean' \in BOOLEAN
      /\ status' = IF Offsets!call.check = "deliver" THEN "died" ELSE status
      /\ prog' = prog /\ before' = before /\ script' = Tail(script)
  BY DEF Offsets!WriteShort, Offsets!Proceed
<1>2. PICK n \in 1 .. Len(Offsets!call.s) - 1 : Offsets!Put(n)
  BY DEF Offsets!WriteShort
<1>3. /\ n \in Nat /\ n \in 1 .. Len(Offsets!call.s) /\ n > 0 /\ Offsets!Put(n)
  <2>1. PICK l \in Nat : l = Len(Offsets!call.s)
    BY LenProperties DEF WellFormed
  <2>2. n \in 1 .. l - 1 /\ Offsets!Put(n)
    BY <1>2, <2>1, Zenon
  <2>3. n \in Nat /\ n \in 1 .. l /\ n > 0
    BY <2>1, <2>2
  <2> QED
    BY <2>1, <2>2, <2>3, Zenon
<1>4. status' \in {"running", "exited", "died", "aborted"}
  BY <1>1 DEF OffsetsTypes
<1>5. LET o == fds[Offsets!call.fd]
          at == IF ofds[o].append THEN Len(file) ELSE ofds[o].offset
      IN  /\ file' = Offsets!PutAt(file, at, SubSeq(Offsets!call.s, 1, n))
          /\ SubSeq(Offsets!call.s, 1, n) \in Seq(Cells)
          /\ Len(SubSeq(Offsets!call.s, 1, n)) = n
          /\ OffsetsTypes'
  BY <1>1, <1>3, <1>4, PutEffect, Zenon
<1> QED
  BY <1>1, <1>3, <1>5, Zenon

(* Behind the last call the program returns. *)
LEMMA ExitEffect ==
  ASSUME OffsetsTypes, Offsets!Next, script = <<>>
  PROVE  /\ status = "running" /\ status' = "exited"
         /\ file' = file /\ clean' = clean /\ prog' = prog /\ before' = before
         /\ OffsetsTypes'
<1>1. Offsets!Exit
  BY DEF Offsets!Next, Offsets!Open, Offsets!Dup, Offsets!Seek, Offsets!Write,
         Offsets!WriteShort, Offsets!Fcntl, Offsets!Close, Offsets!AssertOffset,
         Offsets!CallFails, Offsets!Calling
<1>2. /\ status = "running" /\ status' = "exited" /\ file' = file
      /\ clean' = clean /\ prog' = prog /\ before' = before
      /\ ofds' = <<>> /\ fds' = [x \in Offsets!Variables |-> -1]
  BY <1>1 DEF Offsets!Exit
<1>3. ofds' \in Seq(Descriptions) /\ Len(ofds') = 0
  BY <1>2, EmptySeq
<1>4. /\ fds' \in [Offsets!Variables -> {-1} \cup 1 .. Len(ofds')]
      /\ \A x \in Offsets!Variables : fds'[x] = -1
  BY <1>2
<1> QED
  BY <1>2, <1>3, <1>4, Zenon DEF OffsetsTypes

(* What the next call is, and that the script goes on behind it. *)
LEMMA Advance ==
  ASSUME prog \in Offsets!Programs, NEW n, AtCall(n)
  PROVE  /\ n \in 1 .. Len(Calls) =>
              /\ script # <<>> /\ Offsets!call = Calls[n]
              /\ WellFormed(Offsets!call)
              /\ script' = Tail(script) /\ prog' = prog => AtCall(n + 1)'
         /\ n = Len(Calls) + 1 => script = <<>>
         /\ n \in 1 .. Len(Calls) + 1
<1>1. PICK S : Calls \in Seq(S)
  BY CallsWellFormed
<1>2. n \in 1 .. Len(Calls) + 1 /\ script = SubSeq(Calls, n, Len(Calls))
  BY DEF AtCall
<1>3. PICK l \in Nat : l = Len(Calls)
  BY <1>1, LenProperties
<1>4. /\ n <= Len(Calls) => /\ script # <<>> /\ Head(script) = Calls[n]
                            /\ Tail(script) = SubSeq(Calls, n + 1, Len(Calls))
      /\ n = Len(Calls) + 1 => script = <<>>
  BY <1>1, <1>2, Suffix, Zenon
<1>5. n \in 1 .. l => n <= l /\ n + 1 \in 1 .. l + 1
  BY <1>3
<1>6. ASSUME prog' = prog
      PROVE  Calls' = Calls
  BY <1>6 DEF Calls
<1>7. ASSUME n \in 1 .. Len(Calls), script' = Tail(script), prog' = prog
      PROVE  AtCall(n + 1)'
  <2>1. n + 1 \in 1 .. Len(Calls) + 1
    BY <1>3, <1>5, <1>7, Zenon
  <2>2. n + 1 \in 1 .. Len(Calls') + 1 /\ script' = SubSeq(Calls', n + 1, Len(Calls'))
    BY <1>3, <1>4, <1>5, <1>6, <1>7, <2>1, Zenon
  <2> QED
    BY <2>2, Zenon DEF AtCall
<1>8. n \in 1 .. Len(Calls) => n <= Len(Calls)
  BY <1>3, <1>5, Zenon
<1> QED
  BY <1>2, <1>4, <1>7, <1>8, CallsWellFormed, Zenon DEF Offsets!call

(* The fields of the calls. *)
LEMMA Fields ==
  ASSUME NEW x, NEW y, NEW flags, NEW check, NEW n, NEW s
  PROVE  /\ Offsets!Opens(x, flags, check).op = "open"
         /\ Offsets!Opens(x, flags, check).fd = x
         /\ Offsets!Opens(x, flags, check).flags = flags
         /\ Offsets!Opens(x, flags, check).check = check
         /\ Offsets!Dups(x, y, check).op = "dup"
         /\ Offsets!Dups(x, y, check).fd = x
         /\ Offsets!Dups(x, y, check).from = y
         /\ Offsets!Dups(x, y, check).check = check
         /\ Offsets!Seeks(x, n, check).op = "lseek"
         /\ Offsets!Seeks(x, n, check).fd = x
         /\ Offsets!Seeks(x, n, check).at = n
         /\ Offsets!Seeks(x, n, check).check = check
         /\ Offsets!Writes(x, s, check).op = "write"
         /\ Offsets!Writes(x, s, check).fd = x
         /\ Offsets!Writes(x, s, check).s = s
         /\ Offsets!Writes(x, s, check).check = check
         /\ Offsets!Closes(x).op = "close" /\ Offsets!Closes(x).fd = x
         /\ Offsets!Closes(x).check = "exit"
         /\ Offsets!Fcntls(x).op = "fcntl" /\ Offsets!Fcntls(x).fd = x
         /\ Offsets!Fcntls(x).check = "exit"
         /\ Offsets!AssertsAt(x, n).op = "assert"
         /\ Offsets!AssertsAt(x, n).fd = x /\ Offsets!AssertsAt(x, n).at = n
BY DEF Offsets!Opens, Offsets!Dups, Offsets!Seeks, Offsets!Writes,
       Offsets!Closes, Offsets!Fcntls, Offsets!AssertsAt

(* The whole of a sequence. *)
LEMMA Whole ==
  ASSUME NEW S, NEW s \in Seq(S)
  PROVE  SubSeq(s, 1, Len(s)) = s
<1>1. PICK l \in Nat : l = Len(s) /\ s \in [1 .. l -> S]
  BY LenProperties
<1>2. PICK r : r = SubSeq(s, 1, l)
  OBVIOUS
<1>3. r \in Seq(S) /\ Len(r) = l /\ \A k \in 1 .. l : r[k] = s[k]
  <2>1. 1 \in Int /\ l \in Int /\ \A k \in 1 .. l : s[k] \in S
    BY <1>1
  <2>2. (IF 1 <= l THEN l - 1 + 1 ELSE 0) = l /\ \A k \in 1 .. l : 1 + k - 1 = k
    BY <1>1
  <2> QED
    BY <1>2, <2>1, <2>2, SubSeqProperties
<1>4. r = s
  BY <1>1, <1>3, SeqEqual
<1> QED
  BY <1>1, <1>2, <1>4, Zenon

(* What begins like s has s as a prefix. *)
LEMMA BeginsLike ==
  ASSUME NEW S, NEW s \in Seq(S), NEW t \in Seq(S), Len(s) <= Len(t),
         \A k \in 1 .. Len(s) : t[k] = s[k]
  PROVE  Offsets!IsPrefix(s, t)
<1>1. PICK l \in Nat : l = Len(s)
  BY LenProperties
<1>2. PICK m \in Nat : m = Len(t) /\ t \in [1 .. m -> S]
  BY LenProperties
<1>3. l <= m /\ \A k \in 1 .. l : t[k] = s[k]
  BY <1>1, <1>2, Zenon
<1>4. PICK r : r = SubSeq(t, 1, l)
  OBVIOUS
<1>5. r \in Seq(S) /\ Len(r) = l /\ \A k \in 1 .. l : r[k] = t[k]
  <2>1. 1 \in Int /\ l \in Int /\ \A k \in 1 .. l : t[k] \in S
    BY <1>2, <1>3
  <2>2. (IF 1 <= l THEN l - 1 + 1 ELSE 0) = l /\ \A k \in 1 .. l : 1 + k - 1 = k
    BY <1>1
  <2> QED
    BY <1>4, <2>1, <2>2, SubSeqProperties
<1>6. r = s
  BY <1>1, <1>3, <1>5, SeqEqual
<1>7. SubSeq(s, 1, l) = s
  BY <1>1, Whole
<1> QED
  BY <1>1, <1>4, <1>6, <1>7, Zenon DEF Offsets!IsPrefix

(* A write at the end appends, and the file stays what it was before it. *)
LEMMA PutAtEnd ==
  ASSUME NEW f \in Seq(Cells), NEW s \in Seq(Cells), Len(s) > 0
  PROVE  /\ Offsets!PutAt(f, Len(f), s) = f \o s
         /\ Offsets!IsPrefix(f, Offsets!PutAt(f, Len(f), s))
<1>1. PICK m \in Nat : m = Len(f)
  BY LenProperties
<1>2. PICK l \in Nat : l = Len(s) /\ l > 0
  BY LenProperties
<1>3. PICK t : t = Offsets!PutAt(f, m, s)
  OBVIOUS
<1>4. Offsets!Hole \in Cells
  BY Zenon DEF Cells
<1>5. PICK n : n = IF m + l < m THEN m ELSE m + l
  OBVIOUS
<1>6. n = m + l
  BY <1>1, <1>2, <1>5
<1>7. /\ t \in Seq(Cells) /\ Len(t) = m + l
      /\ \A k \in 1 .. m + l : t[k] = IF k \in m + 1 .. m + l THEN s[k - m]
                                      ELSE IF k <= m THEN f[k] ELSE Offsets!Hole
  <2>1. /\ t \in Seq(Cells) /\ Len(t) = n
        /\ \A k \in 1 .. n : t[k] = IF k \in m + 1 .. m + l THEN s[k - m]
                                    ELSE IF k <= m THEN f[k] ELSE Offsets!Hole
    <3>1. m \in Nat
      BY <1>1
    <3>2. t \in Seq(Cells) /\ IsPut(t, f, m, s)
      BY <1>3, <1>4, <3>1, PutAnywhere, Zenon
    <3>3. Len(t) = n
      BY <1>1, <1>2, <1>5, <3>2, Zenon DEF IsPut
    <3> QED
      BY <1>1, <1>2, <3>2, <3>3, Zenon DEF IsPut
  <2> QED
    BY <1>6, <2>1, Zenon
<1>8. PICK u : u = f \o s
  OBVIOUS
<1>9. /\ u \in Seq(Cells) /\ Len(u) = m + l
      /\ \A k \in 1 .. m + l : u[k] = IF k <= m THEN f[k] ELSE s[k - m]
  BY <1>1, <1>2, <1>8, ConcatProperties, Zenon
<1>10. t = u
  <2>1. \A k \in 1 .. m + l : t[k] = u[k]
    BY <1>1, <1>2, <1>7, <1>9
  <2> QED
    BY <1>7, <1>9, <2>1, SeqEqual, Zenon
<1>11. Offsets!IsPrefix(f, t)
  <2>1. m <= m + l /\ \A k \in 1 .. m : t[k] = f[k]
    BY <1>1, <1>2, <1>7
  <2> QED
    BY <1>1, <1>7, <2>1, BeginsLike, Zenon
<1> QED
  BY <1>1, <1>3, <1>8, <1>10, <1>11, Zenon

(* Whatever the file is that the program is run on. *)
LEMMA OffsetsInit == Offsets!Init => OffsetsInv
<1> SUFFICES ASSUME Offsets!Init
             PROVE  OffsetsInv
  OBVIOUS
<1>1. /\ ofds = <<>> /\ fds = [x \in Offsets!Variables |-> -1]
      /\ prog \in Offsets!Programs /\ script = Calls /\ status = "running"
      /\ before = file /\ clean = TRUE
  BY DEF Offsets!Init, Calls
<1>2. file = Offsets!NoFile \/ file \in Seq(Cells)
  <2>1. "old" \in Cells /\ Offsets!Hole \in Cells
    BY Zenon DEF Cells
  <2>2. \A n \in Nat : Offsets!Text("old", n) \in Seq(Cells)
    <3>1. {"old"} \subseteq Cells
      BY <2>1
    <3> QED
      BY <3>1, TextFacts, SeqMonotonic
  <2>3. <<>> \in Seq(Cells)
    BY EmptySeq
  <2>4. <<Offsets!Hole>> \in Seq(Cells)
    BY <2>1
  <2>5. 2 \in Nat /\ 7 \in Nat
    OBVIOUS
  <2>6. <<Offsets!Hole>> \o Offsets!Text("old", 7) \in Seq(Cells)
    BY <2>2, <2>4, <2>5, ConcatProperties, Zenon
  <2>7. file \in {Offsets!NoFile, <<>>, Offsets!Text("old", 2),
                  <<Offsets!Hole>> \o Offsets!Text("old", 7)}
    BY Zenon DEF Offsets!Init
  <2> QED
    BY <2>2, <2>3, <2>5, <2>6, <2>7, Zenon
<1>3. OffsetsTypes
  <2>1. ofds \in Seq(Descriptions) /\ Len(ofds) = 0
    BY <1>1, EmptySeq
  <2>2. /\ fds \in [Offsets!Variables -> {-1} \cup 1 .. Len(ofds)]
        /\ \A x \in Offsets!Variables : fds[x] = -1
    BY <1>1
  <2>3. clean \in BOOLEAN
    BY <1>1
  <2> QED
    BY <1>1, <1>2, <2>1, <2>2, <2>3, Zenon DEF OffsetsTypes
<1>4. AtCall(1)
  <2>1. PICK S : Calls \in Seq(S)
    BY <1>1, CallsWellFormed
  <2>2. 1 \in 1 .. Len(Calls) + 1
    BY <2>1, LenProperties
  <2> QED
    BY <1>1, <2>1, <2>2, Whole, Zenon DEF AtCall
<1>5. StateBefore(1)
  BY <1>1 DEF StateBefore, State1, State2, State5, State6
<1>6. Offsets!Outcomes
  <2>1. before # Offsets!NoFile => Offsets!IsPrefix(before, file)
    <3>1. ASSUME before # Offsets!NoFile
          PROVE  Offsets!IsPrefix(before, file)
      <4>1. before \in Seq(Cells) /\ file = before
        BY <1>1, <1>2, <3>1
      <4>2. Len(before) <= Len(before)
        BY <4>1, LenProperties
      <4> QED
        BY <4>1, <4>2, BeginsLike, Zenon
    <3> QED
      BY <3>1
  <2>2. status # "exited"
    BY <1>1
  <2> QED
    BY <2>1, <2>2, Zenon DEF Offsets!Outcomes
<1>7. Offsets!AssertsHold
  BY <1>1 DEF Offsets!AssertsHold
<1>8. 1 \in 1 .. 11
  OBVIOUS
<1> QED
  BY <1>3, <1>4, <1>5, <1>6, <1>7, <1>8, Zenon DEF OffsetsInv

(* A program that goes on or dies need only keep what question 2 appended to. *)
LEMMA OffsetsGoesOn ==
  ASSUME OffsetsTypes', status' \in {"running", "died"},
         prog[1] = "q2" /\ before # Offsets!NoFile => Offsets!IsPrefix(before, file)',
         prog' = prog, before' = before,
         status' = "running" => \E n \in 1 .. 11 : (AtCall(n) /\ StateBefore(n))'
  PROVE  OffsetsInv'
<1>1. Offsets!Outcomes'
  <2>1. status' # "exited"
    OBVIOUS
  <2> QED
    BY <2>1, Zenon DEF Offsets!Outcomes
<1>2. Offsets!AssertsHold'
  BY DEF Offsets!AssertsHold
<1> QED
  BY <1>1, <1>2, Zenon DEF OffsetsInv

(* A call that fails and is checked ends the program. *)
LEMMA OffsetsFails ==
  ASSUME OffsetsInv, Offsets!CallFails, Offsets!call.check # "none"
  PROVE  OffsetsInv'
<1>1. OffsetsTypes
  BY DEF OffsetsInv
<1>2. /\ file' = file /\ status' = "died" /\ prog' = prog /\ before' = before
      /\ OffsetsTypes'
  BY <1>1, FailEffect
<1>3. prog[1] = "q2" /\ before # Offsets!NoFile => Offsets!IsPrefix(before, file)
  BY Zenon DEF OffsetsInv, Offsets!Outcomes
<1>4. prog[1] = "q2" /\ before # Offsets!NoFile => Offsets!IsPrefix(before, file)'
  BY <1>2, <1>3, Zenon
<1> QED
  BY <1>2, <1>4, OffsetsGoesOn

(* Where a running program is. *)
LEMMA OffsetsWhere ==
  ASSUME OffsetsInv, Offsets!Next
  PROVE  /\ OffsetsTypes /\ status = "running" /\ prog \in Offsets!Programs
         /\ \E n \in 1 .. 11 : AtCall(n) /\ StateBefore(n)
<1>1. status = "running"
  BY DEF Offsets!Next, Offsets!Open, Offsets!Dup, Offsets!Seek, Offsets!Write,
         Offsets!WriteShort, Offsets!Fcntl, Offsets!Close, Offsets!AssertOffset,
         Offsets!CallFails, Offsets!Exit, Offsets!Calling
<1> QED
  BY <1>1, Zenon DEF OffsetsInv, OffsetsTypes

(* Question 1, step by step. *)
LEMMA Offsets1 ==
  OffsetsInv /\ Offsets!Next /\ prog[1] = "q1" => OffsetsInv'
<1> SUFFICES ASSUME OffsetsInv, Offsets!Next, prog[1] = "q1"
             PROVE  OffsetsInv'
  OBVIOUS
<1>1. OffsetsTypes /\ status = "running" /\ prog \in Offsets!Programs
  BY OffsetsWhere, Zenon
<1>2. PICK n \in 1 .. 11 : AtCall(n) /\ StateBefore(n)
  BY OffsetsWhere, Zenon
<1>3. State1(n)
  BY <1>2, Zenon DEF StateBefore
<1>4. Calls = Offsets!Question1(prog[2]) /\ Len(Calls) = 3 /\ prog[2] \in Nat
  BY <1>1, CallsWellFormed, Zenon
<1>5. /\ Calls[1] = Offsets!Opens("fd", {"O_CREAT"}, "exit")
      /\ Calls[2] = Offsets!Seeks("fd", prog[2], "exit")
      /\ Calls[3] = Offsets!Writes("fd", Offsets!Text("test", 4), "exit")
  BY <1>4, Script1, Zenon
<1>6. /\ n \in 1 .. Len(Calls) =>
           /\ script # <<>> /\ Offsets!call = Calls[n] /\ WellFormed(Offsets!call)
           /\ script' = Tail(script) /\ prog' = prog => AtCall(n + 1)'
      /\ n = Len(Calls) + 1 => script = <<>>
      /\ n \in 1 .. Len(Calls) + 1
  BY <1>1, <1>2, Advance, Zenon
<1>7. n \in 1 .. 4 /\ (n # 4 => n \in 1 .. 3)
  BY <1>4, <1>6
<1>8. ASSUME Offsets!CallFails, Offsets!call.check = "exit"
      PROVE  OffsetsInv'
  BY <1>8, OffsetsFails
<1>9. ASSUME OffsetsTypes', status' = "running", NEW m \in 1 .. 11, AtCall(m)',
             State1(m)', prog' = prog, before' = before
      PROVE  OffsetsInv'
  <2>1. StateBefore(m)'
    BY <1>9 DEF StateBefore
  <2> QED
    BY <1>9, <2>1, OffsetsGoesOn
<1>10. CASE n = 1
  <2>1. /\ script # <<>> /\ WellFormed(Offsets!call)
        /\ Offsets!call = Offsets!Opens("fd", {"O_CREAT"}, "exit")
        /\ script' = Tail(script) /\ prog' = prog => AtCall(2)'
    BY <1>4, <1>5, <1>6, <1>7, <1>10
  <2>2. /\ Offsets!call.op = "open" /\ Offsets!call.fd = "fd"
        /\ Offsets!call.flags = {"O_CREAT"} /\ Offsets!call.check = "exit"
    BY <2>1, Fields
  <2>3. CASE Offsets!Open
    <3>1. /\ file' = IF file = Offsets!NoFile \/ "O_TRUNC" \in Offsets!call.flags
                     THEN <<>> ELSE file
          /\ Len(ofds') = Len(ofds) + 1
          /\ ofds'[Len(ofds) + 1].append <=> "O_APPEND" \in Offsets!call.flags
          /\ fds' = [fds EXCEPT ![Offsets!call.fd] = Len(ofds) + 1]
          /\ clean' = clean /\ status' = status /\ prog' = prog
          /\ before' = before /\ script' = Tail(script) /\ OffsetsTypes'
      BY <1>1, <2>1, <2>3, OpenEffect
    <3>2. Len(ofds) = 0 /\ file = before
      BY <1>3, <1>10 DEF State1
    <3>3. State1(2)'
      <4>1. fds'["fd"] = 1 /\ Len(ofds') = 1 /\ ~ofds'[1].append
        BY <1>1, <2>2, <3>1, <3>2 DEF OffsetsTypes, Offsets!Variables
      <4>2. file' = Offsets!Existing'
        BY <2>2, <3>1, <3>2 DEF Offsets!Existing
      <4> QED
        BY <4>1, <4>2 DEF State1
    <3> QED
      BY <1>1, <1>9, <2>1, <3>1, <3>3
  <2> QED
    BY <1>8, <2>1, <2>2, <2>3, OneCall
<1>11. CASE n = 2
  <2>1. /\ script # <<>> /\ WellFormed(Offsets!call)
        /\ Offsets!call = Offsets!Seeks("fd", prog[2], "exit")
        /\ script' = Tail(script) /\ prog' = prog => AtCall(3)'
    BY <1>4, <1>5, <1>6, <1>7, <1>11
  <2>2. /\ Offsets!call.op = "lseek" /\ Offsets!call.fd = "fd"
        /\ Offsets!call.at = prog[2] /\ Offsets!call.check = "exit"
    BY <2>1, Fields
  <2>3. CASE Offsets!Seek
    <3>1. LET o == fds[Offsets!call.fd] IN
            /\ file' = file /\ fds' = fds /\ Len(ofds') = Len(ofds)
            /\ ofds'[o].offset = Offsets!call.at
            /\ ofds'[o].append <=> ofds[o].append
            /\ clean' = clean /\ status' = status /\ prog' = prog
            /\ before' = before /\ script' = Tail(script) /\ OffsetsTypes'
      BY <1>1, <2>1, <2>2, <2>3, SeekEffect
    <3>2. State1(3)'
      BY <1>3, <1>11, <2>2, <3>1 DEF State1, Offsets!Existing
    <3> QED
      BY <1>1, <1>9, <2>1, <3>1, <3>2
  <2> QED
    BY <1>8, <2>1, <2>2, <2>3, OneCall
<1>12. CASE n = 3
  <2>1. /\ script # <<>> /\ WellFormed(Offsets!call)
        /\ Offsets!call = Offsets!Writes("fd", Offsets!Text("test", 4), "exit")
        /\ script' = Tail(script) /\ prog' = prog => AtCall(4)'
    BY <1>4, <1>5, <1>6, <1>7, <1>12
  <2>2. /\ Offsets!call.op = "write" /\ Offsets!call.fd = "fd"
        /\ Offsets!call.s = Offsets!Text("test", 4) /\ Offsets!call.check = "exit"
    BY <2>1, Fields
  <2>3. /\ fds["fd"] = 1 /\ ~ofds[1].append /\ ofds[1].offset = prog[2]
        /\ file = Offsets!Existing
    BY <1>3, <1>12 DEF State1
  <2>4. CASE Offsets!Write
    <3>1. LET o == fds[Offsets!call.fd]
              at == IF ofds[o].append THEN Len(file) ELSE ofds[o].offset
          IN  /\ file' = Offsets!PutAt(file, at, Offsets!call.s)
              /\ clean' = clean /\ status' = status /\ prog' = prog
              /\ before' = before /\ script' = Tail(script) /\ OffsetsTypes'
      BY <1>1, <2>1, <2>2, <2>4, WriteEffect, Zenon
    <3>2. file' = Offsets!PutAt(Offsets!Existing, prog[2], Offsets!Text("test", 4))
      BY <2>2, <2>3, <3>1, Zenon
    <3>3. Offsets!Existing' = Offsets!Existing
      BY <3>1 DEF Offsets!Existing
    <3>4. (file = Offsets!PutAt(Offsets!Existing, prog[2], Offsets!Text("test", 4)))'
      BY <3>1, <3>2, <3>3, Zenon
    <3>5. State1(4)'
      BY <3>4 DEF State1
    <3> QED
      BY <1>1, <1>9, <2>1, <3>1, <3>5
  <2>5. CASE Offsets!WriteShort
    <3>1. /\ ~clean' /\ status' = status /\ prog' = prog
          /\ before' = before /\ script' = Tail(script) /\ OffsetsTypes'
      BY <1>1, <2>1, <2>2, <2>5, ShortEffect
    <3>2. State1(4)'
      BY <3>1 DEF State1
    <3> QED
      BY <1>1, <1>9, <2>1, <3>1, <3>2
  <2> QED
    BY <1>8, <2>1, <2>2, <2>4, <2>5, OneCall
<1>13. CASE n = 4
  <2>1. /\ status' = "exited" /\ file' = file /\ clean' = clean
        /\ prog' = prog /\ before' = before /\ OffsetsTypes'
    BY <1>1, <1>4, <1>6, <1>13, ExitEffect
  <2>2. clean => file = Offsets!PutAt(Offsets!Existing, prog[2], Offsets!Text("test", 4))
    BY <1>3, <1>13 DEF State1
  <2>3. Offsets!Outcomes'
    BY <2>1, <2>2 DEF Offsets!Outcomes, Offsets!Existing
  <2> QED
    BY <2>1, <2>3 DEF OffsetsInv, Offsets!AssertsHold
<1> QED
  BY <1>7, <1>10, <1>11, <1>12, <1>13

(* Question 2, step by step. *)
LEMMA Offsets2 ==
  OffsetsInv /\ Offsets!Next /\ prog[1] = "q2" => OffsetsInv'
<1> SUFFICES ASSUME OffsetsInv, Offsets!Next, prog[1] = "q2"
             PROVE  OffsetsInv'
  OBVIOUS
<1>1. OffsetsTypes /\ status = "running" /\ prog \in Offsets!Programs
  BY OffsetsWhere, Zenon
<1>2. PICK n \in 1 .. 11 : AtCall(n) /\ StateBefore(n)
  BY OffsetsWhere, Zenon
<1>3. State2(n)
  BY <1>2, Zenon DEF StateBefore
<1>4. Calls = Offsets!Question2 /\ Len(Calls) = 4
  BY <1>1, CallsWellFormed, Zenon
<1>5. /\ Calls[1] = Offsets!Opens("fd", {"O_APPEND"}, "exit")
      /\ Calls[2] = Offsets!Seeks("fd", 0, "exit")
      /\ Calls[3] = Offsets!Writes("fd", Offsets!Text("data", DataBytes), "deliver")
      /\ Calls[4] = Offsets!Closes("fd")
  BY <1>4, Script2, Zenon
<1>6. /\ n \in 1 .. Len(Calls) =>
           /\ script # <<>> /\ Offsets!call = Calls[n] /\ WellFormed(Offsets!call)
           /\ script' = Tail(script) /\ prog' = prog => AtCall(n + 1)'
      /\ n = Len(Calls) + 1 => script = <<>>
      /\ n \in 1 .. Len(Calls) + 1
  BY <1>1, <1>2, Advance, Zenon
<1>7. n \in 1 .. 5 /\ (n # 5 => n \in 1 .. 4)
  BY <1>4, <1>6
<1>8. ASSUME Offsets!CallFails, Offsets!call.check # "none"
      PROVE  OffsetsInv'
  BY <1>8, OffsetsFails
<1>9. before # Offsets!NoFile => Offsets!IsPrefix(before, file)
  BY Zenon DEF OffsetsInv, Offsets!Outcomes
<1>10. ASSUME OffsetsTypes', status' = "running", NEW m \in 1 .. 11, AtCall(m)',
              State2(m)', prog' = prog, before' = before,
              before # Offsets!NoFile => Offsets!IsPrefix(before, file')
       PROVE  OffsetsInv'
  <2>1. StateBefore(m)'
    BY <1>10 DEF StateBefore
  <2>2. prog[1] = "q2" /\ before # Offsets!NoFile => Offsets!IsPrefix(before, file)'
    BY <1>10, Zenon
  <2> QED
    BY <1>10, <2>1, <2>2, OffsetsGoesOn
<1>11. CASE n = 1
  <2>1. /\ script # <<>> /\ WellFormed(Offsets!call)
        /\ Offsets!call = Offsets!Opens("fd", {"O_APPEND"}, "exit")
        /\ script' = Tail(script) /\ prog' = prog => AtCall(2)'
    BY <1>4, <1>5, <1>6, <1>7, <1>11
  <2>2. /\ Offsets!call.op = "open" /\ Offsets!call.fd = "fd"
        /\ Offsets!call.flags = {"O_APPEND"} /\ Offsets!call.check = "exit"
    BY <2>1, Fields
  <2>3. CASE Offsets!Open
    <3>1. /\ file' = IF file = Offsets!NoFile \/ "O_TRUNC" \in Offsets!call.flags
                     THEN <<>> ELSE file
          /\ Len(ofds') = Len(ofds) + 1
          /\ ofds'[Len(ofds) + 1].append <=> "O_APPEND" \in Offsets!call.flags
          /\ fds' = [fds EXCEPT ![Offsets!call.fd] = Len(ofds) + 1]
          /\ clean' = clean /\ status' = status /\ prog' = prog
          /\ before' = before /\ script' = Tail(script) /\ OffsetsTypes'
      BY <1>1, <2>1, <2>3, OpenEffect
    <3>2. Len(ofds) = 0 /\ file = before
      BY <1>3, <1>11 DEF State2
    <3>3. file # Offsets!NoFile
      BY <2>2, <2>3 DEF Offsets!Open
    <3>4. fds'["fd"] = 1 /\ Len(ofds') = 1 /\ ofds'[1].append
      BY <1>1, <2>2, <3>1, <3>2 DEF OffsetsTypes, Offsets!Variables
    <3>5. file' = file
      BY <2>2, <3>1, <3>3
    <3>6. State2(2)'
      BY <3>1, <3>2, <3>3, <3>4, <3>5 DEF State2
    <3> QED
      BY <1>1, <1>9, <1>10, <2>1, <3>1, <3>5, <3>6
  <2> QED
    BY <1>8, <2>1, <2>2, <2>3, OneCall
<1>12. CASE n = 2
  <2>1. /\ script # <<>> /\ WellFormed(Offsets!call)
        /\ Offsets!call = Offsets!Seeks("fd", 0, "exit")
        /\ script' = Tail(script) /\ prog' = prog => AtCall(3)'
    BY <1>4, <1>5, <1>6, <1>7, <1>12
  <2>2. /\ Offsets!call.op = "lseek" /\ Offsets!call.fd = "fd"
        /\ Offsets!call.check = "exit"
    BY <2>1, Fields
  <2>3. CASE Offsets!Seek
    <3>1. LET o == fds[Offsets!call.fd] IN
            /\ file' = file /\ fds' = fds /\ Len(ofds') = Len(ofds)
            /\ ofds'[o].append <=> ofds[o].append
            /\ clean' = clean /\ status' = status /\ prog' = prog
            /\ before' = before /\ script' = Tail(script) /\ OffsetsTypes'
      BY <1>1, <2>1, <2>2, <2>3, SeekEffect
    <3>2. State2(3)'
      BY <1>3, <1>12, <2>2, <3>1 DEF State2
    <3> QED
      BY <1>1, <1>9, <1>10, <2>1, <3>1, <3>2
  <2> QED
    BY <1>8, <2>1, <2>2, <2>3, OneCall
<1>13. CASE n = 3
  <2>1. /\ script # <<>> /\ WellFormed(Offsets!call)
        /\ Offsets!call = Offsets!Writes("fd", Offsets!Text("data", DataBytes), "deliver")
        /\ script' = Tail(script) /\ prog' = prog => AtCall(4)'
    BY <1>4, <1>5, <1>6, <1>7, <1>13
  <2>2. /\ Offsets!call.op = "write" /\ Offsets!call.fd = "fd"
        /\ Offsets!call.s = Offsets!Text("data", DataBytes)
        /\ Offsets!call.check = "deliver"
    BY <2>1, Fields
  <2>3. /\ fds["fd"] = 1 /\ ofds[1].append
        /\ file = before /\ before # Offsets!NoFile
    BY <1>3, <1>13 DEF State2
  <2>4. file \in Seq(Cells)
    BY <1>1, <2>3, Zenon DEF OffsetsTypes
  <2>5. CASE Offsets!Write
    <3>1. LET o == fds[Offsets!call.fd]
              at == IF ofds[o].append THEN Len(file) ELSE ofds[o].offset
          IN  /\ file' = Offsets!PutAt(file, at, Offsets!call.s)
              /\ clean' = clean /\ status' = status /\ prog' = prog
              /\ before' = before /\ script' = Tail(script) /\ OffsetsTypes'
      BY <1>1, <2>1, <2>2, <2>5, WriteEffect, Zenon
    <3>2. file' = Offsets!PutAt(file, Len(file), Offsets!Text("data", DataBytes))
      BY <2>2, <2>3, <3>1, Zenon
    <3>3. /\ Offsets!Text("data", DataBytes) \in Seq(Cells)
          /\ Len(Offsets!Text("data", DataBytes)) > 0
      <4>1. DataBytes \in Nat \ {0}
        BY WrittenTexts, Zenon
      <4>2. DataBytes > 0
        BY <4>1
      <4> QED
        BY <4>2, WrittenTexts, Zenon
    <3>4. /\ file' = before \o Offsets!Text("data", DataBytes)
          /\ Offsets!IsPrefix(before, file')
      BY <2>3, <2>4, <3>2, <3>3, PutAtEnd, Zenon
    <3>5. (file = before \o Offsets!Text("data", DataBytes))'
      BY <3>1, <3>4, Zenon
    <3>6. State2(4)'
      BY <2>3, <3>1, <3>5 DEF State2
    <3> QED
      BY <1>1, <1>10, <2>1, <3>1, <3>4, <3>6
  <2>6. CASE Offsets!WriteShort
    <3>1. LET o == fds[Offsets!call.fd]
              at == IF ofds[o].append THEN Len(file) ELSE ofds[o].offset
          IN  /\ \E s \in Seq(Cells) :
                   Len(s) > 0 /\ file' = Offsets!PutAt(file, at, s)
              /\ status' = IF Offsets!call.check = "deliver" THEN "died" ELSE status
              /\ prog' = prog /\ before' = before /\ OffsetsTypes'
      BY <1>1, <2>1, <2>2, <2>6, ShortEffect, Zenon
    <3>2. PICK s \in Seq(Cells) :
            Len(s) > 0 /\ file' = Offsets!PutAt(file, Len(file), s)
      BY <2>2, <2>3, <3>1, Zenon
    <3>3. Offsets!IsPrefix(before, file')
      BY <2>3, <2>4, <3>2, PutAtEnd, Zenon
    <3>4. status' = "died"
      BY <2>2, <3>1, Zenon
    <3>5. prog[1] = "q2" /\ before # Offsets!NoFile => Offsets!IsPrefix(before, file)'
      BY <3>1, <3>3, Zenon
    <3> QED
      BY <3>1, <3>4, <3>5, OffsetsGoesOn
  <2> QED
    BY <1>8, <2>1, <2>2, <2>5, <2>6, OneCall
<1>14. CASE n = 4
  <2>1. /\ script # <<>> /\ WellFormed(Offsets!call)
        /\ Offsets!call = Offsets!Closes("fd")
        /\ script' = Tail(script) /\ prog' = prog => AtCall(5)'
    BY <1>4, <1>5, <1>6, <1>7, <1>14
  <2>2. Offsets!call.op = "close" /\ Offsets!call.check = "exit"
    BY <2>1, Fields
  <2>3. CASE Offsets!Close
    <3>1. /\ file' = file /\ status' = status /\ prog' = prog
          /\ before' = before /\ script' = Tail(script) /\ OffsetsTypes'
      BY <1>1, <2>1, <2>3, CloseEffect
    <3>2. State2(5)'
      BY <1>3, <1>14, <3>1 DEF State2
    <3> QED
      BY <1>1, <1>9, <1>10, <2>1, <3>1, <3>2
  <2> QED
    BY <1>8, <2>1, <2>2, <2>3, OneCall
<1>15. CASE n = 5
  <2>1. /\ status' = "exited" /\ file' = file /\ clean' = clean
        /\ prog' = prog /\ before' = before /\ OffsetsTypes'
    BY <1>1, <1>4, <1>6, <1>15, ExitEffect
  <2>2. file = before \o Offsets!Text("data", DataBytes)
    BY <1>3, <1>15 DEF State2
  <2>3. /\ prog'[1] = "q2" /\ (file = before \o Offsets!Text("data", DataBytes))'
        /\ before' # Offsets!NoFile => Offsets!IsPrefix(before', file')
    BY <1>9, <2>1, <2>2, Zenon
  <2>4. Offsets!Outcomes'
    BY <2>3 DEF Offsets!Outcomes
  <2> QED
    BY <2>1, <2>4 DEF OffsetsInv, Offsets!AssertsHold
<1> QED
  BY <1>7, <1>11, <1>12, <1>13, <1>14, <1>15

(* Question 5, step by step. *)
LEMMA Offsets5 ==
  OffsetsInv /\ Offsets!Next /\ prog[1] = "q5" => OffsetsInv'
<1> SUFFICES ASSUME OffsetsInv, Offsets!Next, prog[1] = "q5"
             PROVE  OffsetsInv'
  OBVIOUS
<1>1. OffsetsTypes /\ status = "running" /\ prog \in Offsets!Programs
  BY OffsetsWhere, Zenon
<1>2. PICK n \in 1 .. 11 : AtCall(n) /\ StateBefore(n)
  BY OffsetsWhere, Zenon
<1>3. State5(n)
  BY <1>2, Zenon DEF StateBefore
<1>4. Calls = Offsets!Question5 /\ Len(Calls) = 7
  BY <1>1, CallsWellFormed, Zenon
<1>5. /\ Calls[1] = Offsets!Opens("fd", {"O_CREAT", "O_TRUNC"}, "exit")
      /\ Calls[2] = Offsets!Dups("dup_fd", "fd", "exit")
      /\ Calls[3] = Offsets!Fcntls("fd")
      /\ Calls[4] = Offsets!Fcntls("fd")
      /\ Calls[5] = Offsets!Seeks("fd", RandomOffset, "exit")
      /\ Calls[6] = Offsets!AssertsAt("dup_fd", RandomOffset)
      /\ Calls[7] = Offsets!Closes("fd")
  BY <1>4, Script5, Zenon
<1>6. /\ n \in 1 .. Len(Calls) =>
           /\ script # <<>> /\ Offsets!call = Calls[n] /\ WellFormed(Offsets!call)
           /\ script' = Tail(script) /\ prog' = prog => AtCall(n + 1)'
      /\ n = Len(Calls) + 1 => script = <<>>
      /\ n \in 1 .. Len(Calls) + 1
  BY <1>1, <1>2, Advance, Zenon
<1>7. n \in 1 .. 8 /\ (n # 8 => n \in 1 .. 7)
  BY <1>4, <1>6
<1>8. ASSUME Offsets!CallFails, Offsets!call.check # "none"
      PROVE  OffsetsInv'
  BY <1>8, OffsetsFails
<1>9. ASSUME OffsetsTypes', status' = "running", NEW m \in 1 .. 11, AtCall(m)',
             State5(m)', prog' = prog, before' = before
      PROVE  OffsetsInv'
  <2>1. StateBefore(m)'
    BY <1>9 DEF StateBefore
  <2> QED
    BY <1>9, <2>1, OffsetsGoesOn
<1>10. CASE n = 1
  <2>1. /\ script # <<>> /\ WellFormed(Offsets!call)
        /\ Offsets!call = Offsets!Opens("fd", {"O_CREAT", "O_TRUNC"}, "exit")
        /\ script' = Tail(script) /\ prog' = prog => AtCall(2)'
    BY <1>4, <1>5, <1>6, <1>7, <1>10
  <2>2. /\ Offsets!call.op = "open" /\ Offsets!call.fd = "fd"
        /\ Offsets!call.flags = {"O_CREAT", "O_TRUNC"}
        /\ Offsets!call.check = "exit"
    BY <2>1, Fields
  <2>3. CASE Offsets!Open
    <3>1. /\ file' = IF file = Offsets!NoFile \/ "O_TRUNC" \in Offsets!call.flags
                     THEN <<>> ELSE file
          /\ fds' = [fds EXCEPT ![Offsets!call.fd] = Len(ofds) + 1]
          /\ clean' = clean /\ status' = status /\ prog' = prog
          /\ before' = before /\ script' = Tail(script) /\ OffsetsTypes'
      BY <1>1, <2>1, <2>3, OpenEffect
    <3>2. Len(ofds) = 0
      BY <1>3, <1>10 DEF State5
    <3>3. fds'["fd"] = 1 /\ file' = <<>>
      BY <1>1, <2>2, <3>1, <3>2 DEF OffsetsTypes, Offsets!Variables
    <3>4. State5(2)'
      BY <3>3 DEF State5
    <3> QED
      BY <1>1, <1>9, <2>1, <3>1, <3>4
  <2> QED
    BY <1>8, <2>1, <2>2, <2>3, OneCall
<1>11. CASE n = 2
  <2>1. /\ script # <<>> /\ WellFormed(Offsets!call)
        /\ Offsets!call = Offsets!Dups("dup_fd", "fd", "exit")
        /\ script' = Tail(script) /\ prog' = prog => AtCall(3)'
    BY <1>4, <1>5, <1>6, <1>7, <1>11
  <2>2. /\ Offsets!call.op = "dup" /\ Offsets!call.fd = "dup_fd"
        /\ Offsets!call.from = "fd" /\ Offsets!call.check = "exit"
    BY <2>1, Fields
  <2>3. CASE Offsets!Dup
    <3>1. /\ file' = file /\ ofds' = ofds
          /\ fds' = [fds EXCEPT ![Offsets!call.fd] = fds[Offsets!call.from]]
          /\ clean' = clean /\ status' = status /\ prog' = prog
          /\ before' = before /\ script' = Tail(script) /\ OffsetsTypes'
      BY <1>1, <2>1, <2>2, <2>3, DupEffect
    <3>2. fds["fd"] = 1 /\ file = <<>>
      BY <1>3, <1>11 DEF State5
    <3>3. fds'["fd"] = 1 /\ fds'["dup_fd"] = 1
      BY <1>1, <2>2, <3>1, <3>2 DEF OffsetsTypes, Offsets!Variables
    <3>4. State5(3)'
      BY <3>1, <3>2, <3>3 DEF State5
    <3> QED
      BY <1>1, <1>9, <2>1, <3>1, <3>4
  <2> QED
    BY <1>8, <2>1, <2>2, <2>3, OneCall
<1>12. CASE n \in {3, 4}
  <2>1. /\ script # <<>> /\ WellFormed(Offsets!call)
        /\ Offsets!call = Offsets!Fcntls("fd")
        /\ script' = Tail(script) /\ prog' = prog => AtCall(n + 1)'
    BY <1>4, <1>5, <1>6, <1>7, <1>12
  <2>2. Offsets!call.op = "fcntl" /\ Offsets!call.check = "exit"
    BY <2>1, Fields
  <2>3. CASE Offsets!Fcntl
    <3>1. /\ file' = file /\ ofds' = ofds /\ fds' = fds
          /\ clean' = clean /\ status' = status /\ prog' = prog
          /\ before' = before /\ script' = Tail(script) /\ OffsetsTypes'
      BY <1>1, <2>3, FcntlEffect
    <3>2. PICK m : m = n + 1
      OBVIOUS
    <3>3. m \in 4 .. 5
      BY <1>12, <3>2
    <3>4. State5(m)'
      BY <1>3, <1>12, <3>1, <3>3 DEF State5
    <3>5. AtCall(m)'
      BY <2>1, <3>1, <3>2, Zenon
    <3> QED
      BY <1>1, <1>9, <3>1, <3>3, <3>4, <3>5
  <2> QED
    BY <1>8, <2>1, <2>2, <2>3, OneCall
<1>13. CASE n = 5
  <2>1. /\ script # <<>> /\ WellFormed(Offsets!call)
        /\ Offsets!call = Offsets!Seeks("fd", RandomOffset, "exit")
        /\ script' = Tail(script) /\ prog' = prog => AtCall(6)'
    BY <1>4, <1>5, <1>6, <1>7, <1>13
  <2>2. /\ Offsets!call.op = "lseek" /\ Offsets!call.fd = "fd"
        /\ Offsets!call.at = RandomOffset /\ Offsets!call.check = "exit"
    BY <2>1, Fields
  <2>3. CASE Offsets!Seek
    <3>1. LET o == fds[Offsets!call.fd] IN
            /\ file' = file /\ fds' = fds
            /\ ofds'[o].offset = Offsets!call.at
            /\ clean' = clean /\ status' = status /\ prog' = prog
            /\ before' = before /\ script' = Tail(script) /\ OffsetsTypes'
      BY <1>1, <2>1, <2>2, <2>3, SeekEffect
    <3>2. State5(6)'
      BY <1>3, <1>13, <2>2, <3>1 DEF State5
    <3> QED
      BY <1>1, <1>9, <2>1, <3>1, <3>2
  <2> QED
    BY <1>8, <2>1, <2>2, <2>3, OneCall
<1>14. CASE n = 6
  <2>1. /\ script # <<>> /\ WellFormed(Offsets!call)
        /\ Offsets!call = Offsets!AssertsAt("dup_fd", RandomOffset)
        /\ script' = Tail(script) /\ prog' = prog => AtCall(7)'
    BY <1>4, <1>5, <1>6, <1>7, <1>14
  <2>2. /\ Offsets!call.op = "assert" /\ Offsets!call.fd = "dup_fd"
        /\ Offsets!call.at = RandomOffset
    BY <2>1, Fields
  <2>3. Offsets!AssertOffset
    BY <2>1, <2>2, OneCall
  <2>4. /\ file' = file /\ ofds' = ofds /\ fds' = fds
        /\ status' = IF ofds[fds[Offsets!call.fd]].offset = Offsets!call.at
                     THEN status ELSE "aborted"
        /\ clean' = clean /\ prog' = prog /\ before' = before
        /\ script' = Tail(script) /\ OffsetsTypes'
    BY <1>1, <2>3, AssertEffect
  <2>5. fds["dup_fd"] = 1 /\ ofds[1].offset = RandomOffset
    BY <1>3, <1>14 DEF State5
  <2>6. status' = "running"
    BY <1>1, <2>2, <2>4, <2>5
  <2>7. State5(7)'
    BY <1>3, <1>14, <2>4 DEF State5
  <2> QED
    BY <1>9, <2>1, <2>4, <2>6, <2>7
<1>15. CASE n = 7
  <2>1. /\ script # <<>> /\ WellFormed(Offsets!call)
        /\ Offsets!call = Offsets!Closes("fd")
        /\ script' = Tail(script) /\ prog' = prog => AtCall(8)'
    BY <1>4, <1>5, <1>6, <1>7, <1>15
  <2>2. Offsets!call.op = "close" /\ Offsets!call.check = "exit"
    BY <2>1, Fields
  <2>3. CASE Offsets!Close
    <3>1. /\ file' = file /\ status' = status /\ prog' = prog
          /\ before' = before /\ script' = Tail(script) /\ OffsetsTypes'
      BY <1>1, <2>1, <2>3, CloseEffect
    <3>2. State5(8)'
      BY <1>3, <1>15, <3>1 DEF State5
    <3> QED
      BY <1>1, <1>9, <2>1, <3>1, <3>2
  <2> QED
    BY <1>8, <2>1, <2>2, <2>3, OneCall
<1>16. CASE n = 8
  <2>1. /\ status' = "exited" /\ file' = file /\ clean' = clean
        /\ prog' = prog /\ before' = before /\ OffsetsTypes'
    BY <1>1, <1>4, <1>6, <1>16, ExitEffect
  <2>2. file = <<>>
    BY <1>3, <1>16 DEF State5
  <2>3. Offsets!Outcomes'
    BY <2>1, <2>2 DEF Offsets!Outcomes
  <2> QED
    BY <2>1, <2>3 DEF OffsetsInv, Offsets!AssertsHold
<1> QED
  BY <1>7, <1>10, <1>11, <1>12, <1>13, <1>14, <1>15, <1>16

(* g is the file f, of m cells, with the six of s at the offset at. *)
IsPutSix(g, f, m, at, s) ==
  /\ g \in Seq(Cells) /\ Len(g) = IF at + 6 < m THEN m ELSE at + 6
  /\ \A k \in 1 .. IF at + 6 < m THEN m ELSE at + 6 :
       g[k] = IF k \in at + 1 .. at + 6 THEN s[k - at]
              ELSE IF k <= m THEN f[k] ELSE Offsets!Hole

(* A write of six cells. *)
LEMMA PutSix ==
  ASSUME NEW f \in Seq(Cells), NEW at \in Nat, NEW s \in Seq(Cells), Len(s) = 6,
         NEW m \in Nat, m = Len(f)
  PROVE  IsPutSix(Offsets!PutAt(f, at, s), f, m, at, s)
<1>1. Len(s) > 0 /\ Offsets!Hole \in Cells
  <2>1. Len(s) > 0
    OBVIOUS
  <2>2. Offsets!Hole \in Cells
    BY Zenon DEF Cells
  <2> QED
    BY <2>1, <2>2, Zenon
<1>2. PICK g : g = Offsets!PutAt(f, at, s)
  OBVIOUS
<1>3. g \in Seq(Cells) /\ IsPut(g, f, at, s)
  BY <1>1, <1>2, PutAnywhere, Zenon
<1>4. PICK n : n = IF at + 6 < m THEN m ELSE at + 6
  OBVIOUS
<1>5. Len(g) = n
  BY <1>3, <1>4, Zenon DEF IsPut
<1>6. \A k \in 1 .. n : g[k] = IF k \in at + 1 .. at + 6 THEN s[k - at]
                               ELSE IF k <= m THEN f[k] ELSE Offsets!Hole
  BY <1>3, <1>5, Zenon DEF IsPut
<1> QED
  BY <1>2, <1>3, <1>4, <1>5, <1>6, Zenon DEF IsPutSix

(* Of "Hello," and "HELLO," nothing is left. *)
LEMMA Question6File ==
  Written4 = Offsets!Text("Gidday", 6) \o Offsets!Text("world", 5) \o <<Offsets!Null>>
<1>1. /\ Hello \in Seq(Cells) /\ Len(Hello) = 6
      /\ HELLO \in Seq(Cells) /\ Len(HELLO) = 6
      /\ Gidday \in Seq(Cells) /\ Len(Gidday) = 6
      /\ World \in Seq(Cells) /\ Len(World) = 6
  BY WrittenTexts, Zenon
<1>2. 0 \in Nat /\ 6 \in Nat /\ 12 \in Nat /\ 5 \in Nat
  OBVIOUS
<1>3. Written1 \in Seq(Cells) /\ Len(Written1) = 6
  <2>1. <<>> \in Seq(Cells) /\ Len(<<>>) = 0
    BY EmptySeq
  <2>2. IsPutSix(Written1, <<>>, 0, 0, Hello)
    BY <1>1, <1>2, <2>1, PutSix, Zenon DEF Written1
  <2>3. PICK e : e = <<>>
    OBVIOUS
  <2>4. IsPutSix(Written1, e, 0, 0, Hello)
    BY <2>2, <2>3, Zenon
  <2> QED
    BY <2>4 DEF IsPutSix
<1>4. /\ Written2 \in Seq(Cells) /\ Len(Written2) = 12
      /\ \A k \in 7 .. 12 : Written2[k] = World[k - 6]
  <2>1. IsPutSix(Written2, Written1, 6, 6, World)
    BY <1>1, <1>2, <1>3, PutSix, Zenon DEF Written2
  <2> QED
    BY <2>1 DEF IsPutSix
<1>5. /\ Written3 \in Seq(Cells) /\ Len(Written3) = 12
      /\ \A k \in 7 .. 12 : Written3[k] = Written2[k]
  <2>1. IsPutSix(Written3, Written2, 12, 0, HELLO)
    BY <1>1, <1>2, <1>4, PutSix, Zenon DEF Written3
  <2> QED
    BY <2>1 DEF IsPutSix
<1>6. /\ Written4 \in Seq(Cells) /\ Len(Written4) = 12
      /\ \A k \in 1 .. 6 : Written4[k] = Gidday[k]
      /\ \A k \in 7 .. 12 : Written4[k] = Written3[k]
  <2>1. IsPutSix(Written4, Written3, 12, 0, Gidday)
    BY <1>1, <1>2, <1>5, PutSix, Zenon DEF Written4
  <2> QED
    BY <2>1 DEF IsPutSix
<1>7. PICK u : u = Gidday \o World
  OBVIOUS
<1>8. /\ u \in Seq(Cells) /\ Len(u) = 12
      /\ \A k \in 1 .. 12 : u[k] = IF k <= 6 THEN Gidday[k] ELSE World[k - 6]
  <2>1. PICK a, b, S : a = Gidday /\ b = World /\ S = Cells
    OBVIOUS
  <2>2. a \in Seq(S) /\ Len(a) = 6 /\ b \in Seq(S) /\ Len(b) = 6 /\ u = a \o b
    BY <1>1, <1>7, <2>1, Zenon
  <2>3. PICK m, l : m = Len(a) /\ l = Len(b)
    OBVIOUS
  <2>4. /\ u \in Seq(S) /\ Len(u) = m + l
        /\ \A k \in 1 .. m + l : u[k] = IF k <= m THEN a[k] ELSE b[k - m]
    <3>1. /\ a \o b \in Seq(S) /\ Len(a \o b) = m + l
          /\ \A k \in 1 .. m + l : (a \o b)[k] = IF k <= m THEN a[k] ELSE b[k - m]
      BY <2>2, <2>3, ConcatProperties, Zenon
    <3> QED
      BY <2>2, <3>1, Zenon
  <2>5. m = 6 /\ l = 6
    BY <2>2, <2>3, Zenon
  <2> QED
    BY <2>1, <2>4, <2>5
<1>9. Written4 = u
  <2>1. \A k \in 1 .. 12 : Written4[k] = u[k]
    BY <1>4, <1>5, <1>6, <1>8
  <2> QED
    BY <1>6, <1>8, <2>1, SeqEqual
<1>10. u = Offsets!Text("Gidday", 6) \o Offsets!Text("world", 5) \o <<Offsets!Null>>
  <2>1. PICK a, b, c : /\ a = Offsets!Text("Gidday", 6)
                       /\ b = Offsets!Text("world", 5) /\ c = Offsets!Null
    OBVIOUS
  <2>2. a \in Seq({"Gidday"}) /\ b \in Seq({"world"})
    BY <1>2, <2>1, TextFacts, Zenon
  <2>3. PICK S : S = {"Gidday", "world", c}
    OBVIOUS
  <2>4. a \in Seq(S) /\ b \in Seq(S) /\ <<c>> \in Seq(S)
    <3>1. {"Gidday"} \subseteq S /\ {"world"} \subseteq S /\ c \in S
      BY <2>3
    <3>2. <<c>> \in Seq(S)
      BY <3>1
    <3> QED
      BY <2>2, <3>1, <3>2, SeqMonotonic
  <2>5. (a \o b) \o <<c>> = a \o (b \o <<c>>)
    BY <2>4, ConcatAssociative
  <2> QED
    BY <1>7, <2>1, <2>5, Zenon DEF Gidday, World
<1> QED
  BY <1>9, <1>10, Zenon

(* Whatever fails, a step is one call, and only an assert aborts. *)
LEMMA OffsetsOneStep ==
  ASSUME OffsetsTypes, Offsets!Next, script # <<>>, WellFormed(Offsets!call)
  PROVE  /\ OffsetsTypes' /\ script' = Tail(script)
         /\ prog' = prog /\ before' = before
         /\ clean' => clean /\ ~Offsets!CallFails /\ ~Offsets!WriteShort
         /\ Offsets!call.op # "assert" => status' \in {"running", "died"}
<1>1. status = "running"
  BY OneCall, Zenon
<1>2. CASE Offsets!CallFails
  BY <1>1, <1>2, FailEffect
<1>3. CASE Offsets!WriteShort
  <2>1. Offsets!call.op = "write"
    BY <1>3 DEF Offsets!WriteShort, Offsets!Calling, Offsets!call
  <2> QED
    BY <1>1, <1>3, <2>1, ShortEffect
<1>4. CASE ~Offsets!CallFails /\ ~Offsets!WriteShort
  <2>1. CASE Offsets!call.op = "open"
    <3>1. Offsets!Open
      BY <1>4, <2>1, OneCall, Zenon
    <3> QED
      <4>1. /\ OffsetsTypes' /\ script' = Tail(script) /\ prog' = prog
            /\ before' = before /\ clean' = clean /\ status' = status
        BY <3>1, OpenEffect, Zenon
      <4> QED
        BY <1>1, <1>4, <4>1
  <2>2. CASE Offsets!call.op = "dup"
    BY <1>1, <1>4, <2>2, OneCall, DupEffect
  <2>3. CASE Offsets!call.op = "lseek"
    <3>1. Offsets!Seek
      BY <1>4, <2>3, OneCall, Zenon
    <3> QED
      <4>1. /\ OffsetsTypes' /\ script' = Tail(script) /\ prog' = prog
            /\ before' = before /\ clean' = clean /\ status' = status
        BY <2>3, <3>1, SeekEffect, Zenon
      <4> QED
        BY <1>1, <1>4, <4>1
  <2>4. CASE Offsets!call.op = "write"
    <3>1. Offsets!Write
      BY <1>4, <2>4, OneCall, Zenon
    <3> QED
      <4>1. /\ OffsetsTypes' /\ script' = Tail(script) /\ prog' = prog
            /\ before' = before /\ clean' = clean /\ status' = status
        BY <2>4, <3>1, WriteEffect, Zenon
      <4> QED
        BY <1>1, <1>4, <4>1
  <2>5. CASE Offsets!call.op = "fcntl"
    BY <1>1, <1>4, <2>5, OneCall, FcntlEffect
  <2>6. CASE Offsets!call.op = "close"
    BY <1>1, <1>4, <2>6, OneCall, CloseEffect
  <2>7. CASE Offsets!call.op = "assert"
    BY <1>1, <1>4, <2>7, OneCall, AssertEffect
  <2> QED
    BY <2>1, <2>2, <2>3, <2>4, <2>5, <2>6, <2>7 DEF WellFormed
<1> QED
  BY <1>2, <1>3, <1>4

(* Question 6, step by step. *)
LEMMA Offsets6 ==
  OffsetsInv /\ Offsets!Next /\ prog[1] = "q6" => OffsetsInv'
<1> SUFFICES ASSUME OffsetsInv, Offsets!Next, prog[1] = "q6"
             PROVE  OffsetsInv'
  OBVIOUS
<1>1. OffsetsTypes /\ status = "running" /\ prog \in Offsets!Programs
  BY OffsetsWhere, Zenon
<1>2. PICK n \in 1 .. 11 : AtCall(n) /\ StateBefore(n)
  BY OffsetsWhere, Zenon
<1>3. clean => State6(n)
  BY <1>2, Zenon DEF StateBefore
<1>4. Calls = Offsets!Question6 /\ Len(Calls) = 10
  BY <1>1, CallsWellFormed, Zenon
<1>5. /\ n \in 1 .. Len(Calls) =>
           /\ script # <<>> /\ Offsets!call = Calls[n] /\ WellFormed(Offsets!call)
           /\ script' = Tail(script) /\ prog' = prog => AtCall(n + 1)'
      /\ n = Len(Calls) + 1 => script = <<>>
  BY <1>1, <1>2, Advance, Zenon
<1>6. CASE n = 11
  <2>1. /\ status' = "exited" /\ file' = file /\ clean' = clean
        /\ prog' = prog /\ before' = before /\ OffsetsTypes'
    BY <1>1, <1>4, <1>5, <1>6, ExitEffect
  <2>2. clean => file = Written4
    BY <1>3, <1>6 DEF State6
  <2>3. clean => file = Offsets!Text("Gidday", 6) \o Offsets!Text("world", 5)
                          \o <<Offsets!Null>>
    BY <2>2, Question6File, Zenon
  <2>4. Offsets!Outcomes'
    BY <2>1, <2>3 DEF Offsets!Outcomes
  <2> QED
    BY <2>1, <2>4 DEF OffsetsInv, Offsets!AssertsHold
<1>7. CASE n \in 1 .. 10
  <2>1. PICK m \in 2 .. 11 : m = n + 1
    BY <1>7
  <2>2. /\ script # <<>> /\ Offsets!call = Calls[n] /\ WellFormed(Offsets!call)
        /\ script' = Tail(script) /\ prog' = prog => AtCall(m)'
    BY <1>4, <1>5, <1>7, <2>1, Zenon
  <2>3. /\ OffsetsTypes' /\ script' = Tail(script)
        /\ prog' = prog /\ before' = before
        /\ clean' => clean /\ ~Offsets!CallFails /\ ~Offsets!WriteShort
        /\ Offsets!call.op # "assert" => status' \in {"running", "died"}
    BY <1>1, <2>2, OffsetsOneStep, Zenon
  <2>4. ASSUME Offsets!call.op # "assert", clean' => State6(m)'
        PROVE  OffsetsInv'
    <3>1. StateBefore(m)'
      BY <2>3, <2>4 DEF StateBefore
    <3>2. AtCall(m)' /\ m \in 1 .. 11
      BY <2>1, <2>2, <2>3
    <3> QED
      BY <2>3, <2>4, <3>1, <3>2, OffsetsGoesOn
  <2>5. CASE n = 1
    <3>1. Offsets!call = Offsets!Opens("fd1", {"O_CREAT", "O_TRUNC"}, "none")
      BY <1>4, <2>2, <2>5, Script6, Zenon
    <3>2. /\ Offsets!call.op = "open"
          /\ Offsets!call.fd = "fd1"
          /\ Offsets!call.flags = {"O_CREAT", "O_TRUNC"}
      BY <3>1, Fields
    <3>3. ASSUME clean'
          PROVE  State6(m)'
      <4>1. m = 2
        BY <2>1, <2>5
      <4>2. State6(n) /\ Offsets!Open
        BY <1>3, <2>2, <2>3, <3>2, <3>3, OneCall
      <4>3. /\ file' = IF file = Offsets!NoFile \/ "O_TRUNC" \in Offsets!call.flags
                       THEN <<>> ELSE file
            /\ Len(ofds') = Len(ofds) + 1
            /\ \A k \in 1 .. Len(ofds) : ofds'[k] = ofds[k]
            /\ ofds'[Len(ofds) + 1].offset = 0
            /\ ofds'[Len(ofds) + 1].append <=> "O_APPEND" \in Offsets!call.flags
            /\ fds' = [fds EXCEPT ![Offsets!call.fd] = Len(ofds) + 1]
        BY <1>1, <2>2, <3>2, <4>2, OpenEffect, Zenon
      <4> QED
        BY <1>1, <2>5, <3>2, <4>1, <4>2, <4>3 DEF State6, OffsetsTypes, Offsets!Variables
    <3> QED
      BY <2>4, <3>2, <3>3
  <2>6. CASE n = 2
    <3>1. Offsets!call = Offsets!Dups("fd2", "fd1", "none")
      BY <1>4, <2>2, <2>6, Script6, Zenon
    <3>2. /\ Offsets!call.op = "dup"
          /\ Offsets!call.fd = "fd2"
          /\ Offsets!call.from = "fd1"
      BY <3>1, Fields
    <3>3. ASSUME clean'
          PROVE  State6(m)'
      <4>1. m = 3
        BY <2>1, <2>6
      <4>2. State6(n) /\ Offsets!Dup
        BY <1>3, <2>2, <2>3, <3>2, <3>3, OneCall
      <4>3. /\ file' = file /\ ofds' = ofds
            /\ fds' = [fds EXCEPT ![Offsets!call.fd] = fds[Offsets!call.from]]
        BY <1>1, <2>2, <3>2, <4>2, DupEffect
      <4> QED
        BY <1>1, <2>6, <3>2, <4>1, <4>2, <4>3 DEF State6, OffsetsTypes, Offsets!Variables
    <3> QED
      BY <2>4, <3>2, <3>3
  <2>7. CASE n = 3
    <3>1. Offsets!call = Offsets!Opens("fd3", {}, "none")
      BY <1>4, <2>2, <2>7, Script6, Zenon
    <3>2. /\ Offsets!call.op = "open"
          /\ Offsets!call.fd = "fd3"
          /\ Offsets!call.flags = {}
      BY <3>1, Fields
    <3>3. ASSUME clean'
          PROVE  State6(m)'
      <4>1. m = 4
        BY <2>1, <2>7
      <4>2. State6(n) /\ Offsets!Open
        BY <1>3, <2>2, <2>3, <3>2, <3>3, OneCall
      <4>3. /\ file' = IF file = Offsets!NoFile \/ "O_TRUNC" \in Offsets!call.flags
                       THEN <<>> ELSE file
            /\ Len(ofds') = Len(ofds) + 1
            /\ \A k \in 1 .. Len(ofds) : ofds'[k] = ofds[k]
            /\ ofds'[Len(ofds) + 1].offset = 0
            /\ ofds'[Len(ofds) + 1].append <=> "O_APPEND" \in Offsets!call.flags
            /\ fds' = [fds EXCEPT ![Offsets!call.fd] = Len(ofds) + 1]
        BY <1>1, <2>2, <3>2, <4>2, OpenEffect, Zenon
      <4>4. /\ fds["fd1"] = 1 /\ fds["fd2"] = 1 /\ Len(ofds) = 1 /\ ~ofds[1].append
            /\ file = <<>> /\ ofds[1].offset = 0
        BY <2>7, <4>2 DEF State6
      <4>5. /\ file' = <<>> /\ Len(ofds') = 2 /\ ofds'[1] = ofds[1]
            /\ ofds'[2].offset = 0 /\ ~ofds'[2].append
        BY <3>2, <4>3, <4>4
      <4>6. fds'["fd1"] = 1 /\ fds'["fd2"] = 1 /\ fds'["fd3"] = 2
        BY <1>1, <3>2, <4>3, <4>4 DEF OffsetsTypes, Offsets!Variables
      <4> QED
        BY <4>1, <4>4, <4>5, <4>6 DEF State6
    <3> QED
      BY <2>4, <3>2, <3>3
  <2>8. CASE n = 4
    <3>1. Offsets!call = Offsets!Writes("fd1", Hello, "none")
      BY <1>4, <2>2, <2>8, Script6, Zenon
    <3>2. /\ Offsets!call.op = "write"
          /\ Offsets!call.fd = "fd1"
          /\ Offsets!call.s = Hello
      BY <3>1, Fields
    <3>3. ASSUME clean'
          PROVE  State6(m)'
      <4>1. m = 5
        BY <2>1, <2>8
      <4>2. State6(n) /\ Offsets!Write
        BY <1>3, <2>2, <2>3, <3>2, <3>3, OneCall
      <4>3. LET o == fds[Offsets!call.fd]
                at == IF ofds[o].append THEN Len(file) ELSE ofds[o].offset
            IN  /\ file' = Offsets!PutAt(file, at, Offsets!call.s)
                /\ fds' = fds /\ Len(ofds') = Len(ofds)
                /\ \A k \in 1 .. Len(ofds) \ {o} : ofds'[k] = ofds[k]
                /\ ofds'[o].offset = at + Len(Offsets!call.s)
                /\ ofds'[o].append <=> ofds[o].append
        BY <1>1, <2>2, <3>2, <4>2, WriteEffect, Zenon
      <4>4. /\ fds["fd1"] = 1 /\ ofds[1].offset = 0 /\ ~ofds[1].append
            /\ file = <<>>
        BY <2>8, <4>2 DEF State6
      <4>5. /\ file' = Written1 /\ fds' = fds /\ Len(ofds') = Len(ofds)
            /\ \A k \in 1 .. Len(ofds) \ {1} : ofds'[k] = ofds[k]
            /\ ofds'[1].offset = 0 + Len(Hello)
            /\ ofds'[1].append <=> ofds[1].append
        BY <3>2, <4>3, <4>4, Zenon DEF Written1
      <4>6. Len(Hello) = 6
        BY WrittenTexts
      <4> QED
        BY <1>1, <2>8, <4>1, <4>2, <4>5, <4>6 DEF State6, OffsetsTypes
    <3> QED
      BY <2>4, <3>2, <3>3
  <2>9. CASE n = 5
    <3>1. Offsets!call = Offsets!Writes("fd2", World, "none")
      BY <1>4, <2>2, <2>9, Script6, Zenon
    <3>2. /\ Offsets!call.op = "write"
          /\ Offsets!call.fd = "fd2"
          /\ Offsets!call.s = World
      BY <3>1, Fields
    <3>3. ASSUME clean'
          PROVE  State6(m)'
      <4>1. m = 6
        BY <2>1, <2>9
      <4>2. State6(n) /\ Offsets!Write
        BY <1>3, <2>2, <2>3, <3>2, <3>3, OneCall
      <4>3. LET o == fds[Offsets!call.fd]
                at == IF ofds[o].append THEN Len(file) ELSE ofds[o].offset
            IN  /\ file' = Offsets!PutAt(file, at, Offsets!call.s)
                /\ fds' = fds /\ Len(ofds') = Len(ofds)
                /\ \A k \in 1 .. Len(ofds) \ {o} : ofds'[k] = ofds[k]
                /\ ofds'[o].offset = at + Len(Offsets!call.s)
                /\ ofds'[o].append <=> ofds[o].append
        BY <1>1, <2>2, <3>2, <4>2, WriteEffect, Zenon
      <4>4. /\ fds["fd2"] = 1 /\ ofds[1].offset = 6 /\ ~ofds[1].append
            /\ file = Written1
        BY <2>9, <4>2 DEF State6
      <4>5. /\ file' = Written2 /\ fds' = fds /\ Len(ofds') = Len(ofds)
            /\ \A k \in 1 .. Len(ofds) \ {1} : ofds'[k] = ofds[k]
            /\ ofds'[1].offset = 6 + Len(World)
            /\ ofds'[1].append <=> ofds[1].append
        BY <3>2, <4>3, <4>4, Zenon DEF Written2
      <4>6. Len(World) = 6
        BY WrittenTexts
      <4> QED
        BY <1>1, <2>9, <4>1, <4>2, <4>5, <4>6 DEF State6, OffsetsTypes
    <3> QED
      BY <2>4, <3>2, <3>3
  <2>10. CASE n = 6
    <3>1. Offsets!call = Offsets!Seeks("fd2", 0, "none")
      BY <1>4, <2>2, <2>10, Script6, Zenon
    <3>2. /\ Offsets!call.op = "lseek"
          /\ Offsets!call.fd = "fd2"
          /\ Offsets!call.at = 0
      BY <3>1, Fields
    <3>3. ASSUME clean'
          PROVE  State6(m)'
      <4>1. m = 7
        BY <2>1, <2>10
      <4>2. State6(n) /\ Offsets!Seek
        BY <1>3, <2>2, <2>3, <3>2, <3>3, OneCall
      <4>3. LET o == fds[Offsets!call.fd] IN
              /\ file' = file /\ fds' = fds /\ Len(ofds') = Len(ofds)
              /\ \A k \in 1 .. Len(ofds) \ {o} : ofds'[k] = ofds[k]
              /\ ofds'[o].offset = Offsets!call.at
              /\ ofds'[o].append <=> ofds[o].append
        BY <1>1, <2>2, <3>2, <4>2, SeekEffect, Zenon
      <4> QED
        BY <1>1, <2>10, <3>2, <4>1, <4>2, <4>3 DEF State6, OffsetsTypes, Offsets!Variables
    <3> QED
      BY <2>4, <3>2, <3>3
  <2>11. CASE n = 7
    <3>1. Offsets!call = Offsets!Writes("fd1", HELLO, "none")
      BY <1>4, <2>2, <2>11, Script6, Zenon
    <3>2. /\ Offsets!call.op = "write"
          /\ Offsets!call.fd = "fd1"
          /\ Offsets!call.s = HELLO
      BY <3>1, Fields
    <3>3. ASSUME clean'
          PROVE  State6(m)'
      <4>1. m = 8
        BY <2>1, <2>11
      <4>2. State6(n) /\ Offsets!Write
        BY <1>3, <2>2, <2>3, <3>2, <3>3, OneCall
      <4>3. LET o == fds[Offsets!call.fd]
                at == IF ofds[o].append THEN Len(file) ELSE ofds[o].offset
            IN  /\ file' = Offsets!PutAt(file, at, Offsets!call.s)
                /\ fds' = fds /\ Len(ofds') = Len(ofds)
                /\ \A k \in 1 .. Len(ofds) \ {o} : ofds'[k] = ofds[k]
                /\ ofds'[o].offset = at + Len(Offsets!call.s)
                /\ ofds'[o].append <=> ofds[o].append
        BY <1>1, <2>2, <3>2, <4>2, WriteEffect, Zenon
      <4>4. /\ fds["fd1"] = 1 /\ ofds[1].offset = 0 /\ ~ofds[1].append
            /\ file = Written2
        BY <2>11, <4>2 DEF State6
      <4>5. /\ file' = Written3 /\ fds' = fds /\ Len(ofds') = Len(ofds)
            /\ \A k \in 1 .. Len(ofds) \ {1} : ofds'[k] = ofds[k]
            /\ ofds'[1].offset = 0 + Len(HELLO)
            /\ ofds'[1].append <=> ofds[1].append
        BY <3>2, <4>3, <4>4, Zenon DEF Written3
      <4>6. Len(HELLO) = 6
        BY WrittenTexts
      <4> QED
        BY <1>1, <2>11, <4>1, <4>2, <4>5, <4>6 DEF State6, OffsetsTypes
    <3> QED
      BY <2>4, <3>2, <3>3
  <2>12. CASE n = 8
    <3>1. Offsets!call = Offsets!Writes("fd3", Gidday, "none")
      BY <1>4, <2>2, <2>12, Script6, Zenon
    <3>2. /\ Offsets!call.op = "write"
          /\ Offsets!call.fd = "fd3"
          /\ Offsets!call.s = Gidday
      BY <3>1, Fields
    <3>3. ASSUME clean'
          PROVE  State6(m)'
      <4>1. m = 9
        BY <2>1, <2>12
      <4>2. State6(n) /\ Offsets!Write
        BY <1>3, <2>2, <2>3, <3>2, <3>3, OneCall
      <4>3. LET o == fds[Offsets!call.fd]
                at == IF ofds[o].append THEN Len(file) ELSE ofds[o].offset
            IN  /\ file' = Offsets!PutAt(file, at, Offsets!call.s)
                /\ fds' = fds /\ Len(ofds') = Len(ofds)
                /\ \A k \in 1 .. Len(ofds) \ {o} : ofds'[k] = ofds[k]
                /\ ofds'[o].offset = at + Len(Offsets!call.s)
                /\ ofds'[o].append <=> ofds[o].append
        BY <1>1, <2>2, <3>2, <4>2, WriteEffect, Zenon
      <4>4. /\ fds["fd3"] = 2 /\ ofds[2].offset = 0 /\ ~ofds[2].append
            /\ file = Written3
        BY <2>12, <4>2 DEF State6
      <4>5. /\ file' = Written4 /\ fds' = fds /\ Len(ofds') = Len(ofds)
            /\ \A k \in 1 .. Len(ofds) \ {2} : ofds'[k] = ofds[k]
            /\ ofds'[2].offset = 0 + Len(Gidday)
            /\ ofds'[2].append <=> ofds[2].append
        BY <3>2, <4>3, <4>4, Zenon DEF Written4
      <4>6. Len(Gidday) = 6
        BY WrittenTexts
      <4> QED
        BY <1>1, <2>12, <4>1, <4>2, <4>5, <4>6 DEF State6, OffsetsTypes
    <3> QED
      BY <2>4, <3>2, <3>3
  <2>13. CASE n = 9
    <3>1. Offsets!call = Offsets!Closes("fd1")
      BY <1>4, <2>2, <2>13, Script6, Zenon
    <3>2. /\ Offsets!call.op = "close"
          /\ Offsets!call.fd = "fd1"
      BY <3>1, Fields
    <3>3. ASSUME clean'
          PROVE  State6(m)'
      <4>1. m = 10
        BY <2>1, <2>13
      <4>2. State6(n) /\ Offsets!Close
        BY <1>3, <2>2, <2>3, <3>2, <3>3, OneCall
      <4>3. /\ file' = file /\ ofds' = ofds
            /\ fds' = [fds EXCEPT ![Offsets!call.fd] = -1]
        BY <1>1, <2>2, <3>2, <4>2, CloseEffect
      <4> QED
        BY <1>1, <2>13, <3>2, <4>1, <4>2, <4>3 DEF State6, OffsetsTypes, Offsets!Variables
    <3> QED
      BY <2>4, <3>2, <3>3
  <2>14. CASE n = 10
    <3>1. Offsets!call = Offsets!Closes("fd3")
      BY <1>4, <2>2, <2>14, Script6, Zenon
    <3>2. /\ Offsets!call.op = "close"
          /\ Offsets!call.fd = "fd3"
      BY <3>1, Fields
    <3>3. ASSUME clean'
          PROVE  State6(m)'
      <4>1. m = 11
        BY <2>1, <2>14
      <4>2. State6(n) /\ Offsets!Close
        BY <1>3, <2>2, <2>3, <3>2, <3>3, OneCall
      <4>3. /\ file' = file /\ ofds' = ofds
            /\ fds' = [fds EXCEPT ![Offsets!call.fd] = -1]
        BY <1>1, <2>2, <3>2, <4>2, CloseEffect
      <4> QED
        BY <1>1, <2>14, <3>2, <4>1, <4>2, <4>3 DEF State6, OffsetsTypes, Offsets!Variables
    <3> QED
      BY <2>4, <3>2, <3>3
  <2> QED
    BY <1>7, <2>5, <2>6, <2>7, <2>8, <2>9, <2>10, <2>11, <2>12, <2>13, <2>14
<1> QED
  BY <1>2, <1>6, <1>7

(* A step of the running program. *)
LEMMA OffsetsStep ==
  OffsetsInv /\ [Offsets!Next]_Offsets!vars => OffsetsInv'
<1>1. CASE OffsetsInv /\ Offsets!Next
  <2>1. prog \in Offsets!Programs
    BY <1>1, Zenon DEF OffsetsInv, OffsetsTypes
  <2>2. prog[1] \in {"q1", "q2", "q5", "q6"}
    BY <2>1 DEF Offsets!Programs
  <2> QED
    BY <1>1, <2>2, Offsets1, Offsets2, Offsets5, Offsets6
<1>2. CASE OffsetsInv /\ UNCHANGED Offsets!vars
  <2>1. /\ file' = file /\ ofds' = ofds /\ fds' = fds /\ script' = script
        /\ prog' = prog /\ status' = status /\ before' = before /\ clean' = clean
    BY <1>2, Zenon DEF Offsets!vars
  <2>2. OffsetsTypes'
    BY <1>2, <2>1, Zenon DEF OffsetsInv, OffsetsTypes
  <2>3. ASSUME status = "running"
        PROVE  \E n \in 1 .. 11 : (AtCall(n) /\ StateBefore(n))'
    <3>1. PICK n \in 1 .. 11 : AtCall(n) /\ StateBefore(n)
      BY <1>2, <2>3, Zenon DEF OffsetsInv
    <3>2. AtCall(n)'
      BY <2>1, <3>1, Zenon DEF AtCall, Calls
    <3>3. StateBefore(n)'
      <4>1. State1(n) => State1(n)'
        BY <2>1, Zenon DEF State1, Offsets!Existing
      <4>2. State2(n) => State2(n)'
        BY <2>1, Zenon DEF State2
      <4>3. State5(n) => State5(n)'
        BY <2>1, Zenon DEF State5
      <4>4. State6(n) => State6(n)'
        BY <2>1, Zenon DEF State6
      <4> QED
        BY <2>1, <3>1, <4>1, <4>2, <4>3, <4>4 DEF StateBefore
    <3> QED
      BY <3>2, <3>3, Zenon
  <2>4. Offsets!Outcomes' /\ Offsets!AssertsHold'
    BY <1>2, <2>1, Zenon DEF OffsetsInv, Offsets!Outcomes, Offsets!AssertsHold,
                             Offsets!Existing
  <2> QED
    BY <2>1, <2>2, <2>3, <2>4, Zenon DEF OffsetsInv
<1> QED
  BY <1>1, <1>2, Zenon

(* What the type invariant of the module says. *)
LEMMA OffsetsTypesOK ==
  OffsetsInv => Offsets!TypeOK
<1> SUFFICES ASSUME OffsetsTypes
             PROVE  Offsets!TypeOK
  BY Zenon DEF OffsetsInv
<1>1. file = Offsets!NoFile \/ Offsets!ToSet(file) \subseteq Cells
  <2>1. PICK S : S = Cells
    OBVIOUS
  <2>2. ASSUME file \in Seq(S)
        PROVE  Offsets!ToSet(file) \subseteq S
    BY <2>2, LenProperties DEF Offsets!ToSet
  <2> QED
    BY <2>1, <2>2, Zenon DEF OffsetsTypes
<1>2. \A k \in DOMAIN ofds : ofds[k] \in Descriptions
  BY DEF OffsetsTypes
<1>3. fds \in [Offsets!Variables -> {-1} \cup DOMAIN ofds]
  BY DEF OffsetsTypes
<1> QED
  BY <1>1, <1>2, <1>3, Zenon
     DEF Offsets!TypeOK, OffsetsTypes, Cells, Descriptions

-----------------------------------------------------------------------------
(* __writev and __readv. *)

(* g[k] is the first k of the sequences s, put end to end. *)
IsFlat(g, s, S) ==
  /\ g \in [0 .. Len(s) -> Seq(S)]
  /\ g[0] = <<>>
  /\ \A k \in 1 .. Len(s) : g[k] = g[k - 1] \o s[k]

(* The recursion that FlattenSeq makes, as far as m. *)
Flattens(h, s, m, S) ==
  /\ h \in [1 .. m -> Seq(S)]
  /\ \A k \in 1 .. m : h[k] = IF k = 1 THEN s[k] ELSE h[k - 1] \o s[k]

(* It goes as far as there are sequences. *)
LEMMA FlattensExists ==
  ASSUME NEW S, NEW s \in Seq(Seq(S)), NEW n \in Nat, n = Len(s)
  PROVE  \A m \in 0 .. n : \E h : Flattens(h, s, m, S)
<1> DEFINE Not == {m \in 0 .. n : ~\E h : Flattens(h, s, m, S)}
<1> SUFFICES ASSUME NEW c \in Not
             PROVE  FALSE
  OBVIOUS
<1>1. Not \in SUBSET Nat
  OBVIOUS
<1>2. PICK m \in Not : \A k \in Not : m <= k
  BY <1>1, LeastNat
<1>3. m \in 0 .. n /\ ~\E h : Flattens(h, s, m, S)
  OBVIOUS
<1>4. m # 0
  <2>1. Flattens(<<>>, s, 0, S)
    <3>1. <<>> \in [1 .. 0 -> Seq(S)]
      OBVIOUS
    <3> QED
      BY <3>1 DEF Flattens
  <2> QED
    BY <1>3, <2>1
<1>5. m - 1 \in 0 .. n /\ m - 1 \notin Not
  <2>1. m - 1 \in 0 .. n /\ ~(m <= m - 1)
    BY <1>3, <1>4
  <2> QED
    BY <1>2, <2>1
<1>6. PICK h : Flattens(h, s, m - 1, S)
  BY <1>5
<1>7. s \in [1 .. n -> Seq(S)]
  BY LenProperties
<1>8. PICK last : last = IF m = 1 THEN s[m] ELSE h[m - 1] \o s[m]
  OBVIOUS
<1>9. last \in Seq(S)
  <2>1. s[m] \in Seq(S)
    BY <1>3, <1>4, <1>7
  <2>2. CASE m = 1
    BY <1>8, <2>1, <2>2
  <2>3. CASE m # 1
    <3>1. h[m - 1] \in Seq(S)
      BY <1>3, <1>4, <1>6, <2>3 DEF Flattens
    <3> QED
      BY <1>8, <2>1, <2>3, <3>1, ConcatProperties
  <2> QED
    BY <2>2, <2>3
<1>10. PICK e : e = [k \in 1 .. m |-> IF k = m THEN last ELSE h[k]]
  OBVIOUS
<1>11. Flattens(e, s, m, S)
  <2>1. e \in [1 .. m -> Seq(S)]
    <3>1. \A k \in 1 .. m : k # m => h[k] \in Seq(S)
      BY <1>3, <1>4, <1>6 DEF Flattens
    <3> QED
      BY <1>9, <1>10, <3>1
  <2>2. ASSUME NEW k \in 1 .. m
        PROVE  e[k] = IF k = 1 THEN s[k] ELSE e[k - 1] \o s[k]
    <3>1. CASE k = m
      <4>1. e[k] = last
        BY <1>10, <3>1
      <4>2. k # 1 => e[k - 1] = h[m - 1]
        BY <1>3, <1>10, <3>1
      <4> QED
        BY <1>8, <3>1, <4>1, <4>2
    <3>2. CASE k # m
      <4>1. k \in 1 .. m - 1
        BY <1>3, <3>2
      <4>2. e[k] = h[k]
        BY <1>10, <3>2
      <4>3. k # 1 => e[k - 1] = h[k - 1]
        BY <1>3, <1>10, <4>1
      <4>4. h[k] = IF k = 1 THEN s[k] ELSE h[k - 1] \o s[k]
        BY <1>6, <4>1 DEF Flattens
      <4> QED
        BY <4>2, <4>3, <4>4
    <3> QED
      BY <3>1, <3>2
  <2> QED
    BY <2>1, <2>2 DEF Flattens
<1> QED
  BY <1>3, <1>11

(* FlattenSeq puts the sequences end to end. *)
LEMMA FlattenIsFlat ==
  ASSUME NEW S, NEW s \in Seq(Seq(S))
  PROVE  \E g : IsFlat(g, s, S) /\ Vectored!FlattenSeq(s) = g[Len(s)]
<1>1. PICK n \in Nat : n = Len(s)
  BY LenProperties
<1>2. CASE n = 0
  <2>1. s = <<>>
    BY <1>1, <1>2, EmptySeq
  <2>2. PICK g : g = [k \in 0 .. n |-> <<>>]
    OBVIOUS
  <2>3. <<>> \in Seq(S)
    BY EmptySeq
  <2>4. g \in [0 .. n -> Seq(S)] /\ g[0] = <<>>
    BY <1>2, <2>2, <2>3
  <2>5. IsFlat(g, s, S)
    BY <1>1, <1>2, <2>4 DEF IsFlat
  <2>6. Vectored!FlattenSeq(s) = s
    BY <1>1, <1>2 DEF Vectored!FlattenSeq
  <2> QED
    BY <1>1, <1>2, <2>1, <2>4, <2>5, <2>6
<1>3. CASE n # 0
  <2>1. \E h : Flattens(h, s, n, S)
    BY <1>1, FlattensExists
  <2> DEFINE f == CHOOSE f : f = [k \in 1 .. n |-> IF k = 1 THEN s[k] ELSE f[k - 1] \o s[k]]
  <2>2. PICK h : Flattens(h, s, n, S)
    BY <2>1
  <2>3. h = [k \in 1 .. n |-> IF k = 1 THEN s[k] ELSE h[k - 1] \o s[k]]
    BY <2>2 DEF Flattens
  <2>4. f = [k \in 1 .. n |-> IF k = 1 THEN s[k] ELSE f[k - 1] \o s[k]]
    BY <2>3, Zenon
  <2>5. Vectored!FlattenSeq(s) = f[n]
    BY <1>1, <1>3, Zenon DEF Vectored!FlattenSeq
  <2> HIDE DEF f
  <2>6. h \in [1 .. n -> Seq(S)]
    BY <2>2 DEF Flattens
  <2>7. \A k \in 1 .. n : f[k] = h[k]
    <3> DEFINE Apart == {k \in 1 .. n : f[k] # h[k]}
    <3> SUFFICES ASSUME NEW c \in Apart
                 PROVE  FALSE
      OBVIOUS
    <3>1. Apart \in SUBSET Nat
      OBVIOUS
    <3>2. PICK k \in Apart : \A j \in Apart : k <= j
      BY <3>1, LeastNat
    <3>3. k \in 1 .. n /\ f[k] # h[k]
      OBVIOUS
    <3>4. /\ f[k] = IF k = 1 THEN s[k] ELSE f[k - 1] \o s[k]
          /\ h[k] = IF k = 1 THEN s[k] ELSE h[k - 1] \o s[k]
      <4>1. \A j \in 1 .. n : f[j] = IF j = 1 THEN s[j] ELSE f[j - 1] \o s[j]
        BY <2>4
      <4>2. \A j \in 1 .. n : h[j] = IF j = 1 THEN s[j] ELSE h[j - 1] \o s[j]
        BY <2>3
      <4> QED
        BY <3>3, <4>1, <4>2, Zenon
    <3>5. k # 1
      BY <3>3, <3>4
    <3>6. k - 1 \in 1 .. n /\ ~(k <= k - 1)
      BY <3>3, <3>5
    <3>7. f[k - 1] = h[k - 1]
      BY <3>2, <3>6
    <3> QED
      BY <3>3, <3>4, <3>5, <3>7
  <2>8. PICK g : g = [k \in 0 .. n |-> IF k = 0 THEN <<>> ELSE h[k]]
    OBVIOUS
  <2>9. g \in [0 .. n -> Seq(S)] /\ g[0] = <<>> /\ g[n] = f[n]
    <3>1. <<>> \in Seq(S)
      BY EmptySeq
    <3>2. \A k \in 0 .. n : k # 0 => k \in 1 .. n /\ h[k] \in Seq(S)
      BY <2>6
    <3> QED
      BY <1>3, <2>7, <2>8, <3>1, <3>2
  <2>10. ASSUME NEW k \in 1 .. n
         PROVE  g[k] = g[k - 1] \o s[k]
    <3>1. k \in 0 .. n /\ k # 0 /\ k - 1 \in 0 .. n
      OBVIOUS
    <3>2. g[k] = IF k = 1 THEN s[k] ELSE h[k - 1] \o s[k]
      BY <2>2, <2>8, <3>1 DEF Flattens
    <3>3. CASE k = 1
      <4>1. g[k - 1] = <<>>
        BY <2>9, <3>3
      <4>2. s[k] \in Seq(S)
        BY <1>1, LenProperties
      <4> QED
        BY <3>2, <3>3, <4>1, <4>2, ConcatEmptySeq
    <3>4. CASE k # 1
      <4>1. g[k - 1] = h[k - 1]
        BY <2>8, <3>1, <3>4
      <4> QED
        BY <3>2, <3>4, <4>1
    <3> QED
      BY <3>3, <3>4
  <2>11. IsFlat(g, s, S)
    BY <1>1, <2>9, <2>10 DEF IsFlat
  <2> QED
    BY <1>1, <2>5, <2>9, <2>11
<1> QED
  BY <1>2, <1>3

(* What Vectored knows of buffers, and its zero byte. *)
VCells == Vectored!Cells
VNull == Vectored!Null
Buffers == Seq(Seq(VCells))

(* The bytes of the first k buffers, put end to end, and how many they are. *)
Flat(s) ==
  CHOOSE g : IsFlat(g, s, VCells) /\ Vectored!FlattenSeq(s) = g[Len(s)]
Up(s, k) == Len(Flat(s)[k])

(* The first m of f are those of w, except that a zero may hide some. *)
Taken(f, w, m) ==
  \A k \in 1 .. m :
    /\ f[k] \in {w[k], VNull}
    /\ (\A j \in DOMAIN w : w[j] # VNull) => f[k] = w[k]

AllText(s) == \A b \in DOMAIN s : Vectored!IsText(s[b])

(* The first m bytes of f are in the buffers s, which are untouched behind *)
(* them.                                                                   *)
Scattered(s, f, m) ==
  \A b \in 1 .. Len(s) : \A k \in 1 .. Len(s[b]) :
    IF Up(given, b - 1) + k <= m
    THEN /\ s[b][k] \in {f[Up(given, b - 1) + k], VNull}
         /\ (\A j \in DOMAIN f : f[j] # VNull) =>
              s[b][k] = f[Up(given, b - 1) + k]
    ELSE s[b][k] = Vectored!Garbage

VectoredTypes ==
  /\ file \in Seq(VCells) /\ tmp \in Seq(VCells) /\ written \in Seq(VCells)
  /\ iov \in Buffers /\ given \in Buffers
  /\ Len(iov) = Len(given) /\ Len(given) <= MaxIovs
  /\ \A b \in 1 .. Len(given) :
       Len(iov[b]) = Len(given[b]) /\ Len(given[b]) <= MaxLen
  /\ offset \in Nat /\ total \in Nat /\ moved \in Nat
  /\ offset <= SSIZE_MAX /\ total <= SSIZE_MAX /\ moved <= total
  /\ i \in 1 .. Len(given) + 1
  /\ result \in 0 .. SSIZE_MAX \cup {Vectored!EINVAL, Vectored!EIO}
  /\ op \in {"none", "writev", "readv"}
  /\ pc \in {"idle", "sum", "gather", "read", "scatter", "died"}

(* Where it can be, and what a call leaves alone. *)
VectoredPlaces ==
  /\ op = "none" => pc = "idle"
  /\ op = "writev" => pc \notin {"read", "scatter"}
  /\ op = "readv" => pc # "gather"
  /\ pc \in {"sum", "gather", "read"} => iov = given
  /\ pc \in {"sum", "gather", "read", "scatter"} => Len(given) <= UIO_MAXIOV

(* The file: empty before the write, and then the first of what was meant. *)
VectoredFile ==
  /\ op = "none" \/ (op = "writev" /\ pc \in {"sum", "gather"}) =>
       file = <<>> /\ offset = 0
  /\ op = "readv" /\ pc \in {"sum", "read"} => offset = 0
  /\ op = "writev" => written = Vectored!FlattenSeq(given)
  /\ Len(file) <= Len(written) /\ Taken(file, written, Len(file))

(* The buffers that __readv is given. *)
VectoredBlank ==
  op = "readv" /\ pc \in {"sum", "read"} =>
    \A b \in 1 .. Len(given) : \A k \in 1 .. Len(given[b]) :
      given[b][k] = Vectored!Garbage

(* The sum as far as it goes, and the buffer of that size. *)
VectoredSum ==
  /\ pc = "sum" => total = Up(given, i - 1) /\ moved = 0
  /\ pc \in {"gather", "read", "scatter"} =>
       total = Up(given, Len(given)) /\ Len(tmp) = total

VectoredGather ==
  pc = "gather" =>
    /\ moved = Up(given, i - 1)
    /\ Taken(tmp, written, moved)
    /\ AllText(given) => \A k \in 1 .. moved : tmp[k] = written[k]

VectoredScatter ==
  /\ pc = "read" => moved = 0 /\ i = 1
  /\ pc = "scatter" =>
       /\ result \in moved .. total /\ result <= Len(file)
       /\ \A k \in 1 .. result : tmp[k] = file[k]
       /\ moved = IF result < Up(given, i - 1) THEN result ELSE Up(given, i - 1)
       /\ Scattered(iov, file, moved)

VectoredInv ==
  /\ VectoredTypes /\ VectoredPlaces /\ VectoredFile /\ VectoredBlank
  /\ VectoredSum /\ VectoredGather /\ VectoredScatter
  /\ Vectored!WritevGathers /\ Vectored!ReadvScatters /\ Vectored!RefusedExactly

(* The chosen function is one. *)
LEMMA FlatFacts ==
  ASSUME NEW s \in Buffers
  PROVE  /\ IsFlat(Flat(s), s, VCells)
         /\ Vectored!FlattenSeq(s) = Flat(s)[Len(s)]
<1>1. PICK S : S = VCells
  OBVIOUS
<1>2. s \in Seq(Seq(S))
  BY <1>1 DEF Buffers
<1>3. \E g : IsFlat(g, s, S) /\ Vectored!FlattenSeq(s) = g[Len(s)]
  BY <1>2, FlattenIsFlat, Zenon
<1> QED
  BY <1>1, <1>3, Zenon DEF Flat

(* Where the buffers begin and end. *)
LEMMA UpFacts ==
  ASSUME NEW s \in Buffers, NEW n \in Nat, n = Len(s)
  PROVE  /\ \A k \in 0 .. n : Up(s, k) \in Nat
         /\ Up(s, 0) = 0
         /\ \A k \in 1 .. n : Len(s[k]) \in Nat /\ Up(s, k) = Up(s, k - 1) + Len(s[k])
         /\ Len(Vectored!FlattenSeq(s)) = Up(s, n)
         /\ Vectored!FlattenSeq(s) \in Seq(VCells)
<1>1. PICK S : S = VCells
  OBVIOUS
<1>2. PICK g : g = Flat(s)
  OBVIOUS
<1>3. /\ g \in [0 .. n -> Seq(S)] /\ g[0] = <<>>
      /\ \A k \in 1 .. n : g[k] = g[k - 1] \o s[k]
      /\ Vectored!FlattenSeq(s) = g[n]
  BY <1>1, <1>2, FlatFacts, Zenon DEF IsFlat
<1>4. s \in [1 .. n -> Seq(S)]
  BY <1>1, LenProperties DEF Buffers
<1>5. \A k \in 0 .. n : g[k] \in Seq(S) /\ Len(g[k]) \in Nat
  BY <1>3, LenProperties
<1>6. Len(g[0]) = 0
  BY <1>3, EmptySeq
<1>7. ASSUME NEW k \in 1 .. n
      PROVE  Len(s[k]) \in Nat /\ Len(g[k]) = Len(g[k - 1]) + Len(s[k])
  <2>1. s[k] \in Seq(S) /\ g[k - 1] \in Seq(S)
    BY <1>4, <1>5
  <2>2. Len(g[k - 1] \o s[k]) = Len(g[k - 1]) + Len(s[k])
    BY <2>1, ConcatProperties
  <2>3. g[k] = g[k - 1] \o s[k]
    BY <1>3
  <2> QED
    BY <2>1, <2>2, <2>3, LenProperties
<1>8. n \in 0 .. n
  OBVIOUS
<1>9. g[n] \in Seq(VCells)
  BY <1>1, <1>5, <1>8, Zenon
<1> QED
  BY <1>2, <1>3, <1>5, <1>6, <1>7, <1>9, Zenon DEF Up

(* Buffers further on begin further on. *)
LEMMA UpMonotonic ==
  ASSUME NEW s \in Buffers, NEW n \in Nat, n = Len(s),
         NEW j \in 0 .. n, NEW k \in 0 .. n, j <= k
  PROVE  Up(s, j) <= Up(s, k)
<1> DEFINE Not == {m \in 0 .. n : j <= m /\ ~(Up(s, j) <= Up(s, m))}
<1> SUFFICES ASSUME NEW c \in Not
             PROVE  FALSE
  OBVIOUS
<1>1. Not \in SUBSET Nat
  OBVIOUS
<1>2. PICK m \in Not : \A l \in Not : m <= l
  BY <1>1, LeastNat
<1>3. /\ \A l \in 0 .. n : Up(s, l) \in Nat
      /\ \A l \in 1 .. n : Len(s[l]) \in Nat /\ Up(s, l) = Up(s, l - 1) + Len(s[l])
  BY UpFacts, Zenon
<1>4. m \in 0 .. n /\ j <= m /\ ~(Up(s, j) <= Up(s, m))
  OBVIOUS
<1>5. m # j
  BY <1>3, <1>4
<1>6. m \in 1 .. n /\ m - 1 \in 0 .. n /\ j <= m - 1 /\ ~(m <= m - 1)
  BY <1>4, <1>5
<1>7. m - 1 \notin Not
  BY <1>2, <1>6
<1>8. Up(s, j) <= Up(s, m - 1)
  BY <1>6, <1>7
<1>9. PICK a, b, d : a = Up(s, j) /\ b = Up(s, m - 1) /\ d = Up(s, m)
  OBVIOUS
<1>10. a \in Nat /\ b \in Nat /\ d \in Nat /\ b <= d
  BY <1>3, <1>6, <1>9
<1> QED
  BY <1>4, <1>8, <1>9, <1>10

(* Each byte comes out at its place. *)
LEMMA FlatAt ==
  ASSUME NEW s \in Buffers, NEW n \in Nat, n = Len(s),
         NEW b \in 1 .. n, NEW k \in 1 .. Len(s[b])
  PROVE  Vectored!FlattenSeq(s)[Up(s, b - 1) + k] = s[b][k]
<1>1. PICK S : S = VCells
  OBVIOUS
<1>2. PICK g : g = Flat(s)
  OBVIOUS
<1>3. /\ g \in [0 .. n -> Seq(S)]
      /\ \A m \in 1 .. n : g[m] = g[m - 1] \o s[m]
      /\ Vectored!FlattenSeq(s) = g[n]
  BY <1>1, <1>2, FlatFacts, Zenon DEF IsFlat
<1>4. s \in [1 .. n -> Seq(S)]
  BY <1>1, LenProperties DEF Buffers
<1>5. \A m \in 0 .. n : Up(s, m) \in Nat /\ Up(s, m) = Len(g[m])
  BY <1>2, UpFacts, Zenon DEF Up
<1>6. PICK p : p = Up(s, b - 1) + k
  OBVIOUS
<1> DEFINE Not == {m \in 0 .. n : b <= m /\ g[m][p] # s[b][k]}
<1>7. ASSUME NEW c \in Not
      PROVE  FALSE
  <2>1. Not \in SUBSET Nat
    OBVIOUS
  <2>2. PICK m \in Not : \A l \in Not : m <= l
    BY <1>7, <2>1, LeastNat
  <2>3. m \in 1 .. n /\ b <= m /\ g[m][p] # s[b][k]
    OBVIOUS
  <2> HIDE DEF Not
  <2>4. g[m] = g[m - 1] \o s[m] /\ g[m - 1] \in Seq(S) /\ s[m] \in Seq(S)
    <3>1. m - 1 \in 0 .. n
      BY <2>3
    <3>2. g[m - 1] \in Seq(S)
      BY <1>3, <3>1, Zenon
    <3>3. s[m] \in Seq(S)
      BY <1>4, <2>3, Zenon
    <3>4. g[m] = g[m - 1] \o s[m]
      BY <1>3, <2>3, Zenon
    <3> QED
      BY <3>2, <3>3, <3>4, Zenon
  <2>5. PICK u, v : u = Up(s, m - 1) /\ v = Len(s[m])
    OBVIOUS
  <2>6. u \in Nat /\ v \in Nat /\ u = Len(g[m - 1]) /\ v = Len(s[m])
    <3>1. m - 1 \in 0 .. n
      BY <2>3
    <3>2. v \in Nat
      BY <2>4, <2>5, LenProperties
    <3> QED
      BY <1>5, <2>5, <3>1, <3>2, Zenon
  <2>7. \A q \in 1 .. u + v : g[m][q] = IF q <= u THEN g[m - 1][q] ELSE s[m][q - u]
    <3>1. \A q \in 1 .. u + v : (g[m - 1] \o s[m])[q] =
                                IF q <= u THEN g[m - 1][q] ELSE s[m][q - u]
      BY <2>4, <2>6, ConcatProperties, Zenon
    <3> QED
      BY <2>4, <3>1, Zenon
  <2>8. CASE m = b
    <3>1. k \in 1 .. v /\ p = u + k
      BY <1>6, <2>5, <2>8, Zenon
    <3>2. p \in 1 .. u + v /\ ~(p <= u) /\ p - u = k
      <4>1. u \in Nat /\ v \in Nat
        BY <2>6
      <4> QED
        BY <3>1, <4>1
    <3> QED
      BY <2>3, <2>7, <2>8, <3>2
  <2>9. CASE m # b
    <3>1. m - 1 \in 0 .. n /\ b <= m - 1 /\ ~(m <= m - 1) /\ b \in 0 .. n
          /\ b - 1 \in 0 .. n
      BY <2>3, <2>9
    <3>2. g[m - 1][p] = s[b][k]
      BY <2>2, <3>1 DEF Not
    <3>3. Up(s, b) <= u
      BY <2>5, <3>1, UpMonotonic, Zenon
    <3>4. /\ Up(s, b) = Up(s, b - 1) + Len(s[b]) /\ Len(s[b]) \in Nat
          /\ Up(s, b - 1) \in Nat /\ Up(s, b) \in Nat
      BY <3>1, UpFacts, Zenon
    <3>5. p \in 1 .. u
      <4>1. PICK x, y, z : x = Up(s, b) /\ y = Up(s, b - 1) /\ z = Len(s[b])
        OBVIOUS
      <4>2. x \in Nat /\ y \in Nat /\ z \in Nat /\ x = y + z /\ x <= u
        BY <3>3, <3>4, <4>1, Zenon
      <4>3. k \in 1 .. z /\ p = y + k
        BY <1>6, <4>1, Zenon
      <4>4. u \in Nat
        BY <2>6
      <4> QED
        BY <4>2, <4>3, <4>4
    <3>6. p \in 1 .. u + v /\ p <= u
      <4>1. u \in Nat /\ v \in Nat
        BY <2>6
      <4> QED
        BY <3>5, <4>1
    <3> QED
      BY <2>3, <2>7, <3>2, <3>6
  <2> QED
    BY <2>8, <2>9
<1>8. n \in 0 .. n /\ b <= n
  OBVIOUS
<1>9. n \notin Not
  BY <1>7
<1>10. g[n][p] = s[b][k]
  BY <1>8, <1>9
<1> QED
  BY <1>3, <1>6, <1>10

(* Each place is one of a buffer. *)
LEMMA FlatCover ==
  ASSUME NEW s \in Buffers, NEW n \in Nat, n = Len(s), NEW p \in 1 .. Up(s, n)
  PROVE  \E b \in 1 .. n : \E k \in 1 .. Len(s[b]) : p = Up(s, b - 1) + k
<1> DEFINE Reach == {m \in 0 .. n : p <= Up(s, m)}
<1>1. /\ \A l \in 0 .. n : Up(s, l) \in Nat
      /\ Up(s, 0) = 0
      /\ \A l \in 1 .. n : Len(s[l]) \in Nat /\ Up(s, l) = Up(s, l - 1) + Len(s[l])
  BY UpFacts, Zenon
<1>2. n \in Reach /\ Reach \in SUBSET Nat
  BY <1>1
<1>3. PICK b \in Reach : \A l \in Reach : b <= l
  BY <1>2, LeastNat
<1>4. b \in 0 .. n /\ p <= Up(s, b)
  OBVIOUS
<1>5. b # 0
  BY <1>1, <1>4
<1>6. b \in 1 .. n /\ b - 1 \in 0 .. n /\ ~(b <= b - 1)
  BY <1>4, <1>5
<1>7. ~(p <= Up(s, b - 1))
  BY <1>3, <1>6
<1>8. PICK u, v, w : u = Up(s, b - 1) /\ v = Len(s[b]) /\ w = Up(s, b)
  OBVIOUS
<1>9. u \in Nat /\ v \in Nat /\ w = u + v /\ p <= w /\ ~(p <= u) /\ p \in Nat
  <2>1. p \in Nat
    BY <1>1
  <2> QED
    BY <1>1, <1>4, <1>6, <1>7, <1>8, <2>1, Zenon
<1>10. p - u \in 1 .. v /\ p = u + (p - u)
  BY <1>9
<1> QED
  BY <1>6, <1>8, <1>10, Zenon

(* Buffers as long as others begin and end where those do. *)
LEMMA UpSame ==
  ASSUME NEW s \in Buffers, NEW t \in Buffers, NEW n \in Nat, n = Len(s), n = Len(t),
         \A b \in 1 .. n : Len(s[b]) = Len(t[b]), NEW k \in 0 .. n
  PROVE  Up(s, k) = Up(t, k)
<1> DEFINE Not == {m \in 0 .. n : Up(s, m) # Up(t, m)}
<1> SUFFICES ASSUME NEW c \in Not
             PROVE  FALSE
  OBVIOUS
<1>1. Not \in SUBSET Nat
  OBVIOUS
<1>2. PICK m \in Not : \A l \in Not : m <= l
  BY <1>1, LeastNat
<1>3. /\ Up(s, 0) = 0 /\ Up(t, 0) = 0
      /\ \A l \in 1 .. n : Up(s, l) = Up(s, l - 1) + Len(s[l])
      /\ \A l \in 1 .. n : Up(t, l) = Up(t, l - 1) + Len(t[l])
  BY UpFacts, Zenon
<1>4. m \in 0 .. n /\ Up(s, m) # Up(t, m)
  OBVIOUS
<1>5. m # 0
  BY <1>3, <1>4, Zenon
<1>6. m \in 1 .. n /\ m - 1 \in 0 .. n /\ ~(m <= m - 1)
  BY <1>4, <1>5
<1>7. Up(s, m - 1) = Up(t, m - 1)
  BY <1>2, <1>6
<1> QED
  BY <1>3, <1>4, <1>6, <1>7, Zenon

(* What strncpy leaves of a buffer. *)
LEMMA StrncpyFacts ==
  ASSUME NEW s \in Seq(VCells)
  PROVE  /\ Vectored!strncpy(s) \in Seq(VCells)
         /\ Len(Vectored!strncpy(s)) = Len(s)
         /\ \A k \in 1 .. Len(s) : Vectored!strncpy(s)[k] \in {s[k], VNull}
         /\ Vectored!IsText(s) => \A k \in 1 .. Len(s) : Vectored!strncpy(s)[k] = s[k]
<1>1. PICK S, z : S = VCells /\ z = VNull
  OBVIOUS
<1>2. PICK n \in Nat : n = Len(s) /\ s \in [1 .. n -> S]
  BY <1>1, LenProperties
<1>3. PICK f : f = [k \in 1 .. n |-> IF \E j \in 1 .. k : s[j] = z THEN z ELSE s[k]]
  OBVIOUS
<1>4. f = Vectored!strncpy(s)
  BY <1>1, <1>2, <1>3 DEF Vectored!strncpy, VNull
<1>5. z \in S
  BY <1>1 DEF VCells, VNull, Vectored!Cells
<1>6. f \in [1 .. n -> S] /\ \A k \in 1 .. n : f[k] \in {s[k], z}
  BY <1>2, <1>3, <1>5
<1>7. f \in Seq(S) /\ Len(f) = n
  BY <1>6, LenOfFunction, Zenon
<1>8. ASSUME Vectored!IsText(s), NEW k \in 1 .. n
      PROVE  f[k] = s[k]
  <2>1. \A j \in 1 .. n : j < k /\ s[j] = z => s[k] = z
    BY <1>1, <1>2, <1>8 DEF Vectored!IsText, VNull
  <2>2. (\E j \in 1 .. k : s[j] = z) => s[k] = z
    BY <2>1
  <2> QED
    BY <1>3, <2>2
<1> QED
  BY <1>1, <1>2, <1>4, <1>6, <1>7, <1>8, Zenon

(* The bytes g are those of f, with s from at on. *)
PutWithin(g, f, at, s) ==
  /\ g \in Seq(VCells) /\ Len(g) = Len(f)
  /\ \A k \in 1 .. Len(f) :
       g[k] = IF k \in at + 1 .. at + Len(s) THEN s[k - at] ELSE f[k]

(* A write within a buffer. *)
LEMMA PutInside ==
  ASSUME NEW f \in Seq(VCells), NEW at \in Nat, NEW s \in Seq(VCells),
         at + Len(s) <= Len(f), NEW g, g = Vectored!PutAt(f, at, s)
  PROVE  PutWithin(g, f, at, s)
<1> SUFFICES /\ g \in Seq(VCells) /\ Len(g) = Len(f)
             /\ \A k \in 1 .. Len(f) :
                  g[k] = IF k \in at + 1 .. at + Len(s) THEN s[k - at] ELSE f[k]
  BY Zenon DEF PutWithin
<1>1. PICK S : S = VCells
  OBVIOUS
<1>2. PICK m \in Nat : m = Len(f) /\ f \in [1 .. m -> S]
  BY <1>1, LenProperties
<1>3. PICK l \in Nat : l = Len(s) /\ s \in [1 .. l -> S]
  BY <1>1, LenProperties
<1>4. at + l <= m
  BY <1>2, <1>3, Zenon
<1>5. CASE l = 0
  <2>1. s = <<>>
    BY <1>3, <1>5, EmptySeq
  <2>2. g = f
    BY <2>1 DEF Vectored!PutAt
  <2>3. \A k \in 1 .. m : k \notin at + 1 .. at + l
    BY <1>5
  <2>4. \A k \in 1 .. m : f[k] = IF k \in at + 1 .. at + l THEN s[k - at] ELSE f[k]
    BY <2>3, Zenon
  <2> QED
    BY <1>2, <1>3, <2>2, <2>4, Zenon
<1>6. CASE l # 0
  <2>1. s # <<>>
    BY <1>3, <1>6
  <2>2. PICK n : n = IF at + l < m THEN m ELSE at + l
    OBVIOUS
  <2>3. n = m
    BY <1>4, <2>2
  <2>4. g = [k \in 1 .. n |-> IF k \in at + 1 .. at + l THEN s[k - at]
                             ELSE IF k <= m THEN f[k] ELSE Vectored!Hole]
    BY <1>2, <1>3, <2>1, <2>2, Zenon DEF Vectored!PutAt
  <2>5. \A k \in 1 .. m : g[k] = IF k \in at + 1 .. at + l THEN s[k - at] ELSE f[k]
    BY <2>3, <2>4
  <2>6. \A k \in 1 .. m : k \in at + 1 .. at + l => k - at \in 1 .. l
    OBVIOUS
  <2>7. \A k \in 1 .. m : g[k] \in S
    BY <1>2, <1>3, <2>5, <2>6
  <2>8. g \in [1 .. m -> S]
    BY <2>3, <2>4, <2>7
  <2>9. g \in Seq(S) /\ Len(g) = m
    BY <2>8, LenOfFunction, Zenon
  <2> QED
    BY <1>1, <1>2, <1>3, <2>5, <2>9, Zenon
<1> QED
  BY <1>5, <1>6

(* The first write to an empty file. *)
LEMMA PutFirst ==
  ASSUME NEW s \in Seq(VCells)
  PROVE  Vectored!PutAt(<<>>, 0, s) = s
<1>1. PICK e : e = <<>>
  OBVIOUS
<1>2. e \in Seq(VCells) /\ Len(e) = 0
  BY <1>1, EmptySeq
<1>3. PICK l \in Nat : l = Len(s) /\ s \in [1 .. l -> VCells]
  BY LenProperties
<1>4. CASE l = 0
  <2>1. s = <<>>
    BY <1>3, <1>4, EmptySeq
  <2> QED
    BY <2>1 DEF Vectored!PutAt
<1>5. CASE l # 0
  <2>1. s # <<>>
    BY <1>3, <1>5
  <2>2. PICK n, o : n = (IF 0 + l < 0 THEN 0 ELSE 0 + l) /\ o = 0
    OBVIOUS
  <2>3. n = l
    <3>1. l \in Nat
      BY <1>3
    <3> QED
      BY <2>2, <3>1
  <2>4. Vectored!PutAt(e, 0, s) =
          [k \in 1 .. n |-> IF k \in 0 + 1 .. 0 + l THEN s[k - 0]
                            ELSE IF k <= 0 THEN e[k] ELSE Vectored!Hole]
    BY <1>2, <1>3, <2>1, <2>2, Zenon DEF Vectored!PutAt
  <2>5. \A k \in 1 .. n : /\ k \in 0 + 1 .. 0 + l /\ k - 0 = k
    BY <2>3
  <2>6. Vectored!PutAt(e, 0, s) = [k \in 1 .. n |-> s[k]]
    BY <2>4, <2>5
  <2>7. s = [k \in 1 .. n |-> s[k]]
    BY <1>3, <2>3
  <2> QED
    BY <1>1, <2>6, <2>7, Zenon
<1> QED
  BY <1>4, <1>5

(* A number that a ssize_t holds is the same as a size_t. *)
LEMMA SizeFacts ==
  /\ SSIZE_MAX \in Nat /\ UIO_MAXIOV \in Nat /\ MaxIovs \in Nat /\ MaxLen \in Nat
  /\ \A n \in 0 .. SSIZE_MAX : Vectored!size_t(n) = n /\ Vectored!ssize_t(n) = n
<1>1. SSIZE_MAX \in Nat /\ UIO_MAXIOV \in Nat /\ MaxIovs \in Nat /\ MaxLen \in Nat
  BY ConstantsAssumption DEF Vectored!ConstantsOK
<1>2. PICK d : d = 2 * (SSIZE_MAX + 1)
  OBVIOUS
<1>3. ASSUME NEW n \in 0 .. SSIZE_MAX
      PROVE  Vectored!size_t(n) = n /\ Vectored!ssize_t(n) = n
  <2>1. d \in Nat /\ d > 0 /\ n \in 0 .. d - 1 /\ 0 \in Nat /\ d * 0 + n = n
    BY <1>1, <1>2
  <2>2. n % d = n
    BY <2>1, Remainder
  <2>3. Vectored!size_t(n) = n
    BY <1>2, <2>2, Zenon DEF Vectored!size_t
  <2>4. ~(n > SSIZE_MAX)
    BY <1>1
  <2> QED
    BY <2>3, <2>4, Zenon DEF Vectored!ssize_t
<1> QED
  BY <1>1, <1>3

(* The buffers of a call. *)
LEMMA FilledFacts ==
  ASSUME NEW C \in SUBSET VCells, NEW s \in Vectored!Filled(C)
  PROVE  /\ s \in Buffers /\ Len(s) <= MaxIovs
         /\ \A b \in 1 .. Len(s) : Len(s[b]) <= MaxLen
         /\ \A b \in 1 .. Len(s) : \A k \in 1 .. Len(s[b]) : s[b][k] \in C
<1>1. MaxIovs \in Nat /\ MaxLen \in Nat
  BY SizeFacts
<1>2. PICK B : B = Vectored!BoundedSeq(C, MaxLen)
  OBVIOUS
<1>3. ASSUME NEW t \in B
      PROVE  t \in Seq(C) /\ Len(t) <= MaxLen
  <2>1. PICK m \in 0 .. MaxLen : t \in [1 .. m -> C]
    BY <1>2, <1>3 DEF Vectored!BoundedSeq, Vectored!SeqOf
  <2>2. m \in Nat /\ m <= MaxLen
    BY <1>1
  <2> QED
    BY <2>1, <2>2, LenOfFunction
<1>4. PICK n \in 0 .. MaxIovs : s \in [1 .. n -> B]
  BY <1>2 DEF Vectored!Filled, Vectored!BoundedSeq, Vectored!SeqOf
<1>5. n \in Nat /\ n <= MaxIovs
  BY <1>1
<1>6. s \in Seq(B) /\ Len(s) = n
  BY <1>4, <1>5, LenOfFunction
<1>7. B \subseteq Seq(VCells)
  <2>1. Seq(C) \subseteq Seq(VCells)
    BY SeqMonotonic
  <2> QED
    BY <1>3, <2>1
<1>8. s \in Buffers
  BY <1>6, <1>7, SeqMonotonic DEF Buffers
<1>9. ASSUME NEW b \in 1 .. n
      PROVE  /\ Len(s[b]) <= MaxLen
             /\ \A k \in 1 .. Len(s[b]) : s[b][k] \in C
  <2>1. s[b] \in Seq(C) /\ Len(s[b]) <= MaxLen
    BY <1>3, <1>4
  <2> QED
    BY <2>1, LenProperties
<1> QED
  BY <1>5, <1>6, <1>8, <1>9

(* The process starts with an empty file and has called nothing. *)
LEMMA VectoredInit == Vectored!Init => VectoredInv
<1> SUFFICES ASSUME Vectored!Init
             PROVE  VectoredInv
  OBVIOUS
<1>1. /\ file = <<>> /\ offset = 0 /\ op = "none" /\ pc = "idle" /\ iov = <<>>
      /\ given = <<>> /\ written = <<>> /\ i = 1 /\ total = 0 /\ tmp = <<>>
      /\ moved = 0 /\ result = 0
  BY DEF Vectored!Init
<1>2. SSIZE_MAX \in Nat /\ MaxIovs \in Nat
  BY SizeFacts
<1>3. /\ Len(<<>>) = 0 /\ <<>> \in Seq(VCells) /\ <<>> \in Buffers
  BY EmptySeq DEF Buffers
<1>4. VectoredTypes
  BY <1>1, <1>2, <1>3 DEF VectoredTypes
<1>5. VectoredPlaces
  BY <1>1 DEF VectoredPlaces
<1>6. VectoredFile
  BY <1>1, <1>3 DEF VectoredFile, Taken
<1>7. VectoredBlank /\ VectoredSum /\ VectoredGather /\ VectoredScatter
  BY <1>1 DEF VectoredBlank, VectoredSum, VectoredGather, VectoredScatter
<1>8. Vectored!WritevGathers /\ Vectored!ReadvScatters /\ Vectored!RefusedExactly
  BY <1>1 DEF Vectored!WritevGathers, Vectored!ReadvScatters, Vectored!RefusedExactly
<1> QED
  BY <1>4, <1>5, <1>6, <1>7, <1>8 DEF VectoredInv

(* The call is entered: refused at once, or summed up. *)
LEMMA VectoredEnter ==
  ASSUME NEW s \in Buffers, Len(s) <= MaxIovs,
         \A b \in 1 .. Len(s) : Len(s[b]) <= MaxLen,
         Vectored!Enter(s), result \in 0 .. SSIZE_MAX \cup {Vectored!EINVAL, Vectored!EIO},
         file' \in Seq(VCells), written' \in Seq(VCells),
         offset' = 0, op' \in {"writev", "readv"}
  PROVE  /\ VectoredTypes' /\ VectoredPlaces' /\ VectoredSum' /\ VectoredGather'
         /\ VectoredScatter' /\ Vectored!WritevGathers' /\ Vectored!ReadvScatters'
         /\ Vectored!RefusedExactly' /\ given' = s /\ pc' \in {"idle", "sum"}
<1>1. SSIZE_MAX \in Nat /\ UIO_MAXIOV \in Nat
  BY SizeFacts
<1>2. PICK n \in Nat : n = Len(s)
  BY LenProperties DEF Buffers
<1>3. /\ iov' = s /\ given' = s /\ i' = 1 /\ total' = 0 /\ moved' = 0 /\ tmp' = <<>>
      /\ n > UIO_MAXIOV => pc' = "idle" /\ result' = Vectored!EINVAL
      /\ ~(n > UIO_MAXIOV) => pc' = "sum" /\ result' = result
  BY <1>2 DEF Vectored!Enter, Vectored!Return
<1>4. <<>> \in Seq(VCells)
  BY EmptySeq
<1>5. pc' \in {"idle", "sum"} /\ 1 \in 1 .. n + 1
  BY <1>2, <1>3
<1>6. VectoredTypes'
  <2>1. result' \in 0 .. SSIZE_MAX \cup {Vectored!EINVAL, Vectored!EIO}
    BY <1>3
  <2>2. 0 \in Nat /\ 0 <= SSIZE_MAX /\ 0 <= 0
    BY <1>1
  <2>3. \A b \in 1 .. Len(s) : Len(s[b]) = Len(s[b]) /\ Len(s[b]) <= MaxLen
    OBVIOUS
  <2>4. /\ op' \in {"none", "writev", "readv"}
        /\ pc' \in {"idle", "sum", "gather", "read", "scatter", "died"}
    BY <1>5
  <2> QED
    BY <1>2, <1>3, <1>4, <1>5, <2>1, <2>2, <2>3, <2>4, Zenon DEF VectoredTypes
<1>7. VectoredPlaces'
  BY <1>1, <1>2, <1>3, <1>5 DEF VectoredPlaces
<1>8. VectoredSum'
  <2>1. Up(s, 0) = 0
    BY <1>2, UpFacts, Zenon
  <2>2. i' - 1 = 0
    BY <1>3
  <2> QED
    BY <1>3, <1>5, <2>1, <2>2 DEF VectoredSum
<1>9. VectoredGather' /\ VectoredScatter'
  BY <1>5 DEF VectoredGather, VectoredScatter
<1>10. pc' = "idle" => result' = Vectored!EINVAL /\ n > UIO_MAXIOV
  BY <1>3
<1>11. ~(Vectored!EINVAL >= 0)
  BY DEF Vectored!EINVAL
<1>12. Vectored!WritevGathers' /\ Vectored!ReadvScatters'
  BY <1>10, <1>11, Zenon DEF Vectored!WritevGathers, Vectored!ReadvScatters
<1>13. Vectored!RefusedExactly'
  <2>1. pc' = "idle" => Vectored!TooMuch'
    BY <1>2, <1>3, <1>10, Zenon DEF Vectored!TooMuch
  <2> QED
    BY <1>5, <1>10, <2>1 DEF Vectored!RefusedExactly
<1> QED
  BY <1>3, <1>5, <1>6, <1>7, <1>8, <1>9, <1>12, <1>13

(* __writev is called. *)
LEMMA VectoredCallsWritev ==
  VectoredInv /\ Vectored!CallWritev => VectoredInv'
<1> SUFFICES ASSUME VectoredInv, Vectored!CallWritev
             PROVE  VectoredInv'
  OBVIOUS
<1>1. PICK s \in Vectored!Filled(Chars \cup {VNull}) :
        Vectored!Enter(s) /\ written' = Vectored!FlattenSeq(s)
  BY DEF Vectored!CallWritev, VNull
<1>2. op = "none" /\ op' = "writev" /\ file' = file /\ offset' = offset
  BY DEF Vectored!CallWritev
<1>3. Chars \cup {VNull} \in SUBSET VCells
  BY DEF VCells, VNull, Vectored!Cells
<1>4. /\ s \in Buffers /\ Len(s) <= MaxIovs
      /\ \A b \in 1 .. Len(s) : Len(s[b]) <= MaxLen
  BY <1>3, FilledFacts, Zenon
<1>5. /\ file = <<>> /\ offset = 0
      /\ result \in 0 .. SSIZE_MAX \cup {Vectored!EINVAL, Vectored!EIO}
  BY <1>2, Zenon DEF VectoredInv, VectoredTypes, VectoredFile
<1>6. file' = <<>> /\ offset' = 0 /\ file' \in Seq(VCells) /\ Len(file') = 0
  BY <1>2, <1>5, EmptySeq
<1>7. written' \in Seq(VCells)
  <2>1. PICK n \in Nat : n = Len(s)
    BY <1>4, LenProperties DEF Buffers
  <2> QED
    BY <1>1, <1>4, <2>1, UpFacts, Zenon
<1>8. op' \in {"writev", "readv"}
  BY <1>2
<1>9. /\ VectoredTypes' /\ VectoredPlaces' /\ VectoredSum' /\ VectoredGather'
      /\ VectoredScatter' /\ Vectored!WritevGathers' /\ Vectored!ReadvScatters'
      /\ Vectored!RefusedExactly' /\ given' = s /\ pc' \in {"idle", "sum"}
  BY <1>1, <1>4, <1>5, <1>6, <1>7, <1>8, VectoredEnter, Zenon
<1>10. VectoredFile'
  <2>1. Len(file') <= Len(written')
    BY <1>6, <1>7, LenProperties
  <2>2. Taken(file, written, Len(file))'
    BY <1>6 DEF Taken
  <2> QED
    BY <1>1, <1>2, <1>6, <1>9, <2>1, <2>2 DEF VectoredFile
<1>11. VectoredBlank'
  BY <1>2 DEF VectoredBlank
<1> QED
  BY <1>9, <1>10, <1>11, Zenon DEF VectoredInv

(* __readv is called with other buffers. *)
LEMMA VectoredCallsReadv ==
  VectoredInv /\ Vectored!CallReadv => VectoredInv'
<1> SUFFICES ASSUME VectoredInv, Vectored!CallReadv
             PROVE  VectoredInv'
  OBVIOUS
<1>1. PICK s \in Vectored!Filled({Vectored!Garbage}) : Vectored!Enter(s)
  BY DEF Vectored!CallReadv
<1>2. /\ op = "writev" /\ pc = "idle" /\ op' = "readv"
      /\ file' = file /\ offset' = 0 /\ written' = written
  BY DEF Vectored!CallReadv
<1>3. {Vectored!Garbage} \in SUBSET VCells
  BY DEF VCells, Vectored!Cells
<1>4. /\ s \in Buffers /\ Len(s) <= MaxIovs
      /\ \A b \in 1 .. Len(s) : Len(s[b]) <= MaxLen
      /\ \A b \in 1 .. Len(s) : \A k \in 1 .. Len(s[b]) : s[b][k] \in {Vectored!Garbage}
  BY <1>1, <1>3, FilledFacts, Zenon
<1>5. /\ result \in 0 .. SSIZE_MAX \cup {Vectored!EINVAL, Vectored!EIO}
      /\ file' \in Seq(VCells) /\ written' \in Seq(VCells)
      /\ Len(file) <= Len(written) /\ Taken(file, written, Len(file))
  BY <1>2, Zenon DEF VectoredInv, VectoredTypes, VectoredFile
<1>6. op' \in {"writev", "readv"} /\ op' # "none" /\ op' # "writev"
  BY <1>2
<1>7. /\ VectoredTypes' /\ VectoredPlaces' /\ VectoredSum' /\ VectoredGather'
      /\ VectoredScatter' /\ Vectored!WritevGathers' /\ Vectored!ReadvScatters'
      /\ Vectored!RefusedExactly' /\ given' = s /\ pc' \in {"idle", "sum"}
  BY <1>1, <1>2, <1>4, <1>5, <1>6, VectoredEnter, Zenon
<1>8. VectoredFile'
  BY <1>2, <1>5, <1>6, Zenon DEF VectoredFile
<1>9. VectoredBlank'
  <2>1. \A b \in 1 .. Len(s) : \A k \in 1 .. Len(s[b]) : s[b][k] = Vectored!Garbage
    BY <1>4, Zenon
  <2> QED
    BY <1>7, <2>1, Zenon DEF VectoredBlank
<1> QED
  BY <1>7, <1>8, <1>9, Zenon DEF VectoredInv

(* What is known of the buffers in every state. *)
LEMMA VectoredGiven ==
  ASSUME VectoredInv
  PROVE  \E n \in Nat :
           /\ n = Len(given) /\ n = Len(iov) /\ i \in 1 .. n + 1
           /\ given \in Buffers /\ iov \in Buffers
           /\ \A k \in 0 .. n : Up(given, k) \in Nat
           /\ \A k \in 1 .. n : /\ Len(given[k]) \in Nat /\ Len(given[k]) = Len(iov[k])
                               /\ Len(given[k]) <= MaxLen
                               /\ Up(given, k) = Up(given, k - 1) + Len(given[k])
           /\ Up(given, 0) = 0 /\ Len(Vectored!FlattenSeq(given)) = Up(given, n)
<1>1. /\ given \in Buffers /\ iov \in Buffers /\ Len(iov) = Len(given)
      /\ i \in 1 .. Len(given) + 1
      /\ \A b \in 1 .. Len(given) :
           Len(iov[b]) = Len(given[b]) /\ Len(given[b]) <= MaxLen
  BY Zenon DEF VectoredInv, VectoredTypes
<1>2. PICK n \in Nat : n = Len(given)
  BY <1>1, LenProperties DEF Buffers
<1> QED
  BY <1>1, <1>2, UpFacts, Zenon

(* While a call goes on and its buffers stay, only some parts can be       *)
(* disturbed.                                                              *)
LEMMA VectoredGoesOn ==
  ASSUME VectoredInv, op' = op, given' = given, written' = written,
         file' = file, pc' \notin {"idle"}
  PROVE  /\ Vectored!WritevGathers' /\ Vectored!ReadvScatters'
         /\ pc \in {"gather", "read", "scatter"} => Vectored!RefusedExactly'
<1>1. Vectored!WritevGathers' /\ Vectored!ReadvScatters'
  BY Zenon DEF Vectored!WritevGathers, Vectored!ReadvScatters
<1>2. ASSUME pc \in {"gather", "read", "scatter"}
      PROVE  Vectored!RefusedExactly'
  <2>1. ~Vectored!TooMuch
    BY <1>2 DEF VectoredInv, Vectored!RefusedExactly
  <2>2. Vectored!TooMuch' <=> Vectored!TooMuch
    BY Zenon DEF Vectored!TooMuch
  <2> QED
    BY <2>1, <2>2, Zenon DEF Vectored!RefusedExactly
<1> QED
  BY <1>1, <1>2

(* One more length is added, if the sum still fits. *)
LEMMA VectoredSums ==
  MaxLen <= SSIZE_MAX /\ VectoredInv /\ Vectored!Sum => VectoredInv'
<1> SUFFICES ASSUME MaxLen <= SSIZE_MAX, VectoredInv, Vectored!Sum
             PROVE  VectoredInv'
  OBVIOUS
<1>1. PICK n \in Nat :
           /\ n = Len(given) /\ n = Len(iov) /\ i \in 1 .. n + 1
           /\ given \in Buffers /\ iov \in Buffers
           /\ \A k \in 0 .. n : Up(given, k) \in Nat
           /\ \A k \in 1 .. n : /\ Len(given[k]) \in Nat /\ Len(given[k]) = Len(iov[k])
                               /\ Len(given[k]) <= MaxLen
                               /\ Up(given, k) = Up(given, k - 1) + Len(given[k])
           /\ Up(given, 0) = 0 /\ Len(Vectored!FlattenSeq(given)) = Up(given, n)
  BY VectoredGiven, Zenon
<1>2. /\ pc = "sum" /\ i <= Len(iov)
      /\ file' = file /\ offset' = offset /\ op' = op /\ iov' = iov
      /\ given' = given /\ written' = written /\ tmp' = tmp /\ moved' = moved
  BY DEF Vectored!Sum
<1>3. i \in 1 .. n
  <2>1. n \in Nat /\ i \in 1 .. n + 1 /\ i <= n
    BY <1>1, <1>2, Zenon
  <2> QED
    BY <2>1
<1>4. total = Up(given, i - 1) /\ moved = 0 /\ op # "none" /\ Len(given) <= UIO_MAXIOV
      /\ iov = given
  BY <1>2 DEF VectoredInv, VectoredSum, VectoredPlaces
<1>5. PICK l : l = Len(iov[i])
  OBVIOUS
<1>6. /\ l \in Nat /\ l <= MaxLen /\ Up(given, i) = total + l
  BY <1>1, <1>3, <1>4, <1>5, Zenon
<1>7. /\ SSIZE_MAX \in Nat /\ MaxLen \in Nat /\ total \in Nat /\ total <= SSIZE_MAX
  BY SizeFacts DEF VectoredInv, VectoredTypes
<1>8. Vectored!Overflows <=> total + l > SSIZE_MAX
  <2>1. total \in 0 .. SSIZE_MAX /\ SSIZE_MAX - l \in 0 .. SSIZE_MAX
    BY <1>6, <1>7
  <2>2. Vectored!size_t(total) = total /\ Vectored!size_t(SSIZE_MAX - l) = SSIZE_MAX - l
    BY <2>1, SizeFacts, Zenon
  <2>3. Vectored!Overflows <=> total > SSIZE_MAX - l
    BY <1>5, <2>2, Zenon DEF Vectored!Overflows
  <2> QED
    BY <1>6, <1>7, <2>3
<1>9. CASE Vectored!Overflows
  <2>1. /\ pc' = "idle" /\ result' = Vectored!EINVAL /\ i' = i /\ total' = total
    BY <1>9 DEF Vectored!Sum, Vectored!Return
  <2>2. Vectored!TooMuch
    <3>1. Up(given, i) <= Up(given, n)
      <4>1. i \in 0 .. n /\ n \in 0 .. n /\ i <= n
        BY <1>3
      <4> QED
        BY <1>1, <4>1, UpMonotonic, Zenon
    <3>2. PICK x, y : x = Up(given, i) /\ y = Up(given, n)
      OBVIOUS
    <3>3. y \in Nat
      <4>1. n \in 0 .. n
        BY <1>1
      <4> QED
        BY <1>1, <3>2, <4>1, Zenon
    <3>4. y > SSIZE_MAX
      BY <1>6, <1>7, <1>8, <1>9, <3>1, <3>2, <3>3
    <3> QED
      BY <1>1, <3>2, <3>4, Zenon DEF Vectored!TooMuch
  <2>3. VectoredTypes'
    BY <1>2, <2>1, Zenon DEF VectoredInv, VectoredTypes
  <2>4. VectoredPlaces' /\ VectoredBlank' /\ VectoredSum' /\ VectoredGather'
        /\ VectoredScatter'
    BY <1>2, <1>4, <2>1 DEF VectoredPlaces, VectoredBlank, VectoredSum, VectoredGather,
                            VectoredScatter
  <2>5. VectoredFile'
    BY <1>2, <1>4, <2>1, Zenon DEF VectoredInv, VectoredFile
  <2>6. ~(Vectored!EINVAL >= 0)
    BY DEF Vectored!EINVAL
  <2>7. Vectored!WritevGathers' /\ Vectored!ReadvScatters'
    BY <2>1, <2>6, Zenon DEF Vectored!WritevGathers, Vectored!ReadvScatters
  <2>8. Vectored!TooMuch'
    BY <1>2, <2>2, Zenon DEF Vectored!TooMuch
  <2>9. Vectored!RefusedExactly'
    BY <2>1, <2>8 DEF Vectored!RefusedExactly
  <2> QED
    BY <2>3, <2>4, <2>5, <2>7, <2>9, Zenon DEF VectoredInv
<1>10. CASE ~Vectored!Overflows
  <2>1. /\ pc' = "sum" /\ result' = result /\ i' = i + 1
        /\ total' = Vectored!ssize_t(total + Len(iov[i]))
    BY <1>2, <1>10 DEF Vectored!Sum
  <2>2. total + l \in 0 .. SSIZE_MAX
    BY <1>6, <1>7, <1>8, <1>10
  <2>3. total' = total + l
    BY <1>5, <2>1, <2>2, SizeFacts, Zenon
  <2>4. total' \in Nat /\ total' <= SSIZE_MAX /\ moved' <= total'
    BY <1>2, <1>4, <1>6, <1>7, <2>2, <2>3
  <2>5. i' \in 1 .. n + 1 /\ i' - 1 = i
    BY <1>3, <2>1
  <2>6. VectoredTypes'
    <3>1. i' \in 1 .. Len(given') + 1
      BY <1>1, <1>2, <2>5, Zenon
    <3>2. pc' \in {"idle", "sum", "gather", "read", "scatter", "died"}
      BY <2>1
    <3> QED
      BY <1>2, <2>1, <2>4, <3>1, <3>2, Zenon DEF VectoredInv, VectoredTypes
  <2>7. VectoredPlaces'
    BY <1>2, <1>4, <2>1 DEF VectoredPlaces
  <2>8. VectoredGather' /\ VectoredScatter'
    BY <2>1 DEF VectoredGather, VectoredScatter
  <2>9. VectoredFile' /\ VectoredBlank'
    BY <1>2, <2>1, Zenon DEF VectoredInv, VectoredFile, VectoredBlank
  <2>10. VectoredSum'
    BY <1>2, <1>4, <1>6, <2>1, <2>3, <2>5 DEF VectoredSum
  <2>11. Vectored!WritevGathers' /\ Vectored!ReadvScatters'
    BY <1>2, <2>1, VectoredGoesOn
  <2>12. Vectored!RefusedExactly'
    BY <2>1 DEF Vectored!RefusedExactly
  <2> QED
    BY <2>6, <2>7, <2>8, <2>9, <2>10, <2>11, <2>12, Zenon DEF VectoredInv
<1> QED
  BY <1>9, <1>10

(* The sum is complete and fits. *)
LEMMA VectoredFits ==
  ASSUME VectoredInv, pc = "sum", i > Len(iov)
  PROVE  ~Vectored!TooMuch /\ total = Up(given, Len(given))
<1>1. PICK n \in Nat :
           /\ n = Len(given) /\ n = Len(iov) /\ i \in 1 .. n + 1
           /\ given \in Buffers /\ iov \in Buffers
           /\ \A k \in 0 .. n : Up(given, k) \in Nat
           /\ \A k \in 1 .. n : /\ Len(given[k]) \in Nat /\ Len(given[k]) = Len(iov[k])
                               /\ Len(given[k]) <= MaxLen
                               /\ Up(given, k) = Up(given, k - 1) + Len(given[k])
           /\ Up(given, 0) = 0 /\ Len(Vectored!FlattenSeq(given)) = Up(given, n)
  BY VectoredGiven, Zenon
<1>2. i = n + 1 /\ i - 1 = n
  <2>1. n \in Nat /\ i \in 1 .. n + 1 /\ i > n
    BY <1>1, Zenon
  <2> QED
    BY <2>1
<1>3. total = Up(given, n) /\ Len(given) <= UIO_MAXIOV /\ total \in Nat /\ total <= SSIZE_MAX
  <2>1. total = Up(given, i - 1) /\ Len(given) <= UIO_MAXIOV /\ total \in Nat
        /\ total <= SSIZE_MAX
    BY DEF VectoredInv, VectoredSum, VectoredPlaces, VectoredTypes
  <2> QED
    BY <1>2, <2>1, Zenon
<1>4. ~(n > UIO_MAXIOV) /\ ~(total > SSIZE_MAX)
  <2>1. n \in Nat /\ n <= UIO_MAXIOV /\ UIO_MAXIOV \in Nat /\ SSIZE_MAX \in Nat
    BY <1>1, <1>3, SizeFacts, Zenon
  <2> QED
    BY <1>3, <2>1
<1> QED
  BY <1>1, <1>3, <1>4, Zenon DEF Vectored!TooMuch

(* The temporary buffer. *)
LEMMA VectoredMallocs ==
  VectoredInv /\ Vectored!Malloc => VectoredInv'
<1> SUFFICES ASSUME VectoredInv, Vectored!Malloc
             PROVE  VectoredInv'
  OBVIOUS
<1>1. PICK n \in Nat :
           /\ n = Len(given) /\ n = Len(iov) /\ i \in 1 .. n + 1
           /\ given \in Buffers /\ iov \in Buffers
           /\ \A k \in 0 .. n : Up(given, k) \in Nat
           /\ \A k \in 1 .. n : /\ Len(given[k]) \in Nat /\ Len(given[k]) = Len(iov[k])
                               /\ Len(given[k]) <= MaxLen
                               /\ Up(given, k) = Up(given, k - 1) + Len(given[k])
           /\ Up(given, 0) = 0 /\ Len(Vectored!FlattenSeq(given)) = Up(given, n)
  BY VectoredGiven, Zenon
<1>2. /\ pc = "sum" /\ i > Len(iov) /\ i' = 1
      /\ tmp' = [k \in 1 .. total |-> Vectored!Garbage]
      /\ pc' = IF op = "writev" THEN "gather" ELSE "read"
      /\ file' = file /\ offset' = offset /\ op' = op /\ iov' = iov
      /\ given' = given /\ written' = written /\ total' = total /\ moved' = moved
      /\ result' = result
  BY DEF Vectored!Malloc
<1>3. ~Vectored!TooMuch /\ total = Up(given, Len(given))
  BY <1>2, VectoredFits
<1>4. /\ op \in {"writev", "readv"} /\ moved = 0 /\ iov = given /\ Len(given) <= UIO_MAXIOV
      /\ total \in Nat
  BY <1>2 DEF VectoredInv, VectoredTypes, VectoredPlaces, VectoredSum
<1>5. tmp' \in Seq(VCells) /\ Len(tmp') = total
  <2>1. PICK t : t = [k \in 1 .. total |-> Vectored!Garbage]
    OBVIOUS
  <2>2. Vectored!Garbage \in VCells
    BY DEF VCells, Vectored!Cells
  <2>3. t \in [1 .. total -> VCells]
    BY <2>1, <2>2
  <2> QED
    BY <1>2, <1>4, <2>1, <2>3, LenOfFunction, Zenon
<1>6. \/ op = "writev" /\ pc' = "gather"
      \/ op = "readv" /\ pc' = "read"
  BY <1>2, <1>4
<1>7. i' \in 1 .. n + 1 /\ i' - 1 = 0
  BY <1>1, <1>2
<1>8. VectoredTypes'
  <2>1. i' \in 1 .. Len(given') + 1
    BY <1>1, <1>2, <1>7, Zenon
  <2>2. pc' \in {"idle", "sum", "gather", "read", "scatter", "died"}
    BY <1>6
  <2> QED
    BY <1>2, <1>5, <2>1, <2>2, Zenon DEF VectoredInv, VectoredTypes
<1>9. VectoredPlaces'
  BY <1>2, <1>4, <1>6 DEF VectoredPlaces
<1>10. VectoredFile'
  <2>1. /\ op = "writev" => file = <<>> /\ offset = 0 /\ written = Vectored!FlattenSeq(given)
        /\ op = "readv" => offset = 0
        /\ Len(file) <= Len(written) /\ Taken(file, written, Len(file))
    BY <1>2 DEF VectoredInv, VectoredFile
  <2>2. op' # "none"
    BY <1>2, <1>4
  <2> QED
    BY <1>2, <2>1, <2>2, Zenon DEF VectoredFile
<1>11. VectoredBlank'
  BY <1>2, Zenon DEF VectoredInv, VectoredBlank
<1>12. VectoredSum'
  BY <1>2, <1>3, <1>5, <1>6 DEF VectoredSum
<1>13. VectoredGather'
  <2>1. moved' = Up(given', i' - 1) /\ moved' = 0
    BY <1>1, <1>2, <1>4, <1>7, Zenon
  <2>2. \A k \in 1 .. moved' : FALSE
    BY <2>1
  <2> QED
    BY <2>1, <2>2, Zenon DEF VectoredGather, Taken
<1>14. VectoredScatter'
  BY <1>2, <1>4, <1>6 DEF VectoredScatter
<1>15. Vectored!WritevGathers' /\ Vectored!ReadvScatters'
  BY <1>2, <1>6, VectoredGoesOn
<1>16. Vectored!RefusedExactly'
  <2>1. ~Vectored!TooMuch'
    BY <1>2, <1>3, Zenon DEF Vectored!TooMuch
  <2> QED
    BY <1>6, <2>1 DEF Vectored!RefusedExactly
<1> QED
  BY <1>8, <1>9, <1>10, <1>11, <1>12, <1>13, <1>14, <1>15, <1>16, Zenon DEF VectoredInv

(* No memory. *)
LEMMA VectoredDies ==
  VectoredInv /\ Vectored!MallocFails => VectoredInv'
<1> SUFFICES ASSUME VectoredInv, Vectored!MallocFails
             PROVE  VectoredInv'
  OBVIOUS
<1>1. /\ pc = "sum" /\ i > Len(iov) /\ pc' = "died" /\ i' = i /\ tmp' = tmp
      /\ file' = file /\ offset' = offset /\ op' = op /\ iov' = iov
      /\ given' = given /\ written' = written /\ total' = total /\ moved' = moved
      /\ result' = result
  BY DEF Vectored!MallocFails
<1>2. ~Vectored!TooMuch
  BY <1>1, VectoredFits
<1>3. op # "none"
  BY <1>1 DEF VectoredInv, VectoredPlaces
<1>4. VectoredTypes'
  BY <1>1, Zenon DEF VectoredInv, VectoredTypes
<1>5. /\ VectoredPlaces' /\ VectoredBlank' /\ VectoredSum' /\ VectoredGather'
      /\ VectoredScatter'
  BY <1>1, <1>3 DEF VectoredPlaces, VectoredBlank, VectoredSum, VectoredGather,
                    VectoredScatter
<1>6. VectoredFile'
  <2>1. /\ op = "writev" => written = Vectored!FlattenSeq(given)
        /\ Len(file) <= Len(written) /\ Taken(file, written, Len(file))
    BY Zenon DEF VectoredInv, VectoredFile
  <2>2. pc' \notin {"sum", "gather", "read"}
    BY <1>1
  <2> QED
    BY <1>1, <1>3, <2>1, <2>2, Zenon DEF VectoredFile
<1>7. Vectored!WritevGathers' /\ Vectored!ReadvScatters'
  BY <1>1, VectoredGoesOn
<1>8. Vectored!RefusedExactly'
  <2>1. ~Vectored!TooMuch'
    BY <1>1, <1>2, Zenon DEF Vectored!TooMuch
  <2> QED
    BY <1>1, <2>1 DEF Vectored!RefusedExactly
<1> QED
  BY <1>4, <1>5, <1>6, <1>7, <1>8, Zenon DEF VectoredInv

(* A call that has got through the checks returns what the kernel says. *)
LEMMA VectoredReturns ==
  ASSUME VectoredInv, pc \in {"gather", "read", "scatter"}, pc' = "idle",
         given' = given, result' # Vectored!EINVAL
  PROVE  Vectored!RefusedExactly'
<1>1. ~Vectored!TooMuch
  BY DEF VectoredInv, Vectored!RefusedExactly
<1>2. ~Vectored!TooMuch'
  BY <1>1, Zenon DEF Vectored!TooMuch
<1> QED
  BY <1>2 DEF Vectored!RefusedExactly

(* write or read fails. *)
LEMMA VectoredCallFails ==
  VectoredInv /\ Vectored!CallFails => VectoredInv'
<1> SUFFICES ASSUME VectoredInv, Vectored!CallFails
             PROVE  VectoredInv'
  OBVIOUS
<1>1. /\ pc \in {"gather", "read"} /\ pc' = "idle" /\ result' = Vectored!EIO
      /\ i' = i /\ tmp' = tmp
      /\ file' = file /\ offset' = offset /\ op' = op /\ iov' = iov
      /\ given' = given /\ written' = written /\ total' = total /\ moved' = moved
  BY DEF Vectored!CallFails, Vectored!Return
<1>2. op # "none"
  BY <1>1 DEF VectoredInv, VectoredPlaces
<1>3. VectoredTypes'
  BY <1>1, Zenon DEF VectoredInv, VectoredTypes
<1>4. /\ VectoredPlaces' /\ VectoredBlank' /\ VectoredSum' /\ VectoredGather'
      /\ VectoredScatter'
  BY <1>1, <1>2 DEF VectoredPlaces, VectoredBlank, VectoredSum, VectoredGather,
                    VectoredScatter
<1>5. VectoredFile'
  <2>1. /\ op = "writev" => written = Vectored!FlattenSeq(given)
        /\ Len(file) <= Len(written) /\ Taken(file, written, Len(file))
    BY Zenon DEF VectoredInv, VectoredFile
  <2>2. pc' \notin {"sum", "gather", "read"}
    BY <1>1
  <2> QED
    BY <1>1, <1>2, <2>1, <2>2, Zenon DEF VectoredFile
<1>6. ~(Vectored!EIO >= 0) /\ Vectored!EIO # Vectored!EINVAL
  BY DEF Vectored!EIO, Vectored!EINVAL
<1>7. Vectored!WritevGathers' /\ Vectored!ReadvScatters'
  BY <1>1, <1>6, Zenon DEF Vectored!WritevGathers, Vectored!ReadvScatters
<1>8. Vectored!RefusedExactly'
  BY <1>1, <1>6, VectoredReturns
<1> QED
  BY <1>3, <1>4, <1>5, <1>7, <1>8, Zenon DEF VectoredInv

(* The next buffer is copied behind the others. *)
LEMMA VectoredGathers ==
  VectoredInv /\ Vectored!Gather => VectoredInv'
<1> SUFFICES ASSUME VectoredInv, Vectored!Gather
             PROVE  VectoredInv'
  OBVIOUS
<1>1. PICK n \in Nat :
           /\ n = Len(given) /\ n = Len(iov) /\ i \in 1 .. n + 1
           /\ given \in Buffers /\ iov \in Buffers
           /\ \A k \in 0 .. n : Up(given, k) \in Nat
           /\ \A k \in 1 .. n : /\ Len(given[k]) \in Nat /\ Len(given[k]) = Len(iov[k])
                               /\ Len(given[k]) <= MaxLen
                               /\ Up(given, k) = Up(given, k - 1) + Len(given[k])
           /\ Up(given, 0) = 0 /\ Len(Vectored!FlattenSeq(given)) = Up(given, n)
  BY VectoredGiven, Zenon
<1>2. /\ pc = "gather" /\ i <= Len(iov) /\ i' = i + 1 /\ pc' = pc
      /\ tmp' = Vectored!PutAt(tmp, moved, Vectored!strncpy(iov[i]))
      /\ moved' = moved + Len(iov[i])
      /\ file' = file /\ offset' = offset /\ op' = op /\ iov' = iov
      /\ given' = given /\ written' = written /\ total' = total
      /\ result' = result
  BY DEF Vectored!Gather
<1>3. i \in 1 .. n /\ i \in 0 .. n /\ n \in 0 .. n /\ i <= n
  <2>1. n \in Nat /\ i \in 1 .. n + 1 /\ i <= n
    BY <1>1, <1>2, Zenon
  <2> QED
    BY <2>1
<1>4. /\ iov = given /\ op = "writev" /\ moved = Up(given, i - 1)
      /\ total = Up(given, n) /\ Len(tmp) = total
      /\ Taken(tmp, written, moved)
      /\ AllText(given) => \A k \in 1 .. moved : tmp[k] = written[k]
      /\ written = Vectored!FlattenSeq(given)
  <2>1. op = "writev"
    BY <1>2 DEF VectoredInv, VectoredPlaces, VectoredTypes
  <2>2. iov = given /\ moved = Up(given, i - 1) /\ total = Up(given, Len(given))
        /\ Len(tmp) = total
    BY <1>2 DEF VectoredInv, VectoredPlaces, VectoredSum, VectoredGather
  <2> QED
    BY <1>1, <1>2, <2>1, <2>2, Zenon DEF VectoredInv, VectoredGather, VectoredFile
<1>5. PICK l, m, s : l = Len(given[i]) /\ m = moved /\ s = Vectored!strncpy(iov[i])
  OBVIOUS
<1>6. /\ l \in Nat /\ m \in Nat /\ Up(given, i) = m + l /\ m + l <= total
      /\ total \in Nat /\ moved' = m + l /\ tmp \in Seq(VCells) /\ Len(tmp) = total
      /\ total <= SSIZE_MAX
  <2>1. total \in Nat /\ moved \in Nat /\ tmp \in Seq(VCells) /\ total <= SSIZE_MAX
    BY Zenon DEF VectoredInv, VectoredTypes
  <2>2. Up(given, i) <= Up(given, n)
    BY <1>1, <1>3, UpMonotonic, Zenon
  <2> QED
    BY <1>1, <1>2, <1>3, <1>4, <1>5, <2>1, <2>2, Zenon
<1>7. PICK b : b = given[i]
  OBVIOUS
<1>8. /\ b \in Seq(VCells) /\ l = Len(b) /\ iov[i] = b
  <2>1. given \in Seq(Seq(VCells)) /\ i \in 1 .. Len(given)
    BY <1>1, <1>3, Zenon DEF Buffers
  <2>2. given[i] \in Seq(VCells)
    BY <2>1, LenProperties
  <2> QED
    BY <1>4, <1>5, <1>7, <2>2, Zenon
<1>9. /\ s \in Seq(VCells) /\ Len(s) = l
      /\ \A k \in 1 .. l : s[k] \in {b[k], VNull}
      /\ Vectored!IsText(b) => \A k \in 1 .. l : s[k] = b[k]
  BY <1>5, <1>8, StrncpyFacts, Zenon
<1>10. /\ tmp' \in Seq(VCells) /\ Len(tmp') = total
       /\ \A k \in 1 .. total :
            tmp'[k] = IF k \in m + 1 .. m + l THEN s[k - m] ELSE tmp[k]
  <2>1. PICK g : g = Vectored!PutAt(tmp, m, s)
    OBVIOUS
  <2>2. m + Len(s) <= Len(tmp)
    BY <1>6, <1>9, Zenon
  <2>3. /\ g \in Seq(VCells) /\ Len(g) = Len(tmp)
        /\ \A k \in 1 .. Len(tmp) :
             g[k] = IF k \in m + 1 .. m + Len(s) THEN s[k - m] ELSE tmp[k]
    <3>1. PutWithin(g, tmp, m, s)
      BY <1>6, <1>9, <2>1, <2>2, PutInside, Zenon
    <3> QED
      BY <3>1, Zenon DEF PutWithin
  <2>4. tmp' = g
    BY <1>2, <1>5, <2>1, Zenon
  <2> QED
    BY <1>6, <1>9, <2>3, <2>4, Zenon
<1>11. /\ \A k \in 1 .. m : tmp'[k] = tmp[k]
       /\ \A k \in 1 .. l : tmp'[m + k] = s[k]
  <2>1. ASSUME NEW k \in 1 .. m
        PROVE  tmp'[k] = tmp[k]
    <3>1. k \in 1 .. total /\ k \notin m + 1 .. m + l
      BY <1>6
    <3> QED
      BY <1>10, <3>1, Zenon
  <2>2. ASSUME NEW k \in 1 .. l
        PROVE  tmp'[m + k] = s[k]
    <3>1. m + k \in 1 .. total /\ m + k \in m + 1 .. m + l /\ (m + k) - m = k
      BY <1>6
    <3> QED
      BY <1>10, <3>1, Zenon
  <2> QED
    BY <2>1, <2>2
<1>12. \A k \in 1 .. l : written[m + k] = b[k]
  <2>1. \A k \in 1 .. Len(given[i]) :
          Vectored!FlattenSeq(given)[Up(given, i - 1) + k] = given[i][k]
    BY <1>1, <1>3, FlatAt, Zenon
  <2> QED
    BY <1>4, <1>5, <1>7, <2>1, Zenon
<1>13. \A k \in 1 .. m + l : k \in 1 .. m \/ \E j \in 1 .. l : k = m + j
  <2> TAKE k \in 1 .. m + l
  <2>1. CASE k <= m
    BY <1>6, <2>1
  <2>2. CASE ~(k <= m)
    <3>1. k - m \in 1 .. l /\ k = m + (k - m)
      BY <1>6, <2>2
    <3> QED
      BY <3>1
  <2> QED
    BY <2>1, <2>2
<1>14. i' \in 1 .. n + 1 /\ i' - 1 = i
  BY <1>1, <1>2, <1>3
<1>15. VectoredTypes'
  <2>1. i' \in 1 .. Len(given') + 1
    BY <1>1, <1>2, <1>14, Zenon
  <2>2. moved' \in Nat /\ moved' <= total
    BY <1>6
  <2> QED
    BY <1>2, <1>10, <2>1, <2>2, Zenon DEF VectoredInv, VectoredTypes
<1>16. VectoredPlaces' /\ VectoredFile' /\ VectoredBlank'
  BY <1>2, Zenon DEF VectoredInv, VectoredPlaces, VectoredFile, VectoredBlank
<1>17. VectoredSum'
  BY <1>2, <1>4, <1>10 DEF VectoredInv, VectoredSum
<1>18. VectoredGather'
  <2>1. moved' = Up(given', i' - 1)
    BY <1>2, <1>6, <1>14, Zenon
  <2>2. Taken(tmp, written, moved)'
    <3>1. ASSUME NEW k \in 1 .. m + l
          PROVE  /\ tmp'[k] \in {written[k], VNull}
                 /\ (\A j \in DOMAIN written : written[j] # VNull) => tmp'[k] = written[k]
      <4>1. CASE k \in 1 .. m
        BY <1>4, <1>5, <1>11, <4>1, Zenon DEF Taken
      <4>2. CASE \E j \in 1 .. l : k = m + j
        <5>1. PICK j \in 1 .. l : k = m + j
          BY <4>2
        <5>2. tmp'[k] = s[j] /\ written[k] = b[j]
          BY <1>11, <1>12, <5>1, Zenon
        <5>3. s[j] \in {b[j], VNull}
          BY <1>9, <5>1, Zenon
        <5>4. ASSUME \A x \in DOMAIN written : written[x] # VNull
              PROVE  s[j] = b[j]
          <6>1. ASSUME NEW x \in DOMAIN b
                PROVE  b[x] # VNull
            <7>1. x \in 1 .. l
              BY <1>8, <6>1, LenProperties
            <7>2. written[m + x] = b[x]
              BY <1>12, <7>1, Zenon
            <7>3. written \in Seq(VCells) /\ Len(written) = total
              BY <1>1, <1>4, Zenon DEF VectoredInv, VectoredTypes
            <7>4. DOMAIN written = 1 .. total
              BY <7>3, LenProperties, Zenon
            <7>5. m + x \in 1 .. total
              BY <1>6, <7>1
            <7> QED
              BY <5>4, <7>2, <7>4, <7>5, Zenon
          <6>2. Vectored!IsText(b)
            BY <6>1, Zenon DEF Vectored!IsText, VNull
          <6> QED
            BY <1>9, <5>1, <6>2, Zenon
        <5> QED
          BY <5>2, <5>3, <5>4, Zenon
      <4> QED
        BY <1>13, <4>1, <4>2
    <3> QED
      BY <1>2, <1>6, <3>1, Zenon DEF Taken
  <2>3. ASSUME AllText(given'), NEW k \in 1 .. m + l
        PROVE  tmp'[k] = written[k]
    <3>1. AllText(given)
      BY <1>2, <2>3, Zenon
    <3>2. CASE k \in 1 .. m
      BY <1>4, <1>5, <1>11, <3>1, <3>2, Zenon
    <3>3. CASE \E j \in 1 .. l : k = m + j
      <4>1. PICK j \in 1 .. l : k = m + j
        BY <3>3
      <4>2. i \in DOMAIN given
        BY <1>1, <1>3, LenProperties DEF Buffers
      <4>3. Vectored!IsText(b)
        BY <1>7, <3>1, <4>2, Zenon DEF AllText
      <4> QED
        BY <1>9, <1>11, <1>12, <4>1, <4>3, Zenon
    <3> QED
      BY <1>13, <3>2, <3>3
  <2> QED
    BY <1>2, <1>6, <2>1, <2>2, <2>3, Zenon DEF VectoredGather
<1>19. VectoredScatter'
  BY <1>2 DEF VectoredScatter
<1>20. Vectored!WritevGathers' /\ Vectored!ReadvScatters' /\ Vectored!RefusedExactly'
  BY <1>2, VectoredGoesOn
<1> QED
  BY <1>15, <1>16, <1>17, <1>18, <1>19, <1>20, Zenon DEF VectoredInv

(* Some elements out of many. *)
LEMMA SubSeqIn ==
  ASSUME NEW S, NEW t, NEW u \in Int, NEW v \in Int, \A k \in u .. v : t[k] \in S
  PROVE  SubSeq(t, u, v) \in Seq(S)
BY SubSeqProperties

(* Which they are. *)
LEMMA SubSeqAt ==
  ASSUME NEW S, NEW t, NEW u \in Int, NEW v \in Int, \A k \in u .. v : t[k] \in S
  PROVE  \A k \in 1 .. v - u + 1 : SubSeq(t, u, v)[k] = t[u + k - 1]
BY SubSeqProperties

(* Some bytes out of many. *)
LEMMA PartOf ==
  ASSUME NEW t \in Seq(VCells), NEW a \in Nat, NEW n \in Nat, a + n <= Len(t),
         NEW q, q = SubSeq(t, a + 1, a + n)
  PROVE  q \in Seq(VCells) /\ Len(q) = n /\ \A k \in 1 .. n : q[k] = t[a + k]
<1>1. PICK S : S = VCells
  OBVIOUS
<1>2. PICK l \in Nat : l = Len(t) /\ t \in [1 .. l -> S]
  BY <1>1, LenProperties
<1>3. a + n <= l
  BY <1>2, Zenon
<1>4. PICK u, v : u = a + 1 /\ v = a + n
  OBVIOUS
<1>5. u \in Int /\ v \in Int /\ \A k \in u .. v : t[k] \in S
  BY <1>2, <1>3, <1>4
<1>6. (IF u <= v THEN v - u + 1 ELSE 0) = n
  BY <1>4
<1>7. v - u + 1 = n /\ \A k \in 1 .. n : u + k - 1 = a + k
  BY <1>4
<1>8. q = SubSeq(t, u, v)
  BY <1>4
<1>9. q \in Seq(S)
  BY <1>5, <1>8, SubSeqIn, Zenon
<1>10. Len(q) = IF u <= v THEN v - u + 1 ELSE 0
  BY <1>5, <1>8, SubSeqProperties
<1>11. \A k \in 1 .. v - u + 1 : q[k] = t[u + k - 1]
  BY <1>5, <1>8, SubSeqAt
<1> QED
  BY <1>1, <1>6, <1>7, <1>9, <1>10, <1>11, Zenon

(* The kernel takes some of the bytes, from the first on. *)
LEMMA VectoredWrites ==
  VectoredInv /\ Vectored!Write => VectoredInv'
<1> SUFFICES ASSUME VectoredInv, Vectored!Write
             PROVE  VectoredInv'
  OBVIOUS
<1>1. PICK r \in 0 .. total :
        /\ pc = "gather" /\ i > Len(iov) /\ pc' = "idle" /\ result' = r
        /\ file' = Vectored!PutAt(file, offset, SubSeq(tmp, 1, r))
        /\ offset' = offset + r /\ i' = i /\ tmp' = tmp /\ op' = op /\ iov' = iov
        /\ given' = given /\ written' = written /\ total' = total /\ moved' = moved
  BY DEF Vectored!Write, Vectored!Return
<1>2. PICK n \in Nat :
           /\ n = Len(given) /\ n = Len(iov) /\ i \in 1 .. n + 1
           /\ \A k \in 0 .. n : Up(given, k) \in Nat
           /\ Len(Vectored!FlattenSeq(given)) = Up(given, n)
  BY VectoredGiven, Zenon
<1>3. i - 1 = n
  <2>1. i > n
    BY <1>1, <1>2, Zenon
  <2> QED
    BY <1>2, <2>1
<1>4. op = "writev" /\ file = <<>> /\ offset = 0
  BY <1>1 DEF VectoredInv, VectoredTypes, VectoredPlaces, VectoredFile
<1>5. /\ total = Up(given, n) /\ Len(tmp) = total /\ moved = total
      /\ written = Vectored!FlattenSeq(given) /\ Len(written) = total
      /\ Taken(tmp, written, total)
      /\ AllText(given) => \A k \in 1 .. total : tmp[k] = written[k]
  BY <1>1, <1>2, <1>3, <1>4, Zenon
     DEF VectoredInv, VectoredSum, VectoredGather, VectoredFile
<1>6. total \in Nat /\ total <= SSIZE_MAX /\ tmp \in Seq(VCells) /\ written \in Seq(VCells)
  BY Zenon DEF VectoredInv, VectoredTypes
<1>7. r \in Nat /\ r <= total /\ r \in 0 .. SSIZE_MAX /\ offset' = r
  BY <1>1, <1>4, <1>6, SizeFacts
<1>8. /\ file' \in Seq(VCells) /\ Len(file') = r
      /\ \A k \in 1 .. r : file'[k] = tmp[k]
  <2>1. PICK q : q = SubSeq(tmp, 0 + 1, 0 + r)
    OBVIOUS
  <2>2. 0 + r <= Len(tmp)
    <3>1. 0 + r <= total
      BY <1>6, <1>7
    <3> QED
      BY <1>5, <3>1, Zenon
  <2>3. q \in Seq(VCells) /\ Len(q) = r /\ \A k \in 1 .. r : q[k] = tmp[0 + k]
    BY <1>6, <1>7, <2>1, <2>2, PartOf
  <2>4. 0 + 1 = 1 /\ 0 + r = r /\ \A k \in 1 .. r : 0 + k = k
    BY <1>7
  <2>5. file' = Vectored!PutAt(<<>>, 0, q)
    BY <1>1, <1>4, <2>1, <2>4, Zenon
  <2>6. file' = q
    BY <2>3, <2>5, PutFirst, Zenon
  <2> QED
    BY <2>3, <2>4, <2>6, Zenon
<1>9. VectoredTypes'
  BY <1>1, <1>7, <1>8, SizeFacts DEF VectoredInv, VectoredTypes
<1>10. VectoredPlaces' /\ VectoredBlank' /\ VectoredSum' /\ VectoredGather'
       /\ VectoredScatter'
  BY <1>1, <1>4 DEF VectoredPlaces, VectoredBlank, VectoredSum, VectoredGather,
                    VectoredScatter
<1>11. \A k \in 1 .. r : k \in 1 .. total
  BY <1>6, <1>7
<1>12. Taken(file', written, r)
  BY <1>5, <1>8, <1>11, Zenon DEF Taken
<1>13. VectoredFile'
  <2>1. Len(file') <= Len(written')
    BY <1>1, <1>5, <1>7, <1>8, Zenon
  <2>2. Taken(file', written', Len(file'))
    BY <1>1, <1>8, <1>12, Zenon
  <2>3. written' = Vectored!FlattenSeq(given')
    BY <1>1, <1>5, Zenon
  <2>4. /\ op' = "writev" /\ op' # "none" /\ op' # "readv"
        /\ pc' \notin {"sum", "gather"}
    BY <1>1, <1>4
  <2> QED
    BY <2>1, <2>2, <2>3, <2>4, Zenon DEF VectoredFile
<1>14. Vectored!WritevGathers'
  <2>1. ASSUME \A b \in DOMAIN given : Vectored!IsText(given[b])
        PROVE  Vectored!IsPrefix(file', written)
    <3>1. \A k \in 1 .. Len(file') : written[k] = file'[k]
      BY <1>5, <1>8, <1>11, <2>1, Zenon DEF AllText
    <3>2. Len(file') <= Len(written)
      BY <1>5, <1>7, <1>8, Zenon
    <3>3. Offsets!IsPrefix(file', written)
      BY <1>6, <1>8, <3>1, <3>2, BeginsLike, Zenon
    <3> QED
      BY <3>3, Zenon DEF Offsets!IsPrefix, Vectored!IsPrefix
  <2>2. \A k \in DOMAIN file' : file'[k] \in {written[k], Vectored!Null}
    <3>1. DOMAIN file' = 1 .. r
      BY <1>8, LenProperties, Zenon
    <3> QED
      BY <1>12, <3>1, Zenon DEF Taken, VNull
  <2> QED
    BY <1>1, <1>8, <2>1, <2>2, Zenon DEF Vectored!WritevGathers
<1>15. Vectored!ReadvScatters'
  BY <1>1, <1>4 DEF Vectored!ReadvScatters
<1>16. Vectored!RefusedExactly'
  <2>1. result' # Vectored!EINVAL
    BY <1>1, <1>7 DEF Vectored!EINVAL
  <2> QED
    BY <1>1, <2>1, VectoredReturns
<1> QED
  BY <1>9, <1>10, <1>13, <1>14, <1>15, <1>16, Zenon DEF VectoredInv

(* The l bytes g are those of b, but first come the n bytes q, as strncpy   *)
(* stores them.                                                            *)
Stored(g, b, q, l, n) ==
  /\ g \in Seq(VCells) /\ Len(g) = l
  /\ \A k \in 1 .. n : /\ g[k] \in {q[k], VNull}
                       /\ Vectored!IsText(q) => g[k] = q[k]
  /\ \A k \in n + 1 .. l : g[k] = b[k]

(* What a buffer holds after strncpy has stored in it. *)
LEMMA StoredFacts ==
  ASSUME NEW b \in Seq(VCells), NEW q \in Seq(VCells), NEW l \in Nat, NEW n \in Nat,
         l = Len(b), n = Len(q), n <= l,
         NEW g, g = Vectored!PutAt(b, 0, Vectored!strncpy(q))
  PROVE  Stored(g, b, q, l, n)
<1>1. PICK e : e = Vectored!strncpy(q)
  OBVIOUS
<1>2. /\ e \in Seq(VCells) /\ Len(e) = n
      /\ \A k \in 1 .. n : e[k] \in {q[k], VNull}
      /\ Vectored!IsText(q) => \A k \in 1 .. n : e[k] = q[k]
  BY <1>1, StrncpyFacts, Zenon
<1>3. 0 \in Nat /\ 0 + n = n /\ 0 + n <= l /\ 0 + 1 = 1
  OBVIOUS
<1>4. 0 + Len(e) <= Len(b) /\ g = Vectored!PutAt(b, 0, e)
  BY <1>1, <1>2, <1>3, Zenon
<1>5. /\ g \in Seq(VCells) /\ Len(g) = Len(b)
      /\ \A k \in 1 .. Len(b) :
           g[k] = IF k \in 0 + 1 .. 0 + Len(e) THEN e[k - 0] ELSE b[k]
  <2>1. PutWithin(g, b, 0, e)
    BY <1>2, <1>3, <1>4, PutInside, Zenon
  <2> QED
    BY <2>1, Zenon DEF PutWithin
<1>6. \A k \in 1 .. l : g[k] = IF k \in 1 .. n THEN e[k - 0] ELSE b[k]
  BY <1>2, <1>3, <1>5, Zenon
<1>7. ASSUME NEW k \in 1 .. n
      PROVE  g[k] = e[k]
  <2>1. k \in 1 .. l /\ k - 0 = k
    OBVIOUS
  <2> QED
    BY <1>6, <2>1, Zenon
<1>8. ASSUME NEW k \in n + 1 .. l
      PROVE  g[k] = b[k]
  <2>1. k \in 1 .. l /\ k \notin 1 .. n
    OBVIOUS
  <2> QED
    BY <1>6, <2>1, Zenon
<1> QED
  BY <1>2, <1>5, <1>7, <1>8, Zenon DEF Stored

(* The kernel gives some of the bytes, from the first on. *)
LEMMA VectoredReads ==
  VectoredInv /\ Vectored!Read => VectoredInv'
<1> SUFFICES ASSUME VectoredInv, Vectored!Read
             PROVE  VectoredInv'
  OBVIOUS
<1>1. PICK r \in 0 .. total :
        /\ r <= Len(file) - offset
        /\ pc = "read" /\ pc' = "scatter" /\ result' = r
        /\ tmp' = Vectored!PutAt(tmp, 0, SubSeq(file, offset + 1, offset + r))
        /\ offset' = offset + r /\ i' = i /\ file' = file /\ op' = op /\ iov' = iov
        /\ given' = given /\ written' = written /\ total' = total /\ moved' = moved
  BY DEF Vectored!Read
<1>2. PICK n \in Nat :
           /\ n = Len(given)
           /\ \A k \in 0 .. n : Up(given, k) \in Nat
           /\ Up(given, 0) = 0
  BY VectoredGiven, Zenon
<1>3. op = "readv" /\ offset = 0 /\ iov = given /\ moved = 0 /\ i = 1
  BY <1>1 DEF VectoredInv, VectoredTypes, VectoredPlaces, VectoredFile, VectoredScatter
<1>4. PICK f : f = Len(file)
  OBVIOUS
<1>5. /\ file \in Seq(VCells) /\ tmp \in Seq(VCells) /\ Len(tmp) = total
      /\ total \in Nat /\ total <= SSIZE_MAX
  BY <1>1, Zenon DEF VectoredInv, VectoredTypes, VectoredSum
<1>6. f \in Nat
  BY <1>4, <1>5, LenProperties
<1>7. r <= f - offset
  BY <1>1, <1>4, Zenon
<1>8. r \in Nat /\ r <= total /\ r <= f /\ offset' = r /\ r \in 0 .. SSIZE_MAX
  BY <1>1, <1>3, <1>5, <1>6, <1>7, SizeFacts
<1>9. /\ tmp' \in Seq(VCells) /\ Len(tmp') = total
      /\ \A k \in 1 .. r : tmp'[k] = file[k]
  <2>1. PICK q : q = SubSeq(file, 0 + 1, 0 + r)
    OBVIOUS
  <2>2. 0 + r = r /\ 0 + 1 = 1 /\ 0 \in Nat /\ \A k \in 1 .. r : 0 + k = k
    BY <1>8
  <2>3. 0 + r <= Len(file)
    BY <1>4, <1>8, <2>2, Zenon
  <2>4. q \in Seq(VCells) /\ Len(q) = r /\ \A k \in 1 .. r : q[k] = file[0 + k]
    <3>1. /\ file \in Seq(VCells) /\ 0 \in Nat /\ r \in Nat /\ 0 + r <= Len(file)
          /\ q = SubSeq(file, 0 + 1, 0 + r)
      BY <1>5, <1>8, <2>1, <2>2, <2>3, Zenon
    <3> QED
      BY <3>1, PartOf
  <2>5. PICK g : g = Vectored!PutAt(tmp, 0, q)
    OBVIOUS
  <2>6. 0 + Len(q) <= Len(tmp)
    BY <1>5, <1>8, <2>2, <2>4, Zenon
  <2>7. /\ g \in Seq(VCells) /\ Len(g) = Len(tmp)
        /\ \A k \in 1 .. Len(tmp) :
             g[k] = IF k \in 0 + 1 .. 0 + Len(q) THEN q[k - 0] ELSE tmp[k]
    <3>1. PutWithin(g, tmp, 0, q)
      BY <1>5, <2>2, <2>4, <2>5, <2>6, PutInside, Zenon
    <3> QED
      BY <3>1, Zenon DEF PutWithin
  <2>8. tmp' = g
    BY <1>1, <1>3, <2>1, <2>5, Zenon
  <2>9. ASSUME NEW k \in 1 .. r
        PROVE  g[k] = file[k]
    <3>1. k \in 1 .. total /\ k - 0 = k
      BY <1>5, <1>8
    <3>2. g[k] = IF k \in 1 .. r THEN q[k - 0] ELSE tmp[k]
      BY <1>5, <2>2, <2>4, <2>7, <3>1, Zenon
    <3> QED
      BY <2>2, <2>4, <3>1, <3>2, Zenon
  <2> QED
    BY <1>5, <2>7, <2>8, <2>9, Zenon
<1>10. VectoredTypes'
  BY <1>1, <1>8, <1>9, SizeFacts DEF VectoredInv, VectoredTypes
<1>11. VectoredPlaces' /\ VectoredBlank' /\ VectoredGather' /\ VectoredFile'
  <2>1. VectoredPlaces'
    BY <1>1, <1>3 DEF VectoredInv, VectoredPlaces
  <2>2. VectoredBlank' /\ VectoredGather'
    BY <1>1 DEF VectoredBlank, VectoredGather
  <2>3. Len(file) <= Len(written) /\ Taken(file, written, Len(file))
    BY Zenon DEF VectoredInv, VectoredFile
  <2>4. op # "none" /\ op # "writev" /\ pc' \notin {"sum", "read"}
    BY <1>1, <1>3
  <2>5. VectoredFile'
    BY <1>1, <2>3, <2>4, Zenon DEF VectoredFile
  <2> QED
    BY <2>1, <2>2, <2>5
<1>12. VectoredSum'
  <2>1. total = Up(given, Len(given))
    BY <1>1 DEF VectoredInv, VectoredSum
  <2>2. pc' # "sum"
    BY <1>1
  <2> QED
    BY <1>1, <1>9, <2>1, <2>2, Zenon DEF VectoredSum
<1>13. Scattered(iov, file, moved)'
  <2>1. ASSUME NEW b \in 1 .. Len(given), NEW k \in 1 .. Len(given[b])
        PROVE  /\ ~(Up(given, b - 1) + k <= 0)
               /\ given[b][k] = Vectored!Garbage
    <3>1. b - 1 \in 0 .. n
      BY <1>2
    <3>2. PICK u \in Nat : u = Up(given, b - 1)
      BY <1>2, <3>1
    <3>3. ~(u + k <= 0)
      OBVIOUS
    <3> QED
      BY <1>1, <1>3, <3>2, <3>3, Zenon DEF VectoredInv, VectoredBlank
  <2> QED
    BY <1>1, <1>3, <2>1, Zenon DEF Scattered
<1>14. VectoredScatter'
  <2>1. ~(r < Up(given, 0)) /\ i' - 1 = 0 /\ r \in 0 .. total
    BY <1>1, <1>2, <1>3, <1>8
  <2>2. moved' = IF result' < Up(given', i' - 1) THEN result' ELSE Up(given', i' - 1)
    BY <1>1, <1>2, <1>3, <2>1, Zenon
  <2>3. result' \in moved' .. total' /\ result' <= Len(file')
    BY <1>1, <1>3, <1>4, <1>8, <2>1, Zenon
  <2>4. \A k \in 1 .. result' : tmp'[k] = file'[k]
    BY <1>1, <1>9, Zenon
  <2>5. pc' # "read"
    BY <1>1
  <2> QED
    BY <1>13, <2>2, <2>3, <2>4, <2>5, Zenon DEF VectoredScatter
<1>15. Vectored!WritevGathers' /\ Vectored!ReadvScatters' /\ Vectored!RefusedExactly'
  BY <1>1, VectoredGoesOn
<1> QED
  BY <1>10, <1>11, <1>12, <1>13, <1>14, <1>15, Zenon DEF VectoredInv

(* The next buffer takes its share. *)
LEMMA VectoredScatters ==
  VectoredInv /\ Vectored!Scatter => VectoredInv'
<1> SUFFICES ASSUME VectoredInv, Vectored!Scatter
             PROVE  VectoredInv'
  OBVIOUS
<1>1. PICK n \in Nat :
           /\ n = Len(given) /\ n = Len(iov) /\ i \in 1 .. n + 1
           /\ given \in Buffers /\ iov \in Buffers
           /\ \A k \in 0 .. n : Up(given, k) \in Nat
           /\ \A k \in 1 .. n : /\ Len(given[k]) \in Nat /\ Len(given[k]) = Len(iov[k])
                               /\ Len(given[k]) <= MaxLen
                               /\ Up(given, k) = Up(given, k - 1) + Len(given[k])
  BY VectoredGiven, Zenon
<1>2. PICK h : h = Vectored!iov_elem_share
  OBVIOUS
<1>3. /\ pc = "scatter" /\ i <= Len(iov) /\ moved < result
      /\ iov' = [iov EXCEPT ![i] = Vectored!PutAt(iov[i], 0,
                   Vectored!strncpy(SubSeq(tmp, moved + 1, moved + h)))]
      /\ moved' = moved + h /\ i' = i + 1 /\ pc' = pc
      /\ file' = file /\ offset' = offset /\ op' = op
      /\ given' = given /\ written' = written /\ total' = total
      /\ tmp' = tmp /\ result' = result
  BY <1>2, Zenon DEF Vectored!Scatter
<1>4. i \in 1 .. n /\ i - 1 \in 0 .. n /\ i \in 0 .. n
  <2>1. i <= n
    BY <1>1, <1>3, Zenon
  <2> QED
    BY <1>1, <2>1
<1>5. PICK u, l, b, q : /\ u = Up(given, i - 1) /\ l = Len(given[i]) /\ b = iov[i]
                        /\ q = SubSeq(tmp, moved + 1, moved + h)
  OBVIOUS
<1>6. u \in Nat /\ l \in Nat /\ l = Len(b) /\ Up(given, i) = u + l
  BY <1>1, <1>4, <1>5, Zenon
<1>7. /\ op = "readv" /\ result \in moved .. total /\ total \in Nat /\ moved \in Nat
      /\ moved = (IF result < u THEN result ELSE u)
      /\ tmp \in Seq(VCells) /\ file \in Seq(VCells) /\ Len(tmp) = total
      /\ result <= Len(file) /\ \A k \in 1 .. result : tmp[k] = file[k]
      /\ Scattered(iov, file, moved)
  <2>1. op = "readv"
    BY <1>3 DEF VectoredInv, VectoredTypes, VectoredPlaces
  <2> QED
    BY <1>3, <1>5, <2>1, Zenon
       DEF VectoredInv, VectoredTypes, VectoredSum, VectoredScatter
<1>8. moved = u /\ u < result /\ result \in Nat
  BY <1>3, <1>6, <1>7
<1>9. h = IF result - u < l THEN result - u ELSE l
  BY <1>1, <1>2, <1>4, <1>5, <1>8, Zenon DEF Vectored!iov_elem_share
<1>10. /\ h \in Nat /\ h <= l /\ u + h <= result /\ u + h <= total
       /\ h = l \/ u + h = result
  BY <1>6, <1>7, <1>8, <1>9
<1>11. b \in Seq(VCells)
  <2>1. iov \in Seq(Seq(VCells)) /\ i \in 1 .. Len(iov)
    BY <1>1, <1>4, Zenon DEF Buffers
  <2> QED
    BY <1>5, <2>1, LenProperties
<1>12. /\ q \in Seq(VCells) /\ Len(q) = h
       /\ \A k \in 1 .. h : q[k] = file[u + k]
  <2>1. u + h <= Len(tmp) /\ q = SubSeq(tmp, u + 1, u + h)
    BY <1>5, <1>7, <1>8, <1>10, Zenon
  <2>2. q \in Seq(VCells) /\ Len(q) = h /\ \A k \in 1 .. h : q[k] = tmp[u + k]
    <3>1. /\ tmp \in Seq(VCells) /\ u \in Nat /\ h \in Nat /\ u + h <= Len(tmp)
          /\ q = SubSeq(tmp, u + 1, u + h)
      BY <1>6, <1>7, <1>10, <2>1, Zenon
    <3> QED
      BY <3>1, PartOf
  <2>3. \A k \in 1 .. h : u + k \in 1 .. result
    BY <1>6, <1>8, <1>10
  <2> QED
    BY <1>7, <2>2, <2>3, Zenon
<1>13. PICK g : g = Vectored!PutAt(b, 0, Vectored!strncpy(q))
  OBVIOUS
<1>14. /\ g \in Seq(VCells) /\ Len(g) = l
       /\ \A k \in 1 .. h : /\ g[k] \in {q[k], VNull}
                            /\ Vectored!IsText(q) => g[k] = q[k]
       /\ \A k \in h + 1 .. l : g[k] = b[k]
  <2>1. /\ b \in Seq(VCells) /\ q \in Seq(VCells) /\ l \in Nat /\ h \in Nat
        /\ l = Len(b) /\ h = Len(q) /\ h <= l
        /\ g = Vectored!PutAt(b, 0, Vectored!strncpy(q))
    BY <1>6, <1>10, <1>11, <1>12, <1>13, Zenon
  <2>2. Stored(g, b, q, l, h)
    BY <2>1, StoredFacts, Zenon
  <2> QED
    BY <2>2, Zenon DEF Stored
<1>15. iov \in [1 .. n -> Seq(VCells)]
  BY <1>1, LenProperties DEF Buffers
<1>16. iov' = [iov EXCEPT ![i] = g]
  BY <1>3, <1>5, <1>13, Zenon
<1>17. iov' \in [1 .. n -> Seq(VCells)]
  BY <1>4, <1>14, <1>15, <1>16
<1>18. iov'[i] = g /\ \A a \in 1 .. n : a # i => iov'[a] = iov[a]
  BY <1>4, <1>15, <1>16
<1>19. iov' \in Buffers /\ Len(iov') = n
  BY <1>17, LenOfFunction, Zenon DEF Buffers
<1>20. \A a \in 1 .. n : Len(iov'[a]) = Len(given[a])
  <2> TAKE a \in 1 .. n
  <2>1. CASE a = i
    BY <1>5, <1>14, <1>18, <2>1, Zenon
  <2>2. CASE a # i
    BY <1>1, <1>18, <2>2, Zenon
  <2> QED
    BY <2>1, <2>2
<1>21. moved' = u + h /\ i' \in 1 .. n + 1 /\ i' - 1 = i
  BY <1>1, <1>3, <1>4, <1>8
<1>22. VectoredTypes'
  <2>1. moved' \in Nat /\ moved' <= total'
    BY <1>3, <1>6, <1>10, <1>21
  <2>2. \A a \in 1 .. Len(given') :
          Len(iov'[a]) = Len(given'[a]) /\ Len(given'[a]) <= MaxLen
    BY <1>1, <1>3, <1>20, Zenon
  <2>3. Len(iov') = Len(given') /\ i' \in 1 .. Len(given') + 1
    BY <1>1, <1>3, <1>19, <1>21, Zenon
  <2> QED
    BY <1>3, <1>19, <2>1, <2>2, <2>3, Zenon DEF VectoredInv, VectoredTypes
<1>23. VectoredPlaces' /\ VectoredGather' /\ VectoredBlank'
  BY <1>3 DEF VectoredInv, VectoredPlaces, VectoredGather, VectoredBlank
<1>24. VectoredFile' /\ VectoredSum'
  <2>1. /\ op # "none" /\ op # "writev" /\ pc' \notin {"sum", "read"}
        /\ pc = "scatter" /\ pc \in {"gather", "read", "scatter"}
    BY <1>3, <1>7
  <2> QED
    BY <1>3, <2>1, Zenon DEF VectoredInv, VectoredFile, VectoredSum
<1>25. Scattered(iov', file, moved')
  <2> SUFFICES ASSUME NEW a \in 1 .. n, NEW k \in 1 .. Len(given[a])
               PROVE  IF Up(given, a - 1) + k <= u + h
                      THEN /\ iov'[a][k] \in {file[Up(given, a - 1) + k], VNull}
                           /\ (\A j \in DOMAIN file : file[j] # VNull) =>
                                iov'[a][k] = file[Up(given, a - 1) + k]
                      ELSE iov'[a][k] = Vectored!Garbage
    BY <1>19, <1>20, <1>21, Zenon DEF Scattered
  <2>1. PICK p : p = Up(given, a - 1) + k
    OBVIOUS
  <2>2. PICK v, w : v = Up(given, a - 1) /\ w = Len(given[a])
    OBVIOUS
  <2>3. a - 1 \in 0 .. n /\ a \in 0 .. n
    OBVIOUS
  <2>4. /\ v \in Nat /\ w \in Nat /\ Up(given, a) = v + w /\ k \in 1 .. w
    BY <1>1, <2>2, <2>3, Zenon
  <2>5. p = v + k
    BY <2>1, <2>2, Zenon
  <2>6. IF p <= u
        THEN /\ iov[a][k] \in {file[p], VNull}
             /\ (\A j \in DOMAIN file : file[j] # VNull) => iov[a][k] = file[p]
        ELSE iov[a][k] = Vectored!Garbage
    BY <1>1, <1>7, <1>8, <2>1, Zenon DEF Scattered
  <2>7. CASE a = i
    <3>1. iov'[a] = g /\ iov[a] = b /\ v = u /\ w = l
      BY <1>5, <1>18, <2>2, <2>7, Zenon
    <3>2. CASE k <= h
      <4>1. k \in 1 .. h /\ p <= u + h
        BY <1>6, <1>10, <2>4, <2>5, <3>1, <3>2
      <4>2. q[k] = file[p]
        BY <1>12, <2>5, <3>1, <4>1, Zenon
      <4>3. ASSUME \A j \in DOMAIN file : file[j] # VNull
            PROVE  g[k] = q[k]
        <5>1. ASSUME NEW j \in DOMAIN q
              PROVE  q[j] # VNull
          <6>1. j \in 1 .. h
            BY <1>12, <5>1, LenProperties
          <6>2. PICK m : m = Len(file)
            OBVIOUS
          <6>3. m \in Nat /\ DOMAIN file = 1 .. m
            BY <1>7, <6>2, LenProperties
          <6>4. result <= m
            BY <1>7, <6>2, Zenon
          <6>5. u + j \in 1 .. m
            BY <1>6, <1>8, <1>10, <6>1, <6>3, <6>4
          <6> QED
            BY <1>12, <4>3, <6>1, <6>3, <6>5, Zenon
        <5>2. Vectored!IsText(q)
          BY <5>1, Zenon DEF Vectored!IsText, VNull
        <5> QED
          BY <1>14, <4>1, <5>2, Zenon
      <4> QED
        BY <1>14, <2>1, <3>1, <4>1, <4>2, <4>3, Zenon
    <3>3. CASE ~(k <= h)
      <4>1. k \in h + 1 .. l /\ ~(p <= u + h) /\ ~(p <= u)
        BY <1>6, <1>10, <2>4, <2>5, <3>1, <3>3
      <4> QED
        BY <1>14, <2>1, <2>6, <3>1, <4>1, Zenon
    <3> QED
      BY <3>2, <3>3
  <2>8. CASE a # i
    <3>1. iov'[a] = iov[a]
      BY <1>18, <2>8, Zenon
    <3>2. CASE a < i
      <4>1. a <= i - 1
        BY <1>4, <3>2
      <4>2. v + w <= u
        BY <1>1, <1>4, <1>5, <2>3, <2>4, <4>1, UpMonotonic, Zenon
      <4>3. p <= u /\ p <= u + h
        BY <1>6, <1>10, <2>4, <2>5, <4>2
      <4> QED
        BY <2>1, <2>6, <3>1, <4>3, Zenon
    <3>3. CASE ~(a < i)
      <4>1. i <= a - 1
        BY <1>4, <2>8, <3>3
      <4>2. u + l <= v
        BY <1>1, <1>4, <1>6, <2>2, <2>3, <4>1, UpMonotonic, Zenon
      <4>3. ~(p <= u) /\ ~(p <= u + h)
        BY <1>6, <1>10, <2>4, <2>5, <4>2
      <4> QED
        BY <2>1, <2>6, <3>1, <4>3, Zenon
    <3> QED
      BY <3>2, <3>3
  <2> QED
    BY <2>7, <2>8
<1>26. VectoredScatter'
  <2>1. result \in u + h .. total
    BY <1>6, <1>7, <1>8, <1>10
  <2>2. u + h = IF result < u + l THEN result ELSE u + l
    BY <1>6, <1>8, <1>9
  <2>3. moved' = IF result' < Up(given', i' - 1) THEN result' ELSE Up(given', i' - 1)
    BY <1>3, <1>6, <1>21, <2>2, Zenon
  <2>4. /\ result' \in moved' .. total' /\ result' <= Len(file')
        /\ \A k \in 1 .. result' : tmp'[k] = file'[k]
    BY <1>3, <1>7, <1>21, <2>1, Zenon
  <2>5. Scattered(iov, file, moved)'
    BY <1>3, <1>25, Zenon DEF Scattered
  <2>6. pc' # "read"
    BY <1>3
  <2> QED
    BY <2>3, <2>4, <2>5, <2>6, Zenon DEF VectoredScatter
<1>27. Vectored!WritevGathers' /\ Vectored!ReadvScatters' /\ Vectored!RefusedExactly'
  BY <1>3, VectoredGoesOn
<1> QED
  BY <1>22, <1>23, <1>24, <1>26, <1>27, Zenon DEF VectoredInv

(* Every buffer has had its turn, or every byte that was read has a place. *)
LEMMA VectoredScatterEnds ==
  VectoredInv /\ Vectored!ScatterEnds => VectoredInv'
<1> SUFFICES ASSUME VectoredInv, Vectored!ScatterEnds
             PROVE  VectoredInv'
  OBVIOUS
<1>1. PICK n \in Nat :
           /\ n = Len(given) /\ n = Len(iov) /\ i \in 1 .. n + 1
           /\ given \in Buffers /\ iov \in Buffers
           /\ \A k \in 0 .. n : Up(given, k) \in Nat
           /\ \A k \in 1 .. n : Len(given[k]) \in Nat /\ Len(given[k]) = Len(iov[k])
  BY VectoredGiven, Zenon
<1>2. /\ pc = "scatter" /\ (i > Len(iov) \/ moved = result)
      /\ pc' = "idle" /\ i' = i /\ tmp' = tmp
      /\ file' = file /\ offset' = offset /\ op' = op /\ iov' = iov
      /\ given' = given /\ written' = written /\ total' = total /\ moved' = moved
      /\ result' = result
  BY DEF Vectored!ScatterEnds
<1>3. op = "readv"
  BY <1>2 DEF VectoredInv, VectoredTypes, VectoredPlaces
<1>4. /\ total = Up(given, n) /\ total \in Nat /\ total <= SSIZE_MAX
      /\ result \in moved .. total /\ moved \in Nat
      /\ moved = (IF result < Up(given, i - 1) THEN result ELSE Up(given, i - 1))
      /\ Scattered(iov, file, moved)
      /\ file \in Seq(VCells) /\ written \in Seq(VCells)
      /\ result <= Len(file) /\ Len(file) <= Len(written)
      /\ Taken(file, written, Len(file))
  BY <1>1, <1>2, Zenon
     DEF VectoredInv, VectoredTypes, VectoredSum, VectoredScatter, VectoredFile
<1>5. result \in Nat /\ moved = result
  <2>1. result \in Nat
    BY <1>4
  <2>2. CASE i > Len(iov)
    <3>1. i > n
      BY <1>1, <2>2, Zenon
    <3>2. i - 1 = n
      BY <1>1, <3>1
    <3>3. moved = IF result < total THEN result ELSE total
      BY <1>4, <3>2, Zenon
    <3> QED
      BY <1>4, <2>1, <3>3
  <2> QED
    BY <1>2, <2>1, <2>2
<1>6. PICK f, w : f = Len(file) /\ w = Len(written)
  OBVIOUS
<1>7. f \in Nat /\ w \in Nat /\ DOMAIN file = 1 .. f /\ DOMAIN written = 1 .. w
  BY <1>4, <1>6, LenProperties, Zenon
<1>8. result <= f /\ f <= w
  BY <1>4, <1>6, Zenon
<1>9. \A k \in 1 .. result : k \in 1 .. f /\ k \in 1 .. w
  BY <1>5, <1>7, <1>8
<1>10. VectoredTypes'
  BY <1>2, Zenon DEF VectoredInv, VectoredTypes
<1>11. /\ VectoredPlaces' /\ VectoredBlank' /\ VectoredSum' /\ VectoredGather'
       /\ VectoredScatter'
  BY <1>2, <1>3 DEF VectoredPlaces, VectoredBlank, VectoredSum, VectoredGather,
                    VectoredScatter
<1>12. VectoredFile'
  <2>1. op # "none" /\ op # "writev" /\ pc' \notin {"sum", "gather", "read"}
    BY <1>2, <1>3
  <2> QED
    BY <1>2, <1>4, <2>1, Zenon DEF VectoredFile
<1>13. Vectored!WritevGathers'
  BY <1>2, <1>3 DEF Vectored!WritevGathers
<1>14. PICK back : back = Vectored!FlattenSeq(iov)
  OBVIOUS
<1>15. back \in Seq(VCells) /\ Len(back) = Up(iov, n) /\ Up(iov, n) = total
  <2>1. n \in 0 .. n
    OBVIOUS
  <2>2. Up(iov, n) = Up(given, n)
    BY <1>1, <2>1, UpSame
  <2>3. Vectored!FlattenSeq(iov) \in Seq(VCells) /\ Len(Vectored!FlattenSeq(iov)) = Up(iov, n)
    BY <1>1, UpFacts
  <2> QED
    BY <1>4, <1>14, <2>2, <2>3, Zenon
<1>16. DOMAIN back = 1 .. total
  BY <1>15, LenProperties, Zenon
<1>17. ASSUME NEW p \in 1 .. total
       PROVE  IF p <= result
              THEN /\ back[p] \in {file[p], VNull}
                   /\ (\A j \in DOMAIN file : file[j] # VNull) => back[p] = file[p]
              ELSE back[p] = Vectored!Garbage
  <2>1. p \in 1 .. Up(iov, n)
    BY <1>15
  <2>2. PICK b \in 1 .. n : \E k \in 1 .. Len(iov[b]) : p = Up(iov, b - 1) + k
    BY <1>1, <2>1, FlatCover
  <2>3. PICK k \in 1 .. Len(iov[b]) : p = Up(iov, b - 1) + k
    BY <2>2
  <2>4. back[p] = iov[b][k]
    BY <1>1, <1>14, <2>3, FlatAt, Zenon
  <2>5. b - 1 \in 0 .. n
    OBVIOUS
  <2>6. Up(iov, b - 1) = Up(given, b - 1)
    BY <1>1, <2>5, UpSame
  <2> QED
    BY <1>1, <1>4, <1>5, <2>3, <2>4, <2>6, Zenon DEF Scattered
<1>18. ASSUME Vectored!Null \notin Vectored!ToSet(written)
       PROVE  SubSeq(back, 1, result) = SubSeq(written, 1, result)
  <2>1. \A j \in 1 .. w : written[j] # VNull
    BY <1>7, <1>18, Zenon DEF Vectored!ToSet, VNull
  <2>2. \A j \in 1 .. f : file[j] = written[j]
    BY <1>4, <1>6, <1>7, <2>1, Zenon DEF Taken
  <2>3. \A j \in 1 .. f : j \in 1 .. w
    BY <1>7, <1>8
  <2>4. \A j \in DOMAIN file : file[j] # VNull
    BY <1>7, <2>1, <2>2, <2>3, Zenon
  <2>5. ASSUME NEW k \in 1 .. result
        PROVE  back[k] = written[k]
    <3>1. k \in 1 .. total /\ k <= result
      BY <1>4, <1>5
    <3> QED
      BY <1>9, <1>17, <2>2, <2>4, <3>1, Zenon
  <2>6. 0 \in Nat /\ 0 + 1 = 1 /\ 0 + result = result /\ \A k \in 1 .. result : 0 + k = k
    BY <1>5
  <2>7. PICK x, y : x = SubSeq(back, 0 + 1, 0 + result) /\ y = SubSeq(written, 0 + 1, 0 + result)
    OBVIOUS
  <2>8. 0 + result <= Len(back) /\ 0 + result <= Len(written)
    <3>1. result <= total /\ result <= w
      BY <1>4, <1>5, <1>7, <1>8
    <3> QED
      BY <1>6, <1>15, <2>6, <3>1, Zenon
  <2>9. x \in Seq(VCells) /\ Len(x) = result /\ \A k \in 1 .. result : x[k] = back[0 + k]
    <3>1. /\ back \in Seq(VCells) /\ 0 \in Nat /\ result \in Nat /\ 0 + result <= Len(back)
          /\ x = SubSeq(back, 0 + 1, 0 + result)
      BY <1>5, <1>15, <2>6, <2>7, <2>8, Zenon
    <3> QED
      BY <3>1, PartOf
  <2>10. y \in Seq(VCells) /\ Len(y) = result /\ \A k \in 1 .. result : y[k] = written[0 + k]
    <3>1. /\ written \in Seq(VCells) /\ 0 \in Nat /\ result \in Nat
          /\ 0 + result <= Len(written) /\ y = SubSeq(written, 0 + 1, 0 + result)
      BY <1>4, <1>5, <2>6, <2>7, <2>8, Zenon
    <3> QED
      BY <3>1, PartOf
  <2>11. \A k \in 1 .. result : x[k] = y[k]
    BY <2>5, <2>6, <2>9, <2>10, Zenon
  <2>12. x = y
    <3>1. PICK S : S = VCells
      OBVIOUS
    <3>2. x \in Seq(S) /\ y \in Seq(S) /\ Len(x) = Len(y) /\ \A k \in 1 .. Len(x) : x[k] = y[k]
      BY <2>9, <2>10, <2>11, <3>1, Zenon
    <3> QED
      BY <3>2, SeqEqual
  <2> QED
    BY <2>6, <2>7, <2>12, Zenon
<1>19. Vectored!ReadvScatters'
  <2>1. DOMAIN iov = 1 .. n
    BY <1>1, LenProperties, Zenon DEF Buffers
  <2>2. \A b \in DOMAIN iov : Len(iov[b]) = Len(given[b])
    BY <1>1, <2>1, Zenon
  <2>3. \A k \in DOMAIN back : IF k <= result THEN back[k] \in {file[k], Vectored!Null}
                                             ELSE back[k] = Vectored!Garbage
    BY <1>16, <1>17, Zenon DEF VNull
  <2> QED
    BY <1>2, <1>14, <1>18, <2>2, <2>3, Zenon DEF Vectored!ReadvScatters
<1>20. Vectored!RefusedExactly'
  <2>1. result' # Vectored!EINVAL
    BY <1>2, <1>5 DEF Vectored!EINVAL
  <2> QED
    BY <1>2, <2>1, VectoredReturns
<1> QED
  BY <1>10, <1>11, <1>12, <1>13, <1>19, <1>20, Zenon DEF VectoredInv

(* No step of either call breaks it, as long as a sum of two lengths cannot *)
(* wrap.                                                                   *)
LEMMA VectoredStep ==
  ASSUME MaxLen <= SSIZE_MAX
  PROVE  VectoredInv /\ [Vectored!Next]_Vectored!vars => VectoredInv'
<1> SUFFICES ASSUME VectoredInv, [Vectored!Next]_Vectored!vars
             PROVE  VectoredInv'
  OBVIOUS
<1>1. CASE UNCHANGED Vectored!vars
  <2>1. /\ file' = file /\ offset' = offset /\ op' = op /\ pc' = pc /\ iov' = iov
        /\ given' = given /\ written' = written /\ i' = i /\ total' = total
        /\ tmp' = tmp /\ moved' = moved /\ result' = result
    BY <1>1 DEF Vectored!vars
  <2> QED
    BY <2>1, Zenon
       DEF VectoredInv, VectoredTypes, VectoredPlaces, VectoredFile, VectoredBlank,
           VectoredSum, VectoredGather, VectoredScatter, Scattered, AllText, Taken,
           Vectored!WritevGathers, Vectored!ReadvScatters, Vectored!RefusedExactly,
           Vectored!TooMuch
<1>2. CASE Vectored!CallWritev
  BY <1>2, VectoredCallsWritev
<1>3. CASE Vectored!CallReadv
  BY <1>3, VectoredCallsReadv
<1>4. CASE Vectored!Sum
  BY <1>4, VectoredSums
<1>5. CASE Vectored!Malloc
  BY <1>5, VectoredMallocs
<1>6. CASE Vectored!MallocFails
  BY <1>6, VectoredDies
<1>7. CASE Vectored!Gather
  BY <1>7, VectoredGathers
<1>8. CASE Vectored!Write
  BY <1>8, VectoredWrites
<1>9. CASE Vectored!Read
  BY <1>9, VectoredReads
<1>10. CASE Vectored!CallFails
  BY <1>10, VectoredCallFails
<1>11. CASE Vectored!Scatter
  BY <1>11, VectoredScatters
<1>12. CASE Vectored!ScatterEnds
  BY <1>12, VectoredScatterEnds
<1> QED
  BY <1>1, <1>2, <1>3, <1>4, <1>5, <1>6, <1>7, <1>8, <1>9, <1>10, <1>11, <1>12, Zenon
     DEF Vectored!Next

(* The types the module states follow. *)
LEMMA VectoredTypesOK ==
  VectoredInv => Vectored!TypeOK
<1> SUFFICES ASSUME VectoredInv
             PROVE  Vectored!TypeOK
  OBVIOUS
<1>1. PICK n \in Nat : n = Len(given) /\ n <= MaxIovs /\ i \in 1 .. n + 1
  <2>1. Len(given) \in Nat
    BY LenProperties DEF VectoredInv, VectoredTypes, Buffers
  <2> QED
    BY <2>1, Zenon DEF VectoredInv, VectoredTypes
<1>2. i \in 1 .. MaxIovs + 1
  BY <1>1, SizeFacts
<1>3. /\ offset \in Nat /\ total \in Nat /\ moved \in Nat /\ moved <= total
      /\ offset <= SSIZE_MAX /\ total <= SSIZE_MAX
      /\ result \in 0 .. SSIZE_MAX \cup {Vectored!EINVAL, Vectored!EIO}
  BY Zenon DEF VectoredInv, VectoredTypes
<1>4. /\ offset \in Vectored!Sizes /\ total \in Vectored!Sizes /\ moved \in Vectored!Sizes
      /\ 0 .. SSIZE_MAX \subseteq Vectored!Sizes
  BY <1>3, SizeFacts DEF Vectored!Sizes
<1>5. pc \in {"gather", "read", "scatter"} => Len(tmp) = total /\ moved <= total
  BY <1>3, Zenon DEF VectoredInv, VectoredSum
<1>6. pc = "scatter" => moved <= result
  BY <1>3 DEF VectoredInv, VectoredScatter
<1> QED
  BY <1>2, <1>3, <1>4, <1>5, <1>6, Zenon
     DEF VectoredInv, VectoredTypes, Buffers, VCells, Vectored!TypeOK

-----------------------------------------------------------------------------
(* The process starts as the module of its part says. *)
LEMMA StartsInOtherPart ==
  Init => /\ part = "dup_test" => DupTest!TestInit
          /\ part = "env_test" => EnvTest!TestInit
          /\ part = "dispatch" => Dispatch!Init
          /\ part = "offsets" => Offsets!Init
BY DEF Init

(* A step is one of the module of the part, or none, and the part stays. *)
LEMMA StaysInOtherPart ==
  [Next]_vars =>
    /\ part' = part
    /\ part = "dup_test" => [DupTest!TestNext]_DupTest!testVars
    /\ part = "env_test" => [EnvTest!TestNext]_EnvTest!testVars
    /\ part = "dispatch" => [Dispatch!Next]_Dispatch!vars
    /\ part = "offsets" => [Offsets!Next]_Offsets!vars
<1>1. UNCHANGED vars =>
        /\ part' = part /\ UNCHANGED DupTest!testVars
        /\ UNCHANGED EnvTest!testVars /\ UNCHANGED Dispatch!vars
        /\ UNCHANGED Offsets!vars
  BY DEF vars, dupVars, envVars, dispatchVars, offsetsVars, DupTest!testVars,
         DupTest!vars, EnvTest!testVars, EnvTest!vars, Dispatch!vars,
         Offsets!vars
<1>2. Next =>
        /\ part' = part
        /\ part = "dup_test" => DupTest!TestNext
        /\ part = "env_test" => EnvTest!TestNext
        /\ part = "dispatch" => Dispatch!Next
        /\ part = "offsets" => Offsets!Next
  BY DEF Next, Others
<1> QED
  BY <1>1, <1>2

(* The invariant of the part that runs. *)
OtherPartsInv ==
  /\ part = "dup_test" => DupInv
  /\ part = "env_test" => EnvInv
  /\ part = "dispatch" => DispatchInv
  /\ part = "offsets" => OffsetsInv

(***************************************************************************)
(* The invariants of these parts, too, are inductive for the whole program. *)
(***************************************************************************)
THEOREM OtherPartsInvariance == Spec => []OtherPartsInv
<1>1. Init => OtherPartsInv
  BY StartsInOtherPart, DupInit, EnvInit, DispatchInit, OffsetsInit
     DEF OtherPartsInv
<1>2. OtherPartsInv /\ [Next]_vars => OtherPartsInv'
  BY StaysInOtherPart, DupStep, EnvStep, DispatchStep, OffsetsStep
     DEF OtherPartsInv
<1> QED
  BY <1>1, <1>2, PTL DEF Spec

(***************************************************************************)
(* The tests of __dup (chpt5/q4.c) and of __setenv (chpt6/q3.c), whatever  *)
(* the process inherits: the asserts all hold only in a process that has   *)
(* the descriptors, or the entries, that the test presumes.                *)
(***************************************************************************)
THEOREM TestsPassOnlyAsStarted == Spec => []TestsPassAsStarted
<1>1. OtherPartsInv => TestsPassAsStarted
  BY DupShown, EnvShown DEF OtherPartsInv, TestsPassAsStarted
<1> QED
  BY <1>1, OtherPartsInvariance, PTL

(***************************************************************************)
(* run.c and the chptN_run functions, for every command line: an exercise  *)
(* runs with the question and the arguments that were typed for it, and    *)
(* one of chapters 4 and 5 is not refused to a command line that fits its  *)
(* usage text, once main has found the chapter.                            *)
(***************************************************************************)
THEOREM ExercisesRunAsTyped == Spec => []DispatchedAsTyped
<1>1. OtherPartsInv => DispatchedAsTyped
  BY DEF OtherPartsInv, DispatchInv, DispatchedAsTyped
<1> QED
  BY <1>1, OtherPartsInvariance, PTL

(***************************************************************************)
(* Questions 1, 2, 5 and 6 of chapter 5, for every file they find and      *)
(* every offset: if no call fails or is short they leave the files that    *)
(* their code writes, twelve bytes for question 6 (q6.md counts eleven);   *)
(* question 2 keeps what was there, and the asserts of question 5 hold,    *)
(* whatever fails or is short in between.                                  *)
(***************************************************************************)
THEOREM FilesLeftAsWritten == Spec => []FilesAsWritten
<1>1. OtherPartsInv => FilesAsWritten
  BY DEF OtherPartsInv, OffsetsInv, FilesAsWritten
<1> QED
  BY <1>1, OtherPartsInvariance, PTL

(* The same for the part of __writev and __readv. *)
VectoredPartInv == part = "vectored" => VectoredInv

(* It needs the bound on the lengths, which the others do not. *)
LEMMA VectoredPartInvariance ==
  ASSUME MaxLen <= SSIZE_MAX
  PROVE  Spec => []VectoredPartInv
<1>1. Init => VectoredPartInv
  <2>1. Init => (part = "vectored" => Vectored!Init)
    BY DEF Init
  <2> QED
    BY <2>1, VectoredInit DEF VectoredPartInv
<1>2. VectoredPartInv /\ [Next]_vars => VectoredPartInv'
  <2>1. UNCHANGED vars => part' = part /\ UNCHANGED Vectored!vars
    BY DEF vars, vectoredVars, Vectored!vars
  <2>2. Next => part' = part /\ (part = "vectored" => Vectored!Next)
    BY DEF Next, Others
  <2>3. [Next]_vars =>
          part' = part /\ (part = "vectored" => [Vectored!Next]_Vectored!vars)
    BY <2>1, <2>2
  <2> QED
    BY <2>3, VectoredStep DEF VectoredPartInv
<1> QED
  BY <1>1, <1>2, PTL DEF Spec

(***************************************************************************)
(* __writev and __readv (chpt5/q7.c), for all buffers, every number of     *)
(* bytes the kernel takes or gives and every failure: the file is a prefix *)
(* of the buffers put end to end, __readv fills its buffers in order and   *)
(* leaves what is behind the bytes it read alone, and EINVAL is answered   *)
(* exactly to what is too much.  No length may exceed SSIZE_MAX: the check *)
(* of the sum lets such a length through (q7.c 84), and the last is false. *)
(***************************************************************************)
THEOREM BytesKeepTheirPlaces ==
  MaxLen <= SSIZE_MAX => (Spec => []GatheredAndScattered)
<1> SUFFICES ASSUME MaxLen <= SSIZE_MAX
             PROVE  Spec => []GatheredAndScattered
  OBVIOUS
<1>1. VectoredPartInv => GatheredAndScattered
  BY DEF VectoredPartInv, VectoredInv, GatheredAndScattered
<1>2. Spec => []VectoredPartInv
  BY VectoredPartInvariance
<1> QED
  BY <1>1, <1>2, PTL

(* What part may be, for good. *)
PartNames ==
  {"tee", "sparse_copy", "null_holes", "deliver_write", "offsets", "vectored",
   "free_range", "passwd", "dispatch", "errors", "dup_test", "env_test"}

(***************************************************************************)
(* Every part keeps the types its module states: sizes, offsets, indices   *)
(* and error numbers stay in range, whatever the inputs are, as long as no *)
(* length given to __writev or __readv exceeds SSIZE_MAX.                  *)
(***************************************************************************)
THEOREM TypesCorrect == MaxLen <= SSIZE_MAX => (Spec => []TypeOK)
<1> SUFFICES ASSUME MaxLen <= SSIZE_MAX
             PROVE  Spec => []TypeOK
  OBVIOUS
<1>1. Spec => []VectoredPartInv
  BY VectoredPartInvariance
<1>2. Spec => [](part \in PartNames)
  <2>1. Init => part \in PartNames
    BY DEF Init, PartNames
  <2>2. part \in PartNames /\ [Next]_vars => (part \in PartNames)'
    BY StaysInPart
  <2> QED
    BY <2>1, <2>2, PTL DEF Spec
<1>3. PartsInv /\ PartsTypes /\ OtherPartsInv /\ VectoredPartInv
        /\ part \in PartNames => TypeOK
  <2> SUFFICES ASSUME PartsInv, PartsTypes, OtherPartsInv, VectoredPartInv,
                      part \in PartNames
               PROVE  TypeOK
    OBVIOUS
  <2>1. /\ part = "tee" => Tee!TypeOK
        /\ part = "sparse_copy" => Sparse!TypeOK
        /\ part = "null_holes" => Nulls!TypeOK
        /\ part = "deliver_write" => Deliver!TypeOK
        /\ part = "free_range" => FreeRange!TypeOK
        /\ part = "passwd" => Passwd!TypeOK
    BY Zenon DEF PartsTypes, NullsTypes, UsersTypes, RangeTypes
  <2>2. part = "errors" => Errors!TypeOK
    BY ErrorsTypesFollow, Zenon DEF PartsInv, PartsTypes
  <2>3. /\ part = "dispatch" => Dispatch!TypeOK
        /\ part = "dup_test" => DupTest!TypeOK
        /\ part = "env_test" => EnvTest!TypeOK
    BY Zenon DEF OtherPartsInv, DispatchInv, DupInv, EnvInv
  <2>4. part = "offsets" => Offsets!TypeOK
    BY OffsetsTypesOK, Zenon DEF OtherPartsInv
  <2>5. part = "vectored" => Vectored!TypeOK
    BY VectoredTypesOK, Zenon DEF VectoredPartInv
  <2> QED
    BY <2>1, <2>2, <2>3, <2>4, <2>5 DEF PartNames, TypeOK
<1> QED
  BY <1>1, <1>2, <1>3, PartsInvariance, PartsTyped, OtherPartsInvariance, PTL

=============================================================================
