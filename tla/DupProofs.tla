----------------------------- MODULE DupProofs ------------------------------
(***************************************************************************)
(* What __dup and __dup2 guarantee for any number of descriptors and any   *)
(* files, whatever other threads do between their steps.                   *)
(***************************************************************************)
EXTENDS Dup, TLAPS

(* Where a call is determines what it has found out and answered. *)
Progress ==
  /\ pc = "idle" <=> call = Idle
  /\ pc \in {"old", "new", "close", "dupfd"} => answer = NoAnswer
  /\ pc = "return" => answer # NoAnswer
  /\ pc \in {"new", "close"} => call.op = "dup2"
  /\ pc \in {"new", "close", "dupfd"} /\ call.op = "dup2" =>
       call.old_fd # call.new_fd
  /\ pc = "close" => call.new_fd \in Fds

(* A file is lost only while __dup2 has closed new_fd and not used it yet. *)
LostOnly ==
  lost # "nothing" =>
    pc \in {"dupfd", "died"} /\ call.op = "dup2" /\ call.new_fd \in Fds

(* What __dup2 has checked stays true as long as no thread interferes. *)
Checked ==
  /\ ~raced /\ pc \in {"new", "close", "dupfd"} => IsOpen(call.old_fd)
  /\ ~taken /\ pc = "dupfd" /\ call.op = "dup2" /\ call.new_fd \in Fds =>
       table[call.new_fd] = Closed
  /\ taken => raced

IInv == TypeOK /\ Progress /\ LostOnly /\ Checked /\ RacedOnly

(* What the arguments of a call are. *)
LEMMA CallFacts ==
  /\ \A c \in Calls : /\ c.op \in {"dup", "dup2"}
                      /\ c # Idle
                      /\ c.op = "dup" => c = [op |-> "dup", old_fd |-> c.old_fd]
                      /\ c.op = "dup2" =>
                           c = [op |-> "dup2", old_fd |-> c.old_fd,
                                new_fd |-> c.new_fd]
                      /\ c.old_fd \in Numbers
                      /\ c.op = "dup2" => c.new_fd \in Numbers
  /\ Idle.op = "idle"
BY DEF Calls, Idle

(* Descriptors are numbers, and no error is one. *)
LEMMA FdFacts ==
  /\ \A fd \in Numbers : fd \in Int
  /\ \A fd \in Fds : fd \in Nat /\ fd \in Numbers
  /\ 0 \in Fds
  /\ NoAnswer \notin Fds /\ EBADF \notin Fds /\ EMFILE \notin Fds
  /\ NoAnswer # EBADF /\ NoAnswer # EMFILE
BY MaxFdAssumption DEF Numbers, Fds, NoAnswer, EBADF, EMFILE

(* F_DUPFD chooses the number it is given if that is free. *)
LEMMA LowestFacts ==
  ASSUME NEW from \in Int
  PROVE  /\ \A fd \in LowestFree(from) : fd \in Fds /\ table[fd] = Closed
         /\ from \in Fds /\ table[from] = Closed => LowestFree(from) = {from}
BY FdFacts DEF LowestFree

(* A program starts between two calls. *)
LEMMA InitInv == Init => IInv
BY DEF Init, IInv, TypeOK, Progress, LostOnly, Checked, RacedOnly, Calls, Idle

-----------------------------------------------------------------------------
(* A call begins: nothing is found out yet. *)
LEMMA CallStep ==
  ASSUME IInv, NEW c \in Calls, Call(c)
  PROVE  IInv'
<1>1. /\ pc = "idle" /\ pc' = "old" /\ call' = c /\ answer' = NoAnswer
      /\ got' = NoAnswer /\ raced' = FALSE /\ taken' = FALSE
      /\ table' = table /\ lost' = lost
  BY DEF Call
<1>2. TypeOK'
  BY <1>1 DEF IInv, TypeOK
<1>3. Progress' /\ LostOnly' /\ Checked' /\ RacedOnly'
  BY <1>1, CallFacts
     DEF IInv, Progress, LostOnly, Checked, RacedOnly, NoAnswer
<1> QED
  BY <1>2, <1>3 DEF IInv

(* A call that is under way is one of Calls. *)
LEMMA UnderWay ==
  IInv /\ pc # "idle" => /\ call \in Calls /\ call # Idle
                         /\ call.op \in {"dup", "dup2"}
                         /\ call.old_fd \in Numbers
                         /\ call.op = "dup2" => call.new_fd \in Numbers
BY CallFacts DEF IInv, TypeOK, Progress

(* fcntl(old_fd, F_GETFL): the call is answered, or old_fd was open. *)
LEMMA CheckOldStep ==
  ASSUME IInv, CheckOld
  PROVE  IInv'
<1>1. /\ pc = "old"
      /\ table' = table /\ call' = call /\ got' = got /\ lost' = lost
      /\ raced' = raced /\ taken' = taken
  BY DEF CheckOld
<1>2. /\ call \in Calls /\ call # Idle /\ call.op \in {"dup", "dup2"}
      /\ answer = NoAnswer /\ lost = "nothing"
  BY <1>1, UnderWay DEF IInv, Progress, LostOnly
<1>3. CASE ~IsOpen(call.old_fd)
  <2>1. answer' = EBADF /\ pc' = "return"
    BY <1>1, <1>3 DEF CheckOld, Answer
  <2>2. TypeOK'
    BY <1>1, <2>1 DEF IInv, TypeOK
  <2>3. Progress' /\ LostOnly' /\ Checked' /\ RacedOnly'
    BY <1>1, <1>2, <2>1, FdFacts
       DEF IInv, Progress, LostOnly, Checked, RacedOnly, NoAnswer
  <2> QED
    BY <2>2, <2>3 DEF IInv
<1>4. CASE IsOpen(call.old_fd) /\ call.op = "dup2" /\ call.old_fd = call.new_fd
  <2>1. answer' = call.old_fd /\ pc' = "return" /\ call.old_fd \in Fds
    BY <1>1, <1>4 DEF CheckOld, Answer, IsOpen
  <2>2. TypeOK'
    BY <1>1, <2>1 DEF IInv, TypeOK
  <2>3. Progress' /\ LostOnly' /\ Checked' /\ RacedOnly'
    BY <1>1, <1>2, <1>4, <2>1, FdFacts
       DEF IInv, Progress, LostOnly, Checked, RacedOnly, NoAnswer
  <2> QED
    BY <2>2, <2>3 DEF IInv
<1>5. CASE /\ IsOpen(call.old_fd)
           /\ ~(call.op = "dup2" /\ call.old_fd = call.new_fd)
  <2>1. /\ answer' = answer
        /\ pc' = IF call.op = "dup" THEN "dupfd" ELSE "new"
    BY <1>1, <1>5 DEF CheckOld
  <2>2. TypeOK'
    BY <1>1, <2>1 DEF IInv, TypeOK
  <2>3. Progress' /\ LostOnly' /\ Checked' /\ RacedOnly'
    BY <1>1, <1>2, <1>5, <2>1
       DEF IInv, Progress, LostOnly, Checked, RacedOnly, NoAnswer, IsOpen, Fds
  <2> QED
    BY <2>2, <2>3 DEF IInv
<1> QED
  BY <1>3, <1>4, <1>5

(* fcntl(new_fd, F_GETFL): whether new_fd has to be closed first. *)
LEMMA CheckNewStep ==
  ASSUME IInv, CheckNew
  PROVE  IInv'
<1>1. /\ pc = "new" /\ pc' = IF IsOpen(call.new_fd) THEN "close" ELSE "dupfd"
      /\ table' = table /\ call' = call /\ got' = got /\ lost' = lost
      /\ raced' = raced /\ taken' = taken /\ answer' = answer
  BY DEF CheckNew
<1>2. TypeOK'
  BY <1>1 DEF IInv, TypeOK
<1>3. Progress' /\ LostOnly' /\ Checked' /\ RacedOnly'
  BY <1>1, UnderWay
     DEF IInv, Progress, LostOnly, Checked, RacedOnly, IsOpen, NoAnswer, Fds
<1> QED
  BY <1>2, <1>3 DEF IInv

(* close(new_fd): from here to F_DUPFD, what it referred to is lost. *)
LEMMA CloseStep ==
  ASSUME IInv, Close
  PROVE  IInv'
<1>1. PICK fd : fd = call.new_fd
  OBVIOUS
<1>2. /\ pc = "close" /\ pc' = "dupfd"
      /\ table' = [table EXCEPT ![fd] = Closed]
      /\ lost' = IF IsOpen(fd) THEN table[fd] ELSE lost
      /\ call' = call /\ answer' = answer /\ got' = got
      /\ raced' = raced /\ taken' = taken
  BY <1>1 DEF Close
<1>3. /\ fd \in Fds /\ fd # call.old_fd /\ call.op = "dup2" /\ call # Idle
      /\ table \in [Fds -> Files \cup {Closed}]
  BY <1>1, <1>2, UnderWay DEF IInv, Progress, TypeOK
<1>4. \A k \in Fds : table'[k] = IF k = fd THEN Closed ELSE table[k]
  BY <1>2, <1>3
<1>5. TypeOK'
  BY <1>2, <1>3 DEF IInv, TypeOK, IsOpen
<1>6. Progress' /\ LostOnly' /\ Checked' /\ RacedOnly'
  BY <1>1, <1>2, <1>3, <1>4
     DEF IInv, Progress, LostOnly, Checked, RacedOnly, IsOpen, Fds, NoAnswer,
         Closed
<1> QED
  BY <1>5, <1>6 DEF IInv

(* F_DUPFD succeeds; it gives new_fd unless another thread has taken it. *)
LEMMA DupFdStep ==
  ASSUME IInv, DupFd
  PROVE  IInv'
<1>1. PICK fd : fd = got'
  OBVIOUS
<1>2. /\ pc = "dupfd" /\ pc' = "return" /\ IsOpen(call.old_fd)
      /\ fd \in LowestFree(From) /\ From \in Fds
      /\ table' = [table EXCEPT ![fd] = table[call.old_fd]]
      /\ lost' = "nothing" /\ got' = fd
      /\ answer' = IF call.op = "dup" THEN fd ELSE call.new_fd
      /\ call' = call /\ raced' = raced /\ taken' = taken
  BY <1>1 DEF DupFd, Answer
<1>3. /\ call # Idle /\ call.op \in {"dup", "dup2"}
      /\ fd \in Fds /\ From \in Int
      /\ call.op = "dup2" => From = call.new_fd
  BY <1>2, UnderWay, FdFacts DEF LowestFree, From
<1>4. TypeOK'
  BY <1>2, <1>3 DEF IInv, TypeOK, IsOpen
<1>5. call.op = "dup2" /\ ~taken => fd = call.new_fd
  <2> SUFFICES ASSUME call.op = "dup2", ~taken
               PROVE  fd = call.new_fd
    OBVIOUS
  <2>1. table[call.new_fd] = Closed
    BY <1>2, <1>3 DEF IInv, Checked
  <2> QED
    BY <1>2, <1>3, <2>1, LowestFacts
<1>6. Progress' /\ LostOnly' /\ Checked' /\ RacedOnly'
  BY <1>2, <1>3, <1>5, FdFacts
     DEF IInv, Progress, LostOnly, Checked, RacedOnly, NoAnswer
<1> QED
  BY <1>4, <1>6 DEF IInv

(* F_DUPFD fails; __dup2 then asserts, which takes interference. *)
LEMMA DupFdFailsStep ==
  ASSUME IInv, DupFdFails
  PROVE  IInv'
<1>1. /\ pc = "dupfd"
      /\ table' = table /\ call' = call /\ got' = got /\ lost' = lost
      /\ raced' = raced /\ taken' = taken
  BY DEF DupFdFails
<1>2. /\ call # Idle /\ call.op \in {"dup", "dup2"} /\ answer = NoAnswer
  BY <1>1, UnderWay DEF IInv, Progress
<1>3. \/ /\ pc' = "return" /\ answer' \in {EBADF, EMFILE}
         /\ call.op = "dup" \/ From \notin Fds
      \/ /\ pc' = "died" /\ answer' = answer /\ call.op = "dup2"
         /\ ~IsOpen(call.old_fd) \/ (From \in Fds /\ LowestFree(From) = {})
  BY <1>2 DEF DupFdFails, Answer, BadNumber
<1>4. TypeOK'
  BY <1>1, <1>3 DEF IInv, TypeOK
<1>5. pc' = "died" => raced
  <2> SUFFICES ASSUME pc' = "died", ~raced
               PROVE  FALSE
    OBVIOUS
  <2>1. /\ IsOpen(call.old_fd) /\ call.op = "dup2" /\ ~taken
        /\ From = call.new_fd /\ From \in Fds /\ LowestFree(From) = {}
    BY <1>1, <1>3 DEF IInv, Checked, From
  <2>2. table[From] = Closed /\ From \in Int
    BY <1>1, <2>1, FdFacts DEF IInv, Checked
  <2> QED
    BY <2>1, <2>2, LowestFacts
<1>6. lost' # "nothing" => pc' = "died"
  BY <1>1, <1>3 DEF IInv, LostOnly, From
<1>7. Progress' /\ LostOnly' /\ Checked' /\ RacedOnly'
  BY <1>1, <1>2, <1>3, <1>5, <1>6, FdFacts
     DEF IInv, Progress, LostOnly, Checked, RacedOnly, NoAnswer
<1> QED
  BY <1>4, <1>7 DEF IInv

(* The call returns its answer. *)
LEMMA ReturnStep ==
  ASSUME IInv, Return
  PROVE  IInv'
<1>1. /\ pc = "return" /\ pc' = "idle" /\ call' = Idle
      /\ table' = table /\ answer' = answer /\ got' = got /\ lost' = lost
      /\ raced' = raced /\ taken' = taken
  BY DEF Return
<1>2. TypeOK'
  BY <1>1 DEF IInv, TypeOK
<1>3. Progress' /\ LostOnly' /\ Checked' /\ RacedOnly'
  BY <1>1 DEF IInv, Progress, LostOnly, Checked, RacedOnly
<1> QED
  BY <1>2, <1>3 DEF IInv

(* Another thread acts: the call may not rely on what it has checked. *)
LEMMA OthersStep ==
  ASSUME IInv, OtherOpens \/ OtherCloses
  PROVE  IInv'
<1>1. /\ pc # "died" /\ raced' = TRUE
      /\ call' = call /\ pc' = pc /\ answer' = answer /\ got' = got
      /\ lost' = lost
  BY DEF OtherOpens, OtherCloses
<1>2. PICK fd, f :
        /\ fd \in Fds /\ f \in Files \cup {Closed}
        /\ table' = [table EXCEPT ![fd] = f]
        /\ \/ taken' = taken /\ f = Closed
           \/ taken' = (taken \/ (pc = "dupfd" /\ fd = From))
  BY DEF OtherOpens, OtherCloses, LowestFree
<1>3. taken' \in BOOLEAN /\ (taken => taken')
  <2>1. taken \in BOOLEAN
    BY DEF IInv, TypeOK
  <2>2. taken' = taken \/ taken' = (taken \/ (pc = "dupfd" /\ fd = From))
    BY <1>2
  <2> QED
    BY <2>1, <2>2, Zenon
<1>4. TypeOK'
  BY <1>1, <1>2, <1>3 DEF IInv, TypeOK
<1>5. ASSUME ~taken', pc = "dupfd", call.op = "dup2", call.new_fd \in Fds
      PROVE  table'[call.new_fd] = Closed
  <2>1. table[call.new_fd] = Closed /\ From = call.new_fd
    BY <1>3, <1>5 DEF IInv, Checked, From
  <2> QED
    BY <1>2, <1>5, <2>1 DEF IInv, TypeOK
<1>6. Checked'
  BY <1>1, <1>5 DEF Checked, Fds, Closed
<1>7. Progress' /\ LostOnly' /\ RacedOnly'
  BY <1>1, <1>3 DEF IInv, Progress, LostOnly, RacedOnly, Fds
<1> QED
  BY <1>4, <1>6, <1>7 DEF IInv

(* Every step keeps the invariant. *)
LEMMA NextInv == IInv /\ [Next]_vars => IInv'
<1> SUFFICES ASSUME IInv, [Next]_vars
             PROVE  IInv'
  OBVIOUS
<1>1. CASE UNCHANGED vars
  BY <1>1 DEF vars, IInv, TypeOK, Progress, LostOnly, Checked, RacedOnly, IsOpen
<1> QED
  BY <1>1, CallStep, CheckOldStep, CheckNewStep, CloseStep, DupFdStep,
     DupFdFailsStep, ReturnStep, OthersStep DEF Next, Step

(***************************************************************************)
(* For any number of descriptors, any files and any interference, the call *)
(* knows what it may rely on: what it has checked, until another thread    *)
(* acts.                                                                   *)
(***************************************************************************)
THEOREM Invariance == Spec => []IInv
<1> QED
  BY InitInv, NextInv, PTL DEF Spec

(***************************************************************************)
(* Without interference __dup2 never ends the process, and what it answers *)
(* is the number of the duplicate; with it, the answer is wrong only if    *)
(* another thread was given new_fd while it was free.                      *)
(***************************************************************************)
THEOREM AlwaysRacedOnly == Spec => []RacedOnly
<1>1. IInv => RacedOnly
  BY DEF IInv
<1> QED
  BY <1>1, Invariance, PTL

-----------------------------------------------------------------------------
(***************************************************************************)
(* No step of a call changes a descriptor that is open, but for the close  *)
(* of new_fd in __dup2, whatever other threads have done to the table.     *)
(***************************************************************************)
THEOREM AlwaysOthersKept == Spec => OthersKept
<1> DEFINE Kept(fd) == IsOpen(fd) /\ table'[fd] # table[fd] =>
                         \/ table'[fd] = Closed /\ UNCHANGED pc
                         \/ pc = "close" /\ fd = call.new_fd /\ pc' = "dupfd"
<1>1. IInv /\ [Next]_vars => [\A fd \in Fds : Kept(fd)]_vars
  <2> SUFFICES ASSUME IInv, Next, NEW fd \in Fds, IsOpen(fd),
                      table'[fd] # table[fd]
               PROVE  \/ table'[fd] = Closed /\ UNCHANGED pc
                      \/ pc = "close" /\ fd = call.new_fd /\ pc' = "dupfd"
    OBVIOUS
  <2>1. table \in [Fds -> Files \cup {Closed}]
    BY DEF IInv, TypeOK
  <2>2. CASE Close
    BY <2>1, <2>2 DEF Close
  <2>3. CASE DupFd
    BY <2>1, <2>3 DEF DupFd, LowestFree, IsOpen
  <2>4. CASE OtherOpens
    BY <2>1, <2>4 DEF OtherOpens, LowestFree, IsOpen
  <2>5. CASE OtherCloses
    BY <2>1, <2>5 DEF OtherCloses
  <2> QED
    BY <2>2, <2>3, <2>4, <2>5
       DEF Next, Step, Call, CheckOld, CheckNew, DupFdFails, Return
<1> QED
  BY <1>1, Invariance, PTL DEF Spec, OthersKept

-----------------------------------------------------------------------------
(* The contract has the same constants. *)
LEMMA SameConstants ==
  /\ Contract!Fds = Fds /\ Contract!Numbers = Numbers
  /\ Contract!Closed = Closed /\ Contract!Idle = Idle
  /\ Contract!NoAnswer = NoAnswer
  /\ Contract!EBADF = EBADF /\ Contract!EMFILE = EMFILE
BY DEF Contract!Fds, Fds, Contract!Numbers, Numbers, Contract!Closed, Closed,
       Contract!Idle, Idle, Contract!NoAnswer, NoAnswer, Contract!EBADF, EBADF,
       Contract!EMFILE, EMFILE

(* What the contract sees of the table, when nothing is lost and when it is. *)
LEMMA TableSeen ==
  ASSUME IInv
  PROVE  /\ lost = "nothing" => atomicTable = table
         /\ lost # "nothing" =>
              /\ call.new_fd \in Fds
              /\ atomicTable = [table EXCEPT ![call.new_fd] = lost]
         /\ call.op # "dup2" => lost = "nothing"
         /\ pc \notin {"dupfd", "died"} => lost = "nothing"
BY DEF IInv, LostOnly, atomicTable

(* While nothing is lost, the contract sees the table as it is. *)
LEMMA OpenSeen ==
  /\ lost = "nothing" =>
       /\ \A fd : Contract!IsOpen(fd) <=> IsOpen(fd)
       /\ \A from : Contract!LowestFree(from) = LowestFree(from)
BY SameConstants
   DEF atomicTable, Contract!IsOpen, IsOpen, Contract!LowestFree, LowestFree

(* A call begins for the contract as it does here. *)
LEMMA CallImplements ==
  ASSUME IInv, NEW c \in Calls, Call(c)
  PROVE  Contract!Next
<1>1. /\ call = Idle /\ call' = c /\ answer' = NoAnswer
      /\ atomicTable' = atomicTable
  BY DEF Call, IInv, Progress, LostOnly, atomicTable
<1>2. Contract!Call(c)
  BY <1>1, SameConstants DEF Contract!Call
<1> QED
  BY <1>2, CallFacts, SameConstants DEF Contract!Next

(* The check of old_fd refuses the call, answers dup2(fd, fd), or is unseen. *)
LEMMA CheckOldImplements ==
  ASSUME IInv, CheckOld
  PROVE  Contract!Next \/ UNCHANGED <<atomicTable, call, answer>>
<1>1. /\ pc = "old" /\ lost = "nothing" /\ lost' = lost
      /\ table' = table /\ call' = call
      /\ call # Idle /\ call.op \in {"dup", "dup2"} /\ answer = NoAnswer
  BY UnderWay DEF CheckOld, IInv, Progress, LostOnly
<1>2. atomicTable = table /\ atomicTable' = table
  BY <1>1 DEF atomicTable
<1>3. Contract!Pending
  BY <1>1, SameConstants DEF Contract!Pending
<1>4. CASE ~IsOpen(call.old_fd)
  <2>1. answer' = EBADF
    BY <1>1, <1>4 DEF CheckOld, Answer
  <2>2. Contract!Refuse
    BY <1>1, <1>2, <1>3, <1>4, <2>1, OpenSeen, SameConstants DEF Contract!Refuse
  <2> QED
    BY <2>2 DEF Contract!Next
<1>5. CASE IsOpen(call.old_fd) /\ call.op = "dup2" /\ call.old_fd = call.new_fd
  <2>1. answer' = call.new_fd /\ call.new_fd \in Fds
    BY <1>1, <1>5 DEF CheckOld, Answer, IsOpen
  <2>2. table = [table EXCEPT ![call.new_fd] = table[call.old_fd]]
    BY <1>5 DEF IInv, TypeOK
  <2>3. Contract!Dup2
    BY <1>1, <1>2, <1>3, <1>5, <2>1, <2>2, OpenSeen, SameConstants
       DEF Contract!Dup2
  <2> QED
    BY <2>3 DEF Contract!Next
<1>6. CASE /\ IsOpen(call.old_fd)
           /\ ~(call.op = "dup2" /\ call.old_fd = call.new_fd)
  BY <1>1, <1>2, <1>6 DEF CheckOld
<1> QED
  BY <1>4, <1>5, <1>6

(* The close of new_fd is not seen: what it referred to is kept in mind. *)
LEMMA CloseImplements ==
  ASSUME IInv, Close
  PROVE  UNCHANGED <<atomicTable, call, answer>>
<1>1. PICK fd : fd = call.new_fd
  OBVIOUS
<1>2. /\ pc = "close" /\ lost = "nothing" /\ call' = call /\ answer' = answer
      /\ table' = [table EXCEPT ![fd] = Closed]
      /\ lost' = IF IsOpen(fd) THEN table[fd] ELSE lost
      /\ fd \in Fds /\ table \in [Fds -> Files \cup {Closed}]
  BY <1>1 DEF Close, IInv, Progress, LostOnly, TypeOK
<1>3. atomicTable = table
  BY <1>2 DEF atomicTable
<1>4. CASE IsOpen(fd)
  <2>1. lost' = table[fd] /\ lost' # "nothing"
    BY <1>2, <1>4, FilesAssumption DEF IsOpen
  <2>2. atomicTable' = [table' EXCEPT ![fd] = table[fd]]
    BY <1>1, <1>2, <2>1 DEF atomicTable
  <2>3. [table' EXCEPT ![fd] = table[fd]] = table
    BY <1>2
  <2> QED
    BY <1>2, <1>3, <2>2, <2>3
<1>5. CASE ~IsOpen(fd)
  <2>1. table' = table
    BY <1>2, <1>5 DEF IsOpen
  <2> QED
    BY <1>2, <1>3, <1>5, <2>1 DEF atomicTable
<1> QED
  BY <1>4, <1>5

(* F_DUPFD is the moment at which the duplicate appears. *)
LEMMA DupFdImplements ==
  ASSUME IInv, DupFd
  PROVE  Contract!Next \/ (call.op = "dup2" /\ raced')
<1>1. PICK fd : fd = got'
  OBVIOUS
<1>2. /\ pc = "dupfd" /\ IsOpen(call.old_fd)
      /\ fd \in LowestFree(From) /\ From \in Fds
      /\ table' = [table EXCEPT ![fd] = table[call.old_fd]]
      /\ lost' = "nothing"
      /\ answer' = IF call.op = "dup" THEN fd ELSE call.new_fd
      /\ call' = call /\ raced' = raced
  BY <1>1 DEF DupFd, Answer
<1>3. /\ call # Idle /\ call.op \in {"dup", "dup2"} /\ answer = NoAnswer
      /\ table \in [Fds -> Files \cup {Closed}]
  BY <1>2, UnderWay DEF IInv, Progress, TypeOK
<1>4. Contract!Pending
  BY <1>3, SameConstants DEF Contract!Pending
<1>5. atomicTable' = table'
  BY <1>2 DEF atomicTable
<1>6. CASE call.op = "dup"
  <2>1. lost = "nothing" /\ atomicTable = table /\ From = 0
    BY <1>6, TableSeen DEF From
  <2>2. Contract!Dup
    BY <1>2, <1>4, <1>5, <1>6, <2>1, OpenSeen, SameConstants DEF Contract!Dup
  <2> QED
    BY <2>2 DEF Contract!Next
<1>7. CASE call.op = "dup2" /\ ~raced
  <2>1. PICK new : new = call.new_fd
    OBVIOUS
  <2>2. /\ From = new /\ new \in Fds /\ new \in Int /\ table[new] = Closed
        /\ new # call.old_fd
    BY <1>2, <1>7, <2>1, FdFacts DEF From, IInv, Checked, Progress
  <2>3. fd = new
    BY <1>2, <2>2, LowestFacts
  <2>4. /\ atomicTable[call.old_fd] = table[call.old_fd]
        /\ [atomicTable EXCEPT ![new] = table[call.old_fd]] = table'
    <3>1. CASE lost = "nothing"
      BY <1>2, <2>3, <3>1 DEF atomicTable
    <3>2. CASE lost # "nothing"
      <4>1. atomicTable = [table EXCEPT ![new] = lost]
        BY <2>1, <3>2 DEF atomicTable
      <4> QED
        BY <1>2, <1>3, <2>2, <2>3, <4>1 DEF IsOpen
    <3> QED
      BY <3>1, <3>2
  <2>5. Contract!IsOpen(call.old_fd)
    BY <1>2, <2>4, SameConstants DEF Contract!IsOpen, IsOpen
  <2>6. Contract!Dup2
    BY <1>2, <1>4, <1>5, <1>7, <2>1, <2>2, <2>4, <2>5, SameConstants
       DEF Contract!Dup2
  <2> QED
    BY <2>6 DEF Contract!Next
<1> QED
  BY <1>2, <1>3, <1>6, <1>7

(* A failed F_DUPFD refuses the call, or is the assertion and unseen. *)
LEMMA DupFdFailsImplements ==
  ASSUME IInv, DupFdFails
  PROVE  Contract!Next \/ UNCHANGED <<atomicTable, call, answer>>
<1>1. /\ pc = "dupfd"
      /\ table' = table /\ call' = call /\ lost' = lost
      /\ call # Idle /\ call.op \in {"dup", "dup2"} /\ answer = NoAnswer
      /\ atomicTable' = atomicTable
  BY UnderWay DEF DupFdFails, IInv, Progress, atomicTable
<1>2. Contract!Pending
  BY <1>1, SameConstants DEF Contract!Pending
<1>3. CASE call.op = "dup"
  <2>1. lost = "nothing" /\ From = 0 /\ 0 \in Fds
    BY <1>3, TableSeen, FdFacts DEF From
  <2>2. \/ answer' = EBADF /\ ~IsOpen(call.old_fd)
        \/ answer' = EMFILE /\ LowestFree(0) = {}
    BY <1>3, <2>1 DEF DupFdFails, Answer
  <2>3. Contract!Refuse
    BY <1>1, <1>2, <1>3, <2>1, <2>2, OpenSeen, SameConstants DEF Contract!Refuse
  <2> QED
    BY <2>3 DEF Contract!Next
<1>4. CASE call.op = "dup2" /\ From \notin Fds /\ IsOpen(call.old_fd)
  <2>1. call.new_fd \notin Fds /\ answer' = EBADF
    BY <1>4 DEF DupFdFails, BadNumber, Answer, From
  <2>2. Contract!Refuse
    BY <1>1, <1>2, <1>4, <2>1, SameConstants DEF Contract!Refuse
  <2> QED
    BY <2>2 DEF Contract!Next
<1>5. CASE call.op = "dup2" /\ ~(From \notin Fds /\ IsOpen(call.old_fd))
  BY <1>1, <1>5 DEF DupFdFails
<1> QED
  BY <1>1, <1>3, <1>4, <1>5

(* The call returns for the contract as it does here. *)
LEMMA ReturnImplements ==
  ASSUME IInv, Return
  PROVE  Contract!Next
<1>1. /\ pc = "return" /\ call' = Idle /\ answer' = answer
      /\ call # Idle /\ answer # NoAnswer
      /\ atomicTable' = atomicTable
  BY UnderWay DEF Return, IInv, Progress, LostOnly, atomicTable
<1>2. Contract!Return
  BY <1>1, SameConstants DEF Contract!Return
<1> QED
  BY <1>2 DEF Contract!Next

(* Between the steps of a __dup, other threads act as the contract allows. *)
LEMMA OthersImplement ==
  ASSUME IInv, OtherOpens \/ OtherCloses
  PROVE  Contract!Next \/ (call.op = "dup2" /\ raced')
<1>1. raced' = TRUE /\ call' = call /\ answer' = answer /\ lost' = lost
  BY DEF OtherOpens, OtherCloses
<1>2. CASE call.op # "dup2"
  <2>1. lost = "nothing" /\ atomicTable = table /\ atomicTable' = table'
    BY <1>1, <1>2, TableSeen DEF atomicTable
  <2>2. \E fd \in Fds, f \in Files \cup {Closed} :
          table' = [table EXCEPT ![fd] = f]
    BY DEF OtherOpens, OtherCloses, LowestFree
  <2>3. Contract!Others
    BY <1>1, <2>1, <2>2, SameConstants DEF Contract!Others
  <2> QED
    BY <2>3 DEF Contract!Next
<1> QED
  BY <1>1, <1>2

(***************************************************************************)
(* "My implementation of the dup(2) syscall": __dup is atomic whatever     *)
(* other threads do, and __dup2 as long as none of them interferes.        *)
(***************************************************************************)
THEOREM KeepsContract == Spec => ContractSpec
<1>1. Init => Contract!Init
  BY SameConstants DEF Init, Contract!Init, atomicTable
<1>2. IInv /\ [Next]_vars =>
        [Contract!Next \/ (call.op = "dup2" /\ raced')
          ]_<<atomicTable, call, answer>>
  <2> SUFFICES ASSUME IInv, [Next]_vars
               PROVE  \/ Contract!Next
                      \/ call.op = "dup2" /\ raced'
                      \/ UNCHANGED <<atomicTable, call, answer>>
    OBVIOUS
  <2>1. CASE CheckNew \/ UNCHANGED vars
    BY <2>1 DEF CheckNew, vars, atomicTable
  <2> QED
    BY <2>1, CallImplements, CheckOldImplements, CloseImplements,
       DupFdImplements, DupFdFailsImplements, ReturnImplements, OthersImplement
       DEF Next, Step
<1> QED
  BY <1>1, <1>2, Invariance, PTL DEF Spec, ContractSpec

=============================================================================
