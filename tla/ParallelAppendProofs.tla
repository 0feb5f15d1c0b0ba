------------------------ MODULE ParallelAppendProofs ------------------------
(***************************************************************************)
(* What q3.md measures, for any number of processes, any num_bytes and any *)
(* length of the file at the start: which bytes a race can lose.           *)
(***************************************************************************)
EXTENDS ParallelAppend, SequenceTheorems, FiniteSetTheorems, TLAPS

(* The bytes that may be in the file. *)
Bytes ==
  {<<Old, k>> : k \in 1 .. OldBytes}
    \cup {<<p, k>> : p \in Procs, k \in 1 .. NumBytes}

(* A process that is about to write, or has just written, has bytes left. *)
Progress ==
  \A p \in Procs : pc[p] \in {"write", "rest"} => num_bytes[p] > 0

(* The file starts with its old bytes, and they are nowhere else. *)
OldFirst ==
  /\ OldBytes <= Len(file)
  /\ \A k \in 1 .. OldBytes : file[k] = <<Old, k>>
  /\ \A i \in DOMAIN file : file[i][1] = Old => i <= OldBytes

(* What a process has in the file it wrote before, left of where it writes. *)
OwnBytes ==
  \A p \in Procs : \A i \in DOMAIN file :
    file[i][1] = p /\ pc[p] # "died" =>
      /\ file[i][2] <= Written(p)
      /\ pc[p] = "write" => i <= offset[p]

(* Of two bytes of the same origin, the first is the one written first. *)
InOrder ==
  \A i, j \in DOMAIN file :
    i < j /\ file[i][1] = file[j][1] => file[i][2] < file[j][2]

IInv ==
  /\ TypeOK /\ Progress /\ OffsetBounds /\ AtLeastEachShare
  /\ OldFirst /\ OwnBytes /\ InOrder /\ NothingLost

-----------------------------------------------------------------------------
(* A byte has an origin and a number. *)
LEMMA ByteFacts ==
  /\ \A b \in Bytes : /\ b = <<b[1], b[2]>> /\ b[2] \in Nat
                      /\ b[1] = Old => b[2] \in 1 .. OldBytes
                      /\ b[1] # Old => b[1] \in Procs /\ b[2] \in 1 .. NumBytes
  /\ \A p \in Procs : p # Old
  /\ \A p \in Procs, k \in 1 .. NumBytes : <<p, k>> \in Bytes
  /\ \A k \in 1 .. OldBytes : <<Old, k>> \in Bytes
BY OldAssumption, OldBytesAssumption, NumBytesAssumption DEF Bytes

(* The file is a sequence of bytes. *)
LEMMA FileFacts ==
  TypeOK => /\ file \in Seq(Bytes)
            /\ Len(file) \in Nat
            /\ DOMAIN file = 1 .. Len(file)
            /\ \A i \in DOMAIN file : file[i] \in Bytes
<1> SUFFICES ASSUME TypeOK
             PROVE  /\ file \in Seq(Bytes)
                    /\ Len(file) \in Nat
                    /\ DOMAIN file = 1 .. Len(file)
                    /\ \A i \in DOMAIN file : file[i] \in Bytes
  OBVIOUS
<1>1. file \in Seq(Bytes)
  BY DEF TypeOK, Bytes
<1>2. Len(file) \in Nat /\ file \in [1 .. Len(file) -> Bytes]
  BY <1>1, LenProperties
<1> QED
  BY <1>1, <1>2

(* The counters of a process. *)
LEMMA CountFacts ==
  TypeOK /\ Progress =>
    \A p \in Procs : /\ num_bytes[p] \in 0 .. NumBytes /\ offset[p] \in Nat
                     /\ Written(p) \in 0 .. NumBytes
                     /\ pc[p] \in {"loop", "write"} =>
                          Written(p) = NumBytes - num_bytes[p]
<1> SUFFICES ASSUME TypeOK, Progress, NEW p \in Procs
             PROVE  /\ num_bytes[p] \in 0 .. NumBytes /\ offset[p] \in Nat
                    /\ Written(p) \in 0 .. NumBytes
                    /\ pc[p] \in {"loop", "write"} =>
                         Written(p) = NumBytes - num_bytes[p]
  OBVIOUS
<1>1. num_bytes[p] \in 0 .. NumBytes /\ offset[p] \in Nat
  BY DEF TypeOK
<1>2. pc[p] = "rest" => num_bytes[p] > 0
  BY DEF Progress
<1>3. PICK more : more = num_bytes[p]
  OBVIOUS
<1>4. Written(p) = NumBytes - more + IF pc[p] = "rest" THEN 1 ELSE 0
  BY <1>3 DEF Written
<1> QED
  BY <1>1, <1>2, <1>3, <1>4, NumBytesAssumption

(* The same after a step. *)
LEMMA CountFactsNext ==
  TypeOK' /\ Progress' => (\A p \in Procs : Written(p) \in Nat)'
<1>1. TypeOK /\ Progress => \A p \in Procs : Written(p) \in Nat
  <2>1. \A n \in 0 .. NumBytes : n \in Nat
    OBVIOUS
  <2> QED
    BY <2>1, CountFacts, Zenon
<1> QED
  BY <1>1, PTL

(* A write in the file or at its end changes one byte and leaves no gap. *)
LEMMA FileWithFacts ==
  ASSUME file \in Seq(Bytes), NEW at \in 0 .. Len(file), NEW b \in Bytes
  PROVE  /\ FileWith(at, b) \in Seq(Bytes)
         /\ Len(FileWith(at, b)) = IF at < Len(file) THEN Len(file) ELSE at + 1
         /\ DOMAIN FileWith(at, b) = 1 .. Len(FileWith(at, b))
         /\ at + 1 \in DOMAIN FileWith(at, b)
         /\ \A i \in DOMAIN FileWith(at, b) :
              /\ FileWith(at, b)[i] = IF i = at + 1 THEN b ELSE file[i]
              /\ i # at + 1 => i \in DOMAIN file
         /\ \A i \in DOMAIN file : i \in DOMAIN FileWith(at, b)
<1>1. Len(file) \in Nat /\ file \in [1 .. Len(file) -> Bytes]
  BY LenProperties
<1>2. PICK n : n = IF at < Len(file) THEN Len(file) ELSE at + 1
  OBVIOUS
<1>3. n \in Nat /\ at + 1 \in 1 .. n /\ Len(file) <= n
  BY <1>1, <1>2
<1>4. \A i \in 1 .. n : i # at + 1 => i \in 1 .. Len(file)
  BY <1>1, <1>2
<1>5. PICK f : f = [i \in 1 .. n |-> IF i = at + 1 THEN b ELSE file[i]]
  OBVIOUS
<1>6. f = FileWith(at, b)
  BY <1>2, <1>5 DEF FileWith
<1>7. f \in [1 .. n -> Bytes]
  BY <1>1, <1>4, <1>5
<1>8. f \in Seq(Bytes)
  BY <1>3, <1>7, SeqDef
<1>9. Len(f) = n
  <2>1. Len(f) \in Nat /\ DOMAIN f = 1 .. Len(f) /\ DOMAIN f = 1 .. n
    BY <1>7, <1>8, LenProperties
  <2>2. 1 .. Len(f) = 1 .. n
    BY <2>1, Zenon
  <2>3. PICK m \in Nat : m = Len(f)
    BY <2>1
  <2> QED
    BY <1>3, <2>2, <2>3, FS_Interval
<1>10. /\ DOMAIN f = 1 .. Len(f) /\ at + 1 \in DOMAIN f
       /\ \A i \in DOMAIN f : /\ f[i] = IF i = at + 1 THEN b ELSE file[i]
                              /\ i # at + 1 => i \in DOMAIN file
       /\ \A i \in DOMAIN file : i \in DOMAIN f
  BY <1>1, <1>3, <1>4, <1>5, <1>9
<1> QED
  BY <1>2, <1>6, <1>8, <1>9, <1>10

-----------------------------------------------------------------------------
(* At the start the file holds its old bytes and no process has written. *)
LEMMA InitInv == Init => IInv
<1> SUFFICES ASSUME Init
             PROVE  IInv
  OBVIOUS
<1>1. /\ file = [k \in 1 .. OldBytes |-> <<Old, k>>]
      /\ append \in [Procs -> BOOLEAN]
      /\ pc = [p \in Procs |-> "open"]
      /\ offset = [p \in Procs |-> 0]
      /\ num_bytes = [p \in Procs |-> NumBytes]
  BY DEF Init
<1>2. \A k \in 1 .. OldBytes : <<Old, k>> \in Bytes
  BY ByteFacts
<1>3. file \in [1 .. OldBytes -> Bytes]
  BY <1>1, <1>2
<1>4. file \in Seq(Bytes)
  BY <1>3, SeqDef, OldBytesAssumption
<1>5. TypeOK
  BY <1>1, <1>4, NumBytesAssumption DEF TypeOK, Bytes
<1>6. Len(file) = OldBytes
  <2>1. /\ Len(file) \in Nat
        /\ 1 .. Len(file) = 1 .. OldBytes
    BY <1>3, <1>5, FileFacts, Zenon
  <2>2. PICK n \in Nat : n = Len(file)
    BY <2>1
  <2> QED
    BY <2>1, <2>2, FS_Interval, OldBytesAssumption
<1>7. \A p \in Procs : Written(p) = 0
  <2> SUFFICES ASSUME NEW p \in Procs
               PROVE  Written(p) = 0
    OBVIOUS
  <2>1. pc[p] = "open" /\ num_bytes[p] = NumBytes
    BY <1>1
  <2> QED
    BY <2>1, NumBytesAssumption DEF Written
<1>8. Progress /\ OffsetBounds /\ AtLeastEachShare
  BY <1>1, <1>6, <1>7, OldBytesAssumption, NumBytesAssumption
     DEF Progress, OffsetBounds, AtLeastEachShare
<1>9. \A i \in DOMAIN file : i \in 1 .. OldBytes /\ file[i] = <<Old, i>>
  BY <1>1
<1>10. OldFirst /\ InOrder
  BY <1>1, <1>6, <1>9, OldBytesAssumption DEF OldFirst, InOrder
<1>11. OwnBytes
  BY <1>9, OldAssumption DEF OwnBytes
<1>12. NothingLost
  BY <1>7 DEF NothingLost
<1> QED
  BY <1>5, <1>8, <1>10, <1>11, <1>12 DEF IInv

-----------------------------------------------------------------------------
(* Every step but a write leaves the file, and p knows no less of it. *)
LEMMA OffFileStep ==
  ASSUME IInv, NEW p \in Procs,
         Open(p) \/ SeekEnd(p) \/ WriteRest(p) \/ Close(p) \/ Fail(p)
  PROVE  IInv'
<1>1. /\ file' = file /\ append' = append
      /\ pc \in [Procs -> {"open", "loop", "write", "rest", "done", "died"}]
      /\ offset \in [Procs -> Nat]
      /\ num_bytes \in [Procs -> 0 .. NumBytes]
  BY DEF Open, SeekEnd, WriteRest, Close, Fail, IInv, TypeOK
<1>2. TypeOK /\ Progress /\ Len(file) \in Nat
  BY FileFacts DEF IInv
<1>3. /\ pc' \in [Procs -> {"open", "loop", "write", "rest", "done", "died"}]
      /\ offset' \in [Procs -> Nat]
      /\ num_bytes' \in [Procs -> 0 .. NumBytes]
      /\ \A q \in Procs : q # p =>
           /\ pc'[q] = pc[q] /\ offset'[q] = offset[q]
           /\ num_bytes'[q] = num_bytes[q]
  <2>1. CASE WriteRest(p)
    <3>1. num_bytes[p] > 0
      BY <1>2, <2>1 DEF WriteRest, Progress
    <3> QED
      BY <1>1, <2>1, <3>1, NumBytesAssumption DEF WriteRest
  <2>2. CASE SeekEnd(p)
    BY <1>1, <1>2, <2>2 DEF SeekEnd
  <2> QED
    BY <1>1, <2>1, <2>2 DEF Open, Close, Fail
<1>4. TypeOK'
  BY <1>1, <1>2, <1>3 DEF TypeOK
<1>5. \/ /\ pc'[p] = "write" /\ pc[p] = "loop" /\ num_bytes'[p] > 0
         /\ offset'[p] = Len(file) /\ Written(p)' = Written(p)
      \/ /\ pc'[p] \notin {"write", "rest"} /\ offset'[p] = offset[p]
         /\ \/ pc[p] # "died" /\ Written(p)' = Written(p)
            \/ pc'[p] = "died" /\ Written(p)' <= Written(p)
  <2>1. num_bytes[p] \in 0 .. NumBytes /\ Written(p) \in 0 .. NumBytes
    BY <1>2, CountFacts
  <2>2. CASE Open(p) \/ Close(p)
    BY <1>1, <2>2 DEF Open, Close, Written
  <2>3. CASE SeekEnd(p)
    BY <1>1, <2>3 DEF SeekEnd, More, Written
  <2>4. CASE WriteRest(p)
    <3>1. /\ pc'[p] = "loop" /\ pc[p] = "rest" /\ offset'[p] = offset[p]
          /\ num_bytes'[p] = num_bytes[p] - 1
      BY <1>1, <2>4 DEF WriteRest
    <3> QED
      BY <2>1, <3>1, NumBytesAssumption DEF Written
  <2>5. CASE Fail(p)
    <3>1. /\ pc'[p] = "died" /\ offset'[p] = offset[p]
          /\ num_bytes'[p] = num_bytes[p]
      BY <1>1, <2>5 DEF Fail
    <3> QED
      BY <2>1, <3>1, NumBytesAssumption DEF Written
  <2> QED
    BY <2>2, <2>3, <2>4, <2>5
<1>6. \A q \in Procs : q # p => Written(q)' = Written(q)
  BY <1>3 DEF Written
<1>7. \A q \in Procs : /\ Written(q) \in Nat /\ Written(q)' \in Nat
                       /\ Written(q)' <= Written(q)
  <2>1. Progress'
    BY <1>2, <1>3, <1>5 DEF Progress
  <2>2. \A q \in Procs : Written(q)' \in Nat
    BY <1>4, <2>1, CountFactsNext
  <2> QED
    BY <1>2, <1>5, <1>6, <2>2, CountFacts
<1>8. Progress'
  BY <1>2, <1>3, <1>5 DEF Progress
<1>9. AtLeastEachShare'
  <2> SUFFICES ASSUME NEW q \in Procs
               PROVE  OldBytes + Written(q)' <= Len(file)
    BY <1>1 DEF AtLeastEachShare
  <2>1. OldBytes + Written(q) <= Len(file)
    BY DEF IInv, AtLeastEachShare
  <2> QED
    BY <1>2, <1>7, <2>1, OldBytesAssumption
<1>10. OffsetBounds'
  <2> SUFFICES ASSUME NEW q \in Procs
               PROVE  /\ offset'[q] <= Len(file)
                      /\ pc'[q] = "write" =>
                           OldBytes + Written(q)' <= offset'[q]
    BY <1>1 DEF OffsetBounds
  <2>1. /\ offset[q] <= Len(file) /\ OldBytes + Written(q) <= Len(file)
        /\ pc[q] = "write" => OldBytes + Written(q) <= offset[q]
    BY DEF IInv, OffsetBounds, AtLeastEachShare
  <2>2. CASE q = p
    BY <1>2, <1>5, <2>1, <2>2
  <2>3. CASE q # p
    BY <1>3, <1>6, <2>1, <2>3
  <2> QED
    BY <2>2, <2>3
<1>11. OwnBytes'
  <2> SUFFICES ASSUME NEW q \in Procs, NEW i \in DOMAIN file,
                      file[i][1] = q, pc'[q] # "died"
               PROVE  /\ file[i][2] <= Written(q)'
                      /\ pc'[q] = "write" => i <= offset'[q]
    BY <1>1 DEF OwnBytes
  <2>1. i <= Len(file)
    BY <1>2, FileFacts
  <2>2. CASE q = p
    <3>1. pc[q] # "died" /\ Written(q)' = Written(q)
      BY <1>5, <2>2
    <3> QED
      BY <1>5, <2>1, <2>2, <3>1 DEF IInv, OwnBytes
  <2>3. CASE q # p
    BY <1>3, <1>6, <2>3 DEF IInv, OwnBytes
  <2> QED
    BY <2>2, <2>3
<1>12. OldFirst' /\ InOrder'
  BY <1>1 DEF IInv, OldFirst, InOrder
<1>13. NothingLost'
  <2> SUFFICES ASSUME \A q \in Procs : append[q],
                      NEW q \in Procs, NEW k \in 1 .. Written(q)'
               PROVE  \E i \in DOMAIN file : file[i] = <<q, k>>
    BY <1>1 DEF NothingLost
  <2>1. k \in 1 .. Written(q)
    BY <1>7
  <2> QED
    BY <2>1 DEF IInv, NothingLost
<1> QED
  BY <1>4, <1>8, <1>9, <1>10, <1>11, <1>12, <1>13 DEF IInv

-----------------------------------------------------------------------------
(* Where a write goes: behind the old bytes and all that p has in the file. *)
LEMMA WhereFacts ==
  ASSUME IInv, NEW p \in Procs, Write(p)
  PROVE  /\ pc[p] \in {"loop", "write"} /\ num_bytes[p] > 0
         /\ Written(p) = NumBytes - num_bytes[p]
         /\ Where(p) \in 0 .. Len(file)
         /\ OldBytes + Written(p) <= Where(p)
         /\ append[p] => Where(p) = Len(file)
         /\ \A i \in DOMAIN file :
              file[i][1] = p => i <= Where(p) /\ file[i][2] <= Written(p)
<1>1. \/ pc[p] = "loop" /\ append[p] /\ num_bytes[p] > 0
      \/ pc[p] = "write"
  BY DEF Write, More
<1>2. TypeOK /\ Progress /\ Len(file) \in Nat /\ DOMAIN file = 1 .. Len(file)
  BY FileFacts DEF IInv
<1>3. /\ Written(p) = NumBytes - num_bytes[p] /\ offset[p] \in Nat
      /\ num_bytes[p] > 0
  BY <1>1, <1>2, CountFacts DEF Progress
<1>4. /\ offset[p] <= Len(file) /\ OldBytes + Written(p) <= Len(file)
      /\ pc[p] = "write" => OldBytes + Written(p) <= offset[p]
  BY DEF IInv, OffsetBounds, AtLeastEachShare
<1>5. \A i \in DOMAIN file :
        file[i][1] = p => /\ file[i][2] <= Written(p) /\ i <= Len(file)
                          /\ pc[p] = "write" => i <= offset[p]
  BY <1>1, <1>2 DEF IInv, OwnBytes
<1>6. CASE append[p]
  <2>1. Where(p) = Len(file)
    BY <1>6 DEF Where
  <2> QED
    BY <1>1, <1>2, <1>3, <1>4, <1>5, <2>1
<1>7. CASE ~append[p]
  <2>1. Where(p) = offset[p] /\ pc[p] = "write"
    BY <1>1, <1>7 DEF Where
  <2> QED
    BY <1>1, <1>2, <1>3, <1>4, <1>5, <1>7, <2>1
<1> QED
  BY <1>6, <1>7

(* A write puts the next byte of p behind the others of p: it may replace a
   byte of another process, or be the new end of the file. *)
LEMMA WriteStep ==
  ASSUME IInv, NEW p \in Procs, Write(p)
  PROVE  IInv'
<1>1. PICK at : at = Where(p)
  OBVIOUS
<1>2. PICK n : n = Written(p)
  OBVIOUS
<1>3. PICK end : end = Len(file)
  OBVIOUS
<1>4. TypeOK /\ Progress /\ file \in Seq(Bytes) /\ DOMAIN file = 1 .. end
      /\ end \in Nat /\ \A i \in DOMAIN file : file[i] \in Bytes
  BY <1>3, FileFacts DEF IInv
<1>5. /\ at \in 0 .. end /\ OldBytes + n <= at
      /\ append[p] => at = end
      /\ \A i \in DOMAIN file : file[i][1] = p => i <= at /\ file[i][2] <= n
  BY <1>1, <1>2, <1>3, WhereFacts
<1>6. /\ n \in 0 .. NumBytes /\ num_bytes[p] \in 0 .. NumBytes
      /\ num_bytes[p] > 0 /\ n = NumBytes - num_bytes[p]
  BY <1>2, <1>4, WhereFacts, CountFacts
<1>7. n + 1 \in 1 .. NumBytes /\ NumBytes - num_bytes[p] + 1 = n + 1
  BY <1>6, NumBytesAssumption
<1>8. /\ file' = FileWith(at, <<p, n + 1>>)
      /\ offset' = [offset EXCEPT ![p] = at + 1]
      /\ pc' = [pc EXCEPT ![p] = "rest"]
      /\ append' = append /\ num_bytes' = num_bytes
  BY <1>1, <1>7 DEF Write
<1>9. <<p, n + 1>> \in Bytes
  BY <1>7, ByteFacts
<1>10. PICK end2 : end2 = Len(file')
  OBVIOUS
<1>11. /\ file' \in Seq(Bytes)
       /\ end2 = IF at < end THEN end ELSE at + 1
       /\ DOMAIN file' = 1 .. end2
       /\ at + 1 \in DOMAIN file'
       /\ \A i \in DOMAIN file' :
            /\ file'[i] = IF i = at + 1 THEN <<p, n + 1>> ELSE file[i]
            /\ i # at + 1 => i \in DOMAIN file
       /\ \A i \in DOMAIN file : i \in DOMAIN file'
  BY <1>3, <1>4, <1>5, <1>8, <1>9, <1>10, FileWithFacts, ZenonT(30)
<1>12. /\ pc'[p] = "rest" /\ offset'[p] = at + 1
       /\ \A q \in Procs : /\ num_bytes'[q] = num_bytes[q]
                           /\ q # p => pc'[q] = pc[q] /\ offset'[q] = offset[q]
  BY <1>4, <1>8 DEF TypeOK
<1>13. TypeOK'
  <2>1. /\ append' \in [Procs -> BOOLEAN]
        /\ pc' \in [Procs -> {"open", "loop", "write", "rest", "done", "died"}]
        /\ num_bytes' \in [Procs -> 0 .. NumBytes]
    BY <1>4, <1>8 DEF TypeOK
  <2>2. offset' \in [Procs -> Nat]
    BY <1>4, <1>5, <1>8 DEF TypeOK
  <2> QED
    BY <1>11, <2>1, <2>2 DEF TypeOK, Bytes
<1>14. /\ Written(p)' = n + 1
       /\ \A q \in Procs : q # p => Written(q)' = Written(q)
  BY <1>6, <1>12, NumBytesAssumption DEF Written
<1>15. Progress'
  BY <1>4, <1>6, <1>12 DEF Progress
<1>16. end <= end2 /\ at + 1 <= end2 /\ end2 \in Nat
  BY <1>4, <1>5, <1>11
<1>17. AtLeastEachShare' /\ OffsetBounds'
  <2> SUFFICES ASSUME NEW q \in Procs
               PROVE  /\ OldBytes + Written(q)' <= end2 /\ offset'[q] <= end2
                      /\ pc'[q] = "write" =>
                           OldBytes + Written(q)' <= offset'[q]
    BY <1>10 DEF AtLeastEachShare, OffsetBounds
  <2>1. CASE q = p
    BY <1>5, <1>6, <1>12, <1>14, <1>16, <2>1, OldBytesAssumption
  <2>2. CASE q # p
    <3>1. /\ offset[q] <= end /\ OldBytes + Written(q) <= end
          /\ pc[q] = "write" => OldBytes + Written(q) <= offset[q]
      BY <1>3 DEF IInv, OffsetBounds, AtLeastEachShare
    <3>2. Written(q) \in 0 .. NumBytes /\ offset[q] \in Nat
      BY <1>4, CountFacts
    <3> QED
      BY <1>4, <1>12, <1>14, <1>16, <2>2, <3>1, <3>2, OldBytesAssumption,
         NumBytesAssumption
  <2> QED
    BY <2>1, <2>2
<1>18. OldFirst'
  <2>1. /\ OldBytes <= end
        /\ \A k \in 1 .. OldBytes : file[k] = <<Old, k>>
        /\ \A i \in DOMAIN file : file[i][1] = Old => i <= OldBytes
    BY <1>3 DEF IInv, OldFirst
  <2>2. \A k \in 1 .. OldBytes : k # at + 1 /\ k \in 1 .. end
    BY <1>4, <1>5, <1>6, <2>1, OldBytesAssumption
  <2>3. \A k \in 1 .. OldBytes : file'[k] = <<Old, k>>
    BY <1>4, <1>11, <2>1, <2>2
  <2>4. \A i \in DOMAIN file' : file'[i][1] = Old => i <= OldBytes
    BY <1>11, <2>1, ByteFacts
  <2>5. OldBytes <= end2
    BY <1>4, <1>16, <2>1, OldBytesAssumption
  <2> QED
    BY <1>10, <2>3, <2>4, <2>5 DEF OldFirst
<1>19. OwnBytes'
  <2> SUFFICES ASSUME NEW q \in Procs, NEW i \in DOMAIN file',
                      file'[i][1] = q, pc'[q] # "died"
               PROVE  /\ file'[i][2] <= Written(q)'
                      /\ pc'[q] = "write" => i <= offset'[q]
    BY DEF OwnBytes
  <2>1. CASE i = at + 1
    <3>1. file'[i] = <<p, n + 1>>
      BY <1>11, <2>1
    <3> QED
      BY <1>6, <1>12, <1>14, <3>1
  <2>2. CASE i # at + 1
    <3>1. i \in DOMAIN file /\ file'[i] = file[i] /\ file[i][2] \in Nat
      BY <1>4, <1>11, <2>2, ByteFacts
    <3>2. CASE q = p
      BY <1>5, <1>6, <1>12, <1>14, <3>1, <3>2
    <3>3. CASE q # p
      BY <1>12, <1>14, <3>1, <3>3 DEF IInv, OwnBytes
    <3> QED
      BY <3>2, <3>3
  <2> QED
    BY <2>1, <2>2
<1>20. InOrder'
  <2> SUFFICES ASSUME NEW i \in DOMAIN file', NEW j \in DOMAIN file',
                      i < j, file'[i][1] = file'[j][1]
               PROVE  file'[i][2] < file'[j][2]
    BY DEF InOrder
  <2>1. CASE j = at + 1
    <3>1. i # at + 1 /\ file'[j][1] = p /\ file'[j][2] = n + 1
      BY <1>11, <2>1
    <3>2. i \in DOMAIN file /\ file'[i] = file[i] /\ file[i][2] \in Nat
      BY <1>4, <1>11, <3>1, ByteFacts
    <3> QED
      BY <1>5, <1>6, <3>1, <3>2
  <2>2. CASE i = at + 1
    <3>1. j # at + 1 /\ file'[i][1] = p
      BY <1>11, <2>2
    <3>2. j \in DOMAIN file /\ file'[j] = file[j]
      BY <1>11, <3>1
    <3> QED
      BY <1>4, <1>5, <2>2, <3>1, <3>2
  <2>3. CASE i # at + 1 /\ j # at + 1
    BY <1>11, <2>3 DEF IInv, InOrder
  <2> QED
    BY <2>1, <2>2, <2>3
<1>21. NothingLost'
  <2> SUFFICES ASSUME \A q \in Procs : append[q],
                      NEW q \in Procs, NEW k \in 1 .. Written(q)'
               PROVE  \E i \in DOMAIN file' : file'[i] = <<q, k>>
    BY <1>8 DEF NothingLost
  <2>1. at + 1 \notin DOMAIN file
    BY <1>4, <1>5
  <2>2. CASE q = p /\ k = n + 1
    BY <1>11, <2>2
  <2>3. CASE ~(q = p /\ k = n + 1)
    <3>1. k \in 1 .. Written(q)
      <4>1. CASE q = p
        <5>1. k \in 1 .. n + 1 /\ k # n + 1
          BY <1>14, <2>3, <4>1
        <5>2. Written(q) = n
          BY <1>2, <4>1
        <5> QED
          BY <1>6, <5>1, <5>2
      <4> QED
        BY <1>14, <4>1
    <3>2. PICK i \in DOMAIN file : file[i] = <<q, k>>
      BY <3>1 DEF IInv, NothingLost
    <3> QED
      BY <1>11, <2>1, <3>2
  <2> QED
    BY <2>2, <2>3
<1> QED
  BY <1>13, <1>15, <1>17, <1>18, <1>19, <1>20, <1>21 DEF IInv

-----------------------------------------------------------------------------
(* Every step keeps the invariant. *)
LEMMA NextInv == IInv /\ [Next]_vars => IInv'
<1> SUFFICES ASSUME IInv, [Next]_vars
             PROVE  IInv'
  OBVIOUS
<1>1. CASE UNCHANGED vars
  BY <1>1 DEF vars, IInv, TypeOK, Progress, OffsetBounds, AtLeastEachShare,
              OldFirst, OwnBytes, InOrder, NothingLost, Written
<1> QED
  BY <1>1, OffFileStep, WriteStep DEF Next, Step

(***************************************************************************)
(* For any number of processes and bytes, and whether they seek or append: *)
(* where every process stands, what it has in the file and where it writes *)
(* next fit together.                                                      *)
(***************************************************************************)
THEOREM Invariance == Spec => []IInv
<1> QED
  BY InitInv, NextInv, PTL DEF Spec

(***************************************************************************)
(* Offsets and counters stay in their ranges, and the file never holds     *)
(* anything but the old bytes and bytes of the processes: no write leaves  *)
(* a gap.                                                                  *)
(***************************************************************************)
THEOREM TypeCorrect == Spec => []TypeOK
<1>1. IInv => TypeOK
  BY DEF IInv
<1> QED
  BY <1>1, Invariance, PTL

(***************************************************************************)
(* With O_APPEND every byte that a write of q3.c accepted is in the file.  *)
(***************************************************************************)
THEOREM AppendLosesNothing == Spec => []NothingLost
<1>1. IInv => NothingLost
  BY DEF IInv
<1> QED
  BY <1>1, Invariance, PTL

(***************************************************************************)
(* Without it, too, the old bytes stay where they are and those of each    *)
(* process that survive are in the order in which they were written, none  *)
(* of them twice.                                                          *)
(***************************************************************************)
THEOREM SurvivorsInOrder == Spec => []OldThenInOrder
<1>1. IInv => OldThenInOrder
  BY DEF IInv, OldFirst, InOrder, OldThenInOrder
<1> QED
  BY <1>1, Invariance, PTL

(***************************************************************************)
(* However the race goes, the file is as long as the share of any one      *)
(* process: two processes of equal shares lose at most half.               *)
(***************************************************************************)
THEOREM RaceLosesAtMost == Spec => []AtLeastEachShare
<1>1. IInv => AtLeastEachShare
  BY DEF IInv
<1> QED
  BY <1>1, Invariance, PTL

(***************************************************************************)
(* A byte is overwritten only by a process that seeks: one that has        *)
(* O_APPEND adds its byte at the end, also when others seek.               *)
(***************************************************************************)
OnlySeekersOverwrite ==
  [][\A i \in DOMAIN file :
       /\ i \in DOMAIN file'
       /\ file'[i] # file[i] =>
            \E p \in Procs : ~append[p] /\ pc[p] = "write" /\ i = offset[p] + 1
    ]_vars

(***************************************************************************)
(* The seek of q3.c is what makes the race: in a mixed run, too, no byte   *)
(* is overwritten but by a process that seeks, where it had seen the end.  *)
(***************************************************************************)
THEOREM AppendersOverwriteNothing == Spec => OnlySeekersOverwrite
<1> DEFINE Kept(i) ==
      /\ i \in DOMAIN file'
      /\ file'[i] # file[i] =>
           \E p \in Procs : ~append[p] /\ pc[p] = "write" /\ i = offset[p] + 1
<1>1. IInv /\ [Next]_vars => [\A i \in DOMAIN file : Kept(i)]_vars
  <2> SUFFICES ASSUME IInv, Next
               PROVE  \A i \in DOMAIN file : Kept(i)
    OBVIOUS
  <2>1. PICK p \in Procs : Step(p) \/ Fail(p)
    BY DEF Next
  <2>2. CASE Write(p)
    <3>1. PICK at : at = Where(p)
      OBVIOUS
    <3>2. PICK b : b = <<p, NumBytes - num_bytes[p] + 1>>
      OBVIOUS
    <3>3. /\ at \in 0 .. Len(file) /\ (append[p] => at = Len(file))
          /\ b \in Bytes /\ file' = FileWith(at, b)
      <4>1. NumBytes - num_bytes[p] + 1 \in 1 .. NumBytes
        <5>1. num_bytes[p] \in 0 .. NumBytes /\ num_bytes[p] > 0
          BY <2>2, WhereFacts, CountFacts DEF IInv
        <5> QED
          BY <5>1, NumBytesAssumption
      <4> QED
        BY <2>2, <3>1, <3>2, <4>1, WhereFacts, ByteFacts DEF Write
    <3>4. /\ file \in Seq(Bytes) /\ Len(file) \in Nat
          /\ DOMAIN file = 1 .. Len(file)
      BY FileFacts DEF IInv
    <3>5. \A i \in DOMAIN file :
            i \in DOMAIN file' /\ (i # at + 1 => file'[i] = file[i])
      BY <3>3, <3>4, FileWithFacts, ZenonT(30)
    <3>6. at = Len(file) => at + 1 \notin DOMAIN file
      BY <3>3, <3>4
    <3>7. ~append[p] => pc[p] = "write" /\ at = offset[p]
      BY <2>2, <3>1 DEF Write, Where
    <3> QED
      BY <3>3, <3>5, <3>6, <3>7
  <2> QED
    BY <2>1, <2>2 DEF Step, Open, SeekEnd, WriteRest, Close, Fail
<1> QED
  BY <1>1, Invariance, PTL DEF Spec, OnlySeekersOverwrite

=============================================================================
