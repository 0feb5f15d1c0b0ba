--------------------------- MODULE ProgramProofs ---------------------------
(***************************************************************************)
(* The inductive invariants of seven parts of the program: the lookups of  *)
(* chapter 8, the two copies of chapter 4, tee, the freed range of         *)
(* question 1 of chapter 7, deliver_write and the error functions.  With   *)
(* them a property that the run of Program checks holds for every value of *)
(* the constants: for inputs, files, buffers, counts and command lines of  *)
(* any size.                                                               *)
(***************************************************************************)
EXTENDS Program, SequenceTheorems, FiniteSetTheorems, WellFoundedInduction,
        TLAPS

-----------------------------------------------------------------------------
(* Passwd: what the loop of __getpwnam has ruled out, what it answers, and *)
(* what is in the static area of getpwuid between the two lookups of       *)
(* chpt8_q1.                                                               *)
UsersInv ==
  /\ users \in Seq(UserNames) /\ cursor \in 0 .. Len(users)
  /\ pc \in {"__getpwnam", "loop"} => ~failed
  /\ pc = "loop" => /\ name \notin BadNames
                    /\ \A k \in 1 .. cursor : users[k] # name
  /\ pc = "endpwent" =>
       IF entry = "area"
       THEN area = name /\ users[cursor] = name /\ errno = "0"
       ELSE /\ entry = "NULL" /\ errno = (IF failed THEN "EIO" ELSE "0")
            /\ ~failed => \A k \in 1 .. Len(users) : users[k] # name
  /\ pc = "chpt8_q1" =>
       \/ order \in {<<0, 1>>, <<1, 0>>, <<0>>, <<1>>}
       \/ order = <<>> /\ \E k \in {1, 2} : area = users[k]
  /\ Passwd!FoundOrENOENT /\ Passwd!SameNameTwice

(* A lookup starts with the cursor before the first user. *)
LEMMA UsersInit == Passwd!Init => UsersInv
<1> SUFFICES ASSUME Passwd!Init
             PROVE  UsersInv
  OBVIOUS
<1>1. PICK n \in 0 .. MaxUsers : users \in [1 .. n -> UserNames]
  BY DEF Passwd!Init
<1>2. n \in Nat
  BY ConstantsAssumption DEF Passwd!ConstantsOK
<1>3. users \in Seq(UserNames)
  BY <1>1, <1>2, SeqDef
<1>4. cursor \in 0 .. Len(users) /\ failed = FALSE
      /\ pc \in {"__getpwnam", "chpt8_q1"} /\ order \in {<<0, 1>>, <<1, 0>>}
  BY DEF Passwd!Init
<1> QED
  BY <1>3, <1>4 DEF UsersInv, Passwd!FoundOrENOENT, Passwd!SameNameTwice

(* Every step of a lookup preserves the invariant. *)
LEMMA UsersStep == UsersInv /\ [Passwd!Next]_Passwd!vars => UsersInv'
<1> SUFFICES ASSUME UsersInv, [Passwd!Next]_Passwd!vars
             PROVE  UsersInv'
  OBVIOUS
<1> USE DEF UsersInv, Passwd!FoundOrENOENT, Passwd!SameNameTwice
<1>1. /\ users \in Seq(UserNames) /\ Len(users) \in Nat
      /\ DOMAIN users = 1 .. Len(users)
      /\ \A k \in DOMAIN users : users[k] \in UserNames
      /\ cursor \in 0 .. Len(users)
  <2>1. users \in Seq(UserNames)
    OBVIOUS
  <2> QED
    BY <2>1, LenProperties
<1>2. CASE UNCHANGED Passwd!vars
  BY <1>2 DEF Passwd!vars
<1>3. CASE Passwd!BadName
  <2>1. \A k \in 1 .. Len(users) : users[k] # name
    BY <1>1, <1>3, ConstantsAssumption DEF Passwd!BadName, Passwd!ConstantsOK
  <2> QED
    BY <1>1, <1>3, <2>1 DEF Passwd!BadName
<1>4. CASE Passwd!Setpwent
  BY <1>1, <1>4 DEF Passwd!Setpwent
<1>5. CASE Passwd!Getpwent
  <2>1. /\ cursor' = cursor + 1 /\ cursor + 1 \in 1 .. Len(users)
        /\ \A k \in 1 .. cursor + 1 : k \in 1 .. cursor \/ k = cursor + 1
    BY <1>1, <1>5 DEF Passwd!Getpwent
  <2> QED
    BY <1>1, <1>5, <2>1 DEF Passwd!Getpwent, Passwd!CleanErrno
<1>6. CASE Passwd!GetpwentEnd
  BY <1>1, <1>6 DEF Passwd!GetpwentEnd, Passwd!CleanErrno
<1>7. CASE Passwd!Endpwent
  BY <1>1, <1>7 DEF Passwd!Endpwent
<1>8. CASE Passwd!Getpwuid
  <2>1. /\ pc = "chpt8_q1" /\ order # <<>> /\ order' = Tail(order)
        /\ users' = users /\ cursor' = cursor /\ failed' = failed
        /\ \/ /\ Head(order) < Len(users) /\ pc' = pc
              /\ area' = users[Head(order) + 1]
           \/ pc' = "crashed"
    BY <1>8 DEF Passwd!Getpwuid
  <2>2. \/ order \in {<<0, 1>>, <<1, 0>>} /\ order' \in {<<0>>, <<1>>}
        \/ /\ order \in {<<0>>, <<1>>} /\ order' = <<>>
           /\ Head(order) + 1 \in {1, 2}
    <3>1. /\ Tail(<<0, 1>>) = <<1>> /\ Tail(<<1, 0>>) = <<0>>
          /\ Tail(<<0>>) = <<>> /\ Tail(<<1>>) = <<>>
          /\ Head(<<0>>) = 0 /\ Head(<<1>>) = 1
      OBVIOUS
    <3>2. order \in {<<0, 1>>, <<1, 0>>, <<0>>, <<1>>}
      BY <2>1
    <3>3. CASE order = <<0, 1>> \/ order = <<1, 0>>
      BY <2>1, <3>1, <3>3
    <3>4. CASE order = <<0>> \/ order = <<1>>
      <4>1. order' = <<>> /\ Head(order) \in {0, 1}
        BY <2>1, <3>1, <3>4
      <4> QED
        BY <3>4, <4>1
    <3> QED
      BY <3>2, <3>3, <3>4
  <2>3. CASE pc' = "crashed"
    BY <1>1, <2>1, <2>3
  <2>4. CASE pc' = pc /\ area' = users[Head(order) + 1]
    <3>1. \/ order' \in {<<0, 1>>, <<1, 0>>, <<0>>, <<1>>}
          \/ order' = <<>> /\ \E k \in {1, 2} : area' = users[k]
      BY <2>2, <2>4
    <3> QED
      BY <1>1, <2>1, <2>4, <3>1
  <2> QED
    BY <2>1, <2>3, <2>4
<1>9. CASE Passwd!Printf
  BY <1>1, <1>9 DEF Passwd!Printf
<1>10. CASE Passwd!GetpwentFails
  BY <1>1, <1>10 DEF Passwd!GetpwentFails
<1> QED
  BY <1>2, <1>3, <1>4, <1>5, <1>6, <1>7, <1>8, <1>9, <1>10
     DEF Passwd!Next, Passwd!Step

-----------------------------------------------------------------------------
(* A nonempty set of natural numbers has a least element.  The library     *)
(* states this without an operator as parameter, so that a minimal         *)
(* counterexample can stand for an induction.                              *)
LEMMA LeastNat ==
  ASSUME NEW T \in SUBSET Nat, NEW n \in T
  PROVE  \E m \in T : \A k \in T : m <= k
<1>1. PICK Less : Less = {ss \in Nat \X Nat : ss[1] < ss[2]}
  OBVIOUS
<1>2. IsWellFoundedOn({ss \in Nat \X Nat : ss[1] < ss[2]}, Nat)
  BY NatLessThanWellFounded DEF OpToRel
<1>3. IsWellFoundedOn(Less, Nat)
  BY <1>1, <1>2, Zenon
<1>4. PICK m \in T : \A k \in T : ~(<<k, m>> \in Less)
  BY <1>3, WFMin
<1>5. \A k \in T : <<k, m>> \in Less <=> k < m
  BY <1>1
<1>6. \A k \in T : ~(k < m)
  BY <1>4, <1>5, Zenon
<1>7. m \in Nat /\ \A k \in T : k \in Nat
  OBVIOUS
<1>8. \A k \in T : m <= k
  BY <1>6, <1>7
<1> QED
  BY <1>8

-----------------------------------------------------------------------------
(* What a write at or behind the end of a file leaves: a gap is a hole. *)
LEMMA PutAtFacts ==
  ASSUME NEW S, NEW f \in Seq(S), NEW at \in Nat, Len(f) <= at,
         NEW s \in Seq(S), Len(s) > 0, Nulls!Hole \in S
  PROVE  /\ Nulls!PutAt(f, at, s) \in Seq(S)
         /\ Len(Nulls!PutAt(f, at, s)) = at + Len(s)
         /\ \A k \in 1 .. at + Len(s) :
              Nulls!PutAt(f, at, s)[k] =
                IF k > at THEN s[k - at]
                ELSE IF k <= Len(f) THEN f[k] ELSE Nulls!Hole
<1>1. PICK m : m = Len(f)
  OBVIOUS
<1>2. PICK n : n = Len(s)
  OBVIOUS
<1>3. /\ m \in Nat /\ n \in Nat /\ m <= at /\ n > 0
      /\ f \in [1 .. m -> S] /\ s \in [1 .. n -> S]
  BY <1>1, <1>2, LenProperties
<1>4. s # <<>>
  BY <1>3
<1>5. PICK g : g = [k \in 1 .. at + n |-> IF k > at THEN s[k - at]
                                          ELSE IF k <= m THEN f[k]
                                          ELSE Nulls!Hole]
  OBVIOUS
<1>6. g = Nulls!PutAt(f, at, s)
  <2>1. Nulls!PutAt(f, at, s) =
          [k \in 1 .. IF at + n < m THEN m ELSE at + n |->
             IF k \in at + 1 .. at + n THEN s[k - at]
             ELSE IF k <= m THEN f[k] ELSE Nulls!Hole]
    BY <1>1, <1>2, <1>4 DEF Nulls!PutAt
  <2>2. (IF at + n < m THEN m ELSE at + n) = at + n
    BY <1>3
  <2>3. \A k \in 1 .. at + n : k > at <=> k \in at + 1 .. at + n
    BY <1>3
  <2> QED
    BY <1>5, <2>1, <2>2, <2>3
<1>7. g \in [1 .. at + n -> S]
  BY <1>3, <1>5
<1>8. at + n \in Nat
  BY <1>3
<1>9. g \in Seq(S)
  BY <1>7, <1>8, SeqDef
<1>10. Len(g) = at + n
  <2>1. Len(g) \in Nat /\ 1 .. Len(g) = 1 .. at + n
    BY <1>7, <1>9, LenProperties, Zenon
  <2>2. PICK k \in Nat : k = Len(g)
    BY <2>1
  <2> QED
    BY <1>8, <2>1, <2>2, FS_Interval
<1> QED
  BY <1>1, <1>2, <1>5, <1>6, <1>9, <1>10

(* NullHoles: what has been written reads like the source with its nulls   *)
(* as holes; between the end of the destination and its offset the source  *)
(* has nulls only, and from there to the byte that is scanned only nulls   *)
(* or only others, as inside_hole says.                                    *)
NullsInv ==
  /\ src \in Seq(Content) /\ dst \in Seq(Content \cup {Nulls!Hole})
  /\ {dst_offset, total_read, nread, i, nonhole_begin, hole_begin} \subseteq Nat
  /\ inside_hole \in BOOLEAN
  /\ Len(dst) <= Len(src)
  /\ \A k \in 1 .. Len(dst) : dst[k] = Nulls!AsCell(src[k])
  /\ total_read <= Len(src) /\ nread <= total_read /\ i <= nread
  /\ nonhole_begin <= i
  /\ Nulls!OffsetsAgree
  /\ pc \in {"read", "scan"} =>
       /\ Len(dst) <= dst_offset /\ dst_offset <= Nulls!At(i)
       /\ \A k \in Len(dst) + 1 .. dst_offset : src[k] = Nulls!Null
       /\ \A k \in dst_offset + 1 .. Nulls!At(i) :
            src[k] = Nulls!Null <=> inside_hole
  /\ pc = "read" => i = nread
  /\ pc = "exited" =>
       \A k \in Len(dst) + 1 .. Len(src) : src[k] = Nulls!Null

(* The copy starts at the beginning of both files. *)
LEMMA NullsInit == Nulls!Init => NullsInv
<1> SUFFICES ASSUME Nulls!Init
             PROVE  NullsInv
  OBVIOUS
<1>1. PICK n \in 0 .. MaxSize : src \in [1 .. n -> Content]
  BY DEF Nulls!Init
<1>2. n \in Nat
  BY <1>1, ConstantsAssumption DEF Nulls!ConstantsOK
<1>3. src \in Seq(Content) /\ Len(src) \in Nat
  BY <1>1, <1>2, SeqDef, LenProperties
<1>4. dst \in Seq(Content \cup {Nulls!Hole}) /\ Len(dst) = 0
  BY EmptySeq DEF Nulls!Init
<1>5. /\ dst_offset = 0 /\ total_read = 0 /\ nread = 0 /\ i = 0
      /\ nonhole_begin = 0 /\ hole_begin = 0 /\ inside_hole = FALSE
      /\ pc = "read"
  BY DEF Nulls!Init
<1>6. Nulls!At(i) = 0 /\ Nulls!OffsetsAgree
  BY <1>5 DEF Nulls!OffsetsAgree, Nulls!At
<1>7. {dst_offset, total_read, nread, i, nonhole_begin, hole_begin}
        \subseteq Nat
  BY <1>5
<1>8. /\ \A k \in 1 .. Len(dst) : FALSE
      /\ \A k \in Len(dst) + 1 .. dst_offset : FALSE
      /\ \A k \in dst_offset + 1 .. Nulls!At(i) : FALSE
  BY <1>4, <1>5, <1>6
<1>9. /\ Len(dst) <= Len(src) /\ total_read <= Len(src) /\ nread <= total_read
      /\ i <= nread /\ nonhole_begin <= i /\ Len(dst) <= dst_offset
      /\ dst_offset <= Nulls!At(i) /\ i = nread
  BY <1>3, <1>4, <1>5, <1>6
<1> QED
  BY <1>3, <1>4, <1>5, <1>6, <1>7, <1>8, <1>9 DEF NullsInv

(* The bytes of the buffer from nonhole_begin on to j are written. *)
LEMMA DeliverFacts ==
  ASSUME NullsInv, pc = "scan", ~inside_hole, NEW j \in Nat,
         nonhole_begin <= j, j <= i, Nulls!Deliver(j)
  PROVE  /\ dst' \in Seq(Content \cup {Nulls!Hole})
         /\ dst_offset' = Nulls!At(j)
         /\ Len(dst') \in Nat /\ Len(dst') <= Nulls!At(j)
         /\ \A k \in 1 .. Len(dst') : dst'[k] = Nulls!AsCell(src[k])
         /\ \A k \in Len(dst') + 1 .. Nulls!At(j) : src[k] = Nulls!Null
<1>1. PICK size : size = Len(src)
  OBVIOUS
<1>2. PICK end : end = Len(dst)
  OBVIOUS
<1>3. PICK from : from = Nulls!At(nonhole_begin)
  OBVIOUS
<1>4. PICK to : to = Nulls!At(j)
  OBVIOUS
<1>5. /\ src \in Seq(Content) /\ size \in Nat /\ src \in [1 .. size -> Content]
      /\ dst \in Seq(Content \cup {Nulls!Hole}) /\ end \in Nat
  BY <1>1, <1>2, LenProperties DEF NullsInv
<1>6. /\ from \in Nat /\ to \in Nat /\ from <= to /\ to <= Nulls!At(i)
      /\ to <= size /\ dst_offset = from /\ end <= from
      /\ to - from = j - nonhole_begin
  <2>1. /\ total_read \in Nat /\ nread \in Nat /\ i \in Nat
        /\ nonhole_begin \in Nat /\ dst_offset \in Nat
        /\ total_read <= Len(src) /\ nread <= total_read /\ i <= nread
    BY DEF NullsInv
  <2>2. dst_offset = Nulls!At(nonhole_begin) /\ Len(dst) <= dst_offset
    BY DEF NullsInv, Nulls!OffsetsAgree
  <2> QED
    BY <1>1, <1>2, <1>3, <1>4, <1>5, <2>1, <2>2 DEF Nulls!At
<1>7. /\ \A k \in 1 .. end : dst[k] = Nulls!AsCell(src[k])
      /\ \A k \in end + 1 .. from : src[k] = Nulls!Null
      /\ \A k \in from + 1 .. to : src[k] # Nulls!Null
  <2>1. \A k \in from + 1 .. to : k \in dst_offset + 1 .. Nulls!At(i)
    BY <1>6 DEF NullsInv, Nulls!At
  <2>2. \A k \in dst_offset + 1 .. Nulls!At(i) : src[k] # Nulls!Null
    BY DEF NullsInv
  <2>3. \A k \in Len(dst) + 1 .. dst_offset : src[k] = Nulls!Null
    BY DEF NullsInv
  <2>4. \A k \in 1 .. Len(dst) : dst[k] = Nulls!AsCell(src[k])
    BY DEF NullsInv
  <2> QED
    BY <1>2, <1>6, <2>1, <2>2, <2>3, <2>4
<1>8. PICK s : s = SubSeq(src, from + 1, to)
  OBVIOUS
<1>9. /\ dst_offset' = from + (j - nonhole_begin)
      /\ dst' = Nulls!PutAt(dst, from, s)
  BY <1>3, <1>4, <1>6, <1>8 DEF Nulls!Deliver
<1>10. dst_offset' = to
  BY <1>6, <1>9 DEF NullsInv
<1>11. /\ s \in Seq(Content) /\ Len(s) = to - from
       /\ \A k \in 1 .. to - from : s[k] = src[from + k]
  <2>1. /\ from + 1 \in Int /\ to \in Int /\ to - (from + 1) + 1 = to - from
        /\ \A k \in from + 1 .. to : src[k] \in Content
        /\ \A k \in 1 .. to - from : from + 1 + k - 1 = from + k
    BY <1>5, <1>6
  <2>2. (IF from + 1 <= to THEN to - (from + 1) + 1 ELSE 0) = to - from
    BY <1>6
  <2> QED
    BY <1>8, <2>1, <2>2, SubSeqProperties
<1>12. CASE from = to
  <2>1. s = <<>>
    BY <1>6, <1>11, <1>12, EmptySeq
  <2>2. dst' = dst
    BY <1>9, <2>1 DEF Nulls!PutAt
  <2> QED
    BY <1>2, <1>4, <1>5, <1>6, <1>7, <1>10, <1>12, <2>2
<1>13. CASE from # to
  <2>1. s \in Seq(Content \cup {Nulls!Hole})
    BY <1>11, SeqMonotonic
  <2>2. from + Len(s) = to /\ Len(s) > 0
    BY <1>6, <1>11, <1>13
  <2>3. /\ dst' \in Seq(Content \cup {Nulls!Hole}) /\ Len(dst') = to
        /\ \A k \in 1 .. to :
             dst'[k] = IF k > from THEN s[k - from]
                       ELSE IF k <= end THEN dst[k] ELSE Nulls!Hole
    <3>1. /\ from \in Nat /\ Len(dst) <= from
          /\ Nulls!Hole \in Content \cup {Nulls!Hole}
      BY <1>2, <1>6
    <3>2. /\ dst' \in Seq(Content \cup {Nulls!Hole})
          /\ Len(dst') = from + Len(s)
          /\ \A k \in 1 .. from + Len(s) :
               dst'[k] = IF k > from THEN s[k - from]
                         ELSE IF k <= Len(dst) THEN dst[k] ELSE Nulls!Hole
      <4>1. PICK S : S = Content \cup {Nulls!Hole}
        OBVIOUS
      <4>2. /\ dst \in Seq(S) /\ s \in Seq(S) /\ Nulls!Hole \in S
            /\ from \in Nat /\ Len(dst) <= from /\ Len(s) > 0
        BY <1>5, <2>1, <2>2, <3>1, <4>1
      <4>3. /\ Nulls!PutAt(dst, from, s) \in Seq(S)
            /\ Len(Nulls!PutAt(dst, from, s)) = from + Len(s)
            /\ \A k \in 1 .. from + Len(s) :
                 Nulls!PutAt(dst, from, s)[k] =
                   IF k > from THEN s[k - from]
                   ELSE IF k <= Len(dst) THEN dst[k] ELSE Nulls!Hole
        BY <4>2, PutAtFacts
      <4> QED
        BY <1>9, <4>1, <4>3
    <3> QED
      BY <1>2, <2>2, <3>2
  <2>4. ASSUME NEW k \in 1 .. to
        PROVE  dst'[k] = Nulls!AsCell(src[k])
    <3>1. CASE k > from
      <4>1. dst'[k] = src[k] /\ src[k] # Nulls!Null
        <5>1. PICK m : m = k - from
          OBVIOUS
        <5>2. m \in 1 .. to - from /\ from + m = k /\ k \in from + 1 .. to
          BY <1>6, <3>1, <5>1
        <5>3. dst'[k] = s[m]
          BY <2>3, <3>1, <5>1
        <5> QED
          BY <1>7, <1>11, <5>2, <5>3
      <4> QED
        BY <4>1 DEF Nulls!AsCell
    <3>2. CASE k <= from /\ k > end
      <4>1. dst'[k] = Nulls!Hole /\ src[k] = Nulls!Null
        BY <1>5, <1>6, <1>7, <2>3, <3>2
      <4> QED
        BY <4>1 DEF Nulls!AsCell
    <3>3. CASE k <= end
      BY <1>5, <1>6, <1>7, <2>3, <3>3
    <3> QED
      BY <1>5, <1>6, <3>1, <3>2, <3>3
  <2>5. \A k \in to + 1 .. to : src[k] = Nulls!Null
    BY <1>6
  <2> QED
    BY <1>4, <1>6, <1>10, <2>3, <2>4, <2>5
<1> QED
  BY <1>12, <1>13

(* Every step of the copy preserves the invariant. *)
LEMMA NullsStep == NullsInv /\ [Nulls!Next]_Nulls!vars => NullsInv'
<1> SUFFICES ASSUME NullsInv, [Nulls!Next]_Nulls!vars
             PROVE  NullsInv'
  OBVIOUS
<1>1. /\ src \in Seq(Content) /\ dst \in Seq(Content \cup {Nulls!Hole})
      /\ dst_offset \in Nat /\ total_read \in Nat /\ nread \in Nat /\ i \in Nat
      /\ nonhole_begin \in Nat /\ hole_begin \in Nat /\ inside_hole \in BOOLEAN
      /\ Len(src) \in Nat /\ Len(dst) \in Nat
      /\ total_read <= Len(src) /\ nread <= total_read /\ i <= nread
      /\ nonhole_begin <= i
  BY LenProperties DEF NullsInv
<1>2. /\ Len(dst) <= Len(src)
      /\ \A k \in 1 .. Len(dst) : dst[k] = Nulls!AsCell(src[k])
      /\ Nulls!OffsetsAgree
      /\ pc = "read" => i = nread
      /\ pc = "exited" =>
           \A k \in Len(dst) + 1 .. Len(src) : src[k] = Nulls!Null
  BY DEF NullsInv
<1>3. pc \in {"read", "scan"} =>
        /\ Len(dst) <= dst_offset /\ dst_offset <= Nulls!At(i)
        /\ \A k \in Len(dst) + 1 .. dst_offset : src[k] = Nulls!Null
        /\ \A k \in dst_offset + 1 .. Nulls!At(i) :
             src[k] = Nulls!Null <=> inside_hole
  BY DEF NullsInv
<1>4. Nulls!At(i) \in Nat /\ Nulls!At(i) <= total_read
  BY <1>1 DEF Nulls!At
<1>5. CASE UNCHANGED Nulls!vars
  BY <1>5 DEF Nulls!vars, Nulls!files, Nulls!buffer, NullsInv,
              Nulls!OffsetsAgree, Nulls!At
<1>6. CASE Nulls!Read
  <2>1. PICK n \in 1 .. BUFFER_SZ :
          /\ total_read + n <= Len(src)
          /\ nread' = n /\ total_read' = total_read + n
    BY <1>6 DEF Nulls!Read
  <2>2. /\ pc = "read" /\ pc' = "scan" /\ i' = 0 /\ nonhole_begin' = 0
        /\ src' = src /\ dst' = dst /\ dst_offset' = dst_offset
        /\ inside_hole' = inside_hole /\ hole_begin' = hole_begin
    BY <1>6 DEF Nulls!Read, Nulls!files
  <2>3. n \in Nat
    BY ConstantsAssumption DEF Nulls!ConstantsOK
  <2>4. Nulls!At(i) = total_read /\ Nulls!At(0)' = total_read
    BY <1>1, <1>2, <2>1, <2>2, <2>3 DEF Nulls!At
  <2>5. Nulls!OffsetsAgree'
    BY <1>1, <1>2, <2>2, <2>4 DEF Nulls!OffsetsAgree
  <2>6. /\ {dst_offset', total_read', nread', i', nonhole_begin', hole_begin'}
              \subseteq Nat
        /\ total_read' <= Len(src) /\ nread' <= total_read' /\ i' <= nread'
        /\ nonhole_begin' <= i' /\ Nulls!At(i)' = total_read
    BY <1>1, <2>1, <2>2, <2>3, <2>4
  <2> QED
    BY <1>1, <1>2, <1>3, <2>2, <2>4, <2>5, <2>6 DEF NullsInv
<1>7. CASE Nulls!BeginHole
  <2>1. /\ pc = "scan" /\ pc' = "scan" /\ i < nread /\ i' = i + 1
        /\ src[Nulls!At(i) + 1] = Nulls!Null
        /\ ~inside_hole /\ inside_hole' = TRUE /\ hole_begin' = Nulls!At(i)
        /\ src' = src /\ total_read' = total_read /\ nread' = nread
        /\ nonhole_begin' = nonhole_begin
    BY <1>7 DEF Nulls!BeginHole, Nulls!Scanning, Nulls!BufferAt, Nulls!buffer
  <2>2. /\ dst' \in Seq(Content \cup {Nulls!Hole})
        /\ dst_offset' = Nulls!At(i)
        /\ Len(dst') \in Nat /\ Len(dst') <= Nulls!At(i)
        /\ \A k \in 1 .. Len(dst') : dst'[k] = Nulls!AsCell(src[k])
        /\ \A k \in Len(dst') + 1 .. Nulls!At(i) : src[k] = Nulls!Null
    <3>1. CASE i > nonhole_begin
      <4>1. Nulls!Deliver(i)
        BY <1>7, <3>1 DEF Nulls!BeginHole
      <4>2. nonhole_begin <= i /\ i <= i /\ i \in Nat
        BY <1>1
      <4> QED
        BY <2>1, <4>1, <4>2, DeliverFacts
    <3>2. CASE i = nonhole_begin
      <4>1. dst' = dst /\ dst_offset' = dst_offset
        BY <1>1, <1>7, <3>2 DEF Nulls!BeginHole
      <4>2. dst_offset = Nulls!At(i)
        BY <1>2, <2>1, <3>2 DEF Nulls!OffsetsAgree
      <4> QED
        BY <1>1, <1>2, <1>3, <2>1, <4>1, <4>2
    <3> QED
      BY <1>1, <3>1, <3>2
  <2>3. Nulls!At(i)' = Nulls!At(i) + 1
    BY <1>1, <2>1 DEF Nulls!At
  <2>4. Nulls!OffsetsAgree'
    BY <2>1, <2>2 DEF Nulls!OffsetsAgree
  <2>5. /\ {dst_offset', total_read', nread', i', nonhole_begin', hole_begin'}
              \subseteq Nat
        /\ i' <= nread' /\ nonhole_begin' <= i' /\ Len(dst') <= Len(src)
        /\ dst_offset' <= Nulls!At(i)'
    BY <1>1, <1>4, <2>1, <2>2, <2>3
  <2>6. \A k \in dst_offset' + 1 .. Nulls!At(i)' : src[k] = Nulls!Null
    <3>1. \A k \in Nulls!At(i) + 1 .. Nulls!At(i) + 1 : k = Nulls!At(i) + 1
      BY <1>4
    <3> QED
      BY <2>1, <2>2, <2>3, <3>1
  <2> QED
    BY <1>1, <2>1, <2>2, <2>4, <2>5, <2>6 DEF NullsInv
<1>8. CASE Nulls!EndHole
  <2>1. /\ pc = "scan" /\ pc' = "scan" /\ i < nread /\ i' = i + 1
        /\ src[Nulls!At(i) + 1] # Nulls!Null
        /\ inside_hole /\ inside_hole' = FALSE /\ hole_begin' = hole_begin
        /\ dst_offset' = dst_offset + (Nulls!At(i) - hole_begin)
        /\ src' = src /\ total_read' = total_read /\ nread' = nread
        /\ nonhole_begin' = i /\ dst' = dst
    BY <1>8 DEF Nulls!EndHole, Nulls!Scanning, Nulls!BufferAt, Nulls!buffer,
                Nulls!HoleLength
  <2>2. dst_offset = hole_begin /\ dst_offset' = Nulls!At(i)
    BY <1>1, <1>2, <1>4, <2>1 DEF Nulls!OffsetsAgree
  <2>3. Nulls!At(i)' = Nulls!At(i) + 1 /\ Nulls!At(nonhole_begin)' = Nulls!At(i)
    BY <1>1, <2>1 DEF Nulls!At
  <2>4. Nulls!OffsetsAgree'
    BY <2>1, <2>2, <2>3 DEF Nulls!OffsetsAgree
  <2>5. /\ {dst_offset', total_read', nread', i', nonhole_begin', hole_begin'}
              \subseteq Nat
        /\ i' <= nread' /\ nonhole_begin' <= i'
        /\ dst_offset' <= Nulls!At(i)' /\ Len(dst) <= dst_offset'
    BY <1>1, <1>3, <1>4, <2>1, <2>2, <2>3
  <2>6. \A k \in Len(dst) + 1 .. dst_offset' : src[k] = Nulls!Null
    <3>1. \A k \in Len(dst) + 1 .. Nulls!At(i) :
            \/ k \in Len(dst) + 1 .. dst_offset
            \/ k \in dst_offset + 1 .. Nulls!At(i)
      BY <1>1, <1>4
    <3> QED
      BY <1>3, <2>1, <2>2, <3>1
  <2>7. \A k \in dst_offset' + 1 .. Nulls!At(i)' : src[k] # Nulls!Null
    <3>1. \A k \in Nulls!At(i) + 1 .. Nulls!At(i) + 1 : k = Nulls!At(i) + 1
      BY <1>4
    <3> QED
      BY <2>1, <2>2, <2>3, <3>1
  <2> QED
    BY <1>1, <1>2, <2>1, <2>4, <2>5, <2>6, <2>7 DEF NullsInv
<1>9. CASE Nulls!PassByte
  <2>1. /\ pc = "scan" /\ pc' = "scan" /\ i < nread /\ i' = i + 1
        /\ inside_hole <=> src[Nulls!At(i) + 1] = Nulls!Null
        /\ inside_hole' = inside_hole /\ hole_begin' = hole_begin
        /\ dst_offset' = dst_offset
        /\ src' = src /\ total_read' = total_read /\ nread' = nread
        /\ nonhole_begin' = nonhole_begin /\ dst' = dst
    BY <1>9 DEF Nulls!PassByte, Nulls!Scanning, Nulls!BufferAt, Nulls!buffer,
                Nulls!files
  <2>2. /\ Nulls!At(i)' = Nulls!At(i) + 1
        /\ Nulls!At(nonhole_begin)' = Nulls!At(nonhole_begin)
    BY <1>1, <2>1 DEF Nulls!At
  <2>3. Nulls!OffsetsAgree'
    BY <1>2, <2>1, <2>2 DEF Nulls!OffsetsAgree
  <2>4. /\ {dst_offset', total_read', nread', i', nonhole_begin', hole_begin'}
              \subseteq Nat
        /\ i' <= nread' /\ nonhole_begin' <= i' /\ dst_offset' <= Nulls!At(i)'
    BY <1>1, <1>3, <1>4, <2>1, <2>2
  <2>5. \A k \in dst_offset' + 1 .. Nulls!At(i)' :
          src[k] = Nulls!Null <=> inside_hole
    <3>1. \A k \in dst_offset + 1 .. Nulls!At(i) + 1 :
            k \in dst_offset + 1 .. Nulls!At(i) \/ k = Nulls!At(i) + 1
      BY <1>1, <1>4
    <3> QED
      BY <1>3, <2>1, <2>2, <3>1
  <2> QED
    BY <1>1, <1>2, <1>3, <2>1, <2>3, <2>4, <2>5 DEF NullsInv
<1>10. CASE Nulls!EndOfBuffer
  <2>1. /\ pc = "scan" /\ pc' = "read" /\ i = nread /\ i' = i
        /\ inside_hole' = inside_hole /\ hole_begin' = hole_begin
        /\ src' = src /\ total_read' = total_read /\ nread' = nread
        /\ nonhole_begin' = nonhole_begin
    BY <1>10 DEF Nulls!EndOfBuffer, Nulls!buffer
  <2>2. Nulls!At(i) = total_read /\ Nulls!At(i)' = total_read
    BY <1>1, <2>1 DEF Nulls!At
  <2>3. CASE inside_hole
    <3>1. dst' = dst /\ dst_offset' = dst_offset
      BY <1>10, <2>3 DEF Nulls!EndOfBuffer
    <3>2. Nulls!OffsetsAgree'
      BY <1>2, <2>1, <2>3, <3>1 DEF Nulls!OffsetsAgree
    <3> QED
      BY <1>1, <1>2, <1>3, <2>1, <2>2, <3>1, <3>2 DEF NullsInv
  <2>4. CASE ~inside_hole
    <3>1. Nulls!Deliver(nread)
      BY <1>10, <2>4 DEF Nulls!EndOfBuffer
    <3>2. /\ dst' \in Seq(Content \cup {Nulls!Hole})
          /\ dst_offset' = Nulls!At(nread)
          /\ Len(dst') \in Nat /\ Len(dst') <= Nulls!At(nread)
          /\ \A k \in 1 .. Len(dst') : dst'[k] = Nulls!AsCell(src[k])
          /\ \A k \in Len(dst') + 1 .. Nulls!At(nread) : src[k] = Nulls!Null
      <4>1. nonhole_begin <= nread /\ nread <= i /\ nread \in Nat
        BY <1>1, <2>1
      <4> QED
        BY <2>1, <2>4, <3>1, <4>1, DeliverFacts
    <3>3. dst_offset' = total_read /\ Nulls!At(nread) = total_read
      BY <2>1, <2>2, <3>2
    <3>4. Nulls!OffsetsAgree'
      BY <2>1, <2>4, <3>3 DEF Nulls!OffsetsAgree
    <3>5. /\ {dst_offset', total_read', nread', i', nonhole_begin', hole_begin'}
               \subseteq Nat
          /\ Len(dst') <= Len(src) /\ Len(dst') <= dst_offset'
          /\ dst_offset' <= Nulls!At(i)'
      BY <1>1, <2>1, <2>2, <3>2, <3>3
    <3>6. \A k \in dst_offset' + 1 .. Nulls!At(i)' : FALSE
      BY <1>1, <2>2, <3>3
    <3> QED
      BY <1>1, <2>1, <2>4, <3>2, <3>3, <3>4, <3>5, <3>6 DEF NullsInv
  <2> QED
    BY <2>3, <2>4
<1>11. CASE Nulls!EndOfFile
  <2>1. /\ pc = "read" /\ pc' = "exited" /\ total_read = Len(src)
        /\ UNCHANGED <<src, dst, dst_offset, total_read, nread, i,
                       nonhole_begin, inside_hole, hole_begin>>
    BY <1>11 DEF Nulls!EndOfFile, Nulls!files, Nulls!buffer
  <2>2. Nulls!At(i) = Len(src)
    BY <1>1, <1>2, <2>1 DEF Nulls!At
  <2>3. \A k \in Len(dst) + 1 .. Len(src) : src[k] = Nulls!Null
    <3>1. ~inside_hole => dst_offset = Len(src)
      BY <1>2, <2>1 DEF Nulls!OffsetsAgree
    <3>2. \A k \in Len(dst) + 1 .. Len(src) :
            k \in Len(dst) + 1 .. dst_offset \/ k \in dst_offset + 1 .. Len(src)
      BY <1>1
    <3>3. ~inside_hole => \A k \in dst_offset + 1 .. Len(src) : FALSE
      BY <1>1, <3>1
    <3> QED
      BY <1>3, <2>1, <2>2, <3>2, <3>3
  <2>4. Nulls!OffsetsAgree'
    BY <1>2, <2>1 DEF Nulls!OffsetsAgree
  <2> QED
    BY <1>1, <1>2, <2>1, <2>3, <2>4 DEF NullsInv
<1>12. CASE Nulls!Fail
  <2>1. /\ pc' = "died"
        /\ UNCHANGED <<src, dst, dst_offset, total_read, nread, i,
                       nonhole_begin, inside_hole, hole_begin>>
    BY <1>12 DEF Nulls!Fail, Nulls!files, Nulls!buffer
  <2>2. Nulls!OffsetsAgree'
    BY <1>2, <2>1 DEF Nulls!OffsetsAgree
  <2> QED
    BY <1>1, <1>2, <2>1, <2>2 DEF NullsInv
<1> QED
  BY <1>5, <1>6, <1>7, <1>8, <1>9, <1>10, <1>11, <1>12 DEF Nulls!Next

(* What the run checks follows from the invariant. *)
LEMMA NullsShown == NullsInv => Nulls!OffsetsAgree /\ Nulls!NullsAreHoles
<1> SUFFICES ASSUME NullsInv
             PROVE  Nulls!OffsetsAgree /\ Nulls!NullsAreHoles
  OBVIOUS
<1>1. /\ Len(src) \in Nat /\ DOMAIN src = 1 .. Len(src)
      /\ Len(dst) \in Nat /\ DOMAIN dst = 1 .. Len(dst)
  BY LenProperties DEF NullsInv
<1>2. \A k \in DOMAIN src : k > Len(dst) => k \in Len(dst) + 1 .. Len(src)
  BY <1>1
<1> QED
  BY <1>1, <1>2 DEF NullsInv, Nulls!NullsAreHoles

-----------------------------------------------------------------------------
(* ENXIO of SEEK_DATA: what is left of the file is a hole. *)
LEMMA NoDataFacts ==
  ASSUME NEW S, NEW f \in Seq(S), NEW at \in Nat, Sparse!DataFrom(f, at) = {}
  PROVE  \A k \in at + 1 .. Len(f) : f[k] = Sparse!Hole
<1>1. PICK m \in Nat : m = Len(f)
  BY LenProperties
<1>2. PICK T : T = {j \in at .. m - 1 : f[j + 1] # Sparse!Hole}
  OBVIOUS
<1>3. T \in SUBSET Nat
  BY <1>1, <1>2
<1>4. ASSUME NEW n \in T
      PROVE  FALSE
  <2>1. PICK j \in T : \A k \in T : j <= k
    BY <1>3, LeastNat
  <2>2. j \in at .. m - 1 /\ f[j + 1] # Sparse!Hole
    BY <1>2
  <2>3. ASSUME NEW k \in at .. j - 1
        PROVE  f[k + 1] = Sparse!Hole
    <3>1. k \in at .. m - 1 /\ ~(j <= k)
      BY <1>1, <2>2
    <3> QED
      BY <1>2, <2>1, <3>1
  <2>4. j \in Sparse!DataFrom(f, at)
    BY <1>1, <2>2, <2>3 DEF Sparse!DataFrom
  <2> QED
    BY <2>4
<1>5. ASSUME NEW k \in at + 1 .. m
      PROVE  f[k] = Sparse!Hole
  <2>1. k - 1 \in at .. m - 1 /\ (k - 1) + 1 = k
    BY <1>1
  <2> QED
    BY <1>2, <1>4, <2>1
<1> QED
  BY <1>1, <1>5

(* SEEK_DATA answers the next byte that is not in a hole. *)
LEMMA DataFacts ==
  ASSUME NEW S, NEW f \in Seq(S), NEW at \in Nat,
         NEW b \in Sparse!DataFrom(f, at)
  PROVE  /\ b \in Nat /\ at <= b /\ b < Len(f) /\ f[b + 1] # Sparse!Hole
         /\ \A k \in at + 1 .. b : f[k] = Sparse!Hole
<1>1. PICK m \in Nat : m = Len(f)
  BY LenProperties
<1>2. /\ b \in at .. m - 1 /\ f[b + 1] # Sparse!Hole
      /\ \A j \in at .. b - 1 : f[j + 1] = Sparse!Hole
  BY <1>1 DEF Sparse!DataFrom
<1>3. ASSUME NEW k \in at + 1 .. b
      PROVE  f[k] = Sparse!Hole
  <2>1. k - 1 \in at .. b - 1 /\ (k - 1) + 1 = k
    BY <1>2
  <2> QED
    BY <1>2, <2>1
<1> QED
  BY <1>1, <1>2, <1>3

(* SEEK_HOLE answers the end of the data that it starts in. *)
LEMMA HoleFacts ==
  ASSUME NEW S, NEW f \in Seq(S), NEW at \in Nat, at < Len(f),
         f[at + 1] # Sparse!Hole
  PROVE  /\ Sparse!HoleFrom(f, at) \in at + 1 .. Len(f)
         /\ \A k \in at + 1 .. Sparse!HoleFrom(f, at) : f[k] # Sparse!Hole
<1>1. PICK m \in Nat : m = Len(f)
  BY LenProperties
<1>2. PICK T : T = {j \in at .. m : j = m \/ f[j + 1] = Sparse!Hole}
  OBVIOUS
<1>3. T \in SUBSET Nat /\ m \in T
  BY <1>1, <1>2
<1>4. PICK t \in T : \A k \in T : t <= k
  BY <1>3, LeastNat
<1>5. t \in at .. m /\ (t = m \/ f[t + 1] = Sparse!Hole)
  BY <1>2
<1>6. ASSUME NEW j \in at .. t - 1
      PROVE  f[j + 1] # Sparse!Hole
  <2>1. j \in at .. m /\ ~(t <= j)
    BY <1>1, <1>5
  <2> QED
    BY <1>2, <1>4, <2>1
<1>7. PICK h : h = Sparse!HoleFrom(f, at)
  OBVIOUS
<1>8. /\ h \in at .. m /\ (h = m \/ f[h + 1] = Sparse!Hole)
      /\ \A j \in at .. h - 1 : f[j + 1] # Sparse!Hole
  BY <1>1, <1>5, <1>6, <1>7 DEF Sparse!HoleFrom
<1>9. h \in at + 1 .. m
  BY <1>1, <1>8
<1>10. ASSUME NEW k \in at + 1 .. h
       PROVE  f[k] # Sparse!Hole
  <2>1. k - 1 \in at .. h - 1 /\ (k - 1) + 1 = k
    BY <1>8
  <2> QED
    BY <1>8, <2>1
<1> QED
  BY <1>1, <1>7, <1>9, <1>10

(* Both copies write in the same way. *)
LEMMA SparsePutAt ==
  ASSUME NEW f, NEW at, NEW s
  PROVE  Sparse!PutAt(f, at, s) = Nulls!PutAt(f, at, s)
BY DEF Sparse!PutAt, Nulls!PutAt, Sparse!Hole, Nulls!Hole

(* SparseCopy: the destination reads like the source, except that the end  *)
(* has been written before its hole is punched; between data_begin and     *)
(* data_end the source has data and from the end of the destination to the *)
(* place of the next write a hole, although another process appends to the *)
(* source.                                                                 *)
SparseInv ==
  /\ src \in Seq(Sparse!Cells) /\ dst \in Seq(Sparse!Cells)
  /\ {src_file_size, data_begin, data_end, read_within_region} \subseteq Nat
  /\ src_file_size <= Len(src) /\ data_end <= Len(src) /\ Len(dst) <= Len(src)
  /\ \A k \in 1 .. Len(dst) :
       \/ dst[k] = src[k]
       \/ /\ pc \in {"punch", "died"} /\ k > data_end
          /\ dst[k] = Sparse!Null /\ src[k] = Sparse!Hole
  /\ pc \in {"open", "seek_data", "seek_hole"} => Len(dst) = data_end
  /\ pc = "seek_hole" =>
       /\ data_end <= data_begin /\ data_begin < Len(src)
       /\ src[data_begin + 1] # Sparse!Hole
       /\ \A k \in data_end + 1 .. data_begin : src[k] = Sparse!Hole
  /\ pc = "copy" =>
       /\ data_begin < data_end
       /\ Len(dst) <= Sparse!Position /\ Sparse!Position <= data_end
       /\ \A k \in data_begin + 1 .. data_end : src[k] # Sparse!Hole
       /\ \A k \in Len(dst) + 1 .. Sparse!Position : src[k] = Sparse!Hole
  /\ pc = "punch" =>
       /\ data_end <= Len(dst)
       /\ \A k \in data_end + 1 .. Len(dst) : src[k] = Sparse!Hole
  /\ pc \in {"punch", "finish", "exited"} => src_file_size <= Len(dst)

(* The copy starts with an empty destination. *)
LEMMA SparseInit == Sparse!Init => SparseInv
<1> SUFFICES ASSUME Sparse!Init
             PROVE  SparseInv
  OBVIOUS
<1>1. PICK n \in 0 .. MaxSize : src \in [1 .. n -> Sparse!Cells]
  BY DEF Sparse!Init
<1>2. n \in Nat
  BY <1>1, ConstantsAssumption DEF Sparse!ConstantsOK
<1>3. src \in Seq(Sparse!Cells) /\ Len(src) \in Nat
  BY <1>1, <1>2, SeqDef, LenProperties
<1>4. dst \in Seq(Sparse!Cells) /\ Len(dst) = 0
  BY EmptySeq DEF Sparse!Init
<1>5. /\ src_file_size = 0 /\ data_begin = 0 /\ data_end = 0
      /\ read_within_region = 0 /\ pc = "open"
  BY DEF Sparse!Init
<1>6. \A k \in 1 .. Len(dst) : FALSE
  BY <1>4
<1> QED
  BY <1>3, <1>4, <1>5, <1>6 DEF SparseInv

(* A read and a write within a region of data preserve the invariant, also *)
(* if they are short.                                                      *)
LEMMA SparseCopyBytes ==
  ASSUME SparseInv, Sparse!CopyBytes
  PROVE  SparseInv'
<1>1. PICK n \in 1 .. BUFFER_SZ :
        /\ Sparse!Position + n <= data_end
        /\ dst' = Sparse!PutAt(dst, Sparse!Position,
                    Sparse!Bytes(SubSeq(src, Sparse!Position + 1,
                                        Sparse!Position + n)))
        /\ read_within_region' = read_within_region + n
  BY DEF Sparse!CopyBytes
<1>2. /\ pc = "copy" /\ pc' = "copy" /\ src' = src
      /\ src_file_size' = src_file_size /\ data_begin' = data_begin
      /\ data_end' = data_end
  BY DEF Sparse!CopyBytes
<1>3. PICK at : at = Sparse!Position
  OBVIOUS
<1>4. PICK size : size = Len(src)
  OBVIOUS
<1>5. PICK end : end = Len(dst)
  OBVIOUS
<1>6. /\ src \in Seq(Sparse!Cells) /\ dst \in Seq(Sparse!Cells)
      /\ src_file_size \in Nat /\ data_begin \in Nat /\ data_end \in Nat
      /\ read_within_region \in Nat /\ size \in Nat /\ end \in Nat
      /\ src \in [1 .. size -> Sparse!Cells]
  BY <1>4, <1>5, LenProperties DEF SparseInv
<1>7. /\ at = data_begin + read_within_region /\ at \in Nat
      /\ n \in Nat /\ n > 0 /\ at + n <= data_end /\ data_end <= size
      /\ end <= at /\ src_file_size <= size
      /\ Sparse!Position' = at + n
  <2>1. n \in Nat
    BY ConstantsAssumption DEF Sparse!ConstantsOK
  <2>2. Sparse!Position' = data_begin' + read_within_region'
    BY DEF Sparse!Position
  <2> QED
    BY <1>1, <1>2, <1>3, <1>4, <1>5, <1>6, <2>1, <2>2
       DEF Sparse!Position, SparseInv
<1>8. /\ \A k \in data_begin + 1 .. data_end : src[k] # Sparse!Hole
      /\ \A k \in end + 1 .. at : src[k] = Sparse!Hole
      /\ \A k \in 1 .. end : dst[k] = src[k]
  BY <1>2, <1>3, <1>5 DEF SparseInv
<1>9. PICK t : t = SubSeq(src, at + 1, at + n)
  OBVIOUS
<1>10. /\ t \in Seq(Sparse!Cells) /\ Len(t) = n
       /\ \A k \in 1 .. n : t[k] = src[at + k]
  <2>1. /\ at + 1 \in Int /\ at + n \in Int /\ at + n - (at + 1) + 1 = n
        /\ \A k \in at + 1 .. at + n : src[k] \in Sparse!Cells
        /\ \A k \in 1 .. n : at + 1 + k - 1 = at + k
    BY <1>6, <1>7
  <2>2. (IF at + 1 <= at + n THEN at + n - (at + 1) + 1 ELSE 0) = n
    BY <1>7
  <2> QED
    BY <1>9, <2>1, <2>2, SubSeqProperties
<1>11. PICK s : s = Sparse!Bytes(t)
  OBVIOUS
<1>12. /\ s \in Seq(Sparse!Cells) /\ Len(s) = n
       /\ \A k \in 1 .. n : s[k] = src[at + k]
  <2>1. DOMAIN t = 1 .. n /\ t \in [1 .. n -> Sparse!Cells]
    BY <1>10, LenProperties
  <2>2. \A k \in 1 .. n : t[k] # Sparse!Hole
    <3>1. \A k \in 1 .. n : at + k \in data_begin + 1 .. data_end
      BY <1>6, <1>7
    <3> QED
      BY <1>8, <1>10, <3>1
  <2>3. s = [k \in 1 .. n |-> Sparse!Byte(t[k])]
    BY <1>11, <2>1 DEF Sparse!Bytes
  <2>4. \A k \in 1 .. n : Sparse!Byte(t[k]) = t[k]
    BY <2>2 DEF Sparse!Byte
  <2>5. s = t
    BY <2>1, <2>3, <2>4
  <2> QED
    BY <1>10, <2>5
<1>13. /\ dst' \in Seq(Sparse!Cells) /\ Len(dst') = at + n
       /\ \A k \in 1 .. at + n :
            dst'[k] = IF k > at THEN s[k - at]
                      ELSE IF k <= end THEN dst[k] ELSE Sparse!Hole
  <2>1. dst' = Nulls!PutAt(dst, at, s)
    BY <1>1, <1>3, <1>9, <1>11, SparsePutAt
  <2>2. Nulls!Hole = Sparse!Hole /\ Nulls!Hole \in Sparse!Cells
    BY DEF Nulls!Hole, Sparse!Hole, Sparse!Cells
  <2>3. Len(dst) <= at /\ Len(s) > 0
    BY <1>5, <1>7, <1>12
  <2>4. /\ Nulls!PutAt(dst, at, s) \in Seq(Sparse!Cells)
        /\ Len(Nulls!PutAt(dst, at, s)) = at + Len(s)
        /\ \A k \in 1 .. at + Len(s) :
             Nulls!PutAt(dst, at, s)[k] =
               IF k > at THEN s[k - at]
               ELSE IF k <= Len(dst) THEN dst[k] ELSE Nulls!Hole
    <3>1. PICK S : S = Sparse!Cells
      OBVIOUS
    <3>2. /\ dst \in Seq(S) /\ s \in Seq(S) /\ Nulls!Hole \in S
          /\ at \in Nat /\ Len(dst) <= at /\ Len(s) > 0
      BY <1>6, <1>7, <1>12, <2>2, <2>3, <3>1
    <3>3. /\ Nulls!PutAt(dst, at, s) \in Seq(S)
          /\ Len(Nulls!PutAt(dst, at, s)) = at + Len(s)
          /\ \A k \in 1 .. at + Len(s) :
               Nulls!PutAt(dst, at, s)[k] =
                 IF k > at THEN s[k - at]
                 ELSE IF k <= Len(dst) THEN dst[k] ELSE Nulls!Hole
      BY <3>2, PutAtFacts
    <3> QED
      BY <3>1, <3>3
  <2> QED
    BY <1>5, <1>12, <2>1, <2>2, <2>4
<1>14. ASSUME NEW k \in 1 .. at + n
       PROVE  dst'[k] = src[k]
  <2>1. CASE k > at
    <3>1. k - at \in 1 .. n /\ at + (k - at) = k
      BY <1>7, <2>1
    <3> QED
      BY <1>12, <1>13, <2>1, <3>1
  <2>2. CASE k <= at /\ k > end
    BY <1>6, <1>7, <1>8, <1>13, <2>2
  <2>3. CASE k <= end
    BY <1>6, <1>7, <1>8, <1>13, <2>3
  <2> QED
    BY <1>6, <1>7, <2>1, <2>2, <2>3
<1>15. \A k \in at + n + 1 .. at + n : FALSE
  BY <1>7
<1>16. /\ {src_file_size', data_begin', data_end', read_within_region'}
            \subseteq Nat
       /\ data_begin < data_end
  BY <1>1, <1>2, <1>6, <1>7 DEF SparseInv
<1> QED
  BY <1>2, <1>4, <1>6, <1>7, <1>8, <1>13, <1>14, <1>15, <1>16 DEF SparseInv

(* Every step of the copy, and of the process that appends to the source,  *)
(* preserves the invariant.                                                *)
LEMMA SparseStep == SparseInv /\ [Sparse!Next]_Sparse!vars => SparseInv'
<1> SUFFICES ASSUME SparseInv, [Sparse!Next]_Sparse!vars
             PROVE  SparseInv'
  OBVIOUS
<1>1. /\ src \in Seq(Sparse!Cells) /\ dst \in Seq(Sparse!Cells)
      /\ src_file_size \in Nat /\ data_begin \in Nat /\ data_end \in Nat
      /\ read_within_region \in Nat /\ Len(src) \in Nat /\ Len(dst) \in Nat
      /\ src_file_size <= Len(src) /\ data_end <= Len(src)
      /\ Len(dst) <= Len(src)
  BY LenProperties DEF SparseInv
<1>2. CASE UNCHANGED Sparse!vars
  BY <1>2 DEF Sparse!vars, Sparse!locals, SparseInv, Sparse!Position
<1>3. CASE Sparse!OpenBoth
  BY <1>1, <1>3 DEF Sparse!OpenBoth, SparseInv
<1>4. CASE Sparse!SeekData
  <2>1. PICK b \in Sparse!DataFrom(src, data_end) : data_begin' = b
    BY <1>4 DEF Sparse!SeekData
  <2>2. /\ b \in Nat /\ data_end <= b /\ b < Len(src)
        /\ src[b + 1] # Sparse!Hole
        /\ \A k \in data_end + 1 .. b : src[k] = Sparse!Hole
    BY <1>1, DataFacts
  <2> QED
    BY <1>1, <1>4, <2>1, <2>2 DEF Sparse!SeekData, SparseInv
<1>5. CASE Sparse!NoMoreData
  <2>1. /\ pc = "seek_data" /\ Sparse!DataFrom(src, data_end) = {}
        /\ UNCHANGED <<src, src_file_size, data_begin, data_end,
                       read_within_region>>
    BY <1>5 DEF Sparse!NoMoreData, Sparse!locals
  <2>2. /\ Len(dst) = data_end
        /\ \A k \in 1 .. Len(dst) : dst[k] = src[k]
    BY <2>1 DEF SparseInv
  <2>3. \A k \in data_end + 1 .. Len(src) : src[k] = Sparse!Hole
    BY <1>1, <2>1, NoDataFacts
  <2>4. CASE data_end < src_file_size
    <3>1. dst' = Sparse!Allocated /\ pc' = "punch"
      BY <1>5, <2>4 DEF Sparse!NoMoreData
    <3>2. PICK n \in Nat : n = src_file_size
      BY <1>1
    <3>3. dst' = [k \in 1 .. n |-> IF k <= data_end THEN dst[k]
                                   ELSE Sparse!Null]
      BY <3>1, <3>2 DEF Sparse!Allocated
    <3>4. Sparse!Null \in Sparse!Cells
      BY ConstantsAssumption
         DEF Nulls!ConstantsOK, Nulls!Null, Sparse!Null, Sparse!Cells
    <3>5. \A k \in 1 .. n : k <= data_end => dst[k] \in Sparse!Cells
      BY <1>1, <2>2, ElementOfSeq
    <3>6. dst' \in [1 .. n -> Sparse!Cells]
      BY <3>3, <3>4, <3>5
    <3>7. dst' \in Seq(Sparse!Cells) /\ Len(dst') = n
      <4>1. dst' \in Seq(Sparse!Cells)
        BY <3>6, SeqDef
      <4>2. Len(dst') \in Nat /\ 1 .. Len(dst') = 1 .. n
        BY <3>6, <4>1, LenProperties, Zenon
      <4>3. PICK m \in Nat : m = Len(dst')
        BY <4>2
      <4> QED
        BY <4>1, <4>2, <4>3, FS_Interval
    <3>8. \A k \in 1 .. n :
            \/ dst'[k] = src[k]
            \/ /\ k > data_end /\ dst'[k] = Sparse!Null
               /\ src[k] = Sparse!Hole
      <4>1. \A k \in 1 .. n : k > data_end => k \in data_end + 1 .. Len(src)
        BY <1>1, <3>2
      <4>2. \A k \in 1 .. n : k <= data_end => k \in 1 .. Len(dst)
        BY <1>1, <2>2
      <4> QED
        BY <1>1, <2>2, <2>3, <3>3, <4>1, <4>2
    <3>9. \A k \in data_end + 1 .. n : src[k] = Sparse!Hole
      BY <1>1, <2>3, <3>2
    <3> QED
      BY <1>1, <2>1, <2>4, <3>1, <3>2, <3>7, <3>8, <3>9 DEF SparseInv
  <2>5. CASE ~(data_end < src_file_size)
    <3>1. dst' = dst /\ pc' = "finish"
      BY <1>5, <2>5 DEF Sparse!NoMoreData
    <3> QED
      BY <1>1, <2>1, <2>2, <2>5, <3>1 DEF SparseInv
  <2> QED
    BY <2>4, <2>5
<1>6. CASE Sparse!PunchHole
  <2>1. /\ pc = "punch" /\ pc' = "finish"
        /\ UNCHANGED <<src, src_file_size, data_begin, data_end,
                       read_within_region>>
        /\ dst' = Sparse!PunchFrom(dst, data_end)
    BY <1>6 DEF Sparse!PunchHole, Sparse!TrailingHole, Sparse!locals
  <2>2. PICK n \in Nat : n = Len(dst)
    BY <1>1
  <2>3. dst' = [k \in 1 .. n |-> IF k <= data_end THEN dst[k]
                                 ELSE Sparse!Hole]
    <3>1. DOMAIN dst = 1 .. n
      BY <1>1, <2>2, LenProperties
    <3> QED
      BY <2>1, <3>1 DEF Sparse!PunchFrom
  <2>4. /\ src_file_size <= n
        /\ \A k \in 1 .. n : k <= data_end => dst[k] = src[k]
        /\ \A k \in data_end + 1 .. n : src[k] = Sparse!Hole
    BY <1>1, <2>1, <2>2 DEF SparseInv
  <2>5. \A k \in 1 .. n : dst[k] \in Sparse!Cells
    BY <1>1, <2>2, ElementOfSeq
  <2>6. dst' \in [1 .. n -> Sparse!Cells]
    BY <2>3, <2>5 DEF Sparse!Cells
  <2>7. dst' \in Seq(Sparse!Cells) /\ Len(dst') = n
    <3>1. dst' \in Seq(Sparse!Cells)
      BY <2>6, SeqDef
    <3>2. Len(dst') \in Nat /\ 1 .. Len(dst') = 1 .. n
      BY <2>6, <3>1, LenProperties, Zenon
    <3>3. PICK m \in Nat : m = Len(dst')
      BY <3>2
    <3> QED
      BY <3>1, <3>2, <3>3, FS_Interval
  <2>8. \A k \in 1 .. n : dst'[k] = src[k]
    <3>1. \A k \in 1 .. n : ~(k <= data_end) => k \in data_end + 1 .. n
      BY <1>1
    <3> QED
      BY <2>3, <2>4, <3>1
  <2> QED
    BY <1>1, <2>1, <2>2, <2>4, <2>7, <2>8 DEF SparseInv
<1>7. CASE Sparse!SeekHole
  <2>1. /\ pc = "seek_hole" /\ pc' = "copy" /\ read_within_region' = 0
        /\ data_end' = Sparse!HoleFrom(src, data_begin)
        /\ UNCHANGED <<src, dst, src_file_size, data_begin>>
    BY <1>7 DEF Sparse!SeekHole
  <2>2. /\ Len(dst) <= data_begin /\ data_begin < Len(src)
        /\ src[data_begin + 1] # Sparse!Hole
        /\ \A k \in Len(dst) + 1 .. data_begin : src[k] = Sparse!Hole
        /\ \A k \in 1 .. Len(dst) : dst[k] = src[k]
    BY <1>1, <2>1 DEF SparseInv
  <2>3. PICK h : h = Sparse!HoleFrom(src, data_begin)
    OBVIOUS
  <2>4. /\ h \in data_begin + 1 .. Len(src)
        /\ \A k \in data_begin + 1 .. h : src[k] # Sparse!Hole
    BY <1>1, <2>2, <2>3, HoleFacts
  <2>5. h \in Nat /\ data_begin < h /\ h <= Len(src)
    BY <1>1, <2>4
  <2>6. Sparse!Position' = data_begin
    BY <1>1, <2>1 DEF Sparse!Position
  <2> QED
    BY <1>1, <2>1, <2>2, <2>3, <2>4, <2>5, <2>6 DEF SparseInv
<1>8. CASE Sparse!CopyBytes
  BY <1>8, SparseCopyBytes
<1>9. CASE Sparse!RegionCopied
  <2>1. /\ pc = "copy" /\ pc' = "seek_data" /\ Sparse!Position = data_end
        /\ UNCHANGED <<src, dst, src_file_size, data_begin, data_end,
                       read_within_region>>
    BY <1>1, <1>9 DEF Sparse!RegionCopied, Sparse!locals, Sparse!Position
  <2>2. /\ data_begin < data_end /\ Len(dst) <= data_end
        /\ \A k \in data_begin + 1 .. data_end : src[k] # Sparse!Hole
        /\ \A k \in Len(dst) + 1 .. data_end : src[k] = Sparse!Hole
        /\ \A k \in 1 .. Len(dst) : dst[k] = src[k]
    BY <2>1 DEF SparseInv
  <2>3. Len(dst) = data_end
    <3>1. data_end \in data_begin + 1 .. data_end
      BY <1>1, <2>2
    <3>2. data_end \notin Len(dst) + 1 .. data_end
      BY <2>2, <3>1
    <3> QED
      BY <1>1, <2>2, <3>2
  <2> QED
    BY <1>1, <2>1, <2>2, <2>3 DEF SparseInv
<1>10. CASE Sparse!Finish
  <2>1. /\ pc = "finish" /\ pc' = "exited"
        /\ UNCHANGED <<src, dst, src_file_size, data_begin, data_end,
                       read_within_region>>
    BY <1>10 DEF Sparse!Finish, Sparse!locals
  <2> QED
    BY <1>1, <2>1 DEF SparseInv
<1>11. CASE Sparse!Fail
  <2>1. /\ pc' = "died"
        /\ UNCHANGED <<src, dst, src_file_size, data_begin, data_end,
                       read_within_region>>
    BY <1>11 DEF Sparse!Fail, Sparse!locals
  <2> QED
    BY <1>1, <2>1 DEF SparseInv
<1>12. CASE Sparse!AppendToSource
  <2>1. /\ UNCHANGED <<dst, src_file_size, data_begin, data_end,
                       read_within_region, pc>>
        /\ Sparse!Position' = Sparse!Position
    BY <1>12 DEF Sparse!AppendToSource, Sparse!locals, Sparse!Position
  <2>2. PICK c \in Sparse!Cells : src' = Append(src, c)
    BY <1>12 DEF Sparse!AppendToSource
  <2>3. PICK n \in Nat : n = Len(src)
    BY <1>1
  <2>4. /\ src' \in Seq(Sparse!Cells) /\ Len(src') = n + 1
        /\ \A k \in 1 .. n : src'[k] = src[k]
    BY <1>1, <2>2, <2>3, AppendProperties
  <2>5. /\ \A k \in 1 .. Len(dst) : src'[k] = src[k]
        /\ \A k \in 1 .. data_end : src'[k] = src[k]
        /\ data_begin < Len(src) =>
             /\ src'[data_begin + 1] = src[data_begin + 1]
             /\ \A k \in 1 .. data_begin : src'[k] = src[k]
    BY <1>1, <2>3, <2>4
  <2>6. /\ \A k \in 1 .. Len(dst) :
            \/ dst'[k] = src'[k]
            \/ /\ pc' \in {"punch", "died"} /\ k > data_end'
               /\ dst'[k] = Sparse!Null /\ src'[k] = Sparse!Hole
    BY <2>1, <2>5 DEF SparseInv
  <2>7. pc = "seek_hole" =>
          /\ data_end <= data_begin /\ data_begin < n + 1
          /\ src'[data_begin + 1] # Sparse!Hole
          /\ \A k \in data_end + 1 .. data_begin : src'[k] = Sparse!Hole
    <3>1. pc = "seek_hole" =>
            /\ data_end <= data_begin /\ data_begin < n
            /\ src[data_begin + 1] # Sparse!Hole
            /\ \A k \in data_end + 1 .. data_begin : src[k] = Sparse!Hole
      BY <2>3 DEF SparseInv
    <3>2. data_end \in Nat /\ data_begin \in Nat
      BY <1>1
    <3>3. \A k \in data_end + 1 .. data_begin : k \in 1 .. data_begin
      BY <3>2
    <3> QED
      BY <2>3, <2>5, <3>1, <3>2, <3>3
  <2>8. pc = "copy" =>
          /\ \A k \in data_begin + 1 .. data_end : src'[k] # Sparse!Hole
          /\ \A k \in Len(dst) + 1 .. Sparse!Position : src'[k] = Sparse!Hole
    <3>1. pc = "copy" =>
            /\ \A k \in data_begin + 1 .. data_end : src[k] # Sparse!Hole
            /\ \A k \in Len(dst) + 1 .. Sparse!Position : src[k] = Sparse!Hole
            /\ Sparse!Position <= data_end
      BY DEF SparseInv
    <3>2. /\ data_begin \in Nat /\ data_end \in Nat /\ Len(dst) \in Nat
          /\ Sparse!Position \in Nat
      BY <1>1 DEF Sparse!Position
    <3>3. /\ \A k \in data_begin + 1 .. data_end : k \in 1 .. data_end
          /\ pc = "copy" =>
               \A k \in Len(dst) + 1 .. Sparse!Position : k \in 1 .. data_end
      BY <3>1, <3>2
    <3> QED
      BY <2>5, <3>1, <3>3
  <2>9. pc = "punch" =>
          \A k \in data_end + 1 .. Len(dst) : src'[k] = Sparse!Hole
    BY <1>1, <2>5 DEF SparseInv
  <2>10. /\ src_file_size <= n + 1 /\ data_end <= n + 1 /\ Len(dst) <= n + 1
    BY <1>1, <2>3
  <2> QED
    BY <1>1, <2>1, <2>4, <2>6, <2>7, <2>8, <2>9, <2>10 DEF SparseInv
<1> QED
  BY <1>2, <1>3, <1>4, <1>5, <1>6, <1>7, <1>8, <1>9, <1>10, <1>11, <1>12
     DEF Sparse!Next, Sparse!Step

(* What the run checks follows from the invariant. *)
LEMMA SparseShown == SparseInv => Sparse!ExactSoFar /\ Sparse!AllCopied
<1> SUFFICES ASSUME SparseInv
             PROVE  Sparse!ExactSoFar /\ Sparse!AllCopied
  OBVIOUS
<1>1. Len(dst) \in Nat /\ DOMAIN dst = 1 .. Len(dst)
  BY LenProperties DEF SparseInv
<1> QED
  BY <1>1 DEF SparseInv, Sparse!ExactSoFar, Sparse!AllCopied

-----------------------------------------------------------------------------
(* The end of what the file of tee may have of the input: the bytes in the *)
(* buffer do not count before they are written.                            *)
FileEnd ==
  IF pc = "write_file" /\ nr_read > 0 THEN consumed - nr_read ELSE consumed

(* The same for its standard output, which is written last. *)
StdoutEnd ==
  IF pc \in {"write_file", "write_stdout"} /\ nr_read > 0
  THEN consumed - nr_read ELSE consumed

(* An output f with kept bytes of before: what it has of the input is in   *)
(* order and not behind end, and without a short write it is everything.   *)
GotThrough(f, kept, end) ==
  /\ f \in Seq(Nat) /\ kept <= Len(f)
  /\ \A j \in kept + 1 .. Len(f) : f[j] <= end
  /\ \A j, k \in kept + 1 .. Len(f) : j < k => f[j] < f[k]
  /\ whole => /\ Len(f) = kept + end
              /\ \A k \in 1 .. end : f[kept + k] = k

(* Tee: what the outputs have got through to.  The file is fsync'ed before *)
(* it is closed, and at the end of the input no byte is left over.         *)
TeeInv ==
  /\ append \in BOOLEAN /\ whole \in BOOLEAN
  /\ input \in Nat /\ consumed \in Nat /\ nr_read \in Int
  /\ consumed <= input /\ nr_read >= -1 /\ nr_read <= consumed
  /\ pc = "open" => consumed = 0
  /\ pc \notin {"open", "died"} =>
       /\ GotThrough(file, Len(Tee!Kept), FileEnd)
       /\ \A k \in 1 .. Len(Tee!Kept) : file[k] = Tee!Kept[k]
  /\ GotThrough(stdout, 0, StdoutEnd)
  /\ pc \in {"fsync", "close", "exited"} => consumed = input
  /\ pc \in {"close", "exited"} => ~dirty

(* What the file has before the first write: nothing, or with -a two bytes *)
(* that are none of the input.                                             *)
LEMMA KeptFacts ==
  /\ Tee!Kept \in Seq(Nat) /\ Len(Tee!Kept) \in {0, 2}
  /\ \A k \in 1 .. Len(Tee!Kept) : Tee!Kept[k] = 0
  /\ Len(Tee!Kept) = 0 => Tee!Kept = <<>>
<1>1. Tee!Kept = <<0, 0>> \/ Tee!Kept = <<>>
  BY DEF Tee!Kept, Tee!Prior
<1>2. CASE Tee!Kept = <<0, 0>>
  <2>1. <<0, 0>> \in Seq(Nat) /\ Len(<<0, 0>>) = 2
    OBVIOUS
  <2>2. \A k \in 1 .. 2 : k = 1 \/ k = 2
    OBVIOUS
  <2>3. <<0, 0>>[1] = 0 /\ <<0, 0>>[2] = 0
    OBVIOUS
  <2> QED
    BY <1>2, <2>1, <2>2, <2>3
<1>3. CASE Tee!Kept = <<>>
  BY <1>3, EmptySeq
<1> QED
  BY <1>1, <1>2, <1>3

(* One write of the buffer, from what GotThrough says before it to what it *)
(* says after it.                                                          *)
LEMMA TakenFacts ==
  ASSUME NEW f, NEW g, NEW kept \in Nat, NEW start \in Nat,
         whole \in BOOLEAN, consumed \in Nat, nr_read \in Int, nr_read >= -1,
         start = (IF nr_read > 0 THEN consumed - nr_read ELSE consumed),
         GotThrough(f, kept, start), Tee!Taken(f, g)
  PROVE  /\ g \in Seq(Nat) /\ kept <= Len(g)
         /\ \A j \in kept + 1 .. Len(g) : g[j] <= consumed
         /\ \A j, k \in kept + 1 .. Len(g) :
              j < k => g[j] < g[k]
         /\ whole' \in BOOLEAN
         /\ whole' => /\ whole /\ Len(g) = kept + consumed
                      /\ \A k \in 1 .. consumed : g[kept + k] = k
         /\ \A k \in 1 .. kept : g[k] = f[k]
<1>1. PICK n \in 0 .. (IF nr_read = -1 THEN 0 ELSE nr_read) :
        /\ g = f \o SubSeq(Tee!Buffer, 1, n)
        /\ whole' = (whole /\ n >= nr_read)
  BY DEF Tee!Taken
<1>2. PICK size : size = Len(f)
  OBVIOUS
<1>3. /\ f \in Seq(Nat) /\ size \in Nat /\ kept <= size
      /\ \A j \in kept + 1 .. size : f[j] <= start
      /\ \A j, k \in kept + 1 .. size : j < k => f[j] < f[k]
      /\ whole => /\ size = kept + start
                  /\ \A k \in 1 .. start : f[kept + k] = k
  BY <1>2, LenProperties DEF GotThrough
<1>4. /\ n \in Nat /\ start + n <= consumed
      /\ n >= nr_read => start + n = consumed
      /\ n > 0 => start = consumed - nr_read /\ n <= nr_read
  BY <1>1
<1>5. PICK s : s = SubSeq(Tee!Buffer, 1, n)
  OBVIOUS
<1>6. /\ s \in Seq(Nat) /\ Len(s) = n
      /\ \A k \in 1 .. n : s[k] = start + k
  <2>1. \A k \in 1 .. n : Tee!Buffer[k] = start + k
    <3>1. \A k \in 1 .. nr_read : Tee!Buffer[k] = consumed - nr_read + k
      BY DEF Tee!Buffer
    <3>2. \A k \in 1 .. n : k \in 1 .. nr_read
      BY <1>4
    <3> QED
      BY <1>4, <3>1, <3>2
  <2>2. \A k \in 1 .. n : Tee!Buffer[k] \in Nat
    BY <1>4, <2>1
  <2>3. /\ \A k \in 1 .. n : 1 + k - 1 = k
        /\ (IF 1 <= n THEN n - 1 + 1 ELSE 0) = n
    BY <1>4
  <2>4. /\ SubSeq(Tee!Buffer, 1, n) \in Seq(Nat)
        /\ Len(SubSeq(Tee!Buffer, 1, n)) = IF 1 <= n THEN n - 1 + 1 ELSE 0
        /\ \A k \in 1 .. n - 1 + 1 :
             SubSeq(Tee!Buffer, 1, n)[k] = Tee!Buffer[1 + k - 1]
    BY <1>4, <2>2, SubSeqProperties
  <2>5. n - 1 + 1 = n
    BY <1>4
  <2> QED
    BY <1>5, <2>1, <2>3, <2>4, <2>5
<1>7. g = f \o s
  BY <1>1, <1>5
<1>8. /\ g \in Seq(Nat) /\ Len(g) = size + n
      /\ \A k \in 1 .. size : g[k] = f[k]
      /\ \A k \in 1 .. n : g[size + k] = start + k
  <2>1. /\ f \o s \in Seq(Nat) /\ Len(f \o s) = Len(f) + Len(s)
        /\ \A k \in 1 .. Len(f) + Len(s) :
             (f \o s)[k] = IF k <= Len(f) THEN f[k]
                             ELSE s[k - Len(f)]
    BY <1>3, <1>6, ConcatProperties
  <2>2. /\ \A k \in 1 .. size + n :
             g[k] = IF k <= size THEN f[k] ELSE s[k - size]
        /\ Len(g) = size + n /\ g \in Seq(Nat)
    BY <1>2, <1>6, <1>7, <2>1
  <2>3. /\ \A k \in 1 .. size + n : ~(k <= size) => g[k] = s[k - size]
        /\ \A k \in 1 .. size + n : k <= size => g[k] = f[k]
    BY <2>2, Zenon
  <2>4. /\ \A k \in 1 .. size : k \in 1 .. size + n /\ k <= size
        /\ \A k \in 1 .. n : /\ size + k \in 1 .. size + n
                             /\ ~(size + k <= size) /\ size + k - size = k
    BY <1>3, <1>4
  <2>5. ASSUME NEW k \in 1 .. n
        PROVE  g[size + k] = s[k]
    <3>1. PICK j : j = size + k
      OBVIOUS
    <3>2. /\ j \in 1 .. size + n /\ ~(j <= size) /\ j - size = k
      BY <1>3, <1>4, <3>1
    <3>3. g[j] = s[j - size]
      BY <2>3, <3>2, Zenon
    <3> QED
      BY <3>1, <3>2, <3>3, Zenon
  <2> QED
    BY <1>6, <2>2, <2>4, <2>5, <2>3
<1>9. ASSUME NEW j \in kept + 1 .. size + n, ~(j <= size)
      PROVE  j - size \in 1 .. n /\ g[j] = start + (j - size)
  <2>1. j - size \in 1 .. n /\ size + (j - size) = j
    BY <1>3, <1>4, <1>9
  <2> QED
    BY <1>8, <2>1
<1>10. ASSUME NEW j \in kept + 1 .. size + n, j <= size
       PROVE  /\ g[j] = f[j] /\ f[j] \in Nat /\ f[j] <= start
              /\ j \in kept + 1 .. size
  <2>1. j \in 1 .. size /\ j \in kept + 1 .. size
    BY <1>3, <1>10
  <2> QED
    BY <1>2, <1>3, <1>8, <2>1, ElementOfSeq
<1>11. ASSUME NEW j \in kept + 1 .. size + n
       PROVE  g[j] <= consumed
  <2>1. CASE j <= size
    BY <1>4, <1>10, <2>1
  <2>2. CASE ~(j <= size)
    BY <1>3, <1>4, <1>9, <2>2
  <2> QED
    BY <2>1, <2>2
<1>12. ASSUME NEW j \in kept + 1 .. size + n, NEW k \in kept + 1 .. size + n,
              j < k
       PROVE  g[j] < g[k]
  <2>1. CASE k <= size
    <3>1. j <= size
      BY <1>3, <1>12, <2>1
    <3> QED
      BY <1>3, <1>10, <1>12, <2>1, <3>1
  <2>2. CASE ~(k <= size) /\ j <= size
    <3>1. /\ g[j] \in Nat /\ g[j] <= start
          /\ k - size \in 1 .. n /\ g[k] = start + (k - size)
      BY <1>9, <1>10, <2>2
    <3> QED
      BY <1>3, <3>1
  <2>3. CASE ~(k <= size) /\ ~(j <= size)
    <3>1. /\ j - size \in 1 .. n /\ g[j] = start + (j - size)
          /\ k - size \in 1 .. n /\ g[k] = start + (k - size)
      BY <1>9, <2>3
    <3> QED
      BY <1>3, <1>12, <3>1
  <2> QED
    BY <2>1, <2>2, <2>3
<1>13. ASSUME whole /\ n >= nr_read
       PROVE  /\ size + n = kept + consumed
              /\ \A k \in 1 .. consumed : g[kept + k] = k
  <2>1. size = kept + start /\ start + n = consumed
    BY <1>3, <1>4, <1>13
  <2>2. ASSUME NEW k \in 1 .. consumed
        PROVE  g[kept + k] = k
    <3>1. CASE k <= start
      <4>1. k \in 1 .. start /\ kept + k \in 1 .. size
        BY <2>1, <3>1
      <4> QED
        BY <1>3, <1>8, <1>13, <4>1
    <3>2. CASE ~(k <= start)
      <4>1. /\ k - start \in 1 .. n /\ size + (k - start) = kept + k
            /\ start + (k - start) = k
        BY <1>3, <1>4, <2>1, <3>2
      <4> QED
        BY <1>8, <4>1
    <3> QED
      BY <3>1, <3>2
  <2> QED
    BY <1>3, <1>4, <2>1, <2>2
<1>14. /\ \A k \in 1 .. kept : g[k] = f[k]
       /\ kept <= size + n
  BY <1>3, <1>4, <1>8
<1>15. /\ whole' \in BOOLEAN /\ (whole' => whole /\ n >= nr_read)
  BY <1>1, Zenon
<1>16. /\ whole' => whole
       /\ whole' => /\ size + n = kept + consumed
                    /\ \A k \in 1 .. consumed : g[kept + k] = k
  BY <1>13, <1>15, Zenon
<1>17. /\ \A j \in kept + 1 .. size + n : g[j] <= consumed
       /\ \A j, k \in kept + 1 .. size + n : j < k => g[j] < g[k]
  BY <1>11, <1>12
<1> QED
  BY <1>8, <1>14, <1>15, <1>16, <1>17, Zenon

(* tee starts with nothing read and nothing written. *)
LEMMA TeeInit == Tee!Init => TeeInv
<1> SUFFICES ASSUME Tee!Init
             PROVE  TeeInv
  OBVIOUS
<1>1. /\ append \in BOOLEAN /\ whole = TRUE /\ pc = "open"
      /\ consumed = 0 /\ nr_read = 0 /\ stdout = <<>>
  BY DEF Tee!Init
<1>2. input \in Nat
  BY ConstantsAssumption DEF Tee!Init, Tee!ConstantsOK
<1>3. stdout \in Seq(Nat) /\ Len(stdout) = 0
  BY <1>1, EmptySeq
<1>4. StdoutEnd = 0
  BY <1>1 DEF StdoutEnd
<1>5. GotThrough(stdout, 0, StdoutEnd)
  BY <1>3, <1>4 DEF GotThrough
<1> QED
  BY <1>1, <1>2, <1>5 DEF TeeInv

(* Every step of tee, the failing ones included, preserves the invariant. *)
LEMMA TeeStep == TeeInv /\ [Tee!Next]_Tee!vars => TeeInv'
<1> SUFFICES ASSUME TeeInv, [Tee!Next]_Tee!vars
             PROVE  TeeInv'
  OBVIOUS
<1>1. /\ append \in BOOLEAN /\ whole \in BOOLEAN
      /\ input \in Nat /\ consumed \in Nat /\ nr_read \in Int
      /\ consumed <= input /\ nr_read >= -1 /\ nr_read <= consumed
  BY DEF TeeInv
<1>2. /\ GotThrough(stdout, 0, StdoutEnd)
      /\ pc \notin {"open", "died"} =>
           /\ GotThrough(file, Len(Tee!Kept), FileEnd)
           /\ \A k \in 1 .. Len(Tee!Kept) : file[k] = Tee!Kept[k]
      /\ pc = "open" => consumed = 0
      /\ pc \in {"fsync", "close", "exited"} => consumed = input
      /\ pc \in {"close", "exited"} => ~dirty
  BY DEF TeeInv
<1>3. /\ Tee!Kept \in Seq(Nat) /\ Len(Tee!Kept) \in Nat
  BY KeptFacts
<1>4. append' = append => Tee!Kept' = Tee!Kept
  BY DEF Tee!Kept, Tee!Prior
<1>5. CASE UNCHANGED Tee!vars
  BY <1>1, <1>2, <1>4, <1>5
     DEF Tee!vars, TeeInv, GotThrough, FileEnd, StdoutEnd
<1>6. CASE Tee!Open
  <2>1. /\ pc = "open" /\ pc' = "read" /\ file' = Tee!Kept
        /\ UNCHANGED <<append, input, consumed, nr_read, stdout, whole>>
    BY <1>6 DEF Tee!Open
  <2>2. StdoutEnd = 0 /\ StdoutEnd' = 0 /\ FileEnd' = 0 /\ consumed = 0
    BY <1>1, <1>2, <2>1 DEF StdoutEnd, FileEnd
  <2>3. GotThrough(file, Len(Tee!Kept), FileEnd)'
    BY <1>3, <1>4, <2>1, <2>2 DEF GotThrough
  <2>4. GotThrough(stdout, 0, StdoutEnd)'
    BY <1>2, <2>1, <2>2 DEF GotThrough
  <2> QED
    BY <1>1, <1>4, <2>1, <2>2, <2>3, <2>4 DEF TeeInv
<1>7. CASE Tee!ReadData
  <2>1. PICK n \in 1 .. BUFFER_SZ :
          consumed + n <= input /\ nr_read' = n /\ consumed' = consumed + n
    BY <1>7 DEF Tee!ReadData
  <2>2. n \in Nat /\ n > 0
    BY ConstantsAssumption DEF Tee!ConstantsOK
  <2>3. /\ pc = "read" /\ pc' = "write_file"
        /\ UNCHANGED <<append, input, file, stdout, whole>>
    BY <1>7 DEF Tee!ReadData
  <2>4. /\ FileEnd = consumed /\ FileEnd' = consumed
        /\ StdoutEnd = consumed /\ StdoutEnd' = consumed
    BY <1>1, <2>1, <2>2, <2>3 DEF FileEnd, StdoutEnd
  <2>5. /\ GotThrough(file, Len(Tee!Kept), FileEnd)'
        /\ GotThrough(stdout, 0, StdoutEnd)'
    BY <1>2, <1>4, <2>3, <2>4 DEF GotThrough
  <2> QED
    BY <1>1, <1>2, <1>4, <2>1, <2>2, <2>3, <2>5 DEF TeeInv
<1>8. CASE Tee!ReadEnd
  <2>1. /\ pc = "read" /\ pc' = "fsync" /\ nr_read' = 0 /\ consumed = input
        /\ UNCHANGED <<append, input, consumed, file, stdout, whole>>
    BY <1>8 DEF Tee!ReadEnd
  <2>2. /\ FileEnd = consumed /\ FileEnd' = consumed
        /\ StdoutEnd = consumed /\ StdoutEnd' = consumed
    BY <1>1, <2>1 DEF FileEnd, StdoutEnd
  <2>3. /\ GotThrough(file, Len(Tee!Kept), FileEnd)'
        /\ GotThrough(stdout, 0, StdoutEnd)'
    BY <1>2, <1>4, <2>1, <2>2 DEF GotThrough
  <2> QED
    BY <1>1, <1>2, <1>4, <2>1, <2>3 DEF TeeInv
<1>9. CASE Tee!ReadError
  <2>1. /\ pc = "read" /\ pc' = "write_file" /\ nr_read' = -1
        /\ UNCHANGED <<append, input, consumed, file, stdout, whole>>
    BY <1>9 DEF Tee!ReadError
  <2>2. /\ FileEnd = consumed /\ FileEnd' = consumed
        /\ StdoutEnd = consumed /\ StdoutEnd' = consumed
    BY <1>1, <2>1 DEF FileEnd, StdoutEnd
  <2>3. /\ GotThrough(file, Len(Tee!Kept), FileEnd)'
        /\ GotThrough(stdout, 0, StdoutEnd)'
    BY <1>2, <1>4, <2>1, <2>2 DEF GotThrough
  <2> QED
    BY <1>1, <1>2, <1>4, <2>1, <2>3 DEF TeeInv
<1>10. CASE Tee!WriteFile
  <2>1. /\ pc = "write_file" /\ pc' = "write_stdout"
        /\ Tee!Taken(file, file')
        /\ UNCHANGED <<append, input, consumed, nr_read, stdout>>
    BY <1>10 DEF Tee!WriteFile
  <2>2. /\ FileEnd' = consumed /\ StdoutEnd' = StdoutEnd
        /\ FileEnd = IF nr_read > 0 THEN consumed - nr_read ELSE consumed
        /\ FileEnd \in Nat
    BY <1>1, <2>1 DEF FileEnd, StdoutEnd
  <2>3. GotThrough(file, Len(Tee!Kept), FileEnd)
    BY <1>2, <2>1
  <2>4. /\ file' \in Seq(Nat) /\ Len(Tee!Kept) <= Len(file')
        /\ \A j \in Len(Tee!Kept) + 1 .. Len(file') : file'[j] <= consumed
        /\ \A j, k \in Len(Tee!Kept) + 1 .. Len(file') :
             j < k => file'[j] < file'[k]
        /\ whole' \in BOOLEAN
        /\ whole' => /\ whole /\ Len(file') = Len(Tee!Kept) + consumed
                     /\ \A k \in 1 .. consumed : file'[Len(Tee!Kept) + k] = k
        /\ \A k \in 1 .. Len(Tee!Kept) : file'[k] = file[k]
    BY <1>1, <1>3, <2>1, <2>2, <2>3, TakenFacts
  <2>5. GotThrough(file, Len(Tee!Kept), FileEnd)'
    BY <1>4, <2>1, <2>2, <2>4 DEF GotThrough
  <2>6. GotThrough(stdout, 0, StdoutEnd)'
    BY <1>2, <2>1, <2>2, <2>4 DEF GotThrough
  <2> QED
    BY <1>1, <1>2, <1>4, <2>1, <2>4, <2>5, <2>6 DEF TeeInv
<1>11. CASE Tee!WriteStdout
  <2>1. /\ pc = "write_stdout" /\ pc' = "read"
        /\ Tee!Taken(stdout, stdout')
        /\ UNCHANGED <<append, input, consumed, nr_read, file>>
    BY <1>11 DEF Tee!WriteStdout
  <2>2. /\ StdoutEnd' = consumed /\ FileEnd = consumed /\ FileEnd' = consumed
        /\ StdoutEnd = IF nr_read > 0 THEN consumed - nr_read ELSE consumed
        /\ StdoutEnd \in Nat
    BY <1>1, <2>1 DEF FileEnd, StdoutEnd
  <2>3. /\ stdout' \in Seq(Nat) /\ 0 <= Len(stdout')
        /\ \A j \in 0 + 1 .. Len(stdout') : stdout'[j] <= consumed
        /\ \A j, k \in 0 + 1 .. Len(stdout') : j < k => stdout'[j] < stdout'[k]
        /\ whole' \in BOOLEAN
        /\ whole' => /\ whole /\ Len(stdout') = 0 + consumed
                     /\ \A k \in 1 .. consumed : stdout'[0 + k] = k
    BY <1>1, <1>2, <2>1, <2>2, TakenFacts
  <2>4. GotThrough(stdout, 0, StdoutEnd)'
    BY <2>1, <2>2, <2>3 DEF GotThrough
  <2>5. GotThrough(file, Len(Tee!Kept), FileEnd)'
    BY <1>2, <1>4, <2>1, <2>2, <2>3 DEF GotThrough
  <2> QED
    BY <1>1, <1>2, <1>4, <2>1, <2>3, <2>4, <2>5 DEF TeeInv
<1>12. CASE Tee!Fsync \/ Tee!Close \/ Tee!Fail
  <2>1. /\ UNCHANGED <<append, input, consumed, nr_read, file, stdout, whole>>
        /\ \/ pc = "fsync" /\ pc' = "close" /\ dirty' = FALSE
           \/ pc = "close" /\ pc' = "exited" /\ dirty' = dirty
           \/ pc \in {"open", "fsync", "close"} /\ pc' = "died"
    BY <1>12 DEF Tee!Fsync, Tee!Close, Tee!Fail
  <2>2. /\ FileEnd' = FileEnd /\ StdoutEnd' = StdoutEnd
        /\ pc' = "died" \/ pc \notin {"open", "died"}
    BY <2>1 DEF FileEnd, StdoutEnd
  <2>3. /\ GotThrough(stdout, 0, StdoutEnd)'
        /\ GotThrough(file, Len(Tee!Kept), FileEnd)
             => GotThrough(file, Len(Tee!Kept), FileEnd)'
    BY <1>2, <1>4, <2>1, <2>2 DEF GotThrough
  <2> QED
    BY <1>1, <1>2, <1>4, <2>1, <2>2, <2>3 DEF TeeInv
<1> QED
  BY <1>5, <1>6, <1>7, <1>8, <1>9, <1>10, <1>11, <1>12 DEF Tee!Next

(* What the run checks follows from the invariant. *)
LEMMA TeeShown == TeeInv => Tee!NothingRepeated /\ Tee!CompleteUnlessShort
<1> SUFFICES ASSUME TeeInv
             PROVE  Tee!NothingRepeated /\ Tee!CompleteUnlessShort
  OBVIOUS
<1>1. PICK kept : kept = Len(Tee!Kept)
  OBVIOUS
<1>2. /\ Tee!Kept \in Seq(Nat) /\ kept \in Nat
      /\ consumed \in Nat /\ whole \in BOOLEAN
      /\ GotThrough(stdout, 0, StdoutEnd)
      /\ pc \notin {"open", "died"} =>
           /\ GotThrough(file, kept, FileEnd)
           /\ \A k \in 1 .. kept : file[k] = Tee!Kept[k]
  BY <1>1, KeptFacts DEF TeeInv
<1>3. Tee!Ascending(stdout)
  <2>1. /\ stdout \in Seq(Nat)
        /\ \A j, k \in 0 + 1 .. Len(stdout) : j < k => stdout[j] < stdout[k]
    BY <1>2 DEF GotThrough
  <2>2. DOMAIN stdout = 1 .. Len(stdout) /\ 0 + 1 = 1
    BY <2>1, LenProperties
  <2> QED
    BY <2>1, <2>2 DEF Tee!Ascending
<1>4. ASSUME pc \notin {"open", "died"}
      PROVE  /\ SubSeq(file, 1, kept) = Tee!Kept
             /\ Tee!Ascending(SubSeq(file, kept + 1, Len(file)))
  <2>1. PICK size : size = Len(file)
    OBVIOUS
  <2>2. /\ file \in Seq(Nat) /\ size \in Nat /\ kept <= size
        /\ \A j, k \in kept + 1 .. size : j < k => file[j] < file[k]
        /\ \A k \in 1 .. kept : file[k] = Tee!Kept[k]
    BY <1>2, <1>4, <2>1, LenProperties DEF GotThrough
  <2>3. SubSeq(file, 1, kept) = Tee!Kept
    <3>1. \A k \in 1 .. kept : file[k] \in Nat
      <4>1. \A k \in 1 .. kept : k \in 1 .. size
        BY <1>2, <2>2
      <4> QED
        BY <2>1, <2>2, <4>1, ElementOfSeq
    <3>2. /\ SubSeq(file, 1, kept) \in Seq(Nat)
          /\ Len(SubSeq(file, 1, kept)) = IF 1 <= kept THEN kept - 1 + 1 ELSE 0
          /\ \A k \in 1 .. kept - 1 + 1 :
               SubSeq(file, 1, kept)[k] = file[1 + k - 1]
      BY <1>2, <3>1, SubSeqProperties
    <3>3. PICK s : s = SubSeq(file, 1, kept)
      OBVIOUS
    <3>4. /\ kept - 1 + 1 = kept /\ \A k \in 1 .. kept : 1 + k - 1 = k
          /\ (IF 1 <= kept THEN kept - 1 + 1 ELSE 0) = kept
      BY <1>2
    <3>5. /\ s \in Seq(Nat) /\ Len(s) = kept
          /\ \A k \in 1 .. kept : s[k] = file[k]
      BY <3>2, <3>3, <3>4
    <3>6. \A k \in 1 .. Len(s) : s[k] = Tee!Kept[k]
      BY <2>2, <3>5
    <3>7. s = Tee!Kept
      BY <1>1, <1>2, <3>5, <3>6, SeqEqual
    <3> QED
      BY <3>3, <3>7
  <2>4. Tee!Ascending(SubSeq(file, kept + 1, size))
    <3>1. \A k \in kept + 1 .. size : file[k] \in Nat
      <4>1. \A k \in kept + 1 .. size : k \in 1 .. size
        BY <1>2
      <4> QED
        BY <2>1, <2>2, <4>1, ElementOfSeq
    <3>2. PICK s : s = SubSeq(file, kept + 1, size)
      OBVIOUS
    <3>3. /\ s \in Seq(Nat)
          /\ Len(s) = IF kept + 1 <= size THEN size - (kept + 1) + 1 ELSE 0
          /\ \A k \in 1 .. size - (kept + 1) + 1 : s[k] = file[kept + 1 + k - 1]
      <4>1. kept + 1 \in Int /\ size \in Int
        BY <1>2, <2>2
      <4> QED
        BY <3>1, <3>2, <4>1, SubSeqProperties
    <3>4. /\ size - (kept + 1) + 1 = size - kept
          /\ \A k \in 1 .. size - kept : kept + 1 + k - 1 = kept + k
          /\ (IF kept + 1 <= size THEN size - kept ELSE 0) = size - kept
      BY <1>2, <2>2
    <3>5. /\ DOMAIN s = 1 .. size - kept
          /\ \A k \in 1 .. size - kept : s[k] = file[kept + k]
      BY <3>3, <3>4, LenProperties
    <3>6. ASSUME NEW j \in 1 .. size - kept, NEW k \in 1 .. size - kept, j < k
          PROVE  s[j] < s[k]
      <4>1. /\ kept + j \in kept + 1 .. size /\ kept + k \in kept + 1 .. size
            /\ kept + j < kept + k
        BY <1>2, <2>2, <3>6
      <4>2. s[j] = file[kept + j] /\ s[k] = file[kept + k]
        BY <3>5
      <4> QED
        BY <2>2, <4>1, <4>2
    <3>7. Tee!Ascending(s)
      BY <3>5, <3>6 DEF Tee!Ascending
    <3> QED
      BY <3>2, <3>7
  <2> QED
    BY <2>1, <2>3, <2>4
<1>5. ASSUME whole, pc \in {"read", "fsync", "close", "exited"}
      PROVE  /\ file = Tee!Kept \o [k \in 1 .. consumed |-> k]
             /\ stdout = [k \in 1 .. consumed |-> k]
  <2>1. FileEnd = consumed /\ StdoutEnd = consumed
    BY <1>5 DEF FileEnd, StdoutEnd
  <2>2. PICK t : t = [k \in 1 .. consumed |-> k]
    OBVIOUS
  <2>3. t \in [1 .. consumed -> Nat] /\ \A k \in 1 .. consumed : t[k] = k
    BY <1>2, <2>2
  <2>4. t \in Seq(Nat) /\ Len(t) = consumed
    <3>1. t \in Seq(Nat)
      BY <1>2, <2>3, SeqDef
    <3>2. Len(t) \in Nat /\ 1 .. Len(t) = 1 .. consumed
      BY <2>3, <3>1, LenProperties, Zenon
    <3>3. PICK m \in Nat : m = Len(t)
      BY <3>2
    <3> QED
      BY <1>2, <3>1, <3>2, <3>3, FS_Interval
  <2>5. stdout = t
    <3>1. /\ stdout \in Seq(Nat) /\ Len(stdout) = 0 + consumed
          /\ \A k \in 1 .. consumed : stdout[0 + k] = k
      BY <1>2, <1>5, <2>1 DEF GotThrough
    <3>2. 0 + consumed = consumed /\ \A k \in 1 .. consumed : 0 + k = k
      BY <1>2
    <3>3. /\ stdout \in Seq(Nat) /\ Len(stdout) = Len(t)
          /\ \A k \in 1 .. Len(stdout) : stdout[k] = t[k]
      BY <2>3, <2>4, <3>1, <3>2
    <3> QED
      BY <2>4, <3>3, SeqEqual
  <2>6. file = Tee!Kept \o t
    <3>1. /\ file \in Seq(Nat) /\ Len(file) = kept + consumed
          /\ \A k \in 1 .. consumed : file[kept + k] = k
          /\ \A k \in 1 .. kept : file[k] = Tee!Kept[k]
      BY <1>2, <1>5, <2>1 DEF GotThrough
    <3>2. PICK g : g = Tee!Kept \o t
      OBVIOUS
    <3>3. /\ g \in Seq(Nat) /\ Len(g) = kept + consumed
          /\ \A k \in 1 .. kept + consumed :
               g[k] = IF k <= kept THEN Tee!Kept[k] ELSE t[k - kept]
      <4>1. /\ Tee!Kept \o t \in Seq(Nat)
            /\ Len(Tee!Kept \o t) = Len(Tee!Kept) + Len(t)
            /\ \A k \in 1 .. Len(Tee!Kept) + Len(t) :
                 (Tee!Kept \o t)[k] =
                   IF k <= Len(Tee!Kept) THEN Tee!Kept[k]
                   ELSE t[k - Len(Tee!Kept)]
        BY <1>2, <2>4, ConcatProperties
      <4> QED
        BY <1>1, <2>4, <3>2, <4>1
    <3>4. ASSUME NEW k \in 1 .. kept + consumed
          PROVE  file[k] = g[k]
      <4>1. CASE k <= kept
        <5>1. k \in 1 .. kept
          BY <4>1
        <5> QED
          BY <3>1, <3>3, <4>1, <5>1
      <4>2. CASE ~(k <= kept)
        <5>1. PICK j : j = k - kept
          OBVIOUS
        <5>2. j \in 1 .. consumed /\ kept + j = k
          BY <1>2, <4>2, <5>1
        <5>3. file[kept + j] = j /\ t[j] = j
          BY <2>3, <3>1, <5>2
        <5>4. g[k] = t[j]
          BY <3>3, <4>2, <5>1
        <5> QED
          BY <5>2, <5>3, <5>4
      <4> QED
        BY <4>1, <4>2
    <3>5. Len(file) = Len(g) /\ \A k \in 1 .. Len(file) : file[k] = g[k]
      BY <3>1, <3>3, <3>4
    <3>6. file = g
      BY <3>1, <3>3, <3>5, SeqEqual
    <3> QED
      BY <3>2, <3>6
  <2> QED
    BY <2>2, <2>5, <2>6
<1>6. pc = "exited" => consumed = input /\ ~dirty
  BY DEF TeeInv
<1>7. Tee!NothingRepeated
  BY <1>1, <1>3, <1>4 DEF Tee!NothingRepeated
<1>8. Tee!CompleteUnlessShort
  BY <1>5, <1>6 DEF Tee!CompleteUnlessShort
<1> QED
  BY <1>7, <1>8

-----------------------------------------------------------------------------
(* No multiple of s but 0 is between -s and s. *)
LEMMA SmallMultiple ==
  ASSUME NEW s \in Nat, s > 0, NEW x \in Int, s * x < s, -s < s * x
  PROVE  x = 0
<1>1. CASE x >= 1
  <2>1. s * x >= s
    BY <1>1
  <2> QED
    BY <2>1
<1>2. CASE x <= -1
  <2>1. s * x <= -s
    BY <1>2
  <2> QED
    BY <2>1
<1> QED
  BY <1>1, <1>2

(* Quotient and remainder exist. *)
LEMMA Division ==
  ASSUME NEW s \in Nat, s > 0, NEW a \in Nat
  PROVE  \E q \in Nat : a = s * q + (a % s) /\ a % s \in 0 .. s - 1
OBVIOUS

(* The remainder is unique. *)
LEMMA Remainder ==
  ASSUME NEW s \in Nat, s > 0, NEW q \in Nat, NEW r \in 0 .. s - 1
  PROVE  (s * q + r) % s = r
<1>1. PICK x \in Nat :
        /\ s * q + r = s * x + ((s * q + r) % s)
        /\ (s * q + r) % s \in 0 .. s - 1
  BY Division
<1> QED
  BY <1>1, SmallMultiple

(* From one multiple of the step to the next there is none in between. *)
LEMMA NextMultiple ==
  ASSUME NEW s \in Nat, s > 0, NEW a \in Nat, a % s = 0
  PROVE  /\ (a + s) % s = 0
         /\ \A b \in a + 1 .. a + s - 1 : b % s # 0
<1>1. PICK q \in Nat : a = s * q
  BY Division
<1>2. (a + s) % s = 0
  <2>1. q + 1 \in Nat /\ 0 \in 0 .. s - 1 /\ s * (q + 1) + 0 = a + s
    BY <1>1
  <2>2. (s * (q + 1) + 0) % s = 0
    BY <2>1, Remainder
  <2> QED
    BY <2>1, <2>2
<1>3. ASSUME NEW b \in a + 1 .. a + s - 1
      PROVE  b % s # 0
  <2>1. PICK r : r = b - a
    OBVIOUS
  <2>2. r \in 0 .. s - 1 /\ r # 0 /\ s * q + r = b
    BY <1>1, <2>1
  <2>3. (s * q + r) % s = r
    BY <2>2, Remainder
  <2> QED
    BY <2>2, <2>3
<1> QED
  BY <1>2, <1>3

(* The blocks that are left when those of the range before end are freed. *)
LeftBefore(end) ==
  {b \in 0 .. values[1] - 1 :
     ~(/\ b + 1 >= values[4] /\ b < end
       /\ (b + 1 - values[4]) % values[3] = 0)}

(* FreeRange: the numbers that have been accepted are a range of the       *)
(* blocks; the second loop has freed the blocks of the range before its    *)
(* index, and the index is in step with the first block of it.             *)
RangeInv ==
  /\ args \in Seq(Typed \cup {NotNumber})
  /\ values \in Seq(Int) /\ Len(values) <= 5
  /\ \A k \in 1 .. Len(values) : values[k] > 0
  /\ Len(values) = 5 => values[4] < values[5] /\ values[5] <= values[1]
  /\ i \in Nat
  /\ pc \in {"alloc", "free", "exited", "undefined"} => Len(values) = 5
  /\ pc = "parse" => i = 0 /\ blocks = {}
  /\ pc = "alloc" => i <= values[1] /\ blocks = 0 .. i - 1
  /\ pc = "free" =>
       /\ blocks = LeftBefore(i)
       /\ values[4] <= i + 1 /\ (i + 1 - values[4]) % values[3] = 0
       /\ \A b \in values[5] .. i - 1 : (b + 1 - values[4]) % values[3] # 0
  /\ FreeRange!FreesRange

(* chpt7_q1 starts with no number parsed and no block. *)
LEMMA RangeInit == FreeRange!Init => RangeInv
<1> SUFFICES ASSUME FreeRange!Init
             PROVE  RangeInv
  OBVIOUS
<1>1. /\ values = <<>> /\ pc = "parse" /\ i = 0 /\ blocks = {}
  BY DEF FreeRange!Init
<1>2. values \in Seq(Int) /\ Len(values) = 0
  BY <1>1, EmptySeq
<1>3. args \in Seq(Typed \cup {NotNumber})
  <2>1. PICK k \in 0 .. 5 : args \in [1 .. k -> Typed \cup {NotNumber}]
    BY DEF FreeRange!Init
  <2> QED
    BY <2>1, SeqDef
<1> QED
  BY <1>1, <1>2, <1>3 DEF RangeInv, FreeRange!FreesRange

(* A number is parsed, or refused with the usage text. *)
LEMMA RangeParse ==
  ASSUME RangeInv, FreeRange!Parse
  PROVE  RangeInv'
<1>1. /\ values \in Seq(Int) /\ Len(values) \in Nat /\ Len(values) <= 5
      /\ \A k \in 1 .. Len(values) : values[k] > 0
      /\ Len(values) = 5 => values[4] < values[5] /\ values[5] <= values[1]
      /\ i = 0 /\ blocks = {}
      /\ args \in Seq(Typed \cup {NotNumber}) /\ args' = args
      /\ pc = "parse" /\ Len(values) < 5 /\ i' = i /\ blocks' = blocks
  BY LenProperties DEF RangeInv, FreeRange!Parse
<1>2. PICK k : k = Len(values) + 1
  OBVIOUS
<1>3. \/ pc' = "usage" /\ values' = values
      \/ /\ pc' = "parse" /\ FreeRange!Accepted(k, FreeRange!Parsed(k))
         /\ values' = Append(values, FreeRange!Parsed(k))
         /\ ~(k <= Len(args) /\ args[k] = NotNumber)
  BY <1>1, <1>2 DEF FreeRange!Parse
<1>4. CASE pc' = "usage" /\ values' = values
  BY <1>1, <1>4 DEF RangeInv, FreeRange!FreesRange
<1>5. CASE /\ pc' = "parse" /\ FreeRange!Accepted(k, FreeRange!Parsed(k))
           /\ values' = Append(values, FreeRange!Parsed(k))
           /\ ~(k <= Len(args) /\ args[k] = NotNumber)
  <2>1. PICK v : v = FreeRange!Parsed(k)
    OBVIOUS
  <2>2. v \in Int /\ v > 0
    <3>1. v \in Int
      <4>1. CASE k <= Len(args)
        <5>1. args[k] \in Typed
          <6>1. k \in 1 .. Len(args)
            BY <1>1, <1>2, <4>1, LenProperties
          <6> QED
            BY <1>1, <1>5, <6>1, ElementOfSeq
        <5>2. /\ INT_MAX \in Nat /\ LONG_MAX \in Nat /\ args[k] \in Int
          BY <5>1, ConstantsAssumption DEF FreeRange!ConstantsOK
        <5>3. PICK n : n = FreeRange!strtol(args[k])
          OBVIOUS
        <5>4. n \in Int
          BY <5>2, <5>3 DEF FreeRange!strtol
        <5>5. v = FreeRange!int(n)
          BY <2>1, <4>1, <5>3 DEF FreeRange!Parsed
        <5>6. FreeRange!int(n) \in Int
          <6>1. PICK size \in Nat : size = 2 * (INT_MAX + 1)
            BY <5>2
          <6>2. size > 0 /\ n % size \in Int
            BY <5>2, <5>4, <6>1
          <6> QED
            BY <5>2, <6>1, <6>2 DEF FreeRange!int
        <5> QED
          BY <5>5, <5>6
      <4>2. CASE ~(k <= Len(args))
        <5>1. v = IF k = 5 THEN values[1] ELSE 1
          BY <2>1, <4>2 DEF FreeRange!Parsed, FreeRange!num_allocs
        <5>2. k = 5 => values[1] \in Int
          BY <1>1, <1>2, ElementOfSeq
        <5> QED
          BY <5>1, <5>2
      <4> QED
        BY <4>1, <4>2
    <3>2. k = 5 => values[4] > 0 /\ values[4] \in Int
      BY <1>1, <1>2, ElementOfSeq
    <3>3. k = 5 \/ v > 0
      BY <1>1, <1>2, <1>5, <2>1 DEF FreeRange!Accepted
    <3>4. k = 5 => v > values[4]
      BY <1>5, <2>1 DEF FreeRange!Accepted, FreeRange!free_min
    <3> QED
      BY <3>1, <3>2, <3>3, <3>4
  <2>3. k = 5 => values[4] < v /\ v <= values[1]
    BY <1>5, <2>1
       DEF FreeRange!Accepted, FreeRange!free_min, FreeRange!num_allocs
  <2>4. /\ values' \in Seq(Int) /\ Len(values') = Len(values) + 1
        /\ \A j \in 1 .. Len(values) : values'[j] = values[j]
        /\ values'[Len(values) + 1] = v
    BY <1>1, <1>5, <2>1, <2>2, AppendProperties
  <2>5. /\ \A j \in 1 .. Len(values') : values'[j] > 0
        /\ Len(values') = 5 =>
             values'[4] < values'[5] /\ values'[5] <= values'[1]
    <3>1. \A j \in 1 .. Len(values') : j \in 1 .. Len(values) \/ j = k
      BY <1>1, <1>2, <2>4
    <3>2. Len(values') = 5 =>
            /\ k = 5 /\ values'[4] = values[4] /\ values'[5] = v
            /\ values'[1] = values[1]
      <4>1. Len(values') = 5 => Len(values) = 4 /\ k = 5
        <5>1. PICK m \in Nat : m = Len(values)
          BY <1>1
        <5>2. PICK n : n = Len(values')
          OBVIOUS
        <5>3. n = m + 1 /\ k = m + 1
          BY <1>2, <2>4, <5>1, <5>2, Zenon
        <5>4. n = 5 => m = 4 /\ k = 5
          BY <5>1, <5>3
        <5> QED
          BY <5>1, <5>2, <5>4, Zenon
      <4>2. Len(values) = 4 => 4 \in 1 .. Len(values) /\ 1 \in 1 .. Len(values)
        OBVIOUS
      <4>3. Len(values) = 4 => Len(values) + 1 = 5
        OBVIOUS
      <4> QED
        BY <2>4, <4>1, <4>2, <4>3
    <3> QED
      BY <1>1, <1>2, <2>2, <2>3, <2>4, <3>1, <3>2
  <2> QED
    BY <1>1, <1>5, <2>4, <2>5 DEF RangeInv, FreeRange!FreesRange
<1> QED
  BY <1>3, <1>4, <1>5

(* Every step of chpt7_q1 preserves the invariant. *)
LEMMA RangeStep == RangeInv /\ [FreeRange!Next]_FreeRange!vars => RangeInv'
<1> SUFFICES ASSUME RangeInv, [FreeRange!Next]_FreeRange!vars
             PROVE  RangeInv'
  OBVIOUS
<1>1. /\ values \in Seq(Int) /\ Len(values) \in Nat /\ Len(values) <= 5
      /\ \A k \in 1 .. Len(values) : values[k] \in Int /\ values[k] > 0
      /\ Len(values) = 5 => values[4] < values[5] /\ values[5] <= values[1]
      /\ i \in Nat /\ args \in Seq(Typed \cup {NotNumber})
  BY LenProperties, ElementOfSeq DEF RangeInv
<1>2. /\ pc \in {"alloc", "free"} => Len(values) = 5
      /\ Len(values) = 5 =>
        /\ values[1] \in Nat /\ values[3] \in Nat /\ values[4] \in Nat
        /\ values[5] \in Nat /\ values[1] > 0 /\ values[3] > 0 /\ values[4] > 0
  <2>1. Len(values) = 5 =>
          /\ values[1] \in Int /\ values[3] \in Int /\ values[4] \in Int
          /\ values[5] \in Int /\ values[1] > 0 /\ values[3] > 0
          /\ values[4] > 0 /\ values[5] > 0
    BY <1>1
  <2> QED
    BY <2>1 DEF RangeInv
<1>3. CASE UNCHANGED FreeRange!vars
  BY <1>3 DEF FreeRange!vars, RangeInv, LeftBefore, FreeRange!FreesRange,
       FreeRange!num_allocs, FreeRange!free_step, FreeRange!free_min,
       FreeRange!free_max
<1>4. CASE FreeRange!Parse
  BY <1>4, RangeParse
<1>5. CASE FreeRange!Start
  <2>1. /\ pc = "parse" /\ pc' = "alloc" /\ Len(values) = 5
        /\ values' = values /\ args' = args /\ i' = i /\ blocks' = blocks
        /\ i = 0 /\ blocks = {}
    BY <1>5 DEF FreeRange!Start, RangeInv
  <2>2. blocks' = 0 .. i' - 1 /\ i' <= values'[1]
    BY <1>2, <2>1
  <2> QED
    BY <1>1, <2>1, <2>2 DEF RangeInv, FreeRange!FreesRange
<1>6. CASE FreeRange!Allocate
  <2>1. /\ pc = "alloc" /\ pc' = "alloc" /\ i < values[1] /\ i' = i + 1
        /\ values' = values /\ args' = args /\ blocks' = blocks \cup {i}
        /\ blocks = 0 .. i - 1
    BY <1>6 DEF FreeRange!Allocate, FreeRange!num_allocs, RangeInv
  <2>2. 0 .. i' - 1 = blocks'
    BY <1>1, <2>1
  <2> QED
    BY <1>1, <1>2, <2>1, <2>2 DEF RangeInv, FreeRange!FreesRange
<1>7. CASE FreeRange!AllocateFails
  <2>1. /\ pc = "alloc" /\ pc' = "died"
        /\ UNCHANGED <<args, values, i, blocks>>
    BY <1>7 DEF FreeRange!AllocateFails
  <2> QED
    BY <1>1, <2>1 DEF RangeInv, FreeRange!FreesRange
<1>8. CASE FreeRange!StartFree
  <2>1. /\ pc = "alloc" /\ pc' = "free" /\ i = values[1]
        /\ i' = values[4] - 1 /\ values' = values /\ args' = args
        /\ blocks' = blocks
        /\ blocks = 0 .. i - 1
    BY <1>8 DEF FreeRange!StartFree, FreeRange!num_allocs,
                FreeRange!free_min, RangeInv
  <2>2. /\ i' \in Nat /\ i' + 1 = values[4] /\ i' + 1 - values[4] = 0
        /\ i' < values[5] /\ 0 % values[3] = 0
    <3>1. \A s \in Nat : s > 0 => 0 % s = 0
      OBVIOUS
    <3> QED
      BY <1>1, <1>2, <2>1, <3>1
  <2>3. LeftBefore(i)' = blocks'
    <3>1. LeftBefore(i)' = {b \in 0 .. values[1] - 1 :
                              ~(/\ b + 1 >= values[4] /\ b < i'
                                /\ (b + 1 - values[4]) % values[3] = 0)}
      BY <2>1 DEF LeftBefore
    <3>2. \A b \in 0 .. values[1] - 1 : ~(b + 1 >= values[4] /\ b < i')
      BY <1>2, <2>1
    <3> QED
      BY <2>1, <3>1, <3>2
  <2>4. \A b \in values[5] .. i' - 1 : FALSE
    BY <1>2, <2>1, <2>2
  <2>5. (i' + 1 - values[4]) % values[3] = 0
    BY <2>2, Zenon
  <2>6. /\ values'[4] <= i' + 1 /\ (i' + 1 - values'[4]) % values'[3] = 0
        /\ \A b \in values'[5] .. i' - 1 :
             (b + 1 - values'[4]) % values'[3] # 0
    <3>1. values'[4] <= i' + 1
      BY <1>2, <2>1, <2>2
    <3>2. \A b \in values'[5] .. i' - 1 : FALSE
      BY <2>1, <2>4
    <3> QED
      BY <2>1, <2>5, <3>1, <3>2, Zenon
  <2> QED
    BY <1>1, <2>1, <2>2, <2>3, <2>6 DEF RangeInv, FreeRange!FreesRange
<1>9. CASE FreeRange!Free
  <2>1. /\ pc = "free" /\ i < values[5] /\ values' = values /\ args' = args
        /\ blocks' = blocks \ {i}
        /\ \/ i \notin blocks /\ pc' = "undefined" /\ i' = i
           \/ i + values[3] > INT_MAX /\ pc' = "undefined" /\ i' = i
           \/ pc' = "free" /\ i' = i + values[3]
    BY <1>9 DEF FreeRange!Free, FreeRange!free_max, FreeRange!free_step
  <2>2. /\ blocks = LeftBefore(i)
        /\ values[4] <= i + 1 /\ (i + 1 - values[4]) % values[3] = 0
        /\ \A b \in values[5] .. i - 1 : (b + 1 - values[4]) % values[3] # 0
    BY <2>1 DEF RangeInv
  <2>3. i \in blocks
    <3>1. i \in 0 .. values[1] - 1
      BY <1>1, <1>2, <2>1
    <3> QED
      BY <2>2, <3>1 DEF LeftBefore
  <2>4. CASE pc' = "undefined"
    <3>1. i + values[3] > INT_MAX /\ i' = i
      BY <2>1, <2>3, <2>4
    <3> QED
      BY <1>1, <1>2, <2>1, <2>4, <3>1
         DEF RangeInv, FreeRange!FreesRange, FreeRange!free_step
  <2>5. CASE pc' = "free" /\ i' = i + values[3]
    <3>1. PICK a : a = i + 1 - values[4]
      OBVIOUS
    <3>2. a \in Nat /\ a % values[3] = 0
      BY <1>1, <1>2, <2>1, <2>2, <3>1
    <3>3. /\ (a + values[3]) % values[3] = 0
          /\ \A b \in a + 1 .. a + values[3] - 1 : b % values[3] # 0
      BY <1>2, <2>1, <3>2, NextMultiple
    <3>4. i' + 1 - values[4] = a + values[3] /\ values[4] <= i' + 1
          /\ i' \in Nat
      <4>1. i' \in Nat
        BY <1>1, <1>2, <2>1, <2>5
      <4>2. i' + 1 - values[4] = a + values[3]
        <5>1. PICK first \in Nat : first = values[4]
          BY <1>2, <2>1
        <5>2. PICK step \in Nat : step = values[3]
          BY <1>2, <2>1
        <5>3. i \in Nat /\ a = i + 1 - first /\ i' = i + step
          BY <1>1, <2>5, <3>1, <5>1, <5>2
        <5>4. i' + 1 - first = a + step
          BY <5>1, <5>2, <5>3
        <5> QED
          BY <5>1, <5>2, <5>4
      <4>3. values[4] <= i' + 1
        BY <1>1, <1>2, <2>1, <2>2, <2>5
      <4> QED
        BY <4>1, <4>2, <4>3
    <3>5. ASSUME NEW b \in i + 1 .. i' - 1
          PROVE  (b + 1 - values[4]) % values[3] # 0
      <4>1. b + 1 - values[4] \in a + 1 .. a + values[3] - 1
        <5>1. PICK first \in Nat : first = values[4]
          BY <1>2, <2>1
        <5>2. PICK step \in Nat : step = values[3]
          BY <1>2, <2>1
        <5>3. /\ i \in Nat /\ a = i + 1 - first
              /\ b \in Int /\ i + 1 <= b /\ b <= i + step - 1
          BY <1>1, <2>5, <3>1, <5>1, <5>2
        <5>4. b + 1 - first \in a + 1 .. a + step - 1
          BY <5>1, <5>2, <5>3
        <5> QED
          BY <5>1, <5>2, <5>4
      <4> QED
        BY <3>3, <4>1
    <3>6. LeftBefore(i)' = blocks'
      <4>1. LeftBefore(i)' = {b \in 0 .. values[1] - 1 :
                                ~(/\ b + 1 >= values[4] /\ b < i'
                                  /\ (b + 1 - values[4]) % values[3] = 0)}
        BY <2>1 DEF LeftBefore
      <4>2. ASSUME NEW b \in 0 .. values[1] - 1
            PROVE  (/\ b + 1 >= values[4] /\ b < i'
                    /\ (b + 1 - values[4]) % values[3] = 0)
                   <=> \/ b = i
                       \/ /\ b + 1 >= values[4] /\ b < i
                          /\ (b + 1 - values[4]) % values[3] = 0
        <5>1. b < i' <=> b < i \/ b = i \/ b \in i + 1 .. i' - 1
          BY <1>1, <1>2, <2>1, <2>5
        <5> QED
          BY <2>2, <3>5, <5>1
      <4> QED
        BY <2>1, <2>2, <4>1, <4>2 DEF LeftBefore
    <3>7. \A b \in values[5] .. i' - 1 : (b + 1 - values[4]) % values[3] # 0
      <4>1. \A b \in values[5] .. i' - 1 : b \in i + 1 .. i' - 1
        BY <1>1, <1>2, <2>1
      <4> QED
        BY <3>5, <4>1
    <3> QED
      BY <1>1, <1>2, <2>1, <2>5, <3>3, <3>4, <3>6, <3>7
         DEF RangeInv, FreeRange!FreesRange
  <2> QED
    BY <2>1, <2>4, <2>5
<1>10. CASE FreeRange!Exit
  <2>1. /\ pc = "free" /\ pc' = "exited" /\ i >= values[5]
        /\ UNCHANGED <<args, values, i, blocks>>
    BY <1>10 DEF FreeRange!Exit, FreeRange!free_max
  <2>2. /\ blocks = LeftBefore(i)
        /\ \A b \in values[5] .. i - 1 : (b + 1 - values[4]) % values[3] # 0
    BY <2>1 DEF RangeInv
  <2>3. ASSUME NEW b \in 0 .. values[1] - 1
        PROVE  (/\ b + 1 >= values[4] /\ b < i
                /\ (b + 1 - values[4]) % values[3] = 0)
               <=> (/\ b + 1 >= values[4] /\ b + 1 <= values[5]
                    /\ (b + 1 - values[4]) % values[3] = 0)
    <3>1. b < i <=> b + 1 <= values[5] \/ b \in values[5] .. i - 1
      BY <1>1, <1>2, <2>1
    <3> QED
      BY <2>2, <3>1
  <2>4. blocks = {b \in 0 .. values[1] - 1 :
                    ~(/\ b + 1 >= values[4] /\ b + 1 <= values[5]
                      /\ (b + 1 - values[4]) % values[3] = 0)}
    BY <2>2, <2>3 DEF LeftBefore
  <2>5. FreeRange!FreesRange'
    BY <2>1, <2>4
       DEF FreeRange!FreesRange, FreeRange!num_allocs, FreeRange!free_min,
           FreeRange!free_max, FreeRange!free_step
  <2> QED
    BY <1>1, <1>2, <2>1, <2>5 DEF RangeInv
<1> QED
  BY <1>3, <1>4, <1>5, <1>6, <1>7, <1>8, <1>9, <1>10
     DEF FreeRange!Next, FreeRange!Step

-----------------------------------------------------------------------------
(* DeliverWrite: total_written stays within nbytes, is nbytes when the     *)
(* function returns unless write answered 0, and is how far the bytes have *)
(* come.                                                                   *)
DeliverInv ==
  /\ sink \in Seq(Procs \X Nat)
  /\ nbytes \in [Procs -> Nat] /\ total_written \in [Procs -> Nat]
  /\ pc \in [Procs -> {"writing", "returned", "died"}]
  /\ \A p \in Procs : total_written[p] <= nbytes[p]
  /\ ~ZeroWrites =>
       \A p \in Procs : pc[p] = "returned" => total_written[p] = nbytes[p]
  /\ Deliver!OnceInOrder

(* No process has written anything at the start. *)
LEMMA DeliverInit == Deliver!Init => DeliverInv
<1> SUFFICES ASSUME Deliver!Init
             PROVE  DeliverInv
  OBVIOUS
<1>1. /\ sink = <<>> /\ nbytes \in [Procs -> 0 .. MaxBytes]
      /\ total_written = [p \in Procs |-> 0]
      /\ pc = [p \in Procs |-> "writing"]
  BY DEF Deliver!Init
<1>2. MaxBytes \in Nat
  BY ConstantsAssumption DEF Deliver!ConstantsOK
<1>3. sink \in Seq(Procs \X Nat) /\ DOMAIN sink = {}
  BY <1>1, EmptySeq
<1>4. /\ nbytes \in [Procs -> Nat] /\ total_written \in [Procs -> Nat]
      /\ \A p \in Procs : total_written[p] = 0 /\ nbytes[p] \in Nat
  BY <1>1, <1>2
<1>5. Deliver!OnceInOrder
  <2>1. \A p \in Procs : Deliver!From(p) = {}
    BY <1>3 DEF Deliver!From
  <2>2. \A p \in Procs : Deliver!Received(p) = {}
    BY <2>1 DEF Deliver!Received
  <2>3. \A p \in Procs : 1 .. total_written[p] = {}
    BY <1>4
  <2> QED
    BY <2>1, <2>2, <2>3 DEF Deliver!OnceInOrder
<1> QED
  BY <1>1, <1>3, <1>4, <1>5 DEF DeliverInv

(* A write of any length, by any process, preserves the invariant: what    *)
(* the others have got into the sink stays in order.                       *)
LEMMA DeliverWrites ==
  ASSUME DeliverInv, NEW p \in Procs, Deliver!Write(p)
  PROVE  DeliverInv'
<1>1. /\ pc[p] = "writing" /\ nbytes' = nbytes /\ pc' = pc
  BY DEF Deliver!Write
<1>2. PICK n \in 1 .. Deliver!Left(p) :
        /\ sink' = sink \o Deliver!Offered(p, n)
        /\ total_written' = [total_written EXCEPT ![p] = @ + n]
  BY DEF Deliver!Write
<1>3. PICK end : end = Len(sink)
  OBVIOUS
<1>4. PICK old : old = total_written[p]
  OBVIOUS
<1>5. /\ sink \in Seq(Procs \X Nat) /\ end \in Nat /\ DOMAIN sink = 1 .. end
      /\ old \in Nat /\ nbytes[p] \in Nat
      /\ nbytes \in [Procs -> Nat] /\ total_written \in [Procs -> Nat]
  BY <1>3, <1>4, LenProperties DEF DeliverInv
<1>6. n \in Nat /\ n > 0 /\ old + n <= nbytes[p]
  BY <1>2, <1>4, <1>5 DEF Deliver!Left
<1>7. /\ total_written' \in [Procs -> Nat] /\ total_written'[p] = old + n
      /\ \A q \in Procs : q # p => total_written'[q] = total_written[q]
  BY <1>2, <1>4, <1>5, <1>6
<1>8. PICK s : s = Deliver!Offered(p, n)
  OBVIOUS
<1>9. /\ s \in Seq(Procs \X Nat) /\ Len(s) = n
      /\ \A k \in 1 .. n : s[k] = <<p, old + k>>
  <2>1. s = [k \in 1 .. n |-> <<p, old + k>>]
    BY <1>4, <1>8 DEF Deliver!Offered
  <2>2. s \in [1 .. n -> Procs \X Nat]
    BY <1>5, <1>6, <2>1
  <2>3. s \in Seq(Procs \X Nat)
    BY <1>6, <2>2, SeqDef
  <2>4. Len(s) \in Nat /\ 1 .. Len(s) = 1 .. n
    BY <2>2, <2>3, LenProperties, Zenon
  <2>5. PICK m \in Nat : m = Len(s)
    BY <2>4
  <2>6. Len(s) = n
    BY <1>6, <2>4, <2>5, FS_Interval
  <2> QED
    BY <2>1, <2>3, <2>6
<1>10. PICK g : g = sink'
  OBVIOUS
<1>11. /\ g \in Seq(Procs \X Nat) /\ DOMAIN g = 1 .. end + n
       /\ \A k \in 1 .. end : g[k] = sink[k]
       /\ \A k \in end + 1 .. end + n : g[k] = <<p, old + (k - end)>>
  <2>1. /\ sink \o s \in Seq(Procs \X Nat)
        /\ Len(sink \o s) = Len(sink) + Len(s)
        /\ \A k \in 1 .. Len(sink) + Len(s) :
             (sink \o s)[k] = IF k <= Len(sink) THEN sink[k]
                              ELSE s[k - Len(sink)]
    BY <1>5, <1>9, ConcatProperties
  <2>2. g = sink \o s
    BY <1>2, <1>8, <1>10
  <2>3. /\ g \in Seq(Procs \X Nat) /\ Len(g) = end + n
        /\ \A k \in 1 .. end + n :
             g[k] = IF k <= end THEN sink[k] ELSE s[k - end]
    BY <1>3, <1>9, <2>1, <2>2
  <2>4. DOMAIN g = 1 .. end + n
    BY <2>3, LenProperties
  <2>5. ASSUME NEW k \in end + 1 .. end + n
        PROVE  g[k] = <<p, old + (k - end)>>
    <3>1. k \in 1 .. end + n /\ ~(k <= end) /\ k - end \in 1 .. n
      BY <1>5, <1>6
    <3> QED
      BY <1>9, <2>3, <3>1
  <2>6. ASSUME NEW k \in 1 .. end
        PROVE  g[k] = sink[k]
    <3>1. k \in 1 .. end + n /\ k <= end
      BY <1>5, <1>6
    <3> QED
      BY <2>3, <3>1
  <2> QED
    BY <2>3, <2>4, <2>5, <2>6
<1>12. \A q \in Procs : Deliver!From(q)' = {k \in 1 .. end + n : g[k][1] = q}
  BY <1>10, <1>11 DEF Deliver!From
<1>13. \A q \in Procs : Deliver!From(q) = {k \in 1 .. end : sink[k][1] = q}
  BY <1>5 DEF Deliver!From
<1>14. \A q \in Procs :
         /\ Deliver!Received(q) = {sink[k][2] : k \in Deliver!From(q)}
         /\ Deliver!Received(q)' = {g[k][2] : k \in Deliver!From(q)'}
  BY <1>10 DEF Deliver!Received
<1>15. \A q \in Procs :
         /\ Deliver!Received(q) = 1 .. total_written[q]
         /\ \A j, k \in Deliver!From(q) : j < k => sink[j][2] < sink[k][2]
  BY DEF DeliverInv, Deliver!OnceInOrder
<1>16. \A k \in end + 1 .. end + n : g[k][1] = p /\ g[k][2] = old + (k - end)
  BY <1>11
<1>17. ASSUME NEW q \in Procs, q # p
       PROVE  /\ Deliver!From(q)' = Deliver!From(q)
              /\ Deliver!Received(q)' = Deliver!Received(q)
  <2>1. \A k \in 1 .. end + n : k \in 1 .. end \/ k \in end + 1 .. end + n
    BY <1>5, <1>6
  <2>2. \A k \in 1 .. end : k \in 1 .. end + n
    BY <1>5, <1>6
  <2>3. Deliver!From(q)' = Deliver!From(q)
    <3>1. \A k : k \in Deliver!From(q)' => k \in Deliver!From(q)
      BY <1>11, <1>12, <1>13, <1>16, <1>17, <2>1
    <3>2. \A k : k \in Deliver!From(q) => k \in Deliver!From(q)'
      BY <1>11, <1>12, <1>13, <2>2
    <3> QED
      BY <3>1, <3>2
  <2>4. \A k \in Deliver!From(q) : g[k][2] = sink[k][2]
    BY <1>11, <1>13
  <2>5. PICK places : places = Deliver!From(q)
    OBVIOUS
  <2>6. /\ Deliver!Received(q) = {sink[k][2] : k \in places}
        /\ Deliver!Received(q)' = {g[k][2] : k \in places}
        /\ \A k \in places : g[k][2] = sink[k][2]
    BY <1>14, <2>3, <2>4, <2>5, Zenon
  <2>7. Deliver!Received(q)' = Deliver!Received(q)
    BY <2>6
  <2> QED
    BY <2>3, <2>7
<1>18. Deliver!From(p)' = Deliver!From(p) \cup (end + 1 .. end + n)
  <2>1. \A k \in 1 .. end + n : k \in 1 .. end \/ k \in end + 1 .. end + n
    BY <1>5, <1>6
  <2>2. /\ \A k \in 1 .. end : k \in 1 .. end + n
        /\ \A k \in end + 1 .. end + n : k \in 1 .. end + n
    BY <1>5, <1>6
  <2> QED
    BY <1>11, <1>12, <1>13, <1>16, <2>1, <2>2
<1>19. /\ Deliver!From(p) \subseteq 1 .. end
       /\ \A k \in Deliver!From(p) :
            g[k][2] = sink[k][2] /\ g[k][2] \in 1 .. old
  <2>1. Deliver!From(p) \subseteq 1 .. end
    BY <1>13
  <2>2. \A k \in Deliver!From(p) : g[k][2] = sink[k][2]
    BY <1>11, <2>1
  <2>3. \A k \in Deliver!From(p) : sink[k][2] \in Deliver!Received(p)
    BY <1>14
  <2> QED
    BY <1>4, <1>15, <2>1, <2>2, <2>3
<1>20. Deliver!Received(p)' = 1 .. old + n
  <2>1. ASSUME NEW x \in 1 .. old + n
        PROVE  x \in Deliver!Received(p)'
    <3>1. CASE x <= old
      <4>1. x \in Deliver!Received(p)
        BY <1>4, <1>5, <1>15, <3>1
      <4>2. PICK k \in Deliver!From(p) : x = sink[k][2]
        BY <1>14, <4>1
      <4> QED
        BY <1>14, <1>18, <1>19, <4>2
    <3>2. CASE ~(x <= old)
      <4>1. PICK k : k = end + (x - old)
        OBVIOUS
      <4>2. k \in end + 1 .. end + n /\ old + (k - end) = x
        BY <1>5, <1>6, <3>2, <4>1
      <4> QED
        BY <1>14, <1>16, <1>18, <4>2
    <3> QED
      BY <3>1, <3>2
  <2>2. ASSUME NEW x \in Deliver!Received(p)'
        PROVE  x \in 1 .. old + n
    <3>1. PICK k \in Deliver!From(p)' : x = g[k][2]
      BY <1>14
    <3>2. CASE k \in Deliver!From(p)
      BY <1>5, <1>6, <1>19, <3>1, <3>2
    <3>3. CASE k \in end + 1 .. end + n
      <4>1. old + (k - end) \in 1 .. old + n
        BY <1>5, <1>6, <3>3
      <4> QED
        BY <1>16, <3>1, <3>3, <4>1
    <3> QED
      BY <1>18, <3>1, <3>2, <3>3
  <2> QED
    BY <2>1, <2>2
<1>21. ASSUME NEW j \in Deliver!From(p)', NEW k \in Deliver!From(p)', j < k
       PROVE  g[j][2] < g[k][2]
  <2>1. CASE k \in Deliver!From(p)
    <3>1. j \in Deliver!From(p)
      BY <1>5, <1>18, <1>19, <1>21, <2>1
    <3> QED
      BY <1>15, <1>19, <1>21, <2>1, <3>1
  <2>2. CASE k \in end + 1 .. end + n /\ j \in Deliver!From(p)
    <3>1. g[j][2] \in 1 .. old /\ g[k][2] = old + (k - end)
      BY <1>16, <1>19, <2>2
    <3> QED
      BY <1>5, <1>6, <2>2, <3>1
  <2>3. CASE k \in end + 1 .. end + n /\ j \in end + 1 .. end + n
    <3>1. g[j][2] = old + (j - end) /\ g[k][2] = old + (k - end)
      BY <1>16, <2>3
    <3> QED
      BY <1>5, <1>6, <1>21, <2>3, <3>1
  <2> QED
    BY <1>18, <2>1, <2>2, <2>3
<1>22. Deliver!OnceInOrder'
  <2>1. ASSUME NEW q \in Procs
        PROVE  /\ Deliver!Received(q)' = 1 .. total_written'[q]
               /\ \A j, k \in Deliver!From(q)' : j < k => g[j][2] < g[k][2]
    <3>1. CASE q = p
      BY <1>7, <1>20, <1>21, <3>1
    <3>2. CASE q # p
      <4>1. \A k \in Deliver!From(q) : g[k][2] = sink[k][2]
        BY <1>11, <1>13
      <4> QED
        BY <1>7, <1>15, <1>17, <3>2, <4>1
    <3> QED
      BY <3>1, <3>2
  <2> QED
    BY <1>10, <2>1 DEF Deliver!OnceInOrder
<1>23. /\ \A q \in Procs : total_written'[q] <= nbytes[q]
       /\ ~ZeroWrites =>
            \A q \in Procs : pc[q] = "returned" => total_written'[q] = nbytes[q]
  BY <1>1, <1>6, <1>7 DEF DeliverInv
<1> QED
  BY <1>1, <1>7, <1>10, <1>11, <1>22, <1>23 DEF DeliverInv

(* Every step of any process preserves the invariant. *)
LEMMA DeliverStep == DeliverInv /\ [Deliver!Next]_Deliver!vars => DeliverInv'
<1> SUFFICES ASSUME DeliverInv, [Deliver!Next]_Deliver!vars
             PROVE  DeliverInv'
  OBVIOUS
<1>1. /\ pc \in [Procs -> {"writing", "returned", "died"}]
      /\ nbytes \in [Procs -> Nat] /\ total_written \in [Procs -> Nat]
      /\ \A p \in Procs : total_written[p] <= nbytes[p]
      /\ ~ZeroWrites =>
           \A p \in Procs : pc[p] = "returned" => total_written[p] = nbytes[p]
  BY DEF DeliverInv
<1>2. UNCHANGED sink /\ UNCHANGED total_written => Deliver!OnceInOrder'
  BY DEF DeliverInv, Deliver!OnceInOrder, Deliver!Received, Deliver!From
<1>3. CASE UNCHANGED Deliver!vars
  BY <1>1, <1>2, <1>3 DEF Deliver!vars, DeliverInv
<1>4. ASSUME NEW p \in Procs, Deliver!WriteZero(p)
      PROVE  DeliverInv'
  <2>1. /\ UNCHANGED <<sink, nbytes, total_written>>
        /\ pc' = [pc EXCEPT ![p] = "returned"]
        /\ ~ZeroWrites => nbytes[p] - total_written[p] = 0
    BY <1>4 DEF Deliver!WriteZero, Deliver!Left
  <2>2. ~ZeroWrites => nbytes[p] = total_written[p]
    BY <1>1, <2>1
  <2> QED
    BY <1>1, <1>2, <2>1, <2>2 DEF DeliverInv
<1>5. ASSUME NEW p \in Procs, Deliver!WriteError(p)
      PROVE  DeliverInv'
  <2>1. /\ UNCHANGED <<sink, nbytes, total_written>>
        /\ pc' = [pc EXCEPT ![p] = "died"]
    BY <1>5 DEF Deliver!WriteError
  <2> QED
    BY <1>1, <1>2, <2>1 DEF DeliverInv
<1> QED
  BY <1>3, <1>4, <1>5, DeliverWrites DEF Deliver!Next

(* What the run checks follows, the second half only if write never        *)
(* answers 0 to a call that offers bytes.                                  *)
LEMMA DeliverShown ==
  DeliverInv => /\ Deliver!OnceInOrder
                /\ ~ZeroWrites => Deliver!AllDelivered
BY DEF DeliverInv, Deliver!OnceInOrder, Deliver!AllDelivered

-----------------------------------------------------------------------------
(* What may come out: a line or a message. *)
Items ==
  {Errors!Line(k) : k \in Nat}
    \cup [func : Errors!Functions, err : Errnos, after : Nat]

(* Lines and messages can be told apart, and a message has what it was     *)
(* made of.                                                                *)
LEMMA ItemFacts ==
  /\ \A k \in Nat : /\ Errors!Line(k) \in Items
                    /\ ~Errors!IsMessage(Errors!Line(k))
                    /\ Errors!Line(k).line = k
  /\ \A f \in Errors!Functions, e \in Errnos :
       printed \in Nat =>
         /\ Errors!Message(f, e) \in Items
         /\ Errors!IsMessage(Errors!Message(f, e))
         /\ Errors!Message(f, e).func = f /\ Errors!Message(f, e).err = e
         /\ Errors!Message(f, e).after = printed
<1>1. ASSUME NEW k \in Nat
      PROVE  /\ Errors!Line(k) \in Items
             /\ ~Errors!IsMessage(Errors!Line(k))
             /\ Errors!Line(k).line = k
  <2>1. DOMAIN [line |-> k] = {"line"}
    OBVIOUS
  <2>2. "func" \notin DOMAIN [line |-> k]
    BY <2>1
  <2> QED
    BY <2>2 DEF Items, Errors!Line, Errors!IsMessage
<1>2. ASSUME NEW f \in Errors!Functions, NEW e \in Errnos, printed \in Nat
      PROVE  /\ Errors!Message(f, e) \in Items
             /\ Errors!IsMessage(Errors!Message(f, e))
             /\ Errors!Message(f, e).func = f /\ Errors!Message(f, e).err = e
             /\ Errors!Message(f, e).after = printed
  <2>1. "func" \in DOMAIN [func |-> f, err |-> e, after |-> printed]
    OBVIOUS
  <2> QED
    BY <1>2, <2>1 DEF Items, Errors!Message, Errors!IsMessage
<1> QED
  BY <1>1, <1>2

(* ErrorFunctions: the lines that have come out and those in the buffer    *)
(* are together what was printed, in order; the buffer is empty from the   *)
(* flush to the message, except in err_exit; err and savedErrno keep the   *)
(* errno of the call until the message and the return.                     *)
ErrorsInv ==
  /\ printed \in Nat /\ pending \in Seq(Items) /\ out \in Seq(Items)
  /\ {errno, err, savedErrno, atCall} \subseteq Errnos
  /\ Len(pending) <= printed
  /\ \A k \in 1 .. Len(pending) :
       pending[k] = Errors!Line(printed - Len(pending) + k)
  /\ Errors!LinesBefore(Len(out) + 1) = 1 .. printed - Len(pending)
  /\ Errors!OutputFirst
  /\ pc \in {"message", "end", "ended"} /\ func # "err_exit" => pending = <<>>
  /\ pc # "program" => func \in Errors!Functions /\ err = atCall
  /\ pc \notin {"program", "ended"} /\ func # "errExitEN" =>
       savedErrno = atCall
  /\ pc \in {"end", "ended"} =>
       \E k \in 1 .. Len(out) :
         /\ Errors!IsMessage(out[k]) /\ out[k].err = atCall
         /\ \A j \in k + 1 .. Len(out) : ~Errors!IsMessage(out[j])
  /\ pc = "program" /\ func = "errMsg" => errno = atCall

(* The next n lines come out behind the first base ones. *)
LEMMA LinesComeOut ==
  ASSUME ErrorsInv, out' \in Seq(Items), NEW n \in Nat, NEW base \in Nat,
         Len(out') = Len(out) + n,
         \A k \in 1 .. Len(out) : out'[k] = out[k],
         \A k \in 1 .. n : out'[Len(out) + k] = Errors!Line(base + k),
         Errors!LinesBefore(Len(out) + 1) = 1 .. base
  PROVE  /\ Errors!OutputFirst'
         /\ Errors!LinesBefore(Len(out) + 1)' = 1 .. base + n
<1>1. PICK g : g = out'
  OBVIOUS
<1>2. PICK end : end = Len(out)
  OBVIOUS
<1>3. /\ end \in Nat /\ DOMAIN out = 1 .. end
      /\ g \in Seq(Items) /\ Len(g) = end + n /\ DOMAIN g = 1 .. end + n
      /\ \A k \in 1 .. end : g[k] = out[k]
      /\ \A k \in 1 .. n : g[end + k] = Errors!Line(base + k)
      /\ Errors!LinesBefore(end + 1) = 1 .. base
  <2>1. out \in Seq(Items)
    BY DEF ErrorsInv
  <2>2. DOMAIN g = 1 .. Len(g) /\ DOMAIN out = 1 .. end /\ end \in Nat
    BY <1>1, <1>2, <2>1, LenProperties
  <2> QED
    BY <1>1, <1>2, <2>2
<1>4. \A k \in Int :
        /\ Errors!LinesBefore(k) =
             {out[j].line : j \in {m \in 1 .. end :
                                     m < k /\ ~Errors!IsMessage(out[m])}}
        /\ Errors!LinesBefore(k)' =
             {g[j].line : j \in {m \in 1 .. end + n :
                                   m < k /\ ~Errors!IsMessage(g[m])}}
  BY <1>1, <1>3 DEF Errors!LinesBefore, Errors!IsMessage
<1>5. ASSUME NEW k \in 1 .. n
      PROVE  ~Errors!IsMessage(g[end + k]) /\ g[end + k].line = base + k
  <2>1. base + k \in Nat /\ g[end + k] = Errors!Line(base + k)
    BY <1>3
  <2> QED
    BY <2>1, ItemFacts
<1>6. ASSUME NEW k \in 1 .. end + 1
      PROVE  Errors!LinesBefore(k)' = Errors!LinesBefore(k)
  <2>1. PICK S : S = {m \in 1 .. end : m < k /\ ~Errors!IsMessage(out[m])}
    OBVIOUS
  <2>2. PICK T : T = {m \in 1 .. end + n :
                        m < k /\ ~Errors!IsMessage(g[m])}
    OBVIOUS
  <2>3. \A m \in 1 .. end + n : m < k => m \in 1 .. end
    BY <1>3
  <2>4. \A m \in 1 .. end : m \in 1 .. end + n
    BY <1>3
  <2>5. S = T
    BY <1>3, <2>1, <2>2, <2>3, <2>4
  <2>6. \A m \in S : g[m].line = out[m].line
    BY <1>3, <2>1
  <2>7. /\ Errors!LinesBefore(k) = {out[j].line : j \in S}
        /\ Errors!LinesBefore(k)' = {g[j].line : j \in S}
    BY <1>3, <1>4, <2>1, <2>2, <2>5
  <2> QED
    BY <2>6, <2>7
<1>7. ASSUME NEW k \in 0 .. n
      PROVE  Errors!LinesBefore(end + 1 + k)' = 1 .. base + k
  <2>1. PICK T : T = {m \in 1 .. end + n :
                        m < end + 1 + k /\ ~Errors!IsMessage(g[m])}
    OBVIOUS
  <2>2. Errors!LinesBefore(end + 1 + k)' = {g[j].line : j \in T}
    BY <1>3, <1>4, <2>1
  <2>3. PICK S : S = {m \in 1 .. end :
                        m < end + 1 /\ ~Errors!IsMessage(out[m])}
    OBVIOUS
  <2>4. {out[j].line : j \in S} = 1 .. base
    <3>1. end + 1 \in Int
      BY <1>3
    <3>2. Errors!LinesBefore(end + 1) = {out[j].line : j \in S}
      BY <1>4, <2>3, <3>1
    <3> QED
      BY <1>3, <3>2
  <2>5. ASSUME NEW x \in 1 .. base + k
        PROVE  \E j \in T : g[j].line = x
    <3>1. CASE x <= base
      <4>1. x \in 1 .. base
        BY <3>1
      <4>2. PICK j \in S : out[j].line = x
        BY <2>4, <4>1
      <4>3. j \in 1 .. end + n /\ j < end + 1 + k
        BY <1>3, <2>3
      <4>4. g[j] = out[j] /\ ~Errors!IsMessage(out[j])
        BY <1>3, <2>3
      <4>5. j \in T
        BY <2>1, <4>3, <4>4
      <4> QED
        BY <4>2, <4>4, <4>5
    <3>2. CASE ~(x <= base)
      <4>1. PICK d : d = x - base
        OBVIOUS
      <4>2. d \in 1 .. n /\ d <= k /\ base + d = x
        BY <3>2, <4>1
      <4>3. end + d \in 1 .. end + n /\ end + d < end + 1 + k
        BY <1>3, <4>2
      <4>4. end + d \in T /\ g[end + d].line = x
        BY <1>5, <2>1, <4>2, <4>3
      <4> QED
        BY <4>4
    <3> QED
      BY <3>1, <3>2
  <2>6. ASSUME NEW j \in T
        PROVE  g[j].line \in 1 .. base + k
    <3>1. CASE j <= end
      <4>1. j \in S /\ g[j] = out[j]
        BY <1>3, <2>1, <2>3, <3>1
      <4>2. out[j].line \in 1 .. base
        BY <2>4, <4>1
      <4> QED
        BY <4>1, <4>2
    <3>2. CASE ~(j <= end)
      <4>1. PICK d : d = j - end
        OBVIOUS
      <4>2. d \in 1 .. n /\ d <= k /\ j = end + d
        BY <1>3, <2>1, <3>2, <4>1
      <4>3. g[j].line = base + d
        BY <1>5, <4>2
      <4> QED
        BY <4>2, <4>3
    <3> QED
      BY <3>1, <3>2
  <2> QED
    BY <2>2, <2>5, <2>6
<1>8. /\ \A k \in 1 .. end :
           Errors!IsMessage(out[k]) /\ out[k].func # "err_exit" =>
             Errors!LinesBefore(k) = 1 .. out[k].after
      /\ \A k \in 1 .. end :
           ~Errors!IsMessage(out[k]) =>
             Errors!LinesBefore(k) = 1 .. out[k].line - 1
  BY <1>3 DEF ErrorsInv, Errors!OutputFirst
<1>9. ASSUME NEW k \in 1 .. end + n
      PROVE  /\ Errors!IsMessage(g[k]) /\ g[k].func # "err_exit" =>
                  Errors!LinesBefore(k)' = 1 .. g[k].after
             /\ ~Errors!IsMessage(g[k]) =>
                  Errors!LinesBefore(k)' = 1 .. g[k].line - 1
  <2>1. CASE k <= end
    <3>1. k \in 1 .. end /\ k \in 1 .. end + 1
      BY <1>3, <2>1
    <3>2. g[k] = out[k] /\ Errors!LinesBefore(k)' = Errors!LinesBefore(k)
      BY <1>3, <1>6, <3>1
    <3> QED
      BY <1>8, <3>1, <3>2
  <2>2. CASE ~(k <= end)
    <3>1. PICK d : d = k - end
      OBVIOUS
    <3>2. /\ d \in 1 .. n /\ d - 1 \in 0 .. n /\ k = end + d
          /\ k = end + 1 + (d - 1) /\ base + (d - 1) = (base + d) - 1
      BY <1>3, <2>2, <3>1
    <3>3. ~Errors!IsMessage(g[k]) /\ g[k].line = base + d
      BY <1>5, <3>2
    <3>4. Errors!LinesBefore(k)' = 1 .. base + (d - 1)
      BY <1>7, <3>2
    <3> QED
      BY <3>2, <3>3, <3>4
  <2> QED
    BY <2>1, <2>2
<1>10. Errors!OutputFirst'
  BY <1>1, <1>3, <1>9 DEF Errors!OutputFirst, Errors!IsMessage
<1>11. Errors!LinesBefore(Len(out) + 1)' = 1 .. base + n
  <2>1. n \in 0 .. n
    OBVIOUS
  <2>2. Errors!LinesBefore(end + 1 + n)' = 1 .. base + n
    BY <1>7, <2>1
  <2>3. Errors!LinesBefore(Len(out) + 1)' =
          {g[j].line : j \in {m \in 1 .. end + n :
                         m < Len(g) + 1 /\ ~Errors!IsMessage(g[m])}}
    BY <1>1, <1>3 DEF Errors!LinesBefore, Errors!IsMessage
  <2>4. Len(g) + 1 = end + 1 + n /\ end + 1 + n \in Int
    BY <1>3
  <2> QED
    BY <1>4, <2>2, <2>3, <2>4
<1> QED
  BY <1>10, <1>11

(* A message comes out behind an empty buffer, or in err_exit. *)
LEMMA MessageComesOut ==
  ASSUME ErrorsInv, NEW f \in Errors!Functions, NEW e \in Errnos,
         out' = Append(out, Errors!Message(f, e)),
         f # "err_exit" => pending = <<>>
  PROVE  /\ out' \in Seq(Items)
         /\ Errors!OutputFirst'
         /\ Errors!LinesBefore(Len(out) + 1)' = 1 .. printed - Len(pending)
         /\ Len(out') = Len(out) + 1
         /\ Errors!IsMessage(out'[Len(out) + 1])
         /\ out'[Len(out) + 1].err = e
<1>1. PICK g : g = out'
  OBVIOUS
<1>2. PICK end : end = Len(out)
  OBVIOUS
<1>3. PICK x : x = Errors!Message(f, e)
  OBVIOUS
<1>4. /\ x \in Items /\ Errors!IsMessage(x) /\ x.func = f /\ x.err = e
      /\ x.after = printed
  BY <1>3, ItemFacts DEF ErrorsInv
<1>5. /\ end \in Nat /\ DOMAIN out = 1 .. end
      /\ g \in Seq(Items) /\ Len(g) = end + 1 /\ DOMAIN g = 1 .. end + 1
      /\ \A k \in 1 .. end : g[k] = out[k]
      /\ g[end + 1] = x
  <2>1. out \in Seq(Items)
    BY DEF ErrorsInv
  <2>2. DOMAIN out = 1 .. end /\ end \in Nat
    BY <1>2, <2>1, LenProperties
  <2>3. /\ g \in Seq(Items) /\ Len(g) = end + 1
        /\ \A k \in 1 .. end : g[k] = out[k]
        /\ g[end + 1] = x
    BY <1>1, <1>2, <1>3, <1>4, <2>1, AppendProperties
  <2> QED
    BY <2>2, <2>3, LenProperties
<1>6. \A k \in Int :
        /\ Errors!LinesBefore(k) =
             {out[j].line : j \in {m \in 1 .. end :
                                     m < k /\ ~Errors!IsMessage(out[m])}}
        /\ Errors!LinesBefore(k)' =
             {g[j].line : j \in {m \in 1 .. end + 1 :
                                   m < k /\ ~Errors!IsMessage(g[m])}}
  BY <1>1, <1>5 DEF Errors!LinesBefore, Errors!IsMessage
<1>7. ASSUME NEW k \in Int, NEW l \in Int, k = l \/ (k = end + 2 /\ l = end + 1)
      PROVE  Errors!LinesBefore(k)' = Errors!LinesBefore(l)
  <2>1. PICK S : S = {m \in 1 .. end : m < l /\ ~Errors!IsMessage(out[m])}
    OBVIOUS
  <2>2. PICK T : T = {m \in 1 .. end + 1 :
                        m < k /\ ~Errors!IsMessage(g[m])}
    OBVIOUS
  <2>3. ASSUME NEW m \in T
        PROVE  m \in S
    <3>1. m # end + 1
      BY <1>4, <1>5, <2>2
    <3>2. m \in 1 .. end
      BY <1>5, <2>2, <3>1
    <3> QED
      BY <1>5, <1>7, <2>1, <2>2, <3>2
  <2>4. ASSUME NEW m \in S
        PROVE  m \in T
    <3>1. m \in 1 .. end /\ m \in 1 .. end + 1 /\ m < k
      BY <1>5, <1>7, <2>1
    <3> QED
      BY <1>5, <2>1, <2>2, <3>1
  <2>5. S = T
    BY <2>3, <2>4
  <2>6. \A m \in S : g[m].line = out[m].line
    BY <1>5, <2>1
  <2>7. /\ Errors!LinesBefore(l) = {out[j].line : j \in S}
        /\ Errors!LinesBefore(k)' = {g[j].line : j \in S}
    BY <1>6, <2>1, <2>2, <2>5
  <2> QED
    BY <2>6, <2>7
<1>8. Errors!LinesBefore(end + 1) = 1 .. printed - Len(pending)
  BY <1>2 DEF ErrorsInv
<1>9. /\ \A k \in 1 .. end :
           Errors!IsMessage(out[k]) /\ out[k].func # "err_exit" =>
             Errors!LinesBefore(k) = 1 .. out[k].after
      /\ \A k \in 1 .. end :
           ~Errors!IsMessage(out[k]) =>
             Errors!LinesBefore(k) = 1 .. out[k].line - 1
  BY <1>5 DEF ErrorsInv, Errors!OutputFirst
<1>10. ASSUME NEW k \in 1 .. end + 1
       PROVE  /\ Errors!IsMessage(g[k]) /\ g[k].func # "err_exit" =>
                   Errors!LinesBefore(k)' = 1 .. g[k].after
              /\ ~Errors!IsMessage(g[k]) =>
                   Errors!LinesBefore(k)' = 1 .. g[k].line - 1
  <2>1. Errors!LinesBefore(k)' = Errors!LinesBefore(k)
    BY <1>7
  <2>2. CASE k = end + 1
    <3>1. f # "err_exit" => printed - Len(pending) = printed
      <4>1. f # "err_exit" => Len(pending) = 0
        BY EmptySeq
      <4> QED
        BY <4>1 DEF ErrorsInv
    <3>2. g[k] = x
      BY <1>5, <2>2
    <3>3. f # "err_exit" => Errors!LinesBefore(k)' = 1 .. printed
      BY <1>8, <2>1, <2>2, <3>1
    <3> QED
      BY <1>4, <3>2, <3>3
  <2>3. CASE k # end + 1
    <3>1. k \in 1 .. end
      BY <1>5, <2>3
    <3> QED
      BY <1>5, <1>9, <2>1, <3>1
  <2> QED
    BY <2>2, <2>3
<1>11. Errors!OutputFirst'
  BY <1>1, <1>5, <1>10 DEF Errors!OutputFirst, Errors!IsMessage
<1>12. Errors!LinesBefore(Len(out) + 1)' = 1 .. printed - Len(pending)
  <2>1. /\ end + 2 \in Int /\ end + 1 \in Int /\ Len(g) + 1 = end + 2
    BY <1>5
  <2>2. Errors!LinesBefore(end + 2)' = Errors!LinesBefore(end + 1)
    BY <1>7, <2>1
  <2>3. Errors!LinesBefore(Len(out) + 1)' =
          {g[j].line : j \in {m \in 1 .. end + 1 :
                         m < Len(g) + 1 /\ ~Errors!IsMessage(g[m])}}
    BY <1>1, <1>5 DEF Errors!LinesBefore, Errors!IsMessage
  <2> QED
    BY <1>6, <1>8, <2>1, <2>2, <2>3
<1> QED
  BY <1>1, <1>2, <1>4, <1>5, <1>11, <1>12

(* The program starts with nothing printed. *)
LEMMA ErrorsInit == Errors!Init => ErrorsInv
<1> SUFFICES ASSUME Errors!Init
             PROVE  ErrorsInv
  OBVIOUS
<1>1. /\ printed = 0 /\ pending = <<>> /\ out = <<>> /\ pc = "program"
      /\ func = "none" /\ errno \in Errnos /\ err = errno
      /\ savedErrno = errno /\ atCall = errno
  BY DEF Errors!Init
<1>2. /\ pending \in Seq(Items) /\ Len(pending) = 0
      /\ out \in Seq(Items) /\ Len(out) = 0 /\ DOMAIN out = {}
  BY <1>1, EmptySeq
<1>3. Errors!OutputFirst
  BY <1>2 DEF Errors!OutputFirst
<1>4. Errors!LinesBefore(Len(out) + 1) = 1 .. printed - Len(pending)
  <2>1. Errors!LinesBefore(Len(out) + 1) = {}
    BY <1>2 DEF Errors!LinesBefore
  <2>2. 1 .. printed - Len(pending) = {}
    BY <1>1, <1>2
  <2> QED
    BY <2>1, <2>2
<1> QED
  BY <1>1, <1>2, <1>3, <1>4 DEF ErrorsInv

(* Where nothing comes out and nothing is printed. *)
LEMMA NothingComesOut ==
  ASSUME ErrorsInv, UNCHANGED <<printed, pending, out>>
  PROVE  /\ printed' \in Nat /\ pending' \in Seq(Items) /\ out' \in Seq(Items)
         /\ Len(pending') <= printed'
         /\ \A k \in 1 .. Len(pending') :
              pending'[k] = Errors!Line(printed' - Len(pending') + k)
         /\ Errors!LinesBefore(Len(out) + 1)' = 1 .. printed' - Len(pending')
         /\ Errors!OutputFirst'
         /\ out' = out /\ pending' = pending
<1>1. Errors!OutputFirst'
  BY DEF ErrorsInv, Errors!OutputFirst, Errors!LinesBefore, Errors!IsMessage
<1>2. Errors!LinesBefore(Len(out) + 1)' = 1 .. printed' - Len(pending')
  BY DEF ErrorsInv, Errors!LinesBefore, Errors!IsMessage
<1> QED
  BY <1>1, <1>2 DEF ErrorsInv

(* Where the buffer of stdout is written: the lines in it come out. *)
LEMMA PendingComesOut ==
  ASSUME ErrorsInv, out' = out \o pending, pending' = <<>>, printed' = printed
  PROVE  /\ printed' \in Nat /\ pending' \in Seq(Items) /\ out' \in Seq(Items)
         /\ Len(pending') <= printed'
         /\ \A k \in 1 .. Len(pending') :
              pending'[k] = Errors!Line(printed' - Len(pending') + k)
         /\ Errors!LinesBefore(Len(out) + 1)' = 1 .. printed' - Len(pending')
         /\ Errors!OutputFirst'
         /\ Len(out') = Len(out) + Len(pending)
         /\ \A k \in 1 .. Len(out) : out'[k] = out[k]
         /\ \A k \in Len(out) + 1 .. Len(out') : ~Errors!IsMessage(out'[k])
<1>1. /\ out \in Seq(Items) /\ pending \in Seq(Items) /\ printed \in Nat
      /\ Len(pending) <= printed
      /\ \A k \in 1 .. Len(pending) :
           pending[k] = Errors!Line(printed - Len(pending) + k)
      /\ Errors!LinesBefore(Len(out) + 1) = 1 .. printed - Len(pending)
  BY DEF ErrorsInv
<1>2. PICK end : end = Len(out)
  OBVIOUS
<1>3. PICK n : n = Len(pending)
  OBVIOUS
<1>4. PICK base : base = printed - n
  OBVIOUS
<1>5. end \in Nat /\ n \in Nat /\ base \in Nat /\ base + n = printed
  BY <1>1, <1>2, <1>3, <1>4, LenProperties
<1>6. PICK g : g = out'
  OBVIOUS
<1>7. /\ g \in Seq(Items) /\ Len(g) = end + n
      /\ \A k \in 1 .. end + n :
           /\ k <= end => g[k] = out[k]
           /\ ~(k <= end) => g[k] = pending[k - end]
  <2>1. /\ out \o pending \in Seq(Items)
        /\ Len(out \o pending) = Len(out) + Len(pending)
        /\ \A k \in 1 .. Len(out) + Len(pending) :
             (out \o pending)[k] = IF k <= Len(out) THEN out[k]
                                   ELSE pending[k - Len(out)]
    BY <1>1, ConcatProperties
  <2>2. \A k \in 1 .. end + n :
          g[k] = IF k <= end THEN out[k] ELSE pending[k - end]
    BY <1>2, <1>3, <1>6, <2>1
  <2> QED
    BY <1>2, <1>3, <1>6, <2>1, <2>2, Zenon
<1>8. \A k \in 1 .. end : g[k] = out[k]
  <2>1. \A k \in 1 .. end : k \in 1 .. end + n /\ k <= end
    BY <1>5
  <2> QED
    BY <1>7, <2>1
<1>9. ASSUME NEW k \in 1 .. n
      PROVE  g[end + k] = Errors!Line(base + k)
  <2>1. PICK j : j = end + k
    OBVIOUS
  <2>2. j \in 1 .. end + n /\ ~(j <= end) /\ j - end = k
    BY <1>5, <2>1
  <2>3. g[j] = pending[k]
    BY <1>7, <2>2
  <2> QED
    BY <1>1, <1>3, <1>4, <2>1, <2>3
<1>10. /\ Errors!OutputFirst'
       /\ Errors!LinesBefore(Len(out) + 1)' = 1 .. base + n
  <2>1. /\ out' \in Seq(Items) /\ Len(out') = Len(out) + n
        /\ \A k \in 1 .. Len(out) : out'[k] = out[k]
        /\ \A k \in 1 .. n : out'[Len(out) + k] = Errors!Line(base + k)
        /\ Errors!LinesBefore(Len(out) + 1) = 1 .. base
    BY <1>1, <1>2, <1>3, <1>4, <1>6, <1>7, <1>8, <1>9
  <2> QED
    BY <1>5, <2>1, LinesComeOut
<1>11. ASSUME NEW k \in end + 1 .. end + n
       PROVE  ~Errors!IsMessage(g[k])
  <2>1. k - end \in 1 .. n /\ base + (k - end) \in Nat /\ end + (k - end) = k
    BY <1>5
  <2>2. g[k] = Errors!Line(base + (k - end))
    BY <1>9, <2>1
  <2> QED
    BY <2>1, <2>2, ItemFacts
<1>12. pending' \in Seq(Items) /\ Len(pending') = 0
  BY EmptySeq
<1>13. /\ Errors!LinesBefore(Len(out) + 1)' = 1 .. printed' - Len(pending')
       /\ Len(pending') <= printed' /\ 1 .. Len(pending') = {}
  <2>1. printed' - 0 = base + n /\ 0 <= printed' /\ 1 .. 0 = {}
    BY <1>1, <1>5
  <2> QED
    BY <1>10, <1>12, <2>1, Zenon
<1> QED
  BY <1>1, <1>2, <1>3, <1>6, <1>7, <1>8, <1>10, <1>11, <1>12, <1>13

(* The program prints a line into the buffer. *)
LEMMA ErrorsPrint ==
  ASSUME ErrorsInv, Errors!PrintLine
  PROVE  ErrorsInv'
<1>1. /\ pc = "program" /\ pc' = "program" /\ printed' = printed + 1
      /\ pending' = Append(pending, Errors!Line(printed + 1))
      /\ errno' \in Errnos /\ func' = "none" /\ out' = out
      /\ UNCHANGED <<err, savedErrno, atCall>>
  BY DEF Errors!PrintLine
<1>2. /\ out \in Seq(Items) /\ pending \in Seq(Items) /\ printed \in Nat
      /\ Len(pending) <= printed
      /\ \A k \in 1 .. Len(pending) :
           pending[k] = Errors!Line(printed - Len(pending) + k)
      /\ {errno, err, savedErrno, atCall} \subseteq Errnos
  BY DEF ErrorsInv
<1>3. PICK n \in Nat : n = Len(pending)
  BY <1>2, LenProperties
<1>4. PICK x : x = Errors!Line(printed + 1)
  OBVIOUS
<1>5. x \in Items
  BY <1>2, <1>4, ItemFacts
<1>6. /\ pending' \in Seq(Items) /\ Len(pending') = n + 1
      /\ \A k \in 1 .. n : pending'[k] = pending[k]
      /\ pending'[n + 1] = x
  BY <1>1, <1>2, <1>3, <1>4, <1>5, AppendProperties
<1>7. ASSUME NEW k \in 1 .. n + 1
      PROVE  pending'[k] = Errors!Line(printed' - (n + 1) + k)
  <2>1. CASE k = n + 1
    <3>1. printed' - (n + 1) + k = printed + 1
      BY <1>1, <1>2, <2>1
    <3> QED
      BY <1>4, <1>6, <2>1, <3>1
  <2>2. CASE k # n + 1
    <3>1. k \in 1 .. n /\ printed' - (n + 1) + k = printed - n + k
      BY <1>1, <1>2, <2>2
    <3> QED
      BY <1>2, <1>3, <1>6, <3>1
  <2> QED
    BY <2>1, <2>2
<1>8. Errors!OutputFirst'
  BY <1>1 DEF ErrorsInv, Errors!OutputFirst, Errors!LinesBefore,
              Errors!IsMessage
<1>9. Errors!LinesBefore(Len(out) + 1)' = 1 .. printed' - Len(pending')
  <2>1. Errors!LinesBefore(Len(out) + 1)' = 1 .. printed - n
    BY <1>1, <1>3 DEF ErrorsInv, Errors!LinesBefore, Errors!IsMessage
  <2>2. printed' - Len(pending') = printed - n
    <3>1. printed' - (n + 1) = printed - n
      BY <1>1, <1>2
    <3> QED
      BY <1>6, <3>1, Zenon
  <2> QED
    BY <2>1, <2>2
<1>10. printed' \in Nat /\ Len(pending') <= printed'
  BY <1>1, <1>2, <1>3, <1>6
<1> QED
  BY <1>1, <1>2, <1>6, <1>7, <1>8, <1>9, <1>10 DEF ErrorsInv

(* The first line of the buffer comes out by itself. *)
LEMMA ErrorsDrain ==
  ASSUME ErrorsInv, Errors!Drain
  PROVE  ErrorsInv'
<1>1. /\ pc = "program" /\ pc' = "program" /\ pending # <<>>
      /\ out' = Append(out, Head(pending)) /\ pending' = Tail(pending)
      /\ UNCHANGED <<printed, errno, func, err, savedErrno, atCall>>
  BY DEF Errors!Drain
<1>2. /\ out \in Seq(Items) /\ pending \in Seq(Items) /\ printed \in Nat
      /\ Len(pending) <= printed
      /\ \A k \in 1 .. Len(pending) :
           pending[k] = Errors!Line(printed - Len(pending) + k)
      /\ {errno, err, savedErrno, atCall} \subseteq Errnos
      /\ Errors!LinesBefore(Len(out) + 1) = 1 .. printed - Len(pending)
  BY DEF ErrorsInv
<1>3. PICK n \in Nat : n = Len(pending)
  BY <1>2, LenProperties
<1>4. PICK base : base = printed - n
  OBVIOUS
<1>5. PICK x : x = Head(pending)
  OBVIOUS
<1>6. /\ x \in Items /\ x = pending[1] /\ n > 0
      /\ pending' \in Seq(Items) /\ Len(pending') = n - 1
      /\ \A k \in 1 .. n - 1 : pending'[k] = pending[k + 1]
  BY <1>1, <1>2, <1>3, <1>5, HeadTailProperties, EmptySeq, ElementOfSeq
<1>7. base \in Nat /\ base + 1 = printed - (n - 1)
  BY <1>2, <1>3, <1>4
<1>8. x = Errors!Line(base + 1)
  <2>1. 1 \in 1 .. n
    BY <1>6
  <2> QED
    BY <1>2, <1>3, <1>4, <1>6, <2>1
<1>9. /\ out' \in Seq(Items) /\ Len(out') = Len(out) + 1
      /\ \A k \in 1 .. Len(out) : out'[k] = out[k]
      /\ out'[Len(out) + 1] = x
  BY <1>1, <1>2, <1>5, <1>6, AppendProperties
<1>10. \A k \in 1 .. 1 : out'[Len(out) + k] = Errors!Line(base + k)
  BY <1>8, <1>9
<1>11. /\ Errors!OutputFirst'
       /\ Errors!LinesBefore(Len(out) + 1)' = 1 .. base + 1
  <2>1. Errors!LinesBefore(Len(out) + 1) = 1 .. base
    BY <1>2, <1>3, <1>4
  <2> QED
    BY <1>7, <1>9, <1>10, <2>1, LinesComeOut
<1>12. ASSUME NEW k \in 1 .. n - 1
       PROVE  pending'[k] = Errors!Line(printed - (n - 1) + k)
  <2>1. k + 1 \in 1 .. n /\ printed - (n - 1) + k = printed - n + (k + 1)
    BY <1>2
  <2> QED
    BY <1>2, <1>3, <1>6, <2>1
<1>13. Len(pending') <= printed
  BY <1>2, <1>3, <1>6
<1> QED
  BY <1>1, <1>2, <1>6, <1>7, <1>9, <1>11, <1>12, <1>13 DEF ErrorsInv

(* Every step of the error functions preserves the invariant. *)
LEMMA ErrorsStep == ErrorsInv /\ [Errors!Next]_Errors!vars => ErrorsInv'
<1> SUFFICES ASSUME ErrorsInv, [Errors!Next]_Errors!vars
             PROVE  ErrorsInv'
  OBVIOUS
<1>1. /\ {errno, err, savedErrno, atCall} \subseteq Errnos
      /\ out \in Seq(Items) /\ pending \in Seq(Items)
      /\ Len(out) \in Nat /\ printed \in Nat
      /\ pc \in {"message", "end", "ended"} /\ func # "err_exit" =>
           pending = <<>>
      /\ pc # "program" => func \in Errors!Functions /\ err = atCall
      /\ pc \notin {"program", "ended"} /\ func # "errExitEN" =>
           savedErrno = atCall
      /\ pc = "program" /\ func = "errMsg" => errno = atCall
  BY LenProperties DEF ErrorsInv
<1>2. pc \in {"end", "ended"} =>
        \E k \in 1 .. Len(out) :
          /\ Errors!IsMessage(out[k]) /\ out[k].err = atCall
          /\ \A j \in k + 1 .. Len(out) : ~Errors!IsMessage(out[j])
  BY DEF ErrorsInv
<1>3. CASE UNCHANGED Errors!vars
  <2>1. UNCHANGED <<printed, pending, out>>
    BY <1>3 DEF Errors!vars
  <2> QED
    BY <1>1, <1>2, <1>3, <2>1, NothingComesOut DEF Errors!vars, ErrorsInv
<1>4. CASE Errors!PrintLine
  BY <1>4, ErrorsPrint
<1>5. CASE Errors!Drain
  BY <1>5, ErrorsDrain
<1>6. ASSUME NEW f \in Errors!Functions, Errors!Call(f)
      PROVE  ErrorsInv'
  <2>1. /\ UNCHANGED <<printed, pending, out>>
        /\ pc' = "format" /\ func' = f /\ errno' \in Errnos
        /\ err' \in Errnos
        /\ f # "errExitEN" => err' = errno'
        /\ savedErrno' = errno' /\ atCall' = err'
    BY <1>6 DEF Errors!Call
  <2> QED
    BY <1>1, <2>1, NothingComesOut DEF ErrorsInv
<1>7. CASE Errors!Format
  <2>1. /\ UNCHANGED <<printed, pending, out, func, err, savedErrno, atCall>>
        /\ pc = "format" /\ pc' = "flush" /\ errno' \in Errnos
    BY <1>7 DEF Errors!Format
  <2> QED
    BY <1>1, <2>1, NothingComesOut DEF ErrorsInv
<1>8. CASE Errors!Flush
  <2>1. /\ pc = "flush" /\ pc' = "message"
        /\ UNCHANGED <<printed, func, err, savedErrno, atCall>>
    BY <1>8 DEF Errors!Flush
  <2>2. CASE func = "err_exit"
    <3>1. UNCHANGED <<pending, out, errno>>
      BY <1>8, <2>2 DEF Errors!Flush
    <3> QED
      BY <1>1, <2>1, <2>2, <3>1, NothingComesOut DEF ErrorsInv
  <2>3. CASE func # "err_exit"
    <3>1. out' = out \o pending /\ pending' = <<>> /\ errno' \in Errnos
      BY <1>8, <2>3 DEF Errors!Flush
    <3> QED
      BY <1>1, <2>1, <2>3, <3>1, PendingComesOut DEF ErrorsInv
  <2> QED
    BY <2>2, <2>3
<1>9. CASE Errors!Put
  <2>1. /\ pc = "message" /\ pc' = "end"
        /\ out' = Append(out, Errors!Message(func, err))
        /\ errno' \in Errnos
        /\ UNCHANGED <<printed, pending, func, err, savedErrno, atCall>>
    BY <1>9 DEF Errors!Put, Errors!Shown
  <2>2. /\ out' \in Seq(Items)
        /\ Errors!OutputFirst'
        /\ Errors!LinesBefore(Len(out) + 1)' = 1 .. printed - Len(pending)
        /\ Len(out') = Len(out) + 1
        /\ Errors!IsMessage(out'[Len(out) + 1])
        /\ out'[Len(out) + 1].err = err
    <3>1. /\ func \in Errors!Functions /\ err \in Errnos
          /\ func # "err_exit" => pending = <<>>
      BY <1>1, <2>1
    <3> QED
      BY <2>1, <3>1, MessageComesOut
  <2>3. \E k \in 1 .. Len(out') :
          /\ Errors!IsMessage(out'[k]) /\ out'[k].err = atCall'
          /\ \A j \in k + 1 .. Len(out') : ~Errors!IsMessage(out'[j])
    <3>1. PICK k : k = Len(out) + 1
      OBVIOUS
    <3>2. k \in 1 .. Len(out') /\ \A j \in k + 1 .. Len(out') : FALSE
      BY <1>1, <2>2, <3>1
    <3>3. Errors!IsMessage(out'[k]) /\ out'[k].err = atCall'
      BY <1>1, <2>1, <2>2, <3>1
    <3> QED
      BY <3>2, <3>3
  <2>4. /\ Errors!LinesBefore(Len(out) + 1)' = 1 .. printed' - Len(pending')
        /\ Len(pending') <= printed'
        /\ \A k \in 1 .. Len(pending') :
             pending'[k] = Errors!Line(printed' - Len(pending') + k)
    BY <2>1, <2>2 DEF ErrorsInv
  <2> QED
    BY <1>1, <2>1, <2>2, <2>3, <2>4 DEF ErrorsInv, Errors!IsMessage
<1>10. CASE Errors!Return
  <2>1. /\ pc = "end" /\ func = "errMsg" /\ pc' = "program"
        /\ errno' = savedErrno
        /\ UNCHANGED <<printed, pending, out, func, err, savedErrno, atCall>>
    BY <1>10 DEF Errors!Return
  <2> QED
    BY <1>1, <2>1, NothingComesOut DEF ErrorsInv
<1>11. CASE Errors!TerminateAtOnce
  <2>1. /\ pc = "end" /\ pc' = "ended"
        /\ UNCHANGED <<printed, pending, out, errno, func, err, savedErrno,
                       atCall>>
    BY <1>11 DEF Errors!TerminateAtOnce
  <2> QED
    BY <1>1, <1>2, <2>1, NothingComesOut DEF ErrorsInv
<1>12. CASE Errors!Exit
  <2>1. /\ pc = "end" /\ pc' = "ended"
        /\ out' = out \o pending /\ pending' = <<>>
        /\ UNCHANGED <<printed, errno, func, err, savedErrno, atCall>>
    BY <1>12 DEF Errors!Exit
  <2>2. PICK k \in 1 .. Len(out) :
          /\ Errors!IsMessage(out[k]) /\ out[k].err = atCall
          /\ \A j \in k + 1 .. Len(out) : ~Errors!IsMessage(out[j])
    BY <1>2, <2>1
  <2>3. /\ Len(out') = Len(out) + Len(pending) /\ Len(pending) \in Nat
        /\ \A j \in 1 .. Len(out) : out'[j] = out[j]
        /\ \A j \in Len(out) + 1 .. Len(out') : ~Errors!IsMessage(out'[j])
    BY <1>1, <2>1, PendingComesOut, LenProperties
  <2>4. /\ k \in 1 .. Len(out')
        /\ Errors!IsMessage(out'[k]) /\ out'[k].err = atCall'
    BY <1>1, <2>1, <2>2, <2>3
  <2>5. ASSUME NEW j \in k + 1 .. Len(out')
        PROVE  ~Errors!IsMessage(out'[j])
    <3>1. \/ j \in k + 1 .. Len(out) /\ j \in 1 .. Len(out)
          \/ j \in Len(out) + 1 .. Len(out')
      BY <1>1, <2>3
    <3> QED
      BY <2>2, <2>3, <3>1
  <2> QED
    BY <1>1, <2>1, <2>4, <2>5, PendingComesOut
       DEF ErrorsInv, Errors!IsMessage
<1> QED
  BY <1>3, <1>4, <1>5, <1>6, <1>7, <1>8, <1>9, <1>10, <1>11, <1>12
     DEF Errors!Next

(* What the run checks follows from the invariant. *)
LEMMA ErrorsShown ==
  ErrorsInv => Errors!OutputFirst /\ Errors!NothingLost /\ Errors!ErrnoKept
<1> SUFFICES ASSUME ErrorsInv
             PROVE  Errors!OutputFirst /\ Errors!NothingLost /\ Errors!ErrnoKept
  OBVIOUS
<1>1. Errors!OutputFirst
  BY DEF ErrorsInv
<1>2. Errors!NothingLost
  <2>1. SUFFICES ASSUME pc = "ended", func # "err_exit"
                 PROVE  Errors!LinesBefore(Len(out) + 1) = 1 .. printed
    BY DEF Errors!NothingLost
  <2>2. pending = <<>> /\ printed \in Nat
    BY <2>1 DEF ErrorsInv
  <2>3. printed - Len(pending) = printed
    BY <2>2, EmptySeq
  <2> QED
    BY <2>3 DEF ErrorsInv
<1>3. Errors!ErrnoKept
  <2>1. DOMAIN out = 1 .. Len(out)
    BY LenProperties DEF ErrorsInv
  <2> QED
    BY <2>1 DEF ErrorsInv, Errors!ErrnoKept
<1> QED
  BY <1>1, <1>2, <1>3

-----------------------------------------------------------------------------
(* The types that each module states for its variables. *)

(* A write of tee adds bytes of the input. *)
LEMMA TakenTypes ==
  ASSUME NEW f, NEW g, NEW S, f \in Seq(S), 1 .. consumed \subseteq S,
         consumed \in Nat, nr_read \in Int, nr_read <= consumed, nr_read >= -1,
         Tee!Taken(f, g)
  PROVE  g \in Seq(S) /\ whole' \in BOOLEAN
<1>1. PICK n \in 0 .. (IF nr_read = -1 THEN 0 ELSE nr_read) :
        /\ g = f \o SubSeq(Tee!Buffer, 1, n)
        /\ whole' = (whole /\ n >= nr_read)
  BY DEF Tee!Taken
<1>2. n \in Nat /\ (n > 0 => n <= nr_read)
  BY <1>1
<1>3. \A k \in 1 .. n : Tee!Buffer[k] \in S
  <2> TAKE k \in 1 .. n
  <2>1. k \in 1 .. nr_read
    BY <1>2
  <2>2. consumed - nr_read + k \in 1 .. consumed
    BY <2>1
  <2>3. Tee!Buffer[k] = consumed - nr_read + k
    BY <2>1 DEF Tee!Buffer
  <2> QED
    BY <2>2, <2>3
<1>4. PICK b : b = Tee!Buffer
  OBVIOUS
<1>5. SubSeq(b, 1, n) \in Seq(S)
  BY <1>2, <1>3, <1>4, SubSeqProperties
<1>6. f \o SubSeq(b, 1, n) \in Seq(S)
  BY <1>5, ConcatProperties
<1>7. whole' \in BOOLEAN
  BY <1>1, Zenon
<1> QED
  BY <1>1, <1>4, <1>6, <1>7, Zenon

(* tee: what it has read and written so far. *)
LEMMA TeeTypesInit == Tee!Init => Tee!TypeOK
<1> SUFFICES ASSUME Tee!Init
             PROVE  Tee!TypeOK
  OBVIOUS
<1>1. /\ MaxInput \in Nat /\ BUFFER_SZ \in Nat /\ Broken \subseteq BOOLEAN
  BY ConstantsAssumption DEF Tee!ConstantsOK
<1>2. file \in Seq(0 .. MaxInput)
  <2>1. 0 \in 0 .. MaxInput
    BY <1>1
  <2>2. <<0, 0>> \in Seq(0 .. MaxInput)
    BY <2>1
  <2> QED
    BY <2>2 DEF Tee!Init, Tee!Prior
<1>3. stdout \in Seq(1 .. MaxInput)
  BY EmptySeq DEF Tee!Init
<1>4. /\ broken \in BOOLEAN /\ append \in BOOLEAN /\ whole \in BOOLEAN
      /\ dirty \in BOOLEAN
  BY <1>1, Zenon DEF Tee!Init
<1>5. /\ input \in 0 .. MaxInput /\ consumed \in 0 .. input
      /\ nr_read \in -1 .. BUFFER_SZ /\ pc = "open"
  BY <1>1 DEF Tee!Init
<1> QED
  BY <1>2, <1>3, <1>4, <1>5, Zenon DEF Tee!TypeOK

(* Each of its steps. *)
LEMMA TeeTypesStep ==
  TeeInv /\ Tee!TypeOK /\ [Tee!Next]_Tee!vars => Tee!TypeOK'
<1> SUFFICES ASSUME TeeInv, Tee!TypeOK, [Tee!Next]_Tee!vars
             PROVE  Tee!TypeOK'
  OBVIOUS
<1>1. MaxInput \in Nat /\ BUFFER_SZ \in Nat
  BY ConstantsAssumption DEF Tee!ConstantsOK
<1>2. /\ broken \in BOOLEAN /\ append \in BOOLEAN
      /\ input \in 0 .. MaxInput /\ consumed \in 0 .. input
      /\ nr_read \in -1 .. BUFFER_SZ
      /\ file \in Seq(0 .. MaxInput) /\ stdout \in Seq(1 .. MaxInput)
      /\ whole \in BOOLEAN /\ dirty \in BOOLEAN
      /\ pc \in {"open", "read", "write_file", "write_stdout", "fsync", "close",
                 "exited", "died"}
  BY DEF Tee!TypeOK
<1>3. /\ input \in Nat /\ consumed \in Nat /\ nr_read \in Int
      /\ consumed <= input /\ nr_read >= -1 /\ nr_read <= consumed
  BY DEF TeeInv
<1>4. 1 .. consumed \subseteq 1 .. MaxInput /\ 1 .. consumed \subseteq 0 .. MaxInput
  BY <1>1, <1>2, <1>3
<1>5. CASE UNCHANGED Tee!vars
  BY <1>2, <1>5 DEF Tee!vars, Tee!TypeOK
<1>6. CASE Tee!Open
  <2>1. Tee!Kept \in Seq(0 .. MaxInput)
    <3>1. 0 \in 0 .. MaxInput
      BY <1>1
    <3>2. <<0, 0>> \in Seq(0 .. MaxInput) /\ <<>> \in Seq(0 .. MaxInput)
      BY <3>1
    <3> QED
      BY <3>2 DEF Tee!Kept, Tee!Prior
  <2> QED
    BY <1>2, <1>6, <2>1 DEF Tee!Open, Tee!TypeOK
<1>7. CASE Tee!ReadData
  <2>1. PICK n \in 1 .. BUFFER_SZ :
          consumed + n <= input /\ nr_read' = n /\ consumed' = consumed + n
    BY <1>7 DEF Tee!ReadData
  <2>2. consumed' \in 0 .. input /\ nr_read' \in -1 .. BUFFER_SZ
    BY <1>1, <1>3, <2>1
  <2> QED
    BY <1>2, <1>7, <2>2 DEF Tee!ReadData, Tee!TypeOK
<1>8. CASE Tee!ReadEnd \/ Tee!ReadError
  <2>1. nr_read' \in -1 .. BUFFER_SZ
    BY <1>1, <1>8 DEF Tee!ReadEnd, Tee!ReadError
  <2> QED
    BY <1>2, <1>8, <2>1 DEF Tee!ReadEnd, Tee!ReadError, Tee!TypeOK
<1>9. CASE Tee!WriteFile
  <2>1. file' \in Seq(0 .. MaxInput) /\ whole' \in BOOLEAN
    <3>1. Tee!Taken(file, file')
      BY <1>9 DEF Tee!WriteFile
    <3> QED
      BY <1>2, <1>3, <1>4, <3>1, TakenTypes
  <2>2. dirty' \in BOOLEAN
    BY <1>9, Zenon DEF Tee!WriteFile
  <2>3. /\ pc' = "write_stdout"
        /\ UNCHANGED <<broken, append, input, consumed, nr_read, stdout>>
    BY <1>9 DEF Tee!WriteFile
  <2> QED
    BY <1>2, <2>1, <2>2, <2>3 DEF Tee!TypeOK
<1>10. CASE Tee!WriteStdout
  <2>1. stdout' \in Seq(1 .. MaxInput) /\ whole' \in BOOLEAN
    <3>1. Tee!Taken(stdout, stdout')
      BY <1>10 DEF Tee!WriteStdout
    <3> QED
      BY <1>2, <1>3, <1>4, <3>1, TakenTypes
  <2>2. /\ pc' = "read"
        /\ UNCHANGED <<broken, append, input, consumed, nr_read, file, dirty>>
    BY <1>10 DEF Tee!WriteStdout
  <2> QED
    BY <1>2, <2>1, <2>2 DEF Tee!TypeOK
<1>11. CASE Tee!Fsync \/ Tee!Close \/ Tee!Fail
  BY <1>2, <1>11 DEF Tee!Fsync, Tee!Close, Tee!Fail, Tee!TypeOK
<1> QED
  BY <1>5, <1>6, <1>7, <1>8, <1>9, <1>10, <1>11 DEF Tee!Next

(* The copy of q2_std: what SparseInv leaves open is how much the other    *)
(* process has appended.                                                   *)
LEMMA SparseTypesInit == Sparse!Init => Sparse!TypeOK
<1> SUFFICES ASSUME Sparse!Init
             PROVE  Sparse!TypeOK
  OBVIOUS
<1>1. /\ SparseInv /\ Growth \in Nat
  BY SparseInit, ConstantsAssumption DEF Sparse!ConstantsOK
<1>2. pc = "open" /\ grown = 0
  BY DEF Sparse!Init
<1> QED
  BY <1>1, <1>2 DEF SparseInv, Sparse!TypeOK

(* Each step of the copy, and of the other process. *)
LEMMA SparseTypesStep ==
  SparseInv /\ Sparse!TypeOK /\ [Sparse!Next]_Sparse!vars => Sparse!TypeOK'
<1> SUFFICES ASSUME SparseInv, Sparse!TypeOK, [Sparse!Next]_Sparse!vars
             PROVE  Sparse!TypeOK'
  OBVIOUS
<1>1. SparseInv'
  BY SparseStep
<1>2. /\ src' \in Seq(Sparse!Cells) /\ dst' \in Seq(Sparse!Cells)
      /\ src_file_size' \in Nat /\ data_begin' \in Nat /\ data_end' \in Nat
      /\ read_within_region' \in Nat
      /\ pc' = "copy" => Sparse!Position' <= data_end' /\ data_end' <= Len(src)'
  BY <1>1 DEF SparseInv
<1>3. grown' \in 0 .. Growth
  <2>1. grown \in 0 .. Growth /\ Growth \in Nat
    BY ConstantsAssumption DEF Sparse!TypeOK, Sparse!ConstantsOK
  <2>2. CASE Sparse!Step \/ UNCHANGED Sparse!vars
    <3>1. grown' = grown
      BY <2>2, Zenon
         DEF Sparse!Step, Sparse!OpenBoth, Sparse!SeekData, Sparse!NoMoreData,
             Sparse!PunchHole, Sparse!SeekHole, Sparse!CopyBytes,
             Sparse!RegionCopied, Sparse!Finish, Sparse!Fail, Sparse!vars
    <3> QED
      BY <2>1, <3>1
  <2>3. CASE Sparse!AppendToSource
    BY <2>1, <2>3 DEF Sparse!AppendToSource
  <2> QED
    BY <2>2, <2>3 DEF Sparse!Next
<1>4. pc' \in {"open", "seek_data", "seek_hole", "copy", "punch", "finish",
               "exited", "died"}
  BY DEF Sparse!Next, Sparse!Step, Sparse!AppendToSource, Sparse!OpenBoth,
         Sparse!SeekData, Sparse!NoMoreData, Sparse!PunchHole,
         Sparse!SeekHole, Sparse!CopyBytes, Sparse!RegionCopied,
         Sparse!Finish, Sparse!Fail, Sparse!vars, Sparse!TypeOK
<1> QED
  BY <1>2, <1>3, <1>4, Zenon DEF Sparse!TypeOK

(* The copy of q2_nulls_into_holes: the source stays as long as it is, and *)
(* a read answers no more than a buffer.                                   *)
NullsTypes ==
  Nulls!TypeOK /\ Len(src) <= MaxSize

(* The source has no more than MaxSize bytes. *)
LEMMA NullsTypesInit == Nulls!Init => NullsTypes
<1> SUFFICES ASSUME Nulls!Init
             PROVE  NullsTypes
  OBVIOUS
<1>1. NullsInv /\ MaxSize \in Nat /\ BUFFER_SZ \in Nat
  BY NullsInit, ConstantsAssumption DEF Nulls!ConstantsOK
<1>2. PICK n \in 0 .. MaxSize : src \in [1 .. n -> Content]
  BY DEF Nulls!Init
<1>3. Len(src) <= MaxSize
  <2>1. Len(src) \in Nat /\ 1 .. Len(src) = 1 .. n
    BY <1>1, <1>2, LenProperties, Zenon DEF NullsInv
  <2>2. PICK l \in Nat : l = Len(src)
    BY <2>1
  <2>3. l = n
    BY <1>2, <2>1, <2>2, FS_Interval
  <2> QED
    BY <1>1, <1>2, <2>2, <2>3
<1>4. /\ dst_offset = 0 /\ total_read = 0 /\ nread = 0 /\ i = 0
      /\ nonhole_begin = 0 /\ hole_begin = 0 /\ inside_hole = FALSE
      /\ pc = "read"
  BY DEF Nulls!Init
<1>5. src \in Seq(Content) /\ dst \in Seq(Content \cup {Nulls!Hole})
  BY <1>1 DEF NullsInv
<1>6. /\ dst_offset \in Nat /\ total_read \in 0 .. MaxSize
      /\ nread \in 0 .. BUFFER_SZ /\ i \in 0 .. nread
      /\ nonhole_begin \in 0 .. nread /\ hole_begin \in 0 .. MaxSize
  BY <1>1, <1>4
<1>7. /\ inside_hole \in BOOLEAN
      /\ pc \in {"read", "scan", "exited", "died"}
  BY <1>4, Zenon
<1> QED
  BY <1>3, <1>5, <1>6, <1>7, Zenon DEF NullsTypes, Nulls!TypeOK

(* Each step of the copy. *)
LEMMA NullsTypesStep ==
  NullsInv /\ NullsTypes /\ [Nulls!Next]_Nulls!vars => NullsTypes'
<1> SUFFICES ASSUME NullsInv, NullsTypes, [Nulls!Next]_Nulls!vars
             PROVE  NullsTypes'
  OBVIOUS
<1>1. NullsInv'
  BY NullsStep
<1>2. PICK l \in Nat : l = Len(src)
  BY LenProperties DEF NullsInv
<1>3. src' = src /\ l <= MaxSize
  <2>1. src' = src
    BY DEF Nulls!Next, Nulls!Read, Nulls!BeginHole, Nulls!EndHole,
           Nulls!PassByte, Nulls!EndOfBuffer, Nulls!EndOfFile, Nulls!Fail,
           Nulls!vars, Nulls!files, Nulls!buffer
  <2> QED
    BY <1>2, <2>1 DEF NullsTypes
<1>4. /\ src' \in Seq(Content) /\ dst' \in Seq(Content \cup {Nulls!Hole})
      /\ dst_offset' \in Nat /\ total_read' \in Nat /\ nread' \in Nat
      /\ i' \in Nat /\ nonhole_begin' \in Nat /\ inside_hole' \in BOOLEAN
      /\ hole_begin' \in Nat
      /\ i' <= nread' /\ nonhole_begin' <= i'
  BY <1>1 DEF NullsInv
<1>5. total_read' <= l
  BY <1>1, <1>2, <1>3 DEF NullsInv
<1>6. /\ total_read \in Nat /\ nread \in Nat /\ i \in Nat /\ i <= nread
      /\ nread <= total_read /\ total_read <= l
      /\ nread \in 0 .. BUFFER_SZ /\ hole_begin \in 0 .. MaxSize
      /\ MaxSize \in Nat /\ BUFFER_SZ \in Nat
      /\ pc \in {"read", "scan", "exited", "died"}
  BY <1>2, ConstantsAssumption
     DEF NullsInv, NullsTypes, Nulls!TypeOK, Nulls!ConstantsOK
<1>7. nread' \in 0 .. BUFFER_SZ
  <2>1. nread' = nread \/ nread' \in 1 .. BUFFER_SZ
    BY DEF Nulls!Next, Nulls!Read, Nulls!BeginHole, Nulls!EndHole,
           Nulls!PassByte, Nulls!EndOfBuffer, Nulls!EndOfFile, Nulls!Fail,
           Nulls!vars, Nulls!files, Nulls!buffer
  <2> QED
    BY <1>6, <2>1
<1>8. hole_begin' \in 0 .. MaxSize
  <2>1. hole_begin' = hole_begin \/ hole_begin' = total_read - (nread - i)
    BY DEF Nulls!Next, Nulls!Read, Nulls!BeginHole, Nulls!EndHole,
           Nulls!PassByte, Nulls!EndOfBuffer, Nulls!EndOfFile, Nulls!Fail,
           Nulls!vars, Nulls!files, Nulls!buffer, Nulls!At
  <2> QED
    BY <1>3, <1>6, <2>1
<1>9. pc' \in {"read", "scan", "exited", "died"}
  BY <1>6 DEF Nulls!Next, Nulls!Read, Nulls!BeginHole, Nulls!EndHole,
         Nulls!PassByte, Nulls!EndOfBuffer, Nulls!EndOfFile, Nulls!Fail,
         Nulls!vars, Nulls!files, Nulls!buffer
<1>10. total_read' \in 0 .. MaxSize /\ i' \in 0 .. nread'
       /\ nonhole_begin' \in 0 .. nread' /\ Len(src)' <= MaxSize
  <2>1. total_read' \in 0 .. MaxSize /\ i' \in 0 .. nread'
        /\ nonhole_begin' \in 0 .. nread'
    BY <1>3, <1>4, <1>5, <1>6
  <2>2. Len(src)' <= MaxSize
    BY <1>2, <1>3, Zenon
  <2> QED
    BY <2>1, <2>2
<1> QED
  BY <1>4, <1>7, <1>8, <1>9, <1>10, Zenon DEF NullsTypes, Nulls!TypeOK

(* The lookups: what is in the area when the two names are printed is that *)
(* of a user, because both lookups have been made.                         *)
UsersTypes ==
  /\ Passwd!TypeOK
  /\ pc = "chpt8_q1" /\ order = <<>> => area \in UserNames

(* No lookup has been made. *)
LEMMA UsersTypesInit == Passwd!Init => UsersTypes
<1> SUFFICES ASSUME Passwd!Init
             PROVE  UsersTypes
  OBVIOUS
<1>1. cursor \in 0 .. Len(users)
  BY UsersInit DEF UsersInv
<1>2. /\ area = "nothing" /\ errno \in Passwd!ErrorNumbers /\ entry = "NULL"
      /\ shown = <<>> /\ failed = FALSE /\ pc \in {"__getpwnam", "chpt8_q1"}
  BY DEF Passwd!Init
<1>3. shown \in Seq(UserNames)
  BY <1>2, EmptySeq
<1>4. order # <<>>
  <2>1. order \in {<<0, 1>>, <<1, 0>>}
    BY DEF Passwd!Init
  <2>2. <<0, 1>> # <<>> /\ <<1, 0>> # <<>>
    OBVIOUS
  <2> QED
    BY <2>1, <2>2
<1> QED
  BY <1>1, <1>2, <1>3, <1>4 DEF UsersTypes, Passwd!TypeOK

(* Each call of the library. *)
LEMMA UsersTypesStep ==
  UsersInv /\ UsersTypes /\ [Passwd!Next]_Passwd!vars => UsersTypes'
<1> SUFFICES ASSUME UsersInv, UsersTypes, [Passwd!Next]_Passwd!vars
             PROVE  UsersTypes'
  OBVIOUS
<1>1. cursor' \in 0 .. Len(users)'
  BY UsersStep DEF UsersInv
<1>2. /\ area \in UserNames \cup {"nothing"} /\ errno \in Passwd!ErrorNumbers
      /\ entry \in {"NULL", "area"}
      /\ shown \in Seq(UserNames) /\ failed \in BOOLEAN
      /\ pc \in {"__getpwnam", "loop", "endpwent", "returned",
                 "chpt8_q1", "printed", "crashed"}
  BY DEF UsersTypes, Passwd!TypeOK
<1>3. /\ users \in Seq(UserNames) /\ DOMAIN users = 1 .. Len(users)
      /\ \A k \in 1 .. Len(users) : users[k] \in UserNames
      /\ cursor \in 0 .. Len(users)
  <2>1. users \in Seq(UserNames) /\ cursor \in 0 .. Len(users)
    BY DEF UsersInv
  <2> QED
    BY <2>1, LenProperties, ElementOfSeq
<1>4. PICK m \in Nat : m = Len(users)
  BY <1>3, LenProperties
<1>5. CASE UNCHANGED Passwd!vars
  BY <1>1, <1>2, <1>5 DEF Passwd!vars, UsersTypes, Passwd!TypeOK
<1>6. CASE Passwd!BadName \/ Passwd!Setpwent \/ Passwd!Endpwent
           \/ Passwd!GetpwentEnd \/ Passwd!GetpwentFails
  BY <1>1, <1>2, <1>6
     DEF Passwd!BadName, Passwd!Setpwent, Passwd!Endpwent, Passwd!GetpwentEnd,
         Passwd!GetpwentFails, Passwd!CleanErrno, Passwd!ErrorNumbers,
         UsersTypes, Passwd!TypeOK
<1>7. CASE Passwd!Getpwent
  <2>1. cursor + 1 \in 1 .. Len(users)
    BY <1>3, <1>4, <1>7 DEF Passwd!Getpwent
  <2>2. area' \in UserNames
    BY <1>3, <1>7, <2>1 DEF Passwd!Getpwent
  <2> QED
    BY <1>1, <1>2, <1>7, <2>2
       DEF Passwd!Getpwent, Passwd!CleanErrno, Passwd!ErrorNumbers,
           UsersTypes, Passwd!TypeOK
<1>8. CASE Passwd!Getpwuid
  <2>1. order \in {<<0, 1>>, <<1, 0>>, <<0>>, <<1>>}
    BY <1>8 DEF UsersInv, Passwd!Getpwuid
  <2>2. Head(order) \in {0, 1}
    BY <2>1
  <2>3. /\ area' \in UserNames \cup {"nothing"}
        /\ pc' = "chpt8_q1" => area' \in UserNames
    <3>1. CASE Head(order) < Len(users)
      <4>1. Head(order) + 1 \in 1 .. Len(users)
        BY <1>4, <2>2, <3>1
      <4> QED
        BY <1>3, <1>8, <3>1, <4>1 DEF Passwd!Getpwuid
    <3>2. CASE ~(Head(order) < Len(users))
      BY <1>2, <1>8, <3>2 DEF Passwd!Getpwuid
    <3> QED
      BY <3>1, <3>2
  <2> QED
    BY <1>1, <1>2, <1>8, <2>3 DEF Passwd!Getpwuid, UsersTypes, Passwd!TypeOK
<1>9. CASE Passwd!Printf
  <2>1. area \in UserNames
    BY <1>9 DEF UsersTypes, Passwd!Printf
  <2>2. <<area, area>> \in Seq(UserNames)
    BY <2>1
  <2> QED
    BY <1>1, <1>2, <1>9, <2>2 DEF Passwd!Printf, UsersTypes, Passwd!TypeOK
<1> QED
  BY <1>5, <1>6, <1>7, <1>8, <1>9 DEF Passwd!Next, Passwd!Step

(* deliver_write: the bytes of the sink are bytes of the buffers.          *)
SinkBytes == {<<p, k>> : p \in Procs, k \in 1 .. MaxBytes}

(* Nothing has been taken. *)
LEMMA DeliverTypesInit == Deliver!Init => Deliver!TypeOK
<1> SUFFICES ASSUME Deliver!Init
             PROVE  Deliver!TypeOK
  OBVIOUS
<1>1. /\ sink = <<>> /\ nbytes \in [Procs -> 0 .. MaxBytes]
      /\ total_written = [p \in Procs |-> 0]
  BY DEF Deliver!Init
<1>2. MaxBytes \in Nat
  BY ConstantsAssumption DEF Deliver!ConstantsOK
<1>3. total_written \in [Procs -> 0 .. MaxBytes]
  BY <1>1, <1>2
<1>4. sink \in Seq({<<p, k>> : p \in Procs, k \in 1 .. MaxBytes})
  BY <1>1, EmptySeq
<1>5. /\ \A p \in Procs : total_written[p] <= nbytes[p]
      /\ pc \in [Procs -> {"writing", "returned", "died"}]
  BY DeliverInit DEF DeliverInv
<1> QED
  BY <1>1, <1>3, <1>4, <1>5 DEF Deliver!TypeOK

(* A write takes bytes of the buffer it is offered. *)
LEMMA DeliverTypesStep ==
  DeliverInv /\ Deliver!TypeOK /\ [Deliver!Next]_Deliver!vars => Deliver!TypeOK'
<1> SUFFICES ASSUME DeliverInv, Deliver!TypeOK, [Deliver!Next]_Deliver!vars
             PROVE  Deliver!TypeOK'
  OBVIOUS
<1>1. /\ \A p \in Procs : total_written'[p] <= nbytes'[p]
      /\ pc' \in [Procs -> {"writing", "returned", "died"}]
      /\ total_written' \in [Procs -> Nat]
  BY DeliverStep DEF DeliverInv
<1>2. /\ sink \in Seq(SinkBytes) /\ nbytes \in [Procs -> 0 .. MaxBytes]
      /\ total_written \in [Procs -> 0 .. MaxBytes] /\ MaxBytes \in Nat
  BY ConstantsAssumption DEF Deliver!TypeOK, Deliver!ConstantsOK, SinkBytes
<1>3. nbytes' = nbytes
  BY DEF Deliver!Next, Deliver!Write, Deliver!WriteZero, Deliver!WriteError,
         Deliver!vars
<1>4. total_written' \in [Procs -> 0 .. MaxBytes]
  <2>1. \A p \in Procs : total_written'[p] \in 0 .. MaxBytes
    <3> TAKE p \in Procs
    <3>1. /\ total_written'[p] \in Nat /\ nbytes[p] \in 0 .. MaxBytes
          /\ total_written'[p] <= nbytes[p]
      BY <1>1, <1>2, <1>3
    <3> QED
      BY <1>2, <3>1
  <2> QED
    BY <1>1, <2>1
<1>5. sink' \in Seq(SinkBytes)
  <2>1. ASSUME NEW p \in Procs, Deliver!Write(p)
        PROVE  sink' \in Seq(SinkBytes)
    <3>1. PICK n \in 1 .. Deliver!Left(p) :
            sink' = sink \o Deliver!Offered(p, n)
      BY <2>1 DEF Deliver!Write
    <3>2. PICK old : old = total_written[p]
      OBVIOUS
    <3>3. n \in Nat /\ old \in Nat /\ old + n <= MaxBytes
      <4>1. /\ old \in 0 .. MaxBytes /\ nbytes[p] \in 0 .. MaxBytes
            /\ n \in 1 .. nbytes[p] - old
        BY <1>2, <3>1, <3>2 DEF Deliver!Left
      <4> QED
        BY <1>2, <4>1
    <3>4. PICK s : s = Deliver!Offered(p, n)
      OBVIOUS
    <3>5. s = [k \in 1 .. n |-> <<p, old + k>>]
      BY <3>2, <3>4 DEF Deliver!Offered
    <3>6. \A k \in 1 .. n : <<p, old + k>> \in SinkBytes
      <4> TAKE k \in 1 .. n
      <4>1. old + k \in 1 .. MaxBytes
        BY <1>2, <3>3
      <4> QED
        BY <4>1 DEF SinkBytes
    <3>7. s \in [1 .. n -> SinkBytes]
      BY <3>5, <3>6
    <3>8. s \in Seq(SinkBytes)
      BY <3>3, <3>7, SeqDef
    <3>9. sink \o s \in Seq(SinkBytes)
      BY <1>2, <3>8, ConcatProperties
    <3> QED
      BY <3>1, <3>4, <3>9, Zenon
  <2>2. ASSUME sink' = sink
        PROVE  sink' \in Seq(SinkBytes)
    BY <1>2, <2>2
  <2>3. \A p \in Procs :
          Deliver!WriteZero(p) \/ Deliver!WriteError(p) => sink' = sink
    BY DEF Deliver!WriteZero, Deliver!WriteError
  <2>4. UNCHANGED Deliver!vars => sink' = sink
    BY DEF Deliver!vars
  <2> QED
    BY <2>1, <2>2, <2>3, <2>4 DEF Deliver!Next
<1> QED
  BY <1>1, <1>2, <1>3, <1>4, <1>5 DEF Deliver!TypeOK, SinkBytes

(* The freed range: the numbers are those of an int, and no more blocks    *)
(* are asked for than ptr has room for.                                    *)
RangeTypes ==
  /\ FreeRange!TypeOK
  /\ Len(values) > 0 => values[1] <= Q1_MAX_NUM_ALLOCS

(* A conversion to int gives no more than INT_MAX. *)
LEMMA IntWithin ==
  ASSUME NEW n \in Int
  PROVE  FreeRange!int(n) \in Int /\ FreeRange!int(n) <= INT_MAX
<1>1. INT_MAX \in Nat
  BY ConstantsAssumption DEF FreeRange!ConstantsOK
<1>2. PICK size \in Nat : size = 2 * (INT_MAX + 1)
  BY <1>1
<1>3. PICK m : m = n % size
  OBVIOUS
<1>4. size > 0 /\ m \in 0 .. size - 1
  BY <1>1, <1>2, <1>3
<1>5. FreeRange!int(n) = IF m > INT_MAX THEN m - size ELSE m
  BY <1>2, <1>3 DEF FreeRange!int
<1> QED
  BY <1>1, <1>2, <1>4, <1>5

(* No number has been read. *)
LEMMA RangeTypesInit == FreeRange!Init => RangeTypes
<1> SUFFICES ASSUME FreeRange!Init
             PROVE  RangeTypes
  OBVIOUS
<1>1. /\ values = <<>> /\ pc = "parse" /\ i = 0 /\ blocks = {}
  BY DEF FreeRange!Init
<1>2. Len(values) = 0 /\ DOMAIN values = {}
  BY <1>1, EmptySeq
<1>3. INT_MAX \in Nat
  BY ConstantsAssumption DEF FreeRange!ConstantsOK
<1> QED
  BY <1>1, <1>2, <1>3 DEF RangeTypes, FreeRange!TypeOK

(* Where no number is read, what is left to show is about i and blocks. *)
LEMMA RangeTypesKept ==
  ASSUME RangeInv', RangeTypes, values' = values,
         i' \in 0 .. INT_MAX, blocks' \subseteq 0 .. Q1_MAX_NUM_ALLOCS - 1,
         pc' \in {"parse", "alloc", "free", "exited", "usage", "died", "undefined"}
  PROVE  RangeTypes'
<1>1. \A k \in DOMAIN values' : values'[k] \in 1 .. INT_MAX
  BY DEF RangeTypes, FreeRange!TypeOK
<1>2. Len(values)' <= 5 /\ (Len(values)' > 0 => values'[1] <= Q1_MAX_NUM_ALLOCS)
  BY DEF RangeTypes, FreeRange!TypeOK
<1> QED
  BY <1>1, <1>2, Zenon DEF RangeTypes, FreeRange!TypeOK

(* The reading of a number. *)
LEMMA RangeTypesParse ==
  ASSUME RangeInv, RangeTypes, FreeRange!Parse
  PROVE  RangeTypes'
<1>1. RangeInv'
  BY RangeParse
<1>2. /\ values \in Seq(Int) /\ i' = i /\ blocks' = blocks
      /\ pc = "parse" /\ Len(values) < 5
  BY DEF RangeInv, FreeRange!Parse
<1>3. /\ i \in 0 .. INT_MAX /\ blocks \subseteq 0 .. Q1_MAX_NUM_ALLOCS - 1
      /\ \A k \in DOMAIN values : values[k] \in 1 .. INT_MAX
      /\ Len(values) > 0 => values[1] <= Q1_MAX_NUM_ALLOCS
  BY DEF RangeTypes, FreeRange!TypeOK
<1>4. PICK l \in Nat : l = Len(values)
  BY <1>2, LenProperties
<1>5. \/ pc' = "usage" /\ values' = values
      \/ /\ pc' = "parse" /\ FreeRange!Accepted(l + 1, FreeRange!Parsed(l + 1))
         /\ values' = Append(values, FreeRange!Parsed(l + 1))
         /\ ~(l + 1 <= Len(args) /\ args[l + 1] = NotNumber)
  BY <1>2, <1>4 DEF FreeRange!Parse
<1>6. CASE pc' = "usage" /\ values' = values
  BY <1>1, <1>2, <1>3, <1>6, RangeTypesKept
<1>7. CASE /\ pc' = "parse"
           /\ FreeRange!Accepted(l + 1, FreeRange!Parsed(l + 1))
           /\ values' = Append(values, FreeRange!Parsed(l + 1))
           /\ ~(l + 1 <= Len(args) /\ args[l + 1] = NotNumber)
  <2>1. PICK v : v = FreeRange!Parsed(l + 1)
    OBVIOUS
  <2>2. /\ INT_MAX \in Nat /\ LONG_MAX \in Nat
        /\ Q1_MAX_NUM_ALLOCS \in 1 .. INT_MAX
        /\ Typed \subseteq Int
    BY ConstantsAssumption DEF FreeRange!ConstantsOK
  <2>3. l + 1 \in 1 .. 5 /\ DOMAIN values = 1 .. l
    BY <1>2, <1>4, LenProperties
  <2>4. v \in Int /\ v <= INT_MAX
    <3>1. CASE l + 1 <= Len(args)
      <4>1. args[l + 1] \in Typed
        <5>1. args \in Seq(Typed \cup {NotNumber})
          BY DEF RangeInv
        <5>2. PICK m \in Nat : m = Len(args)
          BY <5>1, LenProperties
        <5>3. l + 1 \in 1 .. Len(args)
          BY <1>4, <3>1, <5>2
        <5> QED
          BY <1>7, <3>1, <5>1, <5>3, ElementOfSeq
      <4>2. PICK n : n = FreeRange!strtol(args[l + 1])
        OBVIOUS
      <4>3. n \in Int
        BY <2>2, <4>1, <4>2 DEF FreeRange!strtol
      <4>4. v = FreeRange!int(n)
        BY <2>1, <3>1, <4>2 DEF FreeRange!Parsed
      <4> QED
        BY <4>3, <4>4, IntWithin
    <3>2. CASE ~(l + 1 <= Len(args))
      <4>1. v = IF l + 1 = 5 THEN values[1] ELSE 1
        BY <2>1, <3>2 DEF FreeRange!Parsed, FreeRange!num_allocs
      <4>2. l + 1 = 5 => values[1] \in 1 .. INT_MAX
        BY <1>3, <2>3
      <4> QED
        BY <2>2, <4>1, <4>2
    <3> QED
      BY <3>1, <3>2
  <2>5. /\ values' \in Seq(Int) /\ Len(values') = l + 1
        /\ \A j \in 1 .. l : values'[j] = values[j]
        /\ values'[l + 1] = v
    BY <1>2, <1>4, <1>7, <2>1, <2>4, AppendProperties
  <2>6. DOMAIN values' = 1 .. l + 1
    BY <2>5, LenProperties
  <2>7. v > 0
    <3>1. values'[l + 1] > 0
      <4>1. \A k \in 1 .. Len(values)' : values'[k] > 0
        BY <1>1 DEF RangeInv
      <4>2. l + 1 \in 1 .. Len(values')
        BY <2>5
      <4> QED
        BY <4>1, <4>2, Zenon
    <3> QED
      BY <2>5, <3>1
  <2>8. \A k \in DOMAIN values' : values'[k] \in 1 .. INT_MAX
    <3> TAKE k \in DOMAIN values'
    <3>1. k \in 1 .. l \/ k = l + 1
      BY <1>4, <2>6
    <3>2. v \in 1 .. INT_MAX
      BY <2>2, <2>4, <2>7
    <3> QED
      BY <1>3, <2>3, <2>5, <3>1, <3>2
  <2>9. values'[1] <= Q1_MAX_NUM_ALLOCS
    <3>1. CASE l = 0
      <4>1. v <= Q1_MAX_NUM_ALLOCS
        BY <1>7, <2>1, <3>1 DEF FreeRange!Accepted
      <4> QED
        BY <2>5, <3>1, <4>1
    <3>2. CASE l # 0
      <4>1. 1 \in 1 .. l
        BY <3>2
      <4> QED
        BY <1>3, <1>4, <2>5, <3>2, <4>1
    <3> QED
      BY <3>1, <3>2
  <2>10. Len(values)' <= 5
    BY <1>1 DEF RangeInv
  <2>11. pc' \in {"parse", "alloc", "free", "exited", "usage", "died",
                  "undefined"}
    BY <1>7
  <2> QED
    BY <1>2, <1>3, <2>8, <2>9, <2>10, <2>11, Zenon
       DEF RangeTypes, FreeRange!TypeOK
<1> QED
  BY <1>5, <1>6, <1>7

(* Each step of the exercise. *)
LEMMA RangeTypesStep ==
  RangeInv /\ RangeTypes /\ [FreeRange!Next]_FreeRange!vars => RangeTypes'
<1> SUFFICES ASSUME RangeInv, RangeTypes, [FreeRange!Next]_FreeRange!vars
             PROVE  RangeTypes'
  OBVIOUS
<1>1. RangeInv'
  BY RangeStep
<1>2. /\ i \in 0 .. INT_MAX /\ blocks \subseteq 0 .. Q1_MAX_NUM_ALLOCS - 1
      /\ \A k \in DOMAIN values : values[k] \in 1 .. INT_MAX
      /\ Len(values) > 0 => values[1] <= Q1_MAX_NUM_ALLOCS
      /\ pc \in {"parse", "alloc", "free", "exited", "usage", "died",
                 "undefined"}
  BY DEF RangeTypes, FreeRange!TypeOK
<1>3. INT_MAX \in Nat /\ Q1_MAX_NUM_ALLOCS \in 1 .. INT_MAX
  BY ConstantsAssumption DEF FreeRange!ConstantsOK
<1>4. pc \in {"alloc", "free"} =>
        /\ Len(values) = 5
        /\ values[1] \in 1 .. Q1_MAX_NUM_ALLOCS
        /\ values[3] \in 1 .. INT_MAX /\ values[4] \in 1 .. INT_MAX
  <2> SUFFICES ASSUME pc \in {"alloc", "free"}
               PROVE  /\ Len(values) = 5
                      /\ values[1] \in 1 .. Q1_MAX_NUM_ALLOCS
                      /\ values[3] \in 1 .. INT_MAX
                      /\ values[4] \in 1 .. INT_MAX
    OBVIOUS
  <2>1. Len(values) = 5 /\ values \in Seq(Int)
    BY DEF RangeInv
  <2>2. DOMAIN values = 1 .. 5
    BY <2>1, LenProperties
  <2>3. 1 \in 1 .. 5 /\ 3 \in 1 .. 5 /\ 4 \in 1 .. 5 /\ 5 > 0
    OBVIOUS
  <2>4. /\ values[1] \in 1 .. INT_MAX /\ values[3] \in 1 .. INT_MAX
        /\ values[4] \in 1 .. INT_MAX
    BY <1>2, <2>2, <2>3
  <2>5. values[1] <= Q1_MAX_NUM_ALLOCS
    BY <1>2, <2>1, <2>3, Zenon
  <2> QED
    BY <1>3, <2>1, <2>4, <2>5
<1>5. CASE UNCHANGED FreeRange!vars
  BY <1>1, <1>2, <1>5, RangeTypesKept DEF FreeRange!vars
<1>6. CASE FreeRange!Parse
  BY <1>6, RangeTypesParse
<1>7. CASE FreeRange!Start \/ FreeRange!AllocateFails \/ FreeRange!Exit
  <2>1. /\ values' = values /\ i' = i /\ blocks' = blocks
        /\ pc' \in {"alloc", "died", "exited"}
    BY <1>7 DEF FreeRange!Start, FreeRange!AllocateFails, FreeRange!Exit
  <2> QED
    BY <1>1, <1>2, <2>1, RangeTypesKept
<1>8. CASE FreeRange!Allocate
  <2>1. /\ pc = "alloc" /\ i < values[1] /\ blocks' = blocks \cup {i}
        /\ i' = i + 1 /\ values' = values /\ pc' = pc
    BY <1>8 DEF FreeRange!Allocate, FreeRange!num_allocs
  <2>2. /\ i \in 0 .. Q1_MAX_NUM_ALLOCS - 1 /\ i' \in 0 .. INT_MAX
    BY <1>2, <1>3, <1>4, <2>1
  <2>3. blocks' \subseteq 0 .. Q1_MAX_NUM_ALLOCS - 1
    BY <1>2, <2>1, <2>2
  <2> QED
    BY <1>1, <1>2, <2>1, <2>2, <2>3, RangeTypesKept
<1>9. CASE FreeRange!StartFree
  <2>1. /\ pc = "alloc" /\ i' = values[4] - 1 /\ pc' = "free"
        /\ values' = values /\ blocks' = blocks
    BY <1>9 DEF FreeRange!StartFree, FreeRange!free_min
  <2>2. i' \in 0 .. INT_MAX
    BY <1>3, <1>4, <2>1
  <2> QED
    BY <1>1, <1>2, <2>1, <2>2, RangeTypesKept
<1>10. CASE FreeRange!Free
  <2>1. /\ pc = "free" /\ blocks' = blocks \ {i} /\ values' = values
        /\ \/ pc' = "undefined" /\ i' = i
           \/ pc' = pc /\ i' = i + values[3] /\ ~(i + values[3] > INT_MAX)
    BY <1>10 DEF FreeRange!Free, FreeRange!free_step
  <2>2. i' \in 0 .. INT_MAX /\ pc' \in {"free", "undefined"}
    BY <1>2, <1>3, <1>4, <2>1
  <2>3. blocks' \subseteq 0 .. Q1_MAX_NUM_ALLOCS - 1
    BY <1>2, <2>1
  <2> QED
    BY <1>1, <2>1, <2>2, <2>3, RangeTypesKept
<1> QED
  BY <1>5, <1>6, <1>7, <1>8, <1>9, <1>10 DEF FreeRange!Next, FreeRange!Step

(* The error functions: what ErrorsInv leaves open is how many lines the   *)
(* program prints at most.                                                 *)
ErrorsTypes ==
  /\ EF_DUMPCORE \in BOOLEAN /\ printed \in 0 .. MaxPrints
  /\ pc \in {"program", "format", "flush", "message", "end", "ended"}

(* The rest is in ErrorsInv. *)
LEMMA ErrorsTypesFollow == ErrorsInv /\ ErrorsTypes => Errors!TypeOK
<1> SUFFICES ASSUME ErrorsInv, ErrorsTypes
             PROVE  Errors!TypeOK
  OBVIOUS
<1>1. /\ pending \in Seq(Items) /\ Len(pending) <= printed /\ printed \in Nat
      /\ {errno, err, savedErrno, atCall} \subseteq Errnos
      /\ Errors!LinesBefore(Len(out) + 1) = 1 .. printed - Len(pending)
      /\ pc # "program" => func \in Errors!Functions
  BY DEF ErrorsInv
<1>2. PICK n \in Nat : n = Len(pending)
  BY <1>1, LenProperties
<1>3. 1 .. printed - n \subseteq 1 .. printed
  BY <1>1, <1>2
<1>4. Errors!LinesBefore(Len(out) + 1) \subseteq 1 .. printed
  BY <1>1, <1>2, <1>3, Zenon
<1> QED
  BY <1>1, <1>4, Zenon DEF ErrorsTypes, Errors!TypeOK

(* No line has been printed. *)
LEMMA ErrorsTypesInit == Errors!Init => ErrorsTypes
<1> SUFFICES ASSUME Errors!Init
             PROVE  ErrorsTypes
  OBVIOUS
<1>1. MaxPrints \in Nat
  BY ConstantsAssumption DEF Errors!ConstantsOK
<1>2. EF_DUMPCORE \in BOOLEAN /\ printed = 0 /\ pc = "program"
  BY Zenon DEF Errors!Init
<1>3. printed \in 0 .. MaxPrints
  BY <1>1, <1>2
<1> QED
  BY <1>2, <1>3, Zenon DEF ErrorsTypes

(* Each step of the program and of the functions. *)
LEMMA ErrorsTypesStep ==
  ErrorsTypes /\ [Errors!Next]_Errors!vars => ErrorsTypes'
<1> SUFFICES ASSUME ErrorsTypes, [Errors!Next]_Errors!vars
             PROVE  ErrorsTypes'
  OBVIOUS
<1>1. /\ EF_DUMPCORE \in BOOLEAN /\ printed \in 0 .. MaxPrints
      /\ pc \in {"program", "format", "flush", "message", "end", "ended"}
  BY DEF ErrorsTypes
<1>2. /\ EF_DUMPCORE' = EF_DUMPCORE
      /\ printed' = printed \/ (printed < MaxPrints /\ printed' = printed + 1)
      /\ pc' \in {"program", "format", "flush", "message", "end", "ended"}
  <2>1. CASE Errors!PrintLine \/ Errors!Drain \/ UNCHANGED Errors!vars
    BY <1>1, <2>1 DEF Errors!PrintLine, Errors!Drain, Errors!vars
  <2>2. ASSUME NEW f \in Errors!Functions, Errors!Call(f)
        PROVE  /\ EF_DUMPCORE' = EF_DUMPCORE /\ printed' = printed
               /\ pc' = "format"
    BY <2>2, Zenon DEF Errors!Call
  <2>3. CASE Errors!Format \/ Errors!Flush \/ Errors!Put \/ Errors!Return
             \/ Errors!TerminateAtOnce \/ Errors!Exit
    <3>1. /\ EF_DUMPCORE' = EF_DUMPCORE /\ printed' = printed
          /\ \/ pc' = "flush" \/ pc' = "message" \/ pc' = "end"
             \/ pc' = "program" \/ pc' = "ended"
      BY <2>3, Zenon
         DEF Errors!Format, Errors!Flush, Errors!Put, Errors!Return,
             Errors!TerminateAtOnce, Errors!Exit
    <3> QED
      BY <3>1
  <2> QED
    BY <2>1, <2>2, <2>3 DEF Errors!Next
<1>3. printed' \in 0 .. MaxPrints
  <2>1. MaxPrints \in Nat
    BY ConstantsAssumption DEF Errors!ConstantsOK
  <2> QED
    BY <1>1, <1>2, <2>1
<1>4. EF_DUMPCORE' \in BOOLEAN
  BY <1>1, <1>2, Zenon
<1> QED
  BY <1>2, <1>3, <1>4, Zenon DEF ErrorsTypes

-----------------------------------------------------------------------------
(* The process starts as the module of its part says. *)
LEMMA StartsInPart ==
  Init => /\ part = "tee" => Tee!Init
          /\ part = "sparse_copy" => Sparse!Init
          /\ part = "null_holes" => Nulls!Init
          /\ part = "passwd" => Passwd!Init
          /\ part = "deliver_write" => Deliver!Init
          /\ part = "free_range" => FreeRange!Init
          /\ part = "errors" => Errors!Init
BY DEF Init

(* A step is one of the module of the part, or none, and the part stays. *)
LEMMA StaysInPart ==
  [Next]_vars =>
    /\ part' = part
    /\ part = "tee" => [Tee!Next]_Tee!vars
    /\ part = "sparse_copy" => [Sparse!Next]_Sparse!vars
    /\ part = "null_holes" => [Nulls!Next]_Nulls!vars
    /\ part = "passwd" => [Passwd!Next]_Passwd!vars
    /\ part = "deliver_write" => [Deliver!Next]_Deliver!vars
    /\ part = "free_range" => [FreeRange!Next]_FreeRange!vars
    /\ part = "errors" => [Errors!Next]_Errors!vars
<1>1. UNCHANGED vars =>
        /\ part' = part /\ UNCHANGED Tee!vars /\ UNCHANGED Sparse!vars
        /\ UNCHANGED Nulls!vars /\ UNCHANGED Passwd!vars
        /\ UNCHANGED Deliver!vars /\ UNCHANGED FreeRange!vars
        /\ UNCHANGED Errors!vars
  BY DEF vars, teeVars, sparseVars, nullVars, passwdVars, deliverVars,
         freeVars, errorVars, Tee!vars, Sparse!vars, Sparse!locals,
         Nulls!vars, Nulls!files, Nulls!buffer, Passwd!vars, Deliver!vars,
         FreeRange!vars, Errors!vars
<1>2. Next =>
        /\ part' = part
        /\ part = "tee" => Tee!Next
        /\ part = "sparse_copy" => Sparse!Next
        /\ part = "null_holes" => Nulls!Next
        /\ part = "passwd" => Passwd!Next
        /\ part = "deliver_write" => Deliver!Next
        /\ part = "free_range" => FreeRange!Next
        /\ part = "errors" => Errors!Next
  BY DEF Next, Others
<1> QED
  BY <1>1, <1>2

(* The invariant of the part that runs. *)
PartsInv ==
  /\ part = "tee" => TeeInv
  /\ part = "sparse_copy" => SparseInv
  /\ part = "null_holes" => NullsInv
  /\ part = "passwd" => UsersInv
  /\ part = "deliver_write" => DeliverInv
  /\ part = "free_range" => RangeInv
  /\ part = "errors" => ErrorsInv

(***************************************************************************)
(* The invariants of the parts are inductive for the whole program.        *)
(***************************************************************************)
THEOREM PartsInvariance == Spec => []PartsInv
<1>1. Init => PartsInv
  BY StartsInPart, TeeInit, SparseInit, NullsInit, UsersInit,
     DeliverInit, RangeInit, ErrorsInit DEF PartsInv
<1>2. PartsInv /\ [Next]_vars => PartsInv'
  BY StaysInPart, TeeStep, SparseStep, NullsStep, UsersStep,
     DeliverStep, RangeStep, ErrorsStep DEF PartsInv
<1> QED
  BY <1>1, <1>2, PTL DEF Spec

(***************************************************************************)
(* tee (chpt4/q1.c): for every input and size of the buffer, what reaches  *)
(* an output is in order, without repetition and behind what -a keeps, and *)
(* without a short write it is everything and durable at the exit.         *)
(***************************************************************************)
THEOREM TeeCopies == Spec => []TeeOutputs
<1>1. PartsInv => TeeOutputs
  BY TeeShown DEF PartsInv, TeeOutputs
<1> QED
  BY <1>1, PartsInvariance, PTL

(***************************************************************************)
(* q2_std (chpt4/q2.c): for every source, the copy reads like it and has   *)
(* its holes at any moment, and is as long as the source was when the copy *)
(* began if it ends well, although another process appends to the source.  *)
(***************************************************************************)
THEOREM SparseCopyExact == Spec => []SparseCopied
<1>1. PartsInv => SparseCopied
  BY SparseShown DEF PartsInv, SparseCopied
<1> QED
  BY <1>1, PartsInvariance, PTL

(***************************************************************************)
(* q2_nulls_into_holes (chpt4/q2.c): for every source and size of the      *)
(* buffer, the offsets of both files agree, over the borders of buffers    *)
(* and short reads, and the nulls become holes and nothing else does.      *)
(***************************************************************************)
THEOREM NullsBecomeHoles == Spec => []NullsAreHoles
<1>1. PartsInv => NullsAreHoles
  BY NullsShown DEF PartsInv, NullsAreHoles
<1> QED
  BY <1>1, PartsInvariance, PTL

(***************************************************************************)
(* __getpwnam (chpt8/q2.c): for every file of users and every failure of   *)
(* getpwent it answers the user with the name, or NULL and an errno that   *)
(* says whether the name is missing or the lookup failed; and two getpwuid *)
(* in one printf (chpt8/q1.c) show one name twice.                         *)
(***************************************************************************)
THEOREM LookupsAnswer == Spec => []UsersFound
<1>1. PartsInv => UsersFound
  BY DEF PartsInv, UsersInv, UsersFound
<1> QED
  BY <1>1, PartsInvariance, PTL

(***************************************************************************)
(* deliver_write (shared/utils.c): whatever write answers, 0 included, and *)
(* whoever else writes in between, no byte of a buffer is taken twice,     *)
(* skipped or out of order.                                                *)
(***************************************************************************)
THEOREM DeliveryInOrder ==
  Spec => [](part = "deliver_write" => Deliver!OnceInOrder)
<1>1. PartsInv => (part = "deliver_write" => Deliver!OnceInOrder)
  BY DeliverShown DEF PartsInv
<1> QED
  BY <1>1, PartsInvariance, PTL

(***************************************************************************)
(* utils.h, "guaranteed to deliver all bytes (or die trying!)": true for   *)
(* every number of processes and bytes as long as no write of bytes        *)
(* answers 0, where the loop of deliver_write stops.                       *)
(***************************************************************************)
THEOREM DeliveryComplete == ~ZeroWrites => (Spec => []DeliveredOnce)
<1> SUFFICES ASSUME ~ZeroWrites
             PROVE  Spec => []DeliveredOnce
  OBVIOUS
<1>1. PartsInv => DeliveredOnce
  BY DeliverShown DEF PartsInv, DeliveredOnce
<1> QED
  BY <1>1, PartsInvariance, PTL

(***************************************************************************)
(* chpt7_q1 (chpt7/q1.c): for every command line, when the process exits   *)
(* the blocks that are gone are those of the range that was typed, and no  *)
(* other; the index overflows only if the next one exceeds INT_MAX.        *)
(***************************************************************************)
THEOREM OnlyRangeFreed == Spec => []RangeFreed
<1>1. PartsInv => RangeFreed
  BY DEF PartsInv, RangeInv, RangeFreed
<1> QED
  BY <1>1, PartsInvariance, PTL

(***************************************************************************)
(* shared/errors.c: for any printing and any calls, a message of any       *)
(* function but err_exit comes out behind all that was printed before it,  *)
(* nothing printed is lost at the end, and errno shows in the message and  *)
(* survives errMsg.                                                        *)
(***************************************************************************)
THEOREM OutputBeforeMessages == Spec => []MessagesInOrder
<1>1. PartsInv => MessagesInOrder
  BY ErrorsShown DEF PartsInv, MessagesInOrder
<1> QED
  BY <1>1, PartsInvariance, PTL

(* The type invariant of the part that runs, with what its proof needs.    *)
PartsTypes ==
  /\ part = "tee" => Tee!TypeOK
  /\ part = "sparse_copy" => Sparse!TypeOK
  /\ part = "null_holes" => NullsTypes
  /\ part = "passwd" => UsersTypes
  /\ part = "deliver_write" => Deliver!TypeOK
  /\ part = "free_range" => RangeTypes
  /\ part = "errors" => ErrorsTypes

(***************************************************************************)
(* The seven parts keep the types that their modules state: the sizes of   *)
(* buffers and of ptr, the range of an int, offsets within the file.       *)
(***************************************************************************)
THEOREM PartsTyped == Spec => []PartsTypes
<1>1. Init => PartsTypes
  BY StartsInPart, TeeTypesInit, SparseTypesInit, NullsTypesInit,
     UsersTypesInit, DeliverTypesInit, RangeTypesInit, ErrorsTypesInit
     DEF PartsTypes
<1>2. PartsInv /\ PartsTypes /\ [Next]_vars => PartsTypes'
  BY StaysInPart, TeeTypesStep, SparseTypesStep, NullsTypesStep,
     UsersTypesStep, DeliverTypesStep, RangeTypesStep, ErrorsTypesStep
     DEF PartsInv, PartsTypes
<1> QED
  BY <1>1, <1>2, PartsInvariance, PTL DEF Spec

=============================================================================
