------------------------------ MODULE Vectored ------------------------------
(***************************************************************************)
(* __writev and __readv of c/chpt5/q7.c, called as chpt5_q7 does: a gather *)
(* into an empty file, a seek to its start, and a scatter with other       *)
(* buffers.  A buffer is the sequence of its bytes, and its length is      *)
(* iov_len.  One step is one iteration of a loop, or one call.             *)
(*                                                                         *)
(* Arithmetic is that of size_t and ssize_t, narrowed to SSIZE_MAX.        *)
(***************************************************************************)
EXTENDS FileCells, Integers, SequencesExt

CONSTANTS
  Chars,       \* the bytes other than zero
  SSIZE_MAX,
  UIO_MAXIOV,
  MaxIovs,     \* bound: buffers in one call
  MaxLen       \* bound: bytes in one buffer

(* What is assumed of the constants.  A length is a size_t.  A sum of      *)
(* several lengths above SSIZE_MAX could wrap to a small buffer, whose     *)
(* overflow has no defined outcome.                                        *)
ConstantsOK ==
  /\ Null \notin Chars
  /\ SSIZE_MAX \in Nat
  /\ UIO_MAXIOV \in Nat
  /\ MaxIovs \in Nat /\ MaxLen \in Nat
  /\ MaxLen <= SSIZE_MAX \/ (MaxIovs = 1 /\ MaxLen <= 2 * SSIZE_MAX + 1)

VARIABLES
  file,      \* the bytes of the file
  offset,    \* of the descriptor
  op,        \* "writev" or "readv", the call made last, or "none"
  pc,        \* where it is, "idle" once it has returned, or "died"
  iov,       \* the buffers
  given,     \* history: the buffers as they were when the call was made
  written,   \* history: the bytes the buffers held for __writev
  i,
  total,     \* total_to_write or total_to_read
  tmp,       \* what tmp_buffer points to
  moved,     \* total_copied, or total_read - total_to_copy
  result     \* what the call answered

vars ==
  <<file, offset, op, pc, iov, given, written, i, total, tmp, moved, result>>

Garbage == "garbage"
EINVAL == -22
EIO == -5

size_t(n) == n % (2 * (SSIZE_MAX + 1))
ssize_t(n) ==
  IF size_t(n) > SSIZE_MAX THEN size_t(n) - 2 * (SSIZE_MAX + 1) ELSE size_t(n)

(* What strncpy stores for the bytes s: zeroes from the first zero on. *)
strncpy(s) ==
  [k \in DOMAIN s |-> IF \E j \in 1 .. k : s[j] = Null THEN Null ELSE s[k]]

Filled(chars) == BoundedSeq(BoundedSeq(chars, MaxLen), MaxIovs)

-----------------------------------------------------------------------------
Init ==
  /\ file = <<>>
  /\ offset = 0
  /\ op = "none"
  /\ pc = "idle"
  /\ iov = <<>>
  /\ given = <<>>
  /\ written = <<>>
  /\ i = 1
  /\ total = 0
  /\ tmp = <<>>
  /\ moved = 0
  /\ result = 0

Return(r) == pc' = "idle" /\ result' = r

(* Mutant: one buffer too many. *)
EnterOneMore(buffers) ==
  /\ iov' = buffers
  /\ given' = buffers
  /\ i' = 1
  /\ total' = 0
  /\ moved' = 0
  /\ tmp' = <<>>
  /\ IF Len(buffers) > UIO_MAXIOV + 1 THEN Return(EINVAL)
     ELSE pc' = "sum" /\ UNCHANGED result

Enter(buffers) ==
  /\ iov' = buffers
  /\ given' = buffers
  /\ i' = 1
  /\ total' = 0
  /\ moved' = 0
  /\ tmp' = <<>>
  /\ IF Len(buffers) > UIO_MAXIOV THEN Return(EINVAL)
     ELSE pc' = "sum" /\ UNCHANGED result

CallWritev ==
  /\ op = "none"
  /\ op' = "writev"
  /\ \E buffers \in Filled(Chars \cup {Null}) :
       Enter(buffers) /\ written' = FlattenSeq(buffers)
  /\ UNCHANGED <<file, offset>>

(* lseek(tmp_fd, 0, SEEK_SET), and then the call. *)
CallReadv ==
  /\ op = "writev" /\ pc = "idle"
  /\ op' = "readv"
  /\ offset' = 0
  /\ \E buffers \in Filled({Garbage}) : Enter(buffers)
  /\ UNCHANGED <<file, written>>

-----------------------------------------------------------------------------
Overflows == size_t(total) > size_t(SSIZE_MAX - Len(iov[i]))

Sum ==
  /\ pc = "sum" /\ i <= Len(iov)
  /\ IF Overflows
     THEN Return(EINVAL) /\ UNCHANGED <<i, total>>
     ELSE /\ total' = ssize_t(total + Len(iov[i]))
          /\ i' = i + 1
          /\ UNCHANGED <<pc, result>>
  /\ UNCHANGED <<file, offset, op, iov, given, written, tmp, moved>>

(* A size beyond SSIZE_MAX is never granted. *)
Malloc ==
  /\ pc = "sum" /\ i > Len(iov)
  /\ total >= 0
  /\ tmp' = [k \in 1 .. total |-> Garbage]
  /\ i' = 1
  /\ pc' = IF op = "writev" THEN "gather" ELSE "read"
  /\ UNCHANGED <<file, offset, op, iov, given, written, total, moved, result>>

MallocFails ==
  /\ pc = "sum" /\ i > Len(iov)
  /\ pc' = "died"
  /\ UNCHANGED <<file, offset, op, iov, given, written, i, total, tmp, moved,
                 result>>

(* Mutant: every buffer is copied to the start. *)
GatherAtStart ==
  /\ pc = "gather" /\ i <= Len(iov)
  /\ tmp' = PutAt(tmp, 0, strncpy(iov[i]))
  /\ moved' = moved + Len(iov[i])
  /\ i' = i + 1
  /\ UNCHANGED <<file, offset, op, pc, iov, given, written, total, result>>

Gather ==
  /\ pc = "gather" /\ i <= Len(iov)
  /\ tmp' = PutAt(tmp, moved, strncpy(iov[i]))
  /\ moved' = moved + Len(iov[i])
  /\ i' = i + 1
  /\ UNCHANGED <<file, offset, op, pc, iov, given, written, total, result>>

(* The kernel takes n bytes. *)
Write ==
  /\ pc = "gather" /\ i > Len(iov)
  /\ \E n \in 0 .. total :
       /\ n = 0 => total = 0
       /\ file' = PutAt(file, offset, SubSeq(tmp, 1, n))
       /\ offset' = offset + n
       /\ Return(n)
  /\ UNCHANGED <<op, iov, given, written, i, total, tmp, moved>>

(* The kernel gives n bytes. *)
Read ==
  /\ pc = "read"
  /\ \E n \in 0 .. total :
       /\ n <= Len(file) - offset
       /\ n = 0 => total = 0 \/ offset = Len(file)
       /\ tmp' = PutAt(tmp, 0, SubSeq(file, offset + 1, offset + n))
       /\ offset' = offset + n
       /\ result' = n
  /\ pc' = "scatter"
  /\ UNCHANGED <<file, op, iov, given, written, i, total, moved>>

(* write or read answers -1; the temporary buffer is not freed. *)
CallFails ==
  /\ (pc = "read" \/ (pc = "gather" /\ i > Len(iov)))
  /\ Return(EIO)
  /\ UNCHANGED <<file, offset, op, iov, given, written, i, total, tmp, moved>>

iov_elem_share ==
  IF result - moved < Len(iov[i]) THEN result - moved ELSE Len(iov[i])

Scatter ==
  /\ pc = "scatter" /\ i <= Len(iov) /\ moved < result
  /\ iov' = [iov EXCEPT ![i] =
               PutAt(@, 0, strncpy(SubSeq(tmp, moved + 1, moved + iov_elem_share)))]
  /\ moved' = moved + iov_elem_share
  /\ i' = i + 1
  /\ UNCHANGED <<file, offset, op, pc, given, written, total, tmp, result>>

ScatterEnds ==
  /\ pc = "scatter" /\ (i > Len(iov) \/ moved = result)
  /\ pc' = "idle"
  /\ UNCHANGED <<file, offset, op, iov, given, written, i, total, tmp, moved,
                 result>>

Next ==
  \/ CallWritev \/ CallReadv \/ Sum \/ Malloc \/ MallocFails \/ Gather \/ Write
  \/ Read \/ CallFails \/ Scatter \/ ScatterEnds

Spec == Init /\ [][Next]_vars

(* Both calls have returned, or one has ended the process. *)
Ended == pc = "died" \/ (op = "readv" /\ pc = "idle")

-----------------------------------------------------------------------------
Cells == Chars \cup {Null, Garbage}
Sizes == -SSIZE_MAX - 1 .. SSIZE_MAX

TypeOK ==
  /\ file \in Seq(Cells) /\ tmp \in Seq(Cells)
  /\ iov \in Seq(Seq(Cells)) /\ given \in Seq(Seq(Cells))
  /\ written \in Seq(Cells)
  /\ {offset, total, moved} \subseteq Sizes
  /\ result \in Sizes \cup {EINVAL, EIO}
  /\ pc \in {"gather", "read", "scatter"} => Len(tmp) = total /\ moved <= total
  /\ pc = "scatter" => moved <= result
  /\ i \in 1 .. MaxIovs + 1
  /\ op \in {"none", "writev", "readv"}
  /\ pc \in {"idle", "sum", "gather", "read", "scatter", "died"}

(* A buffer for which strncpy is as good as a copy. *)
IsText(s) == \A j, k \in DOMAIN s : j < k /\ s[j] = Null => s[k] = Null

(***************************************************************************)
(* __writev writes a prefix of the buffers put end to end, as long as no   *)
(* buffer has a zero with something behind it; otherwise it keeps the      *)
(* lengths and the places, and only ever replaces a byte by a zero.        *)
(***************************************************************************)
WritevGathers ==
  op = "writev" /\ pc = "idle" /\ result >= 0 =>
    /\ Len(file) = result
    /\ (\A b \in DOMAIN given : IsText(given[b])) => IsPrefix(file, written)
    /\ \A k \in DOMAIN file : file[k] \in {written[k], Null}

(***************************************************************************)
(* __readv fills the buffers in order with the bytes that were read and    *)
(* leaves what is behind them alone, however short the read: what was      *)
(* written comes back, divided in another way (the last three asserts of   *)
(* chpt5_q7).  A zero again hides what is behind it in its buffer.         *)
(***************************************************************************)
ReadvScatters ==
  op = "readv" /\ pc = "idle" /\ result >= 0 =>
    LET back == FlattenSeq(iov) IN
      /\ \A b \in DOMAIN iov : Len(iov[b]) = Len(given[b])
      /\ \A k \in DOMAIN back :
           IF k <= result THEN back[k] \in {file[k], Null}
                          ELSE back[k] = Garbage
      /\ Null \notin ToSet(written) =>
           SubSeq(back, 1, result) = SubSeq(written, 1, result)

(***************************************************************************)
(* "Sum of iov_len overflows ssize_t" (q7.c): a call is refused with       *)
(* EINVAL if and only if it has too many buffers or they are too long      *)
(* together.  The code keeps this as long as each length is at most        *)
(* SSIZE_MAX; for a longer one, the difference that lines 84 and 123       *)
(* compare with wraps, and the call goes on to malloc (vectored_overflow). *)
(***************************************************************************)
TooMuch ==
  Len(given) > UIO_MAXIOV \/ Len(FlattenSeq(given)) > SSIZE_MAX

RefusedExactly ==
  /\ op # "none" /\ pc = "idle" => (result = EINVAL <=> TooMuch)
  /\ pc \in {"gather", "read", "scatter", "died"} => ~TooMuch

=============================================================================
