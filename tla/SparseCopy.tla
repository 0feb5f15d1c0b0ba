----------------------------- MODULE SparseCopy -----------------------------
(***************************************************************************)
(* q2_std of c/chpt4/q2.c: copy a file with its holes.  The copy jumps     *)
(* from data region to data region of the source with SEEK_DATA and        *)
(* SEEK_HOLE, copies each region, and recreates a hole at the end.  One    *)
(* step is one system call on the source and what the code makes of the    *)
(* answer.  Another process may append to the source meanwhile.            *)
(***************************************************************************)
EXTENDS FileCells

CONSTANTS
  Content,     \* what the written cells may hold
  MaxSize,     \* the longest source considered
  Growth,      \* how many cells the other process appends at most
  BUFFER_SZ

(* What is assumed of the constants. *)
ConstantsOK ==
  /\ Hole \notin Content
  /\ MaxSize \in Nat
  /\ Growth \in Nat
  /\ BUFFER_SZ \in Nat \ {0}

VARIABLES
  src,                \* the source file
  grown,              \* cells appended to it so far
  dst,                \* the destination file
  src_file_size,      \* the locals of q2_std
  data_begin,
  data_end,
  read_within_region,
  pc

locals == <<src_file_size, data_begin, data_end, read_within_region>>
vars == <<src, grown, dst, locals, pc>>

Cells == Content \cup {Hole}

Init ==
  /\ src \in UNION {[1 .. n -> Cells] : n \in 0 .. MaxSize}
  /\ grown = 0
  /\ dst = <<>>
  /\ src_file_size = 0
  /\ data_begin = 0
  /\ data_end = 0
  /\ read_within_region = 0
  /\ pc = "open"

(* Both files are open, dst with O_TRUNC, and the size of src is known. *)
OpenBoth ==
  /\ pc = "open"
  /\ src_file_size' = Len(src)
  /\ pc' = "seek_data"
  /\ UNCHANGED <<src, grown, dst, data_begin, data_end, read_within_region>>

(* Mutant: each search for data begins at the start of the file. *)
SeekDataFromStart ==
  /\ pc = "seek_data"
  /\ \E b \in DataFrom(src, 0) : data_begin' = b
  /\ pc' = "seek_hole"
  /\ UNCHANGED <<src, grown, dst, src_file_size, data_end, read_within_region>>

(* The next data region starts here. *)
SeekData ==
  /\ pc = "seek_data"
  /\ \E b \in DataFrom(src, data_end) : data_begin' = b
  /\ pc' = "seek_hole"
  /\ UNCHANGED <<src, grown, dst, src_file_size, data_end, read_within_region>>

(* Mutants: no space is made at the end; it is not punched. *)
AllocatedNothing == dst
TrailingHoleAsIs == dst

(* posix_fallocate: the file has its size, and allocated nulls at the end. *)
Allocated ==
  [i \in 1 .. src_file_size |-> IF i <= data_end THEN dst[i] ELSE Null]

(* No data follows: ENXIO. *)
NoMoreData ==
  /\ pc = "seek_data"
  /\ DataFrom(src, data_end) = {}
  /\ IF data_end < src_file_size THEN dst' = Allocated /\ pc' = "punch"
     ELSE UNCHANGED dst /\ pc' = "finish"
  /\ UNCHANGED <<src, grown, locals>>

(* FALLOC_FL_PUNCH_HOLE from data_end on. *)
TrailingHole == PunchFrom(dst, data_end)

PunchHole ==
  /\ pc = "punch"
  /\ dst' = TrailingHole
  /\ pc' = "finish"
  /\ UNCHANGED <<src, grown, locals>>

(***************************************************************************)
(* The region ends here; both offsets are set to its start.  The code does *)
(* not check the two lseek that do that, and the model lets them succeed:  *)
(* they fail only for a destination that cannot seek.                      *)
(***************************************************************************)
SeekHole ==
  /\ pc = "seek_hole"
  /\ data_end' = HoleFrom(src, data_begin)
  /\ read_within_region' = 0
  /\ pc' = "copy"
  /\ UNCHANGED <<src, grown, dst, src_file_size, data_begin>>

(* Where src is read and dst written. *)
Position == data_begin + read_within_region

(* read answers n bytes, and deliver_write writes them. *)
CopyBytes ==
  /\ pc = "copy"
  /\ \E n \in 1 .. BUFFER_SZ :
       /\ Position + n <= data_end
       /\ dst' = PutAt(dst, Position, Bytes(SubSeq(src, Position + 1, Position + n)))
       /\ read_within_region' = read_within_region + n
  /\ UNCHANGED <<src, grown, src_file_size, data_begin, data_end, pc>>

(* The region is copied: read is asked for 0 bytes. *)
RegionCopied ==
  /\ pc = "copy"
  /\ data_end - data_begin - read_within_region = 0
  /\ pc' = "seek_data"
  /\ UNCHANGED <<src, grown, dst, locals>>

(* Close src, fsync and close dst. *)
Finish ==
  /\ pc = "finish"
  /\ pc' = "exited"
  /\ UNCHANGED <<src, grown, dst, locals>>

(* Any of the calls fails, and the process ends in errExit. *)
Fail ==
  /\ pc \notin {"exited", "died"}
  /\ pc' = "died"
  /\ UNCHANGED <<src, grown, dst, locals>>

Step ==
  \/ OpenBoth \/ SeekData \/ NoMoreData \/ PunchHole \/ SeekHole
  \/ CopyBytes \/ RegionCopied \/ Finish \/ Fail

(* The other process appends a cell, or extends the source by a hole. *)
AppendToSource ==
  /\ grown < Growth
  /\ grown' = grown + 1
  /\ \E c \in Cells : src' = Append(src, c)
  /\ UNCHANGED <<dst, locals, pc>>

Next == Step \/ AppendToSource

Spec == Init /\ [][Next]_vars /\ WF_vars(Step)

-----------------------------------------------------------------------------
TypeOK ==
  /\ src \in Seq(Cells) /\ dst \in Seq(Cells)
  /\ grown \in 0 .. Growth
  /\ src_file_size \in Nat /\ data_begin \in Nat /\ data_end \in Nat
  /\ read_within_region \in Nat
  /\ pc = "copy" => Position <= data_end /\ data_end <= Len(src)
  /\ pc \in {"open", "seek_data", "seek_hole", "copy", "punch", "finish",
             "exited", "died"}

(***************************************************************************)
(* At every moment, also if the copy dies or the source grows, the         *)
(* destination reads like a beginning of the source and has the same       *)
(* holes.  Only a copy that stops between allocating the space at the end  *)
(* and punching it has allocated nulls there instead.                      *)
(***************************************************************************)
ExactSoFar ==
  /\ Len(dst) <= Len(src)
  /\ \A i \in DOMAIN dst :
       \/ dst[i] = src[i]
       \/ /\ pc \in {"punch", "died"} /\ i > data_end
          /\ dst[i] = Null /\ src[i] = Hole

(***************************************************************************)
(* A copy that ends well has all that the source had when its size was     *)
(* read; without a second process it is as long as the source.             *)
(***************************************************************************)
AllCopied == pc = "exited" => Len(dst) >= src_file_size

(* Where the copy ends. *)
Ended == pc \in {"exited", "died"}

=============================================================================
