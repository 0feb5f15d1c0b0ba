----------------------------- MODULE NullHoles ------------------------------
(***************************************************************************)
(* q2_nulls_into_holes of c/chpt4/q2.c: copy a file, with every run of     *)
(* nulls as a hole.  The copy reads the source a buffer at a time and      *)
(* looks at each byte; the destination's offset is moved over a hole when  *)
(* the first byte behind it is found.  One step is one read, one byte of   *)
(* the loop over the buffer, or what follows that loop.                    *)
(***************************************************************************)
EXTENDS FileCells

CONSTANTS
  Content,    \* what a byte of the source may be
  MaxSize,    \* the longest source considered
  BUFFER_SZ

(* What is assumed of the constants. *)
ConstantsOK ==
  /\ Null \in Content
  /\ Hole \notin Content
  /\ MaxSize \in Nat
  /\ BUFFER_SZ \in Nat \ {0}

VARIABLES
  src,            \* the bytes of the source
  dst,            \* the destination file
  dst_offset,     \* of its open file description
  total_read,     \* the locals; total_read is also the offset of src
  nread,
  i,
  nonhole_begin,
  inside_hole,
  hole_begin,
  pc

files == <<src, dst, dst_offset>>
buffer == <<total_read, nread>>
vars == <<files, buffer, i, nonhole_begin, inside_hole, hole_begin, pc>>

Init ==
  /\ src \in UNION {[1 .. n -> Content] : n \in 0 .. MaxSize}
  /\ dst = <<>>
  /\ dst_offset = 0
  /\ total_read = 0
  /\ nread = 0
  /\ i = 0
  /\ nonhole_begin = 0
  /\ inside_hole = FALSE
  /\ hole_begin = 0
  /\ pc = "read"

(* The offset in src of byte j of the buffer, lseek(...) - (nread - j). *)
At(j) == total_read - (nread - j)

(* Mutant: nonhole_begin keeps its value from the buffer before. *)
ReadStale ==
  /\ pc = "read"
  /\ \E n \in 1 .. BUFFER_SZ :
       /\ total_read + n <= Len(src)
       /\ nread' = n
       /\ total_read' = total_read + n
  /\ i' = 0
  /\ pc' = "scan"
  /\ UNCHANGED <<files, nonhole_begin, inside_hole, hole_begin>>

Read ==
  /\ pc = "read"
  /\ \E n \in 1 .. BUFFER_SZ :
       /\ total_read + n <= Len(src)
       /\ nread' = n
       /\ total_read' = total_read + n
  /\ i' = 0
  /\ nonhole_begin' = 0
  /\ pc' = "scan"
  /\ UNCHANGED <<files, inside_hole, hole_begin>>

(* deliver_write(dst_fd, buffer + nonhole_begin, j - nonhole_begin) *)
Deliver(j) ==
  /\ dst' = PutAt(dst, dst_offset, SubSeq(src, At(nonhole_begin) + 1, At(j)))
  /\ dst_offset' = dst_offset + (j - nonhole_begin)

Scanning == pc = "scan" /\ i < nread

BufferAt(j) == src[At(j) + 1]

(* The first null of a run: write what the buffer holds before it. *)
BeginHole ==
  /\ Scanning
  /\ BufferAt(i) = Null
  /\ ~inside_hole
  /\ inside_hole' = TRUE
  /\ hole_begin' = At(i)
  /\ IF i > nonhole_begin THEN Deliver(i) ELSE UNCHANGED <<dst, dst_offset>>
  /\ i' = i + 1
  /\ UNCHANGED <<src, buffer, nonhole_begin, pc>>

(* Mutant: the length of the hole counts within the buffer only. *)
HoleLengthInBuffer == IF i = 0 THEN 1 ELSE i - nonhole_begin

HoleLength == At(i) - hole_begin

(* The first byte behind the hole: move the destination's offset over it. *)
EndHole ==
  /\ Scanning
  /\ BufferAt(i) # Null
  /\ inside_hole
  /\ inside_hole' = FALSE
  /\ nonhole_begin' = i
  /\ dst_offset' = dst_offset + HoleLength
  /\ i' = i + 1
  /\ UNCHANGED <<src, dst, buffer, hole_begin, pc>>

(* Any other byte is passed over. *)
PassByte ==
  /\ Scanning
  /\ inside_hole <=> BufferAt(i) = Null
  /\ i' = i + 1
  /\ UNCHANGED <<files, buffer, nonhole_begin, inside_hole, hole_begin, pc>>

(* Mutant: written also from within a hole. *)
EndOfBufferAlways ==
  /\ pc = "scan"
  /\ i = nread
  /\ Deliver(nread)
  /\ pc' = "read"
  /\ UNCHANGED <<src, buffer, i, nonhole_begin, inside_hole, hole_begin>>

(* The buffer is scanned: write what follows its last hole. *)
EndOfBuffer ==
  /\ pc = "scan"
  /\ i = nread
  /\ IF inside_hole THEN UNCHANGED <<dst, dst_offset>> ELSE Deliver(nread)
  /\ pc' = "read"
  /\ UNCHANGED <<src, buffer, i, nonhole_begin, inside_hole, hole_begin>>

(* read answers 0: close src, fsync and close dst. *)
EndOfFile ==
  /\ pc = "read"
  /\ total_read = Len(src)
  /\ pc' = "exited"
  /\ UNCHANGED <<files, buffer, i, nonhole_begin, inside_hole, hole_begin>>

(* A call that fails ends the process in errExit. *)
Fail ==
  /\ pc \in {"read", "scan"}
  /\ pc' = "died"
  /\ UNCHANGED <<files, buffer, i, nonhole_begin, inside_hole, hole_begin>>

Next ==
  \/ Read \/ BeginHole \/ EndHole \/ PassByte \/ EndOfBuffer \/ EndOfFile
  \/ Fail

Spec == Init /\ [][Next]_vars

Ended == pc \in {"exited", "died"}

-----------------------------------------------------------------------------
TypeOK ==
  /\ src \in Seq(Content) /\ dst \in Seq(Content \cup {Hole})
  /\ dst_offset \in Nat /\ total_read \in 0 .. MaxSize
  /\ nread \in 0 .. BUFFER_SZ /\ i \in 0 .. nread
  /\ nonhole_begin \in 0 .. nread
  /\ inside_hole \in BOOLEAN /\ hole_begin \in 0 .. MaxSize
  /\ pc \in {"read", "scan", "exited", "died"}

(***************************************************************************)
(* The loop invariant: the offset of dst is that of the first byte of src  *)
(* that is neither written nor known to be in a hole.                      *)
(***************************************************************************)
OffsetsAgree ==
  /\ inside_hole => dst_offset = hole_begin
  /\ ~inside_hole /\ pc = "scan" => dst_offset = At(nonhole_begin)
  /\ ~inside_hole /\ pc = "read" => dst_offset = total_read

AsCell(b) == IF b = Null THEN Hole ELSE b

(***************************************************************************)
(* "Any null values read are turned into holes": the destination is, byte  *)
(* by byte and at all times, the start of the source with its nulls as     *)
(* holes, and a copy that ends well has every byte up to the last that is  *)
(* not null.                                                               *)
(***************************************************************************)
NullsAreHoles ==
  /\ Len(dst) <= Len(src)
  /\ \A j \in DOMAIN dst : dst[j] = AsCell(src[j])
  /\ pc = "exited" => \A j \in DOMAIN src : j > Len(dst) => src[j] = Null

(***************************************************************************)
(* q2.c 144: the holes "won't be a problem in further reads": reading the  *)
(* copy gives the bytes of the source.                                     *)
(***************************************************************************)
ReadsTheSame == pc = "exited" => Bytes(dst) = src

=============================================================================
