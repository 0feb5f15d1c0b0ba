----------------------------- MODULE FileCells ------------------------------
(***************************************************************************)
(* The contents of a file, as the system calls of chapters 4 and 5 change  *)
(* and report them: a sequence of cells.  A cell that was never written is *)
(* a Hole; it reads as Null, which may also have been written.  External:  *)
(* the kernel, as the code uses it.                                        *)
(***************************************************************************)
EXTENDS Naturals, Sequences

Hole == "hole"
Null == "null"

(* What read sees of a cell. *)
Byte(c) == IF c = Hole THEN Null ELSE c
Bytes(f) == [i \in DOMAIN f |-> Byte(f[i])]

(* write of s at offset at, counted from 0: a gap becomes a hole. *)
PutAt(f, at, s) ==
  IF s = <<>> THEN f
  ELSE [i \in 1 .. IF at + Len(s) < Len(f) THEN Len(f) ELSE at + Len(s) |->
          IF i \in at + 1 .. at + Len(s) THEN s[i - at]
          ELSE IF i <= Len(f) THEN f[i]
          ELSE Hole]

(* The cells at offset at and after become holes. *)
PunchFrom(f, at) == [i \in DOMAIN f |-> IF i <= at THEN f[i] ELSE Hole]

(* lseek(fd, at, SEEK_DATA) answers one of these, or -1 if there is none. *)
DataFrom(f, at) ==
  {i \in at .. Len(f) - 1 :
     f[i + 1] # Hole /\ \A j \in at .. i - 1 : f[j + 1] = Hole}

(* lseek(fd, at, SEEK_HOLE), for an at within the file. *)
HoleFrom(f, at) ==
  CHOOSE i \in at .. Len(f) :
    /\ i = Len(f) \/ f[i + 1] = Hole
    /\ \A j \in at .. i - 1 : f[j + 1] # Hole
=============================================================================
