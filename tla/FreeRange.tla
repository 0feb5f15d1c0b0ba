----------------------------- MODULE FreeRange ------------------------------
(***************************************************************************)
(* Question 1 of chapter 7: chpt7_run of c/chpt7/chpt7.c reads up to five  *)
(* numbers, and chpt7_q1 of c/chpt7/q1.c allocates blocks and frees some   *)
(* of them.  One step is the reading of one argument or one iteration.     *)
(*                                                                         *)
(* Integers are those of int and long, narrowed to INT_MAX and LONG_MAX;   *)
(* what happens after an int overflows is left open.                       *)
(***************************************************************************)
EXTENDS Integers, Sequences

CONSTANTS
  INT_MAX,
  LONG_MAX,
  Q1_MAX_NUM_ALLOCS,
  Typed,     \* bound: the numbers that may be typed
  NotNumber  \* stands for what strtol does not read to its end

(* What is assumed of the constants. *)
ConstantsOK ==
  /\ INT_MAX \in Nat
  /\ LONG_MAX \in Nat
  /\ INT_MAX <= LONG_MAX
  /\ Q1_MAX_NUM_ALLOCS \in 1 .. INT_MAX
  /\ Typed \subseteq Int
  /\ NotNumber \notin Typed

VARIABLES
  args,     \* the arguments behind the name of the question
  values,   \* num_allocs, block_size, free_step, free_min, free_max so far
  pc,       \* "parse", "alloc", "free", "exited", "usage", "died", "undefined"
  i,        \* of the two loops, counted from 0
  blocks    \* the indices of ptr that hold a block that is allocated

vars == <<args, values, pc, i, blocks>>

num_allocs == values[1]
free_step == values[3]
free_min == values[4]
free_max == values[5]

-----------------------------------------------------------------------------
(* strtol stops at the ends of long. *)
strtol(n) ==
  IF n > LONG_MAX THEN LONG_MAX ELSE IF n < -LONG_MAX - 1 THEN -LONG_MAX - 1 ELSE n

(* The conversion of a long to an int. *)
int(n) ==
  LET m == n % (2 * (INT_MAX + 1)) IN IF m > INT_MAX THEN m - 2 * (INT_MAX + 1) ELSE m

(* The value of the k-th argument, or its default. *)
Parsed(k) ==
  IF k <= Len(args) THEN int(strtol(args[k]))
  ELSE IF k = 5 THEN num_allocs ELSE 1

(* The checks on the k-th value. *)
Accepted(k, n) ==
  CASE k = 1 -> n > 0 /\ n <= Q1_MAX_NUM_ALLOCS
    [] k = 5 -> n > free_min /\ n <= num_allocs
    [] OTHER -> n > 0

Init ==
  /\ args \in UNION {[1 .. k -> Typed \cup {NotNumber}] : k \in 0 .. 5}
  /\ values = <<>>
  /\ pc = "parse"
  /\ i = 0
  /\ blocks = {}

Parse ==
  /\ pc = "parse" /\ Len(values) < 5
  /\ LET k == Len(values) + 1 IN
       IF Len(args) < 2 \/ (k <= Len(args) /\ args[k] = NotNumber)
       THEN pc' = "usage" /\ UNCHANGED values
       ELSE IF ~Accepted(k, Parsed(k))
       THEN pc' = "usage" /\ UNCHANGED values
       ELSE values' = Append(values, Parsed(k)) /\ UNCHANGED pc
  /\ UNCHANGED <<args, i, blocks>>

Start ==
  /\ pc = "parse" /\ Len(values) = 5
  /\ pc' = "alloc"
  /\ UNCHANGED <<args, values, i, blocks>>

(* Mutant: the loop does not count. *)
AllocateUncounted ==
  /\ pc = "alloc" /\ i < num_allocs
  /\ blocks' = blocks \cup {i}
  /\ UNCHANGED <<args, values, pc, i>>

Allocate ==
  /\ pc = "alloc" /\ i < num_allocs
  /\ blocks' = blocks \cup {i}
  /\ i' = i + 1
  /\ UNCHANGED <<args, values, pc>>

(* errExit("malloc") *)
AllocateFails ==
  /\ pc = "alloc" /\ i < num_allocs
  /\ pc' = "died"
  /\ UNCHANGED <<args, values, i, blocks>>

(* Mutant: the first block is number free_min, not free_min - 1. *)
StartFreeOneOn ==
  /\ pc = "alloc" /\ i = num_allocs
  /\ i' = free_min
  /\ pc' = "free"
  /\ UNCHANGED <<args, values, blocks>>

StartFree ==
  /\ pc = "alloc" /\ i = num_allocs
  /\ i' = free_min - 1
  /\ pc' = "free"
  /\ UNCHANGED <<args, values, blocks>>

(* free(ptr[i]) is undefined if ptr[i] is not a block, or freed already. *)
Free ==
  /\ pc = "free" /\ i < free_max
  /\ blocks' = blocks \ {i}
  /\ IF i \notin blocks \/ i + free_step > INT_MAX
     THEN pc' = "undefined" /\ UNCHANGED i
     ELSE i' = i + free_step /\ UNCHANGED pc
  /\ UNCHANGED <<args, values>>

Exit ==
  /\ pc = "free" /\ i >= free_max
  /\ pc' = "exited"
  /\ UNCHANGED <<args, values, i, blocks>>

Step == Parse \/ Start \/ Allocate \/ StartFree \/ Free \/ Exit

Next == Step \/ AllocateFails

(* The program has one thread, which goes on running; malloc need not fail. *)
Spec == Init /\ [][Next]_vars /\ WF_vars(Step)

-----------------------------------------------------------------------------
TypeOK ==
  /\ Len(values) <= 5 /\ \A k \in DOMAIN values : values[k] \in 1 .. INT_MAX
  /\ i \in 0 .. INT_MAX
  /\ blocks \subseteq 0 .. Q1_MAX_NUM_ALLOCS - 1
  /\ pc \in {"parse", "alloc", "free", "exited", "usage", "died", "undefined"}

(***************************************************************************)
(* The arguments that are accepted let the loop free only blocks that are  *)
(* allocated, each once, counted from 1 as in the usage text: the blocks   *)
(* free_min, free_min + free_step, ... up to free_max are gone in the end. *)
(***************************************************************************)
FreesRange ==
  /\ pc = "exited" =>
       blocks = {b \in 0 .. num_allocs - 1 :
                   ~(/\ b + 1 >= free_min /\ b + 1 <= free_max
                     /\ (b + 1 - free_min) % free_step = 0)}
  /\ pc = "undefined" => i + free_step > INT_MAX

(* Where the program ends. *)
Ended == pc \in {"exited", "usage", "died", "undefined"}

=============================================================================
