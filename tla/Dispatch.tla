------------------------------ MODULE Dispatch ------------------------------
(***************************************************************************)
(* From the command line to one exercise: main and cmp_chpt of c/run.c,    *)
(* cmp_question of c/shared/utils.c, and the chptN_run functions with the  *)
(* checks they make on the arguments (those of chapter 7 are in FreeRange). *)
(*                                                                         *)
(* A word that names a chapter or a question is a prefix and a number.  An *)
(* argument is a path, short or too long for the 256 bytes of filepath; or *)
(* a number; or the option -a.                                             *)
(***************************************************************************)
EXTENDS Integers, SequencesExt

CONSTANTS
  TypedPrefixes,  \* the prefixes that are typed before a chapter's number
  Args,           \* bound: the arguments that may be typed
  LongArgs,       \* those longer than 255 bytes
  NumberArgs,     \* those that are numbers greater than 0
  ZeroArgs,       \* those that are other numbers
  MaxArgs         \* bound: how many arguments are typed

(* The string of no characters. *)
NoText == ""

(* What is assumed of the constants. *)
ConstantsOK ==
  /\ LongArgs \subseteq Args
  /\ NumberArgs \subseteq Args
  /\ ZeroArgs \subseteq Args
  /\ NoText \notin LongArgs
  /\ MaxArgs \in Nat

VARIABLES
  argv,      \* what is typed: a chapter, a question and arguments
  pc,        \* "main", "chptN_run", "chpt4_q1", "ran", "usage" or "died"
  chapter,
  question,
  append,    \* of chpt4_q1 and chpt5_q3
  filepath,  \* the buffer of chpt4_run and chpt5_run
  idx        \* of the loop over the arguments of chpt4_q1

vars == <<argv, pc, chapter, question, append, filepath, idx>>

ChapterPrefixes == <<NoText, "c", "chp", "chpt", "chapter">>
QuestionPrefixes == <<NoText, "q", "question">>

(* The exercises of each chapter. *)
Questions ==
  [n \in 4 .. 8 |-> CASE n = 4 -> {1, 2} [] n = 5 -> 1 .. 7 [] n = 6 -> {2, 3}
                      [] n = 7 -> {1, 2} [] n = 8 -> {1, 2}]

args == SubSeq(argv, 3, Len(argv))

(* Mutant: strncmp without the zero at the end: 1 is taken for 10. *)
sameWordPrefix(candidate, prefix, n) ==
  candidate.prefix = prefix /\ candidate.number \in {n, 10 * n}

(* strncmp over the whole of the target, its zero included. *)
sameWord(candidate, prefix, n) ==
  candidate.prefix = prefix /\ candidate.number = n

(* The loop stops before the last prefix. *)
cmp_chpt(candidate, n) ==
  \E i \in 1 .. 4 : sameWord(candidate, ChapterPrefixes[i], n)

cmp_question(candidate, n) ==
  \E i \in 1 .. 3 : sameWord(candidate, QuestionPrefixes[i], n)

-----------------------------------------------------------------------------
Words(prefixes, numbers) == [prefix : prefixes, number : numbers]

Init ==
  /\ \E c \in Words(TypedPrefixes, {4, 5, 6, 7, 8, 9}),
        q \in Words({NoText, "q", "question", "c"}, {1, 2, 3, 4, 7, 9, 10}),
        rest \in BoundedSeq(Args, MaxArgs), n \in 0 .. 2 :
       argv = SubSeq(<<c, q>>, 1, n) \o (IF n = 2 THEN rest ELSE <<>>)
  /\ pc = "main"
  /\ chapter = 0
  /\ question = 0
  /\ append = FALSE
  /\ filepath = NoText
  /\ idx = 1

Stop(how) == pc' = how /\ UNCHANGED <<argv, chapter, question, idx>>

(* "Usage: run CHAPTER QUESTION", or no solutions for the chapter. *)
MainRefuses ==
  /\ pc = "main"
  /\ Len(argv) >= 2 => \A n \in 4 .. 8 : ~cmp_chpt(argv[1], n)
  /\ Stop("usage")
  /\ UNCHANGED <<append, filepath>>

Main ==
  /\ pc = "main" /\ Len(argv) >= 2
  /\ \E n \in 4 .. 8 : cmp_chpt(argv[1], n) /\ chapter' = n
  /\ pc' = "chptN_run"
  /\ UNCHANGED <<argv, question, append, filepath, idx>>

(* The chapter has no such question. *)
NoQuestion ==
  /\ pc = "chptN_run" /\ question = 0
  /\ \A n \in Questions[chapter] : ~cmp_question(argv[2], n)
  /\ Stop("usage")
  /\ UNCHANGED <<append, filepath>>

Question ==
  /\ pc = "chptN_run" /\ question = 0
  /\ \E n \in Questions[chapter] : cmp_question(argv[2], n) /\ question' = n
  /\ UNCHANGED <<argv, pc, chapter, append, filepath, idx>>

Asked(c, q) == pc = "chptN_run" /\ chapter = c /\ question = q

(* Exercises that take no arguments here, or check them themselves. *)
RunAtOnce ==
  /\ question # 0 /\ ~Asked(4, 1) /\ ~Asked(4, 2) /\ ~Asked(5, 1) /\ ~Asked(5, 3)
  /\ pc = "chptN_run"
  /\ Stop("ran")
  /\ UNCHANGED <<append, filepath>>

(* getopt moves the options to the front and leaves idx behind them. *)
Chpt4Q1 ==
  /\ Asked(4, 1)
  /\ IF args = <<>> THEN Stop("usage") /\ UNCHANGED append
     ELSE /\ append' = Contains(args, "-a")
          /\ pc' = "chpt4_q1"
          /\ UNCHANGED <<argv, chapter, question, idx>>
  /\ UNCHANGED filepath

(* The places in args of what is no option, and the n-th of these words. *)
Operands == {k \in DOMAIN args : args[k] # "-a"}
operand(n) ==
  args[CHOOSE k \in Operands : Cardinality({j \in Operands : j <= k}) = n]

(* Mutant: the last operand counts. *)
FilepathLast ==
  /\ pc = "chpt4_q1" /\ idx <= Cardinality(Operands)
  /\ filepath' = operand(idx)
  /\ idx' = idx + 1
  /\ pc' = IF operand(idx) \in LongArgs THEN "usage" ELSE pc
  /\ UNCHANGED <<argv, chapter, question, append>>

(* The first operand is the file; the others are skipped. *)
Filepath ==
  /\ pc = "chpt4_q1" /\ idx <= Cardinality(Operands)
  /\ filepath' = IF idx = 1 THEN operand(1) ELSE filepath
  /\ idx' = idx + 1
  /\ pc' = IF idx = 1 /\ operand(1) \in LongArgs THEN "usage" ELSE pc
  /\ UNCHANGED <<argv, chapter, question, append>>

RunChpt4Q1 ==
  /\ pc = "chpt4_q1" /\ idx > Cardinality(Operands)
  /\ Stop("ran")
  /\ UNCHANGED <<append, filepath>>

Chpt4Q2 ==
  /\ Asked(4, 2)
  /\ Stop(IF Len(args) = 2 THEN "ran" ELSE "usage")
  /\ UNCHANGED <<append, filepath>>

(* strtoll or strtol to the end of the argument, and the check > 0. *)
CheckNumber(a) ==
  IF a \in NumberArgs THEN "ran" ELSE IF a \in ZeroArgs THEN "died" ELSE "usage"

(* Mutant: no x either. *)
WrongCountStrict == Len(args) # 2

WrongCount == Len(args) < 2 \/ (question = 1 /\ Len(args) > 2)

(* Questions 1 and 3 of chapter 5: a file and a number. *)
Chpt5 ==
  /\ Asked(5, 1) \/ Asked(5, 3)
  /\ IF WrongCount THEN Stop("usage") /\ UNCHANGED <<append, filepath>>
     ELSE /\ filepath' = args[1]
          /\ append' = (question = 3 /\ Len(args) < 3)
          /\ Stop(IF args[1] \in LongArgs THEN "usage" ELSE CheckNumber(args[2]))

Next ==
  \/ Main \/ MainRefuses \/ Question \/ NoQuestion \/ RunAtOnce
  \/ Chpt4Q1 \/ Filepath \/ RunChpt4Q1 \/ Chpt4Q2 \/ Chpt5

Spec == Init /\ [][Next]_vars

(* An exercise is called, or the process has ended with a message. *)
Ended == pc \in {"ran", "usage", "died"}

-----------------------------------------------------------------------------
TypeOK ==
  /\ pc \in {"main", "chptN_run", "chpt4_q1", "ran", "usage", "died"}
  /\ chapter \in 0 .. 8 /\ question \in 0 .. 7
  /\ question # 0 => question \in Questions[chapter]
  /\ append \in BOOLEAN
  /\ filepath \in Args \cup {NoText}
  /\ idx \in 1 .. MaxArgs + 1

(***************************************************************************)
(* An exercise runs only if its chapter and its number are the ones typed, *)
(* with a path that ends in its buffer, a number that is greater than 0,   *)
(* and the options of that call.                                           *)
(***************************************************************************)
RunsAsTyped ==
  pc = "ran" =>
    /\ argv[1].number = chapter /\ argv[2].number = question
    /\ filepath \notin LongArgs
    /\ chapter = 5 /\ question \in {1, 3} =>
         /\ filepath = args[1] /\ args[2] \in NumberArgs
         /\ append <=> question = 3 /\ Len(args) = 2
    /\ chapter = 4 /\ question = 1 =>
         /\ append <=> "-a" \in ToSet(args)
         /\ \A k \in DOMAIN args :
              args[k] # "-a" /\ (\A j \in 1 .. k - 1 : args[j] = "-a") =>
                filepath = args[k]

(* The usage texts of chpt4_run and chpt5_run; no other chapter has one    *)
(* about the arguments of an exercise.                                     *)
FitsUsage ==
  /\ chapter = 4 /\ question = 1 =>
       \E k \in {1, 2} : /\ Len(args) = k /\ args[k] \notin LongArgs \cup {"-a"}
                         /\ k = 2 => args[1] = "-a"
  /\ chapter = 4 /\ question = 2 => Len(args) = 2
  /\ chapter = 5 /\ question = 1 =>
       Len(args) = 2 /\ args[1] \notin LongArgs /\ args[2] \in NumberArgs
  /\ chapter = 5 /\ question = 3 =>
       /\ Len(args) \in {2, 3} /\ args[1] \notin LongArgs
       /\ args[2] \in NumberArgs

(***************************************************************************)
(* A command line that fits the usage text of its exercise is not refused, *)
(* once main has found the chapter: of the prefixes that cmp_chpt accepts  *)
(* or, as "chapter", never tries, this says nothing.                       *)
(***************************************************************************)
UsageHonoured == pc \in {"usage", "died"} /\ question # 0 => ~FitsUsage

=============================================================================
