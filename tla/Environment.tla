---------------------------- MODULE Environment -----------------------------
(***************************************************************************)
(* __setenv and __unsetenv of c/chpt6/q3.c on the list environ.  An entry  *)
(* is a name and a value, the two sides of its '='; the process may have   *)
(* inherited entries without one, and several with the same name.  One     *)
(* step is one call: the program has one thread.                           *)
(***************************************************************************)
EXTENDS Integers, Sequences, FiniteSets

CONSTANTS
  Names,       \* valid names: not empty, no '='
  Values,
  Empty,       \* the empty value
  Unset,       \* no value: what getenv answers as NULL
  NoName,      \* what an entry without '=' has for a name
  MaxInherited \* bound: the entries that the process inherits

ASSUME EmptyAssumption == Empty \in Values
ASSUME UnsetAssumption == Unset \notin Values
ASSUME NoNameAssumption == NoName \notin Names
ASSUME MaxInheritedAssumption == MaxInherited \in Nat

VARIABLES
  environ,
  called,  \* history: the last call
  result   \* "0", "EINVAL" or "ENOMEM", or "crashed" in the call

vars == <<environ, called, result>>

Entries == [name : Names \cup {NoName}, value : Values]
NoCall == [op |-> "none"]

-----------------------------------------------------------------------------
(* The entries for n that come first: there is one, or none. *)
First(n) ==
  {i \in DOMAIN environ :
     environ[i].name = n /\ \A j \in 1 .. i - 1 : environ[j].name # n}

Missing(n) == First(n) = {}

(* What getenv(n) answers. *)
getenv(n) ==
  IF Missing(n) THEN Unset ELSE environ[CHOOSE i \in First(n) : TRUE].value

(* Every entry has a name, and no other entry has the same. *)
OncePerName ==
  /\ \A i \in DOMAIN environ : environ[i].name # NoName
  /\ \A i, j \in DOMAIN environ : environ[i].name = environ[j].name => i = j

(* The environment as it is seen through getenv. *)
seen == [n \in Names |-> getenv(n)]

Contract == INSTANCE EnvContract WITH env <- seen

Init ==
  /\ environ \in UNION {[1 .. k -> Entries] : k \in 0 .. MaxInherited}
  /\ called = NoCall
  /\ result = "0"

Running == result # "crashed"

Calls(c) == Running /\ called' = c

Nothing(r) == environ' = environ /\ result' = r

(* Mutant: a value of NULL is copied like others. *)
ContentsNull(value) == value

(* What stands behind the '=': nothing if value is NULL, here Unset. *)
Contents(value) == IF value = Unset THEN Empty ELSE value

(* Mutant: an entry for a name that has one is added, not replaced. *)
putenvAppend(n, v) == environ' = Append(environ, [name |-> n, value |-> v])

(* putenv of the new string: it replaces the first entry, or is the last. *)
putenv(n, v) ==
  IF Missing(n) THEN environ' = Append(environ, [name |-> n, value |-> v])
  ELSE \E i \in First(n) : environ' = [environ EXCEPT ![i].value = v]

(* A name that is NULL or empty or has a '=' in it. *)
BadName ==
  /\ \E op \in {"setenv", "unsetenv"} : Calls([op |-> op, name |-> NoName])
  /\ Nothing("EINVAL")

(* Mutant: a variable that exists is overwritten all the same. *)
SetenvAlways(n, value, overwrite) ==
  /\ Calls([op |-> "setenv", name |-> n, value |-> value,
            overwrite |-> overwrite])
  /\ \/ putenv(n, Contents(value)) /\ result' = "0"
     \/ Nothing("ENOMEM")

(* malloc and putenv may find no memory. *)
Setenv(n, value, overwrite) ==
  /\ Calls([op |-> "setenv", name |-> n, value |-> value,
            overwrite |-> overwrite])
  /\ IF ~overwrite /\ ~Missing(n) THEN Nothing("0")
     ELSE \/ putenv(n, Contents(value)) /\ result' = "0"
          \/ Nothing("ENOMEM")

(* Mutant: the last entry is deleted, but not moved. *)
WithoutLast(i) == [j \in 1 .. Len(environ) - 1 |-> environ[j]]

(* environ after the last entry has taken the place of entry i. *)
Without(i) ==
  [j \in 1 .. Len(environ) - 1 |-> environ[IF j = i THEN Len(environ) ELSE j]]

Unsetenv(n) ==
  /\ Calls([op |-> "unsetenv", name |-> n])
  /\ result' = "0"
  /\ IF Missing(n) THEN environ' = environ
     ELSE \E i \in First(n) : environ' = Without(i)

(* An entry without '=' before the one that is sought: the search for its  *)
(* '=' leaves the string, which may be a crash.  If not, the entry is as   *)
(* long as the name only if it is not equal to it, and is passed over.     *)
UnsetenvCrash(n) ==
  /\ Calls([op |-> "unsetenv", name |-> n])
  /\ \E i \in DOMAIN environ :
       environ[i].name = NoName /\ \A j \in 1 .. i - 1 : environ[j].name # n
  /\ Nothing("crashed")

Next ==
  \/ BadName
  \/ \E n \in Names :
       \/ \E value \in Values \cup {Unset}, overwrite \in BOOLEAN :
            Setenv(n, value, overwrite)
       \/ Unsetenv(n)
       \/ UnsetenvCrash(n)

Spec == Init /\ [][Next]_vars

-----------------------------------------------------------------------------
TypeOK ==
  /\ environ \in Seq(Entries)
  /\ called.op \in {"none", "setenv", "unsetenv"}
  /\ result \in {"0", "EINVAL", "ENOMEM", "crashed"}

(***************************************************************************)
(* In an environment without malformed or repeated names, the list does    *)
(* what its callers expect, a call at a time: the name of the call gets    *)
(* its value or none, every other name keeps its own although the entries  *)
(* change places, an existing variable is left alone unless overwrite is   *)
(* set, a failed call changes nothing, and no call crashes.                *)
(***************************************************************************)
ContractSpec ==
  /\ OncePerName => Contract!Init
  /\ [][OncePerName => Contract!Next /\ OncePerName']_<<seen, called, result>>

(* How often the list has the entry e. *)
Count(e) == Cardinality({i \in DOMAIN environ : environ[i] = e})

(***************************************************************************)
(* In any environment, moving the last entry into the gap neither loses    *)
(* nor repeats an entry of another name; and the list grows by one entry   *)
(* if a setenv has to add one, shrinks by one if an unsetenv finds one,    *)
(* and else keeps its length.  Which entry of the name itself changes is   *)
(* not said here but, for lists with one entry per name, by ContractSpec.  *)
(***************************************************************************)
EntriesKept ==
  [][/\ \A e \in Entries : e.name # called'.name => Count(e)' = Count(e)
     /\ Len(environ') - Len(environ) =
          IF ~Missing(called'.name) /\ called'.op = "unsetenv" /\ result' = "0"
          THEN -1
          ELSE IF Missing(called'.name) /\ called'.op = "setenv" /\ result' = "0"
          THEN 1 ELSE 0]_vars

=============================================================================
