------------------------------ MODULE EnvTest -------------------------------
(***************************************************************************)
(* chpt6_q3 of c/chpt6/q3.c: its calls of __setenv and __unsetenv and the  *)
(* asserts behind them, in their order, in a process that may have         *)
(* inherited any environment.                                              *)
(***************************************************************************)
EXTENDS Environment

CONSTANTS SHELL, MY_SWEET, MY_NOT_SO_SWEET, OLDPWD, somevariable  \* names
CONSTANTS bin_sh, eKlkl, FortyTwo                                 \* values

TestNames == <<SHELL, MY_SWEET, MY_NOT_SO_SWEET, OLDPWD, somevariable>>

(* What is assumed of the constants: the five names are five. *)
TestConstantsOK ==
  /\ \A j, k \in 1 .. 5 : TestNames[j] = TestNames[k] => j = k
  /\ Names = {SHELL, MY_SWEET, MY_NOT_SO_SWEET, OLDPWD, somevariable}
  /\ {bin_sh, eKlkl, FortyTwo} \subseteq Values
  /\ Empty \in Values /\ Unset \notin Values
  /\ NoName \notin Names
  /\ MaxInherited \in Nat

VARIABLES
  next,      \* the number of the call that is made next
  status,    \* "call", "assert", "exited", "aborted" or "crashed"
  inherited  \* history: the environment at the start

testVars == <<vars, next, status, inherited>>

(* A call, the answer that is asserted, and what getenv then has to answer *)
(* for the name of the call, if that is asserted too.                      *)
setenv(n, value, overwrite, expected, shows) ==
  [op |-> "setenv", name |-> n, value |-> value, overwrite |-> overwrite,
   expected |-> expected, shows |-> shows]
unsetenv(n, expected, shows) ==
  [op |-> "unsetenv", name |-> n, expected |-> expected, shows |-> shows]

Script ==
  << setenv(NoName, Unset, FALSE, "EINVAL", {}),
     setenv(SHELL, Unset, FALSE, "0", {}),
     setenv(SHELL, Unset, TRUE, "0", {Empty}),
     setenv(SHELL, bin_sh, TRUE, "0", {bin_sh}),
     setenv(MY_SWEET, eKlkl, FALSE, "0", {eKlkl}),
     setenv(MY_NOT_SO_SWEET, FortyTwo, TRUE, "0", {FortyTwo}),
     unsetenv(NoName, "EINVAL", {}),
     unsetenv(somevariable, "0", {}),
     unsetenv(MY_NOT_SO_SWEET, "0", {Unset}),
     unsetenv(OLDPWD, "0", {Unset}) >>

TestInit ==
  /\ Init
  /\ next = 1
  /\ status = "call"
  /\ inherited = environ

TestCall ==
  /\ status = "call" /\ next <= Len(Script)
  /\ LET c == Script[next] IN
       \/ c.name = NoName /\ BadName /\ called'.op = c.op
       \/ c.name # NoName /\ c.op = "setenv" /\ Setenv(c.name, c.value, c.overwrite)
       \/ c.name # NoName /\ c.op = "unsetenv"
            /\ (Unsetenv(c.name) \/ UnsetenvCrash(c.name))
  /\ status' = IF result' = "crashed" THEN "crashed" ELSE "assert"
  /\ UNCHANGED <<next, inherited>>

Holds(c) == result = c.expected /\ (c.shows # {} => getenv(c.name) \in c.shows)

TestAssert ==
  /\ status = "assert"
  /\ IF Holds(Script[next]) THEN status' = "call" /\ next' = next + 1
     ELSE status' = "aborted" /\ UNCHANGED next
  /\ UNCHANGED <<vars, inherited>>

TestExit ==
  /\ status = "call" /\ next > Len(Script)
  /\ status' = "exited"
  /\ UNCHANGED <<vars, next, inherited>>

TestNext == TestCall \/ TestAssert \/ TestExit

TestSpec == TestInit /\ [][TestNext]_testVars

-----------------------------------------------------------------------------
InheritedOf(n) == {k \in DOMAIN inherited : inherited[k].name = n}

(* The process has not inherited several entries with the name n. *)
NotTwice(n) == \A j, k \in InheritedOf(n) : j = k

(***************************************************************************)
(* The environments in which the asserts hold: MY_SWEET is not there, or   *)
(* already has the value that is not to be overwritten, and neither of the *)
(* two names that are unset is there twice.                                *)
(***************************************************************************)
StartedAsExpected ==
  /\ \A k \in InheritedOf(MY_SWEET) :
       (\A j \in InheritedOf(MY_SWEET) : k <= j) => inherited[k].value = eKlkl
  /\ NotTwice(MY_NOT_SO_SWEET) /\ NotTwice(OLDPWD)

(***************************************************************************)
(* The test says what it should: it comes to its end only in such an       *)
(* environment, and in one of them an assert fails only for want of        *)
(* memory, whatever else is inherited; a crash needs an entry without '='. *)
(***************************************************************************)
PassesAsStarted ==
  /\ status = "exited" => StartedAsExpected
  /\ status = "aborted" => result = "ENOMEM" \/ ~StartedAsExpected
  /\ status = "crashed" => InheritedOf(NoName) # {}

=============================================================================
