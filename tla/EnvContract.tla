---------------------------- MODULE EnvContract -----------------------------
(***************************************************************************)
(* The environment as the callers of c/chpt6/q3.c see it: what getenv      *)
(* answers for each name, before and after a call of __setenv or           *)
(* __unsetenv.                                                             *)
(***************************************************************************)
CONSTANTS
  Names,
  Values,
  Empty,   \* the empty value
  Unset,   \* getenv answers NULL
  NoName   \* an argument that is no name

VARIABLES env, called, result

BadName ==
  /\ \E op \in {"setenv", "unsetenv"} : called' = [op |-> op, name |-> NoName]
  /\ result' = "EINVAL"
  /\ UNCHANGED env

(* The value NULL, here Unset, counts as the empty one. *)
Setenv(n, value, overwrite) ==
  /\ called' = [op |-> "setenv", name |-> n, value |-> value,
                overwrite |-> overwrite]
  /\ \/ /\ overwrite \/ env[n] = Unset
        /\ env' = [env EXCEPT ![n] = IF value = Unset THEN Empty ELSE value]
        /\ result' = "0"
     \/ /\ ~overwrite /\ env[n] # Unset
        /\ env' = env /\ result' = "0"
     \/ /\ overwrite \/ env[n] = Unset
        /\ env' = env /\ result' = "ENOMEM"

Unsetenv(n) ==
  /\ called' = [op |-> "unsetenv", name |-> n]
  /\ env' = [env EXCEPT ![n] = Unset]
  /\ result' = "0"

Next ==
  \/ BadName
  \/ \E n \in Names :
       \/ \E value \in Values \cup {Unset}, overwrite \in BOOLEAN :
            Setenv(n, value, overwrite)
       \/ Unsetenv(n)

Init ==
  /\ env \in [Names -> Values \cup {Unset}]
  /\ called = [op |-> "none"]
  /\ result = "0"

Spec == Init /\ [][Next]_<<env, called, result>>
=============================================================================
