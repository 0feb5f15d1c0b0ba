------------------------------- MODULE Passwd -------------------------------
(***************************************************************************)
(* Chapter 8: __getpwnam of c/chpt8/q2.c, a search through the password    *)
(* file with getpwent, and chpt8_q1 of c/chpt8/q1.c, which prints the      *)
(* names of two users.  One step is one call of the library, which answers *)
(* with a pointer to the one static area it has.                           *)
(***************************************************************************)
EXTENDS Naturals, Sequences

CONSTANTS
  Names,      \* of users
  BadNames,   \* the name NULL, and the empty one
  MaxUsers    \* bound: users in the file

(* What is assumed of the constants. *)
ConstantsOK ==
  /\ BadNames \cap Names = {}
  /\ MaxUsers \in Nat

VARIABLES
  users,   \* the names in the file, in order; user k has the uid k - 1
  cursor,  \* how many of them getpwent has given
  area,    \* the name in the static area
  errno,
  name,    \* the argument of __getpwnam
  entry,   \* the pointer that getpwent answered: "area" or "NULL"
  order,   \* of chpt8_q1: the uids whose getpwuid is still to be called
  pc,
  shown,   \* what chpt8_q1 prints
  failed   \* history: getpwent has failed

vars == <<users, cursor, area, errno, name, entry, order, pc, shown, failed>>

ErrorNumbers == {"0", "ENOENT", "EIO"}

(* A process with a past: the file may have been read, and errno be set.   *)
(* The order in which the arguments of printf are evaluated is unspecified. *)
Init ==
  /\ users \in UNION {[1 .. k -> Names] : k \in 0 .. MaxUsers}
  /\ cursor \in 0 .. Len(users)
  /\ area = "nothing"
  /\ errno \in ErrorNumbers
  /\ name \in Names \cup BadNames
  /\ entry = "NULL"
  /\ order \in {<<0, 1>>, <<1, 0>>}
  /\ pc \in {"__getpwnam", "chpt8_q1"}
  /\ shown = <<>>
  /\ failed = FALSE

-----------------------------------------------------------------------------
BadName ==
  /\ pc = "__getpwnam" /\ name \in BadNames
  /\ errno' = "ENOENT"
  /\ entry' = "NULL"
  /\ pc' = "returned"
  /\ UNCHANGED <<users, cursor, area, name, order, shown, failed>>

(* Mutant: the search starts where the one before has ended. *)
SetpwentMissing ==
  /\ pc = "__getpwnam" /\ name \notin BadNames
  /\ pc' = "loop"
  /\ UNCHANGED <<users, cursor, area, errno, name, entry, order, shown, failed>>

Setpwent ==
  /\ pc = "__getpwnam" /\ name \notin BadNames
  /\ cursor' = 0
  /\ pc' = "loop"
  /\ UNCHANGED <<users, area, errno, name, entry, order, shown, failed>>

(* Mutant: errno is not set to 0 before the call. *)
CleanErrnoStale == errno

CleanErrno == "0"

(* getpwent gives the next user. *)
Getpwent ==
  /\ pc = "loop" /\ cursor < Len(users)
  /\ cursor' = cursor + 1
  /\ area' = users[cursor + 1]
  /\ entry' = "area"
  /\ errno' = CleanErrno
  /\ pc' = IF area' = name THEN "endpwent" ELSE "loop"
  /\ UNCHANGED <<users, name, order, shown, failed>>

(* Mutant: only an entry of the name ends the loop. *)
GetpwentEndAgain ==
  /\ pc = "loop" /\ cursor = Len(users)
  /\ entry' = "NULL"
  /\ errno' = CleanErrno
  /\ UNCHANGED <<users, cursor, area, name, order, pc, shown, failed>>

(* The end of the file: errno stays as it was. *)
GetpwentEnd ==
  /\ pc = "loop" /\ cursor = Len(users)
  /\ entry' = "NULL"
  /\ errno' = CleanErrno
  /\ pc' = "endpwent"
  /\ UNCHANGED <<users, cursor, area, name, order, shown, failed>>

GetpwentFails ==
  /\ pc = "loop"
  /\ entry' = "NULL"
  /\ errno' = "EIO"
  /\ failed' = TRUE
  /\ pc' = "endpwent"
  /\ UNCHANGED <<users, cursor, area, name, order, shown>>

(* Mutant: any failure counts as not found. *)
EndpwentAlways ==
  /\ pc = "endpwent"
  /\ errno' = IF entry = "NULL" THEN "ENOENT" ELSE errno
  /\ pc' = "returned"
  /\ UNCHANGED <<users, cursor, area, name, entry, order, shown, failed>>

(* endpwent, which leaves errno alone in glibc, and what follows it. *)
Endpwent ==
  /\ pc = "endpwent"
  /\ errno' = IF entry = "NULL" /\ errno = "0" THEN "ENOENT" ELSE errno
  /\ pc' = "returned"
  /\ UNCHANGED <<users, cursor, area, name, entry, order, shown, failed>>

-----------------------------------------------------------------------------
(* getpwuid(uid)->pw_name: a null pointer if there is no such user. *)
Getpwuid ==
  /\ pc = "chpt8_q1" /\ order # <<>>
  /\ order' = Tail(order)
  /\ IF Head(order) < Len(users)
     THEN area' = users[Head(order) + 1] /\ UNCHANGED pc
     ELSE pc' = "crashed" /\ UNCHANGED area
  /\ UNCHANGED <<users, cursor, errno, name, entry, shown, failed>>

(* Mutant: each name is kept when it is found. *)
PrintfKept ==
  /\ pc = "chpt8_q1" /\ order = <<>>
  /\ shown' = <<users[1], users[2]>>
  /\ pc' = "printed"
  /\ UNCHANGED <<users, cursor, area, errno, name, entry, order, failed>>

(* Both arguments point to the name in the area. *)
Printf ==
  /\ pc = "chpt8_q1" /\ order = <<>>
  /\ shown' = <<area, area>>
  /\ pc' = "printed"
  /\ UNCHANGED <<users, cursor, area, errno, name, entry, order, failed>>

Step ==
  \/ BadName \/ Setpwent \/ Getpwent \/ GetpwentEnd \/ Endpwent
  \/ Getpwuid \/ Printf

Next == Step \/ GetpwentFails

(* The program has one thread, which goes on running; no call has to fail. *)
Spec == Init /\ [][Next]_vars /\ WF_vars(Step)

-----------------------------------------------------------------------------
TypeOK ==
  /\ cursor \in 0 .. Len(users)
  /\ area \in Names \cup {"nothing"}
  /\ errno \in ErrorNumbers
  /\ entry \in {"NULL", "area"}
  /\ shown \in Seq(Names) /\ failed \in BOOLEAN
  /\ pc \in {"__getpwnam", "loop", "endpwent", "returned",
             "chpt8_q1", "printed", "crashed"}

(***************************************************************************)
(* "Return NULL and set errno to ENOENT when no user with name is found"   *)
(* (q2.c): whatever errno was and however far the file had been read, a    *)
(* pointer is answered only to an entry with the name, ENOENT if and only  *)
(* if the search came to its end without one, and an error of the library  *)
(* reaches the caller as it is.                                            *)
(***************************************************************************)
FoundOrENOENT ==
  pc = "returned" =>
    IF entry = "area" THEN area = name /\ users[cursor] = name
    ELSE /\ errno = IF failed THEN "EIO" ELSE "ENOENT"
         /\ ~failed => \A k \in DOMAIN users : users[k] # name

(***************************************************************************)
(* q1.md: the code "displays the same username twice", the name of the     *)
(* user that was looked up last, which is either of the two.               *)
(***************************************************************************)
SameNameTwice ==
  pc = "printed" => \E k \in {1, 2} : shown = <<users[k], users[k]>>

(* Where the call or the exercise ends. *)
Ended == pc \in {"returned", "printed", "crashed"}

=============================================================================
