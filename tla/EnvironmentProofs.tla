-------------------------- MODULE EnvironmentProofs --------------------------
(***************************************************************************)
(* What __setenv and __unsetenv do to the environment, for any names, any  *)
(* values and any list that the process may have inherited.                *)
(***************************************************************************)
EXTENDS Environment, SequenceTheorems, FiniteSetTheorems, TLAPS

(* The entry of a name and a value. *)
Entry(n, v) == [name |-> n, value |-> v]

(* The list has the entry of n and v; it has one for n. *)
Has(n, v) == \E i \in DOMAIN environ : environ[i] = Entry(n, v)
HasName(n) == \E i \in DOMAIN environ : environ[i].name = n

-----------------------------------------------------------------------------
(* An entry is its name and its value. *)
LEMMA EntryFacts ==
  /\ \A e \in Entries : /\ e = Entry(e.name, e.value)
                        /\ e.name \in Names \cup {NoName} /\ e.value \in Values
  /\ \A n \in Names, v \in Values : Entry(n, v) \in Entries
  /\ \A n, v : Entry(n, v).name = n /\ Entry(n, v).value = v
BY DEF Entries, Entry

(* The list is a sequence of entries. *)
LEMMA ListFacts ==
  TypeOK => /\ environ \in Seq(Entries)
            /\ Len(environ) \in Nat
            /\ DOMAIN environ = 1 .. Len(environ)
            /\ \A i \in DOMAIN environ : environ[i] \in Entries
<1> SUFFICES ASSUME TypeOK
             PROVE  /\ environ \in Seq(Entries)
                    /\ Len(environ) \in Nat
                    /\ DOMAIN environ = 1 .. Len(environ)
                    /\ \A i \in DOMAIN environ : environ[i] \in Entries
  OBVIOUS
<1>1. environ \in Seq(Entries)
  BY DEF TypeOK
<1>2. Len(environ) \in Nat /\ environ \in [1 .. Len(environ) -> Entries]
  BY <1>1, LenProperties
<1> QED
  BY <1>1, <1>2

(* The same after a step. *)
LEMMA ListFactsNext ==
  TypeOK' => (/\ environ \in Seq(Entries)
              /\ Len(environ) \in Nat
              /\ DOMAIN environ = 1 .. Len(environ)
              /\ \A i \in DOMAIN environ : environ[i] \in Entries)'
BY ListFacts, PTL

(* The first entry of a name is one. *)
LEMMA FirstFacts ==
  ASSUME TypeOK, NEW n, NEW i \in First(n)
  PROVE  /\ i \in DOMAIN environ /\ environ[i].name = n
         /\ First(n) = {i}
<1>1. /\ Len(environ) \in Nat /\ DOMAIN environ = 1 .. Len(environ)
  BY ListFacts
<1>2. ASSUME NEW j \in First(n)
      PROVE  j = i
  <2>1. /\ i \in Nat /\ j \in Nat /\ i >= 1 /\ j >= 1
        /\ environ[i].name = n /\ environ[j].name = n
        /\ \A k \in 1 .. i - 1 : environ[k].name # n
        /\ \A k \in 1 .. j - 1 : environ[k].name # n
    BY <1>1, <1>2 DEF First
  <2>2. ~(i < j) /\ ~(j < i)
    BY <2>1
  <2> QED
    BY <2>1, <2>2
<1> QED
  BY <1>2 DEF First

(* A list without repeated names is seen as the set of its entries. *)
LEMMA SeenFacts ==
  ASSUME TypeOK, OncePerName, NEW n \in Names
  PROVE  /\ Missing(n) <=> ~HasName(n)
         /\ getenv(n) \in Values \cup {Unset}
         /\ getenv(n) = Unset <=> ~HasName(n)
         /\ \A v \in Values : getenv(n) = v <=> Has(n, v)
<1>1. CASE HasName(n)
  <2>1. PICK i \in DOMAIN environ : environ[i].name = n
    BY <1>1 DEF HasName
  <2>2. /\ Len(environ) \in Nat /\ DOMAIN environ = 1 .. Len(environ)
        /\ environ[i] \in Entries
    BY <2>1, ListFacts
  <2>3. \A j \in 1 .. i - 1 : j \in DOMAIN environ /\ j # i
    BY <2>1, <2>2
  <2>4. \A j \in DOMAIN environ : environ[j].name = n => j = i
    BY <2>1 DEF OncePerName
  <2>5. i \in First(n)
    BY <2>1, <2>3, <2>4 DEF First
  <2>6. First(n) = {i}
    BY <2>5, FirstFacts
  <2>7. getenv(n) = environ[i].value /\ ~Missing(n)
    BY <2>6 DEF getenv, Missing
  <2>8. environ[i] = Entry(n, environ[i].value) /\ environ[i].value \in Values
    BY <2>1, <2>2, EntryFacts
  <2>9. \A v \in Values : Has(n, v) <=> environ[i] = Entry(n, v)
    BY <2>1, <2>4, EntryFacts DEF Has
  <2> QED
    BY <1>1, <2>7, <2>8, <2>9, EntryFacts, UnsetAssumption
<1>2. CASE ~HasName(n)
  <2>1. First(n) = {}
    BY <1>2 DEF First, HasName
  <2>2. \A v : ~Has(n, v)
    BY <1>2, EntryFacts DEF Has, HasName
  <2> QED
    BY <1>2, <2>1, <2>2, UnsetAssumption DEF getenv, Missing
<1> QED
  BY <1>1, <1>2


(* The same after a step. *)
LEMMA SeenFactsNext ==
  TypeOK' /\ OncePerName' =>
    (\A n \in Names : /\ Missing(n) <=> ~HasName(n)
                      /\ getenv(n) \in Values \cup {Unset}
                      /\ getenv(n) = Unset <=> ~HasName(n)
                      /\ \A v \in Values : getenv(n) = v <=> Has(n, v))'
<1>1. TypeOK /\ OncePerName =>
        \A n \in Names : /\ Missing(n) <=> ~HasName(n)
                         /\ getenv(n) \in Values \cup {Unset}
                         /\ getenv(n) = Unset <=> ~HasName(n)
                         /\ \A v \in Values : getenv(n) = v <=> Has(n, v)
  BY SeenFacts
<1> QED
  BY <1>1, PTL

-----------------------------------------------------------------------------
(* What a putenv does to the list, and what it leaves. *)
LEMMA PutenvFacts ==
  ASSUME TypeOK, NEW n \in Names, NEW v \in Values, putenv(n, v)
  PROVE  \/ /\ Missing(n)
            /\ environ' = Append(environ, Entry(n, v))
            /\ environ' \in Seq(Entries)
            /\ Len(environ') = Len(environ) + 1
            /\ DOMAIN environ' = 1 .. Len(environ) + 1
            /\ environ'[Len(environ) + 1] = Entry(n, v)
            /\ \A j \in DOMAIN environ :
                 j \in DOMAIN environ' /\ environ'[j] = environ[j]
         \/ /\ ~Missing(n)
            /\ environ' \in Seq(Entries)
            /\ Len(environ') = Len(environ)
            /\ DOMAIN environ' = DOMAIN environ
            /\ \E i \in DOMAIN environ :
                 /\ environ[i].name = n /\ environ'[i] = Entry(n, v)
                 /\ \A j \in DOMAIN environ : j # i => environ'[j] = environ[j]
<1>1. /\ environ \in Seq(Entries) /\ Len(environ) \in Nat
      /\ DOMAIN environ = 1 .. Len(environ)
      /\ \A i \in DOMAIN environ : environ[i] \in Entries
      /\ Entry(n, v) \in Entries
  BY ListFacts, EntryFacts
<1>2. CASE Missing(n)
  <2>1. environ' = Append(environ, Entry(n, v))
    BY <1>2 DEF putenv, Entry
  <2> QED
    BY <1>1, <1>2, <2>1, AppendProperties
<1>3. CASE ~Missing(n)
  <2>1. PICK i \in First(n) : environ' = [environ EXCEPT ![i].value = v]
    BY <1>3 DEF putenv
  <2>2. i \in DOMAIN environ /\ environ[i].name = n
    BY <2>1, FirstFacts
  <2>3. [environ[i] EXCEPT !.value = v] = Entry(n, v)
    BY <1>1, <2>2, EntryFacts DEF Entry, Entries
  <2>4. environ' = [environ EXCEPT ![i] = Entry(n, v)]
    BY <2>1, <2>3
  <2>5. environ' \in Seq(Entries) /\ Len(environ') = Len(environ)
    BY <1>1, <2>2, <2>4, ExceptSeq
  <2> QED
    BY <1>1, <1>3, <2>2, <2>4, <2>5
<1> QED
  BY <1>2, <1>3

(* What the deletion of an entry does to the list. *)
LEMMA WithoutFacts ==
  ASSUME TypeOK, NEW i \in DOMAIN environ, environ' = Without(i)
  PROVE  /\ environ' \in Seq(Entries)
         /\ Len(environ') = Len(environ) - 1
         /\ DOMAIN environ' = 1 .. Len(environ) - 1
         /\ \A j \in DOMAIN environ' :
              environ'[j] = environ[IF j = i THEN Len(environ) ELSE j]
<1>1. PICK n : n = Len(environ)
  OBVIOUS
<1>2. /\ n \in Nat /\ DOMAIN environ = 1 .. n /\ i \in 1 .. n
      /\ \A j \in 1 .. n : environ[j] \in Entries
  BY <1>1, ListFacts
<1>3. n - 1 \in Nat
  BY <1>2
<1>4. environ' = [j \in 1 .. n - 1 |-> environ[IF j = i THEN n ELSE j]]
  BY <1>1 DEF Without
<1>5. environ' \in [1 .. n - 1 -> Entries]
  BY <1>2, <1>4
<1>6. environ' \in Seq(Entries)
  BY <1>3, <1>5, SeqDef
<1>7. Len(environ') = n - 1
  <2>1. Len(environ') \in Nat /\ 1 .. Len(environ') = 1 .. n - 1
    BY <1>5, <1>6, LenProperties, Zenon
  <2>2. PICK m \in Nat : m = Len(environ')
    BY <2>1
  <2> QED
    BY <1>3, <2>1, <2>2, FS_Interval
<1> QED
  BY <1>1, <1>4, <1>6, <1>7

-----------------------------------------------------------------------------
(* What each call does: to the list, and to the history. *)
LEMMA CallFacts ==
  ASSUME TypeOK, Next
  PROVE  \/ /\ environ' = environ /\ result' \in {"EINVAL", "crashed"}
            /\ called'.op \in {"setenv", "unsetenv"}
         \/ /\ environ' = environ /\ result' \in {"0", "ENOMEM"}
            /\ called'.op = "setenv"
            /\ result' = "0" => ~Missing(called'.name)
         \/ /\ environ' = environ /\ result' = "0"
            /\ called'.op = "unsetenv" /\ Missing(called'.name)
         \/ \E n \in Names, v \in Values :
              /\ called'.op = "setenv" /\ called'.name = n
              /\ result' = "0" /\ putenv(n, v)
         \/ \E n \in Names : \E i \in First(n) :
              /\ called'.op = "unsetenv" /\ called'.name = n
              /\ result' = "0" /\ environ' = Without(i)
<1>1. CASE BadName
  BY <1>1 DEF BadName, Calls, Nothing
<1>2. ASSUME NEW n \in Names, NEW value \in Values \cup {Unset},
             NEW overwrite \in BOOLEAN, Setenv(n, value, overwrite)
      PROVE  \/ /\ environ' = environ /\ result' \in {"0", "ENOMEM"}
                /\ called'.op = "setenv"
                /\ result' = "0" => ~Missing(called'.name)
             \/ \E v \in Values :
                  /\ called'.op = "setenv" /\ called'.name = n
                  /\ result' = "0" /\ putenv(n, v)
  <2>1. called'.op = "setenv" /\ called'.name = n
    BY <1>2 DEF Setenv, Calls
  <2>2. Contents(value) \in Values
    BY EmptyAssumption DEF Contents
  <2>3. \/ ~Missing(n) /\ Nothing("0")
        \/ putenv(n, Contents(value)) /\ result' = "0"
        \/ Nothing("ENOMEM")
    BY <1>2 DEF Setenv
  <2> QED
    BY <2>1, <2>2, <2>3 DEF Nothing
<1>3. ASSUME NEW n \in Names, Unsetenv(n)
      PROVE  \/ /\ environ' = environ /\ result' = "0"
                /\ called'.op = "unsetenv" /\ Missing(called'.name)
             \/ \E i \in First(n) :
                  /\ called'.op = "unsetenv" /\ called'.name = n
                  /\ result' = "0" /\ environ' = Without(i)
  BY <1>3 DEF Unsetenv, Calls
<1>4. ASSUME NEW n \in Names, UnsetenvCrash(n)
      PROVE  /\ environ' = environ /\ result' = "crashed"
             /\ called'.op = "unsetenv"
  BY <1>4 DEF UnsetenvCrash, Calls, Nothing
<1> QED
  BY <1>1, <1>2, <1>3, <1>4 DEF Next

(* Whatever is inherited is a list of entries. *)
LEMMA InitInv == Init => TypeOK
<1> SUFFICES ASSUME Init
             PROVE  TypeOK
  OBVIOUS
<1>1. environ \in Seq(Entries)
  <2>1. PICK k \in 0 .. MaxInherited : environ \in [1 .. k -> Entries]
    BY DEF Init
  <2>2. k \in Nat
    BY MaxInheritedAssumption
  <2> QED
    BY <2>1, <2>2, SeqDef
<1> QED
  BY <1>1 DEF Init, TypeOK, NoCall

(* Every call leaves a list of entries. *)
LEMMA NextInv == TypeOK /\ [Next]_vars => TypeOK'
<1> SUFFICES ASSUME TypeOK, [Next]_vars
             PROVE  TypeOK'
  OBVIOUS
<1>1. CASE UNCHANGED vars
  BY <1>1 DEF vars, TypeOK
<1>2. CASE Next
  <2>1. /\ called'.op \in {"setenv", "unsetenv"}
        /\ result' \in {"0", "EINVAL", "ENOMEM", "crashed"}
    BY <1>2, CallFacts
  <2>2. environ' \in Seq(Entries)
    <3>1. CASE environ' = environ
      BY <3>1 DEF TypeOK
    <3>2. ASSUME NEW n \in Names, NEW v \in Values, putenv(n, v)
          PROVE  environ' \in Seq(Entries)
      BY <3>2, PutenvFacts
    <3>3. ASSUME NEW n \in Names, NEW i \in First(n), environ' = Without(i)
          PROVE  environ' \in Seq(Entries)
      BY <3>3, FirstFacts, WithoutFacts
    <3> QED
      BY <1>2, <3>1, <3>2, <3>3, CallFacts
  <2> QED
    BY <2>1, <2>2 DEF TypeOK
<1> QED
  BY <1>1, <1>2

(***************************************************************************)
(* For any names and values and any inherited list: environ is always a    *)
(* list of entries, with no gap.                                           *)
(***************************************************************************)
THEOREM TypeCorrect == Spec => []TypeOK
<1> QED
  BY InitInv, NextInv, PTL DEF Spec

-----------------------------------------------------------------------------
(* The entries equal to e: Count counts them. *)
Where(e) == {i \in DOMAIN environ : environ[i] = e}

(* A list has an entry a finite number of times. *)
LEMMA CountFacts ==
  TypeOK => \A e : IsFiniteSet(Where(e)) /\ Count(e) = Cardinality(Where(e))
<1> SUFFICES ASSUME TypeOK, NEW e
             PROVE  IsFiniteSet(Where(e)) /\ Count(e) = Cardinality(Where(e))
  OBVIOUS
<1>1. Len(environ) \in Nat /\ DOMAIN environ = 1 .. Len(environ)
  BY ListFacts
<1>2. IsFiniteSet(1 .. Len(environ))
  BY <1>1, FS_Interval
<1>3. Where(e) \subseteq 1 .. Len(environ)
  BY <1>1 DEF Where
<1> QED
  BY <1>2, <1>3, FS_Subset DEF Count, Where

(* A putenv changes no entry of another name. *)
LEMMA PutenvKeeps ==
  ASSUME TypeOK, NEW n \in Names, NEW v \in Values, putenv(n, v),
         NEW e \in Entries, e.name # n
  PROVE  Count(e)' = Count(e)
<1>1. Entry(n, v) # e
  BY EntryFacts
<1>2. Where(e)' = Where(e)
  <2>1. CASE Missing(n)
    <3>1. /\ Len(environ) \in Nat /\ DOMAIN environ = 1 .. Len(environ)
          /\ DOMAIN environ' = 1 .. Len(environ) + 1
          /\ environ'[Len(environ) + 1] = Entry(n, v)
          /\ \A j \in DOMAIN environ :
               j \in DOMAIN environ' /\ environ'[j] = environ[j]
      BY <2>1, ListFacts, PutenvFacts
    <3>2. \A j \in DOMAIN environ' :
            j \in DOMAIN environ \/ j = Len(environ) + 1
      BY <3>1
    <3> QED
      BY <1>1, <3>1, <3>2 DEF Where
  <2>2. CASE ~Missing(n)
    <3>1. PICK i \in DOMAIN environ :
            /\ DOMAIN environ' = DOMAIN environ
            /\ environ[i].name = n /\ environ'[i] = Entry(n, v)
            /\ \A j \in DOMAIN environ : j # i => environ'[j] = environ[j]
      BY <2>2, PutenvFacts
    <3>2. environ[i] # e
      BY <3>1
    <3> QED
      BY <1>1, <3>1, <3>2 DEF Where
  <2> QED
    BY <2>1, <2>2
<1> QED
  BY <1>2 DEF Count, Where

(* Moving the last entry into the gap keeps the entries of other names. *)
LEMMA WithoutKeeps ==
  ASSUME TypeOK, NEW n \in Names, NEW i \in First(n), environ' = Without(i),
         NEW e \in Entries, e.name # n
  PROVE  Count(e)' = Count(e)
<1>1. PICK last : last = Len(environ)
  OBVIOUS
<1>2. /\ i \in DOMAIN environ /\ environ[i] # e
      /\ last \in Nat /\ DOMAIN environ = 1 .. last
  BY <1>1, FirstFacts, ListFacts
<1>3. /\ DOMAIN environ' = 1 .. last - 1
      /\ \A j \in DOMAIN environ' :
           environ'[j] = environ[IF j = i THEN last ELSE j]
  BY <1>1, <1>2, WithoutFacts
<1>4. i \in 1 .. last /\ i \notin Where(e)
  BY <1>2 DEF Where
<1>5. CASE last \notin Where(e)
  <2>1. Where(e)' = Where(e)
    <3>1. \A j \in DOMAIN environ' : environ'[j] = e <=> j \in Where(e)
      BY <1>2, <1>3, <1>4, <1>5 DEF Where
    <3>2. \A j \in Where(e) : j \in DOMAIN environ'
      BY <1>2, <1>3, <1>5 DEF Where
    <3> QED
      BY <3>1, <3>2 DEF Where
  <2> QED
    BY <2>1 DEF Count, Where
<1>6. CASE last \in Where(e)
  <2>1. PICK S : S = Where(e) \ {last}
    OBVIOUS
  <2>2. i # last /\ i \in DOMAIN environ' /\ environ'[i] = e
    BY <1>2, <1>3, <1>4, <1>6 DEF Where
  <2>3. Where(e)' = S \cup {i}
    <3>1. \A j \in DOMAIN environ' : j # i => (environ'[j] = e <=> j \in S)
      BY <1>2, <1>3, <2>1 DEF Where
    <3>2. \A j \in S : j \in DOMAIN environ' /\ j # i
      BY <1>2, <1>3, <1>4, <2>1 DEF Where
    <3> QED
      BY <2>2, <3>1, <3>2 DEF Where
  <2>4. IsFiniteSet(Where(e)) /\ Count(e) = Cardinality(Where(e))
    BY CountFacts
  <2>5. IsFiniteSet(S) /\ Cardinality(S) = Cardinality(Where(e)) - 1
    BY <1>6, <2>1, <2>4, FS_RemoveElement
  <2>6. i \notin S
    BY <1>4, <2>1
  <2>7. Cardinality(S \cup {i}) = Cardinality(S) + 1
    BY <2>5, <2>6, FS_AddElement
  <2>8. Cardinality(Where(e)) \in Nat
    BY <2>4, FS_CardinalityType
  <2>9. Count(e)' = Cardinality(S \cup {i})
    BY <2>3 DEF Count, Where
  <2> QED
    BY <2>4, <2>5, <2>7, <2>8, <2>9
<1> QED
  BY <1>5, <1>6

(***************************************************************************)
(* Also in a list with malformed or repeated names: __setenv and           *)
(* __unsetenv neither lose nor repeat an entry of another name, although   *)
(* the last entry moves into the gap, and the list grows or shrinks by one *)
(* entry at most.                                                          *)
(***************************************************************************)
THEOREM AlwaysEntriesKept == Spec => EntriesKept
<1> DEFINE Kept ==
      /\ \A e \in Entries : e.name # called'.name => Count(e)' = Count(e)
      /\ Len(environ') - Len(environ) =
           IF ~Missing(called'.name) /\ called'.op = "unsetenv" /\ result' = "0"
           THEN -1
           ELSE IF Missing(called'.name) /\ called'.op = "setenv" /\ result' = "0"
           THEN 1 ELSE 0
<1>1. TypeOK /\ [Next]_vars => [Kept]_vars
  <2> SUFFICES ASSUME TypeOK, Next
               PROVE  Kept
    OBVIOUS
  <2>1. Len(environ) \in Nat
    BY ListFacts
  <2>2. ASSUME environ' = environ,
               ~(/\ ~Missing(called'.name) /\ called'.op = "unsetenv"
                 /\ result' = "0"),
               ~(/\ Missing(called'.name) /\ called'.op = "setenv"
                 /\ result' = "0")
        PROVE  Kept
    <3>1. \A e : Count(e)' = Count(e)
      BY <2>2 DEF Count
    <3>2. Len(environ') - Len(environ) = 0
      BY <2>1, <2>2
    <3> QED
      BY <2>2, <3>1, <3>2
  <2>3. ASSUME NEW n \in Names, NEW v \in Values, putenv(n, v),
               called'.op = "setenv", called'.name = n, result' = "0"
        PROVE  Kept
    <3>1. Len(environ') = IF Missing(n) THEN Len(environ) + 1 ELSE Len(environ)
      BY <2>3, PutenvFacts
    <3>2. \A e \in Entries : e.name # called'.name => Count(e)' = Count(e)
      BY <2>3, PutenvKeeps
    <3> QED
      BY <2>1, <2>3, <3>1, <3>2
  <2>4. ASSUME NEW n \in Names, NEW i \in First(n), environ' = Without(i),
               called'.op = "unsetenv", called'.name = n, result' = "0"
        PROVE  Kept
    <3>1. Len(environ') = Len(environ) - 1 /\ ~Missing(n)
      BY <2>4, FirstFacts, WithoutFacts DEF Missing
    <3>2. \A e \in Entries : e.name # called'.name => Count(e)' = Count(e)
      BY <2>4, WithoutKeeps
    <3> QED
      BY <2>1, <2>4, <3>1, <3>2
  <2> QED
    BY <2>2, <2>3, <2>4, CallFacts
<1> QED
  BY <1>1, TypeCorrect, PTL DEF Spec, EntriesKept

-----------------------------------------------------------------------------
(* A name that is in the list is there with a value. *)
LEMMA HasNameFacts ==
  TypeOK => \A n \in Names : HasName(n) <=> \E v \in Values : Has(n, v)
<1> SUFFICES ASSUME TypeOK, NEW n \in Names
             PROVE  HasName(n) <=> \E v \in Values : Has(n, v)
  OBVIOUS
<1>1. ASSUME NEW i \in DOMAIN environ, environ[i].name = n
      PROVE  \E v \in Values : Has(n, v)
  <2>1. environ[i].value \in Values /\ environ[i] = Entry(n, environ[i].value)
    BY <1>1, ListFacts, EntryFacts
  <2> QED
    BY <2>1 DEF Has
<1>2. ASSUME NEW v \in Values, Has(n, v)
      PROVE  HasName(n)
  BY <1>2, EntryFacts DEF Has, HasName
<1> QED
  BY <1>1, <1>2 DEF HasName

(* The same after a step. *)
LEMMA HasNameFactsNext ==
  TypeOK' => (\A n \in Names : HasName(n) <=> \E v \in Values : Has(n, v))'
BY HasNameFacts, PTL

(* What is seen after a step that gives n the value v and leaves the rest. *)
LEMMA SeenAfter ==
  ASSUME TypeOK, OncePerName, TypeOK', OncePerName',
         NEW n \in Names, NEW v \in Values \cup {Unset},
         \A m \in Names, u \in Values : m # n => (Has(m, u)' <=> Has(m, u)),
         v = Unset => ~HasName(n)',
         v # Unset => Has(n, v)'
  PROVE  seen' = [seen EXCEPT ![n] = v]
<1>1. getenv(n)' = v
  BY SeenFactsNext
<1>2. ASSUME NEW m \in Names, m # n
      PROVE  getenv(m)' = getenv(m)
  <2>1. HasName(m)' <=> HasName(m)
    BY <1>2, HasNameFacts, HasNameFactsNext
  <2>2. \A u \in Values : Has(m, u)' <=> Has(m, u)
    BY <1>2
  <2>3. CASE HasName(m)
    <3>1. PICK u \in Values : getenv(m) = u
      BY <2>3, SeenFacts
    <3>2. Has(m, u)'
      BY <2>2, <3>1, SeenFacts
    <3> QED
      BY <3>1, <3>2, SeenFactsNext
  <2>4. CASE ~HasName(m)
    BY <2>1, <2>4, SeenFacts, SeenFactsNext
  <2> QED
    BY <2>3, <2>4
<1> QED
  BY <1>1, <1>2 DEF seen

(* A putenv gives its name the value, and repeats no name. *)
LEMMA PutenvSeen ==
  ASSUME TypeOK, TypeOK', OncePerName, NEW n \in Names, NEW v \in Values,
         putenv(n, v)
  PROVE  OncePerName' /\ seen' = [seen EXCEPT ![n] = v]
<1>1. PICK last : last = Len(environ)
  OBVIOUS
<1>2. last \in Nat /\ DOMAIN environ = 1 .. last
  BY <1>1, ListFacts
<1>3. n # NoName
  BY NoNameAssumption
<1>4. PICK i \in DOMAIN environ' :
        /\ environ'[i] = Entry(n, v)
        /\ i \in DOMAIN environ => environ[i].name = n
        /\ \A j \in DOMAIN environ' :
             j # i => j \in DOMAIN environ /\ environ'[j] = environ[j]
        /\ \A j \in DOMAIN environ :
             j # i => j \in DOMAIN environ' /\ environ'[j] = environ[j]
        /\ \A j \in DOMAIN environ : environ[j].name = n => j = i
  <2>1. CASE Missing(n)
    <3>1. /\ DOMAIN environ' = 1 .. last + 1
          /\ environ'[last + 1] = Entry(n, v)
          /\ \A j \in DOMAIN environ :
               j \in DOMAIN environ' /\ environ'[j] = environ[j]
      BY <1>1, <2>1, PutenvFacts
    <3>2. last + 1 \in DOMAIN environ' /\ last + 1 \notin DOMAIN environ
      BY <1>2, <3>1
    <3>3. \A j \in DOMAIN environ' : j # last + 1 => j \in DOMAIN environ
      BY <1>2, <3>1
    <3>4. \A j \in DOMAIN environ : environ[j].name # n
      BY <2>1, SeenFacts DEF HasName
    <3> QED
      BY <3>1, <3>2, <3>3, <3>4
  <2>2. CASE ~Missing(n)
    <3>1. PICK i \in DOMAIN environ :
            /\ DOMAIN environ' = DOMAIN environ
            /\ environ[i].name = n /\ environ'[i] = Entry(n, v)
            /\ \A j \in DOMAIN environ : j # i => environ'[j] = environ[j]
      BY <2>2, PutenvFacts
    <3>2. \A j \in DOMAIN environ : environ[j].name = n => j = i
      BY <3>1 DEF OncePerName
    <3> QED
      BY <3>1, <3>2
  <2> QED
    BY <2>1, <2>2
<1>5. OncePerName'
  <2>1. \A j \in DOMAIN environ' : environ'[j].name = n => j = i
    BY <1>4
  <2>2. \A j \in DOMAIN environ' : environ'[j].name # NoName
    BY <1>3, <1>4, EntryFacts DEF OncePerName
  <2>3. \A j, k \in DOMAIN environ' :
          environ'[j].name = environ'[k].name => j = k
    <3> SUFFICES ASSUME NEW j \in DOMAIN environ', NEW k \in DOMAIN environ',
                        environ'[j].name = environ'[k].name
                 PROVE  j = k
      OBVIOUS
    <3>1. environ'[i].name = n
      BY <1>4, EntryFacts
    <3>2. CASE j = i \/ k = i
      BY <2>1, <3>1, <3>2
    <3>3. CASE j # i /\ k # i
      BY <1>4, <3>3 DEF OncePerName
    <3> QED
      BY <3>2, <3>3
  <2> QED
    BY <2>2, <2>3 DEF OncePerName
<1>6. \A m \in Names, u \in Values : m # n => (Has(m, u)' <=> Has(m, u))
  BY <1>4, EntryFacts DEF Has
<1>7. Has(n, v)'
  BY <1>4 DEF Has
<1> QED
  BY <1>5, <1>6, <1>7, SeenAfter, UnsetAssumption

(* The deletion of its entry leaves a name without value. *)
LEMMA WithoutSeen ==
  ASSUME TypeOK, TypeOK', OncePerName, NEW n \in Names, NEW i \in First(n),
         environ' = Without(i)
  PROVE  OncePerName' /\ seen' = [seen EXCEPT ![n] = Unset]
<1>1. PICK last : last = Len(environ)
  OBVIOUS
<1>2. /\ i \in DOMAIN environ /\ environ[i].name = n
      /\ last \in Nat /\ DOMAIN environ = 1 .. last
      /\ \A j \in DOMAIN environ : environ[j].name = n => j = i
  BY <1>1, FirstFacts, ListFacts DEF OncePerName
<1>3. PICK from : from = [j \in 1 .. last - 1 |-> IF j = i THEN last ELSE j]
  OBVIOUS
<1>4. /\ DOMAIN environ' = 1 .. last - 1
      /\ \A j \in 1 .. last - 1 : environ'[j] = environ[from[j]]
  <2>1. /\ DOMAIN environ' = 1 .. last - 1
        /\ \A j \in DOMAIN environ' :
             environ'[j] = environ[IF j = i THEN last ELSE j]
    BY <1>1, <1>2, WithoutFacts
  <2> QED
    BY <1>3, <2>1
<1>5. /\ \A j \in 1 .. last - 1 : from[j] \in 1 .. last /\ from[j] # i
      /\ \A j, k \in 1 .. last - 1 : from[j] = from[k] => j = k
      /\ \A k \in 1 .. last : k # i => \E j \in 1 .. last - 1 : from[j] = k
  <2>1. \A j \in 1 .. last - 1 : from[j] = IF j = i THEN last ELSE j
    BY <1>3
  <2>2. ASSUME NEW k \in 1 .. last, k # i
        PROVE  \E j \in 1 .. last - 1 : from[j] = k
    <3>1. CASE k = last
      <4>1. i \in 1 .. last - 1 /\ from[i] = k
        BY <1>2, <2>1, <2>2, <3>1
      <4> QED
        BY <4>1
    <3>2. CASE k # last
      <4>1. k \in 1 .. last - 1 /\ from[k] = k
        BY <1>2, <2>1, <2>2, <3>2
      <4> QED
        BY <4>1
    <3> QED
      BY <3>1, <3>2
  <2>3. \A j \in 1 .. last - 1 : from[j] \in 1 .. last /\ from[j] # i
    BY <1>2, <2>1
  <2>4. \A j, k \in 1 .. last - 1 : from[j] = from[k] => j = k
    BY <1>2, <2>1
  <2> QED
    BY <2>2, <2>3, <2>4
<1>6. OncePerName'
  BY <1>2, <1>4, <1>5, SMTT(20) DEF OncePerName
<1>7. ~HasName(n)'
  BY <1>2, <1>4, <1>5 DEF HasName
<1>8. ASSUME NEW m \in Names, NEW u \in Values, m # n
      PROVE  Has(m, u)' <=> Has(m, u)
  <2>1. ASSUME NEW k \in DOMAIN environ, environ[k] = Entry(m, u)
        PROVE  Has(m, u)'
    <3>1. k # i
      BY <1>2, <1>8, <2>1, EntryFacts
    <3>2. PICK j \in 1 .. last - 1 : from[j] = k
      BY <1>2, <1>5, <3>1
    <3> QED
      BY <1>4, <2>1, <3>2 DEF Has
  <2>2. ASSUME NEW j \in DOMAIN environ', environ'[j] = Entry(m, u)
        PROVE  Has(m, u)
    BY <1>2, <1>4, <1>5, <2>2 DEF Has
  <2> QED
    BY <2>1, <2>2 DEF Has
<1> QED
  BY <1>6, <1>7, <1>8, SeenAfter, UnsetAssumption


-----------------------------------------------------------------------------
(* In a list without malformed or repeated names, a call keeps the contract. *)
LEMMA NextImplements ==
  ASSUME TypeOK, TypeOK', OncePerName, Next
  PROVE  Contract!Next /\ OncePerName'
<1>1. environ' = environ => OncePerName' /\ seen' = seen
  BY DEF OncePerName, seen, getenv, Missing, First
<1>2. \A n \in Names : /\ seen[n] = getenv(n)
                       /\ seen[n] = Unset <=> Missing(n)
                       /\ getenv(n) \in Values \cup {Unset}
  BY SeenFacts DEF seen
<1>3. CASE BadName
  <2>1. Contract!BadName
    BY <1>1, <1>3 DEF BadName, Contract!BadName, Calls, Nothing
  <2> QED
    BY <1>1, <1>3, <2>1 DEF Contract!Next, BadName, Nothing
<1>4. ASSUME NEW n \in Names, NEW value \in Values \cup {Unset},
             NEW overwrite \in BOOLEAN, Setenv(n, value, overwrite)
      PROVE  Contract!Next /\ OncePerName'
  <2>1. called' = [op |-> "setenv", name |-> n, value |-> value,
                   overwrite |-> overwrite]
    BY <1>4 DEF Setenv, Calls
  <2>2. /\ Contents(value) \in Values
        /\ Contents(value) = IF value = Unset THEN Empty ELSE value
    BY EmptyAssumption DEF Contents
  <2>3. CASE ~overwrite /\ ~Missing(n) /\ Nothing("0")
    <3>1. Contract!Setenv(n, value, overwrite)
      BY <1>1, <1>2, <2>1, <2>3 DEF Contract!Setenv, Nothing
    <3> QED
      BY <1>1, <2>3, <3>1 DEF Contract!Next, Nothing
  <2>4. CASE /\ overwrite \/ Missing(n)
             /\ putenv(n, Contents(value)) /\ result' = "0"
    <3>1. OncePerName' /\ seen' = [seen EXCEPT ![n] = Contents(value)]
      BY <2>2, <2>4, PutenvSeen
    <3>2. Contract!Setenv(n, value, overwrite)
      BY <1>2, <2>1, <2>2, <2>4, <3>1 DEF Contract!Setenv
    <3> QED
      BY <3>1, <3>2 DEF Contract!Next
  <2>5. CASE (overwrite \/ Missing(n)) /\ Nothing("ENOMEM")
    <3>1. Contract!Setenv(n, value, overwrite)
      BY <1>1, <1>2, <2>1, <2>5 DEF Contract!Setenv, Nothing
    <3> QED
      BY <1>1, <2>5, <3>1 DEF Contract!Next, Nothing
  <2> QED
    BY <1>4, <2>3, <2>4, <2>5 DEF Setenv
<1>5. ASSUME NEW n \in Names, Unsetenv(n)
      PROVE  Contract!Next /\ OncePerName'
  <2>1. OncePerName' /\ seen' = [seen EXCEPT ![n] = Unset]
    <3>1. CASE Missing(n)
      <4>1. environ' = environ /\ seen[n] = Unset
        BY <1>2, <1>5, <3>1 DEF Unsetenv
      <4> QED
        BY <1>1, <4>1 DEF seen
    <3>2. CASE ~Missing(n)
      <4>1. PICK i \in First(n) : environ' = Without(i)
        BY <1>5, <3>2 DEF Unsetenv
      <4> QED
        BY <4>1, WithoutSeen
    <3> QED
      BY <3>1, <3>2
  <2>2. Contract!Unsetenv(n)
    BY <1>5, <2>1 DEF Unsetenv, Calls, Contract!Unsetenv
  <2> QED
    BY <2>1, <2>2 DEF Contract!Next
<1>6. ASSUME NEW n \in Names
      PROVE  ~UnsetenvCrash(n)
  BY DEF UnsetenvCrash, OncePerName
<1> QED
  BY <1>3, <1>4, <1>5, <1>6 DEF Next

(***************************************************************************)
(* Seen through getenv, __setenv and __unsetenv are what setenv(3) says,   *)
(* for every list without malformed or repeated names, and they keep it    *)
(* so.                                                                     *)
(***************************************************************************)
THEOREM KeepsContract == Spec => ContractSpec
<1>1. Init => (OncePerName => Contract!Init)
  <2> SUFFICES ASSUME Init, OncePerName
               PROVE  Contract!Init
    OBVIOUS
  <2>1. seen \in [Names -> Values \cup {Unset}]
    BY InitInv, SeenFacts DEF seen
  <2> QED
    BY <2>1 DEF Init, NoCall, Contract!Init
<1>2. TypeOK /\ TypeOK' /\ [Next]_vars =>
        [OncePerName => Contract!Next /\ OncePerName']_<<seen, called, result>>
  <2>1. UNCHANGED vars => UNCHANGED <<seen, called, result>>
    BY DEF vars, seen, getenv, Missing, First
  <2> QED
    BY <2>1, NextImplements
<1> QED
  BY <1>1, <1>2, TypeCorrect, PTL DEF Spec, ContractSpec

(***************************************************************************)
(* A process that inherits an environment without malformed or repeated    *)
(* names never crashes in a call of these functions.                       *)
(***************************************************************************)
THEOREM WellFormedNeverCrashes ==
  Spec => (OncePerName => [](OncePerName /\ result # "crashed"))
<1>1. Init => (OncePerName => OncePerName /\ result # "crashed")
  BY DEF Init
<1>2. TypeOK /\ TypeOK' /\ OncePerName /\ result # "crashed" /\ [Next]_vars =>
        (OncePerName /\ result # "crashed")'
  <2> SUFFICES ASSUME TypeOK, TypeOK', OncePerName, result # "crashed",
                      [Next]_vars
               PROVE  OncePerName' /\ result' # "crashed"
    OBVIOUS
  <2>1. CASE UNCHANGED vars
    BY <2>1 DEF vars, OncePerName
  <2>2. CASE Next
    <3>1. Contract!Next => result' # "crashed"
      BY DEF Contract!Next, Contract!BadName, Contract!Setenv, Contract!Unsetenv
    <3> QED
      BY <2>2, <3>1, NextImplements
  <2> QED
    BY <2>1, <2>2
<1> QED
  BY <1>1, <1>2, TypeCorrect, PTL DEF Spec

==============================================================================
