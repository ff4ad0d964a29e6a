----------------------------- MODULE DumpDbProofs -----------------------------
(***************************************************************************)
(* dump_db proved for databases of any size, any commits of others and any *)
(* faults: the types, what is left to the caller, that the tables in the   *)
(* file are of one version, and what a dump that nothing failed in is      *)
(* worth.                                                                  *)
(***************************************************************************)
EXTENDS DumpDb, FiniteSetTheorems, SequenceLemmas, TLAPS

(* A database as SQLite keeps it, of bounded size.                          *)
Legal(d) ==
    /\ d \in Database /\ Consistent(d)
    /\ \A t \in Table : Len(d.rows[t]) <= MaxRows

(* All that the database has been is legal.                                 *)
DbInv ==
    /\ versions \in Seq(Database) /\ versions # <<>>
    /\ \A v \in DOMAIN versions : Legal(versions[v])

(* The parts of a database.                                                 *)
LEMMA Parts ==
    ASSUME NEW d \in Database
    PROVE  /\ d.tables \in Seq(Table) /\ d.triggers \in Seq(Name)
           /\ d.rows \in [Table -> Seq(Row)]
           /\ \A t \in Table : d.rows[t] \in Seq(Row) /\ Len(d.rows[t]) \in Nat
  <1>1. d.tables \in Seq(Table) /\ d.triggers \in Seq(Name) /\ d.rows \in [Table -> Seq(Row)]
    BY DEF Database
  <1> QED
    BY <1>1

(* The last version is one of them.                                         *)
LEMMA LastIsLegal ==
    ASSUME DbInv
    PROVE  /\ Len(versions) \in DOMAIN versions /\ db = versions[Len(versions)]
           /\ Legal(db) /\ db \in Database
  <1>1. Len(versions) \in DOMAIN versions
    BY DEF DbInv
  <1>2. db = versions[Len(versions)]
    BY DEF db, Last
  <1> QED
    BY <1>1, <1>2 DEF DbInv, Legal

(* One version more, the old ones stay.                                     *)
LEMMA OneMore ==
    ASSUME DbInv, NEW d, Legal(d), versions' = Append(versions, d)
    PROVE  /\ DbInv' /\ db' = d
           /\ DOMAIN versions \subseteq DOMAIN versions'
           /\ \A v \in DOMAIN versions : versions'[v] = versions[v]
  <1>1. versions \in Seq(Database) /\ d \in Database
    BY DEF DbInv, Legal
  <1>2. /\ versions' \in Seq(Database) /\ Len(versions') = Len(versions) + 1
        /\ DOMAIN versions = 1..Len(versions) /\ DOMAIN versions' = 1..Len(versions) + 1
        /\ versions'[Len(versions) + 1] = d
        /\ \A v \in 1..Len(versions) : versions'[v] = versions[v]
        /\ Len(versions) \in Nat
    BY <1>1
  <1>3. versions' # <<>>
    BY <1>2
  <1>4. \A v \in DOMAIN versions' : v \in 1..Len(versions) \/ v = Len(versions) + 1
    BY <1>2
  <1>5. \A v \in DOMAIN versions' : Legal(versions'[v])
    BY <1>2, <1>4 DEF DbInv
  <1>6. db' = d
    BY <1>2 DEF db, Last
  <1>7. DOMAIN versions \subseteq DOMAIN versions'
    BY <1>2
  <1> QED
    BY <1>2, <1>3, <1>5, <1>6, <1>7 DEF DbInv
-----------------------------------------------------------------------------
(* What a commit makes of the sequences.                                    *)
LEMMA AppendTable ==
    ASSUME NEW S, NEW s \in Seq(S), NEW t \in S, IsInjective(s), t \notin ToSet(s)
    PROVE  /\ Append(s, t) \in Seq(S) /\ IsInjective(Append(s, t))
           /\ ToSet(Append(s, t)) = ToSet(s) \cup {t}
  <1>1. /\ Append(s, t) \in Seq(S) /\ DOMAIN s = 1..Len(s) /\ Len(s) \in Nat
        /\ DOMAIN Append(s, t) = 1..Len(s) + 1
        /\ Append(s, t)[Len(s) + 1] = t
        /\ \A i \in 1..Len(s) : Append(s, t)[i] = s[i]
    OBVIOUS
  <1>2. \A i \in 1..Len(s) : s[i] # t
    BY <1>1 DEF ToSet
  <1>3. \A i \in 1..Len(s) + 1 : i \in 1..Len(s) \/ i = Len(s) + 1
    BY <1>1
  <1>4. \A i, j \in 1..Len(s) : s[i] = s[j] => i = j
    BY <1>1 DEF IsInjective
  <1>5. IsInjective(Append(s, t))
    BY <1>1, <1>2, <1>3, <1>4 DEF IsInjective
  <1>6. ToSet(Append(s, t)) = ToSet(s) \cup {t}
    BY <1>1, <1>3 DEF ToSet
  <1> QED
    BY <1>1, <1>5, <1>6

(* What Others keeps of one name.                                           *)
Kept1(S, t) == [x \in S |-> IF x = t THEN <<>> ELSE <<x>>]

(* Others keeps or drops each name on its own.                              *)
LEMMA OthersIsEach ==
    ASSUME NEW S, NEW s \in Seq(S), NEW t \in S
    PROVE  Others(s, t) = Each(Kept1(S, t), s)
  <1>1. \A i \in DOMAIN s : s[i] \in S
    OBVIOUS
  <1>2. \A i \in DOMAIN s : Kept1(S, t)[s[i]] = IF s[i] = t THEN <<>> ELSE <<s[i]>>
    BY <1>1 DEF Kept1
  <1>3. [i \in DOMAIN s |-> IF s[i] = t THEN <<>> ELSE <<s[i]>>] = Mapped(Kept1(S, t), s)
    BY <1>2 DEF Mapped
  <1> QED
    BY <1>3, Zenon DEF Others, Each

(* One name more is kept, or it is t.                                       *)
LEMMA OthersMore ==
    ASSUME NEW S, NEW s \in Seq(S), NEW t \in S, NEW e \in S
    PROVE  Others(Append(s, e), t) = IF e = t THEN Others(s, t) ELSE Append(Others(s, t), e)
  <1>1. Kept1(S, t) \in [S -> Seq(S)]
    BY DEF Kept1
  <1>2. AddsOne(Kept1(S, t), s, e)
    BY <1>1, EachMore, Zenon
  <1>3. Append(s, e) = s \o <<e>> /\ Append(s, e) \in Seq(S)
    OBVIOUS
  <1>4. Others(Append(s, e), t) = Others(s, t) \o Kept1(S, t)[e]
    <2>1. /\ Others(Append(s, e), t) = Each(Kept1(S, t), Append(s, e))
          /\ Others(s, t) = Each(Kept1(S, t), s)
      BY <1>3, OthersIsEach
    <2> QED
      BY <1>2, <1>3, <2>1, Zenon DEF AddsOne
  <1>5. Others(s, t) \in Seq(S)
    BY <1>1, EachType, OthersIsEach
  <1>6. Kept1(S, t)[e] = IF e = t THEN <<>> ELSE <<e>>
    BY DEF Kept1
  <1>7. CASE e = t
    BY <1>4, <1>5, <1>6, <1>7
  <1>8. CASE e # t
    BY <1>4, <1>5, <1>6, <1>8
  <1> QED
    BY <1>7, <1>8

(* Others has all of s but t, each once.                                    *)
IsWithout(S, s, t) ==
    /\ Others(s, t) \in Seq(S)
    /\ IsInjective(s) => /\ IsInjective(Others(s, t))
                         /\ ToSet(Others(s, t)) = ToSet(s) \ {t}

(* Of no names, none.                                                       *)
LEMMA OthersOfNone ==
    ASSUME NEW S, NEW t \in S
    PROVE  IsWithout(S, <<>>, t)
  <1>1. <<>> \in Seq(S)
    OBVIOUS
  <1>2. Others(<<>>, t) = <<>>
    BY <1>1, OthersIsEach, EachEmpty
  <1>3. IsInjective(<<>>) /\ ToSet(<<>>) = {}
    BY DEF IsInjective, ToSet
  <1> QED
    BY <1>1, <1>2, <1>3 DEF IsWithout

(* With one name more Others is still right.                                *)
LEMMA OthersStep ==
    ASSUME NEW S, NEW t \in S, NEW s \in Seq(S), NEW e \in S, IsWithout(S, s, t)
    PROVE  IsWithout(S, Append(s, e), t)
  <1>1. Others(s, t) \in Seq(S)
    BY DEF IsWithout
  <1>2. Others(Append(s, e), t) = IF e = t THEN Others(s, t) ELSE Append(Others(s, t), e)
    BY OthersMore
  <1>3. Others(Append(s, e), t) \in Seq(S)
    BY <1>1, <1>2
  <1>4. ASSUME IsInjective(Append(s, e))
        PROVE  /\ IsInjective(Others(Append(s, e), t))
               /\ ToSet(Others(Append(s, e), t)) = ToSet(Append(s, e)) \ {t}
    <2>1. IsInjective(s) /\ e \notin ToSet(s)
      <3>1. /\ DOMAIN s = 1..Len(s) /\ Len(s) \in Nat /\ DOMAIN Append(s, e) = 1..Len(s) + 1
            /\ Append(s, e)[Len(s) + 1] = e
            /\ \A i \in 1..Len(s) : Append(s, e)[i] = s[i]
            /\ \A i \in 1..Len(s) : i \in 1..Len(s) + 1 /\ i # Len(s) + 1
            /\ Len(s) + 1 \in 1..Len(s) + 1
        OBVIOUS
      <3>2. \A i, j \in 1..Len(s) + 1 : Append(s, e)[i] = Append(s, e)[j] => i = j
        BY <1>4, <3>1, Zenon DEF IsInjective
      <3>3. \A i, j \in 1..Len(s) : s[i] = s[j] => i = j
        BY <3>1, <3>2
      <3>4. \A i \in 1..Len(s) : s[i] # e
        BY <3>1, <3>2
      <3> QED
        BY <3>1, <3>3, <3>4, Zenon DEF IsInjective, ToSet
    <2>2. /\ IsInjective(Others(s, t)) /\ ToSet(Others(s, t)) = ToSet(s) \ {t}
          /\ ToSet(Append(s, e)) = ToSet(s) \cup {e}
      BY <2>1, AppendTable DEF IsWithout
    <2>3. CASE e = t
      BY <1>2, <2>1, <2>2, <2>3
    <2>4. CASE e # t
      <3>1. e \notin ToSet(Others(s, t))
        BY <2>1, <2>2
      <3>2. /\ IsInjective(Append(Others(s, t), e))
            /\ ToSet(Append(Others(s, t), e)) = ToSet(Others(s, t)) \cup {e}
        BY <1>1, <2>2, <3>1, AppendTable
      <3> QED
        BY <1>2, <2>2, <2>4, <3>2
    <2> QED
      BY <2>3, <2>4
  <1> QED
    BY <1>3, <1>4 DEF IsWithout

(* Others is right for every sequence: by induction on it.                  *)
LEMMA OthersRight ==
    ASSUME NEW S, NEW t \in S, NEW s \in Seq(S)
    PROVE  IsWithout(S, s, t)
  <1> DEFINE P == {x \in Seq(S) : IsWithout(S, x, t)}
  <1>1. P \in SUBSET Seq(S) /\ <<>> \in P
    BY OthersOfNone
  <1>2. \A x \in P : \A e \in S : Append(x, e) \in P
    BY OthersStep
  <1> HIDE DEF P
  <1>3. P = Seq(S)
    BY <1>1, <1>2, AppendInduction
  <1> QED
    BY <1>3 DEF P

(* The names in a sequence are tables.                                      *)
LEMMA NamesAreTables ==
    ASSUME NEW s \in Seq(Table)
    PROVE  ToSet(s) \subseteq Table
  BY DEF ToSet

(* CREATE TABLE leaves a legal database ...                                 *)
LEMMA CreateTableLegal ==
    ASSUME NEW d, Legal(d), NEW t \in Table, t \notin ToSet(d.tables)
    PROVE  Legal([d EXCEPT !.tables = Append(@, t)])
  <1> DEFINE e == [d EXCEPT !.tables = Append(@, t)]
  <1>1. /\ d.tables \in Seq(Table) /\ d.triggers \in Seq(Name) /\ d.rows \in [Table -> Seq(Row)]
        /\ d \in Database
    BY Parts DEF Legal
  <1>2. /\ Append(d.tables, t) \in Seq(Table) /\ IsInjective(Append(d.tables, t))
        /\ ToSet(Append(d.tables, t)) = ToSet(d.tables) \cup {t}
    BY <1>1, AppendTable DEF Legal, Consistent
  <1>3. /\ e.tables = Append(d.tables, t) /\ e.triggers = d.triggers /\ e.rows = d.rows
        /\ e \in Database
    BY <1>1, <1>2 DEF Database
  <1> HIDE DEF e
  <1>4. Consistent(e)
    BY <1>2, <1>3 DEF Legal, Consistent
  <1>5. Legal(e)
    BY <1>3, <1>4 DEF Legal
  <1> QED
    BY <1>5 DEF e

(* ... and so does CREATE TRIGGER ...                                       *)
LEMMA CreateTriggerLegal ==
    ASSUME NEW d, Legal(d), NEW t \in Name, t \in ToSet(d.tables) \cup View,
           t \notin ToSet(d.triggers)
    PROVE  Legal([d EXCEPT !.triggers = Append(@, t)])
  <1> DEFINE e == [d EXCEPT !.triggers = Append(@, t)]
  <1>1. /\ d.tables \in Seq(Table) /\ d.triggers \in Seq(Name) /\ d.rows \in [Table -> Seq(Row)]
        /\ d \in Database
    BY Parts DEF Legal
  <1>2. /\ Append(d.triggers, t) \in Seq(Name) /\ IsInjective(Append(d.triggers, t))
        /\ ToSet(Append(d.triggers, t)) = ToSet(d.triggers) \cup {t}
    BY <1>1, AppendTable DEF Legal, Consistent
  <1>3. /\ e.triggers = Append(d.triggers, t) /\ e.tables = d.tables /\ e.rows = d.rows
        /\ e \in Database
    BY <1>1, <1>2 DEF Database
  <1> HIDE DEF e
  <1>4. Consistent(e)
    BY <1>2, <1>3 DEF Legal, Consistent
  <1>5. Legal(e)
    BY <1>3, <1>4 DEF Legal
  <1> QED
    BY <1>5 DEF e

(* ... INSERT, within the bound ...                                         *)
LEMMA InsertRowLegal ==
    ASSUME NEW d, Legal(d), NEW t \in Table, t \in ToSet(d.tables),
           Len(d.rows[t]) < MaxRows, NEW r \in Row
    PROVE  Legal([d EXCEPT !.rows[t] = Append(@, r)])
  <1> DEFINE e == [d EXCEPT !.rows[t] = Append(@, r)]
  <1>1. /\ d.tables \in Seq(Table) /\ d.triggers \in Seq(Name) /\ d.rows \in [Table -> Seq(Row)]
        /\ d \in Database /\ d.rows[t] \in Seq(Row)
    BY Parts DEF Legal
  <1>2. /\ e.triggers = d.triggers /\ e.tables = d.tables
        /\ e.rows = [d.rows EXCEPT ![t] = Append(d.rows[t], r)]
    BY <1>1 DEF Database
  <1>3. Append(d.rows[t], r) \in Seq(Row) /\ Len(Append(d.rows[t], r)) <= MaxRows
    BY <1>1, ConstantsAssumption
  <1>4. e.rows \in [Table -> Seq(Row)]
    BY <1>1, <1>2, <1>3
  <1>5. e \in Database
    BY <1>1, <1>2, <1>3, <1>4 DEF Database
  <1>6. \A u \in Table : e.rows[u] = IF u = t THEN Append(d.rows[t], r) ELSE d.rows[u]
    BY <1>1, <1>2
  <1> HIDE DEF e
  <1>7. Consistent(e)
    BY <1>2, <1>6 DEF Legal, Consistent
  <1>8. \A u \in Table : Len(e.rows[u]) <= MaxRows
    BY <1>3, <1>6 DEF Legal
  <1>9. Legal(e)
    BY <1>5, <1>7, <1>8 DEF Legal
  <1> QED
    BY <1>9 DEF e

(* ... and DROP TABLE, which takes the rows and the trigger with it.        *)
LEMMA DropTableLegal ==
    ASSUME NEW d, Legal(d), NEW t \in Table
    PROVE  Legal([tables |-> Others(d.tables, t),
                  rows |-> [d.rows EXCEPT ![t] = <<>>],
                  triggers |-> Others(d.triggers, t)])
  <1> DEFINE e == [tables |-> Others(d.tables, t),
                   rows |-> [d.rows EXCEPT ![t] = <<>>],
                   triggers |-> Others(d.triggers, t)]
  <1>1. /\ d.tables \in Seq(Table) /\ d.triggers \in Seq(Name) /\ d.rows \in [Table -> Seq(Row)]
        /\ d \in Database
    BY Parts DEF Legal
  <1>2. /\ e.tables = Others(d.tables, t) /\ e.triggers = Others(d.triggers, t)
        /\ e.rows = [d.rows EXCEPT ![t] = <<>>]
    OBVIOUS
  <1>3. /\ Others(d.tables, t) \in Seq(Table) /\ IsInjective(Others(d.tables, t))
        /\ ToSet(Others(d.tables, t)) = ToSet(d.tables) \ {t}
    <2>1. IsWithout(Table, d.tables, t) /\ IsInjective(d.tables)
      BY <1>1, OthersRight DEF Legal, Consistent
    <2> QED
      BY <2>1 DEF IsWithout
  <1>4. /\ Others(d.triggers, t) \in Seq(Name) /\ IsInjective(Others(d.triggers, t))
        /\ ToSet(Others(d.triggers, t)) = ToSet(d.triggers) \ {t}
    <2>1. t \in Name
      BY DEF Name
    <2>2. IsWithout(Name, d.triggers, t) /\ IsInjective(d.triggers)
      BY <1>1, <2>1, OthersRight DEF Legal, Consistent
    <2> QED
      BY <2>2 DEF IsWithout
  <1>5. e.rows \in [Table -> Seq(Row)]
    BY <1>1, <1>2
  <1>6. e \in Database
    BY <1>3, <1>4, <1>5, Zenon DEF Database
  <1>7. \A u \in Table : e.rows[u] = IF u = t THEN <<>> ELSE d.rows[u]
    BY <1>1, <1>2
  <1> HIDE DEF e
  <1>8. Consistent(e)
    <2>1. t \notin View
      BY ConstantsAssumption
    <2> QED
      BY <1>2, <1>3, <1>4, <1>7, <2>1 DEF Legal, Consistent
  <1>9. \A u \in Table : Len(e.rows[u]) <= MaxRows
    BY <1>7, ConstantsAssumption DEF Legal
  <1>10. Legal(e)
    BY <1>6, <1>8, <1>9 DEF Legal
  <1> QED
    BY <1>10 DEF e

(* Somebody commits: nobody reads, the call is not done, and there is a     *)
(* legal version more.                                                      *)
Commits ==
    /\ ~ReadLocked /\ pc \notin {"done", "undefined"}
    /\ UNCHANGED dump
    /\ DbInv' /\ Legal(db')
    /\ DOMAIN versions \subseteq DOMAIN versions'
    /\ \A v \in DOMAIN versions : versions'[v] = versions[v]

(* Writing a legal database is a commit ...                                 *)
LEMMA WritesCommits ==
    ASSUME DbInv, NEW d, Legal(d), Writes(d)
    PROVE  Commits
  <1>1. /\ ~ReadLocked /\ pc \notin {"done", "undefined"} /\ UNCHANGED dump
        /\ versions' = Append(versions, d)
    BY DEF Writes
  <1>2. /\ DbInv' /\ db' = d /\ DOMAIN versions \subseteq DOMAIN versions'
        /\ \A v \in DOMAIN versions : versions'[v] = versions[v]
    BY <1>1, OneMore
  <1> QED
    BY <1>1, <1>2 DEF Commits

(* ... and the others write nothing else.                                   *)
LEMMA WriteCommits ==
    ASSUME DbInv, Write
    PROVE  Commits
  <1>1. Legal(db)
    BY LastIsLegal
  <1>2. ASSUME NEW t \in Table, CreateTable(t)
        PROVE  Commits
    BY <1>1, <1>2, CreateTableLegal, WritesCommits DEF CreateTable
  <1>3. ASSUME NEW t \in Name, CreateTrigger(t)
        PROVE  Commits
    BY <1>1, <1>3, CreateTriggerLegal, WritesCommits DEF CreateTrigger
  <1>4. ASSUME NEW t \in Table, DropTable(t)
        PROVE  Commits
    BY <1>1, <1>4, DropTableLegal, WritesCommits DEF DropTable
  <1>5. ASSUME NEW t \in Table, NEW r \in Row, InsertRow(t, r)
        PROVE  Commits
    BY <1>1, <1>5, InsertRowLegal, WritesCommits DEF InsertRow
  <1> QED
    BY <1>2, <1>3, <1>4, <1>5 DEF Write
-----------------------------------------------------------------------------
Label == {"fopen", "prepare_tables", "step_tables", "prepare_data", "step_data",
          "prepare_triggers", "step_triggers", "exit", "done", "undefined"}

(* index counts tables, or triggers, of a version there was.                *)
InVersion ==
    \E v \in DOMAIN versions :
        \/ index \in 0..Len(versions[v].tables)
        \/ index \in 0..Len(versions[v].triggers)

(* Where the call is in the tables, the rows and the triggers.  While it is *)
(* at a table, the statement over the tables is active.                     *)
Place ==
    /\ index \in Nat /\ row \in 0..MaxRows /\ InVersion
    /\ pc \in {"fopen", "prepare_tables"} => index = 0
    /\ pc = "step_tables" => index <= Len(db.tables) /\ (index > 0 => "table" \in active)
    /\ pc \in {"prepare_data", "step_data"} => index \in 1..Len(db.tables) /\ "table" \in active
    /\ pc = "step_data" => row <= Len(Rows)
    /\ pc = "step_triggers" => index <= Len(db.triggers) /\ (index > 0 => "table" \in active)

Typed ==
    /\ pc \in Label /\ ret \in {"OK", "ROW", "DONE", "error", "-1"}
    /\ file \in Seq(Statement) /\ failed \in BOOLEAN /\ lost \in BOOLEAN

(* The statements of a dump.                                                *)
LEMMA Statements ==
    ASSUME NEW t \in Table
    PROVE  /\ Begin \in Statement /\ Commit \in Statement
           /\ Create(t) \in Statement
           /\ \A r \in Row \cup {"nulled"} : Insert(t, r) \in Statement
  BY DEF Begin, Commit, Create, Trigger, Insert, Statement

(* The triggers of a dump.                                                  *)
LEMMA TriggerType ==
    ASSUME NEW t \in Name
    PROVE  Trigger(t) \in Statement
  BY DEF Trigger, Statement

(* What they begin and end with.                                            *)
LEMMA Brackets == Begin \in Statement /\ Commit \in Statement
  BY DEF Begin, Commit, Statement

(* The table the call is at, or comes to, and its rows.                     *)
LEMMA TableAt ==
    ASSUME DbInv, NEW n \in 1..Len(db.tables)
    PROVE  /\ db.tables[n] \in Table
           /\ db.rows[db.tables[n]] \in Seq(Row)
           /\ Len(db.rows[db.tables[n]]) \in 0..MaxRows
  <1>1. /\ Legal(db) /\ db.tables \in Seq(Table)
        /\ \A t \in Table : db.rows[t] \in Seq(Row) /\ Len(db.rows[t]) \in Nat
    BY LastIsLegal, Parts
  <1>2. db.tables[n] \in Table
    BY <1>1
  <1> QED
    BY <1>1, <1>2, ConstantsAssumption DEF Legal

(* The numbers of tables and triggers.                                      *)
LEMMA Lengths ==
    ASSUME DbInv
    PROVE  Len(db.tables) \in Nat /\ Len(db.triggers) \in Nat
  <1>1. db.tables \in Seq(Table) /\ db.triggers \in Seq(Name)
    BY LastIsLegal, Parts
  <1> QED
    BY <1>1

(* Counting in the last version is counting in a version.                   *)
LEMMA InLast ==
    ASSUME DbInv, index \in 0..Len(db.tables) \/ index \in 0..Len(db.triggers)
    PROVE  InVersion
  BY LastIsLegal DEF InVersion

(* The call begins before the first table of a legal database.              *)
LEMMA InitPlace == Init => DbInv /\ Place /\ Typed
  <1> SUFFICES ASSUME Init PROVE DbInv /\ Place /\ Typed
    OBVIOUS
  <1>1. PICK d \in Stored : versions = <<d>>
    BY DEF Init
  <1>2. Legal(d)
    BY ConstantsAssumption DEF Legal
  <1>3. versions \in Seq(Database) /\ versions # <<>> /\ DOMAIN versions = {1} /\ versions[1] = d
    BY <1>1, <1>2 DEF Legal
  <1>4. DbInv
    BY <1>2, <1>3 DEF DbInv
  <1>5. Place
    <2>1. index = 0 /\ row = 0 /\ pc = "fopen"
      BY DEF Init
    <2>2. InVersion
      BY <1>4, <2>1, InLast, Lengths
    <2> QED
      BY <2>1, <2>2, ConstantsAssumption DEF Place
  <1>6. Typed
    <2>1. <<>> \in Seq(Statement)
      OBVIOUS
    <2> QED
      BY <2>1 DEF Init, Typed, Label
  <1> QED
    BY <1>4, <1>5, <1>6

(* A step of dump_db leaves the database alone, and its next place is right.*)
LEMMA StepPlace ==
    ASSUME DbInv, Place, Step
    PROVE  UNCHANGED versions /\ Place'
  <1>0. /\ index \in Nat /\ row \in 0..MaxRows /\ InVersion
        /\ pc \in {"fopen", "prepare_tables"} => index = 0
    BY DEF Place
  <1>1. UNCHANGED versions
    BY DEF Step, Fopen, PrepareTables, StepTables, PrepareData, StepData, PrepareTriggers,
           StepTriggers, Exit
  <1>2. db' = db
    BY <1>1 DEF db
  <1>3. Len(db.tables) \in Nat /\ Len(db.triggers) \in Nat /\ MaxRows \in Nat
    BY Lengths, ConstantsAssumption
  <1>4. ASSUME UNCHANGED index
        PROVE  InVersion'
    BY <1>1, <1>4 DEF Place, InVersion
  <1>5. ASSUME index' \in 0..Len(db.tables) \/ index' \in 0..Len(db.triggers)
        PROVE  InVersion'
    BY <1>1, <1>5, LastIsLegal DEF InVersion
  <1>6. CASE Fopen
    <2>1. UNCHANGED <<index, row>> /\ index = 0 /\ pc' \in {"prepare_tables", "done"}
      BY <1>0, <1>6 DEF Fopen, Fails
    <2> QED
      BY <1>0, <1>1, <1>4, <2>1 DEF Place
  <1>7. CASE PrepareTables
    <2>1. UNCHANGED <<index, row>> /\ index = 0 /\ pc' \in {"step_tables", "exit"}
      BY <1>0, <1>7 DEF PrepareTables, Fails
    <2>2. index' <= Len(db.tables)'
      BY <1>2, <1>3, <2>1
    <2> QED
      BY <1>0, <1>1, <1>4, <2>1, <2>2 DEF Place
  <1>8. CASE StepTables
    <2>1. pc = "step_tables" /\ UNCHANGED row /\ index \in 0..Len(db.tables)
      BY <1>3, <1>8 DEF StepTables, Place
    <2>2. CASE pc' = "prepare_data"
      <3>1. index' = index + 1 /\ index < Len(db.tables) /\ "table" \in active'
        BY <1>8, <2>2 DEF StepTables, Fails
      <3>2. index' \in 1..Len(db.tables)
        BY <1>3, <2>1, <3>1
      <3>3. InVersion'
        BY <1>5, <3>2
      <3> QED
        BY <1>0, <1>1, <1>2, <1>3, <2>1, <2>2, <3>1, <3>2, <3>3 DEF Place
    <2>3. CASE pc' \in {"prepare_triggers", "exit"} /\ UNCHANGED index
      BY <1>0, <1>1, <1>4, <2>1, <2>3 DEF Place
    <2>4. pc' = "prepare_data" \/ (pc' \in {"prepare_triggers", "exit"} /\ UNCHANGED index)
      BY <1>8 DEF StepTables, Fails
    <2> QED
      BY <2>2, <2>3, <2>4
  <1>9. CASE PrepareData
    <2>1. /\ pc = "prepare_data" /\ row' = 0 /\ UNCHANGED <<index, active>>
          /\ pc' \in {"step_data", "exit"}
      BY <1>9 DEF PrepareData, Fails
    <2>2. index \in 1..Len(db.tables) /\ "table" \in active
      BY <2>1 DEF Place
    <2>3. Rows' = Rows /\ Len(Rows) \in Nat
      BY <1>2, <2>1, <2>2, TableAt DEF Rows
    <2>4. row' \in 0..MaxRows /\ row' <= Len(Rows)'
      BY <1>3, <2>1, <2>3
    <2>5. index' \in 1..Len(db.tables)' /\ "table" \in active' /\ index' \in Nat /\ InVersion'
      BY <1>0, <1>2, <1>4, <2>1, <2>2
    <2> QED
      BY <1>1, <2>1, <2>4, <2>5 DEF Place
  <1>10. CASE StepData
    <2>1. /\ pc = "step_data" /\ UNCHANGED index
          /\ "table" \in active => "table" \in active'
      BY <1>10 DEF StepData, Fails
    <2>2. index \in 1..Len(db.tables) /\ "table" \in active
      BY <2>1 DEF Place
    <2>3. Rows' = Rows /\ Len(Rows) \in 0..MaxRows
      BY <1>2, <2>1, <2>2, TableAt DEF Rows
    <2>7. index' \in 1..Len(db.tables)' /\ "table" \in active' /\ index' \in Nat /\ InVersion'
      BY <1>0, <1>2, <1>4, <2>1, <2>2
    <2>4. CASE row < Len(Rows) /\ row' = row + 1 /\ pc' \in {"step_data", "undefined"}
      <3>1. row' \in 0..MaxRows /\ row' <= Len(Rows)
        BY <1>3, <2>3, <2>4 DEF Place
      <3>2. row' <= Len(Rows)'
        BY <2>3, <3>1
      <3> QED
        BY <1>1, <2>4, <2>7, <3>1, <3>2 DEF Place
    <2>5. CASE UNCHANGED row /\ pc' = "step_tables"
      <3>1. index' <= Len(db.tables)'
        BY <1>3, <2>7
      <3> QED
        BY <1>0, <1>1, <2>5, <2>7, <3>1 DEF Place
    <2>6. \/ row < Len(Rows) /\ row' = row + 1 /\ pc' \in {"step_data", "undefined"}
          \/ UNCHANGED row /\ pc' = "step_tables"
      BY <1>10 DEF StepData, Fails, AddRow
    <2> QED
      BY <2>4, <2>5, <2>6
  <1>11. CASE PrepareTriggers
    <2>1. index' = 0 /\ UNCHANGED row /\ pc' \in {"step_triggers", "exit"}
      BY <1>11 DEF PrepareTriggers, Fails
    <2>2. InVersion' /\ index' <= Len(db.triggers)'
      BY <1>2, <1>3, <1>5, <2>1
    <2> QED
      BY <1>0, <1>1, <2>1, <2>2 DEF Place
  <1>12. CASE StepTriggers
    <2>1. pc = "step_triggers" /\ UNCHANGED row /\ index \in 0..Len(db.triggers)
      BY <1>3, <1>12 DEF StepTriggers, Place
    <2>2. CASE pc' = "step_triggers"
      <3>1. index' = index + 1 /\ index < Len(db.triggers) /\ "table" \in active'
        BY <1>12, <2>2 DEF StepTriggers, Fails
      <3>2. index' \in 0..Len(db.triggers)
        BY <1>3, <2>1, <3>1
      <3>3. InVersion'
        BY <1>5, <3>2
      <3> QED
        BY <1>0, <1>1, <1>2, <1>3, <2>1, <2>2, <3>1, <3>2, <3>3 DEF Place
    <2>3. CASE pc' = "exit" /\ UNCHANGED index
      BY <1>0, <1>1, <1>4, <2>1, <2>3 DEF Place
    <2>4. pc' = "step_triggers" \/ (pc' = "exit" /\ UNCHANGED index)
      BY <1>12 DEF StepTriggers, Fails
    <2> QED
      BY <2>2, <2>3, <2>4
  <1>13. CASE Exit
    <2>1. UNCHANGED <<index, row>> /\ pc' = "done"
      BY <1>13 DEF Exit
    <2> QED
      BY <1>0, <1>1, <1>4, <2>1 DEF Place
  <1> QED
    BY <1>1, <1>6, <1>7, <1>8, <1>9, <1>10, <1>11, <1>12, <1>13 DEF Step

(* A commit meets the call between two statements, where it counts nothing  *)
(* of the last version yet.                                                 *)
LEMMA CommitPlace ==
    ASSUME DbInv, Place, Commits
    PROVE  Place'
  <1>1. /\ active = {} /\ UNCHANGED <<pc, index, row, active>> /\ DbInv'
        /\ DOMAIN versions \subseteq DOMAIN versions'
        /\ \A v \in DOMAIN versions : versions'[v] = versions[v]
    BY DEF Commits, ReadLocked, dump
  <1>2. Len(db.tables)' \in Nat /\ Len(db.triggers)' \in Nat
    <2>1. Legal(db)' /\ db' \in Database
      BY DEF Commits, Legal
    <2>2. db'.tables \in Seq(Table) /\ db'.triggers \in Seq(Name)
      BY <2>1, Parts
    <2> QED
      BY <2>2
  <1>3. InVersion'
    BY <1>1 DEF Place, InVersion
  <1> QED
    BY <1>1, <1>2, <1>3 DEF Place
-----------------------------------------------------------------------------
(* What is written is a sequence; of what, the proof does not ask.          *)
IsFile == \E S : file \in Seq(S)

(* The statements that were overwritten by the one of the next table.       *)
Left(n) == IF n = 0 THEN 0 ELSE n - 1

One(v) == IF v \in stmt THEN 1 ELSE 0

(* Where the call is tells which variables are set, and how many statements *)
(* there are: one for each table that was selected, and the outer one.      *)
AtLabel(n) ==
    /\ pc \in {"fopen", "prepare_tables"} =>
          stmt = {} /\ active = {} /\ alive = 0 /\ n = 0
    /\ pc \in {"step_tables", "prepare_triggers", "step_triggers"} =>
          /\ "table" \in stmt /\ ("data" \in stmt <=> n > 0)
          /\ "data" \notin active
          /\ alive = n + 1
    /\ pc = "prepare_triggers" => "table" \notin active
    /\ pc = "prepare_data" =>
          /\ n > 0
          /\ "table" \in stmt /\ ("data" \in stmt <=> n > 1)
          /\ "data" \notin active
          /\ alive = n
    /\ pc = "step_data" =>
          /\ n > 0
          /\ "table" \in stmt /\ "data" \in stmt
          /\ alive = n + 1
    /\ pc = "exit" =>
          alive = One("table") + One("data") + Left(n) /\ ("data" \in stmt => n > 0)
    /\ pc = "undefined" => alive = n + 1
    /\ pc = "done" => active = {} /\ alive = Left(n)

Sets == stmt \subseteq {"table", "data"} /\ active \subseteq stmt

(* true is returned if and only if there is a file.                         *)
Told ==
    /\ pc \in Label
    /\ fp \in BOOLEAN /\ result \in BOOLEAN
    /\ pc = "fopen" => fp = FALSE /\ result = FALSE
    /\ pc \notin {"fopen", "done"} => fp = TRUE
    /\ pc = "exit" => ret # "OK"
    /\ pc = "done" => result = fp

IInv == IsFile /\ Selected \in Nat /\ Sets /\ AtLabel(Selected) /\ Told

(* Writing a statement counts if it creates a table.                        *)
LEMMA Written ==
    ASSUME IsFile, Selected \in Nat, NEW x, file' = Append(file, x)
    PROVE  /\ IsFile'
           /\ Selected' = Selected + (IF x.kind = "create" THEN 1 ELSE 0)
  <1>1. PICK S : file \in Seq(S)
    BY DEF IsFile
  <1> DEFINE T == S \cup {x}
             C == {i \in DOMAIN file : file[i].kind = "create"}
             D == {i \in DOMAIN file' : file'[i].kind = "create"}
             n == Len(file)
  <1>2. file \in Seq(T)
    BY <1>1
  <1>3. /\ file' \in Seq(T) /\ n \in Nat
        /\ DOMAIN file = 1..n /\ DOMAIN file' = 1..n + 1
        /\ \A i \in 1..n : file'[i] = file[i]
        /\ file'[n + 1] = x
    BY <1>2
  <1>4. IsFile'
    BY <1>3 DEF IsFile
  <1>5. IsFiniteSet(C) /\ n + 1 \notin C
    <2>1. IsFiniteSet(1..n) /\ C \in SUBSET (1..n)
      BY <1>3, FS_Interval
    <2> QED
      BY <1>3, <2>1, FS_Subset
  <1>6. D = IF x.kind = "create" THEN C \cup {n + 1} ELSE C
    BY <1>3
  <1>7. Cardinality(C \cup {n + 1}) = Cardinality(C) + 1
    BY <1>5, FS_AddElement
  <1>8. Selected = Cardinality(C) /\ Selected' = Cardinality(D)
    BY DEF Selected
  <1> HIDE DEF C, D
  <1> QED
    BY <1>4, <1>6, <1>7, <1>8

(* Nothing is written: nothing more is selected.                            *)
LEMMA Unwritten ==
    ASSUME UNCHANGED file
    PROVE  Selected' = Selected /\ (IsFile => IsFile')
  BY DEF Selected, IsFile

(* The file begins with a statement that is no table's.                     *)
LEMMA Begun ==
    ASSUME file' = <<Begin>>
    PROVE  IsFile' /\ Selected' = 0
  <1>1. file' \in Seq({Begin}) /\ DOMAIN file' = {1} /\ file'[1].kind = "begin"
    BY DEF Begin
  <1>2. {i \in DOMAIN file' : file'[i].kind = "create"} = {}
    BY <1>1
  <1>3. Selected' = 0
    BY <1>2, FS_EmptySet DEF Selected
  <1> QED
    BY <1>1, <1>3 DEF IsFile

(* Nothing is selected or alive before the call.                            *)
LEMMA InitInv == Init => IInv
  <1> SUFFICES ASSUME Init PROVE IInv
    OBVIOUS
  <1>1. file \in Seq({}) /\ DOMAIN file = {}
    BY DEF Init
  <1>2. Selected = 0
    <2>1. {i \in DOMAIN file : file[i].kind = "create"} = {}
      BY <1>1
    <2> QED
      BY <2>1, FS_EmptySet DEF Selected
  <1>3. IsFile
    BY <1>1 DEF IsFile
  <1> QED
    BY <1>2, <1>3 DEF Init, IInv, AtLabel, Sets, Told, Label

(* The two statement variables at the end.                                  *)
LEMMA Finalizes ==
    ASSUME Sets
    PROVE  Cardinality(stmt) = One("table") + One("data")
  <1>1. Cardinality({}) = 0
    BY FS_EmptySet
  <1>2. \A x : Cardinality({x}) = 1 /\ IsFiniteSet({x})
    BY FS_Singleton
  <1>3. Cardinality({"table"} \cup {"data"}) = 2
    <2>1. Cardinality({"table"}) = 1 /\ IsFiniteSet({"table"})
      BY <1>2
    <2> QED
      BY <2>1, FS_AddElement
  <1>4. CASE "table" \in stmt /\ "data" \in stmt
    <2>1. stmt = {"table"} \cup {"data"}
      BY <1>4 DEF Sets
    <2> QED
      BY <1>3, <1>4, <2>1 DEF One
  <1>5. CASE "table" \in stmt /\ "data" \notin stmt
    <2>1. stmt = {"table"}
      BY <1>5 DEF Sets
    <2> QED
      BY <1>2, <1>5, <2>1 DEF One
  <1>6. CASE "table" \notin stmt /\ "data" \in stmt
    <2>1. stmt = {"data"}
      BY <1>6 DEF Sets
    <2> QED
      BY <1>2, <1>6, <2>1 DEF One
  <1>7. CASE "table" \notin stmt /\ "data" \notin stmt
    <2>1. stmt = {}
      BY <1>7 DEF Sets
    <2> QED
      BY <1>1, <1>7, <2>1 DEF One
  <1> QED
    BY <1>4, <1>5, <1>6, <1>7

(* Every step tells the caller right.                                       *)
LEMMA StepTold ==
    ASSUME Told, Step
    PROVE  Told'
  <1> USE DEF Told, Label, Fails
  <1>1. CASE Fopen
    BY <1>1 DEF Fopen
  <1>2. CASE PrepareTables
    BY <1>2 DEF PrepareTables
  <1>3. CASE StepTables
    BY <1>3 DEF StepTables
  <1>4. CASE PrepareData
    BY <1>4 DEF PrepareData
  <1>5. CASE StepData
    BY <1>5 DEF StepData, AddRow
  <1>6. CASE PrepareTriggers
    BY <1>6 DEF PrepareTriggers
  <1>7. CASE StepTriggers
    BY <1>7 DEF StepTriggers
  <1>8. CASE Exit
    BY <1>8 DEF Exit, Verdict
  <1> QED
    BY <1>1, <1>2, <1>3, <1>4, <1>5, <1>6, <1>7, <1>8 DEF Step

(* Only a statement variable that is set has an active statement.           *)
LEMMA StepSets ==
    ASSUME NEW n, Sets, AtLabel(n), Step
    PROVE  Sets'
  <1> USE DEF Sets, AtLabel, Fails
  <1>1. CASE Fopen \/ PrepareTables
    BY <1>1 DEF Fopen, PrepareTables
  <1>2. CASE StepTables
    BY <1>2 DEF StepTables
  <1>3. CASE PrepareData
    BY <1>3 DEF PrepareData
  <1>4. CASE StepData
    BY <1>4 DEF StepData
  <1>5. CASE PrepareTriggers
    BY <1>5 DEF PrepareTriggers
  <1>6. CASE StepTriggers
    BY <1>6 DEF StepTriggers
  <1>7. CASE Exit
    BY <1>7 DEF Exit, Finalized
  <1> QED
    BY <1>1, <1>2, <1>3, <1>4, <1>5, <1>6, <1>7 DEF Step

(* Nothing is written, or a statement; which only counts for tables.        *)
LEMMA StepFile ==
    ASSUME IsFile, Selected \in Nat, AtLabel(Selected), Step
    PROVE  /\ IsFile'
           /\ \/ /\ pc = "step_tables" /\ pc' = "prepare_data"
                 /\ Selected' = Selected + 1
              \/ /\ ~(pc = "step_tables" /\ pc' = "prepare_data")
                 /\ Selected' = Selected
  <1> USE DEF Fails, Fprintf
  <1>1. CASE StepTables /\ pc' = "prepare_data"
    <2>1. file' = Append(file, Create(db.tables[index + 1])) /\ pc = "step_tables"
      BY <1>1 DEF StepTables
    <2>2. Create(db.tables[index + 1]).kind = "create"
      BY DEF Create
    <2> QED
      BY <1>1, <2>1, <2>2, Written
  <1>2. CASE PrepareTables /\ pc' = "step_tables"
    <2>1. file' = <<Begin>> /\ Selected = 0 /\ pc = "prepare_tables"
      BY <1>2 DEF PrepareTables, AtLabel
    <2> QED
      BY <1>2, <2>1, Begun
  <1>3. ASSUME ~(StepTables /\ pc' = "prepare_data"), ~(PrepareTables /\ pc' = "step_tables")
        PROVE  /\ IsFile' /\ Selected' = Selected
               /\ ~(pc = "step_tables" /\ pc' = "prepare_data")
    <2>1. \/ UNCHANGED file
          \/ \E r : file' = Append(file, Insert(db.tables[index], r))
          \/ file' = Append(file, Trigger(db.triggers[index + 1]))
          \/ file' = Append(file, Commit)
      BY <1>3 DEF Step, Fopen, PrepareTables, StepTables, PrepareData, StepData, AddRow,
                  PrepareTriggers, StepTriggers, Exit
    <2>2. /\ \A r : Insert(db.tables[index], r).kind = "insert"
          /\ Trigger(db.triggers[index + 1]).kind = "trigger" /\ Commit.kind = "commit"
      BY DEF Insert, Trigger, Commit
    <2>3. IsFile' /\ Selected' = Selected
      <3>1. CASE UNCHANGED file
        BY <3>1, Unwritten
      <3>2. ASSUME NEW x, file' = Append(file, x), x.kind # "create"
            PROVE  IsFile' /\ Selected' = Selected
        BY <3>2, Written
      <3> QED
        BY <2>1, <2>2, <3>1, <3>2
    <2>4. ~(pc = "step_tables" /\ pc' = "prepare_data")
      BY <1>3 DEF Step, Fopen, PrepareTables, PrepareData, StepData, PrepareTriggers,
                  StepTriggers, Exit
    <2> QED
      BY <2>3, <2>4
  <1> QED
    BY <1>1, <1>2, <1>3

(* At the next label as many statements are alive as it says.               *)
LEMMA StepAtLabel ==
    ASSUME NEW n \in Nat, NEW m, Sets, pc \in Label, AtLabel(n), Step,
           IF pc = "step_tables" /\ pc' = "prepare_data" THEN m = n + 1 ELSE m = n
    PROVE  AtLabel(m)'
  <1> USE DEF AtLabel, Fails
  <1>3. CASE Fopen
    BY <1>3 DEF Fopen, Left
  <1>4. CASE PrepareTables
    BY <1>4 DEF PrepareTables, One, Left
  <1>5. CASE StepTables
    BY <1>5 DEF StepTables, One, Left
  <1>6. CASE PrepareData
    BY <1>6 DEF PrepareData, One, Left
  <1>7. CASE StepData
    BY <1>7 DEF StepData, AddRow
  <1>8. CASE PrepareTriggers
    BY <1>8 DEF PrepareTriggers, FinalizeTables, One, Left
  <1>9. CASE StepTriggers
    BY <1>9 DEF StepTriggers, One, Left
  <1>10. CASE Exit
    <2>1. Cardinality(stmt) = One("table") + One("data")
      BY Finalizes
    <2>2. alive = One("table") + One("data") + Left(n)
      BY <1>10 DEF Exit
    <2>3. One("table") \in Nat /\ One("data") \in Nat /\ Left(n) \in Nat
      BY DEF One, Left
    <2>4. active' = {} /\ alive' = Left(n) /\ pc' = "done" /\ m = n
      BY <1>10, <2>1, <2>2, <2>3 DEF Exit, Finalized, Sets
    <2> QED
      BY <2>4 DEF Left
  <1> QED
    BY <1>3, <1>4, <1>5, <1>6, <1>7, <1>8, <1>9, <1>10 DEF Step

(* The invariant is kept by every step of the call ...                      *)
LEMMA StepInv ==
    ASSUME IInv, Step
    PROVE  IInv'
  <1>1. /\ IsFile /\ Selected \in Nat /\ Sets /\ AtLabel(Selected) /\ Told
        /\ pc \in Label
    BY Zenon DEF IInv, Told
  <1>2. PICK n : n = Selected
    OBVIOUS
  <1>3. PICK m : m = Selected'
    OBVIOUS
  <1>4. IsFile' /\ (IF pc = "step_tables" /\ pc' = "prepare_data" THEN m = n + 1 ELSE m = n)
    BY <1>1, <1>2, <1>3, StepFile, Zenon
  <1>5. n \in Nat /\ AtLabel(n)
    BY <1>1, <1>2, Zenon
  <1>6. m \in Nat
    BY <1>4, <1>5
  <1>7. AtLabel(m)'
    BY <1>1, <1>4, <1>5, StepAtLabel
  <1>8. AtLabel(Selected)'
    BY <1>3, <1>7, Zenon DEF AtLabel
  <1>9. Told' /\ Sets'
    BY <1>1, StepTold, StepSets
  <1> QED
    BY <1>3, <1>4, <1>6, <1>8, <1>9, Zenon DEF IInv

(* ... and by the commits of others, which change none of it.               *)
LEMMA NextInv == IInv /\ [Next]_vars => IInv'
  <1> SUFFICES ASSUME IInv, [Next]_vars PROVE IInv'
    OBVIOUS
  <1>1. CASE UNCHANGED dump
    <2>1. Selected' = Selected /\ IsFile'
      BY <1>1, Unwritten DEF dump, IInv
    <2> QED
      BY <1>1, <2>1 DEF dump, IInv, AtLabel, One, Sets, Told
  <1>2. Write => UNCHANGED dump
    BY DEF Write, CreateTable, CreateTrigger, DropTable, InsertRow, Writes
  <1> QED
    BY <1>1, <1>2, StepInv DEF Next, vars

(* At the end the file is closed, the database unlocked, and of the tables  *)
(* that were selected all but the last have a statement left that nobody    *)
(* will finalize; the return value says that the file could be opened and   *)
(* nothing else.                                                            *)
THEOREM LeftToTheCallerHolds == Spec => []LeftToTheCaller
  <1>1. IInv => LeftToTheCaller
    BY DEF IInv, AtLabel, Told, Left, LeftToTheCaller, ReadLocked
  <1> QED
    BY InitInv, NextInv, <1>1, PTL DEF Spec
-----------------------------------------------------------------------------
(* What is written are statements.                                          *)
LEMMA StepTyped ==
    ASSUME DbInv, Place, Typed, Step
    PROVE  Typed'
  <1>1. /\ db.tables \in Seq(Table) /\ db.triggers \in Seq(Name)
        /\ \A t \in Table : db.rows[t] \in Seq(Row)
    BY LastIsLegal, Parts
  <1>2. /\ file \in Seq(Statement) /\ failed \in BOOLEAN /\ lost \in BOOLEAN /\ index \in Nat /\ row \in Nat
        /\ ret \in {"OK", "ROW", "DONE", "error", "-1"}
    BY ConstantsAssumption DEF Typed, Place
  <1>3. \A x \in Statement : Append(file, x) \in Seq(Statement)
    BY <1>2
  <1>4. pc' \in Label /\ ret' \in {"OK", "ROW", "DONE", "error", "-1"} /\ failed' \in BOOLEAN
        /\ lost' \in BOOLEAN
    <2>1. CASE Fopen \/ PrepareTables
      BY <1>2, <2>1 DEF Fopen, PrepareTables, Fails, MayLose, Label
    <2>2. CASE StepTables \/ PrepareData
      BY <1>2, <2>2 DEF StepTables, PrepareData, Fails, Fprintf, MayLose, Label
    <2>3. CASE StepData
      BY <1>2, <2>3 DEF StepData, AddRow, Fails, Fprintf, MayLose, Label
    <2>4. CASE PrepareTriggers \/ StepTriggers
      BY <1>2, <2>4 DEF PrepareTriggers, StepTriggers, Fails, Fprintf, MayLose, Label
    <2>5. CASE Exit
      BY <1>2, <2>5 DEF Exit, MayLose, Label
    <2> QED
      BY <2>1, <2>2, <2>3, <2>4, <2>5 DEF Step
  <1>5. CASE UNCHANGED file
    BY <1>2, <1>4, <1>5 DEF Typed
  <1>6. ASSUME NEW x \in Statement, file' = Append(file, x)
        PROVE  Typed'
    BY <1>3, <1>4, <1>6 DEF Typed
  <1>7. CASE PrepareTables
    <2>1. file' = <<Begin>> \/ UNCHANGED file
      BY <1>7 DEF PrepareTables
    <2>2. <<Begin>> \in Seq(Statement)
      BY Brackets
    <2> QED
      BY <1>4, <1>5, <2>1, <2>2 DEF Typed
  <1>8. CASE StepTables
    <2>1. \/ UNCHANGED file
          \/ index < Len(db.tables) /\ file' = Append(file, Create(db.tables[index + 1]))
      BY <1>8 DEF StepTables, Fprintf
    <2>2. index < Len(db.tables) => db.tables[index + 1] \in Table
      BY <1>1, <1>2
    <2> QED
      BY <1>5, <1>6, <2>1, <2>2, Statements
  <1>9. CASE StepData
    <2>1. index \in 1..Len(db.tables) /\ pc = "step_data"
      BY <1>9 DEF StepData, Place
    <2>2. db.tables[index] \in Table /\ Rows \in Seq(Row)
      BY <2>1, TableAt DEF Rows
    <2>3. \/ UNCHANGED file
          \/ row < Len(Rows) /\ file' = Append(file, Insert(db.tables[index], Rows[row + 1]))
          \/ file' = Append(file, Insert(db.tables[index], "nulled"))
      BY <1>9 DEF StepData, AddRow, Fprintf
    <2>4. row < Len(Rows) => Rows[row + 1] \in Row
      BY <1>2, <2>2
    <2>5. \A r \in Row \cup {"nulled"} : Insert(db.tables[index], r) \in Statement
      BY <2>2, Statements
    <2> QED
      BY <1>5, <1>6, <2>3, <2>4, <2>5
  <1>10. CASE StepTriggers
    <2>1. \/ UNCHANGED file
          \/ index < Len(db.triggers) /\ file' = Append(file, Trigger(db.triggers[index + 1]))
          \/ file' = Append(file, Commit)
      BY <1>10 DEF StepTriggers, Fprintf
    <2>2. index < Len(db.triggers) => db.triggers[index + 1] \in Name
      BY <1>1, <1>2
    <2> QED
      BY <1>5, <1>6, <2>1, <2>2, TriggerType, Brackets
  <1>11. CASE Fopen \/ PrepareData \/ PrepareTriggers \/ Exit
    BY <1>5, <1>11 DEF Fopen, PrepareData, PrepareTriggers, Exit
  <1> QED
    BY <1>7, <1>8, <1>9, <1>10, <1>11 DEF Step

(* The typed state, and what there is in it of the database.                *)
DInv == IInv /\ DbInv /\ Place /\ Typed

(* All of it holds before the call ...                                      *)
LEMMA InitDInv == Init => DInv
  BY InitInv, InitPlace DEF DInv

(* ... and every step of the call or of others keeps it.                    *)
LEMMA NextDInv == DInv /\ [Next]_vars => DInv'
  <1> SUFFICES ASSUME DInv, [Next]_vars PROVE DInv'
    OBVIOUS
  <1>1. IInv /\ DbInv /\ Place /\ Typed
    BY DEF DInv
  <1>2. IInv'
    BY <1>1, NextInv
  <1>3. CASE Step
    <2>1. UNCHANGED versions /\ Place' /\ Typed'
      BY <1>1, <1>3, StepPlace, StepTyped
    <2>2. DbInv'
      BY <1>1, <2>1 DEF DbInv
    <2> QED
      BY <1>2, <2>1, <2>2 DEF DInv
  <1>4. CASE Write
    <2>1. Commits
      BY <1>1, <1>4, WriteCommits
    <2>2. Place' /\ DbInv' /\ UNCHANGED dump
      BY <1>1, <2>1, CommitPlace DEF Commits
    <2>3. Typed'
      BY <1>1, <2>2 DEF Typed, dump
    <2> QED
      BY <1>2, <2>2, <2>3 DEF DInv
  <1>5. CASE UNCHANGED vars
    <2>1. UNCHANGED <<versions, pc, ret, index, row, active, file, lost, failed>>
      BY <1>5 DEF vars, dump
    <2>2. DbInv' /\ Typed'
      BY <1>1, <2>1 DEF DbInv, Typed
    <2>3. db' = db /\ Rows' = Rows
      BY <2>1 DEF db, Rows
    <2>4. InVersion'
      BY <1>1, <2>1 DEF Place, InVersion
    <2>5. Place'
      BY <1>1, <2>1, <2>3, <2>4 DEF Place
    <2> QED
      BY <1>2, <2>2, <2>5 DEF DInv
  <1> QED
    BY <1>3, <1>4, <1>5 DEF Next

(* Each statement alive is the one over the tables, or one of a table that  *)
(* was selected.                                                            *)
LEMMA AliveBound ==
    ASSUME IInv, file \in Seq(Statement)
    PROVE  alive \in 0..Len(file) + 1
  <1>1. Selected \in Nat /\ AtLabel(Selected) /\ pc \in Label
    BY DEF IInv, Told
  <1>2. Selected <= Len(file)
    <2> DEFINE C == {i \in DOMAIN file : file[i].kind = "create"}
    <2>1. DOMAIN file = 1..Len(file) /\ Len(file) \in Nat /\ C \in SUBSET (1..Len(file))
      OBVIOUS
    <2>2. IsFiniteSet(1..Len(file)) /\ Cardinality(1..Len(file)) = Len(file)
      BY <2>1, FS_Interval
    <2>3. Cardinality(C) <= Cardinality(1..Len(file))
      BY <2>1, <2>2, FS_Subset
    <2> QED
      BY <2>2, <2>3 DEF Selected
  <1>3. alive \in 0..Selected + 1
    <2>1. One("table") \in 0..1 /\ One("data") \in 0..1
      BY DEF One
    <2>2. CASE pc = "exit"
      <3>1. alive = One("table") + One("data") + Left(Selected) /\ ("data" \in stmt => Selected > 0)
        BY <1>1, <2>2 DEF AtLabel
      <3>2. Selected = 0 => One("data") = 0
        BY <1>1, <3>1 DEF One
      <3> QED
        BY <1>1, <2>1, <3>1, <3>2 DEF Left
    <2>3. CASE pc = "done"
      BY <1>1, <2>3 DEF AtLabel, Left
    <2>4. CASE pc \in {"fopen", "prepare_tables", "prepare_data"}
      BY <1>1, <2>4 DEF AtLabel
    <2>5. CASE pc \in {"step_tables", "prepare_triggers", "step_triggers", "step_data", "undefined"}
      BY <1>1, <2>5 DEF AtLabel
    <2> QED
      BY <1>1, <2>2, <2>3, <2>4, <2>5 DEF Label
  <1> QED
    BY <1>1, <1>2, <1>3

(* Every value has its type; a bound of the type that takes the invariant:  *)
(* index never leaves the tables or triggers of a version that there was,   *)
(* and there are never more statements than the file has, and one.          *)
THEOREM TypeCorrect == Spec => []TypeOK
  <1>1. DInv => TypeOK
    <2> SUFFICES ASSUME DInv PROVE TypeOK
      OBVIOUS
    <2>1. Sets /\ Told /\ DbInv /\ Place /\ Typed /\ alive \in 0..Len(file) + 1
      BY AliveBound DEF DInv, IInv, Typed
    <2> QED
      BY <2>1 DEF Sets, Told, DbInv, Place, Typed, InVersion, TypeOK, Label
  <1> QED
    BY InitDInv, NextDInv, <1>1, PTL DEF Spec
-----------------------------------------------------------------------------
(* How many elements of s are in Q, and how many there are with one more.   *)
Count(s, Q) == Cardinality({i \in DOMAIN s : s[i] \in Q})

(* An element more counts if it is in Q.                                    *)
LEMMA CountMore ==
    ASSUME NEW S, NEW s \in Seq(S), NEW x \in S, NEW Q
    PROVE  /\ Count(s, Q) \in Nat
           /\ Count(Append(s, x), Q) = Count(s, Q) + (IF x \in Q THEN 1 ELSE 0)
  <1> DEFINE C == {i \in DOMAIN s : s[i] \in Q}
             D == {i \in DOMAIN Append(s, x) : Append(s, x)[i] \in Q}
             n == Len(s)
  <1>1. /\ DOMAIN s = 1..n /\ DOMAIN Append(s, x) = 1..n + 1 /\ n \in Nat
        /\ \A i \in 1..n : Append(s, x)[i] = s[i]
        /\ Append(s, x)[n + 1] = x
    OBVIOUS
  <1>2. IsFiniteSet(C) /\ n + 1 \notin C
    <2>1. IsFiniteSet(1..n) /\ C \in SUBSET (1..n)
      BY <1>1, FS_Interval
    <2> QED
      BY <1>1, <2>1, FS_Subset
  <1>3. D = IF x \in Q THEN C \cup {n + 1} ELSE C
    BY <1>1
  <1>4. Cardinality(C \cup {n + 1}) = Cardinality(C) + 1 /\ Cardinality(C) \in Nat
    BY <1>2, FS_AddElement, FS_CardinalityType
  <1>5. Count(s, Q) = Cardinality(C) /\ Count(Append(s, x), Q) = Cardinality(D)
    BY DEF Count
  <1> HIDE DEF C, D
  <1> QED
    BY <1>3, <1>4, <1>5

(* The tables in what is written, and the rows of t.                        *)
CreatesIn(s) == Cardinality({i \in DOMAIN s : s[i].kind = "create"})
RowsIn(s, t) == Cardinality({i \in DOMAIN s : s[i].kind = "insert" /\ s[i].table = t})

(* A statement more counts if it creates a table, or inserts into t.        *)
LEMMA CountsMore ==
    ASSUME NEW s \in Seq(Statement), NEW x \in Statement
    PROVE  /\ CreatesIn(s) \in Nat
           /\ CreatesIn(Append(s, x)) = CreatesIn(s) + (IF x.kind = "create" THEN 1 ELSE 0)
           /\ \A t \in Table :
                 /\ RowsIn(s, t) \in Nat
                 /\ RowsIn(Append(s, x), t)
                       = RowsIn(s, t) + (IF x.kind = "insert" /\ x.table = t THEN 1 ELSE 0)
  <1>1. /\ Append(s, x) \in Seq(Statement)
        /\ \A i \in DOMAIN s : s[i] \in Statement
        /\ \A i \in DOMAIN Append(s, x) : Append(s, x)[i] \in Statement
    <2>1. Append(s, x) \in Seq(Statement)
      OBVIOUS
    <2>2. ASSUME NEW q \in Seq(Statement), NEW i \in DOMAIN q
          PROVE  q[i] \in Statement
      BY <2>2
    <2> QED
      BY <2>1, <2>2
  <1>2. /\ CreatesIn(s) \in Nat
        /\ CreatesIn(Append(s, x)) = CreatesIn(s) + (IF x.kind = "create" THEN 1 ELSE 0)
    <2> DEFINE Q == {y \in Statement : y.kind = "create"}
    <2>1. /\ {i \in DOMAIN s : s[i] \in Q} = {i \in DOMAIN s : s[i].kind = "create"}
          /\ {i \in DOMAIN Append(s, x) : Append(s, x)[i] \in Q}
                = {i \in DOMAIN Append(s, x) : Append(s, x)[i].kind = "create"}
      BY <1>1, Zenon
    <2>2. CreatesIn(s) = Count(s, Q) /\ CreatesIn(Append(s, x)) = Count(Append(s, x), Q)
      BY <2>1, Zenon DEF CreatesIn, Count
    <2>3. x \in Q <=> x.kind = "create"
      OBVIOUS
    <2> HIDE DEF Q
    <2>4. /\ Count(s, Q) \in Nat
          /\ Count(Append(s, x), Q) = Count(s, Q) + (IF x \in Q THEN 1 ELSE 0)
      BY CountMore
    <2> QED
      BY <2>2, <2>3, <2>4
  <1>3. ASSUME NEW t \in Table
        PROVE  /\ RowsIn(s, t) \in Nat
               /\ RowsIn(Append(s, x), t)
                     = RowsIn(s, t) + (IF x.kind = "insert" /\ x.table = t THEN 1 ELSE 0)
    <2> DEFINE Q == {y \in Statement : y.kind = "insert" /\ y.table = t}
    <2>1. /\ {i \in DOMAIN s : s[i] \in Q}
                = {i \in DOMAIN s : s[i].kind = "insert" /\ s[i].table = t}
          /\ {i \in DOMAIN Append(s, x) : Append(s, x)[i] \in Q}
                = {i \in DOMAIN Append(s, x) :
                      Append(s, x)[i].kind = "insert" /\ Append(s, x)[i].table = t}
      BY <1>1, Zenon
    <2>2. RowsIn(s, t) = Count(s, Q) /\ RowsIn(Append(s, x), t) = Count(Append(s, x), Q)
      BY <2>1, Zenon DEF RowsIn, Count
    <2>3. x \in Q <=> x.kind = "insert" /\ x.table = t
      OBVIOUS
    <2> HIDE DEF Q
    <2>4. /\ Count(s, Q) \in Nat
          /\ Count(Append(s, x), Q) = Count(s, Q) + (IF x \in Q THEN 1 ELSE 0)
      BY CountMore
    <2> QED
      BY <2>2, <2>3, <2>4
  <1> QED
    BY <1>2, <1>3

(* Nothing is in an empty file.                                             *)
LEMMA CountsEmpty == CreatesIn(<<>>) = 0 /\ \A t \in Table : RowsIn(<<>>, t) = 0
  <1>1. /\ {i \in DOMAIN <<>> : <<>>[i].kind = "create"} = {}
        /\ \A t \in Table : {i \in DOMAIN <<>> : <<>>[i].kind = "insert" /\ <<>>[i].table = t} = {}
    OBVIOUS
  <1> QED
    BY <1>1, FS_EmptySet DEF CreatesIn, RowsIn
-----------------------------------------------------------------------------
(* One table of the dump, and a statement of it.                            *)
LEMMA TableDumpType ==
    ASSUME NEW d \in Database, NEW t \in Table
    PROVE  /\ TableDump(d, t) \in Seq(Statement)
           /\ Len(TableDump(d, t)) = Len(d.rows[t]) + 1
           /\ TableDump(d, t)[1] = Create(t)
           /\ \A k \in 0..Len(d.rows[t]) - 1 :
                 TableDump(d, t)[k + 2] = Insert(t, d.rows[t][k + 1])
  <1>1. d.rows[t] \in Seq(Row)
    BY Parts
  <1> DEFINE n == Len(d.rows[t])
             rest == [i \in DOMAIN d.rows[t] |-> Insert(t, d.rows[t][i])]
  <1>2. n \in Nat /\ DOMAIN d.rows[t] = 1..n /\ \A i \in 1..n : d.rows[t][i] \in Row
    BY <1>1
  <1>3. \A i \in 1..n : Insert(t, d.rows[t][i]) \in Statement
    BY <1>2, Statements
  <1>4. rest \in Seq(Statement) /\ Len(rest) = n
    <2>1. rest \in [1..n -> Statement]
      BY <1>2, <1>3
    <2> HIDE DEF rest
    <2> QED
      BY <1>2, <2>1
  <1>5. \A i \in 1..n : rest[i] = Insert(t, d.rows[t][i])
    BY <1>2
  <1>6. Create(t) \in Statement
    BY Statements
  <1> HIDE DEF rest
  <1>7. /\ <<Create(t)>> \o rest \in Seq(Statement) /\ Len(<<Create(t)>> \o rest) = n + 1
        /\ (<<Create(t)>> \o rest)[1] = Create(t)
        /\ \A i \in 1..n : (<<Create(t)>> \o rest)[i + 1] = rest[i]
    BY <1>2, <1>4, <1>6
  <1>8. TableDump(d, t) = <<Create(t)>> \o rest
    BY DEF TableDump, rest
  <1>9. ASSUME NEW k \in 0..n - 1
        PROVE  TableDump(d, t)[k + 2] = Insert(t, d.rows[t][k + 1])
    <2>1. k + 1 \in 1..n /\ (k + 1) + 1 = k + 2
      BY <1>2
    <2>2. TableDump(d, t)[(k + 1) + 1] = rest[k + 1]
      BY <1>7, <1>8, <2>1
    <2> QED
      BY <1>5, <2>1, <2>2
  <1> QED
    BY <1>7, <1>8, <1>9

(* Its first statements.                                                    *)
LEMMA FirstRows ==
    ASSUME NEW d \in Database, NEW t \in Table, NEW k \in Nat, k <= Len(d.rows[t])
    PROVE  /\ SubSeq(TableDump(d, t), 1, k + 1) \in Seq(Statement)
           /\ k = 0 => SubSeq(TableDump(d, t), 1, k + 1) = <<Create(t)>>
           /\ k < Len(d.rows[t]) =>
                 SubSeq(TableDump(d, t), 1, (k + 1) + 1)
                     = Append(SubSeq(TableDump(d, t), 1, k + 1), Insert(t, d.rows[t][k + 1]))
           /\ k = Len(d.rows[t]) => SubSeq(TableDump(d, t), 1, k + 1) = TableDump(d, t)
  <1> DEFINE q == TableDump(d, t)
             n == Len(d.rows[t])
  <1>1. /\ q \in Seq(Statement) /\ Len(q) = n + 1 /\ q[1] = Create(t) /\ n \in Nat
        /\ \A j \in 0..n - 1 : q[j + 2] = Insert(t, d.rows[t][j + 1])
    BY TableDumpType, Parts
  <1> HIDE DEF q, n
  <1>2. SubSeq(q, 1, k + 1) \in Seq(Statement)
    BY <1>1 DEF n
  <1>3. k = 0 => SubSeq(q, 1, k + 1) = <<Create(t)>>
    <2>1. SubSeq(q, 1, 1) = <<q[1]>>
      <3>1. 1 \in 1..Len(q) /\ 1 \in 1..1 /\ 1 - 1 = 0 /\ q[1] \in Statement
        BY <1>1
      <3>2. SubSeq(q, 1, 1) = SubSeq(q, 1, 0) \o <<q[1]>>
        BY <1>1, <3>1, SubSeqRecursiveSecond
      <3>3. SubSeq(q, 1, 0) = <<>>
        BY <1>1
      <3>4. ASSUME NEW x \in Statement PROVE <<>> \o <<x>> = <<x>>
        OBVIOUS
      <3> QED
        BY <3>1, <3>2, <3>3, <3>4, Zenon
    <2> QED
      BY <1>1, <2>1
  <1>4. ASSUME k < n
        PROVE  SubSeq(q, 1, (k + 1) + 1) = Append(SubSeq(q, 1, k + 1), Insert(t, d.rows[t][k + 1]))
    <2>1. /\ (k + 1) + 1 \in 1..Len(q) /\ 1 \in 1..Len(q) /\ ((k + 1) + 1) - 1 = k + 1
          /\ k \in 0..n - 1 /\ (k + 1) + 1 = k + 2
      BY <1>1, <1>4
    <2>2. SubSeq(q, 1, (k + 1) + 1) = SubSeq(q, 1, k + 1) \o <<q[(k + 1) + 1]>>
      BY <1>1, <2>1, SubSeqRecursiveSecond
    <2>3. q[(k + 1) + 1] = Insert(t, d.rows[t][k + 1])
      BY <1>1, <2>1
    <2>4. Insert(t, d.rows[t][k + 1]) \in Statement
      BY <1>1, <2>1, <2>3
    <2> QED
      BY <1>2, <2>2, <2>3, <2>4, AppendIsConcat
  <1>5. k = n => SubSeq(q, 1, k + 1) = q
    BY <1>1, SubSeqFull
  <1> QED
    BY <1>2, <1>3, <1>4, <1>5 DEF q, n
-----------------------------------------------------------------------------
(* A function on 1..n + 1 is that on 1..n, and one value more.              *)
LEMMA Longer ==
    ASSUME NEW S, NEW n \in Nat, NEW g, \A i \in 1..n + 1 : g[i] \in S
    PROVE  /\ [i \in 1..n |-> g[i]] \in Seq(S) /\ g[n + 1] \in S
           /\ [i \in 1..n + 1 |-> g[i]] = Append([i \in 1..n |-> g[i]], g[n + 1])
  <1> DEFINE a == [i \in 1..n |-> g[i]]
             b == [i \in 1..n + 1 |-> g[i]]
  <1>1. n + 1 \in Nat /\ n + 1 \in 1..n + 1 /\ \A i \in 1..n : i \in 1..n + 1
    OBVIOUS
  <1>2. a \in [1..n -> S] /\ b \in [1..n + 1 -> S] /\ g[n + 1] \in S
    BY <1>1
  <1>3. /\ \A i \in 1..n : a[i] = g[i]
        /\ \A i \in 1..n + 1 : b[i] = g[i]
    BY <1>1
  <1> HIDE DEF a, b
  <1>4. a \in Seq(S) /\ Len(a) = n /\ b \in Seq(S) /\ Len(b) = n + 1
    BY <1>1, <1>2
  <1>5. /\ Append(a, g[n + 1]) \in Seq(S) /\ Len(Append(a, g[n + 1])) = n + 1
        /\ Append(a, g[n + 1])[n + 1] = g[n + 1]
        /\ \A i \in 1..n : Append(a, g[n + 1])[i] = a[i]
    BY <1>2, <1>4
  <1>6. ASSUME NEW i \in 1..Len(b) PROVE b[i] = Append(a, g[n + 1])[i]
    <2>1. i \in 1..n \/ i = n + 1
      BY <1>4
    <2> QED
      BY <1>1, <1>3, <1>5, <2>1
  <1>7. b = Append(a, g[n + 1])
    BY <1>4, <1>5, <1>6, SeqEqual
  <1> QED
    BY <1>2, <1>4, <1>7 DEF a, b

(* A statement more on both sides.                                          *)
LEMMA NullsMore ==
    ASSUME NEW s \in Seq(Statement), NEW t \in Seq(Statement), IsButForNulls(s, t),
           NEW x \in Statement, NEW y \in Statement,
           x = y \/ (y.kind = "insert" /\ x = Insert(y.table, "nulled"))
    PROVE  IsButForNulls(Append(s, x), Append(t, y))
  <1>1. /\ Len(s) = Len(t) /\ Len(s) \in Nat /\ DOMAIN s = 1..Len(s)
        /\ \A i \in 1..Len(s) :
              s[i] = t[i] \/ (t[i].kind = "insert" /\ s[i] = Insert(t[i].table, "nulled"))
    BY DEF IsButForNulls
  <1>2. /\ Len(Append(s, x)) = Len(s) + 1 /\ DOMAIN Append(s, x) = 1..Len(s) + 1
        /\ Append(s, x)[Len(s) + 1] = x
        /\ \A i \in 1..Len(s) : Append(s, x)[i] = s[i]
    OBVIOUS
  <1>3. /\ Len(Append(t, y)) = Len(t) + 1
        /\ Append(t, y)[Len(t) + 1] = y
        /\ \A i \in 1..Len(t) : Append(t, y)[i] = t[i]
    OBVIOUS
  <1>4. \A i \in 1..Len(s) + 1 : i \in 1..Len(s) \/ i = Len(s) + 1
    BY <1>1
  <1> QED
    BY <1>1, <1>2, <1>3, <1>4 DEF IsButForNulls
-----------------------------------------------------------------------------
(* The first n tables of d, each with as many rows as s has of it.          *)
CutPart(s, d) ==
    [i \in DOMAIN d.tables |-> SubSeq(TableDump(d, d.tables[i]), 1, RowsIn(s, d.tables[i]) + 1)]
CutParts(s, d, n) == [i \in 1..n |-> CutPart(s, d)[i]]

Fits(s, d) == \A t \in Table : RowsIn(s, t) \in Nat /\ RowsIn(s, t) <= Len(d.rows[t])

CutAt(s, d, n) ==
    /\ s \in Seq(Statement) /\ n \in 0..Len(d.tables)
    /\ CreatesIn(s) = n
    /\ Fits(s, d)
    /\ \A t \in Table : RowsIn(s, t) > 0 => \E i \in 1..n : d.tables[i] = t
    /\ IsButForNulls(s, FlattenSeq(CutParts(s, d, n)))

(* Each part is one.                                                        *)
LEMMA CutPartType ==
    ASSUME NEW s, NEW d \in Database, Fits(s, d)
    PROVE  /\ Len(d.tables) \in Nat /\ DOMAIN d.tables = 1..Len(d.tables)
           /\ \A i \in 1..Len(d.tables) :
                 /\ d.tables[i] \in Table
                 /\ CutPart(s, d)[i]
                       = SubSeq(TableDump(d, d.tables[i]), 1, RowsIn(s, d.tables[i]) + 1)
                 /\ CutPart(s, d)[i] \in Seq(Statement)
  <1>1. d.tables \in Seq(Table)
    BY Parts
  <1>2. /\ Len(d.tables) \in Nat /\ DOMAIN d.tables = 1..Len(d.tables)
        /\ \A i \in 1..Len(d.tables) : d.tables[i] \in Table
    BY <1>1
  <1>3. ASSUME NEW i \in 1..Len(d.tables)
        PROVE  /\ CutPart(s, d)[i]
                     = SubSeq(TableDump(d, d.tables[i]), 1, RowsIn(s, d.tables[i]) + 1)
               /\ CutPart(s, d)[i] \in Seq(Statement)
    <2>1. CutPart(s, d)[i]
              = SubSeq(TableDump(d, d.tables[i]), 1, RowsIn(s, d.tables[i]) + 1)
      BY <1>2 DEF CutPart
    <2>2. /\ d.tables[i] \in Table /\ RowsIn(s, d.tables[i]) \in Nat
          /\ RowsIn(s, d.tables[i]) <= Len(d.rows[d.tables[i]])
      BY <1>2 DEF Fits
    <2> QED
      BY <2>1, <2>2, FirstRows
  <1> QED
    BY <1>2, <1>3

(* One part more is put behind the others.                                  *)
LEMMA CutPartsMore ==
    ASSUME NEW s, NEW d \in Database, Fits(s, d), NEW n \in Nat, n + 1 <= Len(d.tables)
    PROVE  /\ CutParts(s, d, n) \in Seq(Seq(Statement))
           /\ FlattenSeq(CutParts(s, d, n)) \in Seq(Statement)
           /\ FlattenSeq(CutParts(s, d, n + 1))
                 = FlattenSeq(CutParts(s, d, n)) \o CutPart(s, d)[n + 1]
  <1> DEFINE a == CutParts(s, d, n)
             x == CutPart(s, d)[n + 1]
  <1>1. \A i \in 1..n + 1 : CutPart(s, d)[i] \in Seq(Statement)
    BY CutPartType
  <1>2. a \in Seq(Seq(Statement)) /\ x \in Seq(Statement) /\ CutParts(s, d, n + 1) = Append(a, x)
    BY <1>1, Longer DEF CutParts
  <1> HIDE DEF a, x
  <1>3. FlattenSeq(Append(a, x)) = FlattenSeq(a) \o x /\ FlattenSeq(a) \in Seq(Statement)
    BY <1>2, FlattenAppend, FlattenType
  <1> QED
    BY <1>2, <1>3 DEF a, x

(* All parts are statements.                                                *)
LEMMA CutPartsType ==
    ASSUME NEW s, NEW d \in Database, Fits(s, d), NEW n \in 0..Len(d.tables)
    PROVE  FlattenSeq(CutParts(s, d, n)) \in Seq(Statement)
  <1>1. \A i \in 1..n : CutPart(s, d)[i] \in Seq(Statement)
    BY CutPartType
  <1>2. CutParts(s, d, n) \in [1..n -> Seq(Statement)]
    BY <1>1 DEF CutParts
  <1>3. CutParts(s, d, n) \in Seq(Seq(Statement))
    BY <1>2
  <1> QED
    BY <1>3, FlattenType

(* The parts are the same if as many rows of their tables are in.           *)
LEMMA CutPartsSame ==
    ASSUME NEW s, NEW q, NEW d \in Database, NEW n \in Nat, n <= Len(d.tables),
           \A i \in 1..n : RowsIn(q, d.tables[i]) = RowsIn(s, d.tables[i])
    PROVE  CutParts(q, d, n) = CutParts(s, d, n)
  <1>1. Len(d.tables) \in Nat /\ DOMAIN d.tables = 1..Len(d.tables)
    BY Parts
  <1>2. \A i \in 1..n : CutPart(q, d)[i] = CutPart(s, d)[i]
    BY <1>1 DEF CutPart
  <1> QED
    BY <1>2 DEF CutParts

(* The invariant is what the property asks, and nothing is cut of nothing.  *)
LEMMA CutIsCut ==
    ASSUME NEW s, NEW d \in Database, NEW n, CutAt(s, d, n)
    PROVE  IsCutOf(s, d)
  <1>1. Len(d.tables) \in Nat /\ DOMAIN d.tables = 1..Len(d.tables)
    BY Parts
  <1>2. n \in Nat /\ n <= Len(d.tables) /\ CreatesIn(s) = n
    BY <1>1 DEF CutAt
  <1>3. \A t \in Table : RowsIn(s, t) <= Len(d.rows[t])
    BY DEF CutAt, Fits
  <1>4. CutParts(s, d, n)
            = [i \in 1..n |-> SubSeq(TableDump(d, d.tables[i]), 1, RowsIn(s, d.tables[i]) + 1)]
    <2>1. \A i \in 1..n : i \in DOMAIN d.tables
      BY <1>1, <1>2
    <2>2. \A i \in 1..n : CutPart(s, d)[i]
              = SubSeq(TableDump(d, d.tables[i]), 1, RowsIn(s, d.tables[i]) + 1)
      BY <2>1, Zenon DEF CutPart
    <2> QED
      BY <2>2, Zenon DEF CutParts
  <1>5. IsButForNulls(s, FlattenSeq([i \in 1..CreatesIn(s) |->
            SubSeq(TableDump(d, d.tables[i]), 1, RowsIn(s, d.tables[i]) + 1)]))
    BY <1>2, <1>4, Zenon DEF CutAt
  <1> QED
    BY <1>2, <1>3, <1>5, Zenon DEF IsCutOf, CreatesIn, RowsIn

(* Nothing is a cut of every database ...                                   *)
LEMMA CutEmpty ==
    ASSUME NEW d \in Database
    PROVE  CutAt(<<>>, d, 0)
  <1>1. Len(d.tables) \in Nat /\ \A t \in Table : Len(d.rows[t]) \in Nat
    BY Parts
  <1>2. CutParts(<<>>, d, 0) = <<>>
    BY DEF CutParts
  <1>3. FlattenSeq(CutParts(<<>>, d, 0)) = <<>>
    BY <1>2, FlattenEmpty
  <1>4. IsButForNulls(<<>>, <<>>) /\ <<>> \in Seq(Statement)
    BY DEF IsButForNulls
  <1>5. Fits(<<>>, d)
    BY <1>1, CountsEmpty DEF Fits
  <1> QED
    BY <1>1, <1>3, <1>4, <1>5, CountsEmpty DEF CutAt

(* ... and a cut without a table is nothing.                                *)
LEMMA CutOfNone ==
    ASSUME NEW s, NEW d, CutAt(s, d, 0)
    PROVE  s = <<>>
  <1>1. CutParts(s, d, 0) = <<>>
    BY DEF CutParts
  <1>2. FlattenSeq(CutParts(s, d, 0)) = <<>>
    BY <1>1, FlattenEmpty
  <1>3. Len(s) = 0 /\ s \in Seq(Statement)
    BY <1>2 DEF CutAt, IsButForNulls
  <1> QED
    BY <1>3
-----------------------------------------------------------------------------
(* The statement that creates the next table.                               *)
LEMMA CutCreate ==
    ASSUME NEW d \in Database, IsInjective(d.tables), NEW s, NEW n,
           CutAt(s, d, n), n < Len(d.tables)
    PROVE  /\ CutAt(Append(s, Create(d.tables[n + 1])), d, n + 1)
           /\ RowsIn(Append(s, Create(d.tables[n + 1])), d.tables[n + 1]) = 0
  <1> DEFINE x == Create(d.tables[n + 1])
             q == Append(s, x)
  <1>1. /\ s \in Seq(Statement) /\ n \in 0..Len(d.tables) /\ CreatesIn(s) = n /\ Fits(s, d)
        /\ \A t \in Table : RowsIn(s, t) > 0 => \E i \in 1..n : d.tables[i] = t
        /\ IsButForNulls(s, FlattenSeq(CutParts(s, d, n)))
    BY DEF CutAt
  <1>2. /\ Len(d.tables) \in Nat /\ DOMAIN d.tables = 1..Len(d.tables)
        /\ \A i \in 1..Len(d.tables) : d.tables[i] \in Table
        /\ \A t \in Table : Len(d.rows[t]) \in Nat
    BY <1>1, CutPartType, Parts
  <1>3. n \in Nat /\ n + 1 \in 1..Len(d.tables) /\ d.tables[n + 1] \in Table
    BY <1>1, <1>2
  <1>4. x \in Statement /\ x.kind = "create"
    BY <1>3, Statements DEF Create
  <1> HIDE DEF x
  <1>5. q \in Seq(Statement)
    BY <1>1, <1>4
  <1>6. /\ CreatesIn(q) = n + 1
        /\ \A t \in Table : RowsIn(q, t) = RowsIn(s, t) /\ RowsIn(s, t) \in Nat
    BY <1>1, <1>4, CountsMore
  <1> HIDE DEF q
  <1>7. RowsIn(q, d.tables[n + 1]) = 0
    <2>1. \A i \in 1..n : i \in 1..Len(d.tables) /\ i # n + 1
      BY <1>2, <1>3
    <2>2. \A i \in 1..n : d.tables[i] # d.tables[n + 1]
      BY <1>2, <1>3, <2>1, Zenon DEF IsInjective
    <2> QED
      BY <1>1, <1>3, <1>6, <2>2
  <1>8. Fits(q, d)
    BY <1>1, <1>6 DEF Fits
  <1>9. CutParts(q, d, n) = CutParts(s, d, n)
    <2>1. \A i \in 1..n : RowsIn(q, d.tables[i]) = RowsIn(s, d.tables[i])
      BY <1>2, <1>3, <1>6
    <2> QED
      BY <1>3, <2>1, CutPartsSame
  <1>10. CutPart(q, d)[n + 1] = <<x>>
    <2>1. CutPart(q, d)[n + 1] = SubSeq(TableDump(d, d.tables[n + 1]), 1, 0 + 1)
      BY <1>3, <1>7, <1>8, CutPartType
    <2>2. 0 \in Nat /\ 0 <= Len(d.rows[d.tables[n + 1]])
      BY <1>2, <1>3
    <2>3. SubSeq(TableDump(d, d.tables[n + 1]), 1, 0 + 1) = <<Create(d.tables[n + 1])>>
      BY <1>3, <2>2, FirstRows
    <2> QED
      BY <2>1, <2>3, Zenon DEF x
  <1>11. /\ FlattenSeq(CutParts(s, d, n)) \in Seq(Statement)
         /\ FlattenSeq(CutParts(q, d, n + 1)) = Append(FlattenSeq(CutParts(s, d, n)), x)
    <2>1. /\ FlattenSeq(CutParts(q, d, n)) \in Seq(Statement)
          /\ FlattenSeq(CutParts(q, d, n + 1))
                = FlattenSeq(CutParts(q, d, n)) \o CutPart(q, d)[n + 1]
      BY <1>2, <1>3, <1>8, CutPartsMore
    <2> QED
      BY <1>4, <1>9, <1>10, <2>1, AppendIsConcat
  <1>12. IsButForNulls(q, FlattenSeq(CutParts(q, d, n + 1)))
    BY <1>1, <1>4, <1>11, NullsMore DEF q
  <1>13. \A t \in Table : RowsIn(q, t) > 0 => \E i \in 1..n + 1 : d.tables[i] = t
    BY <1>1, <1>3, <1>6
  <1>14. CutAt(q, d, n + 1)
    BY <1>2, <1>3, <1>5, <1>6, <1>8, <1>12, <1>13 DEF CutAt
  <1> QED
    BY <1>7, <1>14 DEF q, x

(* The statement that inserts the next row into the last table, which may   *)
(* have lost a value.                                                       *)
LEMMA CutInsert ==
    ASSUME NEW d \in Database, IsInjective(d.tables), NEW s, NEW n, CutAt(s, d, n), n > 0,
           NEW k \in Nat, k = RowsIn(s, d.tables[n]), k < Len(d.rows[d.tables[n]]),
           NEW x, \/ x = Insert(d.tables[n], d.rows[d.tables[n]][k + 1])
                  \/ x = Insert(d.tables[n], "nulled")
    PROVE  /\ CutAt(Append(s, x), d, n)
           /\ RowsIn(Append(s, x), d.tables[n]) = k + 1
  <1> DEFINE q == Append(s, x)
             u == d.tables[n]
             y == Insert(u, d.rows[u][k + 1])
             m == n - 1
  <1>1. /\ s \in Seq(Statement) /\ n \in 0..Len(d.tables) /\ CreatesIn(s) = n /\ Fits(s, d)
        /\ \A t \in Table : RowsIn(s, t) > 0 => \E i \in 1..n : d.tables[i] = t
        /\ IsButForNulls(s, FlattenSeq(CutParts(s, d, n)))
    BY DEF CutAt
  <1>2. /\ Len(d.tables) \in Nat /\ DOMAIN d.tables = 1..Len(d.tables)
        /\ \A i \in 1..Len(d.tables) : d.tables[i] \in Table
        /\ \A t \in Table : d.rows[t] \in Seq(Row) /\ Len(d.rows[t]) \in Nat
    BY <1>1, CutPartType, Parts
  <1>3. /\ n \in 1..Len(d.tables) /\ n \in Nat /\ u \in Table
        /\ m \in Nat /\ m + 1 = n /\ m + 1 <= Len(d.tables) /\ m <= Len(d.tables)
    BY <1>1, <1>2
  <1>4. d.rows[u][k + 1] \in Row
    BY <1>2, <1>3
  <1>5. x \in Statement /\ x.kind = "insert" /\ x.table = u
        /\ y \in Statement /\ y.kind = "insert" /\ y.table = u
        /\ (x = y \/ x = Insert(y.table, "nulled"))
    BY <1>3, <1>4, Statements DEF Insert
  <1> HIDE DEF m, u
  <1>6. q \in Seq(Statement)
    BY <1>1, <1>5
  <1>7. /\ CreatesIn(q) = n
        /\ \A t \in Table : RowsIn(q, t) = (IF t = u THEN k + 1 ELSE RowsIn(s, t))
                            /\ RowsIn(s, t) \in Nat
    <2>1. k = RowsIn(s, u)
      BY DEF u
    <2>2. /\ CreatesIn(q) = CreatesIn(s) + (IF x.kind = "create" THEN 1 ELSE 0)
          /\ \A t \in Table :
                /\ RowsIn(s, t) \in Nat
                /\ RowsIn(q, t)
                      = RowsIn(s, t) + (IF x.kind = "insert" /\ x.table = t THEN 1 ELSE 0)
      BY <1>1, <1>5, CountsMore, Zenon
    <2> HIDE DEF q
    <2> QED
      BY <1>1, <1>3, <1>5, <2>1, <2>2
  <1> HIDE DEF q, y
  <1>8. Fits(q, d)
    BY <1>1, <1>2, <1>3, <1>7 DEF Fits, u
  <1>9. CutParts(q, d, m) = CutParts(s, d, m)
    <2>1. \A i \in 1..m : i \in 1..Len(d.tables) /\ i # n
      BY <1>2, <1>3
    <2>2. \A i \in 1..m : d.tables[i] # u /\ d.tables[i] \in Table
      BY <1>2, <1>3, <2>1, Zenon DEF IsInjective, u
    <2>3. \A i \in 1..m : RowsIn(q, d.tables[i]) = RowsIn(s, d.tables[i])
      BY <1>7, <2>2
    <2> QED
      BY <1>3, <2>3, CutPartsSame
  <1>10. CutPart(s, d)[n] \in Seq(Statement) /\ CutPart(q, d)[n] = Append(CutPart(s, d)[n], y)
    <2>1. /\ CutPart(s, d)[n] = SubSeq(TableDump(d, u), 1, k + 1)
          /\ CutPart(s, d)[n] \in Seq(Statement)
      BY <1>1, <1>3, CutPartType DEF u
    <2>2. CutPart(q, d)[n] = SubSeq(TableDump(d, u), 1, (k + 1) + 1)
      BY <1>3, <1>7, <1>8, CutPartType DEF u
    <2>3. k <= Len(d.rows[u]) /\ k < Len(d.rows[u])
      BY <1>2, <1>3 DEF u
    <2>4. SubSeq(TableDump(d, u), 1, (k + 1) + 1) = Append(SubSeq(TableDump(d, u), 1, k + 1), y)
      BY <1>3, <2>3, FirstRows DEF y
    <2> QED
      BY <2>1, <2>2, <2>4
  <1>11. /\ FlattenSeq(CutParts(s, d, n)) \in Seq(Statement)
         /\ FlattenSeq(CutParts(q, d, n)) = Append(FlattenSeq(CutParts(s, d, n)), y)
    <2> DEFINE a == FlattenSeq(CutParts(s, d, m))
               b == CutPart(s, d)[n]
               c == FlattenSeq(CutParts(s, d, n))
    <2>1. a \in Seq(Statement) /\ c = a \o b
      BY <1>1, <1>3, CutPartsMore
    <2>2. FlattenSeq(CutParts(q, d, n)) = a \o Append(b, y)
      BY <1>3, <1>8, <1>9, <1>10, CutPartsMore
    <2>3. b \in Seq(Statement)
      BY <1>10
    <2> HIDE DEF a, b, c
    <2>4. c \in Seq(Statement)
      BY <2>1, <2>3
    <2>5. a \o Append(b, y) = Append(a \o b, y)
      <3>1. Append(b, y) = b \o <<y>> /\ Append(a \o b, y) = (a \o b) \o <<y>>
        BY <1>5, <2>1, <2>3, <2>4, AppendIsConcat
      <3>2. <<y>> \in Seq(Statement)
        BY <1>5
      <3>3. Regroups(a, b, <<y>>)
        BY <2>1, <2>3, <3>2, Regroup, Zenon
      <3> QED
        BY <3>1, <3>3 DEF Regroups
    <2> QED
      BY <2>1, <2>2, <2>4, <2>5 DEF c
  <1>12. IsButForNulls(q, FlattenSeq(CutParts(q, d, n)))
    BY <1>1, <1>5, <1>11, NullsMore DEF q
  <1>13. \A t \in Table : RowsIn(q, t) > 0 => \E i \in 1..n : d.tables[i] = t
    <2>1. n \in 1..n
      BY <1>3
    <2> QED
      BY <1>1, <1>7, <2>1 DEF u
  <1>14. CutAt(q, d, n)
    BY <1>1, <1>6, <1>7, <1>8, <1>12, <1>13 DEF CutAt
  <1> QED
    BY <1>3, <1>7, <1>14 DEF q, u
-----------------------------------------------------------------------------
(* What of a statement goes into the part with the tables.                  *)
PartOf == [x \in Statement |-> IF x.kind \in {"create", "insert"} THEN <<x>> ELSE <<>>]

(* The part with the tables takes or leaves each statement on its own.      *)
LEMMA PartIsEach ==
    ASSUME NEW s \in Seq(Statement)
    PROVE  FlattenSeq([i \in DOMAIN s |->
               IF s[i].kind \in {"create", "insert"} THEN <<s[i]>> ELSE <<>>]) = Each(PartOf, s)
  <1>1. \A i \in DOMAIN s : s[i] \in Statement
    OBVIOUS
  <1>2. \A i \in DOMAIN s : PartOf[s[i]]
            = IF s[i].kind \in {"create", "insert"} THEN <<s[i]>> ELSE <<>>
    BY <1>1, Zenon DEF PartOf
  <1>3. [i \in DOMAIN s |-> IF s[i].kind \in {"create", "insert"} THEN <<s[i]>> ELSE <<>>]
            = Mapped(PartOf, s)
    BY <1>2, Zenon DEF Mapped
  <1> QED
    BY <1>3, Zenon DEF Each

(* A statement more in the file.                                            *)
LEMMA PartMore ==
    ASSUME file \in Seq(Statement), NEW x \in Statement, file' = Append(file, x)
    PROVE  TablePart' = IF x.kind \in {"create", "insert"} THEN Append(TablePart, x) ELSE TablePart
  <1>1. PartOf \in [Statement -> Seq(Statement)]
    BY DEF PartOf
  <1>2. file' = file \o <<x>> /\ file' \in Seq(Statement)
    BY AppendIsConcat
  <1>3. TablePart' = Each(PartOf, file') /\ TablePart = Each(PartOf, file)
    BY <1>2, PartIsEach, Zenon DEF TablePart
  <1>4. AddsOne(PartOf, file, x)
    BY <1>1, EachMore, Zenon
  <1>5. TablePart' = TablePart \o PartOf[x]
    BY <1>2, <1>3, <1>4 DEF AddsOne
  <1>6. TablePart \in Seq(Statement)
    BY <1>1, <1>3, EachType
  <1>7. PartOf[x] = IF x.kind \in {"create", "insert"} THEN <<x>> ELSE <<>>
    BY DEF PartOf
  <1>8. TablePart \o <<x>> = Append(TablePart, x) /\ TablePart \o <<>> = TablePart
    BY <1>6, AppendIsConcat
  <1> QED
    BY <1>5, <1>7, <1>8, Zenon
-----------------------------------------------------------------------------
(* The part with the tables is cut of a version there was.                  *)
CutOfOne == \E v \in DOMAIN versions : \E n \in Nat : CutAt(TablePart, versions[v], n)

(* As long as the statement over the tables is active that is the last one. *)
CutOfLast ==
    /\ pc \in {"step_tables", "prepare_data", "step_data"} => CutAt(TablePart, db, index)
    /\ pc = "prepare_data" => RowsIn(TablePart, db.tables[index]) = 0
    /\ pc = "step_data" => RowsIn(TablePart, db.tables[index]) = row

(* What is cut of the last version is cut of a version.                     *)
LEMMA LastIsOne ==
    ASSUME DbInv, NEW n \in Nat, CutAt(TablePart, db, n)
    PROVE  CutOfOne
  BY LastIsLegal DEF CutOfOne

(* Nothing is written before the call.                                      *)
LEMMA InitCut == Init => CutOfOne /\ CutOfLast
  <1> SUFFICES ASSUME Init PROVE CutOfOne /\ CutOfLast
    OBVIOUS
  <1>1. DbInv /\ file = <<>> /\ pc = "fopen"
    BY InitPlace DEF Init
  <1>2. TablePart = <<>>
    <2>1. <<>> \in Seq(Statement)
      OBVIOUS
    <2> QED
      BY <1>1, <2>1, PartIsEach, EachEmpty DEF TablePart
  <1>3. CutAt(TablePart, db, 0)
    BY <1>1, <1>2, LastIsLegal, CutEmpty
  <1> QED
    BY <1>1, <1>3, LastIsOne DEF CutOfLast

(* A step of the call writes the next statement of the same version, or     *)
(* none.                                                                    *)
LEMMA StepCut ==
    ASSUME DbInv, Place, Typed, CutOfOne, CutOfLast, Step
    PROVE  CutOfOne' /\ CutOfLast'
  <1>1. UNCHANGED versions /\ db' = db /\ Place'
    BY StepPlace DEF db
  <1>2. /\ file \in Seq(Statement) /\ index \in Nat /\ row \in Nat
        /\ db \in Database /\ IsInjective(db.tables) /\ DbInv'
        /\ db.tables \in Seq(Table) /\ db.triggers \in Seq(Name)
    <2>1. db \in Database /\ IsInjective(db.tables)
      BY LastIsLegal DEF Legal, Consistent
    <2>2. DbInv'
      BY <1>1 DEF DbInv
    <2> QED
      BY <2>1, <2>2, Parts, ConstantsAssumption DEF Typed, Place
  <1>3. ASSUME TablePart' = TablePart
        PROVE  CutOfOne'
    BY <1>1, <1>3 DEF CutOfOne
  <1>4. ASSUME NEW n \in Nat, CutAt(TablePart', db, n)
        PROVE  CutOfOne'
    <2>1. CutAt(TablePart', db', n)
      BY <1>1, <1>4
    <2> QED
      BY <1>2, <2>1, LastIsLegal, <1>1 DEF CutOfOne
  <1>5. UNCHANGED file => TablePart' = TablePart
    BY DEF TablePart
  <1>6. CASE Fopen \/ PrepareTriggers \/ Exit
    <2>1. UNCHANGED file /\ pc' \notin {"step_tables", "prepare_data", "step_data"}
      BY <1>6 DEF Fopen, PrepareTriggers, Exit, Fails
    <2> QED
      BY <1>3, <1>5, <2>1 DEF CutOfLast
  <1>7. CASE PrepareTables
    <2>1. \/ UNCHANGED file /\ pc' = "exit"
          \/ file' = <<Begin>> /\ pc' = "step_tables" /\ UNCHANGED index /\ pc = "prepare_tables"
      BY <1>7 DEF PrepareTables, Fails
    <2>2. CASE UNCHANGED file /\ pc' = "exit"
      BY <1>3, <1>5, <2>2 DEF CutOfLast
    <2>3. CASE file' = <<Begin>> /\ pc' = "step_tables" /\ UNCHANGED index /\ pc = "prepare_tables"
      <3>1. index' = 0
        BY <2>3 DEF Place
      <3>2. TablePart' = <<>>
        <4>1. <<Begin>> \in Seq(Statement) /\ PartOf[Begin] = <<>> /\ Begin \in Statement
              /\ PartOf \in [Statement -> Seq(Statement)]
          BY Brackets DEF PartOf, Begin
        <4>2. Each(PartOf, <<Begin>>) = <<>>
          BY <4>1, EachOne
        <4> QED
          BY <2>3, <4>1, <4>2, PartIsEach DEF TablePart
      <3>3. CutAt(TablePart', db, 0)
        BY <1>2, <3>2, CutEmpty
      <3>4. CutAt(TablePart', db', index')
        BY <1>1, <3>1, <3>3
      <3> QED
        BY <1>4, <2>3, <3>3, <3>4 DEF CutOfLast
    <2> QED
      BY <2>1, <2>2, <2>3
  <1>8. CASE StepTables
    <2>1. pc = "step_tables" /\ CutAt(TablePart, db, index)
      BY <1>8 DEF StepTables, CutOfLast
    <2>2. \/ UNCHANGED file /\ pc' \in {"prepare_triggers", "exit"}
          \/ /\ index < Len(db.tables) /\ index' = index + 1 /\ pc' = "prepare_data"
             /\ file' = Append(file, Create(db.tables[index + 1]))
      BY <1>8 DEF StepTables, Fails, Fprintf
    <2>3. CASE UNCHANGED file /\ pc' \in {"prepare_triggers", "exit"}
      BY <1>3, <1>5, <2>3 DEF CutOfLast
    <2>4. CASE /\ index < Len(db.tables) /\ index' = index + 1 /\ pc' = "prepare_data"
               /\ file' = Append(file, Create(db.tables[index + 1]))
      <3>1. db.tables[index + 1] \in Table
        BY <1>2, <2>4
      <3>2. Create(db.tables[index + 1]) \in Statement /\ Create(db.tables[index + 1]).kind = "create"
        BY <3>1, Statements DEF Create
      <3>3. TablePart' = Append(TablePart, Create(db.tables[index + 1]))
        BY <1>2, <2>4, <3>2, PartMore
      <3>4. /\ CutAt(TablePart', db, index + 1) /\ index + 1 \in Nat
            /\ RowsIn(TablePart', db.tables[index + 1]) = 0
        BY <1>2, <2>1, <2>4, <3>3, CutCreate
      <3>5. CutAt(TablePart', db', index') /\ RowsIn(TablePart', db'.tables[index']) = 0
        BY <1>1, <2>4, <3>4
      <3> QED
        BY <1>4, <2>4, <3>4, <3>5 DEF CutOfLast
    <2> QED
      BY <2>2, <2>3, <2>4
  <1>9. CASE PrepareData
    <2>1. /\ UNCHANGED <<file, index>> /\ pc' \in {"step_data", "exit"} /\ row' = 0
          /\ pc = "prepare_data"
      BY <1>9 DEF PrepareData, Fails
    <2>2. CutAt(TablePart, db, index) /\ RowsIn(TablePart, db.tables[index]) = 0
      BY <2>1 DEF CutOfLast
    <2>3. CutAt(TablePart', db', index') /\ RowsIn(TablePart', db'.tables[index']) = row'
      BY <1>1, <1>5, <2>1, <2>2
    <2> QED
      BY <1>3, <1>5, <2>1, <2>3 DEF CutOfLast
  <1>10. CASE StepData
    <2>1. /\ pc = "step_data" /\ UNCHANGED index
          /\ \/ UNCHANGED file /\ pc' \in {"step_tables", "undefined"}
             \/ /\ row < Len(Rows) /\ row' = row + 1 /\ pc' = "step_data"
                /\ \/ file' = Append(file, Insert(db.tables[index], Rows[row + 1]))
                   \/ file' = Append(file, Insert(db.tables[index], "nulled"))
      BY <1>10 DEF StepData, Fails, AddRow, Fprintf
    <2>2. /\ CutAt(TablePart, db, index) /\ RowsIn(TablePart, db.tables[index]) = row
          /\ index \in 1..Len(db.tables)
      BY <2>1 DEF CutOfLast, Place
    <2>3. CASE UNCHANGED file /\ pc' \in {"step_tables", "undefined"}
      <3>1. CutAt(TablePart', db', index')
        BY <1>1, <1>5, <2>1, <2>2, <2>3
      <3> QED
        BY <1>3, <1>5, <2>3, <3>1 DEF CutOfLast
    <2>4. ASSUME NEW x, file' = Append(file, x), row < Len(Rows), row' = row + 1,
                 pc' = "step_data",
                 \/ x = Insert(db.tables[index], Rows[row + 1])
                 \/ x = Insert(db.tables[index], "nulled")
          PROVE  CutOfOne' /\ CutOfLast'
      <3>1. db.tables[index] \in Table /\ Rows \in Seq(Row) /\ Rows = db.rows[db.tables[index]]
        BY <2>2, TableAt DEF Rows
      <3>2. Rows[row + 1] \in Row
        BY <1>2, <2>4, <3>1
      <3>3. x \in Statement /\ x.kind = "insert"
        BY <2>4, <3>1, <3>2, Statements DEF Insert
      <3>4. TablePart' = Append(TablePart, x)
        BY <1>2, <2>4, <3>3, PartMore
      <3>5. index > 0 /\ row < Len(db.rows[db.tables[index]])
        BY <1>2, <2>2, <2>4, <3>1
      <3>6. \/ x = Insert(db.tables[index], db.rows[db.tables[index]][row + 1])
            \/ x = Insert(db.tables[index], "nulled")
        BY <2>4, <3>1
      <3>7. /\ CutAt(TablePart', db, index)
            /\ RowsIn(TablePart', db.tables[index]) = row + 1
        <4>1. /\ CutAt(Append(TablePart, x), db, index)
              /\ RowsIn(Append(TablePart, x), db.tables[index]) = row + 1
          BY <1>2, <2>2, <3>5, <3>6, CutInsert
        <4> QED
          BY <3>4, <4>1, Zenon
      <3>8. CutAt(TablePart', db', index') /\ RowsIn(TablePart', db'.tables[index']) = row'
        BY <1>1, <2>1, <2>4, <3>7
      <3> QED
        BY <1>2, <1>4, <2>4, <3>7, <3>8 DEF CutOfLast
    <2> QED
      BY <2>1, <2>3, <2>4
  <1>11. CASE StepTriggers
    <2>1. /\ \/ UNCHANGED file
             \/ index < Len(db.triggers) /\ file' = Append(file, Trigger(db.triggers[index + 1]))
             \/ file' = Append(file, Commit)
          /\ pc' \in {"step_triggers", "exit"}
      BY <1>11 DEF StepTriggers, Fails, Fprintf
    <2>2. index < Len(db.triggers) => db.triggers[index + 1] \in Name
      BY <1>2
    <2>3. /\ Commit \in Statement /\ Commit.kind = "commit"
          /\ \A t : Trigger(t).kind = "trigger"
      BY Brackets DEF Commit, Trigger
    <2>4. TablePart' = TablePart
      BY <1>2, <1>5, <2>1, <2>2, <2>3, PartMore, TriggerType
    <2> QED
      BY <1>3, <2>1, <2>4 DEF CutOfLast
  <1> QED
    BY <1>6, <1>7, <1>8, <1>9, <1>10, <1>11 DEF Step

(* A commit meets the call where it has read nothing of the tables, or is   *)
(* through with them.                                                       *)
LEMMA CommitCut ==
    ASSUME DbInv, Place, CutOfOne, CutOfLast, Commits
    PROVE  CutOfOne' /\ CutOfLast'
  <1>1. /\ active = {} /\ UNCHANGED <<pc, index, row, active, file>> /\ DbInv'
        /\ DOMAIN versions \subseteq DOMAIN versions'
        /\ \A v \in DOMAIN versions : versions'[v] = versions[v]
        /\ db' \in Database
    BY DEF Commits, ReadLocked, dump, Legal
  <1>2. TablePart' = TablePart
    BY <1>1 DEF TablePart
  <1>3. CutOfOne'
    BY <1>1, <1>2 DEF CutOfOne
  <1>4. pc \notin {"prepare_data", "step_data"}
    BY <1>1 DEF Place
  <1>5. ASSUME pc = "step_tables" PROVE CutAt(TablePart', db', index')
    <2>1. index = 0 /\ CutAt(TablePart, db, 0)
      BY <1>1, <1>5 DEF Place, CutOfLast
    <2>2. TablePart = <<>>
      BY <2>1, CutOfNone
    <2>3. CutAt(<<>>, db', 0)
      BY <1>1, CutEmpty
    <2> QED
      BY <1>1, <1>2, <2>1, <2>2, <2>3
  <1> QED
    BY <1>1, <1>3, <1>4, <1>5 DEF CutOfLast

(* The file stays cut of one version, whoever steps.                        *)
LEMMA NextCut == DInv /\ CutOfOne /\ CutOfLast /\ [Next]_vars => CutOfOne' /\ CutOfLast'
  <1> SUFFICES ASSUME DInv, CutOfOne, CutOfLast, [Next]_vars PROVE CutOfOne' /\ CutOfLast'
    OBVIOUS
  <1>1. DbInv /\ Place /\ Typed
    BY DEF DInv
  <1>2. CASE Step
    BY <1>1, <1>2, StepCut
  <1>3. CASE Write
    BY <1>1, <1>3, WriteCommits, CommitCut
  <1>4. CASE UNCHANGED vars
    <2>1. UNCHANGED <<versions, pc, index, row, file>>
      BY <1>4 DEF vars, dump
    <2>2. TablePart' = TablePart /\ db' = db
      BY <2>1 DEF TablePart, db
    <2> QED
      BY <2>1, <2>2 DEF CutOfOne, CutOfLast
  <1> QED
    BY <1>2, <1>3, <1>4 DEF Next

(* Whatever fails and whoever commits, the tables and rows in the file are  *)
(* of one version of the database and in its order: the statement over the  *)
(* tables keeps SHARED from the first table to the last, and an error only  *)
(* cuts short.                                                              *)
THEOREM TablesAreOfOneVersion == Spec => []TablesOfOneVersion
  <1>1. DInv /\ CutOfOne => TablesOfOneVersion
    <2> SUFFICES ASSUME DInv, CutOfOne PROVE TablesOfOneVersion
      OBVIOUS
    <2>1. PICK v \in DOMAIN versions : \E n \in Nat : CutAt(TablePart, versions[v], n)
      BY DEF CutOfOne
    <2>2. versions[v] \in Database
      BY DEF DInv, DbInv, Legal
    <2> QED
      BY <2>1, <2>2, CutIsCut DEF TablesOfOneVersion
  <1> QED
    BY InitDInv, NextDInv, InitCut, NextCut, <1>1, PTL DEF Spec
-----------------------------------------------------------------------------
(* All of a script runs; x runs behind it.                                  *)
AllRun(s) == \A i \in DOMAIN s : Runs(s, i)

RunsAfter(s, x) ==
    /\ x.kind = "create" => x.table \notin Reserved
    /\ x.kind = "insert" => x.row # "altered" /\ Creates(s, x.table)
    /\ x.kind = "trigger" => Creates(s, x.table)

(* One statement more creates a table, or the script does without it.       *)
LEMMA CreatesMore ==
    ASSUME NEW s \in Seq(Statement), NEW x, NEW t
    PROVE  Creates(Append(s, x), t) <=> Creates(s, t) \/ x = Create(t)
  <1>1. /\ DOMAIN s = 1..Len(s) /\ DOMAIN Append(s, x) = 1..Len(s) + 1 /\ Len(s) \in Nat
        /\ Append(s, x)[Len(s) + 1] = x
        /\ \A i \in 1..Len(s) : Append(s, x)[i] = s[i] /\ i \in 1..Len(s) + 1
        /\ \A i \in 1..Len(s) + 1 : i \in 1..Len(s) \/ i = Len(s) + 1
        /\ Len(s) + 1 \in 1..Len(s) + 1
    OBVIOUS
  <1> QED
    BY <1>1, Zenon DEF Creates

(* Which statements are which.                                              *)
LEMMA Kinds ==
    ASSUME NEW t, NEW r
    PROVE  /\ Create(t).kind = "create" /\ Create(t).table = t
           /\ Insert(t, r).kind = "insert" /\ Insert(t, r).table = t /\ Insert(t, r).row = r
           /\ Trigger(t).kind = "trigger" /\ Trigger(t).table = t
           /\ Begin.kind = "begin" /\ Commit.kind = "commit"
  BY DEF Create, Insert, Trigger, Begin, Commit

(* What it takes for a statement to run.                                    *)
LEMMA RunsMeans ==
    ASSUME NEW s, NEW i, s[i] \in Statement
    PROVE  Runs(s, i) <=>
             /\ s[i].kind = "create" => s[i].table \notin Reserved
             /\ s[i].kind = "insert" =>
                   s[i].row # "altered" /\ Creates(SubSeq(s, 1, i), s[i].table)
             /\ s[i].kind = "trigger" => Creates(SubSeq(s, 1, i), s[i].table)
  <1>1. CASE s[i].kind = "create"
    BY <1>1 DEF Runs
  <1>2. CASE s[i].kind = "insert"
    BY <1>2 DEF Runs
  <1>3. CASE s[i].kind = "trigger"
    BY <1>3 DEF Runs
  <1>4. CASE s[i].kind \notin {"create", "insert", "trigger"}
    BY <1>4 DEF Runs
  <1> QED
    BY <1>1, <1>2, <1>3, <1>4

(* A script runs with one statement more if it runs without and that one    *)
(* does.                                                                    *)
LEMMA AllRunMore ==
    ASSUME NEW s \in Seq(Statement), NEW x \in Statement
    PROVE  AllRun(Append(s, x)) <=> AllRun(s) /\ RunsAfter(s, x)
  <1> DEFINE q == Append(s, x)
             n == Len(s)
  <1>1. /\ q \in Seq(Statement) /\ Len(q) = n + 1 /\ n \in Nat
        /\ DOMAIN s = 1..n /\ DOMAIN q = 1..n + 1
        /\ q[n + 1] = x
        /\ \A i \in 1..n : q[i] = s[i]
    OBVIOUS
  <1>2. \A t : Creates(q, t) <=> Creates(s, t) \/ x = Create(t)
    BY CreatesMore
  <1> HIDE DEF q, n
  <1>3. ASSUME NEW i \in 1..n
        PROVE  Runs(q, i) <=> Runs(s, i)
    <2>1. i \in 1..Len(q) /\ i \in 1..Len(s) /\ i \in Nat
      BY <1>1 DEF n
    <2>2. SubSeq(q, 1, i) = SubSeq(s, 1, i)
      <3>1. /\ Len(SubSeq(q, 1, i)) = i /\ SubSeq(q, 1, i) \in Seq(Statement)
            /\ Len(SubSeq(s, 1, i)) = i /\ SubSeq(s, 1, i) \in Seq(Statement)
            /\ \A j \in 1..i : SubSeq(q, 1, i)[j] = q[j] /\ SubSeq(s, 1, i)[j] = s[j]
        BY <1>1, <2>1
      <3>2. \A j \in 1..i : q[j] = s[j]
        BY <1>1, <2>1
      <3> QED
        BY <3>1, <3>2, SeqEqual
    <2>3. q[i] = s[i] /\ s[i] \in Statement
      BY <1>1, <2>1
    <2> QED
      BY <2>2, <2>3, RunsMeans
  <1>4. Runs(q, n + 1) <=> RunsAfter(s, x)
    <2>1. SubSeq(q, 1, n + 1) = q
      BY <1>1, SubSeqFull
    <2>2. \A t : x = Create(t) => x.kind = "create"
      BY Kinds
    <2>3. Runs(q, n + 1) <=>
             /\ x.kind = "create" => x.table \notin Reserved
             /\ x.kind = "insert" => x.row # "altered" /\ Creates(q, x.table)
             /\ x.kind = "trigger" => Creates(q, x.table)
      BY <1>1, <2>1, RunsMeans
    <2> QED
      BY <1>2, <2>2, <2>3 DEF RunsAfter
  <1>5. \A i \in 1..n + 1 : i \in 1..n \/ i = n + 1
    BY <1>1
  <1>6. n + 1 \in 1..n + 1 /\ \A i \in 1..n : i \in 1..n + 1
    BY <1>1
  <1>7. AllRun(q) <=> AllRun(s) /\ RunsAfter(s, x)
    BY <1>1, <1>3, <1>4, <1>5, <1>6, Zenon DEF AllRun
  <1> QED
    BY <1>7 DEF q
-----------------------------------------------------------------------------
(* The dump of the first n tables of d.                                     *)
Dumps(d) == [i \in DOMAIN d.tables |-> TableDump(d, d.tables[i])]
FirstTables(d, n) == FlattenSeq([i \in 1..n |-> Dumps(d)[i]])

(* One table more.                                                          *)
LEMMA FirstTablesMore ==
    ASSUME NEW d \in Database, NEW n \in Nat, n + 1 <= Len(d.tables)
    PROVE  /\ FirstTables(d, n) \in Seq(Statement)
           /\ d.tables[n + 1] \in Table
           /\ FirstTables(d, n + 1) = FirstTables(d, n) \o TableDump(d, d.tables[n + 1])
  <1>1. d.tables \in Seq(Table)
    BY Parts
  <1>2. /\ Len(d.tables) \in Nat /\ DOMAIN d.tables = 1..Len(d.tables)
        /\ \A i \in 1..Len(d.tables) : d.tables[i] \in Table
        /\ n + 1 \in 1..Len(d.tables)
    BY <1>1
  <1>3. \A i \in 1..Len(d.tables) : Dumps(d)[i] = TableDump(d, d.tables[i])
    BY <1>2 DEF Dumps
  <1>4. \A i \in 1..n + 1 : Dumps(d)[i] \in Seq(Statement)
    BY <1>2, <1>3, TableDumpType
  <1> DEFINE a == [i \in 1..n |-> Dumps(d)[i]]
             x == Dumps(d)[n + 1]
  <1>5. a \in Seq(Seq(Statement)) /\ x \in Seq(Statement) /\ [i \in 1..n + 1 |-> Dumps(d)[i]] = Append(a, x)
    BY <1>4, Longer
  <1> HIDE DEF a, x
  <1>6. FlattenSeq(Append(a, x)) = FlattenSeq(a) \o x /\ FlattenSeq(a) \in Seq(Statement)
    BY <1>5, FlattenAppend, FlattenType
  <1>7. x = TableDump(d, d.tables[n + 1])
    BY <1>2, <1>3 DEF x
  <1>8. FirstTables(d, n) = FlattenSeq(a) /\ FirstTables(d, n + 1) = FlattenSeq(Append(a, x))
    BY <1>5 DEF FirstTables, a
  <1> QED
    BY <1>2, <1>6, <1>7, <1>8

(* No table.                                                                *)
LEMMA FirstTablesNone ==
    ASSUME NEW d
    PROVE  FirstTables(d, 0) = <<>>
  <1>1. [i \in 1..0 |-> Dumps(d)[i]] = <<>>
    OBVIOUS
  <1> QED
    BY <1>1, FlattenEmpty DEF FirstTables

(* All tables.                                                              *)
LEMMA FirstTablesAll ==
    ASSUME NEW d \in Database
    PROVE  FirstTables(d, Len(d.tables)) = TablesDump(d) /\ TablesDump(d) \in Seq(Statement)
  <1>1. d.tables \in Seq(Table)
    BY Parts
  <1>2. /\ Len(d.tables) \in Nat /\ DOMAIN d.tables = 1..Len(d.tables)
        /\ \A i \in 1..Len(d.tables) : d.tables[i] \in Table
    BY <1>1
  <1>3. \A i \in 1..Len(d.tables) : Dumps(d)[i] \in Seq(Statement)
    BY <1>2, TableDumpType DEF Dumps
  <1>4. [i \in 1..Len(d.tables) |-> Dumps(d)[i]] = Dumps(d)
    BY <1>2 DEF Dumps
  <1>5. Dumps(d) \in [1..Len(d.tables) -> Seq(Statement)]
    BY <1>2, <1>3 DEF Dumps
  <1>6. Dumps(d) \in Seq(Seq(Statement))
    BY <1>2, <1>5
  <1> QED
    BY <1>4, <1>6, FlattenType DEF FirstTables, TablesDump, Dumps

(* The triggers of e.                                                       *)
LEMMA TriggersDumpType ==
    ASSUME NEW e \in Database
    PROVE  /\ TriggersDump(e) \in Seq(Statement)
           /\ Len(TriggersDump(e)) = Len(e.triggers) /\ Len(e.triggers) \in Nat
           /\ \A i \in 1..Len(e.triggers) :
                 e.triggers[i] \in Name /\ TriggersDump(e)[i] = Trigger(e.triggers[i])
  <1>1. e.triggers \in Seq(Name)
    BY Parts
  <1>2. /\ Len(e.triggers) \in Nat /\ DOMAIN e.triggers = 1..Len(e.triggers)
        /\ \A i \in 1..Len(e.triggers) : e.triggers[i] \in Name
    BY <1>1
  <1>3. \A i \in 1..Len(e.triggers) : Trigger(e.triggers[i]) \in Statement
    BY <1>2, TriggerType
  <1> DEFINE q == [i \in 1..Len(e.triggers) |-> Trigger(e.triggers[i])]
  <1>4. q \in [1..Len(e.triggers) -> Statement] /\ \A i \in 1..Len(e.triggers) : q[i] = Trigger(e.triggers[i])
    BY <1>3
  <1>5. TriggersDump(e) = q
    BY <1>2 DEF TriggersDump
  <1> HIDE DEF q
  <1>6. q \in Seq(Statement) /\ Len(q) = Len(e.triggers)
    BY <1>2, <1>4
  <1> QED
    BY <1>2, <1>4, <1>5, <1>6

(* One trigger more.                                                        *)
LEMMA FirstTriggers ==
    ASSUME NEW e \in Database, NEW k \in Nat, k + 1 <= Len(e.triggers)
    PROVE  /\ SubSeq(TriggersDump(e), 1, k) \in Seq(Statement)
           /\ SubSeq(TriggersDump(e), 1, k + 1)
                 = SubSeq(TriggersDump(e), 1, k) \o <<Trigger(e.triggers[k + 1])>>
  <1> DEFINE q == TriggersDump(e)
  <1>1. /\ q \in Seq(Statement) /\ Len(q) = Len(e.triggers) /\ Len(e.triggers) \in Nat
        /\ \A i \in 1..Len(e.triggers) : q[i] = Trigger(e.triggers[i])
    BY TriggersDumpType
  <1> HIDE DEF q
  <1>2. 1 \in 1..Len(q) /\ k + 1 \in 1..Len(q) /\ k + 1 \in 1..Len(e.triggers) /\ (k + 1) - 1 = k
    BY <1>1
  <1>3. SubSeq(q, 1, k + 1) = SubSeq(q, 1, k) \o <<q[k + 1]>>
    BY <1>1, <1>2, SubSeqRecursiveSecond
  <1>4. SubSeq(q, 1, k) \in Seq(Statement)
    BY <1>1, <1>2
  <1> QED
    BY <1>1, <1>2, <1>3, <1>4 DEF q
-----------------------------------------------------------------------------
(* A table that a script may create, and whose rows it may insert.          *)
Fine(d, t) == t \notin Reserved /\ "altered" \notin ToSet(d.rows[t])
FineFirst(d, n) == \A i \in 1..n : Fine(d, d.tables[i])

(* The script creates the first n tables of d and nothing else.             *)
CreatesFirst(s, d, n) == \A t \in Name : Creates(s, t) <=> \E i \in 1..n : d.tables[i] = t

(* The script has the first n tables of d ...                               *)
Whole(s, d, n) ==
    /\ n \in 0..Len(d.tables)
    /\ s = <<Begin>> \o FirstTables(d, n)
    /\ CreatesFirst(s, d, n)
    /\ AllRun(s) <=> FineFirst(d, n)

(* ... and k rows of the next one.                                          *)
Within(s, d, n, k) ==
    /\ n \in Nat /\ n + 1 <= Len(d.tables)
    /\ k \in 0..Len(d.rows[d.tables[n + 1]])
    /\ s = <<Begin>> \o (FirstTables(d, n) \o SubSeq(TableDump(d, d.tables[n + 1]), 1, k + 1))
    /\ CreatesFirst(s, d, n + 1)
    /\ AllRun(s) <=> /\ FineFirst(d, n)
                     /\ d.tables[n + 1] \notin Reserved
                     /\ \A j \in 1..k : d.rows[d.tables[n + 1]][j] # "altered"

(* All tables of d, and the first k triggers of e.                          *)
WithTriggers(s, d, e, k) ==
    /\ k \in 0..Len(e.triggers)
    /\ s = (<<Begin>> \o TablesDump(d)) \o SubSeq(TriggersDump(e), 1, k)
    /\ CreatesFirst(s, d, Len(d.tables))
    /\ AllRun(s) <=> /\ FineFirst(d, Len(d.tables))
                     /\ \A j \in 1..k : e.triggers[j] \in ToSet(d.tables)

(* BEGIN is a script.                                                       *)
LEMMA BeginType == <<Begin>> \in Seq(Statement)
  BY Brackets

(* A script of whole tables is one of statements.                           *)
LEMMA WholeType ==
    ASSUME NEW d \in Database, NEW s, NEW n, Whole(s, d, n)
    PROVE  s \in Seq(Statement) /\ n \in Nat
  <1>1. Len(d.tables) \in Nat /\ n \in 0..Len(d.tables) /\ s = <<Begin>> \o FirstTables(d, n)
    BY Parts DEF Whole
  <1>2. FirstTables(d, n) \in Seq(Statement)
    <2>1. CASE n = Len(d.tables)
      BY <2>1, FirstTablesAll
    <2>2. CASE n # Len(d.tables)
      <3>1. n \in Nat /\ n + 1 <= Len(d.tables)
        BY <1>1, <2>2
      <3> QED
        BY <3>1, FirstTablesMore
    <2> QED
      BY <2>1, <2>2
  <1> QED
    BY <1>1, <1>2, BeginType

(* It begins with BEGIN.                                                    *)
LEMMA WholeBegin ==
    ASSUME NEW d \in Database
    PROVE  Whole(<<Begin>>, d, 0)
  <1>1. /\ <<>> \in Seq(Statement) /\ Begin \in Statement /\ Append(<<>>, Begin) = <<Begin>>
        /\ <<Begin>> \o <<>> = <<Begin>>
    BY Brackets
  <1>2. \A t : Creates(<<Begin>>, t) <=> Creates(<<>>, t) \/ Begin = Create(t)
    <2>1. \A t : Creates(Append(<<>>, Begin), t) <=> Creates(<<>>, t) \/ Begin = Create(t)
      BY <1>1, CreatesMore, Zenon
    <2> QED
      BY <1>1, <2>1, Zenon
  <1>3. \A t : ~Creates(<<>>, t) /\ Begin # Create(t)
    <2>1. ASSUME NEW t PROVE Begin # Create(t)
      BY Kinds
    <2> QED
      BY <2>1 DEF Creates
  <1>4. AllRun(<<Begin>>)
    <2>1. AllRun(<<>>)
      BY DEF AllRun
    <2>2. RunsAfter(<<>>, Begin)
      BY Kinds DEF RunsAfter
    <2> QED
      BY <1>1, <2>1, <2>2, AllRunMore
  <1>5. Len(d.tables) \in Nat
    BY Parts
  <1> QED
    BY <1>1, <1>2, <1>3, <1>4, <1>5, FirstTablesNone DEF Whole, CreatesFirst, FineFirst

(* A table begins.                                                          *)
LEMMA WholeCreate ==
    ASSUME NEW d \in Database, NEW s, NEW n, Whole(s, d, n), n < Len(d.tables)
    PROVE  Within(Append(s, Create(d.tables[n + 1])), d, n, 0)
  <1> DEFINE u == d.tables[n + 1]
             x == Create(u)
             q == Append(s, x)
             f == FirstTables(d, n)
  <1>1. /\ s \in Seq(Statement) /\ n \in Nat /\ Len(d.tables) \in Nat /\ n + 1 <= Len(d.tables)
        /\ s = <<Begin>> \o f
    <2>1. s \in Seq(Statement) /\ n \in Nat
      BY WholeType, Zenon
    <2>2. Len(d.tables) \in Nat
      BY Parts
    <2>3. s = <<Begin>> \o f
      BY DEF Whole
    <2>4. n + 1 <= Len(d.tables)
      BY <2>1, <2>2
    <2> QED
      BY <2>1, <2>2, <2>3, <2>4
  <1>2. f \in Seq(Statement) /\ u \in Table
    BY <1>1, FirstTablesMore
  <1>3. Len(d.rows[u]) \in Nat /\ 0 \in 0..Len(d.rows[u])
    BY <1>2, Parts
  <1>4. x \in Statement /\ x.kind = "create" /\ x.table = u
    BY <1>2, Statements, Kinds
  <1>5. SubSeq(TableDump(d, u), 1, 0 + 1) = <<x>>
    BY <1>2, <1>3, FirstRows
  <1> HIDE DEF f
  <1>6. q = <<Begin>> \o (f \o <<x>>)
    <2>1. <<x>> \in Seq(Statement) /\ q = s \o <<x>>
      BY <1>1, <1>4, AppendIsConcat
    <2>2. Regroups(<<Begin>>, f, <<x>>)
      BY <1>2, <2>1, BeginType, Regroup, Zenon
    <2> QED
      BY <1>1, <2>1, <2>2 DEF Regroups
  <1>7. CreatesFirst(q, d, n + 1)
    <2>1. ASSUME NEW t \in Name
          PROVE  Creates(q, t) <=> \E i \in 1..n + 1 : d.tables[i] = t
      <3>1. Creates(q, t) <=> Creates(s, t) \/ x = Create(t)
        BY <1>1, CreatesMore
      <3>2. x = Create(t) <=> u = t
        BY Kinds
      <3>3. Creates(s, t) <=> \E i \in 1..n : d.tables[i] = t
        BY DEF Whole, CreatesFirst
      <3>4. \A i : i \in 1..n + 1 <=> i \in 1..n \/ i = n + 1
        BY <1>1
      <3> QED
        BY <3>1, <3>2, <3>3, <3>4, Zenon
    <2> QED
      BY <2>1 DEF CreatesFirst
  <1>8. AllRun(q) <=> FineFirst(d, n) /\ u \notin Reserved
    <2>1. AllRun(q) <=> AllRun(s) /\ RunsAfter(s, x)
      BY <1>1, <1>4, AllRunMore
    <2>2. RunsAfter(s, x) <=> u \notin Reserved
      BY <1>4 DEF RunsAfter
    <2> QED
      BY <2>1, <2>2 DEF Whole
  <1> HIDE DEF q, x, u
  <1>9. q = <<Begin>> \o (FirstTables(d, n) \o SubSeq(TableDump(d, u), 1, 0 + 1))
    BY <1>5, <1>6 DEF f
  <1>10. Within(q, d, n, 0)
    BY <1>1, <1>3, <1>7, <1>8, <1>9 DEF Within, u
  <1> QED
    BY <1>10 DEF q, x, u

(* So is one that ends within a table.                                      *)
LEMMA WithinType ==
    ASSUME NEW d \in Database, NEW s, NEW n, NEW k, Within(s, d, n, k)
    PROVE  /\ s \in Seq(Statement) /\ n \in Nat /\ k \in Nat
           /\ d.tables[n + 1] \in Table /\ d.rows[d.tables[n + 1]] \in Seq(Row)
           /\ FirstTables(d, n) \in Seq(Statement)
           /\ k <= Len(d.rows[d.tables[n + 1]])
           /\ SubSeq(TableDump(d, d.tables[n + 1]), 1, k + 1) \in Seq(Statement)
  <1>1. /\ n \in Nat /\ n + 1 <= Len(d.tables) /\ k \in 0..Len(d.rows[d.tables[n + 1]])
        /\ s = <<Begin>> \o (FirstTables(d, n) \o SubSeq(TableDump(d, d.tables[n + 1]), 1, k + 1))
    BY DEF Within
  <1>2. FirstTables(d, n) \in Seq(Statement) /\ d.tables[n + 1] \in Table
    BY <1>1, FirstTablesMore
  <1>3. d.rows[d.tables[n + 1]] \in Seq(Row) /\ Len(d.rows[d.tables[n + 1]]) \in Nat
    BY <1>2, Parts
  <1>4. k \in Nat /\ k <= Len(d.rows[d.tables[n + 1]])
    BY <1>1, <1>3
  <1>5. SubSeq(TableDump(d, d.tables[n + 1]), 1, k + 1) \in Seq(Statement)
    BY <1>2, <1>4, FirstRows
  <1> QED
    BY <1>1, <1>2, <1>3, <1>4, <1>5, BeginType

(* A row more.                                                              *)
LEMMA WithinInsert ==
    ASSUME NEW d \in Database, NEW s, NEW n, NEW k, Within(s, d, n, k),
           k < Len(d.rows[d.tables[n + 1]])
    PROVE  Within(Append(s, Insert(d.tables[n + 1], d.rows[d.tables[n + 1]][k + 1])), d, n, k + 1)
  <1> DEFINE u == d.tables[n + 1]
             r == d.rows[u][k + 1]
             x == Insert(u, r)
             q == Append(s, x)
             f == FirstTables(d, n)
             b == SubSeq(TableDump(d, u), 1, k + 1)
  <1>1. /\ s \in Seq(Statement) /\ n \in Nat /\ k \in Nat /\ u \in Table /\ d.rows[u] \in Seq(Row)
        /\ f \in Seq(Statement) /\ b \in Seq(Statement)
        /\ n + 1 <= Len(d.tables) /\ s = <<Begin>> \o (f \o b)
        /\ k < Len(d.rows[u])
    BY WithinType, Zenon DEF Within
  <1> HIDE DEF u
  <1>2. /\ Len(d.rows[u]) \in Nat /\ k + 1 \in 1..Len(d.rows[u])
        /\ r \in Row /\ k + 1 \in 0..Len(d.rows[u])
    BY <1>1
  <1>3. x \in Statement /\ x.kind = "insert" /\ x.table = u /\ x.row = r
    BY <1>1, <1>2, Statements, Kinds
  <1>4. SubSeq(TableDump(d, u), 1, (k + 1) + 1) = Append(b, x)
    <2>1. k <= Len(d.rows[u])
      BY <1>1, <1>2
    <2> QED
      BY <1>1, <2>1, FirstRows, Zenon
  <1> HIDE DEF f, b, x
  <1>5. q = <<Begin>> \o (f \o Append(b, x))
    <2> DEFINE h == <<x>>
               g == f \o b
    <2>1. h \in Seq(Statement) /\ q = s \o h /\ Append(b, x) = b \o h
      <3>1. h \in Seq(Statement)
        BY <1>3
      <3> QED
        BY <1>1, <1>3, <3>1, AppendIsConcat, Zenon
    <2>2. g \in Seq(Statement)
      BY <1>1
    <2> HIDE DEF h
    <2>3. Regroups(f, b, h)
      BY <1>1, <2>1, Regroup, Zenon
    <2>4. s = <<Begin>> \o g /\ g \o h = f \o (b \o h)
      BY <1>1, <2>3 DEF Regroups
    <2> HIDE DEF g
    <2>5. Regroups(<<Begin>>, g, h)
      BY <2>1, <2>2, BeginType, Regroup, Zenon
    <2> QED
      BY <2>1, <2>4, <2>5 DEF Regroups
  <1>6. CreatesFirst(q, d, n + 1)
    <2>1. ASSUME NEW t \in Name
          PROVE  Creates(q, t) <=> \E i \in 1..n + 1 : d.tables[i] = t
      <3>1. Creates(q, t) <=> Creates(s, t) \/ x = Create(t)
        BY <1>1, CreatesMore
      <3>2. x # Create(t)
        BY <1>3, Kinds
      <3>3. Creates(s, t) <=> \E i \in 1..n + 1 : d.tables[i] = t
        BY DEF Within, CreatesFirst
      <3> QED
        BY <3>1, <3>2, <3>3, Zenon
    <2> QED
      BY <2>1 DEF CreatesFirst
  <1>7. AllRun(q) <=> /\ FineFirst(d, n) /\ u \notin Reserved
                      /\ \A j \in 1..k + 1 : d.rows[u][j] # "altered"
    <2>1. AllRun(q) <=> AllRun(s) /\ RunsAfter(s, x)
      BY <1>1, <1>3, AllRunMore
    <2>2. Creates(s, u)
      <3>1. n + 1 \in 1..n + 1 /\ u \in Name
        BY <1>1 DEF Name
      <3> QED
        BY <1>1, <3>1, Zenon DEF Within, CreatesFirst, u
    <2>3. RunsAfter(s, x) <=> r # "altered"
      BY <1>3, <2>2 DEF RunsAfter
    <2>4. \A j : j \in 1..k + 1 <=> j \in 1..k \/ j = k + 1
      BY <1>1
    <2>5. AllRun(s) <=> /\ FineFirst(d, n) /\ u \notin Reserved
                        /\ \A j \in 1..k : d.rows[u][j] # "altered"
      BY Zenon DEF Within, u
    <2> QED
      BY <2>1, <2>3, <2>4, <2>5, Zenon
  <1> HIDE DEF q, r
  <1>8. q = <<Begin>> \o (FirstTables(d, n) \o SubSeq(TableDump(d, u), 1, (k + 1) + 1))
    BY <1>4, <1>5 DEF f
  <1>9. Within(q, d, n, k + 1)
    BY <1>1, <1>2, <1>6, <1>7, <1>8 DEF Within, u
  <1> QED
    BY <1>9 DEF q, x, r, u

(* The last row ends the table.                                             *)
LEMMA WithinEnds ==
    ASSUME NEW d \in Database, NEW s, NEW n, NEW k, Within(s, d, n, k),
           k = Len(d.rows[d.tables[n + 1]])
    PROVE  Whole(s, d, n + 1)
  <1> DEFINE u == d.tables[n + 1]
  <1>1. /\ n \in Nat /\ k \in Nat /\ u \in Table /\ d.rows[u] \in Seq(Row)
        /\ n + 1 <= Len(d.tables) /\ Len(d.tables) \in Nat
        /\ s = <<Begin>> \o (FirstTables(d, n) \o SubSeq(TableDump(d, u), 1, k + 1))
        /\ k = Len(d.rows[u]) /\ k <= Len(d.rows[u])
    <2>1. Len(d.tables) \in Nat
      BY Parts
    <2> QED
      BY <2>1, WithinType, Zenon DEF Within
  <1> HIDE DEF u
  <1>2. SubSeq(TableDump(d, u), 1, k + 1) = TableDump(d, u)
    BY <1>1, FirstRows
  <1>3. s = <<Begin>> \o FirstTables(d, n + 1)
    BY <1>1, <1>2, FirstTablesMore DEF u
  <1>4. CreatesFirst(s, d, n + 1) /\ n + 1 \in 0..Len(d.tables)
    <2>1. CreatesFirst(s, d, n + 1)
      BY Zenon DEF Within
    <2> QED
      BY <1>1, <2>1
  <1>5. AllRun(s) <=> FineFirst(d, n + 1)
    <2>1. AllRun(s) <=> /\ FineFirst(d, n) /\ u \notin Reserved
                        /\ \A j \in 1..k : d.rows[u][j] # "altered"
      BY Zenon DEF Within, u
    <2>2. "altered" \notin ToSet(d.rows[u]) <=> \A j \in 1..k : d.rows[u][j] # "altered"
      <3>1. DOMAIN d.rows[u] = 1..k
        BY <1>1
      <3> QED
        BY <3>1 DEF ToSet
    <2>3. Fine(d, u) <=> u \notin Reserved /\ \A j \in 1..k : d.rows[u][j] # "altered"
      BY <2>2 DEF Fine
    <2>4. \A i : i \in 1..n + 1 <=> i \in 1..n \/ i = n + 1
      BY <1>1
    <2>5. FineFirst(d, n + 1) <=> FineFirst(d, n) /\ Fine(d, u)
      BY <2>4, Zenon DEF FineFirst, u
    <2> QED
      BY <2>1, <2>3, <2>5
  <1> QED
    BY <1>3, <1>4, <1>5 DEF Whole
-----------------------------------------------------------------------------
(* No trigger is written yet.                                               *)
LEMMA TriggersBegin ==
    ASSUME NEW d \in Database, NEW e \in Database, NEW s, Whole(s, d, Len(d.tables))
    PROVE  WithTriggers(s, d, e, 0)
  <1>1. s \in Seq(Statement) /\ s = <<Begin>> \o TablesDump(d)
    BY WholeType, FirstTablesAll, Zenon DEF Whole
  <1>2. SubSeq(TriggersDump(e), 1, 0) = <<>>
    BY TriggersDumpType
  <1>3. s \o <<>> = s
    BY <1>1
  <1>4. s = (<<Begin>> \o TablesDump(d)) \o SubSeq(TriggersDump(e), 1, 0)
    BY <1>1, <1>2, <1>3, Zenon
  <1>5. 0 \in 0..Len(e.triggers)
    BY TriggersDumpType
  <1>6. CreatesFirst(s, d, Len(d.tables)) /\ (AllRun(s) <=> FineFirst(d, Len(d.tables)))
    BY Zenon DEF Whole
  <1>7. \A j \in 1..0 : e.triggers[j] \in ToSet(d.tables)
    OBVIOUS
  <1> QED
    BY <1>4, <1>5, <1>6, <1>7, Zenon DEF WithTriggers

(* So is one with triggers.                                                 *)
LEMMA WithTriggersType ==
    ASSUME NEW d \in Database, NEW e \in Database, NEW s, NEW k, WithTriggers(s, d, e, k)
    PROVE  /\ <<Begin>> \o TablesDump(d) \in Seq(Statement)
           /\ SubSeq(TriggersDump(e), 1, k) \in Seq(Statement)
           /\ s \in Seq(Statement) /\ k \in Nat
  <1>1. /\ k \in 0..Len(e.triggers) /\ Len(e.triggers) \in Nat
        /\ TriggersDump(e) \in Seq(Statement) /\ Len(TriggersDump(e)) = Len(e.triggers)
    BY TriggersDumpType DEF WithTriggers
  <1>2. <<Begin>> \o TablesDump(d) \in Seq(Statement)
    BY FirstTablesAll, BeginType
  <1>3. SubSeq(TriggersDump(e), 1, k) \in Seq(Statement)
    BY <1>1
  <1>4. s = (<<Begin>> \o TablesDump(d)) \o SubSeq(TriggersDump(e), 1, k)
    BY Zenon DEF WithTriggers
  <1> QED
    BY <1>1, <1>2, <1>3, <1>4

(* A trigger more: it runs if the script creates its table.                 *)
LEMMA TriggerMore ==
    ASSUME NEW d \in Database, NEW e \in Database, NEW s, NEW k, WithTriggers(s, d, e, k),
           k < Len(e.triggers)
    PROVE  WithTriggers(Append(s, Trigger(e.triggers[k + 1])), d, e, k + 1)
  <1> DEFINE u == e.triggers[k + 1]
             x == Trigger(u)
             q == Append(s, x)
             a == <<Begin>> \o TablesDump(d)
             b == SubSeq(TriggersDump(e), 1, k)
  <1>1. /\ a \in Seq(Statement) /\ b \in Seq(Statement) /\ s \in Seq(Statement) /\ k \in Nat
        /\ s = a \o b
    BY WithTriggersType, Zenon DEF WithTriggers
  <1>2. Len(e.triggers) \in Nat /\ \A i \in 1..Len(e.triggers) : e.triggers[i] \in Name
    BY TriggersDumpType
  <1>3. k + 1 <= Len(e.triggers) /\ k + 1 \in 0..Len(e.triggers) /\ u \in Name
    BY <1>1, <1>2
  <1>4. x \in Statement /\ x.kind = "trigger" /\ x.table = u
    BY <1>3, TriggerType, Kinds
  <1>5. SubSeq(TriggersDump(e), 1, k + 1) = b \o <<x>>
    BY <1>1, <1>3, FirstTriggers
  <1> HIDE DEF a, b, u, x
  <1>6. q = a \o (b \o <<x>>)
    <2> DEFINE h == <<x>>
    <2>1. h \in Seq(Statement) /\ q = s \o h
      <3>1. h \in Seq(Statement)
        BY <1>4
      <3> QED
        BY <1>1, <1>4, <3>1, AppendIsConcat, Zenon
    <2> HIDE DEF h
    <2>2. Regroups(a, b, h)
      BY <1>1, <2>1, Regroup, Zenon
    <2>3. q = a \o (b \o h)
      BY <1>1, <2>1, <2>2 DEF Regroups
    <2> QED
      BY <2>3 DEF h
  <1>7. ASSUME NEW t
        PROVE  Creates(q, t) <=> Creates(s, t)
    <2>1. Creates(q, t) <=> Creates(s, t) \/ x = Create(t)
      BY <1>1, CreatesMore
    <2>2. x # Create(t)
      BY <1>4, Kinds
    <2> QED
      BY <2>1, <2>2
  <1>8. CreatesFirst(s, d, Len(d.tables)) /\ CreatesFirst(q, d, Len(d.tables))
    <2>1. CreatesFirst(s, d, Len(d.tables))
      BY Zenon DEF WithTriggers
    <2> QED
      BY <1>7, <2>1, Zenon DEF CreatesFirst
  <1>9. AllRun(q) <=> /\ FineFirst(d, Len(d.tables))
                      /\ \A j \in 1..k + 1 : e.triggers[j] \in ToSet(d.tables)
    <2>1. AllRun(q) <=> AllRun(s) /\ RunsAfter(s, x)
      BY <1>1, <1>4, AllRunMore
    <2>2. RunsAfter(s, x) <=> Creates(s, u)
      BY <1>4 DEF RunsAfter
    <2>3. Creates(s, u) <=> u \in ToSet(d.tables)
      <3>1. Creates(s, u) <=> \E i \in 1..Len(d.tables) : d.tables[i] = u
        BY <1>3, <1>8, Zenon DEF CreatesFirst
      <3>2. DOMAIN d.tables = 1..Len(d.tables)
        BY Parts
      <3> QED
        BY <3>1, <3>2, Zenon DEF ToSet
    <2>4. \A j : j \in 1..k + 1 <=> j \in 1..k \/ j = k + 1
      BY <1>1
    <2>5. AllRun(s) <=> /\ FineFirst(d, Len(d.tables))
                        /\ \A j \in 1..k : e.triggers[j] \in ToSet(d.tables)
      BY Zenon DEF WithTriggers
    <2> QED
      BY <2>1, <2>2, <2>3, <2>4, <2>5, Zenon DEF u
  <1>10. q = (<<Begin>> \o TablesDump(d)) \o SubSeq(TriggersDump(e), 1, k + 1)
    BY <1>5, <1>6, Zenon DEF a
  <1> HIDE DEF q
  <1>11. WithTriggers(q, d, e, k + 1)
    BY <1>3, <1>8, <1>9, <1>10, Zenon DEF WithTriggers
  <1> QED
    BY <1>11, Zenon DEF q, x, u

(* With COMMIT the script is complete, and restores if nothing is in the    *)
(* way of it.                                                               *)
Restorable(d, e) ==
    /\ ToSet(d.tables) \cap Reserved = {}
    /\ \A t \in Table : "altered" \notin ToSet(d.rows[t])
    /\ ToSet(e.triggers) \subseteq ToSet(d.tables)

(* COMMIT makes it complete.                                                *)
LEMMA TriggersEnd ==
    ASSUME NEW d, Legal(d), NEW e, Legal(e), NEW s, WithTriggers(s, d, e, Len(e.triggers))
    PROVE  /\ Append(s, Commit)
                 = <<Begin>> \o TablesDump(d) \o TriggersDump(e) \o <<Commit>>
           /\ Restores(Append(s, Commit)) <=> Restorable(d, e)
  <1> DEFINE q == Append(s, Commit)
  <1>0. d \in Database /\ e \in Database
    BY DEF Legal
  <1>1. s \in Seq(Statement) /\ Commit \in Statement
    BY <1>0, WithTriggersType, Brackets
  <1>2. SubSeq(TriggersDump(e), 1, Len(e.triggers)) = TriggersDump(e)
    <2>1. TriggersDump(e) \in Seq(Statement) /\ Len(TriggersDump(e)) = Len(e.triggers)
      BY <1>0, TriggersDumpType
    <2> QED
      BY <2>1, SubSeqFull
  <1>3. q = <<Begin>> \o TablesDump(d) \o TriggersDump(e) \o <<Commit>>
    <2>1. q = s \o <<Commit>>
      BY <1>1, AppendIsConcat
    <2>2. s = <<Begin>> \o TablesDump(d) \o TriggersDump(e)
      BY <1>2, Zenon DEF WithTriggers
    <2> QED
      BY <2>1, <2>2, Zenon
  <1>4. Restores(q) <=> AllRun(s)
    <2>1. q # <<>> /\ q[Len(q)] = Commit
      BY <1>1
    <2>2. Last(q).kind = "commit"
      BY <2>1, Kinds DEF Last
    <2>3. AllRun(q) <=> AllRun(s) /\ RunsAfter(s, Commit)
      BY <1>1, AllRunMore
    <2>4. RunsAfter(s, Commit)
      BY Kinds DEF RunsAfter
    <2> HIDE DEF q
    <2> QED
      BY <2>1, <2>2, <2>3, <2>4, Zenon DEF Restores, AllRun
  <1>5. AllRun(s) <=> Restorable(d, e)
    <2>1. /\ DOMAIN d.tables = 1..Len(d.tables) /\ DOMAIN e.triggers = 1..Len(e.triggers)
          /\ \A t \in ToSet(d.tables) : t \in Table
      BY <1>0, Parts, NamesAreTables
    <2>2. AllRun(s) <=> /\ FineFirst(d, Len(d.tables))
                        /\ \A j \in 1..Len(e.triggers) : e.triggers[j] \in ToSet(d.tables)
      BY Zenon DEF WithTriggers
    <2>3. (\A j \in 1..Len(e.triggers) : e.triggers[j] \in ToSet(d.tables))
              <=> ToSet(e.triggers) \subseteq ToSet(d.tables)
      BY <2>1, Zenon DEF ToSet
    <2>4. FineFirst(d, Len(d.tables)) <=> \A t \in ToSet(d.tables) : Fine(d, t)
      BY <2>1, Zenon DEF FineFirst, ToSet
    <2>5. \A t \in Table : t \notin ToSet(d.tables) => "altered" \notin ToSet(d.rows[t])
      <3>1. \A t \in Table : t \notin ToSet(d.tables) => d.rows[t] = <<>>
        BY DEF Legal, Consistent
      <3>2. ToSet(<<>>) = {}
        BY DEF ToSet
      <3> QED
        BY <3>1, <3>2
    <2>6. (\A t \in ToSet(d.tables) : Fine(d, t)) <=>
              /\ ToSet(d.tables) \cap Reserved = {}
              /\ \A t \in Table : "altered" \notin ToSet(d.rows[t])
      BY <2>1, <2>5 DEF Fine
    <2> QED
      BY <2>2, <2>3, <2>4, <2>6 DEF Restorable
  <1> QED
    BY <1>3, <1>4, <1>5
-----------------------------------------------------------------------------
(* The first n tables of d can be named without quotes.                     *)
PlainFirst(d, n) == \A i \in 1..n : d.tables[i] \notin Keyword

(* A dump of the tables that the call went through.                         *)
Through(s, d, n) == Whole(s, d, n) /\ PlainFirst(d, n)

(* The file ends with the table it creates last.                            *)
EndsAt(t) == file # <<>> /\ Last(file) = Create(t)

(* What is said of the file when nothing has failed.                        *)
Ended ==
    \/ \E t \in Keyword : EndsAt(t)
    \/ \E v, w \in DOMAIN versions :
          /\ v <= w /\ CompleteOf(v, w)
          /\ ToSet(versions[v].tables) \cap Keyword = {}
          /\ Restores(file) <=> Restorable(versions[v], versions[w])

TablesEnded == \E v \in DOMAIN versions : Through(file, versions[v], Len(versions[v].tables))

TriggersOfLast ==
    \E v \in DOMAIN versions :
        /\ WithTriggers(file, versions[v], db, index)
        /\ PlainFirst(versions[v], Len(versions[v].tables))

Faithful ==
    /\ pc = "step_tables" => Through(file, db, index)
    /\ pc = "prepare_data" => /\ Within(file, db, index - 1, 0)
                              /\ PlainFirst(db, index - 1)
                              /\ EndsAt(db.tables[index])
    /\ pc = "step_data" => Within(file, db, index - 1, row) /\ PlainFirst(db, index)
    /\ pc = "prepare_triggers" => TablesEnded
    /\ pc = "step_triggers" => TriggersOfLast
    /\ pc \in {"exit", "done"} => Ended

(* One table more, with a name that needs no quotes.                        *)
LEMMA PlainMore ==
    ASSUME NEW d, NEW n \in Nat, PlainFirst(d, n - 1), d.tables[n] \notin Keyword
    PROVE  PlainFirst(d, n)
  <1>1. \A i \in 1..n : i \in 1..n - 1 \/ i = n
    OBVIOUS
  <1> QED
    BY <1>1 DEF PlainFirst

(* A step that does not fail writes what comes next.                        *)
LEMMA StepFaithful ==
    ASSUME DbInv, Place, Typed, ~failed => Faithful, Step, ~failed'
    PROVE  Faithful'
  <1>1. UNCHANGED versions /\ db' = db
    BY StepPlace DEF db
  <1>2. /\ file \in Seq(Statement) /\ index \in Nat /\ row \in Nat
        /\ db \in Database /\ Legal(db) /\ db = versions[Len(versions)]
        /\ Len(versions) \in DOMAIN versions
        /\ Len(db.tables) \in Nat /\ Len(db.triggers) \in Nat
    BY LastIsLegal, Lengths, ConstantsAssumption DEF Typed, Place
  <1>3. ~failed
    BY DEF Typed, Step, Fopen, PrepareTables, StepTables, PrepareData, StepData,
           PrepareTriggers, StepTriggers, Exit, Fails
  <1>4. Faithful
    BY <1>3
  <1>5. CASE Fopen
    <2>1. pc' = "prepare_tables"
      BY <1>5 DEF Fopen, Fails
    <2> QED
      BY <2>1 DEF Faithful
  <1>6. CASE PrepareTables
    <2>1. pc = "prepare_tables" /\ pc' = "step_tables" /\ file' = <<Begin>> /\ UNCHANGED index
      BY <1>6 DEF PrepareTables, Fails
    <2>2. index' = 0
      BY <2>1 DEF Place
    <2>3. Through(<<Begin>>, db, 0)
      BY <1>2, WholeBegin DEF Through, PlainFirst
    <2>4. Through(file', db', index')
      BY <1>1, <2>1, <2>2, <2>3, Zenon
    <2> QED
      BY <2>1, <2>4 DEF Faithful
  <1>7. CASE StepTables
    <2>1. Whole(file, db, index) /\ PlainFirst(db, index)
      BY <1>4, <1>7 DEF Faithful, Through, StepTables
    <2>2. \/ /\ index < Len(db.tables) /\ pc' = "prepare_data" /\ index' = index + 1
             /\ file' = Append(file, Create(db.tables[index + 1]))
          \/ index = Len(db.tables) /\ pc' = "prepare_triggers" /\ UNCHANGED file
      BY <1>7 DEF StepTables, Fails, Fprintf
    <2>3. CASE /\ index < Len(db.tables) /\ pc' = "prepare_data" /\ index' = index + 1
               /\ file' = Append(file, Create(db.tables[index + 1]))
      <3>1. Within(file', db, index, 0)
        BY <1>2, <2>1, <2>3, WholeCreate
      <3>2. index' - 1 = index
        BY <1>2, <2>3
      <3>3. Within(file', db', index' - 1, 0) /\ PlainFirst(db', index' - 1)
        BY <1>1, <2>1, <3>1, <3>2, Zenon
      <3>4. EndsAt(db.tables[index])'
        <4>1. db.tables[index + 1] \in Table
          BY <1>2, <2>3, Parts
        <4>2. Create(db.tables[index + 1]) \in Statement
          BY <4>1, Statements
        <4>3. file' # <<>> /\ Last(file') = Create(db.tables[index + 1])
          BY <1>2, <2>3, <4>2 DEF Last
        <4> QED
          BY <1>1, <2>3, <4>3 DEF EndsAt
      <3> QED
        BY <2>3, <3>3, <3>4 DEF Faithful
    <2>4. CASE index = Len(db.tables) /\ pc' = "prepare_triggers" /\ UNCHANGED file
      <3>1. Through(file, db, Len(db.tables))
        BY <2>1, <2>4 DEF Through
      <3>2. TablesEnded
        BY <1>2, <3>1, Zenon DEF TablesEnded
      <3>3. TablesEnded'
        BY <1>1, <2>4, <3>2, Zenon DEF TablesEnded
      <3> QED
        BY <2>4, <3>3 DEF Faithful
    <2> QED
      BY <2>2, <2>3, <2>4
  <1>8. CASE PrepareData
    <2>1. /\ pc = "prepare_data" /\ row' = 0 /\ UNCHANGED <<file, index>>
          /\ \/ pc' = "step_data" /\ db.tables[index] \notin Keyword
             \/ pc' = "exit" /\ db.tables[index] \in Keyword
      BY <1>8 DEF PrepareData, Fails
    <2>2. /\ Within(file, db, index - 1, 0) /\ PlainFirst(db, index - 1)
          /\ EndsAt(db.tables[index])
      BY <1>4, <2>1 DEF Faithful
    <2>3. CASE pc' = "step_data" /\ db.tables[index] \notin Keyword
      <3>1. PlainFirst(db, index)
        BY <1>2, <2>2, <2>3, PlainMore
      <3>2. Within(file', db', index' - 1, row') /\ PlainFirst(db', index')
        BY <1>1, <2>1, <2>2, <3>1, Zenon
      <3> QED
        BY <2>3, <3>2 DEF Faithful
    <2>4. CASE pc' = "exit" /\ db.tables[index] \in Keyword
      <3>1. Ended'
        BY <1>1, <2>1, <2>2, <2>4 DEF Ended, EndsAt
      <3> QED
        BY <2>4, <3>1 DEF Faithful
    <2> QED
      BY <2>1, <2>3, <2>4
  <1>9. CASE StepData
    <2>1. /\ pc = "step_data" /\ UNCHANGED index
          /\ \/ pc' = "undefined"
             \/ /\ row < Len(Rows) /\ row' = row + 1 /\ pc' = "step_data"
                /\ file' = Append(file, Insert(db.tables[index], Rows[row + 1]))
             \/ row = Len(Rows) /\ pc' = "step_tables" /\ UNCHANGED file
      BY <1>9 DEF StepData, Fails, AddRow, Fprintf
    <2>2. /\ Within(file, db, index - 1, row) /\ (index - 1) + 1 = index
          /\ PlainFirst(db, index)
      BY <1>2, <1>4, <2>1 DEF Faithful
    <2>3. CASE pc' = "undefined"
      BY <2>3 DEF Faithful
    <2>4. CASE /\ row < Len(Rows) /\ row' = row + 1 /\ pc' = "step_data"
               /\ file' = Append(file, Insert(db.tables[index], Rows[row + 1]))
      <3>1. row < Len(db.rows[db.tables[(index - 1) + 1]])
        BY <2>2, <2>4 DEF Rows
      <3>2. file' = Append(file, Insert(db.tables[(index - 1) + 1],
                                        db.rows[db.tables[(index - 1) + 1]][row + 1]))
        BY <2>2, <2>4, Zenon DEF Rows
      <3>3. Within(file', db, index - 1, row + 1)
        BY <1>2, <2>2, <3>1, <3>2, WithinInsert, Zenon
      <3>4. Within(file', db', index' - 1, row') /\ PlainFirst(db', index')
        BY <1>1, <2>1, <2>2, <2>4, <3>3, Zenon
      <3> QED
        BY <2>4, <3>4 DEF Faithful
    <2>5. CASE row = Len(Rows) /\ pc' = "step_tables" /\ UNCHANGED file
      <3>1. row = Len(db.rows[db.tables[(index - 1) + 1]])
        BY <2>2, <2>5, Zenon DEF Rows
      <3>2. Whole(file, db, (index - 1) + 1)
        BY <1>2, <2>2, <3>1, WithinEnds, Zenon
      <3>3. Through(file', db', index')
        BY <1>1, <2>1, <2>2, <2>5, <3>2, Zenon DEF Through
      <3> QED
        BY <2>5, <3>3 DEF Faithful
    <2> QED
      BY <2>1, <2>3, <2>4, <2>5
  <1>10. CASE PrepareTriggers
    <2>1. /\ pc = "prepare_triggers" /\ pc' = "step_triggers" /\ index' = 0 /\ UNCHANGED file
      BY <1>10 DEF PrepareTriggers, Fails
    <2>2. TablesEnded
      BY <1>4, <2>1 DEF Faithful
    <2>3. PICK v \in DOMAIN versions : Through(file, versions[v], Len(versions[v].tables))
      BY <2>2 DEF TablesEnded
    <2>4. versions[v] \in Database
      BY <2>3 DEF DbInv, Legal
    <2>5. /\ WithTriggers(file, versions[v], db, 0)
          /\ PlainFirst(versions[v], Len(versions[v].tables))
      BY <1>2, <2>3, <2>4, TriggersBegin, Zenon DEF Through
    <2>6. TriggersOfLast'
      BY <1>1, <2>1, <2>3, <2>5, Zenon DEF TriggersOfLast
    <2> QED
      BY <2>1, <2>6 DEF Faithful
  <1>11. CASE StepTriggers
    <2>1. /\ pc = "step_triggers"
          /\ \/ /\ index < Len(db.triggers) /\ pc' = "step_triggers" /\ index' = index + 1
                /\ file' = Append(file, Trigger(db.triggers[index + 1]))
             \/ /\ index = Len(db.triggers) /\ pc' = "exit" /\ file' = Append(file, Commit)
      BY <1>11 DEF StepTriggers, Fails, Fprintf
    <2>2. TriggersOfLast
      BY <1>4, <2>1 DEF Faithful
    <2>3. PICK v \in DOMAIN versions :
              /\ WithTriggers(file, versions[v], db, index)
              /\ PlainFirst(versions[v], Len(versions[v].tables))
      BY <2>2 DEF TriggersOfLast
    <2>4. versions[v] \in Database /\ Legal(versions[v])
      BY <2>3 DEF DbInv, Legal
    <2>5. CASE /\ index < Len(db.triggers) /\ pc' = "step_triggers" /\ index' = index + 1
               /\ file' = Append(file, Trigger(db.triggers[index + 1]))
      <3>1. WithTriggers(file', versions[v], db, index + 1)
        BY <1>2, <2>3, <2>4, <2>5, TriggerMore, Zenon
      <3>2. TriggersOfLast'
        BY <1>1, <2>3, <2>5, <3>1, Zenon DEF TriggersOfLast
      <3> QED
        BY <2>5, <3>2 DEF Faithful
    <2>6. CASE index = Len(db.triggers) /\ pc' = "exit" /\ file' = Append(file, Commit)
      <3>1. /\ file' = <<Begin>> \o TablesDump(versions[v]) \o TriggersDump(db) \o <<Commit>>
            /\ Restores(file') <=> Restorable(versions[v], db)
        BY <1>2, <2>3, <2>4, <2>6, TriggersEnd, Zenon
      <3>2. v <= Len(versions)
        BY <2>3 DEF DbInv
      <3>3. /\ CompleteOf(v, Len(versions))'
            /\ Restores(file') <=> Restorable(versions'[v], versions'[Len(versions)])
        BY <1>1, <1>2, <3>1, Zenon DEF CompleteOf
      <3>5. ToSet(versions'[v].tables) \cap Keyword = {}
        <4>1. DOMAIN versions[v].tables = 1..Len(versions[v].tables)
          BY <2>4, Parts
        <4> QED
          BY <1>1, <2>3, <4>1 DEF PlainFirst, ToSet
      <3>4. Ended'
        BY <1>1, <1>2, <2>3, <3>2, <3>3, <3>5, Zenon DEF Ended
      <3> QED
        BY <2>6, <3>4 DEF Faithful
    <2> QED
      BY <2>1, <2>5, <2>6
  <1>12. CASE Exit
    <2>1. pc = "exit" /\ pc' = "done" /\ UNCHANGED file
      BY <1>12 DEF Exit
    <2>2. Ended
      BY <1>4, <2>1 DEF Faithful
    <2>3. Ended'
      BY <1>1, <2>1, <2>2, Zenon DEF Ended, CompleteOf, EndsAt
    <2> QED
      BY <2>1, <2>3 DEF Faithful
  <1> QED
    BY <1>5, <1>6, <1>7, <1>8, <1>9, <1>10, <1>11, <1>12 DEF Step

(* A commit of others changes nothing of what is written, and meets the     *)
(* call where it has not begun with what the commit may change.             *)
LEMMA CommitFaithful ==
    ASSUME DbInv, Place, Faithful, Commits
    PROVE  Faithful'
  <1>1. /\ active = {} /\ UNCHANGED <<pc, index, row, file>>
        /\ DOMAIN versions \subseteq DOMAIN versions'
        /\ \A v \in DOMAIN versions : versions'[v] = versions[v]
        /\ db' \in Database /\ db \in Database
    BY LastIsLegal DEF Commits, ReadLocked, dump, Legal
  <1>2. pc \notin {"prepare_data", "step_data"}
    BY <1>1 DEF Place
  <1>3. ASSUME pc = "step_tables" PROVE Through(file', db', index')
    <2>1. index = 0 /\ Whole(file, db, 0)
      BY <1>1, <1>3 DEF Place, Faithful, Through
    <2>2. <<Begin>> \o <<>> = <<Begin>>
      BY BeginType
    <2>3. file = <<Begin>>
      BY <2>1, <2>2, FirstTablesNone, Zenon DEF Whole
    <2>4. Through(<<Begin>>, db', 0)
      BY <1>1, WholeBegin DEF Through, PlainFirst
    <2> QED
      BY <1>1, <2>1, <2>3, <2>4, Zenon
  <1>4. ASSUME pc = "prepare_triggers" PROVE TablesEnded'
    BY <1>1, <1>4, Zenon DEF Faithful, TablesEnded
  <1>5. ASSUME pc = "step_triggers" PROVE TriggersOfLast'
    <2>1. index = 0
      BY <1>1, <1>5 DEF Place
    <2>2. PICK v \in DOMAIN versions :
              /\ WithTriggers(file, versions[v], db, 0)
              /\ PlainFirst(versions[v], Len(versions[v].tables))
      BY <1>5, <2>1 DEF Faithful, TriggersOfLast
    <2>3. WithTriggers(file, versions[v], db', 0)
      <3>1. SubSeq(TriggersDump(db), 1, 0) = <<>> /\ SubSeq(TriggersDump(db'), 1, 0) = <<>>
        BY <1>1, TriggersDumpType
      <3>2. 0 \in 0..Len(db'.triggers)
        BY <1>1, TriggersDumpType
      <3>3. (\A j \in 1..0 : db.triggers[j] \in ToSet(versions[v].tables))
            /\ (\A j \in 1..0 : db'.triggers[j] \in ToSet(versions[v].tables))
        OBVIOUS
      <3> QED
        BY <2>2, <3>1, <3>2, <3>3, Zenon DEF WithTriggers
    <2>4. v \in DOMAIN versions' /\ versions'[v] = versions[v]
      BY <1>1, <2>2
    <2> QED
      BY <1>1, <2>1, <2>2, <2>3, <2>4, Zenon DEF TriggersOfLast
  <1>6. ASSUME pc \in {"exit", "done"} PROVE Ended'
    <2>1. Ended
      BY <1>6 DEF Faithful
    <2>2. CASE \E t \in Keyword : EndsAt(t)
      BY <1>1, <2>2 DEF Ended, EndsAt
    <2>3. ASSUME NEW v \in DOMAIN versions, NEW w \in DOMAIN versions,
                 v <= w, CompleteOf(v, w), ToSet(versions[v].tables) \cap Keyword = {},
                 Restores(file) <=> Restorable(versions[v], versions[w])
          PROVE  Ended'
      <3>1. /\ v \in DOMAIN versions' /\ versions'[v] = versions[v]
            /\ w \in DOMAIN versions' /\ versions'[w] = versions[w]
        BY <1>1
      <3> QED
        BY <1>1, <2>3, <3>1, Zenon DEF Ended, CompleteOf
    <2> QED
      BY <2>1, <2>2, <2>3 DEF Ended
  <1> QED
    BY <1>1, <1>2, <1>3, <1>4, <1>5, <1>6 DEF Faithful

(* The file stays faithful, whoever steps.                                  *)
LEMMA NextFaithful ==
    DInv /\ (~failed => Faithful) /\ [Next]_vars => (~failed' => Faithful')
  <1> SUFFICES ASSUME DInv, ~failed => Faithful, [Next]_vars, ~failed' PROVE Faithful'
    OBVIOUS
  <1>1. DbInv /\ Place /\ Typed
    BY DEF DInv
  <1>2. CASE Step
    BY <1>1, <1>2, StepFaithful
  <1>3. CASE Write
    <2>1. Commits /\ UNCHANGED failed
      BY <1>1, <1>3, WriteCommits DEF Commits, dump
    <2> QED
      BY <1>1, <2>1, CommitFaithful
  <1>4. CASE UNCHANGED vars
    <2>1. UNCHANGED <<versions, pc, index, row, file, failed>> /\ db' = db
      BY <1>4 DEF vars, dump, db
    <2>2. Faithful
      BY <2>1
    <2> QED
      BY <2>1, <2>2 DEF Faithful, TablesEnded, TriggersOfLast, Ended, EndsAt, CompleteOf
  <1> QED
    BY <1>2, <1>3, <1>4 DEF Next

(* When fopen and SQLite never fail the dump ends at the first table whose  *)
(* name only quotes could give; or it is all tables of one version, all     *)
(* triggers of that or a later one and COMMIT, and if stdio lost nothing of *)
(* it, it restores unless a table is reserved, a value has no literal here  *)
(* or a trigger is on a view or on a table that came between the two reads. *)
THEOREM FaithfulDumpsRestore == Spec => []RestoresUnless
  <1>1. Init => (~failed => Faithful)
    BY DEF Init, Faithful
  <1>2. (~failed => Faithful) => RestoresUnless
    BY Zenon DEF Faithful, Ended, EndsAt, Restorable, StrayTrigger, RestoresUnless
  <1> QED
    BY InitDInv, NextDInv, <1>1, NextFaithful, <1>2, PTL DEF Spec
=============================================================================
