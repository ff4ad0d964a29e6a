---------------------------- MODULE CppBlogProofs ----------------------------
(***************************************************************************)
(* The safety properties of CppBlog, proved for any number of concurrent   *)
(* requests, any schema without duplicates and any set of faults.          *)
(***************************************************************************)
EXTENDS CppBlog, TLAPS

(* An installer between two statements has created (or found) all tables    *)
(* before its own, and only a process that found no file is an installer.   *)
ExecProgress ==
    \A w \in Worker :
        pc[w] = "exec" => dbinstall[w] /\ Prefix(stmt[w] - 1) \subseteq tables

(* main() meets the CREATE TABLEs from the first one on.                    *)
StartsAtFirst ==
    \A w \in Worker :
        pc[w] \in {"idle", "stat", "mkdirAll", "mkdir", "eexist", "probe", "open"}
            => stmt[w] = 1

(* What mkdir refused to create is there.                                   *)
EexistSeen == \A w \in Worker : pc[w] = "eexist" => datas # "absent"

IInv ==
    /\ TypeOK
    /\ SchemaPrefix
    /\ ExecProgress
    /\ StartsAtFirst
    /\ InstallerServes
    /\ StoreLayout
    /\ EexistSeen
    /\ DirFailureJustified
-----------------------------------------------------------------------------
(* Prefixes of the schema.                                                  *)

(* The schema has a first table, and each position holds a table.           *)
LEMMA SchemaFacts ==
    /\ Len(Schema) \in Nat
    /\ Len(Schema) >= 1
    /\ \A i \in 1..Len(Schema) : Schema[i] \in AllTables
  <1>1. Schema \in Seq(Table) /\ Schema # <<>>
    BY SchemaAssumption
  <1>2. Len(Schema) \in Nat /\ Len(Schema) >= 1
    BY <1>1
  <1> QED
    BY <1>2 DEF AllTables, Prefix

(* A prefix holds another one only if it is at least as long.               *)
LEMMA PrefixOrder ==
    ASSUME NEW k \in 0..Len(Schema), NEW n \in 0..Len(Schema),
           Prefix(k) \subseteq Prefix(n)
    PROVE  k <= n
  <1> SUFFICES ASSUME k > n PROVE FALSE
    BY SchemaFacts
  <1>1. k \in 1..Len(Schema) /\ k \in 1..k
    BY SchemaFacts
  <1>2. Schema[k] \in Prefix(n)
    BY <1>1 DEF Prefix
  <1>3. PICK i \in 1..n : Schema[i] = Schema[k]
    BY <1>2 DEF Prefix
  <1>4. i \in 1..Len(Schema) /\ i # k
    BY <1>3, SchemaFacts
  <1> QED
    BY <1>1, <1>3, <1>4, SchemaAssumption

(* The next statement extends a prefix by one table.                        *)
LEMMA PrefixExtend ==
    ASSUME NEW k \in 1..Len(Schema)
    PROVE  Prefix(k - 1) \cup {Schema[k]} = Prefix(k)
  <1>1. \A i \in 1..k : i \in 1..(k - 1) \/ i = k
    BY SchemaFacts
  <1>2. \A i \in 1..(k - 1) : i \in 1..k
    BY SchemaFacts
  <1> QED
    BY <1>1, <1>2, SchemaFacts DEF Prefix

(* Executing a statement whose predecessors are all there keeps the set of  *)
(* tables a prefix, whichever tables rivals have added meanwhile.           *)
LEMMA CreateKeepsPrefix ==
    ASSUME NEW k \in 1..Len(Schema), NEW n \in 0..Len(Schema),
           Prefix(k - 1) \subseteq Prefix(n)
    PROVE  \E m \in 0..Len(Schema) : Prefix(n) \cup {Schema[k]} = Prefix(m)
  <1>1. k - 1 \in 0..Len(Schema)
    BY SchemaFacts
  <1>2. k - 1 <= n
    BY <1>1, PrefixOrder
  <1>3. CASE k <= n
    <2>1. Schema[k] \in Prefix(n)
      BY <1>3, SchemaFacts DEF Prefix
    <2> QED
      BY <2>1
  <1>4. CASE k = n + 1
    <2>1. Prefix(n) \cup {Schema[k]} = Prefix(k)
      BY <1>4, PrefixExtend, SchemaFacts
    <2> QED
      BY <2>1, SchemaFacts
  <1> QED
    BY <1>2, <1>3, <1>4, SchemaFacts
-----------------------------------------------------------------------------
(* Type correctness.                                                        *)
LEMMA TypeInit == Init => TypeOK
  <1> SUFFICES ASSUME Init PROVE TypeOK
    OBVIOUS
  <1>1. datas \in {"absent", "dir", "file", "special"} /\ dbFile \in BOOLEAN
    BY DEF Init
  <1>2. tables \in SUBSET AllTables
    BY DEF Init
  <1>3. 1 \in 1..Len(Schema)
    BY SchemaFacts
  <1>4. /\ pc \in [Worker -> PC]
        /\ dbinstall \in [Worker -> BOOLEAN]
        /\ stmt \in [Worker -> 1..Len(Schema)]
        /\ contended \in [Worker -> BOOLEAN]
    BY <1>3 DEF Init, PC
  <1> QED
    BY <1>1, <1>2, <1>4 DEF TypeOK

(* No step of any process spoils the type of a variable.                    *)
LEMMA TypeStep == TypeOK /\ [Next]_vars => TypeOK'
  <1> SUFFICES ASSUME TypeOK, [Next]_vars PROVE TypeOK'
    OBVIOUS
  <1> USE SchemaFacts
  <1> USE DEF TypeOK, PC, Running, Ended, store, locals, Goto
  <1>1. ASSUME NEW w \in Worker, Arrive(w) PROVE TypeOK'
    BY <1>1 DEF Arrive
  <1>2. ASSUME NEW w \in Worker, StatDatas(w) PROVE TypeOK'
    BY <1>2 DEF StatDatas
  <1>3. ASSUME NEW w \in Worker, MkdirAll(w) PROVE TypeOK'
    BY <1>3 DEF MkdirAll
  <1>4. ASSUME NEW w \in Worker, Mkdir(w) PROVE TypeOK'
    BY <1>4 DEF Mkdir
  <1>5. ASSUME NEW w \in Worker, MkdirExists(w) PROVE TypeOK'
    BY <1>5 DEF MkdirExists, AfterEexist
  <1>6. ASSUME NEW w \in Worker, ProbeFile(w) PROVE TypeOK'
    BY <1>6 DEF ProbeFile
  <1>7. ASSUME NEW w \in Worker, OpenDb(w) PROVE TypeOK'
    BY <1>7 DEF OpenDb, AfterOpen
  <1>8. ASSUME NEW w \in Worker, CreateTable(w) PROVE TypeOK'
    BY <1>8 DEF CreateTable, NextStatement
  <1>9. ASSUME NEW w \in Worker, CreateTableFails(w) PROVE TypeOK'
    BY <1>9 DEF CreateTableFails, ExecError
  <1>10. ASSUME NEW w \in Worker, BeginPage(w) PROVE TypeOK'
    BY <1>10 DEF BeginPage
  <1>11. ASSUME NEW w \in Worker, FinishPage(w) PROVE TypeOK'
    BY <1>11 DEF FinishPage
  <1>12. ASSUME NEW w \in Worker, Crash(w) PROVE TypeOK'
    BY <1>12 DEF Crash
  <1>13. ASSUME NEW w \in Worker, Reap(w) PROVE TypeOK'
    BY <1>13 DEF Reap
  <1>14. CASE UNCHANGED vars
    BY <1>14 DEF vars
  <1> QED
    BY <1>1, <1>2, <1>3, <1>4, <1>5, <1>6, <1>7, <1>8, <1>9, <1>10, <1>11,
       <1>12, <1>13, <1>14 DEF Next, Step

(* Every variable keeps its type.                                           *)
THEOREM TypeCorrect == Spec => []TypeOK
  <1> QED
    BY TypeInit, TypeStep, PTL DEF Spec
-----------------------------------------------------------------------------
(* The inductive invariant.                                                 *)
LEMMA InvInit == Init => IInv
  <1> SUFFICES ASSUME Init PROVE IInv
    OBVIOUS
  <1>1. TypeOK
    BY TypeInit
  <1>2. SchemaPrefix
    <2>1. Prefix(0) = {}
      BY DEF Prefix
    <2>2. tables = {} \/ tables = AllTables
      BY DEF Init
    <2> QED
      BY <2>1, <2>2, SchemaFacts DEF SchemaPrefix, AllTables
  <1>3. \A w \in Worker : pc[w] = "idle" /\ stmt[w] = 1
    BY DEF Init
  <1>4. ExecProgress /\ StartsAtFirst /\ InstallerServes /\ EexistSeen
          /\ DirFailureJustified
    BY <1>3 DEF ExecProgress, StartsAtFirst, InstallerServes, EexistSeen,
                DirFailureJustified
  <1>5. StoreLayout
    BY <1>3 DEF StoreLayout, Init
  <1> QED
    BY <1>1, <1>2, <1>4, <1>5 DEF IInv

(* Every step of main(), of the kernel and of the CGI server preserves the  *)
(* invariant.                                                               *)
LEMMA InvStep == IInv /\ [Next]_vars => IInv'
  <1> SUFFICES ASSUME IInv, [Next]_vars PROVE IInv'
    OBVIOUS
  <1>0. TypeOK /\ TypeOK'
    BY TypeStep DEF IInv
  <1> DEFINE Rest == /\ SchemaPrefix' /\ ExecProgress' /\ StartsAtFirst'
                     /\ InstallerServes' /\ StoreLayout' /\ EexistSeen'
                     /\ DirFailureJustified'
  <1> USE SchemaFacts, <1>0
  <1>1. ASSUME NEW w \in Worker, Arrive(w) PROVE Rest
    <2>1. SchemaPrefix'
      BY <1>1 DEF Arrive, store, IInv, SchemaPrefix
    <2>2. ExecProgress' /\ StartsAtFirst'
      BY <1>1 DEF Arrive, Goto, store, locals, TypeOK, IInv, ExecProgress, StartsAtFirst, Prefix
    <2>3. InstallerServes'
      BY <1>1 DEF Arrive, Goto, store, locals, TypeOK, IInv, InstallerServes
    <2>4. StoreLayout'
      BY <1>1 DEF Arrive, Goto, store, locals, TypeOK, IInv, StoreLayout, HasDirBit
    <2>5. EexistSeen' /\ DirFailureJustified'
      BY <1>1 DEF Arrive, Goto, store, locals, TypeOK, IInv, EexistSeen, DirFailureJustified
    <2> QED
      BY <2>1, <2>2, <2>3, <2>4, <2>5
  <1>2. ASSUME NEW w \in Worker, StatDatas(w) PROVE Rest
    <2>1. SchemaPrefix'
      BY <1>2 DEF StatDatas, store, IInv, SchemaPrefix
    <2>2. ExecProgress' /\ StartsAtFirst'
      BY <1>2 DEF StatDatas, Goto, store, locals, TypeOK, IInv, ExecProgress, StartsAtFirst, Prefix
    <2>3. InstallerServes'
      BY <1>2 DEF StatDatas, Goto, store, locals, TypeOK, IInv, InstallerServes
    <2>4. StoreLayout'
      BY <1>2 DEF StatDatas, Goto, store, locals, TypeOK, IInv, StoreLayout, HasDirBit
    <2>5. EexistSeen' /\ DirFailureJustified'
      BY <1>2 DEF StatDatas, Goto, store, locals, TypeOK, IInv, EexistSeen, DirFailureJustified
    <2> QED
      BY <2>1, <2>2, <2>3, <2>4, <2>5
  <1>3. ASSUME NEW w \in Worker, MkdirAll(w) PROVE Rest
    <2>1. SchemaPrefix'
      BY <1>3 DEF MkdirAll, store, IInv, SchemaPrefix
    <2>2. ExecProgress' /\ StartsAtFirst'
      BY <1>3 DEF MkdirAll, Goto, store, locals, TypeOK, IInv, ExecProgress, StartsAtFirst, Prefix
    <2>3. InstallerServes'
      BY <1>3 DEF MkdirAll, Goto, store, locals, TypeOK, IInv, InstallerServes
    <2>4. StoreLayout'
      BY <1>3 DEF MkdirAll, Goto, store, locals, TypeOK, IInv, StoreLayout, HasDirBit
    <2>5. EexistSeen' /\ DirFailureJustified'
      BY <1>3 DEF MkdirAll, Goto, store, locals, TypeOK, IInv, EexistSeen, DirFailureJustified
    <2> QED
      BY <2>1, <2>2, <2>3, <2>4, <2>5
  <1>4. ASSUME NEW w \in Worker, Mkdir(w) PROVE Rest
    <2>1. SchemaPrefix'
      BY <1>4 DEF Mkdir, store, IInv, SchemaPrefix
    <2>2. ExecProgress' /\ StartsAtFirst'
      BY <1>4 DEF Mkdir, Goto, store, locals, TypeOK, IInv, ExecProgress, StartsAtFirst, Prefix
    <2>3. InstallerServes'
      BY <1>4 DEF Mkdir, Goto, store, locals, TypeOK, IInv, InstallerServes
    <2>4. StoreLayout'
      BY <1>4 DEF Mkdir, Goto, store, locals, TypeOK, IInv, StoreLayout, HasDirBit
    <2>5. EexistSeen' /\ DirFailureJustified'
      BY <1>4 DEF Mkdir, Goto, store, locals, TypeOK, IInv, EexistSeen, DirFailureJustified
    <2> QED
      BY <2>1, <2>2, <2>3, <2>4, <2>5
  <1>5. ASSUME NEW w \in Worker, MkdirExists(w) PROVE Rest
    <2>1. SchemaPrefix'
      BY <1>5 DEF MkdirExists, store, IInv, SchemaPrefix
    <2>2. ExecProgress' /\ StartsAtFirst'
      BY <1>5 DEF MkdirExists, AfterEexist, Goto, store, locals, TypeOK, IInv, ExecProgress, StartsAtFirst, Prefix
    <2>3. InstallerServes'
      BY <1>5 DEF MkdirExists, AfterEexist, Goto, store, locals, TypeOK, IInv, InstallerServes
    <2>4. StoreLayout'
      BY <1>5 DEF MkdirExists, AfterEexist, Goto, store, locals, TypeOK, IInv, StoreLayout, HasDirBit
    <2>5. EexistSeen' /\ DirFailureJustified'
      BY <1>5 DEF MkdirExists, AfterEexist, Goto, store, locals, TypeOK, IInv, EexistSeen, DirFailureJustified,
         HasDirBit
    <2> QED
      BY <2>1, <2>2, <2>3, <2>4, <2>5
  <1>6. ASSUME NEW w \in Worker, ProbeFile(w) PROVE Rest
    <2>1. SchemaPrefix'
      BY <1>6 DEF ProbeFile, store, IInv, SchemaPrefix
    <2>2. ExecProgress' /\ StartsAtFirst'
      BY <1>6 DEF ProbeFile, Goto, store, locals, TypeOK, IInv, ExecProgress, StartsAtFirst, Prefix
    <2>3. InstallerServes'
      BY <1>6 DEF ProbeFile, Goto, store, locals, TypeOK, IInv, InstallerServes
    <2>4. StoreLayout'
      BY <1>6 DEF ProbeFile, Goto, store, locals, TypeOK, IInv, StoreLayout, HasDirBit
    <2>5. EexistSeen' /\ DirFailureJustified'
      BY <1>6 DEF ProbeFile, Goto, store, locals, TypeOK, IInv, EexistSeen, DirFailureJustified
    <2> QED
      BY <2>1, <2>2, <2>3, <2>4, <2>5
  <1>7. ASSUME NEW w \in Worker, OpenDb(w) PROVE Rest
    <2>1. SchemaPrefix'
      BY <1>7 DEF OpenDb, store, IInv, SchemaPrefix
    <2>2. ExecProgress' /\ StartsAtFirst'
      BY <1>7 DEF OpenDb, AfterOpen, Goto, store, locals, TypeOK, IInv, ExecProgress, StartsAtFirst, Prefix
    <2>3. InstallerServes'
      BY <1>7 DEF OpenDb, AfterOpen, Goto, store, locals, TypeOK, IInv, InstallerServes
    <2>4. StoreLayout'
      BY <1>7 DEF OpenDb, AfterOpen, Goto, store, locals, TypeOK, IInv, StoreLayout, HasDirBit
    <2>5. EexistSeen' /\ DirFailureJustified'
      BY <1>7 DEF OpenDb, AfterOpen, Goto, store, locals, TypeOK, IInv, StoreLayout,
         HasDirBit, EexistSeen, DirFailureJustified
    <2> QED
      BY <2>1, <2>2, <2>3, <2>4, <2>5
  <1>8. ASSUME NEW w \in Worker, CreateTable(w) PROVE Rest
    <2>1. PICK n \in 0..Len(Schema) : tables = Prefix(n)
      BY DEF IInv, SchemaPrefix
    <2>2. pc[w] = "exec" /\ stmt[w] \in 1..Len(Schema)
      BY <1>8 DEF CreateTable, TypeOK
    <2>3. dbinstall[w] /\ Prefix(stmt[w] - 1) \subseteq Prefix(n)
      BY <2>1, <2>2 DEF IInv, ExecProgress
    <2>4. tables' = Prefix(n) \cup {Schema[stmt[w]]}
      BY <1>8, <2>1 DEF CreateTable
    <2>5. SchemaPrefix'
      BY <2>2, <2>3, <2>4, CreateKeepsPrefix DEF SchemaPrefix
    <2>6. Prefix(stmt[w]) \subseteq tables'
      BY <2>2, <2>3, <2>4, PrefixExtend
    <2>7. tables \subseteq tables' /\ tables' \subseteq AllTables
      BY <2>1, <2>4 DEF TypeOK
    <2>8. ExecProgress'
      <3> SUFFICES ASSUME NEW r \in Worker, pc'[r] = "exec"
                   PROVE  dbinstall'[r] /\ Prefix(stmt'[r] - 1) \subseteq tables'
        BY DEF ExecProgress
      <3>1. CASE r = w
        <4>1. dbinstall'[w] /\ stmt'[w] - 1 = stmt[w]
          BY <1>8, <2>2, <2>3, <3>1 DEF CreateTable, NextStatement, Goto, TypeOK
        <4> QED
          BY <2>6, <3>1, <4>1
      <3>2. CASE r # w
        <4>1. pc[r] = "exec" /\ dbinstall'[r] = dbinstall[r] /\ stmt'[r] = stmt[r]
          BY <1>8, <3>2 DEF CreateTable, NextStatement, Goto, TypeOK
        <4> QED
          BY <2>7, <4>1 DEF IInv, ExecProgress
      <3> QED
        BY <3>1, <3>2
    <2>9. InstallerServes'
      <3>1. ASSUME pc'[w] # "exec" PROVE tables' = AllTables
        <4>1. stmt[w] = Len(Schema)
          BY <1>8, <2>2, <3>1 DEF CreateTable, NextStatement, Goto, TypeOK
        <4> QED
          BY <2>6, <2>7, <4>1 DEF AllTables
      <3>2. ASSUME NEW r \in Worker, r # w
            PROVE  pc'[r] = pc[r] /\ dbinstall'[r] = dbinstall[r]
        BY <1>8, <3>2 DEF CreateTable, NextStatement, Goto, TypeOK
      <3>3. tables = AllTables => tables' = AllTables
        BY <2>7
      <3> QED
        BY <3>1, <3>2, <3>3 DEF IInv, InstallerServes
    <2>10. StartsAtFirst' /\ StoreLayout' /\ EexistSeen' /\ DirFailureJustified'
      BY <1>8, <2>2 DEF CreateTable, NextStatement, Goto, TypeOK, IInv,
         StartsAtFirst, StoreLayout, HasDirBit, EexistSeen, DirFailureJustified
    <2> QED
      BY <2>5, <2>8, <2>9, <2>10
  <1>9. ASSUME NEW w \in Worker, CreateTableFails(w) PROVE Rest
    <2>1. SchemaPrefix'
      BY <1>9 DEF CreateTableFails, store, IInv, SchemaPrefix
    <2>2. ExecProgress' /\ StartsAtFirst'
      BY <1>9 DEF CreateTableFails, ExecError, Goto, store, locals, TypeOK, IInv, ExecProgress, StartsAtFirst, Prefix
    <2>3. InstallerServes'
      BY <1>9 DEF CreateTableFails, ExecError, Goto, store, locals, TypeOK, IInv, InstallerServes
    <2>4. StoreLayout'
      BY <1>9 DEF CreateTableFails, ExecError, Goto, store, locals, TypeOK, IInv, StoreLayout, HasDirBit
    <2>5. EexistSeen' /\ DirFailureJustified'
      BY <1>9 DEF CreateTableFails, ExecError, Goto, store, locals, TypeOK, IInv, EexistSeen, DirFailureJustified
    <2> QED
      BY <2>1, <2>2, <2>3, <2>4, <2>5
  <1>10. ASSUME NEW w \in Worker, BeginPage(w) PROVE Rest
    <2>1. SchemaPrefix'
      BY <1>10 DEF BeginPage, store, IInv, SchemaPrefix
    <2>2. ExecProgress' /\ StartsAtFirst'
      BY <1>10 DEF BeginPage, Goto, store, locals, TypeOK, IInv, ExecProgress, StartsAtFirst, Prefix
    <2>3. InstallerServes'
      BY <1>10 DEF BeginPage, Goto, store, locals, TypeOK, IInv, InstallerServes
    <2>4. StoreLayout'
      BY <1>10 DEF BeginPage, Goto, store, locals, TypeOK, IInv, StoreLayout, HasDirBit
    <2>5. EexistSeen' /\ DirFailureJustified'
      BY <1>10 DEF BeginPage, Goto, store, locals, TypeOK, IInv, EexistSeen, DirFailureJustified
    <2> QED
      BY <2>1, <2>2, <2>3, <2>4, <2>5
  <1>11. ASSUME NEW w \in Worker, FinishPage(w) PROVE Rest
    <2>1. SchemaPrefix'
      BY <1>11 DEF FinishPage, store, IInv, SchemaPrefix
    <2>2. ExecProgress' /\ StartsAtFirst'
      BY <1>11 DEF FinishPage, Goto, store, locals, TypeOK, IInv, ExecProgress, StartsAtFirst, Prefix
    <2>3. InstallerServes'
      BY <1>11 DEF FinishPage, Goto, store, locals, TypeOK, IInv, InstallerServes
    <2>4. StoreLayout'
      BY <1>11 DEF FinishPage, Goto, store, locals, TypeOK, IInv, StoreLayout, HasDirBit
    <2>5. EexistSeen' /\ DirFailureJustified'
      BY <1>11 DEF FinishPage, Goto, store, locals, TypeOK, IInv, EexistSeen, DirFailureJustified
    <2> QED
      BY <2>1, <2>2, <2>3, <2>4, <2>5
  <1>12. ASSUME NEW w \in Worker, Crash(w) PROVE Rest
    <2>1. SchemaPrefix'
      BY <1>12 DEF Crash, store, IInv, SchemaPrefix
    <2>2. ExecProgress' /\ StartsAtFirst'
      BY <1>12 DEF Crash, Running, Goto, store, locals, TypeOK, IInv, ExecProgress, StartsAtFirst, Prefix
    <2>3. InstallerServes'
      BY <1>12 DEF Crash, Running, Goto, store, locals, TypeOK, IInv, InstallerServes
    <2>4. StoreLayout'
      BY <1>12 DEF Crash, Running, Goto, store, locals, TypeOK, IInv, StoreLayout, HasDirBit
    <2>5. EexistSeen' /\ DirFailureJustified'
      BY <1>12 DEF Crash, Running, Goto, store, locals, TypeOK, IInv, EexistSeen, DirFailureJustified
    <2> QED
      BY <2>1, <2>2, <2>3, <2>4, <2>5
  <1>13. ASSUME NEW w \in Worker, Reap(w) PROVE Rest
    <2>1. SchemaPrefix'
      BY <1>13 DEF Reap, store, IInv, SchemaPrefix
    <2>2. ExecProgress' /\ StartsAtFirst'
      BY <1>13 DEF Reap, Goto, store, locals, TypeOK, IInv, ExecProgress, StartsAtFirst, Prefix
    <2>3. InstallerServes'
      BY <1>13 DEF Reap, Goto, store, locals, TypeOK, IInv, InstallerServes
    <2>4. StoreLayout'
      BY <1>13 DEF Reap, Goto, store, locals, TypeOK, IInv, StoreLayout, HasDirBit
    <2>5. EexistSeen' /\ DirFailureJustified'
      BY <1>13 DEF Reap, Goto, store, locals, TypeOK, IInv, EexistSeen, DirFailureJustified
    <2> QED
      BY <2>1, <2>2, <2>3, <2>4, <2>5
  <1>14. ASSUME UNCHANGED vars PROVE Rest
    BY <1>14 DEF vars, IInv, SchemaPrefix, ExecProgress, StartsAtFirst,
       InstallerServes, StoreLayout, HasDirBit, EexistSeen, DirFailureJustified
  <1> HIDE DEF Rest
  <1>15. Rest
    BY <1>1, <1>2, <1>3, <1>4, <1>5, <1>6, <1>7, <1>8, <1>9, <1>10, <1>11,
       <1>12, <1>13, <1>14 DEF Next, Step
  <1> QED
    BY <1>0, <1>15 DEF IInv, Rest

(* IInv holds of the requests in every reachable state.                     *)
THEOREM InvHolds == Spec => []IInv
  <1> QED
    BY InvInit, InvStep, PTL DEF Spec
-----------------------------------------------------------------------------
(* The tables in the database are always the first n of the schema.         *)
THEOREM SchemaPrefixHolds == Spec => []SchemaPrefix
  <1> QED
    BY InvHolds, PTL DEF IInv

(* A process that found no file serves its page over a full schema.         *)
THEOREM InstallerServesHolds == Spec => []InstallerServes
  <1> QED
    BY InvHolds, PTL DEF IInv

(* Tables are in a file, the file in a directory, and every process past    *)
(* the respective step of main() finds them there.                          *)
THEOREM StoreLayoutHolds == Spec => []StoreLayout
  <1> QED
    BY InvHolds, PTL DEF IInv

(* A request gives up on the directory only over a file or a fault, and at  *)
(* the open only over a socket or a block device there, or a fault.         *)
THEOREM DirFailureJustifiedHolds == Spec => []DirFailureJustified
  <1> QED
    BY InvHolds, PTL DEF IInv

(* From a settled state no step creates a table or starts an installer.     *)
LEMMA SettledStep ==
    IInv /\ [Next]_vars => (Settled => Settled' /\ UNCHANGED tables)
  <1> SUFFICES ASSUME IInv, [Next]_vars, Settled
               PROVE  Settled' /\ UNCHANGED tables
    OBVIOUS
  <1>0. /\ TypeOK /\ ExecProgress
        /\ dbFile
        /\ \A r \in Worker : dbinstall[r] => pc[r] \notin {"open", "exec"}
    BY DEF IInv, Settled
  <1>1. \A r \in Worker : pc[r] # "exec"
    BY <1>0 DEF ExecProgress
  <1> USE <1>0, <1>1
  <1> USE DEF Settled, Goto, store, locals, TypeOK
  <1>2. ASSUME NEW w \in Worker,
               \/ Arrive(w) \/ StatDatas(w) \/ MkdirAll(w) \/ Mkdir(w)
               \/ MkdirExists(w) \/ BeginPage(w) \/ FinishPage(w)
               \/ Crash(w) \/ Reap(w)
        PROVE  Settled' /\ UNCHANGED tables
    BY <1>2 DEF Arrive, StatDatas, MkdirAll, Mkdir, MkdirExists, AfterEexist,
       BeginPage, FinishPage, Crash, Reap
  <1>3. ASSUME NEW w \in Worker, ProbeFile(w)
        PROVE  Settled' /\ UNCHANGED tables
    BY <1>3 DEF ProbeFile
  <1>4. ASSUME NEW w \in Worker, OpenDb(w)
        PROVE  Settled' /\ UNCHANGED tables
    BY <1>4 DEF OpenDb, AfterOpen
  <1>5. ASSUME NEW w \in Worker, CreateTable(w) \/ CreateTableFails(w)
        PROVE  FALSE
    BY <1>5 DEF CreateTable, CreateTableFails
  <1>6. CASE UNCHANGED vars
    BY <1>6 DEF vars
  <1> QED
    BY <1>2, <1>3, <1>4, <1>5, <1>6 DEF Next, Step

(* Nobody completes or repairs an installation that has come to rest.       *)
THEOREM InstallFinalHolds == Spec => InstallFinal
  <1>1. IInv /\ [Next]_vars => [Settled => Settled' /\ UNCHANGED tables]_vars
    BY SettledStep
  <1> QED
    BY <1>1, InvHolds, PTL DEF Spec, InstallFinal
=============================================================================
