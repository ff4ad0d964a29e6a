------------------------- MODULE SqliteInstallProofs -------------------------
(***************************************************************************)
(* SqliteInstall implements CppBlog, proved for any number of processes,   *)
(* any schema without duplicates and any set of faults; and so every       *)
(* theorem of CppBlogProofs holds of it.                                   *)
(***************************************************************************)
EXTENDS SqliteInstall, TLAPS

(* What the stage of a process says of the lock bytes it holds.             *)
HeldAtStage ==
    \A w \in Worker :
        /\ pc[w] # "exec" => stage[w] = "open"
        /\ stage[w] = "open" <=> locks[w] = {}
        /\ locks[w] # {} => "shared" \in locks[w]
        /\ "reserved" \in locks[w] <=>
             stage[w] \in {"reserved", "journaled", "exclusive", "flushed", "rollback"}
        /\ "exclusive" \in locks[w] <=> stage[w] \in {"exclusive", "flushed", "playback"}
        /\ "exclusive" \in locks[w] => "pending" \in locks[w]

(* Which bytes exclude one another.                                         *)
Excludes ==
    \A w \in Worker : \A r \in Worker \ {w} :
        /\ "reserved" \in locks[w] => "reserved" \notin locks[r]
        /\ "exclusive" \in locks[w] => locks[r] = {}

(* SQLITE_BUSY comes only to those that overlap with another installer.     *)
Overlap ==
    \A w \in Worker :
        /\ \A r \in Worker \ {w} : pc[w] = "exec" /\ pc[r] = "exec" => contended[w]
        /\ stage[w] \in {"giveup", "rollback"} => contended[w]

(* The journal and the file, at each stage of a writer and of recovery.     *)
JournalAtStage ==
    \A w \in Worker :
        /\ stage[w] \in {"journaled", "exclusive", "rollback"} => journal /\ pages = saved
        /\ stage[w] = "flushed" => journal /\ pages = saved \cup {Schema[stmt[w]]}
        /\ stage[w] = "drop" => pages = {}

(* A file that has to be played back is not empty: hasHotJournal deletes    *)
(* the journal over an empty one.                                           *)
TornIsNotEmpty == journal /\ pages # saved => pages # {}

IInv ==
    /\ TypeOK
    /\ HeldAtStage
    /\ Excludes
    /\ Overlap
    /\ JournalAtStage
    /\ TornIsNotEmpty
    /\ NoDirtyRead
    /\ TornIsOwnedOrHot
-----------------------------------------------------------------------------
(* The schema has a first table, and each position holds a table.           *)
LEMMA SchemaFacts ==
    /\ Len(Schema) \in Nat
    /\ Len(Schema) >= 1
    /\ \A i \in 1..Len(Schema) : Schema[i] \in Blog!AllTables
  <1>1. Len(Schema) \in Nat /\ Len(Schema) >= 1
    BY SchemaAssumption
  <1> QED
    BY <1>1 DEF Blog!AllTables, Blog!Prefix

(* Type correctness.                                                        *)
LEMMA TypeInit == Init => TypeOK
  <1> SUFFICES ASSUME Init PROVE TypeOK
    OBVIOUS
  <1>1. Committed \in SUBSET Blog!AllTables
    BY DEF Init, Committed
  <1>2. 1 \in 1..Len(Schema)
    BY SchemaFacts
  <1>3. Blog!TypeOK
    BY <1>1, <1>2 DEF Init, Blog!Init, Blog!TypeOK, Blog!PC
  <1> QED
    BY <1>3 DEF Init, TypeOK, Stage, LockByte

(* What the operators that several actions share do to the types: a         *)
(* sqlite3_exec that fails, one that returns, and the way to EXCLUSIVE.     *)
LEMMA FailTypes ==
    ASSUME TypeOK, NEW w \in Worker, ExecFails(w)
    PROVE  /\ pc' \in [Worker -> Blog!PC] /\ stmt' = stmt
           /\ locks' \in [Worker -> SUBSET LockByte] /\ stage' \in [Worker -> Stage]
           /\ loaded' \in [Worker -> BOOLEAN] /\ view' \in [Worker -> SUBSET Blog!AllTables]
           /\ UNCHANGED <<datas, dbFile, dbinstall, contended>>
  BY DEF TypeOK, Blog!TypeOK, Blog!PC, Blog!Ended, ExecFails, Blog!ExecError, Blog!Goto,
         Disconnect, Unlock, HoldOnly, MoveTo, Stage

(* sqlite3_exec returns SQLITE_OK.                                          *)
LEMMA ReturnTypes ==
    ASSUME TypeOK, NEW w \in Worker, ExecReturns(w)
    PROVE  /\ pc' \in [Worker -> Blog!PC] /\ stmt' \in [Worker -> 1..Len(Schema)]
           /\ locks' \in [Worker -> SUBSET LockByte] /\ stage' \in [Worker -> Stage]
           /\ UNCHANGED <<datas, dbFile, dbinstall, contended>>
  <1>1. locks' \in [Worker -> SUBSET LockByte] /\ stage' \in [Worker -> Stage]
    BY DEF TypeOK, ExecReturns, Unlock, HoldOnly, MoveTo, Stage
  <1>2. pc' \in [Worker -> Blog!PC] /\ stmt' \in [Worker -> 1..Len(Schema)]
    <2>1. CASE stmt[w] < Len(Schema)
      <3>1. stmt[w] + 1 \in 1..Len(Schema)
        BY <2>1, SchemaFacts DEF TypeOK, Blog!TypeOK
      <3> QED
        BY <2>1, <3>1 DEF TypeOK, Blog!TypeOK, ExecReturns, Blog!NextStatement
    <2>2. CASE ~(stmt[w] < Len(Schema))
      <3>1. "page" \in Blog!PC
        BY DEF Blog!PC, Blog!Running
      <3> QED
        BY <2>2, <3>1 DEF TypeOK, Blog!TypeOK, ExecReturns, Blog!NextStatement, Blog!Goto
    <2> QED
      BY <2>1, <2>2
  <1> QED
    BY <1>1, <1>2 DEF ExecReturns

(* LockExclusive moves the caller to one of the two stages it is given.     *)
LEMMA ExclusiveTypes ==
    ASSUME TypeOK, NEW w \in Worker, NEW granted \in Stage, NEW denied \in Stage,
           LockExclusive(w, granted, denied)
    PROVE  locks' \in [Worker -> SUBSET LockByte] /\ stage' \in [Worker -> Stage]
  BY DEF TypeOK, LockExclusive, ToExclusive, HoldOnly, MoveTo, LockByte

(* No step of any process spoils the type of a variable.                    *)
LEMMA TypeStep == TypeOK /\ [Next]_vars => TypeOK'
  <1> SUFFICES ASSUME TypeOK, [Next]_vars PROVE TypeOK'
    OBVIOUS
  <1> USE SchemaFacts
  <1> USE DEF TypeOK, Blog!TypeOK, Committed, blogVars, file, conn
  <1>1. ASSUME NEW w \in Worker, LockShared(w) PROVE TypeOK'
    <2>1. CASE ExecFails(w) /\ UNCHANGED file
      <3>1. /\ pc' \in [Worker -> Blog!PC] /\ stmt' = stmt
            /\ locks' \in [Worker -> SUBSET LockByte] /\ stage' \in [Worker -> Stage]
            /\ loaded' \in [Worker -> BOOLEAN] /\ view' \in [Worker -> SUBSET Blog!AllTables]
            /\ UNCHANGED <<datas, dbFile, dbinstall, contended>>
        BY ONLY <2>1, FailTypes, TypeOK, w \in Worker
      <3> QED
        BY <2>1, <3>1
    <2>2. CASE ~ExecFails(w)
      <3>1. {"shared"} \in SUBSET LockByte /\ "access" \in Stage
        BY DEF LockByte, Stage
      <3> QED
        BY <1>1, <2>2, <3>1 DEF LockShared, MoveTo, HoldOnly
    <2> QED
      BY <1>1, <2>1, <2>2 DEF LockShared
  <1>2. ASSUME NEW w \in Worker, AccessJournal(w) PROVE TypeOK'
    BY <1>2 DEF AccessJournal, MoveTo, HoldOnly, Stage, LockByte
  <1>3. ASSUME NEW w \in Worker, CheckReserved(w) PROVE TypeOK'
    BY <1>3 DEF CheckReserved, AfterCheck, MoveTo, HoldOnly, Stage, LockByte
  <1>4. ASSUME NEW w \in Worker, DropJournal(w) PROVE TypeOK'
    BY <1>4 DEF DropJournal, MoveTo, HoldOnly, Stage, LockByte
  <1>5. ASSUME NEW w \in Worker, LockHotJournal(w) PROVE TypeOK'
    BY <1>5, ExclusiveTypes DEF LockHotJournal, Stage
  <1>6. ASSUME NEW w \in Worker, Playback(w) PROVE TypeOK'
    BY <1>6 DEF Playback, MoveTo, HoldOnly, Stage, LockByte
  <1>7. ASSUME NEW w \in Worker, ReadSchema(w) PROVE TypeOK'
    BY <1>7 DEF ReadSchema, Unlock, MoveTo, HoldOnly, Stage, LockByte
  <1>8. ASSUME NEW w \in Worker, Reprepare(w) PROVE TypeOK'
    BY <1>8 DEF Reprepare, ForgetSchema, Unlock, MoveTo, HoldOnly, Stage, LockByte
  <1>9. ASSUME NEW w \in Worker, TableExists(w) PROVE TypeOK'
    <2>1. /\ pc' \in [Worker -> Blog!PC] /\ stmt' \in [Worker -> 1..Len(Schema)]
          /\ locks' \in [Worker -> SUBSET LockByte] /\ stage' \in [Worker -> Stage]
          /\ UNCHANGED <<datas, dbFile, dbinstall, contended>>
      BY ONLY <1>9, ReturnTypes, TypeOK, w \in Worker DEF TableExists
    <2> QED
      BY <1>9, <2>1 DEF TableExists
  <1>10. ASSUME NEW w \in Worker, LockReserved(w) PROVE TypeOK'
    <2>1. /\ locks[w] \cup {"reserved"} \in SUBSET LockByte
          /\ "reserved" \in Stage /\ "giveup" \in Stage
      BY DEF LockByte, Stage
    <2> QED
      BY <1>10, <2>1 DEF LockReserved, MoveTo, HoldOnly
  <1>11. ASSUME NEW w \in Worker, WriteJournal(w) PROVE TypeOK'
    BY <1>11 DEF WriteJournal, SaveImages, MoveTo, HoldOnly, Stage, LockByte
  <1>12. ASSUME NEW w \in Worker, LockForCommit(w) PROVE TypeOK'
    BY <1>12, ExclusiveTypes DEF LockForCommit, Stage
  <1>13. ASSUME NEW w \in Worker, FlushPages(w) PROVE TypeOK'
    BY <1>13 DEF FlushPages, MoveTo, HoldOnly, Stage, LockByte
  <1>14. ASSUME NEW w \in Worker, DeleteJournal(w) PROVE TypeOK'
    BY <1>14, ReturnTypes DEF DeleteJournal
  <1>15. ASSUME NEW w \in Worker, Rollback(w) PROVE TypeOK'
    BY <1>15, FailTypes DEF Rollback
  <1>16. ASSUME NEW w \in Worker, GiveUp(w) PROVE TypeOK'
    BY <1>16, FailTypes DEF GiveUp
  <1>17. ASSUME NEW w \in Worker, IoError(w) PROVE TypeOK'
    BY <1>17, FailTypes DEF IoError
  <1>18. ASSUME NEW w \in Worker, Crash(w) PROVE TypeOK'
        BY <1>18 DEF Crash, Blog!Crash, Blog!store, Blog!locals, Disconnect, Unlock,
        Blog!Goto, Blog!PC, Blog!Running, Blog!Ended, MoveTo, HoldOnly, Stage, LockByte
  <1>19. ASSUME NEW w \in Worker, Reap(w) PROVE TypeOK'
        BY <1>19 DEF Reap, Blog!Reap, Blog!store, Disconnect, Unlock, Blog!Goto,
        Blog!PC, Blog!Running, Blog!Ended, MoveTo, HoldOnly, Stage, LockByte
  <1>20. ASSUME NEW w \in Worker, Arrive(w) PROVE TypeOK'
        BY <1>20 DEF Arrive, Blog!Arrive, Blog!store, Blog!locals, Blog!Goto, Blog!PC,
        Blog!Running, Blog!Ended
  <1>21. ASSUME NEW w \in Worker, Elsewhere(w) PROVE TypeOK'
    BY <1>21 DEF Elsewhere, Blog!StatDatas, Blog!MkdirAll, Blog!Mkdir, Blog!MkdirExists,
        Blog!AfterEexist, Blog!ProbeFile, Blog!OpenDb, Blog!AfterOpen, Blog!InExec,
        Blog!BeginPage, Blog!FinishPage, Blog!store, Blog!locals, Blog!Goto, Blog!PC,
        Blog!Running, Blog!Ended
  <1>22. CASE UNCHANGED vars
    BY <1>22 DEF vars
  <1> QED
    BY <1>1, <1>2, <1>3, <1>4, <1>5, <1>6, <1>7, <1>8, <1>9, <1>10, <1>11, <1>12, <1>13,
       <1>14, <1>15, <1>16, <1>17, <1>18, <1>19, <1>20, <1>21, <1>22 DEF Next, Step
-----------------------------------------------------------------------------
(* No order of the lock requests breaks the exclusion of the lock bytes.    *)
LEMMA LocksStep == TypeOK /\ HeldAtStage /\ Excludes /\ [Next]_vars => HeldAtStage' /\ Excludes'
  <1> SUFFICES ASSUME TypeOK, HeldAtStage, Excludes, [Next]_vars
               PROVE  HeldAtStage' /\ Excludes'
    OBVIOUS
  <1>0. /\ locks \in [Worker -> SUBSET LockByte] /\ stage \in [Worker -> Stage]
        /\ pc \in [Worker -> Blog!PC]
    BY DEF TypeOK, Blog!TypeOK
  <1> USE <1>0 DEF HeldAtStage, Excludes, blogVars, At, MoveTo, HoldOnly, Unlock, Free
  <1>1. ASSUME NEW w \in Worker, LockShared(w) PROVE HeldAtStage' /\ Excludes'
    BY <1>1 DEF LockShared, MayRead, ExecFails, Disconnect, Blog!ExecError, Blog!Goto
  <1>2. ASSUME NEW w \in Worker, AccessJournal(w) PROVE HeldAtStage' /\ Excludes'
    BY <1>2 DEF AccessJournal
  <1>3. ASSUME NEW w \in Worker, CheckReserved(w) PROVE HeldAtStage' /\ Excludes'
    BY <1>3 DEF CheckReserved, AfterCheck
  <1>4. ASSUME NEW w \in Worker, DropJournal(w) PROVE HeldAtStage' /\ Excludes'
    BY <1>4 DEF DropJournal
  <1>5. ASSUME NEW w \in Worker, LockHotJournal(w) PROVE HeldAtStage' /\ Excludes'
    BY <1>5 DEF LockHotJournal, LockExclusive, ToExclusive
  <1>6. ASSUME NEW w \in Worker, Playback(w) PROVE HeldAtStage' /\ Excludes'
    BY <1>6 DEF Playback
  <1>7. ASSUME NEW w \in Worker, ReadSchema(w) PROVE HeldAtStage' /\ Excludes'
    BY <1>7 DEF ReadSchema
  <1>8. ASSUME NEW w \in Worker, Reprepare(w) PROVE HeldAtStage' /\ Excludes'
    BY <1>8 DEF Reprepare
  <1>9. ASSUME NEW w \in Worker, TableExists(w) PROVE HeldAtStage' /\ Excludes'
    BY <1>9 DEF TableExists, ExecReturns, Blog!NextStatement, Blog!Goto
  <1>10. ASSUME NEW w \in Worker, LockReserved(w) PROVE HeldAtStage' /\ Excludes'
    BY <1>10 DEF LockReserved
  <1>11. ASSUME NEW w \in Worker, WriteJournal(w) PROVE HeldAtStage' /\ Excludes'
    BY <1>11 DEF WriteJournal
  <1>12. ASSUME NEW w \in Worker, LockForCommit(w) PROVE HeldAtStage' /\ Excludes'
    BY <1>12 DEF LockForCommit, LockExclusive, ToExclusive
  <1>13. ASSUME NEW w \in Worker, FlushPages(w) PROVE HeldAtStage' /\ Excludes'
    BY <1>13 DEF FlushPages
  <1>14. ASSUME NEW w \in Worker, DeleteJournal(w) PROVE HeldAtStage' /\ Excludes'
    BY <1>14 DEF DeleteJournal, ExecReturns, Blog!NextStatement, Blog!Goto
  <1>15. ASSUME NEW w \in Worker, Rollback(w) PROVE HeldAtStage' /\ Excludes'
    BY <1>15 DEF Rollback, ExecFails, Disconnect, Blog!ExecError, Blog!Goto
  <1>16. ASSUME NEW w \in Worker, GiveUp(w) PROVE HeldAtStage' /\ Excludes'
    BY <1>16 DEF GiveUp, ExecFails, Disconnect, Blog!ExecError, Blog!Goto
  <1>17. ASSUME NEW w \in Worker, IoError(w) PROVE HeldAtStage' /\ Excludes'
    BY <1>17 DEF IoError, ExecFails, Disconnect, Blog!ExecError, Blog!Goto
  <1>18. ASSUME NEW w \in Worker, Crash(w) PROVE HeldAtStage' /\ Excludes'
    BY <1>18 DEF Crash, Disconnect, Blog!Crash, Blog!Goto
  <1>19. ASSUME NEW w \in Worker, Reap(w) PROVE HeldAtStage' /\ Excludes'
    BY <1>19 DEF Reap, Disconnect, Blog!Reap, Blog!Goto, Blog!Ended
  <1>20. ASSUME NEW w \in Worker, Arrive(w) PROVE HeldAtStage' /\ Excludes'
    BY <1>20 DEF Arrive, conn, Blog!Arrive, Blog!Goto
  <1>21. ASSUME NEW w \in Worker, Elsewhere(w) PROVE HeldAtStage' /\ Excludes'
        BY <1>21 DEF Elsewhere, conn, Blog!StatDatas, Blog!MkdirAll, Blog!Mkdir,
        Blog!MkdirExists,
        Blog!ProbeFile, Blog!OpenDb, Blog!BeginPage, Blog!FinishPage, Blog!Goto
  <1>22. CASE UNCHANGED vars
    BY <1>22 DEF vars, conn
  <1> QED
    BY <1>1, <1>2, <1>3, <1>4, <1>5, <1>6, <1>7, <1>8, <1>9, <1>10, <1>11, <1>12, <1>13,
       <1>14, <1>15, <1>16, <1>17, <1>18, <1>19, <1>20, <1>21, <1>22 DEF Next, Step
-----------------------------------------------------------------------------
(* The files are as the stages say.                                         *)
Files == JournalAtStage /\ TornIsNotEmpty /\ NoDirtyRead /\ TornIsOwnedOrHot

(* Files and journal stay as the stages say: a step that changes one is     *)
(* taken by a process whose lock bytes keep the others away from it.        *)
LEMMA FilesStep ==
    TypeOK /\ HeldAtStage /\ Excludes /\ Files /\ [Next]_vars => Files'
  <1> SUFFICES ASSUME TypeOK, HeldAtStage, Excludes, Files, [Next]_vars
               PROVE  Files'
    OBVIOUS
  <1>0. /\ locks \in [Worker -> SUBSET LockByte] /\ stage \in [Worker -> Stage]
        /\ pc \in [Worker -> Blog!PC] /\ stmt \in [Worker -> 1..Len(Schema)]
        /\ journal \in BOOLEAN
    BY DEF TypeOK, Blog!TypeOK
  <1> USE <1>0 DEF HeldAtStage, Excludes, Files, JournalAtStage, TornIsNotEmpty, NoDirtyRead,
       TornIsOwnedOrHot, Committed, blogVars, file, At, MoveTo, HoldOnly, Unlock, Free
  <1>1. ASSUME NEW w \in Worker, LockShared(w) PROVE Files'
    BY <1>1 DEF LockShared, MayRead, ExecFails, Disconnect, Blog!ExecError, Blog!Goto
  <1>2. ASSUME NEW w \in Worker, AccessJournal(w) PROVE Files'
    BY <1>2 DEF AccessJournal
  <1>3. ASSUME NEW w \in Worker, CheckReserved(w) PROVE Files'
    BY <1>3 DEF CheckReserved, AfterCheck
  <1>4. ASSUME NEW w \in Worker, DropJournal(w) PROVE Files'
    BY <1>4 DEF DropJournal
  <1>5. ASSUME NEW w \in Worker, LockHotJournal(w) PROVE Files'
    BY <1>5 DEF LockHotJournal, LockExclusive, ToExclusive
  <1>6. ASSUME NEW w \in Worker, Playback(w) PROVE Files'
    BY <1>6 DEF Playback
  <1>7. ASSUME NEW w \in Worker, ReadSchema(w) PROVE Files'
    BY <1>7 DEF ReadSchema
  <1>8. ASSUME NEW w \in Worker, Reprepare(w) PROVE Files'
    BY <1>8 DEF Reprepare
  <1>9. ASSUME NEW w \in Worker, TableExists(w) PROVE Files'
    BY <1>9 DEF TableExists, ExecReturns, Blog!NextStatement, Blog!Goto
  <1>10. ASSUME NEW w \in Worker, LockReserved(w) PROVE Files'
    BY <1>10 DEF LockReserved
  <1>11. ASSUME NEW w \in Worker, WriteJournal(w) PROVE Files'
    BY <1>11 DEF WriteJournal, SaveImages
  <1>12. ASSUME NEW w \in Worker, LockForCommit(w) PROVE Files'
    BY <1>12 DEF LockForCommit, LockExclusive, ToExclusive
  <1>13. ASSUME NEW w \in Worker, FlushPages(w) PROVE Files'
    BY <1>13 DEF FlushPages
  <1>14. ASSUME NEW w \in Worker, DeleteJournal(w) PROVE Files'
    BY <1>14 DEF DeleteJournal, ExecReturns, Blog!NextStatement, Blog!Goto
  <1>15. ASSUME NEW w \in Worker, Rollback(w) PROVE Files'
    BY <1>15 DEF Rollback, ExecFails, Disconnect, Blog!ExecError, Blog!Goto
  <1>16. ASSUME NEW w \in Worker, GiveUp(w) PROVE Files'
    BY <1>16 DEF GiveUp, ExecFails, Disconnect, Blog!ExecError, Blog!Goto
  <1>17. ASSUME NEW w \in Worker, IoError(w) PROVE Files'
    BY <1>17 DEF IoError, ExecFails, Disconnect, Blog!ExecError, Blog!Goto
  <1>18. ASSUME NEW w \in Worker, Crash(w) PROVE Files'
    BY <1>18 DEF Crash, Disconnect, Blog!Crash, Blog!Goto, Blog!locals
  <1>19. ASSUME NEW w \in Worker, Reap(w) PROVE Files'
    BY <1>19 DEF Reap, Disconnect, Blog!Reap, Blog!Goto, Blog!Ended
  <1>20. ASSUME NEW w \in Worker, Arrive(w) PROVE Files'
    BY <1>20 DEF Arrive, conn, Blog!Arrive, Blog!Goto, Blog!locals
  <1>21. ASSUME NEW w \in Worker, Elsewhere(w) PROVE Files'
        BY <1>21 DEF Elsewhere, conn, Blog!StatDatas, Blog!MkdirAll, Blog!Mkdir,
        Blog!MkdirExists,
        Blog!ProbeFile, Blog!OpenDb, Blog!BeginPage, Blog!FinishPage, Blog!Goto, Blog!locals
  <1>22. CASE UNCHANGED vars
    BY <1>22 DEF vars, conn
  <1> QED
    BY <1>1, <1>2, <1>3, <1>4, <1>5, <1>6, <1>7, <1>8, <1>9, <1>10, <1>11, <1>12, <1>13,
       <1>14, <1>15, <1>16, <1>17, <1>18, <1>19, <1>20, <1>21, <1>22 DEF Next, Step

(* A process is told SQLITE_BUSY only when it overlaps with an installer.   *)
LEMMA OverlapStep ==
    TypeOK /\ HeldAtStage /\ Overlap /\ [Next]_vars => Overlap'
  <1> SUFFICES ASSUME TypeOK, HeldAtStage, Overlap, [Next]_vars
               PROVE  Overlap'
    OBVIOUS
  <1>0. /\ locks \in [Worker -> SUBSET LockByte] /\ stage \in [Worker -> Stage]
        /\ pc \in [Worker -> Blog!PC] /\ contended \in [Worker -> BOOLEAN]
    BY DEF TypeOK, Blog!TypeOK
  <1> USE <1>0 DEF HeldAtStage, Overlap, blogVars, At, MoveTo, HoldOnly, Unlock, Free
  <1>1. ASSUME NEW w \in Worker, LockShared(w) PROVE Overlap'
    BY <1>1 DEF LockShared, MayRead, ExecFails, Disconnect, Blog!ExecError, Blog!Goto
  <1>2. ASSUME NEW w \in Worker, AccessJournal(w) PROVE Overlap'
    BY <1>2 DEF AccessJournal
  <1>3. ASSUME NEW w \in Worker, CheckReserved(w) PROVE Overlap'
    BY <1>3 DEF CheckReserved, AfterCheck
  <1>4. ASSUME NEW w \in Worker, DropJournal(w) PROVE Overlap'
    BY <1>4 DEF DropJournal
  <1>5. ASSUME NEW w \in Worker, LockHotJournal(w) PROVE Overlap'
    BY <1>5 DEF LockHotJournal, LockExclusive, ToExclusive
  <1>6. ASSUME NEW w \in Worker, Playback(w) PROVE Overlap'
    BY <1>6 DEF Playback
  <1>7. ASSUME NEW w \in Worker, ReadSchema(w) PROVE Overlap'
    BY <1>7 DEF ReadSchema
  <1>8. ASSUME NEW w \in Worker, Reprepare(w) PROVE Overlap'
    BY <1>8 DEF Reprepare
  <1>9. ASSUME NEW w \in Worker, TableExists(w) PROVE Overlap'
    BY <1>9 DEF TableExists, ExecReturns, Blog!NextStatement, Blog!Goto
  <1>10. ASSUME NEW w \in Worker, LockReserved(w) PROVE Overlap'
    BY <1>10 DEF LockReserved
  <1>11. ASSUME NEW w \in Worker, WriteJournal(w) PROVE Overlap'
    BY <1>11 DEF WriteJournal, SaveImages
  <1>12. ASSUME NEW w \in Worker, LockForCommit(w) PROVE Overlap'
    BY <1>12 DEF LockForCommit, LockExclusive, ToExclusive
  <1>13. ASSUME NEW w \in Worker, FlushPages(w) PROVE Overlap'
    BY <1>13 DEF FlushPages
  <1>14. ASSUME NEW w \in Worker, DeleteJournal(w) PROVE Overlap'
    BY <1>14 DEF DeleteJournal, ExecReturns, Blog!NextStatement, Blog!Goto
  <1>15. ASSUME NEW w \in Worker, Rollback(w) PROVE Overlap'
    BY <1>15 DEF Rollback, ExecFails, Disconnect, Blog!ExecError, Blog!Goto
  <1>16. ASSUME NEW w \in Worker, GiveUp(w) PROVE Overlap'
    BY <1>16 DEF GiveUp, ExecFails, Disconnect, Blog!ExecError, Blog!Goto
  <1>17. ASSUME NEW w \in Worker, IoError(w) PROVE Overlap'
    BY <1>17 DEF IoError, ExecFails, Disconnect, Blog!ExecError, Blog!Goto
  <1>18. ASSUME NEW w \in Worker, Crash(w) PROVE Overlap'
    BY <1>18 DEF Crash, Disconnect, Blog!Crash, Blog!Goto, Blog!locals
  <1>19. ASSUME NEW w \in Worker, Reap(w) PROVE Overlap'
    BY <1>19 DEF Reap, Disconnect, Blog!Reap, Blog!Goto, Blog!Ended
  <1>20. ASSUME NEW w \in Worker, Arrive(w) PROVE Overlap'
    BY <1>20 DEF Arrive, conn, Blog!Arrive, Blog!Goto, Blog!locals
  <1>21. ASSUME NEW w \in Worker, Elsewhere(w) PROVE Overlap'
    <2>1. CASE Blog!OpenDb(w)
      <3>1. /\ pc[w] = "open" /\ stage' = stage
            /\ \A r \in Worker \ {w} : pc'[r] = pc[r]
        BY <1>21, <2>1 DEF Elsewhere, conn, Blog!OpenDb, Blog!Goto
      <3>2. \A r \in Worker : contended[r] => contended'[r]
        BY <2>1 DEF Blog!OpenDb
      <3>3. pc'[w] = "exec" =>
              \A r \in Worker \ {w} : pc[r] = "exec" => contended'[r] /\ contended'[w]
        BY <2>1 DEF Blog!OpenDb, Blog!AfterOpen, Blog!InExec, Blog!Goto
      <3> QED
        BY <3>1, <3>2, <3>3
    <2>2. CASE ~Blog!OpenDb(w)
      BY <1>21, <2>2 DEF Elsewhere, conn, Blog!StatDatas, Blog!MkdirAll, Blog!Mkdir,
          Blog!MkdirExists, Blog!AfterEexist, Blog!ProbeFile, Blog!BeginPage, Blog!FinishPage,
          Blog!Goto, Blog!locals
    <2> QED
      BY <2>1, <2>2
  <1>22. CASE UNCHANGED vars
    BY <1>22 DEF vars, conn
  <1> QED
    BY <1>1, <1>2, <1>3, <1>4, <1>5, <1>6, <1>7, <1>8, <1>9, <1>10, <1>11, <1>12, <1>13,
       <1>14, <1>15, <1>16, <1>17, <1>18, <1>19, <1>20, <1>21, <1>22 DEF Next, Step
-----------------------------------------------------------------------------
(* The inductive invariant.                                                 *)
THEOREM InvHolds == Spec => []IInv
  <1>1. Init => IInv
    <2>1. ASSUME Init PROVE HeldAtStage /\ Excludes /\ Overlap /\ Files
      BY <2>1 DEF Init, Blog!Init, HeldAtStage, Excludes, Overlap, Files, JournalAtStage,
          TornIsNotEmpty, NoDirtyRead, TornIsOwnedOrHot, Committed
    <2> QED
      BY <2>1, TypeInit DEF IInv, Files
  <1>2. IInv /\ [Next]_vars => IInv'
    BY TypeStep, LocksStep, FilesStep, OverlapStep DEF IInv, Files
  <1> QED
    BY <1>1, <1>2, PTL DEF Spec

(* The type invariant of all processes and both files.                      *)
THEOREM TypeCorrect == Spec => []TypeOK
  BY InvHolds, PTL DEF IInv

(* Whoever reads or is about to write the pages sees committed tables only. *)
THEOREM NoDirtyReadHolds == Spec => []NoDirtyRead
  BY InvHolds, PTL DEF IInv

(* A journal that differs from the file has its writer or is seen as hot.   *)
THEOREM TornIsOwnedOrHotHolds == Spec => []TornIsOwnedOrHot
  BY InvHolds, PTL DEF IInv

(* One process changes the file, and nobody else holds a lock meanwhile.    *)
THEOREM WriterAloneHolds == Spec => []WriterAlone
  <1>1. IInv => WriterAlone
    BY DEF IInv, HeldAtStage, Excludes, WriterAlone
  <1> QED
    BY <1>1, InvHolds, PTL
-----------------------------------------------------------------------------
(* Every step inside a sqlite3_exec is a stutter of CppBlog, but the one    *)
(* that returns: that one is its CREATE TABLE, or its error.                *)
LEMMA StepImplements == IInv /\ [Next]_vars => [Blog!Next]_Blog!vars
  <1> SUFFICES ASSUME IInv, [Next]_vars PROVE [Blog!Next]_Blog!vars
    OBVIOUS
  <1> DEFINE Stutters == UNCHANGED Blog!vars
  <1>1. ASSUME NEW w \in Worker, LockShared(w)
        PROVE  Blog!CreateTableFails(w) \/ Stutters
    <2>1. CASE MayRead(w)
      BY <1>1, <2>1 DEF LockShared, ExecFails, Blog!vars, blogVars, file, Committed
    <2>2. CASE ~MayRead(w)
      <3>1. contended[w]
        BY <1>1, <2>2 DEF IInv, Overlap, HeldAtStage, LockShared, MayRead, Free, At
      <3> QED
        BY <1>1, <2>2, <3>1 DEF LockShared, At, ExecFails, Blog!CreateTableFails, Blog!store,
            file, Committed
    <2> QED
      BY <2>1, <2>2
  <1>2. ASSUME NEW w \in Worker,
               \/ AccessJournal(w) \/ CheckReserved(w) \/ LockHotJournal(w) \/ ReadSchema(w)
               \/ Reprepare(w) \/ LockReserved(w) \/ LockForCommit(w)
        PROVE  Stutters
    BY <1>2 DEF AccessJournal, CheckReserved, LockHotJournal, ReadSchema, Reprepare,
        LockReserved, LockForCommit, Blog!vars, blogVars, file, Committed
  <1>3. ASSUME NEW w \in Worker, DropJournal(w) PROVE Stutters
    BY <1>3 DEF DropJournal, At, IInv, JournalAtStage, TornIsNotEmpty, Blog!vars, blogVars,
        Committed
  <1>4. ASSUME NEW w \in Worker, Playback(w) PROVE Stutters
    BY <1>4 DEF Playback, Blog!vars, blogVars, Committed
  <1>5. ASSUME NEW w \in Worker, WriteJournal(w) PROVE Stutters
        BY <1>5 DEF WriteJournal, SaveImages, At, IInv, NoDirtyRead, Blog!vars,
        blogVars, Committed
  <1>6. ASSUME NEW w \in Worker, FlushPages(w) PROVE Stutters
    BY <1>6 DEF FlushPages, At, IInv, JournalAtStage, Blog!vars, blogVars, Committed
  <1>7. ASSUME NEW w \in Worker, TableExists(w) PROVE Blog!CreateTable(w)
    BY <1>7 DEF TableExists, ExecReturns, At, IInv, NoDirtyRead, Blog!CreateTable, file,
        Committed
  <1>8. ASSUME NEW w \in Worker, DeleteJournal(w) PROVE Blog!CreateTable(w)
    BY <1>8 DEF DeleteJournal, ExecReturns, At, IInv, JournalAtStage, Blog!CreateTable,
        Committed
  <1>9. ASSUME NEW w \in Worker, Rollback(w) PROVE Blog!CreateTableFails(w)
        BY <1>9 DEF Rollback, ExecFails, At, IInv, JournalAtStage, Overlap,
        Blog!CreateTableFails,
        Blog!store, Committed
  <1>10. ASSUME NEW w \in Worker, GiveUp(w) PROVE Blog!CreateTableFails(w)
    BY <1>10 DEF GiveUp, ExecFails, At, IInv, Overlap, Blog!CreateTableFails, Blog!store,
        file, Committed
  <1>11. ASSUME NEW w \in Worker, IoError(w) PROVE Blog!CreateTableFails(w)
        BY <1>11 DEF IoError, ExecFails, IInv, JournalAtStage, Blog!CreateTableFails,
        Blog!store,
        file, Committed
  <1>12. ASSUME NEW w \in Worker, Crash(w) PROVE Blog!Crash(w)
    BY <1>12 DEF Crash
  <1>13. ASSUME NEW w \in Worker, Reap(w) PROVE Blog!Reap(w)
    BY <1>13 DEF Reap
  <1>14. ASSUME NEW w \in Worker, Arrive(w) PROVE Blog!Arrive(w)
    BY <1>14 DEF Arrive
  <1>15. ASSUME NEW w \in Worker, Elsewhere(w) PROVE Blog!Step(w)
    BY <1>15 DEF Elsewhere, Blog!Step
  <1>16. CASE UNCHANGED vars
    BY <1>16 DEF vars, blogVars, file, Blog!vars, Committed
  <1>17. ASSUME NEW w \in Worker, Blog!CreateTable(w) \/ Blog!CreateTableFails(w)
         PROVE  Blog!Step(w)
    BY <1>17 DEF Blog!Step
  <1> QED
    BY <1>1, <1>2, <1>3, <1>4, <1>5, <1>6, <1>7, <1>8, <1>9, <1>10, <1>11, <1>12, <1>13,
       <1>14, <1>15, <1>16, <1>17 DEF Next, Step, Blog!Next

(* SQLite makes each CREATE TABLE the atomic step of CppBlog.               *)
THEOREM Implements == Spec => ImplementsBlog
  <1>1. Init => Blog!Init
    BY DEF Init
  <1> QED
    BY <1>1, StepImplements, InvHolds, PTL DEF Spec, ImplementsBlog, Blog!Spec
-----------------------------------------------------------------------------
(* The theorems about the request handler, with the tables after recovery.  *)
Theorems == INSTANCE CppBlogProofs WITH tables <- Committed

(* The two instances of CppBlog have the same steps.                        *)
LEMMA SameNext == [Blog!Next]_Blog!vars <=> [Theorems!Next]_Theorems!vars
  BY DEF Blog!vars, Theorems!vars, Blog!store, Theorems!store, Blog!locals,
         Theorems!locals, Blog!Running, Theorems!Running, Blog!Ended, Theorems!Ended,
         Blog!PC, Theorems!PC, Blog!Prefix, Theorems!Prefix, Blog!AllTables,
         Theorems!AllTables, Blog!Goto, Theorems!Goto, Blog!HasDirBit, Theorems!HasDirBit, Blog!Arrive, Theorems!Arrive,
         Blog!StatDatas, Theorems!StatDatas, Blog!MkdirAll, Theorems!MkdirAll,
         Blog!Mkdir, Theorems!Mkdir, Blog!AfterEexist, Theorems!AfterEexist,
         Blog!MkdirExists, Theorems!MkdirExists, Blog!ProbeFile, Theorems!ProbeFile,
         Blog!InExec, Theorems!InExec, Blog!AfterOpen, Theorems!AfterOpen,
         Blog!OpenDb, Theorems!OpenDb, Blog!NextStatement, Theorems!NextStatement,
         Blog!ExecError, Theorems!ExecError, Blog!CreateTable, Theorems!CreateTable,
         Blog!CreateTableFails, Theorems!CreateTableFails, Blog!BeginPage,
         Theorems!BeginPage, Blog!FinishPage, Theorems!FinishPage, Blog!Crash,
         Theorems!Crash, Blog!Reap, Theorems!Reap, Blog!Step, Theorems!Step,
         Blog!Next, Theorems!Next

(* So what is proved of CppBlog is proved of it.                            *)
LEMMA HandlerSpec == Spec => Theorems!Spec
  <1>1. Blog!Init => Theorems!Init
    BY DEF Blog!Init, Theorems!Init, Blog!AllTables, Theorems!AllTables, Blog!Prefix,
        Theorems!Prefix
  <1> QED
    BY <1>1, SameNext, Implements, PTL DEF ImplementsBlog, Blog!Spec, Theorems!Spec

(* The tables after recovery are a prefix of the schema, whichever process  *)
(* is killed at whichever call of the kernel.                               *)
THEOREM SchemaPrefixHolds == Spec => []Blog!SchemaPrefix
  <1>1. Theorems!Spec => []Theorems!SchemaPrefix
    BY Theorems!SchemaPrefixHolds, SchemaAssumption, FaultAssumption DEF Theorems!FaultKind
  <1>2. Theorems!SchemaPrefix => Blog!SchemaPrefix
    BY DEF Theorems!SchemaPrefix, Blog!SchemaPrefix, Theorems!Prefix, Blog!Prefix
  <1> QED
    BY <1>1, <1>2, HandlerSpec, PTL

(* An installer that reaches its page leaves all tables behind, also when   *)
(* rivals and recovery were at work between its statements.                 *)
THEOREM InstallerServesHolds == Spec => []Blog!InstallerServes
  <1>1. Theorems!Spec => []Theorems!InstallerServes
    BY Theorems!InstallerServesHolds, SchemaAssumption, FaultAssumption DEF Theorems!FaultKind
  <1>2. Theorems!InstallerServes => Blog!InstallerServes
    BY DEF Theorems!InstallerServes, Blog!InstallerServes, Theorems!AllTables,
        Blog!AllTables, Theorems!Prefix, Blog!Prefix
  <1> QED
    BY <1>1, <1>2, HandlerSpec, PTL

(* A request fails at the directory only for a file of that name or a fault *)
(* of mkdir, and at the open only for a socket or a block device there or a *)
(* fault of the open, with the statements opened up.                        *)
THEOREM DirFailureJustifiedHolds == Spec => []DirFailureJustified
  <1>1. Theorems!Spec => []Theorems!DirFailureJustified
    BY Theorems!DirFailureJustifiedHolds, SchemaAssumption, FaultAssumption
        DEF Theorems!FaultKind
  <1>2. Theorems!DirFailureJustified => DirFailureJustified
    BY DEF Theorems!DirFailureJustified, DirFailureJustified, Blog!DirFailureJustified
  <1> QED
    BY <1>1, <1>2, HandlerSpec, PTL
=============================================================================
