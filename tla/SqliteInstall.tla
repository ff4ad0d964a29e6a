---------------------------- MODULE SqliteInstall ----------------------------
(***************************************************************************)
(* The same requests as CppBlog, with each sqlite3_exec(CREATE TABLE IF    *)
(* NOT EXISTS ...) opened up into the steps SQLite 3.30.1 takes on a file  *)
(* in rollback-journal mode: read the schema under a SHARED lock, take     *)
(* RESERVED, check the schema cookie, journal, take EXCLUSIVE, overwrite   *)
(* the pages, delete the journal.  main() sets no busy handler, so every   *)
(* lock that is not free at once is SQLITE_BUSY and the end of main().     *)
(*                                                                         *)
(* Locks are those of unixLock: a process holds a set of lock bytes, which *)
(* the kernel drops when the process ends.  A definition Name_Bug is a     *)
(* mutant of Name, for testing the properties: Next uses none of them.     *)
(***************************************************************************)
EXTENDS Naturals, Sequences

CONSTANTS Worker, Table, Schema, Fault

ASSUME SchemaAssumption ==
    /\ Schema \in Seq(Table)
    /\ Schema # <<>>
    /\ \A i, j \in 1..Len(Schema) : Schema[i] = Schema[j] => i = j

ASSUME FaultAssumption == Fault \subseteq {"crash", "mkdir", "open", "io"}

VARIABLES datas, dbFile, pc, dbinstall, stmt, contended,   \* as in CppBlog
          pages,    \* the tables in the pages of the database file
          journal,  \* whether the rollback journal exists
          saved,    \* the tables in the page images of that journal
          locks,    \* locks[w]: the lock bytes w holds
          stage,    \* stage[w]: where w is inside its sqlite3_exec
          loaded,   \* loaded[w]: whether w's connection has read the schema
          view      \* view[w]: the schema it has read

blogVars == <<datas, dbFile, pc, dbinstall, stmt, contended>>
file == <<pages, journal, saved>>
conn == <<locks, stage, loaded, view>>
vars == <<blogVars, file, conn>>

(* What a reader sees after recovery: the journal undoes unfinished writes. *)
Committed == IF journal THEN saved ELSE pages

Blog == INSTANCE CppBlog WITH tables <- Committed

LockByte == {"shared", "reserved", "pending", "exclusive"}
Stage == {"open", "access", "check", "drop", "hot", "playback", "read",
          "reserved", "journaled", "exclusive", "flushed", "rollback",
          "giveup"}

TypeOK ==
    /\ Blog!TypeOK
    /\ pages \in SUBSET Blog!AllTables
    /\ journal \in BOOLEAN
    /\ saved \in SUBSET Blog!AllTables
    /\ locks \in [Worker -> SUBSET LockByte]
    /\ stage \in [Worker -> Stage]
    /\ loaded \in [Worker -> BOOLEAN]
    /\ view \in [Worker -> SUBSET Blog!AllTables]

Init ==
    /\ pages \in SUBSET Blog!AllTables
    /\ journal = FALSE
    /\ saved = {}
    /\ Blog!Init
    /\ locks = [w \in Worker |-> {}]
    /\ stage = [w \in Worker |-> "open"]
    /\ loaded = [w \in Worker |-> FALSE]
    /\ view = [w \in Worker |-> {}]
-----------------------------------------------------------------------------
At(w, s) == pc[w] = "exec" /\ stage[w] = s
MoveTo(w, s) == stage' = [stage EXCEPT ![w] = s]
HoldOnly(w, bytes) == locks' = [locks EXCEPT ![w] = bytes]
Free(w, byte) == \A r \in Worker \ {w} : byte \notin locks[r]

(* The statement is over: the pager drops its locks.                        *)
Unlock(w) == HoldOnly(w, {}) /\ MoveTo(w, "open")

(* The connection goes away with the process.                               *)
Disconnect(w) ==
    /\ Unlock(w)
    /\ loaded' = [loaded EXCEPT ![w] = FALSE]
    /\ view' = [view EXCEPT ![w] = {}]

(* sqlite3_exec returns an error: main() prints it, closes and returns 1.   *)
ExecFails(w) ==
    /\ Blog!ExecError(w)
    /\ Disconnect(w)
    /\ UNCHANGED <<datas, dbFile, dbinstall, contended>>

(* sqlite3_exec returns SQLITE_OK: main() goes on to the next statement.    *)
ExecReturns(w) ==
    /\ Blog!NextStatement(w)
    /\ Unlock(w)
    /\ UNCHANGED <<datas, dbFile, dbinstall, contended>>

(* Nobody waits for the end of the readers or writes.                       *)
MayRead_Barging(w) == TRUE
MayRead(w) == Free(w, "pending") /\ Free(w, "exclusive")

LockShared(w) ==
    /\ At(w, "open")
    /\ \/ /\ MayRead(w)
          /\ HoldOnly(w, {"shared"})
          /\ MoveTo(w, "access")
          /\ UNCHANGED <<blogVars, file, loaded, view>>
       \/ ~MayRead(w) /\ ExecFails(w) /\ UNCHANGED file

AccessJournal(w) ==
    /\ At(w, "access")
    /\ MoveTo(w, IF journal THEN "check" ELSE "read")
    /\ UNCHANGED <<blogVars, file, locks, loaded, view>>

(* A journal whose owner does not hold RESERVED is hot, even when it went   *)
(* away since it was seen; over an empty file it needs no playback.         *)
AfterCheck_Unseen(w) == "read"
AfterCheck(w) == CASE ~Free(w, "reserved") -> "read"
                   [] Free(w, "reserved") /\ pages = {} -> "drop"
                   [] OTHER -> "hot"

CheckReserved(w) ==
    /\ At(w, "check")
    /\ MoveTo(w, AfterCheck(w))
    /\ UNCHANGED <<blogVars, file, locks, loaded, view>>

(* RESERVED, held by w for as long as the deletion takes.                   *)
DropJournal(w) ==
    /\ At(w, "drop")
    /\ IF Free(w, "reserved") THEN journal' = FALSE ELSE UNCHANGED journal
    /\ MoveTo(w, "read")
    /\ UNCHANGED <<blogVars, pages, saved, locks, loaded, view>>

(* The step from SHARED or RESERVED to EXCLUSIVE goes through PENDING and   *)
(* keeps it when readers are left, unless one of those readers holds it for *)
(* a moment on its way to SHARED; the caller then gets SQLITE_BUSY.  A      *)
(* reader about to play a journal back must not take RESERVED on the way:   *)
(* a rival would think the journal had a living owner.                      *)
ToExclusive_ViaReserved == {"reserved", "pending", "exclusive"}
ToExclusive == {"pending", "exclusive"}

LockExclusive(w, granted, denied) ==
    \/ /\ ~Free(w, "pending")
       /\ UNCHANGED locks
       /\ MoveTo(w, denied)
    \/ /\ Free(w, "pending") /\ ~Free(w, "shared")
       /\ \E kept \in {{}, {"pending"}} : HoldOnly(w, locks[w] \cup kept)
       /\ MoveTo(w, denied)
    \/ /\ Free(w, "pending") /\ Free(w, "shared")
       /\ HoldOnly(w, locks[w] \cup ToExclusive)
       /\ MoveTo(w, granted)

LockHotJournal(w) ==
    /\ At(w, "hot")
    /\ LockExclusive(w, "playback", "giveup")
    /\ UNCHANGED <<blogVars, file, loaded, view>>

Playback(w) ==
    /\ At(w, "playback")
    /\ pages' = Committed
    /\ journal' = FALSE
    /\ HoldOnly(w, {"shared"})
    /\ MoveTo(w, "read")
    /\ UNCHANGED <<blogVars, saved, loaded, view>>

(* Preparing the statement: the schema is read once per connection.         *)
ReadSchema(w) ==
    /\ At(w, "read")
    /\ ~loaded[w]
    /\ view' = [view EXCEPT ![w] = pages]
    /\ loaded' = [loaded EXCEPT ![w] = TRUE]
    /\ Unlock(w)
    /\ UNCHANGED <<blogVars, file>>

ForgetSchema_Not(w) == UNCHANGED loaded
ForgetSchema(w) == loaded' = [loaded EXCEPT ![w] = FALSE]

(* SQLITE_SCHEMA: the cookie moved since the statement was prepared, so it  *)
(* is prepared again from a fresh schema.                                   *)
Reprepare(w) ==
    /\ At(w, "read") \/ At(w, "reserved")
    /\ loaded[w]
    /\ view[w] # pages
    /\ At(w, "read") => Schema[stmt[w]] \in view[w]
    /\ ForgetSchema(w)
    /\ Unlock(w)
    /\ UNCHANGED <<blogVars, file, view>>

(* IF NOT EXISTS and it does: a read transaction that only checks the       *)
(* cookie.                                                                  *)
TableExists(w) ==
    /\ At(w, "read")
    /\ loaded[w]
    /\ Schema[stmt[w]] \in view[w]
    /\ view[w] = pages
    /\ ExecReturns(w)
    /\ UNCHANGED <<file, loaded, view>>

LockReserved(w) ==
    /\ At(w, "read")
    /\ loaded[w]
    /\ Schema[stmt[w]] \notin view[w]
    /\ IF Free(w, "reserved")
         THEN HoldOnly(w, locks[w] \cup {"reserved"}) /\ MoveTo(w, "reserved")
         ELSE MoveTo(w, "giveup") /\ UNCHANGED locks
    /\ UNCHANGED <<blogVars, file, loaded, view>>

(* The images of the pages the statement is about to change go to the       *)
(* rollback journal, and to the disk, before the file is touched.           *)
SaveImages_Off == UNCHANGED <<journal, saved>>
SaveImages == journal' = TRUE /\ saved' = pages

WriteJournal(w) ==
    /\ At(w, "reserved")
    /\ view[w] = pages
    /\ SaveImages
    /\ MoveTo(w, "journaled")
    /\ UNCHANGED <<blogVars, pages, locks, loaded, view>>

LockForCommit(w) ==
    /\ At(w, "journaled")
    /\ LockExclusive(w, "exclusive", "rollback")
    /\ UNCHANGED <<blogVars, file, loaded, view>>

FlushPages(w) ==
    /\ At(w, "exclusive")
    /\ pages' = pages \cup {Schema[stmt[w]]}
    /\ MoveTo(w, "flushed")
    /\ UNCHANGED <<blogVars, journal, saved, locks, loaded, view>>

(* Deleting the journal commits; the locks go in the same breath.           *)
DeleteJournal(w) ==
    /\ At(w, "flushed")
    /\ journal' = FALSE
    /\ view' = [view EXCEPT ![w] = pages]
    /\ ExecReturns(w)
    /\ UNCHANGED <<pages, saved, loaded>>

(* SQLITE_BUSY at the commit rolls the transaction back ...                 *)
Rollback(w) ==
    /\ At(w, "rollback")
    /\ journal' = FALSE
    /\ ExecFails(w)
    /\ UNCHANGED <<pages, saved>>

(* ... anywhere else there is nothing to undo.                              *)
GiveUp(w) ==
    /\ At(w, "giveup")
    /\ ExecFails(w)
    /\ UNCHANGED file

(* A disk error inside the statement.  A writer undoes its transaction, or  *)
(* cannot, and leaves the journal to the next reader.                       *)
IoError(w) ==
    /\ "io" \in Fault
    /\ pc[w] = "exec"
    /\ \/ /\ stage[w] \in {"journaled", "exclusive", "flushed", "rollback"}
          /\ pages' = saved
          /\ journal' = FALSE
          /\ UNCHANGED saved
       \/ UNCHANGED file
    /\ ExecFails(w)

(* Killed: the files stay as they are.                                      *)
Crash(w) ==
    /\ UNCHANGED file
    /\ Disconnect(w)
    /\ Blog!Crash(w)

(* The rest of main() does not touch the connection.                        *)
Elsewhere(w) ==
    /\ UNCHANGED <<file, conn>>
    /\ \/ Blog!StatDatas(w) \/ Blog!MkdirAll(w) \/ Blog!Mkdir(w)
       \/ Blog!MkdirExists(w) \/ Blog!ProbeFile(w) \/ Blog!OpenDb(w)
       \/ Blog!BeginPage(w) \/ Blog!FinishPage(w)

(* The process is gone and its connection with it.                          *)
Reap(w) ==
    /\ UNCHANGED file
    /\ Disconnect(w)
    /\ Blog!Reap(w)

Arrive(w) == UNCHANGED <<file, conn>> /\ Blog!Arrive(w)

Step(w) ==
    \/ Elsewhere(w)
    \/ LockShared(w) \/ AccessJournal(w) \/ CheckReserved(w)
    \/ DropJournal(w) \/ LockHotJournal(w) \/ Playback(w)
    \/ ReadSchema(w) \/ Reprepare(w) \/ TableExists(w)
    \/ LockReserved(w) \/ WriteJournal(w) \/ LockForCommit(w)
    \/ FlushPages(w) \/ DeleteJournal(w)
    \/ Rollback(w) \/ GiveUp(w) \/ IoError(w)

Next == \E w \in Worker : Arrive(w) \/ Step(w) \/ Crash(w) \/ Reap(w)

Spec == Init /\ [][Next]_vars
FairSpec == Spec /\ \A w \in Worker : WF_vars(Step(w))
-----------------------------------------------------------------------------
(* A process reading or about to write the pages sees only committed        *)
(* tables, also after a rival died half way through its own write.          *)
NoDirtyRead ==
    \A w \in Worker :
        stage[w] \in {"read", "reserved", "journaled", "exclusive"}
            => pages = Committed

(* One process at a time changes the file, and while it does nobody reads.  *)
WriterAlone ==
    \A w \in Worker :
        stage[w] \in {"exclusive", "flushed", "playback"}
            => \A r \in Worker \ {w} : locks[r] = {}

(* A journal that differs from the file has its writer, or is hot: the next *)
(* reader will find nobody holding RESERVED.                                *)
TornIsOwnedOrHot ==
    journal /\ pages # saved =>
        \/ \E w \in Worker : stage[w] = "flushed"
        \/ \A w \in Worker : "reserved" \notin locks[w]

(* SQLite makes each CREATE TABLE the atomic step of CppBlog; a crash keeps *)
(* all of it or nothing; and SQLITE_BUSY needs an overlapping installer.    *)
ImplementsBlog == Blog!Spec

(* Losing the race for the directory is no failure, with the statements     *)
(* opened up too.                                                           *)
DirFailureJustified == Blog!DirFailureJustified

(* No order of the locks makes two installers wait for one another, and a   *)
(* process killed inside a statement stops nobody: every request ends or is *)
(* caught in htmlspecialchars.                                              *)
RequestEnds == Blog!RequestEnds

(* schemes.sql gives the database its three tables; once nobody installs    *)
(* any more, it has them.                                                   *)
SettledComplete == Blog!Settled => Committed = Blog!AllTables
=============================================================================
