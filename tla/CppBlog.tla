------------------------------- MODULE CppBlog -------------------------------
(***************************************************************************)
(* main() of cppblog.c, run by the CGI server as one process per request.  *)
(* Several requests may be in progress; they share the directory "datas"   *)
(* and the SQLite file in it, and nothing else.  sqlite3_exec is one       *)
(* atomic step here; SqliteInstall shows that SQLite's locking makes it so.*)
(*                                                                         *)
(* A definition Name_Bug is a mutant of Name, for testing the properties:  *)
(* Next uses none of them.                                                 *)
(***************************************************************************)
EXTENDS Naturals, Sequences

CONSTANTS Worker,   \* slots in which the CGI server runs processes
          Table,    \* table names
          Schema,   \* the tables main() creates, in the order it does so
          Fault     \* the faults of the environment a run allows

ASSUME SchemaAssumption ==
    /\ Schema \in Seq(Table)
    /\ Schema # <<>>
    /\ \A i, j \in 1..Len(Schema) : Schema[i] = Schema[j] => i = j

FaultKind == {"crash", "mkdir", "open", "io"}

ASSUME FaultAssumption == Fault \subseteq FaultKind

VARIABLES datas,      \* what the path "datas" is, for stat
          dbFile,     \* whether datas/cppblog.db exists
          tables,     \* the tables a reader of the database sees
          pc,         \* pc[w]: the next step of the process in slot w
          dbinstall,  \* dbinstall[w]: main()'s local of that name
          stmt,       \* stmt[w]: index of the CREATE TABLE to execute
          contended   \* contended[w]: history, another process was inside
                      \* its CREATE TABLEs while w was inside its own

vars == <<datas, dbFile, tables, pc, dbinstall, stmt, contended>>
store == <<datas, dbFile, tables>>
locals == <<dbinstall, stmt, contended>>

Running == {"stat", "mkdirAll", "mkdir", "eexist", "probe", "open", "exec",
            "page", "body"}
Ended == {"done", "noDir", "noOpen", "noTable", "dead"}
PC == {"idle", "spinning"} \cup Running \cup Ended

Prefix(n) == {Schema[i] : i \in 1..n}
AllTables == Prefix(Len(Schema))
Goto(w, label) == pc' = [pc EXCEPT ![w] = label]

(* "special" is a socket or a block device, "file" any other thing that is  *)
(* no directory.                                                            *)
TypeOK ==
    /\ datas \in {"absent", "dir", "file", "special"}
    /\ dbFile \in BOOLEAN
    /\ tables \in SUBSET AllTables
    /\ pc \in [Worker -> PC]
    /\ dbinstall \in [Worker -> BOOLEAN]
    /\ stmt \in [Worker -> 1..Len(Schema)]
    /\ contended \in [Worker -> BOOLEAN]
-----------------------------------------------------------------------------
(* A fresh checkout, or one whose database was loaded from schemes.sql.     *)
Init ==
    /\ \/ /\ datas \in {"absent", "dir", "file", "special"}
          /\ dbFile = FALSE /\ tables = {}
       \/ datas = "dir" /\ dbFile = TRUE /\ tables = AllTables
    /\ pc = [w \in Worker |-> "idle"]
    /\ dbinstall = [w \in Worker |-> FALSE]
    /\ stmt = [w \in Worker |-> 1]
    /\ contended = [w \in Worker |-> FALSE]

Arrive(w) ==
    /\ pc[w] = "idle"
    /\ Goto(w, "stat")
    /\ UNCHANGED <<store, locals>>

(* is_dir asks for a bit of S_IFDIR, which the mode of a socket or a block  *)
(* device has too.                                                          *)
HasDirBit == datas \in {"dir", "special"}

(* is_dir, as main() calls it and again as the first thing mkdirAll does.   *)
StatDatas(w) ==
    /\ pc[w] = "stat"
    /\ Goto(w, IF HasDirBit THEN "probe" ELSE "mkdirAll")
    /\ UNCHANGED <<store, locals>>

MkdirAll(w) ==
    /\ pc[w] = "mkdirAll"
    /\ Goto(w, IF HasDirBit THEN "probe" ELSE "mkdir")
    /\ UNCHANGED <<store, locals>>

Mkdir(w) ==
    /\ pc[w] = "mkdir"
    /\ \/ /\ datas = "absent"
          /\ datas' = "dir"
          /\ Goto(w, "probe")
       \/ /\ datas # "absent"
          /\ Goto(w, "eexist")
          /\ UNCHANGED datas
       \/ /\ "mkdir" \in Fault
          /\ Goto(w, "noDir")
          /\ UNCHANGED datas
    /\ UNCHANGED <<dbFile, tables, locals>>

(* mkdir said EEXIST: it was a rival's directory, or something else is      *)
(* there.                                                                   *)
AfterEexist_Trusting == "probe"
AfterEexist_Fails == "noDir"
AfterEexist == IF HasDirBit THEN "probe" ELSE "noDir"

MkdirExists(w) ==
    /\ pc[w] = "eexist"
    /\ Goto(w, AfterEexist)
    /\ UNCHANGED <<store, locals>>

ProbeFile(w) ==
    /\ pc[w] = "probe"
    /\ dbinstall' = [dbinstall EXCEPT ![w] = ~dbFile]
    /\ Goto(w, "open")
    /\ UNCHANGED <<store, stmt, contended>>

InExec == {w \in Worker : pc[w] = "exec"}

(* A process that found no file a moment ago goes on to its CREATE TABLEs;  *)
(* one that found a file serves its page at once, whatever that file holds. *)
AfterOpen_AlwaysInstalls(w) == "exec"
AfterOpen(w) == IF dbinstall[w] THEN "exec" ELSE "page"

(* sqlite3_open creates the file when it is missing; under what passed for  *)
(* a directory it can only fail.                                            *)
OpenDb(w) ==
    /\ pc[w] = "open"
    /\ \/ /\ datas = "dir"
          /\ dbFile' = TRUE
          /\ Goto(w, AfterOpen(w))
          /\ contended' =
               [r \in Worker |-> \/ contended[r]
                                \/ /\ dbinstall[w]
                                   /\ InExec # {}
                                   /\ r \in InExec \cup {w}]
       \/ /\ datas # "dir" \/ "open" \in Fault
          /\ Goto(w, "noOpen")
          /\ UNCHANGED <<dbFile, contended>>
    /\ UNCHANGED <<datas, tables, dbinstall, stmt>>

(* sqlite3_exec returned SQLITE_OK: the next CREATE TABLE, or the page.     *)
NextStatement_OffByOne(w) ==
    /\ stmt' = [stmt EXCEPT ![w] = @ + 1]
    /\ Goto(w, IF stmt[w] < Len(Schema) THEN "exec" ELSE "page")

NextStatement(w) ==
    IF stmt[w] < Len(Schema)
      THEN stmt' = [stmt EXCEPT ![w] = @ + 1] /\ UNCHANGED pc
      ELSE Goto(w, "page") /\ UNCHANGED stmt

(* sqlite3_exec returned an error: main() prints it and returns 1.          *)
ExecError_Ignored(w) == NextStatement(w)
ExecError_NoReturn(w) == Goto(w, "page") /\ UNCHANGED stmt
ExecError(w) == Goto(w, "noTable") /\ UNCHANGED stmt

(* One sqlite3_exec of CREATE TABLE IF NOT EXISTS: the table is there when  *)
(* it returns SQLITE_OK.                                                    *)
CreateTable(w) ==
    /\ pc[w] = "exec"
    /\ tables' = tables \cup {Schema[stmt[w]]}
    /\ NextStatement(w)
    /\ UNCHANGED <<datas, dbFile, dbinstall, contended>>

(* SQLITE_BUSY needs an overlap with another installer, any other error a   *)
(* fault of the disk.                                                       *)
CreateTableFails(w) ==
    /\ pc[w] = "exec"
    /\ contended[w] \/ "io" \in Fault
    /\ ExecError(w)
    /\ UNCHANGED <<store, dbinstall, contended>>

(* The header, the doctype and html_begin, whose htmlspecialchars reads     *)
(* subs[5..14] of a five-element array: g++ -O3 compiles that into a loop   *)
(* that never ends, -O0 into an abort, and a stack that happens to hold     *)
(* harmless bytes lets it return.                                           *)
BeginPage(w) ==
    /\ pc[w] = "page"
    /\ \E outcome \in {"body", "spinning", "dead"} : Goto(w, outcome)
    /\ UNCHANGED <<store, locals>>

FinishPage(w) ==
    /\ pc[w] = "body"
    /\ Goto(w, "done")
    /\ UNCHANGED <<store, locals>>

(* The process is killed, at any point of main().                           *)
Crash(w) ==
    /\ "crash" \in Fault
    /\ pc[w] \in Running \cup {"spinning"}
    /\ Goto(w, "dead")
    /\ UNCHANGED <<store, locals>>

(* The CGI server collects an ended process; the slot is free again.        *)
Reap(w) ==
    /\ pc[w] \in Ended
    /\ Goto(w, "idle")
    /\ dbinstall' = [dbinstall EXCEPT ![w] = FALSE]
    /\ stmt' = [stmt EXCEPT ![w] = 1]
    /\ contended' = [contended EXCEPT ![w] = FALSE]
    /\ UNCHANGED store

Step(w) ==
    \/ StatDatas(w) \/ MkdirAll(w) \/ Mkdir(w) \/ MkdirExists(w)
    \/ ProbeFile(w) \/ OpenDb(w)
    \/ CreateTable(w) \/ CreateTableFails(w)
    \/ BeginPage(w) \/ FinishPage(w)

Next == \E w \in Worker : Arrive(w) \/ Step(w) \/ Crash(w) \/ Reap(w)

Spec == Init /\ [][Next]_vars

(* The kernel runs every process; nothing makes a request arrive.           *)
FairSpec == Spec /\ \A w \in Worker : WF_vars(Step(w))
-----------------------------------------------------------------------------
(* However many installers run, crash or fail, the tables in the database   *)
(* are the first n of the schema: none is ever created out of order.        *)
SchemaPrefix == \E n \in 0..Len(Schema) : tables = Prefix(n)

(* A process that found no file and reached its page leaves a full schema   *)
(* behind, even when rivals created some of the tables for it.              *)
InstallerServes ==
    \A w \in Worker :
        dbinstall[w] /\ pc[w] \in {"page", "body", "spinning", "done"}
            => tables = AllTables

(* Losing the mkdir race is no error: without a fault of the file system a  *)
(* request fails at the directory only when "datas" is a file; and it fails *)
(* at sqlite3_open only when a socket or a block device passed for it.      *)
DirFailureJustified ==
    \A w \in Worker :
        /\ pc[w] = "noDir" => datas = "file" \/ "mkdir" \in Fault
        /\ pc[w] = "noOpen" => datas = "special" \/ "open" \in Fault

(* Tables live in the file and the file in the directory, and a process     *)
(* past sqlite3_open relies on both.                                        *)
StoreLayout ==
    /\ tables # {} => dbFile
    /\ dbFile => datas = "dir"
    /\ \A w \in Worker :
         /\ pc[w] \in {"probe", "open"} => HasDirBit
         /\ pc[w] \in {"exec", "page", "body", "spinning"} => dbFile

(* The file exists and no process that found it missing is still running.   *)
Settled ==
    /\ dbFile
    /\ \A w \in Worker : dbinstall[w] => pc[w] \notin {"open", "exec"}

(* Nobody repairs an interrupted installation: main() decides from the      *)
(* file's existence alone, so once the last installer is gone the tables    *)
(* are whatever they are, for good.                                         *)
InstallFinal == [][Settled => Settled' /\ UNCHANGED tables]_vars

(* Every request ends or is caught in htmlspecialchars' stray loop.         *)
RequestEnds ==
    \A w \in Worker : pc[w] \in Running ~> pc[w] \in Ended \cup {"spinning"}
=============================================================================
