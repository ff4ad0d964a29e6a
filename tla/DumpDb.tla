-------------------------------- MODULE DumpDb --------------------------------
(***************************************************************************)
(* dump_db of dump.h: it writes a database out as SQL, while others commit *)
(* to the same file.  Nothing calls it yet.                                *)
(*                                                                         *)
(* One call of sqlite3_prepare_v2 or sqlite3_step is one step.  A statement *)
(* that has returned a row and is neither at its end nor finalized is      *)
(* active; as long as one is, the connection holds SHARED and no commit    *)
(* gets through (rollback journal, the default).                           *)
(*                                                                         *)
(* A definition Name_Bug is a mutant of Name; Next uses none of them.      *)
(***************************************************************************)
EXTENDS Naturals, Sequences, FiniteSets, SequencesExt

CONSTANTS Table,       \* names of tables, each of one word
          View,        \* names of views
          Reserved,    \* tables that no script may create: sqlite_sequence
          Keyword,     \* tables that "SELECT * from" can only name in quotes
          Row,         \* kinds of rows: see Rows
          Fault,       \* calls that may fail: "fopen", "prepare", "step",
                       \* "column" (sqlite3_column_text, out of memory),
                       \* "fprintf", "fclose"
          Stored,      \* what the database may be when dump_db is called
          MaxRows,     \* bound on the rows of a table
          MaxCommits   \* bound on the commits of others

VARIABLES versions,    \* history: what the database has been, now the last
          pc,          \* the call dump_db is about to make
          ret,         \* ret: the code of the last call
          index,       \* index of the table, or trigger, stepped to
          row,         \* rows of that table stepped to
          stmt,        \* the variables stmt_table and stmt_data that are set
          active,      \* the active statements
          alive,       \* statements of the connection not finalized
          fp,          \* whether the file could be opened
          file,        \* what is printed to it
          lost,        \* whether text printed is missing on the disk
          result,      \* what dump_db returned
          failed       \* history: fopen or a call of SQLite has failed

dump == <<pc, ret, index, row, stmt, active, alive, fp, file, lost, result, failed>>
vars == <<versions, dump>>

(* What a trigger may be on: a view only has those INSTEAD OF it.           *)
Name == Table \cup View

(* A database: its tables in the order of sqlite_master, their rows, and    *)
(* the tables and views that have a trigger, in that order too.             *)
Database == [tables : Seq(Table), rows : [Table -> Seq(Row)], triggers : Seq(Name)]
db == Last(versions)

Consistent(d) ==
    /\ IsInjective(d.tables) /\ IsInjective(d.triggers)
    /\ ToSet(d.triggers) \subseteq ToSet(d.tables) \cup View
    /\ \A t \in Table : t \notin ToSet(d.tables) => d.rows[t] = <<>>

ASSUME ConstantsAssumption ==
    /\ View \cap Table = {}
    /\ Reserved \subseteq Table /\ Keyword \subseteq Table
    /\ Row \subseteq {"plain", "altered", "long"}
    /\ Fault \subseteq {"fopen", "prepare", "step", "column", "fprintf", "fclose"}
    /\ MaxRows \in Nat /\ MaxCommits \in Nat
    /\ \A d \in Stored :
          /\ d \in Database /\ Consistent(d)
          /\ \A t \in Table : Len(d.rows[t]) <= MaxRows

Statement == [kind : {"begin", "commit"}]
             \cup [kind : {"create"}, table : Table]
             \cup [kind : {"trigger"}, table : Name]
             \cup [kind : {"insert"}, table : Table, row : Row \cup {"nulled"}]

TypeOK ==
    /\ versions \in Seq(Database) /\ versions # <<>>
    /\ pc \in {"fopen", "prepare_tables", "step_tables", "prepare_data",
               "step_data", "prepare_triggers", "step_triggers", "exit",
               "done", "undefined"}
    /\ ret \in {"OK", "ROW", "DONE", "error", "-1"}
    /\ \E v \in DOMAIN versions :
          \/ index \in 0..Len(versions[v].tables)
          \/ index \in 0..Len(versions[v].triggers)
    /\ row \in 0..MaxRows
    /\ stmt \subseteq {"table", "data"}
    /\ active \subseteq stmt
    /\ alive \in 0..Len(file) + 1
    /\ fp \in BOOLEAN
    /\ file \in Seq(Statement)
    /\ lost \in BOOLEAN
    /\ result \in BOOLEAN
    /\ failed \in BOOLEAN

Begin == [kind |-> "begin"]
Commit == [kind |-> "commit"]
Create(t) == [kind |-> "create", table |-> t]
Insert(t, r) == [kind |-> "insert", table |-> t, row |-> r]
Trigger(t) == [kind |-> "trigger", table |-> t]

Init ==
    /\ versions \in {<<d>> : d \in Stored}
    /\ pc = "fopen" /\ ret = "OK" /\ index = 0 /\ row = 0
    /\ stmt = {} /\ active = {} /\ alive = 0
    /\ fp = FALSE /\ file = <<>> /\ lost = FALSE
    /\ result = FALSE /\ failed = FALSE
-----------------------------------------------------------------------------
(* The others, as long as the call runs.                                    *)
ReadLocked_PerTable == active # {} /\ pc # "step_tables"
ReadLocked == active # {}

Writes(d) ==
    /\ ~ReadLocked /\ pc \notin {"done", "undefined"}
    /\ Len(versions) <= MaxCommits
    /\ versions' = Append(versions, d)
    /\ UNCHANGED dump

CreateTable(t) ==
    /\ t \notin ToSet(db.tables)
    /\ Writes([db EXCEPT !.tables = Append(@, t)])

InsertRow(t, r) ==
    /\ t \in ToSet(db.tables) /\ Len(db.rows[t]) < MaxRows
    /\ Writes([db EXCEPT !.rows[t] = Append(@, r)])

CreateTrigger(t) ==
    /\ t \in ToSet(db.tables) \cup View /\ t \notin ToSet(db.triggers)
    /\ Writes([db EXCEPT !.triggers = Append(@, t)])

(* The names in s but t.                                                    *)
Others(s, t) == FlattenSeq([i \in DOMAIN s |-> IF s[i] = t THEN <<>> ELSE <<s[i]>>])

DropTable(t) ==
    /\ t \in ToSet(db.tables)
    /\ Writes([tables |-> Others(db.tables, t),
               rows |-> [db.rows EXCEPT ![t] = <<>>],
               triggers |-> Others(db.triggers, t)])

Write ==
    \/ \E t \in Table :
          CreateTable(t) \/ DropTable(t) \/ \E r \in Row : InsertRow(t, r)
    \/ \E t \in Name : CreateTrigger(t)
-----------------------------------------------------------------------------
(* A call that fails, and where the program goes on then.                   *)
Fails(call, code, label) ==
    /\ call \in Fault
    /\ failed' = TRUE
    /\ ret' = code
    /\ pc' = label

(* stdio may lose what it was given, when a buffer is full or at the end:   *)
(* nobody looks at what fprintf and fclose return.                          *)
MayLose(call) ==
    \/ UNCHANGED lost
    \/ call \in Fault /\ lost' = TRUE

Fprintf(s) == file' = Append(file, s) /\ MayLose("fprintf")

Fopen ==
    /\ pc = "fopen"
    /\ \/ pc' = "prepare_tables" /\ fp' = TRUE /\ UNCHANGED <<ret, failed>>
       \/ Fails("fopen", ret, "done") /\ UNCHANGED fp
    /\ UNCHANGED <<versions, index, row, stmt, active, alive, file, lost, result>>

PrepareTables ==
    /\ pc = "prepare_tables"
    /\ \/ /\ pc' = "step_tables" /\ ret' = "OK"
          /\ stmt' = {"table"} /\ alive' = alive + 1
          /\ file' = <<Begin>> /\ MayLose("fprintf")
          /\ UNCHANGED failed
       \/ Fails("prepare", "error", "exit") /\ UNCHANGED <<stmt, alive, file, lost>>
    /\ UNCHANGED <<versions, fp, index, row, active, result>>

(* The loop over the tables goes on while there is a row; an error ends it  *)
(* as the last row does.                                                    *)
StepTables ==
    /\ pc = "step_tables"
    /\ \/ /\ index < Len(db.tables)
          /\ pc' = "prepare_data" /\ ret' = "ROW"
          /\ index' = index + 1
          /\ Fprintf(Create(db.tables[index + 1]))
          /\ active' = active \cup {"table"}
          /\ UNCHANGED failed
       \/ /\ index = Len(db.tables)
          /\ pc' = "prepare_triggers" /\ ret' = "DONE"
          /\ active' = active \ {"table"}
          /\ UNCHANGED <<index, file, lost, failed>>
       \/ /\ Fails("step", "error", "prepare_triggers")
          /\ active' = active \ {"table"}
          /\ UNCHANGED <<index, file, lost>>
       \/ /\ index < Len(db.tables)
          /\ Fails("column", "-1", "exit")
          /\ active' = active \cup {"table"}
          /\ UNCHANGED <<index, file, lost>>
    /\ UNCHANGED <<versions, fp, row, stmt, alive, result>>

(* The name is not quoted: the prepare of a keyword always fails.           *)
(* stmt_data is overwritten: the statement of the table before stays, at    *)
(* its end, with nobody to finalize it.                                     *)
PrepareData ==
    /\ pc = "prepare_data"
    /\ row' = 0
    /\ \/ /\ db.tables[index] \notin Keyword
          /\ pc' = "step_data" /\ ret' = "OK"
          /\ stmt' = stmt \cup {"data"} /\ alive' = alive + 1
          /\ UNCHANGED failed
       \/ /\ \/ Fails("prepare", "error", "exit")
             \/ /\ db.tables[index] \in Keyword
                /\ ret' = "error" /\ pc' = "exit"
                /\ UNCHANGED failed
          /\ stmt' = stmt \ {"data"} /\ UNCHANGED alive
    /\ UNCHANGED <<versions, fp, index, active, file, lost, result>>

(* The rows of a table, by what INSERT puts back of them.  "plain" comes    *)
(* back as it is.  "altered" comes back as something else or not at all:    *)
(* its apostrophes end the text or come in pairs, a BLOB or a zero byte     *)
(* makes it a shorter text, a REAL has 15 digits or is infinite.  "long"    *)
(* does not fit in cmd[4096].                                               *)
Rows == db.rows[db.tables[index]]

(* A row that does not fit in cmd is written behind its end.  A value that  *)
(* sqlite3_column_text has no memory for becomes NULL in the file.          *)
AddRow_NotLast(r) ==
    IF row + 1 = Len(Rows) THEN UNCHANGED <<pc, file, lost>>
                           ELSE Fprintf(Insert(db.tables[index], r)) /\ UNCHANGED pc
AddRow(r) ==
    IF r = "long" THEN pc' = "undefined" /\ UNCHANGED <<file, lost>>
                  ELSE Fprintf(Insert(db.tables[index], r)) /\ UNCHANGED pc

StepData ==
    /\ pc = "step_data"
    /\ \/ /\ row < Len(Rows)
          /\ row' = row + 1 /\ ret' = "ROW"
          /\ \/ AddRow(Rows[row + 1]) /\ UNCHANGED failed
             \/ "column" \in Fault /\ failed' = TRUE /\ AddRow("nulled")
          /\ active' = active \cup {"data"}
       \/ /\ row = Len(Rows)
          /\ pc' = "step_tables" /\ ret' = "DONE"
          /\ active' = active \ {"data"}
          /\ UNCHANGED <<row, file, lost, failed>>
       \/ /\ Fails("step", "error", "step_tables")
          /\ active' = active \ {"data"}
          /\ UNCHANGED <<row, file, lost>>
    /\ UNCHANGED <<versions, fp, index, stmt, alive, result>>

FinalizeTables_Twice == alive - 2
FinalizeTables == alive - 1

PrepareTriggers ==
    /\ pc = "prepare_triggers"
    /\ index' = 0
    /\ \/ /\ pc' = "step_triggers" /\ ret' = "OK"
          /\ alive' = FinalizeTables + 1
          /\ UNCHANGED <<stmt, failed>>
       \/ /\ Fails("prepare", "error", "exit")
          /\ stmt' = stmt \ {"table"} /\ alive' = FinalizeTables
    /\ UNCHANGED <<versions, fp, row, active, file, lost, result>>

StepTriggers ==
    /\ pc = "step_triggers"
    /\ \/ /\ index < Len(db.triggers)
          /\ ret' = "ROW" /\ index' = index + 1
          /\ Fprintf(Trigger(db.triggers[index + 1]))
          /\ active' = active \cup {"table"}
          /\ UNCHANGED <<pc, failed>>
       \/ /\ index = Len(db.triggers)
          /\ pc' = "exit" /\ ret' = "DONE"
          /\ Fprintf(Commit)
          /\ active' = active \ {"table"}
          /\ UNCHANGED <<index, failed>>
       \/ /\ Fails("step", "error", "exit")
          /\ Fprintf(Commit)
          /\ active' = active \ {"table"}
          /\ UNCHANGED index
       \/ /\ index < Len(db.triggers)
          /\ Fails("column", "-1", "exit")
          /\ active' = active \cup {"table"}
          /\ UNCHANGED <<index, file, lost>>
    /\ UNCHANGED <<versions, fp, row, stmt, alive, result>>

Finalized_Data == stmt \cap {"data"}
Finalized == stmt

Verdict == ret # "OK"

Exit ==
    /\ pc = "exit"
    /\ pc' = "done"
    /\ active' = active \ Finalized
    /\ alive' = alive - Cardinality(Finalized)
    /\ stmt' = stmt \ Finalized
    /\ result' = Verdict
    /\ MayLose("fclose")
    /\ UNCHANGED <<versions, fp, ret, index, row, file, failed>>

Step ==
    \/ Fopen \/ PrepareTables \/ StepTables \/ PrepareData \/ StepData
    \/ PrepareTriggers \/ StepTriggers \/ Exit

Next == Step \/ Write

Spec == Init /\ [][Next]_vars
-----------------------------------------------------------------------------
(* What a complete dump of d would hold.                                    *)
TableDump(d, t) == <<Create(t)>> \o [i \in DOMAIN d.rows[t] |-> Insert(t, d.rows[t][i])]
TablesDump(d) == FlattenSeq([i \in DOMAIN d.tables |-> TableDump(d, d.tables[i])])
TriggersDump(d) == [i \in DOMAIN d.triggers |-> Trigger(d.triggers[i])]

TablePart ==
    FlattenSeq([i \in DOMAIN file |->
        IF file[i].kind \in {"create", "insert"} THEN <<file[i]>> ELSE <<>>])

(* s is t but for values that became NULL.                                  *)
IsButForNulls(s, t) ==
    /\ Len(s) = Len(t)
    /\ \A i \in DOMAIN s :
          \/ s[i] = t[i]
          \/ t[i].kind = "insert" /\ s[i] = Insert(t[i].table, "nulled")

(* s has the first tables of d, each with its first rows.                   *)
IsCutOf(s, d) ==
    LET n == Cardinality({i \in DOMAIN s : s[i].kind = "create"})
        kept(t) == Cardinality({i \in DOMAIN s : s[i].kind = "insert" /\ s[i].table = t})
    IN  /\ n <= Len(d.tables)
        /\ \A t \in Table : kept(t) <= Len(d.rows[t])
        /\ IsButForNulls(s, FlattenSeq([i \in 1..n |->
                SubSeq(TableDump(d, d.tables[i]), 1, kept(d.tables[i]) + 1)]))

(* Whatever fails and whoever commits, the tables and rows dump_db prints   *)
(* are of one and the same version of the database, in its order: errors    *)
(* only cut the tables, or the rows of a table, short, or make a value      *)
(* NULL.                                                                    *)
TablesOfOneVersion == \E v \in DOMAIN versions : IsCutOf(TablePart, versions[v])

(* A whole dump has the tables of one version and the triggers of that one  *)
(* or a later one: a commit between the two is not kept out.                *)
CompleteOf(v, w) ==
    file = <<Begin>> \o TablesDump(versions[v]) \o TriggersDump(versions[w]) \o <<Commit>>

(* sqlite3_exec of the script s on a new database stops at the first error, *)
(* and what is not committed is lost.  s restores what it was written from  *)
(* if every statement does what it says.                                    *)
Creates(s, t) == \E i \in DOMAIN s : s[i] = Create(t)
Runs(s, i) ==
    CASE s[i].kind = "create"  -> s[i].table \notin Reserved
      [] s[i].kind = "insert"  -> s[i].row # "altered" /\ Creates(SubSeq(s, 1, i), s[i].table)
      [] s[i].kind = "trigger" -> Creates(SubSeq(s, 1, i), s[i].table)
      [] OTHER -> TRUE
Restores(s) == s # <<>> /\ Last(s).kind = "commit" /\ \A i \in DOMAIN s : Runs(s, i)

(* The script has a trigger on what it does not create: on a view, for no   *)
(* view is dumped, or on a table that came between the two reads.           *)
StrayTrigger(v, w) == ~(ToSet(versions[w].triggers) \subseteq ToSet(versions[v].tables))

(* When fopen and SQLite never fail, the dump ends at the first table whose *)
(* name needs quotes, without COMMIT; or it is whole, and if none of it was *)
(* lost it restores the tables, their rows and their triggers exactly if    *)
(* there is no table that no script may create (with AUTOINCREMENT there    *)
(* always is), no value that has no literal here and no stray trigger.      *)
RestoresUnless ==
    pc = "done" /\ ~failed =>
        \/ \E t \in Keyword : file # <<>> /\ Last(file) = Create(t)
        \/ \E v, w \in DOMAIN versions :
              /\ v <= w /\ CompleteOf(v, w)
              /\ ToSet(versions[v].tables) \cap Keyword = {}
              /\ ~lost =>
                    (Restores(file) <=>
                       /\ ToSet(versions[v].tables) \cap Reserved = {}
                       /\ \A t \in Table : "altered" \notin ToSet(versions[v].rows[t])
                       /\ ~StrayTrigger(v, w))

(* false says that the file could not be opened, true that it could: not    *)
(* whether the dump is complete, has its COMMIT or is on the disk.  The     *)
(* database is left unlocked, and the statement of every table but the last *)
(* is left behind: sqlite3_close will refuse.                               *)
Selected == Cardinality({i \in DOMAIN file : file[i].kind = "create"})

LeftToTheCaller ==
    pc = "done" =>
        /\ result <=> fp
        /\ ~ReadLocked
        /\ alive = IF Selected = 0 THEN 0 ELSE Selected - 1
=============================================================================
