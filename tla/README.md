# simple-c-blog in TLA+

A verification project for `simple-c-blog`: a blog engine in C++ that runs as a
CGI program under nginx and fcgiwrap, keeps its data in SQLite, and carries a
Markdown parser.  The modules below are translated from the code; the
configurations check them with TLC on small instances; the `*Proofs` modules
prove for every size the safety properties of the request handler, of the
creation of its directory and of the installation inside SQLite, that this one
implements the handler's atomic statements, the safety properties of the database
dump, of the string functions, of Markdown tables and of the parsers of a line, and
those of the Markdown block parsers but one.

## 1. The system

| component | source | state | operations |
|---|---|---|---|
| request | `cppblog.c` `main` | locals `dbinstall`, `rc`; globals `dbFile`, `db` | one run per request: directory, probe, open, three CREATE TABLEs, page |
| directory | `util.h` `is_dir`, `mkdirAll` | the path `datas` in the file system | `stat`, `mkdir`, recursion for a missing parent |
| SQLite | `sqlite3.c` (vendored, 3.30.1) | database file, rollback journal, lock bytes; per connection the schema it has read | `sqlite3_open`, `sqlite3_exec`, `sqlite3_close` |
| HTML | `html.h`, `http.h` | none (standard output) | tags, `htmlspecialchars` |
| routing | `cppblog.c:75-117` | none | four regular expressions, tried in order |
| URL codec | `util.h` | none | `decode_url`, `encode_url`, `to_utf8`, trims |
| dump | `dump.h` `dump_db` | output file, two statements | SELECT over tables, their rows, triggers; never called |
| Markdown blocks | `markdown.h` `Parser`, `BlockParser` and nine subclasses | `currentBlockParser`, `childParser`, `isStarted`, `isFinished`, `result` | `Parse`, `AddLine`, `parseBlock` |
| Markdown lines | `markdown.h` `LineParser` and seven subclasses | none | `Parse` of one line |
| tables | `markdown.h` `TableParser` | `table`, `currentBlock`, `currentRow` | `AddLine`, `parseBlock` |
| URL builders | `entry.h`, `category.h`, `tag.h` | none | `the_entry_url`, `the_term_url`, `the_tag_url`; not included anywhere |
| schema script | `schemes.sql` | the database | drops and creates the three tables |
| deployment | `cppblog.conf`, `Makefile`, `markdown`, `public/` | none | starts one process per request; `-O3` |

### How the parts interact

* fcgiwrap starts one process per request.  Requests overlap, so several
  `main()`s run at once.  They share the directory `datas`, the file
  `datas/cppblog.db` and its journal, and nothing else.
* `main()` calls SQLite without a busy handler or a timeout: a lock that is not
  free at once is `SQLITE_BUSY`, and `main()` prints it and returns 1.
* The page is printed with `html.h`.  Its first tag with an attribute calls
  `htmlspecialchars`, which reads `subs[5..14]` of arrays of five.
* The Markdown parser is a chain: `Parse` hands each line to the current block
  parser, which rewrites the line in place and passes it on to its child.  The
  outer parsers speak to the inner ones only through the text they put in front
  of the line, and learn of their end only through `IsFinished`.

### What is hard in this code

PROJECT.json lists the hazards line by line.  The main ones:

1. `file_exists`, `sqlite3_open` and the CREATE TABLEs are separate steps of
   concurrent processes; the decision to install is taken from the first one.
2. A process can be killed, or fail, between two CREATE TABLEs.
3. Two processes create `datas`; one gets `EEXIST`.
4. Inside SQLite: readers, writers and recovery after a crash, on one file, with
   no one allowed to wait.
5. Lists in lists in quotes: one line may have to end several parsers at once,
   and the end of the document may find any number of them open.
6. `htmlspecialchars` may never return.

### What makes each component correct

* Request: the tables are created in the order of the schema; whoever reaches
  the page after installing serves over a complete schema; nobody fails for
  having lost a race for the directory; every request ends (or hangs in
  `htmlspecialchars`, which is known).
* SQLite: a CREATE TABLE is atomic for every other process and across crashes;
  nobody reads a torn schema; every call returns.
* Directory: who is told that it is there has it, or a socket or block device that
  passes for it; who is told that it is not met an obstacle; of several callers not
  all fail.
* Tables: every cell is printed in its row and block; every access is in bounds.
* Markdown blocks: no text is lost, duplicated or moved; the HTML is well
  nested; lists nest as their lines are indented; the end of the document
  closes what is open.
* Dump: tables and rows in the file are of one version of the database, whoever
  commits and whatever fails; it restores if nothing failed (section 3 has the
  exceptions); the database is unlocked at the end.
* URL codec: decoding undoes encoding; a code point becomes its UTF-8 bytes; no
  read leaves the string; a trim takes the blanks at the ends and nothing else.
* Escaping: each character is escaped once, and the call returns (it does not).
* Routing: a URI, its AMP page and the URIs behind it lead to pages that belong
  together.
* Markdown lines: code is code and nothing else; text and addresses survive the
  seven rewritings; images are not links, and strong is not twice emphasized.

## 2. The modules

| module | models | lines of code |
|---|---|---|
| `CppBlog` | `main()` as concurrent processes; one `sqlite3_exec` is one step | `cppblog.c`, `util.h:28-58`, `html.h:11-46`, `schemes.sql` |
| `CppBlogProofs` | theorems about `CppBlog` | |
| `SqliteInstall` | the same processes with each `sqlite3_exec` opened up into SQLite's steps; implements `CppBlog` | `cppblog.c:41-61` and the locking, journal and schema-cookie code of `sqlite3.c` |
| `SqliteInstallProofs` | theorems about `SqliteInstall`, the refinement among them; instantiates `CppBlogProofs` | |
| `MkdirAll` | the recursion of `mkdirAll`, for a path of any depth, in several processes; `CppBlog` has its case of depth one | `util.h:28-58` |
| `DumpDb` | `dump_db` against processes that commit to the same file | `dump.h` |
| `DumpDbProofs` | theorems about `DumpDb` | |
| `MarkdownBlocks` | `Parser::Parse` and all block parsers | `markdown.h` |
| `MarkdownBlocksProofs` | theorems about `MarkdownBlocks` | |
| `MarkdownInline` | the seven line parsers, in their order | `markdown.h:180-284`, `425-434`, `572-593` |
| `MarkdownTable` | the grid of `TableParser` and its HTML | `markdown.h:595-704` |
| `MarkdownProofs` | theorems about `MarkdownTable`, and about `MarkdownInline` | |
| `HtmlEscape` | `htmlspecialchars` | `html.h:11-25` |
| `UrlCodec` | `decode_url`, `encode_url`, `to_utf8`, the trims | `util.h:60-207` |
| `StringsProofs` | theorems about `HtmlEscape` and `UrlCodec` | |
| `Routes` | the comparison with `/` and the four regular expressions | `cppblog.c:75-117` |
| `PathsProofs` | theorems about `MkdirAll`, and about `Routes` | |
| `SequenceLemmas` | lemmas about concatenation, flattening and maps of sequences, where their elements are and which meet, which the proofs about the Markdown modules, `DumpDb`, `Routes` and the string functions share | |
| `MC*` | constants for TLC; `MCStrings` runs `UrlCodec` and `HtmlEscape` side by side | |

In every module that models code a definition `Name_Bug` is a
mutant of `Name`: what a plausible slip in that place of the code would be.  No
specification uses one; substituting it for `Name` breaks a property, which
shows that the property depends on the code.  This is also why decisions such
as `AfterEexist` or `ToExclusive` have a definition of their own.

### CppBlog

`pc[w]` is where the process in slot `w` of the CGI server is.

| action | code |
|---|---|
| `Arrive` | fcgiwrap starts a process (`cppblog.conf:13-20`) |
| `StatDatas` | `is_dir` in `main`, `cppblog.c:24` |
| `MkdirAll`, `Mkdir`, `MkdirExists` | `mkdirAll`, `util.h:35-58`: `is_dir`, `mkdir`, `EEXIST` |
| `ProbeFile` | `file_exists`, `cppblog.c:32-34` |
| `OpenDb` | `sqlite3_open`, `cppblog.c:35-41`; it creates the file |
| `CreateTable`, `CreateTableFails` | one `sqlite3_exec`, `cppblog.c:43-60` |
| `BeginPage`, `FinishPage` | `cppblog.c:62-121`; the outcome of `htmlspecialchars` is any of return, loop, abort |
| `Crash`, `Reap` | the kernel kills a process; fcgiwrap collects it |

`tables` is the set of tables a reader would see.  The parent of `datas` is the
current directory, so `mkdir` cannot say `ENOENT` here, and the recursion of
`mkdirAll` is in a module of its own, `MkdirAll`.  `SQLITE_BUSY` is possible only for a process
that was inside its CREATE TABLEs together with another installer; the history
variable `contended` records that, and `SqliteInstall` shows that it is enough.
Initially the database is absent, or was loaded from `schemes.sql`.  `datas` may be
absent, a directory, a file, or `"special"`: a socket or a block device, whose mode has
the bit that `is_dir` asks for (`HasDirBit`, `util.h:33`); it passes for the directory,
and then `sqlite3_open` fails under it, the outcome `noOpen`.  Routing
only chooses the text of the page; it is in `Routes`.

`BeginPage` leaves the outcome of undefined behaviour open.  With the flags of
the Makefile (`-O3`) the observed outcome is the endless loop for every request;
without optimisation it is an abort.  What happens before the arrays end is in
`HtmlEscape`.

### SqliteInstall

Each process in its `sqlite3_exec` has a `stage`, the lock bytes it holds, and
the schema its connection has read (`loaded`, `view`).  The files are `pages`
(the tables in the database file), `journal` (whether the journal exists) and
`saved` (the page images in it).

| stage | action | code |
|---|---|---|
| open | `LockShared` | `unixLock` for SHARED: passes PENDING, refused while another has PENDING or EXCLUSIVE |
| access, check, drop | `AccessJournal`, `CheckReserved`, `DropJournal` | `hasHotJournal`, its three separate system calls |
| hot, playback | `LockHotJournal`, `Playback` | `sqlite3PagerSharedLock`, recovery under EXCLUSIVE |
| read | `ReadSchema`, `Reprepare`, `TableExists`, `LockReserved` | preparing, schema cookie, IF NOT EXISTS, `sqlite3PagerBegin` |
| reserved | `WriteJournal`, `Reprepare` | `pager_open_journal`; cookie check under RESERVED |
| journaled | `LockForCommit` | `syncJournal` takes EXCLUSIVE first |
| exclusive, flushed | `FlushPages`, `DeleteJournal` | commit, phases one and two |
| rollback, giveup | `Rollback`, `GiveUp` | `SQLITE_BUSY` at the commit, or before |
| any | `IoError`, `Crash` | disk error, process killed |

Abstractions: the pages of one CREATE TABLE are written in one step, since while
a journal exists every reader restores them whichever were written; the schema
cookie is compared as the schema itself, since each committed CREATE TABLE moves
the one exactly when it changes the other; the retry limit of `SQLITE_SCHEMA`
(50) is out of reach with three tables.  A journal found by a reader is in the
file system from its creation; its images are taken to be on the disk when the
file is overwritten, which is what the sync is for.

The refinement mapping is `tables <- IF journal THEN saved ELSE pages`: the
tables after recovery.  The linearisation point is the deletion of the journal.

### MkdirAll

`node[i]` is what the file system has at the path's `i`-th component; node 0 is
the root or the current directory, which the path does not spell.  Apart from a
directory it may be absent, a file, or `"special"`, a socket or a block device, for
which `is_dir` says true as well (`HasDirBit`): `S_IFDIR` is one bit of theirs, not a
mask of its own.  Anything below a file or a special one is `ENOTDIR`.  One call of
`mkdirAll` runs at `level[w]`; since a call waits for at most one inner call and
always for the component above its own, the level and `pc[w]` are the whole
stack.  `pc[w]` names the system call that is next:

| `pc` | action | code |
|---|---|---|
| is_dir | `IsDir` | `util.h:36` |
| mkdir | `Mkdir`, `MissingParent` | `util.h:39-52`: success, `EEXIST`, `ENOENT` with the recursive call, `ENOTDIR` |
| eexist | `MkdirExists` | `util.h:55` |
| again | `MkdirAgain` | `util.h:54`, after the inner call returned true |

`Return` ends the innermost call: true inside a recursion goes on at `util.h:54`
one component below, false there fails every outer call too, which is one step
since none of them touches the file system.  Nobody removes anything: no part of
the program does.

### MarkdownTable

A row is its sequence of cells, after the split at `|` and the line parsers.
`table`, `currentBlock` and `currentRow` are the members of those names, the last
two counted from 0 as in the code.  `AddRow` is the rest of `AddLine`; its loop
over the cells is one step, for nothing else runs meanwhile.  `AddRowBeyond` is
the same lines when an index is behind the end of a vector: undefined behaviour,
after which the model says nothing.  The `div` around the table is left out.

### MarkdownBlocks

A line is a sequence of tokens: blanks, the markers, one word, and the tags the
parsers add.  `stack` is `currentBlockParser` with the chain of `childParser`s
below it; `at` is the parser whose `AddLine` is running.  A call of the child's
`AddLine` is a step down (`AddLine`), each return a step up (`Return`, which is
the `IsFinished`/`GetResult` part of the caller).  The three list parsers share
their five actions and differ in the tables `OpenTag`, `ItemTag`, `CloseTag`,
`EndingTag` and in `Body`; `ChildFor` is the callback each parser is given.

An outline, for `NestsAsIndented`, is a document of items only: two blanks for each
level above the item's, a bullet or a number, a word; one kind for each level, no item
more than one level below the one before; an empty line ends it.  The definition is as
narrow as the parsers are: with an odd number of blanks the marker stays in the text,
and an item without a text ends its list (`markdown.h:322`, `739`).

`markdown.h` as it stands does not compile on its own (`LineParser` is declared
after its subclasses) and no program includes it.  The model was compared with
the parser, its classes reordered, on all documents of up to three of the twenty
shapes (8421 documents): the tokens of the HTML are the same, except that a
table here keeps a row whole where the code splits it at `|`.  Left out: the level
of a headline and the two states of a check box.  The grid of a table is in
`MarkdownTable`, the line parsers, which only see the text of a line, in
`MarkdownInline`.

### MarkdownInline

`line` is the line, as a sequence of characters, words and tags; `done` counts the
parsers that have run.  Each of the seven classes is an action of its name: its
`Parse`, that is one `std::regex_replace` over the whole line (two for `StrongParser`).
`Delimited`, `Bracketed` and `NoCodeAhead` say what their regular expressions match at a
position, `Replace` that matches are leftmost and do not overlap.  The result was
compared with the real `LineParser`s on every line of the run (105,681): they agree.

### DumpDb

One `sqlite3_prepare_v2` or `sqlite3_step` is one step, named by `pc`; the writes to
the file between two of them belong to the one before.

| `pc` | action | code |
|---|---|---|
| fopen | `Fopen` | `dump.h:21-24` |
| prepare_tables, step_tables | `PrepareTables`, `StepTables` | `dump.h:25-39`, `71` |
| prepare_data, step_data | `PrepareData`, `StepData` | `dump.h:40-70` |
| prepare_triggers, step_triggers | `PrepareTriggers`, `StepTriggers` | `dump.h:74-92` |
| exit | `Exit` | `dump.h:93-100` |

`stmt` are the two pointers, `alive` the statements that exist: the second pointer
is overwritten for each table (`dump.h:43`), so the two differ.  `active` are the
statements in the middle of their rows; while there is one the connection holds
SHARED, and `Write`, a commit of another process, cannot happen (`ReadLocked`; that
is the lock that `SqliteInstall` opens up).  `versions` is the history of the
database, which begins with one of `Stored`, what the database may be when the
function is called.

What a row is, is what the INSERT written for it puts back.  `"plain"` comes back as it
is.  `"altered"` does not: an apostrophe ends the literal or two become one; a BLOB is
written as a text up to its first zero byte, because `dump.h:57` asks for the type after
`sqlite3_column_text` has converted the value; an infinite REAL is the word `Inf`, which
is an error; a REAL has 15 digits.  Which of them make the script stop and which only
load something else is not told apart: neither restores the database.  `"long"` does not
fit in `cmd[4096]` and ends the model, since the behaviour is undefined.

A name in `Keyword` is one that `SELECT * from` (`dump.h:41`) can only take in quotes, so
its `sqlite3_prepare_v2` always fails.  `View` are the names of views: they are not
dumped, but the triggers on them are (`dump.h:77`).  `Reserved` are the tables a script
may not create, `sqlite_sequence` and likewise `sqlite_stat1`.  These and the kinds of
rows were tried with the real function and the vendored SQLite.

Any call may fail, also `sqlite3_column_text` for lack of memory: for a table that
ends the dump, for a value it writes NULL.  `fprintf` and `fclose` may fail too, at any
of their places, and nothing comes of it but that `lost` is true: `file` is what was
printed, not what is on the disk.  Left out: indexes, which are never dumped, and names
of several words, for which the SELECT may read another table (`a b` reads `a`).

### UrlCodec, HtmlEscape

`UrlCodec` decodes byte by byte: a turn of the loop at `util.h:174` is `Unicode`,
`TwoDigits` or `Single`.  `i`, `s` and `result` are the variables of the code;
`farthest` records the last byte read.  `encode_url`, `to_utf8` and the trims have no
state and are operators; `npos`, a number no string is as long as, and the wrap of
`npos + 1` are modelled.  They were compared with the functions of `util.h` on 7,082 strings, and agree.

`HtmlEscape` runs `htmlspecialchars`: `pair` is `i`, one `Replace` is one turn of the
inner loop, `NextPair` its end, `Beyond` the read of `subs[5]`, which is undefined.

### Routes

A URI is a sequence of tokens: the slash, the words in the patterns, other text.
`trying` is the pattern that is next; `Captures` is the set of what its group can
match, `Capture` the longest.  `Request` is the visitor's next request, for a
longer URI, and `before` remembers the page before, since the properties are about
how the pages of two URIs belong together.  Compared with `std::regex` on 37,449
URIs; they agree.

## 3. What the runs check

| run | instance | shows |
|---|---|---|
| `requests` | 3 requests, 3 tables, every fault; 20,045 states up to symmetry | `TypeOK`, `SchemaPrefix`, `InstallerServes`, `StoreLayout`, `InstallFinal` |
| `sqlite` | 3 requests, crashes and disk errors; 254,306 states up to symmetry | `TypeOK`, `NoDirtyRead`, `WriterAlone`, `TornIsOwnedOrHot`, `ImplementsBlog` |
| `sqlite_fair` | 2 requests, crashes, fair; 15,571 states | `DirFailureJustified`, `RequestEnds` |
| `sqlite_settled` | 2 requests, no fault | `SettledComplete` is violated |
| `mkdirall` | 3 processes, a path of 3 components, files, sockets and block devices in the way, mkdir faults, crashes, fair; 25,118 states | `TypeOK`, `TrueMeansDir`, `FalseJustified`, `SomeoneSucceeds`, `CallEnds` |
| `dump_db` | 1 dump, 3 tables, one of them reserved and one a keyword, and a view, up to 2 of the tables at first and up to 2 rows in each, 2 commits of others, every call failing; 2,379,974 states | `TypeOK`, `TablesOfOneVersion`, `RestoresUnless`, `LeftToTheCaller` |
| `strings` | all strings of 0 to 4 of eight bytes, escapes of 3 and 4 digits around the borders of `to_utf8`, all attributes of 0 to 4 characters; 104,350 states | `TypeOK`, `RoundTrip`, `UnicodeEscapes`, `TrimsBlanks`, `AmpersandNeverEnds`, `EscapesTheRest` |
| `routes` | URIs of 0 to 6 tokens, each after a shorter one; 1,823,065 states | `Endings`, `SubtreesKept` |
| `markdown_blocks` | documents of 0 to 4 lines of 20 shapes, outlines of 0 to 6 lines of 3 levels and 2 kinds; 1,520,300 states | `TypeOK`, `NothingLost`, `WellNested`, `EofClosesLists`, `NestsAsIndented` |
| `markdown_eof` | documents of 0 to 2 lines | `AllFinished` is violated |
| `markdown_inline` | 105,681 lines: all of 0 to 7 marks, of 0 to 5 brackets, links and images with short texts and addresses, in and behind one another; 845,448 states | `TextKept`, `CodeProtected`, `OrderKept` |
| `markdown_table` | tables of 0 to 7 lines, rows of 0, 1 and 2 cells; 27,959 states | `RowIndex`, `BeyondOnlyAfterEmpty`, `PrintsTheDocument` |

Bounds, and why they are enough:

* Three processes: the deepest interaction in SQLite's locking needs a writer, a
  reader with a stale impression of the journal, and a third that recovers or
  writes meanwhile.  For safety the theorems remove the bound, in `CppBlog` and in
  `SqliteInstall`.  The slots are reused, so the number of requests is not bounded.
* Three tables are the code's.  Two would already show a partial schema.
* Three components: the last, one that is both a parent and made for a child, and
  a first.  Three processes: one that recurses, a rival that makes the parent, and
  one that makes the directory in between.
* A dump of two tables has a first one, whose statement is left behind, and a last;
  the third name is for what a commit adds.  Two rows let a table be cut short.  Two commits are the least that put a new table
  and its trigger between the two reads.
* Four bytes are one more than `%XX`, so that an escape meets a byte before it or
  behind it, or is cut; `%uXXXX` has texts of its own, with digits on both sides of each
  border (0x80, 0x800, the surrogates).  The eight bytes are those the functions
  tell apart.
* Six tokens: `/`, a word, `/`, a name, `/`, `amp` is the longest URI that two
  patterns match.
* Four lines: two to open nested blocks, one to disturb them, one to end them.
  Every marker occurs alone and behind an indentation or a quote mark.  Six lines of
  list items open three levels, go back over two of them at once, and start again.
* Seven marks: two pairs of a double mark with text between are six characters, and
  one more disturbs them; the lines with brackets are those of the two expressions
  with a text and an address of up to three.
* Seven lines of a table: three blocks with rows, or two empty blocks and a row
  behind each.

Symmetry of the processes is used in the two runs that check safety only.
`CHECK_DEADLOCK FALSE` is set where the system really stops: every process may be
caught in `htmlspecialchars`; a document, a line, a table, a string or a URI of the
greatest length that is done is the end of its run; `dump_db` and a process's
`mkdirAll` are called once.

Fairness.  `FairSpec` asks weak fairness of each process's own steps: the kernel
runs every process that can run (in `MkdirAll` once it has called the function),
and none of its calls blocks, since SQLite is asked not to wait.  Nothing is assumed
of arrivals, of crashes, or of the server collecting processes.

### What the runs say of the code

The mutants in PROJECT.json show that each property can fail.  What holds is this.

`FalseJustified` states the only case in which `mkdirAll` returns false although
the directory is there: the caller had to make the parent first, and a rival made
the directory before the caller's second `mkdir` (`util.h:54` does not look at
`EEXIST`).  `SomeoneSucceeds` says that this can never happen to all rivals, so a
repeated call helps.  `main()` has no parent to make, and is not affected.

`TrueMeansDir` is not quite what the name of `is_dir` promises: all directories above the
last are there, but for the last one a socket or a block device passes.  For the request
`DirFailureJustified` says what becomes of it: it fails at `sqlite3_open` and not before.

`BeyondOnlyAfterEmpty` states which tables make `TableParser` read behind the end
of its vector: those with a separator as first line or two in a row, and a row
after it (`markdown.h:628` adds one block where more are missing).

`RequestEnds` holds inside SQLite, in any order of the locks and after any crash: a
request that is not killed ends, or spins in `htmlspecialchars`.  Spinning is an end it
permits, so it says nothing of the loop itself (`AmpersandNeverEnds` does); nor would it
notice a missing busy handler, which only makes requests end sooner (`SettledComplete` is
about that).

`EofClosesLists` looks at the outermost parser: it says of a document whose outermost
block is a list or a paragraph that all of it is closed, and nothing of a list inside a
quote that is left open, which `AllFinished` shows.

`TablesOfOneVersion` holds because the statement over the tables stays active while
the rows are read, and so keeps every commit out; the mutant that lets each table's
statement guard itself breaks it.  It excuses values that became NULL for lack of
memory, so it would not notice one too many of those.  `RestoresUnless` lists what a dump
in which neither `fopen` nor SQLite failed is not enough for.  It ends, without COMMIT, at
the first table called like a keyword.  Otherwise it is whole, and if stdio lost nothing it
restores exactly if the database has no AUTOINCREMENT (its `sqlite_sequence` cannot be
created), no value that has no literal here (see `DumpDb` above), no trigger on a view, and
no table that was created, with a trigger, between the two reads.  `LeftToTheCaller` says what
`return ret != SQLITE_OK` comes to: true after every `fopen` that succeeded, however
the dump ended and whether or not its text got to the disk.  It also counts the statements nobody can finalize any more, one for
each table but the last; with them `sqlite3_close` returns `SQLITE_BUSY`.

`AmpersandNeverEnds`: an attribute with a quote, an apostrophe or an ampersand is
never printed, whatever the build.  `EscapesTheRest`: all others are escaped
correctly by the time the arrays end.

`RoundTrip` states when decoding does not undo encoding: exactly when the text has a
zero byte, or has something that looks like an escape, for `%` is not encoded.
`TypeOK` of `UrlCodec` says that `from_hex_to_i` does not read behind the terminating
zero, although it checks only its first index (`util.h:178`).  `TrimsBlanks` needs
`npos + 1` to be 0, which it is.

`Endings`: the AMP page of an entry is that entry's, except for one called like the
tags or the categories.  The optional slash at the end of a pattern never has an
effect but behind `amp`, since the capture before it is greedy: elsewhere
`/name/` is the page of an entry called `name/`.  `SubtreesKept`: below a tag or a
category everything is a longer name of that kind, also `/amp`.

`CodeProtected`: the lookaheads keep emphasis out of code, and at the price that any
mark in front of the last backtick of a line has no meaning.  Whether every two
backticks become code is only said of lines without a parenthesis, since a link or an
image moves its text behind its address.  `TextKept` includes the addresses of links and
images, except in lines with a mark, an exclamation mark or a bracket of the address
behind a parenthesis (`AddressDisturbed`): two underscores in an address become tags
inside the attribute, and no property says what such an address should be.
`ImagesAreNotLinks`: "ImageParser has to be before LinkParser" is
not enough for an image in the text of another, or in what is read as its address
(`ImageInside`): there an exclamation mark is left in front of a link.
`StrongBeforeEmphasized`: two underscores, text, two underscores make something of the
line strong if it has no code and no parenthesis, and in no line are they left as two empty
emphases around the text.  An empty emphasis alone does occur: `__a__b__` is strong `a`, and
its last two underscores are one.

`UnicodeEscapes` is about `%uXXXX` only.  `%80` is decoded to the byte 0x80, which by
itself is no UTF-8; `decode_url` promises bytes, not well-formed text.

### Two disagreements

* `sqlite_settled`.  Two first requests find no file, open it, and take SHARED,
  RESERVED and PENDING in an order in which each is refused; both return 1 and
  leave a file without (all) tables.  No later request installs.  `schemes.sql`
  describes the database as one that has the three tables, created IF NOT EXISTS.
  A crash between two CREATE TABLEs has the same effect (`InstallFinal` says that
  it is permanent).
* `markdown_eof`.  `markdown.h:405` says "make sure, that all parsers are
  finished"; the one empty line fed there does not finish a code block, a table,
  or a quote with a child, and their text is missing from the result.
  `EofClosesLists` shows that nothing else is affected.

## 4. What is proved

`CppBlogProofs` proves for any set of processes, any non-empty schema without
duplicates and any set of faults (`SchemaAssumption`, `FaultAssumption`, which
TLC evaluates in every run of `CppBlog`):

| theorem | property |
|---|---|
| `TypeCorrect` | `TypeOK` |
| `SchemaPrefixHolds` | `SchemaPrefix` |
| `InstallerServesHolds` | `InstallerServes` |
| `StoreLayoutHolds` | `StoreLayout` |
| `DirFailureJustifiedHolds` | `DirFailureJustified` |
| `InstallFinalHolds` | `InstallFinal` |

The inductive invariant `IInv` adds to these:

* `ExecProgress`: an installer at statement `n` has all tables before the `n`-th.
  Without it `SchemaPrefix` is not inductive: the table just created could lie
  beyond a gap.  Together with `SchemaPrefix` it means that the installers'
  positions are at most one ahead of the database, and the lemmas `PrefixOrder`,
  `PrefixExtend` and `CreateKeepsPrefix` turn that into the next prefix.
* `StartsAtFirst`: `stmt` is 1 until the first CREATE TABLE, which starts
  `ExecProgress`.
* `EexistSeen`: what `mkdir` stumbled over stays there, for `DirFailureJustified`.

`InstallFinal` follows since in a settled state nobody is at a CREATE TABLE
(`ExecProgress` says only an installer is), and a new process finds the file.

`SqliteInstallProofs` proves, under the same assumptions, of the program with
SQLite's steps opened up:

| theorem | property |
|---|---|
| `TypeCorrect` | `TypeOK` |
| `NoDirtyReadHolds` | `NoDirtyRead` |
| `TornIsOwnedOrHotHolds` | `TornIsOwnedOrHot` |
| `WriterAloneHolds` | `WriterAlone` |
| `Implements` | `ImplementsBlog` |
| `SchemaPrefixHolds`, `InstallerServesHolds`, `DirFailureJustifiedHolds` | those of `CppBlog`, after recovery |

None of the four safety properties is inductive.  `IInv` adds:

* `HeldAtStage`, `Excludes`: the stage tells the lock bytes, and the bytes exclude
  one another.  A reader checks PENDING, takes SHARED, and looks at the journal and at
  RESERVED in separate steps; only the bytes it holds meanwhile keep a writer from
  changing what it saw.
* `JournalAtStage`: file and journal differ by the statement's table exactly while
  its writer is between the two phases of the commit; without it `NoDirtyRead` says
  nothing about the journal that is deleted.
* `TornIsNotEmpty`: `hasHotJournal` deletes a journal over an empty file without
  asking for more than RESERVED (`sqlite3.c:55895`), so such a file must not be torn.
* `Overlap`: who is at `giveup` or `rollback` has seen another installer, which is
  what `CppBlog` demands of an `SQLITE_BUSY`.

`StepImplements` then maps each step to one of `CppBlog` or to a stutter: deleting the
journal, by whoever does it, leaves the committed tables as they were, except for the
writer's own deletion, which is `CreateTable`.  With `Implements` the theorems of
`CppBlogProofs` are cited through `INSTANCE CppBlogProofs WITH tables <- Committed`.

`DumpDbProofs` proves, for databases of any size (`MaxRows` and `MaxCommits` are any
numbers), any commits of others and any set of failing calls (`ConstantsAssumption`):

| theorem | property |
|---|---|
| `TypeCorrect` | `TypeOK` |
| `LeftToTheCallerHolds` | `LeftToTheCaller` |
| `TablesAreOfOneVersion` | `TablesOfOneVersion` |
| `FaithfulDumpsRestore` | `RestoresUnless` |

* `DbInv`: all that the database has been is legal; a commit, also DROP TABLE, keeps
  it so (`Commits`).
* `Place`: where the call is in the tables, rows and triggers of the last version; and
  while it is at a table the statement over the tables is active.  This is the heart
  of the matter: it keeps every commit out, so that the last version stays the one
  that the index counts in.
* `AtLabel`, `Told`: the statements at each label, one for each table selected so far
  plus the outer one, and what `fp` and `ret` say there.
* `CutOfLast`, `CutOfOne` for `TablesOfOneVersion`: as long as the loop is in the
  tables, the part of the file with tables and rows is cut of the last version at
  `index` and `row`; after it, of some version.  `CutAt` adds to `IsCutOf` that the
  tables from the `index`-th on have no row yet, without which the next CREATE TABLE
  could not be followed.  A commit happens only with `index = 0`, when nothing is cut yet.
* `Faithful` for `RestoresUnless`: what the file is at each label when nothing has
  failed, and with it whether all its statements run so far (`AllRun`), which is
  extended statement by statement: `FineFirst` and the creation of a trigger's table
  are all that decides.

`MarkdownBlocksProofs` proves for documents of any length, lines of any shape and
parsers nested to any depth:

| theorem | property |
|---|---|
| `TypeCorrect` | `TypeOK` |
| `NoWordIsLost` | `NothingLost` |
| `HtmlNests` | `WellNested` |
| `EndOfFileCloses` | `EofClosesLists` |
| `OutlineNests` | `NestsAsIndented` |

The invariant has two parts.  `Structure` is about the chain of parsers: which kind
may be inside which (`Nests`), that on the way down those that have finished are
the last ones above the one that runs, each because its child ends by the tag in front of
the line (`InAdd`), that on the way back the finished ones are at the end of the chain
(`InReturn`), and that none of them is left between two lines (`InRead`).  `Content` is
about the text: with the words of the line in work the HTML has the words of the
document; the elements open in it are those of the parsers in the chain; and the
line, if it begins with closing tags, closes what those above it have finished
(`LineCloses`).  Every step is one of three kinds: a parser takes the line
(`Renders`), passes it on to its child, or returns to its parent; `Turned` says what
taking the line does to text and elements, one lemma for each kind of parser, and
`AddLine` is shown to be one of these before the invariant is proved for all of
them at once.  `NothingLost` and `WellNested` compare with folds over sequences of
any length; `SequenceLemmas` proves of these what is needed.

`NestsAsIndented` compares the parsers with a reference of its own, `Outline`, which
builds the HTML from the levels of the lines alone, and so needs an invariant that
ties the two together.  `OutlineInv`, for a document that is an outline so far: when no
line is on its way down, the parsers have rendered exactly the reference's HTML, there
is one list of the right kind for each of its levels, and the lists that are deeper
are finished and wait to be let go (`Settled`); while a line is on its way down, list
`at` gets the line `LineAt` (`Descends`).  `LineAt` is the protocol between the lists,
which pass on nothing but a line: above the item's level it is the line without two
blanks for each list passed, at its level the next item's tag in front of the word, and
each deeper list puts its closing tag in front of that, which is how the one below
learns that it has to end too (`LineIndented`, `LineNext`, `LineClosing`).
`OutlineDown` shows it for a step down, `OutlineReturn` for a step up, `OutlineRead`
for the next line, which may also end the outline; `OutlineInv` is inductive only
together with the invariant above.

`StringsProofs` proves for any texts, of any length, encoded or not, for any `npos` that
no text is as long as (`TextAssumption`), and for attributes of any characters:

| theorem | property |
|---|---|
| `TypeCorrect` | `TypeOK` of `UrlCodec` |
| `RoundTripHolds` | `RoundTrip` |
| `TrimsBlanksHolds` | `TrimsBlanks` |
| `UnicodeEscapesHolds` | `UnicodeEscapes` |
| `AmpersandNeverEndsHolds` | `AmpersandNeverEnds` |
| `EscapesTheRestHolds` | `EscapesTheRest` |

* `Decoded` for `RoundTrip`: while an encoded text is decoded, `i` is where the encoding
  of some `k`-th byte begins (`Pos(k)`), and `result` is either the first `k` bytes, none
  of which begins an escape, or shorter than `k`, and then the text has an escape.  A byte
  that `encode_url` left alone may begin one, which takes some of the bytes behind it,
  and their encodings, away at once; so the turn always ends at a `Pos` again.
* `UnicodeEscapes` follows from what `to_utf8` computes in each of its ranges, and
  `TrimsBlanks` from where the first and the last byte that is no blank are (`InkAt`), the
  wrap of `npos + 1` being `Wraps`.
* `Pending` for `AmpersandNeverEnds` is what is still to be replaced at each turn of the
  outer loop: a quote's entity brings an ampersand, which turn 2 replaces by another one,
  so that `pair` stays at 2.
* `RestInv` for `EscapesTheRest`: in the turns that end, the string is the input with all
  earlier turns done everywhere and the present one done up to some place
  (`PartlyEscaped`); in the ampersand's it is the quoted text with any number of `amp;`
  behind its first ampersand (`Swollen`), where `find` finds it again.

`PathsProofs` proves of `MkdirAll` for any set of processes, any depth and any set of faults
(`DepthAssumption`, `FaultAssumption`):

| theorem | property |
|---|---|
| `TypeCorrect` | `TypeOK` |
| `TrueMeansDirHolds` | `TrueMeansDir` |
| `FalseJustifiedHolds` | `FalseJustified` |
| `SomeoneSucceedsHolds` | `SomeoneSucceeds` |

Its `IInv` says of each process:

* `Met`: what `mkdir` called `EEXIST` is still there, and at `util.h:54` the parent
  is a directory.  So the second `mkdir` can only fail on a component that exists.
* `Asked`: the process got `ENOENT` for every component it has a call waiting for.
* `Own`: it has not created those itself.
* `Accounted`: a component that was missing once is missing still, or one of the
  processes has created it.  With the two before, the component that makes the
  second `mkdir` fail is a rival's.
* `StartsAtPath`: the outermost call is about the whole path.

A step of one process creates a directory at most, which it records (`Quiet`,
`Grows`), and that keeps all the others know (`OthersKept`).

`SomeoneSucceeds` follows from `Own`: a process that fails for a rival's directory
fails above that rival, since the rival went on below what it made and, having failed
as well, did so further down (`RivalBelow`).  The process that failed deepest would
have failed above another one.

And of `Routes` for any words that are in no pattern and URIs of any length
(`WordAssumption`, `MaxLenAssumption`):

| theorem | property |
|---|---|
| `EndingsHolds` | `Endings` |
| `SubtreesKeptHolds` | `SubtreesKept` |

`RouteInv` says that the patterns before `trying` do not match, so that a page, once
chosen, is `PageOf` the URI, a function that looks at no state; the visitor's page before
is `PageOf` the URI before.  The rest is about `PageOf` of a URI and of a longer one:

* The greedy capture before an optional slash takes everything (`TakesAll`), and a
  text has one end of an AMP page at most (`OneEnd`), so that there is no choice there
  (`AmpCaptures`).  `PagesAre` and `KindsAre` then say which URI has which page.
* What the patterns look at first stays when a URI gets longer (`LongerUri`), and
  `Decode` goes token by token (`DecodeConcat`): `SubtreePages` and `SlashPage` follow,
  the latter since a slash does not move the end of an AMP page (`EndsAtSlash`).
* `AmpPage`: a longer URI is under a word of a pattern that the shorter was not under
  only when that has two tokens (`JustUnder`), hence the two names that `Endings` excepts.

`MarkdownProofs` proves, for tables of any rows and any number of lines (`RowAssumption`):

| theorem | property |
|---|---|
| `RowIndexHolds` | `RowIndex` |
| `BeyondOnlyAfterEmptyHolds` | `BeyondOnlyAfterEmpty` |
| `PrintsTheDocumentHolds` | `PrintsTheDocument` |

The invariant of the first adds `Shape`: there is at most one block more than
separators read; hence a row within bounds always goes to the last block, and
`currentRow` is where it ends.  For the second, `Blocks` says what the last line read
tells of the number of blocks, and that a separator behind nothing or behind another
one leaves the table a block short for good.

`PrintsTheDocument` compares what `parseBlock` prints at the end, block by block, with the
document, line by line.  Between the two is `Written`, the HTML of the lines so far as if
it were printed while they are read: a row opens the element of its block if a separator
or nothing is before it, a separator closes that of a row before it.  Which element it is
cannot be known before the last block is, so `Prints` says for every way `p` of naming the
blocks' elements that what is written is the table so far, with the last block open if the
last line is a row (`WrittenIsTable`); a row is added to that block or opens one, as
`RowGoesLast` shows of `AddLine`.  At the end `p` is the place of each block among all,
which are as many as the table has (`LastBlock`, `CountIsLength`), and `LinesAreWritten`
moves the closing of each block from the separator to the row before it.

And of `MarkdownInline`, for lines of any length over any words (`TextAssumption`,
`LinesAssumption`):

| theorem | property |
|---|---|
| `CodeProtectedHolds` | `CodeProtected` |
| `OrderKeptHolds` | `OrderKept` |
| `TextKeptHolds` | `TextKept` |

The inductive invariant is `InlineInv`: which parsers have run tells what the line is, as
a function of the source (`AfterImages` ... `AfterItalic`).  The rest is about these
functions, each of them a `Replace`, and is proved from the end of the line to its
beginning (`DownInduction`): `Rewriting` says what `Replace` makes of the line from each
position on.

* `Accounted` for `TextKept`: if each match changes how often a token occurs by the
  same, the line changes by a multiple of that (`Matched`); the change of each parser
  (`ImageChange`, `LinkChange`, `SpanChange`) is `Neutral`, which keeps the width, the
  words and the pairs of tags.
* `Addressed` for its addresses: no match begins in an address that is in its tag already
  (`AddressedRewrite`); what is put into a tag stood in the source in parentheses, and for
  a link that is so since `ImageParser`, which runs before, leaves what is behind a `](`
  as it was (`TailsOfImages`, `LinkAddress`).
* `Keeps` and `Split` for `CodeProtected`: a parser with the lookahead has no match up to
  the last token of code (`MarkedKeeps`), and the parser of code changes every two
  backticks and no position (`CodedMakes`), so that the emphases stay behind code
  although two of their parsers run after, or before, it.
* `Apart` for `OrderKept`: an exclamation mark that begins no image has no link behind it
  when `ImageParser` is done (`LoneMarkKept`), and no later parser brings the two
  together (`MarkAndLinkApart`).  For `StrongBeforeEmphasized` a line without code and
  parentheses reaches `StrongParser` as it was, unless the two stars have made it
  strong already (`StrongFirst`).
* `Traced` and `Window` for its empty emphases.  `Traced` follows each token of the
  rewritten line back to the one of the source it was or was made of, in order.  An empty
  emphasis is made of two underscores with nothing between, so that two of them without an
  underscore or an emphasis between are, before `EmphasizedParser`, two pairs of
  underscores with text between: a `Window` that `StrongParser`, which looks for
  the leftmost match, would not have left (`NoEmptyEmphases`); the parsers
  of other marks make no such window (`WindowBefore`).

Induction over data is done without the library's induction theorems, whose parameter
is an operator: a predicate is a set, a parameter a function (`NumberInduction`,
`AppendInduction` in `SequenceLemmas`).

Only model-checked:

* the liveness properties, `RequestEnds` and `CallEnds`, which are beyond this prover.

## 5. What is not modelled, and why

* The rest of SQLite: third-party, and larger by two orders of magnitude than
  what depends on it here.  It is also why the share of the repository's lines
  that these modules stand for is small.
* `entry.h`, `category.h`, `tag.h`: one concatenation each, not compiled.
* The other functions of `html.h` and `http.h`: they print constant text.
* Static files, configuration, the text of the page: no behaviour.
* What a row longer than `cmd[4096]` does in `dump_db`, and an index past the end of
  a table's vectors: undefined behaviour, where the models stop.

## 6. Plan

Done: every component that has behaviour of its own has its module, and every
safety property that a passing run checks is also a theorem, for every value of the
constants.  Left to TLC are the two liveness properties.
