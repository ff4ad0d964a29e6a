\* Three tables, one of them sqlite_sequence and one with a name to quote, and
\* a view; two commits of others; every fault.
\* The dump is called once, and the others stop committing: the system stops.
CONSTANTS
    Table = {"posts", "order", "sqlite_sequence"}
    View = {"latest"}
    Reserved = {"sqlite_sequence"}
    Keyword = {"order"}
    Row = {"plain", "altered", "long"}
    Fault = {"fopen", "prepare", "step", "column", "fprintf", "fclose"}
    Stored <- MCStored
    MaxRows = 2
    MaxCommits = 2
SPECIFICATION Spec
INVARIANTS TypeOK TablesOfOneVersion RestoresUnless LeftToTheCaller
CHECK_DEADLOCK FALSE
