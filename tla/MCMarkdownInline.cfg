\* A line that all parsers have rewritten is the end.
CONSTANTS
    Text <- MCText
    Lines <- MCLines
SPECIFICATION InlineSpec
INVARIANTS TextKept CodeProtected OrderKept
CHECK_DEADLOCK FALSE
