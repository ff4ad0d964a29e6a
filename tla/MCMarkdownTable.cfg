\* Tables of up to seven lines.
\* A finished table is the end, and so is undefined behaviour.
CONSTANTS
    Row <- MCRow
    MaxLines = 7
SPECIFICATION Spec
INVARIANTS RowIndex BeyondOnlyAfterEmpty PrintsTheDocument
CHECK_DEADLOCK FALSE
