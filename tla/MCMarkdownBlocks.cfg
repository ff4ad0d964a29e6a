\* Documents of up to four lines of every shape, and outlines of up to six.
\* A document that is parsed is the end.
CONSTANTS
    Shape <- MCShape
    Word <- MCWord
    MaxLines = 6
SPECIFICATION Spec
INVARIANTS TypeOK NothingLost WellNested EofClosesLists NestsAsIndented
CHECK_DEADLOCK FALSE
