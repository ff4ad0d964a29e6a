\* A string that is decoded or escaped is the end; one whose escape grows for
\* ever stops at MaxLength.
CONSTANTS
    Text <- MCText
    npos = 65535
    Char = {"quote", "apostrophe", "&", "<", ">", "a", "amp;"}
    MaxInput = 4
    MaxLength = 12
SPECIFICATION MCSpec
INVARIANTS TypeOK RoundTrip UnicodeEscapes TrimsBlanks AmpersandNeverEnds EscapesTheRest
CHECK_DEADLOCK FALSE
