\* The longest URI is the end of the visit.
CONSTANTS
    Word <- MCWord
    MaxLen = 6
SPECIFICATION RouteSpec
INVARIANTS Endings SubtreesKept
CHECK_DEADLOCK FALSE
