\* No fault at all: the race alone leaves the schema unfinished.
CONSTANTS
    Worker = {w1, w2}
    Table <- MCTable
    Schema <- MCSchema
    Fault = {}
SPECIFICATION Spec
INVARIANT SettledComplete
CHECK_DEADLOCK FALSE
