\* Two racing installers and whoever comes after them; processes may be
\* killed, the disk never fails.  A request may spin for ever: the system
\* can really stop.
CONSTANTS
    Worker = {w1, w2}
    Table <- MCTable
    Schema <- MCSchema
    Fault = {"crash"}
SPECIFICATION FairSpec
INVARIANT DirFailureJustified
PROPERTY RequestEnds
CHECK_DEADLOCK FALSE
