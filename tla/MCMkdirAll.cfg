\* Three processes, a path of three components, every fault.
\* Each process calls mkdirAll once: the system can really stop.
CONSTANTS
    Worker = {w1, w2, w3}
    Depth = 3
    Fault = {"mkdir", "crash"}
SPECIFICATION FairSpec
INVARIANTS TypeOK TrueMeansDir SomeoneSucceeds FalseJustified
PROPERTY CallEnds
CHECK_DEADLOCK FALSE
