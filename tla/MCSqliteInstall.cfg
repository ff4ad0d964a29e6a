CONSTANTS
    Worker = {w1, w2, w3}
    Table <- MCTable
    Schema <- MCSchema
    Fault = {"crash", "io"}
SPECIFICATION Spec
SYMMETRY WorkerSymmetry
INVARIANTS TypeOK NoDirtyRead WriterAlone TornIsOwnedOrHot
PROPERTY ImplementsBlog
