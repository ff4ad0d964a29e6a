\* Three concurrent requests, every fault.
CONSTANTS
    Worker = {w1, w2, w3}
    Table <- MCTable
    Schema <- MCSchema
    Fault = {"crash", "mkdir", "open", "io"}
SPECIFICATION Spec
SYMMETRY WorkerSymmetry
INVARIANTS TypeOK SchemaPrefix InstallerServes StoreLayout
PROPERTY InstallFinal
