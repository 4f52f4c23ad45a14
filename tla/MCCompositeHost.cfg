SPECIFICATION Spec
CONSTANTS
    t1 = t1
    Txns <- MCTxns
    MaxBytes = 8
    Catalog <- MCCatalog
    OneShots <- MCOneShots
    Pairs <- MCPairs
    Faults = {"load", "alloc", "copy", "launch", "sync", "readback", "release"}
    PromptRows = 2
    DecodeRows = 2
    MaxEpoch = 2
    MaxSessions = 2
    MaxSteps = 4
INVARIANTS
    HandlesOwned
    ValuesCurrent
    FailurePoisonsAndReleasesPair
    ExecutedIsCommitted
PROPERTIES
    ResetLikePrepare
CHECK_DEADLOCK FALSE
