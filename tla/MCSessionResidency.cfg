SPECIFICATION MCSpec
CONSTANTS
    t1 = t1  t2 = t2
    Txns <- MCTxns
    Capacity = 4
    MaxEpoch = 3
    Weights = 2
    BareEpochs = 2
SYMMETRY MCSymmetry
INVARIANTS
    CommitsTile
    CursorIsLastCommit
    SessionSound
PROPERTIES
    PoisonIsFinal
    CursorMonotone
CHECK_DEADLOCK FALSE
