SPECIFICATION MCSpec
CONSTANTS
    t1 = t1  t2 = t2
    Txns <- MCTxns
    Capacity = 3
    MaxEpoch = 2
    Weights = 2
    BareEpochs = 2
INVARIANTS
    ReportedWritePoisons
CHECK_DEADLOCK FALSE
