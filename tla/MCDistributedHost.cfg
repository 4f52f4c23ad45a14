SPECIFICATION Spec
CONSTANTS
    ByteMax = 1000000
    Units <- MCUnits
    SmiOrder <- MCSmiOrder
    DefaultBudget = 40000
    NoPartition = NoPartition
    Scale = 10
    SmallCopy = 4
    SmallLatency = 1
    LargeLatency = 2
    T1Rates <- MCRates
    Budget <- MCBudget
    Start <- MCStart
    Spares <- MCSpares
    FailingQueries <- MCFailing
    Requests <- MCRequests
    Ledgers <- MCLedgers
    LogicalPlans <- MCLogicalPlans
    Wires <- MCWires
    BindCounts = {0, 1, 2, 3}
    Copies <- MCCopies
    Samples <- MCSamples
    PeerSamples <- MCPeerSamples
    MaxEpoch = 2
    MaxStaged = 4
    MaxSamples = 2
INVARIANTS
    AdmittedIsInPlace
    PlacementFits
    RankingCanonical
    TransfersExact
CHECK_DEADLOCK FALSE
