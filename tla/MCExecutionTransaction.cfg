SPECIFICATION Spec
CONSTANTS
    Partitions = {1, 2, 3}
    Plans <- MCPlans
    AutoComplete = FALSE
    MaxExecuted = 6
INVARIANTS
    PublicationSafe
    TeardownComplete
    StagingExact
    WorkInsideReservation
PROPERTIES
    ImplementsAtomicPublication
