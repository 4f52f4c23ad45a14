SPECIFICATION Spec
CONSTANTS
    Entries <- MCEntries
    WordCount = 2
    Faults = {"alloc", "sync"}
    Page = 2
    FileWords <- MCFileWords
    MaxHandles = 4
    MaxClient = 3
    MaxTokens = 4
    MaxPending = 2
    Junk = {0}
    BufferLens = {2}
    Payloads <- MCPayloads
    Documents <- MCDocuments
    Given <- MCGiven
    KvCatalog <- MCKvCatalog
    Weights <- MCNoWeights
    WeightsFail = FALSE
    RecopyWeights = FALSE
INVARIANTS
    DeviceAccountedFor
    DeferredAsImmediate
    KvRowsExact
    LaunchesCoverOutput
CHECK_DEADLOCK FALSE
