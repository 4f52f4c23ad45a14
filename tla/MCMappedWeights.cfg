SPECIFICATION Spec
CONSTANTS
    Entries <- MCEntries
    WordCount = 2
    Faults = {}
    Page = 2
    FileWords <- MCFileWords
    MaxHandles = 4
    MaxClient = 3
    MaxTokens = 0
    MaxPending = 1
    Junk = {0}
    BufferLens = {2}
    Payloads <- MCAligned
    Documents <- MCDocuments
    Given <- MCGiven
    KvCatalog <- MCKvCatalog
    Weights <- MCWeights
    WeightsFail = FALSE
    RecopyWeights = TRUE
INVARIANTS
    MappedWeightsIntact
CHECK_DEADLOCK FALSE
