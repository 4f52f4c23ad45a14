SPECIFICATION Spec
CONSTANTS
    Texts <- MCTexts
    MaxStdoutBytes = 5
    Packages <- MCPackages
    MaxHandles = 9
    MaxDepth = 3
INVARIANTS
    HandlesKeepMeaning
    YieldsBelongToGenerator
    AggregatesExact
    LinkFailureIsOrder
CHECK_DEADLOCK FALSE
