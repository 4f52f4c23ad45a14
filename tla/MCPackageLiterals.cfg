SPECIFICATION Spec
CONSTANTS
    Texts <- MCTexts
    MaxStdoutBytes = 5
    Packages <- MCTwoTables
    MaxHandles = 9
    MaxDepth = 3
INVARIANTS
    LiteralsOwn
CHECK_DEADLOCK FALSE
