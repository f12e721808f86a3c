SPECIFICATION MCSpec
CONSTANTS
    Goroutines = {g1, g2, g3}
    Inputs <- MCInputs
    BufSize = 2
    POSLists <- MCPOSLists
    ContextCounts <- MCContextCounts
    RewriteLines = {}
    UnkLines <- MCUnkLines
    MaxLines = 2
    Categories = {"c1", "c2"}
    Bits = 2
    SimpleId = 1
    DefLines <- MCDefLines
    MaxDefinition = 3
    MaxRune = 7
    BmpSize = 4
INVARIANTS
    TypesOK
    ReadsMapped
    ReleasedOnce
    LateAnalyzeRefused
    MadeAsWritten
    TableAsDefined
    InOrder
    OutputAtExit
PROPERTIES
    CloseReleases
    StopsInOrder
CHECK_DEADLOCK FALSE
