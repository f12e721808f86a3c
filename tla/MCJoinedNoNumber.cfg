SPECIFICATION Spec
CONSTANTS
    Paths <- MCPaths
    Normalize = TRUE
    MaxNodes = 4
    MaxMixed = 0
INVARIANT JoinedAreNumbers
CHECK_DEADLOCK FALSE
