SPECIFICATION Spec
CONSTANTS
    Paths <- MCPaths
    Normalize = TRUE
    MaxNodes = 1
    MaxMixed = 2
PROPERTY Terminates
CHECK_DEADLOCK FALSE
