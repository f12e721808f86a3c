SPECIFICATION MCSpec
CONSTANTS
    Paths <- MCPaths
    Normalize = TRUE
    MaxNodes = 5
    MaxMixed = 3
    Inputs <- MCInputs
    MaxLength = 7
    MaxGrouped = 9
    MaxText = 5
    KTexts <- TextsOfKatakana
    minLength = 2
INVARIANTS
    TypesOK
    NumbersJoined
    NumeralsRead
    KatakanaJoined
PROPERTIES
    JoinsInPlace
    NumeralsTerminate
CHECK_DEADLOCK FALSE
