SPECIFICATION TextSpec
CONSTANTS
    Texts <- MCTexts
    MaxChars = 3
INVARIANTS
    CatRunAsDocumented
CHECK_DEADLOCK FALSE
