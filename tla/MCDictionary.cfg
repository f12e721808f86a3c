SPECIFICATION MCSpec
CONSTANTS
    Lengths = {0, 271, 284, 322}
    U8s = {2}
    U16s = {0, 1, 2}
    U32s = {0, 1, 2, 310}
    TwoTo32 = 512
    StringLengths = {1}
    Lexicons <- MCLexicons
    Units = 10
    Bytes <- MCBytes
    MaxRead = 4
    MaxUint32 = 15
    BitXor <- MCBitXor
INVARIANTS
    TypesOK
    LaidOut
    AccessInside
    FoundInOrder
CHECK_DEADLOCK FALSE
