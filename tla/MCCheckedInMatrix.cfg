SPECIFICATION Spec
CONSTANTS
    Lengths = {271, 284, 322}
    U8s = {2}
    U16s = {0, 1, 2}
    U32s = {0, 1, 2, 310}
    TwoTo32 = 512
    StringLengths = {1}
CHECK_DEADLOCK FALSE
INVARIANT CheckedInMatrix
