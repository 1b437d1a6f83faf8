CONSTANTS
    U8 = 5
    U16 = 24
    TU = 7
    Lengths = {2, 4}
    MaxWrite = 4
    ReadSizes = {4}
    MaxMessages = 2
SPECIFICATION Spec
CHECK_DEADLOCK FALSE
INVARIANT ResultAsDocumented
