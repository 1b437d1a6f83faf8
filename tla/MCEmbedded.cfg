CONSTANTS
    U8 = 5
    U16 = 24
    TU = 7
    Lengths = {0, 2, 3, 7}
    MaxWrite = 4
    ReadSizes = {2, 5}
    MaxMessages = 3
SPECIFICATION FairSpec
CHECK_DEADLOCK FALSE
INVARIANTS
    TypeOK
    DecodedAreMessages
    QuietIsClean
PROPERTY AllDecoded
