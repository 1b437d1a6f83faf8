CONSTANTS
    U8 = 7
    U16 = 24
    TU = 7
    Lengths = {0, 1, 3, 5, 6, 7, 8}
    FaultLengths = {1, 8}
    Senders = {3}
    StdinBuf = 4
    StdoutBlock = 8
    MaxMessages = 3
    MaxFaulty = 2
SPECIFICATION FairSpec
INVARIANTS
    TypeOK
    OutputIsMessages
    NothingMissing
    PutsInBounds
    AtMostOnce
PROPERTY AllDelivered
CHECK_DEADLOCK FALSE
