CONSTANTS
    U8 = 8
    U16 = 24
    TU = 7
    Lengths = {9}
    FaultLengths = {}
    Senders = {3}
    StdinBuf = 4
    StdoutBlock = 8
    MaxMessages = 1
    MaxFaulty = 0
SPECIFICATION Spec
INVARIANT EverySliceStored
CHECK_DEADLOCK FALSE
