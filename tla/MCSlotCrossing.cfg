CONSTANTS
    U8 = 4
    U16 = 16
    TU = 7
    Senders = {2}
    Shapes <- MCFullEop
    MaxJump = 1
    MaxMessages = 5
SPECIFICATION CrossSpec
CHECK_DEADLOCK FALSE
INVARIANT ObservedWhenArrived
