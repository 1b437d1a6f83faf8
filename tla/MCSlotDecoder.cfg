CONSTANTS
    U8 = 4
    U16 = 16
    TU = 7
    Senders = {2}
    Shapes <- MCFullEop
    MaxJump = 2
    MaxMessages = 4
SPECIFICATION Spec
CHECK_DEADLOCK FALSE
INVARIANTS
    TypeOK
    ObservedIntact
    ObservedWhenArrived
