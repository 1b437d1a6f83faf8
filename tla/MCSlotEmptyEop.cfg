CONSTANTS
    U8 = 4
    U16 = 16
    TU = 7
    Senders = {2}
    Shapes <- MCEmptyEop
    MaxJump = 2
    MaxMessages = 5
SPECIFICATION Spec
CHECK_DEADLOCK FALSE
INVARIANT ObservedIntact
