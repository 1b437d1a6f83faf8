CONSTANTS
    U8 = 5
    U16 = 24
    TU = 7
    Writers = {w1}
    Sender = 5
    Lengths = {5}
    Buffers = {7}
    Hints = {0, 2}
SPECIFICATION Spec
CHECK_DEADLOCK FALSE
INVARIANT ShortMeansEnd
