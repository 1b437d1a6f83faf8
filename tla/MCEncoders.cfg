CONSTANTS
    U8 = 5
    U16 = 24
    TU = 7
    Writers = {w1, w2}
    Sender = 5
    Lengths = {0, 1, 3, 5, 6, 9, 12}
    Buffers = {7}
    Hints = {0, 1}
SPECIFICATION Spec
CHECK_DEADLOCK FALSE
INVARIANTS
    TypeOK
    DistinctIds
    CarriesMessage
    FramesAreSlices
PROPERTY ImplementsSender
