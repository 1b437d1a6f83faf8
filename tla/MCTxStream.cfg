CONSTANTS
    U8 = 7
    U16 = 24
    TU = 7
    MaxChunk = 8
    MaxBytes = 30
SPECIFICATION Spec
INVARIANTS
    TypeOK
    NothingLost
    FramesAreSlices
    NoEarlyEnd
    FeedFormIsLoop
