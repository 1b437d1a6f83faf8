CONSTANTS
    U8 = 7
    U16 = 24
    TU = 7
    Packages <- MCPackages
SPECIFICATION FairSpec
INVARIANTS
    TypeOK
    NeverHangs
    CompleteIffAllArrived
    StateIsArrivals
    EventMatchesWatermark
    WatermarkFormIsLoop
    FlushFormIsLoop
PROPERTIES
    ImplementsReassembly
    EveryPackageCompletes
