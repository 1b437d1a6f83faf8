CONSTANTS
    U8 = 256
    U16 = 65536
    TU = 60
    Packages <- MCAllBits
SPECIFICATION OrderedSpec
INVARIANT NeverHangs
