SPECIFICATION Spec
CONSTANTS
    ByteRange = 2
    MemSize = 8
    Images <- MCImages
    ReadFails = TRUE
INVARIANTS
    TypeOK
    ImageIsLoaded
    StaysInRam
    AccessIsInRam
    StoreIsReadBack
CHECK_DEADLOCK FALSE
