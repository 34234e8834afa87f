SPECIFICATION FairSpec
CONSTANTS
    Key = {a}
    MaxMonInp = 3
    MaxUserInput = 2
    MaxText = 2
    MaxAttempts = 2
    EnvFails = TRUE
    Spurious = TRUE
INVARIANTS
    TypeOK
    LineIsWhole
    LineFitsBuffer
    CleanTearDown
PROPERTIES
    KeepsPromise
    QuitEnds
    TearDownEnds
    ReturnIsHeard
CHECK_DEADLOCK FALSE
