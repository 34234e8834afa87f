SPECIFICATION FairSpec
CONSTANTS
    Addr <- MCAddr
    ResetVector = 0
    Insn <- MCInsn
    Prog <- MCProg
    Outcome <- MCOutcome
    Fails <- MCFails
    EagerUser = TRUE
    Spurious = TRUE
    OutputFails = TRUE
    SpawnFails = TRUE
INVARIANTS
    TypeOK
    QuitIsRequested
PROPERTIES
    KeepsPromise
    FailureIsReported
    HeardQuit
CHECK_DEADLOCK FALSE
