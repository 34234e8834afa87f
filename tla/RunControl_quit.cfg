SPECIFICATION FairSpec
CONSTANTS
    Addr <- MCAddr
    ResetVector = 0
    Insn <- MCInsn
    Prog <- MCProg
    Outcome <- MCOutcome
    Fails <- MCFails
    EagerUser = FALSE
    Spurious = FALSE
    OutputFails = FALSE
    SpawnFails = FALSE
PROPERTIES
    QuitExits
CHECK_DEADLOCK FALSE
