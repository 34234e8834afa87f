SPECIFICATION FairSpec
CONSTANTS
    Addr <- MCAddr
    ResetVector = 0
    Insn <- MCInsn
    Prog <- MCProg
    Outcome <- MCOutcome
    Fails <- MCFails
    EagerUser = FALSE
    Spurious = FALSE
    OutputFails = TRUE
    SpawnFails = FALSE
INVARIANTS
    OneRunner
    BreakPointHolds
    OnlyBreakPointsStop
PROPERTIES
    InOrder
    FreeRunQuits
CHECK_DEADLOCK FALSE
