SPECIFICATION MCSpec
CONSTANTS
    ByteRange = 2
    MemSize = 12
    WordBits = 4
    NumIregs = 3
    LinkReg = 2
    Imm21Range = 8
    Imm26Range = 8
    ResetVector = 0
    DefRegVal = 13
    Images <- MCImages
    BitAnd <- MCAnd
    BitOr <- MCOr
    BitXor <- MCXor
    Decode <- MCDecode
    MaxSteps = 5
PROPERTIES
    LduiKeepsLow
CHECK_DEADLOCK FALSE
