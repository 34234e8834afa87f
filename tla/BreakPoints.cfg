SPECIFICATION Spec
CONSTANTS
    Word <- MCWord
    Addr <- MCAddr
    InvalidBreakPoint <- MCInvalid
    MaxBreakPoints = 4
INVARIANTS
    TypeOK
    SearchIsExact
PROPERTIES
    KeepsList
