CONSTANTS
    i1 = i1
    i2 = i2
    NoExit = NoExit
    Instances <- MCInstances
    ExitCodes <- MCExitCodes
    StartBurst = 1
    MaxStarts = 2
    ListUnitsCanFail = TRUE
    UnloadInactive = FALSE
SPECIFICATION Spec
INVARIANTS
    TypeOK
    ActiveOnlyIfObserved
