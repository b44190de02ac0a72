CONSTANTS
    i1 = i1
    i2 = i2
    NoExit = NoExit
    Instances <- MCInstances
    ExitCodes <- MCExitCodes
    StartBurst = 1
    MaxStarts = 1
    ListUnitsCanFail = FALSE
    UnloadInactive = FALSE
SPECIFICATION Spec
PROPERTIES
    ReportEventuallyConsistent
