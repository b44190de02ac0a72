CONSTANTS
    i1 = i1
    NoExit = NoExit
    Instances <- MCInstances
    ExitCodes <- MCExitCodes
    StartBurst = 1
    MaxStarts = 2
    ListUnitsCanFail = FALSE
    UnloadInactive = FALSE
SPECIFICATION Spec
INVARIANTS
    CallsOnlyIntoStartedRunner
PROPERTIES
    ShutdownCompletes
