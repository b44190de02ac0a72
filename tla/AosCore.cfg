SPECIFICATION Spec
INVARIANTS
    RunningIsPrefix
    StopsOfRunning
