SPECIFICATION ScenarioSpec
CONSTANTS
    t1 = t1 t2 = t2 t3 = t3
    None = None
    Dockerfiles <- McDockerfiles
    MaxStages = 3
    MaxPlatforms = 2
    MaxRetry = 2
    MaxFaults = 4
CHECK_DEADLOCK FALSE
INVARIANTS
    BuildTypeOK
    SuccessRecorded
    FailureHasCause
    SharesAccounted
    WaitersQueued
    OwnersInside
PROPERTIES
    BuildAdvances
    BuildEnds
    CallsReturn
    StoresOpened
