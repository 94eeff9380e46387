SPECIFICATION Spec
CONSTANTS
    Dockerfiles <- McDockerfiles
    MaxStages = 2
    MaxPlatforms = 1
    MaxRetry = 2
    MaxFaults = 1
CHECK_DEADLOCK FALSE
INVARIANTS
    AllStagesBuilt
