SPECIFICATION FairSpec
CONSTANTS
    t1 = t1
    t2 = t2
    t3 = t3
    Tasks <- MCTasks
    InitialLimit = 2
    MinLimit = 1
    MaxLimit = 2
    IncreaseStep = 1
    Shrink <- Halve
    Window = 1
    MaxSamples = 1
INVARIANTS
    InflightIsPermits
PROPERTIES
    ExcessDrains
