SPECIFICATION ClusterFairSpec
CONSTANTS
    r1 = r1
    r2 = r2
    r3 = r3
    Requests <- MCRequests
    Window = 2
    Wait = 2
    MinRequests = 2
    HalfOpenMax = 2
    ThresholdNum = 1
    ThresholdDen = 2
    MaxCount = 3
    RefreshInterval = 1

    
PROPERTIES
    ClosesOnlyAfterQuota
    OpenIsProbedAgain
