SPECIFICATION FairSpec
CONSTANTS
    r1 = r1
    none = none
    t1 = t1
    Routes <- MCRoutes
    NoRoute = none
    Latencies = {1, 5}
    BIN_COUNT = 3
    Traces <- MCTraces
    NoTrace = none
    Capacity = 2
    BatchSize = 2
    RingSize = 1
    MaxAttempts = 2
    MaxTime = 1
    MaxReports = 3
    MaxRestarts = 1
INVARIANTS
    FlushedRowsExact
    NeverOverReported
PROPERTIES
    ReportsReachStorage
