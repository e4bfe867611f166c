SPECIFICATION FairSpec
CONSTANTS
    c1 = c1
    c2 = c2
    c3 = c3
    Conns <- MCConns
    MaxConnections = 1
    AdaptiveLimit = 2
INVARIANTS
    PermitsConserved
PROPERTIES
    ShutdownCompletes
    WaiterServed
CHECK_DEADLOCK FALSE
