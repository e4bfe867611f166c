SPECIFICATION Spec
CONSTANTS
    r1 = r1
    r2 = r2
    n1 = n1
    n2 = n2
    Requests <- TwoRequests
    Nodes <- MCNodes
    Kinds <- EveryKind
    Upstreams <- ReloadedUpstreams
    MaxRetries = 2
    NoNode = NoNode
SYMMETRY TwoSymmetry
INVARIANTS
    
    AttemptsJustified
    ObservedOnce
