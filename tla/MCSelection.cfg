SPECIFICATION Spec
CONSTANTS
    q1 = q1
    q2 = q2
    u1 = u1
    u2 = u2
    a1 = a1
    a2 = a2
    a3 = a3
    b1 = b1
    b2 = b2
    k1 = k1
    none = none
    Requests <- MCRequests
    Upstreams <- MCUpstreams
    Nodes <- MCNodes
    Keys <- MCKeys
    NoKey = none
    Algorithms = {"round_robin", "weighted_round_robin", "consistent_hash"}
    NodesOf <- MCNodesOf
    Address <- MCAddress
    Weightings <- MCWeightings
    Flaky <- MCFlaky
    VNodes = 2
    Hashes <- MCHashes
    MAX_STATES = 2
    Cycle = 6
    MaxReloads = 1
INVARIANTS
    FairShare
PROPERTIES
    SelectsServingNode
    KeysStay
SYMMETRY RequestSymmetry
