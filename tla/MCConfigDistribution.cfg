SPECIFICATION FairSpec
CONSTANTS
    p1 = p1
    p2 = p2
    g1 = g1
    a = a
    b = b
    Publishers <- TwoPublishers
    Gates <- MCGates
    Contents <- MCContents
    Faults <- EveryFault
    RetryMax = 2
    MaxVersions = 2
    MaxEdits = 1
    MaxFaults = 3
    NoContent = NoContent
INVARIANTS
    VersionsChain
    CacheMatchesVersions
    CacheNotStale
PROPERTIES
    ImplementsPromise
    GatesConverge
