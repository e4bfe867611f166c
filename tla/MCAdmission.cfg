SPECIFICATION Spec
CONSTANTS
    r1 = r1
    r2 = r2
    Requests <- MCRequests
    Addresses <- MCAddresses
    Kinds <- MCKinds
    Configs <- MCConfigs
    Blacklists <- MCBlacklists
    Trusted <- MCTrusted
    Keysets <- MCKeysets
    Tokens <- MCTokens
    Ttl = 1
    BodyRequired = {}
    MaxEvents = 2
SYMMETRY RequestSymmetry
INVARIANTS
    GuardedByChain
    RetiredKeyForgotten
PROPERTIES
    
    BlacklistHolds
    OwnHeadersWin
    RefusedOnFreshKeys
