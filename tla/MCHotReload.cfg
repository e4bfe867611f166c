SPECIFICATION FairSpec
CONSTANTS
    Routes <- MCRoutes
    Upstreams <- MCUpstreams
    NoRoute = NoRoute
    InitialRoutes <- MCInitialRoutes
    PageSize = 1
    MaxEdits = 2
    MaxFaults = 1
INVARIANTS
    UsedUpstreamsKept
    UneditedRouteServed
    

    
