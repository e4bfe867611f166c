SPECIFICATION Spec
CONSTANTS
    c1 = c1
    c2 = c2
    Clients <- MCClients
    Setups <- MCSetups
    Presented <- MCPresented
    RouteNames <- MCRouteNames
    UpstreamNames <- MCUpstreamNames
    NodeLists <- MCNodeLists
    PluginNames <- MCPlugins
    Configs <- MCConfigs
    Batches <- MCBatches
    Gates <- MCGates
    InitialTables <- MCInitialTables
    MaxRequests = 3
    MaxFaults = 1
SYMMETRY ClientSymmetry

    
PROPERTIES
    ChangesAudited
    
