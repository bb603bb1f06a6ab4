SPECIFICATION Spec
CONSTANTS
    TreeStride = 2
    RouteFlag = 8
    HostMask = 3
    NodeIds = {1, 2}
    MaxStarts = 2
    TopologyEdges <- const_TopologyEdges
    SeededRoutes <- const_SeededRoutes
    RouteChoices <- const_RouteChoices
    SeededFlows <- const_SeededFlows
    LaterFlows <- const_LaterFlows
    StoredGroups <- const_StoredGroups
    Requests <- const_Requests
    GroupOwner = 1
    LinkRates <- const_LinkRates
    MaxOps = 2
    EarlyCost = 2
    GroupEvents = {"request", "crash"}
    CanCrash = {2}
INVARIANTS
    WriterIsLive
    EdgesWiredWhenReady
    ReadyUnlessCrashed
    FlowsStart
    RoutesConverge
    GroupRoutesConverge
CHECK_DEADLOCK FALSE
