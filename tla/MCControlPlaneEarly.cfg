SPECIFICATION Spec
CONSTANTS
    TreeStride = 2
    RouteFlag = 8
    HostMask = 3
    NodeIds = {1, 2}
    MaxStarts = 1
    TopologyEdges <- const_TopologyEdges
    SeededRoutes <- const_SeededRoutes
    RouteChoices <- const_RouteChoices
    SeededFlows = {}
    LaterFlows = {}
    StoredGroups <- NothingStored
    Requests <- CreateOnly
    GroupOwner = 1
    LinkRates = {}
    MaxOps = 2
    EarlyCost = 1
    GroupEvents = {"request", "crash"}
    CanCrash = {}
INVARIANTS
    WiredWhenAnnounced
CHECK_DEADLOCK FALSE
