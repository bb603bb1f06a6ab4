SPECIFICATION Spec
CONSTANTS
    TreeStride = 2
    RouteFlag = 8
    HostMask = 3
    NodeIds = {1, 2}
    MaxStarts = 2
    TopologyEdges <- const_TopologyEdges
    SeededRoutes <- const_SeededRoutes
    RouteChoices = {}
    SeededFlows = {}
    LaterFlows = {}
    StoredGroups <- NothingStored
    Requests <- GroupOfTwo
    GroupOwner = 1
    LinkRates = {}
    MaxOps = 4
    EarlyCost = 4
    GroupEvents = {"request", "crash"}
    CanCrash = {2}
INVARIANTS
    CatchesUpOnReconnect
CHECK_DEADLOCK FALSE
