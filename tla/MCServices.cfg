SPECIFICATION MCSpec
CONSTANTS
    TotalBlocks = 7
    MaxNeedRanges = 3
    U32Max = 3
    MaxTreeIds = 2
    RouteIds = {1, 2}
    Clients = {"a", "b"}
    TTL = 1
    MaxTime = 2
    MaxReports = 3
    Path <- const_Path
    MaxPackets = 2
    Capacity = 1
    Sender = "a"
    MaxRetry = 2
    MaxDials = 3
    MinSize = 1
    MaxSize = 3
    Traffic <- const_Traffic
    Workers = {"w1", "w2"}
    MaxCopies = 2
    Space = 16
    Start = 13
    Sizes <- const_Sizes
    Settings <- const_Settings
    Copies <- const_Copies
    BatchSize = 2
    TcpFlows = {1, 2}
    LosslessFlows = {3, 4}
    Bytes <- const_Bytes
    Rated = {}
    BasePort = 10
    BufferSize = 1
    MaxRuns = 2
    MaxTotal = 1
INVARIANTS
    RoundTrip
    NoOrphanReports
    UserFlowSettles
    DeliveredAsSent
    OneConnectionPerHop
    ReaderSeesWhatWasSent
    KnownPeerLosesNothing
    NothingDropped
    InOrderUnlessForced
    HeldOnlyForGaps
    FinishReleasesRun
CHECK_DEADLOCK FALSE
