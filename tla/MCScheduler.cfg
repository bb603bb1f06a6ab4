SPECIFICATION SchedSpec
CONSTANTS
    f1 = f1
    f2 = f2
    Flows = {f1, f2}
    Capacity = 2
    ChannelCapacity = 1
    Kinds <- MCKinds
    BucketSizes = {2}
    Weights = {2}
    MaxPackets = 3
    MaxControls = 1
    MaxRetries = 2
INVARIANTS
    SlotLedger
    FlowOrder
PROPERTY PacketsServed
CHECK_DEADLOCK FALSE
