SPECIFICATION NodeSpec
CONSTANTS
    here = here
    peer = peer
    group = group
    l1 = l1
    l2 = l2
    Nodes = {here, peer}
    Local = here
    Invalid = Invalid
    Stride = 2
    Flag = 100
    Lanes = {l1, l2}
    ChannelCapacity = 2
    Flows <- MCFlows
    Packets <- MCPackets
    Slot <- MCSlot
    StartTable <- MCStartTable
    GroupSource <- MCGroupSource
    Updates <- MCUpdates
    MaxUpdates = 2
    MaxPackets = 2
    r1 = r1
    r2 = r2
    s1 = s1
    A = A
    B = B
    Tasks = {r1, r2, s1}
    Senders = {s1}
    Sessions = {A, B}
    SidOf <- TwoSessions
    NoTask = NoTask
    MayAbort = {s1}
    Rounds = {0, 1}
    InboxCapacity = 1
    MaxDelivers = 2
INVARIANTS
    EntriesOwned
    ReplaysSound
    SettledWhenIdle
    LookupsFollowTable
    LanesAgree
    LaneOrder
CHECK_DEADLOCK FALSE
SYMMETRY MCReceiverSymmetry
