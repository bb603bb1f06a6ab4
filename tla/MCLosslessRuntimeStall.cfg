SPECIFICATION FairRuntimeSpec
CONSTANTS
    r1 = r1
    r2 = r2
    s1 = s1
    A = A
    B = B
    Tasks = {r1}
    Senders = {}
    Sessions = {A, B}
    SidOf <- TwoSessions
    NoTask = NoTask
    MayAbort = {}
    Rounds = {0}
    InboxCapacity = 1
    MaxDelivers = 3
PROPERTY HandoffCompletes
CHECK_DEADLOCK FALSE
