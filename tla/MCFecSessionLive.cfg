SPECIFICATION FecLiveSpec
CONSTANTS
    n1 = n1
    n2 = n2
    Receivers = {n1, n2}
    Peers = {n1, n2}
    TotalBlocks = 1
    MaxRound = 2
    SymbolsPerBlock = 2
    MaxDeficit = 2
    MaxSymbol = 9
    U32Max = 8
    MaxFaults = 2
INVARIANT RoundsCostFaults
PROPERTIES
    FecSessionEnds
CHECK_DEADLOCK FALSE
