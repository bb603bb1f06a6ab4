SPECIFICATION FecSessionSpec
CONSTANTS
    n1 = n1
    n2 = n2
    Receivers <- MCReceivers
    Peers <- MCReceivers
    TotalBlocks = 1
    MaxRound = 1
    SymbolsPerBlock = 2
    MaxDeficit = 2
    MaxSymbol = 4
    U32Max = 4
SYMMETRY MCSymmetry
INVARIANTS
    FecRoundsSound
    FecLedger
    RepairWindowSound
PROPERTY FecTransferSteps
CHECK_DEADLOCK FALSE
