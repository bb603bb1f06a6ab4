SPECIFICATION SessionSpec
CONSTANTS
    n1 = n1
    n2 = n2
    Receivers <- MCReceivers
    Peers <- MCReceivers
    TotalBlocks = 2
    MaxRound = 2
    SessionManifest = SessionManifest
    NoManifest = NoManifest
INVARIANTS
    RetransmitLedger
    BlocksOnlyForReports
    CompletedMeansDelivered
    NoSpuriousProtocolError
    ReportsCoverResidual
PROPERTY TransferSpec
CHECK_DEADLOCK FALSE
SYMMETRY MCSymmetry
