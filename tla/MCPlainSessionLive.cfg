SPECIFICATION LiveSpec
CONSTANTS
    n1 = n1
    Receivers = {n1}
    Peers = {n1}
    TotalBlocks = 2
    MaxRound = 2
    MaxFaults = 2
    SessionManifest = SessionManifest
    NoManifest = NoManifest
PROPERTIES
    EndsWithoutTimeout
    SessionReleased
CHECK_DEADLOCK FALSE
