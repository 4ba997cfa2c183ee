CONSTANTS
    Key = {"short", "long", "huge"}
    Size <- MCSize
    Misread <- MCMisread
    AsciiSize = 9
    Phantom = "phantom"
    Checksum = TRUE
    MaxCells = 13
    MaxSessions = 5
    MaxFails = 1
SPECIFICATION Spec
INVARIANTS TypeOK ScanReachesCommitted AlignedReadable ReadFaithful
PROPERTY CommittedStable
CHECK_DEADLOCK FALSE
