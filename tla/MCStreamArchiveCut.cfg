CONSTANTS
    Key = {"short", "long", "huge"}
    Size <- MCSize
    Misread <- MCMisread
    AsciiSize = 9
    Phantom = "phantom"
    Checksum = TRUE
    MaxCells = 13
    MaxSessions = 5
    MaxFails = 0
SPECIFICATION Spec
INVARIANT WrittenReadable
CHECK_DEADLOCK FALSE
