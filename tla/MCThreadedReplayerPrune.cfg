CONSTANTS
    Hash <- MCHash
    Module <- MCModule
    List <- MCList
    Base <- MCBase
    Parent <- MCParent
    Stages <- MCStages
    Unreadable = {}
    Malformed = {}
    Failing = {}
    Lost = {}
    Rejected = {}
    PerContext = 2
    CacheSize = 2
    Threads = 2
    Robust = FALSE
    MaxCrashes = 0
    Graphics = 10
    Compute = 0
SPECIFICATION Spec
INVARIANT ModulesAlive
CHECK_DEADLOCK FALSE
