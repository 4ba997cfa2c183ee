CONSTANTS
    Hash <- MCHash
    Module <- MCModule
    List <- MCList
    Base <- MCBase
    Parent <- MCParent
    Stages <- MCStages
    Unreadable = {7}
    Malformed = {13}
    Failing = {9}
    Lost = {"lost"}
    Rejected = {"bad"}
    PerContext = 2
    CacheSize = 2
    Threads = 2
    Robust = TRUE
    MaxCrashes = 2
    Graphics = 10
    Compute = 4
SPECIFICATION Spec
INVARIANTS TypeOK InfoAlive BaseReady ModulesFound AllReplayed
PROPERTY Terminates
CHECK_DEADLOCK FALSE
