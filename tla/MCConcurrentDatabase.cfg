SPECIFICATION Spec
SYMMETRY Symmetry
CONSTANTS
    Proc = {p1, p2}
    Key = {k1, k2}
    LastIndex = 2
    Extra = {1}
    MaxSessions = 2
    MaxMishaps = 2
    MaxMerges = 2
CHECK_DEADLOCK FALSE
INVARIANTS
    TypeOK
    OwnFile
    ListedOnce
    GivesUpWhenFull
    MergeComplete
PROPERTY
    ImplementsStore
