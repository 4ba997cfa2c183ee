SPECIFICATION Spec
CONSTANTS
    Thread = {t1, t2}
    Handle = {h1}
    Content = {x, y}
    MaxRecords = 4
    MaxSessions = 1
INVARIANTS TypeOK DepsFirst ResolvedRight ItemAlive TornDownAll
PROPERTY FlushedEventually
CHECK_DEADLOCK FALSE
