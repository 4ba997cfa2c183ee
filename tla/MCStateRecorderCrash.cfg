SPECIFICATION Spec
CONSTANTS
    Thread = {t1}
    Handle = {h1}
    Content = {x}
    MaxRecords = 2
    MaxSessions = 1
PROPERTY EmergencyDurable
CHECK_DEADLOCK FALSE
