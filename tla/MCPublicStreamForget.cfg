SPECIFICATION Spec
CONSTANTS
    MaxLog = 2
    PageSize = 2
    StreamPage = 2
    MaxSource = 2
    MaxResponse = 2
    AutoReconnects = 1
    Tails = FALSE
    Faults = {}
    MaxFaults = 0
PROPERTIES
    OnlyConflictsResume
CHECK_DEADLOCK FALSE
