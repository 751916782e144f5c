SPECIFICATION FairSpec
CONSTANTS
    MaxLog = 6
    PageSize = 2
    StreamPage = 2
    MaxSource = 5
    MaxResponse = 3
    AutoReconnects = 2
    Tails = TRUE
    Faults <- NoRejections
    MaxFaults = 2
INVARIANTS
    ViewIsAPrefix
    PageAndServerAgree
    ViewIsSound
    EndIsExact
PROPERTIES
    EndReachesThePage
CHECK_DEADLOCK FALSE
