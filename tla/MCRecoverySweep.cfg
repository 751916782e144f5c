SPECIFICATION FairSpec
CONSTANTS
    Runs <- MCRuns
    Times <- MCTimes
    ScanLimit = 1
    MaxPages = 2
    MaxFaults = 1
INVARIANTS
    TypeOK
PROPERTIES
    SweepMissesNobody
    NobodyStarves
CHECK_DEADLOCK FALSE
