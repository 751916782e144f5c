SPECIFICATION Spec
CONSTANTS
    Batches <- WorkBatches
    ModelSteps = {m1, m2}
    Invocations = {i1, i2}
    LeaseTtl = 1
    LegacyPort = FALSE
    MaxAttempts = 2
    MaxEvents = 3
    MaxTokens = 2
    NoStep = NoStep
INVARIANTS
    HistoryMatchesSteps
    SnapshotIntegrity
    ReceiptsOwnTheirEvents
PROPERTIES
    SupersededWorkIsFrozen
SYMMETRY MCSymmetry
CHECK_DEADLOCK FALSE
