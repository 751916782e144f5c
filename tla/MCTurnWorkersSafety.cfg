SPECIFICATION WorkersSpec
CONSTANTS
    Batches <- NoBatches
    ModelSteps = {m1, m2}
    Invocations = {i1}
    LeaseTtl = 1
    LegacyPort = FALSE
    MaxAttempts = 3
    MaxEvents = 14
    MaxTokens = 3
    NoStep = NoStep
    Posts = {p1, p2}
    Dispatchers = {}
    Coordinators = {c1}
    MaxModelSteps = 2
    StoreFaults = TRUE
INVARIANTS
    ExternalCallsNeverOverlap
    CompletionIsEarned
PROPERTIES
    RecoveryKeepsTheEnd
SYMMETRY MCSymmetry
CHECK_DEADLOCK FALSE
