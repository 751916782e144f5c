SPECIFICATION FairSpec
CONSTANTS
    Batches <- NoBatches
    ModelSteps = {m1, m2}
    Invocations = {i1}
    LeaseTtl = 1
    LegacyPort = FALSE
    MaxAttempts = 3
    MaxEvents = 14
    MaxTokens = 3
    NoStep = NoStep
    Posts = {p1}
    Dispatchers = {d1}
    Coordinators = {c1}
    MaxModelSteps = 2
    StoreFaults = FALSE
PROPERTY EveryCommandSettles
CHECK_DEADLOCK FALSE
