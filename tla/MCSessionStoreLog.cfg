SPECIFICATION Spec
CONSTANTS
    Batches <- LogBatches
    ModelSteps = {m1}
    Invocations = {i1}
    LeaseTtl = 1
    LegacyPort = TRUE
    MaxAttempts = 3
    MaxEvents = 2
    MaxTokens = 3
    NoStep = NoStep
CONSTRAINT ToolWorkAlone
INVARIANTS
    TypeOK
    LeaseFencing
    LogMatchesWatermark
    DispatchBoundary
    NoThirdPreDispatchAttempt
PROPERTIES
    ImplementsFencedLog
    DurableFactsAreFinal
CHECK_DEADLOCK FALSE
