SPECIFICATION Spec
CONSTANTS
    Batches <- MCBatches
    ModelSteps = {m1}
    SnapshotIds = {s1}
    Invocations = {i1}
    ReceiptIds = {r1}
    TerminalStatuses = {"completed"}
    ReceiptStatuses = {"succeeded"}
    LeaseTtl = 1
    MaxAttempts = 3
    MaxEvents = 2
    MaxTokens = 3
    NoStep = NoStep
    NoReceipt = NoReceipt
CONSTRAINT OneKindOfWork
INVARIANTS
    MapsAgree
PROPERTIES
    ImplementsSessionStore
CHECK_DEADLOCK FALSE
