SPECIFICATION FairSpec
CONSTANTS
    ChoiceIndices = {0, 1}
    CallIndices = {1, 2}
    Reasons = {"stop", "length"}
    Frames <- MCFrames
    MaxSegment = 2
    MaxStream = 5
INVARIANTS
    TypeOK
    AnswerMatchesStream
    CallsAreWhole
    NothingTakenHasTheCredential
    StepFailsOnlyIfRefused
    NoAnswerAfterAbort
PROPERTIES
    NextSettles
CHECK_DEADLOCK FALSE
