SPECIFICATION FairSpec
CONSTANTS
    Stream = {a, b}
    Cap = 2
    WorkerCap = 1
    MaxTs = 2
    Unstartable = {}
    MayCancel = TRUE
INVARIANTS
    Conserved
    OnlyWaitingIsOvertaken
PROPERTIES
    Delivered
    CloseReturns
CHECK_DEADLOCK FALSE
