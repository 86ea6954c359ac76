SPECIFICATION FairSpec
CONSTANTS
    Stream = {a, b}
    Cap = 1
    WorkerCap = 1
    MaxTs = 2
    Unstartable = {a}
    MayCancel = FALSE
PROPERTY AllProcessed
CHECK_DEADLOCK FALSE
