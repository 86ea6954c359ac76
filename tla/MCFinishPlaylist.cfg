SPECIFICATION Spec
CONSTANTS
    MaxFinish = 2
    MaxSegments = 5
    MaxRequests = 2
    SeqNo = {0, 2}
    MaxJumps = 2
INVARIANTS
    TypeOK
    InOrder
    UndisturbedIsExact
    TagsTellJumps
PROPERTY MediaSequenceGrows
CHECK_DEADLOCK FALSE
