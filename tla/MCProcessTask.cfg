SPECIFICATION Spec
CONSTANTS
    MaxFinish = 1
    TsCap = 2
    AccidentCap = 1
    MaxSegments = 3
    MaxBoxes = 0
    MaxToolFails = 1
    MaxRedisFails = 1
    Losable = {2}
INVARIANTS
    FifoOrder
    NoSegmentLost
    DetectBound
    FilesPresent
    NoFileLeak
    NoLostWakeup
    SnapshotOrdered
PROPERTY
    ImplementsFifo
CHECK_DEADLOCK FALSE
