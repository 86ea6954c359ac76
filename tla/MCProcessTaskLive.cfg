SPECIFICATION FairSpec
CONSTANTS
    MaxFinish = 1
    TsCap = 2
    AccidentCap = 1
    MaxSegments = 2
    MaxBoxes = 2
    MaxToolFails = 1
    MaxRedisFails = 0
    Losable = {}
INVARIANTS
    TypeOK
    AccidentOrder
PROPERTIES
    Processed
    Persisted
CHECK_DEADLOCK FALSE
