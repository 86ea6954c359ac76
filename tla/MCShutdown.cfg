SPECIFICATION FairSpec
CONSTANTS
    NumServers = 2
    Recording = {r1, r2}
    Stream = {w1}
INVARIANTS
    TypeOK
    FailureReported
    WorkersClosed
PROPERTIES
    ProgramEnds
CHECK_DEADLOCK FALSE
