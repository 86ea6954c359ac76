SPECIFICATION FairSpec
CONSTANTS
    App = {a, b}
    Stream = {s}
    Conn = {c1, c2, c3}
    NoConn = NoConn
    MaxFaults = 3
INVARIANTS
    TypeOK
    ActiveIsLive
    PublishedIsActive
PROPERTY EndsIdle
CHECK_DEADLOCK FALSE
