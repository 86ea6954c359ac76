SPECIFICATION Spec
CONSTANTS
    MsgCap = 1
    MaxMessages = 3
    Faults = {}
    MaxFaults = 0
    MaxCrashes = 0
INVARIANT CleanedUp
CHECK_DEADLOCK FALSE
