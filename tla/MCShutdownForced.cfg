SPECIFICATION PatientSpec
CONSTANTS
    NumServers = 2
    Recording = {r1}
    Stream = {w1}
PROPERTY MainExits
CHECK_DEADLOCK FALSE
