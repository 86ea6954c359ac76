SPECIFICATION FairSpec
CONSTANTS
    MsgCap = 1
    MaxMessages = 3
    Faults = {"rename", "ffmpeg"}
    MaxFaults = 1
    MaxCrashes = 0
PROPERTIES
    RecordingEnds
    RecordedInTime
CHECK_DEADLOCK FALSE
