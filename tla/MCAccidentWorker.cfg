SPECIFICATION Spec
CONSTANTS
    MsgCap = 1
    MaxMessages = 3
    Faults = {"redis", "rename", "ffmpeg"}
    MaxFaults = 1
    MaxCrashes = 1
INVARIANTS
    Accounted
    VideosInOrder
    FinishedArtifactComplete
    OneRecorder
    RegisteredIsServed
    SavedUnlessOvertaken
CHECK_DEADLOCK FALSE
