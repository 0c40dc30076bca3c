SPECIFICATION Spec
CONSTANTS
    Nothing = Nothing
    MaxTurns = 1
    MaxFrames = 2
    MaxRequests = 2
    MaxReads = 1
    Events = {"refused"}
CHECK_DEADLOCK FALSE
INVARIANT NothingSkipped
