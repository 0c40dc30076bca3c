SPECIFICATION Spec
CONSTANTS
    Nothing = Nothing
    MaxTurns = 2
    MaxFrames = 2
    MaxRequests = 2
    MaxReads = 1
    Events = {"retry", "reopen", "refused", "broken", "invalid", "read", "post"}
CHECK_DEADLOCK FALSE
INVARIANTS TypeOK NothingTwice NothingMissing SomeoneFollows
PROPERTIES LifeKept BusyEnds
