SPECIFICATION Spec
CONSTANTS
    Nothing = Nothing
    Pages = {p1}
    Edits <- RemovalLast
    MaxSteps = 2
    MaxTouches = 0
    MaxFaults = 1
    MaxReloads = 0
CHECK_DEADLOCK FALSE
PROPERTY ApplyAgainFinishes
