SPECIFICATION Spec
CONSTANTS
    Nothing = Nothing
    Pages = {p1, p2}
    Edits <- SmallEdits
    MaxSteps = 2
    MaxTouches = 1
    MaxFaults = 1
    MaxReloads = 1
CHECK_DEADLOCK FALSE
INVARIANTS TypeOK OneWidgetPerAdd ReceiptsAreTrue
PROPERTIES PromiseKept KeepsItsWord
