SPECIFICATION Spec
CONSTANTS
    r1 = r1
    r2 = r2
    p1 = p1
    Requests = {r1, r2}
    Streams = {}
    Nobody = Nobody
    Promotions = {p1}
    Operations = {"post", "promote"}
    Faults = {"lapse"}
    FirstCursors = {1}
    MaxTurns = 2
    MaxPromoting = 4
SYMMETRY Symmetric
INVARIANTS OneRunningRow PromotionsAreTold
PROPERTY LifeKept
