SPECIFICATION Spec
CONSTANTS
    r1 = r1
    r2 = r2
    Requests = {r1, r2}
    Streams = {}
    Nobody = Nobody
    Promotions = {}
    Operations = {"post", "get"}
    Faults = {}
    FirstCursors = {1}
    MaxTurns = 2
    MaxPromoting = 0
SYMMETRY Symmetric
INVARIANT OneRunnerAtATime
