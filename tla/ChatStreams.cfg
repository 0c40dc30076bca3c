SPECIFICATION FairSpec
CONSTANTS
    r1 = r1
    r2 = r2
    s1 = s1
    Requests = {r1, r2}
    Streams = {s1}
    Nobody = Nobody
    Promotions = {}
    Operations = {"post", "mcp", "delete"}
    Faults = {"lapse", "crash", "redis", "db", "shutdown"}
    FirstCursors = {0}
    MaxTurns = 1
    MaxPromoting = 0
INVARIANT TypeOK
INVARIANT OverWhenToldSo
PROPERTY EveryStreamEnds
CHECK_DEADLOCK FALSE
