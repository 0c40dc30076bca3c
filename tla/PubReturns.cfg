CONSTANTS
  Publishers = {p1, p2}
  Admins = {a1}
  Nobody = Nobody
  Operations = {"edit", "delete"}
  Declarations = {d2}
  Undeclared = Undeclared
  Retiring = {d2}
  MaxVersion = 2
  MaxRevision = 2
  MaxAttempts = 2
SPECIFICATION FairSpec
PROPERTY EveryAttemptReturns
