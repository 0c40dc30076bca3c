SPECIFICATION Spec
CONSTANTS
  p1 = p1
  p2 = p2
  Pages = {p1, p2}
  MaxTries = 3
  MaxJobs = 3
  MaxMishaps = 1
INVARIANTS TypeOK SharesUnlessContended
PROPERTIES RefreshIsFresh PromiseKept
SYMMETRY Symmetric
