CONSTANTS
  Publishers = {p1, p2}
  Admins = {a1, a2}
  Nobody = Nobody
  Operations = {"create", "edit", "delete"}
  Declarations = {d2}
  Undeclared = Undeclared
  Retiring = {d2}
  MaxVersion = 2
  MaxRevision = 2
  MaxAttempts = 2
SYMMETRY Symmetric
SPECIFICATION Spec
INVARIANT Consistent
PROPERTIES WatermarkNeverFalls FailureRetiresOnlyItsOwn PromiseKept
