CONSTANTS
  Publishers = {p1, p2}
  Admins = {a1}
  Nobody = Nobody
  Operations = {"edit"}
  Declarations = {d1, d2}
  Undeclared = Undeclared
  Retiring = {}
  MaxVersion = 2
  MaxRevision = 2
  MaxAttempts = 3
SYMMETRY Symmetric
SPECIFICATION Spec
INVARIANTS TypeOK ServesTheDeclaredBinding
PROPERTY PointerNeverRegresses
