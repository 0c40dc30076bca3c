CONSTANTS
  p1 = p1
  p2 = p2
  c1 = c1
  c2 = c2
  Pages = {p1, p2}
  Cards = {c1, c2}
  Layouts <- BothLayouts
  MaxVersions = 2
  MaxRows = 2
  MaxEdits = 1
  MaxFaults = 1
  MaxReads = 1
  Nothing = Nothing
SPECIFICATION Spec
CHECK_DEADLOCK FALSE
INVARIANTS TypeOK OneQueryPerVersion WrittenIsKept SavedIsWritten
