SPECIFICATION Spec
CONSTANTS
  p1 = p1
  p2 = p2
  Proc = {p1, p2}
  MaxSize = 2
  MaxFaults = 2
SYMMETRY Symmetry
INVARIANTS
  TypeOK
  BackupsAreSafe
CHECK_DEADLOCK FALSE
