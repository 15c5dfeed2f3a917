SPECIFICATION Spec
CONSTANTS
  e1 = e1
  e2 = e2
  Entry = {e1, e2}
  None = None
  MaxSteps = 2
SYMMETRY Symmetry
INVARIANTS
  TypeOK
  ScreenIsCurrent
CHECK_DEADLOCK FALSE
