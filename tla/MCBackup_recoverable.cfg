SPECIFICATION Spec
CONSTANTS
  p1 = p1
  p2 = p2
  Proc = {p1}
  MaxSize = 2
  MaxFaults = 0
INVARIANTS
  ReportedIsRecoverable
CHECK_DEADLOCK FALSE
