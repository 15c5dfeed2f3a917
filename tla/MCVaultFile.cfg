CONSTANTS
  p1 = p1
  p2 = p2
  kx = kx
  e1 = e1
  e2 = e2
  NoProc = NoProc
  NoVersion = NoVersion
  Proc = {p1, p2}
  Foreign = {kx}
  Edit = {e1, e2}
  MaxVersion = 3
  MaxFaults = 2
SPECIFICATION Spec
SYMMETRY Symmetry
INVARIANTS
  TypeOK
  SavedIsOnDisk
  MatchingHandleSeesAll
PROPERTIES
  NoLostUpdate
  ImplementsSharedVault
CHECK_DEADLOCK FALSE
