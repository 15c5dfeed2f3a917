CONSTANTS
  d1 = d1
  d2 = d2
  h1 = h1
  b1 = b1
  b2 = b2
  c1 = c1
  c2 = c2
  w1 = w1
  w2 = w2
  NoDevice = NoDevice
  NoKey = NoKey
  TornKey = TornKey
  NoSlot = NoSlot
  NoHost = NoHost
  NoPassword = NoPassword
  Device = {d1, d2}
  Host = {h1}
  Binding = {b1, b2}
  Proc = {c1, c2}
  Password = {w1, w2}
  MayMisread = TRUE
  MaxFaults = 1
SPECIFICATION Spec
SYMMETRY Symmetry
INVARIANTS
  TypeOK
  RevocationIsReal
  EnrolledKeepsWorking
  PasswordAlwaysOpens
  EnrolledIsListed
PROPERTIES
  RevocationSticks
  RosterRemembers
CHECK_DEADLOCK FALSE
