SPECIFICATION Spec
CONSTANTS
  encrypted = encrypted
  plain = plain
  m1 = m1
  p1 = p1
  p2 = p2
  Vault = {encrypted, plain}
  Luks = {encrypted}
  Legacy = {encrypted}
  Mountpoint = {m1}
  Proc = {p1, p2}
  RemovalAction = "lock_immediately"
  None = None
SYMMETRY Symmetry
INVARIANTS
  TypeOK
  OneSignInPerPlug
  UsbAgreement
  RunningIsReachable
  LoginIsOrderly
  SecretHasOneOwner
CHECK_DEADLOCK FALSE
