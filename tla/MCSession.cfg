SPECIFICATION Spec
CONSTANTS
  other = other
  SessionId = TRUE
  Window = {other}
  Settings <- Configurations
  Steps = 2
  MaxIdle = 1
  MaxJobs = 1
INVARIANTS
  TypeOK
  OneTeardown
  AtMostOneLateInput
  LockClearsClipboard
  NothingGoesAstray
PROPERTY
  EverythingEnds
CHECK_DEADLOCK FALSE
