CONSTANTS
  Container = {ash, other}
  Ash = ash
  User = user
  Nothing = nothing
  Torn = torn
  MaxAttempt = 2
  MaxFaults = 2
SPECIFICATION Spec
INVARIANT NoPartialAccount
CHECK_DEADLOCK FALSE
