CONSTANTS
  Container = {ash, other}
  Ash = ash
  User = user
  Nothing = nothing
  Torn = torn
  MaxAttempt = 2
  MaxFaults = 2
SPECIFICATION Spec
INVARIANTS
  TypeOK
  EntriesSurvive
  NamedVaultsOpen
  UndoneIsUntouched
  CommittedIsUsable
PROPERTY
  CommitEnds
CHECK_DEADLOCK FALSE
