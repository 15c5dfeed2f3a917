SPECIFICATION FairSpec
CONSTANTS
  s1 = s1
  s2 = s2
  other = other
  Text = {s1, s2}
  OtherText = {other, s1}
  Nothing = Nothing
  NoText = NoText
  NoTimer = NoTimer
  Failing = {"copy", "paste", "clear"}
  MaxGeneration = 4
INVARIANTS TypeOK ClearNowLeavesNothing
PROPERTIES PreservesOthers FullTime TimedCopyEnds
CHECK_DEADLOCK FALSE
