SPECIFICATION Spec
CONSTANTS
  Null = Null
  m1 = m1
  m2 = m2
  s1 = s1
  s2 = s2
  i1 = i1
  i2 = i2
  Members <- TwoMembers
  Pairs <- OneAsks
  Slots <- TwoSlots
  Instances <- TwoInstances
  Ahead <- SoonOrLater
  Month = 2
  Window = 1
  Slack = 1
  MaxMeetings = 3
  MaxTime = 3
  MaxCrashes = 1
INVARIANTS
  NotPestered
  RemindedOnce
  RemindedInTime
SYMMETRY PairSymmetry
CHECK_DEADLOCK FALSE
