SPECIFICATION Spec
CONSTANTS
  Null = Null
  m1 = m1
  m2 = m2
  m3 = m3
  r1 = r1
  r2 = r2
  Members <- TwoMembers
  Requests <- TwoRequests
  Additions <- SomeAdditions
  Limits <- OneSeat
  PersonsPerTable = 2
INVARIANTS
  TypeOK
  CountStillHolds
  OnlineIsPaid
PROPERTIES
  LockedRosterFixed
SYMMETRY PairSymmetry
