SPECIFICATION Spec
CONSTANTS
  p1 = p1
  p2 = p2
  p3 = p3
  p4 = p4
  p5 = p5
  p6 = p6
  a = a
  b = b
  c = c
  People <- SixPeople
  Categories <- ThreeCategories
  Requests <- SixAsk
  Rounds = 2
INVARIANTS
  TypeOK
  AuditClean
  CaptainsSpread
  RoomySeats
CHECK_DEADLOCK FALSE
