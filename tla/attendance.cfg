SPECIFICATION FairSpec
CONSTANTS
  Null = Null
  cap = cap
  mate = mate
  other = other
  seat = seat
  elsewhere = elsewhere
  i1 = i1
  i2 = i2
  u1 = u1
  u2 = u2
  Members <- TwoTables
  Seats <- TwoSeats
  MemberIn <- Occupants
  CaptainOf <- Captains
  Ids <- TwoIds
  Marks <- FourMarks
  MarkOf <- SeatOf
  Uploads <- TwoUploads
INVARIANTS
  TypeOK
  MarksAreTheirs
  AckedIsStored
PROPERTIES
  
  EverythingSynced
