SPECIFICATION Spec
CONSTANTS
  Null = Null
  r1 = r1
  r2 = r2
  Bio = 1
  Referral = 1
  Requests <- TwoRequests
  RoundCounts <- ThreeRounds
  MoveOptions <- ShortOrLongMove
  ExtendOptions <- OneExtension
  MaxExtension = 1
  Grace = 1
  Abandoned = 17
  Dates <- OneDate
  EditStatuses <- NoEdits
  MaxAge = 18
  MaxWait = 1
INVARIANTS
  TypeOK
  SeatedWhileRunning
  ClockSound
PROPERTIES
  ForwardOnly
  NoSkip
  TalkTimeKept
  NeverCutShort
  ImplementsLife
SYMMETRY Symmetry
