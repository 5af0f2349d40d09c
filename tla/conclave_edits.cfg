SPECIFICATION FairSpec
CONSTANTS
  Null = Null
  r1 = r1
  r2 = r2
  Bio = 1
  Referral = 1
  Requests <- TwoRequests
  RoundCounts <- TwoRounds
  MoveOptions <- OneMove
  ExtendOptions <- OneExtension
  MaxExtension = 0
  Grace = 1
  Abandoned = 7
  Dates <- OpenThenOver
  EditStatuses <- EditToCompleted
  MaxAge = 8
  MaxWait = 0
PROPERTIES
  ClosedForGood
  CompletedStays
  LeftAloneEnds
