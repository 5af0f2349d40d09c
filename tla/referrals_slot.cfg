SPECIFICATION RefSpec
CONSTANTS
  Null = Null
  r1 = r1
  i1 = i1
  u1 = u1
  u2 = u2
  Bio = 2
  Referral = 1
  Requests <- OneRequest
  RoundCounts <- TwoRounds
  MoveOptions <- OneMove
  ExtendOptions <- NoExtension
  MaxExtension = 0
  Grace = 1
  Abandoned = 9
  Dates <- OneDate
  EditStatuses <- NoEdits
  MaxAge = 10
  MaxWait = 0
  Ids <- OneReferral
  Uploads <- TwoUploads
  Slack = 1
  Drifts <- AnyDrift
  SentStates <- JustPending
  GivenOutcomes <- JustClosed
  MaxDelay = 5
INVARIANTS
  ReferralsKept
SYMMETRY UploadSymmetry
