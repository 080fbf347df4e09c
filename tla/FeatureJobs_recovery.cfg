SPECIFICATION JobFairSpec
CONSTANTS
  j1 = j1  j2 = j2  s1 = s1  w1 = w1  w2 = w2
  NoJob = NoJob  Sweeper = Sweeper
  Jobs <- OneJob
  SubjectOf <- SameSubject
  IngressOf <- SameSubject
  LaneOf <- SameSubject
  DedupeOf <- OwnAction
  SizeOf <- OneByte
  AcceptedAt <- FromStart
  Deadline <- AtOne
  GlobalPending = 2
  TotalBytes = 2
  PayloadBytes = 1
  SubjectPending = 2
  IngressPending = 2
  RetryDelay = 1
  Workers <- OneWorker
  Tokens <- OneWorker
  Schedules <- EveryTime
  Captured <- EveryCapture
  Claimable <- EveryKind
  Results <- EveryOutcome
  MaxTime = 1
  MaxAttempt = 2
  Cap = 1
  Grace = 1
  MaxEpoch = 0
  MayFail = TRUE
  Crashing = {w1}
  FeedbackAllowed = FALSE
CHECK_DEADLOCK FALSE
INVARIANTS DeliverySound
PROPERTIES  UsesStore
