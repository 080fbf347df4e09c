SPECIFICATION Spec
CONSTANTS
  first = first  other = other  again = again  s1 = s1  s2 = s2  i1 = i1  i2 = i2
  NoJob = NoJob
  Jobs <- ThreeJobs
  SubjectOf <- Charged
  IngressOf <- TwoIngresses
  LaneOf <- Charged
  DedupeOf <- Actions
  SizeOf <- Sizes
  AcceptedAt <- Arrivals
  Deadline <- Deadlines
  GlobalPending = 2
  TotalBytes = 3
  PayloadBytes = 2
  SubjectPending = 1
  IngressPending = 1
  RetryDelay = 1
  Tokens = {"t1"}
  Schedules = {0, 1}
  Captured <- FirstPublications
  Claimable = {"TERMINAL"}
  Results = {"EXPIRED"}
  MaxTime = 2
  MaxAttempt = 1
CHECK_DEADLOCK FALSE
INVARIANTS TicketsSound IndexesAgree CountsExact MetadataUsable
PROPERTIES HistoryKept ImplementsContract
