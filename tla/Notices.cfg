SPECIFICATION MCSpec
CONSTANTS
  u1 = u1  g1 = g1  s1 = s1  s2 = s2  a1 = a1
  Users <- OneUser
  Groups <- OneGroup
  Audiences <- Choice
  Sessions <- OneSession
  ActorOf <- SameActor
  MaxRevision = 2
  MaxConfirmations = 1
  MaxDisturbances = 1
  PageLimit = 1
  MaxAttempts = 2
  BaseBackoff = 1
  MaxBackoff = 1
  ConfirmationTtl = 1
  BodyTtl = 2
INVARIANTS NeverResent MarkerAfterReceipts 
CHECK_DEADLOCK FALSE
PROPERTIES QueueDrains
