SPECIFICATION Spec
CONSTANTS
  i1 = i1  i2 = i2  i3 = i3  own = own  shared = shared
  Missing = Missing
  Ids <- Three
  Scopes <- BothScopes
  ScopesOf <- Overlapping
  Seconds <- OneOrTwo
  Amount <- OneUnit
  Deadline <- OneOrTwoLater
  PoliciesOf <- LimitChanges
  GlobalLimit = 2
  Lifetime = 2
  Grace = 1
  Retention = 3
  Lag = 1
  MaxTime = 4
CHECK_DEADLOCK FALSE
SYMMETRY PairSymmetry
INVARIANTS BudgetSound 
PROPERTIES QuotaHolds SettledOnce
