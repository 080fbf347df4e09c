SPECIFICATION MCSpec
CONSTANTS
  Users = {u1}
  Runners = {r1}
  Handlers = {h1}
  Freshness = 2
  Delay = 1
  MaxPending = 1
  MaxChanges = 1
  Failures = TRUE
INVARIANTS AuthorityBounded BannedAdminSuspends EvidenceObserved
