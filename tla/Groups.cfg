SPECIFICATION Spec
CONSTANTS
  a = a  m = m  h1 = h1
  Users <- TwoUsers
  BotAdmins <- OneAdmin
  Trusted <- Nobody
  Locals <- OneLocal
  Calls <- OneCall
  MaxRequests = 2
  MaxChanges = 2
INVARIANTS ApprovalFollowsDecisions ConsentCurrent
PROPERTIES DecidedByItsButtons
