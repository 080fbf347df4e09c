SPECIFICATION Spec
CONSTANTS
  post = post  text = text  c1 = c1  c2 = c2
  Children = {c1, c2}
  Jobs = {post, text}
  Content <- Posts
  Charges <- Amounts
  Capacity = 2
  GroupSize = 1
  BrowserEnabled = TRUE
  MaxAttempts = 2
  Deadline = 1
  Cleanup = 1
  Horizon = 4
  MaxForks = 2
SYMMETRY ChildSymmetry
INVARIANTS ChargedOnce 
PROPERTIES EffectsReported
CHECK_DEADLOCK FALSE
