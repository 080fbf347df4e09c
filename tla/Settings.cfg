SPECIFICATION MCSpec
CONSTANTS
  a = a  g = g  h1 = h1  h2 = h2
  Users <- OneUser
  Group = g
  Calls <- TwoCalls
  MaxWindows = 2
  MaxTokens = 3
  MaxConfirmations = 1
  MaxChanges = 1
INVARIANTS ConfirmedOnce WindowsAreTracked
PROPERTIES ClicksJudged
SYMMETRY Same
