SPECIFICATION MCSpec
CONSTANTS
  video = "video"  post = "post"  beta = "beta"
  Definition <- Registry
  Splits <- VideoAndPost
  MaxChanges = 2
PROPERTIES  RefusedForCause LimitsOfTheSubject
