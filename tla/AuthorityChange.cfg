SPECIFICATION Spec
CONSTANTS
  t1 = t1
  t2 = t2
  t3 = t3
  Task <- ThreeTasks
  Rank <- DeclaredOrder
  Dependencies <- LastNeedsFirst
  Question = {}
  Change = {c1}
  Null = Null
  Mode = "autonomous"
  AutoPatch = TRUE
  AutoPlanDefectResolution = TRUE
  AutoPlanRevisionReview = TRUE
  MaxAttempts = 1
  MaxTotalSteps = 3
  Verdicts <- AllVerdicts
  Scopes <- ScopesWithUnknown
  Disturbances = {}
INVARIANTS DependencyBlockIsReal
PROPERTIES ImplementsLedger
