SPECIFICATION Spec
CONSTANTS
  t1 = t1
  t2 = t2
  t3 = t3
  Task <- TwoTasks
  Rank <- DeclaredOrder
  Dependencies <- Chain
  Question = {q1}
  Change = {}
  Null = Null
  Mode = "gated"
  AutoPatch = TRUE
  AutoPlanDefectResolution = TRUE
  AutoPlanRevisionReview = TRUE
  MaxAttempts = 1
  MaxTotalSteps = 3
  Verdicts <- WorkingVerdicts
  Scopes <- SingleScopes
  Disturbances = {}
INVARIANTS DependencyBlockIsReal
