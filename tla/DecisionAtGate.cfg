SPECIFICATION Spec
CONSTANTS
  t1 = t1
  t2 = t2
  t3 = t3
  Task <- ThreeTasks
  Rank <- DeclaredOrder
  Dependencies <- LastNeedsFirst
  Question = {q1}
  Change = {}
  Null = Null
  Mode = "gated"
  AutoPatch = TRUE
  AutoPlanDefectResolution = TRUE
  AutoPlanRevisionReview = TRUE
  MaxAttempts = 1
  MaxTotalSteps = 2
  Verdicts <- AllVerdicts
  Scopes <- SingleScopes
  Disturbances = {}
PROPERTIES OnlyApproveGivesApproval
