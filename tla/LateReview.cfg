SPECIFICATION Spec
CONSTANTS
  t1 = t1
  t2 = t2
  t3 = t3
  Task <- TwoTasks
  Rank <- DeclaredOrder
  Dependencies <- Chain
  Question = {}
  Change = {}
  Null = Null
  Mode = "autonomous"
  AutoPatch = TRUE
  AutoPlanDefectResolution = TRUE
  AutoPlanRevisionReview = TRUE
  MaxAttempts = 1
  MaxTotalSteps = 3
  Verdicts <- Approving
  Scopes <- SingleScopes
  Disturbances = {"invalid", "late"}
INVARIANTS ExecutesInDependencyOrder
