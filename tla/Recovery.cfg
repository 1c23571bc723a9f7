SPECIFICATION FairSpec
CONSTANTS
  t1 = t1
  t2 = t2
  t3 = t3
  Task <- TwoTasks
  Rank <- DeclaredOrder
  Dependencies <- Chain
  Question = {}
  Change = {}
  Null = Null
  Mode = "gated"
  AutoPatch = TRUE
  AutoPlanDefectResolution = TRUE
  AutoPlanRevisionReview = TRUE
  MaxAttempts = 2
  MaxTotalSteps = 2
  Verdicts <- AllVerdicts
  Scopes <- SingleScopes
  Disturbances = {"interrupt", "invalid", "runner", "reject", "late", "edit", "digest", "stop", "malformed"}
INVARIANTS TypeOK AttemptsBounded ExecutesInDependencyOrder
PROPERTIES NoOverlap OnlyApproveGivesApproval RunReturns
