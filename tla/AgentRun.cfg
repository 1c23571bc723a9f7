SPECIFICATION FairSpec
CONSTANTS
  a = a
  b = b
  other = other
  File <- ThreeFiles
  Allowed <- TaskFiles
  Editable <- TaskFiles
  MaxAttempts = 2
INVARIANTS TypeOK ReviewedWorkIsInPlace RefusedDiffLeavesNoTrace StartsWithoutTraces SeenEditSurvives OutsideScopeUntouched UnfinishedNeverCommits
PROPERTIES StepReturns
