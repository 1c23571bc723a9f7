SPECIFICATION Spec
CONSTANTS
  index = index
  one = one
  two = two
  Target <- TwoTargets
  Primary = index
  MaxRevision = 1
  Disturbances = {}
INVARIANTS InterruptedIsTakenUp
CHECK_DEADLOCK FALSE
