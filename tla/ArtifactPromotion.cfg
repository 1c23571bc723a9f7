SPECIFICATION Spec
CONSTANTS
  index = index
  one = one
  two = two
  Target <- ThreeTargets
  Primary = index
  MaxRevision = 2
  Disturbances = {"edit", "decision", "stale"}
INVARIANTS TypeOK AcceptedIsInPlace ProjectedIsRecorded
PROPERTIES OverwritesOnlyBaseline AcceptsWhatWasRecorded
