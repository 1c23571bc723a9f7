SPECIFICATION Spec
CONSTANTS
  guide = guide
  spec = spec
  contract = contract
  conf = conf
  None = None
  Artifact <- Canonical
  Rank <- ForkRank
  Upstream <- ForkUpstream
  Guide = guide
  Gated = {conf}
  Validated = {spec}
  Reviewed = {spec, contract}
  Conformance = conf
  Task = {t1}
  Content = {x, y}
  Change = {c1}
  MaxAttempts = 1
  Disturbances = {}
INVARIANTS WorksOnAcceptedUpstream
SYMMETRY Symmetry
CHECK_DEADLOCK FALSE
