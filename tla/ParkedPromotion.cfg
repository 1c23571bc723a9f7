SPECIFICATION Spec
CONSTANTS
  guide = guide
  spec = spec
  contract = contract
  conf = conf
  None = None
  Artifact <- Canonical
  Rank <- CanonicalRank
  Upstream <- CanonicalUpstream
  Guide = guide
  Gated = {conf}
  Validated = {}
  Reviewed <- Derived
  Conformance = conf
  Task = {t1}
  Content = {x, y}
  Change = {c1}
  MaxAttempts = 1
  Disturbances = {"question"}
INVARIANTS PassedIsPromoted
SYMMETRY Symmetry
CHECK_DEADLOCK FALSE
