SPECIFICATION Spec
CONSTANTS
  guide = guide
  spec = spec
  contract = contract
  conf = conf
  None = None
  Artifact <- Short
  Rank <- ShortRank
  Upstream <- ShortUpstream
  Guide = guide
  Gated = {spec}
  Validated = {spec}
  Reviewed <- SpecAndConf
  Conformance = conf
  Task = {t1}
  Content = {x, y}
  Change = {c1}
  MaxAttempts = 1
  Disturbances = {}
PROPERTIES PromotesWhatWasOffered
SYMMETRY Symmetry
CHECK_DEADLOCK FALSE
