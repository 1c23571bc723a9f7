SPECIFICATION Spec
CONSTANTS
  guide = guide
  spec = spec
  contract = contract
  conf = conf
  None = None
  Artifact <- Canonical
  Rank <- CanonicalRank
  Upstream <- CanonicalUpstream
  Guide = guide
  Gated = {conf}
  Validated = {spec}
  Reviewed = {spec, contract}
  Conformance = conf
  Task = {t1}
  Content = {x, y}
  Change = {c1}
  MaxAttempts = 2
  Disturbances = {"invalid", "infra", "question", "repeat", "recover"}
INVARIANTS TypeOK StageMatchesArtifact WorksFromCurrentChain CompletesOnAcceptedChain
PROPERTIES AcceptsWhatWasChecked
SYMMETRY Symmetry
CHECK_DEADLOCK FALSE
