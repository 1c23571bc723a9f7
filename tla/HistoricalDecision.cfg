SPECIFICATION Spec
CONSTANTS
  Content = {x, y, z}
  Change = {c1, c2}
  None = None
  MaxSubmissions = 2
  MaxCrashes = 1
  Exclusive = TRUE
SYMMETRY Symmetry
PROPERTIES NoHistoricalApproval
CHECK_DEADLOCK FALSE
