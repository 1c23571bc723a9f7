SPECIFICATION Spec
CONSTANTS
  Content = {x, y, z}
  Change = {c1, c2}
  None = None
  MaxSubmissions = 2
  MaxCrashes = 0
  Exclusive = TRUE
SYMMETRY Symmetry
PROPERTIES NewRevisionIsAnalysed
CHECK_DEADLOCK FALSE
