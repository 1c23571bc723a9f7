SPECIFICATION Spec
CONSTANTS
  Content = {x, y, z}
  Change = {c1, c2}
  None = None
  MaxSubmissions = 3
  MaxCrashes = 0
  Exclusive = FALSE
SYMMETRY Symmetry
PROPERTIES AcceptedStays
CHECK_DEADLOCK FALSE
