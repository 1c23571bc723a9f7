SPECIFICATION FairSpec
CONSTANTS
  Content = {x, y, z}
  Change = {c1, c2}
  None = None
  MaxSubmissions = 3
  MaxCrashes = 1
  Exclusive = TRUE
INVARIANTS TypeOK FilesAgree OfferIsCurrent AcceptedIsOnFile
PROPERTIES AcceptsOnlyApproved NewestIsRegistered
CHECK_DEADLOCK FALSE
