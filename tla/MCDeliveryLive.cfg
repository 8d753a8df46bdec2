SPECIFICATION FairSpec
CONSTANTS
  d1 = d1
  d2 = d2
  Entries = {d1, d2}
  Recoverers = {"startup"}
  Budgeted = {"startup"}
  MaxRetries = 2
  BestEffort = {}
  MaxScans = 2
  MaxCrashes = 1

  
PROPERTIES
  ClaimsReleased
CHECK_DEADLOCK FALSE
