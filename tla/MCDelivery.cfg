SPECIFICATION Spec
CONSTANTS
  d1 = d1
  d2 = d2
  Entries = {d1, d2}
  Recoverers = {"startup", "reconnect"}
  Budgeted = {"startup"}
  MaxRetries = 2
  BestEffort = {d2}
  MaxScans = 1
  MaxCrashes = 1
INVARIANTS
  NoDeliveryLost
  SendersExclusive
  AttemptsBounded
PROPERTIES
  AckedNotReplayed
CHECK_DEADLOCK FALSE
