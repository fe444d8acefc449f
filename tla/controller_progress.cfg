SPECIFICATION FairSpec
CONSTANTS
  Failures = {"None"}
  Networks = {a}
  NoNetwork = none
  MaxId = 5
  MaxRetryLevel = 1
  MaxRevision = 3
  MaxScans = 1
  MaxWrites = 0
  AdapterErrors = {}
  StoreErrors = {}
  ScanWhileConnected = TRUE
  Overflows = FALSE
  ShortTransitions = TRUE
  Unsolicited = FALSE
  Stores <- AutoStores
CHECK_DEADLOCK FALSE
INVARIANTS SettledIntentHolds RestoreNotForgotten EnablementPersisted
PROPERTIES IntentResolves ScanResolves
