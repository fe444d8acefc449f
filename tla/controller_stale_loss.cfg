SPECIFICATION Spec
CONSTANTS
  Failures = {"None"}
  Networks = {a, b}
  NoNetwork = none
  MaxId = 5
  MaxRetryLevel = 1
  MaxRevision = 3
  MaxScans = 0
  MaxWrites = 0
  AdapterErrors = {}
  StoreErrors = {}
  ScanWhileConnected = FALSE
  Overflows = FALSE
  ShortTransitions = TRUE
  Unsolicited = FALSE
  Stores <- OnStores
CHECK_DEADLOCK FALSE
INVARIANTS RetryBelongsToIntent
