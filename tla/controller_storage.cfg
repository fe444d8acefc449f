SPECIFICATION Spec
CONSTANTS
  Failures = {"None", "Authentication", "IncompatibleSecurity"}
  MaxWord = 50
  Networks = {a}
  NoNetwork = none
  MaxId = 4
  MaxRetryLevel = 5
  MaxRevision = 2
  MaxScans = 0
  MaxWrites = 1
  AdapterErrors = {}
  StoreErrors = {"StorageFailure", "CommitUnknown"}
  ScanWhileConnected = FALSE
  Overflows = TRUE
  ShortTransitions = TRUE
  Unsolicited = TRUE
  Stores <- AutoStores
CHECK_DEADLOCK FALSE
INVARIANTS RetryIsArmed RetryWaits
PROPERTIES FaultIsFinal
