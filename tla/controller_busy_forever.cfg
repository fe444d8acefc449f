SPECIFICATION Spec
CONSTANTS
  Failures = {"None"}
  Networks = {a}
  NoNetwork = none
  MaxId = 5
  MaxRetryLevel = 1
  MaxRevision = 3
  MaxScans = 0
  MaxWrites = 1
  AdapterErrors = {}
  StoreErrors = {}
  ScanWhileConnected = FALSE
  Overflows = FALSE
  ShortTransitions = TRUE
  Unsolicited = FALSE
  Stores <- OnStores
CHECK_DEADLOCK FALSE
INVARIANTS BusyOnlyInTransition
