SPECIFICATION Spec
CONSTANTS
  Failures = {"None"}
  Networks = {a}
  NoNetwork = none
  MaxId = 5
  MaxRetryLevel = 1
  MaxRevision = 3
  MaxScans = 0
  MaxWrites = 0
  AdapterErrors = {"ConnectionFailed"}
  StoreErrors = {}
  ScanWhileConnected = FALSE
  Overflows = FALSE
  ShortTransitions = TRUE
  Unsolicited = FALSE
  Stores <- AutoStores
CHECK_DEADLOCK FALSE
INVARIANTS RestoreNotForgotten
