SPECIFICATION Spec
CONSTANTS
  Failures = {"None"}
  Networks = {a}
  NoNetwork = none
  MaxId = 5
  MaxRetryLevel = 1
  MaxRevision = 3
  MaxScans = 1
  MaxWrites = 0
  AdapterErrors = {"ConnectionFailed"}
  StoreErrors = {}
  ScanWhileConnected = TRUE
  Overflows = TRUE
  ShortTransitions = TRUE
  Unsolicited = FALSE
  Stores <- AutoStores
CHECK_DEADLOCK FALSE
INVARIANTS TypeOK IdsNeverWrap NoLostWork TimerArmed DisconnectIsFinal SecretLifetime BeliefMatchesRadio
PROPERTIES NoOverlap SnapshotPreserved ChangesAreAnnounced
