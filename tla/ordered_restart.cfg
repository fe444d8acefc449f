SPECIFICATION Spec
CONSTANTS
  Networks = {a, b}
  NoNetwork = none
  Capacity = 3
  MaxId = 3
  AdapterErrors = {"ConnectionFailed", "NotFound"}
  NativeErrors = {"ConnectionFailed"}
  IdleAnswer = "Ok"
  ScanWhileConnected = TRUE
  Unsolicited = TRUE
INVARIANT
  AttemptHasCredentials
CHECK_DEADLOCK FALSE
