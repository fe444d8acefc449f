SPECIFICATION Spec
CONSTANTS
  Networks = {a, b}
  NoNetwork = none
  Capacity = 3
  MaxId = 4
  AdapterErrors = {"ConnectionFailed", "NotFound"}
  NativeErrors = {"ConnectionFailed"}
  IdleAnswer = "NotFound"
  ScanWhileConnected = TRUE
  Unsolicited = TRUE
INVARIANTS
  TypeOK
  CredentialsAreShortLived
  NothingUnreported
  ResultsAreEarned
  OverflowSettlesAll
PROPERTY
  ContractSpec
CHECK_DEADLOCK FALSE
