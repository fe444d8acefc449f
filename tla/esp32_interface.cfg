SPECIFICATION FairSpec
CONSTANTS
  home = home
  away = away
  a1 = a1
  a2 = a2
  a3 = a3
  a4 = a4
  Networks = {home, away}
  NoNetwork = none
  Capacity = 2
  MaxId = 3
  AdapterErrors = {"Busy", "ConnectionFailed", "NotFound"}
  ScanWhileConnected = TRUE
  Aps = {a1, a2, a3, a4}
  NoAp = noAp
  NetworkOf <- ApNetwork
  AuthOf <- ApAuth
  PolicyOf <- Policies
  Joined = {"Wpa2Personal", "WpaPersonal"}
  Reasons = {"BEACON_TIMEOUT", "NO_AP_FOUND"}
  Strengths = {1, 2}
  Slots = 2
  MaxFound = 3
  MaxLoop = 1
INVARIANTS
  TypeOK
  BusyOnlyWhileScanning
  JoinIsOwn
  SettledTruth
  SelectionIsBest
  FailureIsOwn
PROPERTIES
  CommandsComplete
  NativeRefined
  TeardownIsBlameless
CHECK_DEADLOCK FALSE
