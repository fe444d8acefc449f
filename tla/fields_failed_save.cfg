SPECIFICATION Spec
CONSTANTS
  a = a
  b = b
  h = h
  Networks = {a}
  NoNetwork = none
  Hashes = {h}
  Key <- Alone
  Securities = {"Open", "Wep", "Wpa2Personal"}
  Marks = {1}
  Failing = TRUE
  Damaged = FALSE
INVARIANT PriorSettingsReadable
