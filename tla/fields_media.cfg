SPECIFICATION Spec
CONSTANTS
  a = a
  b = b
  h = h
  Networks = {a, b}
  NoNetwork = none
  Hashes = {h}
  Key <- Colliding
  Securities = {"Open", "Wep", "Wpa2Personal", "Wpa3Personal"}
  Marks = {1}
  Failing = TRUE
  Damaged = TRUE
INVARIANTS TypeOK SecretsErased OkIsDurable NothingPartial SecretFirst
PROPERTIES OwnershipRespected StoreRefined
