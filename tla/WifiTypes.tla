------------------------------ MODULE WifiTypes ------------------------------
(***************************************************************************)
(* The enumerations that the controller, the adapters and the stores of    *)
(* roo_wifi share.  Each set holds one string per enumerator of the source *)
(* enum, without its k prefix.                                             *)
(***************************************************************************)

(* status.h *)
Status ==
  {"Ok", "NotFound", "InvalidArgument", "Unsupported", "Busy", "Disabled",
   "NotStarted", "Cancelled", "Timeout", "ConnectionFailed",
   "StorageFailure", "CommitUnknown", "Corrupt", "Stopped", "HashCollision"}

(* operation.h *)
ConnectionFailure ==
  {"None", "Transient", "NetworkNotFound", "Authentication",
   "IncompatibleSecurity", "ConnectionTimeout", "AddressTimeout"}

(* radio.h *)
LinkPhase == {"Idle", "Connecting", "Associated", "AddressReady"}

(* controller.h: intent, scan progress, native transitions, notifications *)
Target == {"Disabled", "Disconnected", "Connected"}

ScanPhase == {"Idle", "Queued", "Running", "Cancelling"}

Transition == {"None", "Enable", "Connect", "Disconnect"}

Change == {"station", "scan", "profiles"}

=============================================================================
