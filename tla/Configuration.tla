---------------------------- MODULE Configuration ----------------------------
(***************************************************************************)
(* configuration.cpp: which security a policy allows and which credentials *)
(* a security mode takes.  Credential bytes are abstracted to the classes  *)
(* Validate() tells apart; a length or character no encoding accepts is    *)
(* "malformed".  Static addresses are left out.                            *)
(***************************************************************************)
EXTENDS WifiTypes

(* network.h *)
AuthMode ==
  {"Unknown", "Open", "Wep", "WpaPersonal", "Wpa2Personal",
   "WpaWpa2Personal", "Wpa3Personal", "Wpa2Wpa3Personal", "Enterprise",
   "WapiPersonal", "Other"}

(* A mixed policy also allows either of its constituents. *)
Constituents(policy) ==
  CASE policy = "Wpa2Wpa3Personal" -> {"Wpa2Personal", "Wpa3Personal"}
    [] policy = "WpaWpa2Personal" -> {"WpaPersonal", "Wpa2Personal"}
    [] OTHER -> {}

SecurityAllows(policy, mode) ==
  /\ policy # "Unknown" /\ mode # "Unknown"
  /\ policy = mode \/ mode \in Constituents(policy)

(* Two passphrases, so that one can replace the other. *)
Passphrases == {"passphrase", "otherPassphrase"}

Secrets == {"none", "malformed", "wepKey", "rawPsk"} \cup Passphrases

Personal == {"WpaPersonal", "Wpa2Personal", "WpaWpa2Personal",
             "Wpa3Personal", "Wpa2Wpa3Personal"}

(* WPA3 authenticates with SAE, which takes no raw key. *)
Validate(security, secret) ==
  CASE security = "Open" -> IF secret = "none" THEN "Ok" ELSE "InvalidArgument"
    [] security = "Wep" -> IF secret = "wepKey" THEN "Ok" ELSE "InvalidArgument"
    [] security \in Personal /\ secret = "rawPsk" ->
         IF security \in {"Wpa3Personal", "Wpa2Wpa3Personal"}
         THEN "Unsupported" ELSE "Ok"
    [] security \in Personal /\ secret # "rawPsk" ->
         IF secret \in Passphrases THEN "Ok" ELSE "InvalidArgument"
    [] OTHER -> "Unsupported"

=============================================================================
