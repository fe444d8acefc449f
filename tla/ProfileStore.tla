---------------------------- MODULE ProfileStore -----------------------------
(***************************************************************************)
(* The contract of roo_wifi::Store (hal/store.h) for saved profiles, as    *)
(* its caller sees it: what loading each SSID answers, the last connected  *)
(* SSID, and one operation at a time whose effect may be seen before it    *)
(* answers.  How profiles are laid out on a medium is not part of it.      *)
(*                                                                         *)
(* A profile is a record of a status, settings and a secret; only one with *)
(* status "Ok" has the latter two.                                         *)
(***************************************************************************)
CONSTANTS Networks, NoNetwork

VARIABLES
  profiles,  \* what loading each SSID answers
  last,      \* what readLastProfile() answers, NoNetwork for none
  call,      \* the operation in progress
  status     \* what the latest operation answered

storeVars == <<profiles, last, call, status>>

Idle == call.kind = "None"

Ended == call'.kind = "None"

(* An operation is refused without any effect, a colliding SSID above all. *)
Refuses == /\ Idle /\ Ended /\ status' # "Ok"
           /\ UNCHANGED <<profiles, last>>

Begins == /\ Idle /\ ~Ended /\ status' = "Pending"
          /\ call'.ssid \in Networks
          /\ UNCHANGED <<profiles, last>>

Remembers ==
  /\ Idle /\ Ended
  /\ \E n \in Networks : \/ last' = n
                         \/ last' = last /\ status' # "Ok"
  /\ UNCHANGED profiles

(* While a secret is being replaced, a profile may be read with its new    *)
(* secret and the settings it had, or not at all.                          *)
Halfway(before, now) ==
  /\ call.kind = "Replace" /\ before # call.target
  /\ \/ now.status = "Corrupt"
     \/ /\ now.status = "Ok" /\ now.secret = call.target.secret
        /\ before.status = "Ok" => now.settings = before.settings

(* Whatever fails, an operation moves its own profile towards what it is   *)
(* to leave, never back and never another profile, and forgets the last    *)
(* connected SSID only with its profile.                                   *)
Works ==
  LET n == call.ssid
      now == profiles'[n]
  IN  /\ ~Idle
      /\ profiles' = [profiles EXCEPT ![n] = now]
      /\ now \in {profiles[n], call.target} \/ Halfway(profiles[n], now)
      /\ \/ last' = last
         \/ last' = NoNetwork /\ last = n /\ call.kind = "Remove"
      /\ ~Ended => call' = call /\ status' = status
      /\ Ended /\ status' = "Ok" =>
           now = call.target /\ (call.kind = "Remove" => last' # n)

StoreSpec ==
  /\ Idle
  /\ [][Refuses \/ Begins \/ Remembers \/ Works]_storeVars

=============================================================================
