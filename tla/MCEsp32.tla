------------------------------- MODULE MCEsp32 -------------------------------
(* The access points of the run of Esp32Interface. *)
EXTENDS Esp32Interface

CONSTANTS home, away, a1, a2, a3, a4

ApNetwork == [ap \in {a1, a2, a3, a4} |-> home]

ApAuth == [ap \in {a1, a2, a3, a4} |->
             CASE ap = a3 -> "Wpa3Personal"
               [] ap = a4 -> "WpaPersonal"
               [] OTHER -> "Wpa2Personal"]

Policies == [n \in {home, away} |-> IF n = home THEN "Wpa2Wpa3Personal"
                                             ELSE "Wpa2Personal"]

=============================================================================
