----------------------------- MODULE MCController ----------------------------
(* What the runs of Controller find persisted when the program starts. *)
EXTENDS Controller

Remembering(enabled, last) ==
  [enabled |-> enabled, last |-> last, saved |-> [n \in Networks |-> "auto"]]

(* Every network has an automatic profile, and one was the last in use. *)
AutoStores == {Remembering(e, n) : e \in BOOLEAN, n \in Networks}

(* The same profiles, enabled, before the first connection. *)
OnStores == {Remembering(TRUE, NoNetwork)}

=============================================================================
