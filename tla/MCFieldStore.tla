---------------------------- MODULE MCFieldStore -----------------------------
(* The SSIDs of the runs of FieldStore and what they hash to. *)
EXTENDS FieldStore

CONSTANTS a, b, h

Colliding == [n \in {a, b} |-> h]

Alone == [n \in {a} |-> h]

=============================================================================
