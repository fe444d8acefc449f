---------------------------- MODULE NativeEvents -----------------------------
(***************************************************************************)
(* What passes between a native station and the adapter in front of it:    *)
(* the commands' answers and the queue of copied events behind mutex_.     *)
(* native is the driver, whose shape the module of each driver defines,    *)
(* mail the adapter's event queue and dispatch task.                       *)
(*                                                                         *)
(* Addresses, radio metadata and diagnostics are left out.                 *)
(***************************************************************************)
EXTENDS WifiTypes, Naturals, Sequences

CONSTANTS
  Networks,            \* the SSIDs
  NoNetwork,           \* the empty SSID, and no credentials
  Capacity             \* queue_.size()

ASSUME EventsAssumption ==
  /\ NoNetwork \notin Networks
  /\ Capacity \in Nat \ {0}

VARIABLES
  native,              \* the driver
  mail                 \* the events it has posted

Ssid == Networks \cup {NoNetwork}

(* How far a connection has come. *)
NativePhase == {"Idle", "Selecting", "Prepared", "Joining", "Associated",
                "AddressReady"}

NewMail == [queue |-> <<>>, overflow |-> FALSE, due |-> FALSE]

Event(kind, ssid, status) == [kind |-> kind, ssid |-> ssid, status |-> status]

Enablement(enabled) ==
  Event(IF enabled THEN "Enabled" ELSE "Disabled", NoNetwork, "Ok")

scheduleNow(m) == [m EXCEPT !.due = TRUE]

SlipUnbounded(m, event) ==
  scheduleNow([m EXCEPT !.queue = Append(@, event)])

post(m, event) ==
  scheduleNow(IF Len(m.queue) = Capacity
              THEN [m EXCEPT !.overflow = TRUE]
              ELSE [m EXCEPT !.queue = Append(@, event)])

(* What a command answers, the driver it leaves and the events it posts    *)
(* before it returns: none or one.                                         *)
Answer(status, n) == [answer |-> status, native |-> n, posts |-> <<>>]

AnswerPosting(status, n, event) ==
  [answer |-> status, native |-> n, posts |-> <<event>>]

Posted(m, posts) == IF posts = <<>> THEN m ELSE post(m, posts[1])

=============================================================================
