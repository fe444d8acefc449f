---------------------------- MODULE NativeStation ----------------------------
(***************************************************************************)
(* The contract of roo_wifi::NativeStation as OrderedInterface relies on   *)
(* it: any driver that posts the event of each command it accepts, keeps   *)
(* the order of what happens to a connection and never reconnects by       *)
(* itself.  It is external and nondeterministic; OrderedStation puts it    *)
(* behind the adapter, and the ESP32 driver is shown to be one.            *)
(*                                                                         *)
(* An accepted disconnect() is carried out by a later event, and what      *)
(* happened to the connection before may still be posted in between.  An   *)
(* SSID stands for a network with one access point.                        *)
(***************************************************************************)
EXTENDS NativeEvents

CONSTANTS
  NativeErrors,        \* what a command may answer besides Ok
  IdleAnswer,          \* what disconnect() answers when idle
  Unsolicited          \* whether the radio may turn on or off by itself

ASSUME NativeAssumption ==
  /\ NativeErrors \subseteq Status \ {"Ok", "NotFound"}
  /\ IdleAnswer \in {"Ok", "NotFound"}
  /\ Unsolicited \in BOOLEAN

(* ssid and secret are the arguments of the last connect(). *)
Natives == [attached : BOOLEAN, enabled : BOOLEAN, turning : BOOLEAN,
            target : BOOLEAN, scanning : BOOLEAN, phase : NativePhase,
            leaving : BOOLEAN, ssid : Ssid, secret : Ssid]

NewNative == [attached |-> FALSE, enabled |-> FALSE, turning |-> FALSE,
              target |-> FALSE, scanning |-> FALSE, phase |-> "Idle",
              leaving |-> FALSE, ssid |-> NoNetwork, secret |-> NoNetwork]

-----------------------------------------------------------------------------
(* Commands: what each may answer, with the station it leaves behind *)

Failures(n) == {Answer(error, n) : error \in NativeErrors}

Attached == [NewNative EXCEPT !.attached = TRUE]

Enables(n, enabled) ==
  Failures(n) \cup
  {IF n.enabled = enabled /\ ~n.turning
   THEN AnswerPosting("Ok", n, Enablement(enabled))
   ELSE Answer("Ok", [n EXCEPT !.turning = TRUE, !.target = enabled])}

Scans(n) ==
  Failures(n) \cup
  IF n.scanning THEN {} ELSE {Answer("Ok", [n EXCEPT !.scanning = TRUE])}

StopsScan(n) == Failures(n) \cup {Answer("Ok", n)}

(* A driver that has a network to choose from is prepared at once. *)
Connects(n, network, secret) ==
  LET asked == [n EXCEPT !.ssid = network, !.secret = secret]
  IN  Failures(asked) \cup
      IF ~n.enabled \/ n.phase # "Idle" THEN {}
      ELSE {Answer("Ok", [asked EXCEPT !.phase = "Selecting"]),
            AnswerPosting("Ok", [asked EXCEPT !.phase = "Prepared"],
                          Event("Prepared", NoNetwork, "Ok"))}

ContinuesConnect(n) ==
  IF n.phase # "Prepared" THEN {Answer("NotFound", n)}
  ELSE Failures([n EXCEPT !.phase = "Idle"]) \cup
       {Answer("Ok", [n EXCEPT !.phase = "Joining"])}

Disconnects(n) ==
  CASE n.phase = "Idle" -> {Answer(IdleAnswer, n)}
    [] n.phase = "Prepared" ->
         {Answer("NotFound", [n EXCEPT !.phase = "Idle"])}
    [] OTHER -> Failures(n) \cup {Answer("Ok", [n EXCEPT !.leaving = TRUE])}

-----------------------------------------------------------------------------
(* Events, posted from a thread of the driver *)

NativePosts(n, event) ==
  /\ native.attached
  /\ native' = n
  /\ mail' = post(mail, event)

(* The radio ends up as the last accepted enable() asked, or changes by    *)
(* itself; turning off ends a connection with or without an event for it,  *)
(* except that an accepted disconnect() posts its event first.             *)
Turns(enabled) ==
  /\ IF native.turning THEN enabled = native.target
     ELSE Unsolicited /\ enabled # native.enabled
  /\ ~native.leaving
  /\ NativePosts([native EXCEPT !.enabled = enabled, !.turning = FALSE,
                                !.phase = IF enabled THEN @ ELSE "Idle"],
                 Enablement(enabled))

ScanEnds(status) ==
  /\ native.scanning
  /\ NativePosts([native EXCEPT !.scanning = FALSE],
                 Event("ScanDone", NoNetwork, status))

Prepares ==
  /\ native.phase = "Selecting" /\ ~native.leaving
  /\ NativePosts([native EXCEPT !.phase = "Prepared"],
                 Event("Prepared", NoNetwork, "Ok"))

(* A driver that needs no preparation associates at once. *)
Associates ==
  /\ native.phase \in {"Selecting", "Joining"}
  /\ NativePosts([native EXCEPT !.phase = "Associated"],
                 Event("Associated", native.ssid, "Ok"))

(* Also of an association it has not announced: that one does not count. *)
GetsAddress ==
  /\ native.phase \in {"Joining", "Associated", "AddressReady"}
  /\ NativePosts([native EXCEPT !.phase = IF @ = "Joining" THEN @
                                          ELSE "AddressReady"],
                 Event("AddressReady", native.ssid, "Ok"))

(* A loss may be announced again when the address is long gone. *)
LosesAddress ==
  NativePosts([native EXCEPT !.phase = IF @ = "AddressReady"
                                       THEN "Associated" ELSE @],
              Event("AddressLost", NoNetwork, "Ok"))

(* The attempt fails, the link is lost, or disconnect() is carried out. *)
Drops ==
  /\ native.phase \notin {"Idle", "Prepared"}
  /\ NativePosts([native EXCEPT !.phase = "Idle", !.leaving = FALSE],
                 Event("Disconnected", native.ssid, "ConnectionFailed"))

Posts ==
  \/ \E enabled \in BOOLEAN : Turns(enabled)
  \/ \E status \in {"Ok"} \cup NativeErrors : ScanEnds(status)
  \/ Prepares
  \/ Associates
  \/ GetsAddress
  \/ LosesAddress
  \/ Drops

-----------------------------------------------------------------------------
(* The contract on its own, as a specification of the driver *)

(* The event of a command is in the queue when it returns, or lost. *)
Arrived(posts) ==
  \/ posts = <<>> \/ mail'.overflow
  \/ mail'.queue # <<>> /\ mail'.queue[Len(mail'.queue)] = posts[1]

Commanded ==
  \E o \in {Answer("Ok", Attached), Answer("Ok", NewNative)}
           \cup Scans(native) \cup StopsScan(native)
           \cup ContinuesConnect(native) \cup Disconnects(native)
           \cup (UNION {Enables(native, enabled) : enabled \in BOOLEAN})
           \cup (UNION {Connects(native, network, secret) :
                          network \in Networks, secret \in Ssid}) :
    native' = o.native /\ Arrived(o.posts)

(* A driver keeps the contract: it changes only by a command it was given  *)
(* or by an event it posts, and its events tell what happens to a          *)
(* connection in the order it happens.                                     *)
NativeSpec == native = NewNative /\ [][Posts \/ Commanded]_native

=============================================================================
