--------------------------- MODULE OrderedInterface --------------------------
(***************************************************************************)
(* roo_wifi::OrderedInterface: the adapter that turns a native station,    *)
(* whose events arrive on a thread of its own, into the deferred           *)
(* operations of hal/interface.h.                                          *)
(*                                                                         *)
(* adapter is the state only the scheduler thread touches, radio the       *)
(* boundary as the sink sees it: the commands admitted and what was        *)
(* reported since.  The actions take what the driver may answer to the     *)
(* command they give it, so that any driver can be put behind them: the    *)
(* one every NativeStation may be (OrderedStation) or the ESP32 one        *)
(* (Esp32Interface).                                                       *)
(*                                                                         *)
(* drain() is one task, so no API call happens inside it, but the driver   *)
(* posts between any two of its iterations.  An iteration handles one      *)
(* event and appends its calls on the sink to adapter.out; Deliver makes   *)
(* them one at a time, before anything else the scheduler does.            *)
(*                                                                         *)
(* Definitions named Slip... are mistakes someone could make in the method *)
(* that follows them; no specification uses them.                          *)
(***************************************************************************)
EXTENDS InterfaceContract, NativeEvents

CONSTANTS
  MaxId,               \* bound: identities the client hands out
  ScanWhileConnected   \* Support::scan_while_connected

ASSUME OrderedAssumption ==
  /\ MaxId \in Nat
  /\ ScanWhileConnected \in BOOLEAN

VARIABLES              \* and radio, native and mail
  adapter,
  client               \* whether begin() was called, and the next identity

vars == <<adapter, mail, native, client, radio>>

-----------------------------------------------------------------------------
(* The adapter object *)

NoStation == [id |-> 0, kind |-> "None"]

Unlinked == [id |-> 0, ssid |-> NoNetwork, phase |-> "Idle"]

NewAdapter ==
  [attached |-> FALSE, faulted |-> FALSE, enabled |-> FALSE,
   desired |-> FALSE, cancelling |-> FALSE, scan_cancelling |-> FALSE,
   waiting |-> FALSE, station |-> NoStation, scan |-> 0, link |-> Unlinked,
   config |-> NoNetwork, credentials |-> NoNetwork,
   draining |-> FALSE, out |-> <<>>]

(* Calls on the sink. *)
Reported(a) ==
  [a EXCEPT !.out = Append(@, [call |-> "link", id |-> a.link.id,
                               value |-> a.link.phase])]

Finished(kind, id, status) == [call |-> kind, id |-> id, value |-> status]

(* An operation is connecting when it is the admitted connect. *)
Connecting(a) == a.station.id # 0 /\ a.station.kind = "Connect"

SlipSecretLeft(a, error) ==
  IF a.station.id = 0 THEN a
  ELSE [a EXCEPT !.station = NoStation, !.cancelling = FALSE,
                 !.waiting = FALSE,
                 !.out = Append(@, Finished("station", a.station.id,
                           IF a.cancelling THEN "Cancelled" ELSE error))]

finishStation(a, error) ==
  IF a.station.id = 0 THEN a
  ELSE [a EXCEPT !.station = NoStation, !.cancelling = FALSE,
                 !.waiting = FALSE, !.credentials = NoNetwork,
                 !.out = Append(@, Finished("station", a.station.id,
                           IF a.cancelling THEN "Cancelled" ELSE error))]

finishScan(a, error) ==
  IF a.scan = 0 THEN a
  ELSE [a EXCEPT !.scan = 0, !.scan_cancelling = FALSE,
                 !.out = Append(@, Finished("scan", a.scan,
                           IF a.scan_cancelling THEN "Cancelled" ELSE error))]

(* A native call fails: the link is idle again and the operation over. *)
Abandoned(a, status) ==
  finishStation(Reported([a EXCEPT !.link.phase = "Idle"]), status)

(* startConnection(), up to what native_.connect() answers. *)
Started(a) ==
  Reported([a EXCEPT !.link = [id |-> a.station.id, ssid |-> a.config,
                               phase |-> "Connecting"]])

startConnection(a, answer) ==
  LET begun == [Started(a) EXCEPT !.credentials = NoNetwork]
  IN  IF answer = "Ok" THEN begun ELSE Abandoned(begun, answer)

-----------------------------------------------------------------------------
(* process(): one operator per kind of native event *)

onEnablement(a, event) ==
  LET enabled == event.kind = "Enabled"
      seen == [a EXCEPT !.enabled = enabled,
                        !.out = Append(@, [call |-> "enabled", id |-> 0,
                                           value |-> event.kind])]
      dropped == IF ~enabled /\ a.link.phase # "Idle"
                 THEN Reported([seen EXCEPT !.link.phase = "Idle"]) ELSE seen
  IN  IF /\ a.station.id # 0 /\ a.station.kind = "Enable"
         /\ enabled = a.desired
      THEN finishStation(dropped, event.status) ELSE dropped

(* Whether kPrepared is followed by native_.continueConnect(). *)
Continues(a) == Connecting(a) /\ ~a.waiting /\ ~a.cancelling

onPrepared(a, answer) ==
  IF Continues(a) /\ answer # "Ok" THEN Abandoned(a, answer) ELSE a

SlipConnectedEarly(a, event) ==
  IF a.link.phase = "Connecting" /\ event.ssid = a.link.ssid
  THEN LET up == Reported([a EXCEPT !.link.phase = "Associated"])
       IN  IF Connecting(a) THEN finishStation(up, "Ok") ELSE up
  ELSE a

onAssociated(a, event) ==
  IF a.link.phase = "Connecting" /\ event.ssid = a.link.ssid
  THEN Reported([a EXCEPT !.link.phase = "Associated"])
  ELSE a

SlipLateAddress(a, event) ==
  IF /\ event.ssid \in {NoNetwork, a.link.ssid}
     /\ a.link.phase \in {"Associated", "AddressReady"}
  THEN Reported([a EXCEPT !.link.phase = "AddressReady"])
  ELSE a

onAddressReady(a, event) ==
  IF /\ event.ssid \in {NoNetwork, a.link.ssid}
     /\ a.link.phase \in {"Associated", "AddressReady"}
     /\ ~a.waiting /\ ~a.cancelling
  THEN LET up == Reported([a EXCEPT !.link.phase = "AddressReady"])
       IN  IF a.station.kind = "Connect" /\ a.station.id = a.link.id
           THEN finishStation(up, "Ok") ELSE up
  ELSE a

SlipSilentLoss(a) ==
  IF a.link.phase = "AddressReady"
  THEN [a EXCEPT !.link.phase = "Associated"] ELSE a

onAddressLost(a) ==
  IF a.link.phase = "AddressReady"
  THEN Reported([a EXCEPT !.link.phase = "Associated"]) ELSE a

(* link_.reason *)
Reason(event) == IF event.status = "Ok" THEN "ConnectionFailed"
                                        ELSE event.status

SlipNotWaiting(a, event) ==
  IF event.ssid \notin {NoNetwork, a.link.ssid} THEN a
  ELSE LET down == Reported([a EXCEPT !.link.phase = "Idle"])
       IN  IF a.station.kind # "Enable"
           THEN finishStation(down, IF a.station.kind = "Disconnect" THEN "Ok"
                                                        ELSE Reason(event))
           ELSE down

(* The awaited disconnect lets the next connection start; any other ends   *)
(* the station operation, unless that is an enable.                        *)
onDisconnected(a, event) ==
  IF event.ssid \notin {NoNetwork, a.link.ssid} THEN a
  ELSE LET down == Reported([a EXCEPT !.link.phase = "Idle"])
       IN  CASE Connecting(a) /\ a.waiting /\ ~a.cancelling ->
                  [down EXCEPT !.waiting = FALSE]
             [] a.station.kind = "Disconnect" -> finishStation(down, "Ok")
             [] Connecting(a) /\ ~(a.waiting /\ ~a.cancelling) ->
                  finishStation(down, Reason(event))
             [] OTHER -> down

(* answer is what native_.continueConnect() returns, if it is called. *)
process(a, event, answer) ==
  IF a.faulted THEN a
  ELSE CASE event.kind \in {"Enabled", "Disabled"} -> onEnablement(a, event)
         [] event.kind = "Prepared"     -> onPrepared(a, answer)
         [] event.kind = "ScanDone"     -> finishScan(a, event.status)
         [] event.kind = "Associated"   -> onAssociated(a, event)
         [] event.kind = "AddressReady" -> onAddressReady(a, event)
         [] event.kind = "AddressLost"  -> onAddressLost(a)
         [] event.kind = "Disconnected" -> onDisconnected(a, event)

-----------------------------------------------------------------------------
(* API calls.  A call that only returns an error changes nothing. *)

(* The scheduler thread is in no callback. *)
Free == ~adapter.draining /\ adapter.out = <<>>

stationAdmission ==
  CASE ~adapter.attached \/ adapter.faulted -> "NotStarted"
    [] adapter.station.id # 0 \/ adapter.scan # 0 -> "Busy"
    [] OTHER -> "Ok"

(* The client hands out one identity per command, never 0. *)
Called ==
  /\ Free /\ client.next <= MaxId
  /\ client' = [client EXCEPT !.next = @ + 1]

Admitted(kind, enabled) ==
  [radio EXCEPT !.station = [id |-> client.next, kind |-> kind,
                             enabled |-> enabled, cancel |-> FALSE]]

(* The message for a link the station turns out not to have. *)
Synthetic == Event("Disconnected", adapter.link.ssid, "Ok")

(* What an already idle station leaves in the queue. *)
Acknowledged(d) == IF d.answer = "NotFound" THEN post(mail, Synthetic)
                                            ELSE mail

(* One adapter serves one controller, which begins once; a begin() whose   *)
(* attach() fails changes nothing.                                         *)
Begin(n) ==
  /\ Free /\ ~client.begun
  /\ client' = [client EXCEPT !.begun = TRUE]
  /\ adapter' = [adapter EXCEPT !.attached = TRUE, !.faulted = FALSE]
  /\ mail' = NewMail
  /\ native' = n
  /\ radio' = [radio EXCEPT !.attached = TRUE]

Shutdown(n) ==
  /\ Free /\ adapter.attached
  /\ adapter' = [adapter EXCEPT
                   !.attached = FALSE, !.station = NoStation, !.scan = 0,
                   !.credentials = NoNetwork, !.link = Unlinked]
  /\ mail' = [mail EXCEPT !.queue = <<>>, !.due = FALSE]
  /\ native' = n
  /\ radio' = NewRadio
  /\ UNCHANGED client

SetEnabled(enabled, enables) ==
  /\ Called /\ stationAdmission = "Ok"
  /\ \E e \in enables :
       /\ native' = e.native
       /\ mail' = Posted(mail, e.posts)
       /\ LET asked == [adapter EXCEPT !.desired = enabled]
          IN  IF e.answer = "Ok"
              THEN /\ adapter' = [asked EXCEPT !.station =
                                    [id |-> client.next, kind |-> "Enable"]]
                   /\ radio' = Admitted("Enable", enabled)
              ELSE adapter' = asked /\ UNCHANGED radio

StartScan(scans) ==
  /\ Called /\ stationAdmission = "Ok" /\ adapter.enabled
  /\ adapter.link.phase # "Idle" => ScanWhileConnected
  /\ \E s \in scans :
       /\ native' = s.native
       /\ IF s.answer = "Ok"
          THEN /\ adapter' = [adapter EXCEPT !.scan = client.next]
               /\ radio' = [radio EXCEPT !.scan =
                              [id |-> client.next, kind |-> "Scan",
                               enabled |-> FALSE, cancel |-> FALSE]]
          ELSE UNCHANGED <<adapter, radio>>
  /\ UNCHANGED mail

(* A connect waits for the teardown of the link there is. *)
Connect(network, disconnects) ==
  /\ Called /\ stationAdmission = "Ok" /\ adapter.enabled
  /\ LET taken == [adapter EXCEPT
                     !.station = [id |-> client.next, kind |-> "Connect"],
                     !.config = network, !.credentials = network]
     IN  IF adapter.link.phase = "Idle"
         THEN /\ adapter' = taken
              /\ mail' = scheduleNow(mail)
              /\ radio' = Admitted("Connect", FALSE)
              /\ UNCHANGED native
         ELSE \E d \in disconnects :
                /\ native' = d.native
                /\ mail' = Acknowledged(d)
                /\ IF d.answer \in {"Ok", "NotFound"}
                   THEN /\ adapter' = [taken EXCEPT !.waiting = TRUE]
                        /\ radio' = Admitted("Connect", FALSE)
                   ELSE /\ adapter' = [adapter EXCEPT
                                         !.config = network,
                                         !.credentials = NoNetwork,
                                         !.waiting = FALSE]
                        /\ UNCHANGED radio

Disconnect(disconnects) ==
  /\ Called /\ stationAdmission = "Ok"
  /\ \E d \in IF adapter.link.phase = "Idle"
              THEN {Answer("NotFound", native)} ELSE disconnects :
       /\ native' = d.native
       /\ mail' = Acknowledged(d)
       /\ IF d.answer \in {"Ok", "NotFound"}
          THEN /\ adapter' = [adapter EXCEPT
                    !.station = [id |-> client.next, kind |-> "Disconnect"],
                    !.waiting = TRUE]
               /\ radio' = Admitted("Disconnect", FALSE)
          ELSE /\ adapter' = [adapter EXCEPT !.waiting = FALSE]
               /\ UNCHANGED radio

CancelScan(stops) ==
  /\ Free /\ adapter.scan # 0 /\ ~adapter.scan_cancelling
  /\ \E s \in stops :
       /\ native' = s.native
       /\ IF s.answer = "Ok"
          THEN /\ adapter' = [adapter EXCEPT !.scan_cancelling = TRUE]
               /\ radio' = [radio EXCEPT !.scan.cancel = TRUE]
          ELSE UNCHANGED <<adapter, radio>>
  /\ UNCHANGED <<mail, client>>

CancelConnect(disconnects) ==
  /\ Free /\ Connecting(adapter) /\ ~adapter.cancelling
  /\ LET teardown == ~adapter.waiting /\ adapter.link.phase # "Idle"
     IN  \E d \in IF teardown THEN disconnects ELSE {Answer("Ok", native)} :
           /\ native' = d.native
           /\ IF d.answer \in {"Ok", "NotFound"}
              THEN /\ adapter' = [adapter EXCEPT !.cancelling = TRUE,
                                                 !.waiting = @ \/ teardown]
                   /\ mail' = scheduleNow(Acknowledged(d))
                   /\ radio' = [radio EXCEPT !.station.cancel = TRUE]
              ELSE UNCHANGED <<adapter, mail, radio>>
  /\ UNCHANGED client

-----------------------------------------------------------------------------
(* drain() *)

Drain ==
  /\ Free /\ adapter.attached /\ mail.due
  /\ adapter' = [adapter EXCEPT !.draining = TRUE]
  /\ mail' = [mail EXCEPT !.due = FALSE]
  /\ UNCHANGED <<native, client, radio>>

Iterates == adapter.draining /\ adapter.out = <<>>

DrainEvent(continues) ==
  /\ Iterates /\ ~mail.overflow /\ mail.queue # <<>>
  /\ LET event == Head(mail.queue)
         calls == /\ ~adapter.faulted /\ event.kind = "Prepared"
                  /\ Continues(adapter)
     IN  \E c \in IF calls THEN continues ELSE {Answer("Ok", native)} :
           /\ native' = c.native
           /\ adapter' = process(adapter, event, c.answer)
  /\ mail' = [mail EXCEPT !.queue = Tail(@)]
  /\ UNCHANGED <<client, radio>>

SlipScanLeft(a) ==
  finishStation([a EXCEPT !.faulted = TRUE, !.draining = FALSE],
                "ConnectionFailed")

(* What drain() does about an overflow: it settles both operations. *)
Overflown(a) ==
  finishScan(finishStation([a EXCEPT !.faulted = TRUE, !.draining = FALSE],
                           "ConnectionFailed"), "ConnectionFailed")

DrainOverflow ==
  /\ Iterates /\ mail.overflow
  /\ adapter' = Overflown(adapter)
  /\ mail' = [mail EXCEPT !.queue = <<>>]
  /\ radio' = [radio EXCEPT !.dead = TRUE]
  /\ UNCHANGED <<native, client>>

(* The queue is empty: a connect that waits for nothing is started. *)
DrainEnds(connects) ==
  /\ Iterates /\ ~mail.overflow /\ mail.queue = <<>>
  /\ LET a == [adapter EXCEPT !.draining = FALSE]
         starts == Connecting(a) /\ ~a.waiting /\ a.link.phase = "Idle"
     IN  IF starts /\ ~a.cancelling
         THEN \E c \in connects :
                /\ adapter' = startConnection(a, c.answer)
                /\ native' = c.native
                /\ mail' = Posted(mail, c.posts)
         ELSE /\ adapter' = IF starts THEN finishStation(a, "Cancelled") ELSE a
              /\ UNCHANGED <<native, mail>>
  /\ UNCHANGED <<client, radio>>

Deliver ==
  /\ adapter.out # <<>>
  /\ LET told == Head(adapter.out)
     IN  radio' = CASE told.call = "link" ->
                         [radio EXCEPT !.link = [id |-> told.id,
                                                 phase |-> told.value]]
                    [] told.call = "enabled" ->
                         [radio EXCEPT !.enabled = (told.value = "Enabled")]
                    [] told.call = "station" ->
                         [radio EXCEPT !.station = NoCommand]
                    [] told.call = "scan" ->
                         [radio EXCEPT !.scan = NoCommand]
  /\ adapter' = [adapter EXCEPT !.out = Tail(@)]
  /\ UNCHANGED <<mail, native, client>>

-----------------------------------------------------------------------------

AdapterInit ==
  /\ adapter = NewAdapter
  /\ mail = NewMail
  /\ client = [begun |-> FALSE, next |-> 1]
  /\ radio = NewRadio

-----------------------------------------------------------------------------
(* Properties *)

Events == [kind : {"Enabled", "Disabled", "Associated", "AddressReady",
                   "AddressLost", "Disconnected", "ScanDone", "Prepared"},
           ssid : Ssid, status : Status]

Calls == [call : {"link", "enabled", "station", "scan"}, id : Nat,
          value : LinkPhase \cup Status \cup {"Enabled", "Disabled"}]

Adapters ==
  [attached : BOOLEAN, faulted : BOOLEAN, enabled : BOOLEAN,
   desired : BOOLEAN, cancelling : BOOLEAN, scan_cancelling : BOOLEAN,
   waiting : BOOLEAN, station : [id : Nat, kind : Transition], scan : Nat,
   link : [id : Nat, ssid : Ssid, phase : LinkPhase],
   config : Ssid, credentials : Ssid, draining : BOOLEAN, out : Seq(Calls)]

(* Every field keeps its type, and the queue never grows beyond the array  *)
(* that holds it, however many events the driver posts.                    *)
AdapterTypeOK ==
  /\ adapter \in Adapters
  /\ mail \in [queue : Seq(Events), overflow : BOOLEAN, due : BOOLEAN]
  /\ Len(mail.queue) <= Capacity
  /\ client \in [begun : BOOLEAN, next : 1..(MaxId + 1)]
  /\ radio \in Radios

(* Between two callbacks the sink knows exactly what the adapter knows:    *)
(* no change of the link or the enablement goes unreported and every       *)
(* command admitted and not completed is still there, with its             *)
(* cancellation.                                                           *)
NothingUnreported ==
  adapter.attached /\ adapter.out = <<>> =>
    /\ radio.link = [id |-> adapter.link.id, phase |-> adapter.link.phase]
    /\ radio.enabled = adapter.enabled
    /\ radio.station.id = adapter.station.id
    /\ radio.station.kind = adapter.station.kind
    /\ radio.station.cancel = adapter.cancelling
    /\ radio.scan.id = adapter.scan
    /\ radio.scan.cancel = adapter.scan_cancelling
    /\ radio.dead = adapter.faulted

(* Every completion that is delivered is the one of the outstanding        *)
(* command and has an outcome the contract allows at that moment: connect  *)
(* succeeds only with an address under its own identity and fails only     *)
(* with the link down, nothing cancelled succeeds, and only a fault ends a *)
(* command in any other way.                                               *)
ResultsAreEarned ==
  adapter.out # <<>> =>
    LET told == Head(adapter.out)
    IN  /\ told.call = "station" =>
             /\ told.id = radio.station.id
             /\ IF radio.dead THEN told.value = FaultResult(radio.station)
                              ELSE told.value \in StationResults
        /\ told.call = "scan" =>
             /\ told.id = radio.scan.id
             /\ told.value \in ScanResults

(* The adapter holds credentials only for a connect it has admitted and    *)
(* not yet handed to the driver.                                           *)
CredentialsAreShortLived ==
  adapter.credentials # NoNetwork =>
    /\ Connecting(adapter) /\ adapter.link.id # adapter.station.id
    /\ adapter.credentials = adapter.config

(* A connect fails by its own failure, after its own attempt was started   *)
(* and announced: events of the previous connection that were still in the *)
(* queue, or that answer its teardown, do not complete it.                 *)
FailureIsOwn ==
  adapter.out # <<>> /\ ~radio.dead /\ radio.station.kind = "Connect" =>
    LET told == Head(adapter.out)
    IN  told.call = "station" /\ told.value # "Cancelled" =>
          radio.link.id = told.id

(* A lost event never strands a command: after an overflow the adapter     *)
(* completes what it had admitted, station and scan, and admits no more.   *)
OverflowSettlesAll == radio.dead /\ adapter.out = <<>> => Idle

(* Every command that depends on the driver alone completes: an enable, a  *)
(* disconnect, a cancelled connect and a scan, unless the client shuts     *)
(* down.                                                                   *)
CommandsComplete ==
  /\ /\ radio.station.id # 0
     /\ radio.station.kind # "Connect" \/ radio.station.cancel
     ~> radio.station.id = 0
  /\ radio.scan.id # 0 ~> radio.scan.id = 0

=============================================================================
