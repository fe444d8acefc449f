----------------------- MODULE OrderedInterfaceProofs ------------------------
(***************************************************************************)
(* What OrderedInterface does whatever the driver behind it.               *)
(*                                                                         *)
(* The invariant says that the boundary, once the pending calls on the     *)
(* sink are delivered, is what the adapter believes (Believed), and that   *)
(* every one of these calls is allowed by the contract at the moment it    *)
(* will be made.  After and AllAllowed spell that out for the at most      *)
(* three calls one iteration of drain() leaves behind, and each method     *)
(* that appends a call has a lemma of its own, so that process() is a      *)
(* composition.                                                            *)
(***************************************************************************)
EXTENDS OrderedInterface, SequenceTheorems, TLAPS

(* What a driver may answer and report: it never claims a cancellation,    *)
(* and a change of the enablement is a success.                            *)
AnswerStatus == {"Ok"} \cup (AdapterErrors \ {"Cancelled"})

SaneEvents ==
  {event \in Events :
     /\ event.status \in AnswerStatus \cup {"ConnectionFailed"}
     /\ event.kind \in {"Enabled", "Disabled"} => event.status = "Ok"}

Sane(outcome) ==
  /\ outcome.answer \in AnswerStatus
  /\ outcome.posts = <<>> \/ \E event \in SaneEvents : outcome.posts = <<event>>

-----------------------------------------------------------------------------
(* The calls on the sink *)

(* What a call tells the sink. *)
Received(r, told) ==
  CASE told.call = "link" ->
         [r EXCEPT !.link = [id |-> told.id, phase |-> told.value]]
    [] told.call = "enabled" ->
         [r EXCEPT !.enabled = (told.value = "Enabled")]
    [] told.call = "station" -> [r EXCEPT !.station = NoCommand]
    [] told.call = "scan" -> [r EXCEPT !.scan = NoCommand]

(* NextLinks, StationResults and ScanResults for any state of the boundary *)
LinkAllowed(r, link) ==
  LET leaving == r.station.kind = "Disconnect" \/ r.station.cancel
  IN  \/ /\ link.id = r.link.id /\ link.phase \in NextPhase(r.link.phase)
         /\ link.phase = "AddressReady" => ~leaving
      \/ /\ link = [id |-> r.station.id, phase |-> "Connecting"]
         /\ r.link.phase = "Idle" /\ r.station.kind = "Connect" /\ ~leaving

Reached(r) ==
  CASE r.station.kind = "Enable" -> r.enabled = r.station.enabled
    [] r.station.kind = "Connect" ->
         r.link = [id |-> r.station.id, phase |-> "AddressReady"]
    [] r.station.kind = "Disconnect" -> r.link.phase = "Idle"
    [] OTHER -> FALSE

StationAllowed(r, st) ==
  IF r.dead THEN st = FaultResult(r.station)
  ELSE /\ st \in {"Ok", "Cancelled", "ConnectionFailed"} \cup AdapterErrors
       /\ st = "Ok" => Reached(r) /\ ~r.station.cancel
       /\ st # "Ok" /\ r.station.kind = "Connect" => r.link.phase = "Idle"
       /\ st = "Cancelled" => r.station.cancel
       /\ st = "ConnectionFailed" => \/ r.station.kind = "Connect"
                                     \/ st \in AdapterErrors

ScanAllowed(r, st) ==
  /\ st \in {"Ok", "Cancelled", "ConnectionFailed"} \cup AdapterErrors
  /\ st = "Cancelled" => r.scan.cancel

Allowed(r, told) ==
  /\ r.attached
  /\ CASE told.call = "link" ->
            ~r.dead /\ LinkAllowed(r, [id |-> told.id, phase |-> told.value])
       [] told.call = "enabled" -> ~r.dead
       [] told.call = "station" ->
            /\ told.id # 0 /\ told.id = r.station.id
            /\ StationAllowed(r, told.value)
       [] told.call = "scan" ->
            /\ told.id # 0 /\ told.id = r.scan.id
            /\ ScanAllowed(r, told.value)

(* The boundary after all pending calls, of which there are at most three. *)
After(r, o) ==
  CASE Len(o) = 0 -> r
    [] Len(o) = 1 -> Received(r, o[1])
    [] Len(o) = 2 -> Received(Received(r, o[1]), o[2])
    [] OTHER -> Received(Received(Received(r, o[1]), o[2]), o[3])

AllAllowed(r, o) ==
  /\ Len(o) \in 0..3
  /\ Len(o) > 0 => Allowed(r, o[1])
  /\ Len(o) > 1 => Allowed(Received(r, o[1]), o[2])
  /\ Len(o) > 2 => Allowed(Received(Received(r, o[1]), o[2]), o[3])

-----------------------------------------------------------------------------
(* The invariant *)

Command(id, kind, enabled, cancel) ==
  IF id = 0 THEN NoCommand
  ELSE [id |-> id, kind |-> kind, enabled |-> enabled, cancel |-> cancel]

(* The boundary as the adapter believes it to be. *)
Believed(a) ==
  IF ~a.attached THEN NewRadio
  ELSE [attached |-> TRUE, dead |-> a.faulted,
        station |-> Command(a.station.id, a.station.kind,
                            a.station.kind = "Enable" /\ a.desired,
                            a.cancelling),
        scan |-> Command(a.scan, "Scan", FALSE, a.scan_cancelling),
        link |-> [id |-> a.link.id, phase |-> a.link.phase],
        enabled |-> a.enabled]

Settled(a, r) ==
  /\ a \in Adapters /\ r \in Radios
  /\ AllAllowed(r, a.out) /\ After(r, a.out) = Believed(a)

(* What the methods rely on: one operation at a time, with the flags that  *)
(* belong to it; none before begin() or after a fault.                     *)
Operations(a) ==
  /\ a.station.id = 0 <=> a.station.kind = "None"
  /\ a.station.id # 0 => a.scan = 0
  /\ a.attached /\ a.cancelling => Connecting(a)
  /\ a.attached /\ a.scan_cancelling => a.scan # 0
  /\ a.station.kind = "Disconnect" => a.waiting
  /\ a.faulted \/ ~a.attached => a.station.id = 0 /\ a.scan = 0
  /\ ~a.attached => ~a.draining /\ a.out = <<>>

(* Credentials are those of the connect that has not been started. *)
Secret(a) ==
  a.credentials # NoNetwork =>
    /\ Connecting(a) /\ a.link.id # a.station.id
    /\ a.credentials = a.config

(* Every identity in use has been handed out. *)
Issued(a, next) == a.station.id < next /\ a.scan < next /\ a.link.id < next

Sound(a) == Operations(a) /\ Secret(a) /\ Issued(a, client.next)

Mailed(m) ==
  /\ m \in [queue : Seq(SaneEvents), overflow : BOOLEAN, due : BOOLEAN]
  /\ Len(m.queue) <= Capacity

Inv ==
  /\ Settled(adapter, radio) /\ Sound(adapter)
  /\ Mailed(mail)
  /\ adapter.attached /\ adapter.faulted => mail.overflow
  /\ client \in [begun : BOOLEAN, next : 1..(MaxId + 1)]
  /\ ~client.begun => adapter = NewAdapter

-----------------------------------------------------------------------------
(* Pending calls are appended at the end and delivered at the front. *)

LEMMA CallAppended ==
  ASSUME NEW o \in Seq(Calls), NEW c \in Calls, NEW r,
         AllAllowed(r, o), Len(o) < 3
  PROVE  /\ Append(o, c) \in Seq(Calls)
         /\ Len(Append(o, c)) = Len(o) + 1
         /\ After(r, Append(o, c)) = Received(After(r, o), c)
         /\ Allowed(After(r, o), c) => AllAllowed(r, Append(o, c))
<1> DEFINE p == Append(o, c)
           n == Len(o)
<1>1. /\ p \in Seq(Calls) /\ Len(p) = n + 1 /\ p[n + 1] = c
      /\ \A i \in 1..n : p[i] = o[i]
  BY AppendProperties
<1>2. n \in 0..2
  BY DEF AllAllowed
<1> HIDE DEF p, n
<1>3. /\ n > 0 => p[1] = o[1]
      /\ n > 1 => p[2] = o[2]
  BY <1>1, <1>2
<1>4. After(r, p) = Received(After(r, o), c)
  BY <1>1, <1>2, <1>3 DEF After, n
<1>5. Allowed(After(r, o), c) => AllAllowed(r, p)
  BY <1>1, <1>2, <1>3 DEF After, AllAllowed, n
<1> QED BY <1>1, <1>4, <1>5 DEF p, n

LEMMA CallDelivered ==
  ASSUME NEW o \in Seq(Calls), o # <<>>, NEW r, AllAllowed(r, o)
  PROVE  /\ Head(o) \in Calls /\ Tail(o) \in Seq(Calls)
         /\ Allowed(r, Head(o))
         /\ AllAllowed(Received(r, Head(o)), Tail(o))
         /\ After(Received(r, Head(o)), Tail(o)) = After(r, o)
<1> DEFINE p == Tail(o)
           n == Len(p)
<1>1. /\ p \in Seq(Calls) /\ Len(o) = n + 1 /\ n \in 0..2
      /\ \A i \in 1..n : p[i] = o[i + 1]
  BY HeadTailProperties, EmptySeq DEF AllAllowed
<1>2. Head(o) = o[1] /\ Head(o) \in Calls
  BY HeadTailProperties
<1> HIDE DEF p, n
<1>3. /\ n > 0 => p[1] = o[2]
      /\ n > 1 => p[2] = o[3]
  BY <1>1
<1>4. After(Received(r, o[1]), p) = After(r, o)
  BY <1>1, <1>3 DEF After, n
<1>5. Allowed(r, o[1]) /\ AllAllowed(Received(r, o[1]), p)
  BY <1>1, <1>3 DEF AllAllowed, n
<1> QED BY <1>1, <1>2, <1>4, <1>5 DEF p

LEMMA NothingPending ==
  ASSUME NEW a, NEW r, a.out = <<>>
  PROVE  Settled(a, r) <=> a \in Adapters /\ r \in Radios /\ r = Believed(a)
<1>1. Len(a.out) = 0
  BY EmptySeq
<1> QED BY <1>1 DEF Settled, AllAllowed, After

(* Settled is about what the boundary can see. *)
LEMMA SameView ==
  ASSUME NEW a, NEW r, Settled(a, r), NEW b \in Adapters,
         b.out = a.out, Believed(b) = Believed(a)
  PROVE  Settled(b, r)
BY DEF Settled

LEMMA AdapterTyped ==
  ASSUME NEW a \in Adapters
  PROVE  /\ a.out \in Seq(Calls) /\ a.attached \in BOOLEAN
         /\ a.faulted \in BOOLEAN /\ a.enabled \in BOOLEAN
         /\ a.desired \in BOOLEAN /\ a.cancelling \in BOOLEAN
         /\ a.scan_cancelling \in BOOLEAN /\ a.waiting \in BOOLEAN
         /\ a.draining \in BOOLEAN
         /\ a.station.id \in Nat /\ a.station.kind \in Transition
         /\ a.station = [id |-> a.station.id, kind |-> a.station.kind]
         /\ a.scan \in Nat
         /\ a.link.id \in Nat /\ a.link.ssid \in Ssid
         /\ a.link.phase \in LinkPhase
         /\ a.link = [id |-> a.link.id, ssid |-> a.link.ssid,
                      phase |-> a.link.phase]
         /\ a.config \in Ssid /\ a.credentials \in Ssid
BY DEF Adapters

(* What is pending after one more call. *)
LEMMA CallSettled ==
  ASSUME NEW a, NEW r, Settled(a, r), Len(a.out) < 3,
         NEW told \in Calls, Allowed(Believed(a), told),
         NEW b \in Adapters, b.out = Append(a.out, told),
         Believed(b) = Received(Believed(a), told)
  PROVE  Settled(b, r) /\ Len(b.out) = Len(a.out) + 1
<1>1. a.out \in Seq(Calls)
  BY AdapterTyped DEF Settled
<1> QED BY <1>1, CallAppended DEF Settled

Links == [id : Nat, ssid : Ssid, phase : LinkPhase]

(* A link is reported. *)
LEMMA LinkSettled ==
  ASSUME NEW a, NEW r, Settled(a, r), Len(a.out) < 3,
         a.attached, ~a.faulted, NEW link \in Links,
         LinkAllowed(Believed(a), [id |-> link.id, phase |-> link.phase])
  PROVE  LET b == Reported([a EXCEPT !.link = link])
         IN  Settled(b, r) /\ Len(b.out) = Len(a.out) + 1
<1> DEFINE told == [call |-> "link", id |-> link.id, value |-> link.phase]
<1>1. PICK b : b = Reported([a EXCEPT !.link = link])
  OBVIOUS
<1>2. a \in Adapters /\ a.out \in Seq(Calls) /\ told \in Calls
  BY AdapterTyped DEF Settled, Calls, Links
<1>3. Append(a.out, told) \in Seq(Calls)
  BY <1>2, AppendProperties
<1>4. b = [a EXCEPT !.link = link, !.out = Append(a.out, told)]
  BY <1>1, <1>2 DEF Reported, Adapters
<1>5. b \in Adapters /\ b.out = Append(a.out, told)
  BY <1>2, <1>3, <1>4 DEF Adapters, Links
<1>6. Believed(b) = Received(Believed(a), told)
  BY <1>2, <1>4 DEF Believed, Received, Adapters
<1>7. Allowed(Believed(a), told)
  BY DEF Allowed, Believed
<1> QED BY <1>1, <1>2, <1>5, <1>6, <1>7, CallSettled

(* The enablement is reported. *)
EnabledSeen(a, enabled) ==
  [a EXCEPT !.enabled = enabled,
            !.out = Append(@, [call |-> "enabled", id |-> 0,
                               value |-> IF enabled THEN "Enabled"
                                                    ELSE "Disabled"])]

LEMMA EnabledSettled ==
  ASSUME NEW a, NEW r, Settled(a, r), Len(a.out) < 3,
         a.attached, ~a.faulted, NEW enabled \in BOOLEAN
  PROVE  LET b == EnabledSeen(a, enabled)
         IN  Settled(b, r) /\ Len(b.out) = Len(a.out) + 1
<1> DEFINE told == [call |-> "enabled", id |-> 0,
                    value |-> IF enabled THEN "Enabled" ELSE "Disabled"]
<1>1. PICK b : b = EnabledSeen(a, enabled)
  OBVIOUS
<1>2. a \in Adapters /\ a.out \in Seq(Calls) /\ told \in Calls
  BY AdapterTyped DEF Settled, Calls
<1>3. Append(a.out, told) \in Seq(Calls)
  BY <1>2, AppendProperties
<1>4. b = [a EXCEPT !.enabled = enabled, !.out = Append(a.out, told)]
  BY <1>1, <1>2 DEF EnabledSeen, Adapters
<1>5. b \in Adapters /\ b.out = Append(a.out, told)
  BY <1>2, <1>3, <1>4 DEF Adapters
<1>6. Believed(b) = Received(Believed(a), told)
  BY <1>2, <1>4, ZenonT(30) DEF Believed, Received, Adapters
<1>7. Allowed(Believed(a), told)
  BY DEF Allowed, Believed
<1> QED BY <1>1, <1>2, <1>5, <1>6, <1>7, CallSettled

Outcome(a, error) == IF a.cancelling THEN "Cancelled" ELSE error

(* The station operation completes. *)
LEMMA StationSettled ==
  ASSUME NEW a, NEW r, Settled(a, r), Len(a.out) < 3, a.attached,
         a.station.id # 0, NEW error \in Status,
         StationAllowed(Believed(a), Outcome(a, error))
  PROVE  LET b == finishStation(a, error)
         IN  Settled(b, r) /\ Len(b.out) = Len(a.out) + 1
<1> DEFINE told == [call |-> "station", id |-> a.station.id,
                    value |-> Outcome(a, error)]
<1>1. PICK b : b = finishStation(a, error)
  OBVIOUS
<1>2. a \in Adapters /\ a.out \in Seq(Calls) /\ told \in Calls
  <2>1. a \in Adapters
    BY DEF Settled
  <2>2. Outcome(a, error) \in Status
    BY DEF Outcome, Status
  <2> QED BY <2>1, <2>2, AdapterTyped DEF Calls
<1>3. Append(a.out, told) \in Seq(Calls)
  BY <1>2, AppendProperties
<1>4. b = [a EXCEPT !.station = NoStation, !.cancelling = FALSE,
                    !.waiting = FALSE, !.credentials = NoNetwork,
                    !.out = Append(a.out, told)]
  BY <1>1, <1>2 DEF finishStation, Finished, Outcome, Adapters
<1>5. b \in Adapters /\ b.out = Append(a.out, told)
  BY <1>2, <1>3, <1>4 DEF Adapters, NoStation, Ssid, Transition
<1>6. Believed(b) = Received(Believed(a), told)
  BY <1>2, <1>4 DEF Believed, Received, Adapters, Command, NoStation
<1>7. Allowed(Believed(a), told)
  BY <1>2 DEF Allowed, Believed, Command
<1> QED BY <1>1, <1>2, <1>5, <1>6, <1>7, CallSettled

(* The scan completes. *)
ScanOutcome(a, error) == IF a.scan_cancelling THEN "Cancelled" ELSE error

LEMMA ScanSettled ==
  ASSUME NEW a, NEW r, Settled(a, r), Len(a.out) < 3, a.attached,
         a.scan # 0, NEW error \in Status,
         ScanAllowed(Believed(a), ScanOutcome(a, error))
  PROVE  LET b == finishScan(a, error)
         IN  Settled(b, r) /\ Len(b.out) = Len(a.out) + 1
<1> DEFINE told == [call |-> "scan", id |-> a.scan,
                    value |-> ScanOutcome(a, error)]
<1>1. PICK b : b = finishScan(a, error)
  OBVIOUS
<1>2. a \in Adapters /\ a.out \in Seq(Calls) /\ told \in Calls
  <2>1. a \in Adapters
    BY DEF Settled
  <2>2. ScanOutcome(a, error) \in Status
    BY DEF ScanOutcome, Status
  <2> QED BY <2>1, <2>2, AdapterTyped DEF Calls
<1>3. Append(a.out, told) \in Seq(Calls)
  BY <1>2, AppendProperties
<1>4. b = [a EXCEPT !.scan = 0, !.scan_cancelling = FALSE,
                    !.out = Append(a.out, told)]
  BY <1>1, <1>2 DEF finishScan, Finished, ScanOutcome, Adapters
<1>5. b \in Adapters /\ b.out = Append(a.out, told)
  BY <1>2, <1>3, <1>4 DEF Adapters
<1>6. Believed(b) = Received(Believed(a), told)
  BY <1>2, <1>4 DEF Believed, Received, Adapters, Command
<1>7. Allowed(Believed(a), told)
  BY <1>2 DEF Allowed, Believed, Command
<1> QED BY <1>1, <1>2, <1>5, <1>6, <1>7, CallSettled

-----------------------------------------------------------------------------
(* The methods of a live adapter, inside an iteration of drain() *)

(* The number of calls that are pending *)
Size(a) == Len(a.out)

Live(a, r, next) ==
  /\ Settled(a, r) /\ a.attached /\ ~a.faulted
  /\ Operations(a) /\ Secret(a) /\ Issued(a, next)

(* The link of b, or its enablement, is all that a report changes. *)
Relinked(a, b, phase) == b = [a EXCEPT !.link.phase = phase, !.out = b.out]

Reenabled(a, b, enabled) == b = [a EXCEPT !.enabled = enabled, !.out = b.out]

LEMMA LinkLive ==
  ASSUME NEW a, NEW r, NEW next \in Nat, Live(a, r, next), Size(a) < 3,
         NEW phase \in NextPhase(a.link.phase),
         phase = "AddressReady" => ~a.waiting /\ ~a.cancelling,
         NEW b, b = Reported([a EXCEPT !.link.phase = phase])
  PROVE  /\ Live(b, r, next) /\ Size(b) = Size(a) + 1
         /\ Relinked(a, b, phase)
<1> DEFINE link == [id |-> a.link.id, ssid |-> a.link.ssid, phase |-> phase]
<1>1. a \in Adapters
  BY DEF Live, Settled
<1>2. link \in Links
  BY <1>1, AdapterTyped DEF Links, NextPhase, LinkPhase
<1>3. [a EXCEPT !.link.phase = phase] = [a EXCEPT !.link = link]
  BY <1>1, SMTT(30) DEF Adapters
<1>4. LinkAllowed(Believed(a), [id |-> link.id, phase |-> link.phase])
  <2>1. Believed(a).link = [id |-> a.link.id, phase |-> a.link.phase]
    BY DEF Believed, Live
  <2>2. phase = "AddressReady" =>
          /\ Believed(a).station.kind # "Disconnect" /\ ~Believed(a).station.cancel
    BY DEF Believed, Live, Operations, Command, NoCommand
  <2> QED BY <2>1, <2>2 DEF LinkAllowed
<1>5. b = Reported([a EXCEPT !.link = link])
  BY <1>3
<1>6. Settled(b, r) /\ Size(b) = Size(a) + 1
  BY <1>2, <1>4, <1>5, LinkSettled DEF Live, Size
<1>7. b = [a EXCEPT !.link = link, !.out = b.out]
  BY <1>1, <1>5 DEF Reported, Adapters
<1>8. Operations(b) /\ Secret(b) /\ Issued(b, next) /\ b.attached /\ ~b.faulted
  <2>1. /\ b.station = a.station /\ b.scan = a.scan /\ b.link = link
        /\ b.credentials = a.credentials /\ b.config = a.config
    BY <1>1, <1>7 DEF Adapters
  <2>5. b.cancelling = a.cancelling
    BY <1>1, <1>7 DEF Adapters
  <2>6. b.waiting = a.waiting
    BY <1>1, <1>7 DEF Adapters
  <2>7. b.scan_cancelling = a.scan_cancelling
    BY <1>1, <1>7 DEF Adapters
  <2>2. b.attached = a.attached
    BY <1>1, <1>7 DEF Adapters
  <2>3. b.faulted = a.faulted
    BY <1>1, <1>7 DEF Adapters
  <2>4. b.attached /\ ~b.faulted
    BY <2>2, <2>3 DEF Live
  <2> QED
    BY <2>1, <2>4, <2>5, <2>6, <2>7
       DEF Live, Operations, Secret, Issued, Connecting
<1>9. b = [a EXCEPT !.link.phase = phase, !.out = b.out]
  BY <1>1, <1>7 DEF Adapters
<1> QED BY <1>3, <1>5, <1>6, <1>8, <1>9 DEF Live, Relinked

LEMMA LinkDown ==
  ASSUME NEW a, NEW r, NEW next \in Nat, Live(a, r, next), Size(a) < 3,
         NEW b, b = Reported([a EXCEPT !.link.phase = "Idle"])
  PROVE  /\ Live(b, r, next) /\ Size(b) = Size(a) + 1
         /\ Relinked(a, b, "Idle")
<1>1. a.link.phase \in LinkPhase
  BY AdapterTyped DEF Live, Settled
<1>2. "Idle" \in NextPhase(a.link.phase)
  BY <1>1 DEF NextPhase, LinkPhase
<1>3. PICK phase : phase = "Idle"
  OBVIOUS
<1>4. phase = "AddressReady" => ~a.waiting /\ ~a.cancelling
  BY <1>3
<1>5. phase \in NextPhase(a.link.phase)
      /\ b = Reported([a EXCEPT !.link.phase = phase])
  BY <1>2, <1>3
<1>6. /\ Live(b, r, next) /\ Size(b) = Size(a) + 1
      /\ Relinked(a, b, phase)
  BY <1>4, <1>5, LinkLive
<1> QED BY <1>3, <1>6

(* An operation may complete once its physical state is reached, a connect *)
(* in any other way once its link is down.                                 *)
Completes(a, error) ==
  /\ error \in AnswerStatus \cup {"ConnectionFailed"}
  /\ error # "Ok" => a.station.kind = "Connect"
  /\ (error # "Ok" \/ a.cancelling) /\ a.station.kind = "Connect" =>
       a.link.phase = "Idle"
  /\ error = "Ok" /\ ~a.cancelling =>
       CASE a.station.kind = "Enable" -> a.enabled = a.desired
         [] a.station.kind = "Connect" ->
              a.link.id = a.station.id /\ a.link.phase = "AddressReady"
         [] OTHER -> a.link.phase = "Idle"

LEMMA StationLive ==
  ASSUME NEW a, NEW r, NEW next \in Nat, Live(a, r, next), Size(a) < 3,
         NEW error, a.station.id # 0 => Completes(a, error),
         NEW b, b = finishStation(a, error)
  PROVE  /\ Live(b, r, next) /\ Size(b) \in {Size(a), Size(a) + 1}
         /\ b.link = a.link /\ b.station.id = 0
<1>1. CASE a.station.id = 0
  <2>1. Size(a) \in Nat
    BY AdapterTyped, EmptySeq DEF Live, Settled, AllAllowed, Size
  <2> QED BY <1>1, <2>1 DEF finishStation
<1>2. CASE a.station.id # 0
  <2>1. a \in Adapters
    BY DEF Live, Settled
  <2>2. error \in Status
    BY <1>2, AdapterErrorsAssumption DEF Completes, AnswerStatus, Status
  <2>3. a.station.kind \in {"Enable", "Connect", "Disconnect"}
    BY <1>2, <2>1 DEF Live, Operations, Adapters, Transition
  <2>4. /\ Believed(a).station = [id |-> a.station.id, kind |-> a.station.kind,
                              enabled |->
                                a.station.kind = "Enable" /\ a.desired,
                              cancel |-> a.cancelling]
        /\ Believed(a).link = [id |-> a.link.id, phase |-> a.link.phase]
        /\ Believed(a).enabled = a.enabled /\ Believed(a).dead = a.faulted
    BY <1>2, <2>1 DEF Believed, Live, Command, Adapters
  <2>5. StationAllowed(Believed(a), Outcome(a, error))
    <3>1. CASE a.cancelling
      BY <1>2, <2>1, <2>3, <2>4, <3>1
         DEF StationAllowed, Outcome, Completes, Live
    <3>2. CASE ~a.cancelling
      <4>1. Outcome(a, error) = error
        BY <3>2 DEF Outcome
      <4>2. error # "Cancelled"
        BY <1>2 DEF Completes, AnswerStatus
      <4>3. error = "Ok" => Reached(Believed(a))
        BY <1>2, <2>1, <2>3, <2>4, <3>2 DEF Completes, Reached, Adapters
      <4>4. error # "Ok" => a.station.kind = "Connect" /\ a.link.phase = "Idle"
        BY <1>2 DEF Completes
      <4>5. error \in {"Ok", "Cancelled", "ConnectionFailed"} \cup AdapterErrors
        BY <1>2 DEF Completes, AnswerStatus
      <4> QED
        BY <2>4, <3>2, <4>1, <4>2, <4>3, <4>4, <4>5 DEF StationAllowed, Live
    <3> QED BY <2>1, <3>1, <3>2, AdapterTyped
  <2>7. Settled(b, r) /\ Size(b) = Size(a) + 1
    BY <1>2, <2>2, <2>5, StationSettled DEF Live, Size
  <2>8. b = [a EXCEPT !.station = NoStation, !.cancelling = FALSE,
                      !.waiting = FALSE, !.credentials = NoNetwork,
                      !.out = b.out]
    BY <1>2, <2>1 DEF finishStation, Adapters
  <2>9. /\ Operations(b) /\ Secret(b) /\ Issued(b, next)
        /\ b.attached /\ ~b.faulted /\ b.link = a.link /\ b.station.id = 0
    <3>1. /\ b.station = NoStation /\ b.scan = a.scan /\ b.link = a.link
          /\ b.credentials = NoNetwork /\ b.scan_cancelling = a.scan_cancelling
      BY <2>1, <2>8 DEF Adapters
    <3>2. ~b.cancelling
      BY <2>1, <2>8 DEF Adapters
    <3>3. b.attached = a.attached
      BY <2>1, <2>8 DEF Adapters
    <3>4. b.faulted = a.faulted
      BY <2>1, <2>8 DEF Adapters
    <3>5. b.attached /\ ~b.faulted
      BY <3>3, <3>4 DEF Live
    <3>6. next > 0
      BY <2>1 DEF Live, Issued, Adapters
    <3> QED
      BY <3>1, <3>2, <3>5, <3>6
         DEF Live, Operations, Secret, Issued, Connecting, NoStation
  <2> QED BY <2>7, <2>9 DEF Live
<1> QED BY <1>1, <1>2

LEMMA ScanLive ==
  ASSUME NEW a, NEW r, NEW next \in Nat, Live(a, r, next), Size(a) < 3,
         NEW error \in AnswerStatus \cup {"ConnectionFailed"}
  PROVE  Live(finishScan(a, error), r, next)
<1>1. CASE a.scan = 0
  BY <1>1 DEF finishScan
<1>2. CASE a.scan # 0
  <2>1. a \in Adapters
    BY DEF Live, Settled
  <2>2. error \in Status
    BY AdapterErrorsAssumption DEF AnswerStatus, Status
  <2>3. ScanAllowed(Believed(a), ScanOutcome(a, error))
    BY <1>2, <2>1
       DEF ScanAllowed, ScanOutcome, Believed, Command, AnswerStatus, Live
  <2>4. PICK b : b = finishScan(a, error)
    OBVIOUS
  <2>5. Settled(b, r)
    BY <1>2, <2>2, <2>3, <2>4, ScanSettled DEF Live, Size
  <2>6. b = [a EXCEPT !.scan = 0, !.scan_cancelling = FALSE, !.out = b.out]
    BY <1>2, <2>1, <2>4 DEF finishScan, Adapters
  <2>7. /\ Operations(b) /\ Secret(b) /\ Issued(b, next)
        /\ b.attached /\ ~b.faulted
    BY <1>2, <2>1, <2>6
       DEF Live, Operations, Secret, Issued, Connecting, Adapters
  <2> QED BY <2>4, <2>5, <2>7 DEF Live
<1> QED BY <1>1, <1>2

LEMMA EnabledLive ==
  ASSUME NEW a, NEW r, NEW next \in Nat, Live(a, r, next), Size(a) < 3,
         NEW enabled \in BOOLEAN, NEW b, b = EnabledSeen(a, enabled)
  PROVE  /\ Live(b, r, next) /\ Size(b) = Size(a) + 1
         /\ Reenabled(a, b, enabled)
<1>1. a \in Adapters
  BY DEF Live, Settled
<1>3. Settled(b, r) /\ Size(b) = Size(a) + 1
  BY EnabledSettled DEF Live, Size
<1>4. b = [a EXCEPT !.enabled = enabled, !.out = b.out]
  BY <1>1 DEF EnabledSeen, Adapters
<1>5. /\ b.station = a.station /\ b.scan = a.scan /\ b.link = a.link
      /\ b.credentials = a.credentials /\ b.config = a.config
  BY <1>1, <1>4 DEF Adapters
<1>6. b.cancelling = a.cancelling
  BY <1>1, <1>4 DEF Adapters
<1>7. b.waiting = a.waiting
  BY <1>1, <1>4 DEF Adapters
<1>8. b.scan_cancelling = a.scan_cancelling
  BY <1>1, <1>4 DEF Adapters
<1>9. b.attached = a.attached
  BY <1>1, <1>4 DEF Adapters
<1>10. b.faulted = a.faulted
  BY <1>1, <1>4 DEF Adapters
<1>11. b.attached /\ ~b.faulted
  BY <1>9, <1>10 DEF Live
<1>12. Operations(b) /\ Secret(b) /\ Issued(b, next)
  BY <1>5, <1>6, <1>7, <1>8, <1>11
     DEF Live, Operations, Secret, Issued, Connecting
<1> QED BY <1>3, <1>4, <1>11, <1>12 DEF Live, Reenabled

(* A native call has failed: the connect is over with its link down. *)
LEMMA AbandonedLive ==
  ASSUME NEW a, NEW r, NEW next \in Nat, Live(a, r, next), Size(a) \in 0..1,
         Connecting(a), NEW error \in AnswerStatus, error # "Ok"
  PROVE  Live(Abandoned(a, error), r, next)
<1>1. a \in Adapters /\ Size(a) < 3
  BY DEF Live, Settled
<1>2. PICK b : b = Reported([a EXCEPT !.link.phase = "Idle"])
  OBVIOUS
<1>3. /\ Live(b, r, next) /\ Size(b) = Size(a) + 1
      /\ Relinked(a, b, "Idle")
  BY <1>1, <1>2, LinkDown
<1>4. /\ b.station = a.station
      /\ b.link.phase = "Idle"
      /\ Size(b) < 3
  <2>1. b.station = a.station
    BY <1>1, <1>3 DEF Adapters, Relinked
  <2>2. b.link.phase = "Idle"
    BY <1>1, <1>3 DEF Adapters, Relinked
  <2>3. Size(b) < 3
    BY <1>3
  <2> QED BY <2>1, <2>2, <2>3
<1>5. Completes(b, error)
  BY <1>4 DEF Completes, Connecting
<1>6. PICK d : d = finishStation(b, error)
  OBVIOUS
<1>7. Live(d, r, next)
  BY <1>3, <1>4, <1>5, <1>6, StationLive
<1> QED BY <1>2, <1>6, <1>7 DEF Abandoned

LEMMA EnablementLive ==
  ASSUME NEW a, NEW r, NEW next \in Nat, Live(a, r, next), a.out = <<>>,
         NEW event \in SaneEvents, event.kind \in {"Enabled", "Disabled"}
  PROVE  Live(onEnablement(a, event), r, next)
<1> DEFINE enabled == event.kind = "Enabled"
<1>1. a \in Adapters /\ Size(a) = 0 /\ Size(a) < 3 /\ enabled \in BOOLEAN
  BY EmptySeq DEF Live, Settled, Size
<1> HIDE DEF enabled
<1>2. PICK b : b = EnabledSeen(a, enabled)
  OBVIOUS
<1>3. /\ Live(b, r, next) /\ Size(b) = Size(a) + 1
      /\ Reenabled(a, b, enabled)
  BY <1>1, <1>2, EnabledLive
<1>4. b \in Adapters /\ Size(b) = 1 /\ b.station = a.station
  <2>1. b \in Adapters /\ Size(b) = 1
    BY <1>1, <1>3 DEF Live, Settled
  <2>2. b.station = a.station
    BY <1>1, <1>3 DEF Adapters, Reenabled
  <2> QED BY <2>1, <2>2
<1>5. b.enabled = enabled
  BY <1>1, <1>3 DEF Adapters, Reenabled
<1>6. b.desired = a.desired
  BY <1>1, <1>3 DEF Adapters, Reenabled
<1>7. PICK d : d = IF ~enabled /\ a.link.phase # "Idle"
                   THEN Reported([b EXCEPT !.link.phase = "Idle"]) ELSE b
  OBVIOUS
<1>8. /\ Live(d, r, next) /\ Size(d) \in 1..2
      /\ d.station = a.station
      /\ d.enabled = b.enabled /\ d.desired = b.desired
  <2>1. CASE d = b
    BY <1>3, <1>4, <2>1
  <2>2. CASE d = Reported([b EXCEPT !.link.phase = "Idle"])
    <3>1. Size(b) < 3
      BY <1>4
    <3>2. /\ Live(d, r, next) /\ Size(d) = Size(b) + 1
          /\ Relinked(b, d, "Idle")
      BY <1>3, <2>2, <3>1, LinkDown
    <3>3. d.station = a.station /\ Size(d) \in 1..2
      <4>1. d.station = b.station
        BY <1>4, <3>2 DEF Adapters, Relinked
      <4>2. Size(d) = 2
        BY <1>4, <3>2
      <4> QED BY <1>4, <4>1, <4>2
    <3>4. d.enabled = b.enabled
      BY <1>4, <3>2 DEF Adapters, Relinked
    <3>5. d.desired = b.desired
      BY <1>4, <3>2 DEF Adapters, Relinked
    <3> QED BY <3>2, <3>3, <3>4, <3>5
  <2> QED BY <1>7, <2>1, <2>2
<1>9. CASE a.station.id # 0 /\ a.station.kind = "Enable" /\ enabled = a.desired
  <2>1. event.status = "Ok"
    BY DEF SaneEvents
  <2>2. ~d.cancelling
    BY <1>8, <1>9 DEF Live, Operations, Connecting
  <2>3. d.enabled = d.desired
    BY <1>5, <1>6, <1>8, <1>9
  <2>4. Completes(d, event.status)
    BY <1>8, <1>9, <2>1, <2>2, <2>3 DEF Completes, AnswerStatus
  <2>5. PICK e : e = finishStation(d, event.status)
    OBVIOUS
  <2>6. Live(e, r, next)
    <3>1. Live(d, r, next) /\ Size(d) < 3
      BY <1>8
    <3> QED BY <2>4, <2>5, <3>1, StationLive
  <2> QED
    BY <1>2, <1>7, <1>9, <2>5, <2>6 DEF onEnablement, EnabledSeen, enabled
<1>10. CASE ~(/\ a.station.id # 0 /\ a.station.kind = "Enable"
              /\ enabled = a.desired)
  BY <1>2, <1>7, <1>8, <1>10 DEF onEnablement, EnabledSeen, enabled
<1> QED BY <1>9, <1>10

LEMMA PreparedLive ==
  ASSUME NEW a, NEW r, NEW next \in Nat, Live(a, r, next), a.out = <<>>,
         NEW answer \in AnswerStatus
  PROVE  Live(onPrepared(a, answer), r, next)
<1>1. Size(a) \in 0..1
  BY EmptySeq DEF Size
<1>2. CASE Continues(a) /\ answer # "Ok"
  <2>1. Connecting(a)
    BY <1>2 DEF Continues
  <2> QED BY <1>1, <1>2, <2>1, AbandonedLive DEF onPrepared
<1>3. CASE ~(Continues(a) /\ answer # "Ok")
  BY <1>3 DEF onPrepared
<1> QED BY <1>2, <1>3

LEMMA AssociatedLive ==
  ASSUME NEW a, NEW r, NEW next \in Nat, Live(a, r, next), a.out = <<>>,
         NEW event
  PROVE  Live(onAssociated(a, event), r, next)
<1>1. CASE a.link.phase = "Connecting" /\ event.ssid = a.link.ssid
  <2>1. Size(a) < 3
    BY EmptySeq DEF Size
  <2>2. PICK phase : phase = "Associated"
    OBVIOUS
  <2>3. phase \in NextPhase(a.link.phase) /\ phase # "AddressReady"
    BY <1>1, <2>2 DEF NextPhase
  <2>4. PICK b : b = Reported([a EXCEPT !.link.phase = phase])
    OBVIOUS
  <2>5. Live(b, r, next)
    BY <2>1, <2>3, <2>4, LinkLive
  <2> QED BY <1>1, <2>2, <2>4, <2>5 DEF onAssociated
<1>2. CASE ~(a.link.phase = "Connecting" /\ event.ssid = a.link.ssid)
  BY <1>2 DEF onAssociated
<1> QED BY <1>1, <1>2

LEMMA AddressReadyLive ==
  ASSUME NEW a, NEW r, NEW next \in Nat, Live(a, r, next), a.out = <<>>,
         NEW event
  PROVE  Live(onAddressReady(a, event), r, next)
<1> DEFINE counts == /\ event.ssid \in {NoNetwork, a.link.ssid}
                     /\ a.link.phase \in {"Associated", "AddressReady"}
                     /\ ~a.waiting /\ ~a.cancelling
<1>1. CASE counts
  <2>1. Size(a) < 3 /\ Size(a) = 0 /\ a \in Adapters
    BY EmptySeq DEF Size, Live, Settled
  <2>2. PICK phase : phase = "AddressReady"
    OBVIOUS
  <2>3. phase \in NextPhase(a.link.phase)
    BY <1>1, <2>2 DEF NextPhase
  <2>4. PICK b : b = Reported([a EXCEPT !.link.phase = phase])
    OBVIOUS
  <2>5. /\ Live(b, r, next) /\ Size(b) = Size(a) + 1
        /\ Relinked(a, b, phase)
    BY <1>1, <2>1, <2>3, <2>4, LinkLive
  <2>6. b.station = a.station
    BY <2>1, <2>5 DEF Adapters, Relinked
  <2>7. b.link.id = a.link.id /\ b.link.phase = "AddressReady"
    BY <2>1, <2>2, <2>5 DEF Adapters, Relinked
  <2>8. b.cancelling = a.cancelling
    BY <2>1, <2>5 DEF Adapters, Relinked
  <2>9. CASE a.station.kind = "Connect" /\ a.station.id = a.link.id
    <3>1. ~b.cancelling
      BY <1>1, <2>8
    <3>2. Completes(b, "Ok")
      BY <2>6, <2>7, <2>9, <3>1 DEF Completes, AnswerStatus
    <3>3. PICK error : error = "Ok"
      OBVIOUS
    <3>4. PICK d : d = finishStation(b, error)
      OBVIOUS
    <3>5. Completes(b, error) /\ Size(b) < 3
      BY <2>1, <2>5, <3>2, <3>3
    <3>6. Live(d, r, next)
      BY <2>5, <3>4, <3>5, StationLive
    <3> QED BY <1>1, <2>2, <2>4, <2>9, <3>3, <3>4, <3>6 DEF onAddressReady
  <2>10. CASE ~(a.station.kind = "Connect" /\ a.station.id = a.link.id)
    BY <1>1, <2>2, <2>4, <2>5, <2>10 DEF onAddressReady
  <2> QED BY <2>9, <2>10
<1>2. CASE ~counts
  BY <1>2 DEF onAddressReady
<1> QED BY <1>1, <1>2

LEMMA AddressLostLive ==
  ASSUME NEW a, NEW r, NEW next \in Nat, Live(a, r, next), a.out = <<>>
  PROVE  Live(onAddressLost(a), r, next)
<1>1. CASE a.link.phase = "AddressReady"
  <2>1. Size(a) < 3
    BY EmptySeq DEF Size
  <2>2. PICK phase : phase = "Associated"
    OBVIOUS
  <2>3. phase \in NextPhase(a.link.phase) /\ phase # "AddressReady"
    BY <1>1, <2>2 DEF NextPhase
  <2>4. PICK b : b = Reported([a EXCEPT !.link.phase = phase])
    OBVIOUS
  <2>5. Live(b, r, next)
    BY <2>1, <2>3, <2>4, LinkLive
  <2> QED BY <1>1, <2>2, <2>4, <2>5 DEF onAddressLost
<1>2. CASE a.link.phase # "AddressReady"
  BY <1>2 DEF onAddressLost
<1> QED BY <1>1, <1>2

LEMMA DisconnectedLive ==
  ASSUME NEW a, NEW r, NEW next \in Nat, Live(a, r, next), a.out = <<>>,
         NEW event \in SaneEvents
  PROVE  Live(onDisconnected(a, event), r, next)
<1>1. CASE event.ssid \notin {NoNetwork, a.link.ssid}
  BY <1>1 DEF onDisconnected
<1>2. CASE event.ssid \in {NoNetwork, a.link.ssid}
  <2>1. Size(a) < 3 /\ Size(a) = 0 /\ a \in Adapters
    BY EmptySeq DEF Size, Live, Settled
  <2>2. PICK b : b = Reported([a EXCEPT !.link.phase = "Idle"])
    OBVIOUS
  <2>3. /\ Live(b, r, next) /\ Size(b) = Size(a) + 1
        /\ Relinked(a, b, "Idle")
    BY <2>1, <2>2, LinkDown
  <2>4. b.station = a.station /\ Size(b) < 3
    <3>1. b.station = a.station
      BY <2>1, <2>3 DEF Adapters, Relinked
    <3> QED BY <2>1, <2>3, <3>1
  <2>5. b.link.phase = "Idle" /\ b \in Adapters
    <3>1. b.link.phase = "Idle"
      BY <2>1, <2>3 DEF Adapters, Relinked
    <3> QED BY <2>3, <3>1 DEF Live, Settled
  <2>6. CASE Connecting(a) /\ a.waiting /\ ~a.cancelling
    <3>1. PICK d : d = [b EXCEPT !.waiting = FALSE]
      OBVIOUS
    <3>2. /\ d \in Adapters /\ d.out = b.out /\ Believed(d) = Believed(b)
          /\ d.station = b.station /\ d.scan = b.scan /\ d.link = b.link
          /\ d.credentials = b.credentials /\ d.config = b.config
      BY <2>5, <3>1 DEF Adapters, Believed
    <3>3. d.cancelling = b.cancelling
      BY <2>5, <3>1 DEF Adapters
    <3>4. d.scan_cancelling = b.scan_cancelling
      BY <2>5, <3>1 DEF Adapters
    <3>5. d.attached = b.attached
      BY <2>5, <3>1 DEF Adapters
    <3>6. d.faulted = b.faulted
      BY <2>5, <3>1 DEF Adapters
    <3>7. d.attached /\ ~d.faulted
      BY <2>3, <3>5, <3>6 DEF Live
    <3>8. d.station.kind = "Connect"
      BY <2>4, <2>6, <3>2 DEF Connecting
    <3>9. Settled(d, r)
      BY <2>3, <3>2, SameView DEF Live
    <3>10. Operations(d) /\ Secret(d) /\ Issued(d, next)
      BY <2>3, <3>2, <3>3, <3>4, <3>7, <3>8
         DEF Live, Operations, Secret, Issued, Connecting
    <3> QED
      <4>1. Live(d, r, next)
        BY <3>7, <3>9, <3>10 DEF Live
      <4>2. a.station.kind = "Connect"
        BY <2>6 DEF Connecting
      <4> QED
        BY <1>2, <2>2, <2>6, <3>1, <4>1, <4>2 DEF onDisconnected
  <2>7. CASE ~(Connecting(a) /\ a.waiting /\ ~a.cancelling)
    <3>1. CASE a.station.kind = "Disconnect"
      <4>1. ~b.cancelling
        BY <2>3, <2>4, <3>1 DEF Live, Operations, Connecting
      <4>2. PICK error : error = "Ok"
        OBVIOUS
      <4>3. Completes(b, error)
        BY <2>4, <2>5, <3>1, <4>1, <4>2 DEF Completes, AnswerStatus
      <4>4. PICK d : d = finishStation(b, error)
        OBVIOUS
      <4>5. Live(d, r, next)
        BY <2>3, <2>4, <4>3, <4>4, StationLive
      <4> QED
        BY <1>2, <2>2, <2>7, <3>1, <4>2, <4>4, <4>5
           DEF onDisconnected, Connecting
    <3>2. CASE Connecting(a) /\ a.station.kind # "Disconnect"
      <4>1. PICK error : error = Reason(event)
        OBVIOUS
      <4>2. error \in AnswerStatus \cup {"ConnectionFailed"} /\ error # "Ok"
        BY <4>1 DEF Reason, SaneEvents
      <4>3. Completes(b, error)
        BY <2>4, <2>5, <3>2, <4>2 DEF Completes, Connecting
      <4>4. PICK d : d = finishStation(b, error)
        OBVIOUS
      <4>5. Live(d, r, next)
        BY <2>3, <2>4, <4>3, <4>4, StationLive
      <4> QED
        BY <1>2, <2>2, <2>7, <3>2, <4>1, <4>4, <4>5 DEF onDisconnected
    <3>3. CASE ~Connecting(a) /\ a.station.kind # "Disconnect"
      BY <1>2, <2>2, <2>3, <2>7, <3>3 DEF onDisconnected
    <3> QED BY <3>1, <3>2, <3>3
  <2> QED BY <2>6, <2>7
<1> QED BY <1>1, <1>2

(* An iteration of drain() *)
LEMMA ProcessLive ==
  ASSUME NEW a, NEW r, NEW next \in Nat, Live(a, r, next), a.out = <<>>,
         NEW event \in SaneEvents, NEW answer \in AnswerStatus
  PROVE  Live(process(a, event, answer), r, next)
<1>1. ~a.faulted
  BY DEF Live
<1>2. event.kind \in {"Enabled", "Disabled", "Associated", "AddressReady",
                      "AddressLost", "Disconnected", "ScanDone", "Prepared"}
  BY DEF SaneEvents, Events
<1>3. event.status \in AnswerStatus \cup {"ConnectionFailed"}
  BY DEF SaneEvents
<1>4. Size(a) < 3
  BY EmptySeq DEF Size
<1>5. CASE event.kind \in {"Enabled", "Disabled"}
  BY <1>1, <1>5, EnablementLive DEF process
<1>6. CASE event.kind = "Prepared"
  BY <1>1, <1>6, PreparedLive DEF process
<1>7. CASE event.kind = "ScanDone"
  BY <1>1, <1>3, <1>4, <1>7, ScanLive DEF process
<1>8. CASE event.kind = "Associated"
  BY <1>1, <1>8, AssociatedLive DEF process
<1>9. CASE event.kind = "AddressReady"
  BY <1>1, <1>9, AddressReadyLive DEF process
<1>10. CASE event.kind = "AddressLost"
  BY <1>1, <1>10, AddressLostLive DEF process
<1>11. CASE event.kind = "Disconnected"
  BY <1>1, <1>11, DisconnectedLive DEF process
<1> QED BY <1>2, <1>5, <1>6, <1>7, <1>8, <1>9, <1>10, <1>11

-----------------------------------------------------------------------------
(* The end of drain() *)

(* draining is between the adapter and its scheduler. *)
LEMMA Undrained ==
  ASSUME NEW a, NEW r, NEW next, Live(a, r, next), a.out = <<>>,
         NEW draining \in BOOLEAN, NEW b, b = [a EXCEPT !.draining = draining]
  PROVE  /\ Live(b, r, next) /\ b.out = <<>>
         /\ b.station = a.station /\ b.link = a.link
<1>1. a \in Adapters
  BY DEF Live, Settled
<1>2. /\ b \in Adapters /\ b.out = a.out /\ Believed(b) = Believed(a)
      /\ b.station = a.station /\ b.scan = a.scan /\ b.link = a.link
      /\ b.credentials = a.credentials /\ b.config = a.config
  BY <1>1 DEF Adapters, Believed
<1>3. b.cancelling = a.cancelling
  BY <1>1 DEF Adapters
<1>4. b.waiting = a.waiting
  BY <1>1 DEF Adapters
<1>5. b.scan_cancelling = a.scan_cancelling
  BY <1>1 DEF Adapters
<1>6. b.attached = a.attached
  BY <1>1 DEF Adapters
<1>7. b.faulted = a.faulted
  BY <1>1 DEF Adapters
<1>8. b.attached /\ ~b.faulted
  BY <1>6, <1>7 DEF Live
<1>9. Settled(b, r)
  BY <1>2, SameView DEF Live
<1>10. Operations(b) /\ Secret(b) /\ Issued(b, next)
  BY <1>2, <1>3, <1>4, <1>5, <1>8
     DEF Live, Operations, Secret, Issued, Connecting
<1> QED BY <1>2, <1>8, <1>9, <1>10 DEF Live

(* A connect that waits for nothing is started. *)
LEMMA StartLive ==
  ASSUME NEW a, NEW r, NEW next \in Nat, Live(a, r, next), a.out = <<>>,
         Connecting(a), ~a.cancelling, a.link.phase = "Idle",
         NEW answer \in AnswerStatus
  PROVE  Live(startConnection(a, answer), r, next)
<1> DEFINE link == [id |-> a.station.id, ssid |-> a.config,
                    phase |-> "Connecting"]
<1>1. a \in Adapters /\ Len(a.out) < 3 /\ Len(a.out) = 0
  BY EmptySeq DEF Live, Settled
<1>2. link \in Links /\ link.id = a.station.id /\ link.phase = "Connecting"
  BY <1>1, AdapterTyped DEF Links, LinkPhase
<1>3. LinkAllowed(Believed(a), [id |-> link.id, phase |-> link.phase])
  <2>1. Believed(a).link.phase = "Idle"
    BY DEF Believed, Live
  <2>2. /\ Believed(a).station.id = a.station.id
        /\ Believed(a).station.kind = "Connect" /\ ~Believed(a).station.cancel
    BY DEF Believed, Live, Command, Connecting
  <2> QED BY <1>2, <2>1, <2>2 DEF LinkAllowed
<1>4. PICK s : s = Reported([a EXCEPT !.link = link])
  OBVIOUS
<1>5. Settled(s, r) /\ Len(s.out) = Len(a.out) + 1
  BY <1>1, <1>2, <1>3, <1>4, LinkSettled DEF Live
<1>6. PICK b : b = [s EXCEPT !.credentials = NoNetwork]
  OBVIOUS
<1>7. s = [a EXCEPT !.link = link, !.out = s.out]
  BY <1>1, <1>4 DEF Reported, Adapters
<1> HIDE DEF link
<1>8. s \in Adapters /\ s.out \in Seq(Calls)
  BY <1>5, AdapterTyped DEF Settled
<1>9. /\ s.station = a.station /\ s.scan = a.scan /\ s.link = link
      /\ b \in Adapters /\ b.out = s.out /\ Believed(b) = Believed(s)
      /\ b.station = s.station /\ b.scan = s.scan /\ b.link = s.link
      /\ b.credentials = NoNetwork
  <2>1. /\ s.station = a.station /\ s.scan = a.scan /\ s.link = link
    BY <1>1, <1>7 DEF Adapters
  <2> QED BY <1>6, <1>8, <2>1 DEF Adapters, Believed, Ssid
<1>10. Size(b) = 1
  BY <1>1, <1>5, <1>9 DEF Size
<1>11. b.cancelling = a.cancelling
  BY <1>1, <1>6, <1>7, <1>8 DEF Adapters
<1>12. b.scan_cancelling = a.scan_cancelling
  BY <1>1, <1>6, <1>7, <1>8 DEF Adapters
<1>13. b.attached = a.attached
  BY <1>1, <1>6, <1>7, <1>8 DEF Adapters
<1>14. b.faulted = a.faulted
  BY <1>1, <1>6, <1>7, <1>8 DEF Adapters
<1>15. b.attached /\ ~b.faulted
  BY <1>13, <1>14 DEF Live
<1>16. Settled(b, r)
  BY <1>5, <1>9, SameView
<1>17. Operations(b) /\ Secret(b) /\ Issued(b, next)
  BY <1>2, <1>9, <1>11, <1>12, <1>15
     DEF Live, Operations, Secret, Issued, Connecting
<1>18. Live(b, r, next)
  BY <1>15, <1>16, <1>17 DEF Live
<1>19. Connecting(b)
  BY <1>9 DEF Connecting
<1>20. s = Started(a)
  BY <1>4 DEF Started, link
<1>21. CASE answer = "Ok"
  BY <1>6, <1>18, <1>20, <1>21 DEF startConnection
<1>22. CASE answer # "Ok"
  <2>1. Live(Abandoned(b, answer), r, next)
    BY <1>10, <1>18, <1>19, <1>22, AbandonedLive
  <2> QED BY <1>6, <1>20, <1>22, <2>1 DEF startConnection
<1> QED BY <1>21, <1>22

LEMMA SameRadio ==
  ASSUME NEW q \in Radios, NEW r \in Radios,
         q.attached = r.attached, q.dead = r.dead, q.station = r.station,
         q.scan = r.scan, q.link = r.link, q.enabled = r.enabled
  PROVE  q = r
BY DEF Radios

LEMMA ViewTyped ==
  ASSUME NEW a \in Adapters
  PROVE  Believed(a) \in Radios
<1>1. NoCommand \in Commands /\ NewRadio \in Radios
  BY DEF NoCommand, NoLink, NewRadio, Commands, Radios, Transition, LinkPhase
<1>2. Command(a.station.id, a.station.kind,
              a.station.kind = "Enable" /\ a.desired, a.cancelling) \in Commands
  BY <1>1, AdapterTyped DEF Command, Commands
<1>3. Command(a.scan, "Scan", FALSE, a.scan_cancelling) \in Commands
  BY <1>1, AdapterTyped DEF Command, Commands
<1> QED BY <1>1, <1>2, <1>3, AdapterTyped DEF Believed, Radios

(* An overflow of a live adapter: the boundary is told that it is dead and *)
(* both operations complete as failed, or as cancelled.                    *)
LEMMA FaultLive ==
  ASSUME NEW a, NEW r, NEW next \in Nat, Live(a, r, next), a.out = <<>>,
         NEW b, b = Overflown(a)
  PROVE  /\ Settled(b, [r EXCEPT !.dead = TRUE])
         /\ b.attached /\ b.faulted
         /\ Operations(b) /\ Secret(b) /\ Issued(b, next)
<1> DEFINE q == [r EXCEPT !.dead = TRUE]
<1>1. /\ a \in Adapters /\ r \in Radios /\ r = Believed(a)
      /\ a.attached /\ ~a.faulted
  BY NothingPending DEF Live, Settled
<1>2. PICK c : c = [a EXCEPT !.faulted = TRUE, !.draining = FALSE]
  OBVIOUS
<1>3. /\ c \in Adapters /\ c.out = <<>> /\ Believed(c) = q
      /\ c.station = a.station /\ c.scan = a.scan /\ c.link = a.link
      /\ c.credentials = a.credentials /\ c.config = a.config
  <2>1. /\ c \in Adapters /\ c.out = <<>>
        /\ c.station = a.station /\ c.scan = a.scan /\ c.link = a.link
        /\ c.credentials = a.credentials /\ c.config = a.config
    BY <1>1, <1>2 DEF Adapters
  <2>2. Believed(c) = q
    <3>1. c.attached = a.attached
      BY <1>1, <1>2 DEF Adapters
    <3>2. c.faulted = TRUE
      BY <1>1, <1>2 DEF Adapters
    <3>3. c.enabled = a.enabled
      BY <1>1, <1>2 DEF Adapters
    <3>4. c.desired = a.desired
      BY <1>1, <1>2 DEF Adapters
    <3>5. c.cancelling = a.cancelling
      BY <1>1, <1>2 DEF Adapters
    <3>6. c.scan_cancelling = a.scan_cancelling
      BY <1>1, <1>2 DEF Adapters
    <3>7. c.attached
      BY <1>1, <3>1
    <3>8. /\ Believed(c).attached = Believed(a).attached
          /\ Believed(c).dead = TRUE
          /\ Believed(c).station = Believed(a).station /\ Believed(c).scan = Believed(a).scan
          /\ Believed(c).link = Believed(a).link /\ Believed(c).enabled = Believed(a).enabled
      BY <1>1, <2>1, <3>2, <3>3, <3>4, <3>5, <3>6, <3>7 DEF Believed
    <3>9. /\ q.attached = r.attached /\ q.dead = TRUE
          /\ q.station = r.station /\ q.scan = r.scan
          /\ q.link = r.link /\ q.enabled = r.enabled
      BY <1>1 DEF Radios
    <3>10. Believed(c) \in Radios /\ q \in Radios
      BY <1>1, <2>1, ViewTyped DEF Radios
    <3>11. /\ Believed(c).attached = q.attached /\ Believed(c).station = q.station
           /\ Believed(c).scan = q.scan /\ Believed(c).link = q.link
           /\ Believed(c).enabled = q.enabled
      BY <1>1, <3>8, <3>9
    <3>12. Believed(c).dead = q.dead
      BY <3>8, <3>9
    <3> QED
      BY <3>10, <3>11, <3>12, SameRadio
  <2> QED BY <2>1, <2>2
<1>4. c.attached = a.attached
  BY <1>1, <1>2 DEF Adapters
<1>5. c.faulted
  BY <1>1, <1>2 DEF Adapters
<1>6. c.cancelling = a.cancelling
  BY <1>1, <1>2 DEF Adapters
<1>7. c.scan_cancelling = a.scan_cancelling
  BY <1>1, <1>2 DEF Adapters
<1>8. c.attached
  BY <1>1, <1>4
<1>9. q \in Radios
  BY <1>1 DEF Radios
<1> HIDE DEF q
<1>10. Settled(c, q) /\ Size(c) = 0
  BY <1>3, <1>9, NothingPending, EmptySeq DEF Size
<1>11. PICK d : d = finishStation(c, "ConnectionFailed")
  OBVIOUS
<1>12. /\ Settled(d, q) /\ Size(d) < 3 /\ Secret(d)
       /\ d.station = NoStation /\ d.scan = a.scan /\ d.link = a.link
  <2>1. CASE c.station.id = 0
    <3>1. d = c
      BY <1>11, <2>1 DEF finishStation
    <3>2. c.station = NoStation
      BY <1>1, <1>3, <2>1 DEF Live, Operations, Adapters, NoStation
    <3>3. Secret(d)
      BY <1>3, <3>1 DEF Live, Secret, Connecting
    <3> QED BY <1>3, <1>10, <3>1, <3>2, <3>3
  <2>2. CASE c.station.id # 0
    <3>1. PICK error : error = "ConnectionFailed"
      OBVIOUS
    <3>2. error \in Status
      BY <3>1 DEF Status
    <3>3. Believed(c).dead /\ Believed(c).station.cancel = c.cancelling
      BY <1>3, <1>5, <1>8, <2>2 DEF Believed, Command
    <3>4. StationAllowed(Believed(c), Outcome(c, error))
      BY <3>1, <3>3 DEF StationAllowed, Outcome, FaultResult
    <3>5. Len(c.out) < 3 /\ Len(c.out) = 0
      BY <1>3, EmptySeq
    <3>6. Settled(d, q) /\ Len(d.out) = Len(c.out) + 1
      BY <1>8, <1>10, <1>11, <2>2, <3>1, <3>2, <3>4, <3>5, StationSettled
    <3>7. /\ d.station = NoStation /\ d.scan = a.scan /\ d.link = a.link
          /\ d.credentials = NoNetwork
      BY <1>3, <1>11, <2>2 DEF finishStation, Adapters
    <3> QED BY <3>5, <3>6, <3>7 DEF Size, Secret
  <2> QED BY <2>1, <2>2
<1>13. d.scan_cancelling = c.scan_cancelling
  BY <1>3, <1>11 DEF finishStation, Adapters
<1>14. d.attached = c.attached
  BY <1>3, <1>11 DEF finishStation, Adapters
<1>15. d.faulted = c.faulted
  BY <1>3, <1>11 DEF finishStation, Adapters
<1>16. ~d.cancelling
  <2>1. CASE c.station.id = 0
    BY <1>1, <1>3, <1>6, <1>11, <2>1
       DEF finishStation, Live, Operations, Connecting
  <2>2. CASE c.station.id # 0
    BY <1>3, <1>11, <2>2 DEF finishStation, Adapters
  <2> QED BY <2>1, <2>2
<1>17. d \in Adapters /\ d.attached /\ d.faulted
  BY <1>5, <1>8, <1>12, <1>14, <1>15 DEF Settled
<1>18. b = finishScan(d, "ConnectionFailed")
  BY <1>2, <1>11 DEF Overflown
<1>19. /\ Settled(b, q) /\ b.scan = 0
       /\ ~b.scan_cancelling
       /\ b.station = d.station /\ b.link = d.link
       /\ b.credentials = d.credentials /\ b.config = d.config
  <2>1. CASE d.scan = 0
    <3>1. ~d.scan_cancelling
      BY <1>1, <1>7, <1>12, <1>13, <2>1 DEF Live, Operations
    <3> QED BY <1>12, <1>18, <2>1, <3>1 DEF finishScan
  <2>2. CASE d.scan # 0
    <3>1. PICK error : error = "ConnectionFailed"
      OBVIOUS
    <3>2. error \in Status
      BY <3>1 DEF Status
    <3>3. Believed(d).scan.cancel = d.scan_cancelling
      BY <1>17, <2>2 DEF Believed, Command
    <3>4. ScanAllowed(Believed(d), ScanOutcome(d, error))
      BY <1>17, <3>1, <3>3, AdapterTyped DEF ScanAllowed, ScanOutcome
    <3>5. Settled(b, q)
      BY <1>12, <1>17, <1>18, <2>2, <3>1, <3>2, <3>4, ScanSettled DEF Size
    <3>6. /\ b.scan = 0
          /\ b.station = d.station /\ b.link = d.link
          /\ b.credentials = d.credentials /\ b.config = d.config
      BY <1>17, <1>18, <2>2 DEF finishScan, Adapters
    <3>7. ~b.scan_cancelling
      BY <1>17, <1>18, <2>2 DEF finishScan, Adapters
    <3> QED BY <3>5, <3>6, <3>7
  <2> QED BY <2>1, <2>2
<1>20. b.attached = d.attached
  BY <1>17, <1>18 DEF finishScan, Adapters
<1>21. b.faulted = d.faulted
  BY <1>17, <1>18 DEF finishScan, Adapters
<1>22. b.cancelling = d.cancelling
  BY <1>17, <1>18 DEF finishScan, Adapters
<1>23. b.attached /\ b.faulted
  BY <1>17, <1>20, <1>21
<1>24. ~b.cancelling
  BY <1>16, <1>22
<1>25. Operations(b) /\ Secret(b) /\ Issued(b, next)
  BY <1>1, <1>12, <1>19, <1>23, <1>24
     DEF Live, Operations, Secret, Issued, Connecting, NoStation, Adapters
<1> QED BY <1>19, <1>23, <1>25 DEF q

-----------------------------------------------------------------------------
(* The invariant and the contract, action by action *)

Kept == Inv' /\ (ContractNext \/ UNCHANGED radio)

LEMMA MailPosted ==
  ASSUME NEW m, Mailed(m), NEW event \in SaneEvents
  PROVE  Mailed(post(m, event)) /\ (m.overflow => post(m, event).overflow)
<1>1. /\ m \in [queue : Seq(SaneEvents), overflow : BOOLEAN, due : BOOLEAN]
      /\ Len(m.queue) \in Nat /\ Len(m.queue) <= Capacity
  BY DEF Mailed
<1>2. CASE Len(m.queue) = Capacity
  BY <1>1, <1>2 DEF Mailed, post, scheduleNow
<1>3. CASE Len(m.queue) # Capacity
  <2>1. /\ Append(m.queue, event) \in Seq(SaneEvents)
        /\ Len(Append(m.queue, event)) = Len(m.queue) + 1
    BY <1>1, AppendProperties
  <2>2. Len(m.queue) + 1 <= Capacity
    BY <1>1, <1>3, EventsAssumption
  <2> HIDE DEF post
  <2>3. post(m, event) = [m EXCEPT !.queue = Append(m.queue, event),
                                   !.due = TRUE]
    BY <1>1, <1>3 DEF post, scheduleNow
  <2> QED BY <1>1, <2>1, <2>2, <2>3 DEF Mailed
<1> QED BY <1>2, <1>3

LEMMA OutcomePosted ==
  ASSUME NEW m, Mailed(m), NEW o, Sane(o)
  PROVE  Mailed(Posted(m, o.posts))
<1>1. CASE o.posts = <<>>
  BY <1>1 DEF Posted
<1>2. CASE o.posts # <<>>
  <2>1. PICK event \in SaneEvents : o.posts = <<event>>
    BY <1>2 DEF Sane
  <2>2. Posted(m, o.posts) = post(m, event)
    BY <2>1 DEF Posted
  <2> QED BY <2>2, MailPosted
<1> QED BY <1>1, <1>2

LEMMA MailScheduled ==
  ASSUME NEW m, Mailed(m)
  PROVE  Mailed(scheduleNow(m))
BY DEF Mailed, scheduleNow

LEMMA LiveKept ==
  ASSUME Inv, Live(adapter', radio', client'.next), Mailed(mail'),
         client' \in [begun : BOOLEAN, next : 1..(MaxId + 1)], client'.begun
  PROVE  Inv'
BY DEF Inv, Live, Sound

LEMMA LiveNow ==
  ASSUME Inv, adapter.attached, ~adapter.faulted
  PROVE  /\ Live(adapter, radio, client.next) /\ client.next \in Nat
         /\ client \in [begun : BOOLEAN, next : 1..(MaxId + 1)]
         /\ client.begun
<1>1. client.begun
  BY DEF Inv, NewAdapter
<1>2. client.next \in Nat
  BY OrderedAssumption DEF Inv
<1> QED BY <1>1, <1>2 DEF Inv, Live, Sound

(* Between two callbacks an adapter is in order when the boundary is what  *)
(* it believes.                                                            *)
LEMMA LiveAgain ==
  ASSUME NEW a \in Adapters, a.out = <<>>, a.attached, ~a.faulted,
         NEW next, Operations(a), Secret(a), Issued(a, next),
         NEW r, r = Believed(a)
  PROVE  Live(a, r, next)
BY NothingPending, ViewTyped DEF Live

(* What an admission can rely on. *)
LEMMA Admissible ==
  ASSUME Inv, Called, stationAdmission = "Ok"
  PROVE  /\ Live(adapter, radio, client.next) /\ client.next \in Nat
         /\ client.next # 0
         /\ client' \in [begun : BOOLEAN, next : 1..(MaxId + 1)]
         /\ client'.begun /\ client'.next = client.next + 1
         /\ adapter \in Adapters /\ adapter.out = <<>>
         /\ adapter.station = NoStation /\ adapter.scan = 0
         /\ adapter.link.id < client.next
         /\ adapter.credentials = NoNetwork
         /\ radio = Believed(adapter) /\ radio \in Radios
         /\ radio.attached /\ ~radio.dead
         /\ radio.station = NoCommand /\ radio.scan = NoCommand
         /\ radio.enabled = adapter.enabled
<1>1. /\ adapter.attached /\ ~adapter.faulted
      /\ adapter.station.id = 0 /\ adapter.scan = 0
  BY DEF stationAdmission
<1>2. /\ Live(adapter, radio, client.next) /\ client.next \in Nat
      /\ client \in [begun : BOOLEAN, next : 1..(MaxId + 1)] /\ client.begun
  BY <1>1, LiveNow
<1>3. adapter.out = <<>> /\ client.next <= MaxId
      /\ client' = [client EXCEPT !.next = @ + 1]
  BY DEF Called, Free
<1>4. adapter \in Adapters /\ radio = Believed(adapter) /\ radio \in Radios
  BY <1>2, <1>3, NothingPending DEF Live
<1>5. /\ client'.next = client.next + 1 /\ client'.next \in 1..(MaxId + 1)
  BY <1>2, <1>3, OrderedAssumption
<1>6. client'.begun /\ client' \in [begun : BOOLEAN, next : 1..(MaxId + 1)]
  BY <1>2, <1>3, <1>5
<1>7. adapter.station = NoStation /\ adapter.credentials = NoNetwork
  BY <1>1, <1>2, <1>4
     DEF Live, Operations, Secret, Connecting, Adapters, NoStation
<1>8. /\ radio.station = NoCommand /\ radio.scan = NoCommand
      /\ radio.enabled = adapter.enabled
  BY <1>1, <1>4 DEF Believed, Command
<1>9. radio.attached /\ ~radio.dead
  BY <1>1, <1>4 DEF Believed
<1>10. adapter.link.id < client.next /\ client.next # 0
  BY <1>2 DEF Live, Issued
<1> QED
  BY <1>1, <1>2, <1>3, <1>4, <1>5, <1>6, <1>7, <1>8, <1>9, <1>10

(* The cancellation flags belong to an operation, so none is set. *)
LEMMA NothingCancelled ==
  ASSUME NEW a, NEW r, NEW next, Live(a, r, next),
         a.station = NoStation, a.scan = 0
  PROVE  ~a.cancelling /\ ~a.scan_cancelling
BY DEF Live, Operations, Connecting, NoStation

LEMMA StationAdmitted ==
  ASSUME Inv, Called, stationAdmission = "Ok",
         NEW kind \in {"Enable", "Connect", "Disconnect"},
         kind = "Connect" => adapter.enabled,
         NEW enabled \in BOOLEAN, radio' = Admitted(kind, enabled)
  PROVE  AdmitsStation
<1> DEFINE cmd == [id |-> client.next, kind |-> kind, enabled |-> enabled,
                   cancel |-> FALSE]
<1>1. /\ client.next \in Nat /\ client.next # 0 /\ radio \in Radios
      /\ radio.attached /\ ~radio.dead
      /\ radio.station = NoCommand /\ radio.scan = NoCommand
      /\ radio.enabled = adapter.enabled
  BY Admissible
<1>2. cmd \in Commands /\ cmd.id # 0 /\ ~cmd.cancel /\ cmd.kind = kind
  BY <1>1 DEF Commands, Transition
<1>3. radio' = [radio EXCEPT !.station = cmd]
  BY DEF Admitted
<1> HIDE DEF cmd
<1>4. radio'.station = cmd
  BY <1>1, <1>3 DEF Radios
<1> QED BY <1>1, <1>2, <1>3, <1>4 DEF AdmitsStation, Alive, Idle

(* What every admission of a station command leaves behind. *)
LEMMA StationTaken ==
  ASSUME Inv, Called, stationAdmission = "Ok",
         NEW kind \in {"Enable", "Connect", "Disconnect"},
         NEW enabled \in BOOLEAN,
         NEW a \in Adapters, a.out = <<>>, a.attached, ~a.faulted,
         a.station = [id |-> client.next, kind |-> kind],
         a.scan = 0, a.link = adapter.link, a.enabled = adapter.enabled,
         ~a.cancelling, ~a.scan_cancelling,
         enabled <=> kind = "Enable" /\ a.desired,
         kind = "Disconnect" => a.waiting,
         \/ a.credentials = NoNetwork
         \/ kind = "Connect" /\ a.credentials = a.config
  PROVE  Live(a, Admitted(kind, enabled), client.next + 1)
<1>1. /\ client.next \in Nat /\ client.next # 0
      /\ radio = Believed(adapter) /\ radio \in Radios
      /\ radio.attached /\ ~radio.dead
      /\ adapter.scan = 0 /\ adapter.link.id < client.next
      /\ radio.scan = NoCommand
  BY Admissible
<1>2. Operations(a)
  BY <1>1 DEF Operations, Connecting
<1>3. Secret(a)
  BY <1>1, AdapterTyped DEF Secret, Connecting, Inv, Settled
<1>4. Issued(a, client.next + 1)
  <2>1. a.link.id \in Nat /\ a.station.id = client.next
    BY <1>1 DEF Adapters
  <2> QED BY <1>1, <2>1 DEF Issued
<1>5. Admitted(kind, enabled) = Believed(a)
  <2>1. PICK q : q = Admitted(kind, enabled)
    OBVIOUS
  <2>2. /\ q \in Radios
        /\ q.station = [id |-> client.next, kind |-> kind,
                        enabled |-> enabled, cancel |-> FALSE]
        /\ q.scan = radio.scan /\ q.link = radio.link
        /\ q.enabled = radio.enabled
    BY <1>1, <2>1 DEF Admitted, Radios, Commands, Transition
  <2>3. q.attached = TRUE
    BY <1>1, <2>1 DEF Admitted, Radios
  <2>4. q.dead = FALSE
    BY <1>1, <2>1 DEF Admitted, Radios
  <2>5. adapter.attached
    BY DEF stationAdmission
  <2>6. /\ radio.link = [id |-> a.link.id, phase |-> a.link.phase]
        /\ radio.enabled = a.enabled
    BY <1>1, <2>5 DEF Believed
  <2>7. PICK v : v = Believed(a)
    OBVIOUS
  <2>8. v \in Radios
    BY <2>7, ViewTyped
  <2>9. /\ v.scan = NoCommand
        /\ v.link = [id |-> a.link.id, phase |-> a.link.phase]
        /\ v.enabled = a.enabled
    BY <2>7 DEF Believed, Command
  <2>10. v.attached = TRUE
    BY <2>7 DEF Believed
  <2>11. v.dead = FALSE
    BY <2>7, AdapterTyped DEF Believed
  <2>12. v.station = [id |-> client.next, kind |-> kind,
                      enabled |-> enabled, cancel |-> FALSE]
    <3>1. v.station = Command(client.next, kind,
                              kind = "Enable" /\ a.desired, a.cancelling)
      BY <2>7 DEF Believed
    <3>2. a.cancelling = FALSE /\ enabled = (kind = "Enable" /\ a.desired)
      BY AdapterTyped
    <3> QED BY <1>1, <3>1, <3>2, Zenon DEF Command
  <2>13. /\ q.station = v.station /\ q.scan = v.scan /\ q.link = v.link
         /\ q.enabled = v.enabled
    BY <1>1, <2>2, <2>6, <2>9, <2>12
  <2>14. q.attached = v.attached
    BY <2>3, <2>10
  <2>15. q.dead = v.dead
    BY <2>4, <2>11
  <2> QED BY <2>1, <2>2, <2>7, <2>8, <2>13, <2>14, <2>15, SameRadio
<1> QED BY <1>2, <1>3, <1>4, <1>5, LiveAgain

(* A live boundary without a command *)
IdleView(id, phase, enabled) ==
  [attached |-> TRUE, dead |-> FALSE, station |-> NoCommand,
   scan |-> NoCommand, link |-> [id |-> id, phase |-> phase],
   enabled |-> enabled]

(* An API call that fails leaves the adapter as it was, or drops what it   *)
(* had noted of the command.                                               *)
LEMMA CallRefused ==
  ASSUME Inv, Called, stationAdmission = "Ok",
         NEW a \in Adapters, a.out = <<>>, a.attached, ~a.faulted,
         a.station = adapter.station, a.scan = adapter.scan,
         a.link = adapter.link, a.enabled = adapter.enabled,
         ~a.cancelling, ~a.scan_cancelling, a.credentials = NoNetwork
  PROVE  Live(a, radio, client.next + 1)
<1>1. /\ client.next \in Nat /\ client.next # 0
      /\ radio = Believed(adapter)
      /\ adapter.scan = 0 /\ adapter.link.id < client.next
      /\ adapter.station = NoStation
  BY Admissible
<1>2. adapter.attached /\ ~adapter.faulted
  BY DEF stationAdmission
<1>3. Operations(a) /\ Secret(a) /\ Issued(a, client.next + 1)
  <2>1. a.link.id \in Nat /\ a.station.id = 0
    BY <1>1 DEF Adapters, NoStation
  <2>2. Operations(a)
    BY <1>1 DEF Operations, Connecting, NoStation
  <2> QED BY <1>1, <2>1, <2>2 DEF Secret, Issued
<1>4. Believed(a) = Believed(adapter)
  <2>1. a.faulted = FALSE /\ adapter.faulted = FALSE
    BY <1>2, AdapterTyped DEF Inv, Settled
  <2>2. a.station.id = 0 /\ adapter.station.id = 0
    BY <1>1 DEF NoStation
  <2>3. /\ Believed(a) = IdleView(a.link.id, a.link.phase, a.enabled)
        /\ Believed(adapter) =
             IdleView(adapter.link.id, adapter.link.phase, adapter.enabled)
    BY <1>1, <1>2, <2>1, <2>2, Zenon DEF Believed, Command, IdleView
  <2> QED BY <2>3
<1> QED BY <1>1, <1>3, <1>4, LiveAgain

LEMMA SetEnabledKept ==
  ASSUME Inv, NEW enabled \in BOOLEAN, NEW enables,
         \A e \in enables : Sane(e), SetEnabled(enabled, enables)
  PROVE  Kept
<1>1. Called /\ stationAdmission = "Ok"
  BY DEF SetEnabled
<1>2. PICK e \in enables :
        /\ mail' = Posted(mail, e.posts)
        /\ LET asked == [adapter EXCEPT !.desired = enabled]
           IN  IF e.answer = "Ok"
               THEN /\ adapter' = [asked EXCEPT !.station =
                                     [id |-> client.next, kind |-> "Enable"]]
                    /\ radio' = Admitted("Enable", enabled)
               ELSE adapter' = asked /\ UNCHANGED radio
  BY DEF SetEnabled
<1>3. Mailed(mail')
  BY <1>2, OutcomePosted DEF Inv
<1>4. /\ Live(adapter, radio, client.next) /\ client.next \in Nat
      /\ client' \in [begun : BOOLEAN, next : 1..(MaxId + 1)]
      /\ client'.begun /\ client'.next = client.next + 1
      /\ adapter \in Adapters /\ adapter.out = <<>>
      /\ adapter.station = NoStation /\ adapter.scan = 0
      /\ adapter.credentials = NoNetwork
  BY <1>1, Admissible
<1>5. ~adapter.cancelling /\ ~adapter.scan_cancelling
  BY <1>4, NothingCancelled
<1>6. PICK station \in [id : Nat, kind : Transition] :
         adapter' = [adapter EXCEPT !.desired = enabled, !.station = station]
  <2>1. CASE e.answer = "Ok"
    <3>1. [id |-> client.next, kind |-> "Enable"]
            \in [id : Nat, kind : Transition]
      BY <1>4 DEF Transition
    <3> QED BY <1>2, <1>4, <2>1, <3>1 DEF Adapters
  <2>2. CASE e.answer # "Ok"
    <3>1. adapter.station \in [id : Nat, kind : Transition]
      BY <1>4 DEF Adapters
    <3> QED BY <1>2, <1>4, <2>2, <3>1 DEF Adapters
  <2> QED BY <2>1, <2>2
<1>7. /\ adapter' \in Adapters
      /\ adapter'.out = <<>> /\ adapter'.scan = 0
      /\ adapter'.link = adapter.link /\ adapter'.credentials = NoNetwork
  BY <1>4, <1>6 DEF Adapters
<1>8. adapter'.enabled = adapter.enabled
  BY <1>4, <1>6 DEF Adapters
<1>9. adapter'.cancelling = adapter.cancelling
  BY <1>4, <1>6 DEF Adapters
<1>10. adapter'.scan_cancelling = adapter.scan_cancelling
  BY <1>4, <1>6 DEF Adapters
<1>11. adapter'.attached = adapter.attached
  BY <1>4, <1>6 DEF Adapters
<1>12. adapter'.faulted = adapter.faulted
  BY <1>4, <1>6 DEF Adapters
<1>13. adapter'.desired = enabled
  BY <1>4, <1>6 DEF Adapters
<1>14. /\ adapter'.attached /\ ~adapter'.faulted
       /\ ~adapter'.cancelling /\ ~adapter'.scan_cancelling
  BY <1>4, <1>5, <1>9, <1>10, <1>11, <1>12 DEF Live
<1>15. CASE e.answer = "Ok"
  <2>1. adapter'.station = [id |-> client.next, kind |-> "Enable"]
    BY <1>2, <1>4, <1>15 DEF Adapters
  <2>2. PICK kind \in {"Enable", "Connect", "Disconnect"} : kind = "Enable"
    OBVIOUS
  <2>3. radio' = Admitted(kind, enabled)
    BY <1>2, <1>15, <2>2
  <2>4. /\ adapter'.station = [id |-> client.next, kind |-> kind]
        /\ kind # "Disconnect" /\ kind # "Connect"
    BY <2>1, <2>2
  <2>5. enabled <=> kind = "Enable" /\ adapter'.desired
    BY <1>13, <2>2
  <2>6. Live(adapter', Admitted(kind, enabled), client.next + 1)
    BY <1>1, <1>7, <1>8, <1>14, <2>4, <2>5, StationTaken
  <2>7. Inv'
    BY <1>3, <1>4, <2>3, <2>6, LiveKept
  <2>8. AdmitsStation
    BY <1>1, <2>3, <2>4, StationAdmitted
  <2> QED BY <2>7, <2>8 DEF Kept, ContractNext
<1>16. CASE e.answer # "Ok"
  <2>1. adapter'.station = adapter.station /\ UNCHANGED radio
    BY <1>2, <1>4, <1>16 DEF Adapters
  <2>2. adapter'.scan = adapter.scan
    BY <1>4, <1>7
  <2>3. Live(adapter', radio, client.next + 1)
    BY <1>1, <1>7, <1>8, <1>14, <2>1, <2>2, CallRefused
  <2>4. Inv'
    BY <1>3, <1>4, <2>1, <2>3, LiveKept
  <2> QED BY <2>1, <2>4 DEF Kept
<1> QED BY <1>15, <1>16

LEMMA StartScanKept ==
  ASSUME Inv, NEW scans, StartScan(scans)
  PROVE  Kept
<1>1. Called /\ stationAdmission = "Ok" /\ adapter.enabled
  BY DEF StartScan
<1>2. PICK s \in scans :
        IF s.answer = "Ok"
        THEN /\ adapter' = [adapter EXCEPT !.scan = client.next]
             /\ radio' = [radio EXCEPT !.scan =
                            [id |-> client.next, kind |-> "Scan",
                             enabled |-> FALSE, cancel |-> FALSE]]
        ELSE UNCHANGED <<adapter, radio>>
  BY DEF StartScan
<1>3. Mailed(mail')
  BY DEF Inv, StartScan
<1>4. /\ Live(adapter, radio, client.next) /\ client.next \in Nat
      /\ client.next # 0
      /\ client' \in [begun : BOOLEAN, next : 1..(MaxId + 1)]
      /\ client'.begun /\ client'.next = client.next + 1
      /\ adapter \in Adapters /\ adapter.out = <<>>
      /\ adapter.station = NoStation /\ adapter.scan = 0
      /\ adapter.link.id < client.next
      /\ adapter.credentials = NoNetwork
      /\ radio = Believed(adapter) /\ radio \in Radios
      /\ radio.attached /\ ~radio.dead
      /\ radio.station = NoCommand /\ radio.scan = NoCommand
      /\ radio.enabled = adapter.enabled
  BY <1>1, Admissible
<1>5. ~adapter.cancelling /\ ~adapter.scan_cancelling
  BY <1>4, NothingCancelled
<1>6. CASE s.answer = "Ok"
  <2> DEFINE cmd == [id |-> client.next, kind |-> "Scan",
                     enabled |-> FALSE, cancel |-> FALSE]
  <2>1. /\ adapter' \in Adapters /\ adapter'.out = <<>>
        /\ adapter'.scan = client.next /\ adapter'.station = NoStation
        /\ adapter'.link = adapter.link /\ adapter'.credentials = NoNetwork
    BY <1>2, <1>4, <1>6 DEF Adapters
  <2>2. adapter'.cancelling = adapter.cancelling
    BY <1>2, <1>4, <1>6 DEF Adapters
  <2>3. adapter'.scan_cancelling = adapter.scan_cancelling
    BY <1>2, <1>4, <1>6 DEF Adapters
  <2>4. adapter'.attached = adapter.attached
    BY <1>2, <1>4, <1>6 DEF Adapters
  <2>5. adapter'.faulted = adapter.faulted
    BY <1>2, <1>4, <1>6 DEF Adapters
  <2>6. adapter'.enabled = adapter.enabled
    BY <1>2, <1>4, <1>6 DEF Adapters
  <2>7. /\ adapter'.attached /\ ~adapter'.faulted
        /\ ~adapter'.cancelling /\ ~adapter'.scan_cancelling
    BY <1>4, <1>5, <2>2, <2>3, <2>4, <2>5 DEF Live
  <2>8. Operations(adapter') /\ Secret(adapter')
    BY <1>4, <2>1, <2>7 DEF Operations, Secret, Connecting, NoStation
  <2>9. Issued(adapter', client'.next)
    <3>1. adapter'.link.id \in Nat /\ adapter'.station.id = 0
      BY <2>1 DEF Adapters, NoStation
    <3> QED BY <1>4, <2>1, <3>1 DEF Issued
  <2>10. cmd \in Commands /\ cmd.id # 0 /\ ~cmd.cancel
    BY <1>4 DEF Commands
  <2>11. radio' = [radio EXCEPT !.scan = cmd]
    BY <1>2, <1>6
  <2>12. cmd = Command(client.next, "Scan", FALSE, FALSE)
    BY <1>4 DEF Command
  <2> HIDE DEF cmd
  <2>13. /\ radio' \in Radios /\ radio'.scan = cmd
         /\ radio'.station = radio.station
         /\ radio'.link = radio.link /\ radio'.enabled = radio.enabled
    BY <1>4, <2>10, <2>11 DEF Radios
  <2>14. radio' = Believed(adapter')
    <3>1. PICK v : v = Believed(adapter')
      OBVIOUS
    <3>2. v \in Radios
      BY <2>1, <3>1, ViewTyped
    <3>3. /\ v.station = NoCommand
          /\ v.link = [id |-> adapter.link.id, phase |-> adapter.link.phase]
          /\ v.enabled = adapter'.enabled
      BY <2>1, <2>7, <3>1 DEF Believed, Command, NoStation
    <3>4. v.scan = cmd
      <4>1. adapter'.scan_cancelling = FALSE
        BY <2>1, <2>7, AdapterTyped
      <4>2. v.scan = Command(client.next, "Scan", FALSE, FALSE)
        BY <2>1, <2>7, <3>1, <4>1 DEF Believed
      <4> QED BY <2>12, <4>2
    <3>5. v.attached = TRUE
      BY <2>7, <3>1 DEF Believed
    <3>6. v.dead = FALSE
      BY <2>1, <2>7, <3>1, AdapterTyped DEF Believed
    <3>7. radio'.attached = TRUE
      BY <1>4, <2>11 DEF Radios
    <3>8. radio'.dead = FALSE
      BY <1>4, <2>11 DEF Radios
    <3>9. radio.link = [id |-> adapter.link.id, phase |-> adapter.link.phase]
      BY <1>4 DEF Believed, Live
    <3>10. /\ radio'.scan = v.scan /\ radio'.station = v.station
           /\ radio'.link = v.link
      BY <1>4, <2>13, <3>3, <3>4, <3>9
    <3>11. radio'.enabled = v.enabled
      BY <1>4, <2>6, <2>13, <3>3
    <3>12. radio'.attached = v.attached
      BY <3>5, <3>7
    <3>13. radio'.dead = v.dead
      BY <3>6, <3>8
    <3> QED
      BY <2>13, <3>1, <3>2, <3>10, <3>11, <3>12, <3>13, SameRadio
  <2>15. Inv'
    <3>1. Live(adapter', radio', client'.next)
      BY <2>1, <2>7, <2>8, <2>9, <2>14, LiveAgain
    <3> QED BY <1>3, <1>4, <3>1, LiveKept
  <2>16. AdmitsScan
    BY <1>1, <1>4, <2>10, <2>11, <2>13 DEF AdmitsScan, Alive, Idle
  <2> QED BY <2>15, <2>16 DEF Kept, ContractNext
<1>7. CASE s.answer # "Ok"
  <2>1. UNCHANGED <<adapter, radio>>
    BY <1>2, <1>7
  <2>2. Live(adapter, radio, client.next + 1)
    BY <1>1, <1>4, <1>5, CallRefused DEF Live
  <2>3. Inv'
    BY <1>3, <1>4, <2>1, <2>2, LiveKept
  <2> QED BY <2>1, <2>3 DEF Kept
<1> QED BY <1>6, <1>7

LEMMA MailAcknowledged ==
  ASSUME Inv, NEW d
  PROVE  Mailed(Acknowledged(d))
<1>1. Synthetic \in SaneEvents
  BY AdapterTyped
     DEF Synthetic, Event, SaneEvents, Events, AnswerStatus, Status, Inv,
         Settled
<1>2. CASE d.answer = "NotFound"
  BY <1>1, <1>2, MailPosted DEF Acknowledged, Inv
<1>3. CASE d.answer # "NotFound"
  BY <1>3 DEF Acknowledged, Inv
<1> QED BY <1>2, <1>3

LEMMA ConnectKept ==
  ASSUME Inv, NEW network \in Ssid, NEW disconnects,
         Connect(network, disconnects)
  PROVE  Kept
<1>1. Called /\ stationAdmission = "Ok" /\ adapter.enabled
  BY DEF Connect
<1>2. /\ Live(adapter, radio, client.next) /\ client.next \in Nat
      /\ client.next # 0
      /\ client' \in [begun : BOOLEAN, next : 1..(MaxId + 1)]
      /\ client'.begun /\ client'.next = client.next + 1
      /\ adapter \in Adapters /\ adapter.out = <<>>
      /\ adapter.station = NoStation /\ adapter.scan = 0
  BY <1>1, Admissible
<1>3. ~adapter.cancelling /\ ~adapter.scan_cancelling
  BY <1>2, NothingCancelled
<1> DEFINE Noted(a, credentials, waiting, station) ==
      a = [adapter EXCEPT !.config = network, !.credentials = credentials,
                          !.waiting = waiting, !.station = station]
<1>4. ASSUME NEW credentials \in Ssid, NEW waiting \in BOOLEAN,
             NEW station \in [id : Nat, kind : Transition],
             Noted(adapter', credentials, waiting, station)
      PROVE  /\ adapter' \in Adapters /\ adapter'.out = <<>>
             /\ adapter'.attached /\ ~adapter'.faulted
             /\ adapter'.station = station
             /\ adapter'.scan = 0 /\ adapter'.link = adapter.link
             /\ adapter'.enabled = adapter.enabled
             /\ ~adapter'.cancelling /\ ~adapter'.scan_cancelling
             /\ adapter'.credentials = credentials
             /\ adapter'.config = network
  <2>1. /\ adapter' \in Adapters /\ adapter'.out = <<>>
        /\ adapter'.station = station
        /\ adapter'.scan = 0 /\ adapter'.link = adapter.link
        /\ adapter'.credentials = credentials /\ adapter'.config = network
    BY <1>2, <1>4 DEF Adapters
  <2>2. adapter'.enabled = adapter.enabled
    BY <1>2, <1>4 DEF Adapters
  <2>3. adapter'.cancelling = adapter.cancelling
    BY <1>2, <1>4 DEF Adapters
  <2>4. adapter'.scan_cancelling = adapter.scan_cancelling
    BY <1>2, <1>4 DEF Adapters
  <2>5. adapter'.attached = adapter.attached
    BY <1>2, <1>4 DEF Adapters
  <2>6. adapter'.faulted = adapter.faulted
    BY <1>2, <1>4 DEF Adapters
  <2>7. adapter'.attached /\ ~adapter'.faulted
    BY <1>2, <2>5, <2>6 DEF Live
  <2>8. ~adapter'.cancelling /\ ~adapter'.scan_cancelling
    BY <1>3, <2>3, <2>4
  <2> QED BY <2>1, <2>2, <2>7, <2>8
<1> DEFINE taken == [id |-> client.next, kind |-> "Connect"]
<1>5. ASSUME NEW waiting \in BOOLEAN,
             Noted(adapter', network, waiting, taken),
             radio' = Admitted("Connect", FALSE), Mailed(mail')
      PROVE  Kept
  <2>1. taken \in [id : Nat, kind : Transition]
    BY <1>2 DEF Transition
  <2>2. /\ adapter' \in Adapters /\ adapter'.out = <<>>
        /\ adapter'.attached /\ ~adapter'.faulted
        /\ adapter'.station = taken
        /\ adapter'.scan = 0 /\ adapter'.link = adapter.link
        /\ adapter'.enabled = adapter.enabled
        /\ ~adapter'.cancelling /\ ~adapter'.scan_cancelling
        /\ adapter'.credentials = adapter'.config
    <3> HIDE DEF Noted, taken
    <3> QED BY <1>4, <1>5, <2>1
  <2>3. PICK kind \in {"Enable", "Connect", "Disconnect"} : kind = "Connect"
    OBVIOUS
  <2>4. PICK enabled \in BOOLEAN : enabled = FALSE
    OBVIOUS
  <2>5. /\ radio' = Admitted(kind, enabled)
        /\ adapter'.station = [id |-> client.next, kind |-> kind]
        /\ kind # "Disconnect"
    BY <1>5, <2>2, <2>3, <2>4
  <2>6. enabled <=> kind = "Enable" /\ adapter'.desired
    BY <2>3, <2>4
  <2>7. Live(adapter', Admitted(kind, enabled), client.next + 1)
    <3>1. kind = "Connect" /\ adapter'.credentials = adapter'.config
      BY <2>2, <2>3
    <3> HIDE DEF taken, Noted
    <3> QED BY <1>1, <2>2, <2>5, <2>6, <3>1, StationTaken
  <2>8. Inv'
    BY <1>2, <1>5, <2>5, <2>7, LiveKept
  <2>9. AdmitsStation
    BY <1>1, <2>5, StationAdmitted
  <2> QED BY <2>8, <2>9 DEF Kept, ContractNext
<1>6. ASSUME Noted(adapter', NoNetwork, FALSE, adapter.station),
             UNCHANGED radio, Mailed(mail')
      PROVE  Kept
  <2>1. adapter.station \in [id : Nat, kind : Transition] /\ NoNetwork \in Ssid
    BY <1>2 DEF Adapters, Ssid
  <2>2. /\ adapter' \in Adapters /\ adapter'.out = <<>>
        /\ adapter'.attached /\ ~adapter'.faulted
        /\ adapter'.station = adapter.station
        /\ adapter'.scan = adapter.scan /\ adapter'.link = adapter.link
        /\ adapter'.enabled = adapter.enabled
        /\ ~adapter'.cancelling /\ ~adapter'.scan_cancelling
        /\ adapter'.credentials = NoNetwork
    <3>1. PICK credentials \in Ssid, waiting \in BOOLEAN :
            credentials = NoNetwork /\ waiting = FALSE
      BY <2>1
    <3> HIDE DEF Noted
    <3>2. Noted(adapter', credentials, waiting, adapter.station)
      BY <1>6, <3>1
    <3> QED BY <1>2, <1>4, <2>1, <3>1, <3>2
  <2>3. Live(adapter', radio, client.next + 1)
    BY <1>1, <2>2, CallRefused
  <2>4. Inv'
    BY <1>2, <1>6, <2>3, LiveKept
  <2> QED BY <1>6, <2>4 DEF Kept
<1>7. adapter.waiting \in BOOLEAN
  BY <1>2, AdapterTyped
<1>8. CASE adapter.link.phase = "Idle"
  <2>1. /\ adapter' = [adapter EXCEPT !.station = taken, !.config = network,
                                      !.credentials = network]
        /\ radio' = Admitted("Connect", FALSE) /\ mail' = scheduleNow(mail)
    BY <1>8 DEF Connect
  <2>3. Noted(adapter', network, adapter.waiting, taken)
    <3> HIDE DEF taken
    <3> QED BY <1>2, <2>1 DEF Adapters
  <2>2. Mailed(mail')
    BY <2>1, MailScheduled DEF Inv
  <2> HIDE DEF Noted, taken
  <2> QED BY <1>5, <1>7, <2>1, <2>2, <2>3
<1>9. CASE adapter.link.phase # "Idle"
  <2>1. PICK d \in disconnects :
          /\ mail' = Acknowledged(d)
          /\ IF d.answer \in {"Ok", "NotFound"}
             THEN /\ adapter' = [[adapter EXCEPT !.station = taken,
                                     !.config = network,
                                     !.credentials = network]
                                   EXCEPT !.waiting = TRUE]
                  /\ radio' = Admitted("Connect", FALSE)
             ELSE /\ adapter' = [adapter EXCEPT !.config = network,
                                                !.credentials = NoNetwork,
                                                !.waiting = FALSE]
                  /\ UNCHANGED radio
    BY <1>9 DEF Connect
  <2>2. Mailed(mail')
    BY <2>1, MailAcknowledged
  <2>3. CASE d.answer \in {"Ok", "NotFound"}
    <3>1. Noted(adapter', network, TRUE, taken)
      <4> HIDE DEF taken
      <4> QED BY <1>2, <2>1, <2>3 DEF Adapters
    <3>2. radio' = Admitted("Connect", FALSE)
      BY <2>1, <2>3
    <3> HIDE DEF Noted, taken
    <3> QED BY <1>5, <2>2, <3>1, <3>2
  <2>4. CASE d.answer \notin {"Ok", "NotFound"}
    <3>1. Noted(adapter', NoNetwork, FALSE, adapter.station)
      BY <1>2, <2>1, <2>4, ZenonT(30) DEF Adapters
    <3>2. UNCHANGED radio
      BY <2>1, <2>4
    <3> HIDE DEF Noted
    <3> QED BY <1>6, <2>2, <3>1, <3>2
  <2> QED BY <2>3, <2>4
<1> QED BY <1>8, <1>9

LEMMA DisconnectKept ==
  ASSUME Inv, NEW disconnects, Disconnect(disconnects)
  PROVE  Kept
<1>1. Called /\ stationAdmission = "Ok"
  BY DEF Disconnect
<1>2. /\ Live(adapter, radio, client.next) /\ client.next \in Nat
      /\ client.next # 0
      /\ client' \in [begun : BOOLEAN, next : 1..(MaxId + 1)]
      /\ client'.begun /\ client'.next = client.next + 1
      /\ adapter \in Adapters /\ adapter.out = <<>>
      /\ adapter.station = NoStation /\ adapter.scan = 0
      /\ adapter.credentials = NoNetwork
  BY <1>1, Admissible
<1>3. ~adapter.cancelling /\ ~adapter.scan_cancelling
  BY <1>2, NothingCancelled
<1> DEFINE taken == [id |-> client.next, kind |-> "Disconnect"]
<1>4. PICK d :
        /\ mail' = Acknowledged(d)
        /\ IF d.answer \in {"Ok", "NotFound"}
           THEN /\ adapter' = [adapter EXCEPT !.station = taken,
                                              !.waiting = TRUE]
                /\ radio' = Admitted("Disconnect", FALSE)
           ELSE /\ adapter' = [adapter EXCEPT !.waiting = FALSE]
                /\ UNCHANGED radio
  BY DEF Disconnect
<1>5. Mailed(mail')
  BY <1>4, MailAcknowledged
<1>6. PICK station \in [id : Nat, kind : Transition], waiting \in BOOLEAN :
        /\ adapter' = [adapter EXCEPT !.station = station,
                                      !.waiting = waiting]
        /\ IF d.answer \in {"Ok", "NotFound"}
           THEN station = taken /\ waiting = TRUE
           ELSE station = adapter.station
  <2>1. CASE d.answer \in {"Ok", "NotFound"}
    <3>1. taken \in [id : Nat, kind : Transition]
      BY <1>2 DEF Transition
    <3> HIDE DEF taken
    <3> QED BY <1>4, <2>1, <3>1
  <2>2. CASE d.answer \notin {"Ok", "NotFound"}
    <3>1. adapter.station \in [id : Nat, kind : Transition]
      BY <1>2 DEF Adapters
    <3>2. adapter' = [adapter EXCEPT !.station = adapter.station,
                                     !.waiting = FALSE]
      BY <1>2, <1>4, <2>2, ZenonT(30) DEF Adapters
    <3> HIDE DEF taken
    <3> QED BY <2>2, <3>1, <3>2
  <2> QED BY <2>1, <2>2
<1> HIDE DEF taken
<1>7. /\ adapter' \in Adapters /\ adapter'.out = <<>>
      /\ adapter'.station = station
      /\ adapter'.scan = 0 /\ adapter'.link = adapter.link
      /\ adapter'.credentials = NoNetwork
  BY <1>2, <1>6 DEF Adapters
<1>8. adapter'.enabled = adapter.enabled
  BY <1>2, <1>6 DEF Adapters
<1>9. adapter'.cancelling = adapter.cancelling
  BY <1>2, <1>6 DEF Adapters
<1>10. adapter'.scan_cancelling = adapter.scan_cancelling
  BY <1>2, <1>6 DEF Adapters
<1>11. adapter'.attached = adapter.attached
  BY <1>2, <1>6 DEF Adapters
<1>12. adapter'.faulted = adapter.faulted
  BY <1>2, <1>6 DEF Adapters
<1>13. adapter'.waiting = waiting
  BY <1>2, <1>6 DEF Adapters
<1>14. /\ adapter'.attached /\ ~adapter'.faulted
       /\ ~adapter'.cancelling /\ ~adapter'.scan_cancelling
  BY <1>2, <1>3, <1>9, <1>10, <1>11, <1>12 DEF Live
<1>15. CASE d.answer \in {"Ok", "NotFound"}
  <2>1. PICK kind \in {"Enable", "Connect", "Disconnect"} : kind = "Disconnect"
    OBVIOUS
  <2>2. PICK enabled \in BOOLEAN : enabled = FALSE
    OBVIOUS
  <2>3. /\ radio' = Admitted(kind, enabled)
        /\ adapter'.station = [id |-> client.next, kind |-> kind]
        /\ adapter'.waiting /\ kind # "Connect"
    BY <1>4, <1>6, <1>7, <1>13, <1>15, <2>1, <2>2 DEF taken
  <2>4. enabled <=> kind = "Enable" /\ adapter'.desired
    BY <2>1, <2>2
  <2>5. Live(adapter', Admitted(kind, enabled), client.next + 1)
    BY <1>1, <1>7, <1>8, <1>14, <2>3, <2>4, StationTaken
  <2>6. Inv'
    BY <1>2, <1>5, <2>3, <2>5, LiveKept
  <2>7. AdmitsStation
    BY <1>1, <2>3, StationAdmitted
  <2> QED BY <2>6, <2>7 DEF Kept, ContractNext
<1>16. CASE d.answer \notin {"Ok", "NotFound"}
  <2>1. adapter'.station = adapter.station /\ UNCHANGED radio
        /\ adapter'.scan = adapter.scan
    BY <1>2, <1>4, <1>6, <1>7, <1>16
  <2>2. Live(adapter', radio, client.next + 1)
    BY <1>1, <1>7, <1>8, <1>14, <2>1, CallRefused
  <2>3. Inv'
    BY <1>2, <1>5, <2>1, <2>2, LiveKept
  <2> QED BY <2>1, <2>3 DEF Kept
<1> QED BY <1>15, <1>16

LEMMA CancelNoted ==
  ASSUME NEW c \in Commands, NEW d \in Commands,
         d.id = c.id, d.kind = c.kind, d.enabled = c.enabled, d.cancel = TRUE
  PROVE  [c EXCEPT !.cancel = TRUE] = d
BY DEF Commands

(* A cancellation changes a flag of the adapter, and that of the boundary. *)
LEMMA CancelScanKept ==
  ASSUME Inv, NEW stops, CancelScan(stops)
  PROVE  Kept
<1>1. PICK s \in stops :
        IF s.answer = "Ok"
        THEN /\ adapter' = [adapter EXCEPT !.scan_cancelling = TRUE]
             /\ radio' = [radio EXCEPT !.scan.cancel = TRUE]
        ELSE UNCHANGED <<adapter, radio>>
  BY DEF CancelScan
<1>2. /\ adapter.out = <<>> /\ adapter.scan # 0
      /\ UNCHANGED <<mail, client>>
  BY DEF CancelScan, Free
<1>3. adapter.attached /\ ~adapter.faulted
  BY <1>2 DEF Inv, Sound, Operations
<1>4. /\ Live(adapter, radio, client.next) /\ client.next \in Nat
      /\ client \in [begun : BOOLEAN, next : 1..(MaxId + 1)]
      /\ client.begun
  BY <1>3, LiveNow
<1>5. adapter \in Adapters /\ radio \in Radios /\ radio = Believed(adapter)
  BY <1>2, <1>4, NothingPending DEF Live
<1>6. CASE s.answer = "Ok"
  <2>1. PICK q : q = [id |-> adapter.scan, kind |-> "Scan",
                      enabled |-> FALSE, cancel |-> TRUE]
    OBVIOUS
  <2>2. /\ radio.scan = [id |-> adapter.scan, kind |-> "Scan",
                         enabled |-> FALSE, cancel |-> adapter.scan_cancelling]
        /\ radio.station = Command(adapter.station.id, adapter.station.kind,
                            adapter.station.kind = "Enable" /\ adapter.desired,
                            adapter.cancelling)
        /\ radio.link = [id |-> adapter.link.id, phase |-> adapter.link.phase]
    BY <1>2, <1>3, <1>5, Zenon DEF Believed, Command
  <2>3. q \in Commands /\ radio' = [radio EXCEPT !.scan = q]
    <3>1. adapter.scan \in Nat
      BY <1>5 DEF Adapters
    <3>2. q \in Commands
      BY <2>1, <3>1 DEF Commands
    <3>3. [radio.scan EXCEPT !.cancel = TRUE] = q
      <4>1. radio.scan \in Commands
        BY <1>5 DEF Radios
      <4>2. /\ q.id = radio.scan.id /\ q.kind = radio.scan.kind
            /\ q.enabled = radio.scan.enabled
        BY <2>1, <2>2
      <4>3. q.cancel = TRUE
        BY <2>1
      <4> QED BY <3>2, <4>1, <4>2, <4>3, CancelNoted
    <3> QED BY <1>1, <1>5, <1>6, <3>2, <3>3 DEF Radios
  <2>4. /\ radio' \in Radios /\ radio'.scan = q
        /\ radio'.station = radio.station /\ radio'.link = radio.link
        /\ radio'.enabled = radio.enabled
    BY <1>5, <2>3 DEF Radios
  <2>5. /\ adapter' \in Adapters /\ adapter'.out = <<>>
        /\ adapter'.scan = adapter.scan /\ adapter'.station = adapter.station
        /\ adapter'.link = adapter.link /\ adapter'.config = adapter.config
        /\ adapter'.credentials = adapter.credentials
    <3>1. PICK cancelling \in BOOLEAN :
            adapter' = [adapter EXCEPT !.scan_cancelling = cancelling]
      BY <1>1, <1>6
    <3> QED BY <1>2, <1>5, <3>1 DEF Adapters
  <2>6. adapter'.cancelling = adapter.cancelling
    BY <1>1, <1>5, <1>6 DEF Adapters
  <2>7. adapter'.attached = adapter.attached
    BY <1>1, <1>5, <1>6 DEF Adapters
  <2>8. adapter'.faulted = adapter.faulted
    BY <1>1, <1>5, <1>6 DEF Adapters
  <2>9. adapter'.enabled = adapter.enabled
    BY <1>1, <1>5, <1>6 DEF Adapters
  <2>10. adapter'.waiting = adapter.waiting
    BY <1>1, <1>5, <1>6 DEF Adapters
  <2>11. adapter'.desired = adapter.desired
    BY <1>1, <1>5, <1>6 DEF Adapters
  <2>12. adapter'.scan_cancelling = TRUE
    BY <1>1, <1>5, <1>6 DEF Adapters
  <2>13. adapter'.attached /\ ~adapter'.faulted
    BY <1>3, <2>7, <2>8
  <2>14. Operations(adapter') /\ Secret(adapter')
         /\ Issued(adapter', client.next)
    BY <1>2, <1>4, <2>5, <2>6, <2>10, <2>13
       DEF Live, Operations, Secret, Issued, Connecting
  <2>15. radio' = Believed(adapter')
    <3>1. PICK v : v = Believed(adapter')
      OBVIOUS
    <3>2. v \in Radios
      BY <2>5, <3>1, ViewTyped
    <3>3. /\ v.station = Command(adapter.station.id, adapter.station.kind,
                           adapter.station.kind = "Enable" /\ adapter.desired,
                           adapter.cancelling)
          /\ v.link = [id |-> adapter.link.id, phase |-> adapter.link.phase]
          /\ v.scan = q
      BY <1>2, <2>1, <2>5, <2>6, <2>11, <2>12, <2>13, <3>1, Zenon
         DEF Believed, Command
    <3>4. v.enabled = adapter'.enabled
      BY <2>13, <3>1 DEF Believed
    <3>5. v.attached = TRUE
      BY <2>13, <3>1 DEF Believed
    <3>6. v.dead = FALSE
      BY <2>5, <2>13, <3>1, AdapterTyped DEF Believed
    <3>7. radio'.attached = TRUE
      BY <1>3, <1>5, <2>3 DEF Radios, Believed
    <3>8. radio'.dead = FALSE
      BY <1>3, <1>5, <2>3 DEF Radios, Believed
    <3>9. radio'.enabled = v.enabled
      BY <1>3, <1>5, <2>4, <2>9, <3>4 DEF Believed
    <3>10. radio'.attached = v.attached
      BY <3>5, <3>7
    <3>11. radio'.dead = v.dead
      BY <3>6, <3>8
    <3>12. /\ radio'.scan = v.scan /\ radio'.station = v.station
           /\ radio'.link = v.link
      BY <2>2, <2>4, <3>3
    <3> QED BY <2>4, <3>1, <3>2, <3>9, <3>10, <3>11, <3>12, SameRadio
  <2>16. Live(adapter', radio', client.next)
    BY <2>5, <2>13, <2>14, <2>15, LiveAgain
  <2>17. Inv'
    BY <1>2, <1>4, <2>16, LiveKept DEF Inv
  <2>18. AdmitsCancel
    <3>1. radio.scan.id # 0
      BY <1>2, <2>2
    <3>2. radio' = [radio EXCEPT !.scan.cancel = TRUE]
      BY <1>1, <1>6
    <3> QED BY <3>1, <3>2, Zenon DEF AdmitsCancel
  <2> QED BY <2>17, <2>18 DEF Kept, ContractNext
<1>7. CASE s.answer # "Ok"
  <2>1. UNCHANGED <<adapter, radio>>
    BY <1>1, <1>7
  <2>2. Inv'
    BY <1>2, <1>4, <2>1, LiveKept DEF Inv
  <2> QED BY <2>1, <2>2 DEF Kept
<1> QED BY <1>6, <1>7

LEMMA CancelConnectKept ==
  ASSUME Inv, NEW disconnects, CancelConnect(disconnects)
  PROVE  Kept
<1> DEFINE teardown == ~adapter.waiting /\ adapter.link.phase # "Idle"
<1>1. PICK d :
        IF d.answer \in {"Ok", "NotFound"}
        THEN /\ adapter' = [adapter EXCEPT !.cancelling = TRUE,
                                           !.waiting = @ \/ teardown]
             /\ mail' = scheduleNow(Acknowledged(d))
             /\ radio' = [radio EXCEPT !.station.cancel = TRUE]
        ELSE UNCHANGED <<adapter, mail, radio>>
  BY DEF CancelConnect
<1>2. /\ adapter.out = <<>> /\ Connecting(adapter) /\ UNCHANGED client
  BY DEF CancelConnect, Free
<1>3. adapter.attached /\ ~adapter.faulted
  BY <1>2 DEF Inv, Sound, Operations, Connecting
<1>4. /\ Live(adapter, radio, client.next) /\ client.next \in Nat
      /\ client \in [begun : BOOLEAN, next : 1..(MaxId + 1)]
      /\ client.begun
  BY <1>3, LiveNow
<1>5. adapter \in Adapters /\ radio \in Radios /\ radio = Believed(adapter)
  BY <1>2, <1>4, NothingPending DEF Live
<1>6. CASE d.answer \in {"Ok", "NotFound"}
  <2>1. PICK q : q = [id |-> adapter.station.id, kind |-> "Connect",
                      enabled |-> FALSE, cancel |-> TRUE]
    OBVIOUS
  <2>2. /\ radio.station = [id |-> adapter.station.id, kind |-> "Connect",
                            enabled |-> FALSE, cancel |-> adapter.cancelling]
        /\ radio.scan = Command(adapter.scan, "Scan", FALSE,
                                adapter.scan_cancelling)
        /\ radio.link = [id |-> adapter.link.id, phase |-> adapter.link.phase]
    <3>1. /\ adapter.station.id # 0 /\ adapter.station.kind = "Connect"
      BY <1>2 DEF Connecting
    <3>2. (adapter.station.kind = "Enable" /\ adapter.desired) = FALSE
      BY <3>1
    <3> QED BY <1>3, <1>5, <3>1, <3>2 DEF Believed, Command
  <2>3. q \in Commands /\ radio' = [radio EXCEPT !.station = q]
    <3>1. adapter.station.id \in Nat
      BY <1>5 DEF Adapters
    <3>2. q \in Commands
      BY <2>1, <3>1 DEF Commands, Transition
    <3>3. [radio.station EXCEPT !.cancel = TRUE] = q
      <4>1. radio.station \in Commands
        BY <1>5 DEF Radios
      <4>2. /\ q.id = radio.station.id /\ q.kind = radio.station.kind
            /\ q.enabled = radio.station.enabled
        BY <2>1, <2>2
      <4>3. q.cancel = TRUE
        BY <2>1
      <4> QED BY <3>2, <4>1, <4>2, <4>3, CancelNoted
    <3> QED BY <1>1, <1>5, <1>6, <3>2, <3>3 DEF Radios
  <2>4. /\ radio' \in Radios /\ radio'.station = q
        /\ radio'.scan = radio.scan /\ radio'.link = radio.link
        /\ radio'.enabled = radio.enabled
    BY <1>5, <2>3 DEF Radios
  <2>5. PICK waiting \in BOOLEAN :
          adapter' = [adapter EXCEPT !.cancelling = TRUE, !.waiting = waiting]
    <3>1. (adapter.waiting \/ teardown) \in BOOLEAN
      OBVIOUS
    <3> QED BY <1>1, <1>5, <1>6, <3>1 DEF Adapters
  <2>6. /\ adapter' \in Adapters /\ adapter'.out = <<>>
        /\ adapter'.scan = adapter.scan /\ adapter'.station = adapter.station
        /\ adapter'.link = adapter.link /\ adapter'.config = adapter.config
        /\ adapter'.credentials = adapter.credentials
    BY <1>2, <1>5, <2>5 DEF Adapters
  <2>7. adapter'.cancelling = TRUE
    BY <1>5, <2>5 DEF Adapters
  <2>8. adapter'.attached = adapter.attached
    BY <1>5, <2>5 DEF Adapters
  <2>9. adapter'.faulted = adapter.faulted
    BY <1>5, <2>5 DEF Adapters
  <2>10. adapter'.enabled = adapter.enabled
    BY <1>5, <2>5 DEF Adapters
  <2>11. adapter'.scan_cancelling = adapter.scan_cancelling
    BY <1>5, <2>5 DEF Adapters
  <2>12. adapter'.attached /\ ~adapter'.faulted
    BY <1>3, <2>8, <2>9
  <2>13. Operations(adapter') /\ Secret(adapter')
         /\ Issued(adapter', client.next)
    BY <1>2, <1>4, <2>6, <2>11, <2>12
       DEF Live, Operations, Secret, Issued, Connecting
  <2>14. radio' = Believed(adapter')
    <3>1. PICK v : v = Believed(adapter')
      OBVIOUS
    <3>2. v \in Radios
      BY <2>6, <3>1, ViewTyped
    <3>3. /\ v.scan = Command(adapter.scan, "Scan", FALSE,
                              adapter.scan_cancelling)
          /\ v.link = [id |-> adapter.link.id, phase |-> adapter.link.phase]
      BY <2>6, <2>11, <2>12, <3>1 DEF Believed
    <3>4. v.station = q
      <4>1. adapter.station.id # 0 /\ adapter.station.kind = "Connect"
        BY <1>2 DEF Connecting
      <4>2. (adapter.station.kind = "Enable" /\ adapter'.desired) = FALSE
        BY <4>1
      <4>3. v.station = Command(adapter.station.id, adapter.station.kind,
                                adapter.station.kind = "Enable"
                                  /\ adapter'.desired,
                                adapter'.cancelling)
        BY <2>6, <2>12, <3>1, Zenon DEF Believed
      <4> QED BY <2>1, <2>7, <4>1, <4>2, <4>3 DEF Command
    <3>5. v.enabled = adapter'.enabled
      BY <2>12, <3>1 DEF Believed
    <3>6. v.attached = TRUE
      BY <2>12, <3>1 DEF Believed
    <3>7. v.dead = FALSE
      BY <2>6, <2>12, <3>1, AdapterTyped DEF Believed
    <3>8. radio'.attached = TRUE
      BY <1>3, <1>5, <2>3 DEF Radios, Believed
    <3>9. radio'.dead = FALSE
      BY <1>3, <1>5, <2>3 DEF Radios, Believed
    <3>10. radio'.enabled = v.enabled
      BY <1>3, <1>5, <2>4, <2>10, <3>5 DEF Believed
    <3>11. radio'.attached = v.attached
      BY <3>6, <3>8
    <3>12. radio'.dead = v.dead
      BY <3>7, <3>9
    <3>13. /\ radio'.scan = v.scan /\ radio'.station = v.station
           /\ radio'.link = v.link
      BY <2>2, <2>4, <3>3, <3>4
    <3> QED BY <2>4, <3>1, <3>2, <3>10, <3>11, <3>12, <3>13, SameRadio
  <2>15. Live(adapter', radio', client.next)
    BY <2>6, <2>12, <2>13, <2>14, LiveAgain
  <2>16. Mailed(mail')
    BY <1>1, <1>6, MailAcknowledged, MailScheduled
  <2>17. Inv'
    BY <1>2, <1>4, <2>15, <2>16, LiveKept
  <2>18. AdmitsCancel
    <3>1. radio.station.kind = "Connect"
      BY <2>2
    <3>2. radio' = [radio EXCEPT !.station.cancel = TRUE]
      BY <1>1, <1>6
    <3> QED BY <3>1, <3>2, Zenon DEF AdmitsCancel
  <2> QED BY <2>17, <2>18 DEF Kept, ContractNext
<1>7. CASE d.answer \notin {"Ok", "NotFound"}
  <2>1. UNCHANGED <<adapter, mail, radio>>
    BY <1>1, <1>7
  <2>2. Inv'
    BY <1>2, <1>4, <2>1, LiveKept DEF Inv
  <2> QED BY <2>1, <2>2 DEF Kept
<1> QED BY <1>6, <1>7

LEMMA MailCleared ==
  ASSUME NEW m, Mailed(m), NEW n,
         \/ n = NewMail
         \/ n = [m EXCEPT !.queue = <<>>]
         \/ n = [m EXCEPT !.queue = <<>>, !.due = FALSE]
  PROVE  Mailed(n)
<1>1. <<>> \in Seq(SaneEvents) /\ Len(<<>>) = 0
  BY EmptySeq
<1>2. 0 <= Capacity
  BY EventsAssumption
<1>3. /\ n \in [queue : Seq(SaneEvents), overflow : BOOLEAN, due : BOOLEAN]
      /\ n.queue = <<>>
  <2>1. m \in [queue : Seq(SaneEvents), overflow : BOOLEAN, due : BOOLEAN]
    BY DEF Mailed
  <2>2. CASE n = NewMail
    BY <1>1, <2>2 DEF NewMail
  <2>3. CASE n # NewMail
    BY <1>1, <2>1, <2>3
  <2> QED BY <2>2, <2>3
<1> QED BY <1>1, <1>2, <1>3 DEF Mailed

LEMMA BeginKept ==
  ASSUME Inv, NEW n, Begin(n)
  PROVE  Kept
<1>1. /\ adapter = NewAdapter /\ client' = [client EXCEPT !.begun = TRUE]
      /\ adapter' = [NewAdapter EXCEPT !.attached = TRUE, !.faulted = FALSE]
      /\ mail' = NewMail /\ radio' = [radio EXCEPT !.attached = TRUE]
  BY DEF Begin, Inv
<1>2. /\ adapter \in Adapters /\ adapter.out = <<>> /\ ~adapter.attached
  BY <1>1 DEF Inv, Settled, NewAdapter
<1>3. radio = NewRadio
  BY <1>2, NothingPending DEF Inv, Believed
<1>4. /\ client' \in [begun : BOOLEAN, next : 1..(MaxId + 1)]
      /\ client'.begun /\ client'.next = client.next
      /\ client.next \in Nat /\ client.next > 0
  <2>1. client \in [begun : BOOLEAN, next : 1..(MaxId + 1)]
    BY DEF Inv
  <2>2. client.next \in Nat /\ client.next > 0
    BY <2>1, OrderedAssumption
  <2>3. /\ client' \in [begun : BOOLEAN, next : 1..(MaxId + 1)]
        /\ client'.next = client.next
    BY <1>1, <2>1
  <2>4. client'.begun
    BY <1>1, <2>1
  <2> QED BY <2>2, <2>3, <2>4
<1>5. /\ adapter' \in Adapters /\ adapter'.out = <<>>
      /\ adapter'.station = NoStation /\ adapter'.scan = 0
      /\ adapter'.link = Unlinked /\ adapter'.credentials = NoNetwork
  BY <1>1, <1>2 DEF Adapters, NewAdapter
<1>6. adapter'.attached
  BY <1>1 DEF NewAdapter
<1>7. adapter'.faulted = FALSE
  BY <1>1 DEF NewAdapter
<1>8. adapter'.cancelling = FALSE
  BY <1>1 DEF NewAdapter
<1>9. adapter'.scan_cancelling = FALSE
  BY <1>1 DEF NewAdapter
<1>10. adapter'.enabled = FALSE
  BY <1>1 DEF NewAdapter
<1>11. Operations(adapter') /\ Secret(adapter')
       /\ Issued(adapter', client'.next)
  BY <1>4, <1>5, <1>6, <1>7, <1>8, <1>9
     DEF Operations, Secret, Issued, Connecting, NoStation, Unlinked
<1>12. radio' = Believed(adapter')
  <2>1. Believed(adapter') = IdleView(0, "Idle", FALSE)
    <3>1. /\ adapter'.station.id = 0 /\ adapter'.link.id = 0
          /\ adapter'.link.phase = "Idle"
      BY <1>5 DEF NoStation, Unlinked
    <3> QED
      BY <1>5, <1>6, <1>7, <1>10, <3>1, Zenon DEF Believed, Command, IdleView
  <2>2. radio' = IdleView(0, "Idle", FALSE)
    BY <1>1, <1>3 DEF NewRadio, NoLink, IdleView
  <2> QED BY <2>1, <2>2
<1>13. Live(adapter', radio', client'.next)
  BY <1>5, <1>6, <1>7, <1>11, <1>12, LiveAgain
<1>14. Mailed(mail')
  BY <1>1, MailCleared DEF Inv
<1>15. Inv'
  BY <1>4, <1>13, <1>14, LiveKept
<1>16. Attaches
  BY <1>1, <1>3 DEF Attaches, NewRadio
<1> QED BY <1>15, <1>16 DEF Kept, ContractNext

LEMMA ShutdownKept ==
  ASSUME Inv, NEW n, Shutdown(n)
  PROVE  Kept
<1>1. /\ adapter.attached /\ adapter.out = <<>> /\ ~adapter.draining
      /\ adapter' = [adapter EXCEPT
                       !.attached = FALSE, !.station = NoStation, !.scan = 0,
                       !.credentials = NoNetwork, !.link = Unlinked]
      /\ mail' = [mail EXCEPT !.queue = <<>>, !.due = FALSE]
      /\ radio' = NewRadio /\ client' = client
  BY DEF Shutdown, Free
<1>2. adapter \in Adapters
  BY DEF Inv, Settled
<1>3. /\ client \in [begun : BOOLEAN, next : 1..(MaxId + 1)] /\ client.begun
      /\ client.next > 0
  BY <1>1, OrderedAssumption DEF Inv, NewAdapter
<1>4. /\ adapter' \in Adapters /\ adapter'.out = <<>>
      /\ adapter'.station = NoStation /\ adapter'.scan = 0
      /\ adapter'.link = Unlinked /\ adapter'.credentials = NoNetwork
  BY <1>1, <1>2
     DEF Adapters, NoStation, Unlinked, Ssid, Transition, LinkPhase
<1>5. ~adapter'.attached
  BY <1>1, <1>2 DEF Adapters
<1>6. adapter'.draining = adapter.draining
  BY <1>1, <1>2 DEF Adapters
<1>7. Sound(adapter)'
  BY <1>1, <1>3, <1>4, <1>5, <1>6
     DEF Sound, Operations, Secret, Issued, Connecting, NoStation, Unlinked
<1>8. radio' \in Radios /\ radio' = Believed(adapter')
  BY <1>1, <1>4, <1>5, ViewTyped DEF Believed
<1>9. Settled(adapter', radio')
  BY <1>4, <1>8, NothingPending
<1>10. Mailed(mail')
  BY <1>1, MailCleared DEF Inv
<1>11. Inv'
  BY <1>1, <1>3, <1>5, <1>7, <1>9, <1>10 DEF Inv
<1>12. Detaches
  BY <1>1 DEF Detaches
<1> QED BY <1>11, <1>12 DEF Kept, ContractNext

LEMMA DrainKept ==
  ASSUME Inv, Drain
  PROVE  Kept
<1>1. /\ adapter.attached /\ adapter.out = <<>>
      /\ adapter' = [adapter EXCEPT !.draining = TRUE]
      /\ mail' = [mail EXCEPT !.due = FALSE]
      /\ UNCHANGED <<client, radio>>
  BY DEF Drain, Free
<1>2. Mailed(mail') /\ mail'.overflow = mail.overflow
  BY <1>1 DEF Mailed, Inv
<1>3. adapter \in Adapters
  BY DEF Inv, Settled
<1>4. /\ adapter' \in Adapters /\ adapter'.out = adapter.out
      /\ Believed(adapter') = Believed(adapter)
      /\ adapter'.station = adapter.station /\ adapter'.scan = adapter.scan
      /\ adapter'.link = adapter.link /\ adapter'.config = adapter.config
      /\ adapter'.credentials = adapter.credentials
  BY <1>1, <1>3 DEF Adapters, Believed
<1>5. adapter'.cancelling = adapter.cancelling
  BY <1>1, <1>3 DEF Adapters
<1>6. adapter'.waiting = adapter.waiting
  BY <1>1, <1>3 DEF Adapters
<1>7. adapter'.scan_cancelling = adapter.scan_cancelling
  BY <1>1, <1>3 DEF Adapters
<1>8. adapter'.attached = adapter.attached
  BY <1>1, <1>3 DEF Adapters
<1>9. adapter'.faulted = adapter.faulted
  BY <1>1, <1>3 DEF Adapters
<1>10. Settled(adapter', radio')
  <2>1. Settled(adapter', radio)
    BY <1>4, SameView DEF Inv
  <2> QED BY <1>1, <2>1
<1>11. Sound(adapter)'
  BY <1>1, <1>4, <1>5, <1>6, <1>7, <1>8, <1>9
     DEF Inv, Sound, Operations, Secret, Issued, Connecting
<1>12. client.begun
  BY <1>1 DEF Inv, NewAdapter
<1>13. Inv'
  BY <1>1, <1>2, <1>8, <1>9, <1>10, <1>11, <1>12 DEF Inv
<1> QED BY <1>1, <1>13 DEF Kept

(* Inside drain() the adapter is live unless the queue has overflowed. *)
LEMMA Draining ==
  ASSUME Inv, Iterates, ~mail.overflow
  PROVE  /\ Live(adapter, radio, client.next) /\ client.next \in Nat
         /\ client \in [begun : BOOLEAN, next : 1..(MaxId + 1)]
         /\ client.begun /\ adapter.out = <<>>
<1>1. adapter.attached /\ ~adapter.faulted /\ adapter.out = <<>>
  BY DEF Inv, Sound, Operations, Iterates
<1> QED BY <1>1, LiveNow

LEMMA DrainEventKept ==
  ASSUME Inv, NEW continues,
         \A c \in continues : c.answer \in AnswerStatus,
         DrainEvent(continues)
  PROVE  Kept
<1>1. /\ Iterates /\ ~mail.overflow /\ mail.queue # <<>>
      /\ mail' = [mail EXCEPT !.queue = Tail(@)]
      /\ UNCHANGED <<client, radio>>
  BY DEF DrainEvent
<1>2. PICK event : event = Head(mail.queue)
  OBVIOUS
<1>3. PICK answer \in AnswerStatus : adapter' = process(adapter, event, answer)
  <2>1. \E c \in IF /\ ~adapter.faulted /\ event.kind = "Prepared"
                    /\ Continues(adapter)
                 THEN continues ELSE {Answer("Ok", native)} :
          adapter' = process(adapter, event, c.answer)
    BY <1>2 DEF DrainEvent
  <2>2. Answer("Ok", native).answer \in AnswerStatus
    BY DEF Answer, AnswerStatus
  <2> QED BY <2>1, <2>2
<1>4. /\ mail \in [queue : Seq(SaneEvents), overflow : BOOLEAN,
                   due : BOOLEAN]
      /\ Len(mail.queue) <= Capacity
  BY DEF Inv, Mailed
<1>5. /\ event \in SaneEvents /\ Tail(mail.queue) \in Seq(SaneEvents)
      /\ Len(mail.queue) \in Nat
      /\ Len(Tail(mail.queue)) = Len(mail.queue) - 1
  BY <1>1, <1>2, <1>4, HeadTailProperties
<1>6. Mailed(mail')
  <2>1. Len(Tail(mail.queue)) <= Capacity
    BY <1>4, <1>5, EventsAssumption
  <2> QED BY <1>1, <1>4, <1>5, <2>1 DEF Mailed
<1>7. Live(adapter', radio, client.next)
  BY <1>1, <1>3, <1>5, Draining, ProcessLive
<1>8. Inv'
  BY <1>1, <1>6, <1>7, Draining, LiveKept
<1> QED BY <1>1, <1>8 DEF Kept

LEMMA DrainOverflowKept ==
  ASSUME Inv, DrainOverflow
  PROVE  Kept
<1>1. /\ Iterates /\ mail.overflow
      /\ adapter' = Overflown(adapter)
      /\ mail' = [mail EXCEPT !.queue = <<>>]
      /\ radio' = [radio EXCEPT !.dead = TRUE]
      /\ client' = client
  BY DEF DrainOverflow
<1>2. adapter.attached /\ adapter.out = <<>>
  BY <1>1 DEF Inv, Sound, Operations, Iterates
<1>3. /\ adapter \in Adapters /\ radio \in Radios /\ radio = Believed(adapter)
  BY <1>2, NothingPending DEF Inv
<1>4. /\ client \in [begun : BOOLEAN, next : 1..(MaxId + 1)] /\ client.begun
  BY <1>2 DEF Inv, NewAdapter
<1>5. Mailed(mail')
  BY <1>1, MailCleared DEF Inv
<1>6. mail'.overflow
  BY <1>1 DEF Inv, Mailed
<1>7. CASE ~adapter.faulted
  <2>1. Live(adapter, radio, client.next) /\ client.next \in Nat
    BY <1>2, <1>7, LiveNow
  <2>2. /\ Settled(adapter', [radio EXCEPT !.dead = TRUE])
        /\ adapter'.attached /\ adapter'.faulted
        /\ Operations(adapter') /\ Secret(adapter')
        /\ Issued(adapter', client.next)
    BY <1>1, <1>2, <2>1, FaultLive
  <2>3. Inv'
    BY <1>1, <1>4, <1>5, <1>6, <2>2 DEF Inv, Sound
  <2>4. Dies
    BY <1>1, <1>2, <1>3, <1>7 DEF Dies, Alive, Believed
  <2> QED BY <2>3, <2>4 DEF Kept, ContractNext
<1>8. CASE adapter.faulted
  <2>1. adapter.station.id = 0 /\ adapter.scan = 0
    BY <1>8 DEF Inv, Sound, Operations
  <2>2. adapter' = [adapter EXCEPT !.faulted = TRUE, !.draining = FALSE]
    <3>1. PICK c : c = [adapter EXCEPT !.faulted = TRUE, !.draining = FALSE]
      OBVIOUS
    <3>2. c.station.id = 0 /\ c.scan = 0
      BY <1>3, <2>1, <3>1 DEF Adapters
    <3>3. finishStation(c, "ConnectionFailed") = c
      BY <3>2 DEF finishStation
    <3>4. finishScan(c, "ConnectionFailed") = c
      BY <3>2 DEF finishScan
    <3> QED BY <1>1, <3>1, <3>3, <3>4 DEF Overflown
  <2>3. UNCHANGED radio
    <3>1. radio.dead = TRUE
      BY <1>2, <1>3, <1>8, AdapterTyped DEF Believed
    <3> QED BY <1>1, <1>3, <3>1 DEF Radios
  <2>4. /\ adapter' \in Adapters /\ adapter'.out = adapter.out
        /\ adapter'.station = adapter.station /\ adapter'.scan = adapter.scan
        /\ adapter'.link = adapter.link /\ adapter'.config = adapter.config
        /\ adapter'.credentials = adapter.credentials
    BY <1>3, <2>2 DEF Adapters
  <2>5. adapter'.cancelling = adapter.cancelling
    BY <1>3, <2>2 DEF Adapters
  <2>6. adapter'.waiting = adapter.waiting
    BY <1>3, <2>2 DEF Adapters
  <2>7. adapter'.scan_cancelling = adapter.scan_cancelling
    BY <1>3, <2>2 DEF Adapters
  <2>8. adapter'.attached = adapter.attached
    BY <1>3, <2>2 DEF Adapters
  <2>9. adapter'.faulted = adapter.faulted
    BY <1>3, <1>8, <2>2, AdapterTyped DEF Adapters
  <2>10. adapter'.enabled = adapter.enabled
    BY <1>3, <2>2 DEF Adapters
  <2>11. adapter'.desired = adapter.desired
    BY <1>3, <2>2 DEF Adapters
  <2>12. Believed(adapter') = Believed(adapter)
    BY <2>4, <2>5, <2>7, <2>8, <2>9, <2>10, <2>11, Zenon DEF Believed
  <2>13. Settled(adapter', radio')
    <3>1. Settled(adapter', radio)
      BY <2>4, <2>12, SameView DEF Inv
    <3> QED BY <2>3, <3>1
  <2>14. Sound(adapter)'
    BY <1>1, <1>2, <2>4, <2>5, <2>6, <2>7, <2>8, <2>9
       DEF Inv, Sound, Operations, Secret, Issued, Connecting
  <2>15. Inv'
    BY <1>1, <1>4, <1>5, <1>6, <2>13, <2>14 DEF Inv
  <2> QED BY <2>3, <2>15 DEF Kept
<1> QED BY <1>7, <1>8

LEMMA DrainEndsKept ==
  ASSUME Inv, NEW connects, \A c \in connects : Sane(c), DrainEnds(connects)
  PROVE  Kept
<1>1. Iterates /\ ~mail.overflow /\ UNCHANGED <<client, radio>>
  BY DEF DrainEnds
<1>2. /\ Live(adapter, radio, client.next) /\ client.next \in Nat
      /\ client \in [begun : BOOLEAN, next : 1..(MaxId + 1)]
      /\ client.begun /\ adapter.out = <<>>
  BY <1>1, Draining
<1>3. PICK draining \in BOOLEAN : draining = FALSE
  OBVIOUS
<1>4. PICK a : a = [adapter EXCEPT !.draining = draining]
  OBVIOUS
<1>5. /\ Live(a, radio, client.next) /\ a.out = <<>>
  BY <1>2, <1>4, Undrained
<1> DEFINE starts == Connecting(a) /\ ~a.waiting /\ a.link.phase = "Idle"
<1>6. IF starts /\ ~a.cancelling
      THEN \E c \in connects :
             /\ adapter' = startConnection(a, c.answer)
             /\ mail' = Posted(mail, c.posts)
      ELSE /\ adapter' = IF starts THEN finishStation(a, "Cancelled") ELSE a
           /\ mail' = mail
  <2>1. a = [adapter EXCEPT !.draining = FALSE]
    BY <1>3, <1>4
  <2> QED BY <2>1 DEF DrainEnds
<1>7. Live(adapter', radio, client.next) /\ Mailed(mail')
  <2>1. CASE starts /\ ~a.cancelling
    <3>1. PICK c \in connects : /\ adapter' = startConnection(a, c.answer)
                                /\ mail' = Posted(mail, c.posts)
      BY <1>6, <2>1
    <3>2. Mailed(mail')
      BY <3>1, OutcomePosted DEF Inv
    <3>3. c.answer \in AnswerStatus
      BY DEF Sane
    <3> QED BY <1>2, <1>5, <2>1, <3>1, <3>2, <3>3, StartLive
  <2>2. CASE starts /\ a.cancelling
    <3>1. PICK error : error = "ConnectionFailed"
      OBVIOUS
    <3>2. adapter' = finishStation(a, error) /\ mail' = mail
      BY <1>6, <2>2 DEF finishStation
    <3>3. Size(a) < 3
      BY <1>5, EmptySeq DEF Size
    <3>4. Completes(a, error)
      BY <2>2, <3>1 DEF Completes, Connecting
    <3>5. Live(adapter', radio, client.next)
      BY <1>2, <1>5, <3>2, <3>3, <3>4, StationLive
    <3> QED BY <3>2, <3>5 DEF Inv
  <2>3. CASE ~starts
    BY <1>5, <1>6, <2>3 DEF Inv
  <2> QED BY <2>1, <2>2, <2>3
<1>8. Inv'
  BY <1>1, <1>2, <1>7, LiveKept
<1> QED BY <1>1, <1>8 DEF Kept

(* What a call may tell is what the contract lets the boundary do. *)
LEMMA Contracted ==
  ASSUME radio \in Radios, NEW told \in Calls, Allowed(radio, told),
         radio' = Received(radio, told)
  PROVE  ContractNext /\ radio' \in Radios
<1>1. radio.attached /\ radio.station \in Commands /\ radio.scan \in Commands
      /\ radio.link \in [id : Nat, phase : LinkPhase]
  BY DEF Allowed, Radios
<1>2. told.call \in {"link", "enabled", "station", "scan"} /\ told.id \in Nat
  BY DEF Calls
<1>3. NoCommand \in Commands
  BY DEF NoCommand, Commands, Transition
<1>4. CASE told.call = "link"
  <2> DEFINE link == [id |-> told.id, phase |-> told.value]
  <2>1. Alive /\ LinkAllowed(radio, link)
    BY <1>1, <1>4 DEF Allowed, Alive
  <2>2. radio' = [radio EXCEPT !.link = link]
    BY <1>4 DEF Received
  <2> HIDE DEF link
  <2>3. link \in NextLinks /\ link \in [id : Nat, phase : LinkPhase]
    <3>1. CASE /\ link.id = radio.link.id
               /\ link.phase \in NextPhase(radio.link.phase)
               /\ link.phase = "AddressReady" => ~TearingDown
      <4>1. link = [radio.link EXCEPT !.phase = link.phase]
        BY <1>1, <3>1 DEF link
      <4>2. link.phase \in LinkPhase
        BY <1>1, <3>1 DEF NextPhase, LinkPhase
      <4>3. link \in [id : Nat, phase : LinkPhase]
        BY <1>1, <4>1, <4>2
      <4> QED BY <3>1, <4>1, <4>3 DEF NextLinks
    <3>2. CASE /\ link = [id |-> radio.station.id, phase |-> "Connecting"]
               /\ radio.link.phase = "Idle"
               /\ radio.station.kind = "Connect" /\ ~TearingDown
      <4>1. radio.station.id \in Nat
        BY <1>1 DEF Commands
      <4> QED BY <3>2, <4>1 DEF NextLinks, LinkPhase
    <3> QED BY <2>1, <3>1, <3>2 DEF LinkAllowed, TearingDown
  <2>4. ReportsLink
    BY <2>1, <2>2, <2>3 DEF ReportsLink
  <2>5. radio' \in Radios
    BY <2>2, <2>3 DEF Radios
  <2> QED BY <2>4, <2>5 DEF ContractNext
<1>5. CASE told.call = "enabled"
  <2>1. PICK enabled \in BOOLEAN : enabled = (told.value = "Enabled")
    OBVIOUS
  <2>2. radio' = [radio EXCEPT !.enabled = enabled]
    BY <1>5, <2>1 DEF Received
  <2>3. Alive
    BY <1>5 DEF Allowed, Alive
  <2>4. ReportsEnabled /\ radio' \in Radios
    BY <2>2, <2>3 DEF ReportsEnabled, Radios
  <2> QED BY <2>4 DEF ContractNext
<1>6. CASE told.call = "station"
  <2>1. radio' = [radio EXCEPT !.station = NoCommand]
    BY <1>6 DEF Received
  <2>2. radio.station.id # 0 /\ StationAllowed(radio, told.value)
    BY <1>6 DEF Allowed
  <2>3. radio.dead \/ told.value \in StationResults
    BY <2>2 DEF StationAllowed, StationResults, Reached
  <2>4. CompletesStation
    BY <1>1, <2>1, <2>2, <2>3 DEF CompletesStation
  <2>5. radio' \in Radios
    BY <1>3, <2>1 DEF Radios
  <2> QED BY <2>4, <2>5 DEF ContractNext
<1>7. CASE told.call = "scan"
  <2>1. radio' = [radio EXCEPT !.scan = NoCommand]
    BY <1>7 DEF Received
  <2>2. radio.scan.id # 0
    BY <1>7 DEF Allowed
  <2>3. CompletesScan
    BY <1>1, <2>1, <2>2 DEF CompletesScan
  <2>4. radio' \in Radios
    BY <1>3, <2>1 DEF Radios
  <2> QED BY <2>3, <2>4 DEF ContractNext
<1> QED BY <1>2, <1>4, <1>5, <1>6, <1>7

LEMMA DeliverKept ==
  ASSUME Inv, Deliver
  PROVE  Kept
<1>1. PICK told : told = Head(adapter.out)
  OBVIOUS
<1>2. /\ adapter.out # <<>>
      /\ radio' = Received(radio, told)
      /\ adapter' = [adapter EXCEPT !.out = Tail(adapter.out)]
      /\ UNCHANGED <<mail, client>>
  BY <1>1 DEF Deliver, Received
<1>3. /\ adapter \in Adapters /\ radio \in Radios
      /\ adapter.out \in Seq(Calls)
      /\ AllAllowed(radio, adapter.out)
      /\ After(radio, adapter.out) = Believed(adapter)
  BY AdapterTyped DEF Inv, Settled
<1>4. /\ told \in Calls /\ Tail(adapter.out) \in Seq(Calls)
      /\ Allowed(radio, told)
      /\ AllAllowed(radio', Tail(adapter.out))
      /\ After(radio', Tail(adapter.out)) = Believed(adapter)
  BY <1>1, <1>2, <1>3, CallDelivered
<1>5. ContractNext /\ radio' \in Radios
  BY <1>2, <1>3, <1>4, Contracted
<1>6. /\ adapter' \in Adapters /\ adapter'.out = Tail(adapter.out)
      /\ Believed(adapter') = Believed(adapter)
      /\ adapter'.station = adapter.station /\ adapter'.scan = adapter.scan
      /\ adapter'.link = adapter.link /\ adapter'.config = adapter.config
      /\ adapter'.credentials = adapter.credentials
  BY <1>2, <1>3, <1>4 DEF Adapters, Believed
<1>7. adapter'.cancelling = adapter.cancelling
  BY <1>2, <1>3 DEF Adapters
<1>8. adapter'.waiting = adapter.waiting
  BY <1>2, <1>3 DEF Adapters
<1>9. adapter'.scan_cancelling = adapter.scan_cancelling
  BY <1>2, <1>3 DEF Adapters
<1>10. adapter'.attached = adapter.attached
  BY <1>2, <1>3 DEF Adapters
<1>11. adapter'.faulted = adapter.faulted
  BY <1>2, <1>3 DEF Adapters
<1>12. adapter.attached
  BY <1>2 DEF Inv, Sound, Operations
<1>13. Settled(adapter', radio')
  BY <1>4, <1>5, <1>6 DEF Settled
<1>14. Sound(adapter)'
  BY <1>2, <1>6, <1>7, <1>8, <1>9, <1>10, <1>11, <1>12
     DEF Inv, Sound, Operations, Secret, Issued, Connecting
<1>15. client.begun
  BY <1>12 DEF Inv, NewAdapter
<1>16. Inv'
  BY <1>2, <1>10, <1>11, <1>13, <1>14, <1>15 DEF Inv
<1> QED BY <1>5, <1>16 DEF Kept

(* A driver posts whenever it likes. *)
LEMMA PostKept ==
  ASSUME Inv, NEW event \in SaneEvents, mail' = post(mail, event),
         UNCHANGED <<adapter, client, radio>>
  PROVE  Kept
<1>1. Mailed(mail') /\ (mail.overflow => mail'.overflow)
  BY MailPosted DEF Inv
<1>2. Inv'
  BY <1>1 DEF Inv, Sound
<1> QED BY <1>2 DEF Kept

LEMMA StutterKept ==
  ASSUME Inv, UNCHANGED vars
  PROVE  Kept
BY DEF Inv, Sound, Kept, vars

-----------------------------------------------------------------------------
(* What the invariant says of the boundary *)

LEMMA Typed ==
  ASSUME Inv
  PROVE  AdapterTypeOK
<1>1. \A s \in Seq(SaneEvents) : s \in Seq(Events)
  BY DEF SaneEvents
<1> QED BY <1>1 DEF Inv, Settled, Mailed, AdapterTypeOK

LEMMA Reports ==
  ASSUME Inv
  PROVE  NothingUnreported
<1> SUFFICES ASSUME adapter.attached, adapter.out = <<>>
             PROVE  /\ radio.link = [id |-> adapter.link.id,
                                     phase |-> adapter.link.phase]
                    /\ radio.enabled = adapter.enabled
                    /\ radio.station.id = adapter.station.id
                    /\ radio.station.kind = adapter.station.kind
                    /\ radio.station.cancel = adapter.cancelling
                    /\ radio.scan.id = adapter.scan
                    /\ radio.scan.cancel = adapter.scan_cancelling
                    /\ radio.dead = adapter.faulted
  BY DEF NothingUnreported
<1>1. adapter \in Adapters /\ radio = Believed(adapter)
  BY NothingPending DEF Inv
<1>2. Operations(adapter)
  BY DEF Inv, Sound
<1>3. /\ radio.link = [id |-> adapter.link.id, phase |-> adapter.link.phase]
      /\ radio.enabled = adapter.enabled /\ radio.dead = adapter.faulted
      /\ radio.station = Command(adapter.station.id, adapter.station.kind,
                           adapter.station.kind = "Enable" /\ adapter.desired,
                           adapter.cancelling)
      /\ radio.scan = Command(adapter.scan, "Scan", FALSE,
                              adapter.scan_cancelling)
  BY <1>1 DEF Believed
<1>4. /\ radio.station.id = adapter.station.id
      /\ radio.station.kind = adapter.station.kind
      /\ radio.scan.id = adapter.scan
  BY <1>2, <1>3 DEF Command, NoCommand, Operations
<1>5. radio.station.cancel = adapter.cancelling
  <2>1. CASE adapter.station.id = 0
    <3>1. adapter.cancelling = FALSE
      BY <1>1, <1>2, <2>1, AdapterTyped DEF Operations, Connecting
    <3>2. radio.station = NoCommand
      BY <1>3, <2>1 DEF Command
    <3>3. radio.station.cancel = FALSE
      BY <3>2 DEF NoCommand
    <3> QED BY <3>1, <3>3, Zenon
  <2>2. CASE adapter.station.id # 0
    BY <1>3, <2>2 DEF Command
  <2> QED BY <2>1, <2>2
<1>6. radio.scan.cancel = adapter.scan_cancelling
  <2>1. CASE adapter.scan = 0
    <3>1. adapter.scan_cancelling = FALSE
      BY <1>1, <1>2, <2>1, AdapterTyped DEF Operations
    <3>2. radio.scan = NoCommand
      BY <1>3, <2>1 DEF Command
    <3>3. radio.scan.cancel = FALSE
      BY <3>2 DEF NoCommand
    <3> QED BY <3>1, <3>3, Zenon
  <2>2. CASE adapter.scan # 0
    BY <1>3, <2>2 DEF Command
  <2> QED BY <2>1, <2>2
<1> QED BY <1>3, <1>4, <1>5, <1>6

LEMMA Earned ==
  ASSUME Inv
  PROVE  ResultsAreEarned
<1> SUFFICES ASSUME adapter.out # <<>>
             PROVE  LET told == Head(adapter.out)
                    IN  /\ told.call = "station" =>
                             /\ told.id = radio.station.id
                             /\ IF radio.dead
                                THEN told.value = FaultResult(radio.station)
                                ELSE told.value \in StationResults
                        /\ told.call = "scan" =>
                             /\ told.id = radio.scan.id
                             /\ told.value \in ScanResults
  BY DEF ResultsAreEarned
<1>1. PICK told : told = Head(adapter.out)
  OBVIOUS
<1>2. Allowed(radio, told)
  BY <1>1, CallDelivered, AdapterTyped DEF Inv, Settled
<1>3. told.call = "station" =>
        /\ told.id = radio.station.id
        /\ IF radio.dead THEN told.value = FaultResult(radio.station)
                         ELSE told.value \in StationResults
  BY <1>2 DEF Allowed, StationAllowed, StationResults, Reached
<1>4. told.call = "scan" => told.id = radio.scan.id
                              /\ told.value \in ScanResults
  BY <1>2 DEF Allowed, ScanAllowed, ScanResults
<1> QED BY <1>1, <1>3, <1>4

LEMMA Overflow ==
  ASSUME Inv
  PROVE  OverflowSettlesAll
<1> SUFFICES ASSUME radio.dead, adapter.out = <<>>
             PROVE  Idle
  BY DEF OverflowSettlesAll
<1>1. radio = Believed(adapter)
  BY NothingPending DEF Inv
<1>2. adapter.attached
  BY <1>1 DEF Believed, NewRadio
<1>3. adapter.faulted
  BY <1>1, <1>2 DEF Believed
<1>4. adapter.station.id = 0 /\ adapter.scan = 0
  BY <1>3 DEF Inv, Sound, Operations
<1> QED BY <1>1, <1>2, <1>4 DEF Believed, Command, Idle

LEMMA ShortLived ==
  ASSUME Inv
  PROVE  CredentialsAreShortLived
BY DEF Inv, Sound, Secret, CredentialsAreShortLived

LEMMA InitInv ==
  ASSUME AdapterInit
  PROVE  Inv /\ radio = NewRadio
<1>1. /\ adapter = NewAdapter /\ mail = NewMail
      /\ client = [begun |-> FALSE, next |-> 1] /\ radio = NewRadio
  BY DEF AdapterInit
<1>2. NewAdapter \in Adapters
  <2>1. <<>> \in Seq(Calls)
    BY EmptySeq
  <2> QED
    BY <2>1
       DEF NewAdapter, Adapters, NoStation, Unlinked, Ssid, Transition,
           LinkPhase
<1>3. NewRadio = Believed(NewAdapter) /\ NewAdapter.out = <<>>
  BY DEF Believed, NewAdapter
<1>4. Settled(adapter, radio)
  BY <1>1, <1>2, <1>3, NothingPending, ViewTyped
<1>5. Sound(adapter)
  BY <1>1
     DEF Sound, Operations, Secret, Issued, Connecting, NewAdapter, NoStation,
         Unlinked
<1>6. Mailed(mail)
  <2>1. <<>> \in Seq(SaneEvents) /\ Len(<<>>) = 0 /\ 0 <= Capacity
    BY EmptySeq, EventsAssumption
  <2> QED BY <1>1, <2>1 DEF Mailed, NewMail
<1>7. client \in [begun : BOOLEAN, next : 1..(MaxId + 1)]
  BY <1>1, OrderedAssumption
<1>8. ~adapter.attached
  BY <1>1 DEF NewAdapter
<1> QED BY <1>1, <1>4, <1>5, <1>6, <1>7, <1>8 DEF Inv

=============================================================================
