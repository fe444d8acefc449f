------------------------ MODULE OrderedStationProofs -------------------------
(***************************************************************************)
(* OrderedInterface in front of any NativeStation keeps the contract of    *)
(* Interface, for any number of networks and identities and a queue of any *)
(* capacity.                                                               *)
(*                                                                         *)
(* All that is left to show here is that such a driver answers and posts   *)
(* what OrderedInterfaceProofs asks of it, and keeps its own type.         *)
(***************************************************************************)
EXTENDS OrderedStation, OrderedInterfaceProofs

StationInv == Inv /\ native \in Natives

-----------------------------------------------------------------------------
(* What a driver answers *)

LEMMA Answered ==
  ASSUME NEW st \in {"Ok", "NotFound"} \cup NativeErrors, NEW n
  PROVE  Sane(Answer(st, n))
BY ErrorsAssumption DEF Sane, Answer, AnswerStatus

LEMMA AnsweredPosting ==
  ASSUME NEW st \in {"Ok", "NotFound"} \cup NativeErrors, NEW n,
         NEW event \in SaneEvents
  PROVE  Sane(AnswerPosting(st, n, event))
BY ErrorsAssumption DEF Sane, AnswerPosting, AnswerStatus

(* A driver reports no cancellation, and no failure of an enable. *)
LEMMA SaneEvent ==
  /\ \A enabled \in BOOLEAN : Enablement(enabled) \in SaneEvents
  /\ \A kind \in {"Prepared", "Associated", "AddressReady", "AddressLost"},
        ssid \in Ssid : Event(kind, ssid, "Ok") \in SaneEvents
  /\ \A st \in {"Ok"} \cup NativeErrors :
        Event("ScanDone", NoNetwork, st) \in SaneEvents
  /\ \A ssid \in Ssid :
        Event("Disconnected", ssid, "ConnectionFailed") \in SaneEvents
<1>1. NoNetwork \in Ssid
  BY DEF Ssid
<1>2. {"Ok", "ConnectionFailed"} \cup NativeErrors \subseteq Status
  BY NativeAssumption DEF Status
<1>3. {"Ok"} \cup NativeErrors \subseteq AnswerStatus
  BY ErrorsAssumption DEF AnswerStatus
<1> QED
  BY <1>1, <1>2, <1>3
     DEF Enablement, Event, SaneEvents, Events, AnswerStatus

LEMMA NativeTyped ==
  ASSUME NEW n \in Natives
  PROVE  /\ n.attached \in BOOLEAN /\ n.enabled \in BOOLEAN
         /\ n.turning \in BOOLEAN /\ n.target \in BOOLEAN
         /\ n.scanning \in BOOLEAN /\ n.leaving \in BOOLEAN
         /\ n.phase \in NativePhase /\ n.ssid \in Ssid /\ n.secret \in Ssid
BY DEF Natives

(* An outcome leaves a driver behind. *)
Proper(outcome) == Sane(outcome) /\ outcome.native \in Natives

LEMMA ProperAnswer ==
  ASSUME NEW st \in {"Ok", "NotFound"} \cup NativeErrors, NEW n \in Natives
  PROVE  Proper(Answer(st, n))
BY Answered DEF Proper, Answer

LEMMA ProperPosting ==
  ASSUME NEW n \in Natives, NEW event \in SaneEvents
  PROVE  Proper(AnswerPosting("Ok", n, event))
<1>1. Sane(AnswerPosting("Ok", n, event))
  BY AnsweredPosting
<1> QED BY <1>1 DEF Proper, AnswerPosting

LEMMA ProperCommands ==
  ASSUME NEW n \in Natives
  PROVE  /\ \A enabled \in BOOLEAN : \A e \in Enables(n, enabled) : Proper(e)
         /\ \A s \in Scans(n) : Proper(s)
         /\ \A s \in StopsScan(n) : Proper(s)
         /\ \A network \in Ssid, secret \in Ssid :
              \A c \in Connects(n, network, secret) : Proper(c)
         /\ \A c \in ContinuesConnect(n) : Proper(c)
         /\ \A d \in Disconnects(n) : Proper(d)
<1>1. ASSUME NEW m \in Natives, NEW f \in Failures(m)
      PROVE  Proper(f)
  BY <1>1, ProperAnswer DEF Failures
<1>2. ASSUME NEW enabled \in BOOLEAN, NEW e \in Enables(n, enabled)
      PROVE  Proper(e)
  <2>1. [n EXCEPT !.turning = TRUE, !.target = enabled] \in Natives
    BY DEF Natives
  <2>2. Enablement(enabled) \in SaneEvents
    BY SaneEvent
  <2> QED BY <1>1, <1>2, <2>1, <2>2, ProperAnswer, ProperPosting DEF Enables
<1>3. ASSUME NEW s \in Scans(n)
      PROVE  Proper(s)
  <2>1. [n EXCEPT !.scanning = TRUE] \in Natives
    BY DEF Natives
  <2> QED BY <1>1, <1>3, <2>1, ProperAnswer DEF Scans
<1>4. ASSUME NEW s \in StopsScan(n)
      PROVE  Proper(s)
  BY <1>1, <1>4, ProperAnswer DEF StopsScan
<1>5. ASSUME NEW network \in Ssid, NEW secret \in Ssid,
             NEW c \in Connects(n, network, secret)
      PROVE  Proper(c)
  <2> DEFINE asked == [n EXCEPT !.ssid = network, !.secret = secret]
  <2>1. asked \in Natives
    BY DEF Natives
  <2> HIDE DEF asked
  <2>2. /\ [asked EXCEPT !.phase = "Selecting"] \in Natives
        /\ [asked EXCEPT !.phase = "Prepared"] \in Natives
    BY <2>1 DEF Natives, NativePhase
  <2>3. Event("Prepared", NoNetwork, "Ok") \in SaneEvents
    BY SaneEvent DEF Ssid
  <2>4. \/ c \in Failures(asked)
        \/ c = Answer("Ok", [asked EXCEPT !.phase = "Selecting"])
        \/ c = AnswerPosting("Ok", [asked EXCEPT !.phase = "Prepared"],
                             Event("Prepared", NoNetwork, "Ok"))
    BY <1>5 DEF Connects, asked
  <2> QED BY <1>1, <2>1, <2>2, <2>3, <2>4, ProperAnswer, ProperPosting
<1>6. ASSUME NEW c \in ContinuesConnect(n)
      PROVE  Proper(c)
  <2>1. /\ [n EXCEPT !.phase = "Idle"] \in Natives
        /\ [n EXCEPT !.phase = "Joining"] \in Natives
    BY DEF Natives, NativePhase
  <2> QED BY <1>1, <1>6, <2>1, ProperAnswer DEF ContinuesConnect
<1>7. ASSUME NEW d \in Disconnects(n)
      PROVE  Proper(d)
  <2>1. /\ [n EXCEPT !.phase = "Idle"] \in Natives
        /\ [n EXCEPT !.leaving = TRUE] \in Natives
    BY DEF Natives, NativePhase
  <2>2. IdleAnswer \in {"Ok", "NotFound"} \cup NativeErrors
    BY NativeAssumption
  <2> QED BY <1>1, <1>7, <2>1, <2>2, ProperAnswer DEF Disconnects
<1> QED BY <1>2, <1>3, <1>4, <1>5, <1>6, <1>7

-----------------------------------------------------------------------------
(* What a driver posts *)

LEMMA PostsKept ==
  ASSUME StationInv, Station
  PROVE  Kept /\ native' \in Natives
<1> SUFFICES ASSUME NEW n \in Natives, NEW event \in SaneEvents,
                    NativePosts(n, event)
             PROVE  Kept /\ native' \in Natives
  <2>1. \E n \in Natives, event \in SaneEvents : NativePosts(n, event)
    <3>1. native \in Natives /\ native.ssid \in Ssid
      BY NativeTyped DEF StationInv
    <3>2. ASSUME NEW enabled \in BOOLEAN, Turns(enabled)
          PROVE  \E n \in Natives, event \in SaneEvents : NativePosts(n, event)
      <4>1. PICK n : n = [native EXCEPT !.enabled = enabled, !.turning = FALSE,
                                        !.phase = IF enabled THEN @ ELSE "Idle"]
        OBVIOUS
      <4>2. n \in Natives
        BY <3>1, <4>1 DEF Natives, NativePhase
      <4>3. Enablement(enabled) \in SaneEvents
        BY SaneEvent
      <4> QED BY <3>2, <4>1, <4>2, <4>3 DEF Turns
    <3>3. ASSUME NEW status \in {"Ok"} \cup NativeErrors, ScanEnds(status)
          PROVE  \E n \in Natives, event \in SaneEvents : NativePosts(n, event)
      <4>1. PICK n : n = [native EXCEPT !.scanning = FALSE]
        OBVIOUS
      <4>2. n \in Natives
        BY <3>1, <4>1 DEF Natives
      <4>3. Event("ScanDone", NoNetwork, status) \in SaneEvents
        BY SaneEvent
      <4> QED BY <3>3, <4>1, <4>2, <4>3 DEF ScanEnds
    <3>4. CASE Prepares
      <4>1. [native EXCEPT !.phase = "Prepared"] \in Natives
        BY <3>1 DEF Natives, NativePhase
      <4>2. Event("Prepared", NoNetwork, "Ok") \in SaneEvents
        BY SaneEvent DEF Ssid
      <4> QED BY <3>4, <4>1, <4>2 DEF Prepares
    <3>5. CASE Associates
      <4>1. [native EXCEPT !.phase = "Associated"] \in Natives
        BY <3>1 DEF Natives, NativePhase
      <4>2. Event("Associated", native.ssid, "Ok") \in SaneEvents
        BY <3>1, SaneEvent
      <4> QED BY <3>5, <4>1, <4>2 DEF Associates
    <3>6. CASE GetsAddress
      <4>1. [native EXCEPT !.phase = IF @ = "Joining" THEN @
                                     ELSE "AddressReady"] \in Natives
        BY <3>1 DEF Natives, NativePhase
      <4>2. Event("AddressReady", native.ssid, "Ok") \in SaneEvents
        BY <3>1, SaneEvent
      <4> QED BY <3>6, <4>1, <4>2 DEF GetsAddress
    <3>7. CASE LosesAddress
      <4>1. [native EXCEPT !.phase = IF @ = "AddressReady"
                                     THEN "Associated" ELSE @] \in Natives
        BY <3>1 DEF Natives, NativePhase
      <4>2. Event("AddressLost", NoNetwork, "Ok") \in SaneEvents
        BY SaneEvent DEF Ssid
      <4> QED BY <3>7, <4>1, <4>2 DEF LosesAddress
    <3>8. CASE Drops
      <4>1. [native EXCEPT !.phase = "Idle", !.leaving = FALSE] \in Natives
        BY <3>1 DEF Natives, NativePhase
      <4>2. Event("Disconnected", native.ssid, "ConnectionFailed")
              \in SaneEvents
        BY <3>1, SaneEvent
      <4> QED BY <3>8, <4>1, <4>2 DEF Drops
    <3> QED
      BY <3>2, <3>3, <3>4, <3>5, <3>6, <3>7, <3>8 DEF Station, Posts
  <2> QED BY <2>1
<1>1. native' = n /\ mail' = post(mail, event)
  BY DEF NativePosts
<1>2. UNCHANGED <<adapter, client, radio>>
  BY DEF Station
<1>3. Kept
  BY <1>1, <1>2, PostKept DEF StationInv
<1> QED BY <1>1, <1>3

-----------------------------------------------------------------------------
(* Every step *)

LEMMA StepKept ==
  ASSUME StationInv, [Next]_vars
  PROVE  Kept /\ native' \in Natives
<1>1. Inv /\ native \in Natives /\ adapter \in Adapters
  BY DEF StationInv, Inv, Settled
<1>2. Proper(Answer("Ok", native)) /\ Proper(Answer("NotFound", native))
  BY <1>1, ProperAnswer
<1>3. ASSUME NEW o, Proper(o)
      PROVE  Sane(o) /\ o.answer \in AnswerStatus /\ o.native \in Natives
  BY <1>3 DEF Proper, Sane
<1>4. CASE Begin(Attached)
  <2>1. Attached \in Natives
    BY DEF Attached, NewNative, Natives, NativePhase, Ssid
  <2> QED BY <1>1, <1>4, <2>1, BeginKept DEF Begin
<1>5. CASE Shutdown(NewNative)
  <2>1. NewNative \in Natives
    BY DEF NewNative, Natives, NativePhase, Ssid
  <2> QED BY <1>1, <1>5, <2>1, ShutdownKept DEF Shutdown
<1>6. ASSUME NEW enabled \in BOOLEAN,
             SetEnabled(enabled, Enables(native, enabled))
      PROVE  Kept /\ native' \in Natives
  <2>1. \A e \in Enables(native, enabled) : Sane(e) /\ e.native \in Natives
    BY <1>1, <1>3, ProperCommands
  <2>2. native' \in Natives
    BY <1>6, <2>1 DEF SetEnabled
  <2> QED BY <1>1, <1>6, <2>1, <2>2, SetEnabledKept
<1>7. CASE StartScan(Scans(native))
  <2>1. \A s \in Scans(native) : s.native \in Natives
    BY <1>1, <1>3, ProperCommands
  <2>2. native' \in Natives
    BY <1>7, <2>1 DEF StartScan
  <2> QED BY <1>1, <1>7, <2>2, StartScanKept
<1>8. ASSUME NEW network \in Networks, Connect(network, Disconnects(native))
      PROVE  Kept /\ native' \in Natives
  <2>1. \A d \in Disconnects(native) : d.native \in Natives
    BY <1>1, <1>3, ProperCommands
  <2>2. native' \in Natives
    BY <1>1, <1>8, <2>1 DEF Connect
  <2>3. network \in Ssid
    BY DEF Ssid
  <2> QED BY <1>1, <1>8, <2>2, <2>3, ConnectKept
<1>9. CASE Disconnect(Disconnects(native))
  <2>1. \A d \in Disconnects(native) : d.native \in Natives
    BY <1>1, <1>3, ProperCommands
  <2>2. native' \in Natives
    BY <1>2, <1>3, <1>9, <2>1 DEF Disconnect
  <2> QED BY <1>1, <1>9, <2>2, DisconnectKept
<1>10. CASE CancelScan(StopsScan(native))
  <2>1. \A s \in StopsScan(native) : s.native \in Natives
    BY <1>1, <1>3, ProperCommands
  <2>2. native' \in Natives
    BY <1>10, <2>1 DEF CancelScan
  <2> QED BY <1>1, <1>10, <2>2, CancelScanKept
<1>11. CASE CancelConnect(Disconnects(native))
  <2>1. \A d \in Disconnects(native) : d.native \in Natives
    BY <1>1, <1>3, ProperCommands
  <2>2. native' \in Natives
    BY <1>2, <1>3, <1>11, <2>1 DEF CancelConnect
  <2> QED BY <1>1, <1>11, <2>2, CancelConnectKept
<1>12. CASE Station
  BY <1>12, PostsKept
<1>13. CASE Drain
  BY <1>1, <1>13, DrainKept DEF Drain
<1>14. CASE DrainEvent(ContinuesConnect(native))
  <2>1. \A c \in ContinuesConnect(native) :
          c.answer \in AnswerStatus /\ c.native \in Natives
    BY <1>1, <1>3, ProperCommands
  <2>2. native' \in Natives
    BY <1>2, <1>3, <1>14, <2>1 DEF DrainEvent
  <2> QED BY <1>1, <1>14, <2>1, <2>2, DrainEventKept
<1>15. CASE DrainOverflow
  BY <1>1, <1>15, DrainOverflowKept DEF DrainOverflow
<1>16. CASE DrainEnds(Connects(native, adapter.config, adapter.credentials))
  <2>1. adapter.config \in Ssid /\ adapter.credentials \in Ssid
    BY <1>1, AdapterTyped
  <2>2. \A c \in Connects(native, adapter.config, adapter.credentials) :
          Sane(c) /\ c.native \in Natives
    BY <1>1, <1>3, <2>1, ProperCommands
  <2>3. native' \in Natives
    BY <1>1, <1>16, <2>2 DEF DrainEnds
  <2> QED BY <1>1, <1>16, <2>2, <2>3, DrainEndsKept
<1>17. CASE Deliver
  BY <1>1, <1>17, DeliverKept DEF Deliver
<1>18. CASE UNCHANGED vars
  BY <1>1, <1>18, StutterKept DEF vars
<1> QED
  BY <1>4, <1>5, <1>6, <1>7, <1>8, <1>9, <1>10, <1>11, <1>12, <1>13, <1>14,
     <1>15, <1>16, <1>17, <1>18
     DEF Next, Api, Dispatch

LEMMA Invariant == Spec => []StationInv
<1>1. Init => StationInv
  BY InitInv DEF Init, StationInv, NewNative, Natives, NativePhase, Ssid
<1>2. StationInv /\ [Next]_vars => StationInv'
  BY StepKept DEF StationInv, Kept
<1> QED BY <1>1, <1>2, PTL DEF Spec

-----------------------------------------------------------------------------
(* The promises of the adapter *)

(* Every field of the adapter, the boundary and the driver keeps its type  *)
(* and the queue its capacity, whatever the driver posts                   *)
(* (ordered_interface.cpp).                                                *)
THEOREM TypesAreKept == Spec => []TypeOK
<1>1. StationInv => TypeOK
  BY Typed DEF StationInv, TypeOK
<1> QED BY <1>1, Invariant, PTL

(* The sink has been told of everything by the time process() returns to   *)
(* the scheduler: link, enablement, commands and their cancellations.      *)
THEOREM NothingGoesUnreported == Spec => []NothingUnreported
<1>1. StationInv => NothingUnreported
  BY Reports DEF StationInv
<1> QED BY <1>1, Invariant, PTL

(* Every completion finishStation() and finishScan() deliver is that of    *)
(* the outstanding command, with an outcome its physical state earns.      *)
THEOREM OutcomesAreEarned == Spec => []ResultsAreEarned
<1>1. StationInv => ResultsAreEarned
  BY Earned DEF StationInv
<1> QED BY <1>1, Invariant, PTL

(* drain() settles the station command and the scan when events were lost. *)
THEOREM OverflowsSettle == Spec => []OverflowSettlesAll
<1>1. StationInv => OverflowSettlesAll
  BY Overflow DEF StationInv
<1> QED BY <1>1, Invariant, PTL

(* credentials_ is empty whenever no admitted connect waits to be started, *)
(* on every path through connect(), startConnection(), finishStation() and *)
(* shutdown().                                                             *)
THEOREM CredentialsAreCleared == Spec => []CredentialsAreShortLived
<1>1. StationInv => CredentialsAreShortLived
  BY ShortLived DEF StationInv
<1> QED BY <1>1, Invariant, PTL

(* The adapter implements the contract of Interface that Controller.tla    *)
(* runs against: every step is one the contract allows or changes nothing  *)
(* at the boundary.                                                        *)
THEOREM ContractKept == Spec => ContractSpec
<1>1. Init => radio = NewRadio
  BY InitInv DEF Init
<1>2. StationInv /\ [Next]_vars => [ContractNext]_radio
  BY StepKept DEF Kept
<1> QED BY <1>1, <1>2, Invariant, PTL DEF Spec, ContractSpec

=============================================================================
