---------------------------- MODULE Esp32Station -----------------------------
(***************************************************************************)
(* roo_wifi::Esp32Station: the NativeStation that drives ESP-IDF.          *)
(*                                                                         *)
(* Commands run on the scheduler thread, event() on the event loop task,   *)
(* under mutex_ except where the code releases it: between marking a scan, *)
(* a selection or an attempt as begun and making the vendor call.  call is *)
(* that window, with the answer the vendor call is going to give.          *)
(*                                                                         *)
(* ESP-IDF is external (native.idf): it runs scans and joins, hands out    *)
(* addresses, and queues an event for each in loop; any call may fail      *)
(* without effect.  native.told is history: the enablement and the phase   *)
(* of the connection that the posted events tell.                          *)
(*                                                                         *)
(* Time: a candidate is cooling until its retry_after, and the candidates  *)
(* are fresh until they expire; where the code looks at the clock, any of  *)
(* these may turn out to be over (Later).  The SSID of a network stands    *)
(* for its configuration.  Addresses, channels, signal strengths other     *)
(* than a scan's and the scan records are left out.                        *)
(*                                                                         *)
(* Definitions named Slip... are mistakes someone could make in the method *)
(* that follows them; no specification uses them.                          *)
(***************************************************************************)
EXTENDS NativeEvents, Configuration, SequencesExt

CONSTANTS
  Aps, NoAp,           \* access points, by BSSID
  NetworkOf,           \* the SSID of each
  AuthOf,              \* the security each announces
  PolicyOf,            \* the security each network is configured for
  Joined,              \* the security modes an association may end up with
  Reasons,             \* why an association or a link may end
  Strengths,           \* the signal strengths a scan reports
  Slots,               \* candidates_.size()
  MaxFound,            \* the records a selection reads at most
  MaxLoop              \* bound: events in the loop when an address arrives

DisconnectReason == {"ASSOC_LEAVE", "BEACON_TIMEOUT", "AUTH_FAIL",
                     "NO_AP_FOUND", "CIPHER_SUITE_REJECTED"}

ASSUME Esp32Assumption ==
  /\ NoAp \notin Aps
  /\ NetworkOf \in [Aps -> Networks]
  /\ AuthOf \in [Aps -> AuthMode]
  /\ PolicyOf \in [Networks -> AuthMode]
  /\ Joined \subseteq AuthMode
  /\ Reasons \subseteq DisconnectReason \ {"ASSOC_LEAVE"}
  /\ Strengths \subseteq Nat
  /\ Slots \in Nat \ {0}
  /\ MaxFound \in Nat
  /\ MaxLoop \in Nat \ {0}

NoCall == [kind |-> "None", answer |-> "Ok"]

(* Mode null and stopped, the baseline attach() establishes. *)
StoppedIdf == [on |-> FALSE, scanning |-> FALSE, link |-> "Down",
               ap |-> NoAp, auth |-> "Unknown", ip |-> FALSE,
               timer |-> FALSE, loop |-> <<>>]

NewStation ==
  [attached |-> FALSE, selecting |-> FALSE, scan_active |-> FALSE,
   cancelled |-> FALSE, prepared |-> FALSE, attempt |-> FALSE,
   candidates |-> <<>>, fresh |-> FALSE, rejected |-> FALSE,
   selected |-> NoAp, config |-> NoNetwork, secret |-> NoNetwork,
   call |-> NoCall, idf |-> StoppedIdf,
   told |-> [enabled |-> FALSE, phase |-> "Idle", leaving |-> FALSE]]

AttachedStation == [NewStation EXCEPT !.attached = TRUE]

-----------------------------------------------------------------------------
(* ESP-IDF *)

IdfEvent(kind, ap, detail) == [kind |-> kind, ap |-> ap, detail |-> detail]

Raise(n, kind, ap, detail) ==
  [n EXCEPT !.idf.loop = Append(@, IdfEvent(kind, ap, detail))]

(* The radio is no longer joined to anything. *)
Unjoined(n) == [n EXCEPT !.idf.link = "Down", !.idf.ap = NoAp,
                         !.idf.auth = "Unknown"]

Leaves(n) ==
  IF n.idf.link = "Down" THEN n
  ELSE Raise(Unjoined(n), "Disconnected", n.idf.ap, "ASSOC_LEAVE")

ScanStops(n) ==
  IF n.idf.scanning
  THEN Raise([n EXCEPT !.idf.scanning = FALSE], "ScanDone", NoAp, "None")
  ELSE n

Starts(n) == Raise([n EXCEPT !.idf.on = TRUE], "Start", NoAp, "None")

(* A link the radio is stopped with ends with or without an event. *)
Stops(n) ==
  {Raise([m EXCEPT !.idf.on = FALSE], "Stop", NoAp, "None") :
     m \in {Leaves(ScanStops(n)), Unjoined(ScanStops(n))}}

(* What a scan or a join may be answered; both are refused while the radio *)
(* is off or busy with either.                                             *)
VendorAnswers(n) ==
  {"ConnectionFailed"} \cup
  {st \in {"Ok"} : n.idf.on /\ ~n.idf.scanning /\ n.idf.link # "Joining"}

-----------------------------------------------------------------------------
(* Candidates *)

(* The candidates once the penalties of some are over. *)
Warmed(n, over) ==
  [i \in DOMAIN n.candidates |->
    [n.candidates[i] EXCEPT !.cooling = @ /\ i \notin over]]

(* The station when it next looks at the clock. *)
Later(n) ==
  LET cooling == {i \in DOMAIN n.candidates : n.candidates[i].cooling}
      past(fresh) == {[n EXCEPT !.fresh = fresh,
                                !.candidates = Warmed(n, over)] :
                        over \in SUBSET cooling}
  IN  past(n.fresh) \cup past(FALSE)

Eligible(n) == {i \in DOMAIN n.candidates : ~n.candidates[i].cooling}

selectCandidate(n) ==
  LET i == CHOOSE i \in Eligible(n) : \A j \in Eligible(n) : i <= j
  IN  [n EXCEPT !.candidates[i].failures = IF @ >= 2 THEN 0 ELSE @,
                !.selected = n.candidates[i].ap,
                !.prepared = TRUE]

(* A compatible record as a candidate, with the penalty it still has. *)
Candidate(n, record) ==
  LET i == SelectInSeq(n.candidates, LAMBDA old :
             old.ap = record.ap /\ (n.fresh \/ old.cooling))
  IN  [ap |-> record.ap, rssi |-> record.rssi,
       failures |-> IF i = 0 THEN 0 ELSE n.candidates[i].failures,
       cooling |-> i # 0 /\ n.candidates[i].cooling]

Precedes(c, other) ==
  \/ ~c.cooling /\ other.cooling
  \/ c.cooling = other.cooling /\ c.rssi > other.rssi

Inserted(kept, c) ==
  LET i == SelectInSeq(kept, LAMBDA other : Precedes(c, other))
  IN  InsertAt(kept, IF i = 0 THEN Len(kept) + 1 ELSE i, c)

SlipOneTooMany(kept, c) ==
  IF Len(kept) > Slots THEN SubSeq(Inserted(kept, c), 1, Len(kept))
                       ELSE Inserted(kept, c)

Insert(kept, c) ==
  IF Len(kept) = Slots THEN SubSeq(Inserted(kept, c), 1, Slots)
                       ELSE Inserted(kept, c)

SlipAnySecurity(n, record) == record.ap \in Aps

Compatible(n, record) ==
  SecurityAllows(PolicyOf[n.config], AuthOf[record.ap])

(* What is kept of the records found, one after the other. *)
Retained(n, found) ==
  LET kept[i \in 0..Len(found)] ==
        IF i = 0 THEN <<>>
        ELSE IF Compatible(n, found[i])
             THEN Insert(kept[i - 1], Candidate(n, found[i]))
             ELSE kept[i - 1]
  IN  kept[Len(found)]

rememberCandidates(n, found) ==
  LET kept == Retained(n, found)
  IN  [n EXCEPT
         !.candidates = [i \in DOMAIN kept |->
           [ap |-> kept[i].ap, failures |-> kept[i].failures,
            cooling |-> kept[i].cooling]],
         !.fresh = TRUE]

ClassifyDisconnect(reason) ==
  CASE reason = "NO_AP_FOUND" -> "NetworkNotFound"
    [] reason = "AUTH_FAIL" -> "Authentication"
    [] reason = "CIPHER_SUITE_REJECTED" -> "IncompatibleSecurity"
    [] OTHER -> "Transient"

(* The second failure, or an AP that is absent or refuses, cools it down. *)
Penalized(c, failure) ==
  LET failures ==
        IF failure \in {"NetworkNotFound", "IncompatibleSecurity"}
           \/ c.failures >= 1
        THEN 2 ELSE 1
  IN  [c EXCEPT !.failures = failures, !.cooling = @ \/ failures = 2]

candidateFailed(n, failure) ==
  IF ~n.attempt THEN n
  ELSE [n EXCEPT
          !.attempt = FALSE,
          !.candidates = [i \in DOMAIN @ |->
            IF @[i].ap = n.selected THEN Penalized(@[i], failure) ELSE @[i]]]

-----------------------------------------------------------------------------
(* Commands: what each may answer, with the station it leaves behind *)

enable(n, enabled) ==
  LET m == IF enabled THEN n
           ELSE [n EXCEPT !.candidates = <<>>, !.attempt = FALSE]
  IN  {Answer("ConnectionFailed", m)} \cup
      CASE n.idf.on = enabled ->
             {AnswerPosting("Ok", m, Enablement(enabled))}
        [] enabled /\ ~n.idf.on -> {Answer("Ok", Starts(m))}
        [] ~enabled /\ n.idf.on -> {Answer("Ok", s) : s \in Stops(m)}

Calling(n, kind, answer) ==
  Answer(answer, [n EXCEPT !.call = [kind |-> kind, answer |-> answer]])

scan(n) ==
  IF n.selecting \/ n.scan_active THEN {Answer("Busy", n)}
  ELSE {Calling([n EXCEPT !.scan_active = TRUE, !.cancelled = FALSE],
                "scan", answer) : answer \in VendorAnswers(n)}

SlipNotCancelled(n) == n

Cancelled(n) == [n EXCEPT !.cancelled = TRUE]

stopScan(n) == {Answer("ConnectionFailed", Cancelled(n)),
                Answer("Ok", ScanStops(Cancelled(n)))}

SlipCandidatesKept(n, network, secret) ==
  [n EXCEPT !.rejected = FALSE, !.config = network, !.secret = secret]

Configured(n, network, secret) ==
  [n EXCEPT !.rejected = FALSE, !.config = network, !.secret = secret,
            !.candidates = IF n.config = network THEN @ ELSE <<>>]

(* Candidates still fresh are used at once, others are scanned for. *)
connect(n, network, secret) ==
  LET asked == Later(Configured(n, network, secret))
      known == {m \in asked : m.fresh /\ Eligible(m) # {}}
  IN  IF n.selecting \/ n.scan_active THEN {Answer("Busy", n)}
      ELSE {AnswerPosting("Ok",
              [selectCandidate(m) EXCEPT !.told.phase = "Prepared"],
              Event("Prepared", NoNetwork, "Ok")) : m \in known}
           \cup
           UNION {{Calling([m EXCEPT !.selecting = TRUE, !.cancelled = FALSE],
                           "select", answer) : answer \in VendorAnswers(n)} :
                    m \in asked \ known}

(* Setting the MAC, the addresses or the configuration may fail before the *)
(* secret is cleared or after.                                             *)
continueConnect(n) ==
  LET begun == [n EXCEPT !.prepared = FALSE]
      failed == [begun EXCEPT !.told.phase = "Idle"]
      configured == [begun EXCEPT !.secret = NoNetwork, !.idf.ip = FALSE,
                                  !.attempt = TRUE]
  IN  IF ~n.prepared THEN {Answer("NotFound", n)}
      ELSE {Answer("ConnectionFailed", failed),
            Answer("ConnectionFailed", [failed EXCEPT !.secret = NoNetwork])}
           \cup
           {Calling(configured, "join", answer) : answer \in VendorAnswers(n)}

SlipStillAttempting(n) == n

(* A teardown is deliberate: what follows is no failure of the AP. *)
Abandoning(n) == [n EXCEPT !.attempt = FALSE]

disconnect(n) ==
  LET m == Abandoning(n)
      left == [m EXCEPT !.told.leaving = n.told.phase # "Idle"]
  IN  CASE n.prepared ->
             {Answer("NotFound", [m EXCEPT !.prepared = FALSE,
                                           !.secret = NoNetwork,
                                           !.told.phase = "Idle"])}
        [] ~n.prepared /\ n.selecting ->
             {Answer("ConnectionFailed", Cancelled(m)),
              Answer("Ok", ScanStops(Cancelled(left)))}
        [] OTHER -> {Answer("ConnectionFailed", m), Answer("Ok", Leaves(left))}

(* The handlers are gone: what is still in the loop reaches nobody. *)
detach(n) ==
  [Leaves(n) EXCEPT
     !.attached = FALSE, !.selecting = FALSE, !.scan_active = FALSE,
     !.candidates = <<>>, !.attempt = FALSE, !.secret = NoNetwork,
     !.idf.loop = <<>>]

SlipMarkLeft(n) == n

(* What a command does about a vendor call that failed. *)
Undone(n) ==
  CASE n.call.kind = "scan" -> [n EXCEPT !.scan_active = FALSE]
    [] n.call.kind = "select" ->
         [n EXCEPT !.selecting = FALSE, !.secret = NoNetwork]
    [] n.call.kind = "join" ->
         [candidateFailed(n, "Transient") EXCEPT !.told.phase = "Idle"]

(* What a vendor call does that succeeds. *)
Done(n) ==
  CASE n.call.kind = "scan" -> [n EXCEPT !.idf.scanning = TRUE]
    [] n.call.kind = "select" ->
         [n EXCEPT !.idf.scanning = TRUE, !.told.phase = "Selecting"]
    [] n.call.kind = "join" ->
         [n EXCEPT !.idf.link = "Joining", !.idf.ap = n.selected,
                   !.told.phase = "Joining"]

Returned(n) ==
  [IF n.call.answer = "Ok" THEN Done(n) ELSE Undone(n) EXCEPT
     !.call = NoCall]

CallReturns ==
  /\ native.call # NoCall
  /\ native' = Returned(native)
  /\ UNCHANGED mail

-----------------------------------------------------------------------------
(* event(): one action per kind *)

Delivered(kind) ==
  /\ native.attached /\ native.idf.loop # <<>>
  /\ Head(native.idf.loop).kind = kind

(* The event at hand, and the station without it. *)
Current == Head(native.idf.loop)

Rest == [native EXCEPT !.idf.loop = Tail(@)]

PostsEvent(n, event) == native' = n /\ mail' = post(mail, event)

Ignores(n) == native' = n /\ UNCHANGED mail

OnStart ==
  /\ Delivered("Start")
  /\ PostsEvent([Rest EXCEPT !.told.enabled = TRUE], Enablement(TRUE))

OnStop ==
  /\ Delivered("Stop")
  /\ PostsEvent([Rest EXCEPT !.idf.ip = FALSE, !.told.enabled = FALSE,
                             !.told.phase = "Idle"],
                Enablement(FALSE))

(* The records a scan for the configured SSID may find, in any order. *)
Found(network) ==
  LET near == {ap \in Aps : NetworkOf[ap] = network}
      orders == UNION {{s \in [1..k -> near] : IsInjective(s)} :
                         k \in {m \in 0..Cardinality(near) : m <= MaxFound}}
  IN  UNION {{[i \in DOMAIN s |-> [ap |-> s[i], rssi |-> rssi[i]]] :
                rssi \in [DOMAIN s -> Strengths]} : s \in orders}

Selected(n, found) ==
  LET m == rememberCandidates([n EXCEPT !.selecting = FALSE], found)
  IN  IF Eligible(m) # {}
      THEN PostsEvent([selectCandidate(m) EXCEPT !.told.phase = "Prepared"],
                      Event("Prepared", NoNetwork, "Ok"))
      ELSE PostsEvent([m EXCEPT !.secret = NoNetwork, !.told.phase = "Idle",
                                !.told.leaving = FALSE],
                      Event("Disconnected", native.config,
                            "ConnectionFailed"))

SlipUnreported ==
  Ignores([Rest EXCEPT !.selecting = FALSE, !.cancelled = FALSE,
                       !.secret = NoNetwork])

(* A selection that was cancelled or failed ends the attempt. *)
Unselected ==
  PostsEvent([Rest EXCEPT !.selecting = FALSE, !.cancelled = FALSE,
                          !.secret = NoNetwork, !.told.phase = "Idle",
                          !.told.leaving = FALSE],
             Event("Disconnected", native.config, "ConnectionFailed"))

OnScanDone ==
  /\ Delivered("ScanDone")
  /\ CASE native.selecting ->
            \/ /\ ~native.cancelled
               /\ \E n \in Later(Rest), found \in Found(native.config) :
                    Selected(n, found)
            \/ Unselected
       [] ~native.selecting /\ native.scan_active ->
            \E status \in {"Ok", "ConnectionFailed"} :
              PostsEvent([Rest EXCEPT !.scan_active = FALSE,
                                      !.cancelled = FALSE],
                         Event("ScanDone", NoNetwork, status))
       [] OTHER -> Ignores(Rest)

(* An association with a security that is not allowed is given up, if the  *)
(* radio obeys; nobody hears of it either way.                             *)
OnConnected ==
  /\ Delivered("Connected")
  /\ IF SecurityAllows(PolicyOf[native.config], Current.detail)
     THEN PostsEvent([Rest EXCEPT !.told.phase = "Associated"],
                     Event("Associated", NetworkOf[Current.ap], "Ok"))
     ELSE LET m == [Rest EXCEPT !.rejected = TRUE]
          IN  Ignores(m) \/ Ignores(Leaves(m))

OnDisconnected ==
  /\ Delivered("Disconnected")
  /\ LET failure == IF native.rejected THEN "IncompatibleSecurity"
                    ELSE ClassifyDisconnect(Current.detail)
     IN  PostsEvent([candidateFailed(Rest, failure) EXCEPT
                       !.rejected = FALSE, !.idf.ip = FALSE,
                       !.idf.timer = @ \/ native.idf.ip,
                       !.told.phase = "Idle", !.told.leaving = FALSE],
                    Event("Disconnected", NetworkOf[Current.ap],
                          "ConnectionFailed"))

(* An address counts only on the link and the AP that were selected. *)
OnGotIp ==
  /\ Delivered("GotIp")
  /\ IF /\ native.idf.link = "Up" /\ native.idf.ip
        /\ native.idf.ap = native.selected
     THEN PostsEvent([Rest EXCEPT
                        !.attempt = FALSE,
                        !.candidates = [i \in DOMAIN @ |->
                          IF @[i].ap = native.selected
                          THEN [@[i] EXCEPT !.failures = 0, !.cooling = FALSE]
                          ELSE @[i]],
                        !.told.phase = IF @ = "Associated" THEN "AddressReady"
                                                           ELSE @],
                     Event("AddressReady", NetworkOf[native.idf.ap], "Ok"))
     ELSE Ignores(Rest)

SlipStaleLoss ==
  /\ Delivered("LostIp")
  /\ PostsEvent([Rest EXCEPT !.told.phase = IF @ = "AddressReady"
                                            THEN "Associated" ELSE @],
                Event("AddressLost", NoNetwork, "Ok"))

(* A loss has no identity: it counts only if there is no address now. *)
OnLostIp ==
  /\ Delivered("LostIp")
  /\ IF native.idf.ip THEN Ignores(Rest)
     ELSE PostsEvent([Rest EXCEPT !.told.phase = IF @ = "AddressReady"
                                                 THEN "Associated" ELSE @],
                     Event("AddressLost", NoNetwork, "Ok"))

Delivers ==
  \/ OnStart \/ OnStop \/ OnScanDone \/ OnConnected \/ OnDisconnected
  \/ OnGotIp \/ OnLostIp

-----------------------------------------------------------------------------
(* What ESP-IDF and the network do by themselves *)

Raises(n, kind, ap, detail) ==
  /\ native.attached
  /\ native' = Raise(n, kind, ap, detail)
  /\ UNCHANGED mail

ScanFinishes ==
  /\ native.idf.scanning
  /\ Raises([native EXCEPT !.idf.scanning = FALSE], "ScanDone", NoAp, "None")

(* The negotiated security may differ from the announced one. *)
Joins(auth) ==
  /\ native.idf.link = "Joining"
  /\ Raises([native EXCEPT !.idf.link = "Up", !.idf.auth = auth],
            "Connected", native.idf.ap, auth)

(* The join fails or the link is lost. *)
Loses(reason) ==
  /\ native.idf.link # "Down"
  /\ Raises(Unjoined(native), "Disconnected", native.idf.ap, reason)

(* DHCP runs once the association was announced. *)
GetsIp ==
  /\ Len(native.idf.loop) < MaxLoop
  /\ native.idf.link = "Up" /\ ~native.idf.ip
  /\ \A i \in DOMAIN native.idf.loop : native.idf.loop[i].kind # "Connected"
  /\ Raises([native EXCEPT !.idf.ip = TRUE], "GotIp", native.idf.ap, "None")

LeaseEnds ==
  /\ Len(native.idf.loop) < MaxLoop
  /\ native.idf.link = "Up" /\ native.idf.ip
  /\ Raises([native EXCEPT !.idf.ip = FALSE], "LostIp", NoAp, "None")

(* An address that went with its link is reported as lost after a while. *)
LossTimer ==
  /\ Len(native.idf.loop) < MaxLoop
  /\ native.idf.timer
  /\ Raises([native EXCEPT !.idf.timer = FALSE], "LostIp", NoAp, "None")

Happens ==
  \/ ScanFinishes
  \/ \E auth \in Joined : Joins(auth)
  \/ \E reason \in Reasons : Loses(reason)
  \/ GetsIp
  \/ LeaseEnds
  \/ LossTimer

-----------------------------------------------------------------------------
(* Types *)

Candidates == [ap : Aps, failures : 0..2, cooling : BOOLEAN]

IdfEvents ==
  [kind : {"Start", "Stop", "ScanDone", "Connected", "Disconnected", "GotIp",
           "LostIp"},
   ap : Aps \cup {NoAp},
   detail : AuthMode \cup DisconnectReason \cup {"None"}]

Stations ==
  [attached : BOOLEAN, selecting : BOOLEAN, scan_active : BOOLEAN,
   cancelled : BOOLEAN, prepared : BOOLEAN, attempt : BOOLEAN,
   candidates : BoundedSeq(Candidates, Slots), fresh : BOOLEAN,
   rejected : BOOLEAN, selected : Aps \cup {NoAp}, config : Ssid,
   secret : Ssid,
   call : [kind : {"None", "scan", "select", "join"}, answer : Status],
   idf : [on : BOOLEAN, scanning : BOOLEAN, link : {"Down", "Joining", "Up"},
          ap : Aps \cup {NoAp}, auth : AuthMode, ip : BOOLEAN,
          timer : BOOLEAN, loop : Seq(IdfEvents)],
   told : [enabled : BOOLEAN, phase : NativePhase, leaving : BOOLEAN]]

=============================================================================
