--------------------------- MODULE Esp32Interface ----------------------------
(***************************************************************************)
(* roo_wifi::Esp32IdfInterface: OrderedInterface in front of the ESP32     *)
(* driver.  The scheduler thread does nothing else while a command of its  *)
(* is in a vendor call; the event loop goes on.                            *)
(***************************************************************************)
EXTENDS OrderedInterface, Esp32Station

(* The adapter passes on what the driver answers, and no driver answers    *)
(* Cancelled, which only the adapter itself says.                          *)
ASSUME Esp32ErrorsAssumption ==
  /\ {"Busy", "ConnectionFailed", "NotFound"} \subseteq AdapterErrors
  /\ "Cancelled" \notin AdapterErrors

Init == AdapterInit /\ native = NewStation

Api ==
  /\ native.call = NoCall
  /\ \/ Begin(AttachedStation)
     \/ Shutdown(detach(native))
     \/ \E enabled \in BOOLEAN : SetEnabled(enabled, enable(native, enabled))
     \/ StartScan(scan(native))
     \/ \E network \in Networks : Connect(network, disconnect(native))
     \/ Disconnect(disconnect(native))
     \/ CancelScan(stopScan(native))
     \/ CancelConnect(disconnect(native))

Dispatch ==
  \/ CallReturns /\ UNCHANGED <<adapter, client, radio>>
  \/ /\ native.call = NoCall
     /\ \/ Drain
        \/ DrainEvent(continueConnect(native))
        \/ DrainOverflow
        \/ DrainEnds(connect(native, adapter.config, adapter.credentials))
        \/ Deliver

EventLoop == Delivers /\ UNCHANGED <<adapter, client, radio>>

Radio == Happens /\ UNCHANGED <<adapter, client, radio>>

Next == Api \/ Dispatch \/ EventLoop \/ Radio

Spec == Init /\ [][Next]_vars

(* The scheduler goes on with what it has begun, the event loop delivers   *)
(* and a scan ends.  Neither an association nor an address is owed.        *)
FairSpec ==
  /\ Spec
  /\ WF_vars(Dispatch)
  /\ WF_vars(EventLoop)
  /\ WF_vars(ScanFinishes /\ UNCHANGED <<adapter, client, radio>>)

-----------------------------------------------------------------------------
(* The driver as the contract of NativeStation sees it *)

View ==
  [attached |-> native.attached,
   enabled |-> native.told.enabled,
   turning |-> native.told.enabled # native.idf.on,
   target |-> native.idf.on,
   scanning |-> native.scan_active /\ native.call.kind # "scan",
   phase |-> native.told.phase,
   leaving |-> native.told.leaving,
   ssid |-> native.config,
   secret |-> native.config]

Detached ==
  [attached |-> FALSE, enabled |-> FALSE, turning |-> FALSE,
   target |-> FALSE, scanning |-> FALSE, phase |-> "Idle",
   leaving |-> FALSE, ssid |-> NoNetwork, secret |-> NoNetwork]

Native == INSTANCE NativeStation WITH
  native <- IF native.attached THEN View ELSE Detached,
  NativeErrors <- {"Busy", "ConnectionFailed"},
  IdleAnswer <- "Ok",
  Unsolicited <- FALSE

-----------------------------------------------------------------------------
(* Properties *)

(* Adapter and driver keep their types, and a scan with many matches fills *)
(* the candidate slots without growing beyond them.                        *)
TypeOK == AdapterTypeOK /\ native \in Stations

(* The ESP32 driver is one of those OrderedInterface is checked against:   *)
(* whatever order its callbacks, its scans and the windows without the     *)
(* lock come in, its events tell a connection the way the contract has it. *)
NativeRefined == Native!NativeSpec

(* A driver that believes a scan is running waits for an event that comes: *)
(* otherwise every later scan and connection would find it busy.           *)
BusyOnlyWhileScanning ==
  native.attached /\ (native.selecting \/ native.scan_active) =>
    \/ native.call.kind \in {"scan", "select"}
    \/ native.idf.scanning
    \/ \E i \in DOMAIN native.idf.loop : native.idf.loop[i].kind = "ScanDone"

(* What is selected, and then joined, is an AP of the network the adapter  *)
(* is connecting to, and the credentials that came with it are still there *)
(* when it is prepared: a candidate outlives neither its attempt nor its   *)
(* network.                                                                *)
JoinIsOwn ==
  native.attached /\ ~adapter.faulted =>
    /\ native.prepared => /\ Connecting(adapter)
                          /\ native.config = adapter.link.ssid
                          /\ native.secret = native.config
    /\ native.prepared \/ native.call.kind = "join" =>
         NetworkOf[native.selected] = adapter.link.ssid

(* When nothing is in flight, the adapter's link and enablement are those  *)
(* of the radio, and the radio is on no link its policy does not allow.    *)
SettledTruth ==
  /\ native.attached /\ native.call = NoCall /\ native.idf.loop = <<>>
  /\ mail.queue = <<>> /\ ~mail.overflow
  /\ Free /\ adapter.station.id = 0
  => /\ adapter.enabled = native.idf.on
     /\ adapter.link.phase = CASE native.idf.link = "Down" -> "Idle"
                               [] native.idf.link = "Joining" -> "Connecting"
                               [] OTHER -> IF native.idf.ip THEN "AddressReady"
                                           ELSE "Associated"
     /\ native.idf.link = "Up" =>
          /\ adapter.link.ssid = NetworkOf[native.idf.ap]
          /\ SecurityAllows(PolicyOf[adapter.link.ssid], native.idf.auth)

(* Only an AP that failed is penalised: neither a teardown the adapter     *)
(* asked for nor the end of another AP's link counts.                      *)
TeardownIsBlameless ==
  [][\A i \in DOMAIN native.candidates \cap DOMAIN native'.candidates :
       /\ native'.candidates[i].ap = native.candidates[i].ap
       /\ native'.candidates[i].failures > native.candidates[i].failures
       /\ native'.idf.loop # native.idf.loop
       => /\ Current.ap = native.candidates[i].ap
          /\ Current.detail = "ASSOC_LEAVE" => native.rejected]_native

(* The APs that are cooling, and the records found of APs whose security   *)
(* the policy of the network allows.                                       *)
Cooling(n) == {c.ap : c \in {d \in Range(n.candidates) : d.cooling}}

Usable(found) ==
  {r \in {found[i] : i \in DOMAIN found} :
     SecurityAllows(PolicyOf[native.config], AuthOf[r.ap])}

(* Which of two records should be tried first: that of an AP that is not   *)
(* cooling, and of two alike the stronger.                                 *)
Better(r, s, cooling) ==
  \/ r.ap \notin cooling /\ s.ap \in cooling
  \/ (r.ap \in cooling <=> s.ap \in cooling) /\ r.rssi > s.rssi

(* Every AP kept is that of a usable record, once; no slot is left empty   *)
(* while there are more; and a record better than that of an AP kept is    *)
(* kept before it.                                                         *)
KeepsBest(usable, cooling, kept) ==
  /\ \A i \in DOMAIN kept : \E r \in usable : r.ap = kept[i].ap
  /\ \A i, j \in DOMAIN kept : i # j => kept[i].ap # kept[j].ap
  /\ Len(kept) >= Min({Slots, Cardinality(usable)})
  /\ \A i \in DOMAIN kept, r, s \in usable :
       s.ap = kept[i].ap /\ Better(r, s, cooling) =>
         \E j \in 1..(i - 1) : kept[j].ap = r.ap

(* The failures of an AP are carried over, with its penalty, while the     *)
(* candidates are fresh or the AP is cooling; any other AP starts anew.    *)
KeepsPenalties(n, kept) ==
  \A i \in DOMAIN kept :
    LET old == {c \in Range(n.candidates) :
                  c.ap = kept[i].ap /\ (n.fresh \/ c.cooling)}
    IN  IF old # {} THEN kept[i] \in old
        ELSE kept[i].failures = 0 /\ ~kept[i].cooling

(* Whatever a selection finds and whenever it looks at the clock, it keeps *)
(* as many of the APs its policy allows as it has slots for, the best      *)
(* first and none better left out, forgets neither failures nor penalties  *)
(* that still count, and takes the first unless all are cooling.           *)
SelectionIsBest ==
  /\ native.selecting /\ ~native.cancelled /\ native.idf.loop # <<>>
  /\ Current.kind = "ScanDone"
  => \A n \in Later(native), found \in Found(native.config) :
       LET usable == Usable(found)
           cooling == Cooling(n)
           m == rememberCandidates(n, found)
       IN  /\ KeepsBest(usable, cooling, m.candidates)
           /\ KeepsPenalties(n, m.candidates)
           /\ (\E r \in usable : r.ap \notin cooling) =>
                /\ Eligible(m) # {}
                /\ selectCandidate(m).selected = m.candidates[1].ap

=============================================================================
