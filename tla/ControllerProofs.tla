-------------------------- MODULE ControllerProofs ---------------------------
(***************************************************************************)
(* Proofs about Controller, for every value of its constants: any number   *)
(* of networks, operation identities, retry levels and errors.             *)
(*                                                                         *)
(* The inductive invariant Inv is the type invariant and Coherent: the     *)
(* identities in flight are below next_id, an identity and the name of its *)
(* transition come and go together, the lifecycle flags agree with the     *)
(* adapter's, a fault has settled everything, and a running controller     *)
(* agrees with the adapter on what is outstanding (Agreed).  None of these *)
(* is inductive alone: that a completion retires the right command needs   *)
(* the agreement, and the agreement needs distinct identities.             *)
(*                                                                         *)
(* The methods are proved about as operators.  OK(c) says that c is a well *)
(* typed controller and Kept(c, d) that a method leaves the identities,    *)
(* the lifecycle, the link and the outstanding work of c alone, so that    *)
(* the methods that only replace the intent or schedule tasks need no      *)
(* further argument.  StationStarted, ScanStarted and Delivered are what   *)
(* the methods that submit a command or take a completion do to c and to   *)
(* the adapter.  One lemma per action shows Inv', and Tame where the       *)
(* action submits nothing.                                                 *)
(***************************************************************************)
EXTENDS Controller, TLAPS

Fields ==
  {"running", "closed", "faulted", "initialized", "desired", "profile",
   "connected", "enabled", "link", "revision", "status", "pending",
   "failure", "scan", "scan_status", "scan_revision",
   "profiles_generation", "generation", "config", "secret", "auto",
   "restore", "transition", "transition_enabled", "next_id", "station_id",
   "scan_id", "active", "attempted", "cancelling", "station_timed_out",
   "scan_timed_out", "timeout_failure", "level", "armed", "tasks",
   "changes"}

Shape(c) == c = [x \in Fields |-> c[x]]

Typed(c) ==
  /\ c.running \in BOOLEAN /\ c.closed \in BOOLEAN /\ c.faulted \in BOOLEAN
  /\ c.initialized \in BOOLEAN
  /\ c.desired \in Target /\ c.profile \in Ssid /\ c.connected \in Ssid
  /\ c.enabled \in BOOLEAN
  /\ c.link \in [id : Nat, phase : LinkPhase]
  /\ c.revision \in Nat /\ c.status \in Status /\ c.pending \in BOOLEAN
  /\ c.failure \in ConnectionFailure
  /\ c.scan \in ScanPhase /\ c.scan_status \in Status
  /\ c.scan_revision \in Nat
  /\ c.profiles_generation \in Nat /\ c.generation \in Nat
  /\ c.config \in Ssid /\ c.secret \in Ssid /\ c.auto \in BOOLEAN
  /\ c.restore \in BOOLEAN
  /\ c.transition \in Transition /\ c.transition_enabled \in BOOLEAN
  /\ c.next_id \in Nat /\ c.station_id \in Nat /\ c.scan_id \in Nat
  /\ c.active \in Nat /\ c.attempted \in Nat
  /\ c.cancelling \in BOOLEAN /\ c.station_timed_out \in BOOLEAN
  /\ c.scan_timed_out \in BOOLEAN
  /\ c.timeout_failure \in ConnectionFailure
  /\ c.level \in 0..MaxRetryLevel
  /\ c.armed \in SUBSET {"stable", "address"} /\ c.tasks \in SUBSET Task
  /\ c.changes \in SUBSET Change

OK(c) == Shape(c) /\ Typed(c)

(* A well typed controller, field by field, is a member of Controllers. *)
LEMMA ControllersTyped ==
  ASSUME NEW c
  PROVE  c \in Controllers <=> OK(c)
BY DEF OK, Shape, Typed, Fields, Controllers

(* d agrees with c on its life cycle, on what it observed of the link, on  *)
(* the station command and on the scan; altogether, on all native work.    *)
KeptLife(c, d) ==
  /\ d.running = c.running /\ d.closed = c.closed /\ d.faulted = c.faulted
  /\ d.next_id = c.next_id

KeptLink(c, d) == d.link = c.link /\ d.enabled = c.enabled

KeptStation(c, d) ==
  /\ d.transition = c.transition /\ d.cancelling = c.cancelling
  /\ d.station_id = c.station_id

KeptScan(c, d) == d.scan_id = c.scan_id /\ d.scan = c.scan

Kept(c, d) ==
  KeptLife(c, d) /\ KeptLink(c, d) /\ KeptStation(c, d) /\ KeptScan(c, d)

USE DEF KeptLife, KeptLink, KeptStation, KeptScan, Kept

(* The enumerators that the methods write are members of their types. *)
LEMMA NamesTyped ==
  /\ {"Ok", "Cancelled", "Timeout", "ConnectionFailed", "Busy",
      "NotStarted", "Disabled", "NotFound"} \subseteq Status
  /\ {"None", "Transient", "ConnectionTimeout", "AddressTimeout"}
        \subseteq ConnectionFailure
  /\ {"station", "scan", "profiles"} \subseteq Change
  /\ {"None", "Enable", "Connect", "Disconnect"} \subseteq Transition
  /\ {"Idle", "Queued", "Running", "Cancelling"} \subseteq ScanPhase
  /\ {"Disabled", "Disconnected", "Connected"} \subseteq Target
  /\ NoNetwork \in Ssid /\ 0 \in 0..MaxRetryLevel
BY ConstantsAssumption
DEF Status, ConnectionFailure, Change, Transition, ScanPhase, Target, Ssid

(* The same, one name at a time. *)
LEMMA ConstantNames ==
  /\ "Ok" \in Status /\ "Timeout" \in Status /\ "Busy" \in Status
  /\ "None" \in ConnectionFailure /\ "AddressTimeout" \in ConnectionFailure
  /\ "station" \in Change /\ "scan" \in Change /\ "profiles" \in Change
BY NamesTyped

(* changed() only records an invalidation and schedules notify. *)
LEMMA ChangedKeeps ==
  ASSUME NEW c, OK(c), NEW what \in Change
  PROVE  OK(changed(c, what)) /\ Kept(c, changed(c, what))
<1>1. CASE c.running
  <2>1. Shape(changed(c, what))
    BY <1>1 DEF OK, Shape, changed
  <2>2. Typed(changed(c, what))
    BY <1>1 DEF OK, Shape, Typed, Fields, changed, Task
  <2>3. Kept(c, changed(c, what))
    BY <1>1 DEF OK, Shape, Fields, changed
  <2> QED BY <2>1, <2>2, <2>3 DEF OK
<1>2. CASE ~c.running
  BY <1>2 DEF changed
<1> QED BY <1>1, <1>2

(* Scheduling execute() keeps everything in flight. *)
LEMMA ScheduleWorkKeeps ==
  ASSUME NEW c, OK(c)
  PROVE  OK(scheduleWork(c)) /\ Kept(c, scheduleWork(c))
<1>1. Shape(scheduleWork(c))
  BY DEF OK, Shape, scheduleWork
<1>2. Typed(scheduleWork(c))
  BY DEF OK, Shape, Typed, Fields, scheduleWork, Task
<1>3. Kept(c, scheduleWork(c))
  BY DEF OK, Shape, Fields, scheduleWork
<1> QED BY <1>1, <1>2, <1>3 DEF OK

(* scheduleTimeouts() only arms or cancels the timer task. *)
LEMMA ScheduleTimeoutsKeeps ==
  ASSUME NEW c, OK(c)
  PROVE  OK(scheduleTimeouts(c)) /\ Kept(c, scheduleTimeouts(c))
<1>1. Shape(scheduleTimeouts(c))
  BY DEF OK, Shape, scheduleTimeouts
<1>2. Typed(scheduleTimeouts(c))
  BY DEF OK, Shape, Typed, Fields, scheduleTimeouts, Task
<1>3. Kept(c, scheduleTimeouts(c))
  BY DEF OK, Shape, Fields, scheduleTimeouts
<1> QED BY <1>1, <1>2, <1>3 DEF OK

(* The three calls with which most handlers end keep everything in flight. *)
LEMMA AnnounceKeeps ==
  ASSUME NEW c, OK(c), NEW what \in Change
  PROVE  LET d == scheduleTimeouts(scheduleWork(changed(c, what)))
         IN  OK(d) /\ Kept(c, d)
<1>1. OK(changed(c, what)) /\ Kept(c, changed(c, what))
  BY ChangedKeeps
<1>2. /\ OK(scheduleWork(changed(c, what)))
      /\ Kept(c, scheduleWork(changed(c, what)))
  BY <1>1, ScheduleWorkKeeps
<1> QED BY <1>2, ScheduleTimeoutsKeeps

(* cancelRetry() touches nothing but the retry. *)
LEMMA CancelRetryKeeps ==
  ASSUME NEW c, OK(c)
  PROVE  OK(cancelRetry(c)) /\ Kept(c, cancelRetry(c))
<1>1. Shape(cancelRetry(c))
  BY DEF OK, Shape, cancelRetry
<1>2. Typed(cancelRetry(c))
  BY DEF OK, Shape, Typed, Fields, cancelRetry, Task
<1>3. Kept(c, cancelRetry(c))
  BY DEF OK, Shape, Fields, cancelRetry
<1> QED BY <1>1, <1>2, <1>3 DEF OK

(* newIntent() replaces the intent and leaves native work alone. *)
LEMMA NewIntentKeeps ==
  ASSUME NEW c, OK(c)
  PROVE  OK(newIntent(c)) /\ Kept(c, newIntent(c))
<1>1. PICK d : d = cancelRetry(c)
  OBVIOUS
<1>2. OK(d) /\ Kept(c, d)
  BY <1>1, CancelRetryKeeps
<1>3. PICK e : e = [d EXCEPT !.revision = @ + 1, !.status = "Ok",
                             !.failure = "None", !.level = 0, !.armed = {}]
  OBVIOUS
<1>4. OK(e) /\ Kept(d, e)
  <2>1. Shape(e)
    BY <1>2, <1>3 DEF OK, Shape
  <2>2. Typed(e)
    BY <1>2, <1>3, NamesTyped DEF OK, Shape, Typed, Fields
  <2>3. Kept(d, e)
    BY <1>2, <1>3 DEF OK, Shape, Fields
  <2> QED BY <2>1, <2>2, <2>3 DEF OK
<1>5. newIntent(c) = scheduleWork(changed(e, "station"))
  BY <1>1, <1>3 DEF newIntent, Replaced
<1>6. OK(changed(e, "station")) /\ Kept(e, changed(e, "station"))
  BY <1>4, ChangedKeeps, NamesTyped
<1>7. /\ OK(scheduleWork(changed(e, "station")))
      /\ Kept(changed(e, "station"), scheduleWork(changed(e, "station")))
  BY <1>6, ScheduleWorkKeeps
<1> QED BY <1>2, <1>4, <1>5, <1>6, <1>7

(* fault() gives up both operations and is final. *)
LEMMA FaultSettles ==
  ASSUME NEW c, OK(c), NEW status \in Status
  PROVE  LET d == fault(c, status)
         IN  /\ OK(d) /\ d.faulted /\ d.running = c.running
             /\ d.closed = c.closed /\ d.next_id = c.next_id
             /\ d.cancelling = c.cancelling /\ KeptLink(c, d)
             /\ d.station_id = 0 /\ d.transition = "None"
             /\ d.scan_id = 0 /\ d.scan = "Idle"
<1>1. PICK s : s = [c EXCEPT !.scan = "Idle", !.scan_status = status]
  OBVIOUS
<1>2. /\ OK(s) /\ s.scan = "Idle" /\ s.scan_id = c.scan_id
      /\ KeptLife(c, s) /\ KeptLink(c, s) /\ KeptStation(c, s)
  <2>1. Shape(s)
    BY <1>1 DEF OK, Shape
  <2>2. Typed(s)
    BY <1>1, NamesTyped DEF OK, Shape, Typed, Fields
  <2> QED BY <1>1, <2>1, <2>2 DEF OK, Shape, Fields
<1>3. PICK t : t = IF isScanning(c) THEN changed(s, "scan") ELSE c
  OBVIOUS
<1>4. /\ OK(t) /\ t.scan = "Idle" /\ t.scan_id = c.scan_id
      /\ KeptLife(c, t) /\ KeptLink(c, t) /\ KeptStation(c, t)
  <2>1. CASE isScanning(c)
    BY <1>2, <1>3, <2>1, ChangedKeeps, NamesTyped, SMTT(30)
  <2>2. CASE ~isScanning(c)
    BY <1>3, <2>2 DEF isScanning
  <2> QED BY <2>1, <2>2
<1>5. PICK u : u = [t EXCEPT !.faulted = TRUE, !.status = status,
                             !.scan_id = 0, !.station_id = 0,
                             !.transition = "None", !.secret = NoNetwork,
                             !.armed = {}, !.tasks = @ \ {"timer"}]
  OBVIOUS
<1>6. /\ OK(u) /\ u.faulted /\ u.running = c.running /\ u.closed = c.closed
      /\ u.next_id = c.next_id /\ u.cancelling = c.cancelling
      /\ KeptLink(c, u) /\ u.station_id = 0 /\ u.transition = "None"
      /\ u.scan_id = 0 /\ u.scan = "Idle"
  <2>1. Shape(u)
    BY <1>4, <1>5 DEF OK, Shape
  <2>2. Typed(u)
    BY <1>4, <1>5, NamesTyped DEF OK, Shape, Typed, Fields
  <2> QED BY <1>4, <1>5, <2>1, <2>2 DEF OK, Shape, Fields
<1>7. fault(c, status) = changed(cancelRetry(u), "station")
  BY <1>1, <1>3, <1>5 DEF fault
<1>8. OK(cancelRetry(u)) /\ Kept(u, cancelRetry(u))
  BY <1>6, CancelRetryKeeps
<1>9. /\ OK(changed(cancelRetry(u), "station"))
      /\ Kept(cancelRetry(u), changed(cancelRetry(u), "station"))
  BY <1>8, ChangedKeeps, NamesTyped
<1> QED BY <1>6, <1>7, <1>8, <1>9

(* connectionFailed() charges a retry, whose level stays in its range. *)
LEMMA ConnectionFailedKeeps ==
  ASSUME NEW c, OK(c), NEW status \in Status, NEW failure \in ConnectionFailure
  PROVE  LET d == connectionFailed(c, status, failure)
         IN  OK(d) /\ Kept(c, d)
<1>1. PICK d : d = [c EXCEPT !.status = status, !.armed = {},
                             !.failure = IF failure = "None" THEN "Transient"
                                         ELSE failure]
  OBVIOUS
<1>2. OK(d) /\ Kept(c, d)
  <2>1. Shape(d)
    BY <1>1 DEF OK, Shape
  <2>2. Typed(d)
    BY <1>1, NamesTyped DEF OK, Shape, Typed, Fields
  <2> QED BY <1>1, <2>1, <2>2 DEF OK, Shape, Fields
<1>3. PICK e : e = [d EXCEPT !.pending = TRUE, !.level = nextLevel(@),
                             !.tasks = @ \cup {"reconnect"}]
  OBVIOUS
<1>4. OK(e) /\ Kept(d, e)
  <2>1. Shape(e)
    BY <1>2, <1>3 DEF OK, Shape
  <2>2. nextLevel(d.level) \in 0..MaxRetryLevel
    BY <1>2, ConstantsAssumption DEF OK, Typed, nextLevel
  <2>3. Typed(e)
    BY <1>2, <1>3, <2>2 DEF OK, Shape, Typed, Fields, Task
  <2> QED BY <1>2, <1>3, <2>1, <2>3 DEF OK, Shape, Fields
<1>5. connectionFailed(c, status, failure) \in {d, e}
  BY <1>1, <1>3 DEF connectionFailed
<1> QED BY <1>2, <1>4, <1>5

(* requestConnection() leaves native work alone. *)
LEMMA RequestConnectionKeeps ==
  ASSUME NEW c, OK(c), NEW network \in Ssid, NEW profile \in Ssid,
         NEW automatic \in BOOLEAN
  PROVE  LET d == requestConnection(c, network, profile, automatic)
         IN  OK(d) /\ Kept(c, d)
<1>1. PICK d : d = [c EXCEPT !.auto = automatic]
  OBVIOUS
<1>2. OK(d) /\ Kept(c, d)
  <2>1. Shape(d)
    BY <1>1 DEF OK, Shape
  <2>2. Typed(d)
    BY <1>1, NamesTyped DEF OK, Shape, Typed, Fields
  <2> QED BY <1>1, <2>1, <2>2 DEF OK, Shape, Fields
<1>3. PICK e : e = [c EXCEPT !.config = network, !.secret = network,
                             !.desired = "Connected", !.profile = profile,
                             !.auto = automatic, !.restore = FALSE]
  OBVIOUS
<1>4. OK(e) /\ Kept(c, e)
  <2>1. Shape(e)
    BY <1>3 DEF OK, Shape
  <2>2. Typed(e)
    BY <1>3, NamesTyped DEF OK, Shape, Typed, Fields
  <2> QED BY <1>3, <2>1, <2>2 DEF OK, Shape, Fields
<1>5. OK(newIntent(e)) /\ Kept(e, newIntent(e))
  BY <1>4, NewIntentKeeps
<1>6. requestConnection(c, network, profile, automatic) \in {d, newIntent(e)}
  BY <1>1, <1>3 DEF requestConnection
<1> QED BY <1>2, <1>4, <1>5, <1>6

(* cancelScan() moves the scan's phase as the adapter's answer allows. *)
LEMMA CancelScanMoves ==
  ASSUME NEW c, OK(c), NEW answer
  PROVE  LET d == cancelScan(c, answer)
         IN  /\ OK(d)
             /\ KeptLife(c, d) /\ KeptLink(c, d) /\ KeptStation(c, d)
             /\ d.scan_id = c.scan_id
             /\ d.scan = CASE c.scan = "Queued" -> "Idle"
                          [] c.scan = "Running" /\ answer = "Ok" ->
                               "Cancelling"
                          [] OTHER -> c.scan
<1>1. CASE c.scan = "Queued"
  <2>1. PICK d : d = [c EXCEPT !.scan = "Idle", !.scan_status = "Cancelled"]
    OBVIOUS
  <2>2. OK(d) /\ KeptLife(c, d) /\ KeptLink(c, d) /\ KeptStation(c, d)
        /\ d.scan_id = c.scan_id /\ d.scan = "Idle"
    <3>1. Shape(d)
      BY <2>1 DEF OK, Shape
    <3>2. Typed(d)
      BY <2>1, NamesTyped DEF OK, Shape, Typed, Fields
    <3> QED BY <2>1, <3>1, <3>2 DEF OK, Shape, Fields
  <2>3. cancelScan(c, answer)
          = scheduleTimeouts(scheduleWork(changed(d, "scan")))
    BY <1>1, <2>1 DEF cancelScan
  <2> QED BY <1>1, <2>2, <2>3, AnnounceKeeps, NamesTyped, SMTT(30)
<1>2. CASE c.scan = "Running" /\ answer = "Ok"
  <2>1. PICK d : d = [c EXCEPT !.scan = "Cancelling"]
    OBVIOUS
  <2>2. OK(d) /\ KeptLife(c, d) /\ KeptLink(c, d) /\ KeptStation(c, d)
        /\ d.scan_id = c.scan_id /\ d.scan = "Cancelling"
    <3>1. Shape(d)
      BY <2>1 DEF OK, Shape
    <3>2. Typed(d)
      BY <2>1, NamesTyped DEF OK, Shape, Typed, Fields
    <3> QED BY <2>1, <3>1, <3>2 DEF OK, Shape, Fields
  <2>3. cancelScan(c, answer)
          = scheduleTimeouts(scheduleWork(changed(d, "scan")))
    BY <1>2, <2>1 DEF cancelScan
  <2> QED BY <1>2, <2>2, <2>3, AnnounceKeeps, NamesTyped, SMTT(30)
<1>3. CASE c.scan # "Queued" /\ ~(c.scan = "Running" /\ answer = "Ok")
  BY <1>3 DEF cancelScan
<1> QED BY <1>1, <1>2, <1>3

(* scanFinished() retires the scan and nothing else. *)
LEMMA ScanFinishedSettles ==
  ASSUME NEW c, OK(c), NEW result \in Status, NEW read \in Status
  PROVE  LET d == scanFinished(c, result, read)
         IN  /\ OK(d)
             /\ KeptLife(c, d) /\ KeptLink(c, d) /\ KeptStation(c, d)
             /\ d.scan_id = 0 /\ d.scan = "Idle"
<1>1. scanOutcome(c, result, read) \in Status
  BY NamesTyped DEF scanOutcome
<1>2. PICK status \in Status : status = scanOutcome(c, result, read)
  BY <1>1
<1>3. PICK d : d = [c EXCEPT !.scan_id = 0, !.scan = "Idle",
                             !.scan_status = status,
                             !.generation = IF status = "Ok" THEN @ + 1
                                            ELSE @]
  OBVIOUS
<1>4. /\ OK(d) /\ KeptLife(c, d) /\ KeptLink(c, d) /\ KeptStation(c, d)
      /\ d.scan_id = 0 /\ d.scan = "Idle"
  <2>1. Shape(d)
    BY <1>3 DEF OK, Shape
  <2>2. Typed(d)
    BY <1>3, NamesTyped DEF OK, Shape, Typed, Fields
  <2> QED BY <1>3, <2>1, <2>2 DEF OK, Shape, Fields
<1>5. PICK e : e = scheduleTimeouts(scheduleWork(changed(d, "scan")))
  OBVIOUS
<1>6. scanFinished(c, result, read) = e
  BY <1>2, <1>3, <1>5 DEF scanFinished
<1>7. OK(e) /\ Kept(d, e)
  BY <1>4, <1>5, AnnounceKeeps, NamesTyped
<1> QED BY <1>4, <1>6, <1>7

(* What a completion makes of the station command. *)
StationSettled(c, d) ==
  /\ KeptLife(c, d) /\ KeptLink(c, d) /\ KeptScan(c, d)
  /\ d.station_id = 0 /\ d.transition = "None" /\ ~d.cancelling

(* stationFinished() retires the station operation and nothing else. *)
LEMMA StationFinishedSettles ==
  ASSUME NEW c, OK(c), NEW result \in Status,
         NEW failure \in ConnectionFailure, NEW written \in Status
  PROVE  LET d == stationFinished(c, result, failure, written)
         IN  OK(d) /\ StationSettled(c, d)
<1> DEFINE Settled(d) ==
      /\ OK(d) /\ KeptLife(c, d) /\ KeptLink(c, d) /\ KeptScan(c, d)
      /\ d.station_id = 0 /\ d.transition = "None" /\ ~d.cancelling
<1>1. PICK status \in Status :
        status = IF WritesEnabled(c, result) \/ WritesLast(c, result)
                 THEN written ELSE StationStatus(c, result)
  BY NamesTyped DEF StationStatus
<1>2. PICK r : r = [retireStation(c) EXCEPT
                      !.initialized = @ \/ WritesEnabled(c, result)]
  OBVIOUS
<1>3. Settled(r)
  <2>1. PICK q : q = retireStation(c)
    OBVIOUS
  <2>2. Settled(q)
    <3>1. Shape(q)
      BY <2>1 DEF OK, Shape, retireStation
    <3>2. Typed(q)
      BY <2>1, NamesTyped DEF OK, Shape, Typed, Fields, retireStation
    <3> QED BY <2>1, <3>1, <3>2 DEF OK, Shape, Fields, retireStation
  <2>3. PICK w \in BOOLEAN : w = WritesEnabled(c, result)
    BY DEF WritesEnabled
  <2>4. r = [q EXCEPT !.initialized = @ \/ w]
    BY <1>2, <2>1, <2>3
  <2>5. Shape(r)
    BY <2>2, <2>4 DEF OK, Shape
  <2>6. Typed(r)
    BY <2>2, <2>4 DEF OK, Shape, Typed, Fields
  <2> QED BY <2>2, <2>4, <2>5, <2>6 DEF OK, Shape, Fields
<1>4. PICK u : u = [r EXCEPT
                 !.status = status,
                 !.connected = IF /\ c.transition = "Connect"
                                  /\ StationStatus(c, result) = "Ok"
                               THEN c.profile ELSE @,
                 !.attempted = IF c.transition = "Connect" \/ status # "Ok"
                               THEN c.revision ELSE @]
  OBVIOUS
<1>5. Settled(u)
  <2>1. Shape(u)
    BY <1>3, <1>4 DEF OK, Shape
  <2>2. Typed(u)
    BY <1>3, <1>4 DEF OK, Shape, Typed, Fields
  <2> QED BY <1>3, <1>4, <2>1, <2>2 DEF OK, Shape, Fields
<1>6. PICK f \in ConnectionFailure :
        f = IF c.station_timed_out THEN c.timeout_failure ELSE failure
  BY DEF OK, Typed
<1>7. PICK w : w = connectionFailed(u, status, f)
  OBVIOUS
<1>8. Settled(w)
  <2>1. OK(w) /\ Kept(u, w)
    BY <1>5, <1>7, ConnectionFailedKeeps, ZenonT(30)
  <2> QED BY <1>5, <2>1
<1>9. PICK v : v \in {r, u, w}
          /\ stationFinished(c, result, failure, written)
               = scheduleTimeouts(scheduleWork(changed(v, "station")))
  BY <1>1, <1>2, <1>4, <1>6, <1>7 DEF stationFinished
<1>10. Settled(v)
  BY <1>3, <1>5, <1>8, <1>9
<1>11. PICK w2 : w2 = scheduleTimeouts(scheduleWork(changed(v, "station")))
  OBVIOUS
<1>12. OK(w2) /\ Kept(v, w2)
  BY <1>10, <1>11, AnnounceKeeps, NamesTyped
<1> QED BY <1>9, <1>10, <1>11, <1>12 DEF StationSettled

(* onEnabledChanged() takes over the reported enablement only. *)
LEMMA OnEnabledChangedMoves ==
  ASSUME NEW c, OK(c), NEW enabled \in BOOLEAN
  PROVE  LET d == onEnabledChanged(c, enabled)
         IN  /\ OK(d) /\ d.link = c.link
             /\ KeptLife(c, d) /\ KeptStation(c, d) /\ KeptScan(c, d)
             /\ c.running /\ ~c.faulted => d.enabled = enabled
<1>1. PICK d : d = [c EXCEPT !.enabled = enabled]
  OBVIOUS
<1>2. /\ OK(d) /\ d.link = c.link /\ d.enabled = enabled
      /\ KeptLife(c, d) /\ KeptStation(c, d) /\ KeptScan(c, d)
  <2>1. Shape(d)
    BY <1>1 DEF OK, Shape
  <2>2. Typed(d)
    BY <1>1, NamesTyped DEF OK, Shape, Typed, Fields
  <2> QED BY <1>1, <2>1, <2>2 DEF OK, Shape, Fields
<1>3. OK(changed(d, "station")) /\ Kept(d, changed(d, "station"))
  BY <1>2, ChangedKeeps, NamesTyped
<1> QED BY <1>1, <1>2, <1>3 DEF onEnabledChanged

(* onLinkChanged() takes over the reported link and no operation. *)
LEMMA OnLinkChangedMoves ==
  ASSUME NEW c, OK(c), NEW link \in [id : Nat, phase : LinkPhase],
         NEW reason \in Status, NEW failure \in ConnectionFailure
  PROVE  LET d == onLinkChanged(c, link, reason, failure)
         IN  /\ OK(d) /\ d.enabled = c.enabled
             /\ KeptLife(c, d) /\ KeptStation(c, d) /\ KeptScan(c, d)
             /\ d.link = IF /\ c.running /\ ~c.faulted
                            /\ \/ link.id = c.link.id
                               \/ /\ c.transition = "Connect"
                                  /\ link.id = c.station_id
                         THEN link ELSE c.link
<1> DEFINE Moved(d) ==
      /\ OK(d) /\ d.enabled = c.enabled /\ d.link = link
      /\ KeptLife(c, d) /\ KeptStation(c, d) /\ KeptScan(c, d)
<1>1. Moved(Established(c, link))
  <2>1. PICK up : up = [c EXCEPT
          !.link = link,
          !.armed = (@ \ {"address"}) \cup
                    {d \in {"stable"} : c.link.phase # "AddressReady"}]
    OBVIOUS
  <2>2. Moved(up)
    <3>1. Shape(up)
      BY <2>1 DEF OK, Shape
    <3>2. Typed(up)
      BY <2>1 DEF OK, Shape, Typed, Fields
    <3> QED BY <2>1, <3>1, <3>2 DEF OK, Shape, Fields
  <2>3. PICK q : q = cancelRetry(up)
    OBVIOUS
  <2>4. Moved(q)
    BY <2>2, <2>3, CancelRetryKeeps
  <2>5. PICK v : v = [q EXCEPT !.attempted = c.revision, !.status = "Ok"]
    OBVIOUS
  <2>6. Moved(v)
    <3>1. Shape(v)
      BY <2>4, <2>5 DEF OK, Shape
    <3>2. Typed(v)
      BY <2>4, <2>5, NamesTyped DEF OK, Shape, Typed, Fields
    <3> QED BY <2>4, <2>5, <3>1, <3>2 DEF OK, Shape, Fields
  <2>7. Established(c, link) \in {up, v}
    BY <2>1, <2>3, <2>5 DEF Established
  <2> QED BY <2>2, <2>6, <2>7
<1>2. Moved(Degraded(c, link))
  <2>1. Shape(Degraded(c, link))
    BY DEF OK, Shape, Degraded
  <2>2. Typed(Degraded(c, link))
    BY DEF OK, Shape, Typed, Fields, Degraded
  <2> QED BY <2>1, <2>2 DEF OK, Shape, Fields, Degraded
<1>3. Moved(Lost(c, link, reason, failure))
  <2>1. PICK down : down = [c EXCEPT !.link = link, !.armed = {},
                                     !.connected = NoNetwork]
    OBVIOUS
  <2>2. Moved(down)
    <3>1. Shape(down)
      BY <2>1 DEF OK, Shape
    <3>2. Typed(down)
      BY <2>1, NamesTyped DEF OK, Shape, Typed, Fields
    <3> QED BY <2>1, <3>1, <3>2 DEF OK, Shape, Fields
  <2>3. PICK st \in Status :
          st = IF reason = "Ok" THEN "ConnectionFailed" ELSE reason
    BY NamesTyped
  <2>4. Moved(connectionFailed(down, st, failure))
    BY <2>2, ConnectionFailedKeeps
  <2>5. Lost(c, link, reason, failure)
          \in {down, connectionFailed(down, st, failure)}
    BY <2>1, <2>3 DEF Lost
  <2> QED BY <2>2, <2>4, <2>5
<1>4. PICK d : d \in {Established(c, link), Degraded(c, link),
                      Lost(c, link, reason, failure)}
          /\ onLinkChanged(c, link, reason, failure)
               = IF /\ c.running /\ ~c.faulted
                    /\ \/ link.id = c.link.id
                       \/ c.transition = "Connect" /\ link.id = c.station_id
                 THEN scheduleTimeouts(changed(d, "station")) ELSE c
  BY DEF onLinkChanged
<1>5. Moved(d)
  BY <1>1, <1>2, <1>3, <1>4
<1>6. /\ OK(changed(d, "station")) /\ Kept(d, changed(d, "station"))
  BY <1>5, ChangedKeeps, NamesTyped
<1>7. /\ OK(scheduleTimeouts(changed(d, "station")))
      /\ Kept(d, scheduleTimeouts(changed(d, "station")))
  BY <1>6, ScheduleTimeoutsKeeps
<1> QED BY <1>4, <1>5, <1>7

HIDE DEF KeptLife, KeptLink, KeptStation, KeptScan, Kept

(* What submitting a station command under answer makes of c. *)
StationStarted(c, d, kind, answer) ==
  /\ d.running = c.running /\ d.closed = c.closed
  /\ ~d.faulted /\ d.next_id = c.next_id + 1
  /\ KeptLink(c, d) /\ KeptScan(c, d)
  /\ answer = "Ok" => /\ d.station_id = c.next_id
                      /\ d.transition = kind
                      /\ d.cancelling = c.cancelling
  /\ answer # "Ok" => /\ d.station_id = 0
                      /\ d.transition = "None" /\ ~d.cancelling

(* The same for a scan. *)
ScanStarted(c, d, answer) ==
  /\ d.running = c.running /\ d.closed = c.closed
  /\ ~d.faulted /\ d.next_id = c.next_id + 1
  /\ KeptLink(c, d) /\ KeptStation(c, d)
  /\ answer = "Ok" => d.scan_id = c.next_id /\ d.scan = "Running"
  /\ answer # "Ok" => d.scan_id = 0 /\ d.scan = "Idle"

(* startTransition() allocates one identity and starts one operation. *)
LEMMA StartTransitionSubmits ==
  ASSUME NEW c, OK(c), c.running, ~c.faulted, c.next_id # 0,
         NEW kind \in {"Enable", "Connect", "Disconnect"},
         NEW answer \in Status
  PROVE  LET d == startTransition(c, kind, answer)
         IN  OK(d) /\ StationStarted(c, d, kind, answer)
<1>1. PICK wants \in BOOLEAN : wants = Wants(c)
  BY DEF Wants
<1>2. PICK e : e = [c EXCEPT !.transition = kind,
                             !.transition_enabled =
                               IF kind = "Enable" THEN wants ELSE @,
                             !.station_id = c.next_id, !.next_id = @ + 1]
  OBVIOUS
<1>3. /\ OK(e) /\ e.running = c.running /\ e.closed = c.closed
      /\ ~e.faulted /\ e.next_id = c.next_id + 1 /\ KeptLink(c, e)
      /\ KeptScan(c, e) /\ e.station_id = c.next_id /\ e.transition = kind
      /\ e.cancelling = c.cancelling
  <2>1. Shape(e)
    BY <1>2 DEF OK, Shape
  <2>2. Typed(e)
    BY <1>2, NamesTyped DEF OK, Shape, Typed, Fields
  <2> QED BY <1>2, <2>1, <2>2 DEF OK, Shape, Fields,
          Kept, KeptLife, KeptLink, KeptStation,
          KeptScan
<1>4. PICK f : f = changed(e, "station")
  OBVIOUS
<1>5. OK(f) /\ Kept(e, f)
  BY <1>3, <1>4, ChangedKeeps, NamesTyped
<1>6. CASE answer = "Ok"
  <2>1. startTransition(c, kind, answer) = f
    BY <1>1, <1>2, <1>4, <1>6 DEF startTransition
  <2>2. StationStarted(c, f, kind, answer)
    BY <1>3, <1>5, <1>6
    DEF StationStarted, Kept, KeptLife, KeptLink, KeptStation, KeptScan
  <2> QED BY <1>5, <2>1, <2>2
<1>7. CASE answer # "Ok"
  <2>1. startTransition(c, kind, answer)
          = onOperationFinished(f, c.next_id, kind, answer, "None", "Ok")
    BY <1>1, <1>2, <1>4, <1>7 DEF startTransition
  <2>2. onOperationFinished(f, c.next_id, kind, answer, "None", "Ok")
          = stationFinished(f, answer, "None", "Ok")
    BY <1>3, <1>5
    DEF onOperationFinished, Kept, KeptLife, KeptStation, KeptScan
  <2>3. PICK w : w = stationFinished(f, answer, "None", "Ok")
    OBVIOUS
  <2>4. OK(w) /\ StationSettled(f, w)
    BY <2>3, <1>5, StationFinishedSettles, ConstantNames
  <2> QED BY <1>3, <1>5, <1>7, <2>1, <2>2, <2>3, <2>4, ZenonT(30)
    DEF StationStarted, StationSettled, Kept, KeptLife, KeptLink, KeptStation, KeptScan
<1> QED BY <1>6, <1>7

(* Starting a queued scan allocates one identity. *)
LEMMA StartScanningSubmits ==
  ASSUME NEW c, OK(c), c.running, ~c.faulted, c.next_id # 0,
         NEW answer \in Status
  PROVE  LET d == startScanning(c, answer)
         IN  OK(d) /\ ScanStarted(c, d, answer)
<1>1. PICK e : e = [c EXCEPT !.scan = "Running", !.scan_id = c.next_id,
                             !.next_id = @ + 1]
  OBVIOUS
<1>2. /\ OK(e) /\ e.running = c.running /\ e.closed = c.closed
      /\ ~e.faulted /\ e.next_id = c.next_id + 1 /\ KeptLink(c, e)
      /\ KeptStation(c, e) /\ e.scan_id = c.next_id /\ e.scan = "Running"
  <2>1. Shape(e)
    BY <1>1 DEF OK, Shape
  <2>2. Typed(e)
    BY <1>1, NamesTyped DEF OK, Shape, Typed, Fields
  <2> QED BY <1>1, <2>1, <2>2 DEF OK, Shape, Fields,
          Kept, KeptLife, KeptLink, KeptStation,
          KeptScan
<1>3. PICK f : f = changed(e, "scan")
  OBVIOUS
<1>4. OK(f) /\ Kept(e, f)
  BY <1>2, <1>3, ChangedKeeps, NamesTyped
<1>5. CASE answer = "Ok"
  BY <1>1, <1>2, <1>3, <1>4, <1>5
  DEF ScanStarted, startScanning, Kept, KeptLife, KeptLink, KeptStation, KeptScan
<1>6. CASE answer # "Ok"
  <2>1. startScanning(c, answer)
          = onOperationFinished(f, c.next_id, "Scan", answer, "None", "Ok")
    BY <1>1, <1>3, <1>6 DEF startScanning
  <2>2. onOperationFinished(f, c.next_id, "Scan", answer, "None", "Ok")
          = scanFinished(f, answer, "Ok")
    BY <1>2, <1>4
    DEF onOperationFinished, Kept, KeptLife, KeptStation, KeptScan
  <2>3. PICK w : w = scanFinished(f, answer, "Ok")
    OBVIOUS
  <2>4. /\ OK(w) /\ KeptLife(f, w) /\ KeptLink(f, w) /\ KeptStation(f, w)
        /\ w.scan_id = 0 /\ w.scan = "Idle"
    BY <2>3, <1>4, ScanFinishedSettles, ConstantNames
  <2> QED BY <1>2, <1>4, <1>6, <2>1, <2>2, <2>3, <2>4, ZenonT(30)
    DEF ScanStarted, Kept, KeptLife, KeptLink, KeptStation, KeptScan
<1> QED BY <1>5, <1>6

(* What advance() may do with the admission answer. *)
Advanced(c, d, answer) ==
  /\ d.running = c.running /\ d.closed = c.closed
  /\ ~d.faulted /\ KeptLink(c, d) /\ KeptScan(c, d)
  /\ \/ d.next_id = c.next_id /\ KeptStation(c, d)
     \/ \E kind \in {"Enable", "Connect", "Disconnect"} :
          /\ StationStarted(c, d, kind, answer)
          /\ kind = "Connect" => c.link.phase = "Idle" /\ c.enabled

(* advance() does nothing or starts exactly one transition. *)
LEMMA AdvanceSubmits ==
  ASSUME NEW c, OK(c), c.running, ~c.faulted, c.next_id # 0,
         NEW answer \in Status
  PROVE  LET d == advance(c, answer)
         IN  OK(d) /\ Advanced(c, d, answer)
<1>1. PICK e : e = [c EXCEPT !.active = c.revision,
                             !.station_timed_out = FALSE]
  OBVIOUS
<1>2. /\ OK(e) /\ Kept(c, e)
  <2>1. Shape(e)
    BY <1>1 DEF OK, Shape
  <2>2. Typed(e)
    BY <1>1, NamesTyped DEF OK, Shape, Typed, Fields
  <2> QED BY <1>1, <2>1, <2>2 DEF OK, Shape, Fields,
          Kept, KeptLife, KeptLink, KeptStation,
          KeptScan
<1>3. PICK f : f = [e EXCEPT !.attempted = c.revision]
  OBVIOUS
<1>4. /\ OK(f) /\ Kept(c, f)
  <2>1. Shape(f)
    BY <1>2, <1>3 DEF OK, Shape
  <2>2. Typed(f)
    BY <1>2, <1>3 DEF OK, Shape, Typed, Fields
  <2> QED BY <1>2, <1>3, <2>1, <2>2 DEF OK, Shape, Fields,
          Kept, KeptLife, KeptLink, KeptStation,
          KeptScan
<1>5. \/ advance(c, answer) = changed(f, "station")
      \/ \E kind \in {"Enable", "Connect", "Disconnect"} :
           /\ advance(c, answer) = startTransition(e, kind, answer)
           /\ kind = "Connect" => c.link.phase = "Idle" /\ c.enabled
  <2>1. CASE c.link.phase # "Idle"
    BY <1>1, <2>1 DEF advance
  <2>2. CASE c.link.phase = "Idle" /\ (~c.initialized \/ c.enabled # Wants(c))
    BY <1>1, <2>2 DEF advance
  <2>3. CASE /\ c.link.phase = "Idle" /\ c.initialized
             /\ c.enabled = Wants(c) /\ c.desired = "Connected"
    <3>1. advance(c, answer) = startTransition(e, "Connect", answer)
      BY <1>1, <2>3 DEF advance
    <3>2. c.enabled
      BY <2>3 DEF Wants
    <3> QED BY <2>3, <3>1, <3>2
  <2>4. CASE /\ c.link.phase = "Idle" /\ c.initialized
             /\ c.enabled = Wants(c) /\ c.desired # "Connected"
    BY <1>1, <1>3, <2>4 DEF advance
  <2> QED BY <2>1, <2>2, <2>3, <2>4 DEF OK, Typed
<1>6. CASE advance(c, answer) = changed(f, "station")
  <2>1. PICK w : w = changed(f, "station")
    OBVIOUS
  <2>2. OK(w) /\ Kept(f, w)
    BY <2>1, <1>4, ChangedKeeps, ConstantNames
  <2> QED BY <1>4, <1>6, <2>1, <2>2
    DEF Advanced, Kept, KeptLife, KeptLink, KeptStation, KeptScan
<1>7. CASE \E kind \in {"Enable", "Connect", "Disconnect"} :
             /\ advance(c, answer) = startTransition(e, kind, answer)
             /\ kind = "Connect" => c.link.phase = "Idle" /\ c.enabled
  <2>1. PICK kind \in {"Enable", "Connect", "Disconnect"} :
             /\ advance(c, answer) = startTransition(e, kind, answer)
             /\ kind = "Connect" => c.link.phase = "Idle" /\ c.enabled
    BY <1>7
  <2>2. PICK w : w = startTransition(e, kind, answer)
    OBVIOUS
  <2>3. OK(w) /\ StationStarted(e, w, kind, answer)
    <3>1. e.running /\ ~e.faulted /\ e.next_id # 0
      BY <1>2 DEF Kept, KeptLife
    <3> QED BY <1>2, <2>2, <3>1, StartTransitionSubmits
  <2>4. StationStarted(c, w, kind, answer)
    BY <1>2, <2>3
    DEF StationStarted, Kept, KeptLife, KeptLink, KeptStation, KeptScan
  <2> QED BY <2>1, <2>2, <2>3, <2>4 DEF Advanced, StationStarted
<1> QED BY <1>5, <1>6, <1>7

-----------------------------------------------------------------------------
(* The inductive invariant.  The identities of IdsNeverWrap and the        *)
(* agreement of BeliefMatchesRadio support each other: a completion is     *)
(* taken because the identities agree, and they keep agreeing because a    *)
(* fresh identity is below none in use.                                    *)

Identities(c, r) ==
  /\ c.next_id \in 1..MaxId
  /\ c.station_id < c.next_id /\ c.scan_id < c.next_id
  /\ r.station.id < c.next_id /\ r.scan.id < c.next_id
  /\ c.link.id < c.next_id /\ r.link.id < c.next_id

(* Identity 0 means that no command is outstanding. *)
Named(r) ==
  /\ r.station.id = 0 => r.station = NoCommand
  /\ r.station.id # 0 => r.station.kind # "None"
  /\ r.scan.id = 0 => r.scan = NoCommand

(* Before begin() everything is as constructed; a controller that is not   *)
(* running has nothing scheduled and no adapter that calls it.             *)
Lifecycle(c, r) ==
  /\ ~c.running => c.tasks = {} /\ ~r.attached
  /\ ~c.running /\ ~c.closed => c = NewController /\ r = NewRadio

FaultSettled(c) ==
  c.faulted => c.scan = "Idle" /\ c.scan_id = 0 /\ c.station_id = 0

Agreed(c, r) ==
  /\ r.station.id = c.station_id
  /\ r.station.kind = c.transition
  /\ r.station.cancel = c.cancelling
  /\ r.scan.id = c.scan_id
  /\ r.scan.cancel = (c.scan = "Cancelling")
  /\ c.scan_id # 0 <=> c.scan \in {"Running", "Cancelling"}
  /\ r.link = c.link
  /\ r.enabled = c.enabled

Coherent(c, r) ==
  /\ Identities(c, r) /\ Named(r) /\ Lifecycle(c, r) /\ FaultSettled(c)
  /\ c.running /\ ~c.faulted => Agreed(c, r)

Inv == TypeOK /\ Coherent(ctl, radio)

(* The invariant implies the two invariants that the runs check. *)
LEMMA ChecksAreParts == Inv => IdsNeverWrap /\ BeliefMatchesRadio
BY DEF Inv, Coherent, Identities, Agreed, IdsNeverWrap, BeliefMatchesRadio,
       Running

(* What an API call or a scheduler task that submits nothing may do: a     *)
(* scan at most becomes queued or leaves the queue.                        *)
Quiet(c, d) ==
  /\ KeptLife(c, d) /\ KeptLink(c, d) /\ KeptStation(c, d)
  /\ d.scan_id = c.scan_id
  /\ \/ d.scan = c.scan
     \/ {c.scan, d.scan} = {"Idle", "Queued"} /\ ~c.faulted

(* A step that leaves the operations alone keeps Coherent. *)
LEMMA QuietCoherent ==
  ASSUME NEW c, NEW d, NEW r, Coherent(c, r), c.running, Quiet(c, d)
  PROVE  Coherent(d, r)
<1>1. Identities(d, r)
  BY DEF Coherent, Identities, Quiet, KeptLife, KeptLink, KeptStation
<1>2. Named(r) /\ Lifecycle(d, r)
  BY DEF Coherent, Lifecycle, Quiet, KeptLife
<1>3. FaultSettled(d)
  BY DEF Coherent, FaultSettled, Quiet, KeptLife, KeptStation
<1>4. ASSUME ~c.faulted
      PROVE  Agreed(d, r)
  <2>1. Agreed(c, r)
    BY <1>4 DEF Coherent
  <2> QED BY <2>1 DEF Agreed, Quiet, KeptLink, KeptStation
<1> QED BY <1>1, <1>2, <1>3, <1>4 DEF Coherent, Quiet, KeptLife

(* What a step may do that cancels outstanding commands. *)
Cancels(c, d) ==
  /\ KeptLife(c, d) /\ KeptLink(c, d)
  /\ d.transition = c.transition /\ d.station_id = c.station_id
  /\ \/ d.cancelling = c.cancelling
     \/ d.cancelling /\ c.transition = "Connect"
  /\ d.scan_id = c.scan_id
  /\ \/ d.scan = c.scan
     \/ c.scan = "Queued" /\ d.scan = "Idle"
     \/ c.scan = "Running" /\ d.scan = "Cancelling"

(* The step that gives up, having cancelled at most one command. *)
GivesUp(c, d) ==
  /\ d.running = c.running /\ d.closed = c.closed /\ d.next_id = c.next_id
  /\ d.faulted /\ KeptLink(c, d)
  /\ d.station_id = 0 /\ d.scan_id = 0 /\ d.scan = "Idle"
  /\ \/ d.cancelling = c.cancelling
     \/ d.cancelling /\ c.transition = "Connect"

(* The adapter's side stays well typed. *)
LEMMA SubmittedTyped ==
  ASSUME NEW c, NEW d, NEW r \in Radios, OK(d)
  PROVE  LET q == Submitted(r, c, d)
         IN  /\ q \in Radios
             /\ q.station = StationCommand(r.station, c, d)
             /\ q.scan = ScanCommand(r.scan, c, d)
             /\ q.attached = r.attached /\ q.dead = r.dead
             /\ q.link = r.link /\ q.enabled = r.enabled
<1>1. r.station \in Commands /\ r.scan \in Commands
  BY DEF Radios
<1>2. StationCommand(r.station, c, d) \in Commands
  BY <1>1 DEF StationCommand, Commands, OK, Typed
<1>3. ScanCommand(r.scan, c, d) \in Commands
  BY <1>1 DEF ScanCommand, Commands, OK, Typed
<1> QED BY <1>2, <1>3 DEF Submitted, Radios

(* A cancellation reaches the adapter's side of the same command. *)
LEMMA SubmittedCancels ==
  ASSUME NEW c, NEW d, NEW r \in Radios, OK(c), OK(d), Coherent(c, r),
         c.running, ~c.faulted, Cancels(c, d)
  PROVE  Coherent(d, Submitted(r, c, d))
<1>1. PICK q : q = Submitted(r, c, d)
  OBVIOUS
<1>2. PICK st : st = StationCommand(r.station, c, d)
  OBVIOUS
<1>3. PICK sc : sc = ScanCommand(r.scan, c, d)
  OBVIOUS
<1>4. /\ q \in Radios /\ q.station = st /\ q.scan = sc
      /\ q.attached = r.attached /\ q.link = r.link /\ q.enabled = r.enabled
  BY <1>1, <1>2, <1>3, SubmittedTyped
<1>5. r.station \in Commands /\ r.scan \in Commands
  BY DEF Radios
<1>6. /\ st.id = r.station.id /\ st.kind = r.station.kind
      /\ st.enabled = r.station.enabled
      /\ st.cancel = (r.station.cancel \/ (d.cancelling /\ ~c.cancelling))
      /\ st \in Commands
  BY <1>2, <1>5 DEF StationCommand, Cancels, Commands
<1>7. /\ sc.id = r.scan.id /\ sc.kind = r.scan.kind
      /\ sc.enabled = r.scan.enabled
      /\ sc.cancel = (r.scan.cancel \/ (/\ d.scan = "Cancelling"
                                       /\ c.scan # "Cancelling"))
      /\ sc \in Commands
  BY <1>3, <1>5 DEF ScanCommand, Cancels, Commands
<1>9. Agreed(c, r)
  BY DEF Coherent
<1>10. Agreed(d, q)
  <2>1. st.cancel = d.cancelling
    BY <1>5, <1>6, <1>9 DEF Agreed, Cancels, OK, Typed, Commands
  <2>2. sc.cancel = (d.scan = "Cancelling")
    BY <1>5, <1>7, <1>9 DEF Agreed, Cancels, Commands
  <2>3. d.scan_id # 0 <=> d.scan \in {"Running", "Cancelling"}
    BY <1>9 DEF Agreed, Cancels
  <2> QED BY <1>4, <1>6, <1>7, <1>9, <2>1, <2>2, <2>3
    DEF Agreed, Cancels, KeptLink
<1>11. Named(q)
  <2>1. r.station.id = 0 => ~(d.cancelling /\ ~c.cancelling)
    BY <1>9 DEF Coherent, Named, NoCommand, Agreed, Cancels
  <2>2. r.scan.id = 0 => ~(d.scan = "Cancelling" /\ c.scan # "Cancelling")
    BY <1>9 DEF Agreed, Cancels
  <2> QED BY <1>4, <1>5, <1>6, <1>7, <2>1, <2>2
    DEF Coherent, Named, NoCommand, Commands
<1>12. Identities(d, q)
  BY <1>4, <1>6, <1>7 DEF Coherent, Identities, Cancels, KeptLife, KeptLink
<1>13. Lifecycle(d, q) /\ FaultSettled(d)
  BY DEF Lifecycle, FaultSettled, Cancels, KeptLife
<1> QED BY <1>1, <1>10, <1>11, <1>12, <1>13 DEF Coherent

(* Giving up an operation submits nothing. *)
LEMMA SubmittedGivesUp ==
  ASSUME NEW c, NEW d, NEW r \in Radios, OK(c), OK(d), Coherent(c, r),
         c.running, ~c.faulted, GivesUp(c, d)
  PROVE  Coherent(d, Submitted(r, c, d))
<1>1. PICK q : q = Submitted(r, c, d)
  OBVIOUS
<1>2. PICK st : st = StationCommand(r.station, c, d)
  OBVIOUS
<1>3. PICK sc : sc = ScanCommand(r.scan, c, d)
  OBVIOUS
<1>4. /\ q \in Radios /\ q.station = st /\ q.scan = sc
      /\ q.attached = r.attached /\ q.link = r.link /\ q.enabled = r.enabled
  BY <1>1, <1>2, <1>3, SubmittedTyped
<1>5. r.station \in Commands /\ r.scan \in Commands
  BY DEF Radios
<1>6. /\ st.id = r.station.id /\ st.kind = r.station.kind
      /\ st.enabled = r.station.enabled
      /\ st.cancel = (r.station.cancel \/ (d.cancelling /\ ~c.cancelling))
      /\ st \in Commands
  BY <1>2, <1>5 DEF StationCommand, GivesUp, Commands
<1>7. sc = r.scan
  BY <1>3, <1>5 DEF ScanCommand, GivesUp, Commands
<1>8. Agreed(c, r)
  BY DEF Coherent
<1>10. Named(q)
  <2>1. r.station.id = 0 => ~(d.cancelling /\ ~c.cancelling)
    BY <1>8 DEF Coherent, Named, NoCommand, Agreed, GivesUp
  <2> QED BY <1>4, <1>5, <1>6, <1>7, <2>1
    DEF Coherent, Named, NoCommand, Commands
<1>11. Identities(d, q)
  BY <1>4, <1>6, <1>7 DEF Coherent, Identities, GivesUp, KeptLink
<1>12. Lifecycle(d, q) /\ FaultSettled(d)
  BY DEF Lifecycle, FaultSettled, GivesUp
<1> QED BY <1>1, <1>10, <1>11, <1>12 DEF Coherent, GivesUp

(* A quiet step of the controller submits nothing. *)
LEMMA SubmittedQuiet ==
  ASSUME NEW c, NEW u, NEW d, NEW r, Quiet(c, u)
  PROVE  Submitted(r, u, d) = Submitted(r, c, d)
<1>1. StationCommand(r.station, u, d) = StationCommand(r.station, c, d)
  BY DEF StationCommand, Quiet, KeptStation
<1>2. ScanCommand(r.scan, u, d) = ScanCommand(r.scan, c, d)
  <2>1. u.scan = "Cancelling" <=> c.scan = "Cancelling"
    BY DEF Quiet
  <2>2. u.scan_id = c.scan_id
    BY DEF Quiet
  <2> QED BY <2>1, <2>2 DEF ScanCommand
<1> QED BY <1>1, <1>2 DEF Submitted

(* A started transition is the command the adapter then has. *)
LEMMA SubmittedStation ==
  ASSUME NEW c, NEW d, NEW r \in Radios, OK(c), OK(d), Coherent(c, r),
         c.running, ~c.faulted, c.next_id # MaxId, c.transition = "None",
         NEW kind \in {"Enable", "Connect", "Disconnect"}, NEW answer,
         StationStarted(c, d, kind, answer)
  PROVE  Coherent(d, Submitted(r, c, d))
<1>1. PICK q : q = Submitted(r, c, d)
  OBVIOUS
<1>2. PICK st : st = StationCommand(r.station, c, d)
  OBVIOUS
<1>3. PICK sc : sc = ScanCommand(r.scan, c, d)
  OBVIOUS
<1>4. /\ q \in Radios /\ q.station = st /\ q.scan = sc
      /\ q.attached = r.attached /\ q.link = r.link /\ q.enabled = r.enabled
  BY <1>1, <1>2, <1>3, SubmittedTyped
<1>5. r.station \in Commands /\ r.scan \in Commands
  BY DEF Radios
<1>6. Agreed(c, r)
  BY DEF Coherent
<1>7. /\ r.station = NoCommand /\ ~c.cancelling /\ c.station_id = 0
  BY <1>6 DEF Coherent, Named, NoCommand, Agreed
<1>8. sc = r.scan
  BY <1>3, <1>5 DEF ScanCommand, StationStarted, KeptScan, Commands
<1>9. c.next_id \in 1..(MaxId - 1) /\ d.next_id \in 1..MaxId
  BY ConstantsAssumption DEF Coherent, Identities, StationStarted
<1>10. CASE answer = "Ok"
  <2>1. st = [id |-> d.station_id, kind |-> d.transition,
              enabled |-> d.transition_enabled, cancel |-> FALSE]
    BY <1>2, <1>7, <1>9, <1>10 DEF StationCommand, StationStarted
  <2>2. /\ d.station_id = c.next_id /\ d.transition = kind /\ ~d.cancelling
    BY <1>7, <1>10 DEF StationStarted
  <2>3. Agreed(d, q)
    <3>1. st.id = d.station_id /\ st.kind = d.transition /\ ~st.cancel
      BY <2>1, <2>2
    <3>2. /\ q.station.id = d.station_id /\ q.station.kind = d.transition
          /\ q.station.cancel = d.cancelling
      BY <1>4, <2>2, <3>1 DEF OK, Typed, Radios, Commands
    <3> QED BY <1>4, <1>6, <1>8, <3>2
      DEF Agreed, StationStarted, KeptLink, KeptScan
  <2>4. Named(q)
    BY <1>4, <1>8, <1>9, <2>1, <2>2 DEF Coherent, Named
  <2>5. Identities(d, q)
    BY <1>4, <1>8, <1>9, <2>1, <2>2
    DEF Coherent, Identities, StationStarted, KeptLink, KeptScan, OK, Typed,
        Radios, Commands
  <2>6. Lifecycle(d, q) /\ FaultSettled(d)
    BY DEF Lifecycle, FaultSettled, StationStarted
  <2> QED BY <1>1, <2>3, <2>4, <2>5, <2>6 DEF Coherent
<1>11. CASE answer # "Ok"
  <2>2. /\ d.station_id = 0 /\ d.transition = "None" /\ ~d.cancelling
    BY <1>11 DEF StationStarted
  <2>1. st = NoCommand
    <3>1. st = r.station
      BY <1>2, <1>5, <2>2 DEF StationCommand, Commands
    <3> QED BY <1>7, <3>1
  <2>3. Agreed(d, q)
    <3>1. st.id = d.station_id /\ st.kind = d.transition /\ ~st.cancel
      BY <2>1, <2>2 DEF NoCommand
    <3>2. /\ q.station.id = d.station_id /\ q.station.kind = d.transition
          /\ q.station.cancel = d.cancelling
      BY <1>4, <2>2, <3>1 DEF OK, Typed, Radios, Commands
    <3> QED BY <1>4, <1>6, <1>8, <3>2
      DEF Agreed, StationStarted, KeptLink, KeptScan
  <2>4. Named(q)
    BY <1>4, <1>8, <2>1 DEF Coherent, Named, NoCommand
  <2>5. Identities(d, q)
    BY <1>4, <1>8, <1>9, <2>1, <2>2
    DEF Coherent, Identities, StationStarted, KeptLink, KeptScan, NoCommand,
        OK, Typed, Radios, Commands
  <2>6. Lifecycle(d, q) /\ FaultSettled(d)
    BY DEF Lifecycle, FaultSettled, StationStarted
  <2> QED BY <1>1, <2>3, <2>4, <2>5, <2>6 DEF Coherent
<1> QED BY <1>10, <1>11

(* A started scan is the command the adapter then has. *)
LEMMA SubmittedScan ==
  ASSUME NEW c, NEW d, NEW r \in Radios, OK(c), OK(d), Coherent(c, r),
         c.running, ~c.faulted, c.next_id # MaxId, c.scan = "Queued",
         NEW answer, ScanStarted(c, d, answer)
  PROVE  Coherent(d, Submitted(r, c, d))
<1>1. PICK q : q = Submitted(r, c, d)
  OBVIOUS
<1>2. PICK st : st = StationCommand(r.station, c, d)
  OBVIOUS
<1>3. PICK sc : sc = ScanCommand(r.scan, c, d)
  OBVIOUS
<1>4. /\ q \in Radios /\ q.station = st /\ q.scan = sc
      /\ q.attached = r.attached /\ q.link = r.link /\ q.enabled = r.enabled
  BY <1>1, <1>2, <1>3, SubmittedTyped
<1>5. r.station \in Commands /\ r.scan \in Commands
  BY DEF Radios
<1>6. Agreed(c, r)
  BY DEF Coherent
<1>7. r.scan = NoCommand /\ c.scan_id = 0
  BY <1>6 DEF Coherent, Named, Agreed
<1>8. st = r.station
  BY <1>2, <1>5 DEF StationCommand, ScanStarted, KeptStation, Commands
<1>9. c.next_id \in 1..(MaxId - 1) /\ d.next_id \in 1..MaxId
  BY ConstantsAssumption DEF Coherent, Identities, ScanStarted
<1>10. CASE answer = "Ok"
  <2>1. sc = [id |-> d.scan_id, kind |-> "Scan", enabled |-> FALSE,
              cancel |-> FALSE]
    BY <1>3, <1>7, <1>9, <1>10 DEF ScanCommand, ScanStarted
  <2>2. d.scan_id = c.next_id /\ d.scan = "Running"
    BY <1>10 DEF ScanStarted
  <2>3. Agreed(d, q)
    <3>1. sc.id = d.scan_id /\ ~sc.cancel
      BY <2>1, <2>2
    <3>2. q.scan.id = d.scan_id /\ q.scan.cancel = (d.scan = "Cancelling")
      BY <1>4, <2>1, <2>2, <3>1 DEF Radios, Commands
    <3>3. d.scan_id # 0 <=> d.scan \in {"Running", "Cancelling"}
      BY <1>9, <2>1, <2>2
    <3> QED BY <1>4, <1>6, <1>8, <3>2, <3>3
      DEF Agreed, ScanStarted, KeptLink, KeptStation
  <2>4. Named(q)
    BY <1>4, <1>8, <1>9, <2>1, <2>2 DEF Coherent, Named
  <2>5. Identities(d, q)
    BY <1>4, <1>8, <1>9, <2>1, <2>2
    DEF Coherent, Identities, ScanStarted, KeptLink, KeptStation, OK, Typed,
        Radios, Commands
  <2>6. Lifecycle(d, q) /\ FaultSettled(d)
    BY DEF Lifecycle, FaultSettled, ScanStarted
  <2> QED BY <1>1, <2>3, <2>4, <2>5, <2>6 DEF Coherent
<1>11. CASE answer # "Ok"
  <2>1. d.scan_id = 0 /\ d.scan = "Idle"
    BY <1>11 DEF ScanStarted
  <2>2. sc = NoCommand
    <3>1. sc = r.scan
      BY <1>3, <1>5, <2>1 DEF ScanCommand, Commands
    <3> QED BY <1>7, <3>1
  <2>3. Agreed(d, q)
    <3>1. sc.id = d.scan_id /\ ~sc.cancel
      BY <2>1, <2>2 DEF NoCommand
    <3>2. q.scan.id = d.scan_id /\ q.scan.cancel = (d.scan = "Cancelling")
      BY <1>4, <2>1, <2>2, <3>1 DEF Radios, Commands
    <3>3. d.scan_id # 0 <=> d.scan \in {"Running", "Cancelling"}
      BY <1>9, <2>1, <2>2
    <3> QED BY <1>4, <1>6, <1>8, <3>2, <3>3
      DEF Agreed, ScanStarted, KeptLink, KeptStation
  <2>4. Named(q)
    BY <1>4, <1>8, <2>2 DEF Coherent, Named, NoCommand
  <2>5. Identities(d, q)
    BY <1>4, <1>8, <1>9, <2>1, <2>2
    DEF Coherent, Identities, ScanStarted, KeptLink, KeptStation, NoCommand,
        OK, Typed, Radios, Commands
  <2>6. Lifecycle(d, q) /\ FaultSettled(d)
    BY DEF Lifecycle, FaultSettled, ScanStarted
  <2> QED BY <1>1, <2>3, <2>4, <2>5, <2>6 DEF Coherent
<1> QED BY <1>10, <1>11

-----------------------------------------------------------------------------
(* The scheduler tasks in terms of these steps. *)

(* fault() as a step of the controller against the adapter. *)
LEMMA FaultGivesUp ==
  ASSUME NEW c, OK(c), NEW status \in Status
  PROVE  /\ OK(fault(c, status)) /\ GivesUp(c, fault(c, status))
         /\ fault(c, status).cancelling = c.cancelling
<1>1. PICK d : d = fault(c, status)
  OBVIOUS
<1>2. /\ OK(d) /\ d.faulted /\ d.running = c.running
      /\ d.closed = c.closed /\ d.next_id = c.next_id
      /\ d.cancelling = c.cancelling /\ KeptLink(c, d)
      /\ d.station_id = 0 /\ d.transition = "None"
      /\ d.scan_id = 0 /\ d.scan = "Idle"
  BY <1>1, FaultSettles
<1> QED BY <1>1, <1>2 DEF GivesUp

(* Methods that keep what is in flight compose. *)
LEMMA KeptTransitive ==
  ASSUME NEW c, NEW k, NEW d, Kept(c, k)
  PROVE  /\ Kept(k, d) => Kept(c, d)
         /\ Quiet(k, d) => Quiet(c, d)
         /\ Cancels(k, d) => Cancels(c, d)
         /\ GivesUp(k, d) => GivesUp(c, d)
<1> USE DEF Kept, KeptLife, KeptLink, KeptStation, KeptScan
<1>1. Kept(k, d) => Kept(c, d)
  OBVIOUS
<1>2. Quiet(k, d) => Quiet(c, d)
  BY DEF Quiet
<1>3. Cancels(k, d) => Cancels(c, d)
  BY DEF Cancels
<1>4. GivesUp(k, d) => GivesUp(c, d)
  BY DEF GivesUp
<1> QED BY <1>1, <1>2, <1>3, <1>4

(* Keeping what is in flight is a quiet step. *)
LEMMA KeptIsQuiet ==
  ASSUME NEW c, NEW d, Kept(c, d)
  PROVE  Quiet(c, d) /\ Cancels(c, d)
<1>1. Quiet(c, d)
  BY DEF Kept, KeptLife, KeptLink, KeptStation, KeptScan, Quiet
<1>2. Cancels(c, d)
  BY DEF Kept, KeptLife, KeptLink, KeptStation, KeptScan, Cancels
<1> QED BY <1>1, <1>2

(* An expired station deadline cancels, settles or faults. *)
LEMMA StationExpiredMoves ==
  ASSUME NEW c, OK(c), NEW answer \in Status
  PROVE  LET d == stationExpired(c, answer)
         IN  OK(d) /\ (GivesUp(c, d) \/ (Cancels(c, d) /\ KeptScan(c, d)))
<1>1. PICK t : t = [c EXCEPT !.station_timed_out = TRUE,
                             !.timeout_failure =
                               IF c.link.phase = "Associated"
                               THEN "AddressTimeout" ELSE "ConnectionTimeout"]
  OBVIOUS
<1>2. OK(t) /\ Kept(c, t)
  <2>1. Shape(t)
    BY <1>1 DEF OK, Shape
  <2>2. Typed(t)
    BY <1>1, NamesTyped DEF OK, Shape, Typed, Fields
  <2> QED BY <1>1, <2>1, <2>2
    DEF OK, Shape, Fields, Kept, KeptLife, KeptLink, KeptStation, KeptScan
<1>3. CASE c.transition # "Connect" \/ c.cancelling
  <2>1. stationExpired(c, answer) = fault(c, "Timeout")
    BY <1>3 DEF stationExpired
  <2> QED BY <2>1, FaultGivesUp, ConstantNames
<1>4. CASE c.transition = "Connect" /\ ~c.cancelling /\ answer = "Ok"
  <2>1. PICK u : u = [t EXCEPT !.cancelling = TRUE]
    OBVIOUS
  <2>2. OK(u) /\ Cancels(c, u) /\ KeptScan(c, u)
    <3>1. Shape(u)
      BY <1>2, <2>1 DEF OK, Shape
    <3>2. Typed(u)
      BY <1>2, <2>1 DEF OK, Shape, Typed, Fields
    <3>3. Cancels(t, u) /\ KeptScan(t, u)
      BY <1>2, <1>4, <2>1
      DEF OK, Shape, Fields, Cancels, Kept, KeptLife, KeptLink, KeptStation,
          KeptScan
    <3> QED BY <1>2, <3>1, <3>2, <3>3, KeptTransitive DEF OK, Kept, KeptScan
  <2>3. stationExpired(c, answer) = changed(u, "station")
    BY <1>1, <1>4, <2>1 DEF stationExpired
  <2>4. OK(changed(u, "station")) /\ Kept(u, changed(u, "station"))
    BY <2>2, ChangedKeeps, ConstantNames
  <2> QED BY <2>2, <2>3, <2>4
    DEF Cancels, Kept, KeptLife, KeptLink, KeptStation, KeptScan
<1>5. CASE c.transition = "Connect" /\ ~c.cancelling /\ answer # "Ok"
  <2>1. stationExpired(c, answer) = fault(t, "Timeout")
    BY <1>1, <1>5 DEF stationExpired
  <2>2. OK(fault(t, "Timeout")) /\ GivesUp(t, fault(t, "Timeout"))
    BY <1>2, FaultGivesUp, ConstantNames
  <2> QED BY <1>2, <2>1, <2>2, KeptTransitive
<1> QED BY <1>3, <1>4, <1>5

(* An expired scan deadline cancels the scan or faults. *)
LEMMA ScanExpiredMoves ==
  ASSUME NEW c, OK(c), NEW answer \in Status
  PROVE  LET d == scanExpired(c, answer)
         IN  /\ OK(d) /\ d.cancelling = c.cancelling
             /\ GivesUp(c, d) \/ Cancels(c, d)
<1>1. PICK t : t = [c EXCEPT !.scan_timed_out = TRUE]
  OBVIOUS
<1>2. OK(t) /\ Kept(c, t)
  <2>1. Shape(t)
    BY <1>1 DEF OK, Shape
  <2>2. Typed(t)
    BY <1>1 DEF OK, Shape, Typed, Fields
  <2> QED BY <1>1, <2>1, <2>2
    DEF OK, Shape, Fields, Kept, KeptLife, KeptLink, KeptStation, KeptScan
<1>3. t.cancelling = c.cancelling /\ t.scan = c.scan
  BY <1>2 DEF Kept, KeptStation, KeptScan
<1>4. CASE c.scan = "Cancelling"
  <2>1. scanExpired(c, answer) = fault(c, "Timeout")
    BY <1>4 DEF scanExpired
  <2> QED BY <2>1, FaultGivesUp, ConstantNames
<1>5. CASE c.scan # "Cancelling" /\ cancelScanStatus(c, answer) = "Ok"
  <2>1. PICK w : w = cancelScan(t, answer)
    OBVIOUS
  <2>2. /\ OK(w) /\ KeptLife(t, w) /\ KeptLink(t, w) /\ KeptStation(t, w)
        /\ w.scan_id = t.scan_id
        /\ w.scan = CASE t.scan = "Queued" -> "Idle"
                      [] t.scan = "Running" /\ answer = "Ok" -> "Cancelling"
                      [] OTHER -> t.scan
    BY <1>2, <2>1, CancelScanMoves
  <2>3. Cancels(t, w)
    BY <2>2 DEF Cancels, KeptStation
  <2>4. Cancels(c, w)
    BY <1>2, <2>3, KeptTransitive
  <2>5. scanExpired(c, answer) = w
    BY <1>1, <1>5, <2>1 DEF scanExpired
  <2> QED BY <1>3, <2>2, <2>4, <2>5 DEF KeptStation
<1>6. CASE c.scan # "Cancelling" /\ cancelScanStatus(c, answer) # "Ok"
  <2>1. scanExpired(c, answer) = fault(t, "Timeout")
    BY <1>1, <1>6 DEF scanExpired
  <2>2. /\ OK(fault(t, "Timeout")) /\ GivesUp(t, fault(t, "Timeout"))
        /\ fault(t, "Timeout").cancelling = t.cancelling
    BY <1>2, FaultGivesUp, ConstantNames
  <2> QED BY <1>2, <1>3, <2>1, <2>2, KeptTransitive
<1> QED BY <1>4, <1>5, <1>6

(* checkTimeouts() cancels and gives up, and submits no operation. *)
LEMMA CheckTimeoutsMoves ==
  ASSUME NEW c, OK(c), c.running, ~c.faulted, NEW expired,
         NEW answer \in Status
  PROVE  LET d == checkTimeouts(c, expired, answer)
         IN  OK(d) /\ (GivesUp(c, d) \/ Cancels(c, d))
<1>1. PICK b : b = [c EXCEPT !.armed = @ \ {"stable"}, !.pending = FALSE,
                             !.failure = "None", !.level = 0]
  OBVIOUS
<1>2. OK(b) /\ Kept(c, b)
  <2>1. Shape(b)
    BY <1>1 DEF OK, Shape
  <2>2. Typed(b)
    BY <1>1, NamesTyped DEF OK, Shape, Typed, Fields
  <2> QED BY <1>1, <2>1, <2>2
    DEF OK, Shape, Fields, Kept, KeptLife, KeptLink, KeptStation, KeptScan
<1>3. PICK s : s = IF "stable" \in expired THEN changed(b, "station") ELSE c
  OBVIOUS
<1>4. OK(s) /\ Kept(c, s)
  <2>1. OK(changed(b, "station")) /\ Kept(b, changed(b, "station"))
    BY <1>2, ChangedKeeps, ConstantNames
  <2>2. Kept(c, changed(b, "station"))
    BY <1>2, <2>1, KeptTransitive
  <2>3. Kept(c, c)
    BY DEF Kept, KeptLife, KeptLink, KeptStation, KeptScan
  <2> QED BY <1>3, <2>1, <2>2, <2>3
<1>5. PICK f : f = connectionFailed(s, "Timeout", "AddressTimeout")
  OBVIOUS
<1>6. OK(f) /\ Kept(s, f)
  BY <1>4, <1>5, ConnectionFailedKeeps, ConstantNames
<1>7. PICK a : a = IF "address" \in expired THEN changed(f, "station") ELSE s
  OBVIOUS
<1>8. OK(a) /\ Kept(c, a)
  <2>1. OK(changed(f, "station")) /\ Kept(f, changed(f, "station"))
    BY <1>6, ChangedKeeps, ConstantNames
  <2>2. Kept(c, f)
    BY <1>4, <1>6, KeptTransitive
  <2>3. Kept(c, changed(f, "station"))
    BY <2>1, <2>2, KeptTransitive
  <2> QED BY <1>4, <1>7, <2>1, <2>3
<1>9. PICK t : t = IF "station" \in expired THEN stationExpired(a, answer)
                                            ELSE a
  OBVIOUS
<1>10. OK(t) /\ (GivesUp(c, t) \/ (Cancels(c, t) /\ KeptScan(c, t)))
  <2>1. CASE "station" \in expired
    <3>1. OK(t) /\ (GivesUp(a, t) \/ (Cancels(a, t) /\ KeptScan(a, t)))
      BY <1>8, <1>9, <2>1, StationExpiredMoves
    <3>2. KeptScan(a, t) => KeptScan(c, t)
      BY <1>8 DEF Kept, KeptScan
    <3> QED BY <1>8, <3>1, <3>2, KeptTransitive
  <2>2. CASE "station" \notin expired
    BY <1>8, <1>9, <2>2, KeptIsQuiet DEF Kept
  <2> QED BY <2>1, <2>2
<1>11. PICK w : w = IF "scan" \in expired /\ ~t.faulted
                    THEN scanExpired(t, answer) ELSE t
  OBVIOUS
<1>12. OK(w) /\ (GivesUp(c, w) \/ Cancels(c, w))
  <2>1. CASE "scan" \in expired /\ ~t.faulted
    <3>1. Cancels(c, t) /\ KeptScan(c, t)
      BY <1>10, <2>1 DEF GivesUp
    <3>2. /\ OK(w) /\ w.cancelling = t.cancelling
          /\ GivesUp(t, w) \/ Cancels(t, w)
      BY <1>10, <1>11, <2>1, ScanExpiredMoves
    <3>3. GivesUp(t, w) => GivesUp(c, w)
      BY <3>1, <3>2 DEF GivesUp, Cancels, KeptLife, KeptLink
    <3>4. Cancels(t, w) => Cancels(c, w)
      BY <3>1, <3>2 DEF Cancels, KeptLife, KeptLink, KeptScan
    <3> QED BY <3>2, <3>3, <3>4
  <2>2. CASE ~("scan" \in expired /\ ~t.faulted)
    BY <1>10, <1>11, <2>2
  <2> QED BY <2>1, <2>2
<1>13. checkTimeouts(c, expired, answer)
         = IF w.faulted THEN w ELSE scheduleTimeouts(w)
  BY <1>1, <1>3, <1>5, <1>7, <1>9, <1>11 DEF checkTimeouts
<1>14. OK(scheduleTimeouts(w)) /\ Kept(w, scheduleTimeouts(w))
  BY <1>12, ScheduleTimeoutsKeeps
<1>15. CASE w.faulted
  BY <1>12, <1>13, <1>15
<1>16. CASE ~w.faulted
  <2>1. Cancels(c, w)
    BY <1>12, <1>16 DEF GivesUp
  <2>2. Cancels(c, scheduleTimeouts(w))
    BY <1>14, <2>1
    DEF Cancels, Kept, KeptLife, KeptLink, KeptStation, KeptScan
  <2> QED BY <1>13, <1>14, <1>16, <2>2
<1> QED BY <1>15, <1>16

(* Restoring the last profile leaves native work alone. *)
LEMMA RestoreProfileKeeps ==
  ASSUME NEW c, OK(c), NEW last \in Ssid, NEW status \in Status,
         NEW automatic \in BOOLEAN
  PROVE  LET d == restoreProfile(c, last, status, automatic)
         IN  OK(d) /\ Kept(c, d)
<1>1. PICK d : d = [c EXCEPT !.active = c.revision,
                             !.station_timed_out = FALSE, !.restore = FALSE]
  OBVIOUS
<1>2. OK(d) /\ Kept(c, d)
  <2>1. Shape(d)
    BY <1>1 DEF OK, Shape
  <2>2. Typed(d)
    BY <1>1 DEF OK, Shape, Typed, Fields
  <2> QED BY <1>1, <2>1, <2>2
    DEF OK, Shape, Fields, Kept, KeptLife, KeptLink, KeptStation, KeptScan
<1>3. PICK outcome \in Status :
        outcome = IF status = "Ok" /\ automatic THEN requestStatus(d)
                                                ELSE status
  BY NamesTyped DEF requestStatus, admission
<1>4. PICK e : e = [d EXCEPT !.status = outcome]
  OBVIOUS
<1>5. OK(e) /\ Kept(d, e)
  <2>1. Shape(e)
    BY <1>2, <1>4 DEF OK, Shape
  <2>2. Typed(e)
    BY <1>2, <1>4 DEF OK, Shape, Typed, Fields
  <2> QED BY <1>2, <1>4, <2>1, <2>2
    DEF OK, Shape, Fields, Kept, KeptLife, KeptLink, KeptStation, KeptScan
<1>6. OK(changed(e, "station")) /\ Kept(e, changed(e, "station"))
  BY <1>5, ChangedKeeps, ConstantNames
<1>7. PICK q : q = requestConnection(d, last, last, TRUE)
  OBVIOUS
<1>8. OK(q) /\ Kept(d, q)
  BY <1>2, <1>7, RequestConnectionKeeps
<1>9. restoreProfile(c, last, status, automatic)
        \in {d, q, changed(e, "station")}
  <2>1. CASE outcome = "Ok" /\ (last = NoNetwork \/ ~automatic)
    BY <1>1, <1>3, <2>1 DEF restoreProfile
  <2>2. CASE outcome = "Ok" /\ last # NoNetwork /\ automatic
    BY <1>1, <1>3, <1>7, <2>2 DEF restoreProfile
  <2>3. CASE outcome # "Ok"
    BY <1>1, <1>3, <1>4, <2>3 DEF restoreProfile
  <2> QED BY <2>1, <2>2, <2>3
<1>10. Kept(c, q) /\ Kept(c, e)
  BY <1>2, <1>5, <1>8, KeptTransitive
<1>11. Kept(c, changed(e, "station"))
  BY <1>6, <1>10, KeptTransitive
<1> QED BY <1>2, <1>6, <1>8, <1>9, <1>10, <1>11

(* retry() leaves native work alone. *)
LEMMA RetryKeeps ==
  ASSUME NEW c, OK(c), NEW status \in Status, NEW automatic \in BOOLEAN
  PROVE  LET d == retry(c, status, automatic) IN OK(d) /\ Kept(c, d)
<1>1. PICK d : d = cancelRetry(c)
  OBVIOUS
<1>2. OK(d) /\ Kept(c, d)
  BY <1>1, CancelRetryKeeps
<1>3. PICK e : e = [d EXCEPT !.attempted = 0, !.status = "Ok"]
  OBVIOUS
<1>4. OK(e) /\ Kept(d, e)
  <2>1. Shape(e)
    BY <1>2, <1>3 DEF OK, Shape
  <2>2. Typed(e)
    BY <1>2, <1>3, NamesTyped DEF OK, Shape, Typed, Fields
  <2> QED BY <1>2, <1>3, <2>1, <2>2
    DEF OK, Shape, Fields, Kept, KeptLife, KeptLink, KeptStation, KeptScan
<1>5. PICK g : g = changed(e, "station")
  OBVIOUS
<1>6. OK(g) /\ Kept(e, g)
  BY <1>4, <1>5, ChangedKeeps, ConstantNames
<1>7. OK(scheduleWork(g)) /\ Kept(g, scheduleWork(g))
  BY <1>6, ScheduleWorkKeeps
<1>8. PICK f : f = [d EXCEPT !.auto = FALSE,
                             !.status = IF status = "Ok" THEN @ ELSE status]
  OBVIOUS
<1>9. OK(f) /\ Kept(d, f)
  <2>1. Shape(f)
    BY <1>2, <1>8 DEF OK, Shape
  <2>2. Typed(f)
    BY <1>2, <1>8 DEF OK, Shape, Typed, Fields
  <2> QED BY <1>2, <1>8, <2>1, <2>2
    DEF OK, Shape, Fields, Kept, KeptLife, KeptLink, KeptStation, KeptScan
<1>10. OK(changed(f, "station")) /\ Kept(f, changed(f, "station"))
  BY <1>9, ChangedKeeps, ConstantNames
<1>11. retry(c, status, automatic)
         \in {d, scheduleWork(g), changed(f, "station")}
  <2>1. CASE ~c.running \/ c.faulted \/ c.desired # "Connected" \/ ~c.auto
    BY <1>1, <2>1 DEF retry
  <2>2. CASE ~(~c.running \/ c.faulted \/ c.desired # "Connected" \/ ~c.auto)
    BY <1>1, <1>3, <1>5, <1>8, <2>2 DEF retry
  <2> QED BY <2>1, <2>2
<1>12. Kept(c, e) /\ Kept(c, f)
  BY <1>2, <1>4, <1>9, KeptTransitive
<1>13. Kept(c, g) /\ Kept(c, changed(f, "station"))
  BY <1>6, <1>10, <1>12, KeptTransitive
<1>14. Kept(c, scheduleWork(g))
  BY <1>7, <1>13, KeptTransitive
<1> QED BY <1>2, <1>7, <1>10, <1>11, <1>13, <1>14

(* Dropping a queued scan touches no operation of the adapter. *)
LEMMA UnqueuedQuiet ==
  ASSUME NEW c, OK(c), ~c.faulted,
         needsStation(c) => c.scan \in {"Idle", "Queued"}
  PROVE  /\ OK(Unqueued(c)) /\ Quiet(c, Unqueued(c))
         /\ needsStation(c) => Unqueued(c).scan = "Idle"
<1>1. CASE needsStation(c)
  <2>1. PICK w : w = cancelScan(c, "Ok")
    OBVIOUS
  <2>2. /\ OK(w) /\ KeptLife(c, w) /\ KeptLink(c, w) /\ KeptStation(c, w)
        /\ w.scan_id = c.scan_id
        /\ w.scan = CASE c.scan = "Queued" -> "Idle"
                      [] c.scan = "Running" /\ "Ok" = "Ok" -> "Cancelling"
                      [] OTHER -> c.scan
    BY <2>1, CancelScanMoves
  <2>3. w.scan = "Idle"
    BY <1>1, <2>2
  <2>4. Quiet(c, w)
    BY <1>1, <2>2, <2>3 DEF Quiet
  <2> QED BY <1>1, <2>1, <2>2, <2>3, <2>4 DEF Unqueued
<1>2. CASE ~needsStation(c)
  <2>1. Unqueued(c) = c
    BY <1>2 DEF Unqueued
  <2> QED BY <1>2, <2>1 DEF Quiet, KeptLife, KeptLink, KeptStation
<1> QED BY <1>1, <1>2

(* Taking a task off the schedule keeps everything in flight. *)
LEMMA DispatchedKeeps ==
  ASSUME OK(ctl), NEW task
  PROVE  OK(Dispatched(task)) /\ Kept(ctl, Dispatched(task))
<1>1. PICK d : d = [ctl EXCEPT !.tasks = @ \ {task}]
  OBVIOUS
<1>2. Shape(d)
  BY <1>1 DEF OK, Shape
<1>3. Typed(d)
  BY <1>1 DEF OK, Shape, Typed, Fields
<1>4. Kept(ctl, d)
  BY <1>1
  DEF OK, Shape, Fields, Kept, KeptLife, KeptLink, KeptStation, KeptScan
<1> QED BY <1>1, <1>2, <1>3, <1>4 DEF OK, Dispatched

(* What the adapter and the store answer is a Status. *)
LEMMA AnswersTyped ==
  Answers \subseteq Status /\ StoreAnswers \subseteq Status
BY ConstantsAssumption, AdapterErrorsAssumption, NamesTyped
DEF Answers, StoreAnswers

(* What loading a profile answers is a Status. *)
LEMMA LoadStatusTyped ==
  ASSUME NEW s, NEW n, NEW medium \in Status
  PROVE  LoadStatus(s, n, medium) \in Status /\ IsAuto(s, n) \in BOOLEAN
BY NamesTyped DEF LoadStatus, IsAuto

-----------------------------------------------------------------------------
(* Every action preserves the inductive invariant. *)

Persisted == [enabled : BOOLEAN, last : Ssid, saved : [Networks -> Saved]]

(* Inv, as the facts the action lemmas use. *)
LEMMA InvParts ==
  Inv <=> /\ OK(ctl) /\ radio \in Radios /\ store \in Persisted
          /\ muted \in BOOLEAN /\ young \subseteq {"stable", "address"}
          /\ Coherent(ctl, radio)
BY ControllersTyped DEF Inv, TypeOK, Persisted

(* The deadlines' bookkeeping and the other variables keep their types. *)
LEMMA AgesKeepsInv ==
  ASSUME Inv, Ages, OK(ctl'), radio' \in Radios, store' \in Persisted,
         muted' \in BOOLEAN, Coherent(ctl', radio')
  PROVE  Inv'
<1>1. young' \subseteq {"stable", "address"}
  BY InvParts DEF Ages, OK, Typed
<1>2. ctl' \in Controllers
  BY ControllersTyped
<1> QED BY <1>1, <1>2 DEF Inv, TypeOK, Persisted

(* The step starts nothing, and a fault stays. *)
Tame == ctl'.next_id = ctl.next_id /\ (ctl.faulted => ctl'.faulted)

(* An action that leaves the adapter and the operations alone keeps Inv. *)
LEMMA QuietKeepsInv ==
  ASSUME Inv, Ages, ctl.running, OK(ctl'), Quiet(ctl, ctl'),
         UNCHANGED radio, store' \in Persisted, muted' \in BOOLEAN
  PROVE  Inv' /\ Tame
<1>1. Coherent(ctl', radio)
  BY InvParts, QuietCoherent
<1>2. Tame
  BY DEF Tame, Quiet, KeptLife
<1> QED BY <1>1, <1>2, InvParts, AgesKeepsInv

(* The initial states satisfy Inv. *)
LEMMA InitInv == Init => Inv
<1> SUFFICES ASSUME Init PROVE Inv
  OBVIOUS
<1>1. Shape(NewController)
  BY DEF Shape, NewController, Fields
<1>2. Typed(NewController)
  BY NamesTyped DEF Typed, NewController, NoLink, LinkPhase
<1>3. NewRadio \in Radios
  BY DEF NewRadio, Radios, NoCommand, NoLink, Commands, LinkPhase, Transition
<1>4. store \in Persisted
  BY ConstantsAssumption DEF Init, Persisted, Ssid, Saved
<1>5. Coherent(NewController, NewRadio)
  BY ConstantsAssumption
  DEF Coherent, Identities, Named, Lifecycle, FaultSettled, NewController,
      NewRadio, NoCommand, NoLink
<1> QED BY <1>1, <1>2, <1>3, <1>4, <1>5, InvParts DEF Init, OK

(* begin() keeps Inv. *)
LEMMA BeginInv == Inv /\ Begin => Inv' /\ Tame
<1> SUFFICES ASSUME Inv, Begin PROVE Inv' /\ Tame
  OBVIOUS
<1>1. /\ OK(ctl) /\ ctl = NewController /\ radio = NewRadio
      /\ radio \in Radios /\ store \in Persisted /\ muted \in BOOLEAN
  BY InvParts DEF Begin, Coherent, Lifecycle
<1>2. PICK e : e = [ctl EXCEPT !.running = TRUE, !.restore = store.enabled,
                      !.desired = IF store.enabled THEN "Disconnected"
                                                   ELSE "Disabled"]
  OBVIOUS
<1>3. OK(e)
  <2>1. Shape(e)
    BY <1>1, <1>2 DEF OK, Shape
  <2>2. Typed(e)
    BY <1>1, <1>2, NamesTyped DEF OK, Shape, Typed, Fields, Persisted
  <2> QED BY <2>1, <2>2 DEF OK
<1>4. /\ e.running /\ ~e.faulted /\ ~e.closed /\ e.next_id = 1
      /\ e.station_id = 0 /\ e.scan_id = 0 /\ e.scan = "Idle"
      /\ e.transition = "None" /\ e.cancelling = FALSE /\ e.enabled = FALSE
      /\ e.link = NoLink
  BY <1>1, <1>2 DEF NewController
<1>5. PICK f : f = changed(e, "profiles")
  OBVIOUS
<1>6. OK(f) /\ Kept(e, f)
  BY <1>3, <1>5, ChangedKeeps, ConstantNames
<1>7. OK(newIntent(f)) /\ Kept(f, newIntent(f))
  BY <1>6, NewIntentKeeps
<1>8. ctl' = newIntent(f)
  BY <1>2, <1>5 DEF Begin
<1>9. OK(ctl') /\ Kept(e, ctl')
  BY <1>6, <1>7, <1>8, KeptTransitive
<1>10. /\ radio' \in Radios /\ radio'.station = NoCommand
       /\ radio'.scan = NoCommand /\ radio'.link = NoLink
       /\ radio'.enabled = FALSE
  BY <1>1 DEF Begin, Radios, NewRadio
<1>11. /\ ctl'.running /\ ~ctl'.faulted /\ ctl'.next_id = 1
       /\ ctl'.station_id = 0 /\ ctl'.scan_id = 0 /\ ctl'.scan = "Idle"
       /\ ctl'.transition = "None" /\ ctl'.cancelling = FALSE
       /\ ctl'.enabled = FALSE /\ ctl'.link = NoLink
  BY <1>4, <1>9 DEF Kept, KeptLife, KeptLink, KeptStation, KeptScan
<1>12. Coherent(ctl', radio')
  <2>1. Identities(ctl', radio')
    BY <1>10, <1>11, ConstantsAssumption DEF Identities, NoCommand, NoLink
  <2>2. Named(radio')
    BY <1>10 DEF Named, NoCommand
  <2>3. Lifecycle(ctl', radio') /\ FaultSettled(ctl')
    BY <1>11 DEF Lifecycle, FaultSettled
  <2>4. Agreed(ctl', radio')
    <3>1. /\ radio'.station.id = 0 /\ radio'.station.kind = "None"
          /\ ~radio'.station.cancel
          /\ radio'.scan.id = 0 /\ ~radio'.scan.cancel
      BY <1>10 DEF NoCommand
    <3>2. radio'.station.cancel = ctl'.cancelling
      BY <1>9, <1>10, <1>11, <3>1 DEF OK, Typed, Radios, Commands
    <3>3. radio'.scan.cancel = (ctl'.scan = "Cancelling")
      BY <1>10, <1>11, <3>1 DEF Radios, Commands
    <3> QED BY <1>10, <1>11, <3>1, <3>2, <3>3 DEF Agreed
  <2> QED BY <2>1, <2>2, <2>3, <2>4 DEF Coherent
<1>13. Tame
  BY <1>1, <1>11 DEF Tame, NewController
<1> QED BY <1>1, <1>9, <1>10, <1>12, <1>13, AgesKeepsInv DEF Begin

(* shutdown() keeps Inv. *)
LEMMA ShutdownInv == Inv /\ Shutdown => Inv' /\ Tame
<1> SUFFICES ASSUME Inv, Shutdown PROVE Inv' /\ Tame
  OBVIOUS
<1>1. OK(ctl) /\ store \in Persisted /\ muted \in BOOLEAN
  BY InvParts
<1>2. OK(NewController) /\ NewRadio \in Radios
  <2>1. Shape(NewController)
    BY DEF Shape, NewController, Fields
  <2>2. Typed(NewController)
    BY NamesTyped DEF Typed, NewController, NoLink, LinkPhase
  <2>3. NewRadio \in Radios
    BY DEF NewRadio, Radios, NoCommand, NoLink, Commands, LinkPhase,
           Transition
  <2> QED BY <2>1, <2>2, <2>3 DEF OK
<1>3. OK(ctl')
  <2>1. Shape(ctl')
    BY <1>2 DEF OK, Shape, Shutdown
  <2>2. Typed(ctl')
    BY <1>1, <1>2 DEF OK, Shape, Typed, Fields, Shutdown
  <2> QED BY <2>1, <2>2 DEF OK
<1>4. /\ ~ctl'.running /\ ctl'.closed /\ ctl'.tasks = {}
      /\ ctl'.next_id = ctl.next_id /\ ctl'.station_id = 0
      /\ ctl'.scan_id = 0 /\ ctl'.scan = "Idle" /\ ctl'.link = NoLink
  BY DEF Shutdown, NewController
<1>5. Coherent(ctl', radio')
  <2>1. ctl.next_id \in 1..MaxId
    BY InvParts DEF Coherent, Identities
  <2> QED BY <1>4, <2>1
    DEF Coherent, Identities, Named, Lifecycle, FaultSettled, Shutdown,
        NewRadio, NoCommand, NoLink
<1>6. Tame
  BY <1>4 DEF Tame, Shutdown, NewController
<1> QED BY <1>1, <1>2, <1>3, <1>5, <1>6, AgesKeepsInv DEF Shutdown

(* A controller that accepts a request runs and has not faulted. *)
LEMMA Admitted ==
  /\ admission(ctl) = "Ok" => ctl.running /\ ~ctl.faulted
  /\ requestStatus(ctl) = "Ok" => ctl.running /\ ~ctl.faulted
BY DEF admission, requestStatus

(* setEnabled() keeps Inv. *)
LEMMA SetEnabledInv ==
  ASSUME Inv, NEW enabled \in BOOLEAN, SetEnabled(enabled)
  PROVE  Inv' /\ Tame
<1>1. OK(ctl) /\ ctl.running /\ store \in Persisted /\ muted \in BOOLEAN
  BY InvParts, Admitted DEF SetEnabled, Accepts
<1>2. PICK e : e = [WithoutInput(ctl) EXCEPT
                      !.desired = IF enabled THEN "Disconnected"
                                             ELSE "Disabled",
                      !.auto = FALSE, !.restore = enabled]
  OBVIOUS
<1>3. OK(e) /\ Kept(ctl, e)
  <2>1. Shape(e)
    BY <1>1, <1>2 DEF OK, Shape, WithoutInput
  <2>2. Typed(e)
    BY <1>1, <1>2, NamesTyped, ZenonT(30)
      DEF OK, Shape, Typed, Fields, WithoutInput
  <2> QED BY <1>1, <1>2, <2>1, <2>2
    DEF OK, Shape, Fields, WithoutInput, Kept, KeptLife, KeptLink,
        KeptStation, KeptScan
<1>4. OK(newIntent(e)) /\ Kept(e, newIntent(e))
  BY <1>3, NewIntentKeeps
<1>5. Quiet(ctl, newIntent(e))
  BY <1>3, <1>4, KeptTransitive, KeptIsQuiet
<1>6. muted' \in BOOLEAN
  BY <1>1 DEF SetEnabled
<1> QED BY <1>1, <1>2, <1>4, <1>5, <1>6, QuietKeepsInv DEF SetEnabled

(* Both connect() calls keep Inv. *)
LEMMA ConnectInv ==
  ASSUME Inv, NEW network \in Networks,
         Connect(network) \/ ConnectProfile(network)
  PROVE  Inv' /\ Tame
<1>1. OK(ctl) /\ ctl.running /\ store \in Persisted
  BY InvParts, Admitted DEF Connect, ConnectProfile
<1>2. network \in Ssid /\ NoNetwork \in Ssid /\ IsAuto(store, network) \in BOOLEAN
  BY DEF Ssid, IsAuto
<1>3. PICK profile \in Ssid, automatic \in BOOLEAN :
        ctl' = requestConnection(ctl, network, profile, automatic)
  BY <1>2 DEF Connect, ConnectProfile
<1>4. OK(ctl') /\ Kept(ctl, ctl')
  BY <1>1, <1>2, <1>3, RequestConnectionKeeps
<1>5. Quiet(ctl, ctl')
  BY <1>4, KeptIsQuiet
<1> QED BY <1>1, <1>4, <1>5, QuietKeepsInv DEF Connect, ConnectProfile

(* disconnect() keeps Inv. *)
LEMMA DisconnectInv == Inv /\ Disconnect => Inv' /\ Tame
<1> SUFFICES ASSUME Inv, Disconnect PROVE Inv' /\ Tame
  OBVIOUS
<1>1. OK(ctl) /\ ctl.running /\ store \in Persisted
  BY InvParts, Admitted DEF Disconnect, Accepts
<1>2. PICK e : e = Quieted(ctl)
  OBVIOUS
<1>3. OK(e) /\ Kept(ctl, e)
  <2>1. Shape(e)
    BY <1>1, <1>2 DEF OK, Shape, Quieted
  <2>2. Typed(e)
    BY <1>1, <1>2, ZenonT(30) DEF OK, Shape, Typed, Fields, Quieted
  <2> QED BY <1>1, <1>2, <2>1, <2>2
    DEF OK, Shape, Fields, Quieted, Kept, KeptLife, KeptLink, KeptStation,
        KeptScan
<1>4. PICK f : f = [WithoutInput(e) EXCEPT
                      !.desired = IF @ = "Disabled" THEN @
                                  ELSE "Disconnected"]
  OBVIOUS
<1>5. OK(f) /\ Kept(e, f)
  <2>1. Shape(f)
    BY <1>3, <1>4 DEF OK, Shape, WithoutInput
  <2>2. Typed(f)
    BY <1>3, <1>4, NamesTyped DEF OK, Shape, Typed, Fields, WithoutInput
  <2> QED BY <1>3, <1>4, <2>1, <2>2
    DEF OK, Shape, Fields, WithoutInput, Kept, KeptLife, KeptLink,
        KeptStation, KeptScan
<1>6. OK(newIntent(f)) /\ Kept(f, newIntent(f))
  BY <1>5, NewIntentKeeps
<1>7. ctl' = e \/ ctl' = newIntent(f)
  BY <1>2, <1>4 DEF Disconnect
<1>8. Kept(ctl, f)
  BY <1>3, <1>5, KeptTransitive
<1>9. OK(ctl') /\ Quiet(ctl, ctl')
  BY <1>3, <1>6, <1>7, <1>8, KeptTransitive, KeptIsQuiet
<1> QED BY <1>1, <1>9, QuietKeepsInv DEF Disconnect

(* startScan() keeps Inv. *)
LEMMA StartScanInv == Inv /\ StartScan => Inv' /\ Tame
<1> SUFFICES ASSUME Inv, StartScan PROVE Inv' /\ Tame
  OBVIOUS
<1>1. /\ OK(ctl) /\ ctl.running /\ ~ctl.faulted /\ store \in Persisted
      /\ muted \in BOOLEAN /\ ctl.scan = "Idle"
  BY InvParts, Admitted DEF StartScan, Accepts, isScanning
<1>2. PICK e : e = [ctl EXCEPT !.scan = "Queued", !.scan_status = "Ok",
                               !.scan_revision = @ + 1,
                               !.scan_timed_out = FALSE]
  OBVIOUS
<1>3. OK(e) /\ Quiet(ctl, e) /\ e.scan = "Queued"
  <2>1. Shape(e)
    BY <1>1, <1>2 DEF OK, Shape
  <2>2. Typed(e)
    <3>1. ctl.scan_revision + 1 \in Nat
      BY <1>1 DEF OK, Typed
    <3> QED BY <1>1, <1>2, <3>1, NamesTyped, ZenonT(30)
      DEF OK, Shape, Typed, Fields
  <2> QED BY <1>1, <1>2, <2>1, <2>2
    DEF OK, Shape, Fields, Quiet, KeptLife, KeptLink, KeptStation
<1>4. PICK f : f = changed(e, "scan")
  OBVIOUS
<1>5. OK(f) /\ Kept(e, f)
  BY <1>3, <1>4, ChangedKeeps, ConstantNames
<1>6. OK(scheduleWork(f)) /\ Kept(f, scheduleWork(f))
  BY <1>5, ScheduleWorkKeeps
<1>7. ctl' = scheduleWork(f)
  BY <1>2, <1>4 DEF StartScan
<1>8. Kept(e, ctl')
  BY <1>5, <1>6, <1>7, KeptTransitive
<1>9. Quiet(ctl, ctl')
  BY <1>3, <1>8
  DEF Quiet, Kept, KeptLife, KeptLink, KeptStation, KeptScan
<1> QED BY <1>1, <1>6, <1>7, <1>9, QuietKeepsInv DEF StartScan

(* cancelScan() keeps Inv. *)
LEMMA CancelScanInv ==
  ASSUME Inv, NEW answer \in Answers, CancelScan(answer)
  PROVE  Inv' /\ Tame
<1>1. /\ OK(ctl) /\ ctl.running /\ store \in Persisted /\ muted \in BOOLEAN
      /\ radio \in Radios /\ Coherent(ctl, radio)
  BY InvParts DEF CancelScan
<1>2. /\ OK(ctl') /\ KeptLife(ctl, ctl') /\ KeptLink(ctl, ctl')
      /\ KeptStation(ctl, ctl') /\ ctl'.scan_id = ctl.scan_id
      /\ ctl'.scan = CASE ctl.scan = "Queued" -> "Idle"
                       [] ctl.scan = "Running" /\ answer = "Ok" ->
                            "Cancelling"
                       [] OTHER -> ctl.scan
  BY <1>1, CancelScanMoves DEF CancelScan
<1>3. radio' \in Radios
  BY <1>1, <1>2, SubmittedTyped DEF CancelScan
<1>4. CASE ~ctl.faulted
  <2>1. Cancels(ctl, ctl')
    BY <1>2 DEF Cancels, KeptStation
  <2>2. Coherent(ctl', radio')
    BY <1>1, <1>2, <1>4, <2>1, SubmittedCancels DEF CancelScan
  <2>3. Tame
    BY <1>2 DEF Tame, KeptLife
  <2> QED BY <1>1, <1>2, <1>3, <2>2, <2>3, AgesKeepsInv DEF CancelScan
<1>5. CASE ctl.faulted
  <2>1. ctl.scan = "Idle"
    BY <1>1, <1>5 DEF Coherent, FaultSettled
  <2>2. Kept(ctl, ctl')
    BY <1>2, <2>1 DEF Kept, KeptScan
  <2>3. radio' = radio
    <3>1. radio.station \in Commands /\ radio.scan \in Commands
      BY <1>1 DEF Radios
    <3>2. StationCommand(radio.station, ctl, ctl') = radio.station
      BY <2>2, <3>1 DEF StationCommand, Commands, Kept, KeptStation
    <3>3. ScanCommand(radio.scan, ctl, ctl') = radio.scan
      BY <2>2, <3>1 DEF ScanCommand, Commands, Kept, KeptScan
    <3> QED BY <1>1, <3>2, <3>3 DEF CancelScan, Submitted, Radios
  <2> QED BY <1>1, <1>2, <2>2, <2>3, KeptIsQuiet, QuietKeepsInv DEF CancelScan
<1> QED BY <1>4, <1>5

(* Saving and removing a profile keep Inv. *)
LEMMA WriteProfileInv ==
  ASSUME Inv, NEW network \in Networks, NEW value \in Saved, NEW answer,
         WriteProfile(network, value, answer)
  PROVE  Inv' /\ Tame
<1>1. OK(ctl) /\ ctl.running /\ store \in Persisted /\ muted \in BOOLEAN
  BY InvParts DEF WriteProfile
<1>2. PICK e : e = [ctl EXCEPT !.profiles_generation = @ + 1]
  OBVIOUS
<1>3. OK(e) /\ Kept(ctl, e)
  <2>1. Shape(e)
    BY <1>1, <1>2 DEF OK, Shape
  <2>2. Typed(e)
    <3>1. ctl.profiles_generation + 1 \in Nat
      BY <1>1 DEF OK, Typed
    <3> QED BY <1>1, <1>2, <3>1 DEF OK, Shape, Typed, Fields
  <2> QED BY <1>1, <1>2, <2>1, <2>2
    DEF OK, Shape, Fields, Kept, KeptLife, KeptLink, KeptStation, KeptScan
<1>4. OK(changed(e, "profiles")) /\ Kept(e, changed(e, "profiles"))
  BY <1>3, ChangedKeeps, ConstantNames
<1>5. Quiet(ctl, changed(e, "profiles"))
  BY <1>3, <1>4, KeptTransitive, KeptIsQuiet
<1>6. ctl' = changed(e, "profiles")
  BY <1>2 DEF WriteProfile
<1>7. store' \in Persisted
  BY <1>1 DEF WriteProfile, Persisted, Saved
<1> QED BY <1>1, <1>4, <1>5, <1>6, <1>7, QuietKeepsInv DEF WriteProfile

(* The notification task keeps Inv. *)
LEMMA NotifyListenersInv == Inv /\ NotifyListeners => Inv' /\ Tame
<1> SUFFICES ASSUME Inv, NotifyListeners PROVE Inv' /\ Tame
  OBVIOUS
<1>1. OK(ctl) /\ ctl.running /\ store \in Persisted /\ muted \in BOOLEAN
  BY InvParts DEF NotifyListeners, Coherent, Lifecycle
<1>2. PICK e : e = Dispatched("notify")
  OBVIOUS
<1>3. OK(e) /\ Kept(ctl, e)
  BY <1>1, <1>2, DispatchedKeeps
<1>4. PICK f : f = [e EXCEPT !.changes = {}]
  OBVIOUS
<1>5. OK(f) /\ Kept(e, f)
  <2>1. Shape(f)
    BY <1>3, <1>4 DEF OK, Shape
  <2>2. Typed(f)
    BY <1>3, <1>4 DEF OK, Shape, Typed, Fields
  <2> QED BY <1>3, <1>4, <2>1, <2>2
    DEF OK, Shape, Fields, Kept, KeptLife, KeptLink, KeptStation, KeptScan
<1>6. ctl' = f
  BY <1>2, <1>4 DEF NotifyListeners
<1>7. Quiet(ctl, ctl')
  BY <1>3, <1>5, <1>6, KeptTransitive, KeptIsQuiet
<1> QED BY <1>1, <1>5, <1>6, <1>7, QuietKeepsInv DEF NotifyListeners

(* The reconnect task keeps Inv. *)
LEMMA RetryInv ==
  ASSUME Inv, NEW medium \in StoreAnswers, Retry(medium)
  PROVE  Inv' /\ Tame
<1>1. OK(ctl) /\ ctl.running /\ store \in Persisted /\ muted \in BOOLEAN
  BY InvParts DEF Retry, Coherent, Lifecycle
<1>2. PICK e : e = Dispatched("reconnect")
  OBVIOUS
<1>3. OK(e) /\ Kept(ctl, e)
  BY <1>1, <1>2, DispatchedKeeps
<1>4. PICK st \in Status, au \in BOOLEAN :
        st = LoadStatus(store, ctl.profile, medium)
        /\ au = IsAuto(store, ctl.profile)
  BY AnswersTyped, LoadStatusTyped
<1>5. ctl' = retry(e, st, au)
  BY <1>2, <1>4 DEF Retry
<1>6. OK(ctl') /\ Kept(e, ctl')
  BY <1>3, <1>5, RetryKeeps
<1>7. Quiet(ctl, ctl')
  BY <1>3, <1>6, KeptTransitive, KeptIsQuiet
<1> QED BY <1>1, <1>6, <1>7, QuietKeepsInv DEF Retry

(* The timer task keeps Inv. *)
LEMMA CheckTimeoutsInv ==
  ASSUME Inv, NEW expired, NEW answer \in Answers,
         CheckTimeouts(expired, answer)
  PROVE  Inv' /\ Tame
<1>1. /\ OK(ctl) /\ ctl.running /\ store \in Persisted /\ muted \in BOOLEAN
      /\ radio \in Radios /\ Coherent(ctl, radio)
  BY InvParts DEF CheckTimeouts, Coherent, Lifecycle
<1>2. PICK c : c = Dispatched("timer")
  OBVIOUS
<1>3. OK(c) /\ Kept(ctl, c)
  BY <1>1, <1>2, DispatchedKeeps
<1>4. c.running = ctl.running /\ c.faulted = ctl.faulted
  BY <1>3 DEF Kept, KeptLife
<1>5. CASE ctl.faulted
  <2>1. ctl' = c
    BY <1>2, <1>4, <1>5 DEF CheckTimeouts, checkTimeouts
  <2>2. radio' = radio
    <3>1. radio.station \in Commands /\ radio.scan \in Commands
      BY <1>1 DEF Radios
    <3>2. StationCommand(radio.station, ctl, ctl') = radio.station
      BY <1>3, <2>1, <3>1 DEF StationCommand, Commands, Kept, KeptStation
    <3>3. ScanCommand(radio.scan, ctl, ctl') = radio.scan
      BY <1>3, <2>1, <3>1 DEF ScanCommand, Commands, Kept, KeptScan
    <3> QED BY <1>1, <3>2, <3>3 DEF CheckTimeouts, Submitted, Radios
  <2> QED BY <1>1, <1>3, <2>1, <2>2, KeptIsQuiet, QuietKeepsInv
    DEF CheckTimeouts
<1>6. CASE ~ctl.faulted
  <2>1. answer \in Status
    BY AnswersTyped
  <2>2. ctl' = checkTimeouts(c, expired, answer)
    BY <1>2 DEF CheckTimeouts
  <2>3. OK(ctl') /\ (GivesUp(c, ctl') \/ Cancels(c, ctl'))
    BY <1>1, <1>3, <1>4, <1>6, <2>1, <2>2, CheckTimeoutsMoves
  <2>4. GivesUp(ctl, ctl') \/ Cancels(ctl, ctl')
    BY <1>3, <2>3, KeptTransitive
  <2>5. radio' = Submitted(radio, ctl, ctl')
    BY DEF CheckTimeouts
  <2>6. radio' \in Radios
    BY <1>1, <2>3, <2>5, SubmittedTyped
  <2>7. Coherent(ctl', radio')
    BY <1>1, <1>6, <2>3, <2>4, <2>5, SubmittedCancels, SubmittedGivesUp
  <2>8. Tame
    BY <1>6, <2>4 DEF Tame, Cancels, GivesUp, KeptLife
  <2> QED BY <1>1, <2>3, <2>6, <2>7, <2>8, AgesKeepsInv DEF CheckTimeouts
<1> QED BY <1>5, <1>6

(* What NoOverlap says of one step. *)
StartsAlone ==
  ctl'.next_id # ctl.next_id =>
    /\ radio.station = NoCommand /\ radio.scan = NoCommand
    /\ ctl'.transition = "Connect" =>
         radio.enabled /\ radio.link.phase = "Idle"

(* A submission followed by a method that keeps it is that submission. *)
LEMMA KeptAgain ==
  ASSUME NEW c, NEW d, NEW e, Kept(d, e), NEW kind, NEW answer
  PROVE  /\ StationStarted(c, d, kind, answer)
              => StationStarted(c, e, kind, answer)
         /\ ScanStarted(c, d, answer) => ScanStarted(c, e, answer)
<1> USE DEF Kept, KeptLife, KeptLink, KeptStation, KeptScan
<1>1. StationStarted(c, d, kind, answer) => StationStarted(c, e, kind, answer)
  BY DEF StationStarted
<1>2. ScanStarted(c, d, answer) => ScanStarted(c, e, answer)
  BY DEF ScanStarted
<1> QED BY <1>1, <1>2

(* The branch of execute() that submits work keeps Inv, and submits only   *)
(* to an adapter with nothing outstanding.                                 *)
LEMMA ExecuteAdvancesInv ==
  ASSUME Inv, "work" \in ctl.tasks, NEW c, c = Dispatched("work"),
         ExecuteAdvances(c), UNCHANGED muted, Ages
  PROVE  Inv' /\ StartsAlone /\ ~ctl.faulted
<1>1. /\ OK(ctl) /\ ctl.running /\ store \in Persisted /\ muted \in BOOLEAN
      /\ radio \in Radios /\ Coherent(ctl, radio)
  BY InvParts DEF Coherent, Lifecycle
<1>2. OK(c) /\ Kept(ctl, c)
  BY <1>1, DispatchedKeeps
<1>3. /\ c.running /\ ~c.faulted /\ c.next_id # MaxId /\ c.transition = "None"
      /\ needsStation(c) => c.scan \in {"Idle", "Queued"}
  BY DEF ExecuteAdvances, Reaches, Live
<1>4. ~ctl.faulted
  BY <1>2, <1>3 DEF Kept, KeptLife
<1>5. PICK u : u = Unqueued(c)
  OBVIOUS
<1>6. /\ OK(u) /\ Quiet(c, u)
      /\ needsStation(c) => u.scan = "Idle"
  BY <1>2, <1>3, <1>5, UnqueuedQuiet
<1>7. Quiet(ctl, u)
  BY <1>2, <1>6, KeptTransitive
<1>8. Coherent(u, radio)
  BY <1>1, <1>7, QuietCoherent
<1>9. /\ u.running /\ ~u.faulted /\ u.next_id # MaxId /\ u.transition = "None"
      /\ u.next_id = ctl.next_id
  BY <1>2, <1>3, <1>6
  DEF Quiet, KeptLife, KeptStation, Kept
<1>10. u.next_id # 0
  BY <1>8 DEF Coherent, Identities
<1>11. Agreed(u, radio)
  BY <1>8, <1>9 DEF Coherent
<1>12. radio.station = NoCommand
  BY <1>8, <1>9, <1>11 DEF Coherent, Named, Agreed
<1>13. u.scan \in {"Idle", "Queued"} => radio.scan = NoCommand
  BY <1>8, <1>11 DEF Coherent, Named, Agreed
<1>14. radio' = Submitted(radio, u, ctl')
  <2>1. Submitted(radio, u, ctl') = Submitted(radio, ctl, ctl')
    BY <1>7, SubmittedQuiet
  <2> QED BY <2>1 DEF ExecuteAdvances
<1>15. PICK answer \in Answers :
         LET d == IF needsStation(c) /\ ~c.pending
                  THEN advance(u, answer) ELSE u
             e == IF d.transition = "None" /\ d.scan = "Queued"
                  THEN startScanning(d, answer) ELSE d
         IN  ctl' = scheduleTimeouts(e)
  BY <1>5 DEF ExecuteAdvances
<1>16. answer \in Status
  BY AnswersTyped
<1> DEFINE Done == OK(ctl') /\ Coherent(ctl', radio') /\ StartsAlone
<1>17. ASSUME NEW e, OK(e), Kept(u, e), ctl' = scheduleTimeouts(e)
       PROVE  Done
  <2>1. OK(ctl') /\ Kept(e, ctl')
    BY <1>17, ScheduleTimeoutsKeeps
  <2>2. Kept(u, ctl')
    BY <1>17, <2>1, KeptTransitive
  <2>3. Coherent(ctl', radio')
    BY <1>1, <1>6, <1>8, <1>9, <1>14, <2>1, <2>2, KeptIsQuiet,
       SubmittedCancels
  <2>4. StartsAlone
    BY <1>9, <2>2 DEF StartsAlone, Kept, KeptLife
  <2> QED BY <2>1, <2>3, <2>4
<1>18. ASSUME needsStation(c) /\ ~c.pending
       PROVE  Done
  <2>1. PICK d : d = advance(u, answer)
    OBVIOUS
  <2>2. OK(d) /\ Advanced(u, d, answer)
    BY <1>6, <1>9, <1>10, <1>16, <2>1, AdvanceSubmits
  <2>3. u.scan = "Idle" /\ d.scan = "Idle"
    BY <1>6, <1>18, <2>2 DEF Advanced, KeptScan
  <2>4. ctl' = scheduleTimeouts(d)
    BY <1>15, <1>18, <2>1, <2>3
  <2>5. CASE d.next_id = u.next_id /\ KeptStation(u, d)
    <3>1. d.faulted = u.faulted
      BY <1>6, <1>9, <2>2 DEF Advanced, OK, Typed
    <3>2. Kept(u, d)
      BY <2>2, <2>5, <3>1 DEF Advanced, Kept, KeptLife
    <3> QED BY <1>17, <2>2, <2>4, <3>2
  <2>6. CASE \E kind \in {"Enable", "Connect", "Disconnect"} :
               /\ StationStarted(u, d, kind, answer)
               /\ kind = "Connect" => u.link.phase = "Idle" /\ u.enabled
    <3>1. PICK kind \in {"Enable", "Connect", "Disconnect"} :
               /\ StationStarted(u, d, kind, answer)
               /\ kind = "Connect" => u.link.phase = "Idle" /\ u.enabled
      BY <2>6
    <3>2. OK(ctl') /\ Kept(d, ctl')
      BY <2>2, <2>4, ScheduleTimeoutsKeeps
    <3>3. StationStarted(u, ctl', kind, answer)
      BY <3>1, <3>2, KeptAgain
    <3>4. Coherent(ctl', radio')
      BY <1>1, <1>6, <1>8, <1>9, <1>14, <3>2, <3>3, SubmittedStation
    <3>5. ctl'.transition = "Connect" => u.link.phase = "Idle" /\ u.enabled
      BY <3>1, <3>3 DEF StationStarted
    <3>6. StartsAlone
      BY <1>11, <1>12, <1>13, <2>3, <3>5 DEF StartsAlone, Agreed
    <3> QED BY <3>2, <3>4, <3>6
  <2> QED BY <2>2, <2>5, <2>6 DEF Advanced
<1>19. ASSUME ~(needsStation(c) /\ ~c.pending) /\ u.scan = "Queued"
       PROVE  Done
  <2>1. PICK e : e = startScanning(u, answer)
    OBVIOUS
  <2>2. OK(e) /\ ScanStarted(u, e, answer)
    BY <1>6, <1>9, <1>10, <1>16, <2>1, StartScanningSubmits
  <2>3. ctl' = scheduleTimeouts(e)
    BY <1>9, <1>15, <1>19, <2>1
  <2>4. OK(ctl') /\ Kept(e, ctl')
    BY <2>2, <2>3, ScheduleTimeoutsKeeps
  <2>5. ScanStarted(u, ctl', answer)
    BY <2>2, <2>4, KeptAgain
  <2>6. Coherent(ctl', radio')
    BY <1>1, <1>6, <1>8, <1>9, <1>14, <1>19, <2>4, <2>5, SubmittedScan
  <2>7. ctl'.transition = "None"
    BY <1>9, <2>5 DEF ScanStarted, KeptStation
  <2>8. StartsAlone
    BY <1>12, <1>13, <1>19, <2>7 DEF StartsAlone
  <2> QED BY <2>4, <2>6, <2>8
<1>20. ASSUME ~(needsStation(c) /\ ~c.pending) /\ u.scan # "Queued"
       PROVE  Done
  <2>1. ctl' = scheduleTimeouts(u)
    BY <1>15, <1>20
  <2>2. Kept(u, u)
    BY DEF Kept, KeptLife, KeptLink, KeptStation, KeptScan
  <2> QED BY <1>6, <1>17, <2>1, <2>2
<1>21. Done
  BY <1>18, <1>19, <1>20
<1>22. radio' \in Radios
  BY <1>1, <1>14, <1>21, SubmittedTyped
<1> QED BY <1>1, <1>4, <1>21, <1>22, AgesKeepsInv DEF ExecuteAdvances

(* The other branches of execute() keep Inv and submit nothing. *)
LEMMA ExecuteExitsInv ==
  ASSUME Inv, "work" \in ctl.tasks, NEW c, c = Dispatched("work"),
         \/ ExecuteIgnored(c) \/ ExecuteExhausted(c) \/ ExecuteSuperseded(c)
         \/ ExecuteAwaits(c) \/ ExecutePreempts(c) \/ ExecuteRestores(c),
         UNCHANGED muted, Ages
  PROVE  Inv' /\ Tame
<1>1. /\ OK(ctl) /\ ctl.running /\ store \in Persisted /\ muted \in BOOLEAN
      /\ radio \in Radios /\ Coherent(ctl, radio)
  BY InvParts DEF Coherent, Lifecycle
<1>2. OK(c) /\ Kept(ctl, c)
  BY <1>1, DispatchedKeeps
<1>3. c.running /\ c.faulted = ctl.faulted
  BY <1>1, <1>2 DEF Kept, KeptLife
<1>4. CASE ExecuteIgnored(c)
  <2>1. ctl' = c /\ UNCHANGED <<radio, store>>
    BY <1>4 DEF ExecuteIgnored
  <2> QED BY <1>1, <1>2, <2>1, KeptIsQuiet, QuietKeepsInv
<1>5. CASE ExecuteAwaits(c)
  <2>1. ctl' = scheduleTimeouts(c) /\ UNCHANGED <<radio, store>>
    BY <1>5 DEF ExecuteAwaits
  <2>2. OK(ctl') /\ Kept(c, ctl')
    BY <1>2, <2>1, ScheduleTimeoutsKeeps
  <2>3. Quiet(ctl, ctl')
    BY <1>2, <2>2, KeptTransitive, KeptIsQuiet
  <2> QED BY <1>1, <2>1, <2>2, <2>3, QuietKeepsInv
<1>6. CASE ExecuteRestores(c)
  <2>1. /\ ~c.faulted
        /\ needsStation(c) => c.scan \in {"Idle", "Queued"}
        /\ UNCHANGED <<radio, store>>
    BY <1>6 DEF ExecuteRestores, Reaches, Live
  <2>2. PICK u : u = Unqueued(c)
    OBVIOUS
  <2>3. OK(u) /\ Quiet(c, u)
    BY <1>2, <2>1, <2>2, UnqueuedQuiet
  <2>4. PICK status \in Status, automatic \in BOOLEAN :
          ctl' = scheduleWork(restoreProfile(u, store.last, status, automatic))
    BY <1>6, <2>2, AnswersTyped, LoadStatusTyped DEF ExecuteRestores
  <2>5. PICK w : w = restoreProfile(u, store.last, status, automatic)
    OBVIOUS
  <2>6. OK(w) /\ Kept(u, w)
    BY <1>1, <2>3, <2>5, RestoreProfileKeeps DEF Persisted
  <2>7. OK(ctl') /\ Kept(w, ctl')
    BY <2>4, <2>5, <2>6, ScheduleWorkKeeps
  <2>8. Kept(u, ctl')
    BY <2>6, <2>7, KeptTransitive
  <2>9. Quiet(c, ctl')
    BY <2>3, <2>8
    DEF Quiet, Kept, KeptLife, KeptLink, KeptStation, KeptScan
  <2>10. Quiet(ctl, ctl')
    BY <1>2, <2>9, KeptTransitive
  <2> QED BY <1>1, <2>1, <2>7, <2>10, QuietKeepsInv
<1>7. ASSUME OK(ctl'), GivesUp(c, ctl') \/ Cancels(c, ctl'), ~c.faulted,
             radio' = Submitted(radio, ctl, ctl'), UNCHANGED store
      PROVE  Inv' /\ Tame
  <2>1. GivesUp(ctl, ctl') \/ Cancels(ctl, ctl')
    BY <1>2, <1>7, KeptTransitive
  <2>2. radio' \in Radios
    BY <1>1, <1>7, SubmittedTyped
  <2>3. Coherent(ctl', radio')
    BY <1>1, <1>3, <1>7, <2>1, SubmittedCancels, SubmittedGivesUp
  <2>4. Tame
    BY <1>3, <1>7, <2>1 DEF Tame, Cancels, GivesUp, KeptLife
  <2> QED BY <1>1, <1>7, <2>2, <2>3, <2>4, AgesKeepsInv
<1>8. CASE ExecuteExhausted(c)
  <2>1. ~c.faulted /\ ctl' = fault(c, "Busy") /\ UNCHANGED <<radio, store>>
    BY <1>8 DEF ExecuteExhausted
  <2>2. /\ OK(ctl') /\ GivesUp(c, ctl') /\ ctl'.cancelling = c.cancelling
    BY <1>2, <2>1, FaultGivesUp, ConstantNames
  <2>3. radio' = Submitted(radio, ctl, ctl')
    <3>1. radio.station \in Commands /\ radio.scan \in Commands
      BY <1>1 DEF Radios
    <3>2. StationCommand(radio.station, ctl, ctl') = radio.station
      BY <1>2, <2>2, <3>1
      DEF StationCommand, Commands, GivesUp, Kept, KeptStation
    <3>3. ScanCommand(radio.scan, ctl, ctl') = radio.scan
      BY <2>2, <3>1 DEF ScanCommand, Commands, GivesUp
    <3> QED BY <1>1, <2>1, <3>2, <3>3 DEF Submitted, Radios
  <2> QED BY <1>7, <2>1, <2>2, <2>3
<1>9. CASE ExecuteSuperseded(c)
  <2>1. /\ ~c.faulted /\ c.transition = "Connect"
        /\ radio' = Submitted(radio, ctl, ctl') /\ UNCHANGED store
    BY <1>9 DEF ExecuteSuperseded, Live
  <2>2. PICK answer \in Answers :
          ctl' = IF answer = "Ok"
                 THEN scheduleTimeouts(changed([c EXCEPT !.cancelling = TRUE],
                                               "station"))
                 ELSE fault(c, answer)
    BY <1>9 DEF ExecuteSuperseded
  <2>3. CASE answer = "Ok"
    <3>1. PICK e : e = [c EXCEPT !.cancelling = TRUE]
      OBVIOUS
    <3>2. OK(e) /\ Cancels(c, e)
      <4>1. Shape(e)
        BY <1>2, <3>1 DEF OK, Shape
      <4>2. Typed(e)
        BY <1>2, <3>1 DEF OK, Shape, Typed, Fields
      <4> QED BY <1>2, <2>1, <3>1, <4>1, <4>2
        DEF OK, Shape, Fields, Cancels, KeptLife, KeptLink
    <3>3. PICK f : f = changed(e, "station")
      OBVIOUS
    <3>4. OK(f) /\ Kept(e, f)
      BY <3>2, <3>3, ChangedKeeps, ConstantNames
    <3>5. OK(ctl') /\ Kept(f, ctl')
      BY <2>2, <2>3, <3>1, <3>3, <3>4, ScheduleTimeoutsKeeps
    <3>6. Kept(e, ctl')
      BY <3>4, <3>5, KeptTransitive
    <3>7. Cancels(c, ctl')
      BY <3>2, <3>6
      DEF Cancels, Kept, KeptLife, KeptLink, KeptStation, KeptScan
    <3> QED BY <1>7, <2>1, <3>5, <3>7
  <2>4. CASE answer # "Ok"
    <3>1. OK(ctl') /\ GivesUp(c, ctl')
      BY <1>2, <2>2, <2>4, AnswersTyped, FaultGivesUp
    <3> QED BY <1>7, <2>1, <3>1
  <2> QED BY <2>3, <2>4
<1>10. CASE ExecutePreempts(c)
  <2>1. /\ ~c.faulted
        /\ radio' = Submitted(radio, ctl, ctl') /\ UNCHANGED store
    BY <1>10 DEF ExecutePreempts, Live
  <2>2. PICK answer \in Answers :
          ctl' = IF cancelScanStatus(c, answer) = "Ok"
                 THEN cancelScan(c, answer) ELSE fault(c, answer)
    BY <1>10 DEF ExecutePreempts
  <2>3. CASE cancelScanStatus(c, answer) = "Ok"
    <3>1. /\ OK(ctl') /\ KeptLife(c, ctl') /\ KeptLink(c, ctl')
          /\ KeptStation(c, ctl') /\ ctl'.scan_id = c.scan_id
          /\ ctl'.scan = CASE c.scan = "Queued" -> "Idle"
                           [] c.scan = "Running" /\ answer = "Ok" ->
                                "Cancelling"
                           [] OTHER -> c.scan
      BY <1>2, <2>2, <2>3, CancelScanMoves
    <3>2. Cancels(c, ctl')
      BY <3>1 DEF Cancels, KeptStation
    <3> QED BY <1>7, <2>1, <3>1, <3>2
  <2>4. CASE cancelScanStatus(c, answer) # "Ok"
    <3>1. OK(ctl') /\ GivesUp(c, ctl')
      BY <1>2, <2>2, <2>4, AnswersTyped, FaultGivesUp
    <3> QED BY <1>7, <2>1, <3>1
  <2> QED BY <2>3, <2>4
<1> QED BY <1>4, <1>5, <1>6, <1>8, <1>9, <1>10

(* What a delivery must establish of the controller d and the adapter q. *)
Delivered(c, d, q) ==
  /\ OK(d) /\ q \in Radios /\ Coherent(d, q)
  /\ d.running /\ d.next_id = c.next_id /\ d.faulted = c.faulted

(* A station completion retires the same command on both sides. *)
LEMMA StationDelivered ==
  ASSUME NEW c, OK(c), NEW r \in Radios, Coherent(c, r), c.running,
         NEW result \in Status, NEW failure \in ConnectionFailure,
         NEW answer \in Status
  PROVE  Delivered(c, onOperationFinished(c, r.station.id, r.station.kind,
                                          result, failure, answer),
                   [r EXCEPT !.station = NoCommand])
<1>1. PICK d : d = onOperationFinished(c, r.station.id, r.station.kind,
                                       result, failure, answer)
  OBVIOUS
<1>2. PICK q : q = [r EXCEPT !.station = NoCommand]
  OBVIOUS
<1>3. /\ q \in Radios /\ q.station = NoCommand /\ q.scan = r.scan
      /\ q.link = r.link /\ q.enabled = r.enabled /\ q.attached = r.attached
  BY <1>2 DEF Radios, Commands, NoCommand, Transition
<1>4. r.station.id = 0 => q = r
  BY <1>2 DEF Coherent, Named, Radios
<1>5. CASE c.faulted \/ r.station.id = 0
  <2>1. d = c
    BY <1>1, <1>5 DEF onOperationFinished
  <2>2. Named(q) /\ Identities(c, q) /\ Lifecycle(c, q)
    BY <1>3 DEF Coherent, Identities, Named, Lifecycle, NoCommand
  <2>3. CASE c.faulted
    BY <1>1, <1>2, <1>3, <2>1, <2>2, <2>3 DEF Coherent, Delivered
  <2>4. CASE r.station.id = 0
    BY <1>1, <1>2, <1>3, <1>4, <2>1, <2>4 DEF Delivered
  <2> QED BY <1>5, <2>3, <2>4
<1>6. CASE ~c.faulted /\ r.station.id # 0
  <2>1. Agreed(c, r)
    BY <1>6 DEF Coherent
  <2>2. r.station.kind # "Scan"
    BY <2>1 DEF Agreed, OK, Typed, Transition
  <2>3. d = stationFinished(c, result, failure, answer)
    BY <1>1, <1>6, <2>1, <2>2 DEF onOperationFinished, Agreed
  <2>4. /\ OK(d)
        /\ KeptLife(c, d) /\ KeptLink(c, d) /\ KeptScan(c, d)
        /\ d.station_id = 0 /\ d.transition = "None" /\ ~d.cancelling
    <3>1. OK(d) /\ StationSettled(c, d)
      BY <2>3, StationFinishedSettles, ConstantNames
    <3> QED BY <3>1 DEF StationSettled
  <2>5. d.running /\ ~d.faulted /\ d.next_id = c.next_id
        /\ d.faulted = c.faulted
    BY <1>6, <2>4 DEF KeptLife
  <2>6. Agreed(d, q)
    <3>1. q.station.id = 0 /\ q.station.kind = "None" /\ ~q.station.cancel
      BY <1>3 DEF NoCommand
    <3>2. q.station.cancel = d.cancelling
      BY <1>3, <2>4, <3>1 DEF OK, Typed, Radios, Commands
    <3> QED BY <1>3, <2>1, <2>4, <3>1, <3>2 DEF Agreed, KeptLink, KeptScan
  <2>7. Named(q)
    BY <1>3 DEF Coherent, Named, NoCommand
  <2>8. Identities(d, q)
    BY <1>3, <2>4, <2>5
    DEF Coherent, Identities, KeptLink, KeptScan, NoCommand
  <2>9. Lifecycle(d, q) /\ FaultSettled(d)
    BY <2>5 DEF Lifecycle, FaultSettled
  <2>10. Coherent(d, q)
    BY <2>6, <2>7, <2>8, <2>9 DEF Coherent
  <2> QED BY <1>1, <1>2, <1>3, <2>4, <2>5, <2>10 DEF Delivered
<1> QED BY <1>5, <1>6

(* A scan completion retires the same command on both sides. *)
LEMMA ScanDelivered ==
  ASSUME NEW c, OK(c), NEW r \in Radios, Coherent(c, r), c.running,
         NEW result \in Status, NEW read \in Status
  PROVE  Delivered(c, onOperationFinished(c, r.scan.id, "Scan", result,
                                          "None", read),
                   [r EXCEPT !.scan = NoCommand])
<1>1. PICK d : d = onOperationFinished(c, r.scan.id, "Scan", result,
                                       "None", read)
  OBVIOUS
<1>2. PICK q : q = [r EXCEPT !.scan = NoCommand]
  OBVIOUS
<1>3. /\ q \in Radios /\ q.scan = NoCommand /\ q.station = r.station
      /\ q.link = r.link /\ q.enabled = r.enabled /\ q.attached = r.attached
  BY <1>2 DEF Radios, Commands, NoCommand, Transition
<1>4. r.scan.id = 0 => q = r
  BY <1>2 DEF Coherent, Named, Radios
<1>5. CASE c.faulted \/ r.scan.id = 0
  <2>1. d = c
    BY <1>1, <1>5 DEF onOperationFinished
  <2>2. Named(q) /\ Identities(c, q) /\ Lifecycle(c, q)
    BY <1>3 DEF Coherent, Identities, Named, Lifecycle, NoCommand
  <2>3. CASE c.faulted
    BY <1>1, <1>2, <1>3, <2>1, <2>2, <2>3 DEF Coherent, Delivered
  <2>4. CASE r.scan.id = 0
    BY <1>1, <1>2, <1>3, <1>4, <2>1, <2>4 DEF Delivered
  <2> QED BY <1>5, <2>3, <2>4
<1>6. CASE ~c.faulted /\ r.scan.id # 0
  <2>1. Agreed(c, r)
    BY <1>6 DEF Coherent
  <2>2. d = scanFinished(c, result, read)
    BY <1>1, <1>6, <2>1 DEF onOperationFinished, Agreed
  <2>3. /\ OK(d)
        /\ KeptLife(c, d) /\ KeptLink(c, d) /\ KeptStation(c, d)
        /\ d.scan_id = 0 /\ d.scan = "Idle"
    BY <2>2, ScanFinishedSettles
  <2>4. d.running /\ ~d.faulted /\ d.next_id = c.next_id
        /\ d.faulted = c.faulted
    BY <1>6, <2>3 DEF KeptLife
  <2>5. Agreed(d, q)
    <3>1. q.scan.id = 0 /\ ~q.scan.cancel
      BY <1>3 DEF NoCommand
    <3>2. q.scan.cancel = (d.scan = "Cancelling")
      BY <1>3, <2>3, <3>1 DEF Radios, Commands
    <3> QED BY <1>3, <2>1, <2>3, <3>1, <3>2 DEF Agreed, KeptLink, KeptStation
  <2>6. Named(q)
    BY <1>3 DEF Coherent, Named, NoCommand
  <2>7. Identities(d, q)
    BY <1>3, <2>3, <2>4
    DEF Coherent, Identities, KeptLink, KeptStation, NoCommand
  <2>8. Lifecycle(d, q) /\ FaultSettled(d)
    BY <2>4 DEF Lifecycle, FaultSettled
  <2>9. Coherent(d, q)
    BY <2>5, <2>6, <2>7, <2>8 DEF Coherent
  <2> QED BY <1>1, <1>2, <1>3, <2>3, <2>4, <2>9 DEF Delivered
<1> QED BY <1>5, <1>6

(* A delivered completion keeps Inv. *)
LEMMA DeliveredKeepsInv ==
  ASSUME Inv, Ages, Delivered(ctl, ctl', radio'), store' \in Persisted,
         UNCHANGED muted
  PROVE  Inv' /\ Tame
BY InvParts, AgesKeepsInv DEF Delivered, Tame

(* A station completion keeps Inv. *)
LEMMA StationFinishesInv ==
  ASSUME Inv, NEW result \in Status, NEW failure \in Failures,
         NEW answer \in StoreAnswers, StationFinishes(result, failure, answer)
  PROVE  Inv' /\ Tame
<1>1. /\ OK(ctl) /\ ctl.running /\ store \in Persisted
      /\ radio \in Radios /\ Coherent(ctl, radio)
  BY InvParts DEF StationFinishes, Coherent, Lifecycle
<1>2. Delivered(ctl, ctl', radio')
  <2>1. answer \in Status /\ failure \in ConnectionFailure
    BY AnswersTyped, ConstantsAssumption
  <2> QED BY <1>1, <2>1, StationDelivered DEF StationFinishes
<1>3. store' \in Persisted
  <2>1. ctl.enabled \in BOOLEAN /\ ctl.profile \in Ssid
    BY <1>1 DEF OK, Typed
  <2>2. \/ store' = store
        \/ store' = [store EXCEPT !["enabled"] = ctl.enabled]
        \/ store' = [store EXCEPT !["last"] = ctl.profile]
    BY DEF StationFinishes, Written
  <2> QED BY <1>1, <2>1, <2>2 DEF Persisted
<1> QED BY <1>2, <1>3, DeliveredKeepsInv DEF StationFinishes

(* A scan completion keeps Inv. *)
LEMMA ScanFinishesInv ==
  ASSUME Inv, NEW result \in ScanResults, NEW read \in Answers,
         ScanFinishes(result, read)
  PROVE  Inv' /\ Tame
<1>1. /\ OK(ctl) /\ ctl.running /\ store \in Persisted
      /\ radio \in Radios /\ Coherent(ctl, radio)
  BY InvParts DEF ScanFinishes, Coherent, Lifecycle
<1>2. result \in Status /\ read \in Status
  BY AnswersTyped, NamesTyped, AdapterErrorsAssumption DEF ScanResults
<1>3. Delivered(ctl, ctl', radio')
  BY <1>1, <1>2, ScanDelivered DEF ScanFinishes
<1> QED BY <1>1, <1>3, DeliveredKeepsInv DEF ScanFinishes

(* An overflow, which completes both operations, keeps Inv. *)
LEMMA AdapterOverflowsInv == Inv /\ AdapterOverflows => Inv' /\ Tame
<1> SUFFICES ASSUME Inv, AdapterOverflows PROVE Inv' /\ Tame
  OBVIOUS
<1>1. /\ OK(ctl) /\ ctl.running /\ store \in Persisted
      /\ radio \in Radios /\ Coherent(ctl, radio)
  BY InvParts DEF AdapterOverflows, Coherent, Lifecycle
<1>2. /\ FaultResult(radio.station) \in Status
      /\ FaultResult(radio.scan) \in Status /\ "Ok" \in Status
  BY NamesTyped DEF FaultResult
<1>3. PICK d : d = onOperationFinished(ctl, radio.station.id,
                     radio.station.kind, FaultResult(radio.station), "None",
                     "Ok")
  OBVIOUS
<1>4. PICK q : q = [radio EXCEPT !.station = NoCommand]
  OBVIOUS
<1>5. Delivered(ctl, d, q)
  BY <1>1, <1>2, <1>3, <1>4, StationDelivered, ConstantNames
<1>6. q.scan.id = radio.scan.id
  BY <1>1, <1>4 DEF Radios
<1>7. PICK p : p = [q EXCEPT !.scan = NoCommand]
  OBVIOUS
<1>8. ctl' = onOperationFinished(d, q.scan.id, "Scan",
                                 FaultResult(radio.scan), "None", "Ok")
  BY <1>3, <1>6 DEF AdapterOverflows
<1>9. Delivered(d, ctl', p)
  BY <1>2, <1>5, <1>7, <1>8, ScanDelivered DEF Delivered
<1>10. /\ radio' \in Radios /\ radio'.station = p.station
       /\ radio'.scan = p.scan /\ radio'.link = p.link
       /\ radio'.enabled = p.enabled /\ radio'.attached = p.attached
  BY <1>1, <1>4, <1>7
  DEF AdapterOverflows, Radios, Commands, NoCommand, Transition
<1>11. Coherent(ctl', radio')
  <2>1. Coherent(ctl', p) /\ ctl'.running
    BY <1>9 DEF Delivered
  <2> QED BY <1>10, <2>1
    DEF Coherent, Identities, Named, Lifecycle, Agreed
<1>12. Delivered(ctl, ctl', radio')
  BY <1>5, <1>9, <1>10, <1>11 DEF Delivered
<1> QED BY <1>1, <1>12, DeliveredKeepsInv DEF AdapterOverflows

(* A link report keeps Inv. *)
LEMMA LinkChangesInv ==
  ASSUME Inv, NEW link \in NextLinks, NEW reason \in Answers,
         NEW failure \in Failures, LinkChanges(link, reason, failure)
  PROVE  Inv' /\ Tame
<1>1. /\ OK(ctl) /\ ctl.running /\ store \in Persisted
      /\ radio \in Radios /\ Coherent(ctl, radio)
  BY InvParts DEF LinkChanges, Coherent, Lifecycle
<1>2. /\ link \in [id : Nat, phase : LinkPhase]
      /\ \/ link.id = radio.link.id
         \/ link.id = radio.station.id /\ radio.station.kind = "Connect"
  <2>1. radio.link \in [id : Nat, phase : LinkPhase] /\ radio.station.id \in Nat
    BY <1>1 DEF Radios, Commands
  <2>2. \A phase \in NextPhase(radio.link.phase) : phase \in LinkPhase
    BY <2>1 DEF NextPhase, LinkPhase
  <2>3. CASE \E phase \in NextPhase(radio.link.phase) :
               link = [radio.link EXCEPT !.phase = phase]
    BY <2>1, <2>2, <2>3
  <2>4. CASE /\ link = [id |-> radio.station.id, phase |-> "Connecting"]
             /\ radio.station.kind = "Connect"
    BY <2>1, <2>4 DEF LinkPhase
  <2> QED BY <2>3, <2>4 DEF NextLinks
<1>3. reason \in Status /\ failure \in ConnectionFailure
  BY AnswersTyped, ConstantsAssumption
<1>4. /\ OK(ctl') /\ ctl'.enabled = ctl.enabled
      /\ KeptLife(ctl, ctl') /\ KeptStation(ctl, ctl') /\ KeptScan(ctl, ctl')
      /\ ctl'.link = IF /\ ctl.running /\ ~ctl.faulted
                        /\ \/ link.id = ctl.link.id
                           \/ /\ ctl.transition = "Connect"
                              /\ link.id = ctl.station_id
                     THEN link ELSE ctl.link
  <2>1. ctl' = onLinkChanged(ctl, link, reason, failure)
    BY DEF LinkChanges
  <2> QED BY <1>1, <1>2, <1>3, <2>1, OnLinkChangedMoves
<1>5. /\ radio' \in Radios /\ radio'.station = radio.station
      /\ radio'.scan = radio.scan /\ radio'.link = link
      /\ radio'.enabled = radio.enabled
  BY <1>1, <1>2 DEF LinkChanges, Radios
<1>6. ctl'.running /\ ctl'.faulted = ctl.faulted /\ ctl'.next_id = ctl.next_id
  BY <1>1, <1>4 DEF KeptLife
<1>7. Identities(ctl', radio')
  <2>1. Identities(ctl, radio)
    BY <1>1 DEF Coherent
  <2>2. link.id < ctl.next_id
    BY <1>2, <2>1 DEF Identities
  <2>3. ctl'.link = link \/ ctl'.link = ctl.link
    BY <1>4
  <2> QED BY <1>4, <1>5, <1>6, <2>1, <2>2, <2>3
    DEF Identities, KeptStation, KeptScan
<1>8. Named(radio') /\ Lifecycle(ctl', radio') /\ FaultSettled(ctl')
  BY <1>1, <1>4, <1>5, <1>6
  DEF Coherent, Named, Lifecycle, FaultSettled, KeptStation, KeptScan
<1>9. ASSUME ~ctl.faulted
      PROVE  Agreed(ctl', radio')
  <2>1. Agreed(ctl, radio)
    BY <1>1, <1>9 DEF Coherent
  <2>2. ctl'.link = link
    BY <1>1, <1>2, <1>4, <1>9, <2>1 DEF Agreed
  <2> QED BY <1>4, <1>5, <2>1, <2>2 DEF Agreed, KeptStation, KeptScan
<1>10. Coherent(ctl', radio')
  BY <1>6, <1>7, <1>8, <1>9 DEF Coherent
<1>11. Delivered(ctl, ctl', radio')
  BY <1>4, <1>5, <1>6, <1>10 DEF Delivered
<1> QED BY <1>1, <1>11, DeliveredKeepsInv DEF LinkChanges

(* An enablement report keeps Inv. *)
LEMMA EnabledChangesInv ==
  ASSUME Inv, NEW enabled \in BOOLEAN, EnabledChanges(enabled)
  PROVE  Inv' /\ Tame
<1>1. /\ OK(ctl) /\ ctl.running /\ store \in Persisted
      /\ radio \in Radios /\ Coherent(ctl, radio)
  BY InvParts DEF EnabledChanges, Coherent, Lifecycle
<1>2. /\ OK(ctl') /\ ctl'.link = ctl.link
      /\ KeptLife(ctl, ctl') /\ KeptStation(ctl, ctl') /\ KeptScan(ctl, ctl')
      /\ ctl.running /\ ~ctl.faulted => ctl'.enabled = enabled
  BY <1>1, OnEnabledChangedMoves DEF EnabledChanges
<1>3. /\ radio' \in Radios /\ radio'.station = radio.station
      /\ radio'.scan = radio.scan /\ radio'.link = radio.link
      /\ radio'.enabled = enabled
  BY <1>1 DEF EnabledChanges, Radios
<1>4. ctl'.running /\ ctl'.faulted = ctl.faulted /\ ctl'.next_id = ctl.next_id
  BY <1>1, <1>2 DEF KeptLife
<1>5. Identities(ctl', radio')
  BY <1>1, <1>2, <1>3, <1>4
  DEF Coherent, Identities, KeptStation, KeptScan
<1>6. Named(radio') /\ Lifecycle(ctl', radio') /\ FaultSettled(ctl')
  BY <1>1, <1>2, <1>3, <1>4
  DEF Coherent, Named, Lifecycle, FaultSettled, KeptStation, KeptScan
<1>7. ASSUME ~ctl.faulted
      PROVE  Agreed(ctl', radio')
  <2>1. Agreed(ctl, radio)
    BY <1>1, <1>7 DEF Coherent
  <2>2. ctl'.enabled = enabled
    BY <1>1, <1>2, <1>7
  <2> QED BY <1>2, <1>3, <2>1, <2>2 DEF Agreed, KeptStation, KeptScan
<1>8. Coherent(ctl', radio')
  BY <1>4, <1>5, <1>6, <1>7 DEF Coherent
<1>9. Delivered(ctl, ctl', radio')
  BY <1>2, <1>3, <1>4, <1>8 DEF Delivered
<1> QED BY <1>1, <1>9, DeliveredKeepsInv DEF EnabledChanges

-----------------------------------------------------------------------------
(* The specification *)

(* Every step keeps Inv. *)
LEMMA NextInv ==
  ASSUME Inv, Next
  PROVE  /\ Inv' /\ StartsAlone
         /\ ctl.faulted => ctl'.faulted /\ ctl'.next_id = ctl.next_id
<1>1. ASSUME Inv' /\ Tame
      PROVE  /\ Inv' /\ StartsAlone
             /\ ctl.faulted => ctl'.faulted /\ ctl'.next_id = ctl.next_id
  BY <1>1 DEF Tame, StartsAlone
<1>2. CASE Api
  <2>1. ASSUME NEW network \in Networks, NEW answer,
               \/ \E automatic \in BOOLEAN :
                    SaveProfile(network, automatic, answer)
               \/ RemoveProfile(network, answer)
        PROVE  Inv' /\ Tame
    BY <2>1, WriteProfileInv DEF SaveProfile, RemoveProfile, Saved
  <2>2. Inv' /\ Tame
    BY <1>2, <2>1, BeginInv, ShutdownInv, SetEnabledInv, ConnectInv,
       DisconnectInv, StartScanInv, CancelScanInv DEF Api
  <2> QED BY <1>1, <2>2
<1>3. CASE Scheduler
  <2>1. CASE Execute
    <3>1. PICK c : c = Dispatched("work")
      OBVIOUS
    <3>2. "work" \in ctl.tasks /\ Ages /\ UNCHANGED muted
      BY <2>1 DEF Execute
    <3>3. CASE ExecuteAdvances(c)
      BY <3>1, <3>2, <3>3, ExecuteAdvancesInv
    <3>4. CASE \/ ExecuteIgnored(c) \/ ExecuteExhausted(c)
               \/ ExecuteSuperseded(c) \/ ExecuteAwaits(c)
               \/ ExecutePreempts(c) \/ ExecuteRestores(c)
      BY <1>1, <3>1, <3>2, <3>4, ExecuteExitsInv
    <3> QED BY <2>1, <3>1, <3>3, <3>4 DEF Execute
  <2>2. CASE NotifyListeners
    BY <1>1, <2>2, NotifyListenersInv
  <2>3. CASE \E expired \in SUBSET Deadline, answer \in Answers :
               CheckTimeouts(expired, answer)
    BY <1>1, <2>3, CheckTimeoutsInv
  <2>4. CASE \E medium \in StoreAnswers : Retry(medium)
    BY <1>1, <2>4, RetryInv
  <2> QED BY <1>3, <2>1, <2>2, <2>3, <2>4 DEF Scheduler
<1>4. CASE Adapter
  <2>1. Inv' /\ Tame
    BY <1>4, LinkChangesInv, EnabledChangesInv, StationFinishesInv,
       ScanFinishesInv, AdapterOverflowsInv DEF Adapter
  <2> QED BY <1>1, <2>1
<1> QED BY <1>2, <1>3, <1>4 DEF Next

(* A stuttering step keeps Inv. *)
LEMMA StutterInv == Inv /\ UNCHANGED vars => Inv'
BY DEF Inv, TypeOK, vars

(* Inv holds in every reachable state. *)
LEMMA Invariance == Spec => []Inv
<1>1. Inv /\ [Next]_vars => Inv'
  BY NextInv, StutterInv
<1> QED BY <1>1, InitInv, PTL DEF Spec

(* Every field of the controller, the adapter and the store keeps its      *)
(* type, for every number of networks, identities and retry delays;        *)
(* retry_level_ never indexes past RetryOptions::delays_ms.                *)
THEOREM TypeCorrect == Spec => []TypeOK
<1>1. Inv => TypeOK
  BY DEF Inv
<1> QED BY <1>1, Invariance, PTL

(* next_id_ never passes numeric_limits<OperationId>::max() and every      *)
(* identity in use was allocated: execute() needs its exhaustion check     *)
(* only once because one pass starts at most one operation.                *)
THEOREM IdentitiesNeverWrap == Spec => []IdsNeverWrap
<1>1. Inv => IdsNeverWrap
  BY ChecksAreParts
<1> QED BY <1>1, Invariance, PTL

(* The station command, the scan, their cancellations, the link and the    *)
(* enablement that the controller believes in are the adapter's own.       *)
THEOREM BeliefIsTrue == Spec => []BeliefMatchesRadio
<1>1. Inv => BeliefMatchesRadio
  BY ChecksAreParts
<1> QED BY <1>1, Invariance, PTL

(* A native command is only ever submitted to an adapter with nothing      *)
(* outstanding, and a connect to an enabled one without a link.            *)
THEOREM NativeWorkNeverOverlaps == Spec => NoOverlap
<1>1. Inv /\ [Next]_vars
        => [ctl'.next_id # ctl.next_id =>
              /\ radio.station = NoCommand /\ radio.scan = NoCommand
              /\ ctl'.transition = "Connect" =>
                   radio.enabled /\ radio.link.phase = "Idle"]_vars
  BY NextInv DEF StartsAlone
<1> QED BY <1>1, Invariance, PTL DEF Spec, NoOverlap

(* A faulted controller stays faulted and submits nothing until shutdown.  *)
THEOREM FaultsAreFinal == Spec => FaultIsFinal
<1>1. Inv' => (ctl'.faulted => ctl'.station_id = 0 /\ ctl'.scan_id = 0)
  BY DEF Inv, Coherent, FaultSettled
<1>2. Inv /\ [Next]_vars
        => [ctl.faulted => /\ ctl'.faulted /\ ctl'.next_id = ctl.next_id
                           /\ ctl'.station_id = 0 /\ ctl'.scan_id = 0]_vars
  BY <1>1, NextInv
<1> QED BY <1>2, Invariance, PTL DEF Spec, FaultIsFinal

=============================================================================
