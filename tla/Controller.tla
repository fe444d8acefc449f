------------------------------ MODULE Controller -----------------------------
(***************************************************************************)
(* roo_wifi::Controller: it reconciles one replaceable station intent and  *)
(* one scan with a radio adapter that answers asynchronously.              *)
(*                                                                         *)
(* ctl is the controller object.  Its methods are operators from a         *)
(* controller to a controller, named after the methods, so that a method   *)
(* that calls another is a composition and one scheduler task, callback or *)
(* API call is one action.  What a call into the adapter or the store      *)
(* returns is a parameter, chosen by the action.                           *)
(*                                                                         *)
(* radio is any adapter that keeps the contract of hal/interface.h: a      *)
(* command it admits gets at most one deferred completion, a rejected one  *)
(* none; the link changes under the identity of the connect that           *)
(* established it.  It owes no answer at all: only deadlines protect the   *)
(* controller.  store is what hal/store.h persists.                        *)
(*                                                                         *)
(* Time is abstracted: a deadline is armed or not, and the timer task may  *)
(* find any set of the armed deadlines expired.  One relation between them *)
(* is kept, when ShortTransitions says that two transition_timeout_ms are  *)
(* below connect_timeout_ms, and with a connect below stable_connection_ms *)
(* (by default 5, 30 and 60 s): a link deadline armed while execute() is   *)
(* due, or waits for a cancelled scan, cannot expire before execute() has  *)
(* run and the transition it starts is over.                               *)
(*                                                                         *)
(* Definitions named Slip... are mistakes someone could make in the method *)
(* that follows them.  No specification uses them; each shows that some    *)
(* property would notice the mistake.                                      *)
(***************************************************************************)
EXTENDS InterfaceContract

CONSTANTS
  Networks,            \* the SSIDs, each standing for one configuration
  NoNetwork,           \* the empty SSID
  MaxId,               \* numeric_limits<OperationId>::max()
  MaxRetryLevel,       \* last index of RetryOptions::delays_ms
  MaxRevision,         \* bound: API calls that replace the intent
  MaxScans,            \* bound: accepted scans
  MaxWrites,           \* bound: profile saves and removals
  Failures,            \* the ConnectionFailures the adapter reports
  StoreErrors,         \* what the store may answer besides Ok
  ScanWhileConnected,  \* Support::scan_while_connected
  Unsolicited,         \* whether the radio may turn on or off by itself
  Overflows,           \* whether the adapter's event queue may overflow
  ShortTransitions,    \* transition_timeout_ms is short, as by default
  Stores               \* what may be persisted when the program starts

ASSUME ConstantsAssumption ==
  /\ NoNetwork \notin Networks
  /\ MaxId \in Nat \ {0}
  /\ MaxRetryLevel \in Nat
  /\ Failures \subseteq ConnectionFailure
  /\ StoreErrors \subseteq Status \ {"Ok", "NotFound"}
  /\ ScanWhileConnected \in BOOLEAN
  /\ Unsolicited \in BOOLEAN
  /\ Overflows \in BOOLEAN
  /\ ShortTransitions \in BOOLEAN
  /\ Stores \subseteq [enabled : BOOLEAN, last : Networks \cup {NoNetwork},
                       saved : [Networks -> {"absent", "manual", "auto"}]]

VARIABLES       \* and radio, the adapter behind the Interface contract
  ctl,    \* the controller
  store,  \* the persisted preferences and profiles
  muted,  \* an explicit disconnect() is the caller's last word
  young   \* link deadlines too recent to expire before pending work is done

vars == <<ctl, radio, store, muted, young>>

-----------------------------------------------------------------------------
(* The controller object *)

Task == {"work", "timer", "reconnect", "notify"}

Deadline == {"stable", "address", "station", "scan"}

Ssid == Networks \cup {NoNetwork}

(* "auto" and "manual" are the values of auto_connect of a saved profile. *)
Saved == {"absent", "manual", "auto"}

NewController ==
  [running |-> FALSE, closed |-> FALSE, faulted |-> FALSE,
   initialized |-> FALSE,
   \* state_: intent and observation
   desired |-> "Disabled", profile |-> NoNetwork, connected |-> NoNetwork,
   enabled |-> FALSE, link |-> NoLink, revision |-> 0, status |-> "Ok",
   pending |-> FALSE, failure |-> "None",
   scan |-> "Idle", scan_status |-> "Ok", scan_revision |-> 0,
   profiles_generation |-> 0, generation |-> 0,
   \* the accepted input snapshot
   config |-> NoNetwork, secret |-> NoNetwork, auto |-> FALSE,
   restore |-> FALSE,
   \* native work in progress
   transition |-> "None", transition_enabled |-> FALSE, next_id |-> 1,
   station_id |-> 0, scan_id |-> 0, active |-> 0, attempted |-> 0,
   cancelling |-> FALSE, station_timed_out |-> FALSE,
   scan_timed_out |-> FALSE, timeout_failure |-> "None", level |-> 0,
   \* armed deadlines of the link, scheduled tasks, pending invalidations
   armed |-> {}, tasks |-> {}, changes |-> {}]

isScanning(c) == c.scan # "Idle"

Wants(c) == c.desired # "Disabled"

(* state().station *)
stationPhase(c) ==
  IF ~c.running THEN "Disabled"
  ELSE IF c.faulted THEN "Faulted"
  ELSE CASE c.transition = "Enable" ->
              IF c.transition_enabled THEN "Enabling" ELSE "Disabling"
         [] c.transition = "Disconnect" \/ c.cancelling -> "Disconnecting"
         [] OTHER ->
              IF ~c.enabled THEN "Disabled"
              ELSE IF c.link.phase = "AddressReady" THEN "Connected"
              ELSE IF c.link.phase = "Associated" THEN "AwaitingIp"
              ELSE IF c.transition = "Connect" THEN "Connecting" ELSE "Idle"

admission(c) ==
  IF ~c.running \/ c.faulted THEN "NotStarted"
  ELSE IF c.next_id = MaxId THEN "Busy" ELSE "Ok"

changed(c, what) ==
  IF c.running
  THEN [c EXCEPT !.changes = @ \cup {what}, !.tasks = @ \cup {"notify"}]
  ELSE c

scheduleWork(c) == [c EXCEPT !.tasks = @ \cup {"work"}]

Deadlines(c) ==
  c.armed \cup {d \in {"station"} : c.station_id # 0}
          \cup {d \in {"scan"} : c.scan_id # 0}

SlipScanNotTimed(c) ==
  [c EXCEPT !.tasks = IF c.armed = {} /\ c.station_id = 0 THEN @ \ {"timer"}
                      ELSE @ \cup {"timer"}]

scheduleTimeouts(c) ==
  [c EXCEPT !.tasks = IF Deadlines(c) = {} THEN @ \ {"timer"}
                                           ELSE @ \cup {"timer"}]

SlipRetryTaskLeft(c) == [c EXCEPT !.pending = FALSE]

cancelRetry(c) == [c EXCEPT !.tasks = @ \ {"reconnect"}, !.pending = FALSE]

Replaced(c) ==
  changed([cancelRetry(c) EXCEPT !.revision = @ + 1, !.status = "Ok",
                                 !.failure = "None", !.level = 0,
                                 !.armed = {}], "station")

SlipIntentNotScheduled(c) == Replaced(c)

newIntent(c) == scheduleWork(Replaced(c))

fault(c, status) ==
  LET stopped == IF isScanning(c)
                 THEN changed([c EXCEPT !.scan = "Idle",
                                        !.scan_status = status], "scan")
                 ELSE c
      settled == [stopped EXCEPT !.faulted = TRUE, !.status = status,
                                 !.scan_id = 0, !.station_id = 0,
                                 !.transition = "None",
                                 !.secret = NoNetwork, !.armed = {},
                                 !.tasks = @ \ {"timer"}]
  IN  changed(cancelRetry(settled), "station")

SlipLevelUncapped(level) == level + 1

nextLevel(level) == IF level < MaxRetryLevel THEN level + 1 ELSE level

(* Retries also follow the loss of an established link. *)
connectionFailed(c, status, failure) ==
  LET failed == [c EXCEPT !.status = status, !.armed = {},
                          !.failure = IF failure = "None" THEN "Transient"
                                                          ELSE failure]
  IN  IF /\ c.auto
         /\ c.desired = "Connected"
         /\ status \in {"ConnectionFailed", "Timeout"}
      THEN [failed EXCEPT !.pending = TRUE,
                          !.level = nextLevel(@),
                          !.tasks = @ \cup {"reconnect"}]
      ELSE failed

requestStatus(c) ==
  IF admission(c) = "Ok" /\ ~Wants(c) THEN "Disabled" ELSE admission(c)

requestConnection(c, network, profile, automatic) ==
  IF /\ c.desired = "Connected" /\ c.status = "Ok"
     /\ c.profile = profile /\ c.config = network /\ c.secret = network
  THEN [c EXCEPT !.auto = automatic]
  ELSE newIntent([c EXCEPT !.config = network, !.secret = network,
                           !.desired = "Connected", !.profile = profile,
                           !.auto = automatic, !.restore = FALSE])

(* answer is what Interface::cancelScan() returns for a running scan. *)
cancelScan(c, answer) ==
  LET Announce(d) == scheduleTimeouts(scheduleWork(changed(d, "scan")))
  IN  CASE c.scan = "Queued" ->
             Announce([c EXCEPT !.scan = "Idle", !.scan_status = "Cancelled"])
        [] c.scan = "Running" /\ answer = "Ok" ->
             Announce([c EXCEPT !.scan = "Cancelling"])
        [] OTHER -> c

cancelScanStatus(c, answer) == IF c.scan = "Running" THEN answer ELSE "Ok"

SlipCancelForgotten(c, result, read) ==
  IF c.scan_timed_out THEN "Timeout" ELSE IF result = "Ok" THEN read ELSE result

(* result is the status the adapter reports, read the outcome of           *)
(* readScanResults(), record counts above the capacity included.           *)
scanOutcome(c, result, read) ==
  CASE c.scan_timed_out -> "Timeout"
    [] ~c.scan_timed_out /\ c.scan = "Cancelling" -> "Cancelled"
    [] OTHER -> IF result = "Ok" THEN read ELSE result

scanFinished(c, result, read) ==
  LET status == scanOutcome(c, result, read)
      settled == [c EXCEPT !.scan_id = 0, !.scan = "Idle",
                           !.scan_status = status,
                           !.generation = IF status = "Ok" THEN @ + 1 ELSE @]
  IN  scheduleTimeouts(scheduleWork(changed(settled, "scan")))

SlipNeverSuperseded(c) == FALSE

superseded(c) == c.active # c.revision

StationStatus(c, result) == IF c.station_timed_out THEN "Timeout" ELSE result

SlipSupersededNotPersisted(c, result) ==
  c.transition = "Enable" /\ StationStatus(c, result) = "Ok" /\ ~superseded(c)

(* The writes a station completion makes before it reports its outcome. *)
WritesEnabled(c, result) ==
  c.transition = "Enable" /\ StationStatus(c, result) = "Ok"

WritesLast(c, result) ==
  /\ c.transition = "Connect" /\ StationStatus(c, result) = "Ok"
  /\ ~superseded(c) /\ c.profile # NoNetwork

SlipStaysCancelling(c) == [c EXCEPT !.station_id = 0, !.transition = "None"]

retireStation(c) == [c EXCEPT !.station_id = 0, !.transition = "None",
                              !.cancelling = FALSE]

(* written is what the store answers to that write, if there is one. *)
stationFinished(c, result, failure, written) ==
  LET completed == c.transition
      status == IF WritesEnabled(c, result) \/ WritesLast(c, result)
                THEN written ELSE StationStatus(c, result)
      retired == [retireStation(c) EXCEPT
                    !.initialized = @ \/ WritesEnabled(c, result)]
      current == [retired EXCEPT
                    !.status = status,
                    !.connected = IF /\ completed = "Connect"
                                     /\ StationStatus(c, result) = "Ok"
                                  THEN c.profile ELSE @,
                    !.attempted = IF completed = "Connect" \/ status # "Ok"
                                  THEN c.revision ELSE @]
      charged == IF /\ completed = "Connect"
                    /\ status \notin {"Ok", "Cancelled"}
                 THEN connectionFailed(current, status,
                        IF c.station_timed_out THEN c.timeout_failure
                                               ELSE failure)
                 ELSE current
      outcome == IF superseded(c) THEN retired ELSE charged
  IN  scheduleTimeouts(scheduleWork(changed(outcome, "station")))

SlipEnablementUnannounced(c, enabled) ==
  IF c.running /\ ~c.faulted THEN [c EXCEPT !.enabled = enabled] ELSE c

onEnabledChanged(c, enabled) ==
  IF c.running /\ ~c.faulted
  THEN changed([c EXCEPT !.enabled = enabled], "station")
  ELSE c

Established(c, link) ==
  LET previous == c.link.phase
      up == [c EXCEPT !.link = link,
                      !.armed = (@ \ {"address"}) \cup
                                {d \in {"stable"} : previous # "AddressReady"}]
      recovers == /\ c.transition = "None"
                  /\ \/ c.pending
                     \/ /\ previous # "AddressReady"
                        /\ c.failure = "AddressTimeout"
  IN  IF recovers
      THEN [cancelRetry(up) EXCEPT !.attempted = c.revision, !.status = "Ok"]
      ELSE up

Degraded(c, link) ==
  LET losesAddress == /\ c.link.phase = "AddressReady"
                      /\ link.phase = "Associated"
                      /\ c.transition = "None"
  IN  [c EXCEPT !.link = link,
                !.armed = (@ \ {"stable"}) \cup
                          {d \in {"address"} : losesAddress}]

Lost(c, link, reason, failure) ==
  LET down == [c EXCEPT !.link = link, !.armed = {},
                        !.connected = NoNetwork]
  IN  IF /\ c.transition = "None"
         /\ c.link.phase # "Idle"
         /\ c.desired = "Connected"
      THEN connectionFailed(down, IF reason = "Ok" THEN "ConnectionFailed"
                                                   ELSE reason, failure)
      ELSE down

onLinkChanged(c, link, reason, failure) ==
  IF /\ c.running /\ ~c.faulted
     /\ \/ link.id = c.link.id
        \/ c.transition = "Connect" /\ link.id = c.station_id
  THEN LET d == CASE link.phase = "AddressReady" -> Established(c, link)
                  [] link.phase = "Idle" -> Lost(c, link, reason, failure)
                  [] OTHER -> Degraded(c, link)
       IN  scheduleTimeouts(changed(d, "station"))
  ELSE c

(* A completion is taken only under the identity and the kind it is        *)
(* expected with.                                                          *)
onOperationFinished(c, id, kind, result, failure, answer) ==
  LET live == c.running /\ ~c.faulted /\ id # 0
      ofScan == live /\ id = c.scan_id /\ kind = "Scan"
  IN  CASE ofScan -> scanFinished(c, result, answer)
        [] live /\ ~ofScan /\ id = c.station_id /\ kind = c.transition ->
             stationFinished(c, result, failure, answer)
        [] OTHER -> c

-----------------------------------------------------------------------------
(* execute() and the other scheduler tasks *)

needsStation(c) == ~c.initialized \/ c.attempted # c.revision

(* Submits one station command; answer is the adapter's admission. *)
startTransition(c, kind, answer) ==
  LET submitted == changed([c EXCEPT !.transition = kind,
                                     !.transition_enabled =
                                       IF kind = "Enable" THEN Wants(c) ELSE @,
                                     !.station_id = c.next_id,
                                     !.next_id = @ + 1], "station")
  IN  IF answer = "Ok" THEN submitted
      ELSE onOperationFinished(submitted, c.next_id, kind, answer, "None",
                               "Ok")

startScanning(c, answer) ==
  LET submitted == changed([c EXCEPT !.scan = "Running",
                                     !.scan_id = c.next_id,
                                     !.next_id = @ + 1], "scan")
  IN  IF answer = "Ok" THEN submitted
      ELSE onOperationFinished(submitted, c.next_id, "Scan", answer, "None",
                               "Ok")

(* The native step, if any, that takes the station towards the intent. *)
advance(c, answer) ==
  LET d == [c EXCEPT !.active = c.revision, !.station_timed_out = FALSE]
  IN  CASE c.link.phase # "Idle" -> startTransition(d, "Disconnect", answer)
        [] c.link.phase = "Idle" /\ (~c.initialized \/ c.enabled # Wants(c)) ->
             startTransition(d, "Enable", answer)
        [] OTHER ->
             IF c.desired = "Connected"
             THEN startTransition(d, "Connect", answer)
             ELSE changed([d EXCEPT !.attempted = c.revision], "station")

SlipRestoresTooLate(c) ==
  /\ needsStation(c) /\ ~c.pending /\ c.restore /\ c.desired = "Connected"
  /\ c.link.phase = "Idle" /\ c.initialized /\ c.enabled = Wants(c)

Restores(c) ==
  /\ needsStation(c) /\ ~c.pending /\ c.restore
  /\ c.link.phase = "Idle" /\ c.initialized /\ c.enabled = Wants(c)

(* last is the persisted SSID, status what reading it and its profile      *)
(* answers, automatic the profile's auto_connect flag.                     *)
restoreProfile(c, last, status, automatic) ==
  LET d == [c EXCEPT !.active = c.revision, !.station_timed_out = FALSE,
                     !.restore = FALSE]
      outcome == IF status = "Ok" /\ automatic THEN requestStatus(d)
                                               ELSE status
  IN  CASE last = NoNetwork /\ outcome = "Ok" -> d
        [] last # NoNetwork /\ outcome = "Ok" ->
             IF automatic THEN requestConnection(d, last, last, TRUE) ELSE d
        [] OTHER -> changed([d EXCEPT !.status = outcome], "station")

stationExpired(c, answer) ==
  LET timedOut == [c EXCEPT !.station_timed_out = TRUE,
                            !.timeout_failure =
                              IF c.link.phase = "Associated"
                              THEN "AddressTimeout" ELSE "ConnectionTimeout"]
  IN  CASE c.transition # "Connect" \/ c.cancelling -> fault(c, "Timeout")
        [] c.transition = "Connect" /\ ~c.cancelling ->
             IF answer = "Ok"
             THEN changed([timedOut EXCEPT !.cancelling = TRUE], "station")
             ELSE fault(timedOut, "Timeout")

scanExpired(c, answer) ==
  LET timedOut == [c EXCEPT !.scan_timed_out = TRUE]
  IN  CASE c.scan = "Cancelling" -> fault(c, "Timeout")
        [] c.scan # "Cancelling" ->
             IF cancelScanStatus(c, answer) = "Ok"
             THEN cancelScan(timedOut, answer) ELSE fault(timedOut, "Timeout")

(* answer is what the cancellation it submits, if any, is told. *)
checkTimeouts(c, expired, answer) ==
  LET stable == IF "stable" \in expired
                THEN changed([c EXCEPT !.armed = @ \ {"stable"},
                                       !.pending = FALSE, !.failure = "None",
                                       !.level = 0], "station")
                ELSE c
      address == IF "address" \in expired
                 THEN changed(connectionFailed(stable, "Timeout",
                                               "AddressTimeout"), "station")
                 ELSE stable
      station == IF "station" \in expired
                 THEN stationExpired(address, answer) ELSE address
      scan == IF "scan" \in expired /\ ~station.faulted
              THEN scanExpired(station, answer) ELSE station
  IN  IF ~c.running \/ c.faulted THEN c
      ELSE IF scan.faulted THEN scan ELSE scheduleTimeouts(scan)

(* status is what loadProfile(desired_profile) answers, automatic the      *)
(* auto_connect flag it finds.                                             *)
retry(c, status, automatic) ==
  LET d == cancelRetry(c)
  IN  CASE ~c.running \/ c.faulted \/ c.desired # "Connected" \/ ~c.auto -> d
        [] OTHER ->
           IF status = "Ok" /\ automatic
           THEN scheduleWork(changed([d EXCEPT !.attempted = 0,
                                               !.status = "Ok"], "station"))
           ELSE changed([d EXCEPT !.auto = FALSE,
                                  !.status = IF status = "Ok" THEN @
                                                              ELSE status],
                        "station")

-----------------------------------------------------------------------------
(* The adapter and the store, as the controller may rely on them *)

(* The commands outstanding once the adapter has admitted what the         *)
(* controller submitted on its way from c to d.                            *)
StationCommand(cmd, c, d) ==
  IF d.station_id \notin {0, c.station_id}
  THEN [id |-> d.station_id, kind |-> d.transition,
        enabled |-> d.transition_enabled, cancel |-> FALSE]
  ELSE [cmd EXCEPT !.cancel = @ \/ (d.cancelling /\ ~c.cancelling)]

ScanCommand(cmd, c, d) ==
  IF d.scan_id \notin {0, c.scan_id}
  THEN [id |-> d.scan_id, kind |-> "Scan", enabled |-> FALSE,
        cancel |-> FALSE]
  ELSE [cmd EXCEPT !.cancel =
          @ \/ (d.scan = "Cancelling" /\ c.scan # "Cancelling")]

Submitted(r, c, d) ==
  [r EXCEPT !.station = StationCommand(@, c, d),
            !.scan = ScanCommand(@, c, d)]

StoreAnswers == {"Ok"} \cup StoreErrors

(* The contents a write of v to field f may leave behind. *)
Written(s, f, v, answer) ==
  {t \in {s, [s EXCEPT ![f] = v]} :
     /\ answer = "Ok" => t = [s EXCEPT ![f] = v]
     /\ answer \notin {"Ok", "CommitUnknown"} => t = s}

(* What loading the profile of n answers when the medium answers medium. *)
LoadStatus(s, n, medium) ==
  IF medium = "Ok" /\ (n = NoNetwork \/ s.saved[n] = "absent")
  THEN "NotFound" ELSE medium

IsAuto(s, n) == n # NoNetwork /\ s.saved[n] = "auto"

(* The window in which execute() is due, or what it waits for or started   *)
(* is not over, each timed by transition_timeout_ms but for a connect, and *)
(* the link deadlines armed within it, which every step carries along.     *)
Reconciling(c) ==
  "work" \in c.tasks \/ c.transition # "None" \/ c.scan = "Cancelling"

Ages ==
  young' = IF Reconciling(ctl) /\ Reconciling(ctl')
           THEN (young \cap ctl'.armed) \cup (ctl'.armed \ ctl.armed)
           ELSE {}

-----------------------------------------------------------------------------
(* API calls.  A call that only returns an error changes nothing. *)

Accepts == admission(ctl) = "Ok"

(* The adapter's begin() emits nothing; a failing store or adapter leaves  *)
(* the controller as it was.                                               *)
Begin ==
  /\ ~ctl.closed /\ ~ctl.running
  /\ ctl' = newIntent(changed([ctl EXCEPT
               !.running = TRUE, !.restore = store.enabled,
               !.desired = IF store.enabled THEN "Disconnected"
                                            ELSE "Disabled"], "profiles"))
  /\ radio' = [radio EXCEPT !.attached = TRUE]
  /\ UNCHANGED <<store, muted>>
  /\ Ages

Shutdown ==
  /\ ~ctl.closed
  /\ ctl' = [NewController EXCEPT
               !.closed = TRUE, !.faulted = ctl.faulted,
               !.initialized = ctl.initialized, !.config = ctl.config,
               !.auto = ctl.auto, !.restore = ctl.restore,
               !.transition_enabled = ctl.transition_enabled,
               !.next_id = ctl.next_id, !.active = ctl.active,
               !.attempted = ctl.attempted, !.cancelling = ctl.cancelling,
               !.station_timed_out = ctl.station_timed_out,
               !.scan_timed_out = ctl.scan_timed_out,
               !.timeout_failure = ctl.timeout_failure,
               !.level = ctl.level, !.armed = ctl.armed]
  /\ radio' = NewRadio
  /\ UNCHANGED <<store, muted>>
  /\ Ages

SlipSecretKept(c) == [c EXCEPT !.profile = NoNetwork]

(* What SetEnabled and Disconnect drop of the accepted input. *)
WithoutInput(c) == [c EXCEPT !.profile = NoNetwork, !.secret = NoNetwork]

SetEnabled(enabled) ==
  /\ Accepts /\ ctl.revision < MaxRevision
  /\ enabled # Wants(ctl) \/ ctl.status # "Ok"
  /\ ctl' = newIntent([WithoutInput(ctl) EXCEPT
               !.desired = IF enabled THEN "Disconnected" ELSE "Disabled",
               !.auto = FALSE, !.restore = enabled])
  /\ muted' = (muted /\ ~enabled)
  /\ UNCHANGED <<radio, store>>
  /\ Ages

Connect(network) ==
  /\ requestStatus(ctl) = "Ok" /\ ctl.revision < MaxRevision
  /\ ctl' = requestConnection(ctl, network, NoNetwork, FALSE)
  /\ muted' = FALSE
  /\ UNCHANGED <<radio, store>>
  /\ Ages

ConnectProfile(network) ==
  /\ requestStatus(ctl) = "Ok" /\ ctl.revision < MaxRevision
  /\ LoadStatus(store, network, "Ok") = "Ok"
  /\ ctl' = requestConnection(ctl, network, network, IsAuto(store, network))
  /\ muted' = FALSE
  /\ UNCHANGED <<radio, store>>
  /\ Ages

SlipRestoreKept(c) == [c EXCEPT !.auto = FALSE]

Quieted(c) == [c EXCEPT !.restore = FALSE, !.auto = FALSE]

Disconnect ==
  /\ Accepts /\ ctl.revision < MaxRevision
  /\ ctl' = IF ctl.desired # "Connected" /\ ctl.status = "Ok"
            THEN Quieted(ctl)
            ELSE newIntent([WithoutInput(Quieted(ctl)) EXCEPT
                   !.desired = IF @ = "Disabled" THEN @ ELSE "Disconnected"])
  /\ muted' = TRUE
  /\ UNCHANGED <<radio, store>>
  /\ Ages

StartScan ==
  /\ Accepts /\ ctl.scan_revision < MaxScans
  /\ Wants(ctl) /\ ctl.enabled
  /\ ~isScanning(ctl) /\ ctl.transition = "None"
  /\ ctl.attempted = ctl.revision
  /\ ctl.link.phase = "Idle" \/ ScanWhileConnected
  /\ ctl' = scheduleWork(changed([ctl EXCEPT
               !.scan = "Queued", !.scan_status = "Ok",
               !.scan_revision = @ + 1, !.scan_timed_out = FALSE], "scan"))
  /\ UNCHANGED <<radio, store, muted>>
  /\ Ages

CancelScan(answer) ==
  /\ ctl.running
  /\ ctl' = cancelScan(ctl, answer)
  /\ radio' = Submitted(radio, ctl, ctl')
  /\ UNCHANGED <<store, muted>>
  /\ Ages

(* A failed save or removal may have taken effect in part: the profile     *)
(* then is as before, as requested, or no longer readable.                 *)
WriteProfile(network, value, answer) ==
  /\ ctl.running /\ ctl.profiles_generation < MaxWrites
  /\ \E left \in {store.saved[network], value, "absent"} :
       /\ answer = "Ok" => left = value
       /\ store' = [store EXCEPT !.saved[network] = left]
  /\ ctl' = changed([ctl EXCEPT !.profiles_generation = @ + 1], "profiles")
  /\ UNCHANGED <<radio, muted>>
  /\ Ages

SaveProfile(network, automatic, answer) ==
  WriteProfile(network, IF automatic THEN "auto" ELSE "manual", answer)

RemoveProfile(network, answer) == WriteProfile(network, "absent", answer)

-----------------------------------------------------------------------------
(* Scheduler tasks *)

Dispatched(task) == [ctl EXCEPT !.tasks = @ \ {task}]

NotifyListeners ==
  /\ "notify" \in ctl.tasks
  /\ ctl' = [Dispatched("notify") EXCEPT !.changes = {}]
  /\ UNCHANGED <<radio, store, muted>>
  /\ Ages

(* execute(): each alternative is one of its exits. *)
ExecuteIgnored(c) ==
  /\ ~c.running \/ c.faulted
  /\ ctl' = c
  /\ UNCHANGED <<radio, store>>

SlipNeverExhausted(c) == c.running /\ ~c.faulted

SlipFaultIgnored(c) == c.running /\ c.next_id # MaxId

Live(c) == c.running /\ ~c.faulted /\ c.next_id # MaxId

ExecuteExhausted(c) ==
  /\ c.running /\ ~c.faulted /\ c.next_id = MaxId
  /\ ctl' = fault(c, "Busy")
  /\ UNCHANGED <<radio, store>>

ExecuteSuperseded(c) ==
  /\ Live(c)
  /\ c.transition = "Connect" /\ superseded(c) /\ ~c.cancelling
  /\ \E answer \in Answers :
       ctl' = IF answer = "Ok"
              THEN scheduleTimeouts(changed([c EXCEPT !.cancelling = TRUE],
                                            "station"))
              ELSE fault(c, answer)
  /\ radio' = Submitted(radio, ctl, ctl')
  /\ UNCHANGED store

ExecuteAwaits(c) ==
  /\ Live(c) /\ c.transition # "None"
  /\ ~(c.transition = "Connect" /\ superseded(c) /\ ~c.cancelling)
  /\ ctl' = scheduleTimeouts(c)
  /\ UNCHANGED <<radio, store>>

(* A scan that is on the radio is torn down before the station moves. *)
ExecutePreempts(c) ==
  /\ Live(c) /\ c.transition = "None"
  /\ needsStation(c) /\ c.scan \in {"Running", "Cancelling"}
  /\ \E answer \in Answers :
       ctl' = IF cancelScanStatus(c, answer) = "Ok" THEN cancelScan(c, answer)
              ELSE fault(c, answer)
  /\ radio' = Submitted(radio, ctl, ctl')
  /\ UNCHANGED store

(* The controller when execute() reaches the station, a queued scan being  *)
(* dropped if the station has to move.                                     *)
Unqueued(c) == IF needsStation(c) THEN cancelScan(c, "Ok") ELSE c

SlipScanNotTornDown(c) == Live(c) /\ c.transition = "None"

Reaches(c) ==
  /\ Live(c) /\ c.transition = "None"
  /\ needsStation(c) => c.scan \in {"Idle", "Queued"}

ExecuteRestores(c) ==
  /\ Reaches(c) /\ Restores(c)
  /\ \E medium \in StoreAnswers :
       ctl' = scheduleWork(
                restoreProfile(Unqueued(c), store.last,
                  IF store.last = NoNetwork THEN medium
                  ELSE LoadStatus(store, store.last, medium),
                  IsAuto(store, store.last)))
  /\ UNCHANGED <<radio, store>>

ExecuteAdvances(c) ==
  /\ Reaches(c) /\ ~Restores(c)
  /\ \E answer \in Answers :
       LET d == IF needsStation(c) /\ ~c.pending
                THEN advance(Unqueued(c), answer) ELSE Unqueued(c)
           e == IF d.transition = "None" /\ d.scan = "Queued"
                THEN startScanning(d, answer) ELSE d
       IN  ctl' = scheduleTimeouts(e)
  /\ radio' = Submitted(radio, ctl, ctl')
  /\ UNCHANGED store

Execute ==
  /\ "work" \in ctl.tasks
  /\ LET c == Dispatched("work")
     IN  \/ ExecuteIgnored(c)
         \/ ExecuteExhausted(c)
         \/ ExecuteSuperseded(c)
         \/ ExecuteAwaits(c)
         \/ ExecutePreempts(c)
         \/ ExecuteRestores(c)
         \/ ExecuteAdvances(c)
  /\ UNCHANGED muted
  /\ Ages

CheckTimeouts(expired, answer) ==
  /\ "timer" \in ctl.tasks
  /\ expired \subseteq Deadlines(ctl)
  /\ ShortTransitions => expired \cap young = {}
  /\ ctl' = checkTimeouts(Dispatched("timer"), expired, answer)
  /\ radio' = Submitted(radio, ctl, ctl')
  /\ UNCHANGED <<store, muted>>
  /\ Ages

Retry(medium) ==
  /\ "reconnect" \in ctl.tasks
  /\ ctl' = retry(Dispatched("reconnect"),
                  LoadStatus(store, ctl.profile, medium),
                  IsAuto(store, ctl.profile))
  /\ UNCHANGED <<radio, store, muted>>
  /\ Ages

-----------------------------------------------------------------------------
(* Deferred deliveries of the adapter *)

LinkChanges(link, reason, failure) ==
  /\ radio.attached /\ ~radio.dead
  /\ link.phase # "Idle" => reason = "Ok" /\ failure = "None"
  /\ radio' = [radio EXCEPT !.link = link]
  /\ ctl' = onLinkChanged(ctl, link, reason, failure)
  /\ UNCHANGED <<store, muted>>
  /\ Ages

EnabledChanges(enabled) ==
  /\ radio.attached /\ ~radio.dead
  /\ \/ Unsolicited
     \/ radio.station.kind = "Enable" /\ enabled = radio.station.enabled
  /\ radio' = [radio EXCEPT !.enabled = enabled]
  /\ ctl' = onEnabledChanged(ctl, enabled)
  /\ UNCHANGED <<store, muted>>
  /\ Ages

StationFinishes(result, failure, answer) ==
  /\ radio.attached /\ radio.station.id # 0
  /\ result \in StationResults
  /\ failure # "None" => /\ radio.station.kind = "Connect"
                         /\ result \notin {"Ok", "Cancelled"}
  /\ LET cmd == radio.station
         taken == ctl.running /\ ~ctl.faulted /\ cmd.id = ctl.station_id
     IN  /\ ctl' = onOperationFinished(ctl, cmd.id, cmd.kind, result, failure,
                                       answer)
         /\ store' \in IF taken /\ WritesEnabled(ctl, result)
                       THEN Written(store, "enabled", ctl.enabled, answer)
                       ELSE IF taken /\ WritesLast(ctl, result)
                       THEN Written(store, "last", ctl.profile, answer)
                       ELSE {store}
  /\ radio' = [radio EXCEPT !.station = NoCommand]
  /\ UNCHANGED muted
  /\ Ages

ScanFinishes(result, read) ==
  /\ radio.attached /\ radio.scan.id # 0
  /\ result \in ScanResults
  /\ ctl' = onOperationFinished(ctl, radio.scan.id, "Scan", result, "None",
                                read)
  /\ radio' = [radio EXCEPT !.scan = NoCommand]
  /\ UNCHANGED <<store, muted>>
  /\ Ages

(* The queue overflows: drain() settles both operations and the adapter    *)
(* neither reports nor admits anything any more.                           *)
AdapterOverflows ==
  /\ Overflows /\ radio.attached /\ ~radio.dead
  /\ LET settled == onOperationFinished(ctl, radio.station.id,
                      radio.station.kind, FaultResult(radio.station), "None",
                      "Ok")
     IN  ctl' = onOperationFinished(settled, radio.scan.id, "Scan",
                  FaultResult(radio.scan), "None", "Ok")
  /\ radio' = [radio EXCEPT !.dead = TRUE, !.station = NoCommand,
                            !.scan = NoCommand]
  /\ UNCHANGED <<store, muted>>
  /\ Ages

-----------------------------------------------------------------------------

Init ==
  /\ ctl = NewController
  /\ radio = NewRadio
  /\ store \in Stores
  /\ muted = FALSE
  /\ young = {}

Api ==
  \/ Begin
  \/ Shutdown
  \/ \E enabled \in BOOLEAN : SetEnabled(enabled)
  \/ \E network \in Networks : Connect(network) \/ ConnectProfile(network)
  \/ Disconnect
  \/ StartScan
  \/ \E answer \in Answers : CancelScan(answer)
  \/ \E network \in Networks, answer \in StoreAnswers :
       \/ \E automatic \in BOOLEAN : SaveProfile(network, automatic, answer)
       \/ RemoveProfile(network, answer)

Scheduler ==
  \/ NotifyListeners
  \/ Execute
  \/ \E expired \in SUBSET Deadline, answer \in Answers :
       CheckTimeouts(expired, answer)
  \/ \E medium \in StoreAnswers : Retry(medium)

Adapter ==
  \/ \E link \in NextLinks, reason \in Answers, failure \in Failures :
       LinkChanges(link, reason, failure)
  \/ \E enabled \in BOOLEAN : EnabledChanges(enabled)
  \/ \E result \in Status, failure \in Failures, answer \in StoreAnswers :
       StationFinishes(result, failure, answer)
  \/ \E result \in ScanResults, read \in Answers :
       ScanFinishes(result, read)
  \/ AdapterOverflows

Next == Api \/ Scheduler \/ Adapter

Spec == Init /\ [][Next]_vars

(* The scheduler dispatches what is due and time passes, so that a         *)
(* deadline that stays armed expires; the adapter may stay silent.         *)
Fairness ==
  /\ WF_vars(Execute)
  /\ WF_vars(NotifyListeners)
  /\ WF_vars(\E medium \in StoreAnswers : Retry(medium))
  /\ \A deadline \in Deadline :
       WF_vars(\E expired \in SUBSET Deadline, answer \in Answers :
                 deadline \in expired /\ CheckTimeouts(expired, answer))

FairSpec == Spec /\ Fairness

-----------------------------------------------------------------------------
(* Properties *)

Controllers ==
  [running : BOOLEAN, closed : BOOLEAN, faulted : BOOLEAN,
   initialized : BOOLEAN,
   desired : Target, profile : Ssid, connected : Ssid, enabled : BOOLEAN,
   link : [id : Nat, phase : LinkPhase], revision : Nat, status : Status,
   pending : BOOLEAN, failure : ConnectionFailure,
   scan : ScanPhase, scan_status : Status, scan_revision : Nat,
   profiles_generation : Nat, generation : Nat,
   config : Ssid, secret : Ssid, auto : BOOLEAN, restore : BOOLEAN,
   transition : Transition, transition_enabled : BOOLEAN, next_id : Nat,
   station_id : Nat, scan_id : Nat, active : Nat, attempted : Nat,
   cancelling : BOOLEAN, station_timed_out : BOOLEAN,
   scan_timed_out : BOOLEAN, timeout_failure : ConnectionFailure,
   level : 0..MaxRetryLevel,
   armed : SUBSET {"stable", "address"}, tasks : SUBSET Task,
   changes : SUBSET Change]

(* Every field keeps its type; retry_level_ in particular never indexes    *)
(* past the last entry of RetryOptions::delays_ms.                         *)
TypeOK ==
  /\ ctl \in Controllers
  /\ radio \in Radios
  /\ store \in [enabled : BOOLEAN, last : Ssid, saved : [Networks -> Saved]]
  /\ muted \in BOOLEAN
  /\ young \subseteq {"stable", "address"}

Running == ctl.running /\ ~ctl.faulted

(* The identity counter stops at its maximum and never wraps (execute()    *)
(* checks once and then allocates, operation.h promises identities that    *)
(* are never reused), so an execute() pass starts at most one operation;   *)
(* and everything in flight has an identity handed out before.             *)
IdsNeverWrap ==
  /\ ctl.next_id \in 1..MaxId
  /\ ctl.station_id < ctl.next_id /\ ctl.scan_id < ctl.next_id
  /\ radio.station.id < ctl.next_id /\ radio.scan.id < ctl.next_id
  /\ ctl.link.id < ctl.next_id /\ radio.link.id < ctl.next_id

(* What the controller believes to be outstanding is what the adapter      *)
(* really has outstanding, of the same kind and with the same cancellation *)
(* request; and the link it reports is the one the adapter last reported.  *)
BeliefMatchesRadio ==
  Running =>
    /\ radio.station.id = ctl.station_id
    /\ radio.station.kind = ctl.transition
    /\ radio.station.cancel = ctl.cancelling
    /\ radio.scan.id = ctl.scan_id
    /\ radio.scan.cancel = (ctl.scan = "Cancelling")
    /\ ctl.scan_id # 0 <=> ctl.scan \in {"Running", "Cancelling"}
    /\ radio.link = ctl.link
    /\ radio.enabled = ctl.enabled

(* Native work never overlaps: a command goes out only when the adapter    *)
(* has nothing outstanding, neither a station command, a scan nor a        *)
(* teardown, and a connect only to an enabled and idle radio (the          *)
(* conditions of OrderedInterface::stationAdmission and connect).          *)
NoOverlap ==
  [][ctl'.next_id # ctl.next_id =>
       /\ radio.station = NoCommand /\ radio.scan = NoCommand
       /\ ctl'.transition = "Connect" =>
            radio.enabled /\ radio.link.phase = "Idle"]_vars

(* No deadline is lost: while native work, an unstable connection or a     *)
(* lost address is being timed, the timer task is scheduled, whatever      *)
(* sequence of handlers re-armed or cancelled it.                          *)
TimerArmed == Running /\ Deadlines(ctl) # {} => "timer" \in ctl.tasks

(* state().retry.pending tells the truth about the reconnect task, and a   *)
(* retry only waits for an automatic connection intent, with no connect or *)
(* enable going on and no stable link that would forget the failure under  *)
(* it.                                                                     *)
RetryIsArmed ==
  Running =>
    /\ ctl.pending <=> "reconnect" \in ctl.tasks
    /\ ctl.pending => /\ ctl.auto /\ ctl.desired = "Connected"
                      /\ ctl.transition \in {"None", "Disconnect"}
                      /\ "stable" \notin ctl.armed

(* Outcome "Ok" of an intent that has been attempted means that the        *)
(* physical state is there: no link unless one is wanted, and a wanted     *)
(* link has its address or a running deadline to get it back.              *)
SettledIntentHolds ==
  /\ Running /\ ctl.initialized /\ ctl.attempted = ctl.revision
  /\ ctl.transition = "None" /\ ctl.status = "Ok"
  => /\ ctl.desired # "Connected" => ctl.link.phase = "Idle"
     /\ ctl.desired = "Connected" =>
          \/ ctl.link.phase = "AddressReady"
          \/ ctl.link.phase = "Associated" /\ "address" \in ctl.armed

(* The restoration of the last profile that begin() and a new enable cycle *)
(* promise is not forgotten: an intent does not settle without error while *)
(* its restoration is still to be done.                                    *)
RestoreNotForgotten ==
  /\ Running /\ ~needsStation(ctl) /\ ctl.transition = "None"
  /\ ctl.status = "Ok"
  => ~ctl.restore

(* When the intent has settled without an error, the persisted enablement  *)
(* is the enablement the intent asked for.                                 *)
EnablementPersisted ==
  /\ Running /\ ctl.initialized /\ ctl.attempted = ctl.revision
  /\ ctl.transition = "None" /\ ctl.status = "Ok"
  => store.enabled = Wants(ctl)

(* No lost wake-up: an intent that has not been attempted is in progress,  *)
(* waits for its retry or for a scan to be torn down, or execute() is      *)
(* scheduled; the same for a queued scan and a superseded attempt.         *)
NoLostWork ==
  Running =>
    /\ needsStation(ctl) /\ ctl.transition = "None" /\ ~ctl.pending
         /\ ctl.scan # "Cancelling" => "work" \in ctl.tasks
    /\ ctl.scan = "Queued" => "work" \in ctl.tasks
    /\ ctl.transition = "Connect" /\ superseded(ctl) /\ ~ctl.cancelling
         => "work" \in ctl.tasks

(* startScan() answers kBusy only while there is something to wait for: a  *)
(* station transition, a retry or execute() is under way.                  *)
BusyOnlyInTransition ==
  /\ Running /\ Wants(ctl) /\ ctl.enabled /\ ~isScanning(ctl)
  /\ ctl.transition = "None" /\ ctl.link.phase = "Idle"
  /\ ctl.tasks \cap {"work", "reconnect"} = {}
  => ctl.attempted = ctl.revision

(* A retry is charged to an intent that execute() has taken up, never to   *)
(* one that was only requested.                                            *)
RetryBelongsToIntent == Running /\ ctl.pending => ctl.active = ctl.revision

(* After an explicit disconnect() nothing reconnects by itself, neither    *)
(* the restored profile nor a retry, until the caller connects or enables  *)
(* again; an attempt still on the radio is one that has been superseded.   *)
DisconnectIsFinal ==
  muted /\ Running =>
    /\ ctl.desired # "Connected" /\ ~ctl.pending /\ ~ctl.auto
    /\ "reconnect" \notin ctl.tasks
    /\ radio.station.kind = "Connect" => superseded(ctl)

(* Credentials are held exactly as long as a connection is wanted from a   *)
(* controller that can still make it, so a retry never goes out without    *)
(* them and none survive disconnect, disable, fault or shutdown.           *)
SecretLifetime ==
  ctl.secret = IF Running /\ ctl.desired = "Connected" THEN ctl.config
               ELSE NoNetwork

(* The public observations of state() that Listener::onStationStateChanged *)
(* and onScanStateChanged announce.                                        *)
StationView(c) ==
  <<c.desired, c.profile, c.connected, c.enabled, c.link, c.revision,
    c.status, c.pending, c.failure, stationPhase(c)>>

ScanView(c) == <<c.scan, c.scan_status, c.scan_revision, c.generation>>

(* No step changes what state() or scanSnapshot() show without leaving the *)
(* matching invalidation scheduled, and none drops a scheduled one except  *)
(* by delivering it.                                                       *)
ChangesAreAnnounced ==
  [][ctl'.running =>
       /\ StationView(ctl') # StationView(ctl) =>
            "station" \in ctl'.changes /\ "notify" \in ctl'.tasks
       /\ ScanView(ctl') # ScanView(ctl) =>
            "scan" \in ctl'.changes /\ "notify" \in ctl'.tasks
       /\ ~(ctl.changes \subseteq ctl'.changes) => "notify" \in ctl.tasks]_vars

(* A scan that was cancelled, by the caller, by a station intent or by its *)
(* timeout, never replaces the published snapshot, not even when its       *)
(* results arrive after all.                                               *)
SnapshotPreserved ==
  [][radio.scan.cancel /\ ctl'.running =>
       ctl'.generation = ctl.generation]_vars

(* A faulted controller stays faulted and submits nothing until shutdown.  *)
FaultIsFinal ==
  [][ctl.faulted => /\ ctl'.faulted /\ ctl'.next_id = ctl.next_id
                    /\ ctl'.station_id = 0 /\ ctl'.scan_id = 0]_vars

(* Every accepted intent, or the one that replaces it, is attempted, waits *)
(* for its retry or is ended by a fault or shutdown, even if the adapter   *)
(* never answers.  (Replacing goes on for at most MaxRevision calls.)      *)
IntentResolves ==
  ctl.running /\ needsStation(ctl)
    ~> ~needsStation(ctl) \/ ctl.pending \/ ctl.faulted \/ ctl.closed

(* No scan stays queued, running or cancelling for ever. *)
ScanResolves == isScanning(ctl) ~> ~isScanning(ctl)

=============================================================================
