# A formal model of roo_wifi

TLA+ specifications of the Wi-Fi library under `src/`: the controller that turns
replaceable intents into native radio work, the adapter that orders a driver's
events, the ESP32 driver behind it, and the store that keeps profiles and
secrets. TLC model-checks small
instances; TLAPS proves, for every value of the constants, the invariants of the
controller, of the adapter and of the store, that adapter and store implement
their contracts, and that the ESP32 driver is one the adapter may have.
`PROJECT.json` lists the components, runs, findings, hazards and theorems in
machine-readable form, and maps each definition to the lines it models.

    tlc -workers 2 -config controller_core.cfg MCController
    tlapm ControllerProofs.tla

## 1. The system

Everything but the driver runs on one `roo_scheduler` thread: API calls,
scheduler tasks and sink callbacks are each atomic with respect to one another.
The driver has threads of its own and meets the rest only in a mutex-protected
event queue.

    application ── API ──> Controller ── commands ──> Interface (OrderedInterface)
        ^                   |      ^                         |          ^
        └─ Listener ────────┘      └── sink callbacks ───────┘          │ posted events
                            |                                 commands  │ (own thread)
                            v                                    v      │
                          Store (FieldStore > PrefsStore)      NativeStation (ESP32)

| component | state | operations | interacts through |
|---|---|---|---|
| `Controller` (`controller.{h,cpp}`) | desired target and its revision, accepted input and secret, the native transition and scan in flight with their identities, retry state, four deadlines, four scheduled tasks, pending notifications | `begin`, `shutdown`, `setEnabled`, `connect`, `connectProfile`, `disconnect`, `startScan`, `cancelScan`, `saveProfile`, `removeProfile`; tasks `execute`, `checkTimeouts`, `retry`, `notifyListeners`; callbacks `onLinkChanged`, `onEnabledChanged`, `onOperationFinished` | calls `Interface` and `Store`, is called back by the adapter, notifies listeners from a task |
| Interface contract (`hal/interface.h`, `operation.h`) | at most one station command and one scan, link, enablement | admission, deferred completion, cancellation | the boundary between the two |
| `OrderedInterface` (`hal/ordered_interface.*`) | current station command, scan, link, credentials until they are used, bounded event queue, overflow flag | the Interface commands, `post`, `drain`, `process` | mutex-protected queue; a dispatch task; commands to the driver |
| `NativeStation` contract (`hal/ordered_interface.h`) | enablement, scan, phase of a connection | `enable`, `scan`, `stopScan`, `connect`, `continueConnect`, `disconnect` | the boundary between the adapter and a driver |
| ESP32 station (`hal/esp32/*`) | the scan or selection it believes to be running, a cache of candidate access points with penalties, the prepared one, the attempt going on | the same, and `event()` for the callbacks of ESP-IDF | a mutex it releases around vendor calls; posts events from the ESP event loop task |
| `FieldStore` (`hal/field_store.*`) | a settings field and a secret field per hashed SSID, the last SSID | `loadProfile`, `loadCredentials`, `saveProfile`, `removeProfile`, `writeLastProfile` | virtual field reads, writes and erasures, one committed field at a time |
| `PrefsStore` (`hal/prefs/*`) | the NVS collection | field reads, writes, erasures; the enablement preference | `roo_prefs` |
| Configuration (`configuration.*`) | none | `Validate`, `ValidateSupport`, `SecurityAllows` | called by Controller, adapter and store |
| retry delays (`controller.cpp` 340-390) | the retry level | `retryDelay` | called when a connection fails |
| shared types, platform selection | none | | |

What is hard here, and what makes each component correct:

* **Controller.** An intent can be replaced at any point of the transition that
  serves its predecessor, while deadlines, retries, link losses, late
  completions and scan teardowns arrive in any order. Correct means: no intent
  or scan is lost or waits without anything that ends its wait; native work
  never overlaps; the controller's belief about the radio is true; an intent
  that settled without error really holds; `disconnect()` is final; credentials
  live exactly as long as needed; listeners hear of every change; identities
  never wrap.
* **OrderedInterface.** The driver posts between any two iterations of
  `drain()`, faster than the queue allows, and about connections that no longer
  exist. Correct means: it implements the contract the controller relies on,
  every completion is earned by its own command, a lost event strands nothing,
  credentials reach the driver once.
* **ESP32 station.** ESP-IDF's events carry no identity: a scan-done, a
  disconnect or a lost address may belong to a scan, an attempt or a link that is
  over. The mutex is released around vendor calls, and the candidate cache
  outlives attempts. Correct means: it is a driver the adapter may have, it never
  believes in a scan that will not end, it joins only what the current attempt
  selected, it blames an access point only for its own failures, and when all is
  quiet the adapter knows the truth about the radio.
* **FieldStore.** One profile is two separately committed fields, the medium may
  fail or lie about failure, power fails in between, and SSIDs collide in the
  hash. Correct means: kOk is durable, an interrupted operation leaves no
  mixture of old and new, no secret outlives its profile and no SSID touches
  another's fields.

## 2. The modules

| module | models |
|---|---|
| `WifiTypes` | the enumerations of `status.h`, `operation.h`, `radio.h` and `profile.h` |
| `InterfaceContract` | `hal/interface.h` as an abstract specification `ContractSpec` of one variable, `radio`: the outstanding commands, what was reported, whether the adapter still lives |
| `Controller` | `controller.cpp` against any adapter that keeps that contract and any store that keeps `hal/store.h` |
| `MCController` | the initial stores of its runs |
| `ControllerProofs` | theorems about `Controller`: types, identities, the belief about the radio |
| `ControllerPromises` | theorems about `Controller`: timers, retries, wake-ups, credentials, `disconnect()`, what a settled intent means, what its listeners are told and what a cancelled scan publishes |
| `RetryDelay`, `MCRetryDelay` | `Controller::retryDelay()`; the delays of the retries a controller schedules |
| `RetryDelayProofs` | theorems about both |
| `NativeEvents` | `NativeEvent` and the mutex-protected queue of `post()`, shared by adapter and drivers |
| `NativeStation` | the contract of `NativeStation`, as an abstract specification `NativeSpec` |
| `OrderedInterface` | `ordered_interface.cpp`, for any driver |
| `OrderedStation` | `OrderedInterface` with `NativeStation`; proved to implement `ContractSpec` |
| `OrderedInterfaceProofs` | the invariant of `OrderedInterface` for any driver, method by method and action by action |
| `OrderedStationProofs` | theorems about `OrderedStation`: types, reports, outcomes, credentials, the contract |
| `Configuration` | `configuration.cpp`: `Validate()` and `SecurityAllows()` |
| `Esp32Station` | `idf_interface.cpp` with an external ESP-IDF |
| `Esp32Interface`, `MCEsp32` | `OrderedInterface` with `Esp32Station`; proved to implement `NativeSpec` |
| `Esp32InterfaceProofs` | theorems about `Esp32Interface`: types, the selection of an access point, the scan the driver waits for, and the promises and the contract of the adapter in front of this driver |
| `Esp32PairProofs` | theorems about both together: whose network is joined, who is penalised, and that the driver is a `NativeStation` |
| `ProfileStore` | `hal/store.h` for profiles, as an abstract specification `StoreSpec` |
| `FieldStore`, `MCFieldStore` | `field_store.cpp` on a failing medium; proved to implement `StoreSpec` |
| `FieldStoreProofs` | theorems about `FieldStore`: types, ownership, what failures and power cuts leave, and that it implements `StoreSpec` |

`Controller` EXTENDS `InterfaceContract`, so what it assumes of an adapter and
what `OrderedStation` is proved to provide is stated with the same operators
(`NextLinks`, `StationResults`, `ScanResults`, `FaultResult`). In the same way
`OrderedStation` runs the adapter against `NativeStation`, and `Esp32PairProofs`
proves that the ESP32 driver is one: the three layers are checked in pairs.

Definitions named `Slip...` are mistakes someone could make in the definition
that follows them: a dropped guard, a missing reset, a swapped order. No
specification uses them. Put in the place of the original, each one makes the
property that `PROJECT.json` names with it fail, which shows that the property
depends on the code.

### Controller

`ctl` is the object, one record field per member (`station_id` is
`station_id_`, `active` and `attempted` are the revisions execute() has
taken up and tried, and so on). Methods are operators from a controller to a
controller with the source's names, so a method that calls another is a
composition and an action is one whole API call, scheduler task or callback,
trailing `changed()`, `scheduleWork()` and `scheduleTimeouts()` included.

| variable | stands for |
|---|---|
| `ctl` | members of `Controller`; `tasks` are the scheduled ones, `armed` the link deadlines, `changes` the pending notifications |
| `radio` | the adapter behind the contract |
| `store` | enablement, last profile, and per network whether its profile is absent, manual or automatic |
| `muted` | history: an explicit `disconnect()` is the caller's last word |
| `young` | link deadlines armed too recently to have expired (see below) |

* `Execute` has one disjunct per exit of `execute()`: ignored, identities
  exhausted, cancelling a superseded connect, awaiting, preempting a scan,
  restoring the last profile, and advancing (which may start one command).
* What the adapter or the store answers is chosen by the action from `Answers`
  and `StoreAnswers`. A write that fails with `CommitUnknown` may have taken
  effect; a failing one has not.
* Time: a deadline is armed or not, and the timer task may find any set of armed
  deadlines expired, also none. One relation between durations is kept: with
  `ShortTransitions` (two `transition_timeout_ms` below `connect_timeout_ms`, and
  with a connect below `stable_connection_ms`; the defaults are 5, 30 and 60
  seconds) a link deadline armed while `execute()` is due, or waits for a scan it
  cancelled, does not expire before that work is over.
* A failed connection carries one of `Failures`, the categories the backoff
  tells apart.
* Abstracted: native error codes, RSSI, BSSID and scan
  records; an SSID stands for one configuration and its secret.

### Retry delays

`retryDelay` is the arithmetic of the code over words up to `MaxWord`; the
generator's state is any word. `RetryWaits` joins it to the controller: for every
pending retry, the delays it can have been given are those `RetryOptions`
documents for the failures in a row before it.

### OrderedInterface and its drivers

`adapter` is what only the scheduler thread touches, `mail` the queue under the
mutex, `native` the driver, `radio` the boundary as the sink sees it, `client`
the caller's identities. API calls happen only outside `drain()`; inside it, one
iteration handles one event (`DrainEvent`), the overflow (`DrainOverflow`) or the
end (`DrainEnds`), and the driver may post between iterations. Calls on the sink
are queued in `adapter.out` and delivered one at a time before the scheduler does
anything else, so that the state between two callbacks can be compared with what
the sink was told. An action that calls the driver takes the set of its possible
answers, each with the driver it leaves behind, so that the module serves both
drivers.

In `NativeStation`, `IdleAnswer` is what `disconnect()` answers with nothing to
disconnect (`NotFound` or, like the ESP32 one, `Ok`); `Unsolicited` lets the radio
turn on or off by itself. One life from `begin()` to `shutdown()` is modelled.

### Esp32Station

`native` holds the members of `Esp32Station`, ESP-IDF (`idf`) and a history
(`told`).

* `call` is the window in which a command has released the mutex to make a vendor
  call; its answer is chosen when the window opens, and events may be delivered
  before it closes (`CallReturns`). The scheduler thread waits for it, the event
  loop does not.
* `idf` is external: radio on or off, a scan, a link, an address, the timer that
  reports an address lost after its link, and `loop`, the event loop's queue.
  Assumed of it: events are delivered in order, one at a time; any call may fail
  without effect; a disconnect with nothing to disconnect answers `ESP_OK`
  without an event; a stopping radio ends a link with or without an event and
  aborts a scan with one; clearing the mode of a stopped radio succeeds. An
  access point announces one security, and an association may end up with
  another.
* `event()` is one action per kind of event. Because the event loop task is
  serial, the check of the negotiated security and the disconnect that follows a
  rejection are one step.
* Time: a candidate is cooling or not and the cache fresh or not; wherever the
  code reads the clock, any cooldown and the freshness may turn out to be over
  (`Later`).
* `told` is what the posted events tell of the connection. It gives the refinement
  mapping `View` the phase that `NativeStation` keeps.

### FieldStore

`fields` holds the settings and the secret per hash and the last SSID; `op` is
the operation in progress, one step per field it commits; `goal` is history: the
profile before the latest operation and the one it is to leave. `PowerFails`
abandons the operation between any two steps. The medium is external: a field
commits atomically, but a write or erase reported as failed may have happened
and a read may fail; the verification reads of the code are modelled, so its
answers kStorageFailure and kCommitUnknown mean what they mean there. A field is
absent, valid or corrupt, and `Key` is an arbitrary hash.

`ProfileStore` forgets the fields: it knows what loading each SSID answers and
lets an operation move only its own profile, from what it was towards what it is
to leave. The refinement mapping reads every SSID from the fields (`Seen`); an
SSID whose key another one has taken has no profile.

## 3. The runs

Passing runs:

| run | instance | what it shows |
|---|---|---|
| `controller_core` | 1 network, 3 intents, 1 scan (also while connected), 5 identities; the adapter rejects, fails, overflows or stays silent (505,365 states) | `TypeOK`, `IdsNeverWrap`, `NoLostWork`, `TimerArmed`, `DisconnectIsFinal`, `SecretLifetime`, `BeliefMatchesRadio`, `NoOverlap`; a cancelled scan publishes nothing (`SnapshotPreserved`); `ChangesAreAnnounced` |
| `controller_storage` | failing store, a profile edit, radio turning on and off by itself, overflow, authentication and security failures, the six retry levels of the code (700,565 states) | `RetryIsArmed`, `RetryWaits`, `FaultIsFinal` |
| `controller_progress` | `FairSpec`, 3 intents, 1 scan (also while connected); nothing is rejected, but the adapter may stay silent and links drop (138,399 states) | `IntentResolves`, `ScanResolves`; an intent that settled without error holds, is persisted and restored (`SettledIntentHolds`, `EnablementPersisted`, `RestoreNotForgotten`) |
| `ordered_contract` | 2 networks, queue of 3, 4 commands, overflow, unsolicited radio changes, `NotFound` when idle (4.2 million states) | `ContractSpec` is implemented; `TypeOK` with the bound of the queue, `NothingUnreported`, `ResultsAreEarned`, `OverflowSettlesAll`, `CredentialsAreShortLived` |
| `esp32_interface` | `FairSpec`; 2 networks, one of them with 4 access points, one of which its policy does not allow, and the other out of range, 2 candidate slots, 3 records to a selection, queue of 2, 3 commands (495,528 states) | `NativeSpec` is implemented (`NativeRefined`); `TypeOK`, `BusyOnlyWhileScanning`, `JoinIsOwn`, `SettledTruth`, `SelectionIsBest`, `TeardownIsBlameless`; of the adapter in front of it, `FailureIsOwn` and `CommandsComplete` |
| `fields_media` | two SSIDs with one hash, four security modes, malformed secrets, corrupt fields, failing medium, power cuts (13,162 states) | `StoreSpec` is implemented (`StoreRefined`); `TypeOK`, `OwnershipRespected`, `OkIsDurable`, `NothingPartial`, `SecretFirst`, `SecretsErased` |

Runs that find a disagreement between the code and its documentation:

| run | what happens |
|---|---|
| `controller_stale_loss` | the loss of network A, delivered after `connect(B)` was accepted and before `execute()`, is charged to B as a failed connection with a retry |
| `controller_busy_forever` | a retry that finds its profile removed, for an intent never attempted under its revision, leaves nothing scheduled; `startScan()` then answers kBusy until the next intent |
| `controller_enablement` | repeating `setEnabled()` after its preference failed to persist answers kOk without writing it |
| `controller_restore` | when the first enable fails and its immediate repetition succeeds, the last profile is never restored and no error remains |
| `ordered_restart` | a radio that turns off during a connect makes `drain()` start it again after its credentials were cleared |
| `fields_failed_save` | a save that replaces the secret for another security mode and then fails to write the settings leaves the earlier profile kCorrupt |

`RestoreNotForgotten` therefore passes only where the adapter takes every command,
`EnablementPersisted` only where moreover the store answers; the violating runs
drop this condition. Section 4 lists every condition they need.

`FailureIsOwn` depends on the driver. With `IdleAnswer = "NotFound"` it does not
hold: when the loss of the current link is already queued, `connect()` to another
network queues a second, synthetic disconnect (`ordered_interface.cpp` 147); the
first event ends the wait and the second fails the new connect before it started.
The controller always disconnects before it connects and the ESP32 driver answers
kOk, so neither meets it; `esp32_interface` checks it for that driver.

Seen while modelling the ESP32 driver, and not contradicted by any document:

* A penalty is kept only as long as its access point stays in the cache. A cooling
  one that a rescan misses, or that falls out of the slots, comes back without it.
* The early returns of `startSelected()` leave `secret_` set until the next
  connect or detach.
* When `esp_wifi_scan_stop()` fails, `scan_cancelled_` stays set, and the scan that
  goes on is reported as complete with the records of the one before it.

### Bounds

* `MaxId` stands for the largest `OperationId`. It is small (4 or 5) on purpose:
  its exhaustion and the fault that follows are reached in the passing controller runs.
* `MaxRevision = 3` is `begin()`, an intent, and one that replaces it; 2 where
  storage failures multiply the states. `MaxScans = 1` lets a scan
  meet everything else; that a later scan cannot take the answer of an earlier
  one is proved (`BeliefIsTrue`). `MaxWrites = 1` removes or edits the profile in
  use.
* `MaxRetryLevel` is 5, as in the code, where the delay matters
  (`controller_storage`); elsewhere 1, the smallest table in which the level both
  grows and is capped. `MaxWord = 50` makes the largest delay one whose jitter
  would overflow; the theorem covers every word.
* `Capacity = 3` (2 with the ESP32 driver) is reached: a scan, a teardown and an
  association suffice, so overflow happens in all runs of the adapter. Two networks are needed for a
  switch; a third would add nothing the adapter compares. The controller never
  compares the SSID of a link, and an ad-hoc connection and a profile of one
  network already are two different intents, so one network suffices there
  except in `controller_stale_loss`.
* Three access points compete for two slots (three in the code), one of them with
  another security; two strengths order them. A fourth announces a security the
  policy of the network does not allow. A selection reads three records at most
  (100 in the code), so that it may miss any of the four. The second network has
  none, so that a selection also finds nothing. Three commands are an enable, a connect and what
  interrupts or follows it. `MaxLoop = 1` bounds only what DHCP adds to the event
  loop: address events come one at a time, and everything else may queue up.
* One hash for two SSIDs is the collision; without a collision SSIDs share
  nothing but the last SSID. Open, WEP, WPA2 and WPA3 are there: WPA2 takes a raw
  key that WPA3 does not, so a kept secret can stop fitting. One mark besides the
  security is enough, since a change of the security already tells old settings
  from new ones.

`CHECK_DEADLOCK FALSE` appears where the system may stop: the API calls are
bounded, the adapter owes no answer and nothing follows `shutdown()`. The
`fields_` runs check for deadlock, since a store can always be called again.

No symmetry is used.

### Fairness

* `Controller!FairSpec`: the scheduler dispatches `execute`, `notifyListeners`
  and `retry` once they are due, and a deadline that stays armed is eventually
  found expired. This is what `roo_scheduler` and passing time provide. Nothing is
  assumed of the adapter: it may accept a command and never answer. That is the
  situation the timeouts exist for.
* `Esp32Interface!FairSpec`: the dispatch task runs and its vendor calls return,
  the event loop delivers what is queued, and a scan ends. Neither an association
  nor an address is owed, so an uncancelled connect need not complete;
  the controller's deadline ends it. `CommandsComplete` says that everything else
  does: an enable, a disconnect, a cancelled connect and a scan.

## 4. The proofs

**Controller** (`ControllerProofs`), for any set of networks, any `MaxId` and
table of delays, unbounded scans and intents, any initial store of the right
type, any error of adapter or store. Assumptions: `ConstantsAssumption` and
`AdapterErrorsAssumption`, which only type the constants.

| theorem | states |
|---|---|
| `TypeCorrect` | `[]TypeOK`; the retry level stays inside its table |
| `IdentitiesNeverWrap` | `[]IdsNeverWrap` |
| `BeliefIsTrue` | `[]BeliefMatchesRadio` |
| `NativeWorkNeverOverlaps` | `NoOverlap` |
| `FaultsAreFinal` | `FaultIsFinal` |

The inductive invariant is `Inv == TypeOK /\ Coherent(ctl, radio)`. `Coherent`
joins `Identities` (everything in flight has an identity below `next_id`),
`Named` (identity 0 means no command), `Lifecycle` (a controller that does not
run has no tasks and no adapter calling it), `FaultSettled` (a fault leaves
nothing in flight) and, while the controller runs without a fault, `Agreed`.
None stands alone. `NoOverlap` needs `Agreed`: the controller checks only its own
fields before it submits. `Agreed` survives a completion only because the identity
the adapter answers with is the one the controller waits for, which needs `Named`
and `Identities`: a new command gets an identity nothing in flight carries.
`IdsNeverWrap` needs that a pass of `execute()` which begins below the maximum
starts at most one command, although it can reach both the station and the scan.

The proof first establishes, per method, which groups of fields it keeps
(`KeptLife`, `KeptLink`, `KeptStation`, `Quiet`), so that each action is a short
composition: actions that submit nothing, those that submit one command or one
cancellation, and those that retire one.

What the controller promises its caller is proved in `ControllerPromises`, from
the same assumptions:

| theorem | states |
|---|---|
| `TimersAreArmed` | `[]TimerArmed` |
| `CredentialsAreHeldWhileWanted` | `[]SecretLifetime` |
| `DisconnectsAreFinal` | `[]DisconnectIsFinal` |
| `RetriesAreTrue` | `[]RetryIsTrue`: the reconnect task is scheduled exactly while `state()` shows a retry, for a failed and still wanted connection to a saved profile |
| `RetriesAreArmed` | `[](MaxWrites = 0 => RetryIsArmed)`: the intent moreover is automatic |
| `NothingEverStalls` | `[]NothingStalls`: what is to be done is under way or scheduled, or is a retry that was given up (`GivenUp`) |
| `NoWorkIsLost` | `[](MaxWrites = 0 /\ StoreErrors = {} => NoLostWork)`: nothing is given up |
| `SettledIntentsHold` | `[]SettledIntentHolds`, if `AdapterErrors = {}` and `ShortTransitions` |
| `RestorationsAreNotForgotten` | `[]RestoreNotForgotten`, under the same conditions |
| `EnablementsArePersisted` | `[]EnablementPersisted`, if moreover `StoreErrors = {}`, `~Overflows` and `~Unsolicited` |

Two properties of the runs are not true of every instance, so each is proved
twice: what holds always, and the property itself under the condition that makes
it true.

* `NoLostWork` has an exception in the code: `retry()` gives up silently when the
  profile cannot be loaded or is no longer automatic, which is the finding of
  `controller_busy_forever`. `NothingEverStalls` says that this is the only one
  and that its failure is shown.
* `RetryIsArmed` fails when `transition_timeout_ms` exceeds `connect_timeout_ms`
  and a profile is rewritten: the deadline of a lost address expires while the
  link is taken down for a new intent and schedules a retry, the disconnect then
  completes with kOk, and a repeated `connect()` to the profile, by now manual,
  clears the automatic flag under the waiting retry. Nothing in the repository
  speaks of this. It needs four intents, one more than the runs allow.

The invariant is `PInv`, that is `Inv` with `Promise`, `Obeys` and `Faithful`.
For a controller that runs without a fault, `Promise` consists of

* `RetryTold`: a pending retry, its task and the failure it is charged to; needed
  because handlers that end a retry look at only one of the three;
* `LinkTimed`: only a link that is up is timed, and its address never during a
  connect; otherwise a deadline could charge a failure to an attempt going on;
* `Wanted`: the accepted input agrees with the intent, and an attempt for the
  current revision is for a connection that is wanted; `SecretLifetime` and
  `DisconnectIsFinal` follow from it;
* `Rooted`: no connect or link before the first enable succeeded, no transition
  over a queued scan; needed because `execute()` enables first and starts a scan
  only when the station stands still;
* `Woken` and `Timed`: the wake-ups and the timers themselves.

Any other controller holds neither credentials nor a retry. `Obeys` carries an
explicit `disconnect()` across the handlers that run after it, `Faithful` the
automatic flag of the stored profile. Each method has a lemma about the
controller it returns; `Same` says that a method touches nothing of this, `Loyal`
that a handler keeps the intent. An action then only composes them. `PInv` was
model-checked on the instances of the runs before it was proved.

The last three theorems say what `state()` means once an intent has settled with
kOk. They hold for any networks, retries, profile edits and timeouts, and need
conditions that the code does not guarantee. None can be spared: with any one
of them dropped, TLC finds a counterexample on an instance as small as
`controller_progress`.

* `AdapterErrors = {}`: a command that the adapter refuses at once. When the first
  enable fails, `onOperationFinished()` marks the revision as attempted, but `execute()`
  repeats the enable because the controller is not initialized; its success shows
  kOk and nothing continues. This is the finding of `controller_restore`; the same
  trace with an explicit `connect()` ends with kOk and no connection.
* `ShortTransitions`, which the default timeouts satisfy: a lost-address deadline of
  the earlier intent must not expire while its link is taken down for the new one.
  If it did, the new intent would count as attempted; when the address then
  returned, its error would be cleared and a link that nobody wants stay up.
* `StoreErrors = {}`, `~Overflows`, `~Unsolicited`, for the enablement: the store
  refuses to write it (the finding of `controller_enablement`), the adapter faults
  between the radio's change and the write, or the radio turns on or off by itself
  after the intent settled, which is shown and not written.

Their invariant is `QInv`, that is `PInv` with `Standing`, `Fresh` and `Stored`.
`Achieved` is what the theorems state; it survives a completion only because of

* `Apart`: no scan goes on during a transition and no link during an enable, and
  only a connect is ever cancelled, so that a completion settles what its revision
  asked for;
* `Intended` and `Underway`: a transition is for an intent not yet attempted, and
  only an intent that connects to nothing else restores a profile;
* `Heeded`: a link that is not wanted, or a radio never enabled, is always still to
  be attempted; so no attempt can be over before it was dealt with;
* `Powered`: a connection needs an enabled radio, so that the end of a connect says
  that the enablement is as wanted;
* `Fresh`: the address deadline of a link that is no longer wanted is too young to
  expire. Such a link leaves `execute()` due, a scan being cancelled or a transition
  under way (`UnwantedIsReconciled`), and that is what `ShortTransitions` orders;
* `Stored`: what was last enabled is what was persisted.

A method that touches nothing of `Standing` is `Alike`; `Upheld` says that the
others preserve it, and each action shows `Settles`, from which `QInv'` follows.

What the listeners are told is proved in the last part, with `PInv`:

| theorem | states |
|---|---|
| `CancelledScansPublishNothing` | `SnapshotPreserved` |
| `OnlyLapsedRetriesAreSilent` | `OnlyLapsesAreSilent`: `ChangesAreAnnounced` with one exception, a retry that returns early because its intent is no longer automatic |
| `NoChangeIsSilent` | `ChangesAreAnnounced`, if `MaxWrites = 0`, when there is no such retry (`RetriesAreArmed`) |

A handler changes a view in one method and calls `changed()` in another, so no
invariant speaks of it; each method has a lemma that says how what it returns
relates to what it got (`Announces`, `Reports`, or an edit still to be announced),
and these compose.

**OrderedInterface** in front of any `NativeStation` (`OrderedStationProofs`), for
any networks, any `Capacity`, any `MaxId`, any errors. Assumptions:
`EventsAssumption`, `OrderedAssumption`, `NativeAssumption`,
`AdapterErrorsAssumption`, which type the constants, and `ErrorsAssumption`: what
a driver may answer, the adapter may answer too, as well as `NotFound` (the answer
to `continueConnect()` with nothing prepared); and no driver answers `Cancelled`,
which in this code only `ordered_interface.cpp` says (lines 265, 292 and 305).

| theorem | states |
|---|---|
| `TypesAreKept` | `[]TypeOK`; the queue stays within its array |
| `NothingGoesUnreported` | `[]NothingUnreported` |
| `OutcomesAreEarned` | `[]ResultsAreEarned` |
| `OverflowsSettle` | `[]OverflowSettlesAll` |
| `CredentialsAreCleared` | `[]CredentialsAreShortLived` |
| `ContractKept` | `ContractSpec`, the contract the proofs about `Controller` start from |

The contract is about what the sink is told, the code about what the adapter
holds, and between the two lie up to three calls that one iteration of `drain()`
has queued. `Believed` is the boundary as the adapter believes it to be. The
invariant says that the boundary becomes `Believed` once the queued calls are delivered
(`After`) and that each of them is allowed by the contract in the state in which
it will be made (`AllAllowed`); together they are `Settled`. `ContractSpec` then
holds because delivering the first call is a step of the contract and everything
else is an admission, a cancellation or invisible. `Settled` alone is not
inductive: `Operations` ties the flags to the operation they belong to (a stale
`cancelling` would make the next outcome wrong, and `attached` guards it because
`Shutdown` leaves the flags as they are), `Secret` and `Issued` tell a connect
that has been started from one that has not by its identity, `Mailed` keeps the
queued events to those a driver may post, and a fault implies that the queue has
overflowed, so that a faulted adapter never processes an event.

`OrderedInterfaceProofs` proves this for any driver whose answers and events are
`Sane`: first one lemma per way of queueing a call (`LinkSettled`,
`EnabledSettled`, `StationSettled`, `ScanSettled`), then one per method
(`...Live`), then one per action (`...Kept`). `OrderedStationProofs` only has to
show that every `NativeStation` is `Sane`. The invariant was model-checked on
`OrderedStation` before it was proved.

**ESP32 driver** (`Esp32InterfaceProofs`, `Esp32PairProofs`), behind the adapter, for any networks
and access points, policies, strengths, cooldowns, number of slots, capacity of the
queue and whatever a scan finds. Assumptions: those of `OrderedInterface`,
`Esp32Assumption`, which types the constants, and `Esp32ErrorsAssumption`: the
errors of the adapter include the three this driver answers, and not `Cancelled`.

| theorem | states |
|---|---|
| `TypesAreKept` | `[]TypeOK` of adapter and driver; the candidates stay within their slots |
| `BestIsSelected` | `[]SelectionIsBest` |
| `ScansAreOwed` | `[]BusyOnlyWhileScanning` |
| `NothingGoesUnreported`, `OutcomesAreEarned`, `OverflowsSettle`, `CredentialsAreCleared` | the four of `OrderedStation`, with this driver instead of the abstract one |
| `ContractKept` | `ContractSpec` with this driver |
| `JoinsAreOwn` | `[]JoinIsOwn` |
| `TeardownsAreBlameless` | `TeardownIsBlameless` |
| `DriverKeepsContract` | `NativeRefined`, that is `NativeSpec` under the refinement mapping |

The adapter's half needs little: a driver whose fields have their types (`Built`)
answers and posts only what `OrderedInterfaceProofs` asks of a driver (`Proper`,
`Reacts`), so its lemmas carry over and `InterfaceInv` is its invariant with
`Built(native)`. The contract of the controller therefore rests on no property of
the driver beyond that, in particular not on the order in which events come.

`SelectionIsBest` speaks of what `rememberCandidates()` makes of any scan result,
whichever penalties turn out to be over when it looks at the clock: what is kept are
access points whose security the policy allows, each once, as many as there are slots
for (`KeepsBest`); a record that comes before another (not cooling before cooling,
then the stronger) is kept before it, so that the order is right and nothing better
is left out; failures and penalties that still count are carried over and no others
(`KeepsPenalties`); and `selectCandidate()` takes the first, unless all are cooling.
The property states this of the records that were found, in terms of
`SecurityAllows()`, strengths and cooling access points, and uses neither `Compatible`
nor `Precedes` nor `Candidate`. Dropping the security check, ranking by strength alone,
ranking the later slots wrongly, refusing a better record when the slots are full,
forgetting failures, keeping expired ones, or taking the last eligible candidate
makes TLC find it violated.

The loop over the records is a recursive function, and `Ranks` is its invariant: after
`m` records the kept candidates are sorted by `Precedes`, distinct, at most
`Slots`, and every compatible record seen so far is among them, unless all slots
are taken by candidates that are no worse.
The induction over `m` goes through the least element of a set of numbers (`Least`,
`Induction`). `BetterIsBefore` then reads the order off the records,
`PenaltyIs` the failures off the earlier candidates, and `SlotsFill` counts: fewer
candidates than slots are one for each usable record.

For `ScansAreOwed`, `Owed` says of each flag what ends it: a command that is in its
vendor call, a scan that runs, or a scan-done event on its way. It is not inductive
alone. `selecting` and `scan_active` are never both set, or one scan-done event would
have to end two waits; a call `"scan"` or `"select"` excludes the other flag, whose wait it would otherwise
end or leave behind.
`Steady` says that a step takes away neither the scan nor the event, which settles
all steps but the few that set or clear a flag.

The last three theorems relate the events still in the loop of ESP-IDF and in the
queue of the adapter to what both sides believe. Two invariants carry them.

`Faithful` is about the driver alone: what it has told, its flags, the radio and the
loop agree. `LoopTells` orders the loop: no link begins or ends behind its end, there
is one switch at most, and the phase told is behind the radio by exactly what is in
the loop. `PhaseTells` derives the flags and the vendor call in progress from the
phase. `ScanIsOne` is the exclusion that lets one scan-done event be attributed.
`AttemptIsOwn` says that while an attempt counts, what is in the loop is about the
access point that was selected, and no teardown unless it was to refuse that one.
`NetworkIsOwn` keeps candidates, link and events to the configured network. Each
command, vendor return, handler and act of the radio has a lemma that it keeps a
built, faithful driver faithful.

`Together` is about adapter, queue and driver: `Obeys` (what the driver is choosing
or joining is what the admitted operation asks for), `Switched` (the radio is as the
adapter believes, or the event that says so is on its way) and `Follows` (the
adapter's link is not behind the driver's but for what is queued). A lost event ends
the last two and a fault the first, as in the code. A step of the driver that takes
on nothing new (`Recedes`) keeps it together with whatever it tells on the way
(`Tells`), so that only commands and `drain()` need lemmas of their own. `Paired`
adds both to the invariants above.

`JoinsAreOwn` is `Obeys` and `NetworkIsOwn`. `TeardownsAreBlameless` needs
`AttemptIsOwn`: every step either leaves the loop alone or lets no access point
fail (`Spares`), except the handler of a disconnect, which blames the selected one. For
`DriverKeepsContract` the driver is read as the contract sees it (`Seen`), and each
event and command is one of `NativeSpec` or invisible: `Faithful` gives the guards of
the events, and `Together` those of the commands, which the contract restricts to
what `OrderedInterface` may ask in each phase.

**FieldStore**, for any SSIDs and any hash, from `FieldAssumption`.

| theorem | states |
|---|---|
| `StoreTypeCorrect` | `[]TypeOK` |
| `OwnersAreRespected` | `OwnershipRespected` |
| `OperationsAreAtomic` | `[]NothingPartial` |
| `SecretsComeFirst` | `[]SecretFirst` |
| `SecretsAreErased` | `[]SecretsErased` |
| `AnswersAreDurable` | `[]OkIsDurable` |
| `FieldsImplementStore` | `StoreRefined`, that is `StoreSpec` under the refinement mapping |

The invariant of the first two, `Inv == TypeOK /\ Owned`, carries the result of
`checkIdentity()`, made once when an operation begins, to the writes and erasures
that follow it: while an operation has steps left, the fields those steps touch
belong to its SSID or are absent.

`DInv` adds what an operation has achieved before each of its steps (`Progress`),
what its answer or an interruption leaves (`Answered`, `Left`), that the two
fields of a key never belong to two SSIDs (`Paired`) and that an absent last SSID
is none (`LastTold`). `Progress` is the heart: that a save with a new secret has
not touched the settings when it writes the secret, and has verified the secret
when it writes the settings, is what makes every prefix of the writes harmless.
`Paired` is why a load and an enumeration, which read the fields in different
ways, agree about every SSID.

In the refinement a call is a `Begins` or `Refuses` step, `writeLastProfile()` a
`Remembers` step, and every commit or power cut after that a `Works` step. `DInv`
holds before and after a step, so a commit is compared as two loads: it shows the
profile as before or as it should become, except that a replaced secret may be
seen with the old settings or make them unreadable (`SecretHalfway`), which the
contract allows. Other SSIDs load what they loaded before (`OthersSeen`): with
another key their fields are untouched, with the same key they have no profile.

**Retry delays** (`RetryDelay`), for any word size, from `MaxWordAssumption`:
`DelayWithinJitter` bounds the result of `retryDelay()` for every option and
every state of the generator. The jitter is at most half of the delay
(`SpreadBounded`), so the sum cannot reach zero, and the final clamp only touches a
sum above the largest word. `RetriesWaitAsConfigured` joins it with `TypeCorrect` of
the controller: whatever happened before, and whatever delays are configured, a
pending retry waits for the delay of its failures in a row, because the level never
leaves the table and `delayIndex()` falls back to the last delay exactly for the
hopeless failures. `RetriesWait` is that for the table of the run, `[]RetryWaits`.
Both assume `MaxRetryLevel = LastDelay`, which `controller.cpp` fixes as the size of
its table (`IndexOfRetry` uses it), and the second a word that holds the delays.

**Only model-checked:**

* all liveness, since fairness and ENABLED are beyond the prover;
* `FailureIsOwn` of the adapter in front of the ESP32 driver, and `SettledTruth`.
  Both need more of the events in the queue than `Together` keeps: which disconnect
  answers which command, and that the last event about the link is the latest.

## 5. Not modelled

* A second life of the same `OrderedInterface` after `shutdown()`: it needs a
  second `Controller`, since a closed one never begins again.
* The list of listeners: those registered are one audience, which
  `NotifyListeners` reaches.
* Of the ESP32 driver: the contents of scan records, MAC addresses and address
  configuration, SSIDs with a NUL byte (refused at once), and the variants of the
  vendor structures that Kconfig selects. A failure to clear the mode of a radio
  that has stopped is assumed not to happen.
* A network configured anew under the same SSID, with another security or another
  hidden flag: the SSID of a network stands for its configuration, so of the
  comparison in `connect()` that drops the cached candidates
  (`idf_interface.cpp` 323-326) only the SSID is exercised.
* Byte layouts and the hash function of `FieldStore`; the result codes of
  `roo_prefs`, which only rename outcomes.
* Static-address validation and `ValidateSupport()`: pure comparisons of bytes and
  flags.
* `Controller` composed with `OrderedInterface` without the contract in between:
  the contract stands between two checked sides, and the product of their state
  spaces, each near a million states at its bounds, is not attempted.
* Platform selection headers, examples and build files: no behaviour.

## 6. Plan

Done: the three contracts and the modules that implement them, from `Controller`
down to the ESP32 driver and the fields of the store; the proofs of section 4.
Every safety property that a passing run checks is a theorem, except `FailureIsOwn`
and `SettledTruth` of the ESP32 driver. What is left is to strengthen `Follows` until
it says what the queue will make of the adapter's link, from which both would follow.
