------------------------- MODULE ControllerPromises --------------------------
(***************************************************************************)
(* What Controller promises its caller over long overlaps of requests,     *)
(* completions, timeouts, retries and faults, proved for every value of    *)
(* the constants: no deadline without its timer, no retry that is not      *)
(* shown or shown and not scheduled, no work that nothing will take up,    *)
(* credentials only while they are wanted, no reconnection after an        *)
(* explicit disconnect(), under the conditions named there that an intent  *)
(* which settled without an error holds, and no change a listener is not   *)
(* told of.                                                                *)
(*                                                                         *)
(* None of these is inductive alone.  PInv, the invariant, adds to Inv of  *)
(* ControllerProofs what the methods rely on from one call to the next:    *)
(*   RetryTold   the retry flag, its task and the failure it is charged to *)
(*   LinkTimed   only a link that is up is timed                           *)
(*   Wanted      the accepted input agrees with the intent                 *)
(*   Rooted      no connect before the first enable, no transition over a  *)
(*               queued scan                                               *)
(*   Woken       what is to be done is under way or scheduled              *)
(*   Timed       an armed deadline has its timer task                      *)
(*   Obeys       after disconnect() nothing automatic is left              *)
(*   Faithful    an automatic intent is for a profile saved as automatic,  *)
(*               as long as no profile is rewritten                        *)
(* The first four make up Sound.  Each method has a lemma about the        *)
(* controller it returns, Same(c, d) saying that it touches none of this,  *)
(* Loyal(c, d) that it keeps the intent; each action has a lemma that      *)
(* shows Pledged, which is PInv' without Inv'.                             *)
(*                                                                         *)
(* QInv, the invariant of the second part, adds to PInv                    *)
(*   Apart       no scan during a transition, no link during an enable     *)
(*   Intended    what a revision and a pending restoration are for         *)
(*   Heeded      what is not as the intent wants it is still attempted     *)
(*   Powered     connections need an enabled radio                         *)
(*   Underway    a transition is for an intent not attempted               *)
(*   Achieved    what an attempt without an error has achieved             *)
(*   Fresh       the deadline of an unwanted link is too young to expire   *)
(*   Stored      what was persisted is what was last enabled               *)
(* The first six make up Standing.  Alike(c, d) says that a method touches *)
(* none of them, Upheld(c, d, dead) that it keeps them; each action has a  *)
(* lemma that shows Settles.                                               *)
(*                                                                         *)
(* The last part is about the listeners.  A handler is a composition of    *)
(* methods, most of which change a view in one place and call changed()    *)
(* in another.  Each method has a lemma that says which of these the       *)
(* controller d it returns is to the c it got:                             *)
(*   Announces(c, d)    every view that changed is to be announced         *)
(*   Reports(c, d)      the same, and no scan results were published       *)
(*   StationEdit(c, d)  the station's view may have changed unannounced,   *)
(*   ScanEdit(c, d)     or the scan's, as between an assignment and the    *)
(*                      changed() that follows it                          *)
(* Each action has a lemma that shows Noticed, which has the one exception *)
(* the code makes: retry() drops a retry silently when its intent has      *)
(* become manual (RetryDropped).                                           *)
(***************************************************************************)
EXTENDS ControllerProofs

-----------------------------------------------------------------------------
(* What the methods do to the intent, to the charge of its failure and to  *)
(* the scheduled tasks *)

SameIntent(c, d) ==
  /\ d.desired = c.desired /\ d.profile = c.profile /\ d.config = c.config
  /\ d.secret = c.secret /\ d.auto = c.auto /\ d.restore = c.restore
  /\ d.revision = c.revision /\ d.initialized = c.initialized

SameAttempt(c, d) == d.active = c.active /\ d.attempted = c.attempted

SameCharge(c, d) ==
  d.pending = c.pending /\ d.failure = c.failure /\ d.armed = c.armed

SameWork(c, d) == "work" \in d.tasks <=> "work" \in c.tasks

SameTimer(c, d) == "timer" \in d.tasks <=> "timer" \in c.tasks

SameReconnect(c, d) == "reconnect" \in d.tasks <=> "reconnect" \in c.tasks

Timed(c) == Deadlines(c) # {} => "timer" \in c.tasks

USE DEF Kept, KeptLife, KeptLink, KeptStation, KeptScan, SameIntent,
        SameAttempt, SameCharge, SameWork, SameTimer, SameReconnect

Same(c, d) ==
  /\ OK(d) /\ Kept(c, d)
  /\ SameIntent(c, d) /\ SameAttempt(c, d) /\ SameCharge(c, d)

(* changed() touches none of them. *)
LEMMA ChangedSame ==
  ASSUME NEW c, OK(c), NEW what \in Change
  PROVE  LET d == changed(c, what)
         IN  /\ Same(c, d)
             /\ SameWork(c, d) /\ SameTimer(c, d) /\ SameReconnect(c, d)
<1>1. CASE c.running
  <2>1. PICK d : d = [c EXCEPT !.changes = @ \cup {what},
                               !.tasks = @ \cup {"notify"}]
    OBVIOUS
  <2>2. changed(c, what) = d
    BY <1>1, <2>1 DEF changed
  <2>3. OK(d) /\ Kept(c, d)
    BY <2>2, ChangedKeeps
  <2>4. /\ SameIntent(c, d) /\ SameAttempt(c, d) /\ SameCharge(c, d)
        /\ d.tasks = c.tasks \cup {"notify"}
    BY <2>1 DEF OK, Shape, Fields
  <2> QED BY <2>2, <2>3, <2>4 DEF Same
<1>2. CASE ~c.running
  BY <1>2 DEF changed, Same
<1> QED BY <1>1, <1>2

(* scheduleWork() makes execute() due. *)
LEMMA ScheduleWorkSame ==
  ASSUME NEW c, OK(c)
  PROVE  LET d == scheduleWork(c)
         IN  /\ Same(c, d) /\ "work" \in d.tasks
             /\ SameTimer(c, d) /\ SameReconnect(c, d)
<1>1. PICK d : d = scheduleWork(c)
  OBVIOUS
<1>2. OK(d) /\ Kept(c, d)
  BY <1>1, ScheduleWorkKeeps
<1>3. /\ SameIntent(c, d) /\ SameAttempt(c, d) /\ SameCharge(c, d)
      /\ d.tasks = c.tasks \cup {"work"}
  BY <1>1 DEF OK, Shape, Fields, scheduleWork
<1> QED BY <1>1, <1>2, <1>3 DEF Same

(* scheduleTimeouts() makes the timer task agree with the deadlines. *)
LEMMA ScheduleTimeoutsSame ==
  ASSUME NEW c, OK(c)
  PROVE  LET d == scheduleTimeouts(c)
         IN  /\ Same(c, d) /\ Timed(d)
             /\ SameWork(c, d) /\ SameReconnect(c, d)
<1>1. PICK d : d = scheduleTimeouts(c)
  OBVIOUS
<1>2. OK(d) /\ Kept(c, d)
  BY <1>1, ScheduleTimeoutsKeeps
<1>3. /\ SameIntent(c, d) /\ SameAttempt(c, d) /\ SameCharge(c, d)
      /\ d.tasks = IF Deadlines(c) = {} THEN c.tasks \ {"timer"}
                                        ELSE c.tasks \cup {"timer"}
  BY <1>1 DEF OK, Shape, Fields, scheduleTimeouts
<1>4. Deadlines(d) = Deadlines(c)
  BY <1>2, <1>3 DEF Deadlines
<1> QED BY <1>1, <1>2, <1>3, <1>4 DEF Same, Timed

(* The three calls with which most handlers end. *)
LEMMA AnnounceSame ==
  ASSUME NEW c, OK(c), NEW what \in Change
  PROVE  LET d == scheduleTimeouts(scheduleWork(changed(c, what)))
         IN  /\ Same(c, d) /\ Timed(d)
             /\ "work" \in d.tasks /\ SameReconnect(c, d)
<1>1. PICK d : d = changed(c, what)
  OBVIOUS
<1>2. Same(c, d) /\ SameReconnect(c, d)
  BY <1>1, ChangedSame
<1>3. PICK e : e = scheduleWork(d)
  OBVIOUS
<1>4. Same(d, e) /\ "work" \in e.tasks /\ SameReconnect(d, e)
  BY <1>2, <1>3, ScheduleWorkSame DEF Same
<1>5. PICK f : f = scheduleTimeouts(e)
  OBVIOUS
<1>6. Same(e, f) /\ Timed(f) /\ SameWork(e, f) /\ SameReconnect(e, f)
  BY <1>4, <1>5, ScheduleTimeoutsSame DEF Same
<1> QED BY <1>1, <1>2, <1>3, <1>4, <1>5, <1>6 DEF Same

(* cancelRetry() takes back the retry and its task. *)
LEMMA CancelRetrySame ==
  ASSUME NEW c, OK(c)
  PROVE  LET d == cancelRetry(c)
         IN  /\ OK(d) /\ Kept(c, d) /\ SameIntent(c, d) /\ SameAttempt(c, d)
             /\ d.pending = FALSE /\ d.failure = c.failure
             /\ d.armed = c.armed
             /\ "reconnect" \notin d.tasks
             /\ SameWork(c, d) /\ SameTimer(c, d)
<1>1. PICK d : d = cancelRetry(c)
  OBVIOUS
<1>2. OK(d) /\ Kept(c, d)
  BY <1>1, CancelRetryKeeps
<1>3. /\ SameIntent(c, d) /\ SameAttempt(c, d) /\ d.pending = FALSE
      /\ d.failure = c.failure /\ d.armed = c.armed
      /\ d.tasks = c.tasks \ {"reconnect"}
  BY <1>1 DEF OK, Shape, Fields, cancelRetry
<1> QED BY <1>1, <1>2, <1>3

(* What newIntent() makes of the controller whose intent was edited. *)
Renewed(c, d) ==
  /\ OK(d) /\ Kept(c, d) /\ SameAttempt(c, d)
  /\ d.desired = c.desired /\ d.profile = c.profile /\ d.config = c.config
  /\ d.secret = c.secret /\ d.auto = c.auto /\ d.restore = c.restore
  /\ d.revision = c.revision + 1 /\ d.initialized = c.initialized
  /\ d.pending = FALSE /\ d.armed = {}
  /\ "reconnect" \notin d.tasks /\ "work" \in d.tasks /\ SameTimer(c, d)

(* newIntent() starts a revision with nothing charged and execute() due. *)
LEMMA NewIntentRenews ==
  ASSUME NEW c, OK(c)
  PROVE  Renewed(c, newIntent(c))
<1>1. PICK d : d = cancelRetry(c)
  OBVIOUS
<1>2. /\ OK(d) /\ SameIntent(c, d) /\ SameAttempt(c, d)
      /\ d.pending = FALSE /\ "reconnect" \notin d.tasks /\ SameTimer(c, d)
  BY <1>1, CancelRetrySame
<1>3. PICK e : e = [d EXCEPT !.revision = @ + 1, !.status = "Ok",
                             !.failure = "None", !.level = 0, !.armed = {}]
  OBVIOUS
<1>4. /\ e.desired = d.desired /\ e.profile = d.profile
      /\ e.config = d.config /\ e.secret = d.secret /\ e.auto = d.auto
      /\ e.restore = d.restore /\ e.revision = d.revision + 1
      /\ e.initialized = d.initialized /\ SameAttempt(d, e)
      /\ e.pending = FALSE /\ e.armed = {} /\ e.tasks = d.tasks
  BY <1>2, <1>3 DEF OK, Shape, Fields
<1>5. OK(e)
  <2>1. Shape(e)
    BY <1>2, <1>3 DEF OK, Shape
  <2>2. Typed(e)
    BY <1>2, <1>3, NamesTyped DEF OK, Shape, Typed, Fields
  <2> QED BY <2>1, <2>2 DEF OK
<1>6. PICK f : f = changed(e, "station")
  OBVIOUS
<1>7. Same(e, f) /\ SameTimer(e, f) /\ SameReconnect(e, f)
  BY <1>5, <1>6, ChangedSame, ConstantNames
<1>8. PICK g : g = scheduleWork(f)
  OBVIOUS
<1>9. /\ Same(f, g) /\ "work" \in g.tasks
      /\ SameTimer(f, g) /\ SameReconnect(f, g)
  BY <1>7, <1>8, ScheduleWorkSame DEF Same
<1>10. newIntent(c) = g
  BY <1>1, <1>3, <1>6, <1>8 DEF newIntent, Replaced
<1>11. OK(g) /\ Kept(c, g)
  BY <1>10, NewIntentKeeps
<1> QED BY <1>2, <1>4, <1>7, <1>9, <1>10, <1>11 DEF Renewed, Same

(* A faulted controller holds no credentials and no retry. *)
Silenced(d) ==
  /\ OK(d) /\ d.faulted /\ d.secret = NoNetwork /\ d.pending = FALSE
  /\ "reconnect" \notin d.tasks

(* fault() drops the credentials and the retry, and keeps the intent. *)
LEMMA FaultSilences ==
  ASSUME NEW c, OK(c), NEW status \in Status
  PROVE  LET d == fault(c, status)
         IN  /\ Silenced(d) /\ d.running = c.running
             /\ d.closed = c.closed
             /\ d.desired = c.desired /\ d.profile = c.profile
             /\ d.auto = c.auto /\ d.restore = c.restore
<1>1. PICK s : s = [c EXCEPT !.scan = "Idle", !.scan_status = status]
  OBVIOUS
<1>2. /\ OK(s) /\ SameIntent(c, s) /\ s.running = c.running
      /\ s.closed = c.closed
  <2>1. Shape(s)
    BY <1>1 DEF OK, Shape
  <2>2. Typed(s)
    BY <1>1, NamesTyped DEF OK, Shape, Typed, Fields
  <2> QED BY <1>1, <2>1, <2>2 DEF OK, Shape, Fields
<1>3. PICK t : t = IF isScanning(c) THEN changed(s, "scan") ELSE c
  OBVIOUS
<1>4. OK(t) /\ SameIntent(c, t) /\ t.running = c.running /\ t.closed = c.closed
  <2>1. Same(s, changed(s, "scan"))
    BY <1>2, ChangedSame, ConstantNames
  <2> QED BY <1>2, <1>3, <2>1 DEF Same
<1>5. PICK u : u = [t EXCEPT !.faulted = TRUE, !.status = status,
                             !.scan_id = 0, !.station_id = 0,
                             !.transition = "None", !.secret = NoNetwork,
                             !.armed = {}, !.tasks = @ \ {"timer"}]
  OBVIOUS
<1>6. /\ OK(u) /\ u.faulted /\ u.secret = NoNetwork
      /\ u.running = c.running /\ u.closed = c.closed
      /\ u.desired = c.desired /\ u.profile = c.profile
      /\ u.auto = c.auto /\ u.restore = c.restore
  <2>1. Shape(u)
    BY <1>4, <1>5 DEF OK, Shape
  <2>2. Typed(u)
    BY <1>4, <1>5, NamesTyped DEF OK, Shape, Typed, Fields
  <2> QED BY <1>4, <1>5, <2>1, <2>2 DEF OK, Shape, Fields
<1>7. PICK v : v = cancelRetry(u)
  OBVIOUS
<1>8. /\ OK(v) /\ Kept(u, v) /\ SameIntent(u, v) /\ v.pending = FALSE
      /\ "reconnect" \notin v.tasks
  BY <1>6, <1>7, CancelRetrySame
<1>9. PICK w : w = changed(v, "station")
  OBVIOUS
<1>10. Same(v, w) /\ SameReconnect(v, w)
  BY <1>8, <1>9, ChangedSame, ConstantNames
<1>11. fault(c, status) = w
  BY <1>1, <1>3, <1>5, <1>7, <1>9 DEF fault
<1> QED BY <1>6, <1>8, <1>10, <1>11 DEF Same, Silenced

(* What connectionFailed() charges: the retry only to an automatic         *)
(* connection intent, and to each such one whose failure is transient.     *)
Charged(c, d, status, failure) ==
  /\ OK(d) /\ Kept(c, d) /\ SameIntent(c, d) /\ SameAttempt(c, d)
  /\ d.armed = {} /\ d.failure # "None"
  /\ failure # "None" => d.failure = failure
  /\ SameWork(c, d) /\ SameTimer(c, d)
  /\ IF /\ c.auto /\ c.desired = "Connected"
        /\ status \in {"ConnectionFailed", "Timeout"}
     THEN d.pending /\ "reconnect" \in d.tasks
     ELSE d.pending = c.pending /\ SameReconnect(c, d)

(* connectionFailed() charges the failure as Charged says. *)
LEMMA ConnectionFailedCharges ==
  ASSUME NEW c, OK(c), NEW status \in Status,
         NEW failure \in ConnectionFailure
  PROVE  Charged(c, connectionFailed(c, status, failure), status, failure)
<1>1. PICK d : d = [c EXCEPT !.status = status, !.armed = {},
                             !.failure = IF failure = "None" THEN "Transient"
                                         ELSE failure]
  OBVIOUS
<1>2. /\ OK(d) /\ SameIntent(c, d) /\ SameAttempt(c, d) /\ d.armed = {}
      /\ d.failure # "None" /\ (failure # "None" => d.failure = failure)
      /\ d.tasks = c.tasks /\ d.pending = c.pending
  <2>1. Shape(d)
    BY <1>1 DEF OK, Shape
  <2>2. Typed(d)
    BY <1>1, NamesTyped DEF OK, Shape, Typed, Fields
  <2> QED BY <1>1, <2>1, <2>2 DEF OK, Shape, Fields
<1>3. PICK e : e = [d EXCEPT !.pending = TRUE, !.level = nextLevel(@),
                             !.tasks = @ \cup {"reconnect"}]
  OBVIOUS
<1>4. /\ SameIntent(d, e) /\ SameAttempt(d, e) /\ e.armed = d.armed
      /\ e.failure = d.failure /\ e.tasks = d.tasks \cup {"reconnect"}
      /\ e.pending
  BY <1>2, <1>3 DEF OK, Shape, Fields
<1>5. connectionFailed(c, status, failure)
        = IF /\ c.auto /\ c.desired = "Connected"
             /\ status \in {"ConnectionFailed", "Timeout"}
          THEN e ELSE d
  BY <1>1, <1>3 DEF connectionFailed
<1>6. PICK f : f = connectionFailed(c, status, failure)
  OBVIOUS
<1>7. OK(f) /\ Kept(c, f)
  BY <1>6, ConnectionFailedKeeps
<1>8. CASE f = e
  BY <1>2, <1>4, <1>5, <1>6, <1>7, <1>8 DEF Charged
<1>9. CASE f = d
  BY <1>2, <1>4, <1>5, <1>6, <1>7, <1>9 DEF Charged
<1> QED BY <1>5, <1>6, <1>8, <1>9

-----------------------------------------------------------------------------
(* The promises of a running controller *)

(* Profiles are not rewritten under the controller and the store answers.  *)
Reliable == MaxWrites = 0 /\ StoreErrors = {}

(* state().retry.pending and the reconnect task come and go together, for  *)
(* an intent that connects to a saved profile and has failed; what has not *)
(* been attempted while a link is up has failed for want of an address.    *)
RetryTold(c) ==
  /\ c.pending <=> "reconnect" \in c.tasks
  /\ c.pending => /\ c.desired = "Connected" /\ c.profile # NoNetwork
                  /\ c.transition \in {"None", "Disconnect"}
                  /\ "stable" \notin c.armed /\ c.failure # "None"
                  /\ needsStation(c) /\ c.link.phase # "Idle" =>
                       c.failure = "AddressTimeout"

(* Only a link is timed, and its address never during a connect. *)
LinkTimed(c) ==
  /\ c.armed # {} => c.link.phase # "Idle"
  /\ "address" \in c.armed => c.transition \in {"None", "Disconnect"}

(* The accepted input is held as long as a connection is wanted, and an    *)
(* attempt for the current revision is for a connection that is wanted.    *)
Wanted(c) ==
  /\ c.active <= c.revision
  /\ c.transition = "Connect" /\ ~superseded(c) => c.desired = "Connected"
  /\ c.secret = IF c.desired = "Connected" THEN c.config ELSE NoNetwork
  /\ c.auto /\ c.desired = "Connected" => c.profile # NoNetwork

(* No connect before the radio was enabled once, and no transition while a *)
(* scan is queued.                                                         *)
Rooted(c) ==
  /\ c.transition = "Connect" \/ c.link.phase # "Idle" => c.initialized
  /\ c.scan = "Queued" => c.transition = "None"

Sound(c) == RetryTold(c) /\ LinkTimed(c) /\ Wanted(c) /\ Rooted(c)

(* An unattempted intent for which nothing is scheduled or under way. *)
Resting(c) ==
  /\ needsStation(c) /\ c.transition = "None" /\ ~c.pending
  /\ c.scan # "Cancelling" /\ "work" \notin c.tasks

(* retry() gave up the saved profile after a failure that is still shown,  *)
(* because the profile could not be loaded or is no longer automatic.      *)
GivenUp(c) ==
  /\ c.desired = "Connected" /\ c.profile # NoNetwork
  /\ c.failure # "None" /\ "stable" \notin c.armed
  /\ c.link.phase # "Idle" => c.failure = "AddressTimeout"

Woken(c) ==
  /\ Resting(c) => GivenUp(c) /\ ~Reliable
  /\ c.scan = "Queued" => "work" \in c.tasks
  /\ c.transition = "Connect" /\ superseded(c) /\ ~c.cancelling =>
       "work" \in c.tasks

(* A handler that is not an API call keeps the intent and charges a retry  *)
(* at most to an automatic one.                                            *)
Loyal(c, d) ==
  /\ d.desired = c.desired /\ d.profile = c.profile
  /\ d.auto = c.auto /\ d.restore = c.restore
  /\ d.pending => c.pending \/ c.auto

(* A scheduled execute() is all that Woken asks for. *)
LEMMA DueIsWoken ==
  ASSUME NEW c, "work" \in c.tasks
  PROVE  Woken(c)
BY DEF Woken, Resting

(* Methods that touch none of its parts keep Sound. *)
LEMMA SameSound ==
  ASSUME NEW c, NEW d, Sound(c), Same(c, d), SameReconnect(c, d)
  PROVE  Sound(d) /\ Loyal(c, d)
<1>1. RetryTold(d)
  BY DEF Sound, RetryTold, Same, needsStation
<1>2. LinkTimed(d) /\ Rooted(d)
  BY DEF Sound, LinkTimed, Rooted, Same
<1>3. Wanted(d)
  BY DEF Sound, Wanted, Same, superseded
<1>4. Loyal(c, d)
  BY DEF Loyal, Same
<1> QED BY <1>1, <1>2, <1>3, <1>4 DEF Sound

(* If they touch execute() neither, they keep Woken. *)
LEMMA SameWoken ==
  ASSUME NEW c, NEW d, Woken(c), Same(c, d), SameWork(c, d)
  PROVE  Woken(d)
<1>1. Resting(d) => Resting(c)
  BY DEF Resting, Same, needsStation
<1>2. GivenUp(c) => GivenUp(d)
  BY DEF GivenUp, Same
<1> QED BY <1>1, <1>2 DEF Woken, Same, superseded

(* newIntent() makes good every promise once the input agrees with what is *)
(* wanted.                                                                 *)
LEMMA NewIntentSound ==
  ASSUME NEW c, OK(c),
         c.active <= c.revision,
         c.secret = IF c.desired = "Connected" THEN c.config ELSE NoNetwork,
         c.auto /\ c.desired = "Connected" => c.profile # NoNetwork,
         Rooted(c)
  PROVE  LET d == newIntent(c)
         IN  /\ Renewed(c, d) /\ Sound(d) /\ Woken(d)
             /\ Timed(c) => Timed(d)
<1>1. PICK d : d = newIntent(c)
  OBVIOUS
<1>2. Renewed(c, d)
  BY <1>1, NewIntentRenews
<1>3. c.revision \in Nat /\ c.active \in Nat
  BY DEF OK, Typed
<1>4. RetryTold(d) /\ LinkTimed(d) /\ Rooted(d)
  BY <1>2 DEF RetryTold, LinkTimed, Rooted, Renewed
<1>5. Wanted(d)
  BY <1>2, <1>3 DEF Wanted, Renewed, superseded
<1>6. Woken(d)
  BY <1>2, DueIsWoken DEF Renewed
<1>7. Deadlines(d) \subseteq Deadlines(c)
  BY <1>2 DEF Deadlines, Renewed
<1>8. Timed(c) => Timed(d)
  BY <1>2, <1>7 DEF Timed, Renewed
<1> QED BY <1>1, <1>2, <1>4, <1>5, <1>6, <1>8 DEF Sound

(* requestConnection() keeps the promises. *)
LEMMA RequestConnectionSound ==
  ASSUME NEW c, OK(c), Sound(c), NEW network \in Ssid, NEW profile \in Ssid,
         NEW automatic \in BOOLEAN, automatic => profile # NoNetwork
  PROVE  LET d == requestConnection(c, network, profile, automatic)
         IN  /\ OK(d) /\ Kept(c, d) /\ Sound(d)
             /\ Woken(c) => Woken(d)
             /\ Timed(c) => Timed(d)
             /\ d.auto = automatic /\ d.profile = profile
             /\ d.pending => c.pending /\ c.profile = profile
<1>1. CASE /\ c.desired = "Connected" /\ c.status = "Ok"
           /\ c.profile = profile /\ c.config = network
           /\ c.secret = network
  <2>1. PICK d : d = [c EXCEPT !.auto = automatic]
    OBVIOUS
  <2>2. requestConnection(c, network, profile, automatic) = d
    BY <1>1, <2>1 DEF requestConnection
  <2>3. OK(d) /\ Kept(c, d)
    BY <2>2, RequestConnectionKeeps
  <2>4. /\ SameAttempt(c, d) /\ SameCharge(c, d) /\ d.tasks = c.tasks
        /\ d.desired = c.desired /\ d.profile = c.profile
        /\ d.config = c.config /\ d.secret = c.secret
        /\ d.revision = c.revision /\ d.initialized = c.initialized
        /\ d.auto = automatic
    BY <2>1 DEF OK, Shape, Fields
  <2>5. RetryTold(d) /\ LinkTimed(d) /\ Rooted(d)
    BY <2>3, <2>4 DEF Sound, RetryTold, LinkTimed, Rooted, needsStation
  <2>6. Wanted(d)
    BY <1>1, <2>3, <2>4 DEF Sound, Wanted, superseded
  <2>7. Woken(c) => Woken(d)
    BY <2>3, <2>4 DEF Woken, Resting, GivenUp, needsStation, superseded
  <2>8. Timed(c) => Timed(d)
    BY <2>3, <2>4 DEF Timed, Deadlines
  <2> QED BY <1>1, <2>2, <2>3, <2>4, <2>5, <2>6, <2>7, <2>8 DEF Sound
<1>2. CASE ~(/\ c.desired = "Connected" /\ c.status = "Ok"
             /\ c.profile = profile /\ c.config = network
             /\ c.secret = network)
  <2>1. PICK e : e = [c EXCEPT !.config = network, !.secret = network,
                               !.desired = "Connected", !.profile = profile,
                               !.auto = automatic, !.restore = FALSE]
    OBVIOUS
  <2>2. requestConnection(c, network, profile, automatic) = newIntent(e)
    BY <1>2, <2>1 DEF requestConnection
  <2>3. OK(e)
    <3>1. Shape(e)
      BY <2>1 DEF OK, Shape
    <3>2. Typed(e)
      BY <2>1, NamesTyped DEF OK, Shape, Typed, Fields
    <3> QED BY <3>1, <3>2 DEF OK
  <2>4. /\ Kept(c, e) /\ SameAttempt(c, e) /\ SameCharge(c, e)
        /\ e.tasks = c.tasks /\ e.desired = "Connected"
        /\ e.secret = e.config /\ e.revision = c.revision
        /\ e.initialized = c.initialized /\ e.auto = automatic
        /\ e.profile = profile
    BY <2>1 DEF OK, Shape, Fields
  <2>5. Rooted(e) /\ e.active <= e.revision
    BY <2>4 DEF Sound, Rooted, Wanted
  <2>6. PICK d : d = newIntent(e)
    OBVIOUS
  <2>7. /\ Renewed(e, d) /\ Sound(d) /\ Woken(d)
        /\ Timed(e) => Timed(d)
    BY <2>3, <2>4, <2>5, <2>6, NewIntentSound
  <2>8. Timed(c) => Timed(e)
    BY <2>4 DEF Timed, Deadlines
  <2> QED BY <2>2, <2>4, <2>6, <2>7, <2>8 DEF Renewed
<1> QED BY <1>1, <1>2

(* cancelScan() keeps the promises. *)
LEMMA CancelScanSound ==
  ASSUME NEW c, OK(c), Sound(c), NEW answer
  PROVE  LET d == cancelScan(c, answer)
         IN  /\ OK(d) /\ Sound(d) /\ Loyal(c, d)
             /\ Woken(c) => Woken(d)
             /\ Timed(c) => Timed(d)
             /\ SameIntent(c, d) /\ SameAttempt(c, d) /\ SameCharge(c, d)
             /\ c.scan # "Cancelling" =>
                  d = c \/ "work" \in d.tasks
<1>1. PICK d : d = cancelScan(c, answer)
  OBVIOUS
<1>2. /\ OK(d)
      /\ KeptLife(c, d) /\ KeptLink(c, d) /\ KeptStation(c, d)
      /\ d.scan_id = c.scan_id
      /\ d.scan = CASE c.scan = "Queued" -> "Idle"
                    [] c.scan = "Running" /\ answer = "Ok" -> "Cancelling"
                    [] OTHER -> c.scan
  BY <1>1, CancelScanMoves
<1>3. ASSUME NEW e, OK(e), SameIntent(c, e), SameAttempt(c, e),
             SameCharge(c, e), e.tasks = c.tasks,
             d = scheduleTimeouts(scheduleWork(changed(e, "scan")))
      PROVE  /\ SameIntent(c, d) /\ SameAttempt(c, d) /\ SameCharge(c, d)
             /\ "work" \in d.tasks /\ Timed(d) /\ SameReconnect(c, d)
  BY <1>3, AnnounceSame, ConstantNames DEF Same
<1>4. \/ d = c
      \/ /\ SameIntent(c, d) /\ SameAttempt(c, d) /\ SameCharge(c, d)
         /\ "work" \in d.tasks /\ Timed(d) /\ SameReconnect(c, d)
         /\ d.scan \in {"Idle", "Cancelling"}
  <2>1. CASE c.scan = "Queued"
    <3>1. PICK e : e = [c EXCEPT !.scan = "Idle",
                                 !.scan_status = "Cancelled"]
      OBVIOUS
    <3>2. /\ OK(e) /\ SameIntent(c, e) /\ SameAttempt(c, e)
          /\ SameCharge(c, e) /\ e.tasks = c.tasks
      <4>1. Shape(e)
        BY <3>1 DEF OK, Shape
      <4>2. Typed(e)
        BY <3>1, NamesTyped DEF OK, Shape, Typed, Fields
      <4> QED BY <3>1, <4>1, <4>2 DEF OK, Shape, Fields
    <3>3. d = scheduleTimeouts(scheduleWork(changed(e, "scan")))
      BY <1>1, <2>1, <3>1 DEF cancelScan
    <3> QED BY <1>2, <1>3, <2>1, <3>2, <3>3
  <2>2. CASE c.scan = "Running" /\ answer = "Ok"
    <3>1. PICK e : e = [c EXCEPT !.scan = "Cancelling"]
      OBVIOUS
    <3>2. /\ OK(e) /\ SameIntent(c, e) /\ SameAttempt(c, e)
          /\ SameCharge(c, e) /\ e.tasks = c.tasks
      <4>1. Shape(e)
        BY <3>1 DEF OK, Shape
      <4>2. Typed(e)
        BY <3>1, NamesTyped DEF OK, Shape, Typed, Fields
      <4> QED BY <3>1, <4>1, <4>2 DEF OK, Shape, Fields
    <3>3. d = scheduleTimeouts(scheduleWork(changed(e, "scan")))
      BY <1>1, <2>2, <3>1 DEF cancelScan
    <3> QED BY <1>2, <1>3, <2>2, <3>2, <3>3
  <2>3. CASE c.scan # "Queued" /\ ~(c.scan = "Running" /\ answer = "Ok")
    BY <1>1, <2>3 DEF cancelScan
  <2> QED BY <2>1, <2>2, <2>3
<1>5. CASE d = c
  BY <1>1, <1>5 DEF Loyal
<1>6. CASE /\ SameIntent(c, d) /\ SameAttempt(c, d) /\ SameCharge(c, d)
           /\ "work" \in d.tasks /\ Timed(d) /\ SameReconnect(c, d)
           /\ d.scan \in {"Idle", "Cancelling"}
  <2>1. RetryTold(d)
    BY <1>2, <1>6 DEF Sound, RetryTold, needsStation
  <2>2. LinkTimed(d) /\ Rooted(d)
    BY <1>2, <1>6 DEF Sound, LinkTimed, Rooted
  <2>3. Wanted(d) /\ Loyal(c, d)
    BY <1>2, <1>6 DEF Sound, Wanted, superseded, Loyal
  <2> QED BY <1>1, <1>2, <1>6, <2>1, <2>2, <2>3, DueIsWoken DEF Sound
<1> QED BY <1>4, <1>5, <1>6

(* A scan's completion keeps the promises and wakes execute(). *)
LEMMA ScanFinishedSound ==
  ASSUME NEW c, OK(c), Sound(c), NEW result \in Status, NEW read \in Status
  PROVE  LET d == scanFinished(c, result, read)
         IN  /\ OK(d) /\ Sound(d) /\ Woken(d) /\ Timed(d) /\ Loyal(c, d)
<1>1. PICK d : d = scanFinished(c, result, read)
  OBVIOUS
<1>2. /\ OK(d)
      /\ KeptLife(c, d) /\ KeptLink(c, d) /\ KeptStation(c, d)
      /\ d.scan_id = 0 /\ d.scan = "Idle"
  BY <1>1, ScanFinishedSettles
<1>3. PICK status \in Status : status = scanOutcome(c, result, read)
  BY NamesTyped DEF scanOutcome
<1>4. PICK e : e = [c EXCEPT !.scan_id = 0, !.scan = "Idle",
                             !.scan_status = status,
                             !.generation = IF status = "Ok" THEN @ + 1
                                            ELSE @]
  OBVIOUS
<1>5. /\ OK(e) /\ SameIntent(c, e) /\ SameAttempt(c, e)
      /\ SameCharge(c, e) /\ e.tasks = c.tasks
  <2>1. Shape(e)
    BY <1>4 DEF OK, Shape
  <2>2. Typed(e)
    BY <1>4, NamesTyped DEF OK, Shape, Typed, Fields
  <2> QED BY <1>4, <2>1, <2>2 DEF OK, Shape, Fields
<1>6. d = scheduleTimeouts(scheduleWork(changed(e, "scan")))
  BY <1>1, <1>3, <1>4 DEF scanFinished
<1>7. /\ SameIntent(c, d) /\ SameAttempt(c, d) /\ SameCharge(c, d)
      /\ "work" \in d.tasks /\ Timed(d) /\ SameReconnect(c, d)
  BY <1>5, <1>6, AnnounceSame, ConstantNames DEF Same
<1>8. RetryTold(d)
  BY <1>2, <1>7 DEF Sound, RetryTold, needsStation
<1>9. LinkTimed(d) /\ Rooted(d)
  BY <1>2, <1>7 DEF Sound, LinkTimed, Rooted
<1>10. Wanted(d) /\ Loyal(c, d)
  BY <1>2, <1>7 DEF Sound, Wanted, superseded, Loyal
<1> QED BY <1>1, <1>2, <1>7, <1>8, <1>9, <1>10, DueIsWoken DEF Sound

(* A station operation's completion keeps the promises and wakes           *)
(* execute(); a failed connect is charged to the current revision, which   *)
(* then counts as attempted.                                               *)
LEMMA StationFinishedSound ==
  ASSUME NEW c, OK(c), Sound(c), NEW result \in Status,
         NEW failure \in ConnectionFailure, NEW written \in Status
  PROVE  LET d == stationFinished(c, result, failure, written)
         IN  /\ OK(d) /\ Sound(d) /\ Woken(d) /\ Timed(d) /\ Loyal(c, d)
<1> DEFINE Retired(d) ==
      /\ OK(d) /\ KeptLink(c, d) /\ KeptScan(c, d) /\ d.transition = "None"
      /\ d.desired = c.desired /\ d.profile = c.profile
      /\ d.config = c.config /\ d.secret = c.secret /\ d.auto = c.auto
      /\ d.restore = c.restore /\ d.revision = c.revision
      /\ c.initialized => d.initialized
      /\ d.active = c.active
           Attempts(d) ==
      d.attempted = c.attempted \/ d.attempted = c.revision
<1>1. PICK status \in Status :
        status = IF WritesEnabled(c, result) \/ WritesLast(c, result)
                 THEN written ELSE StationStatus(c, result)
  BY NamesTyped DEF StationStatus
<1>2. PICK q : q = retireStation(c)
  OBVIOUS
<1>3. /\ Retired(q) /\ q.attempted = c.attempted /\ SameCharge(c, q)
      /\ SameReconnect(c, q)
  <2>1. Shape(q)
    BY <1>2 DEF OK, Shape, retireStation
  <2>2. Typed(q)
    BY <1>2, NamesTyped DEF OK, Shape, Typed, Fields, retireStation
  <2> QED BY <1>2, <2>1, <2>2 DEF OK, Shape, Fields, retireStation
<1>4. PICK w \in BOOLEAN : w = WritesEnabled(c, result)
  BY DEF WritesEnabled
<1>5. PICK r : r = [q EXCEPT !.initialized = @ \/ w]
  OBVIOUS
<1>6. /\ Retired(r) /\ r.attempted = c.attempted /\ SameCharge(c, r)
      /\ SameReconnect(c, r)
  <2>1. Shape(r)
    BY <1>3, <1>5 DEF OK, Shape
  <2>2. Typed(r)
    BY <1>3, <1>5 DEF OK, Shape, Typed, Fields
  <2> QED BY <1>3, <1>5, <2>1, <2>2 DEF OK, Shape, Fields
<1>7. PICK u : u = [r EXCEPT
                 !.status = status,
                 !.connected = IF /\ c.transition = "Connect"
                                  /\ StationStatus(c, result) = "Ok"
                               THEN c.profile ELSE @,
                 !.attempted = IF c.transition = "Connect" \/ status # "Ok"
                               THEN c.revision ELSE @]
  OBVIOUS
<1>8. /\ Retired(u) /\ Attempts(u) /\ SameCharge(c, u)
      /\ SameReconnect(c, u)
      /\ c.transition = "Connect" => u.attempted = c.revision
  <2>1. Shape(u)
    BY <1>6, <1>7 DEF OK, Shape
  <2>2. Typed(u)
    BY <1>6, <1>7 DEF OK, Shape, Typed, Fields
  <2> QED BY <1>6, <1>7, <2>1, <2>2 DEF OK, Shape, Fields
<1>9. PICK f \in ConnectionFailure :
        f = IF c.station_timed_out THEN c.timeout_failure ELSE failure
  BY DEF OK, Typed
<1>10. PICK x : x = connectionFailed(u, status, f)
  OBVIOUS
<1>11. Charged(u, x, status, f)
  BY <1>8, <1>10, ConnectionFailedCharges
<1>12. PICK v : /\ \/ v = r \/ v = u
                   \/ v = x /\ c.transition = "Connect"
                /\ stationFinished(c, result, failure, written)
                     = scheduleTimeouts(scheduleWork(changed(v, "station")))
  BY <1>1, <1>2, <1>4, <1>5, <1>7, <1>9, <1>10 DEF stationFinished
<1>13. ASSUME v = r \/ v = u
       PROVE  OK(v) /\ Sound(v) /\ Loyal(c, v)
  <2>1. /\ Retired(v) /\ Attempts(v) /\ SameCharge(c, v)
        /\ SameReconnect(c, v)
    BY <1>6, <1>8, <1>13
  <2>2. RetryTold(v)
    <3>1. needsStation(v) => needsStation(c)
      BY <2>1 DEF needsStation
    <3> QED BY <2>1, <3>1 DEF Sound, RetryTold
  <2>3. LinkTimed(v) /\ Rooted(v)
    BY <2>1 DEF Sound, LinkTimed, Rooted
  <2>4. Wanted(v) /\ Loyal(c, v)
    BY <2>1 DEF Sound, Wanted, Loyal
  <2> QED BY <2>1, <2>2, <2>3, <2>4 DEF Sound
<1>14. ASSUME v = x, c.transition = "Connect"
       PROVE  OK(v) /\ Sound(v) /\ Loyal(c, v)
  <2>1. /\ Retired(v) /\ v.attempted = v.revision
        /\ v.armed = {} /\ v.failure # "None"
    BY <1>8, <1>11, <1>14 DEF Charged
  <2>2. ~c.pending /\ c.initialized
        /\ "reconnect" \notin c.tasks
    BY <1>14 DEF Sound, RetryTold, Rooted
  <2>3. v.pending => c.auto /\ c.desired = "Connected"
    BY <1>8, <1>11, <1>14, <2>2 DEF Charged
  <2>4. v.pending <=> "reconnect" \in v.tasks
    BY <1>8, <1>11, <1>14, <2>2 DEF Charged
  <2>5. ~needsStation(v)
    BY <2>1, <2>2 DEF needsStation
  <2>6. RetryTold(v)
    BY <2>1, <2>3, <2>4, <2>5 DEF Sound, RetryTold, Wanted
  <2>7. LinkTimed(v) /\ Rooted(v)
    BY <2>1 DEF Sound, LinkTimed, Rooted
  <2>8. Wanted(v) /\ Loyal(c, v)
    BY <2>1, <2>3 DEF Sound, Wanted, Loyal
  <2> QED BY <2>1, <2>6, <2>7, <2>8 DEF Sound
<1>15. OK(v) /\ Sound(v) /\ Loyal(c, v)
  BY <1>12, <1>13, <1>14
<1>16. PICK d : d = scheduleTimeouts(scheduleWork(changed(v, "station")))
  OBVIOUS
<1>17. /\ Same(v, d) /\ Timed(d) /\ "work" \in d.tasks
       /\ SameReconnect(v, d)
  BY <1>15, <1>16, AnnounceSame, ConstantNames
<1>18. Sound(d) /\ Loyal(v, d)
  BY <1>15, <1>17, SameSound
<1> QED BY <1>12, <1>15, <1>16, <1>17, <1>18, DueIsWoken DEF Loyal, Same

(* What the adapter's contract and the agreement with it say of a reported *)
(* link: an address only on a link that is up and not being torn down, a   *)
(* new link only for a connect.                                            *)
Plausible(c, link) ==
  /\ link.phase = "AddressReady" =>
       c.link.phase # "Idle" /\ c.transition # "Disconnect"
  /\ c.link.phase = "Idle" /\ link.phase # "Idle" =>
       c.transition = "Connect"

(* What each of the three reactions to a link report must establish. *)
Reacted(c, d) ==
  /\ OK(d) /\ Sound(d) /\ Loyal(c, d)
  /\ Woken(c) => Woken(d)

(* A link with an address settles the retry that waited for it. *)
LEMMA EstablishedReacts ==
  ASSUME NEW c, OK(c), Sound(c), NEW link \in [id : Nat, phase : LinkPhase],
         Plausible(c, link), link.phase = "AddressReady"
  PROVE  Reacted(c, Established(c, link))
<1>1. PICK up : up = [c EXCEPT
        !.link = link,
        !.armed = (@ \ {"address"}) \cup
                  {d \in {"stable"} : c.link.phase # "AddressReady"}]
  OBVIOUS
<1>2. /\ OK(up) /\ SameIntent(c, up) /\ SameAttempt(c, up)
      /\ up.pending = c.pending /\ up.failure = c.failure
      /\ up.tasks = c.tasks /\ up.link = link
      /\ KeptStation(c, up) /\ KeptScan(c, up)
      /\ "address" \notin up.armed
      /\ "stable" \in up.armed =>
           "stable" \in c.armed \/ c.link.phase # "AddressReady"
  <2>1. Shape(up)
    BY <1>1 DEF OK, Shape
  <2>2. Typed(up)
    BY <1>1 DEF OK, Shape, Typed, Fields
  <2> QED BY <1>1, <2>1, <2>2 DEF OK, Shape, Fields
<1>3. c.initialized
  BY DEF Sound, Rooted, Plausible
<1>4. c.pending => c.transition = "None"
  BY DEF Sound, RetryTold, Plausible
<1>5. PICK recovers \in BOOLEAN :
        recovers = (/\ c.transition = "None"
                    /\ \/ c.pending
                       \/ /\ c.link.phase # "AddressReady"
                          /\ c.failure = "AddressTimeout")
  OBVIOUS
<1>6. CASE ~recovers
  <2>1. Established(c, link) = up
    BY <1>1, <1>5, <1>6 DEF Established
  <2>2. ~c.pending
    BY <1>4, <1>5, <1>6
  <2>3. RetryTold(up)
    BY <1>2, <2>2 DEF Sound, RetryTold
  <2>4. LinkTimed(up) /\ Rooted(up)
    BY <1>2, <1>3 DEF Sound, LinkTimed, Rooted
  <2>5. Wanted(up) /\ Loyal(c, up)
    BY <1>2 DEF Sound, Wanted, superseded, Loyal
  <2>6. ASSUME Woken(c) PROVE Woken(up)
    <3>1. Resting(up) => Resting(c)
      BY <1>2 DEF Resting, needsStation
    <3>2. ASSUME Resting(up) PROVE GivenUp(up) /\ ~Reliable
      <4>1. GivenUp(c) /\ ~Reliable /\ c.transition = "None"
        BY <2>6, <3>1, <3>2 DEF Woken, Resting
      <4>2. c.failure = "AddressTimeout"
        BY <4>1 DEF GivenUp, Plausible
      <4>3. c.link.phase = "AddressReady"
        BY <1>5, <1>6, <4>1, <4>2
      <4> QED BY <1>2, <4>1, <4>2, <4>3 DEF GivenUp
    <3> QED BY <1>2, <2>6, <3>2 DEF Woken, superseded
  <2> QED BY <1>2, <2>1, <2>3, <2>4, <2>5, <2>6 DEF Reacted, Sound
<1>7. CASE recovers
  <2>1. PICK q : q = cancelRetry(up)
    OBVIOUS
  <2>2. /\ OK(q) /\ Kept(up, q) /\ SameIntent(up, q) /\ SameAttempt(up, q)
        /\ q.pending = FALSE /\ q.armed = up.armed
        /\ "reconnect" \notin q.tasks /\ SameWork(up, q)
    BY <1>2, <2>1, CancelRetrySame
  <2>3. PICK v : v = [q EXCEPT !.attempted = c.revision, !.status = "Ok"]
    OBVIOUS
  <2>4. /\ OK(v) /\ Kept(q, v) /\ SameIntent(q, v) /\ v.active = q.active
        /\ v.attempted = c.revision /\ v.pending = FALSE
        /\ v.armed = q.armed /\ v.tasks = q.tasks
    <3>1. Shape(v)
      BY <2>2, <2>3 DEF OK, Shape
    <3>2. Typed(v)
      BY <2>2, <2>3, NamesTyped DEF OK, Shape, Typed, Fields
    <3> QED BY <2>2, <2>3, <3>1, <3>2 DEF OK, Shape, Fields
  <2>5. Established(c, link) = v
    BY <1>1, <1>5, <1>7, <2>1, <2>3 DEF Established
  <2>6. RetryTold(v)
    BY <2>2, <2>4 DEF RetryTold
  <2>7. LinkTimed(v) /\ Rooted(v)
    BY <1>2, <1>3, <2>2, <2>4 DEF Sound, LinkTimed, Rooted
  <2>8. Wanted(v) /\ Loyal(c, v)
    BY <1>2, <2>2, <2>4 DEF Sound, Wanted, superseded, Loyal
  <2>9. ~needsStation(v)
    BY <1>2, <1>3, <2>2, <2>4 DEF needsStation
  <2>10. Woken(c) => Woken(v)
    BY <1>2, <2>2, <2>4, <2>9 DEF Woken, Resting, superseded
  <2> QED BY <2>4, <2>5, <2>6, <2>7, <2>8, <2>10 DEF Reacted, Sound
<1> QED BY <1>6, <1>7

(* A link without an address is timed only when no transition is going on. *)
LEMMA DegradedReacts ==
  ASSUME NEW c, OK(c), Sound(c), NEW link \in [id : Nat, phase : LinkPhase],
         Plausible(c, link), link.phase \notin {"Idle", "AddressReady"}
  PROVE  Reacted(c, Degraded(c, link))
<1>1. PICK loses \in BOOLEAN :
        loses = (/\ c.link.phase = "AddressReady"
                 /\ link.phase = "Associated"
                 /\ c.transition = "None")
  OBVIOUS
<1>2. PICK d : d = [c EXCEPT !.link = link,
                             !.armed = (@ \ {"stable"}) \cup
                                       {x \in {"address"} : loses}]
  OBVIOUS
<1>3. /\ OK(d) /\ SameIntent(c, d) /\ SameAttempt(c, d)
      /\ d.pending = c.pending /\ d.failure = c.failure
      /\ d.tasks = c.tasks /\ d.link = link
      /\ KeptStation(c, d) /\ KeptScan(c, d)
      /\ "stable" \notin d.armed
      /\ "address" \in d.armed =>
           "address" \in c.armed \/ c.transition = "None"
  <2>1. Shape(d)
    BY <1>2 DEF OK, Shape
  <2>2. Typed(d)
    BY <1>2 DEF OK, Shape, Typed, Fields
  <2> QED BY <1>1, <1>2, <2>1, <2>2 DEF OK, Shape, Fields
<1>4. Degraded(c, link) = d
  BY <1>1, <1>2 DEF Degraded
<1>5. c.transition # "Connect" => c.link.phase # "Idle"
  BY DEF Plausible
<1>6. RetryTold(d)
  BY <1>3, <1>5 DEF Sound, RetryTold, needsStation
<1>7. LinkTimed(d) /\ Rooted(d)
  BY <1>3, <1>5 DEF Sound, LinkTimed, Rooted
<1>8. Wanted(d) /\ Loyal(c, d)
  BY <1>3 DEF Sound, Wanted, superseded, Loyal
<1>9. ASSUME Woken(c) PROVE Woken(d)
  <2>1. Resting(d) => Resting(c)
    BY <1>3 DEF Resting, needsStation
  <2>2. Resting(d) => GivenUp(d) /\ ~Reliable
    BY <1>3, <1>5, <1>9, <2>1 DEF Woken, Resting, GivenUp
  <2> QED BY <1>3, <1>9, <2>2 DEF Woken, superseded
<1> QED BY <1>3, <1>4, <1>6, <1>7, <1>8, <1>9 DEF Reacted, Sound

(* The loss of a wanted link is charged, and times nothing any more. *)
LEMMA LostReacts ==
  ASSUME NEW c, OK(c), Sound(c), NEW link \in [id : Nat, phase : LinkPhase],
         link.phase = "Idle", NEW reason \in Status,
         NEW failure \in ConnectionFailure
  PROVE  Reacted(c, Lost(c, link, reason, failure))
<1>1. PICK down : down = [c EXCEPT !.link = link, !.armed = {},
                                   !.connected = NoNetwork]
  OBVIOUS
<1>2. /\ OK(down) /\ SameIntent(c, down) /\ SameAttempt(c, down)
      /\ down.pending = c.pending /\ down.failure = c.failure
      /\ down.tasks = c.tasks /\ down.link = link /\ down.armed = {}
      /\ KeptStation(c, down) /\ KeptScan(c, down)
  <2>1. Shape(down)
    BY <1>1 DEF OK, Shape
  <2>2. Typed(down)
    BY <1>1, NamesTyped DEF OK, Shape, Typed, Fields
  <2> QED BY <1>1, <2>1, <2>2 DEF OK, Shape, Fields
<1>3. PICK st \in Status :
        st = IF reason = "Ok" THEN "ConnectionFailed" ELSE reason
  BY NamesTyped
<1>4. PICK f : f = connectionFailed(down, st, failure)
  OBVIOUS
<1>5. Charged(down, f, st, failure)
  BY <1>2, <1>4, ConnectionFailedCharges
<1>6. PICK d : /\ \/ d = down
                  \/ d = f /\ c.transition = "None" /\ c.desired = "Connected"
               /\ Lost(c, link, reason, failure) = d
  BY <1>1, <1>3, <1>4 DEF Lost
<1>7. /\ OK(d) /\ SameIntent(c, d) /\ SameAttempt(c, d)
      /\ d.link = link /\ d.armed = {} /\ SameWork(c, d)
      /\ KeptStation(c, d) /\ KeptScan(c, d)
      /\ d.failure = c.failure \/ d.failure # "None"
      /\ \/ d.pending = c.pending /\ SameReconnect(c, d)
         \/ /\ d.pending /\ "reconnect" \in d.tasks /\ d.failure # "None"
            /\ c.auto /\ c.desired = "Connected" /\ c.transition = "None"
  <2>1. CASE d = down
    BY <1>2, <2>1
  <2>2. CASE d = f /\ c.transition = "None" /\ c.desired = "Connected"
    BY <1>2, <1>5, <2>2 DEF Charged
  <2> QED BY <1>6, <2>1, <2>2
<1>8. RetryTold(d)
  BY <1>7 DEF Sound, RetryTold, Wanted
<1>9. LinkTimed(d) /\ Rooted(d)
  BY <1>7 DEF Sound, LinkTimed, Rooted
<1>10. Wanted(d) /\ Loyal(c, d)
  BY <1>7 DEF Sound, Wanted, superseded, Loyal
<1>11. ASSUME Woken(c) PROVE Woken(d)
  <2>1. Resting(d) => Resting(c)
    BY <1>7 DEF Resting, needsStation
  <2>2. Resting(d) => GivenUp(d) /\ ~Reliable
    BY <1>7, <1>11, <2>1 DEF Woken, GivenUp
  <2> QED BY <1>7, <1>11, <2>2 DEF Woken, superseded
<1> QED BY <1>6, <1>7, <1>8, <1>9, <1>10, <1>11 DEF Reacted, Sound

(* A link report keeps the promises. *)
LEMMA OnLinkChangedSound ==
  ASSUME NEW c, OK(c), Sound(c), Woken(c), Timed(c),
         NEW link \in [id : Nat, phase : LinkPhase], Plausible(c, link),
         NEW reason \in Status, NEW failure \in ConnectionFailure
  PROVE  LET d == onLinkChanged(c, link, reason, failure)
         IN  /\ OK(d) /\ Sound(d) /\ Woken(d) /\ Timed(d) /\ Loyal(c, d)
<1>1. PICK e : /\ e = CASE link.phase = "AddressReady" -> Established(c, link)
                        [] link.phase = "Idle" ->
                             Lost(c, link, reason, failure)
                        [] OTHER -> Degraded(c, link)
  OBVIOUS
<1>2. Reacted(c, e)
  <2>1. CASE link.phase = "AddressReady"
    BY <1>1, <2>1, EstablishedReacts
  <2>2. CASE link.phase = "Idle"
    BY <1>1, <2>2, LostReacts
  <2>3. CASE link.phase \notin {"Idle", "AddressReady"}
    BY <1>1, <2>3, DegradedReacts
  <2> QED BY <2>1, <2>2, <2>3
<1>3. PICK f : f = changed(e, "station")
  OBVIOUS
<1>4. Same(e, f) /\ SameWork(e, f) /\ SameReconnect(e, f)
  BY <1>2, <1>3, ChangedSame, ConstantNames DEF Reacted
<1>5. PICK g : g = scheduleTimeouts(f)
  OBVIOUS
<1>6. Same(f, g) /\ Timed(g) /\ SameWork(f, g) /\ SameReconnect(f, g)
  BY <1>4, <1>5, ScheduleTimeoutsSame DEF Same
<1>7. Same(e, g) /\ SameWork(e, g) /\ SameReconnect(e, g)
  BY <1>4, <1>6 DEF Same
<1>8. Sound(g) /\ Woken(g) /\ Loyal(e, g)
  BY <1>2, <1>7, SameSound, SameWoken DEF Reacted
<1>9. onLinkChanged(c, link, reason, failure) \in {c, g}
  BY <1>1, <1>3, <1>5 DEF onLinkChanged
<1>10. OK(g) /\ Loyal(c, g) /\ Loyal(c, c)
  BY <1>2, <1>7, <1>8 DEF Loyal, Same, Reacted
<1> QED BY <1>6, <1>8, <1>9, <1>10

(* Submitting a station command for the current revision keeps the         *)
(* promises; a rejected one completes at once.                             *)
LEMMA StartTransitionSound ==
  ASSUME NEW c, OK(c), Sound(c), c.running, ~c.faulted, c.next_id # 0,
         NEW kind \in {"Enable", "Connect", "Disconnect"},
         NEW answer \in Status,
         c.transition = "None", ~c.pending, c.scan = "Idle", ~superseded(c),
         kind # "Disconnect" => c.link.phase = "Idle",
         kind = "Connect" => c.desired = "Connected" /\ c.initialized
  PROVE  LET d == startTransition(c, kind, answer)
         IN  OK(d) /\ Sound(d) /\ Woken(d) /\ Loyal(c, d)
<1>1. PICK wants \in BOOLEAN : wants = Wants(c)
  BY DEF Wants
<1>2. PICK e : e = [c EXCEPT !.transition = kind,
                             !.transition_enabled =
                               IF kind = "Enable" THEN wants ELSE @,
                             !.station_id = c.next_id, !.next_id = @ + 1]
  OBVIOUS
<1>3. /\ OK(e) /\ KeptLink(c, e) /\ KeptScan(c, e) /\ e.transition = kind
      /\ e.running /\ ~e.faulted
      /\ SameIntent(c, e) /\ SameAttempt(c, e) /\ SameCharge(c, e)
      /\ e.tasks = c.tasks /\ e.station_id = c.next_id
  <2>1. Shape(e)
    BY <1>2 DEF OK, Shape
  <2>2. Typed(e)
    BY <1>2, NamesTyped DEF OK, Shape, Typed, Fields
  <2> QED BY <1>2, <2>1, <2>2 DEF OK, Shape, Fields
<1>4. RetryTold(e)
  BY <1>3 DEF Sound, RetryTold
<1>5. LinkTimed(e) /\ Rooted(e)
  BY <1>3 DEF Sound, LinkTimed, Rooted
<1>6. Wanted(e) /\ Loyal(c, e)
  BY <1>3 DEF Sound, Wanted, superseded, Loyal
<1>7. PICK f : f = changed(e, "station")
  OBVIOUS
<1>8. Same(e, f) /\ SameReconnect(e, f)
  BY <1>3, <1>7, ChangedSame, ConstantNames
<1>9. Sound(f) /\ Loyal(e, f)
  BY <1>4, <1>5, <1>6, <1>8, SameSound DEF Sound
<1>10. CASE answer = "Ok"
  <2>1. startTransition(c, kind, answer) = f
    BY <1>1, <1>2, <1>7, <1>10 DEF startTransition
  <2>2. Woken(f)
    BY <1>3, <1>8 DEF Woken, Resting, Same, superseded
  <2> QED BY <1>6, <1>8, <1>9, <2>1, <2>2 DEF Loyal, Same
<1>11. CASE answer # "Ok"
  <2>1. startTransition(c, kind, answer)
          = onOperationFinished(f, c.next_id, kind, answer, "None", "Ok")
    BY <1>1, <1>2, <1>7, <1>11 DEF startTransition
  <2>2. onOperationFinished(f, c.next_id, kind, answer, "None", "Ok")
          = stationFinished(f, answer, "None", "Ok")
    BY <1>3, <1>8 DEF onOperationFinished, Same
  <2>3. PICK w : w = stationFinished(f, answer, "None", "Ok")
    OBVIOUS
  <2>4. OK(w) /\ Sound(w) /\ Woken(w) /\ Loyal(f, w)
    BY <1>8, <1>9, <2>3, StationFinishedSound, ConstantNames DEF Same
  <2> QED BY <1>6, <1>9, <2>1, <2>2, <2>3, <2>4 DEF Loyal
<1> QED BY <1>10, <1>11

(* advance() keeps the promises: it starts a transition, or the intent     *)
(* counts as attempted.                                                    *)
LEMMA AdvanceSound ==
  ASSUME NEW c, OK(c), Sound(c), c.running, ~c.faulted, c.next_id # 0,
         NEW answer \in Status,
         c.transition = "None", ~c.pending, c.scan = "Idle"
  PROVE  LET d == advance(c, answer)
         IN  OK(d) /\ Sound(d) /\ Woken(d) /\ Loyal(c, d)
<1>1. PICK e : e = [c EXCEPT !.active = c.revision,
                             !.station_timed_out = FALSE]
  OBVIOUS
<1>2. /\ OK(e) /\ Kept(c, e) /\ SameIntent(c, e) /\ SameCharge(c, e)
      /\ e.tasks = c.tasks /\ e.active = e.revision
      /\ e.attempted = c.attempted
  <2>1. Shape(e)
    BY <1>1 DEF OK, Shape
  <2>2. Typed(e)
    BY <1>1, NamesTyped DEF OK, Shape, Typed, Fields
  <2> QED BY <1>1, <2>1, <2>2 DEF OK, Shape, Fields
<1>3. RetryTold(e) /\ LinkTimed(e) /\ Rooted(e)
  BY <1>2 DEF Sound, RetryTold, LinkTimed, Rooted
<1>4. Wanted(e) /\ Loyal(c, e)
  BY <1>2 DEF Sound, Wanted, Loyal, OK, Typed
<1>5. ASSUME NEW kind \in {"Enable", "Connect", "Disconnect"},
             advance(c, answer) = startTransition(e, kind, answer),
             kind # "Disconnect" => c.link.phase = "Idle",
             kind = "Connect" => c.desired = "Connected" /\ c.initialized
      PROVE  LET d == advance(c, answer)
             IN  OK(d) /\ Sound(d) /\ Woken(d) /\ Loyal(c, d)
  <2>1. PICK d : d = startTransition(e, kind, answer)
    OBVIOUS
  <2>2. OK(d) /\ Sound(d) /\ Woken(d) /\ Loyal(e, d)
    <3>1. ~superseded(e) /\ Sound(e)
      BY <1>2, <1>3, <1>4 DEF superseded, Sound
    <3> QED BY <1>2, <1>5, <2>1, <3>1, StartTransitionSound
  <2> QED BY <1>4, <1>5, <2>1, <2>2 DEF Loyal
<1>6. CASE c.link.phase # "Idle"
  BY <1>1, <1>5, <1>6 DEF advance
<1>7. CASE c.link.phase = "Idle" /\ (~c.initialized \/ c.enabled # Wants(c))
  BY <1>1, <1>5, <1>7 DEF advance
<1>8. CASE /\ c.link.phase = "Idle" /\ c.initialized
           /\ c.enabled = Wants(c) /\ c.desired = "Connected"
  BY <1>1, <1>5, <1>8 DEF advance
<1>9. CASE /\ c.link.phase = "Idle" /\ c.initialized
           /\ c.enabled = Wants(c) /\ c.desired # "Connected"
  <2>1. PICK f : f = [e EXCEPT !.attempted = c.revision]
    OBVIOUS
  <2>2. /\ OK(f) /\ Kept(e, f) /\ SameIntent(e, f) /\ SameCharge(e, f)
        /\ f.tasks = e.tasks /\ f.active = e.active
        /\ f.attempted = c.revision
    <3>1. Shape(f)
      BY <1>2, <2>1 DEF OK, Shape
    <3>2. Typed(f)
      BY <1>2, <2>1 DEF OK, Shape, Typed, Fields
    <3> QED BY <1>2, <2>1, <3>1, <3>2 DEF OK, Shape, Fields
  <2>3. Sound(f) /\ Loyal(c, f)
    BY <1>2, <1>3, <1>4, <2>2
    DEF Sound, RetryTold, LinkTimed, Rooted, Wanted, superseded, Loyal
  <2>4. PICK g : g = changed(f, "station")
    OBVIOUS
  <2>5. Same(f, g) /\ SameWork(f, g) /\ SameReconnect(f, g)
    BY <2>2, <2>4, ChangedSame, ConstantNames
  <2>6. Woken(f)
    BY <1>2, <1>9, <2>2 DEF Woken, Resting, needsStation
  <2>7. Sound(g) /\ Woken(g) /\ Loyal(f, g)
    BY <2>3, <2>5, <2>6, SameSound, SameWoken
  <2>8. advance(c, answer) = g
    BY <1>1, <1>9, <2>1, <2>4 DEF advance
  <2> QED BY <2>3, <2>5, <2>7, <2>8 DEF Loyal, Same
<1> QED BY <1>6, <1>7, <1>8, <1>9 DEF OK, Typed

(* Starting the queued scan keeps the promises when no station work waits  *)
(* for execute().                                                          *)
LEMMA StartScanningSound ==
  ASSUME NEW c, OK(c), Sound(c), c.running, ~c.faulted, c.next_id # 0,
         NEW answer \in Status,
         c.transition = "None", needsStation(c) => c.pending
  PROVE  LET d == startScanning(c, answer)
         IN  OK(d) /\ Sound(d) /\ Woken(d) /\ Loyal(c, d)
<1>1. PICK e : e = [c EXCEPT !.scan = "Running", !.scan_id = c.next_id,
                             !.next_id = @ + 1]
  OBVIOUS
<1>2. /\ OK(e) /\ KeptLink(c, e) /\ KeptStation(c, e)
      /\ e.scan = "Running" /\ e.scan_id = c.next_id
      /\ e.running /\ ~e.faulted
      /\ SameIntent(c, e) /\ SameAttempt(c, e) /\ SameCharge(c, e)
      /\ e.tasks = c.tasks
  <2>1. Shape(e)
    BY <1>1 DEF OK, Shape
  <2>2. Typed(e)
    BY <1>1, NamesTyped DEF OK, Shape, Typed, Fields
  <2> QED BY <1>1, <2>1, <2>2 DEF OK, Shape, Fields
<1>3. RetryTold(e)
  BY <1>2 DEF Sound, RetryTold, needsStation
<1>4. LinkTimed(e) /\ Rooted(e)
  BY <1>2 DEF Sound, LinkTimed, Rooted
<1>5. Wanted(e) /\ Loyal(c, e)
  BY <1>2 DEF Sound, Wanted, superseded, Loyal
<1>6. Woken(e)
  BY <1>2 DEF Woken, Resting, needsStation
<1>7. PICK f : f = changed(e, "scan")
  OBVIOUS
<1>8. Same(e, f) /\ SameWork(e, f) /\ SameReconnect(e, f)
  BY <1>2, <1>7, ChangedSame, ConstantNames
<1>9. Sound(f) /\ Woken(f) /\ Loyal(e, f)
  BY <1>3, <1>4, <1>5, <1>6, <1>8, SameSound, SameWoken DEF Sound
<1>10. CASE answer = "Ok"
  <2>1. startScanning(c, answer) = f
    BY <1>1, <1>7, <1>10 DEF startScanning
  <2> QED BY <1>5, <1>8, <1>9, <2>1 DEF Loyal, Same
<1>11. CASE answer # "Ok"
  <2>1. startScanning(c, answer)
          = onOperationFinished(f, c.next_id, "Scan", answer, "None", "Ok")
    BY <1>1, <1>7, <1>11 DEF startScanning
  <2>2. onOperationFinished(f, c.next_id, "Scan", answer, "None", "Ok")
          = scanFinished(f, answer, "Ok")
    BY <1>2, <1>8 DEF onOperationFinished, Same
  <2>3. PICK w : w = scanFinished(f, answer, "Ok")
    OBVIOUS
  <2>4. OK(w) /\ Sound(w) /\ Woken(w) /\ Loyal(f, w)
    BY <1>8, <1>9, <2>3, ScanFinishedSound, ConstantNames DEF Same
  <2> QED BY <1>5, <1>9, <2>1, <2>2, <2>3, <2>4 DEF Loyal
<1> QED BY <1>10, <1>11

(* Restoring the last profile keeps the promises. *)
LEMMA RestoreProfileSound ==
  ASSUME NEW c, OK(c), Sound(c), Timed(c), c.transition = "None", ~c.pending,
         NEW last \in Ssid, NEW status \in Status, NEW automatic \in BOOLEAN
  PROVE  LET d == restoreProfile(c, last, status, automatic)
         IN  /\ OK(d) /\ Sound(d) /\ Timed(d) /\ ~d.pending
             /\ \/ d.auto = c.auto /\ d.profile = c.profile
                   /\ d.desired = c.desired
                \/ d.auto /\ d.profile = last /\ automatic
<1>1. PICK d : d = [c EXCEPT !.active = c.revision,
                             !.station_timed_out = FALSE, !.restore = FALSE]
  OBVIOUS
<1>2. /\ OK(d) /\ Kept(c, d) /\ SameCharge(c, d) /\ d.tasks = c.tasks
      /\ d.desired = c.desired /\ d.profile = c.profile
      /\ d.config = c.config /\ d.secret = c.secret /\ d.auto = c.auto
      /\ d.revision = c.revision /\ d.initialized = c.initialized
      /\ d.active = c.revision /\ d.attempted = c.attempted
  <2>1. Shape(d)
    BY <1>1 DEF OK, Shape
  <2>2. Typed(d)
    BY <1>1 DEF OK, Shape, Typed, Fields
  <2> QED BY <1>1, <2>1, <2>2 DEF OK, Shape, Fields
<1>3. RetryTold(d) /\ LinkTimed(d) /\ Rooted(d)
  BY <1>2 DEF Sound, RetryTold, LinkTimed, Rooted
<1>4. Wanted(d) /\ Timed(d)
  BY <1>2 DEF Sound, Wanted, Timed, Deadlines, OK, Typed
<1>5. PICK outcome \in Status :
        outcome = IF status = "Ok" /\ automatic THEN requestStatus(d)
                                                ELSE status
  BY NamesTyped DEF requestStatus, admission
<1>6. CASE outcome = "Ok" /\ (last = NoNetwork \/ ~automatic)
  <2>1. restoreProfile(c, last, status, automatic) = d
    BY <1>1, <1>5, <1>6 DEF restoreProfile
  <2> QED BY <1>2, <1>3, <1>4, <2>1 DEF Sound
<1>7. CASE outcome = "Ok" /\ last # NoNetwork /\ automatic
  <2>1. PICK q : q = requestConnection(d, last, last, automatic)
    OBVIOUS
  <2>2. restoreProfile(c, last, status, automatic) = q
    <3>1. automatic = TRUE
      BY <1>7
    <3>2. restoreProfile(c, last, status, automatic)
            = requestConnection(d, last, last, TRUE)
      BY <1>1, <1>5, <1>7 DEF restoreProfile
    <3> QED BY <2>1, <3>1, <3>2
  <2>3. /\ OK(q) /\ Sound(q) /\ Timed(q)
        /\ q.auto = automatic /\ q.profile = last
        /\ q.pending => d.pending
    <3>1. Sound(d)
      BY <1>3, <1>4 DEF Sound
    <3>2. OK(d) /\ Timed(d) /\ (automatic => last # NoNetwork)
      BY <1>2, <1>4, <1>7
    <3>3. LET x == requestConnection(d, last, last, automatic)
          IN  /\ OK(x) /\ Sound(x) /\ (Timed(d) => Timed(x))
              /\ x.auto = automatic /\ x.profile = last
              /\ x.pending => d.pending /\ d.profile = last
      BY <3>1, <3>2, RequestConnectionSound
    <3> QED BY <2>1, <3>2, <3>3
  <2> QED BY <1>2, <1>7, <2>2, <2>3
<1>8. CASE outcome # "Ok"
  <2>1. PICK e : e = [d EXCEPT !.status = outcome]
    OBVIOUS
  <2>2. Same(d, e) /\ e.tasks = d.tasks
    <3>1. Shape(e)
      BY <1>2, <2>1 DEF OK, Shape
    <3>2. Typed(e)
      BY <1>2, <2>1 DEF OK, Shape, Typed, Fields
    <3> QED BY <1>2, <2>1, <3>1, <3>2 DEF OK, Shape, Fields, Same
  <2>3. PICK f : f = changed(e, "station")
    OBVIOUS
  <2>4. Same(e, f) /\ SameTimer(e, f) /\ SameReconnect(e, f)
    BY <2>2, <2>3, ChangedSame, ConstantNames, SMTT(30) DEF Same
  <2>5. Same(d, f) /\ SameTimer(d, f) /\ SameReconnect(d, f)
    BY <2>2, <2>4 DEF Same
  <2>6. Sound(f)
    BY <1>3, <1>4, <2>5, SameSound DEF Sound
  <2>7. Timed(f)
    BY <1>4, <2>5 DEF Timed, Deadlines, Same
  <2>8. restoreProfile(c, last, status, automatic) = f
    BY <1>1, <1>5, <1>8, <2>1, <2>3 DEF restoreProfile
  <2> QED BY <1>2, <2>5, <2>6, <2>7, <2>8 DEF Same
<1> QED BY <1>6, <1>7, <1>8

(* What the timer task must establish: it goes on as promised or has given *)
(* up.                                                                     *)
Continues(c, d) ==
  /\ OK(d) /\ d.running = c.running /\ Loyal(c, d)
  /\ IF d.faulted THEN Silenced(d) ELSE Sound(d) /\ Woken(d)

(* fault() is one way to continue. *)
LEMMA FaultContinues ==
  ASSUME NEW c, OK(c), NEW status \in Status
  PROVE  Continues(c, fault(c, status)) /\ Silenced(fault(c, status))
<1>1. PICK d : d = fault(c, status)
  OBVIOUS
<1>2. /\ Silenced(d) /\ d.running = c.running
      /\ d.desired = c.desired /\ d.profile = c.profile
      /\ d.auto = c.auto /\ d.restore = c.restore
  BY <1>1, FaultSilences
<1> QED BY <1>1, <1>2 DEF Continues, Silenced, Loyal

(* What continues a step that changed nothing else continues both. *)
LEMMA ContinuesAfter ==
  ASSUME NEW c, NEW d, NEW e, d.running = c.running, Loyal(c, d),
         Continues(d, e)
  PROVE  Continues(c, e)
BY DEF Continues, Loyal

(* A controller that keeps its promises continues as it is. *)
LEMMA ContinuesSame ==
  ASSUME NEW c, OK(c), ~c.faulted, Sound(c), Woken(c)
  PROVE  Continues(c, c)
BY DEF Continues, Loyal

(* An expired station deadline keeps the promises or gives up. *)
LEMMA StationExpiredSound ==
  ASSUME NEW c, OK(c), ~c.faulted, Sound(c), Woken(c), NEW answer \in Status
  PROVE  Continues(c, stationExpired(c, answer))
<1>1. PICK t : t = [c EXCEPT !.station_timed_out = TRUE,
                             !.timeout_failure =
                               IF c.link.phase = "Associated"
                               THEN "AddressTimeout" ELSE "ConnectionTimeout"]
  OBVIOUS
<1>2. Same(c, t) /\ t.tasks = c.tasks
  <2>1. Shape(t)
    BY <1>1 DEF OK, Shape
  <2>2. Typed(t)
    BY <1>1, NamesTyped DEF OK, Shape, Typed, Fields
  <2> QED BY <1>1, <2>1, <2>2 DEF OK, Shape, Fields, Same
<1>3. CASE c.transition # "Connect" \/ c.cancelling
  <2>1. stationExpired(c, answer) = fault(c, "Timeout")
    BY <1>3 DEF stationExpired
  <2> QED BY <2>1, FaultContinues, ConstantNames
<1>4. CASE c.transition = "Connect" /\ ~c.cancelling /\ answer = "Ok"
  <2>1. PICK u : u = [t EXCEPT !.cancelling = TRUE]
    OBVIOUS
  <2>2. /\ OK(u) /\ KeptLife(c, u) /\ KeptLink(c, u) /\ KeptScan(c, u)
        /\ u.transition = c.transition /\ u.cancelling
        /\ SameIntent(c, u) /\ SameAttempt(c, u) /\ SameCharge(c, u)
        /\ u.tasks = c.tasks
    <3>1. Shape(u)
      BY <1>2, <2>1 DEF OK, Shape, Same
    <3>2. Typed(u)
      BY <1>2, <2>1 DEF OK, Shape, Typed, Fields, Same
    <3> QED BY <1>2, <2>1, <3>1, <3>2 DEF OK, Shape, Fields, Same
  <2>3. Sound(u) /\ Loyal(c, u)
    <3>1. RetryTold(u)
      BY <2>2 DEF Sound, RetryTold, needsStation
    <3>2. LinkTimed(u) /\ Rooted(u)
      BY <2>2 DEF Sound, LinkTimed, Rooted
    <3>3. Wanted(u) /\ Loyal(c, u)
      BY <2>2 DEF Sound, Wanted, superseded, Loyal
    <3> QED BY <3>1, <3>2, <3>3 DEF Sound
  <2>4. Woken(u)
    BY <1>4, <2>2 DEF Woken, Resting
  <2>5. PICK v : v = changed(u, "station")
    OBVIOUS
  <2>6. Same(u, v) /\ SameWork(u, v) /\ SameReconnect(u, v)
    BY <2>2, <2>5, ChangedSame, ConstantNames
  <2>7. Sound(v) /\ Woken(v) /\ Loyal(u, v)
    BY <2>3, <2>4, <2>6, SameSound, SameWoken
  <2>8. stationExpired(c, answer) = v
    BY <1>1, <1>4, <2>1, <2>5 DEF stationExpired
  <2> QED BY <2>2, <2>3, <2>6, <2>7, <2>8 DEF Continues, Loyal, Same
<1>5. CASE c.transition = "Connect" /\ ~c.cancelling /\ answer # "Ok"
  <2>1. stationExpired(c, answer) = fault(t, "Timeout")
    BY <1>1, <1>5 DEF stationExpired
  <2>2. Continues(t, fault(t, "Timeout"))
    BY <1>2, FaultContinues, ConstantNames DEF Same
  <2>3. t.running = c.running /\ Loyal(c, t)
    BY <1>2 DEF Same, Loyal
  <2> QED BY <2>1, <2>2, <2>3, ContinuesAfter
<1> QED BY <1>3, <1>4, <1>5

(* An expired scan deadline keeps the promises or gives up. *)
LEMMA ScanExpiredSound ==
  ASSUME NEW c, OK(c), ~c.faulted, Sound(c), Woken(c), NEW answer \in Status
  PROVE  Continues(c, scanExpired(c, answer))
<1>1. PICK t : t = [c EXCEPT !.scan_timed_out = TRUE]
  OBVIOUS
<1>2. Same(c, t) /\ t.tasks = c.tasks
  <2>1. Shape(t)
    BY <1>1 DEF OK, Shape
  <2>2. Typed(t)
    BY <1>1 DEF OK, Shape, Typed, Fields
  <2> QED BY <1>1, <2>1, <2>2 DEF OK, Shape, Fields, Same
<1>3. /\ OK(t) /\ ~t.faulted /\ t.running = c.running /\ Loyal(c, t)
      /\ Sound(t) /\ Woken(t)
  BY <1>2, SameSound, SameWoken DEF Same
<1>4. CASE c.scan = "Cancelling"
  <2>1. scanExpired(c, answer) = fault(c, "Timeout")
    BY <1>4 DEF scanExpired
  <2> QED BY <2>1, FaultContinues, ConstantNames
<1>5. CASE c.scan # "Cancelling" /\ cancelScanStatus(c, answer) = "Ok"
  <2>1. PICK w : w = cancelScan(t, answer)
    OBVIOUS
  <2>2. OK(w) /\ Sound(w) /\ Woken(w) /\ Loyal(t, w)
    BY <1>3, <2>1, CancelScanSound
  <2>3. KeptLife(t, w)
    BY <1>3, <2>1, CancelScanMoves
  <2>4. Continues(t, w)
    BY <1>3, <2>2, <2>3 DEF Continues
  <2>5. scanExpired(c, answer) = w
    BY <1>1, <1>5, <2>1 DEF scanExpired
  <2> QED BY <1>3, <2>4, <2>5, ContinuesAfter
<1>6. CASE c.scan # "Cancelling" /\ cancelScanStatus(c, answer) # "Ok"
  <2>1. scanExpired(c, answer) = fault(t, "Timeout")
    BY <1>1, <1>6 DEF scanExpired
  <2>2. Continues(t, fault(t, "Timeout"))
    BY <1>3, FaultContinues, ConstantNames
  <2> QED BY <1>3, <2>1, <2>2, ContinuesAfter
<1> QED BY <1>4, <1>5, <1>6

(* A connection that has been stable long enough is forgiven its failure:  *)
(* nothing is pending then.                                                *)
LEMMA StableSound ==
  ASSUME NEW c, OK(c), ~c.faulted, Sound(c), Woken(c), "stable" \in c.armed,
         NEW d, d = [c EXCEPT !.armed = @ \ {"stable"}, !.pending = FALSE,
                              !.failure = "None", !.level = 0]
  PROVE  /\ Continues(c, d) /\ ~d.faulted
         /\ "address" \in c.armed => "address" \in d.armed
<1>1. /\ OK(d) /\ Kept(c, d) /\ SameIntent(c, d) /\ SameAttempt(c, d)
      /\ d.tasks = c.tasks /\ d.pending = FALSE
      /\ d.armed = c.armed \ {"stable"}
  <2>1. Shape(d)
    BY DEF OK, Shape
  <2>2. Typed(d)
    BY NamesTyped DEF OK, Shape, Typed, Fields
  <2> QED BY <2>1, <2>2 DEF OK, Shape, Fields
<1>2. ~c.pending /\ "reconnect" \notin c.tasks
  BY DEF Sound, RetryTold
<1>3. RetryTold(d) /\ LinkTimed(d) /\ Rooted(d)
  BY <1>1, <1>2 DEF Sound, RetryTold, LinkTimed, Rooted
<1>4. Wanted(d) /\ Loyal(c, d)
  BY <1>1 DEF Sound, Wanted, superseded, Loyal
<1>5. Resting(d) => Resting(c)
  BY <1>1, <1>2 DEF Resting, needsStation
<1>6. ~Resting(c)
  BY DEF Woken, GivenUp
<1>7. Woken(d)
  BY <1>1, <1>5, <1>6 DEF Woken, superseded
<1> QED BY <1>1, <1>3, <1>4, <1>7 DEF Continues, Sound

(* A link that has waited too long for its address is charged. *)
LEMMA AddressSound ==
  ASSUME NEW c, OK(c), ~c.faulted, Sound(c), Woken(c), "address" \in c.armed
  PROVE  Continues(c, connectionFailed(c, "Timeout", "AddressTimeout"))
<1>1. PICK d : d = connectionFailed(c, "Timeout", "AddressTimeout")
  OBVIOUS
<1>2. Charged(c, d, "Timeout", "AddressTimeout")
  BY <1>1, ConnectionFailedCharges, ConstantNames
<1>3. d.failure = "AddressTimeout"
  BY <1>2 DEF Charged
<1>4. c.transition \in {"None", "Disconnect"}
  BY DEF Sound, LinkTimed
<1>5. RetryTold(d)
  BY <1>2, <1>3, <1>4 DEF Sound, RetryTold, Charged, Wanted
<1>6. LinkTimed(d) /\ Rooted(d)
  BY <1>2 DEF Sound, LinkTimed, Rooted, Charged
<1>7. Wanted(d) /\ Loyal(c, d)
  BY <1>2 DEF Sound, Wanted, superseded, Loyal, Charged
<1>8. Resting(d) => Resting(c)
  BY <1>2 DEF Resting, needsStation, Charged
<1>9. Woken(d)
  BY <1>2, <1>3, <1>8 DEF Woken, superseded, GivenUp, Charged
<1> QED BY <1>1, <1>2, <1>5, <1>6, <1>7, <1>9
    DEF Continues, Sound, Charged

(* An invalidation continues what it announces. *)
LEMMA ContinuesChanged ==
  ASSUME NEW c, NEW d, Continues(c, d), ~d.faulted, NEW what \in Change
  PROVE  Continues(c, changed(d, what)) /\ ~changed(d, what).faulted
<1>1. PICK e : e = changed(d, what)
  OBVIOUS
<1>2. Same(d, e) /\ SameWork(d, e) /\ SameReconnect(d, e)
  BY <1>1, ChangedSame DEF Continues
<1>3. Sound(e) /\ Woken(e) /\ Loyal(d, e)
  BY <1>2, SameSound, SameWoken DEF Continues
<1> QED BY <1>1, <1>2, <1>3 DEF Continues, Loyal, Same

(* The timer task keeps the promises or gives up. *)
LEMMA CheckTimeoutsSound ==
  ASSUME NEW c, OK(c), c.running, ~c.faulted, Sound(c), Woken(c),
         NEW expired, expired \subseteq Deadlines(c), NEW answer \in Status
  PROVE  LET d == checkTimeouts(c, expired, answer)
         IN  Continues(c, d) /\ (~d.faulted => Timed(d))
<1>0. /\ "stable" \in expired => "stable" \in c.armed
      /\ "address" \in expired => "address" \in c.armed
  BY DEF Deadlines
<1>1. PICK b : b = [c EXCEPT !.armed = @ \ {"stable"}, !.pending = FALSE,
                             !.failure = "None", !.level = 0]
  OBVIOUS
<1>2. PICK s : s = IF "stable" \in expired THEN changed(b, "station") ELSE c
  OBVIOUS
<1>3. /\ Continues(c, s) /\ ~s.faulted
      /\ "address" \in expired => "address" \in s.armed
  <2>1. CASE "stable" \in expired
    <3>1. /\ Continues(c, b) /\ ~b.faulted
          /\ "address" \in c.armed => "address" \in b.armed
      BY <1>0, <1>1, <2>1, StableSound
    <3>2. s = changed(b, "station")
      BY <1>2, <2>1
    <3>3. Continues(c, s) /\ ~s.faulted
      BY <3>1, <3>2, ContinuesChanged, ConstantNames
    <3>4. Same(b, s)
      BY <3>1, <3>2, ChangedSame, ConstantNames DEF Continues
    <3> QED BY <1>0, <3>1, <3>3, <3>4 DEF Same
  <2>2. CASE "stable" \notin expired
    BY <1>0, <1>2, <2>2, ContinuesSame
  <2> QED BY <2>1, <2>2
<1>4. PICK f : f = connectionFailed(s, "Timeout", "AddressTimeout")
  OBVIOUS
<1>5. PICK a : a = IF "address" \in expired THEN changed(f, "station") ELSE s
  OBVIOUS
<1>6. Continues(c, a) /\ ~a.faulted
  <2>1. CASE "address" \in expired
    <3>1. Continues(s, f)
      BY <1>3, <1>4, <2>1, AddressSound DEF Continues
    <3>2. ~f.faulted
      BY <1>3, <1>4, ConnectionFailedKeeps, ConstantNames DEF Continues
    <3>3. Continues(c, f)
      BY <1>3, <3>1, ContinuesAfter DEF Continues
    <3> QED BY <1>5, <2>1, <3>2, <3>3, ContinuesChanged, ConstantNames
  <2>2. CASE "address" \notin expired
    BY <1>3, <1>5, <2>2
  <2> QED BY <2>1, <2>2
<1>7. PICK t : t = IF "station" \in expired THEN stationExpired(a, answer)
                                            ELSE a
  OBVIOUS
<1>8. Continues(c, t)
  <2>1. CASE "station" \in expired
    <3>1. Continues(a, t)
      BY <1>6, <1>7, <2>1, StationExpiredSound DEF Continues
    <3> QED BY <1>6, <3>1, ContinuesAfter DEF Continues
  <2>2. CASE "station" \notin expired
    BY <1>6, <1>7, <2>2
  <2> QED BY <2>1, <2>2
<1>9. PICK w : w = IF "scan" \in expired /\ ~t.faulted
                   THEN scanExpired(t, answer) ELSE t
  OBVIOUS
<1>10. Continues(c, w)
  <2>1. CASE "scan" \in expired /\ ~t.faulted
    <3>1. Continues(t, w)
      BY <1>8, <1>9, <2>1, ScanExpiredSound DEF Continues
    <3> QED BY <1>8, <3>1, ContinuesAfter DEF Continues
  <2>2. CASE ~("scan" \in expired /\ ~t.faulted)
    BY <1>8, <1>9, <2>2
  <2> QED BY <2>1, <2>2
<1>11. checkTimeouts(c, expired, answer)
         = IF w.faulted THEN w ELSE scheduleTimeouts(w)
  BY <1>1, <1>2, <1>4, <1>5, <1>7, <1>9 DEF checkTimeouts
<1>12. CASE w.faulted
  BY <1>10, <1>11, <1>12
<1>13. CASE ~w.faulted
  <2>1. PICK z : z = scheduleTimeouts(w)
    OBVIOUS
  <2>2. Same(w, z) /\ Timed(z) /\ SameWork(w, z) /\ SameReconnect(w, z)
    BY <1>10, <2>1, ScheduleTimeoutsSame DEF Continues
  <2>3. Sound(z) /\ Woken(z) /\ Loyal(w, z)
    BY <1>10, <1>13, <2>2, SameSound, SameWoken DEF Continues
  <2>4. Continues(c, z)
    BY <1>10, <1>13, <2>2, <2>3 DEF Continues, Loyal, Same
  <2> QED BY <1>11, <1>13, <2>1, <2>2, <2>4
<1> QED BY <1>12, <1>13

(* retry() starts over or gives the intent up; a store that answers and    *)
(* still holds the automatic profile leaves it no reason to give up.       *)
LEMMA RetrySound ==
  ASSUME NEW x, OK(x), Sound(x), Woken(x), Timed(x), x.running,
         ~x.faulted, x.pending, NEW c, Same(x, c),
         c.tasks = x.tasks \ {"reconnect"},
         NEW status \in Status, NEW automatic \in BOOLEAN,
         Reliable => x.auto /\ status = "Ok" /\ automatic
  PROVE  LET d == retry(c, status, automatic)
         IN  /\ OK(d) /\ Sound(d) /\ Woken(d) /\ Timed(d)
             /\ d.running /\ ~d.faulted /\ d.desired = x.desired
             /\ d.profile = x.profile /\ ~d.pending /\ (d.auto => x.auto)
<1> DEFINE Over(d) ==
      /\ OK(d) /\ Kept(x, d) /\ d.pending = FALSE
      /\ "reconnect" \notin d.tasks
      /\ d.desired = x.desired /\ d.profile = x.profile
      /\ d.config = x.config /\ d.secret = x.secret
      /\ d.restore = x.restore /\ d.revision = x.revision
      /\ d.initialized = x.initialized /\ d.active = x.active
      /\ d.failure = x.failure /\ d.armed = x.armed
      /\ d.auto => x.auto
      /\ SameTimer(x, d)
<1>1. PICK d : d = cancelRetry(c)
  OBVIOUS
<1>2. Over(d) /\ SameWork(x, d) /\ d.attempted = x.attempted
  <2>1. OK(c)
    BY DEF Same
  <2>2. /\ OK(d) /\ Kept(c, d) /\ SameIntent(c, d) /\ SameAttempt(c, d)
        /\ d.pending = FALSE /\ d.failure = c.failure /\ d.armed = c.armed
        /\ "reconnect" \notin d.tasks /\ SameWork(c, d) /\ SameTimer(c, d)
    BY <1>1, <2>1, CancelRetrySame
  <2> QED BY <2>2 DEF Same
<1>3. PICK e : e = [d EXCEPT !.attempted = 0, !.status = "Ok"]
  OBVIOUS
<1>4. Over(e)
  <2>1. Shape(e)
    BY <1>2, <1>3 DEF OK, Shape
  <2>2. Typed(e)
    BY <1>2, <1>3, NamesTyped DEF OK, Shape, Typed, Fields
  <2> QED BY <1>2, <1>3, <2>1, <2>2 DEF OK, Shape, Fields
<1>5. PICK g : g = changed(e, "station")
  OBVIOUS
<1>6. Over(g)
  <2>1. Same(e, g) /\ SameTimer(e, g) /\ SameReconnect(e, g)
    BY <1>4, <1>5, ChangedSame, ConstantNames
  <2> QED BY <1>4, <2>1 DEF Same
<1>7. PICK h : h = scheduleWork(g)
  OBVIOUS
<1>8. Over(h) /\ "work" \in h.tasks
  <2>1. /\ Same(g, h) /\ "work" \in h.tasks
        /\ SameTimer(g, h) /\ SameReconnect(g, h)
    BY <1>6, <1>7, ScheduleWorkSame
  <2> QED BY <1>6, <2>1 DEF Same
<1>9. PICK f : f = [d EXCEPT !.auto = FALSE,
                             !.status = IF status = "Ok" THEN @ ELSE status]
  OBVIOUS
<1>10. Over(f) /\ SameWork(x, f) /\ f.attempted = x.attempted
  <2>1. Shape(f)
    BY <1>2, <1>9 DEF OK, Shape
  <2>2. Typed(f)
    BY <1>2, <1>9 DEF OK, Shape, Typed, Fields
  <2> QED BY <1>2, <1>9, <2>1, <2>2 DEF OK, Shape, Fields
<1>11. PICK k : k = changed(f, "station")
  OBVIOUS
<1>12. Over(k) /\ SameWork(x, k) /\ k.attempted = x.attempted
  <2>1. /\ Same(f, k) /\ SameWork(f, k) /\ SameTimer(f, k)
        /\ SameReconnect(f, k)
    BY <1>10, <1>11, ChangedSame, ConstantNames
  <2> QED BY <1>10, <2>1 DEF Same
<1>13. ASSUME NEW y, Over(y)
       PROVE  Sound(y) /\ Timed(y)
  <2>1. RetryTold(y) /\ LinkTimed(y) /\ Rooted(y)
    BY <1>13 DEF Sound, RetryTold, LinkTimed, Rooted
  <2>2. Wanted(y)
    BY <1>13 DEF Sound, Wanted, superseded
  <2>3. Timed(y)
    BY <1>13 DEF Timed, Deadlines
  <2> QED BY <2>1, <2>2, <2>3 DEF Sound
<1>14. ASSUME NEW y, Over(y), SameWork(x, y), y.attempted = x.attempted,
              ~Reliable
       PROVE  Woken(y)
  <2>1. Resting(y) => GivenUp(y)
    BY <1>14 DEF Sound, RetryTold, GivenUp, Resting, needsStation
  <2>2. y.scan = "Queued" => "work" \in y.tasks
    BY <1>14 DEF Woken
  <2> QED BY <1>14, <2>1, <2>2 DEF Woken, Sound, RetryTold
<1>15. c.running /\ ~c.faulted /\ c.desired = "Connected" /\ c.auto = x.auto
  BY DEF Same, Sound, RetryTold
<1>16. CASE ~c.auto
  <2>1. retry(c, status, automatic) = d
    BY <1>1, <1>16 DEF retry
  <2>2. Sound(d) /\ Timed(d)
    BY <1>2, <1>13
  <2>3. Woken(d)
    BY <1>2, <1>14, <1>15, <1>16
  <2> QED BY <1>2, <2>1, <2>2, <2>3
<1>17. CASE c.auto /\ status = "Ok" /\ automatic
  <2>1. retry(c, status, automatic) = h
    BY <1>1, <1>3, <1>5, <1>7, <1>15, <1>17 DEF retry
  <2>2. Sound(h) /\ Timed(h)
    BY <1>8, <1>13
  <2> QED BY <1>8, <2>1, <2>2, DueIsWoken
<1>18. CASE c.auto /\ ~(status = "Ok" /\ automatic)
  <2>1. retry(c, status, automatic) = k
    BY <1>1, <1>9, <1>11, <1>15, <1>18 DEF retry
  <2>2. Sound(k) /\ Timed(k)
    BY <1>12, <1>13
  <2>3. Woken(k)
    BY <1>12, <1>14, <1>18
  <2> QED BY <1>12, <2>1, <2>2, <2>3
<1> QED BY <1>16, <1>17, <1>18

-----------------------------------------------------------------------------
(* The invariant: a controller that can still work keeps its promises, and *)
(* one that cannot holds neither credentials nor a retry.  After an        *)
(* explicit disconnect() there is no connection intent, automatic or to be *)
(* restored.  While no profile is rewritten, an automatic intent is for a  *)
(* profile that is saved as automatic.                                     *)

Promise(c) ==
  IF c.running /\ ~c.faulted
  THEN Sound(c) /\ Woken(c) /\ Timed(c)
  ELSE c.secret = NoNetwork /\ ~c.pending /\ "reconnect" \notin c.tasks

Silent(c) == c.desired # "Connected" /\ ~c.restore /\ ~c.auto

Obeys(c, m) == m => (c.running => Silent(c)) /\ (c.running \/ c.closed)

Faithful(c, s) ==
  MaxWrites = 0 /\ c.running /\ c.desired = "Connected" =>
    /\ c.auto => IsAuto(s, c.profile)
    /\ c.pending => c.auto

PInv ==
  /\ Inv /\ Promise(ctl) /\ Obeys(ctl, muted) /\ Faithful(ctl, store)

(* What each step must establish besides Inv'. *)
Pledged == Promise(ctl') /\ Obeys(ctl', muted') /\ Faithful(ctl', store')

(* A fault is one way to keep the promises. *)
LEMMA SilencedPromise ==
  ASSUME NEW d, Silenced(d)
  PROVE  Promise(d)
BY DEF Promise, Silenced

(* A step that is no API call and keeps the promises keeps the rest. *)
LEMMA LoyalKeepsPledge ==
  ASSUME PInv, ctl.running, ctl'.running, Loyal(ctl, ctl'), Promise(ctl'),
         UNCHANGED muted, MaxWrites = 0 => store'.saved = store.saved
  PROVE  Pledged
<1>1. Obeys(ctl', muted')
  BY DEF PInv, Obeys, Silent, Loyal
<1>2. Faithful(ctl', store')
  BY DEF PInv, Faithful, Loyal, IsAuto
<1> QED BY <1>1, <1>2 DEF Pledged

(* Methods that touch none of its parts keep Promise. *)
LEMMA SamePromise ==
  ASSUME NEW c, NEW d, Promise(c), Same(c, d), SameWork(c, d),
         SameTimer(c, d), SameReconnect(c, d)
  PROVE  Promise(d) /\ Loyal(c, d)
<1>1. Loyal(c, d)
  BY DEF Loyal, Same
<1>2. CASE c.running /\ ~c.faulted
  <2>1. Sound(d) /\ Woken(d)
    BY <1>2, SameSound, SameWoken DEF Promise
  <2>2. Timed(d)
    BY <1>2 DEF Promise, Timed, Deadlines, Same
  <2> QED BY <1>1, <1>2, <2>1, <2>2 DEF Promise, Same
<1>3. CASE ~(c.running /\ ~c.faulted)
  BY <1>1, <1>3 DEF Promise, Same
<1> QED BY <1>2, <1>3

(* The initial states keep the promises. *)
LEMMA InitPromise == Init => PInv
<1> SUFFICES ASSUME Init PROVE PInv
  OBVIOUS
<1>1. Inv
  BY InitInv
<1>2. Promise(ctl) /\ Faithful(ctl, store)
  BY DEF Init, NewController, Promise, Faithful
<1>3. Obeys(ctl, muted)
  BY DEF Init, Obeys
<1> QED BY <1>1, <1>2, <1>3 DEF PInv

(* begin() starts with every promise kept. *)
LEMMA BeginPromise == PInv /\ Begin => Pledged
<1> SUFFICES ASSUME PInv, Begin PROVE Pledged
  OBVIOUS
<1>1. /\ OK(ctl) /\ ctl = NewController /\ store \in Persisted
      /\ ctl.running = FALSE /\ ctl.closed = FALSE
  BY InvParts DEF PInv, Begin, Coherent, Lifecycle, NewController
<1>2. PICK e : e = [ctl EXCEPT !.running = TRUE, !.restore = store.enabled,
                      !.desired = IF store.enabled THEN "Disconnected"
                                                   ELSE "Disabled"]
  OBVIOUS
<1>3. OK(e)
  <2>1. Shape(e)
    BY <1>1, <1>2 DEF OK, Shape
  <2>2. Typed(e)
    BY <1>1, <1>2, NamesTyped DEF OK, Shape, Typed, Fields, Persisted
  <2> QED BY <2>1, <2>2 DEF OK
<1>4. /\ e.running /\ ~e.faulted /\ e.desired # "Connected"
      /\ e.active = 0 /\ e.revision = 0 /\ e.secret = NoNetwork
      /\ e.transition = "None" /\ e.link.phase = "Idle" /\ e.scan = "Idle"
      /\ e.armed = {} /\ e.station_id = 0 /\ e.scan_id = 0
  BY <1>1, <1>2 DEF NewController, NoLink
<1>5. PICK f : f = changed(e, "profiles")
  OBVIOUS
<1>6. Same(e, f)
  BY <1>3, <1>5, ChangedSame, ConstantNames
<1>7. OK(f) /\ Rooted(f) /\ Timed(f) /\ f.active <= f.revision
  BY <1>4, <1>6 DEF Same, Rooted, Timed, Deadlines
<1>8. PICK d : d = newIntent(f)
  OBVIOUS
<1>9. Renewed(f, d) /\ Sound(d) /\ Woken(d) /\ Timed(d)
  BY <1>4, <1>6, <1>7, <1>8, NewIntentSound DEF Same
<1>10. ctl' = d
  BY <1>2, <1>5, <1>8 DEF Begin
<1>11. d.running /\ ~d.faulted /\ d.desired # "Connected"
  BY <1>4, <1>6, <1>9 DEF Renewed, Same
<1>12. ~muted'
  BY <1>1 DEF PInv, Obeys, Begin
<1> QED BY <1>9, <1>10, <1>11, <1>12 DEF Pledged, Promise, Obeys, Faithful

(* shutdown() drops the credentials and the retry. *)
LEMMA ShutdownPromise == PInv /\ Shutdown => Pledged
<1> SUFFICES ASSUME PInv, Shutdown PROVE Pledged
  OBVIOUS
<1>1. /\ ~ctl'.running /\ ctl'.closed /\ ctl'.tasks = {}
      /\ ctl'.secret = NoNetwork /\ ~ctl'.pending
  BY DEF Shutdown, NewController
<1> QED BY <1>1 DEF Pledged, Promise, Obeys, Faithful

(* setEnabled() keeps the promises. *)
LEMMA SetEnabledPromise ==
  ASSUME PInv, NEW enabled \in BOOLEAN, SetEnabled(enabled)
  PROVE  Pledged
<1>1. /\ OK(ctl) /\ ctl.running /\ ~ctl.faulted /\ Sound(ctl) /\ Timed(ctl)
  BY InvParts, Admitted DEF PInv, SetEnabled, Accepts, Promise
<1>2. PICK e : e = [WithoutInput(ctl) EXCEPT
                      !.desired = IF enabled THEN "Disconnected"
                                             ELSE "Disabled",
                      !.auto = FALSE, !.restore = enabled]
  OBVIOUS
<1>3. /\ OK(e) /\ Kept(ctl, e) /\ SameAttempt(ctl, e)
      /\ e.secret = NoNetwork /\ e.desired # "Connected"
      /\ e.auto = FALSE /\ e.restore = enabled /\ e.revision = ctl.revision
      /\ e.initialized = ctl.initialized
      /\ e.armed = ctl.armed /\ e.tasks = ctl.tasks
  <2>1. Shape(e)
    BY <1>1, <1>2 DEF OK, Shape, WithoutInput
  <2>2. Typed(e)
    BY <1>1, <1>2, NamesTyped DEF OK, Shape, Typed, Fields, WithoutInput
  <2> QED BY <1>1, <1>2, <2>1, <2>2 DEF OK, Shape, Fields, WithoutInput
<1>4. Rooted(e) /\ Timed(e) /\ e.active <= e.revision
  BY <1>1, <1>3 DEF Sound, Rooted, Wanted, Timed, Deadlines
<1>5. PICK d : d = newIntent(e)
  OBVIOUS
<1>6. Renewed(e, d) /\ Sound(d) /\ Woken(d) /\ Timed(d)
  BY <1>3, <1>4, <1>5, NewIntentSound
<1>7. ctl' = d
  BY <1>2, <1>5 DEF SetEnabled
<1>8. /\ d.running /\ ~d.faulted /\ d.desired # "Connected"
      /\ d.auto = FALSE /\ d.restore = enabled
  BY <1>1, <1>3, <1>6 DEF Renewed
<1>9. muted' => ~enabled
  BY DEF SetEnabled
<1> QED BY <1>6, <1>7, <1>8, <1>9
  DEF Pledged, Promise, Obeys, Silent, Faithful

(* requestConnection() keeps Promise. *)
LEMMA RequestConnectionPromise ==
  ASSUME NEW c, OK(c), c.running, ~c.faulted, Promise(c),
         NEW network \in Ssid, NEW profile \in Ssid,
         NEW automatic \in BOOLEAN, automatic => profile # NoNetwork
  PROVE  LET d == requestConnection(c, network, profile, automatic)
         IN  /\ Promise(d) /\ d.auto = automatic /\ d.profile = profile
             /\ d.pending => /\ c.pending /\ c.desired = "Connected"
                             /\ c.profile = profile /\ profile # NoNetwork
<1> HIDE DEF Kept
<1>1. Sound(c) /\ Woken(c) /\ Timed(c)
  BY DEF Promise
<1>2. PICK d : d = requestConnection(c, network, profile, automatic)
  OBVIOUS
<1>3. /\ OK(d) /\ Kept(c, d) /\ Sound(d)
      /\ Woken(c) => Woken(d)
      /\ Timed(c) => Timed(d)
      /\ d.auto = automatic /\ d.profile = profile
      /\ d.pending => c.pending /\ c.profile = profile
  BY <1>1, <1>2, RequestConnectionSound
<1>4. c.pending => c.desired = "Connected" /\ c.profile # NoNetwork
  BY <1>1 DEF Sound, RetryTold
<1> QED BY <1>1, <1>2, <1>3, <1>4 DEF Promise, Kept

(* connect() to an ad hoc network keeps the promises. *)
LEMMA ConnectPromise ==
  ASSUME PInv, NEW network \in Networks, Connect(network)
  PROVE  Pledged
<1>1. OK(ctl) /\ ctl.running /\ ~ctl.faulted /\ Promise(ctl)
  BY InvParts, Admitted DEF PInv, Connect
<1>2. network \in Ssid /\ NoNetwork \in Ssid
  BY DEF Ssid
<1>3. PICK automatic \in BOOLEAN : automatic = FALSE
  OBVIOUS
<1>4. PICK d : d = requestConnection(ctl, network, NoNetwork, automatic)
  OBVIOUS
<1>5. /\ Promise(d) /\ d.auto = automatic /\ d.profile = NoNetwork
      /\ ~d.pending
  BY <1>1, <1>2, <1>3, <1>4, RequestConnectionPromise
<1>6. ctl' = d /\ muted' = FALSE
  BY <1>3, <1>4 DEF Connect
<1> QED BY <1>3, <1>5, <1>6 DEF Pledged, Obeys, Faithful

(* connect() to a saved profile keeps the promises. *)
LEMMA ConnectProfilePromise ==
  ASSUME PInv, NEW network \in Networks, ConnectProfile(network)
  PROVE  Pledged
<1>1. /\ OK(ctl) /\ ctl.running /\ ~ctl.faulted
      /\ Promise(ctl) /\ Faithful(ctl, store)
  BY InvParts, Admitted DEF PInv, ConnectProfile
<1>2. network \in Ssid /\ network # NoNetwork
  BY ConstantsAssumption DEF Ssid
<1>3. PICK automatic \in BOOLEAN : automatic = IsAuto(store, network)
  BY DEF IsAuto
<1>4. PICK d : d = requestConnection(ctl, network, network, automatic)
  OBVIOUS
<1>5. /\ Promise(d) /\ d.auto = automatic /\ d.profile = network
      /\ d.pending => /\ ctl.pending /\ ctl.desired = "Connected"
                      /\ ctl.profile = network
  BY <1>1, <1>2, <1>4, RequestConnectionPromise
<1>6. ctl' = d /\ muted' = FALSE /\ store' = store
  BY <1>3, <1>4 DEF ConnectProfile
<1>7. Faithful(d, store)
  BY <1>1, <1>3, <1>5 DEF Faithful
<1> QED BY <1>5, <1>6, <1>7 DEF Pledged, Obeys

(* disconnect() keeps the promises and silences every automatism. *)
LEMMA DisconnectPromise == PInv /\ Disconnect => Pledged
<1> SUFFICES ASSUME PInv, Disconnect PROVE Pledged
  OBVIOUS
<1>1. /\ OK(ctl) /\ ctl.running /\ ~ctl.faulted
      /\ Sound(ctl) /\ Woken(ctl) /\ Timed(ctl)
  BY InvParts, Admitted DEF PInv, Disconnect, Accepts, Promise
<1>2. PICK e : e = Quieted(ctl)
  OBVIOUS
<1>3. /\ OK(e) /\ Kept(ctl, e) /\ SameAttempt(ctl, e) /\ SameCharge(ctl, e)
      /\ e.desired = ctl.desired /\ e.profile = ctl.profile
      /\ e.config = ctl.config /\ e.secret = ctl.secret
      /\ e.revision = ctl.revision /\ e.initialized = ctl.initialized
      /\ e.tasks = ctl.tasks /\ ~e.auto /\ ~e.restore
  <2>1. Shape(e)
    BY <1>1, <1>2 DEF OK, Shape, Quieted
  <2>2. Typed(e)
    BY <1>1, <1>2, ZenonT(30) DEF OK, Shape, Typed, Fields, Quieted
  <2> QED BY <1>1, <1>2, <2>1, <2>2 DEF OK, Shape, Fields, Quieted
<1>4. CASE ctl.desired # "Connected" /\ ctl.status = "Ok"
  <2>1. ctl' = e
    BY <1>2, <1>4 DEF Disconnect
  <2>2. RetryTold(e) /\ LinkTimed(e) /\ Rooted(e)
    BY <1>1, <1>3 DEF Sound, RetryTold, LinkTimed, Rooted, needsStation
  <2>3. Wanted(e)
    BY <1>1, <1>3 DEF Sound, Wanted, superseded
  <2>4. Woken(e)
    BY <1>1, <1>3 DEF Woken, Resting, GivenUp, needsStation, superseded
  <2>5. Timed(e)
    BY <1>1, <1>3 DEF Timed, Deadlines
  <2> QED BY <1>1, <1>3, <1>4, <2>1, <2>2, <2>3, <2>4, <2>5
    DEF Pledged, Promise, Sound, Obeys, Silent, Faithful
<1>5. CASE ~(ctl.desired # "Connected" /\ ctl.status = "Ok")
  <2>1. PICK f : f = [WithoutInput(e) EXCEPT
                        !.desired = IF @ = "Disabled" THEN @
                                    ELSE "Disconnected"]
    OBVIOUS
  <2>2. /\ OK(f) /\ Kept(e, f) /\ SameAttempt(e, f)
        /\ f.desired # "Connected" /\ f.secret = NoNetwork
        /\ f.revision = e.revision /\ f.initialized = e.initialized
        /\ f.armed = e.armed /\ f.tasks = e.tasks /\ ~f.auto /\ ~f.restore
    <3>1. Shape(f)
      BY <1>3, <2>1 DEF OK, Shape, WithoutInput
    <3>2. Typed(f)
      BY <1>3, <2>1, NamesTyped DEF OK, Shape, Typed, Fields, WithoutInput
    <3> QED BY <1>3, <2>1, <3>1, <3>2 DEF OK, Shape, Fields, WithoutInput
  <2>3. Rooted(f) /\ Timed(f) /\ f.active <= f.revision
    BY <1>1, <1>3, <2>2 DEF Sound, Rooted, Wanted, Timed, Deadlines
  <2>4. PICK d : d = newIntent(f)
    OBVIOUS
  <2>5. Renewed(f, d) /\ Sound(d) /\ Woken(d) /\ Timed(d)
    BY <2>2, <2>3, <2>4, NewIntentSound
  <2>6. ctl' = d
    BY <1>2, <1>5, <2>1, <2>4 DEF Disconnect
  <2>7. /\ d.running /\ ~d.faulted /\ d.desired # "Connected"
        /\ ~d.auto /\ ~d.restore
    BY <1>1, <1>3, <2>2, <2>5 DEF Renewed
  <2> QED BY <2>5, <2>6, <2>7 DEF Pledged, Promise, Obeys, Silent, Faithful
<1> QED BY <1>4, <1>5

(* startScan() keeps the promises. *)
LEMMA StartScanPromise == PInv /\ StartScan => Pledged
<1> SUFFICES ASSUME PInv, StartScan PROVE Pledged
  OBVIOUS
<1>1. /\ OK(ctl) /\ ctl.running /\ ~ctl.faulted /\ ctl.transition = "None"
      /\ Sound(ctl) /\ Timed(ctl)
  BY InvParts, Admitted DEF PInv, StartScan, Accepts, Promise
<1>2. PICK e : e = [ctl EXCEPT !.scan = "Queued", !.scan_status = "Ok",
                               !.scan_revision = @ + 1,
                               !.scan_timed_out = FALSE]
  OBVIOUS
<1>3. /\ OK(e) /\ KeptLife(ctl, e) /\ KeptLink(ctl, e)
      /\ KeptStation(ctl, e) /\ e.scan_id = ctl.scan_id
      /\ SameIntent(ctl, e) /\ SameAttempt(ctl, e) /\ SameCharge(ctl, e)
      /\ e.tasks = ctl.tasks
  <2>1. Shape(e)
    BY <1>1, <1>2 DEF OK, Shape
  <2>2. Typed(e)
    <3>1. ctl.scan_revision + 1 \in Nat
      BY <1>1 DEF OK, Typed
    <3> QED BY <1>1, <1>2, <3>1, NamesTyped, ZenonT(30)
      DEF OK, Shape, Typed, Fields
  <2> QED BY <1>1, <1>2, <2>1, <2>2 DEF OK, Shape, Fields
<1>4. RetryTold(e) /\ LinkTimed(e) /\ Rooted(e)
  BY <1>1, <1>3 DEF Sound, RetryTold, LinkTimed, Rooted, needsStation
<1>5. Wanted(e) /\ Timed(e) /\ Loyal(ctl, e)
  BY <1>1, <1>3 DEF Sound, Wanted, superseded, Timed, Deadlines, Loyal
<1>6. PICK f : f = changed(e, "scan")
  OBVIOUS
<1>7. Same(e, f) /\ SameTimer(e, f) /\ SameReconnect(e, f)
  BY <1>3, <1>6, ChangedSame, ConstantNames
<1>8. PICK d : d = scheduleWork(f)
  OBVIOUS
<1>9. /\ Same(f, d) /\ "work" \in d.tasks
      /\ SameTimer(f, d) /\ SameReconnect(f, d)
  BY <1>7, <1>8, ScheduleWorkSame DEF Same
<1>10. Same(e, d) /\ SameTimer(e, d) /\ SameReconnect(e, d)
  BY <1>7, <1>9 DEF Same
<1>11. Sound(d) /\ Loyal(e, d) /\ Woken(d)
  BY <1>4, <1>5, <1>9, <1>10, SameSound, DueIsWoken DEF Sound
<1>12. Timed(d)
  BY <1>5, <1>10 DEF Timed, Deadlines, Same
<1>13. ctl' = d
  BY <1>2, <1>6, <1>8 DEF StartScan
<1>14. Promise(d) /\ d.running /\ Loyal(ctl, d)
  BY <1>1, <1>3, <1>5, <1>10, <1>11, <1>12 DEF Promise, Same, Loyal
<1> QED BY <1>1, <1>13, <1>14, LoyalKeepsPledge DEF StartScan

(* cancelScan() keeps the promises. *)
LEMMA CancelScanPromise ==
  ASSUME PInv, NEW answer, CancelScan(answer)
  PROVE  Pledged
<1>1. OK(ctl) /\ ctl.running /\ Promise(ctl) /\ Coherent(ctl, radio)
  BY InvParts DEF PInv, CancelScan
<1>2. CASE ctl.faulted
  <2>1. ctl.scan = "Idle"
    BY <1>1, <1>2 DEF Coherent, FaultSettled
  <2>2. ctl' = ctl
    BY <2>1 DEF CancelScan, cancelScan
  <2>3. Loyal(ctl, ctl')
    BY <2>2 DEF Loyal
  <2> QED BY <1>1, <2>2, <2>3, LoyalKeepsPledge DEF CancelScan
<1>3. CASE ~ctl.faulted
  <2>1. Sound(ctl) /\ Woken(ctl) /\ Timed(ctl)
    BY <1>1, <1>3 DEF Promise
  <2>2. PICK d : d = cancelScan(ctl, answer)
    OBVIOUS
  <2>3. OK(d) /\ Sound(d) /\ Woken(d) /\ Timed(d) /\ Loyal(ctl, d)
    BY <1>1, <2>1, <2>2, CancelScanSound
  <2>4. KeptLife(ctl, d)
    BY <1>1, <2>2, CancelScanMoves
  <2>5. ctl' = d
    BY <2>2 DEF CancelScan
  <2>6. Promise(d) /\ d.running
    BY <1>1, <1>3, <2>3, <2>4 DEF Promise
  <2> QED BY <1>1, <2>3, <2>5, <2>6, LoyalKeepsPledge DEF CancelScan
<1> QED BY <1>2, <1>3

(* Saving and removing a profile touch no promise. *)
LEMMA WriteProfilePromise ==
  ASSUME PInv, NEW network \in Networks, NEW value \in Saved, NEW answer,
         WriteProfile(network, value, answer)
  PROVE  Pledged
<1>1. OK(ctl) /\ ctl.running /\ Promise(ctl)
  BY InvParts DEF PInv, WriteProfile
<1>2. PICK e : e = [ctl EXCEPT !.profiles_generation = @ + 1]
  OBVIOUS
<1>3. Same(ctl, e) /\ e.tasks = ctl.tasks
  <2>1. Shape(e)
    BY <1>1, <1>2 DEF OK, Shape
  <2>2. Typed(e)
    <3>1. ctl.profiles_generation + 1 \in Nat
      BY <1>1 DEF OK, Typed
    <3> QED BY <1>1, <1>2, <3>1 DEF OK, Shape, Typed, Fields
  <2> QED BY <1>1, <1>2, <2>1, <2>2 DEF OK, Shape, Fields, Same
<1>4. PICK d : d = changed(e, "profiles")
  OBVIOUS
<1>5. Same(e, d) /\ SameWork(e, d) /\ SameTimer(e, d) /\ SameReconnect(e, d)
  BY <1>3, <1>4, ChangedSame, ConstantNames DEF Same
<1>6. /\ Same(ctl, d) /\ SameWork(ctl, d) /\ SameTimer(ctl, d)
      /\ SameReconnect(ctl, d)
  BY <1>3, <1>5 DEF Same
<1>7. Promise(d) /\ Loyal(ctl, d) /\ d.running
  BY <1>1, <1>6, SamePromise DEF Same
<1>8. MaxWrites # 0
  BY <1>1 DEF WriteProfile, OK, Typed
<1>9. ctl' = d
  BY <1>2, <1>4 DEF WriteProfile
<1> QED BY <1>1, <1>7, <1>8, <1>9, LoyalKeepsPledge DEF WriteProfile

(* The notification task touches no promise. *)
LEMMA NotifyListenersPromise == PInv /\ NotifyListeners => Pledged
<1> SUFFICES ASSUME PInv, NotifyListeners PROVE Pledged
  OBVIOUS
<1>1. OK(ctl) /\ ctl.running /\ Promise(ctl)
  BY InvParts DEF PInv, NotifyListeners, Coherent, Lifecycle
<1>2. PICK d : d = [Dispatched("notify") EXCEPT !.changes = {}]
  OBVIOUS
<1>3. /\ Same(ctl, d) /\ d.tasks = ctl.tasks \ {"notify"}
  <2>1. Shape(d)
    BY <1>1, <1>2 DEF OK, Shape, Dispatched
  <2>2. Typed(d)
    BY <1>1, <1>2, ZenonT(30) DEF OK, Shape, Typed, Fields, Dispatched
  <2> QED BY <1>1, <1>2, <2>1, <2>2 DEF OK, Shape, Fields, Dispatched, Same
<1>4. Promise(d) /\ Loyal(ctl, d) /\ d.running
  BY <1>1, <1>3, SamePromise DEF Same
<1>5. ctl' = d
  BY <1>2 DEF NotifyListeners
<1> QED BY <1>1, <1>4, <1>5, LoyalKeepsPledge DEF NotifyListeners

(* The scheduler only takes the task away. *)
LEMMA DispatchedSame ==
  ASSUME OK(ctl), NEW task
  PROVE  /\ Same(ctl, Dispatched(task))
         /\ Dispatched(task).tasks = ctl.tasks \ {task}
<1>1. PICK d : d = [ctl EXCEPT !.tasks = @ \ {task}]
  OBVIOUS
<1>2. Dispatched(task) = d
  BY <1>1 DEF Dispatched
<1>3. OK(d)
  BY <1>2, DispatchedKeeps
<1>4. /\ Kept(ctl, d) /\ SameIntent(ctl, d) /\ SameAttempt(ctl, d)
      /\ SameCharge(ctl, d) /\ d.tasks = ctl.tasks \ {task}
  BY <1>1 DEF OK, Shape, Fields
<1> QED BY <1>2, <1>3, <1>4 DEF Same

(* The timer task keeps the promises. *)
LEMMA CheckTimeoutsPromise ==
  ASSUME PInv, NEW expired, NEW answer \in Answers,
         CheckTimeouts(expired, answer)
  PROVE  Pledged
<1>1. OK(ctl) /\ ctl.running /\ Promise(ctl)
  BY InvParts DEF PInv, CheckTimeouts, Coherent, Lifecycle
<1>2. PICK c : c = Dispatched("timer")
  OBVIOUS
<1>3. Same(ctl, c) /\ c.tasks = ctl.tasks \ {"timer"}
  BY <1>1, <1>2, DispatchedSame
<1>4. ctl' = checkTimeouts(c, expired, answer)
  BY <1>2 DEF CheckTimeouts
<1>5. CASE ctl.faulted
  <2>1. ctl' = c
    BY <1>3, <1>4, <1>5 DEF checkTimeouts, Same
  <2>2. Promise(c) /\ Loyal(ctl, c) /\ c.running
    BY <1>1, <1>3, <1>5 DEF Promise, Loyal, Same
  <2> QED BY <1>1, <2>1, <2>2, LoyalKeepsPledge DEF CheckTimeouts
<1>6. CASE ~ctl.faulted
  <2>1. Sound(c) /\ Woken(c) /\ Loyal(ctl, c)
    BY <1>1, <1>3, <1>6, SameSound, SameWoken DEF Promise
  <2>2. /\ OK(c) /\ c.running /\ ~c.faulted /\ expired \subseteq Deadlines(c)
    BY <1>1, <1>3, <1>6 DEF CheckTimeouts, Deadlines, Same
  <2>3. answer \in Status
    BY AnswersTyped
  <2>4. Continues(c, ctl') /\ (~ctl'.faulted => Timed(ctl'))
    BY <1>4, <2>1, <2>2, <2>3, CheckTimeoutsSound
  <2>5. ctl'.running /\ Loyal(ctl, ctl')
    BY <2>1, <2>2, <2>4 DEF Continues, Loyal
  <2>6. Promise(ctl')
    BY <2>4, <2>5, SilencedPromise DEF Continues, Promise
  <2> QED BY <1>1, <2>5, <2>6, LoyalKeepsPledge DEF CheckTimeouts
<1> QED BY <1>5, <1>6

(* The reconnect task keeps the promises. *)
LEMMA RetryPromise ==
  ASSUME PInv, NEW medium \in StoreAnswers, Retry(medium)
  PROVE  Pledged
<1>1. OK(ctl) /\ ctl.running /\ Promise(ctl) /\ Faithful(ctl, store)
  BY InvParts DEF PInv, Retry, Coherent, Lifecycle
<1>2. /\ ~ctl.faulted /\ Sound(ctl) /\ Woken(ctl) /\ Timed(ctl)
  BY <1>1 DEF Promise, Retry
<1>3. ctl.pending /\ ctl.desired = "Connected" /\ ctl.profile # NoNetwork
  BY <1>2 DEF Retry, Sound, RetryTold
<1>4. PICK c : c = Dispatched("reconnect")
  OBVIOUS
<1>5. Same(ctl, c) /\ c.tasks = ctl.tasks \ {"reconnect"}
  BY <1>1, <1>4, DispatchedSame
<1>6. PICK st \in Status, au \in BOOLEAN :
        st = LoadStatus(store, ctl.profile, medium)
        /\ au = IsAuto(store, ctl.profile)
  BY AnswersTyped, LoadStatusTyped
<1>7. Reliable => ctl.auto /\ st = "Ok" /\ au
  <2>1. ASSUME Reliable
        PROVE  ctl.auto /\ IsAuto(store, ctl.profile) /\ medium = "Ok"
    BY <1>1, <1>3, <2>1 DEF Reliable, Faithful, StoreAnswers
  <2> QED BY <1>6, <2>1 DEF LoadStatus, IsAuto
<1>8. PICK d : d = retry(c, st, au)
  OBVIOUS
<1>9. /\ OK(d) /\ Sound(d) /\ Woken(d) /\ Timed(d)
      /\ d.running /\ ~d.faulted /\ d.desired = ctl.desired
      /\ d.profile = ctl.profile /\ ~d.pending /\ (d.auto => ctl.auto)
  <2>1. LET x == retry(c, st, au)
        IN  /\ OK(x) /\ Sound(x) /\ Woken(x) /\ Timed(x)
            /\ x.running /\ ~x.faulted /\ x.desired = ctl.desired
            /\ x.profile = ctl.profile /\ ~x.pending
            /\ x.auto => ctl.auto
    BY <1>1, <1>2, <1>3, <1>5, <1>7, RetrySound
  <2> QED BY <1>8, <2>1
<1>10. ctl' = d
  BY <1>4, <1>6, <1>8 DEF Retry
<1>11. ~muted'
  BY <1>1, <1>3 DEF PInv, Obeys, Silent, Retry
<1>12. Promise(d)
  BY <1>9 DEF Promise
<1>13. Faithful(ctl', store')
  BY <1>1, <1>3, <1>9, <1>10 DEF Faithful, Retry
<1> QED BY <1>10, <1>11, <1>12, <1>13 DEF Pledged, Obeys

(* Ending with scheduleTimeouts(), execute() keeps the promises that it    *)
(* has not broken.                                                         *)
LEMMA TimedPromise ==
  ASSUME NEW e, OK(e), e.running, ~e.faulted, Sound(e), Woken(e)
  PROVE  LET d == scheduleTimeouts(e)
         IN  Promise(d) /\ Loyal(e, d) /\ d.running
<1>1. PICK d : d = scheduleTimeouts(e)
  OBVIOUS
<1>2. Same(e, d) /\ Timed(d) /\ SameWork(e, d) /\ SameReconnect(e, d)
  BY <1>1, ScheduleTimeoutsSame
<1>3. Sound(d) /\ Woken(d) /\ Loyal(e, d)
  BY <1>2, SameSound, SameWoken
<1>4. d.running /\ ~d.faulted
  BY <1>2 DEF Same
<1> QED BY <1>1, <1>2, <1>3, <1>4 DEF Promise

(* The exits of execute() at which no connection is restored and nothing   *)
(* new is submitted keep the promises.                                     *)
LEMMA ExecuteExitsPromise ==
  ASSUME PInv, "work" \in ctl.tasks, NEW c, c = Dispatched("work"),
         \/ ExecuteIgnored(c) \/ ExecuteExhausted(c) \/ ExecuteSuperseded(c)
         \/ ExecuteAwaits(c) \/ ExecutePreempts(c),
         UNCHANGED muted
  PROVE  Pledged
<1>1. OK(ctl) /\ ctl.running /\ Promise(ctl)
  BY InvParts DEF PInv, Coherent, Lifecycle
<1>2. Same(ctl, c) /\ c.tasks = ctl.tasks \ {"work"}
  BY <1>1, DispatchedSame
<1>3. OK(c) /\ c.running /\ Loyal(ctl, c)
  BY <1>1, <1>2 DEF Same, Loyal
<1>4. store' = store
  BY DEF ExecuteIgnored, ExecuteExhausted, ExecuteSuperseded, ExecuteAwaits,
         ExecutePreempts
<1>5. ASSUME NEW d, ctl' = d, Promise(d), Loyal(c, d), d.running
      PROVE  Pledged
  <2>1. Loyal(ctl, d)
    BY <1>3, <1>5 DEF Loyal
  <2> QED BY <1>1, <1>4, <1>5, <2>1, LoyalKeepsPledge
<1>6. ASSUME NEW status \in Status, ctl' = fault(c, status)
      PROVE  Pledged
  <2>1. PICK d : d = fault(c, status)
    OBVIOUS
  <2>2. Continues(c, d) /\ Silenced(d)
    BY <1>3, <2>1, FaultContinues
  <2>3. Promise(d) /\ Loyal(c, d) /\ d.running
    BY <1>3, <2>2, SilencedPromise DEF Continues
  <2> QED BY <1>5, <1>6, <2>1, <2>3
<1>7. CASE ctl.faulted
  <2>1. ctl' = c
    BY <1>2, <1>7
    DEF ExecuteIgnored, ExecuteExhausted, ExecuteSuperseded, ExecuteAwaits,
        ExecutePreempts, Live, Same
  <2>2. Promise(c)
    BY <1>1, <1>2, <1>7 DEF Promise, Same
  <2>3. Loyal(c, c)
    BY DEF Loyal
  <2> QED BY <1>3, <1>5, <2>1, <2>2, <2>3
<1>8. CASE ~ctl.faulted
  <2>1. ~c.faulted /\ Sound(c)
    BY <1>1, <1>2, <1>8, SameSound DEF Promise, Same
  <2>2. Timed(c)
    BY <1>1, <1>2, <1>8 DEF Promise, Timed, Deadlines, Same
  <2>3. ~ExecuteIgnored(c)
    BY <1>3, <2>1 DEF ExecuteIgnored
  <2>4. CASE ExecuteExhausted(c)
    BY <1>6, <2>4, ConstantNames DEF ExecuteExhausted
  <2>5. CASE ExecuteSuperseded(c)
    <3>1. PICK answer \in Answers :
            ctl' = IF answer = "Ok"
                   THEN scheduleTimeouts(changed([c EXCEPT
                                                    !.cancelling = TRUE],
                                                 "station"))
                   ELSE fault(c, answer)
      BY <2>5 DEF ExecuteSuperseded
    <3>2. CASE answer # "Ok"
      BY <1>6, <3>1, <3>2, AnswersTyped
    <3>3. CASE answer = "Ok"
      <4>1. PICK e : e = [c EXCEPT !.cancelling = TRUE]
        OBVIOUS
      <4>2. /\ OK(e) /\ KeptLife(c, e) /\ KeptLink(c, e) /\ KeptScan(c, e)
            /\ SameIntent(c, e) /\ SameAttempt(c, e) /\ SameCharge(c, e)
            /\ e.tasks = c.tasks /\ e.transition = c.transition
            /\ e.cancelling
        <5>1. Shape(e)
          BY <1>3, <4>1 DEF OK, Shape
        <5>2. Typed(e)
          BY <1>3, <4>1 DEF OK, Shape, Typed, Fields
        <5> QED BY <1>3, <4>1, <5>1, <5>2 DEF OK, Shape, Fields
      <4>3. c.transition = "Connect"
        BY <2>5 DEF ExecuteSuperseded
      <4>4. RetryTold(e) /\ LinkTimed(e) /\ Rooted(e)
        BY <2>1, <4>2 DEF Sound, RetryTold, LinkTimed, Rooted, needsStation
      <4>5. Wanted(e) /\ Loyal(c, e)
        BY <2>1, <4>2 DEF Sound, Wanted, superseded, Loyal
      <4>6. Woken(e)
        BY <4>2, <4>3, <4>4 DEF Woken, Resting, Rooted
      <4>7. PICK f : f = changed(e, "station")
        OBVIOUS
      <4>8. Same(e, f) /\ SameWork(e, f) /\ SameReconnect(e, f)
        BY <4>2, <4>7, ChangedSame, ConstantNames
      <4>9. Sound(f) /\ Woken(f) /\ Loyal(e, f)
        BY <4>4, <4>5, <4>6, <4>8, SameSound, SameWoken DEF Sound
      <4>10. OK(f) /\ f.running /\ ~f.faulted
        BY <1>3, <2>1, <4>2, <4>8 DEF Same
      <4>11. PICK d : d = scheduleTimeouts(f)
        OBVIOUS
      <4>12. Promise(d) /\ Loyal(f, d) /\ d.running
        BY <4>9, <4>10, <4>11, TimedPromise
      <4>13. ctl' = d
        BY <3>1, <3>3, <4>1, <4>7, <4>11
      <4>14. Loyal(c, d)
        BY <4>5, <4>9, <4>12 DEF Loyal
      <4> QED BY <1>5, <4>12, <4>13, <4>14
    <3> QED BY <3>2, <3>3
  <2>6. CASE ExecuteAwaits(c)
    <3>1. /\ c.transition # "None" /\ ctl' = scheduleTimeouts(c)
          /\ ~(c.transition = "Connect" /\ superseded(c) /\ ~c.cancelling)
      BY <2>6 DEF ExecuteAwaits
    <3>2. Woken(c)
      BY <2>1, <3>1 DEF Woken, Resting, Sound, Rooted
    <3>3. PICK d : d = scheduleTimeouts(c)
      OBVIOUS
    <3>4. Promise(d) /\ Loyal(c, d) /\ d.running
      BY <1>3, <2>1, <3>2, <3>3, TimedPromise
    <3> QED BY <1>5, <3>1, <3>3, <3>4
  <2>7. CASE ExecutePreempts(c)
    <3>1. PICK answer \in Answers :
            ctl' = IF cancelScanStatus(c, answer) = "Ok"
                   THEN cancelScan(c, answer) ELSE fault(c, answer)
      BY <2>7 DEF ExecutePreempts
    <3>2. c.transition = "None" /\ c.scan \in {"Running", "Cancelling"}
      BY <2>7 DEF ExecutePreempts
    <3>3. CASE cancelScanStatus(c, answer) # "Ok"
      BY <1>6, <3>1, <3>3, AnswersTyped
    <3>4. CASE cancelScanStatus(c, answer) = "Ok"
      <4>1. PICK d : d = cancelScan(c, answer)
        OBVIOUS
      <4>2. OK(d) /\ Sound(d) /\ Loyal(c, d) /\ Timed(d)
        BY <1>3, <2>1, <2>2, <4>1, CancelScanSound
      <4>3. /\ KeptLife(c, d) /\ KeptStation(c, d)
            /\ d.scan = CASE c.scan = "Queued" -> "Idle"
                          [] c.scan = "Running" /\ answer = "Ok" ->
                               "Cancelling"
                          [] OTHER -> c.scan
        BY <1>3, <4>1, CancelScanMoves
      <4>4. d.scan = "Cancelling" /\ d.transition = "None"
        BY <3>2, <3>4, <4>3 DEF cancelScanStatus
      <4>5. Woken(d)
        BY <4>4 DEF Woken, Resting
      <4>6. Promise(d) /\ d.running
        BY <1>3, <2>1, <4>2, <4>3, <4>5 DEF Promise
      <4> QED BY <1>5, <3>1, <3>4, <4>1, <4>2, <4>6
    <3> QED BY <3>3, <3>4
  <2> QED BY <2>3, <2>4, <2>5, <2>6, <2>7
<1> QED BY <1>7, <1>8

(* What execute() does to a queued scan keeps the promises. *)
LEMMA UnqueuedSound ==
  ASSUME NEW c, OK(c), Sound(c), Timed(c)
  PROVE  LET u == Unqueued(c)
         IN  /\ OK(u) /\ Sound(u) /\ Timed(u) /\ Loyal(c, u)
             /\ SameIntent(c, u) /\ SameAttempt(c, u) /\ SameCharge(c, u)
<1>1. CASE needsStation(c)
  <2>1. PICK u : u = cancelScan(c, "Ok")
    OBVIOUS
  <2>2. /\ OK(u) /\ Sound(u) /\ Timed(u) /\ Loyal(c, u)
        /\ SameIntent(c, u) /\ SameAttempt(c, u) /\ SameCharge(c, u)
    BY <2>1, CancelScanSound
  <2> QED BY <1>1, <2>1, <2>2 DEF Unqueued
<1>2. CASE ~needsStation(c)
  BY <1>2 DEF Unqueued, Loyal
<1> QED BY <1>1, <1>2

(* Restoring the last profile keeps the promises: it happens to no caller  *)
(* that asked for a disconnect, and takes up only an automatic profile.    *)
LEMMA ExecuteRestoresPromise ==
  ASSUME PInv, "work" \in ctl.tasks, NEW c, c = Dispatched("work"),
         ExecuteRestores(c), UNCHANGED muted
  PROVE  Pledged
<1>1. /\ OK(ctl) /\ ctl.running /\ Promise(ctl) /\ store \in Persisted
      /\ Faithful(ctl, store)
  BY InvParts DEF PInv, Coherent, Lifecycle
<1>2. Same(ctl, c) /\ c.tasks = ctl.tasks \ {"work"}
  BY <1>1, DispatchedSame
<1>3. /\ c.running /\ ~c.faulted /\ c.transition = "None" /\ ~c.pending
      /\ c.restore /\ needsStation(c) /\ c.scan \in {"Idle", "Queued"}
      /\ UNCHANGED <<radio, store>>
  BY DEF ExecuteRestores, Reaches, Live, Restores
<1>4. OK(c) /\ Sound(c) /\ Timed(c)
  <2>1. ~ctl.faulted
    BY <1>2, <1>3 DEF Same
  <2>2. Sound(c)
    BY <1>1, <1>2, <2>1, SameSound DEF Promise
  <2>3. Timed(c)
    BY <1>1, <1>2, <2>1 DEF Promise, Timed, Deadlines, Same
  <2> QED BY <1>2, <2>2, <2>3 DEF Same
<1>5. PICK u : u = Unqueued(c)
  OBVIOUS
<1>6. /\ OK(u) /\ Sound(u) /\ Timed(u) /\ SameIntent(c, u)
      /\ SameAttempt(c, u) /\ SameCharge(c, u)
  BY <1>4, <1>5, UnqueuedSound
<1>7. Quiet(c, u)
  BY <1>3, <1>4, <1>5, UnqueuedQuiet
<1>8. /\ u.running /\ ~u.faulted /\ u.transition = "None" /\ ~u.pending
  BY <1>3, <1>6, <1>7 DEF Quiet
<1>9. PICK automatic \in BOOLEAN : automatic = IsAuto(store, store.last)
  BY DEF IsAuto
<1>10. PICK status \in Status :
         ctl' = scheduleWork(restoreProfile(u, store.last, status, automatic))
  BY <1>5, <1>9, AnswersTyped, LoadStatusTyped DEF ExecuteRestores
<1>11. PICK w : w = restoreProfile(u, store.last, status, automatic)
  OBVIOUS
<1>12. store.last \in Ssid
  BY <1>1 DEF Persisted
<1>13. /\ OK(w) /\ Sound(w) /\ Timed(w) /\ ~w.pending
       /\ \/ w.auto = u.auto /\ w.profile = u.profile
             /\ w.desired = u.desired
          \/ w.auto /\ w.profile = store.last /\ automatic
  BY <1>6, <1>8, <1>11, <1>12, RestoreProfileSound
<1>14. w.running /\ ~w.faulted
  BY <1>6, <1>8, <1>11, <1>12, RestoreProfileKeeps
<1>15. PICK d : d = scheduleWork(w)
  OBVIOUS
<1>16. /\ Same(w, d) /\ "work" \in d.tasks
       /\ SameTimer(w, d) /\ SameReconnect(w, d)
  BY <1>13, <1>15, ScheduleWorkSame
<1>17. Sound(d) /\ Woken(d)
  BY <1>13, <1>16, SameSound, DueIsWoken
<1>18. Timed(d)
  BY <1>13, <1>16 DEF Timed, Deadlines, Same
<1>19. Promise(d)
  BY <1>14, <1>16, <1>17, <1>18 DEF Promise, Same
<1>20. ctl' = d
  BY <1>10, <1>11, <1>15
<1>21. ~muted'
  BY <1>1, <1>2, <1>3 DEF PInv, Obeys, Silent, Same
<1>22. Faithful(d, store)
  <2>1. ASSUME MaxWrites = 0, d.desired = "Connected"
        PROVE  /\ d.auto => IsAuto(store, d.profile)
               /\ ~d.pending
    <3>1. /\ ~d.pending /\ d.profile = w.profile /\ d.desired = w.desired
          /\ d.auto <=> w.auto
      BY <1>13, <1>16 DEF Same
    <3>2. CASE w.auto = u.auto /\ w.profile = u.profile
               /\ w.desired = u.desired
      <4>1. /\ u.profile = ctl.profile /\ u.desired = ctl.desired
            /\ u.auto <=> ctl.auto
        BY <1>2, <1>6 DEF Same
      <4> QED BY <1>1, <2>1, <3>1, <3>2, <4>1 DEF Faithful
    <3>3. CASE w.profile = store.last /\ automatic
      BY <1>9, <3>1, <3>3
    <3> QED BY <1>13, <3>2, <3>3
  <2> QED BY <2>1 DEF Faithful
<1> QED BY <1>3, <1>19, <1>20, <1>21, <1>22 DEF Pledged, Obeys

(* The exit of execute() that submits work keeps the promises. *)
LEMMA ExecuteAdvancesPromise ==
  ASSUME PInv, "work" \in ctl.tasks, NEW c, c = Dispatched("work"),
         ExecuteAdvances(c), UNCHANGED muted
  PROVE  Pledged
<1>1. /\ OK(ctl) /\ ctl.running /\ Promise(ctl) /\ Coherent(ctl, radio)
  BY InvParts DEF PInv, Coherent, Lifecycle
<1>2. Same(ctl, c) /\ c.tasks = ctl.tasks \ {"work"}
  BY <1>1, DispatchedSame
<1>3. /\ c.running /\ ~c.faulted /\ c.transition = "None"
      /\ needsStation(c) => c.scan \in {"Idle", "Queued"}
      /\ UNCHANGED store
  BY DEF ExecuteAdvances, Reaches, Live
<1>4. OK(c) /\ Sound(c) /\ Timed(c) /\ Loyal(ctl, c)
  <2>1. ~ctl.faulted
    BY <1>2, <1>3 DEF Same
  <2>2. Sound(c) /\ Loyal(ctl, c)
    BY <1>1, <1>2, <2>1, SameSound DEF Promise
  <2>3. Timed(c)
    BY <1>1, <1>2, <2>1 DEF Promise, Timed, Deadlines, Same
  <2> QED BY <1>2, <2>2, <2>3 DEF Same
<1>5. PICK u : u = Unqueued(c)
  OBVIOUS
<1>6. /\ OK(u) /\ Sound(u) /\ Loyal(c, u) /\ SameIntent(c, u)
      /\ SameAttempt(c, u) /\ SameCharge(c, u)
  BY <1>4, <1>5, UnqueuedSound
<1>7. /\ Quiet(c, u)
      /\ needsStation(c) => u.scan = "Idle"
  BY <1>3, <1>4, <1>5, UnqueuedQuiet
<1>8. /\ u.running /\ ~u.faulted /\ u.transition = "None"
      /\ u.next_id = ctl.next_id
  BY <1>2, <1>3, <1>7 DEF Quiet, Same
<1>9. u.next_id # 0
  BY <1>1, <1>8 DEF Coherent, Identities
<1>10. needsStation(u) <=> needsStation(c)
  BY <1>6 DEF needsStation
<1>11. PICK answer \in Answers :
         LET d == IF needsStation(c) /\ ~c.pending
                  THEN advance(u, answer) ELSE u
             e == IF d.transition = "None" /\ d.scan = "Queued"
                  THEN startScanning(d, answer) ELSE d
         IN  ctl' = scheduleTimeouts(e)
  BY <1>5 DEF ExecuteAdvances
<1>12. answer \in Status
  BY AnswersTyped
<1>13. ASSUME NEW e, OK(e), e.running, ~e.faulted, Sound(e), Woken(e),
              Loyal(u, e), ctl' = scheduleTimeouts(e)
       PROVE  Pledged
  <2>1. PICK d : d = scheduleTimeouts(e)
    OBVIOUS
  <2>2. Promise(d) /\ Loyal(e, d) /\ d.running
    BY <1>13, <2>1, TimedPromise
  <2>3. Loyal(ctl, d)
    BY <1>4, <1>6, <1>13, <2>2 DEF Loyal
  <2> QED BY <1>1, <1>3, <1>13, <2>1, <2>2, <2>3, LoyalKeepsPledge
<1>14. CASE needsStation(c) /\ ~c.pending
  <2>1. PICK d : d = advance(u, answer)
    OBVIOUS
  <2>2. ~u.pending /\ u.scan = "Idle"
    BY <1>6, <1>7, <1>14
  <2>3. OK(d) /\ Sound(d) /\ Woken(d) /\ Loyal(u, d)
    BY <1>6, <1>8, <1>9, <1>12, <2>1, <2>2, AdvanceSound
  <2>4. Advanced(u, d, answer)
    BY <1>6, <1>8, <1>9, <1>12, <2>1, AdvanceSubmits
  <2>5. d.running /\ ~d.faulted /\ d.scan = "Idle"
    BY <1>8, <2>2, <2>4 DEF Advanced
  <2>6. ctl' = scheduleTimeouts(d)
    BY <1>11, <1>14, <2>1, <2>5
  <2> QED BY <1>13, <2>3, <2>5, <2>6
<1>15. CASE ~(needsStation(c) /\ ~c.pending) /\ u.scan = "Queued"
  <2>1. PICK e : e = startScanning(u, answer)
    OBVIOUS
  <2>2. ~needsStation(u)
    BY <1>7, <1>10, <1>15
  <2>3. OK(e) /\ Sound(e) /\ Woken(e) /\ Loyal(u, e)
    BY <1>6, <1>8, <1>9, <1>12, <2>1, <2>2, StartScanningSound
  <2>4. e.running /\ ~e.faulted
    BY <1>6, <1>8, <1>9, <1>12, <2>1, StartScanningSubmits DEF ScanStarted
  <2>5. ctl' = scheduleTimeouts(e)
    BY <1>8, <1>11, <1>15, <2>1
  <2> QED BY <1>13, <2>3, <2>4, <2>5
<1>16. CASE ~(needsStation(c) /\ ~c.pending) /\ u.scan # "Queued"
  <2>1. ctl' = scheduleTimeouts(u)
    BY <1>11, <1>16
  <2>2. Woken(u) /\ Loyal(u, u)
    BY <1>6, <1>8, <1>10, <1>16 DEF Woken, Resting, Loyal
  <2> QED BY <1>6, <1>8, <1>13, <2>1, <2>2
<1> QED BY <1>14, <1>15, <1>16

(* A completion, taken or not, keeps the promises. *)
LEMMA OperationPromise ==
  ASSUME NEW c, OK(c), c.running, Promise(c), NEW id, NEW kind,
         NEW result \in Status, NEW failure \in ConnectionFailure,
         NEW answer \in Status
  PROVE  LET d == onOperationFinished(c, id, kind, result, failure, answer)
         IN  OK(d) /\ Promise(d) /\ Loyal(c, d) /\ d.running
<1>1. PICK d : d = onOperationFinished(c, id, kind, result, failure, answer)
  OBVIOUS
<1>2. CASE d = c
  BY <1>1, <1>2 DEF Loyal
<1>3. CASE ~c.faulted /\ d = scanFinished(c, result, answer)
  <2>1. Sound(c)
    BY <1>3 DEF Promise
  <2>2. OK(d) /\ Sound(d) /\ Woken(d) /\ Timed(d) /\ Loyal(c, d)
    BY <1>3, <2>1, ScanFinishedSound
  <2>3. KeptLife(c, d)
    BY <1>3, ScanFinishedSettles
  <2>4. d.running /\ ~d.faulted
    BY <1>3, <2>3
  <2> QED BY <1>1, <2>2, <2>4 DEF Promise
<1>4. CASE ~c.faulted /\ d = stationFinished(c, result, failure, answer)
  <2>1. Sound(c)
    BY <1>4 DEF Promise
  <2>2. OK(d) /\ Sound(d) /\ Woken(d) /\ Timed(d) /\ Loyal(c, d)
    BY <1>4, <2>1, StationFinishedSound
  <2>3. StationSettled(c, d)
    BY <1>4, StationFinishedSettles, ConstantNames
  <2>4. d.running /\ ~d.faulted
    BY <1>4, <2>3 DEF StationSettled
  <2> QED BY <1>1, <2>2, <2>4 DEF Promise
<1>5. \/ d = c
      \/ ~c.faulted /\ d = scanFinished(c, result, answer)
      \/ ~c.faulted /\ d = stationFinished(c, result, failure, answer)
  BY <1>1 DEF onOperationFinished
<1> QED BY <1>2, <1>3, <1>4, <1>5

(* A station completion keeps the promises. *)
LEMMA StationFinishesPromise ==
  ASSUME PInv, NEW result \in Status, NEW failure \in Failures,
         NEW answer \in StoreAnswers, StationFinishes(result, failure, answer)
  PROVE  Pledged
<1>1. OK(ctl) /\ ctl.running /\ Promise(ctl) /\ store \in Persisted
  BY InvParts DEF PInv, StationFinishes, Coherent, Lifecycle
<1>2. answer \in Status /\ failure \in ConnectionFailure
  BY AnswersTyped, ConstantsAssumption
<1>3. PICK d : d = onOperationFinished(ctl, radio.station.id,
                     radio.station.kind, result, failure, answer)
  OBVIOUS
<1>4. Promise(d) /\ Loyal(ctl, d) /\ d.running
  BY <1>1, <1>2, <1>3, OperationPromise
<1>5. ctl' = d
  BY <1>3 DEF StationFinishes
<1>6. store'.saved = store.saved
  <2>1. \/ store' = store
        \/ store' = [store EXCEPT !["enabled"] = ctl.enabled]
        \/ store' = [store EXCEPT !["last"] = ctl.profile]
    BY DEF StationFinishes, Written
  <2> QED BY <1>1, <2>1 DEF Persisted
<1> QED BY <1>1, <1>4, <1>5, <1>6, LoyalKeepsPledge DEF StationFinishes

(* A scan completion keeps the promises. *)
LEMMA ScanFinishesPromise ==
  ASSUME PInv, NEW result \in ScanResults, NEW read \in Answers,
         ScanFinishes(result, read)
  PROVE  Pledged
<1>1. OK(ctl) /\ ctl.running /\ Promise(ctl)
  BY InvParts DEF PInv, ScanFinishes, Coherent, Lifecycle
<1>2. result \in Status /\ read \in Status
  BY AnswersTyped, NamesTyped, AdapterErrorsAssumption DEF ScanResults
<1>3. PICK d : d = onOperationFinished(ctl, radio.scan.id, "Scan", result,
                                       "None", read)
  OBVIOUS
<1>4. Promise(d) /\ Loyal(ctl, d) /\ d.running
  BY <1>1, <1>2, <1>3, ConstantNames, OperationPromise
<1>5. ctl' = d
  BY <1>3 DEF ScanFinishes
<1> QED BY <1>1, <1>4, <1>5, LoyalKeepsPledge DEF ScanFinishes

(* An overflow of the adapter's queue keeps the promises. *)
LEMMA AdapterOverflowsPromise == PInv /\ AdapterOverflows => Pledged
<1> SUFFICES ASSUME PInv, AdapterOverflows PROVE Pledged
  OBVIOUS
<1>1. OK(ctl) /\ ctl.running /\ Promise(ctl)
  BY InvParts DEF PInv, AdapterOverflows, Coherent, Lifecycle
<1>2. /\ FaultResult(radio.station) \in Status
      /\ FaultResult(radio.scan) \in Status
  BY NamesTyped DEF FaultResult
<1>3. PICK e : e = onOperationFinished(ctl, radio.station.id,
                     radio.station.kind, FaultResult(radio.station), "None",
                     "Ok")
  OBVIOUS
<1>4. OK(e) /\ Promise(e) /\ Loyal(ctl, e) /\ e.running
  BY <1>1, <1>2, <1>3, ConstantNames, OperationPromise
<1>5. PICK d : d = onOperationFinished(e, radio.scan.id, "Scan",
                     FaultResult(radio.scan), "None", "Ok")
  OBVIOUS
<1>6. Promise(d) /\ Loyal(e, d) /\ d.running
  BY <1>2, <1>4, <1>5, ConstantNames, OperationPromise
<1>7. ctl' = d
  BY <1>3, <1>5 DEF AdapterOverflows
<1>8. Loyal(ctl, d)
  BY <1>4, <1>6 DEF Loyal
<1> QED BY <1>1, <1>6, <1>7, <1>8, LoyalKeepsPledge DEF AdapterOverflows

(* The contract allows only plausible link reports. *)
LEMMA ReportsArePlausible ==
  ASSUME Inv, ctl.running, ~ctl.faulted, NEW link \in NextLinks
  PROVE  link \in [id : Nat, phase : LinkPhase] /\ Plausible(ctl, link)
<1>1. radio \in Radios /\ Agreed(ctl, radio)
  BY InvParts DEF Coherent
<1>2. /\ radio.link \in [id : Nat, phase : LinkPhase]
      /\ radio.station.id \in Nat
  BY <1>1 DEF Radios, Commands
<1>3. radio.link = ctl.link /\ radio.station.kind = ctl.transition
  BY <1>1 DEF Agreed
<1>4. CASE \E phase \in NextPhase(radio.link.phase) :
             /\ phase = "AddressReady" => ~TearingDown
             /\ link = [radio.link EXCEPT !.phase = phase]
  <2>1. PICK phase \in NextPhase(radio.link.phase) :
             /\ phase = "AddressReady" => ~TearingDown
             /\ link = [radio.link EXCEPT !.phase = phase]
    BY <1>4
  <2>2. /\ phase \in LinkPhase
        /\ phase = "AddressReady" => radio.link.phase # "Idle"
        /\ radio.link.phase = "Idle" => phase = "Idle"
    BY <1>2, <2>1 DEF NextPhase, LinkPhase
  <2>3. link \in [id : Nat, phase : LinkPhase] /\ link.phase = phase
    BY <1>2, <2>1, <2>2
  <2> QED BY <1>3, <2>1, <2>2, <2>3 DEF Plausible, TearingDown
<1>5. CASE /\ link = [id |-> radio.station.id, phase |-> "Connecting"]
           /\ radio.station.kind = "Connect"
  BY <1>2, <1>3, <1>5 DEF LinkPhase, Plausible
<1> QED BY <1>4, <1>5 DEF NextLinks

(* A link report leaves the life cycle alone. *)
LEMMA OnLinkChangedLife ==
  ASSUME NEW c, OK(c), NEW link \in [id : Nat, phase : LinkPhase],
         NEW reason \in Status, NEW failure \in ConnectionFailure
  PROVE  KeptLife(c, onLinkChanged(c, link, reason, failure))
BY OnLinkChangedMoves

(* A link report keeps the promises. *)
LEMMA LinkChangesPromise ==
  ASSUME PInv, NEW link \in NextLinks, NEW reason \in Answers,
         NEW failure \in Failures, LinkChanges(link, reason, failure)
  PROVE  Pledged
<1>1. OK(ctl) /\ ctl.running /\ Promise(ctl) /\ Inv
  BY InvParts DEF PInv, LinkChanges, Coherent, Lifecycle
<1>2. reason \in Status /\ failure \in ConnectionFailure
  BY AnswersTyped, ConstantsAssumption
<1>3. PICK d : d = onLinkChanged(ctl, link, reason, failure)
  OBVIOUS
<1>4. ctl' = d
  BY <1>3 DEF LinkChanges
<1>5. CASE ctl.faulted
  <2>1. d = ctl
    BY <1>3, <1>5 DEF onLinkChanged
  <2>2. Loyal(ctl, d)
    BY <2>1 DEF Loyal
  <2> QED BY <1>1, <1>4, <2>1, <2>2, LoyalKeepsPledge DEF LinkChanges
<1>6. CASE ~ctl.faulted
  <2>1. link \in [id : Nat, phase : LinkPhase] /\ Plausible(ctl, link)
    BY <1>1, <1>6, ReportsArePlausible
  <2>2. Sound(ctl) /\ Woken(ctl) /\ Timed(ctl)
    BY <1>1, <1>6 DEF Promise
  <2>3. OK(d) /\ Sound(d) /\ Woken(d) /\ Timed(d) /\ Loyal(ctl, d)
    BY <1>1, <1>2, <1>3, <2>1, <2>2, OnLinkChangedSound
  <2>4. KeptLife(ctl, d)
    BY <1>1, <1>2, <1>3, <2>1, OnLinkChangedLife
  <2>5. Promise(d) /\ d.running
    BY <1>1, <1>6, <2>3, <2>4 DEF Promise
  <2> QED BY <1>1, <1>4, <2>3, <2>5, LoyalKeepsPledge DEF LinkChanges
<1> QED BY <1>5, <1>6

(* A report that the radio went on or off touches no promise. *)
LEMMA EnabledChangesPromise ==
  ASSUME PInv, NEW enabled \in BOOLEAN, EnabledChanges(enabled)
  PROVE  Pledged
<1>1. OK(ctl) /\ ctl.running /\ Promise(ctl)
  BY InvParts DEF PInv, EnabledChanges, Coherent, Lifecycle
<1>2. CASE ctl.faulted
  <2>1. ctl' = ctl
    BY <1>2 DEF EnabledChanges, onEnabledChanged
  <2>2. Loyal(ctl, ctl')
    BY <2>1 DEF Loyal
  <2> QED BY <1>1, <2>1, <2>2, LoyalKeepsPledge DEF EnabledChanges
<1>3. CASE ~ctl.faulted
  <2>1. Sound(ctl) /\ Woken(ctl) /\ Timed(ctl)
    BY <1>1, <1>3 DEF Promise
  <2>2. PICK e : e = [ctl EXCEPT !.enabled = enabled]
    OBVIOUS
  <2>3. /\ OK(e) /\ KeptLife(ctl, e) /\ e.link = ctl.link
        /\ KeptStation(ctl, e) /\ KeptScan(ctl, e) /\ SameIntent(ctl, e)
        /\ SameAttempt(ctl, e) /\ SameCharge(ctl, e) /\ e.tasks = ctl.tasks
    <3>1. Shape(e)
      BY <1>1, <2>2 DEF OK, Shape
    <3>2. Typed(e)
      BY <1>1, <2>2, ZenonT(30) DEF OK, Shape, Typed, Fields
    <3> QED BY <1>1, <2>2, <3>1, <3>2 DEF OK, Shape, Fields
  <2>4. RetryTold(e) /\ LinkTimed(e) /\ Rooted(e)
    BY <2>1, <2>3 DEF Sound, RetryTold, LinkTimed, Rooted, needsStation
  <2>5. Wanted(e) /\ Timed(e) /\ Loyal(ctl, e)
    <3>1. Wanted(e)
      BY <2>1, <2>3 DEF Sound, Wanted, superseded
    <3>2. Timed(e)
      BY <2>1, <2>3 DEF Timed, Deadlines
    <3>3. Loyal(ctl, e)
      BY <2>3 DEF Loyal
    <3> QED BY <3>1, <3>2, <3>3
  <2>6. Woken(e)
    <3>1. Resting(e) => Resting(ctl)
      BY <2>3 DEF Resting, needsStation
    <3>2. GivenUp(ctl) => GivenUp(e)
      BY <2>3 DEF GivenUp
    <3> QED BY <2>1, <2>3, <3>1, <3>2 DEF Woken, superseded
  <2>7. Promise(e) /\ e.running
    BY <1>1, <1>3, <2>3, <2>4, <2>5, <2>6 DEF Promise, Sound
  <2>8. PICK d : d = changed(e, "station")
    OBVIOUS
  <2>9. Same(e, d) /\ SameWork(e, d) /\ SameTimer(e, d) /\ SameReconnect(e, d)
    BY <2>3, <2>8, ChangedSame, ConstantNames
  <2>10. Promise(d) /\ Loyal(e, d) /\ d.running
    BY <2>7, <2>9, SamePromise DEF Same
  <2>11. ctl' = d
    BY <1>1, <1>3, <2>2, <2>8 DEF EnabledChanges, onEnabledChanged
  <2>12. Loyal(ctl, d)
    BY <2>5, <2>10 DEF Loyal
  <2> QED BY <1>1, <2>10, <2>11, <2>12, LoyalKeepsPledge DEF EnabledChanges
<1> QED BY <1>2, <1>3

-----------------------------------------------------------------------------
(* The specification *)

(* Every step keeps the promises. *)
LEMMA NextPromise ==
  ASSUME PInv, Next
  PROVE  PInv'
<1>1. Inv'
  BY NextInv DEF PInv
<1>2. CASE Api
  <2>1. ASSUME NEW network \in Networks, NEW answer,
               \/ \E automatic \in BOOLEAN :
                    SaveProfile(network, automatic, answer)
               \/ RemoveProfile(network, answer)
        PROVE  Pledged
    BY <2>1, WriteProfilePromise DEF SaveProfile, RemoveProfile, Saved
  <2>2. Pledged
    BY <1>2, <2>1, BeginPromise, ShutdownPromise, SetEnabledPromise,
       ConnectPromise, ConnectProfilePromise, DisconnectPromise,
       StartScanPromise, CancelScanPromise DEF Api
  <2> QED BY <1>1, <2>2 DEF PInv, Pledged
<1>3. CASE Scheduler
  <2>1. CASE Execute
    <3>1. PICK c : c = Dispatched("work")
      OBVIOUS
    <3>2. "work" \in ctl.tasks /\ UNCHANGED muted
      BY <2>1 DEF Execute
    <3>3. ExecuteAdvances(c) => Pledged
      BY <3>1, <3>2, ExecuteAdvancesPromise
    <3>4. ExecuteRestores(c) => Pledged
      BY <3>1, <3>2, ExecuteRestoresPromise
    <3>5. ASSUME \/ ExecuteIgnored(c) \/ ExecuteExhausted(c)
                 \/ ExecuteSuperseded(c) \/ ExecuteAwaits(c)
                 \/ ExecutePreempts(c)
          PROVE  Pledged
      BY <3>1, <3>2, <3>5, ExecuteExitsPromise
    <3>6. Pledged
      BY <2>1, <3>1, <3>3, <3>4, <3>5 DEF Execute
    <3> QED BY <1>1, <3>6 DEF PInv, Pledged
  <2>2. CASE \/ NotifyListeners
             \/ \E expired \in SUBSET Deadline, answer \in Answers :
                  CheckTimeouts(expired, answer)
             \/ \E medium \in StoreAnswers : Retry(medium)
    <3>1. Pledged
      BY <2>2, NotifyListenersPromise, CheckTimeoutsPromise, RetryPromise
    <3> QED BY <1>1, <3>1 DEF PInv, Pledged
  <2> QED BY <1>3, <2>1, <2>2 DEF Scheduler
<1>4. CASE Adapter
  <2>1. Pledged
    BY <1>4, LinkChangesPromise, EnabledChangesPromise,
       StationFinishesPromise, ScanFinishesPromise, AdapterOverflowsPromise
    DEF Adapter
  <2> QED BY <1>1, <2>1 DEF PInv, Pledged
<1> QED BY <1>2, <1>3, <1>4 DEF Next

(* A stuttering step keeps the promises. *)
LEMMA StutterPromise == PInv /\ UNCHANGED vars => PInv'
<1> SUFFICES ASSUME PInv, UNCHANGED vars PROVE PInv'
  OBVIOUS
<1>1. Inv'
  BY StutterInv DEF PInv
<1> QED BY <1>1 DEF PInv, vars

(* The promises are kept in every reachable state. *)
LEMMA PromisesKept == Spec => []PInv
<1>1. PInv /\ [Next]_vars => PInv'
  BY NextPromise, StutterPromise
<1> QED BY <1>1, InitPromise, PTL DEF Spec

(* No deadline of native work, of an unstable connection or of a lost      *)
(* address is ever left without the timer task that watches it, although   *)
(* every handler arms, drops and reschedules them.                         *)
THEOREM TimersAreArmed == Spec => []TimerArmed
<1>1. PInv => TimerArmed
  BY DEF PInv, Promise, TimerArmed, Running, Timed
<1> QED BY <1>1, PromisesKept, PTL

(* The controller holds credentials exactly while it can still make a      *)
(* connection that is wanted, across every overlap of requests, timeouts,  *)
(* late completions and faults.                                            *)
THEOREM CredentialsAreHeldWhileWanted == Spec => []SecretLifetime
<1>1. PInv => SecretLifetime
  BY DEF PInv, Promise, SecretLifetime, Running, Sound, Wanted
<1> QED BY <1>1, PromisesKept, PTL

(* Once disconnect() is the caller's last word, no restored profile and no *)
(* retry brings the connection back, and an attempt that is still on the   *)
(* radio is one that the request has superseded.                           *)
THEOREM DisconnectsAreFinal == Spec => []DisconnectIsFinal
<1>1. PInv => DisconnectIsFinal
  <2> SUFFICES ASSUME PInv, muted, Running PROVE DisconnectIsFinal
    BY DEF DisconnectIsFinal
  <2>1. Sound(ctl) /\ Silent(ctl) /\ Agreed(ctl, radio)
    BY DEF PInv, Promise, Running, Obeys, Inv, Coherent
  <2>2. ~ctl.pending /\ "reconnect" \notin ctl.tasks
    BY <2>1 DEF Sound, RetryTold, Silent
  <2>3. radio.station.kind = "Connect" => superseded(ctl)
    BY <2>1 DEF Sound, Wanted, Silent, Agreed
  <2> QED BY <2>1, <2>2, <2>3 DEF DisconnectIsFinal, Silent
<1> QED BY <1>1, PromisesKept, PTL

(* What RetryIsArmed says whatever happens to the saved profiles: the      *)
(* reconnect task is scheduled exactly while state() shows a retry, which  *)
(* belongs to a failed connection intent for a saved profile, with no      *)
(* connect or enable going on and no stable link that would forget it.     *)
RetryIsTrue ==
  Running =>
    /\ ctl.pending <=> "reconnect" \in ctl.tasks
    /\ ctl.pending => /\ ctl.desired = "Connected" /\ ctl.profile # NoNetwork
                      /\ ctl.failure # "None"
                      /\ ctl.transition \in {"None", "Disconnect"}
                      /\ "stable" \notin ctl.armed

(* state().retry tells the truth, whatever the store answers and whoever   *)
(* rewrites the profiles.                                                  *)
THEOREM RetriesAreTrue == Spec => []RetryIsTrue
<1>1. PInv => RetryIsTrue
  BY DEF PInv, Promise, RetryIsTrue, Running, Sound, RetryTold
<1> QED BY <1>1, PromisesKept, PTL

(* As long as no profile is saved or removed, a retry moreover belongs to  *)
(* an automatic intent.  Otherwise the deadline of a lost address may      *)
(* expire while the link is already being taken down, which schedules a    *)
(* retry whose failure the completed disconnect then hides; a connect() to *)
(* the profile, by now rewritten as manual, clears the flag under it.      *)
THEOREM RetriesAreArmed == Spec => [](MaxWrites = 0 => RetryIsArmed)
<1>1. PInv => (MaxWrites = 0 => RetryIsArmed)
  <2> SUFFICES ASSUME PInv, MaxWrites = 0, Running PROVE RetryIsArmed
    BY DEF RetryIsArmed
  <2>1. Sound(ctl) /\ Faithful(ctl, store) /\ ctl.running
    BY DEF PInv, Promise, Running
  <2>2. ctl.pending => ctl.auto
    BY <2>1 DEF Faithful, Sound, RetryTold
  <2> QED BY <2>1, <2>2 DEF RetryIsArmed, Sound, RetryTold
<1> QED BY <1>1, PromisesKept, PTL

(* What NoLostWork says whatever the store does: the only intent that      *)
(* waits with nothing under way is a connection to a saved profile whose   *)
(* failure is shown and whose retry could not load it.                     *)
NothingStalls ==
  Running =>
    /\ Resting(ctl) => GivenUp(ctl)
    /\ ctl.scan = "Queued" => "work" \in ctl.tasks
    /\ ctl.transition = "Connect" /\ superseded(ctl) /\ ~ctl.cancelling
         => "work" \in ctl.tasks

(* No wake-up is lost: whatever the order of requests, completions,        *)
(* timeouts and store failures, what is to be done is under way, or is a   *)
(* retry that was given up and is shown as failed.                         *)
THEOREM NothingEverStalls == Spec => []NothingStalls
<1>1. PInv => NothingStalls
  BY DEF PInv, Promise, NothingStalls, Running, Woken
<1> QED BY <1>1, PromisesKept, PTL

(* With a store that answers and keeps its profiles nothing is given up.   *)
THEOREM NoWorkIsLost ==
  Spec => [](MaxWrites = 0 /\ StoreErrors = {} => NoLostWork)
<1>1. PInv => (MaxWrites = 0 /\ StoreErrors = {} => NoLostWork)
  <2> SUFFICES ASSUME PInv, Reliable, Running PROVE NoLostWork
    BY DEF NoLostWork, Reliable
  <2>1. Woken(ctl)
    BY DEF PInv, Promise, Running
  <2>2. ~Resting(ctl)
    BY <2>1 DEF Woken
  <2> QED BY <2>1, <2>2 DEF NoLostWork, Woken, Resting
<1> QED BY <1>1, PromisesKept, PTL

-----------------------------------------------------------------------------
(* What a settled intent promises *)

(* The adapter takes every command while it works, and the default order   *)
(* of the timeouts is kept.                                                *)
Orderly == AdapterErrors = {} /\ ShortTransitions

(* Besides, the store answers, the adapter does not fault and the radio    *)
(* turns on and off only when told.                                        *)
Untroubled == Orderly /\ StoreErrors = {} /\ ~Overflows /\ ~Unsolicited

(* No scan goes on during a transition and no link during an enable; only  *)
(* a connect is cancelled, and no other command outlives its deadline.     *)
Apart(c) ==
  /\ c.scan # "Idle" => c.transition = "None"
  /\ c.transition = "Enable" => c.link.phase = "Idle"
  /\ c.cancelling => c.transition = "Connect"
  /\ c.transition \in {"Enable", "Disconnect"} => ~c.station_timed_out

(* Only a revision that there is was attempted, and only an intent that    *)
(* connects to nothing else restores a profile.                            *)
Intended(c) ==
  /\ c.revision > 0 /\ c.attempted <= c.revision
  /\ c.desired = "Connected" => ~c.restore

(* A link that is not wanted and a radio that was never enabled are still  *)
(* to be dealt with, and only a wanted link ever lacked its address.       *)
Heeded(c) ==
  /\ c.link.phase # "Idle" /\ c.desired # "Connected" =>
       c.attempted # c.revision
  /\ ~c.initialized => c.attempted # c.revision
  /\ c.failure = "AddressTimeout" => c.desired = "Connected"

(* Connections need an enabled radio. *)
Powered(c) == c.transition = "Connect" \/ c.link.phase # "Idle" => c.enabled

Grounded(c, dead) ==
  /\ Apart(c) /\ Intended(c)
  /\ ~dead => Heeded(c)
  /\ Untroubled => Powered(c)

(* A transition is for an intent that has not been attempted. *)
Underway(c) == c.transition # "None" => c.attempted # c.revision

(* What an attempt without an error has achieved. *)
Achieved(c) ==
  c.initialized /\ c.attempted = c.revision /\ c.status = "Ok" =>
    /\ ~c.restore
    /\ c.desired # "Connected" => c.link.phase = "Idle"
    /\ c.desired = "Connected" =>
         \/ c.link.phase = "AddressReady"
         \/ c.link.phase = "Associated" /\ "address" \in c.armed
    /\ Untroubled => c.enabled = Wants(c)

Standing(c, dead) == Grounded(c, dead) /\ Underway(c) /\ Achieved(c)

(* A step arms no address deadline, keeps the intent of one that is armed, *)
(* and leaves the enablement alone.                                        *)
Steady(c, d) ==
  /\ "address" \in d.armed => "address" \in c.armed /\ d.desired = c.desired
  /\ d.enabled = c.enabled /\ d.initialized = c.initialized
  /\ c.transition = "Enable" => d.transition = "Enable"

(* What every method but the reactions to link reports and completions     *)
(* makes of a controller that stands; a fault ends all promises.           *)
Upheld(c, d, dead) ==
  /\ OK(d)
  /\ ~d.faulted => Standing(d, dead) /\ Steady(c, d)

(* d differs from c in nothing that Standing depends on, except that a     *)
(* scan, a restoration or a timeout may be over and an error may be shown. *)
Alike(c, d) ==
  /\ d.desired = c.desired /\ (d.restore => c.restore)
  /\ d.revision = c.revision /\ d.attempted = c.attempted
  /\ d.initialized = c.initialized
  /\ d.link = c.link /\ d.enabled = c.enabled
  /\ d.transition = c.transition /\ d.cancelling = c.cancelling
  /\ d.station_timed_out => c.station_timed_out
  /\ c.scan = "Idle" => d.scan = "Idle"
  /\ d.status = "Ok" => c.status = "Ok"
  /\ d.failure \in {c.failure, "None"}
  /\ "address" \in d.armed <=> "address" \in c.armed

(* Such a method upholds everything. *)
LEMMA AlikeStands ==
  ASSUME NEW c, NEW d, NEW dead, Standing(c, dead), Alike(c, d)
  PROVE  Standing(d, dead) /\ Steady(c, d)
<1>1. Apart(d) /\ Intended(d) /\ Underway(d)
  BY DEF Standing, Grounded, Apart, Intended, Underway, Alike
<1>2. ~dead => Heeded(d)
  BY DEF Standing, Grounded, Heeded, Alike
<1>3. Untroubled => Powered(d)
  BY DEF Standing, Grounded, Powered, Alike
<1>4. Achieved(d)
  BY DEF Standing, Achieved, Alike, Wants
<1>5. Steady(c, d)
  BY DEF Steady, Alike
<1> QED BY <1>1, <1>2, <1>3, <1>4, <1>5 DEF Standing, Grounded

(* Methods compose as long as there is no fault. *)
LEMMA UpheldAgain ==
  ASSUME NEW c, NEW d, NEW e, NEW dead,
         Upheld(c, d, dead), ~d.faulted, Upheld(d, e, dead)
  PROVE  Upheld(c, e, dead)
BY DEF Upheld, Steady

(* changed() is such a method. *)
LEMMA ChangedAlike ==
  ASSUME NEW c, OK(c), NEW what \in Change
  PROVE  OK(changed(c, what)) /\ Alike(c, changed(c, what))
<1>1. CASE c.running
  <2>1. PICK d : d = [c EXCEPT !.changes = @ \cup {what},
                               !.tasks = @ \cup {"notify"}]
    OBVIOUS
  <2>2. changed(c, what) = d
    BY <1>1, <2>1 DEF changed
  <2>3. Alike(c, d)
    BY <2>1 DEF OK, Shape, Fields, Alike
  <2> QED BY <2>2, <2>3, ChangedKeeps
<1>2. CASE ~c.running
  BY <1>2 DEF changed, Alike
<1> QED BY <1>1, <1>2

(* So are scheduleWork(), scheduleTimeouts() and cancelRetry(). *)
LEMMA ScheduledAlike ==
  ASSUME NEW c, OK(c)
  PROVE  /\ OK(scheduleWork(c)) /\ Alike(c, scheduleWork(c))
         /\ OK(scheduleTimeouts(c)) /\ Alike(c, scheduleTimeouts(c))
         /\ OK(cancelRetry(c)) /\ Alike(c, cancelRetry(c))
<1>1. Alike(c, scheduleWork(c))
  BY DEF OK, Shape, Fields, Alike, scheduleWork
<1>2. Alike(c, scheduleTimeouts(c))
  BY DEF OK, Shape, Fields, Alike, scheduleTimeouts
<1>3. Alike(c, cancelRetry(c))
  BY DEF OK, Shape, Fields, Alike, cancelRetry
<1> QED BY <1>1, <1>2, <1>3, ScheduleWorkKeeps, ScheduleTimeoutsKeeps,
           CancelRetryKeeps

(* They compose as well. *)
LEMMA AlikeAgain ==
  ASSUME NEW c, NEW d, NEW e, Alike(c, d), Alike(d, e)
  PROVE  Alike(c, e)
BY DEF Alike

(* The calls with which most handlers end. *)
LEMMA AnnounceAlike ==
  ASSUME NEW c, OK(c), NEW what \in Change
  PROVE  LET d == scheduleTimeouts(scheduleWork(changed(c, what)))
         IN  OK(d) /\ Alike(c, d)
<1>1. PICK d : d = changed(c, what)
  OBVIOUS
<1>2. OK(d) /\ Alike(c, d)
  BY <1>1, ChangedAlike
<1>3. PICK e : e = scheduleWork(d)
  OBVIOUS
<1>4. OK(e) /\ Alike(c, e)
  BY <1>2, <1>3, ScheduledAlike, AlikeAgain
<1>5. PICK f : f = scheduleTimeouts(e)
  OBVIOUS
<1>6. OK(f) /\ Alike(c, f)
  BY <1>4, <1>5, ScheduledAlike, AlikeAgain
<1> QED BY <1>1, <1>3, <1>5, <1>6

(* What newIntent() relies on. *)
Poised(c) ==
  /\ Apart(c) /\ c.attempted <= c.revision
  /\ c.desired = "Connected" => ~c.restore
  /\ Untroubled => Powered(c)

(* A new intent has not been attempted, and nothing is held against it. *)
LEMMA NewIntentStands ==
  ASSUME NEW c, OK(c), NEW dead, Poised(c)
  PROVE  LET d == newIntent(c)
         IN  OK(d) /\ Standing(d, dead) /\ Steady(c, d)
<1>1. PICK d : d = cancelRetry(c)
  OBVIOUS
<1>2. OK(d) /\ Alike(c, d)
  BY <1>1, ScheduledAlike
<1>3. PICK e : e = [d EXCEPT !.revision = @ + 1, !.status = "Ok",
                             !.failure = "None", !.level = 0, !.armed = {}]
  OBVIOUS
<1>4. /\ e.revision = d.revision + 1 /\ e.attempted = d.attempted
      /\ e.desired = d.desired /\ e.restore = d.restore
      /\ e.initialized = d.initialized /\ e.failure = "None"
      /\ e.link = d.link /\ e.enabled = d.enabled
      /\ e.transition = d.transition /\ e.cancelling = d.cancelling
      /\ e.station_timed_out = d.station_timed_out
      /\ e.scan = d.scan /\ e.armed = {}
  BY <1>2, <1>3 DEF OK, Shape, Fields
<1>5. OK(e)
  <2>1. Shape(e)
    BY <1>2, <1>3 DEF OK, Shape
  <2>2. Typed(e)
    BY <1>2, <1>3, NamesTyped DEF OK, Shape, Typed, Fields
  <2> QED BY <2>1, <2>2 DEF OK
<1>6. c.revision \in Nat /\ c.attempted \in Nat
  BY DEF OK, Typed
<1>7. e.attempted # e.revision /\ e.attempted <= e.revision /\ e.revision > 0
  BY <1>2, <1>4, <1>6 DEF Poised, Alike
<1>8. Apart(e)
  BY <1>2, <1>4 DEF Poised, Alike, Apart
<1>9. Intended(e) /\ Heeded(e) /\ Underway(e) /\ Achieved(e)
  BY <1>2, <1>4, <1>7
  DEF Poised, Alike, Intended, Heeded, Underway, Achieved
<1>10. Untroubled => Powered(e)
  BY <1>2, <1>4 DEF Poised, Alike, Powered
<1>11. Standing(e, dead) /\ Steady(c, e)
  BY <1>2, <1>4, <1>8, <1>9, <1>10 DEF Standing, Grounded, Steady, Alike
<1>12. PICK f : f = changed(e, "station")
  OBVIOUS
<1>13. OK(f) /\ Alike(e, f)
  BY <1>5, <1>12, ChangedAlike, ConstantNames
<1>14. PICK g : g = scheduleWork(f)
  OBVIOUS
<1>15. OK(g) /\ Alike(e, g)
  BY <1>13, <1>14, ScheduledAlike, AlikeAgain
<1>16. newIntent(c) = g
  BY <1>1, <1>3, <1>12, <1>14 DEF newIntent, Replaced
<1>17. Standing(g, dead) /\ Steady(e, g)
  BY <1>11, <1>15, AlikeStands
<1> QED BY <1>11, <1>15, <1>16, <1>17 DEF Steady

(* requestConnection() keeps an intent that already is what is asked for,  *)
(* or replaces it.                                                         *)
LEMMA RequestConnectionStands ==
  ASSUME NEW c, OK(c), NEW dead, Standing(c, dead), NEW network \in Ssid,
         NEW profile \in Ssid, NEW automatic \in BOOLEAN
  PROVE  LET d == requestConnection(c, network, profile, automatic)
         IN  Standing(d, dead) /\ Steady(c, d)
<1>1. PICK d : d = [c EXCEPT !.auto = automatic]
  OBVIOUS
<1>2. Alike(c, d)
  BY <1>1 DEF OK, Shape, Fields, Alike
<1>3. PICK e : e = [c EXCEPT !.config = network, !.secret = network,
                             !.desired = "Connected", !.profile = profile,
                             !.auto = automatic, !.restore = FALSE]
  OBVIOUS
<1>4. /\ OK(e) /\ KeptLink(c, e) /\ KeptStation(c, e) /\ KeptScan(c, e)
      /\ e.restore = FALSE /\ e.revision = c.revision
      /\ e.attempted = c.attempted /\ e.initialized = c.initialized
      /\ e.station_timed_out = c.station_timed_out
  <2>1. Shape(e)
    BY <1>3 DEF OK, Shape
  <2>2. Typed(e)
    BY <1>3, NamesTyped DEF OK, Shape, Typed, Fields
  <2> QED BY <1>3, <2>1, <2>2 DEF OK, Shape, Fields
<1>5. Poised(e)
  BY <1>4 DEF Standing, Grounded, Apart, Intended, Powered, Poised
<1>6. PICK g : g = newIntent(e)
  OBVIOUS
<1>7. Standing(g, dead) /\ Steady(e, g) /\ Renewed(e, g)
  BY <1>4, <1>5, <1>6, NewIntentStands, NewIntentRenews
<1>8. Steady(c, g)
  BY <1>4, <1>7 DEF Steady, Renewed
<1>9. requestConnection(c, network, profile, automatic) \in {d, g}
  BY <1>1, <1>3, <1>6 DEF requestConnection
<1>10. Standing(d, dead) /\ Steady(c, d)
  BY <1>2, AlikeStands
<1> QED BY <1>7, <1>8, <1>9, <1>10

(* A failure may be charged to whatever intent, as long as only a wanted   *)
(* link lacks its address.                                                 *)
LEMMA ConnectionFailedStands ==
  ASSUME NEW c, OK(c), NEW dead, Grounded(c, dead), Underway(c),
         NEW status \in Status, status # "Ok",
         NEW failure \in ConnectionFailure,
         ~dead => c.desired = "Connected"
  PROVE  LET d == connectionFailed(c, status, failure)
         IN  /\ Standing(d, dead) /\ Steady(c, d)
             /\ Charged(c, d, status, failure)
<1>1. PICK d : d = connectionFailed(c, status, failure)
  OBVIOUS
<1>2. Charged(c, d, status, failure)
  BY <1>1, ConnectionFailedCharges
<1>3. d.status = status /\ d.station_timed_out = c.station_timed_out
  <2>1. PICK e : e = [c EXCEPT !.status = status, !.armed = {},
                               !.failure = IF failure = "None"
                                           THEN "Transient" ELSE failure]
    OBVIOUS
  <2>2. /\ e.status = status /\ e.station_timed_out = c.station_timed_out
        /\ Shape(e)
    BY <2>1, ZenonT(30) DEF OK, Shape, Fields
  <2>3. PICK f : f = [e EXCEPT !.pending = TRUE, !.level = nextLevel(@),
                               !.tasks = @ \cup {"reconnect"}]
    OBVIOUS
  <2>4. f.status = e.status /\ f.station_timed_out = e.station_timed_out
    BY <2>2, <2>3 DEF Shape, Fields
  <2>5. d \in {e, f}
    BY <1>1, <2>1, <2>3 DEF connectionFailed
  <2> QED BY <2>2, <2>4, <2>5
<1>4. Apart(d) /\ Intended(d) /\ Underway(d) /\ Steady(c, d)
  BY <1>2, <1>3
  DEF Grounded, Apart, Intended, Underway, Steady, Charged
<1>5. ~dead => Heeded(d)
  BY <1>2 DEF Grounded, Heeded, Charged
<1>6. Untroubled => Powered(d)
  BY <1>2 DEF Grounded, Powered, Charged
<1>7. Achieved(d)
  BY <1>3 DEF Achieved
<1> QED BY <1>1, <1>2, <1>4, <1>5, <1>6, <1>7 DEF Standing, Grounded

(* cancelScan() only touches the scan. *)
LEMMA CancelScanAlike ==
  ASSUME NEW c, OK(c), NEW answer
  PROVE  OK(cancelScan(c, answer)) /\ Alike(c, cancelScan(c, answer))
<1>1. ASSUME c.scan # "Idle", NEW e, OK(e), Alike(c, e),
             cancelScan(c, answer)
               = scheduleTimeouts(scheduleWork(changed(e, "scan")))
      PROVE  OK(cancelScan(c, answer)) /\ Alike(c, cancelScan(c, answer))
  BY <1>1, AnnounceAlike, AlikeAgain, ConstantNames
<1>2. CASE c.scan = "Queued"
  <2>1. PICK e : e = [c EXCEPT !.scan = "Idle", !.scan_status = "Cancelled"]
    OBVIOUS
  <2>2. OK(e)
    <3>1. Shape(e)
      BY <2>1 DEF OK, Shape
    <3>2. Typed(e)
      BY <2>1, NamesTyped DEF OK, Shape, Typed, Fields
    <3> QED BY <3>1, <3>2 DEF OK
  <2>3. Alike(c, e)
    BY <2>1 DEF OK, Shape, Fields, Alike
  <2> QED BY <1>1, <1>2, <2>1, <2>2, <2>3 DEF cancelScan
<1>3. CASE c.scan = "Running" /\ answer = "Ok"
  <2>1. PICK e : e = [c EXCEPT !.scan = "Cancelling"]
    OBVIOUS
  <2>2. OK(e)
    <3>1. Shape(e)
      BY <2>1 DEF OK, Shape
    <3>2. Typed(e)
      BY <2>1, NamesTyped DEF OK, Shape, Typed, Fields
    <3> QED BY <3>1, <3>2 DEF OK
  <2>3. Alike(c, e)
    BY <1>3, <2>1 DEF OK, Shape, Fields, Alike
  <2> QED BY <1>1, <1>3, <2>1, <2>2, <2>3 DEF cancelScan
<1>4. CASE c.scan # "Queued" /\ ~(c.scan = "Running" /\ answer = "Ok")
  BY <1>4 DEF cancelScan, Alike
<1> QED BY <1>2, <1>3, <1>4

(* So does the completion of a scan. *)
LEMMA ScanFinishedAlike ==
  ASSUME NEW c, OK(c), NEW result \in Status, NEW read \in Status
  PROVE  LET d == scanFinished(c, result, read) IN OK(d) /\ Alike(c, d)
<1>1. PICK status \in Status : status = scanOutcome(c, result, read)
  BY NamesTyped DEF scanOutcome
<1>2. PICK e : e = [c EXCEPT !.scan_id = 0, !.scan = "Idle",
                             !.scan_status = status,
                             !.generation = IF status = "Ok" THEN @ + 1
                                            ELSE @]
  OBVIOUS
<1>3. OK(e)
  <2>1. Shape(e)
    BY <1>2 DEF OK, Shape
  <2>2. Typed(e)
    BY <1>2, NamesTyped DEF OK, Shape, Typed, Fields
  <2> QED BY <2>1, <2>2 DEF OK
<1>4. Alike(c, e)
  BY <1>2 DEF OK, Shape, Fields, Alike
<1>5. PICK d : d = scheduleTimeouts(scheduleWork(changed(e, "scan")))
  OBVIOUS
<1>6. OK(d) /\ Alike(c, d)
  BY <1>3, <1>4, <1>5, AnnounceAlike, AlikeAgain, ConstantNames
<1> QED BY <1>1, <1>2, <1>5, <1>6 DEF scanFinished

(* What the adapter's contract allows of a station command's result: a     *)
(* connect succeeds only with an address, and a working adapter that takes *)
(* every command neither fails nor cancels another one, and has no link    *)
(* once it has disconnected.                                               *)
Earned(c, result, dead) ==
  /\ result = "Ok" /\ c.transition = "Connect" =>
       c.link.phase = "AddressReady"
  /\ ~dead => /\ c.transition # "Connect" => result = "Ok"
              /\ c.transition = "Disconnect" => c.link.phase = "Idle"

(* The completion of a station command brings the intent nearer: it counts *)
(* as attempted only with an error, or connected as it wanted to be.       *)
LEMMA StationFinishedStands ==
  ASSUME NEW c, OK(c), NEW dead, Grounded(c, dead), Achieved(c),
         c.transition # "None",
         c.transition = "Connect" => c.initialized,
         c.transition = "Connect" /\ ~superseded(c) =>
           c.desired = "Connected",
         NEW result \in Status, NEW failure \in ConnectionFailure,
         NEW written \in Status, Earned(c, result, dead),
         c.attempted = c.revision => result # "Ok" /\ ~superseded(c)
  PROVE  LET d == stationFinished(c, result, failure, written)
         IN  /\ Standing(d, dead)
             /\ "address" \in d.armed => "address" \in c.armed
             /\ d.desired = c.desired /\ d.enabled = c.enabled
             /\ d.transition = "None"
             /\ d.initialized <=> c.initialized \/ WritesEnabled(c, result)
<1> DEFINE Retired(d) ==
      /\ OK(d) /\ KeptLink(c, d) /\ KeptScan(c, d) /\ d.transition = "None"
      /\ ~d.cancelling /\ d.desired = c.desired
      /\ d.restore = c.restore /\ d.revision = c.revision
      /\ d.failure = c.failure /\ d.armed = c.armed
      /\ d.initialized <=> c.initialized \/ WritesEnabled(c, result)
<1>1. PICK status \in Status :
        status = IF WritesEnabled(c, result) \/ WritesLast(c, result)
                 THEN written ELSE StationStatus(c, result)
  BY NamesTyped DEF StationStatus
<1>2. PICK w \in BOOLEAN : w = WritesEnabled(c, result)
  BY DEF WritesEnabled
<1>3. PICK r : r = [retireStation(c) EXCEPT !.initialized = @ \/ w]
  OBVIOUS
<1>4. Retired(r) /\ r.attempted = c.attempted /\ r.status = c.status
  <2>1. PICK q : q = retireStation(c)
    OBVIOUS
  <2>2. Shape(q)
    BY <2>1 DEF OK, Shape, retireStation
  <2>3. Typed(q)
    BY <2>1, NamesTyped DEF OK, Shape, Typed, Fields, retireStation
  <2>4. /\ q.transition = "None" /\ ~q.cancelling
        /\ KeptLink(c, q) /\ KeptScan(c, q) /\ q.desired = c.desired
        /\ q.restore = c.restore /\ q.revision = c.revision
        /\ q.failure = c.failure /\ q.armed = c.armed
        /\ q.initialized = c.initialized
        /\ q.attempted = c.attempted /\ q.status = c.status
    BY <2>1 DEF OK, Shape, Fields, retireStation
  <2>5. Shape(r)
    BY <1>3, <2>1, <2>2 DEF Shape
  <2>6. Typed(r)
    BY <1>3, <2>1, <2>2, <2>3 DEF Shape, Typed, Fields
  <2> QED BY <1>2, <1>3, <2>1, <2>2, <2>4, <2>5, <2>6 DEF OK, Shape, Fields
<1>5. PICK u : u = [r EXCEPT
                 !.status = status,
                 !.connected = IF /\ c.transition = "Connect"
                                  /\ StationStatus(c, result) = "Ok"
                               THEN c.profile ELSE @,
                 !.attempted = IF c.transition = "Connect" \/ status # "Ok"
                               THEN c.revision ELSE @]
  OBVIOUS
<1>6. /\ Retired(u) /\ u.status = status
      /\ u.attempted = IF c.transition = "Connect" \/ status # "Ok"
                       THEN c.revision ELSE c.attempted
  <2>1. Shape(u)
    BY <1>4, <1>5 DEF OK, Shape
  <2>2. Typed(u)
    BY <1>4, <1>5 DEF OK, Shape, Typed, Fields
  <2> QED BY <1>4, <1>5, <2>1, <2>2 DEF OK, Shape, Fields
<1>7. PICK f \in ConnectionFailure :
        f = IF c.station_timed_out THEN c.timeout_failure ELSE failure
  BY DEF OK, Typed
<1>8. PICK x : x = connectionFailed(u, status, f)
  OBVIOUS
<1>9. PICK v : /\ v = IF superseded(c) THEN r
                      ELSE IF /\ c.transition = "Connect"
                              /\ status \notin {"Ok", "Cancelled"}
                           THEN x ELSE u
               /\ stationFinished(c, result, failure, written)
                    = scheduleTimeouts(scheduleWork(changed(v, "station")))
  BY <1>1, <1>2, <1>3, <1>5, <1>7, <1>8 DEF stationFinished
<1>10. ASSUME NEW d, Retired(d)
       PROVE  Apart(d) /\ Underway(d) /\ (Untroubled => Powered(d))
  BY <1>10 DEF Grounded, Apart, Underway, Powered
<1>11. /\ c.attempted <= c.revision /\ c.revision > 0
       /\ c.desired = "Connected" => ~c.restore
  BY DEF Grounded, Intended
<1>12. c.revision \in Nat
  BY DEF OK, Typed
<1> DEFINE Ended(d) ==
      /\ OK(d) /\ Standing(d, dead)
      /\ "address" \in d.armed => "address" \in c.armed
      /\ d.desired = c.desired /\ d.enabled = c.enabled
      /\ d.transition = "None"
      /\ d.initialized <=> c.initialized \/ WritesEnabled(c, result)
<1>13. ASSUME superseded(c) PROVE Ended(v)
  <2>1. c.attempted # c.revision
    BY <1>13
  <2>2. Intended(r) /\ Achieved(r)
    BY <1>4, <1>11, <2>1 DEF Intended, Achieved
  <2>3. ~dead => Heeded(r)
    BY <1>4, <2>1 DEF Grounded, Heeded
  <2> QED BY <1>4, <1>9, <1>10, <1>13, <2>2, <2>3 DEF Standing, Grounded
<1>14. ASSUME ~superseded(c) PROVE Ended(v)
  <2>1. Intended(u)
    BY <1>6, <1>11, <1>12 DEF Intended
  <2>2. c.transition \in {"Enable", "Connect", "Disconnect"}
    BY DEF OK, Typed, Transition
  <2>3. status = "Ok" => result = "Ok"
    BY <1>1 DEF WritesEnabled, WritesLast, StationStatus
  <2>4. ASSUME ~dead PROVE Heeded(u)
    <3>1. c.transition # "Connect" => c.link.phase = "Idle"
      BY <2>2, <2>4 DEF Earned, Grounded, Apart
    <3>2. c.link.phase # "Idle" => c.desired = "Connected"
      BY <1>14, <3>1
    <3>3. CASE c.transition = "Connect"
      BY <1>6, <2>4, <3>2, <3>3 DEF Grounded, Heeded
    <3>4. CASE c.transition = "Enable"
      <4>1. WritesEnabled(c, result)
        BY <2>4, <3>4
        DEF WritesEnabled, StationStatus, Earned, Grounded, Apart
      <4> QED BY <1>6, <2>4, <3>2, <4>1 DEF Grounded, Heeded
    <3>5. CASE c.transition = "Disconnect"
      <4>1. result = "Ok" /\ c.attempted # c.revision
        BY <2>4, <3>5 DEF Earned
      <4>2. status = "Ok"
        BY <1>1, <3>5, <4>1
        DEF WritesEnabled, WritesLast, StationStatus, Grounded, Apart
      <4> QED BY <1>6, <2>4, <3>2, <3>5, <4>1, <4>2 DEF Grounded, Heeded
    <3> QED BY <2>2, <3>3, <3>4, <3>5
  <2>5. Achieved(u)
    <3>1. CASE c.transition = "Connect"
      <4>1. c.desired = "Connected"
        BY <1>14, <3>1
      <4>2. Untroubled => c.enabled
        BY <3>1 DEF Grounded, Powered
      <4> QED BY <1>6, <1>11, <2>3, <3>1, <4>1, <4>2
              DEF Achieved, Earned, Wants, OK, Typed
    <3>2. CASE c.transition # "Connect"
      BY <1>6, <1>14, <2>3, <3>2 DEF Achieved
    <3> QED BY <3>1, <3>2
  <2>6. Standing(u, dead)
    BY <1>6, <1>10, <2>1, <2>4, <2>5 DEF Standing, Grounded
  <2>7. CASE c.transition = "Connect" /\ status \notin {"Ok", "Cancelled"}
    <3>1. u.desired = "Connected"
      BY <1>6, <1>14, <2>7
    <3>2. /\ Standing(x, dead) /\ Steady(u, x)
          /\ Charged(u, x, status, f)
      BY <1>6, <1>8, <2>6, <2>7, <3>1, ConnectionFailedStands DEF Standing
    <3> QED BY <1>6, <1>9, <1>14, <2>7, <3>2 DEF Steady, Charged
  <2>8. CASE ~(c.transition = "Connect" /\ status \notin {"Ok", "Cancelled"})
    BY <1>6, <1>9, <1>14, <2>6, <2>8
  <2> QED BY <2>7, <2>8
<1>15. PICK d : d = scheduleTimeouts(scheduleWork(changed(v, "station")))
  OBVIOUS
<1>16. OK(d) /\ Alike(v, d)
  BY <1>15, AnnounceAlike, ConstantNames, <1>13, <1>14
<1>17. Standing(d, dead) /\ Steady(v, d)
  BY <1>13, <1>14, <1>16, AlikeStands
<1> QED BY <1>9, <1>13, <1>14, <1>15, <1>16, <1>17 DEF Alike

(* What a link report, which only a working adapter makes, leaves behind:  *)
(* an address is timed only on a link that was up.                         *)
Reported(c, d, dead) ==
  /\ Standing(d, dead)
  /\ d.desired = c.desired /\ d.enabled = c.enabled
  /\ d.initialized = c.initialized /\ d.transition = c.transition
  /\ "address" \in d.armed => c.link.phase # "Idle"

(* A link with its address ends what waited for it, for the intent that    *)
(* wants it.                                                               *)
LEMMA EstablishedStands ==
  ASSUME NEW c, OK(c), Sound(c), NEW dead, ~dead, Standing(c, dead),
         NEW link \in [id : Nat, phase : LinkPhase],
         Plausible(c, link), link.phase = "AddressReady"
  PROVE  Reported(c, Established(c, link), dead)
<1>1. PICK up : up = [c EXCEPT
        !.link = link,
        !.armed = (@ \ {"address"}) \cup
                  {d \in {"stable"} : c.link.phase # "AddressReady"}]
  OBVIOUS
<1>2. OK(up)
  <2>1. Shape(up)
    BY <1>1 DEF OK, Shape
  <2>2. Typed(up)
    BY <1>1 DEF OK, Shape, Typed, Fields
  <2> QED BY <2>1, <2>2 DEF OK
<1>3. /\ up.link = link /\ "address" \notin up.armed
      /\ KeptStation(c, up) /\ KeptScan(c, up) /\ up.enabled = c.enabled
      /\ up.desired = c.desired /\ up.restore = c.restore
      /\ up.revision = c.revision /\ up.attempted = c.attempted
      /\ up.initialized = c.initialized /\ up.status = c.status
      /\ up.failure = c.failure
      /\ up.station_timed_out = c.station_timed_out
  BY <1>1 DEF OK, Shape, Fields
<1>4. c.link.phase # "Idle" /\ c.initialized
  BY DEF Plausible, Sound, Rooted
<1>5. Apart(up) /\ Heeded(up) /\ (Untroubled => Powered(up))
  BY <1>3, <1>4 DEF Standing, Grounded, Apart, Heeded, Powered
<1>6. Intended(up) /\ Underway(up)
  BY <1>3 DEF Standing, Grounded, Intended, Underway
<1>7. Achieved(up)
  BY <1>3, <1>4 DEF Standing, Achieved, Wants
<1>8. Reported(c, up, dead)
  BY <1>3, <1>5, <1>6, <1>7 DEF Reported, Standing, Grounded
<1>9. PICK q : q = cancelRetry(up)
  OBVIOUS
<1>10. OK(q) /\ Alike(up, q) /\ q.attempted = up.attempted
  BY <1>2, <1>9, ScheduledAlike DEF Alike
<1>11. PICK v : v = [q EXCEPT !.attempted = c.revision, !.status = "Ok"]
  OBVIOUS
<1>12. /\ v.attempted = c.revision /\ v.link = q.link /\ v.armed = q.armed
       /\ v.transition = q.transition /\ v.cancelling = q.cancelling
       /\ v.scan = q.scan /\ v.enabled = q.enabled /\ v.desired = q.desired
       /\ v.restore = q.restore /\ v.revision = q.revision
       /\ v.initialized = q.initialized /\ v.failure = q.failure
       /\ v.station_timed_out = q.station_timed_out
  BY <1>10, <1>11 DEF OK, Shape, Fields
<1>13. Established(c, link) = up
       \/ /\ Established(c, link) = v
          /\ c.transition = "None"
          /\ c.pending \/ c.failure = "AddressTimeout"
  BY <1>1, <1>9, <1>11 DEF Established
<1>14. CASE c.transition = "None" /\ (c.pending \/ c.failure = "AddressTimeout")
  <2>1. c.desired = "Connected"
    BY <1>14 DEF Sound, RetryTold, Standing, Grounded, Heeded
  <2>2. Apart(v) /\ Heeded(v) /\ (Untroubled => Powered(v))
    BY <1>3, <1>4, <1>5, <1>10, <1>12, <2>1
    DEF Alike, Apart, Heeded, Powered
  <2>3. Intended(v) /\ Underway(v)
    BY <1>3, <1>6, <1>10, <1>12, <1>14, <2>1, c.revision \in Nat
    DEF Alike, Intended, Underway, OK, Typed
  <2>4. Achieved(v)
    <3>1. Untroubled => v.enabled
      BY <1>3, <1>5, <1>4, <1>10, <1>12 DEF Alike, Powered, Standing, Grounded
    <3>2. v.enabled \in BOOLEAN
      BY <1>3, <1>10, <1>12 DEF Alike, OK, Typed
    <3> QED BY <1>3, <1>6, <1>10, <1>12, <2>1, <2>3, <3>1, <3>2
            DEF Alike, Achieved, Wants, Intended
  <2>5. Reported(c, v, dead)
    BY <1>3, <1>10, <1>12, <2>2, <2>3, <2>4
    DEF Alike, Reported, Standing, Grounded
  <2> QED BY <1>8, <1>13, <2>5
<1>15. CASE ~(/\ c.transition = "None"
              /\ c.pending \/ c.failure = "AddressTimeout")
  BY <1>8, <1>13, <1>15
<1> QED BY <1>14, <1>15

(* A link that loses its address gets a deadline to get it back; a link    *)
(* starts for a connect that is under way.                                 *)
LEMMA DegradedStands ==
  ASSUME NEW c, OK(c), Sound(c), NEW dead, ~dead, Standing(c, dead),
         NEW link \in [id : Nat, phase : LinkPhase], Plausible(c, link),
         link.phase \notin {"Idle", "AddressReady"},
         link.phase = "Connecting" => c.link.phase = "Idle"
  PROVE  Reported(c, Degraded(c, link), dead)
<1>1. PICK loses \in BOOLEAN :
        loses = (/\ c.link.phase = "AddressReady"
                 /\ link.phase = "Associated"
                 /\ c.transition = "None")
  OBVIOUS
<1>2. PICK d : d = [c EXCEPT !.link = link,
                             !.armed = (@ \ {"stable"}) \cup
                                       {x \in {"address"} : loses}]
  OBVIOUS
<1>3. /\ d.link = link /\ KeptStation(c, d) /\ KeptScan(c, d)
      /\ "address" \in d.armed <=> "address" \in c.armed \/ loses
      /\ d.enabled = c.enabled /\ d.status = c.status
      /\ d.desired = c.desired /\ d.restore = c.restore
      /\ d.revision = c.revision /\ d.attempted = c.attempted
      /\ d.initialized = c.initialized /\ d.failure = c.failure
      /\ d.station_timed_out = c.station_timed_out
  BY <1>2 DEF OK, Shape, Fields
<1>4. Degraded(c, link) = d
  BY <1>1, <1>2 DEF Degraded
<1>5. c.link.phase = "Idle" =>
        c.transition = "Connect" /\ c.attempted # c.revision
  BY DEF Plausible, Standing, Underway
<1>6. Apart(d) /\ Heeded(d) /\ (Untroubled => Powered(d))
  BY <1>3, <1>5 DEF Standing, Grounded, Apart, Heeded, Powered
<1>7. Intended(d) /\ Underway(d)
  BY <1>3 DEF Standing, Grounded, Intended, Underway
<1>8. Achieved(d)
  <2>1. link.phase = "Associated" \/ c.link.phase = "Idle"
    BY DEF LinkPhase
  <2> QED BY <1>1, <1>3, <1>5, <2>1
          DEF Standing, Achieved, Underway, Wants
<1>9. "address" \in d.armed => c.link.phase # "Idle"
  BY <1>1, <1>3 DEF Sound, LinkTimed
<1> QED BY <1>3, <1>4, <1>6, <1>7, <1>8, <1>9
        DEF Reported, Standing, Grounded

(* A wanted link that is lost is an error. *)
LEMMA LostStands ==
  ASSUME NEW c, OK(c), NEW dead, ~dead, Standing(c, dead),
         NEW link \in [id : Nat, phase : LinkPhase],
         link.phase = "Idle", NEW reason \in Status,
         NEW failure \in ConnectionFailure
  PROVE  Reported(c, Lost(c, link, reason, failure), dead)
<1>1. PICK down : down = [c EXCEPT !.link = link, !.armed = {},
                                   !.connected = NoNetwork]
  OBVIOUS
<1>2. OK(down)
  <2>1. Shape(down)
    BY <1>1 DEF OK, Shape
  <2>2. Typed(down)
    BY <1>1, NamesTyped DEF OK, Shape, Typed, Fields
  <2> QED BY <2>1, <2>2 DEF OK
<1>3. /\ down.link = link /\ down.armed = {}
      /\ KeptStation(c, down) /\ KeptScan(c, down)
      /\ down.enabled = c.enabled /\ down.status = c.status
      /\ down.desired = c.desired /\ down.restore = c.restore
      /\ down.revision = c.revision /\ down.attempted = c.attempted
      /\ down.initialized = c.initialized /\ down.failure = c.failure
      /\ down.station_timed_out = c.station_timed_out
  BY <1>1 DEF OK, Shape, Fields
<1>4. Apart(down) /\ Heeded(down) /\ (Untroubled => Powered(down))
  BY <1>3 DEF Standing, Grounded, Apart, Heeded, Powered
<1>5. Intended(down) /\ Underway(down)
  BY <1>3 DEF Standing, Grounded, Intended, Underway
<1>6. PICK st \in Status :
        st = IF reason = "Ok" THEN "ConnectionFailed" ELSE reason
  BY NamesTyped
<1>7. PICK f : f = connectionFailed(down, st, failure)
  OBVIOUS
<1>8. CASE /\ c.transition = "None" /\ c.link.phase # "Idle"
           /\ c.desired = "Connected"
  <2>1. Lost(c, link, reason, failure) = f
    BY <1>1, <1>6, <1>7, <1>8 DEF Lost
  <2>2. /\ Standing(f, dead) /\ Charged(down, f, st, failure)
    BY <1>2, <1>3, <1>4, <1>5, <1>6, <1>7, <1>8, ConnectionFailedStands
    DEF Grounded
  <2> QED BY <1>3, <2>1, <2>2 DEF Reported, Charged
<1>9. CASE ~(/\ c.transition = "None" /\ c.link.phase # "Idle"
             /\ c.desired = "Connected")
  <2>1. Lost(c, link, reason, failure) = down
    BY <1>1, <1>9 DEF Lost
  <2>2. Achieved(down)
    BY <1>3, <1>9 DEF Standing, Achieved, Underway, Wants
  <2> QED BY <1>3, <1>4, <1>5, <2>1, <2>2 DEF Reported, Standing, Grounded
<1> QED BY <1>8, <1>9

(* A link report in the order of the contract upholds everything. *)
LEMMA OnLinkChangedStands ==
  ASSUME NEW c, OK(c), Sound(c), NEW dead, ~dead, Standing(c, dead),
         NEW link \in [id : Nat, phase : LinkPhase], Plausible(c, link),
         link.phase = "Connecting" => c.link.phase = "Idle",
         NEW reason \in Status, NEW failure \in ConnectionFailure
  PROVE  Reported(c, onLinkChanged(c, link, reason, failure), dead)
<1>1. PICK e : e = CASE link.phase = "AddressReady" -> Established(c, link)
                     [] link.phase = "Idle" -> Lost(c, link, reason, failure)
                     [] OTHER -> Degraded(c, link)
  OBVIOUS
<1>2. Reported(c, e, dead) /\ OK(e)
  <2>1. CASE link.phase = "AddressReady"
    BY <1>1, <2>1, EstablishedStands, EstablishedReacts DEF Reacted
  <2>2. CASE link.phase = "Idle"
    BY <1>1, <2>2, LostStands, LostReacts DEF Reacted
  <2>3. CASE link.phase \notin {"Idle", "AddressReady"}
    BY <1>1, <2>3, DegradedStands, DegradedReacts DEF Reacted
  <2> QED BY <2>1, <2>2, <2>3
<1>3. PICK f : f = changed(e, "station")
  OBVIOUS
<1>4. PICK g : g = scheduleTimeouts(f)
  OBVIOUS
<1>5. Alike(e, g)
  BY <1>2, <1>3, <1>4, ChangedAlike, ScheduledAlike, AlikeAgain,
     ConstantNames
<1>6. Standing(g, dead)
  BY <1>2, <1>5, AlikeStands DEF Reported
<1>7. Reported(c, g, dead)
  BY <1>2, <1>5, <1>6 DEF Reported, Alike
<1>8. Reported(c, c, dead)
  BY DEF Reported, Sound, LinkTimed
<1>9. onLinkChanged(c, link, reason, failure) \in {c, g}
  BY <1>1, <1>3, <1>4 DEF onLinkChanged
<1> QED BY <1>7, <1>8, <1>9

(* Submitting a station command for an intent that waits for it; a faulted *)
(* adapter rejects it at once.                                             *)
LEMMA StartTransitionStands ==
  ASSUME NEW c, OK(c), NEW dead \in BOOLEAN, Standing(c, dead),
         c.running, ~c.faulted, c.next_id # 0,
         NEW kind \in {"Enable", "Connect", "Disconnect"},
         NEW answer \in Status, answer = "Ok" <=> ~dead,
         c.transition = "None", c.scan = "Idle", ~superseded(c),
         ~c.station_timed_out, needsStation(c),
         kind # "Disconnect" => c.link.phase = "Idle",
         kind = "Connect" =>
           c.desired = "Connected" /\ c.initialized /\ c.enabled
  PROVE  LET d == startTransition(c, kind, answer)
         IN  Standing(d, dead) /\ Steady(c, d)
<1>1. PICK wants \in BOOLEAN : wants = Wants(c)
  BY DEF Wants
<1>2. PICK e : e = [c EXCEPT !.transition = kind,
                             !.transition_enabled =
                               IF kind = "Enable" THEN wants ELSE @,
                             !.station_id = c.next_id, !.next_id = @ + 1]
  OBVIOUS
<1>3. OK(e)
  <2>1. Shape(e)
    BY <1>2 DEF OK, Shape
  <2>2. Typed(e)
    BY <1>2, NamesTyped DEF OK, Shape, Typed, Fields
  <2> QED BY <2>1, <2>2 DEF OK
<1>4. /\ e.transition = kind /\ e.station_id = c.next_id
      /\ e.running = c.running /\ e.faulted = c.faulted
      /\ e.scan_id = c.scan_id /\ KeptLink(c, e) /\ e.scan = c.scan
      /\ e.cancelling = c.cancelling
      /\ e.desired = c.desired /\ e.restore = c.restore
      /\ e.revision = c.revision /\ e.attempted = c.attempted
      /\ e.active = c.active /\ e.initialized = c.initialized
      /\ e.status = c.status /\ e.failure = c.failure
      /\ e.armed = c.armed /\ e.station_timed_out = c.station_timed_out
  BY <1>2 DEF OK, Shape, Fields
<1>5. Apart(e) /\ Intended(e) /\ (~dead => Heeded(e))
  BY <1>4 DEF Standing, Grounded, Apart, Intended, Heeded
<1>6. Untroubled => Powered(e)
  BY <1>4 DEF Standing, Grounded, Powered
<1>7. Achieved(e)
  BY <1>4 DEF Standing, Achieved, Wants
<1>8. Grounded(e, dead)
  BY <1>5, <1>6 DEF Grounded
<1>9. PICK f : f = changed(e, "station")
  OBVIOUS
<1>10. OK(f) /\ Alike(e, f) /\ Same(e, f)
  BY <1>3, <1>9, ChangedAlike, ChangedSame, ConstantNames
<1>11. CASE ~dead
  <2>1. startTransition(c, kind, answer) = f
    BY <1>1, <1>2, <1>9, <1>11 DEF startTransition
  <2>2. c.attempted # c.revision
    BY <1>11 DEF Standing, Grounded, Heeded, needsStation
  <2>3. Standing(e, dead)
    BY <1>4, <1>7, <1>8, <2>2 DEF Standing, Underway
  <2>4. Standing(f, dead) /\ Steady(e, f)
    BY <1>10, <2>3, AlikeStands
  <2> QED BY <1>4, <2>1, <2>4 DEF Steady
<1>12. CASE dead
  <2>1. startTransition(c, kind, answer)
          = onOperationFinished(f, c.next_id, kind, answer, "None", "Ok")
    BY <1>1, <1>2, <1>9, <1>12 DEF startTransition
  <2>2. onOperationFinished(f, c.next_id, kind, answer, "None", "Ok")
          = stationFinished(f, answer, "None", "Ok")
    BY <1>4, <1>10 DEF onOperationFinished, Same
  <2>3. Grounded(f, dead) /\ Achieved(f)
    <3>1. Apart(f) /\ Intended(f) /\ (Untroubled => Powered(f))
      BY <1>5, <1>6, <1>10 DEF Alike, Apart, Intended, Powered
    <3>2. Achieved(f)
      BY <1>7, <1>10 DEF Alike, Achieved, Wants
    <3> QED BY <1>12, <3>1, <3>2 DEF Grounded
  <2>4. /\ f.transition = kind /\ f.initialized = c.initialized
        /\ f.desired = c.desired /\ ~superseded(f)
        /\ f.transition # "None"
        /\ f.transition = "Connect" => f.initialized
        /\ f.transition = "Connect" /\ ~superseded(f) =>
             f.desired = "Connected"
        /\ answer # "Ok"
    BY <1>4, <1>10, <1>12 DEF Same, superseded
  <2>5. Earned(f, answer, dead)
    BY <1>12 DEF Earned
  <2>6. PICK d : d = stationFinished(f, answer, "None", "Ok")
    OBVIOUS
  <2>7. /\ Standing(d, dead)
        /\ "address" \in d.armed => "address" \in f.armed
        /\ d.desired = f.desired /\ d.enabled = f.enabled
        /\ d.initialized <=> f.initialized \/ WritesEnabled(f, answer)
    BY <1>10, <2>3, <2>4, <2>5, <2>6, StationFinishedStands, ConstantNames
  <2>8. ~WritesEnabled(f, answer)
    BY <1>12 DEF WritesEnabled, StationStatus
  <2>9. OK(d)
    BY <1>10, <2>6, StationFinishedSettles, ConstantNames
  <2>10. d.initialized = c.initialized
    BY <2>4, <2>7, <2>8, <2>9 DEF OK, Typed
  <2>11. Steady(c, d)
    BY <1>4, <1>10, <2>7, <2>10 DEF Steady, Alike
  <2> QED BY <2>1, <2>2, <2>6, <2>7, <2>11
<1> QED BY <1>11, <1>12

(* advance() starts a command, or the intent has what it wanted: with      *)
(* nothing to restore it is settled.                                       *)
LEMMA AdvanceStands ==
  ASSUME NEW c, OK(c), Sound(c), NEW dead \in BOOLEAN, Standing(c, dead),
         c.running, ~c.faulted, c.next_id # 0,
         NEW answer \in Status, answer = "Ok" <=> ~dead,
         c.transition = "None", ~c.pending, c.scan = "Idle",
         needsStation(c), ~Restores(c)
  PROVE  LET d == advance(c, answer)
         IN  Standing(d, dead) /\ Steady(c, d)
<1>1. PICK e : e = [c EXCEPT !.active = c.revision,
                             !.station_timed_out = FALSE]
  OBVIOUS
<1>2. OK(e)
  <2>1. Shape(e)
    BY <1>1 DEF OK, Shape
  <2>2. Typed(e)
    BY <1>1, NamesTyped DEF OK, Shape, Typed, Fields
  <2> QED BY <2>1, <2>2 DEF OK
<1>3. /\ e.active = e.revision /\ e.station_timed_out = FALSE
      /\ KeptLife(c, e) /\ KeptStation(c, e) /\ e.scan = c.scan
      /\ Alike(c, e)
  BY <1>1 DEF OK, Shape, Fields, Alike
<1>4. Standing(e, dead) /\ Steady(c, e)
  BY <1>3, AlikeStands
<1>5. ASSUME NEW kind \in {"Enable", "Connect", "Disconnect"},
             advance(c, answer) = startTransition(e, kind, answer),
             kind # "Disconnect" => c.link.phase = "Idle",
             kind = "Connect" =>
               c.desired = "Connected" /\ c.initialized /\ c.enabled
      PROVE  LET d == advance(c, answer)
             IN  Standing(d, dead) /\ Steady(c, d)
  <2>1. ~superseded(e) /\ needsStation(e) /\ ~e.station_timed_out
    BY <1>3 DEF superseded, needsStation, Alike
  <2>2. PICK d : d = startTransition(e, kind, answer)
    OBVIOUS
  <2>3. Standing(d, dead) /\ Steady(e, d)
    BY <1>2, <1>3, <1>4, <1>5, <2>1, <2>2, StartTransitionStands DEF Alike
  <2> QED BY <1>3, <1>4, <1>5, <2>2, <2>3 DEF Steady
<1>6. CASE c.link.phase # "Idle"
  BY <1>1, <1>5, <1>6 DEF advance
<1>7. CASE c.link.phase = "Idle" /\ (~c.initialized \/ c.enabled # Wants(c))
  BY <1>1, <1>5, <1>7 DEF advance
<1>8. CASE /\ c.link.phase = "Idle" /\ c.initialized
           /\ c.enabled = Wants(c) /\ c.desired = "Connected"
  BY <1>1, <1>5, <1>8 DEF advance, Wants
<1>9. CASE /\ c.link.phase = "Idle" /\ c.initialized
           /\ c.enabled = Wants(c) /\ c.desired # "Connected"
  <2>1. ~c.restore
    BY <1>9 DEF Restores
  <2>2. PICK f : f = [e EXCEPT !.attempted = c.revision]
    OBVIOUS
  <2>3. OK(f)
    <3>1. Shape(f)
      BY <1>2, <2>2 DEF OK, Shape
    <3>2. Typed(f)
      BY <1>2, <1>3, <2>2 DEF OK, Shape, Typed, Fields, Alike
    <3> QED BY <3>1, <3>2 DEF OK
  <2>4. /\ f.attempted = c.revision /\ KeptLink(e, f) /\ KeptStation(e, f)
        /\ f.scan = e.scan /\ f.desired = e.desired
        /\ f.restore = e.restore /\ f.revision = e.revision
        /\ f.initialized = e.initialized /\ f.status = e.status
        /\ f.failure = e.failure /\ f.armed = e.armed
        /\ f.station_timed_out = e.station_timed_out
    BY <1>2, <2>2 DEF OK, Shape, Fields
  <2>5. Apart(f) /\ Intended(f) /\ Underway(f)
    <3>1. c.revision \in Nat
      BY DEF OK, Typed
    <3> QED BY <1>3, <1>4, <2>4, <3>1
            DEF Standing, Grounded, Apart, Intended, Underway, Alike
  <2>6. (~dead => Heeded(f)) /\ (Untroubled => Powered(f))
    BY <1>3, <1>4, <1>9, <2>4
    DEF Standing, Grounded, Heeded, Powered, Alike
  <2>7. Achieved(f)
    BY <1>3, <1>9, <2>1, <2>4 DEF Achieved, Alike, Wants
  <2>8. Standing(f, dead) /\ Steady(e, f)
    BY <2>4, <2>5, <2>6, <2>7 DEF Standing, Grounded, Steady
  <2>9. PICK g : g = changed(f, "station")
    OBVIOUS
  <2>10. Alike(f, g)
    BY <2>3, <2>9, ChangedAlike, ConstantNames
  <2>11. Standing(g, dead) /\ Steady(f, g)
    BY <2>8, <2>10, AlikeStands
  <2>12. advance(c, answer) = g
    BY <1>1, <1>9, <2>2, <2>9 DEF advance
  <2> QED BY <1>4, <2>8, <2>11, <2>12 DEF Steady
<1> QED BY <1>6, <1>7, <1>8, <1>9 DEF OK, Typed

(* Starting the queued scan only touches the scan. *)
LEMMA StartScanningAlike ==
  ASSUME NEW c, OK(c), c.running, ~c.faulted, c.next_id # 0,
         NEW answer \in Status, c.scan = "Queued"
  PROVE  Alike(c, startScanning(c, answer))
<1>1. PICK e : e = [c EXCEPT !.scan = "Running", !.scan_id = c.next_id,
                             !.next_id = @ + 1]
  OBVIOUS
<1>2. OK(e)
  <2>1. Shape(e)
    BY <1>1 DEF OK, Shape
  <2>2. Typed(e)
    BY <1>1, NamesTyped DEF OK, Shape, Typed, Fields
  <2> QED BY <2>1, <2>2 DEF OK
<1>3. /\ Alike(c, e) /\ e.running = c.running /\ e.faulted = c.faulted
      /\ e.scan_id = c.next_id
  BY <1>1 DEF OK, Shape, Fields, Alike
<1>4. PICK f : f = changed(e, "scan")
  OBVIOUS
<1>5. OK(f) /\ Alike(c, f) /\ Same(e, f)
  BY <1>2, <1>3, <1>4, ChangedAlike, ChangedSame, AlikeAgain, ConstantNames
<1>6. CASE answer = "Ok"
  <2>1. startScanning(c, answer) = f
    BY <1>1, <1>4, <1>6 DEF startScanning
  <2> QED BY <1>5, <2>1
<1>7. CASE answer # "Ok"
  <2>1. startScanning(c, answer)
          = onOperationFinished(f, c.next_id, "Scan", answer, "None", "Ok")
    BY <1>1, <1>4, <1>7 DEF startScanning
  <2>2. onOperationFinished(f, c.next_id, "Scan", answer, "None", "Ok")
          = scanFinished(f, answer, "Ok")
    BY <1>3, <1>5 DEF onOperationFinished, Same
  <2>3. Alike(f, scanFinished(f, answer, "Ok"))
    BY <1>5, ScanFinishedAlike, ConstantNames
  <2> QED BY <1>5, <2>1, <2>2, <2>3, AlikeAgain
<1> QED BY <1>6, <1>7

(* Restoring the last profile ends the restoration, at worst with an error *)
(* that is shown, and may replace the intent.                              *)
LEMMA RestoreProfileStands ==
  ASSUME NEW c, OK(c), NEW dead, Standing(c, dead),
         NEW last \in Ssid, NEW status \in Status, NEW automatic \in BOOLEAN
  PROVE  LET d == restoreProfile(c, last, status, automatic)
         IN  Standing(d, dead) /\ Steady(c, d)
<1>1. PICK d : d = [c EXCEPT !.active = c.revision,
                             !.station_timed_out = FALSE, !.restore = FALSE]
  OBVIOUS
<1>2. OK(d)
  <2>1. Shape(d)
    BY <1>1 DEF OK, Shape
  <2>2. Typed(d)
    BY <1>1 DEF OK, Shape, Typed, Fields
  <2> QED BY <2>1, <2>2 DEF OK
<1>3. Alike(c, d)
  BY <1>1 DEF OK, Shape, Fields, Alike
<1>4. Standing(d, dead) /\ Steady(c, d)
  BY <1>3, AlikeStands
<1>5. PICK outcome \in Status :
        outcome = IF status = "Ok" /\ automatic THEN requestStatus(d)
                                                ELSE status
  BY NamesTyped DEF requestStatus, admission
<1>6. PICK q : q = requestConnection(d, last, last, TRUE)
  OBVIOUS
<1>7. Standing(q, dead) /\ Steady(d, q)
  BY <1>2, <1>4, <1>6, RequestConnectionStands
<1>8. PICK e : e = [d EXCEPT !.status = outcome]
  OBVIOUS
<1>9. OK(e)
  <2>1. Shape(e)
    BY <1>2, <1>8 DEF OK, Shape
  <2>2. Typed(e)
    BY <1>2, <1>8 DEF OK, Shape, Typed, Fields
  <2> QED BY <2>1, <2>2 DEF OK
<1>10. outcome # "Ok" => Alike(d, e)
  BY <1>2, <1>8 DEF OK, Shape, Fields, Alike
<1>11. PICK f : f = changed(e, "station")
  OBVIOUS
<1>12. Alike(e, f)
  BY <1>9, <1>11, ChangedAlike, ConstantNames
<1>13. CASE outcome = "Ok"
  <2>1. restoreProfile(c, last, status, automatic) \in {d, q}
    BY <1>1, <1>5, <1>6, <1>13 DEF restoreProfile
  <2> QED BY <1>4, <1>7, <2>1 DEF Steady
<1>14. CASE outcome # "Ok"
  <2>1. restoreProfile(c, last, status, automatic) = f
    BY <1>1, <1>5, <1>8, <1>11, <1>14 DEF restoreProfile
  <2>2. Standing(f, dead) /\ Steady(c, f)
    BY <1>3, <1>10, <1>12, <1>14, AlikeAgain, AlikeStands
  <2> QED BY <2>1, <2>2
<1> QED BY <1>13, <1>14

(* A fault upholds everything, as it ends every promise. *)
LEMMA FaultUpholds ==
  ASSUME NEW c, NEW d, NEW dead, OK(c), NEW status \in Status
  PROVE  Upheld(d, fault(c, status), dead)
BY FaultSettles DEF Upheld

(* An expired station deadline cancels a connect; any other command's is a *)
(* fault.                                                                  *)
LEMMA StationExpiredUpholds ==
  ASSUME NEW c, OK(c), ~c.faulted, NEW dead, Standing(c, dead),
         NEW answer
  PROVE  Upheld(c, stationExpired(c, answer), dead)
<1>1. PICK t : t = [c EXCEPT !.station_timed_out = TRUE,
                             !.timeout_failure =
                               IF c.link.phase = "Associated"
                               THEN "AddressTimeout" ELSE "ConnectionTimeout"]
  OBVIOUS
<1>2. OK(t)
  <2>1. Shape(t)
    BY <1>1 DEF OK, Shape
  <2>2. Typed(t)
    BY <1>1, NamesTyped DEF OK, Shape, Typed, Fields
  <2> QED BY <2>1, <2>2 DEF OK
<1>3. PICK u : u = [t EXCEPT !.cancelling = TRUE]
  OBVIOUS
<1>4. OK(u)
  <2>1. Shape(u)
    BY <1>2, <1>3 DEF OK, Shape
  <2>2. Typed(u)
    BY <1>2, <1>3 DEF OK, Shape, Typed, Fields
  <2> QED BY <2>1, <2>2 DEF OK
<1>5. /\ u.transition = c.transition /\ KeptLink(c, u) /\ u.scan = c.scan
      /\ u.desired = c.desired /\ u.restore = c.restore
      /\ u.revision = c.revision /\ u.attempted = c.attempted
      /\ u.initialized = c.initialized /\ u.status = c.status
      /\ u.failure = c.failure /\ u.armed = c.armed
  BY <1>1, <1>2, <1>3 DEF OK, Shape, Fields
<1>6. CASE c.transition = "Connect" /\ ~c.cancelling /\ answer = "Ok"
  <2>1. Apart(u)
    BY <1>5, <1>6 DEF Standing, Grounded, Apart
  <2>2. Intended(u) /\ Underway(u) /\ (~dead => Heeded(u))
    BY <1>5 DEF Standing, Grounded, Intended, Underway, Heeded
  <2>3. Achieved(u) /\ (Untroubled => Powered(u))
    BY <1>5 DEF Standing, Grounded, Achieved, Powered, Wants
  <2>4. Standing(u, dead) /\ Steady(c, u)
    BY <1>5, <2>1, <2>2, <2>3 DEF Standing, Grounded, Steady
  <2>5. PICK v : v = changed(u, "station")
    OBVIOUS
  <2>6. OK(v) /\ Alike(u, v)
    BY <1>4, <2>5, ChangedAlike, ConstantNames
  <2>7. Standing(v, dead) /\ Steady(u, v)
    BY <2>4, <2>6, AlikeStands
  <2>8. stationExpired(c, answer) = v
    BY <1>1, <1>3, <1>6, <2>5 DEF stationExpired
  <2> QED BY <2>4, <2>6, <2>7, <2>8 DEF Upheld, Steady
<1>7. CASE ~(c.transition = "Connect" /\ ~c.cancelling /\ answer = "Ok")
  <2>1. stationExpired(c, answer) \in {fault(c, "Timeout"),
                                       fault(t, "Timeout")}
    BY <1>1, <1>7 DEF stationExpired
  <2> QED BY <1>2, <2>1, FaultUpholds, ConstantNames
<1> QED BY <1>6, <1>7

(* An expired scan deadline cancels the scan or is a fault. *)
LEMMA ScanExpiredUpholds ==
  ASSUME NEW c, OK(c), NEW dead, Standing(c, dead), NEW answer
  PROVE  Upheld(c, scanExpired(c, answer), dead)
<1>1. PICK t : t = [c EXCEPT !.scan_timed_out = TRUE]
  OBVIOUS
<1>2. OK(t)
  <2>1. Shape(t)
    BY <1>1 DEF OK, Shape
  <2>2. Typed(t)
    BY <1>1 DEF OK, Shape, Typed, Fields
  <2> QED BY <2>1, <2>2 DEF OK
<1>3. Alike(c, t)
  BY <1>1 DEF OK, Shape, Fields, Alike
<1>4. PICK w : w = cancelScan(t, answer)
  OBVIOUS
<1>5. OK(w) /\ Alike(c, w)
  BY <1>2, <1>3, <1>4, CancelScanAlike, AlikeAgain
<1>6. Upheld(c, w, dead)
  BY <1>5, AlikeStands DEF Upheld
<1>7. scanExpired(c, answer) \in {fault(c, "Timeout"), fault(t, "Timeout"), w}
  BY <1>1, <1>4 DEF scanExpired
<1> QED BY <1>2, <1>6, <1>7, FaultUpholds, ConstantNames

(* The timer task upholds everything if a link that is not wanted does not *)
(* get to wait for an address.                                             *)
LEMMA CheckTimeoutsUpholds ==
  ASSUME NEW c, OK(c), c.running, ~c.faulted, NEW dead, Standing(c, dead),
         NEW expired, NEW answer,
         "address" \in expired /\ ~dead => c.desired = "Connected"
  PROVE  Upheld(c, checkTimeouts(c, expired, answer), dead)
<1>1. PICK b : b = [c EXCEPT !.armed = @ \ {"stable"}, !.pending = FALSE,
                             !.failure = "None", !.level = 0]
  OBVIOUS
<1>2. OK(b) /\ ~b.faulted
  <2>1. Shape(b)
    BY <1>1 DEF OK, Shape
  <2>2. Typed(b)
    BY <1>1, NamesTyped DEF OK, Shape, Typed, Fields
  <2>3. b.faulted = c.faulted
    BY <1>1 DEF OK, Shape, Fields
  <2> QED BY <2>1, <2>2, <2>3 DEF OK
<1>3. Alike(c, b)
  BY <1>1 DEF OK, Shape, Fields, Alike
<1>4. PICK s : s = IF "stable" \in expired THEN changed(b, "station") ELSE c
  OBVIOUS
<1>5. OK(s) /\ Alike(c, s) /\ ~s.faulted
  <2>1. CASE "stable" \in expired
    <3>1. OK(s) /\ Alike(b, s) /\ Same(b, s)
      BY <1>2, <1>4, <2>1, ChangedAlike, ChangedSame, ConstantNames
    <3> QED BY <1>2, <1>3, <3>1, AlikeAgain DEF Same
  <2>2. CASE "stable" \notin expired
    BY <1>4, <2>2 DEF Alike
  <2> QED BY <2>1, <2>2
<1>6. Standing(s, dead) /\ Steady(c, s)
  BY <1>5, AlikeStands
<1>7. PICK f : f = connectionFailed(s, "Timeout", "AddressTimeout")
  OBVIOUS
<1>8. PICK a : a = IF "address" \in expired THEN changed(f, "station") ELSE s
  OBVIOUS
<1>9. Upheld(c, a, dead) /\ ~a.faulted
  <2>1. CASE "address" \in expired
    <3>1. ~dead => s.desired = "Connected"
      BY <1>5, <2>1 DEF Alike
    <3>2. /\ Standing(f, dead) /\ Steady(s, f)
          /\ Charged(s, f, "Timeout", "AddressTimeout")
      BY <1>5, <1>6, <1>7, <3>1, ConnectionFailedStands, ConstantNames
      DEF Standing
    <3>3. OK(f) /\ ~f.faulted
      BY <1>5, <3>2 DEF Charged
    <3>4. OK(a) /\ Alike(f, a) /\ Same(f, a)
      BY <1>8, <2>1, <3>3, ChangedAlike, ChangedSame, ConstantNames
    <3>5. Standing(a, dead) /\ Steady(f, a)
      BY <3>2, <3>4, AlikeStands
    <3> QED BY <1>6, <3>2, <3>3, <3>4, <3>5 DEF Upheld, Steady, Same
  <2>2. CASE "address" \notin expired
    BY <1>5, <1>6, <1>8, <2>2 DEF Upheld
  <2> QED BY <2>1, <2>2
<1>10. PICK t : t = IF "station" \in expired THEN stationExpired(a, answer)
                                             ELSE a
  OBVIOUS
<1>11. Upheld(c, t, dead)
  <2>1. CASE "station" \in expired
    <3>1. Upheld(a, t, dead)
      BY <1>9, <1>10, <2>1, StationExpiredUpholds DEF Upheld
    <3> QED BY <1>9, <3>1, UpheldAgain
  <2>2. CASE "station" \notin expired
    BY <1>9, <1>10, <2>2
  <2> QED BY <2>1, <2>2
<1>12. PICK w : w = IF "scan" \in expired /\ ~t.faulted
                    THEN scanExpired(t, answer) ELSE t
  OBVIOUS
<1>13. Upheld(c, w, dead)
  <2>1. CASE "scan" \in expired /\ ~t.faulted
    <3>1. Upheld(t, w, dead)
      BY <1>11, <1>12, <2>1, ScanExpiredUpholds DEF Upheld
    <3> QED BY <1>11, <2>1, <3>1, UpheldAgain
  <2>2. CASE ~("scan" \in expired /\ ~t.faulted)
    BY <1>11, <1>12, <2>2
  <2> QED BY <2>1, <2>2
<1>14. checkTimeouts(c, expired, answer)
         = IF w.faulted THEN w ELSE scheduleTimeouts(w)
  BY <1>1, <1>4, <1>7, <1>8, <1>10, <1>12 DEF checkTimeouts
<1>15. CASE w.faulted
  BY <1>13, <1>14, <1>15
<1>16. CASE ~w.faulted
  <2>1. PICK z : z = scheduleTimeouts(w)
    OBVIOUS
  <2>2. OK(z) /\ Alike(w, z)
    BY <1>13, <2>1, ScheduledAlike DEF Upheld
  <2>3. Upheld(w, z, dead)
    BY <1>13, <1>16, <2>2, AlikeStands DEF Upheld
  <2> QED BY <1>13, <1>14, <1>16, <2>1, <2>3, UpheldAgain
<1> QED BY <1>15, <1>16

(* retry() makes the intent one that has not been attempted, or gives it   *)
(* up with an error.                                                       *)
LEMMA RetryStands ==
  ASSUME NEW c, OK(c), NEW dead, Standing(c, dead), NEW status \in Status,
         NEW automatic \in BOOLEAN
  PROVE  LET d == retry(c, status, automatic)
         IN  Standing(d, dead) /\ Steady(c, d)
<1>1. PICK d : d = cancelRetry(c)
  OBVIOUS
<1>2. OK(d) /\ Alike(c, d)
  BY <1>1, ScheduledAlike
<1>3. Standing(d, dead) /\ Steady(c, d)
  BY <1>2, AlikeStands
<1>4. PICK e : e = [d EXCEPT !.attempted = 0, !.status = "Ok"]
  OBVIOUS
<1>5. OK(e)
  <2>1. Shape(e)
    BY <1>2, <1>4 DEF OK, Shape
  <2>2. Typed(e)
    BY <1>2, <1>4, NamesTyped DEF OK, Shape, Typed, Fields
  <2> QED BY <2>1, <2>2 DEF OK
<1>6. /\ e.attempted = 0 /\ KeptLink(d, e) /\ KeptStation(d, e)
      /\ e.scan = d.scan /\ e.desired = d.desired /\ e.restore = d.restore
      /\ e.revision = d.revision /\ e.initialized = d.initialized
      /\ e.failure = d.failure /\ e.armed = d.armed
      /\ e.station_timed_out = d.station_timed_out
  BY <1>2, <1>4 DEF OK, Shape, Fields
<1>7. e.attempted # e.revision /\ Intended(e)
  <2>1. d.revision \in Nat
    BY <1>2 DEF OK, Typed
  <2>2. Intended(d)
    BY <1>3 DEF Standing, Grounded
  <2> QED BY <1>6, <2>1, <2>2 DEF Intended
<1>8. Apart(e) /\ Underway(e) /\ Achieved(e)
  BY <1>3, <1>6, <1>7 DEF Standing, Grounded, Apart, Underway, Achieved
<1>9. (~dead => Heeded(e)) /\ (Untroubled => Powered(e))
  BY <1>3, <1>6, <1>7 DEF Standing, Grounded, Heeded, Powered
<1>10. Standing(e, dead) /\ Steady(c, e)
  BY <1>3, <1>6, <1>7, <1>8, <1>9 DEF Standing, Grounded, Steady
<1>11. PICK g : g = changed(e, "station")
  OBVIOUS
<1>12. PICK h : h = scheduleWork(g)
  OBVIOUS
<1>13. Alike(e, h)
  BY <1>5, <1>11, <1>12, ChangedAlike, ScheduledAlike, AlikeAgain,
     ConstantNames
<1>14. Standing(h, dead) /\ Steady(c, h)
  BY <1>10, <1>13, AlikeStands DEF Steady
<1>15. PICK f : f = [d EXCEPT !.auto = FALSE,
                              !.status = IF status = "Ok" THEN @ ELSE status]
  OBVIOUS
<1>16. OK(f)
  <2>1. Shape(f)
    BY <1>2, <1>15 DEF OK, Shape
  <2>2. Typed(f)
    BY <1>2, <1>15 DEF OK, Shape, Typed, Fields
  <2> QED BY <2>1, <2>2 DEF OK
<1>17. Alike(d, f)
  BY <1>2, <1>15 DEF OK, Shape, Fields, Alike
<1>18. PICK k : k = changed(f, "station")
  OBVIOUS
<1>19. Alike(c, k)
  BY <1>2, <1>16, <1>17, <1>18, ChangedAlike, AlikeAgain, ConstantNames
<1>20. Standing(k, dead) /\ Steady(c, k)
  BY <1>19, AlikeStands
<1>21. retry(c, status, automatic) \in {d, h, k}
  BY <1>1, <1>4, <1>11, <1>12, <1>15, <1>18 DEF retry
<1> QED BY <1>3, <1>14, <1>20, <1>21

-----------------------------------------------------------------------------
(* The invariant: the intent stands in every state *)

(* The deadline of a lost address that no longer is wanted is too young to *)
(* expire.                                                                 *)
Fresh(c, y) ==
  "address" \in c.armed /\ c.desired # "Connected" => "address" \in y

(* What was persisted is what was last enabled. *)
Stored(c, s) ==
  c.initialized /\ c.transition # "Enable" => s.enabled = c.enabled

QInv ==
  /\ PInv
  /\ Untroubled => ~radio.dead
  /\ Running => /\ Standing(ctl, radio.dead)
                /\ ~radio.dead => Fresh(ctl, young)
                /\ Untroubled => Stored(ctl, store)

(* What a step that leaves the controller running must establish: a timed  *)
(* address is one of a link that was up before and of the same intent.     *)
Settles ==
  /\ radio.dead => radio'.dead
  /\ Standing(ctl', radio'.dead)
  /\ "address" \in ctl'.armed =>
       ctl'.desired = ctl.desired /\ ctl.link.phase # "Idle" /\ Running
  /\ Untroubled => Stored(ctl', store')

(* What every action can rely on. *)
LEMMA Ongoing ==
  ASSUME QInv, Running
  PROVE  /\ OK(ctl) /\ ctl.running /\ ~ctl.faulted /\ radio \in Radios
         /\ Sound(ctl) /\ Woken(ctl) /\ Timed(ctl)
         /\ Standing(ctl, radio.dead) /\ Coherent(ctl, radio)
         /\ Agreed(ctl, radio) /\ store \in Persisted
BY InvParts DEF QInv, PInv, Promise, Running, Coherent

(* Most actions are steady and leave the adapter as alive as it was. *)
LEMMA SteadySettles ==
  ASSUME QInv, Running, Standing(ctl', radio.dead), Steady(ctl, ctl'),
         radio'.dead = radio.dead, store'.enabled = store.enabled
  PROVE  Settles
<1>1. "address" \in ctl.armed => ctl.link.phase # "Idle"
  BY Ongoing DEF Sound, LinkTimed
<1>2. Untroubled => ~radio.dead /\ Stored(ctl, store)
  BY DEF QInv
<1>3. Untroubled => Stored(ctl', store')
  BY <1>2 DEF Stored, Steady
<1>4. Standing(ctl', radio'.dead)
  OBVIOUS
<1> QED BY <1>1, <1>2, <1>3, <1>4 DEF Settles, Steady

(* While a link is up that is not wanted, execute() is due or waits for a  *)
(* cancelled scan, or what it started is not over.                         *)
LEMMA UnwantedIsReconciled ==
  ASSUME NEW c, NEW dead, ~dead, Sound(c), Woken(c), Standing(c, dead),
         c.link.phase # "Idle", c.desired # "Connected"
  PROVE  Reconciling(c)
<1>1. needsStation(c)
  BY DEF Standing, Grounded, Heeded, needsStation
<1>2. ~c.pending
  BY DEF Sound, RetryTold
<1>3. ~GivenUp(c)
  BY DEF GivenUp
<1> QED BY <1>1, <1>2, <1>3 DEF Woken, Resting, Reconciling

(* So the address of a link that is no longer wanted stays too young.      *)
LEMMA FreshStays ==
  ASSUME QInv, PInv', Ages, Running', ~radio'.dead, Settles
  PROVE  Fresh(ctl', young')
<1> SUFFICES ASSUME "address" \in ctl'.armed, ctl'.desired # "Connected"
             PROVE  "address" \in young'
  BY DEF Fresh
<1>1. /\ ctl.desired # "Connected" /\ ctl.link.phase # "Idle" /\ Running
      /\ ~radio.dead /\ Standing(ctl', radio'.dead)
  BY DEF Settles
<1>2. Reconciling(ctl)
  BY <1>1, Ongoing, UnwantedIsReconciled
<1>3. Sound(ctl') /\ Woken(ctl')
  BY DEF PInv, Promise, Running
<1>4. ctl'.link.phase # "Idle"
  BY <1>3 DEF Sound, LinkTimed
<1>5. Reconciling(ctl')
  BY <1>1, <1>3, <1>4, UnwantedIsReconciled
<1>6. "address" \in ctl.armed => "address" \in young
  BY <1>1 DEF QInv, Fresh
<1> QED BY <1>2, <1>5, <1>6 DEF Ages

(* The actions need to show no more than Settles. *)
LEMMA SettlesKeepsQ ==
  ASSUME QInv, PInv', Ages, Running' => Settles,
         Untroubled => ~radio'.dead
  PROVE  QInv'
<1>1. ASSUME Running'
      PROVE  /\ Standing(ctl', radio'.dead)
             /\ ~radio'.dead => Fresh(ctl', young')
             /\ Untroubled => Stored(ctl', store')
  BY <1>1, FreshStays DEF Settles
<1> QED BY <1>1 DEF QInv

(* The invariant holds in the beginning. *)
LEMMA InitQ == Init => QInv
BY InitPromise DEF Init, NewController, NewRadio, QInv, Running

-----------------------------------------------------------------------------
(* API calls *)

(* begin() starts with an intent that stands. *)
LEMMA BeginSettles ==
  ASSUME QInv, Begin
  PROVE  Settles
<1>1. /\ OK(ctl) /\ ctl = NewController /\ radio = NewRadio
      /\ store \in Persisted
  BY InvParts DEF QInv, PInv, Begin, Coherent, Lifecycle
<1>2. PICK e : e = [ctl EXCEPT !.running = TRUE, !.restore = store.enabled,
                      !.desired = IF store.enabled THEN "Disconnected"
                                                   ELSE "Disabled"]
  OBVIOUS
<1>3. OK(e)
  <2>1. Shape(e)
    BY <1>1, <1>2 DEF OK, Shape
  <2>2. Typed(e)
    BY <1>1, <1>2, NamesTyped DEF OK, Shape, Typed, Fields, Persisted
  <2> QED BY <2>1, <2>2 DEF OK
<1>4. /\ e.desired # "Connected" /\ e.attempted = 0 /\ e.revision = 0
      /\ e.transition = "None" /\ e.link.phase = "Idle" /\ e.scan = "Idle"
      /\ ~e.cancelling /\ e.armed = {} /\ ~e.initialized
  BY <1>1, <1>2 DEF NewController, NoLink
<1>5. PICK f : f = changed(e, "profiles")
  OBVIOUS
<1>6. OK(f) /\ Alike(e, f)
  BY <1>3, <1>5, ChangedAlike, ConstantNames
<1>7. Poised(f)
  BY <1>4, <1>6 DEF Alike, Poised, Apart, Powered
<1>8. PICK d : d = newIntent(f)
  OBVIOUS
<1>9. OK(d) /\ Standing(d, radio.dead) /\ Steady(f, d)
  BY <1>6, <1>7, <1>8, NewIntentStands
<1>10. ctl' = d
  BY <1>2, <1>5, <1>8 DEF Begin
<1>11. "address" \notin d.armed /\ ~d.initialized
  BY <1>4, <1>6, <1>9 DEF Steady, Alike, OK, Typed
<1>12. radio.dead = FALSE /\ radio'.dead = FALSE
  BY <1>1 DEF Begin, NewRadio
<1>13. Standing(ctl', radio'.dead)
  BY <1>9, <1>10, <1>12
<1> QED BY <1>10, <1>11, <1>12, <1>13 DEF Settles, Stored

(* setEnabled() starts a new intent on the old observations. *)
LEMMA SetEnabledSettles ==
  ASSUME QInv, Running, NEW enabled \in BOOLEAN, SetEnabled(enabled)
  PROVE  Settles
<1>1. OK(ctl) /\ Standing(ctl, radio.dead)
  BY Ongoing
<1>2. PICK e : e = [WithoutInput(ctl) EXCEPT
                      !.desired = IF enabled THEN "Disconnected"
                                             ELSE "Disabled",
                      !.auto = FALSE, !.restore = enabled]
  OBVIOUS
<1>3. /\ OK(e) /\ KeptLink(ctl, e) /\ KeptStation(ctl, e)
      /\ KeptScan(ctl, e) /\ e.desired # "Connected"
      /\ e.revision = ctl.revision /\ e.attempted = ctl.attempted
      /\ e.initialized = ctl.initialized
      /\ e.station_timed_out = ctl.station_timed_out
  <2>1. Shape(e)
    BY <1>1, <1>2 DEF OK, Shape, WithoutInput
  <2>2. Typed(e)
    BY <1>1, <1>2, NamesTyped DEF OK, Shape, Typed, Fields, WithoutInput
  <2> QED BY <1>1, <1>2, <2>1, <2>2 DEF OK, Shape, Fields, WithoutInput
<1>4. Poised(e)
  BY <1>1, <1>3 DEF Standing, Grounded, Apart, Intended, Powered, Poised
<1>5. PICK d : d = newIntent(e)
  OBVIOUS
<1>6. Standing(d, radio.dead) /\ Steady(e, d) /\ Renewed(e, d)
  BY <1>3, <1>4, <1>5, NewIntentStands, NewIntentRenews
<1>7. Steady(ctl, d)
  BY <1>3, <1>6 DEF Steady, Renewed
<1>8. ctl' = d
  BY <1>2, <1>5 DEF SetEnabled
<1> QED BY <1>6, <1>7, <1>8, SteadySettles DEF SetEnabled

(* connect(), ad hoc or to a saved profile, keeps or replaces the intent.  *)
LEMMA ConnectsSettle ==
  ASSUME QInv, Running, NEW network \in Networks,
         Connect(network) \/ ConnectProfile(network)
  PROVE  Settles
<1>1. OK(ctl) /\ Standing(ctl, radio.dead)
  BY Ongoing
<1>2. network \in Ssid /\ NoNetwork \in Ssid
  BY DEF Ssid
<1>3. PICK profile \in Ssid, automatic \in BOOLEAN :
        ctl' = requestConnection(ctl, network, profile, automatic)
  BY <1>2 DEF Connect, ConnectProfile, IsAuto
<1>4. PICK d : d = requestConnection(ctl, network, profile, automatic)
  OBVIOUS
<1>5. Standing(d, radio.dead) /\ Steady(ctl, d)
  BY <1>1, <1>2, <1>3, <1>4, RequestConnectionStands
<1>6. ctl' = d
  BY <1>3, <1>4
<1> QED BY <1>5, <1>6, SteadySettles DEF Connect, ConnectProfile

(* disconnect() drops the restoration or starts a new intent. *)
LEMMA DisconnectSettles ==
  ASSUME QInv, Running, Disconnect
  PROVE  Settles
<1>1. OK(ctl) /\ Standing(ctl, radio.dead)
  BY Ongoing
<1>2. PICK e : e = Quieted(ctl)
  OBVIOUS
<1>3. OK(e) /\ Alike(ctl, e) /\ ~e.restore
  <2>1. Shape(e)
    BY <1>1, <1>2 DEF OK, Shape, Quieted
  <2>2. Typed(e)
    BY <1>1, <1>2 DEF OK, Shape, Typed, Fields, Quieted
  <2> QED BY <1>1, <1>2, <2>1, <2>2 DEF OK, Shape, Fields, Quieted, Alike
<1>4. Standing(e, radio.dead) /\ Steady(ctl, e)
  BY <1>1, <1>3, AlikeStands
<1>5. CASE ctl.desired # "Connected" /\ ctl.status = "Ok"
  <2>1. ctl' = e
    BY <1>2, <1>5 DEF Disconnect
  <2> QED BY <1>4, <2>1, SteadySettles DEF Disconnect
<1>6. CASE ~(ctl.desired # "Connected" /\ ctl.status = "Ok")
  <2>1. PICK f : f = [WithoutInput(e) EXCEPT
                        !.desired = IF @ = "Disabled" THEN @
                                    ELSE "Disconnected"]
    OBVIOUS
  <2>2. /\ OK(f) /\ KeptLink(e, f) /\ KeptStation(e, f) /\ KeptScan(e, f)
        /\ f.desired # "Connected" /\ f.revision = e.revision
        /\ f.attempted = e.attempted /\ f.initialized = e.initialized
        /\ f.station_timed_out = e.station_timed_out
    <3>1. Shape(f)
      BY <1>3, <2>1 DEF OK, Shape, WithoutInput
    <3>2. Typed(f)
      BY <1>3, <2>1, NamesTyped DEF OK, Shape, Typed, Fields, WithoutInput
    <3> QED BY <1>3, <2>1, <3>1, <3>2 DEF OK, Shape, Fields, WithoutInput
  <2>3. Poised(f)
    BY <1>4, <2>2 DEF Standing, Grounded, Apart, Intended, Powered, Poised
  <2>4. PICK d : d = newIntent(f)
    OBVIOUS
  <2>5. Standing(d, radio.dead) /\ Steady(f, d) /\ Renewed(f, d)
    BY <2>2, <2>3, <2>4, NewIntentStands, NewIntentRenews
  <2>6. Steady(ctl, d)
    BY <1>4, <2>2, <2>5 DEF Steady, Renewed
  <2>7. ctl' = d
    BY <1>2, <1>6, <2>1, <2>4 DEF Disconnect
  <2> QED BY <2>5, <2>6, <2>7, SteadySettles DEF Disconnect
<1> QED BY <1>5, <1>6

(* startScan() finds the station at rest. *)
LEMMA StartScanSettles ==
  ASSUME QInv, Running, StartScan
  PROVE  Settles
<1>1. OK(ctl) /\ Standing(ctl, radio.dead)
  BY Ongoing
<1>2. ctl.transition = "None"
  BY DEF StartScan
<1>3. PICK e : e = [ctl EXCEPT !.scan = "Queued", !.scan_status = "Ok",
                               !.scan_revision = @ + 1,
                               !.scan_timed_out = FALSE]
  OBVIOUS
<1>4. /\ OK(e) /\ KeptLink(ctl, e) /\ KeptStation(ctl, e)
      /\ SameIntent(ctl, e) /\ SameAttempt(ctl, e) /\ SameCharge(ctl, e)
      /\ e.status = ctl.status
      /\ e.station_timed_out = ctl.station_timed_out
  <2>1. Shape(e)
    BY <1>1, <1>3 DEF OK, Shape
  <2>2. Typed(e)
    <3>1. ctl.scan_revision + 1 \in Nat
      BY <1>1 DEF OK, Typed
    <3> QED BY <1>1, <1>3, <3>1, NamesTyped DEF OK, Shape, Typed, Fields
  <2> QED BY <1>1, <1>3, <2>1, <2>2 DEF OK, Shape, Fields
<1>5. Apart(e) /\ Intended(e) /\ Underway(e)
  BY <1>1, <1>2, <1>4
  DEF Standing, Grounded, Apart, Intended, Underway
<1>6. (~radio.dead => Heeded(e)) /\ (Untroubled => Powered(e))
  BY <1>1, <1>4 DEF Standing, Grounded, Heeded, Powered
<1>7. Achieved(e)
  BY <1>1, <1>4 DEF Standing, Achieved, Wants
<1>8. Standing(e, radio.dead) /\ Steady(ctl, e)
  BY <1>4, <1>5, <1>6, <1>7 DEF Standing, Grounded, Steady
<1>9. PICK f : f = changed(e, "scan")
  OBVIOUS
<1>10. OK(f) /\ Alike(e, f)
  BY <1>4, <1>9, ChangedAlike, ConstantNames
<1>11. PICK d : d = scheduleWork(f)
  OBVIOUS
<1>12. Alike(e, d)
  BY <1>10, <1>11, ScheduledAlike, AlikeAgain
<1>13. Standing(d, radio.dead) /\ Steady(e, d)
  BY <1>8, <1>12, AlikeStands
<1>14. Steady(ctl, d)
  BY <1>8, <1>13 DEF Steady
<1>15. ctl' = d
  BY <1>3, <1>9, <1>11 DEF StartScan
<1> QED BY <1>13, <1>14, <1>15, SteadySettles DEF StartScan

(* cancelScan() only touches the scan, on both sides. *)
LEMMA CancelScanSettles ==
  ASSUME QInv, Running, NEW answer, CancelScan(answer)
  PROVE  Settles
<1>1. OK(ctl) /\ Standing(ctl, radio.dead) /\ radio \in Radios
  BY Ongoing
<1>2. PICK d : d = cancelScan(ctl, answer)
  OBVIOUS
<1>3. OK(d) /\ Alike(ctl, d)
  BY <1>1, <1>2, CancelScanAlike
<1>4. Standing(d, radio.dead) /\ Steady(ctl, d)
  BY <1>1, <1>3, AlikeStands
<1>5. ctl' = d /\ radio' = Submitted(radio, ctl, d)
  BY <1>2 DEF CancelScan
<1>6. radio'.dead = radio.dead
  BY <1>1, <1>3, <1>5, SubmittedTyped
<1> QED BY <1>4, <1>5, <1>6, SteadySettles DEF CancelScan

(* Saving and removing profiles does not concern the intent. *)
LEMMA WriteProfileSettles ==
  ASSUME QInv, Running, NEW network \in Networks, NEW value, NEW answer,
         WriteProfile(network, value, answer)
  PROVE  Settles
<1>1. OK(ctl) /\ Standing(ctl, radio.dead) /\ store \in Persisted
  BY Ongoing
<1>2. PICK e : e = [ctl EXCEPT !.profiles_generation = @ + 1]
  OBVIOUS
<1>3. OK(e) /\ Alike(ctl, e)
  <2>1. Shape(e)
    BY <1>1, <1>2 DEF OK, Shape
  <2>2. Typed(e)
    <3>1. ctl.profiles_generation + 1 \in Nat
      BY <1>1 DEF OK, Typed
    <3> QED BY <1>1, <1>2, <3>1 DEF OK, Shape, Typed, Fields
  <2> QED BY <1>1, <1>2, <2>1, <2>2 DEF OK, Shape, Fields, Alike
<1>4. PICK d : d = changed(e, "profiles")
  OBVIOUS
<1>5. Alike(ctl, d)
  BY <1>3, <1>4, ChangedAlike, AlikeAgain, ConstantNames
<1>6. Standing(d, radio.dead) /\ Steady(ctl, d)
  BY <1>1, <1>5, AlikeStands
<1>7. ctl' = d /\ radio' = radio
  BY <1>2, <1>4 DEF WriteProfile
<1>8. store'.enabled = store.enabled
  <2>1. PICK left : store' = [store EXCEPT !.saved[network] = left]
    BY DEF WriteProfile
  <2> QED BY <1>1, <2>1 DEF Persisted
<1> QED BY <1>6, <1>7, <1>8, SteadySettles

-----------------------------------------------------------------------------
(* Scheduler tasks *)

(* The scheduler only takes the task away. *)
LEMMA DispatchedAlike ==
  ASSUME OK(ctl), NEW task
  PROVE  Alike(ctl, Dispatched(task))
<1>1. PICK d : d = [ctl EXCEPT !.tasks = @ \ {task}]
  OBVIOUS
<1>2. Alike(ctl, d)
  BY <1>1 DEF OK, Shape, Fields, Alike
<1> QED BY <1>1, <1>2 DEF Dispatched

(* So a task starts from a controller that stands as well. *)
LEMMA TaskStarts ==
  ASSUME QInv, Running, NEW task, NEW c, c = Dispatched(task)
  PROVE  /\ OK(c) /\ c.running /\ ~c.faulted
         /\ Standing(c, radio.dead) /\ Steady(ctl, c)
         /\ Same(ctl, c) /\ c.tasks = ctl.tasks \ {task}
<1>1. OK(ctl) /\ ctl.running /\ ~ctl.faulted /\ Standing(ctl, radio.dead)
  BY Ongoing
<1>2. Same(ctl, c) /\ c.tasks = ctl.tasks \ {task} /\ Alike(ctl, c)
  BY <1>1, DispatchedSame, DispatchedAlike
<1>3. Standing(c, radio.dead) /\ Steady(ctl, c)
  BY <1>1, <1>2, AlikeStands
<1> QED BY <1>1, <1>2, <1>3 DEF Same

(* And what it makes of it only has to be steady. *)
LEMMA TaskSettles ==
  ASSUME QInv, Running, NEW c, Steady(ctl, c),
         Standing(ctl', radio.dead), Steady(c, ctl'),
         radio'.dead = radio.dead, UNCHANGED store
  PROVE  Settles
<1>1. Steady(ctl, ctl')
  BY DEF Steady
<1> QED BY <1>1, SteadySettles

(* The notification task does not concern the intent. *)
LEMMA NotifyListenersSettles ==
  ASSUME QInv, Running, NotifyListeners
  PROVE  Settles
<1>1. OK(ctl) /\ Standing(ctl, radio.dead)
  BY Ongoing
<1>2. PICK d : d = [Dispatched("notify") EXCEPT !.changes = {}]
  OBVIOUS
<1>3. Alike(ctl, d)
  BY <1>1, <1>2 DEF OK, Shape, Fields, Dispatched, Alike
<1>4. Standing(d, radio.dead) /\ Steady(ctl, d)
  BY <1>1, <1>3, AlikeStands
<1>5. ctl' = d
  BY <1>2 DEF NotifyListeners
<1> QED BY <1>4, <1>5, SteadySettles DEF NotifyListeners

(* Without adapter errors the adapter takes every command unless it is     *)
(* dead.                                                                   *)
LEMMA OrderlyAnswers ==
  ASSUME Orderly, QInv, NEW answer \in Answers
  PROVE  answer \in Status /\ (answer = "Ok" <=> ~radio.dead)
BY AnswersTyped DEF Answers, Orderly

(* The timer task charges an address that did not come only to the intent  *)
(* that wants it.                                                          *)
LEMMA CheckTimeoutsSettles ==
  ASSUME Orderly, QInv, Running, NEW expired, NEW answer \in Answers,
         CheckTimeouts(expired, answer), OK(ctl'), ~ctl'.faulted
  PROVE  Settles
<1>1. PICK c : c = Dispatched("timer")
  OBVIOUS
<1>2. /\ OK(c) /\ c.running /\ ~c.faulted /\ Standing(c, radio.dead)
      /\ Steady(ctl, c) /\ Same(ctl, c) /\ radio \in Radios
  BY <1>1, TaskStarts, Ongoing
<1>3. ASSUME "address" \in expired, ~radio.dead
      PROVE  c.desired = "Connected"
  <2>1. "address" \in ctl.armed /\ "address" \notin young
    BY <1>3 DEF CheckTimeouts, Deadlines, Orderly
  <2>2. Fresh(ctl, young)
    BY <1>3 DEF QInv
  <2> QED BY <1>2, <2>1, <2>2 DEF Fresh, Same
<1>4. ctl' = checkTimeouts(c, expired, answer)
  BY <1>1 DEF CheckTimeouts
<1>5. PICK d : d = checkTimeouts(c, expired, answer)
  OBVIOUS
<1>6. Upheld(c, d, radio.dead)
  BY <1>2, <1>3, <1>5, CheckTimeoutsUpholds
<1>7. Standing(ctl', radio.dead) /\ Steady(c, ctl')
  BY <1>4, <1>5, <1>6 DEF Upheld
<1>8. radio'.dead = radio.dead
  BY <1>2, SubmittedTyped DEF CheckTimeouts
<1> QED BY <1>2, <1>7, <1>8, TaskSettles DEF CheckTimeouts

(* The reconnect task takes the intent up again or gives it up, shown as   *)
(* failed.                                                                 *)
LEMMA RetrySettles ==
  ASSUME QInv, Running, NEW medium \in StoreAnswers, Retry(medium)
  PROVE  Settles
<1>1. PICK c : c = Dispatched("reconnect")
  OBVIOUS
<1>2. OK(c) /\ Standing(c, radio.dead) /\ Steady(ctl, c)
  BY <1>1, TaskStarts
<1>3. PICK st \in Status, au \in BOOLEAN :
        st = LoadStatus(store, ctl.profile, medium)
        /\ au = IsAuto(store, ctl.profile)
  BY AnswersTyped, LoadStatusTyped
<1>4. PICK d : d = retry(c, st, au)
  OBVIOUS
<1>5. Standing(d, radio.dead) /\ Steady(c, d)
  BY <1>2, <1>4, RetryStands
<1>6. ctl' = d
  BY <1>1, <1>3, <1>4 DEF Retry
<1> QED BY <1>2, <1>5, <1>6, TaskSettles DEF Retry

(* The exits of execute() at which nothing new is submitted uphold all.    *)
LEMMA ExecuteExitsSettle ==
  ASSUME QInv, Running, NEW c, c = Dispatched("work"),
         \/ ExecuteIgnored(c) \/ ExecuteExhausted(c) \/ ExecuteSuperseded(c)
         \/ ExecuteAwaits(c) \/ ExecutePreempts(c),
         OK(ctl'), ~ctl'.faulted
  PROVE  Settles
<1>1. /\ OK(c) /\ c.running /\ ~c.faulted /\ Standing(c, radio.dead)
      /\ Steady(ctl, c) /\ radio \in Radios
  BY TaskStarts, Ongoing
<1>2. store' = store
  BY DEF ExecuteIgnored, ExecuteExhausted, ExecuteSuperseded, ExecuteAwaits,
         ExecutePreempts
<1>3. radio'.dead = radio.dead
  <2>1. radio' = radio \/ radio' = Submitted(radio, ctl, ctl')
    BY DEF ExecuteIgnored, ExecuteExhausted, ExecuteSuperseded,
           ExecuteAwaits, ExecutePreempts
  <2> QED BY <1>1, <2>1, SubmittedTyped
<1>4. ASSUME NEW status \in Status
      PROVE  ctl' # fault(c, status)
  BY <1>1, FaultSettles
<1>5. ASSUME NEW d, ctl' = d, Standing(d, radio.dead), Steady(c, d)
      PROVE  Settles
  BY <1>1, <1>2, <1>3, <1>5, TaskSettles
<1>6. ~ExecuteIgnored(c) /\ ~ExecuteExhausted(c)
  BY <1>1, <1>4, ConstantNames DEF ExecuteIgnored, ExecuteExhausted
<1>7. CASE ExecuteSuperseded(c)
  <2>1. PICK answer \in Answers :
          ctl' = IF answer = "Ok"
                 THEN scheduleTimeouts(changed([c EXCEPT !.cancelling = TRUE],
                                               "station"))
                 ELSE fault(c, answer)
    BY <1>7 DEF ExecuteSuperseded
  <2>2. answer = "Ok"
    BY <1>4, <2>1, AnswersTyped
  <2>3. PICK e : e = [c EXCEPT !.cancelling = TRUE]
    OBVIOUS
  <2>4. /\ OK(e) /\ KeptLink(c, e) /\ KeptScan(c, e) /\ SameIntent(c, e)
        /\ SameAttempt(c, e) /\ SameCharge(c, e) /\ e.status = c.status
        /\ e.transition = c.transition
        /\ e.station_timed_out = c.station_timed_out
    <3>1. Shape(e)
      BY <1>1, <2>3 DEF OK, Shape
    <3>2. Typed(e)
      BY <1>1, <2>3 DEF OK, Shape, Typed, Fields
    <3> QED BY <1>1, <2>3, <3>1, <3>2 DEF OK, Shape, Fields
  <2>5. c.transition = "Connect"
    BY <1>7 DEF ExecuteSuperseded
  <2>6. Apart(e) /\ Intended(e) /\ Underway(e)
    BY <1>1, <2>4, <2>5 DEF Standing, Grounded, Apart, Intended, Underway
  <2>7. (~radio.dead => Heeded(e)) /\ (Untroubled => Powered(e))
    BY <1>1, <2>4 DEF Standing, Grounded, Heeded, Powered
  <2>8. Achieved(e)
    BY <1>1, <2>4 DEF Standing, Achieved, Wants
  <2>9. Standing(e, radio.dead) /\ Steady(c, e)
    BY <2>4, <2>6, <2>7, <2>8 DEF Standing, Grounded, Steady
  <2>10. PICK f : f = changed(e, "station")
    OBVIOUS
  <2>11. OK(f) /\ Alike(e, f)
    BY <2>4, <2>10, ChangedAlike, ConstantNames
  <2>12. PICK d : d = scheduleTimeouts(f)
    OBVIOUS
  <2>13. Alike(e, d)
    BY <2>11, <2>12, ScheduledAlike, AlikeAgain
  <2>14. Standing(d, radio.dead) /\ Steady(e, d)
    BY <2>9, <2>13, AlikeStands
  <2>15. Steady(c, d)
    BY <2>9, <2>14 DEF Steady
  <2>16. ctl' = d
    BY <2>1, <2>2, <2>3, <2>10, <2>12
  <2> QED BY <1>5, <2>14, <2>15, <2>16
<1>8. CASE ExecuteAwaits(c)
  <2>1. PICK d : d = scheduleTimeouts(c)
    OBVIOUS
  <2>2. Alike(c, d)
    BY <1>1, <2>1, ScheduledAlike
  <2>3. Standing(d, radio.dead) /\ Steady(c, d)
    BY <1>1, <2>2, AlikeStands
  <2>4. ctl' = d
    BY <1>8, <2>1 DEF ExecuteAwaits
  <2> QED BY <1>5, <2>3, <2>4
<1>9. CASE ExecutePreempts(c)
  <2>1. PICK answer \in Answers :
          ctl' = IF cancelScanStatus(c, answer) = "Ok"
                 THEN cancelScan(c, answer) ELSE fault(c, answer)
    BY <1>9 DEF ExecutePreempts
  <2>2. PICK d : d = cancelScan(c, answer)
    OBVIOUS
  <2>3. ctl' = d
    BY <1>4, <2>1, <2>2, AnswersTyped
  <2>4. Alike(c, d)
    BY <1>1, <2>2, CancelScanAlike
  <2>5. Standing(d, radio.dead) /\ Steady(c, d)
    BY <1>1, <2>4, AlikeStands
  <2> QED BY <1>5, <2>3, <2>5
<1> QED BY <1>6, <1>7, <1>8, <1>9

(* What execute() does to a queued scan does not concern the intent. *)
LEMMA UnqueuedAlike ==
  ASSUME NEW c, OK(c)
  PROVE  OK(Unqueued(c)) /\ Alike(c, Unqueued(c))
<1>1. CASE needsStation(c)
  BY <1>1, CancelScanAlike DEF Unqueued
<1>2. CASE ~needsStation(c)
  BY <1>2 DEF Unqueued, Alike
<1> QED BY <1>1, <1>2

(* Restoring the last profile gives up, takes it up as the intent, or      *)
(* leaves nothing to restore.                                              *)
LEMMA ExecuteRestoresSettles ==
  ASSUME QInv, Running, NEW c, c = Dispatched("work"), ExecuteRestores(c)
  PROVE  Settles
<1>1. /\ OK(c) /\ Standing(c, radio.dead) /\ Steady(ctl, c)
      /\ store \in Persisted
  BY TaskStarts, Ongoing
<1>2. PICK u : u = Unqueued(c)
  OBVIOUS
<1>3. OK(u) /\ Alike(c, u)
  BY <1>1, <1>2, UnqueuedAlike
<1>4. Standing(u, radio.dead) /\ Steady(c, u)
  BY <1>1, <1>3, AlikeStands
<1>5. PICK automatic \in BOOLEAN : automatic = IsAuto(store, store.last)
  BY DEF IsAuto
<1>6. PICK status \in Status :
         ctl' = scheduleWork(restoreProfile(u, store.last, status, automatic))
  BY <1>2, <1>5, AnswersTyped, LoadStatusTyped DEF ExecuteRestores
<1>7. store.last \in Ssid
  BY <1>1 DEF Persisted
<1>8. PICK w : w = restoreProfile(u, store.last, status, automatic)
  OBVIOUS
<1>9. Standing(w, radio.dead) /\ Steady(u, w)
  BY <1>3, <1>4, <1>7, <1>8, RestoreProfileStands
<1>10. OK(w)
  BY <1>3, <1>7, <1>8, RestoreProfileKeeps
<1>11. PICK d : d = scheduleWork(w)
  OBVIOUS
<1>12. Alike(w, d)
  BY <1>10, <1>11, ScheduledAlike
<1>13. Standing(d, radio.dead) /\ Steady(w, d)
  BY <1>9, <1>12, AlikeStands
<1>14. ctl' = d
  BY <1>6, <1>8, <1>11
<1>15. Steady(c, d)
  BY <1>4, <1>9, <1>13 DEF Steady
<1>16. UNCHANGED <<radio, store>>
  BY DEF ExecuteRestores
<1> QED BY <1>1, <1>13, <1>14, <1>15, <1>16, TaskSettles

(* The exit of execute() that submits work takes the station towards the   *)
(* intent, or starts a scan of a station that is at rest.                  *)
LEMMA ExecuteAdvancesSettles ==
  ASSUME Orderly, QInv, Running, "work" \in ctl.tasks,
         NEW c, c = Dispatched("work"), ExecuteAdvances(c), OK(ctl')
  PROVE  Settles
<1>1. /\ OK(c) /\ c.running /\ ~c.faulted /\ Standing(c, radio.dead)
      /\ Steady(ctl, c) /\ Same(ctl, c)
      /\ c.tasks = ctl.tasks \ {"work"}
  BY TaskStarts
<1>2. /\ radio \in Radios /\ Coherent(ctl, radio) /\ Sound(ctl)
      /\ Timed(ctl)
  BY Ongoing
<1>3. Sound(c) /\ Timed(c)
  <2>1. Sound(c)
    BY <1>1, <1>2, SameSound
  <2>2. Timed(c)
    BY <1>1, <1>2 DEF Timed, Deadlines, Same
  <2> QED BY <2>1, <2>2
<1>4. /\ c.transition = "None" /\ ~Restores(c)
      /\ needsStation(c) => c.scan \in {"Idle", "Queued"}
  BY DEF ExecuteAdvances, Reaches
<1>5. PICK u : u = Unqueued(c)
  OBVIOUS
<1>6. /\ OK(u) /\ Sound(u) /\ SameIntent(c, u) /\ SameAttempt(c, u)
      /\ SameCharge(c, u)
  BY <1>1, <1>3, <1>5, UnqueuedSound
<1>7. Quiet(c, u) /\ (needsStation(c) => u.scan = "Idle")
  BY <1>1, <1>4, <1>5, UnqueuedQuiet
<1>8. Standing(u, radio.dead) /\ Steady(c, u)
  <2>1. Alike(c, u)
    BY <1>1, <1>5, UnqueuedAlike
  <2> QED BY <1>1, <2>1, AlikeStands
<1>9. /\ u.running /\ ~u.faulted /\ u.transition = "None"
      /\ u.next_id = ctl.next_id
  BY <1>1, <1>4, <1>7 DEF Quiet, Same
<1>10. u.next_id # 0
  BY <1>2, <1>9 DEF Coherent, Identities
<1>11. /\ needsStation(u) <=> needsStation(c)
       /\ Restores(u) <=> Restores(c)
  BY <1>6, <1>7 DEF needsStation, Restores, Wants, Quiet
<1>12. PICK answer \in Answers :
         LET d == IF needsStation(c) /\ ~c.pending
                  THEN advance(u, answer) ELSE u
             e == IF d.transition = "None" /\ d.scan = "Queued"
                  THEN startScanning(d, answer) ELSE d
         IN  ctl' = scheduleTimeouts(e)
  BY <1>5 DEF ExecuteAdvances
<1>13. answer \in Status /\ (answer = "Ok" <=> ~radio.dead)
  BY OrderlyAnswers
<1>14. radio'.dead = radio.dead /\ store' = store
  BY <1>2, SubmittedTyped DEF ExecuteAdvances
<1>15. ASSUME NEW e, OK(e), Standing(e, radio.dead), Steady(u, e),
              ctl' = scheduleTimeouts(e)
       PROVE  Settles
  <2>1. PICK d : d = scheduleTimeouts(e)
    OBVIOUS
  <2>2. Alike(e, d)
    BY <1>15, <2>1, ScheduledAlike
  <2>3. Standing(d, radio.dead) /\ Steady(e, d)
    BY <1>15, <2>2, AlikeStands
  <2>4. Steady(c, d)
    BY <1>8, <1>15, <2>3 DEF Steady
  <2> QED BY <1>1, <1>14, <1>15, <2>1, <2>3, <2>4, TaskSettles
<1>16. CASE needsStation(c) /\ ~c.pending
  <2>1. PICK d : d = advance(u, answer)
    OBVIOUS
  <2>2. ~u.pending /\ u.scan = "Idle" /\ needsStation(u) /\ ~Restores(u)
    BY <1>4, <1>6, <1>7, <1>11, <1>16
  <2>3. radio.dead \in BOOLEAN
    BY <1>2 DEF Radios
  <2>4. Standing(d, radio.dead) /\ Steady(u, d)
    BY <1>6, <1>8, <1>9, <1>10, <1>13, <2>1, <2>2, <2>3, AdvanceStands
  <2>5. OK(d) /\ Advanced(u, d, answer)
    BY <1>6, <1>9, <1>10, <1>13, <2>1, AdvanceSubmits
  <2>6. d.scan = "Idle"
    BY <2>2, <2>5 DEF Advanced
  <2>7. ctl' = scheduleTimeouts(d)
    BY <1>12, <1>16, <2>1, <2>6
  <2> QED BY <1>15, <2>4, <2>5, <2>7
<1>17. CASE ~(needsStation(c) /\ ~c.pending) /\ u.scan = "Queued"
  <2>1. PICK e : e = startScanning(u, answer)
    OBVIOUS
  <2>2. Alike(u, e)
    BY <1>6, <1>9, <1>10, <1>13, <1>17, <2>1, StartScanningAlike
  <2>3. OK(e)
    BY <1>6, <1>9, <1>10, <1>13, <2>1, StartScanningSubmits
  <2>4. Standing(e, radio.dead) /\ Steady(u, e)
    BY <1>8, <2>2, AlikeStands
  <2>5. ctl' = scheduleTimeouts(e)
    BY <1>9, <1>12, <1>17, <2>1
  <2> QED BY <1>15, <2>3, <2>4, <2>5
<1>18. CASE ~(needsStation(c) /\ ~c.pending) /\ u.scan # "Queued"
  <2>1. ctl' = scheduleTimeouts(u)
    BY <1>12, <1>18
  <2>2. Steady(u, u)
    BY DEF Steady
  <2> QED BY <1>6, <1>8, <1>15, <2>1, <2>2
<1> QED BY <1>16, <1>17, <1>18

-----------------------------------------------------------------------------
(* Deferred deliveries of the adapter *)

(* What StationFinishedStands asks for that follows from the invariant.    *)
LEMMA CommandIsUnderway ==
  ASSUME QInv, Running, radio.station.id # 0
  PROVE  /\ ctl.transition # "None"
         /\ ctl.transition = "Connect" => ctl.initialized
         /\ ctl.transition = "Connect" /\ ~superseded(ctl) =>
              ctl.desired = "Connected"
         /\ ctl.attempted # ctl.revision
<1>1. ctl.transition # "None"
  BY Ongoing DEF Coherent, Named, Agreed
<1>2. ctl.attempted # ctl.revision
  BY <1>1, Ongoing DEF Standing, Underway
<1> QED BY <1>1, <1>2, Ongoing DEF Sound, Rooted, Wanted

(* A station completion brings the intent nearer, and the store follows    *)
(* the radio.                                                              *)
LEMMA StationFinishesSettles ==
  ASSUME Orderly, QInv, Running, NEW result \in Status,
         NEW failure \in Failures, NEW answer \in StoreAnswers,
         StationFinishes(result, failure, answer)
  PROVE  Settles
<1>1. /\ OK(ctl) /\ ctl.running /\ ~ctl.faulted /\ radio \in Radios
      /\ Standing(ctl, radio.dead) /\ Agreed(ctl, radio)
      /\ Sound(ctl) /\ store \in Persisted
  BY Ongoing
<1>2. answer \in Status /\ failure \in ConnectionFailure
  BY AnswersTyped, ConstantsAssumption
<1>3. /\ ctl.transition # "None"
      /\ ctl.transition = "Connect" => ctl.initialized
      /\ ctl.transition = "Connect" /\ ~superseded(ctl) =>
           ctl.desired = "Connected"
      /\ ctl.attempted # ctl.revision
  BY CommandIsUnderway DEF StationFinishes
<1>4. Grounded(ctl, radio.dead) /\ Achieved(ctl) /\ Apart(ctl)
  BY <1>1 DEF Standing, Grounded
<1>5. /\ result = "Ok" /\ ctl.transition = "Connect" =>
           ctl.link.phase = "AddressReady"
      /\ ctl.transition # "Connect" => result = "Ok"
      /\ ctl.transition = "Disconnect" => ctl.link.phase = "Idle"
  <2>1. result \in StationResults
    BY DEF StationFinishes
  <2>2. ctl.cancelling => ctl.transition = "Connect"
    BY <1>4 DEF Apart
  <2>3. ctl.transition # "Connect" => result = "Ok"
    BY <1>1, <2>1, <2>2 DEF StationResults, Agreed, Orderly
  <2>4. result = "Ok" /\ ctl.transition = "Connect" =>
          ctl.link.phase = "AddressReady"
    BY <1>1, <2>1 DEF StationResults, Agreed
  <2>5. result = "Ok" /\ ctl.transition = "Disconnect" =>
          ctl.link.phase = "Idle"
    BY <1>1, <2>1 DEF StationResults, Agreed
  <2> QED BY <2>3, <2>4, <2>5
<1>6. Earned(ctl, result, radio.dead)
  BY <1>5 DEF Earned
<1>7. PICK d : d = stationFinished(ctl, result, failure, answer)
  OBVIOUS
<1>8. /\ Standing(d, radio.dead)
      /\ "address" \in d.armed => "address" \in ctl.armed
      /\ d.desired = ctl.desired /\ d.enabled = ctl.enabled
      /\ d.transition = "None"
      /\ d.initialized <=> ctl.initialized \/ WritesEnabled(ctl, result)
  BY <1>1, <1>2, <1>3, <1>4, <1>6, <1>7, StationFinishedStands
<1>9. radio.station.id = ctl.station_id /\ radio.station.kind = ctl.transition
      /\ radio.station.id # 0 /\ radio.station.kind # "Scan"
  BY <1>1 DEF Agreed, StationFinishes, OK, Typed, Transition
<1>10. ctl' = d
  BY <1>1, <1>7, <1>9 DEF StationFinishes, onOperationFinished
<1>11. radio'.dead = radio.dead
  BY <1>1 DEF StationFinishes, Radios
<1>12. ASSUME Untroubled
       PROVE  Stored(d, store')
  <2>1. answer = "Ok" /\ Stored(ctl, store)
    BY <1>12 DEF Untroubled, StoreAnswers, QInv
  <2>2. CASE WritesEnabled(ctl, result)
    <3>1. store' \in Written(store, "enabled", ctl.enabled, answer)
      BY <1>1, <1>9, <2>2 DEF StationFinishes
    <3>2. store' = [store EXCEPT !["enabled"] = ctl.enabled]
      BY <2>1, <3>1 DEF Written
    <3>3. store'.enabled = ctl.enabled
      BY <1>1, <3>2 DEF Persisted
    <3> QED BY <1>8, <3>3 DEF Stored
  <2>3. CASE ~WritesEnabled(ctl, result)
    <3>1. ctl.transition # "Enable"
      BY <1>4, <1>5, <2>3 DEF WritesEnabled, StationStatus, Apart
    <3>2. \/ store' = store
          \/ store' \in Written(store, "last", ctl.profile, answer)
      BY <2>3 DEF StationFinishes
    <3>3. \/ store' = store
          \/ store' = [store EXCEPT !["last"] = ctl.profile]
      BY <2>1, <3>2 DEF Written
    <3>4. store'.enabled = store.enabled
      BY <1>1, <3>3 DEF Persisted
    <3> QED BY <1>8, <2>1, <2>3, <3>1, <3>4 DEF Stored
  <2> QED BY <2>2, <2>3
<1>13. "address" \in d.armed => ctl.link.phase # "Idle"
  BY <1>1, <1>8 DEF Sound, LinkTimed
<1>14. Standing(ctl', radio'.dead)
  BY <1>8, <1>10, <1>11
<1> QED BY <1>8, <1>10, <1>11, <1>12, <1>13, <1>14 DEF Settles

(* A scan completion does not concern the intent. *)
LEMMA ScanFinishesSettles ==
  ASSUME QInv, Running, NEW result \in ScanResults, NEW read \in Answers,
         ScanFinishes(result, read)
  PROVE  Settles
<1>1. /\ OK(ctl) /\ ctl.running /\ ~ctl.faulted /\ radio \in Radios
      /\ Standing(ctl, radio.dead) /\ Agreed(ctl, radio)
  BY Ongoing
<1>2. result \in Status /\ read \in Status
  BY AnswersTyped, NamesTyped, AdapterErrorsAssumption DEF ScanResults
<1>3. PICK d : d = scanFinished(ctl, result, read)
  OBVIOUS
<1>4. Alike(ctl, d)
  BY <1>1, <1>2, <1>3, ScanFinishedAlike
<1>5. Standing(d, radio.dead) /\ Steady(ctl, d)
  BY <1>1, <1>4, AlikeStands
<1>6. ctl' = d
  BY <1>1, <1>3 DEF ScanFinishes, onOperationFinished, Agreed
<1>7. radio'.dead = radio.dead
  BY <1>1 DEF ScanFinishes, Radios
<1> QED BY <1>5, <1>6, <1>7, SteadySettles DEF ScanFinishes

(* A scan completion of any kind, taken or not, does not either. *)
LEMMA AnyScanAlike ==
  ASSUME NEW c, OK(c), NEW id, NEW result \in Status,
         c.transition # "Scan"
  PROVE  Alike(c, onOperationFinished(c, id, "Scan", result, "None", "Ok"))
<1>1. PICK d : d = onOperationFinished(c, id, "Scan", result, "None", "Ok")
  OBVIOUS
<1>2. d \in {c, scanFinished(c, result, "Ok")}
  BY <1>1 DEF onOperationFinished
<1>3. Alike(c, scanFinished(c, result, "Ok"))
  BY ScanFinishedAlike, ConstantNames
<1>4. Alike(c, c)
  BY DEF Alike
<1> QED BY <1>1, <1>2, <1>3, <1>4

(* A faulted adapter fails what is outstanding: the attempt counts with    *)
(* its error.                                                              *)
LEMMA AdapterOverflowsSettles ==
  ASSUME QInv, Running, AdapterOverflows
  PROVE  Settles
<1>1. /\ OK(ctl) /\ ctl.running /\ ~ctl.faulted /\ radio \in Radios
      /\ Standing(ctl, radio.dead) /\ Agreed(ctl, radio) /\ Sound(ctl)
  BY Ongoing
<1>2. PICK dead \in BOOLEAN : dead = TRUE
  OBVIOUS
<1>3. ~Untroubled /\ ~radio.dead /\ radio'.dead = dead
  BY <1>1, <1>2 DEF AdapterOverflows, Untroubled, Radios
<1>4. Standing(ctl, dead)
  BY <1>1, <1>2 DEF Standing, Grounded
<1>5. PICK result \in Status : result = FaultResult(radio.station)
  BY NamesTyped DEF FaultResult
<1>6. PICK other \in Status : other = FaultResult(radio.scan)
  BY NamesTyped DEF FaultResult
<1>7. PICK e : e = onOperationFinished(ctl, radio.station.id,
                     radio.station.kind, result, "None", "Ok")
  OBVIOUS
<1>8. /\ OK(e) /\ Standing(e, dead) /\ e.desired = ctl.desired
      /\ "address" \in e.armed => "address" \in ctl.armed
  <2>1. CASE radio.station.id = 0
    BY <1>1, <1>4, <1>7, <2>1 DEF onOperationFinished
  <2>2. CASE radio.station.id # 0
    <3>1. /\ ctl.transition # "None"
          /\ ctl.transition = "Connect" => ctl.initialized
          /\ ctl.transition = "Connect" /\ ~superseded(ctl) =>
               ctl.desired = "Connected"
          /\ ctl.attempted # ctl.revision
      BY <2>2, CommandIsUnderway
    <3>2. Earned(ctl, result, dead)
      BY <1>2, <1>5 DEF Earned, FaultResult
    <3>3. Grounded(ctl, dead) /\ Achieved(ctl)
      BY <1>4 DEF Standing
    <3>4. PICK failure \in ConnectionFailure, written \in Status :
            failure = "None" /\ written = "Ok"
      BY ConstantNames
    <3>5. PICK d : d = stationFinished(ctl, result, failure, written)
      OBVIOUS
    <3>6. /\ Standing(d, dead) /\ d.desired = ctl.desired
          /\ "address" \in d.armed => "address" \in ctl.armed
      BY <1>1, <3>1, <3>2, <3>3, <3>5, StationFinishedStands
    <3>7. OK(d)
      BY <1>1, <3>5, StationFinishedSettles
    <3>8. e = d
      BY <1>1, <1>7, <2>2, <3>4, <3>5
      DEF onOperationFinished, Agreed, OK, Typed, Transition
    <3> QED BY <3>6, <3>7, <3>8
  <2> QED BY <2>1, <2>2
<1>9. PICK d : d = onOperationFinished(e, radio.scan.id, "Scan", other,
                                       "None", "Ok")
  OBVIOUS
<1>10. e.transition # "Scan"
  BY <1>8 DEF OK, Typed, Transition
<1>11. Alike(e, d)
  BY <1>8, <1>9, <1>10, AnyScanAlike
<1>12. Standing(d, dead) /\ Steady(e, d)
  BY <1>8, <1>11, AlikeStands
<1>13. ctl' = d
  BY <1>5, <1>6, <1>7, <1>9 DEF AdapterOverflows
<1>14. Standing(ctl', radio'.dead)
  BY <1>3, <1>12, <1>13
<1>15. "address" \in ctl'.armed =>
         ctl'.desired = ctl.desired /\ ctl.link.phase # "Idle"
  BY <1>1, <1>8, <1>12, <1>13 DEF Steady, Sound, LinkTimed
<1> QED BY <1>3, <1>14, <1>15 DEF Settles

(* A link report is dealt with as the intent wants it. *)
LEMMA LinkChangesSettles ==
  ASSUME QInv, Running, NEW link \in NextLinks, NEW reason \in Answers,
         NEW failure \in Failures, LinkChanges(link, reason, failure)
  PROVE  Settles
<1>1. /\ OK(ctl) /\ ctl.running /\ ~ctl.faulted /\ radio \in Radios
      /\ Standing(ctl, radio.dead) /\ Agreed(ctl, radio) /\ Sound(ctl)
  BY Ongoing
<1>2. reason \in Status /\ failure \in ConnectionFailure
  BY AnswersTyped, ConstantsAssumption
<1>3. link \in [id : Nat, phase : LinkPhase] /\ Plausible(ctl, link)
  BY <1>1, ReportsArePlausible DEF QInv, PInv
<1>4. link.phase = "Connecting" => ctl.link.phase = "Idle"
  <2>1. radio.link \in [id : Nat, phase : LinkPhase] /\ radio.link = ctl.link
    BY <1>1 DEF Radios, Agreed
  <2>2. CASE \E phase \in NextPhase(radio.link.phase) :
               link = [radio.link EXCEPT !.phase = phase]
    <3>1. PICK phase \in NextPhase(radio.link.phase) :
                 link = [radio.link EXCEPT !.phase = phase]
      BY <2>2
    <3>2. phase # "Connecting"
      BY <2>1, <3>1 DEF NextPhase, LinkPhase
    <3> QED BY <2>1, <3>1, <3>2
  <2>3. CASE radio.link.phase = "Idle"
    BY <2>1, <2>3
  <2> QED BY <2>2, <2>3 DEF NextLinks
<1>5. PICK d : d = onLinkChanged(ctl, link, reason, failure)
  OBVIOUS
<1>6. ~radio.dead /\ radio'.dead = radio.dead
  BY <1>1 DEF LinkChanges, Radios
<1>7. Reported(ctl, d, radio.dead)
  BY <1>1, <1>2, <1>3, <1>4, <1>5, <1>6, OnLinkChangedStands
<1>8. ctl' = d /\ store' = store
  BY <1>5 DEF LinkChanges
<1>9. Standing(ctl', radio'.dead)
  BY <1>6, <1>7, <1>8 DEF Reported
<1>10. Untroubled => Stored(ctl', store')
  BY <1>7, <1>8 DEF QInv, Stored, Reported
<1> QED BY <1>6, <1>7, <1>8, <1>9, <1>10 DEF Settles, Reported

(* The radio turns on or off; if only when told, then under an intent that *)
(* is not settled.                                                         *)
LEMMA EnabledChangesSettles ==
  ASSUME QInv, Running, NEW enabled \in BOOLEAN, EnabledChanges(enabled)
  PROVE  Settles
<1>1. /\ OK(ctl) /\ ctl.running /\ ~ctl.faulted /\ radio \in Radios
      /\ Standing(ctl, radio.dead) /\ Agreed(ctl, radio) /\ Sound(ctl)
  BY Ongoing
<1>2. ASSUME Untroubled
      PROVE  /\ ctl.transition = "Enable" /\ ctl.link.phase = "Idle"
             /\ ctl.attempted # ctl.revision
  <2>1. ctl.transition = "Enable"
    BY <1>1, <1>2 DEF EnabledChanges, Untroubled, Agreed
  <2> QED BY <1>1, <2>1 DEF Standing, Grounded, Apart, Underway
<1>3. PICK e : e = [ctl EXCEPT !.enabled = enabled]
  OBVIOUS
<1>4. /\ OK(e) /\ e.link = ctl.link /\ KeptStation(ctl, e)
      /\ KeptScan(ctl, e) /\ SameIntent(ctl, e) /\ SameAttempt(ctl, e)
      /\ SameCharge(ctl, e) /\ e.status = ctl.status
      /\ e.station_timed_out = ctl.station_timed_out
  <2>1. Shape(e)
    BY <1>1, <1>3 DEF OK, Shape
  <2>2. Typed(e)
    BY <1>1, <1>3 DEF OK, Shape, Typed, Fields
  <2> QED BY <1>1, <1>3, <2>1, <2>2 DEF OK, Shape, Fields
<1>5. Apart(e) /\ Intended(e) /\ Underway(e)
  BY <1>1, <1>4 DEF Standing, Grounded, Apart, Intended, Underway
<1>6. (~radio.dead => Heeded(e)) /\ (Untroubled => Powered(e))
  BY <1>1, <1>2, <1>4 DEF Standing, Grounded, Heeded, Powered
<1>7. Achieved(e)
  BY <1>1, <1>2, <1>4 DEF Standing, Achieved
<1>8. Standing(e, radio.dead)
  BY <1>5, <1>6, <1>7 DEF Standing, Grounded
<1>9. PICK d : d = changed(e, "station")
  OBVIOUS
<1>10. Alike(e, d)
  BY <1>4, <1>9, ChangedAlike, ConstantNames
<1>11. Standing(d, radio.dead)
  BY <1>8, <1>10, AlikeStands
<1>12. ctl' = d
  BY <1>1, <1>3, <1>9 DEF EnabledChanges, onEnabledChanged
<1>13. radio'.dead = radio.dead
  BY <1>1 DEF EnabledChanges, Radios
<1>14. Untroubled => Stored(ctl', store')
  BY <1>2, <1>4, <1>10, <1>12 DEF Stored, Alike
<1>15. "address" \in ctl'.armed =>
         ctl'.desired = ctl.desired /\ ctl.link.phase # "Idle"
  BY <1>1, <1>4, <1>10, <1>12 DEF Alike, Sound, LinkTimed
<1>16. Standing(ctl', radio'.dead)
  BY <1>11, <1>12, <1>13
<1> QED BY <1>13, <1>14, <1>15, <1>16 DEF Settles

-----------------------------------------------------------------------------
(* The specification *)

(* Every step ages the deadlines. *)
LEMMA NextAges == Next => Ages
<1>1. Api => Ages
  BY DEF Api, Begin, Shutdown, SetEnabled, Connect, ConnectProfile,
         Disconnect, StartScan, CancelScan, SaveProfile, RemoveProfile,
         WriteProfile
<1>2. Scheduler => Ages
  BY DEF Scheduler, NotifyListeners, Execute, CheckTimeouts, Retry
<1>3. Adapter => Ages
  BY DEF Adapter, LinkChanges, EnabledChanges, StationFinishes,
         ScanFinishes, AdapterOverflows
<1> QED BY <1>1, <1>2, <1>3 DEF Next

(* Only an overflow makes the adapter fall silent. *)
LEMMA OnlyOverflowsKill ==
  ASSUME PInv, PInv', Next, ~Overflows, ~radio.dead
  PROVE  ~radio'.dead
<1>1. radio \in Radios /\ OK(ctl')
  BY InvParts, ControllersTyped DEF PInv, Inv, TypeOK
<1>2. PICK q : q = Submitted(radio, ctl, ctl')
  OBVIOUS
<1>3. ~q.dead
  BY <1>1, <1>2, SubmittedTyped
<1>4. CASE Api
  <2>1. CASE Begin \/ Shutdown
    BY <1>1, <2>1 DEF Begin, Shutdown, NewRadio, Radios
  <2>2. CASE ~(Begin \/ Shutdown)
    BY <1>2, <1>3, <1>4, <2>2
    DEF Api, SetEnabled, Connect, ConnectProfile, Disconnect, StartScan,
        CancelScan, SaveProfile, RemoveProfile, WriteProfile
  <2> QED BY <2>1, <2>2
<1>5. CASE Scheduler
  BY <1>2, <1>3, <1>5
  DEF Scheduler, NotifyListeners, Execute, CheckTimeouts, Retry,
      ExecuteIgnored, ExecuteExhausted, ExecuteSuperseded, ExecuteAwaits,
      ExecutePreempts, ExecuteRestores, ExecuteAdvances
<1>6. CASE Adapter
  BY <1>1, <1>6
  DEF Adapter, LinkChanges, EnabledChanges, StationFinishes, ScanFinishes,
      AdapterOverflows, Radios
<1> QED BY <1>4, <1>5, <1>6 DEF Next

(* After shutdown() nothing runs. *)
LEMMA ShutdownStops == Shutdown => ~ctl'.running
BY DEF Shutdown, NewController

(* Only begin() makes a controller run that did not. *)
LEMMA OnlyBeginStarts ==
  ASSUME PInv, Next, ~Running, Running'
  PROVE  Begin
<1>1. ctl.faulted => ctl'.faulted
  BY NextInv DEF PInv
<1>2. ~ctl.running /\ ctl.tasks = {} /\ ~radio.attached
  BY <1>1, InvParts DEF PInv, Running, Coherent, Lifecycle
<1>3. ~Scheduler /\ ~Adapter
  BY <1>2
  DEF Scheduler, NotifyListeners, Execute, CheckTimeouts, Retry,
      Adapter, LinkChanges, EnabledChanges, StationFinishes, ScanFinishes,
      AdapterOverflows
<1>4. ~Shutdown
  BY ShutdownStops DEF Running
<1>5. Api => Begin
  BY <1>2, <1>4, Admitted
  DEF Api, SetEnabled, Connect, ConnectProfile, Disconnect, StartScan,
      Accepts, CancelScan, SaveProfile, RemoveProfile, WriteProfile
<1> QED BY <1>3, <1>5 DEF Next

(* Every step of a running controller that goes on running settles. *)
LEMMA NextSettles ==
  ASSUME Orderly, QInv, Next, Running, Running', OK(ctl')
  PROVE  Settles
<1>1. ~ctl'.faulted /\ ctl'.running /\ ctl.running
  BY DEF Running
<1>2. CASE Api
  <2>1. ~Begin /\ ~Shutdown
    BY <1>1, ShutdownStops DEF Begin
  <2>2. ASSUME NEW network \in Networks, NEW answer,
               \/ \E automatic \in BOOLEAN :
                    SaveProfile(network, automatic, answer)
               \/ RemoveProfile(network, answer)
        PROVE  Settles
    BY <2>2, WriteProfileSettles DEF SaveProfile, RemoveProfile
  <2> QED BY <1>2, <2>1, <2>2, SetEnabledSettles, ConnectsSettle,
             DisconnectSettles, StartScanSettles, CancelScanSettles DEF Api
<1>3. CASE Scheduler
  <2>1. CASE Execute
    <3>1. PICK c : c = Dispatched("work")
      OBVIOUS
    <3>2. "work" \in ctl.tasks
      BY <2>1 DEF Execute
    <3>3. ExecuteAdvances(c) => Settles
      BY <3>1, <3>2, ExecuteAdvancesSettles
    <3>4. ExecuteRestores(c) => Settles
      BY <3>1, ExecuteRestoresSettles
    <3>5. ASSUME \/ ExecuteIgnored(c) \/ ExecuteExhausted(c)
                 \/ ExecuteSuperseded(c) \/ ExecuteAwaits(c)
                 \/ ExecutePreempts(c)
          PROVE  Settles
      BY <1>1, <3>1, <3>5, ExecuteExitsSettle
    <3> QED BY <2>1, <3>1, <3>3, <3>4, <3>5 DEF Execute
  <2>2. CASE \/ NotifyListeners
             \/ \E expired \in SUBSET Deadline, answer \in Answers :
                  CheckTimeouts(expired, answer)
             \/ \E medium \in StoreAnswers : Retry(medium)
    BY <1>1, <2>2, NotifyListenersSettles, CheckTimeoutsSettles,
       RetrySettles
  <2> QED BY <1>3, <2>1, <2>2 DEF Scheduler
<1>4. CASE Adapter
  BY <1>4, LinkChangesSettles, EnabledChangesSettles,
     StationFinishesSettles, ScanFinishesSettles, AdapterOverflowsSettles
  DEF Adapter
<1> QED BY <1>2, <1>3, <1>4 DEF Next

(* Every step keeps the invariant. *)
LEMMA NextQ ==
  ASSUME Orderly, QInv, Next
  PROVE  QInv'
<1>1. PInv' /\ Ages
  BY NextPromise, NextAges DEF QInv
<1>2. OK(ctl')
  BY <1>1, ControllersTyped DEF PInv, Inv, TypeOK
<1>3. Untroubled => ~radio'.dead
  BY <1>1, OnlyOverflowsKill DEF QInv, Untroubled
<1>4. ASSUME Running'
      PROVE  Settles
  <2>1. CASE Running
    BY <1>2, <1>4, <2>1, NextSettles
  <2>2. CASE ~Running
    BY <1>4, <2>2, OnlyBeginStarts, BeginSettles DEF QInv
  <2> QED BY <2>1, <2>2
<1> QED BY <1>1, <1>3, <1>4, SettlesKeepsQ

(* A stuttering step does, too. *)
LEMMA StutterQ == QInv /\ UNCHANGED vars => QInv'
<1> SUFFICES ASSUME QInv, UNCHANGED vars PROVE QInv'
  OBVIOUS
<1>1. PInv'
  BY StutterPromise DEF QInv
<1>2. /\ ctl' = ctl /\ radio' = radio /\ store' = store /\ young' = young
  BY DEF vars
<1> QED BY <1>1, <1>2 DEF QInv, Running

(* With an orderly adapter, the intent stands in every reachable state. *)
LEMMA IntentsStand ==
  ASSUME Orderly
  PROVE  Spec => []QInv
<1>1. QInv /\ [Next]_vars => QInv'
  BY NextQ, StutterQ
<1> QED BY <1>1, InitQ, PTL DEF Spec

(* An intent that settled without an error has what it asked for: no link, *)
(* unless one is wanted, and a wanted link with its address or a deadline  *)
(* to get it back.  The adapter has to take every command while it works,  *)
(* must not scan while connected, and no timeout of a link may be shorter  *)
(* than a transition's; store errors, faults of the adapter and a radio    *)
(* that turns itself off are all allowed.                                  *)
THEOREM SettledIntentsHold ==
  ASSUME AdapterErrors = {}, ShortTransitions
  PROVE  Spec => []SettledIntentHolds
<1>1. QInv => SettledIntentHolds
  BY DEF QInv, SettledIntentHolds, Standing, Achieved
<1>2. Orderly
  BY DEF Orderly
<1> QED BY <1>1, <1>2, IntentsStand, PTL

(* The restoration of the last profile is not forgotten: an intent settles *)
(* without an error only after it, whatever requests, losses, retries and  *)
(* store errors come in between.                                           *)
THEOREM RestorationsAreNotForgotten ==
  ASSUME AdapterErrors = {}, ShortTransitions
  PROVE  Spec => []RestoreNotForgotten
<1>1. QInv => RestoreNotForgotten
  BY DEF QInv, RestoreNotForgotten, needsStation, Standing, Achieved
<1>2. Orderly
  BY DEF Orderly
<1> QED BY <1>1, <1>2, IntentsStand, PTL

(* An intent that settled without an error left in the store the           *)
(* enablement it asked for, if moreover the store answers, the adapter     *)
(* does not fault and the radio turns on and off only when told.           *)
THEOREM EnablementsArePersisted ==
  ASSUME AdapterErrors = {}, ShortTransitions,
         StoreErrors = {}, ~Overflows, ~Unsolicited
  PROVE  Spec => []EnablementPersisted
<1>1. Orderly /\ Untroubled
  BY DEF Orderly, Untroubled
<1>2. QInv => EnablementPersisted
  <2> SUFFICES ASSUME QInv, Running, ctl.initialized,
                      ctl.attempted = ctl.revision,
                      ctl.transition = "None", ctl.status = "Ok"
               PROVE  store.enabled = Wants(ctl)
    BY DEF EnablementPersisted
  <2>1. Standing(ctl, radio.dead) /\ Stored(ctl, store)
    BY <1>1 DEF QInv
  <2>2. ctl.enabled = Wants(ctl)
    BY <1>1, <2>1 DEF Standing, Achieved
  <2>3. store.enabled = ctl.enabled
    BY <2>1 DEF Stored
  <2> QED BY <2>2, <2>3
<1> QED BY <1>1, <1>2, IntentsStand, PTL

-----------------------------------------------------------------------------
(* What one controller may be to the listeners of another *)

(* The listeners are going to be told of what has changed. *)
Told(d, what) == what \in d.changes /\ "notify" \in d.tasks

(* No invalidation is taken back. *)
Grows(c, d) ==
  /\ d.running = c.running
  /\ c.changes \subseteq d.changes
  /\ "notify" \in c.tasks => "notify" \in d.tasks

(* A view that changed is to be announced. *)
StationTold(c, d) == StationView(d) # StationView(c) => Told(d, "station")

ScanTold(c, d) == ScanView(d) # ScanView(c) => Told(d, "scan")

(* Everything that changed is to be announced. *)
Announces(c, d) ==
  Shape(d) /\ Grows(c, d) /\ StationTold(c, d) /\ ScanTold(c, d)

(* The same, publishing no scan results. *)
Reports(c, d) == Announces(c, d) /\ d.generation = c.generation

(* An edit of the station part, or of the scan part, still to be announced. *)
StationEdit(c, d) ==
  /\ Shape(d) /\ Grows(c, d) /\ ScanTold(c, d)
  /\ d.generation = c.generation

ScanEdit(c, d) == Shape(d) /\ Grows(c, d) /\ StationTold(c, d)

(* The fields that the two views are made of. *)
StationKept(c, d) ==
  /\ d.running = c.running /\ d.faulted = c.faulted
  /\ d.desired = c.desired /\ d.profile = c.profile
  /\ d.connected = c.connected /\ d.enabled = c.enabled /\ d.link = c.link
  /\ d.revision = c.revision /\ d.status = c.status
  /\ d.pending = c.pending /\ d.failure = c.failure
  /\ d.transition = c.transition
  /\ d.transition_enabled = c.transition_enabled
  /\ d.cancelling = c.cancelling

ScanKept(c, d) ==
  /\ d.scan = c.scan /\ d.scan_status = c.scan_status
  /\ d.scan_revision = c.scan_revision /\ d.generation = c.generation

(* No invalidation is added, or taken back. *)
TasksKept(c, d) ==
  /\ d.running = c.running /\ d.changes = c.changes
  /\ "notify" \in c.tasks => "notify" \in d.tasks

(* A view changes only with the fields that it is made of. *)
LEMMA KeptViews ==
  ASSUME NEW c, NEW d
  PROVE  /\ StationKept(c, d) => StationTold(c, d)
         /\ ScanKept(c, d) => ScanTold(c, d) /\ d.generation = c.generation
         /\ TasksKept(c, d) => Grows(c, d)
<1>1. ASSUME StationKept(c, d) PROVE StationView(d) = StationView(c)
  <2>1. stationPhase(d) = stationPhase(c)
    BY <1>1 DEF StationKept, stationPhase
  <2> QED BY <1>1, <2>1 DEF StationKept, StationView
<1>2. ASSUME ScanKept(c, d) PROVE ScanView(d) = ScanView(c)
  BY <1>2 DEF ScanKept, ScanView
<1> QED BY <1>1, <1>2 DEF StationTold, ScanTold, ScanKept, TasksKept, Grows

(* Nothing that the listeners see has changed. *)
LEMMA UnseenReports ==
  ASSUME NEW c, NEW d, Shape(d),
         StationKept(c, d), ScanKept(c, d), TasksKept(c, d)
  PROVE  Reports(c, d)
BY KeptViews DEF Reports, Announces

(* What is announced stays announced. *)
LEMMA ToldTransitive ==
  ASSUME NEW c, NEW d, NEW e, Grows(c, d), Grows(d, e)
  PROVE  /\ Grows(c, e)
         /\ StationTold(c, d) /\ StationTold(d, e) => StationTold(c, e)
         /\ ScanTold(c, d) /\ ScanTold(d, e) => ScanTold(c, e)
<1>1. Grows(c, e)
  BY DEF Grows
<1>2. ASSUME NEW what, Told(d, what) PROVE Told(e, what)
  BY <1>2 DEF Told, Grows
<1> QED BY <1>1, <1>2 DEF StationTold, ScanTold

(* The relations compose. *)
LEMMA ReportsTransitive ==
  ASSUME NEW c, NEW d, NEW e, Reports(c, d)
  PROVE  /\ Reports(d, e) => Reports(c, e)
         /\ Announces(d, e) => Announces(c, e)
         /\ StationEdit(d, e) => StationEdit(c, e)
         /\ ScanEdit(d, e) => ScanEdit(c, e)
BY ToldTransitive DEF Reports, Announces, StationEdit, ScanEdit

(* An edit may go on. *)
LEMMA StationEditTransitive ==
  ASSUME NEW c, NEW d, NEW e, StationEdit(c, d)
  PROVE  /\ Reports(d, e) => StationEdit(c, e)
         /\ StationEdit(d, e) => StationEdit(c, e)
BY ToldTransitive DEF Reports, Announces, StationEdit

(* What publishes results may be followed by what publishes none. *)
LEMMA AnnouncesTransitive ==
  ASSUME NEW c, NEW d, NEW e, Announces(c, d), Reports(d, e)
  PROVE  Announces(c, e) /\ e.generation = d.generation
BY ToldTransitive DEF Reports, Announces

(* A method that returns early reports all there is. *)
LEMMA ReportsSame ==
  ASSUME NEW c, Shape(c)
  PROVE  Reports(c, c) /\ StationEdit(c, c) /\ ScanEdit(c, c)
BY DEF Reports, Announces, StationEdit, ScanEdit, Grows, StationTold, ScanTold

(* changed() schedules the notification. *)
LEMMA ChangedReports ==
  ASSUME NEW c, Shape(c), c.running, NEW what
  PROVE  LET d == changed(c, what)
         IN  Reports(c, d) /\ Told(d, what) /\ d.running
<1>1. PICK d : d = [c EXCEPT !.changes = @ \cup {what},
                             !.tasks = @ \cup {"notify"}]
  OBVIOUS
<1>2. changed(c, what) = d
  BY <1>1 DEF changed
<1>3. Shape(d)
  BY <1>1 DEF Shape
<1>4. /\ StationKept(c, d) /\ ScanKept(c, d) /\ d.running = c.running
      /\ d.changes = c.changes \cup {what}
      /\ d.tasks = c.tasks \cup {"notify"}
  BY <1>1 DEF Shape, Fields, StationKept, ScanKept
<1>5. Grows(c, d) /\ Told(d, what)
  BY <1>4 DEF Grows, Told
<1> QED BY <1>2, <1>3, <1>4, <1>5, KeptViews DEF Reports, Announces

(* changed() announces the station part that was edited. *)
LEMMA StationAnnounced ==
  ASSUME NEW c, NEW e, c.running, StationEdit(c, e)
  PROVE  Reports(c, changed(e, "station"))
<1>1. PICK d : d = changed(e, "station")
  OBVIOUS
<1>2. Reports(e, d) /\ Told(d, "station")
  BY <1>1, ChangedReports DEF StationEdit, Grows
<1>3. StationEdit(c, d)
  BY <1>2, StationEditTransitive
<1> QED BY <1>1, <1>2, <1>3 DEF StationEdit, Reports, Announces, StationTold

(* changed() announces the scan part that was edited. *)
LEMMA ScanAnnounced ==
  ASSUME NEW c, NEW e, c.running, ScanEdit(c, e)
  PROVE  LET d == changed(e, "scan")
         IN  Announces(c, d) /\ d.generation = e.generation
<1>1. PICK d : d = changed(e, "scan")
  OBVIOUS
<1>2. Reports(e, d) /\ Told(d, "scan")
  BY <1>1, ChangedReports DEF ScanEdit, Grows
<1>3. Grows(c, d) /\ StationTold(c, d)
  BY <1>2, ToldTransitive DEF ScanEdit, Reports, Announces
<1> QED BY <1>1, <1>2, <1>3 DEF Reports, Announces, ScanTold

(* Scheduling execute() is not shown. *)
LEMMA ScheduleWorkReports ==
  ASSUME NEW c, Shape(c)
  PROVE  Reports(c, scheduleWork(c))
<1>1. PICK d : d = scheduleWork(c)
  OBVIOUS
<1>2. Shape(d)
  BY <1>1 DEF Shape, scheduleWork
<1>3. StationKept(c, d) /\ ScanKept(c, d)
  BY <1>1 DEF Shape, Fields, scheduleWork, StationKept, ScanKept
<1>4. TasksKept(c, d)
  BY <1>1 DEF Shape, Fields, scheduleWork, TasksKept
<1> QED BY <1>1, <1>2, <1>3, <1>4, UnseenReports

(* Neither is scheduling the timer. *)
LEMMA ScheduleTimeoutsReports ==
  ASSUME NEW c, Shape(c)
  PROVE  Reports(c, scheduleTimeouts(c))
<1>1. PICK d : d = scheduleTimeouts(c)
  OBVIOUS
<1>2. Shape(d)
  BY <1>1 DEF Shape, scheduleTimeouts
<1>3. StationKept(c, d) /\ ScanKept(c, d)
  BY <1>1 DEF Shape, Fields, scheduleTimeouts, StationKept, ScanKept
<1>4. TasksKept(c, d)
  BY <1>1 DEF Shape, Fields, scheduleTimeouts, TasksKept
<1> QED BY <1>1, <1>2, <1>3, <1>4, UnseenReports

(* The two calls with which most handlers end. *)
LEMMA ScheduledReports ==
  ASSUME NEW c, NEW e
  PROVE  LET d == scheduleTimeouts(scheduleWork(e))
         IN  /\ Reports(c, e) => Reports(c, d)
             /\ Announces(c, e) =>
                  Announces(c, d) /\ d.generation = e.generation
<1>1. PICK f : f = scheduleWork(e)
  OBVIOUS
<1>2. PICK d : d = scheduleTimeouts(f)
  OBVIOUS
<1>3. ASSUME Shape(e) PROVE Reports(e, d)
  <2>1. Reports(e, f)
    BY <1>1, <1>3, ScheduleWorkReports
  <2>2. Reports(f, d)
    BY <1>2, <2>1, ScheduleTimeoutsReports DEF Reports, Announces
  <2> QED BY <2>1, <2>2, ReportsTransitive
<1>4. Announces(c, e) => Shape(e)
  BY DEF Announces
<1>5. Reports(c, e) => Announces(c, e)
  BY DEF Reports
<1> QED BY <1>1, <1>2, <1>3, <1>4, <1>5, ReportsTransitive,
           AnnouncesTransitive

(* cancelRetry() takes back a retry, which is still to be announced. *)
LEMMA CancelRetryEdits ==
  ASSUME NEW c, Shape(c)
  PROVE  StationEdit(c, cancelRetry(c))
<1>1. PICK d : d = cancelRetry(c)
  OBVIOUS
<1>2. Shape(d)
  BY <1>1 DEF Shape, cancelRetry
<1>3. ScanKept(c, d) /\ TasksKept(c, d)
  BY <1>1 DEF Shape, Fields, cancelRetry, ScanKept, TasksKept
<1> QED BY <1>1, <1>2, <1>3, KeptViews DEF StationEdit

(* newIntent() announces the intent that was edited. *)
LEMMA NewIntentReports ==
  ASSUME NEW c, NEW e, c.running, StationEdit(c, e)
  PROVE  Reports(c, newIntent(e))
<1>1. PICK d : d = cancelRetry(e)
  OBVIOUS
<1>2. StationEdit(e, d)
  BY <1>1, CancelRetryEdits DEF StationEdit
<1>3. PICK f : f = [d EXCEPT !.revision = @ + 1, !.status = "Ok",
                             !.failure = "None", !.level = 0, !.armed = {}]
  OBVIOUS
<1>4. Shape(f)
  BY <1>2, <1>3 DEF Shape, StationEdit
<1>5. ScanKept(d, f) /\ TasksKept(d, f)
  BY <1>2, <1>3 DEF StationEdit, Shape, Fields, ScanKept, TasksKept
<1>6. StationEdit(d, f)
  BY <1>4, <1>5, KeptViews DEF StationEdit
<1>7. StationEdit(c, f)
  BY <1>2, <1>6, StationEditTransitive
<1>8. PICK g : g = changed(f, "station")
  OBVIOUS
<1>9. Reports(c, g)
  BY <1>7, <1>8, StationAnnounced
<1>10. Reports(g, scheduleWork(g))
  BY <1>9, ScheduleWorkReports DEF Reports, Announces
<1>11. newIntent(e) = scheduleWork(g)
  BY <1>1, <1>3, <1>8 DEF newIntent, Replaced
<1> QED BY <1>9, <1>10, <1>11, ReportsTransitive

(* connectionFailed() charges a failure, which is still to be announced.   *)
LEMMA ConnectionFailedEdits ==
  ASSUME NEW c, Shape(c), NEW status, NEW failure
  PROVE  StationEdit(c, connectionFailed(c, status, failure))
<1>1. PICK d : d = [c EXCEPT !.status = status, !.armed = {},
                             !.failure = IF failure = "None" THEN "Transient"
                                         ELSE failure]
  OBVIOUS
<1>2. Shape(d)
  BY <1>1 DEF Shape
<1>3. ScanKept(c, d) /\ TasksKept(c, d)
  BY <1>1 DEF Shape, Fields, ScanKept, TasksKept
<1>4. StationEdit(c, d)
  BY <1>2, <1>3, KeptViews DEF StationEdit
<1>5. PICK e : e = [d EXCEPT !.pending = TRUE, !.level = nextLevel(@),
                             !.tasks = @ \cup {"reconnect"}]
  OBVIOUS
<1>6. Shape(e)
  BY <1>2, <1>5 DEF Shape
<1>7. ScanKept(d, e) /\ TasksKept(d, e)
  BY <1>2, <1>5 DEF Shape, Fields, ScanKept, TasksKept
<1>8. StationEdit(d, e)
  BY <1>6, <1>7, KeptViews DEF StationEdit
<1>9. connectionFailed(c, status, failure) \in {d, e}
  BY <1>1, <1>5 DEF connectionFailed
<1> QED BY <1>4, <1>8, <1>9, StationEditTransitive

(* fault() announces that the scan has ended and the station has failed. *)
LEMMA FaultReports ==
  ASSUME NEW c, Shape(c), c.running, NEW status
  PROVE  Reports(c, fault(c, status))
<1>1. PICK s : s = [c EXCEPT !.scan = "Idle", !.scan_status = status]
  OBVIOUS
<1>2. Shape(s)
  BY <1>1 DEF Shape
<1>3. /\ StationKept(c, s) /\ TasksKept(c, s)
      /\ s.generation = c.generation
  BY <1>1 DEF Shape, Fields, StationKept, TasksKept
<1>4. Reports(c, changed(s, "scan"))
  BY <1>2, <1>3, KeptViews, ScanAnnounced DEF ScanEdit, Reports
<1>5. PICK t : t = IF isScanning(c) THEN changed(s, "scan") ELSE c
  OBVIOUS
<1>6. Reports(c, t)
  BY <1>4, <1>5, ReportsSame
<1>7. PICK u : u = [t EXCEPT !.faulted = TRUE, !.status = status,
                             !.scan_id = 0, !.station_id = 0,
                             !.transition = "None", !.secret = NoNetwork,
                             !.armed = {}, !.tasks = @ \ {"timer"}]
  OBVIOUS
<1>8. Shape(t)
  BY <1>6 DEF Reports, Announces
<1>9. Shape(u)
  BY <1>7, <1>8 DEF Shape
<1>10. ScanKept(t, u) /\ TasksKept(t, u)
  BY <1>7, <1>8 DEF Shape, Fields, ScanKept, TasksKept
<1>11. StationEdit(t, u)
  BY <1>9, <1>10, KeptViews DEF StationEdit
<1>12. StationEdit(c, cancelRetry(u))
  BY <1>6, <1>9, <1>11, CancelRetryEdits, StationEditTransitive,
     ReportsTransitive
<1>13. fault(c, status) = changed(cancelRetry(u), "station")
  BY <1>1, <1>5, <1>7 DEF fault
<1> QED BY <1>12, <1>13, StationAnnounced

(* requestConnection() announces a new intent; the flag that it corrects   *)
(* on a repeated request is not shown.                                     *)
LEMMA RequestConnectionReports ==
  ASSUME NEW c, Shape(c), c.running, NEW network, NEW profile, NEW automatic
  PROVE  Reports(c, requestConnection(c, network, profile, automatic))
<1>1. PICK d : d = [c EXCEPT !.auto = automatic]
  OBVIOUS
<1>2. Shape(d)
  BY <1>1 DEF Shape
<1>3. StationKept(c, d) /\ ScanKept(c, d) /\ TasksKept(c, d)
  BY <1>1 DEF Shape, Fields, StationKept, ScanKept, TasksKept
<1>4. Reports(c, d)
  BY <1>2, <1>3, UnseenReports
<1>5. PICK e : e = [c EXCEPT !.config = network, !.secret = network,
                             !.desired = "Connected", !.profile = profile,
                             !.auto = automatic, !.restore = FALSE]
  OBVIOUS
<1>6. Shape(e)
  BY <1>5 DEF Shape
<1>7. ScanKept(c, e) /\ TasksKept(c, e)
  BY <1>5 DEF Shape, Fields, ScanKept, TasksKept
<1>8. StationEdit(c, e)
  BY <1>6, <1>7, KeptViews DEF StationEdit
<1>9. Reports(c, newIntent(e))
  BY <1>8, NewIntentReports
<1>10. requestConnection(c, network, profile, automatic) \in {d, newIntent(e)}
  BY <1>1, <1>5 DEF requestConnection
<1> QED BY <1>4, <1>9, <1>10

(* cancelScan() announces that the scan is being cancelled. *)
LEMMA CancelScanReports ==
  ASSUME NEW c, Shape(c), c.running, NEW answer
  PROVE  Reports(c, cancelScan(c, answer))
<1>1. ASSUME NEW e, Shape(e), StationKept(c, e), TasksKept(c, e),
             e.generation = c.generation
      PROVE  Reports(c, scheduleTimeouts(scheduleWork(changed(e, "scan"))))
  <2>1. Reports(c, changed(e, "scan"))
    BY <1>1, KeptViews, ScanAnnounced DEF ScanEdit, Reports
  <2> QED BY <2>1, ScheduledReports
<1>2. CASE c.scan = "Queued"
  <2>1. PICK e : e = [c EXCEPT !.scan = "Idle", !.scan_status = "Cancelled"]
    OBVIOUS
  <2>2. Shape(e)
    BY <2>1 DEF Shape
  <2>3. /\ StationKept(c, e) /\ TasksKept(c, e)
        /\ e.generation = c.generation
    BY <2>1 DEF Shape, Fields, StationKept, TasksKept
  <2>4. cancelScan(c, answer)
          = scheduleTimeouts(scheduleWork(changed(e, "scan")))
    BY <1>2, <2>1 DEF cancelScan
  <2> QED BY <1>1, <2>2, <2>3, <2>4
<1>3. CASE c.scan = "Running" /\ answer = "Ok"
  <2>1. PICK e : e = [c EXCEPT !.scan = "Cancelling"]
    OBVIOUS
  <2>2. Shape(e)
    BY <2>1 DEF Shape
  <2>3. /\ StationKept(c, e) /\ TasksKept(c, e)
        /\ e.generation = c.generation
    BY <2>1 DEF Shape, Fields, StationKept, TasksKept
  <2>4. cancelScan(c, answer)
          = scheduleTimeouts(scheduleWork(changed(e, "scan")))
    BY <1>3, <2>1 DEF cancelScan
  <2> QED BY <1>1, <2>2, <2>3, <2>4
<1>4. CASE c.scan # "Queued" /\ ~(c.scan = "Running" /\ answer = "Ok")
  BY <1>4, ReportsSame DEF cancelScan
<1> QED BY <1>2, <1>3, <1>4

(* A scan's completion is announced, and publishes results only if the     *)
(* scan was not being cancelled.                                           *)
LEMMA ScanFinishedAnnounces ==
  ASSUME NEW c, Shape(c), c.running, NEW result, NEW read
  PROVE  LET d == scanFinished(c, result, read)
         IN  /\ Announces(c, d)
             /\ c.scan = "Cancelling" \/ result # "Ok" =>
                  d.generation = c.generation
<1>1. PICK status : status = scanOutcome(c, result, read)
  OBVIOUS
<1>2. PICK e : e = [c EXCEPT !.scan_id = 0, !.scan = "Idle",
                             !.scan_status = status,
                             !.generation = IF status = "Ok" THEN @ + 1
                                            ELSE @]
  OBVIOUS
<1>3. Shape(e)
  BY <1>2 DEF Shape
<1>4. /\ StationKept(c, e) /\ TasksKept(c, e)
      /\ status # "Ok" => e.generation = c.generation
  BY <1>2 DEF Shape, Fields, StationKept, TasksKept
<1>5. ScanEdit(c, e)
  BY <1>3, <1>4, KeptViews DEF ScanEdit
<1>6. c.scan = "Cancelling" \/ result # "Ok" => status # "Ok"
  BY <1>1 DEF scanOutcome
<1>7. PICK f : f = changed(e, "scan")
  OBVIOUS
<1>8. Announces(c, f) /\ f.generation = e.generation
  BY <1>5, <1>7, ScanAnnounced
<1>9. PICK d : d = scheduleTimeouts(scheduleWork(f))
  OBVIOUS
<1>10. Announces(c, d) /\ d.generation = f.generation
  BY <1>8, <1>9, ScheduledReports
<1>11. scanFinished(c, result, read) = d
  BY <1>1, <1>2, <1>7, <1>9 DEF scanFinished
<1> QED BY <1>4, <1>6, <1>8, <1>10, <1>11

(* A station operation's completion is announced, superseded or not. *)
LEMMA StationFinishedReports ==
  ASSUME NEW c, Shape(c), c.running, NEW result, NEW failure, NEW written
  PROVE  Reports(c, stationFinished(c, result, failure, written))
<1>1. PICK status :
        status = IF WritesEnabled(c, result) \/ WritesLast(c, result)
                 THEN written ELSE StationStatus(c, result)
  OBVIOUS
<1>2. PICK q : q = retireStation(c)
  OBVIOUS
<1>3. Shape(q)
  BY <1>2 DEF Shape, retireStation
<1>4. ScanKept(c, q) /\ TasksKept(c, q)
  BY <1>2 DEF Shape, Fields, retireStation, ScanKept, TasksKept
<1>5. PICK w : w = (q.initialized \/ WritesEnabled(c, result))
  OBVIOUS
<1>6. PICK r : r = [q EXCEPT !.initialized = w]
  OBVIOUS
<1>7. Shape(r)
  BY <1>3, <1>6 DEF Shape
<1>8. ScanKept(q, r) /\ TasksKept(q, r)
  BY <1>3, <1>6 DEF Shape, Fields, ScanKept, TasksKept
<1>9. PICK co, at :
        /\ co = IF /\ c.transition = "Connect"
                   /\ StationStatus(c, result) = "Ok"
                THEN c.profile ELSE r.connected
        /\ at = IF c.transition = "Connect" \/ status # "Ok"
                THEN c.revision ELSE r.attempted
  OBVIOUS
<1>10. PICK u : u = [r EXCEPT !.status = status, !.connected = co,
                              !.attempted = at]
  OBVIOUS
<1>11. Shape(u)
  BY <1>7, <1>10 DEF Shape
<1>12. ScanKept(r, u) /\ TasksKept(r, u)
  BY <1>7, <1>10 DEF Shape, Fields, ScanKept, TasksKept
<1>13. StationEdit(c, r) /\ StationEdit(c, u)
  <2>1. StationEdit(c, q) /\ StationEdit(q, r) /\ StationEdit(r, u)
    BY <1>3, <1>4, <1>7, <1>8, <1>11, <1>12, KeptViews DEF StationEdit
  <2> QED BY <2>1, StationEditTransitive
<1>14. PICK f : f = IF c.station_timed_out THEN c.timeout_failure ELSE failure
  OBVIOUS
<1>15. StationEdit(c, connectionFailed(u, status, f))
  BY <1>11, <1>13, ConnectionFailedEdits, StationEditTransitive
<1>16. r = [retireStation(c) EXCEPT
              !.initialized = @ \/ WritesEnabled(c, result)]
  BY <1>2, <1>5, <1>6
<1>17. u = [r EXCEPT
              !.status = status,
              !.connected = IF /\ c.transition = "Connect"
                               /\ StationStatus(c, result) = "Ok"
                            THEN c.profile ELSE @,
              !.attempted = IF c.transition = "Connect" \/ status # "Ok"
                            THEN c.revision ELSE @]
  BY <1>9, <1>10
<1>18. PICK v : /\ v \in {r, u, connectionFailed(u, status, f)}
                /\ stationFinished(c, result, failure, written)
                     = scheduleTimeouts(scheduleWork(changed(v, "station")))
  BY <1>1, <1>14, <1>16, <1>17 DEF stationFinished
<1>19. Reports(c, changed(v, "station"))
  BY <1>13, <1>15, <1>18, StationAnnounced
<1> QED BY <1>18, <1>19, ScheduledReports

(* onEnabledChanged() announces what it saw. *)
LEMMA OnEnabledChangedReports ==
  ASSUME NEW c, Shape(c), c.running, NEW enabled
  PROVE  Reports(c, onEnabledChanged(c, enabled))
<1>1. PICK d : d = [c EXCEPT !.enabled = enabled]
  OBVIOUS
<1>2. Shape(d)
  BY <1>1 DEF Shape
<1>3. ScanKept(c, d) /\ TasksKept(c, d)
  BY <1>1 DEF Shape, Fields, ScanKept, TasksKept
<1>4. Reports(c, changed(d, "station"))
  BY <1>2, <1>3, KeptViews, StationAnnounced DEF StationEdit
<1> QED BY <1>1, <1>4, ReportsSame DEF onEnabledChanged

(* onLinkChanged() announces the link, and the retry that it settles or    *)
(* charges.                                                                *)
LEMMA OnLinkChangedReports ==
  ASSUME NEW c, Shape(c), c.running, NEW link, NEW reason, NEW failure
  PROVE  Reports(c, onLinkChanged(c, link, reason, failure))
<1>1. StationEdit(c, Established(c, link))
  <2>1. PICK up : up = [c EXCEPT
          !.link = link,
          !.armed = (@ \ {"address"}) \cup
                    {d \in {"stable"} : c.link.phase # "AddressReady"}]
    OBVIOUS
  <2>2. Shape(up)
    BY <2>1 DEF Shape
  <2>3. ScanKept(c, up) /\ TasksKept(c, up)
    BY <2>1 DEF Shape, Fields, ScanKept, TasksKept
  <2>4. StationEdit(c, up)
    BY <2>2, <2>3, KeptViews DEF StationEdit
  <2>5. PICK e : e = cancelRetry(up)
    OBVIOUS
  <2>6. StationEdit(c, e) /\ Shape(e)
    BY <2>2, <2>4, <2>5, CancelRetryEdits, StationEditTransitive
    DEF StationEdit
  <2>7. PICK d : d = [e EXCEPT !.attempted = c.revision, !.status = "Ok"]
    OBVIOUS
  <2>8. Shape(d)
    BY <2>6, <2>7 DEF Shape
  <2>9. ScanKept(e, d) /\ TasksKept(e, d)
    BY <2>6, <2>7 DEF Shape, Fields, ScanKept, TasksKept
  <2>10. StationEdit(e, d)
    BY <2>8, <2>9, KeptViews DEF StationEdit
  <2>11. Established(c, link) \in {up, d}
    BY <2>1, <2>5, <2>7 DEF Established
  <2> QED BY <2>4, <2>6, <2>10, <2>11, StationEditTransitive
<1>2. StationEdit(c, Degraded(c, link))
  <2>1. PICK armed : armed = (c.armed \ {"stable"}) \cup
          {d \in {"address"} : /\ c.link.phase = "AddressReady"
                               /\ link.phase = "Associated"
                               /\ c.transition = "None"}
    OBVIOUS
  <2>2. PICK d : d = [c EXCEPT !.link = link, !.armed = armed]
    OBVIOUS
  <2>3. Shape(d)
    BY <2>2 DEF Shape
  <2>4. ScanKept(c, d) /\ TasksKept(c, d)
    BY <2>2 DEF Shape, Fields, ScanKept, TasksKept
  <2>5. Degraded(c, link) = d
    BY <2>1, <2>2 DEF Degraded
  <2> QED BY <2>3, <2>4, <2>5, KeptViews DEF StationEdit
<1>3. StationEdit(c, Lost(c, link, reason, failure))
  <2>1. PICK down : down = [c EXCEPT !.link = link, !.armed = {},
                                     !.connected = NoNetwork]
    OBVIOUS
  <2>2. Shape(down)
    BY <2>1 DEF Shape
  <2>3. ScanKept(c, down) /\ TasksKept(c, down)
    BY <2>1 DEF Shape, Fields, ScanKept, TasksKept
  <2>4. StationEdit(c, down)
    BY <2>2, <2>3, KeptViews DEF StationEdit
  <2>5. PICK st : st = IF reason = "Ok" THEN "ConnectionFailed" ELSE reason
    OBVIOUS
  <2>6. StationEdit(c, connectionFailed(down, st, failure))
    BY <2>2, <2>4, ConnectionFailedEdits, StationEditTransitive
  <2>7. Lost(c, link, reason, failure)
          \in {down, connectionFailed(down, st, failure)}
    BY <2>1, <2>5 DEF Lost
  <2> QED BY <2>4, <2>6, <2>7
<1>4. ASSUME NEW e, StationEdit(c, e)
      PROVE  Reports(c, scheduleTimeouts(changed(e, "station")))
  <2>1. PICK f : f = changed(e, "station")
    OBVIOUS
  <2>2. Reports(c, f)
    BY <1>4, <2>1, StationAnnounced
  <2>3. Reports(f, scheduleTimeouts(f))
    BY <2>2, ScheduleTimeoutsReports DEF Reports, Announces
  <2> QED BY <2>1, <2>2, <2>3, ReportsTransitive
<1>5. \/ onLinkChanged(c, link, reason, failure) = c
      \/ \E e \in {Established(c, link), Degraded(c, link),
                   Lost(c, link, reason, failure)} :
           onLinkChanged(c, link, reason, failure)
             = scheduleTimeouts(changed(e, "station"))
  BY DEF onLinkChanged
<1> QED BY <1>1, <1>2, <1>3, <1>4, <1>5, ReportsSame

(* A completion is announced by the operation that takes it; only one with *)
(* kOk for a scan that is not being cancelled publishes results.           *)
LEMMA OperationAnnounces ==
  ASSUME NEW c, Shape(c), c.running, NEW id, NEW kind, NEW result,
         NEW failure, NEW answer,
         NEW d, d = onOperationFinished(c, id, kind, result, failure, answer)
  PROVE  /\ Announces(c, d)
         /\ \/ kind # "Scan" \/ c.faulted \/ c.scan = "Cancelling"
            \/ result # "Ok"
            => d.generation = c.generation
<1>2. CASE d = c
  BY <1>2, ReportsSame DEF Reports
<1>3. CASE kind = "Scan" /\ ~c.faulted /\ d = scanFinished(c, result, answer)
  BY <1>3, ScanFinishedAnnounces
<1>4. CASE d = stationFinished(c, result, failure, answer)
  BY <1>4, StationFinishedReports DEF Reports
<1>5. \/ d = c
      \/ kind = "Scan" /\ ~c.faulted /\ d = scanFinished(c, result, answer)
      \/ d = stationFinished(c, result, failure, answer)
  BY DEF onOperationFinished
<1> QED BY <1>2, <1>3, <1>4, <1>5

(* Submitting a station command is announced, and so is its rejection. *)
LEMMA StartTransitionReports ==
  ASSUME NEW c, NEW e, c.running, StationEdit(c, e), NEW kind, kind # "Scan",
         NEW answer
  PROVE  Reports(c, startTransition(e, kind, answer))
<1>1. Shape(e) /\ e.running
  BY DEF StationEdit, Grows
<1>2. PICK te : te = IF kind = "Enable" THEN Wants(e)
                     ELSE e.transition_enabled
  OBVIOUS
<1>3. PICK s : s = [e EXCEPT !.transition = kind, !.transition_enabled = te,
                             !.station_id = e.next_id, !.next_id = @ + 1]
  OBVIOUS
<1>4. Shape(s)
  BY <1>1, <1>3 DEF Shape
<1>5. ScanKept(e, s) /\ TasksKept(e, s)
  BY <1>1, <1>3 DEF Shape, Fields, ScanKept, TasksKept
<1>6. StationEdit(c, s)
  BY <1>4, <1>5, KeptViews, StationEditTransitive DEF StationEdit
<1>7. PICK f : f = changed(s, "station")
  OBVIOUS
<1>8. Reports(c, f)
  BY <1>6, <1>7, StationAnnounced
<1>9. Shape(f) /\ f.running
  BY <1>8 DEF Reports, Announces, Grows
<1>10. PICK g : g = onOperationFinished(f, e.next_id, kind, answer, "None",
                                        "Ok")
  OBVIOUS
<1>11. Reports(f, g)
  BY <1>9, <1>10, OperationAnnounces DEF Reports
<1>12. s = [e EXCEPT !.transition = kind,
                     !.transition_enabled = IF kind = "Enable" THEN Wants(e)
                                            ELSE @,
                     !.station_id = e.next_id, !.next_id = @ + 1]
  BY <1>2, <1>3
<1>13. startTransition(e, kind, answer) = IF answer = "Ok" THEN f ELSE g
  BY <1>7, <1>10, <1>12 DEF startTransition
<1> QED BY <1>8, <1>11, <1>13, ReportsTransitive

(* Submitting the scan is announced, and so is its rejection. *)
LEMMA StartScanningReports ==
  ASSUME NEW c, Shape(c), c.running, NEW answer
  PROVE  Reports(c, startScanning(c, answer))
<1>1. PICK s : s = [c EXCEPT !.scan = "Running", !.scan_id = c.next_id,
                             !.next_id = @ + 1]
  OBVIOUS
<1>2. Shape(s)
  BY <1>1 DEF Shape
<1>3. /\ StationKept(c, s) /\ TasksKept(c, s)
      /\ s.generation = c.generation
  BY <1>1 DEF Shape, Fields, StationKept, TasksKept
<1>4. PICK f : f = changed(s, "scan")
  OBVIOUS
<1>5. Reports(c, f)
  BY <1>2, <1>3, <1>4, KeptViews, ScanAnnounced DEF ScanEdit, Reports
<1>6. Shape(f) /\ f.running
  BY <1>5 DEF Reports, Announces, Grows
<1>7. PICK g : g = onOperationFinished(f, c.next_id, "Scan", answer, "None",
                                       "Ok")
  OBVIOUS
<1>8. answer # "Ok" => Reports(f, g)
  BY <1>6, <1>7, OperationAnnounces DEF Reports
<1>9. startScanning(c, answer) = IF answer = "Ok" THEN f ELSE g
  BY <1>1, <1>4, <1>7 DEF startScanning
<1> QED BY <1>5, <1>8, <1>9, ReportsTransitive

(* The pass of execute() that takes up the intent is not shown. *)
LEMMA TakenUpReports ==
  ASSUME NEW c, Shape(c), NEW restore
  PROVE  Reports(c, [c EXCEPT !.active = c.revision,
                              !.station_timed_out = FALSE,
                              !.restore = restore])
<1>1. PICK d : d = [c EXCEPT !.active = c.revision,
                             !.station_timed_out = FALSE,
                             !.restore = restore]
  OBVIOUS
<1>2. Shape(d)
  BY <1>1 DEF Shape
<1>3. StationKept(c, d) /\ ScanKept(c, d) /\ TasksKept(c, d)
  BY <1>1 DEF Shape, Fields, StationKept, ScanKept, TasksKept
<1> QED BY <1>1, <1>2, <1>3, UnseenReports

(* execute() announces the step that it takes towards the intent. *)
LEMMA AdvanceReports ==
  ASSUME NEW c, Shape(c), c.running, NEW answer
  PROVE  Reports(c, advance(c, answer))
<1>1. PICK d : d = [c EXCEPT !.active = c.revision,
                             !.station_timed_out = FALSE]
  OBVIOUS
<1>2. Shape(d)
  BY <1>1 DEF Shape
<1>3. ScanKept(c, d) /\ TasksKept(c, d)
  BY <1>1 DEF Shape, Fields, ScanKept, TasksKept
<1>4. StationEdit(c, d)
  BY <1>2, <1>3, KeptViews DEF StationEdit
<1>5. PICK e : e = [d EXCEPT !.attempted = c.revision]
  OBVIOUS
<1>6. Shape(e)
  BY <1>2, <1>5 DEF Shape
<1>7. ScanKept(d, e) /\ TasksKept(d, e)
  BY <1>2, <1>5 DEF Shape, Fields, ScanKept, TasksKept
<1>8. StationEdit(c, e)
  BY <1>4, <1>6, <1>7, KeptViews, StationEditTransitive DEF StationEdit
<1>9. Reports(c, changed(e, "station"))
  BY <1>8, StationAnnounced
<1>10. ASSUME NEW kind \in {"Disconnect", "Enable", "Connect"}
       PROVE  Reports(c, startTransition(d, kind, answer))
  BY <1>4, <1>10, StartTransitionReports
<1>11. \/ advance(c, answer) = changed(e, "station")
       \/ \E kind \in {"Disconnect", "Enable", "Connect"} :
            advance(c, answer) = startTransition(d, kind, answer)
  BY <1>1, <1>5 DEF advance
<1> QED BY <1>9, <1>10, <1>11

(* execute() announces the connection that it restores, or why it cannot. *)
LEMMA RestoreProfileReports ==
  ASSUME NEW c, Shape(c), c.running, NEW last, NEW status, NEW automatic
  PROVE  Reports(c, restoreProfile(c, last, status, automatic))
<1>1. PICK d : d = [c EXCEPT !.active = c.revision,
                             !.station_timed_out = FALSE, !.restore = FALSE]
  OBVIOUS
<1>2. Reports(c, d)
  BY <1>1, TakenUpReports
<1>3. Shape(d) /\ d.running
  BY <1>2 DEF Reports, Announces, Grows
<1>4. PICK outcome : outcome = IF status = "Ok" /\ automatic
                               THEN requestStatus(d) ELSE status
  OBVIOUS
<1>5. PICK e : e = [d EXCEPT !.status = outcome]
  OBVIOUS
<1>6. Shape(e)
  BY <1>3, <1>5 DEF Shape
<1>7. ScanKept(d, e) /\ TasksKept(d, e)
  BY <1>3, <1>5 DEF Shape, Fields, ScanKept, TasksKept
<1>8. Reports(d, changed(e, "station"))
  BY <1>3, <1>6, <1>7, KeptViews, StationAnnounced DEF StationEdit
<1>9. Reports(d, requestConnection(d, last, last, TRUE))
  BY <1>3, RequestConnectionReports
<1>10. restoreProfile(c, last, status, automatic)
         \in {d, changed(e, "station"), requestConnection(d, last, last, TRUE)}
  BY <1>1, <1>4, <1>5 DEF restoreProfile
<1> QED BY <1>2, <1>8, <1>9, <1>10, ReportsTransitive

(* An expired station deadline is announced. *)
LEMMA StationExpiredReports ==
  ASSUME NEW c, Shape(c), c.running, NEW answer
  PROVE  Reports(c, stationExpired(c, answer))
<1>1. PICK tf : tf = IF c.link.phase = "Associated"
                     THEN "AddressTimeout" ELSE "ConnectionTimeout"
  OBVIOUS
<1>2. PICK t : t = [c EXCEPT !.station_timed_out = TRUE,
                             !.timeout_failure = tf]
  OBVIOUS
<1>3. Shape(t)
  BY <1>2 DEF Shape
<1>4. StationKept(c, t) /\ ScanKept(c, t) /\ TasksKept(c, t)
  BY <1>2 DEF Shape, Fields, StationKept, ScanKept, TasksKept
<1>5. Reports(c, t) /\ t.running
  BY <1>3, <1>4, UnseenReports DEF StationKept
<1>6. PICK e : e = [t EXCEPT !.cancelling = TRUE]
  OBVIOUS
<1>7. Shape(e)
  BY <1>3, <1>6 DEF Shape
<1>8. ScanKept(t, e) /\ TasksKept(t, e)
  BY <1>3, <1>6 DEF Shape, Fields, ScanKept, TasksKept
<1>9. Reports(t, changed(e, "station"))
  BY <1>5, <1>7, <1>8, KeptViews, StationAnnounced DEF StationEdit
<1>10. Reports(c, fault(c, "Timeout")) /\ Reports(t, fault(t, "Timeout"))
  BY <1>3, <1>5, FaultReports
<1>11. stationExpired(c, answer)
         \in {fault(c, "Timeout"), changed(e, "station"),
              fault(t, "Timeout")}
  BY <1>1, <1>2, <1>6 DEF stationExpired
<1> QED BY <1>5, <1>9, <1>10, <1>11, ReportsTransitive

(* An expired scan deadline is announced. *)
LEMMA ScanExpiredReports ==
  ASSUME NEW c, Shape(c), c.running, NEW answer
  PROVE  Reports(c, scanExpired(c, answer))
<1>1. PICK t : t = [c EXCEPT !.scan_timed_out = TRUE]
  OBVIOUS
<1>2. Shape(t)
  BY <1>1 DEF Shape
<1>3. StationKept(c, t) /\ ScanKept(c, t) /\ TasksKept(c, t)
  BY <1>1 DEF Shape, Fields, StationKept, ScanKept, TasksKept
<1>4. Reports(c, t) /\ t.running
  BY <1>2, <1>3, UnseenReports DEF StationKept
<1>5. /\ Reports(c, fault(c, "Timeout"))
      /\ Reports(t, fault(t, "Timeout"))
      /\ Reports(t, cancelScan(t, answer))
  BY <1>2, <1>4, FaultReports, CancelScanReports
<1>6. scanExpired(c, answer)
        \in {fault(c, "Timeout"), cancelScan(t, answer),
             fault(t, "Timeout")}
  BY <1>1 DEF scanExpired
<1> QED BY <1>4, <1>5, <1>6, ReportsTransitive

(* The timer task announces everything it finds expired. *)
LEMMA CheckTimeoutsReports ==
  ASSUME NEW c, Shape(c), NEW expired, NEW answer
  PROVE  Reports(c, checkTimeouts(c, expired, answer))
<1>1. CASE ~c.running \/ c.faulted
  BY <1>1, ReportsSame DEF checkTimeouts
<1>2. CASE c.running /\ ~c.faulted
  <2>1. PICK s : s = [c EXCEPT !.armed = @ \ {"stable"}, !.pending = FALSE,
                               !.failure = "None", !.level = 0]
    OBVIOUS
  <2>2. Shape(s)
    BY <2>1 DEF Shape
  <2>3. ScanKept(c, s) /\ TasksKept(c, s)
    BY <2>1 DEF Shape, Fields, ScanKept, TasksKept
  <2>4. Reports(c, changed(s, "station"))
    BY <1>2, <2>2, <2>3, KeptViews, StationAnnounced DEF StationEdit
  <2>5. PICK stable : stable = IF "stable" \in expired
                               THEN changed(s, "station") ELSE c
    OBVIOUS
  <2>6. Reports(c, stable)
    BY <2>4, <2>5, ReportsSame
  <2>7. Shape(stable) /\ stable.running
    BY <1>2, <2>6 DEF Reports, Announces, Grows
  <2>8. PICK address : address =
          IF "address" \in expired
          THEN changed(connectionFailed(stable, "Timeout", "AddressTimeout"),
                       "station")
          ELSE stable
    OBVIOUS
  <2>9. Reports(stable, address)
    BY <2>7, <2>8, ConnectionFailedEdits, StationAnnounced, ReportsSame
  <2>10. Shape(address) /\ address.running
    BY <2>7, <2>9 DEF Reports, Announces, Grows
  <2>11. PICK station : station = IF "station" \in expired
                                  THEN stationExpired(address, answer)
                                  ELSE address
    OBVIOUS
  <2>12. Reports(address, station)
    BY <2>10, <2>11, StationExpiredReports, ReportsSame
  <2>13. Shape(station) /\ station.running
    BY <2>10, <2>12 DEF Reports, Announces, Grows
  <2>14. PICK scan : scan = IF "scan" \in expired /\ ~station.faulted
                            THEN scanExpired(station, answer) ELSE station
    OBVIOUS
  <2>15. Reports(station, scan)
    BY <2>13, <2>14, ScanExpiredReports, ReportsSame
  <2>16. Reports(c, scan)
    BY <2>6, <2>9, <2>12, <2>15, ReportsTransitive
  <2>17. Reports(scan, scheduleTimeouts(scan))
    BY <2>16, ScheduleTimeoutsReports DEF Reports, Announces
  <2>18. checkTimeouts(c, expired, answer) \in {scan, scheduleTimeouts(scan)}
    BY <1>2, <2>1, <2>5, <2>8, <2>11, <2>14 DEF checkTimeouts
  <2> QED BY <2>16, <2>17, <2>18, ReportsTransitive
<1> QED BY <1>1, <1>2

(* The reconnect task announces what becomes of the retry, except that it  *)
(* takes back silently one that is no longer wanted.                       *)
LEMMA RetryReports ==
  ASSUME NEW c, Shape(c), NEW status, NEW automatic
  PROVE  LET d == retry(c, status, automatic)
         IN  IF c.running /\ ~c.faulted /\ c.desired = "Connected" /\ c.auto
             THEN Reports(c, d)
             ELSE d = cancelRetry(c)
<1>1. CASE ~(c.running /\ ~c.faulted /\ c.desired = "Connected" /\ c.auto)
  BY <1>1 DEF retry
<1>2. CASE c.running /\ ~c.faulted /\ c.desired = "Connected" /\ c.auto
  <2>1. PICK d : d = cancelRetry(c)
    OBVIOUS
  <2>2. StationEdit(c, d) /\ Shape(d)
    BY <2>1, CancelRetryEdits DEF StationEdit
  <2>3. PICK e : e = [d EXCEPT !.attempted = 0, !.status = "Ok"]
    OBVIOUS
  <2>4. Shape(e)
    BY <2>2, <2>3 DEF Shape
  <2>5. ScanKept(d, e) /\ TasksKept(d, e)
    BY <2>2, <2>3 DEF Shape, Fields, ScanKept, TasksKept
  <2>6. StationEdit(c, e)
    BY <2>2, <2>4, <2>5, KeptViews, StationEditTransitive DEF StationEdit
  <2>7. Reports(c, changed(e, "station"))
    BY <1>2, <2>6, StationAnnounced
  <2>8. Reports(c, scheduleWork(changed(e, "station")))
    BY <2>7, ScheduleWorkReports, ReportsTransitive DEF Reports, Announces
  <2>9. PICK st : st = IF status = "Ok" THEN d.status ELSE status
    OBVIOUS
  <2>10. PICK f : f = [d EXCEPT !.auto = FALSE, !.status = st]
    OBVIOUS
  <2>11. Shape(f)
    BY <2>2, <2>10 DEF Shape
  <2>12. ScanKept(d, f) /\ TasksKept(d, f)
    BY <2>2, <2>10 DEF Shape, Fields, ScanKept, TasksKept
  <2>13. StationEdit(c, f)
    BY <2>2, <2>11, <2>12, KeptViews, StationEditTransitive DEF StationEdit
  <2>14. Reports(c, changed(f, "station"))
    BY <1>2, <2>13, StationAnnounced
  <2>15. f = [d EXCEPT !.auto = FALSE,
                       !.status = IF status = "Ok" THEN @ ELSE status]
    BY <2>9, <2>10
  <2>16. retry(c, status, automatic)
           \in {scheduleWork(changed(e, "station")), changed(f, "station")}
    BY <1>2, <2>1, <2>3, <2>15 DEF retry
  <2> QED BY <1>2, <2>8, <2>14, <2>16
<1> QED BY <1>1, <1>2

-----------------------------------------------------------------------------
(* Every action is announced *)

(* The reconnect task drops a retry that is no longer wanted. *)
RetryDropped ==
  /\ ctl.pending /\ ~ctl.auto
  /\ ctl' = cancelRetry(Dispatched("reconnect"))

Noticed ==
  ctl'.running =>
    /\ StationTold(ctl, ctl') \/ RetryDropped
    /\ ScanTold(ctl, ctl')
    /\ ctl.changes \subseteq ctl'.changes \/ "notify" \in ctl.tasks
    /\ radio.scan.cancel => ctl'.generation = ctl.generation

(* A step that reports everything is noticed. *)
LEMMA ReportsNoticed ==
  ASSUME Reports(ctl, ctl')
  PROVE  Noticed
BY DEF Reports, Announces, Grows, Noticed

(* The scheduler's bookkeeping is not shown. *)
LEMMA DispatchedReports ==
  ASSUME Shape(ctl), NEW task, task # "notify"
  PROVE  Reports(ctl, Dispatched(task))
<1>1. PICK d : d = [ctl EXCEPT !.tasks = @ \ {task}]
  OBVIOUS
<1>2. Shape(d)
  BY <1>1 DEF Shape
<1>3. StationKept(ctl, d) /\ ScanKept(ctl, d)
  BY <1>1 DEF Shape, Fields, StationKept, ScanKept
<1>4. TasksKept(ctl, d)
  BY <1>1 DEF Shape, Fields, TasksKept
<1> QED BY <1>1, <1>2, <1>3, <1>4, UnseenReports DEF Dispatched

(* begin() announces its first intent. *)
LEMMA BeginNoticed == PInv /\ Begin => Noticed
<1> SUFFICES ASSUME PInv, Begin PROVE Noticed
  OBVIOUS
<1>1. Shape(ctl) /\ ctl.changes = {} /\ store \in Persisted
  BY InvParts DEF PInv, Begin, Coherent, Lifecycle, NewController, OK
<1>2. PICK de : de = IF store.enabled THEN "Disconnected" ELSE "Disabled"
  OBVIOUS
<1>3. PICK e : e = [ctl EXCEPT !.running = TRUE, !.restore = store.enabled,
                               !.desired = de]
  OBVIOUS
<1>4. Shape(e) /\ e.running
  BY <1>1, <1>3, ZenonT(30) DEF Shape, Fields
<1>5. ScanKept(ctl, e) /\ e.revision = ctl.revision
  BY <1>1, <1>3 DEF Shape, Fields, ScanKept
<1>6. PICK f : f = changed(e, "profiles")
  OBVIOUS
<1>7. Reports(e, f)
  BY <1>4, <1>6, ChangedReports
<1>8. Shape(f) /\ f.running
  BY <1>4, <1>7 DEF Reports, Announces, Grows
<1>9. PICK d : d = newIntent(f)
  OBVIOUS
<1>10. Reports(f, d)
  BY <1>8, <1>9, ReportsSame, NewIntentReports
<1>11. Told(d, "station")
  <2>1. PICK g : g = cancelRetry(f)
    OBVIOUS
  <2>2. StationEdit(f, g) /\ g.running /\ Shape(g)
    BY <1>8, <2>1, CancelRetryEdits DEF StationEdit, Grows
  <2>3. PICK h : h = [g EXCEPT !.revision = @ + 1, !.status = "Ok",
                               !.failure = "None", !.level = 0, !.armed = {}]
    OBVIOUS
  <2>4. Shape(h)
    BY <2>2, <2>3 DEF Shape
  <2>5. h.running
    BY <2>2, <2>3 DEF Shape, Fields
  <2>6. PICK i : i = changed(h, "station")
    OBVIOUS
  <2>7. Told(i, "station") /\ Shape(i)
    BY <2>4, <2>5, <2>6, ChangedReports DEF Reports, Announces
  <2>8. d = scheduleWork(i)
    BY <1>9, <2>1, <2>3, <2>6 DEF newIntent, Replaced
  <2>9. Grows(i, d)
    BY <2>7, <2>8, ScheduleWorkReports DEF Reports, Announces
  <2> QED BY <2>7, <2>9 DEF Told, Grows
<1>12. ctl' = d
  BY <1>2, <1>3, <1>6, <1>9 DEF Begin
<1>13. Reports(e, d)
  BY <1>7, <1>10, ReportsTransitive
<1>14. ScanView(e) = ScanView(ctl) /\ d.generation = ctl.generation
  BY <1>5, <1>13 DEF ScanKept, ScanView, Reports
<1> QED BY <1>1, <1>11, <1>12, <1>13, <1>14
  DEF Noticed, StationTold, ScanTold, Reports, Announces

(* An API call that replaces the intent announces it. *)
LEMMA IntentCallsNoticed ==
  ASSUME PInv,
         \/ \E enabled \in BOOLEAN : SetEnabled(enabled)
         \/ \E network \in Networks : Connect(network)
         \/ \E network \in Networks : ConnectProfile(network)
         \/ Disconnect
  PROVE  Noticed
<1>1. Shape(ctl)
  BY InvParts DEF PInv, OK
<1>2. ctl.running
  BY Admitted DEF SetEnabled, Connect, ConnectProfile, Disconnect, Accepts
<1>3. ASSUME NEW enabled \in BOOLEAN, SetEnabled(enabled) PROVE Noticed
  <2>1. PICK w : w = WithoutInput(ctl)
    OBVIOUS
  <2>2. Shape(w)
    BY <1>1, <2>1 DEF Shape, WithoutInput
  <2>3. ScanKept(ctl, w) /\ TasksKept(ctl, w)
    BY <1>1, <2>1 DEF Shape, Fields, WithoutInput, ScanKept, TasksKept
  <2>4. PICK de : de = IF enabled THEN "Disconnected" ELSE "Disabled"
    OBVIOUS
  <2>5. PICK e : e = [w EXCEPT !.desired = de, !.auto = FALSE,
                               !.restore = enabled]
    OBVIOUS
  <2>6. Shape(e)
    BY <2>2, <2>5 DEF Shape
  <2>7. ScanKept(w, e) /\ TasksKept(w, e)
    BY <2>2, <2>5 DEF Shape, Fields, ScanKept, TasksKept
  <2>8. StationEdit(ctl, w) /\ StationEdit(w, e)
    BY <2>2, <2>3, <2>6, <2>7, KeptViews DEF StationEdit
  <2>9. StationEdit(ctl, e)
    BY <2>8, StationEditTransitive
  <2>10. ctl' = newIntent(e)
    BY <1>3, <2>1, <2>4, <2>5 DEF SetEnabled
  <2> QED BY <1>2, <2>9, <2>10, NewIntentReports, ReportsNoticed
<1>4. ASSUME NEW network, Connect(network) \/ ConnectProfile(network)
      PROVE  Noticed
  <2>1. \E n, p, a : ctl' = requestConnection(ctl, n, p, a)
    BY <1>4 DEF Connect, ConnectProfile
  <2> QED BY <1>1, <1>2, <2>1, RequestConnectionReports, ReportsNoticed
<1>5. CASE Disconnect
  <2>1. PICK q : q = Quieted(ctl)
    OBVIOUS
  <2>2. Shape(q)
    BY <1>1, <2>1 DEF Shape, Quieted
  <2>3. StationKept(ctl, q) /\ ScanKept(ctl, q) /\ TasksKept(ctl, q)
    BY <1>1, <2>1 DEF Shape, Fields, Quieted, StationKept, ScanKept, TasksKept
  <2>4. Reports(ctl, q)
    BY <2>2, <2>3, UnseenReports
  <2>5. PICK w : w = WithoutInput(q)
    OBVIOUS
  <2>6. Shape(w)
    BY <2>2, <2>5 DEF Shape, WithoutInput
  <2>7. ScanKept(q, w) /\ TasksKept(q, w)
    BY <2>2, <2>5 DEF Shape, Fields, WithoutInput, ScanKept, TasksKept
  <2>8. PICK de : de = IF w.desired = "Disabled" THEN w.desired
                       ELSE "Disconnected"
    OBVIOUS
  <2>9. PICK e : e = [w EXCEPT !.desired = de]
    OBVIOUS
  <2>10. Shape(e)
    BY <2>6, <2>9 DEF Shape
  <2>11. ScanKept(w, e) /\ TasksKept(w, e)
    BY <2>6, <2>9 DEF Shape, Fields, ScanKept, TasksKept
  <2>12. StationEdit(ctl, q) /\ StationEdit(q, w) /\ StationEdit(w, e)
    BY <2>2, <2>3, <2>6, <2>7, <2>10, <2>11, KeptViews DEF StationEdit
  <2>13. StationEdit(ctl, e)
    BY <2>12, StationEditTransitive
  <2>14. e = [w EXCEPT !.desired = IF @ = "Disabled" THEN @
                                   ELSE "Disconnected"]
    BY <2>8, <2>9
  <2>15. ctl' \in {q, newIntent(e)}
    BY <1>5, <2>1, <2>5, <2>14 DEF Disconnect
  <2> QED BY <1>2, <2>4, <2>13, <2>15, NewIntentReports, ReportsNoticed
<1> QED BY <1>3, <1>4, <1>5

(* startScan() announces the queued scan. *)
LEMMA StartScanNoticed == PInv /\ StartScan => Noticed
<1> SUFFICES ASSUME PInv, StartScan PROVE Noticed
  OBVIOUS
<1>1. Shape(ctl) /\ ctl.running
  BY InvParts, Admitted DEF PInv, OK, StartScan, Accepts
<1>2. PICK e : e = [ctl EXCEPT !.scan = "Queued", !.scan_status = "Ok",
                               !.scan_revision = @ + 1,
                               !.scan_timed_out = FALSE]
  OBVIOUS
<1>3. Shape(e)
  BY <1>1, <1>2 DEF Shape
<1>4. /\ StationKept(ctl, e) /\ TasksKept(ctl, e)
      /\ e.generation = ctl.generation
  BY <1>1, <1>2 DEF Shape, Fields, StationKept, TasksKept
<1>5. PICK f : f = changed(e, "scan")
  OBVIOUS
<1>6. Reports(ctl, f)
  BY <1>1, <1>3, <1>4, <1>5, KeptViews, ScanAnnounced DEF ScanEdit, Reports
<1>7. Reports(f, scheduleWork(f))
  BY <1>6, ScheduleWorkReports DEF Reports, Announces
<1>8. ctl' = scheduleWork(f)
  BY <1>2, <1>5 DEF StartScan
<1> QED BY <1>6, <1>7, <1>8, ReportsTransitive, ReportsNoticed

(* Cancelling a scan is announced. *)
LEMMA CancelScanNoticed ==
  ASSUME PInv, NEW answer, CancelScan(answer)
  PROVE  Noticed
<1>1. Shape(ctl) /\ ctl.running
  BY InvParts DEF PInv, OK, CancelScan
<1> QED BY <1>1, CancelScanReports, ReportsNoticed DEF CancelScan

(* Saving and removing a profile show in neither view. *)
LEMMA WriteProfileNoticed ==
  ASSUME PInv, NEW network, NEW value, NEW answer,
         WriteProfile(network, value, answer)
  PROVE  Noticed
<1>1. Shape(ctl) /\ ctl.running
  BY InvParts DEF PInv, OK, WriteProfile
<1>2. PICK e : e = [ctl EXCEPT !.profiles_generation = @ + 1]
  OBVIOUS
<1>3. Shape(e)
  BY <1>1, <1>2 DEF Shape
<1>4. StationKept(ctl, e) /\ ScanKept(ctl, e) /\ TasksKept(ctl, e)
  BY <1>1, <1>2 DEF Shape, Fields, StationKept, ScanKept, TasksKept
<1>5. Reports(ctl, e) /\ e.running
  BY <1>1, <1>3, <1>4, UnseenReports DEF StationKept
<1>6. Reports(ctl, changed(e, "profiles"))
  BY <1>3, <1>5, ChangedReports, ReportsTransitive
<1>7. ctl' = changed(e, "profiles")
  BY <1>2 DEF WriteProfile
<1> QED BY <1>6, <1>7, ReportsNoticed

(* Only the notify task delivers invalidations, and shows nothing new. *)
LEMMA NotifyListenersNoticed == PInv /\ NotifyListeners => Noticed
<1> SUFFICES ASSUME PInv, NotifyListeners PROVE Noticed
  OBVIOUS
<1>1. Shape(ctl) /\ "notify" \in ctl.tasks
  BY InvParts DEF PInv, OK, NotifyListeners
<1>2. PICK c : c = [ctl EXCEPT !.tasks = @ \ {"notify"}]
  OBVIOUS
<1>3. Shape(c)
  BY <1>1, <1>2 DEF Shape
<1>4. StationKept(ctl, c) /\ ScanKept(ctl, c)
  BY <1>1, <1>2 DEF Shape, Fields, StationKept, ScanKept
<1>5. PICK d : d = [c EXCEPT !.changes = {}]
  OBVIOUS
<1>6. StationKept(c, d) /\ ScanKept(c, d)
  BY <1>3, <1>5 DEF Shape, Fields, StationKept, ScanKept
<1>7. ctl' = d
  BY <1>2, <1>5 DEF NotifyListeners, Dispatched
<1>8. StationKept(ctl, d) /\ ScanKept(ctl, d)
  BY <1>4, <1>6 DEF StationKept, ScanKept
<1> QED BY <1>1, <1>7, <1>8, KeptViews DEF Noticed

(* The timer task announces what has expired. *)
LEMMA CheckTimeoutsNoticed ==
  ASSUME PInv, NEW expired, NEW answer, CheckTimeouts(expired, answer)
  PROVE  Noticed
<1>1. Shape(ctl)
  BY InvParts DEF PInv, OK
<1>2. PICK c : c = Dispatched("timer")
  OBVIOUS
<1>3. Reports(ctl, c)
  BY <1>1, <1>2, DispatchedReports
<1>4. Reports(c, checkTimeouts(c, expired, answer))
  BY <1>3, CheckTimeoutsReports DEF Reports, Announces
<1>5. ctl' = checkTimeouts(c, expired, answer)
  BY <1>2 DEF CheckTimeouts
<1> QED BY <1>3, <1>4, <1>5, ReportsTransitive, ReportsNoticed

(* The reconnect task announces what becomes of the retry, unless the      *)
(* intent that it waited for is no longer automatic.                       *)
LEMMA RetryNoticed ==
  ASSUME PInv, NEW medium, Retry(medium)
  PROVE  Noticed
<1>1. /\ OK(ctl) /\ ctl.running /\ ~ctl.faulted /\ RetryTold(ctl)
  BY InvParts DEF PInv, Retry, Coherent, Lifecycle, Promise, Sound
<1>2. Shape(ctl) /\ ctl.pending /\ ctl.desired = "Connected"
  BY <1>1 DEF OK, Retry, RetryTold
<1>3. PICK c : c = Dispatched("reconnect")
  OBVIOUS
<1>4. Reports(ctl, c)
  BY <1>2, <1>3, DispatchedReports
<1>5. c.running /\ ~c.faulted /\ c.desired = "Connected" /\ c.auto = ctl.auto
  <2>1. Same(ctl, c)
    BY <1>1, <1>3, DispatchedSame
  <2> QED BY <1>1, <1>2, <2>1 DEF Same, Kept, KeptLife, SameIntent
<1>6. Shape(c)
  BY <1>4 DEF Reports, Announces
<1>7. PICK st, au : ctl' = retry(c, st, au)
  BY <1>3 DEF Retry
<1>8. CASE ctl.auto
  <2>1. Reports(c, ctl')
    BY <1>5, <1>6, <1>7, <1>8, RetryReports
  <2> QED BY <1>4, <2>1, ReportsTransitive, ReportsNoticed
<1>9. CASE ~ctl.auto
  <2>1. ctl' = cancelRetry(c)
    BY <1>5, <1>6, <1>7, <1>9, RetryReports
  <2>2. StationEdit(ctl, ctl')
    BY <1>4, <1>6, <2>1, CancelRetryEdits, ReportsTransitive
  <2>3. RetryDropped
    BY <1>2, <1>3, <1>9, <2>1 DEF RetryDropped
  <2> QED BY <2>2, <2>3 DEF Noticed, StationEdit, Grows
<1> QED BY <1>8, <1>9

(* Every exit of execute() announces what it did. *)
LEMMA ExecuteNoticed == PInv /\ Execute => Noticed
<1> SUFFICES ASSUME PInv, Execute PROVE Noticed
  OBVIOUS
<1>1. Shape(ctl) /\ ctl.running
  BY InvParts DEF PInv, OK, Execute, Coherent, Lifecycle
<1>2. PICK c : c = Dispatched("work")
  OBVIOUS
<1>3. Reports(ctl, c)
  BY <1>1, <1>2, DispatchedReports
<1>4. Shape(c) /\ c.running
  BY <1>1, <1>3 DEF Reports, Announces, Grows
<1> SUFFICES Reports(c, ctl')
  BY <1>3, ReportsTransitive, ReportsNoticed
<1>5. CASE ExecuteIgnored(c)
  BY <1>4, <1>5, ReportsSame DEF ExecuteIgnored
<1>6. CASE ExecuteExhausted(c)
  BY <1>4, <1>6, FaultReports DEF ExecuteExhausted
<1>7. CASE ExecuteSuperseded(c)
  <2>1. PICK e : e = [c EXCEPT !.cancelling = TRUE]
    OBVIOUS
  <2>2. Shape(e)
    BY <1>4, <2>1 DEF Shape
  <2>3. ScanKept(c, e) /\ TasksKept(c, e)
    BY <1>4, <2>1 DEF Shape, Fields, ScanKept, TasksKept
  <2>4. PICK f : f = changed(e, "station")
    OBVIOUS
  <2>5. Reports(c, f)
    BY <1>4, <2>2, <2>3, <2>4, KeptViews, StationAnnounced DEF StationEdit
  <2>6. Reports(c, scheduleTimeouts(f))
    BY <2>5, ScheduleTimeoutsReports, ReportsTransitive
    DEF Reports, Announces
  <2>7. \/ ctl' = scheduleTimeouts(f)
        \/ \E answer : ctl' = fault(c, answer)
    BY <1>7, <2>1, <2>4 DEF ExecuteSuperseded
  <2> QED BY <1>4, <2>6, <2>7, FaultReports
<1>8. CASE ExecuteAwaits(c)
  BY <1>4, <1>8, ScheduleTimeoutsReports DEF ExecuteAwaits
<1>9. CASE ExecutePreempts(c)
  <2>1. \E answer : ctl' = cancelScan(c, answer) \/ ctl' = fault(c, answer)
    BY <1>9 DEF ExecutePreempts
  <2> QED BY <1>4, <2>1, CancelScanReports, FaultReports
<1>10. PICK u : u = Unqueued(c)
  OBVIOUS
<1>11. Reports(c, u) /\ Shape(u) /\ u.running
  <2>1. Reports(c, u)
    BY <1>4, <1>10, CancelScanReports, ReportsSame DEF Unqueued
  <2> QED BY <1>4, <2>1 DEF Reports, Announces, Grows
<1>12. CASE ExecuteRestores(c)
  <2>1. PICK la, st, au : ctl' = scheduleWork(restoreProfile(u, la, st, au))
    BY <1>10, <1>12 DEF ExecuteRestores
  <2>2. PICK r : r = restoreProfile(u, la, st, au)
    OBVIOUS
  <2>3. Reports(u, r)
    BY <1>11, <2>2, RestoreProfileReports
  <2>4. Reports(r, ctl')
    BY <2>1, <2>2, <2>3, ScheduleWorkReports DEF Reports, Announces
  <2> QED BY <1>11, <2>3, <2>4, ReportsTransitive
<1>13. CASE ExecuteAdvances(c)
  <2>1. PICK answer, d, e :
          /\ d = IF needsStation(c) /\ ~c.pending THEN advance(u, answer)
                 ELSE u
          /\ e = IF d.transition = "None" /\ d.scan = "Queued"
                 THEN startScanning(d, answer) ELSE d
          /\ ctl' = scheduleTimeouts(e)
    BY <1>10, <1>13 DEF ExecuteAdvances
  <2>2. Reports(c, d)
    BY <1>11, <2>1, AdvanceReports, ReportsTransitive
  <2>3. Shape(d) /\ d.running
    BY <1>4, <2>2 DEF Reports, Announces, Grows
  <2>4. Reports(d, e)
    BY <2>1, <2>3, StartScanningReports, ReportsSame
  <2>5. Reports(e, ctl')
    BY <2>1, <2>4, ScheduleTimeoutsReports DEF Reports, Announces
  <2> QED BY <2>2, <2>4, <2>5, ReportsTransitive
<1> QED BY <1>2, <1>5, <1>6, <1>7, <1>8, <1>9, <1>12, <1>13 DEF Execute

(* A completion is announced, and a cancelled scan publishes nothing,      *)
(* since the adapter's cancellation is the controller's.                   *)
LEMMA CompletionsNoticed ==
  ASSUME PInv,
         \/ \E result, failure, answer :
              StationFinishes(result, failure, answer)
         \/ \E result, read : ScanFinishes(result, read)
         \/ AdapterOverflows
  PROVE  Noticed
<1>1. Shape(ctl) /\ ctl.running
  BY InvParts
  DEF PInv, OK, StationFinishes, ScanFinishes, AdapterOverflows, Coherent,
      Lifecycle
<1>2. ASSUME NEW result, NEW failure, NEW answer,
             StationFinishes(result, failure, answer)
      PROVE  Noticed
  <2>1. ctl' = onOperationFinished(ctl, radio.station.id, radio.station.kind,
                                   result, failure, answer)
    BY <1>2 DEF StationFinishes
  <2>2. ctl.faulted \/ radio.station.kind # "Scan"
    <3>1. ~ctl.faulted => radio.station.kind = ctl.transition
      BY <1>1 DEF PInv, Inv, Coherent, Agreed
    <3>2. ctl.transition \in Transition
      BY InvParts DEF PInv, OK, Typed
    <3> QED BY <3>1, <3>2 DEF Transition
  <2> QED BY <1>1, <2>1, <2>2, OperationAnnounces, ReportsNoticed DEF Reports
<1>3. ASSUME NEW result, NEW read, ScanFinishes(result, read)
      PROVE  Noticed
  <2>1. ctl' = onOperationFinished(ctl, radio.scan.id, "Scan", result,
                                   "None", read)
    BY <1>3 DEF ScanFinishes
  <2>2. radio.scan.cancel => ctl.faulted \/ ctl.scan = "Cancelling"
    BY <1>1 DEF PInv, Inv, Coherent, Agreed
  <2>3. /\ Announces(ctl, ctl')
        /\ ctl.faulted \/ ctl.scan = "Cancelling" =>
             ctl'.generation = ctl.generation
    BY <1>1, <2>1, OperationAnnounces
  <2> QED BY <2>2, <2>3 DEF Noticed, Announces, Grows
<1>4. CASE AdapterOverflows
  <2>1. PICK s : s = onOperationFinished(ctl, radio.station.id,
                       radio.station.kind, FaultResult(radio.station),
                       "None", "Ok")
    OBVIOUS
  <2>2. ctl' = onOperationFinished(s, radio.scan.id, "Scan",
                 FaultResult(radio.scan), "None", "Ok")
    BY <1>4, <2>1 DEF AdapterOverflows
  <2>3. /\ FaultResult(radio.station) # "Ok"
        /\ FaultResult(radio.scan) # "Ok"
    BY DEF FaultResult
  <2>4. Reports(ctl, s)
    BY <1>1, <2>1, <2>3, OperationAnnounces DEF Reports
  <2>5. Shape(s) /\ s.running
    BY <1>1, <2>4 DEF Reports, Announces, Grows
  <2>6. Reports(s, ctl')
    BY <2>2, <2>3, <2>5, OperationAnnounces DEF Reports
  <2> QED BY <2>4, <2>6, ReportsTransitive, ReportsNoticed
<1> QED BY <1>2, <1>3, <1>4

(* What the adapter observes is announced. *)
LEMMA ObservationsNoticed ==
  ASSUME PInv,
         \/ \E link, reason, failure : LinkChanges(link, reason, failure)
         \/ \E enabled : EnabledChanges(enabled)
  PROVE  Noticed
<1>1. Shape(ctl) /\ ctl.running
  BY InvParts DEF PInv, OK, LinkChanges, EnabledChanges, Coherent, Lifecycle
<1>2. \/ \E link, reason, failure :
           ctl' = onLinkChanged(ctl, link, reason, failure)
      \/ \E enabled : ctl' = onEnabledChanged(ctl, enabled)
  BY DEF LinkChanges, EnabledChanges
<1> QED BY <1>1, <1>2, OnLinkChangedReports, OnEnabledChangedReports,
           ReportsNoticed

(* Every step announces what it changes. *)
LEMMA NextNoticed ==
  ASSUME PInv, Next
  PROVE  Noticed
<1>1. CASE Api
  <2>1. Shutdown => Noticed
    BY DEF Shutdown, NewController, Noticed
  <2>2. ASSUME NEW network, NEW answer,
               \/ \E automatic : SaveProfile(network, automatic, answer)
               \/ RemoveProfile(network, answer)
        PROVE  Noticed
    BY <2>2, WriteProfileNoticed DEF SaveProfile, RemoveProfile
  <2> QED BY <1>1, <2>1, <2>2, BeginNoticed, IntentCallsNoticed,
             StartScanNoticed, CancelScanNoticed DEF Api
<1>2. CASE Scheduler
  BY <1>2, NotifyListenersNoticed, ExecuteNoticed, CheckTimeoutsNoticed,
     RetryNoticed DEF Scheduler
<1>3. CASE Adapter
  BY <1>3, CompletionsNoticed, ObservationsNoticed DEF Adapter
<1> QED BY <1>1, <1>2, <1>3 DEF Next

-----------------------------------------------------------------------------
(* A scan that was cancelled, by the caller, by a station intent or by its *)
(* timeout, never replaces the published results, although its results may *)
(* be reported, with kOk, after the cancellation was accepted.             *)
THEOREM CancelledScansPublishNothing == Spec => SnapshotPreserved
<1>1. PInv /\ [Next]_vars =>
        [radio.scan.cancel /\ ctl'.running =>
           ctl'.generation = ctl.generation]_vars
  BY NextNoticed DEF Noticed
<1> QED BY <1>1, PromisesKept, PTL DEF Spec, SnapshotPreserved

(* What ChangesAreAnnounced says whatever happens to the saved profiles:   *)
(* the only change that no listener is told of is that of a retry that     *)
(* lapses because its intent is no longer automatic.                       *)
OnlyLapsesAreSilent ==
  [][ctl'.running =>
       /\ StationTold(ctl, ctl') \/ RetryDropped
       /\ ScanTold(ctl, ctl')
       /\ ~(ctl.changes \subseteq ctl'.changes) => "notify" \in ctl.tasks]_vars

(* Nothing that state() or scanSnapshot() shows changes silently, and no   *)
(* scheduled invalidation is lost, across all handlers, with one           *)
(* exception: retry() returns early, without changed(), once the automatic *)
(* flag was cleared under it (see RetriesAreArmed).                        *)
THEOREM OnlyLapsedRetriesAreSilent == Spec => OnlyLapsesAreSilent
<1>1. PInv /\ [Next]_vars =>
        [ctl'.running =>
           /\ StationTold(ctl, ctl') \/ RetryDropped
           /\ ScanTold(ctl, ctl')
           /\ ~(ctl.changes \subseteq ctl'.changes) =>
                "notify" \in ctl.tasks]_vars
  BY NextNoticed DEF Noticed
<1> QED BY <1>1, PromisesKept, PTL DEF Spec, OnlyLapsesAreSilent

(* As long as no profile is saved or removed, which RetriesAreArmed shows  *)
(* to exclude the exception, listeners are told of every change.           *)
THEOREM NoChangeIsSilent ==
  ASSUME MaxWrites = 0
  PROVE  Spec => ChangesAreAnnounced
<1>1. PInv /\ [Next]_vars =>
        [ctl'.running =>
           /\ StationView(ctl') # StationView(ctl) =>
                "station" \in ctl'.changes /\ "notify" \in ctl'.tasks
           /\ ScanView(ctl') # ScanView(ctl) =>
                "scan" \in ctl'.changes /\ "notify" \in ctl'.tasks
           /\ ~(ctl.changes \subseteq ctl'.changes) =>
                "notify" \in ctl.tasks]_vars
  <2> SUFFICES ASSUME PInv, Next
               PROVE  Noticed /\ ~RetryDropped
    BY DEF Noticed, StationTold, ScanTold, Told
  <2>1. ctl.pending => ctl.auto
    BY DEF PInv, Faithful, Promise, Sound, RetryTold
  <2> QED BY <2>1, NextNoticed DEF RetryDropped
<1> QED BY <1>1, PromisesKept, PTL DEF Spec, ChangesAreAnnounced

=============================================================================
