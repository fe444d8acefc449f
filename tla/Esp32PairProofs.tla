---------------------------- MODULE Esp32PairProofs --------------------------
(***************************************************************************)
(* What the adapter and the ESP32 driver behind it keep to between them,   *)
(* for every set of networks and access points, every policy, number of    *)
(* slots and capacity of the queue.                                        *)
(*                                                                         *)
(* Whose network is joined is about both: Together relates what the        *)
(* adapter believes, what waits in the mail and what the driver is doing,  *)
(* as long as no event was lost; Paired adds it to InterfaceInv and to     *)
(* Faithful of Esp32InterfaceProofs.  From Paired follow, step by step,    *)
(* which APs are penalised (Blameless) and that the driver is a            *)
(* NativeStation as OrderedInterface relies on it (Seen).                  *)
(***************************************************************************)
EXTENDS Esp32InterfaceProofs

-----------------------------------------------------------------------------
(* Adapter and driver together *)

(* The driver has something chosen for the connect, or chooses it. *)
Chosen(n) == n.prepared \/ n.told.phase = "Selecting" \/ Begins(n, "select")

(* It has not joined anything for it yet. *)
Early(n) == Chosen(n) \/ Begins(n, "join")

(* The driver is at a connection, or on its link. *)
Ongoing(n) == Early(n) \/ n.told.phase \in Linked

Apiece(a, n) ==
  /\ a.attached = n.attached
  /\ ~a.attached => ~a.draining /\ n.call = NoCall

(* What the driver is at is what the operation admitted asks for. *)
Obeys(a, n) ==
  /\ Chosen(n) => Connecting(a) /\ n.secret = n.config
  /\ Chosen(n) \/ n.call.kind = "join" => n.config = a.link.ssid
  /\ Due(n, "Start") \/ Due(n, "Stop") => a.station.kind = "Enable"
  /\ n.told.leaving => /\ a.station.kind \in {"Connect", "Disconnect"}
                       /\ a.waiting \/ a.cancelling

(* The radio is switched as the adapter believes, or is about to hear; a   *)
(* connect finds it on, and its credentials where they have to be.         *)
Switched(a, m, n) ==
  /\ a.station.kind # "Enable" =>
       /\ ~Queued(m, "Enabled") /\ ~Queued(m, "Disabled")
       /\ a.enabled = n.idf.on
  /\ a.station.kind = "Enable" =>
       /\ n.idf.on = a.desired
       /\ Queued(m, "Enabled") => a.desired
       /\ Queued(m, "Disabled") => ~a.desired
       /\ Queued(m, "Enabled") \/ Queued(m, "Disabled") =>
            ~Due(n, "Start") /\ ~Due(n, "Stop")
  /\ Connecting(a) => a.enabled /\ a.config \in Networks
  /\ Connecting(a) /\ ~a.cancelling /\ (a.waiting \/ a.link.phase = "Idle") =>
       a.credentials = a.config

(* The adapter's link is not behind that of the driver, but for events     *)
(* that are still in the queue.                                            *)
Follows(a, m, n) ==
  /\ Orderly(m.queue, MailBars)
  /\ Ongoing(n) => /\ a.link.phase # "Idle"
                   /\ ~Queued(m, "Disconnected") /\ ~Queued(m, "Disabled")
                   /\ Queued(m, "Prepared") => n.prepared
  /\ Early(n) => /\ a.link.phase = "Connecting"
                 /\ ~Queued(m, "Associated") /\ ~Queued(m, "AddressReady")

(* A fault ends the obedience, an overflow what the adapter can know.      *)
Together(a, m, n) ==
  /\ Apiece(a, n)
  /\ a.faulted => m.overflow
  /\ n.attached /\ ~a.faulted => Obeys(a, n)
  /\ n.attached /\ ~m.overflow => Switched(a, m, n) /\ Follows(a, m, n)

(* The mail with an event more of each of these kinds, or overflown.       *)
Mails(m, q, kinds) ==
  /\ m.overflow => q.overflow
  /\ ~q.overflow =>
       /\ ~m.overflow
       /\ \A k : Queued(q, k) <=> (Queued(m, k) \/ k \in kinds)
       /\ /\ Orderly(m.queue, MailBars)
          /\ \A k, l : <<k, l>> \in MailBars /\ l \in kinds => ~Queued(m, k)
          => Orderly(q.queue, MailBars)

LEMMA PostIs ==
  ASSUME NEW m, Mailed(m), NEW e \in SaneEvents, NEW q, q = post(m, e)
  PROVE  Mails(m, q, {e.kind})
<1>1. /\ m.queue \in Seq(SaneEvents) /\ m.overflow \in BOOLEAN
      /\ m \in [queue : Seq(SaneEvents), overflow : BOOLEAN, due : BOOLEAN]
  BY DEF Mailed
<1>2. CASE Len(m.queue) = Capacity
  <2>1. q = [[m EXCEPT !.overflow = TRUE] EXCEPT !.due = TRUE]
    BY <1>2 DEF post, scheduleNow
  <2>2. q.overflow = TRUE
    BY <1>1, <2>1
  <2> QED BY <2>2 DEF Mails
<1>3. CASE Len(m.queue) # Capacity
  <2>1. PICK queue : queue = Append(m.queue, e)
    OBVIOUS
  <2>2. q = [[m EXCEPT !.queue = queue] EXCEPT !.due = TRUE]
    BY <1>3, <2>1 DEF post, scheduleNow
  <2>3. q.queue = queue /\ q.overflow = m.overflow
    BY <1>1, <2>2
  <2>4. /\ Range(queue) = Range(m.queue) \cup {e}
        /\ /\ Orderly(m.queue, MailBars)
           /\ \A d \in Range(m.queue) : <<d.kind, e.kind>> \notin MailBars
           => Orderly(queue, MailBars)
    BY <1>1, <2>1, LongerIs
  <2>5. \A k : Queued(q, k) <=> (Queued(m, k) \/ k = e.kind)
    BY <2>3, <2>4 DEF Queued
  <2>6. ASSUME \A k : <<k, e.kind>> \in MailBars => ~Queued(m, k)
        PROVE  \A d \in Range(m.queue) : <<d.kind, e.kind>> \notin MailBars
    BY <2>6 DEF Queued
  <2>7. m.overflow => q.overflow
    BY <2>3
  <2>8. ASSUME ~q.overflow
        PROVE  ~m.overflow
    BY <2>3, <2>8
  <2> QED BY <2>3, <2>4, <2>5, <2>6, <2>7, <2>8 DEF Mails
<1> QED BY <1>2, <1>3

(* A step of the driver takes on nothing new. *)
Withdraws(n, p) ==
  /\ p.attached = n.attached /\ p.idf.on = n.idf.on /\ p.config = n.config
  /\ Chosen(p) => Chosen(n) /\ p.secret = n.secret
  /\ p.call.kind = "join" => n.call.kind = "join"
  /\ Early(p) => Early(n)
  /\ Ongoing(p) => Ongoing(n) /\ (n.prepared => p.prepared)
  /\ \A k \in Switches : Due(p, k) => Due(n, k)

Recedes(n, p) == Withdraws(n, p) /\ (p.told.leaving => n.told.leaving)

(* What it may tell on the way. *)
Tells(n, p, kind) ==
  /\ kind = "Enabled" => Due(n, "Start")
  /\ kind = "Disabled" => Due(n, "Stop") /\ ~Ongoing(p)
  /\ kind \in Enablements => ~Due(p, "Start") /\ ~Due(p, "Stop")
  /\ kind = "Prepared" => n.told.phase = "Selecting" /\ p.prepared
  /\ kind = "Disconnected" => ~Ongoing(p)
  /\ kind \in {"Associated", "AddressReady"} => ~Early(p)

LEMMA RecedesTogether ==
  ASSUME NEW a, NEW m, NEW n, NEW p, n.attached, Together(a, m, n), Recedes(n, p)
  PROVE  Together(a, m, p)
<1>1. Apiece(a, p)
  BY DEF Together, Apiece, Recedes, Withdraws
<1>2. p.attached /\ ~a.faulted => Obeys(a, p)
  BY DEF Together, Obeys, Recedes, Withdraws, Switches
<1>3. p.attached /\ ~m.overflow => Switched(a, m, p)
  BY DEF Together, Switched, Recedes, Withdraws, Switches
<1>4. p.attached /\ ~m.overflow => Follows(a, m, p)
  BY DEF Together, Follows, Recedes, Withdraws
<1> QED BY <1>1, <1>2, <1>3, <1>4 DEF Together

LEMMA TellsTogether ==
  ASSUME NEW a, NEW m, Mailed(m), NEW n, n.attached, Faithful(n),
         Together(a, m, n), NEW p, Recedes(n, p),
         NEW e \in SaneEvents, Tells(n, p, e.kind),
         NEW q, q = post(m, e)
  PROVE  Together(a, q, p)
<1>1. /\ m.overflow => q.overflow
      /\ ~q.overflow =>
           /\ ~m.overflow
           /\ \A k : Queued(q, k) <=> (Queued(m, k) \/ k = e.kind)
           /\ /\ Orderly(m.queue, MailBars)
              /\ \A k : <<k, e.kind>> \in MailBars => ~Queued(m, k)
              => Orderly(q.queue, MailBars)
  BY PostIs DEF Mails
<1>2. /\ Apiece(a, p)
      /\ p.attached /\ ~a.faulted => Obeys(a, p)
      /\ p.attached /\ ~m.overflow => Switched(a, m, p) /\ Follows(a, m, p)
  BY RecedesTogether DEF Together
<1>3. a.faulted => q.overflow
  BY <1>1 DEF Together
<1>4. p.attached
  BY DEF Recedes, Withdraws
<1>5. ASSUME ~q.overflow
      PROVE  Switched(a, q, p) /\ Follows(a, q, p)
  <2>1. /\ Switched(a, m, n) /\ Follows(a, m, n) /\ Obeys(a, n)
        /\ Switched(a, m, p) /\ Follows(a, m, p)
    BY <1>1, <1>2, <1>4, <1>5 DEF Together
  <2>2. \A k : Queued(q, k) <=> (Queued(m, k) \/ k = e.kind)
    BY <1>1, <1>5
  <2>3. e.kind \in Enablements =>
          /\ a.station.kind = "Enable"
          /\ ~Queued(m, "Enabled") /\ ~Queued(m, "Disabled")
          /\ ~Due(p, "Start") /\ ~Due(p, "Stop")
    BY <2>1 DEF Tells, Enablements, Obeys, Switched
  <2>4. /\ Due(n, "Start") => n.idf.on
        /\ Due(n, "Stop") => ~n.idf.on
    BY DEF Faithful, LoopTells
  <2>5. Switched(a, q, p)
    <3>1. a.station.kind # "Enable" =>
            ~Queued(q, "Enabled") /\ ~Queued(q, "Disabled")
      BY <2>1, <2>2, <2>3 DEF Switched, Enablements
    <3>2. ASSUME a.station.kind = "Enable"
          PROVE  /\ Queued(q, "Enabled") => a.desired
                 /\ Queued(q, "Disabled") => ~a.desired
                 /\ Queued(q, "Enabled") \/ Queued(q, "Disabled") =>
                      ~Due(p, "Start") /\ ~Due(p, "Stop")
      <4>1. e.kind = "Enabled" => a.desired
        BY <2>1, <2>4, <3>2 DEF Tells, Switched
      <4>2. e.kind = "Disabled" => ~a.desired
        BY <2>1, <2>4, <3>2 DEF Tells, Switched
      <4>3. Queued(q, "Enabled") \/ Queued(q, "Disabled") =>
              ~Due(p, "Start") /\ ~Due(p, "Stop")
        BY <2>1, <2>2, <2>3, <3>2 DEF Switched, Enablements
      <4> QED BY <2>1, <2>2, <3>2, <4>1, <4>2, <4>3 DEF Switched
    <3> QED BY <2>1, <3>1, <3>2 DEF Switched
  <2>6. Follows(a, q, p)
    <3>1. e.kind = "Prepared" => ~Queued(m, "Prepared") /\ p.prepared
      BY <2>1 DEF Tells, Follows, Ongoing, Early, Chosen, Faithful, PhaseTells
    <3>2. Orderly(q.queue, MailBars)
      <4>1. \A k : <<k, e.kind>> \in MailBars => ~Queued(m, k)
        BY <2>3, <3>1 DEF MailBars, Enablements
      <4> QED BY <1>1, <1>5, <2>1, <4>1 DEF Follows
    <3>3. ASSUME Ongoing(p)
          PROVE  /\ ~Queued(q, "Disconnected") /\ ~Queued(q, "Disabled")
                 /\ Queued(q, "Prepared") => p.prepared
      BY <2>1, <2>2, <3>1, <3>3 DEF Tells, Follows
    <3>4. ASSUME Early(p)
          PROVE  ~Queued(q, "Associated") /\ ~Queued(q, "AddressReady")
      BY <2>1, <2>2, <3>4 DEF Tells, Follows
    <3> QED BY <2>1, <3>2, <3>3, <3>4 DEF Follows
  <2> QED BY <2>5, <2>6
<1> QED BY <1>2, <1>3, <1>4, <1>5 DEF Together
-----------------------------------------------------------------------------
(* What the driver does by itself *)

LEMMA ReturnsTogether ==
  ASSUME Built(native), Faithful(native), native.attached,
         Together(adapter, mail, native), CallReturns
  PROVE  /\ Faithful(native')
         /\ Together(adapter, mail', native')
<1>1. PICK m : m = Returned(native)
  OBVIOUS
<1>2. native' = m /\ mail' = mail /\ native.call # NoCall
  BY <1>1 DEF CallReturns
<1>3. /\ Faithful(m) /\ m.call = NoCall
      /\ \/ native.call.kind = "scan" /\ Keeps(native, m, {"scanning", "call"})
         \/ native.call.kind = "scan" /\ Keeps(native, m, {"scan_active", "call"})
         \/ /\ native.call.kind = "select" /\ native.call.answer = "Ok"
            /\ Keeps(native, m, {"scanning", "phase", "call"})
            /\ m.told.phase = "Selecting"
         \/ /\ native.call.kind = "select"
            /\ Keeps(native, m, {"selecting", "secret", "call"})
         \/ /\ native.call.kind = "join" /\ native.call.answer = "Ok"
            /\ Keeps(native, m, {"link", "ap", "phase", "call"})
            /\ m.told.phase = "Joining"
         \/ /\ native.call.kind = "join"
            /\ Keeps(native, m, {"attempt", "candidates", "phase", "call"})
            /\ m.told.phase = "Idle"
  BY <1>1, <1>2, ReturnedIs
<1>4. m.call.kind = "None" /\ ~Begins(m, "select") /\ ~Begins(m, "join")
  BY <1>3 DEF NoCall, Begins
<1>5. /\ m.attached = native.attached /\ m.idf.on = native.idf.on
      /\ m.config = native.config /\ m.told.leaving = native.told.leaving
      /\ m.prepared = native.prepared
      /\ \A k : Due(m, k) <=> Due(native, k)
  BY <1>3 DEF Keeps, Due
<1>6. CASE native.call.kind = "scan"
  <2>1. m.told.phase = native.told.phase /\ m.secret = native.secret
    BY <1>3, <1>6 DEF Keeps
  <2>2. Recedes(native, m)
    BY <1>4, <1>5, <2>1 DEF Recedes, Withdraws, Chosen, Early, Ongoing
  <2> QED BY <1>2, <1>3, <2>2, RecedesTogether
<1>7. CASE native.call.kind = "select"
  <2>1. native.told.phase = "Idle" /\ ~native.prepared
    BY <1>7, SelectCallIs
  <2>2. CASE m.told.phase = "Selecting" /\ native.call.answer = "Ok"
    <3>1. Keeps(native, m, {"scanning", "phase", "call"})
      BY <1>3, <1>7, <2>1, <2>2 DEF Keeps
    <3>2. m.secret = native.secret
      BY <3>1 DEF Keeps
    <3>3. Chosen(native) /\ Early(native) /\ Ongoing(native)
      BY <1>7, <2>2 DEF Chosen, Early, Ongoing, Begins
    <3>4. Recedes(native, m)
      BY <1>4, <1>5, <2>1, <3>2, <3>3 DEF Recedes, Withdraws
    <3> QED BY <1>2, <1>3, <3>4, RecedesTogether
  <2>3. CASE Keeps(native, m, {"selecting", "secret", "call"})
    <3>1. m.told.phase = "Idle"
      BY <2>1, <2>3 DEF Keeps
    <3>2. ~Chosen(m) /\ ~Early(m) /\ ~Ongoing(m)
      BY <1>4, <1>5, <2>1, <3>1 DEF Chosen, Early, Ongoing, Linked
    <3>3. Recedes(native, m)
      BY <1>4, <1>5, <3>2 DEF Recedes, Withdraws
    <3> QED BY <1>2, <1>3, <3>3, RecedesTogether
  <2> QED BY <1>3, <1>7, <2>2, <2>3
<1>8. CASE native.call.kind = "join"
  <2>1. native.told.phase = "Prepared" /\ ~native.prepared
    BY <1>8, JoinCallIs
  <2>2. ~Chosen(m) /\ ~Early(m)
    BY <1>3, <1>4, <1>5, <1>8, <2>1 DEF Chosen, Early
  <2>3. Ongoing(m) => Ongoing(native)
    BY <1>3, <1>8, <2>2 DEF Ongoing, Early, Begins, Linked
  <2>4. Recedes(native, m)
    BY <1>4, <1>5, <2>1, <2>2, <2>3 DEF Recedes, Withdraws
  <2> QED BY <1>2, <1>3, <2>4, RecedesTogether
<1> QED BY <1>3, <1>6, <1>7, <1>8

LEMMA HappensTogether ==
  ASSUME Built(native), Faithful(native),
         Together(adapter, mail, native), Happens
  PROVE  /\ Faithful(native')
         /\ Together(adapter, mail', native')
<1>1. /\ Faithful(native') /\ mail' = mail /\ native.attached
      /\ Keeps(native, native', {"scanning", "link", "ap", "loop"})
      /\ \A k \in Switches : Due(native', k) <=> Due(native, k)
  BY HappensIs
<1>2. Recedes(native, native')
  BY <1>1 DEF Recedes, Withdraws, Keeps, Chosen, Early, Ongoing, Begins
<1> QED BY <1>1, <1>2, RecedesTogether

(* A handler, if it takes on nothing new and posts what it may.            *)
LEMMA ToldTogether ==
  ASSUME Mailed(mail), Faithful(native), native.attached,
         Together(adapter, mail, native), Recedes(native, native'),
         NEW kind, NEW ssid, NEW status,
         Event(kind, ssid, status) \in SaneEvents,
         mail' = post(mail, Event(kind, ssid, status)),
         Tells(native, native', kind)
  PROVE  Together(adapter, mail', native')
<1>1. PICK e : e = Event(kind, ssid, status)
  OBVIOUS
<1>2. e.kind = kind
  BY <1>1 DEF Event
<1> QED BY <1>1, <1>2, TellsTogether

LEMMA OnStartTogether ==
  ASSUME Built(native), Faithful(native), native.attached, Mailed(mail),
         Together(adapter, mail, native), OnStart
  PROVE  Together(adapter, mail', native')
<1>1. /\ Keeps(native, native', {"loop", "enabled"})
      /\ Due(native, "Start")
      /\ ~Due(native', "Start") /\ ~Due(native', "Stop")
      /\ mail' = post(mail, Enablement(TRUE))
  BY OnStartIs
<1>2. Recedes(native, native')
  BY <1>1 DEF Recedes, Withdraws, Keeps, Chosen, Early, Ongoing, Begins, Switches
<1>3. Tells(native, native', "Enabled")
  BY <1>1 DEF Tells, Enablements
<1>4. /\ Enablement(TRUE) = Event("Enabled", NoNetwork, "Ok")
      /\ Enablement(TRUE) \in SaneEvents
  BY SaneEvent DEF Enablement
<1> QED BY <1>1, <1>2, <1>3, <1>4, ToldTogether

LEMMA OnStopTogether ==
  ASSUME Built(native), Faithful(native), native.attached, Mailed(mail),
         Together(adapter, mail, native), OnStop
  PROVE  Together(adapter, mail', native')
<1>1. /\ Keeps(native, native', {"loop", "enabled", "phase"})
      /\ native.idf.on = FALSE /\ Due(native, "Stop")
      /\ native'.told.phase = "Idle" /\ ~native'.prepared
      /\ ~Due(native', "Start") /\ ~Due(native', "Stop")
      /\ mail' = post(mail, Enablement(FALSE))
  BY OnStopIs
<1>2. native'.call = native.call
  BY <1>1 DEF Keeps
<1>3. ~Begins(native', "select") /\ ~Begins(native', "join")
  BY <1>1, <1>2 DEF Faithful, PhaseTells, Begins
<1>4. ~Chosen(native') /\ ~Early(native') /\ ~Ongoing(native')
  BY <1>1, <1>3 DEF Chosen, Early, Ongoing, Linked
<1>5. Recedes(native, native')
  BY <1>1, <1>4 DEF Recedes, Withdraws, Keeps, Switches
<1>6. Tells(native, native', "Disabled")
  BY <1>1, <1>4 DEF Tells, Enablements
<1>7. /\ Enablement(FALSE) = Event("Disabled", NoNetwork, "Ok")
      /\ Enablement(FALSE) \in SaneEvents
  BY SaneEvent DEF Enablement
<1> QED BY <1>1, <1>5, <1>6, <1>7, ToldTogether
LEMMA OnScanDoneTogether ==
  ASSUME Built(native), Faithful(native), native.attached, Mailed(mail),
         Together(adapter, mail, native), OnScanDone
  PROVE  Together(adapter, mail', native')
<1>1. \A k \in Switches : Due(native', k) <=> Due(native, k)
  BY OnScanDoneIs DEF Switches
<1>2. CASE /\ native.told.phase = "Selecting"
           /\ Keeps(native, native', {"loop", "selecting", "candidates",
                                      "selected", "prepared", "phase"})
           /\ native'.prepared = TRUE /\ native'.told.phase = "Prepared"
           /\ mail' = post(mail, Event("Prepared", NoNetwork, "Ok"))
  <2>1. Chosen(native) /\ Early(native) /\ Ongoing(native)
    BY <1>2 DEF Chosen, Early, Ongoing
  <2>2. Recedes(native, native')
    BY <1>1, <1>2, <2>1 DEF Recedes, Withdraws, Keeps
  <2>3. Tells(native, native', "Prepared")
    BY <1>2 DEF Tells, Enablements
  <2>4. Event("Prepared", NoNetwork, "Ok") \in SaneEvents
    BY SaneEvent DEF Ssid
  <2> QED BY <1>2, <2>2, <2>3, <2>4, ToldTogether
<1>3. CASE /\ native.call.kind \notin {"scan", "select", "join"}
           /\ ~native.prepared
           /\ Keeps(native, native', {"loop", "selecting", "cancelled",
                                      "candidates", "secret", "phase",
                                      "leaving"})
           /\ native'.told.phase = "Idle" /\ native'.told.leaving = FALSE
           /\ mail' = post(mail, Event("Disconnected", native.config,
                                       "ConnectionFailed"))
  <2>1. ~Chosen(native') /\ ~Early(native') /\ ~Ongoing(native')
    BY <1>3 DEF Keeps, Chosen, Early, Ongoing, Begins, Linked
  <2>2. Recedes(native, native')
    BY <1>1, <1>3, <2>1 DEF Recedes, Withdraws, Keeps
  <2>3. Tells(native, native', "Disconnected")
    BY <2>1 DEF Tells, Enablements
  <2>4. Event("Disconnected", native.config, "ConnectionFailed") \in SaneEvents
    BY SaneEvent, StationTyped DEF Built
  <2> QED BY <1>3, <2>2, <2>3, <2>4, ToldTogether
<1>4. ASSUME NEW status \in {"Ok", "ConnectionFailed"},
             Keeps(native, native', {"loop", "scan_active", "cancelled"}),
             mail' = post(mail, Event("ScanDone", NoNetwork, status))
      PROVE  Together(adapter, mail', native')
  <2>1. Recedes(native, native')
    BY <1>1, <1>4 DEF Recedes, Withdraws, Keeps, Chosen, Early, Ongoing, Begins
  <2>2. Tells(native, native', "ScanDone")
    BY DEF Tells, Enablements
  <2>3. Event("ScanDone", NoNetwork, status) \in SaneEvents
    BY SaneEvent
  <2> QED BY <1>4, <2>1, <2>2, <2>3, ToldTogether
<1> QED BY <1>2, <1>3, <1>4, OnScanDoneIs

LEMMA OnConnectedTogether ==
  ASSUME Built(native), Faithful(native), native.attached, Mailed(mail),
         Together(adapter, mail, native), OnConnected
  PROVE  Together(adapter, mail', native')
<1>1. native.told.phase = "Joining" /\ NetworkOf[Current.ap] = native.config
  BY OnConnectedIs
<1>2. \A k \in Switches : Due(native', k) <=> Due(native, k)
  BY OnConnectedIs DEF Switches
<1>3. /\ ~native.prepared /\ native.call.kind \notin {"select", "join"}
      /\ Ongoing(native)
  BY <1>1 DEF Faithful, PhaseTells, Ongoing, Linked
<1>4. CASE /\ Keeps(native, native', {"loop", "phase"})
           /\ native'.told.phase = "Associated"
           /\ mail' = post(mail, Event("Associated", NetworkOf[Current.ap],
                                       "Ok"))
  <2>1. ~Chosen(native') /\ ~Early(native')
    BY <1>3, <1>4 DEF Keeps, Chosen, Early, Begins
  <2>2. Recedes(native, native')
    BY <1>2, <1>3, <1>4, <2>1 DEF Recedes, Withdraws, Keeps
  <2>3. Tells(native, native', "Associated")
    BY <2>1 DEF Tells, Enablements
  <2>4. Event("Associated", NetworkOf[Current.ap], "Ok") \in SaneEvents
    BY <1>1, SaneEvent, StationTyped DEF Built
  <2> QED BY <1>4, <2>2, <2>3, <2>4, ToldTogether
<1>5. CASE /\ Keeps(native, native', {"loop", "rejected", "link", "ap"})
           /\ mail' = mail
  <2>1. Recedes(native, native')
    BY <1>2, <1>5 DEF Recedes, Withdraws, Keeps, Chosen, Early, Ongoing, Begins
  <2> QED BY <1>5, <2>1, RecedesTogether
<1> QED BY <1>4, <1>5, OnConnectedIs

LEMMA OnDisconnectedTogether ==
  ASSUME Built(native), Faithful(native), native.attached, Mailed(mail),
         Together(adapter, mail, native), OnDisconnected
  PROVE  Together(adapter, mail', native')
<1>1. /\ native.told.phase \in Linked
      /\ NetworkOf[Current.ap] = native.config
      /\ \A k : k \notin {"Connected", "Disconnected"} =>
           (Due(native', k) <=> Due(native, k))
      /\ Keeps(native, native', {"loop", "attempt", "candidates",
                                 "rejected", "phase", "leaving"})
      /\ native'.told.phase = "Idle" /\ native'.told.leaving = FALSE
      /\ mail' = post(mail, Event("Disconnected", NetworkOf[Current.ap],
                                  "ConnectionFailed"))
  BY OnDisconnectedIs
<1>2. \A k \in Switches : Due(native', k) <=> Due(native, k)
  BY <1>1 DEF Switches
<1>3. ~native.prepared /\ native.call.kind \notin {"select", "join"}
  BY <1>1 DEF Faithful, PhaseTells, Linked
<1>4. ~Chosen(native') /\ ~Early(native') /\ ~Ongoing(native')
  BY <1>1, <1>3 DEF Keeps, Chosen, Early, Ongoing, Begins, Linked
<1>5. Recedes(native, native')
  BY <1>1, <1>2, <1>4 DEF Recedes, Withdraws, Keeps
<1>6. Tells(native, native', "Disconnected")
  BY <1>4 DEF Tells, Enablements
<1>7. Event("Disconnected", NetworkOf[Current.ap], "ConnectionFailed")
        \in SaneEvents
  BY <1>1, SaneEvent, StationTyped DEF Built
<1> QED BY <1>1, <1>5, <1>6, <1>7, ToldTogether

LEMMA OnGotIpTogether ==
  ASSUME Built(native), Faithful(native), native.attached, Mailed(mail),
         Together(adapter, mail, native), OnGotIp
  PROVE  Together(adapter, mail', native')
<1>1. \A k \in Switches : Due(native', k) <=> Due(native, k)
  BY OnGotIpIs DEF Switches
<1>2. CASE /\ native.told.phase \in Linked
           /\ NetworkOf[native.idf.ap] = native.config
           /\ Keeps(native, native', {"loop", "attempt", "candidates",
                                      "phase"})
           /\ native'.told.phase = IF native.told.phase = "Associated"
                                   THEN "AddressReady" ELSE native.told.phase
           /\ mail' = post(mail, Event("AddressReady",
                                       NetworkOf[native.idf.ap], "Ok"))
  <2>1. /\ ~native.prepared /\ native.call.kind \notin {"select", "join"}
        /\ Ongoing(native) /\ native'.told.phase \in Linked
    BY <1>2 DEF Faithful, PhaseTells, Ongoing, Linked
  <2>2. ~Chosen(native') /\ ~Early(native')
    BY <1>2, <2>1 DEF Keeps, Chosen, Early, Begins, Linked
  <2>3. Recedes(native, native')
    BY <1>1, <1>2, <2>1, <2>2 DEF Recedes, Withdraws, Keeps
  <2>4. Tells(native, native', "AddressReady")
    BY <2>2 DEF Tells, Enablements
  <2>5. Event("AddressReady", NetworkOf[native.idf.ap], "Ok") \in SaneEvents
    BY <1>2, SaneEvent, StationTyped DEF Built
  <2> QED BY <1>2, <2>3, <2>4, <2>5, ToldTogether
<1>3. CASE Keeps(native, native', {"loop"}) /\ mail' = mail
  <2>1. Recedes(native, native')
    BY <1>1, <1>3 DEF Recedes, Withdraws, Keeps, Chosen, Early, Ongoing, Begins
  <2> QED BY <1>3, <2>1, RecedesTogether
<1> QED BY <1>2, <1>3, OnGotIpIs

LEMMA OnLostIpTogether ==
  ASSUME Built(native), Faithful(native), native.attached, Mailed(mail),
         Together(adapter, mail, native), OnLostIp
  PROVE  Together(adapter, mail', native')
<1>1. \A k \in Switches : Due(native', k) <=> Due(native, k)
  BY OnLostIpIs DEF Switches
<1>2. CASE /\ Keeps(native, native', {"loop", "phase"})
           /\ native'.told.phase = IF native.told.phase = "AddressReady"
                                   THEN "Associated" ELSE native.told.phase
           /\ mail' = post(mail, Event("AddressLost", NoNetwork, "Ok"))
  <2>1. Recedes(native, native')
    BY <1>1, <1>2
       DEF Recedes, Withdraws, Keeps, Chosen, Early, Ongoing, Begins, Linked
  <2>2. Tells(native, native', "AddressLost")
    BY DEF Tells, Enablements
  <2>3. Event("AddressLost", NoNetwork, "Ok") \in SaneEvents
    BY SaneEvent DEF Ssid
  <2> QED BY <1>2, <2>1, <2>2, <2>3, ToldTogether
<1>3. CASE Keeps(native, native', {"loop"}) /\ mail' = mail
  <2>1. Recedes(native, native')
    BY <1>1, <1>3 DEF Recedes, Withdraws, Keeps, Chosen, Early, Ongoing, Begins
  <2> QED BY <1>3, <2>1, RecedesTogether
<1> QED BY <1>2, <1>3, OnLostIpIs

LEMMA DeliversTogether ==
  ASSUME Built(native), Faithful(native), Mailed(mail),
         Together(adapter, mail, native), Delivers
  PROVE  /\ Faithful(native')
         /\ Together(adapter, mail', native')
<1>1. native.attached
  BY DEF Delivers, OnStart, OnStop, OnScanDone, OnConnected, OnDisconnected,
         OnGotIp, OnLostIp, Delivered
<1>2. CASE OnStart \/ OnStop
  BY <1>1, <1>2, OnStartIs, OnStopIs, OnStartTogether, OnStopTogether
<1>3. CASE OnScanDone
  BY <1>1, <1>3, OnScanDoneIs, OnScanDoneTogether
<1>4. CASE OnConnected \/ OnDisconnected
  BY <1>1, <1>4, OnConnectedIs, OnDisconnectedIs, OnConnectedTogether,
     OnDisconnectedTogether
<1>5. CASE OnGotIp \/ OnLostIp
  BY <1>1, <1>5, OnGotIpIs, OnLostIpIs, OnGotIpTogether, OnLostIpTogether
<1> QED BY <1>2, <1>3, <1>4, <1>5 DEF Delivers
-----------------------------------------------------------------------------
(* Commands keep adapter and driver together *)

Pairs(a, m, n) == (n.attached => Faithful(n)) /\ Together(a, m, n)

(* The inductive invariant: that adapter and driver have each for itself,  *)
(* what the driver tells, and what they know of each other.                *)
Paired == BusyInv /\ Pairs(adapter, mail, native)

LEMMA PairedIs ==
  ASSUME Paired
  PROVE  /\ Inv /\ Built(native) /\ adapter \in Adapters /\ Mailed(mail)
         /\ native \in Stations /\ native.attached \in BOOLEAN
         /\ native.attached => Faithful(native)
         /\ Together(adapter, mail, native) /\ Operations(adapter)
         /\ adapter.attached = native.attached
BY DEF Paired, Pairs, BusyInv, InterfaceInv, Inv, Settled, Sound, Built,
       Stations, Together, Apiece

LEMMA SameMail ==
  ASSUME NEW m, NEW q, q.queue = m.queue, q.overflow = m.overflow
  PROVE  Mails(m, q, {})
BY DEF Mails, Queued

LEMMA ScheduledMail ==
  ASSUME NEW m, Mailed(m)
  PROVE  /\ scheduleNow(m).queue = m.queue
         /\ scheduleNow(m).overflow = m.overflow
BY DEF scheduleNow, Mailed

(* What a command without effect on the switch takes for granted of what   *)
(* the adapter makes of the answer.                                        *)
LEMMA CommandTogether ==
  ASSUME NEW a, NEW m, NEW n, n.attached, Together(a, m, n),
         NEW b, NEW q, NEW p, Withdraws(n, p),
         b.attached = a.attached, ~a.faulted, ~b.faulted,
         b.attached \/ ~b.draining, b.attached \/ p.call = NoCall,
         b.link = a.link, b.enabled = a.enabled,
         a.station.kind # "Enable", b.station.kind # "Enable",
         Connecting(a) => Connecting(b),
         p.told.leaving => /\ b.station.kind \in {"Connect", "Disconnect"}
                           /\ b.waiting \/ b.cancelling,
         ~m.overflow /\ Switched(a, m, n) =>
           /\ Connecting(b) => b.enabled /\ b.config \in Networks
           /\ /\ Connecting(b) /\ ~b.cancelling
              /\ b.waiting \/ b.link.phase = "Idle"
              => b.credentials = b.config,
         NEW kinds, Mails(m, q, kinds), kinds \subseteq {"Disconnected"},
         ~m.overflow /\ Follows(a, m, n) /\ kinds # {} => ~Ongoing(p)
  PROVE  Together(b, q, p)
<1>1. Apiece(b, p) /\ p.attached
  BY DEF Together, Apiece, Withdraws
<1>2. Obeys(b, p)
  BY DEF Together, Obeys, Withdraws, Switches
<1>3. ASSUME ~q.overflow
      PROVE  Switched(b, q, p) /\ Follows(b, q, p)
  <2>1. ~m.overflow /\ Switched(a, m, n) /\ Follows(a, m, n)
    BY <1>3 DEF Mails, Together
  <2>2. \A k : Queued(q, k) <=> (Queued(m, k) \/ k \in kinds)
    BY <1>3 DEF Mails
  <2>3. \A k : k # "Disconnected" => (Queued(q, k) <=> Queued(m, k))
    BY <2>2
  <2>4. Switched(b, q, p)
    BY <2>1, <2>3 DEF Switched, Withdraws
  <2>5. Orderly(q.queue, MailBars)
    <3>1. \A k, l : <<k, l>> \in MailBars /\ l \in kinds => ~Queued(m, k)
      BY DEF MailBars, Enablements
    <3> QED BY <1>3, <2>1, <3>1 DEF Mails, Follows
  <2>6. Queued(q, "Disconnected") => Queued(m, "Disconnected") \/ ~Ongoing(p)
    BY <2>1, <2>2
  <2>7. Follows(b, q, p)
    BY <2>1, <2>3, <2>5, <2>6 DEF Follows, Withdraws
  <2> QED BY <2>4, <2>7
<1> QED BY <1>1, <1>2, <1>3 DEF Together

(* The adapter is at no station operation. *)
LEMMA IdleIs ==
  ASSUME Paired, native.call = NoCall, stationAdmission = "Ok"
  PROVE  /\ adapter.attached /\ native.attached /\ ~adapter.faulted
         /\ Faithful(native) /\ adapter.station.id = 0
         /\ adapter.station.kind = "None"
         /\ ~Connecting(adapter) /\ ~Chosen(native) /\ ~Early(native)
         /\ ~native.prepared /\ ~native.selecting /\ ~native.told.leaving
         /\ ~Due(native, "Start") /\ ~Due(native, "Stop")
<1>1. adapter.attached /\ ~adapter.faulted /\ adapter.station.id = 0
  BY DEF stationAdmission
<1>2. native.attached /\ Faithful(native) /\ Obeys(adapter, native)
  BY <1>1, PairedIs DEF Together
<1>3. adapter.station.kind = "None"
  BY <1>1, PairedIs DEF Operations
<1>4. ~Connecting(adapter)
  BY <1>1 DEF Connecting
<1>5. /\ ~Chosen(native) /\ ~native.told.leaving
      /\ ~Due(native, "Start") /\ ~Due(native, "Stop")
  BY <1>2, <1>3, <1>4 DEF Obeys
<1>6. native.call.kind = "None"
  BY DEF NoCall
<1>7. ~Early(native) /\ ~native.prepared /\ ~native.selecting
  BY <1>2, <1>5, <1>6 DEF Early, Chosen, Begins, Faithful, PhaseTells
<1> QED BY <1>1, <1>2, <1>3, <1>4, <1>5, <1>7

LEMMA AttachedFaithful == Faithful(AttachedStation)
<1>1. PICK n : n = AttachedStation
  OBVIOUS
<1>2. /\ ~n.selecting /\ ~n.prepared /\ ~n.attempt /\ ~n.scan_active
      /\ n.candidates = <<>> /\ n.call.kind = "None"
      /\ n.idf.link = "Down" /\ n.idf.loop = <<>> /\ ~n.idf.scanning
      /\ n.told.phase = "Idle" /\ ~n.told.leaving
      /\ n.idf.on = FALSE /\ n.told.enabled = FALSE
  BY <1>1 DEF AttachedStation, NewStation, StoppedIdf, NoCall
<1>3. Orderly(n.idf.loop, Bars) /\ Range(n.idf.loop) = {} /\ \A k : ~Due(n, k)
  BY <1>2, NoneIs DEF Due
<1>4. LoopTells(n)
  BY <1>2, <1>3 DEF LoopTells
<1>5. PhaseTells(n)
  BY <1>2 DEF PhaseTells, Begins
<1>6. ScanIsOne(n) /\ AttemptIsOwn(n)
  BY <1>2, <1>3 DEF ScanIsOne, AttemptIsOwn
<1>7. NetworkIsOwn(n)
  BY <1>2, <1>3 DEF NetworkIsOwn
<1> QED BY <1>1, <1>4, <1>5, <1>6, <1>7 DEF Faithful

LEMMA BeginPairs ==
  ASSUME Paired, Begin(AttachedStation)
  PROVE  Pairs(adapter', mail', native')
<1>1. PICK n : n = AttachedStation
  OBVIOUS
<1>2. /\ adapter = NewAdapter /\ native' = n /\ mail' = NewMail
      /\ adapter' = [adapter EXCEPT !.attached = TRUE, !.faulted = FALSE]
  BY <1>1, PairedIs DEF Begin, Inv
<1>3. Faithful(n)
  BY <1>1, AttachedFaithful
<1>4. /\ n.prepared = FALSE /\ n.told.phase = "Idle" /\ n.call = NoCall
      /\ n.told.leaving = FALSE /\ n.idf.loop = <<>> /\ n.idf.on = FALSE
      /\ n.attached = TRUE
  BY <1>1 DEF AttachedStation, NewStation, StoppedIdf
<1>5. PICK a : a = adapter'
  OBVIOUS
<1>6. /\ a.attached = TRUE /\ a.faulted = FALSE /\ a.enabled = FALSE
      /\ a.station = NoStation
  BY <1>2, <1>5 DEF NewAdapter
<1>7. a.station.kind = "None" /\ ~Connecting(a)
  BY <1>6 DEF NoStation, Connecting
<1>8. ~Chosen(n) /\ ~Early(n) /\ ~Ongoing(n) /\ n.call.kind = "None"
  BY <1>4 DEF Chosen, Early, Ongoing, Begins, NoCall, Linked
<1>9. \A k : ~Due(n, k)
  BY <1>4, NoneIs DEF Due
<1>10. PICK m : m = NewMail
  OBVIOUS
<1>11. m.queue = <<>> /\ m.overflow = FALSE
  BY <1>10 DEF NewMail
<1>12. Orderly(m.queue, MailBars) /\ \A k : ~Queued(m, k)
  BY <1>11, NoneIs DEF Queued
<1>13. Apiece(a, n) /\ Obeys(a, n)
  BY <1>4, <1>6, <1>8, <1>9 DEF Apiece, Obeys
<1>14. Switched(a, m, n) /\ Follows(a, m, n)
  BY <1>4, <1>6, <1>7, <1>8, <1>12 DEF Switched, Follows
<1>15. Together(a, m, n)
  BY <1>6, <1>13, <1>14 DEF Together
<1> QED BY <1>2, <1>3, <1>5, <1>10, <1>15 DEF Pairs

LEMMA ShutdownPairs ==
  ASSUME Paired, native.call = NoCall, Shutdown(detach(native))
  PROVE  Pairs(adapter', mail', native')
<1>1. PICK l : l = Leaves(native)
  OBVIOUS
<1>2. l \in Stations /\ l.call = native.call
  <2>1. Built(l)
    BY <1>1, LeavesBuilt, PairedIs
  <2>2. l.call = native.call
    BY <1>1, PairedIs DEF Built, Stations, Leaves, Unjoined, Raise
  <2> QED BY <2>1, <2>2 DEF Built
<1>3. PICK n : n = native'
  OBVIOUS
<1>4. n.attached = FALSE /\ n.call = NoCall
  BY <1>1, <1>2, <1>3 DEF Shutdown, detach, Stations
<1>5. PICK a : a = adapter'
  OBVIOUS
<1>6. /\ a.attached = FALSE /\ a.draining = adapter.draining
      /\ a.faulted = adapter.faulted
  BY <1>5, PairedIs DEF Shutdown, Adapters
<1>7. ~adapter.draining
  BY DEF Shutdown, Free
<1>8. PICK m : m = mail'
  OBVIOUS
<1>9. m.overflow = mail.overflow
  BY <1>8, PairedIs DEF Shutdown, Mailed
<1>10. adapter.faulted => mail.overflow
  BY PairedIs DEF Together
<1>11. Together(a, m, n)
  BY <1>4, <1>6, <1>7, <1>9, <1>10 DEF Together, Apiece
<1> QED BY <1>3, <1>4, <1>5, <1>8, <1>11 DEF Pairs
(* What a command of the driver leaves may differ where nothing together   *)
(* depends on it.                                                          *)
Alike(a, b) ==
  /\ b.attached = a.attached /\ b.faulted = a.faulted
  /\ b.enabled = a.enabled /\ b.desired = a.desired
  /\ b.cancelling = a.cancelling /\ b.waiting = a.waiting
  /\ b.station = a.station /\ b.link = a.link
  /\ b.config = a.config /\ b.credentials = a.credentials
  /\ b.attached \/ ~b.draining

LEMMA AlikeTogether ==
  ASSUME NEW a, NEW m, NEW n, NEW b, Together(a, m, n), Alike(a, b)
  PROVE  Together(b, m, n)
<1>1. Apiece(b, n)
  BY DEF Alike, Together, Apiece
<1>2. n.attached /\ ~b.faulted => Obeys(b, n)
  BY DEF Alike, Together, Obeys, Connecting
<1>3. n.attached /\ ~m.overflow => Switched(b, m, n) /\ Follows(b, m, n)
  BY DEF Alike, Together, Switched, Follows, Connecting
<1> QED BY <1>1, <1>2, <1>3 DEF Alike, Together

LEMMA ScanPairs ==
  ASSUME Paired, native.call = NoCall, StartScan(scan(native))
  PROVE  Pairs(adapter', mail', native')
<1>1. stationAdmission = "Ok" /\ mail' = mail
  BY DEF StartScan
<1>2. /\ native.attached /\ Faithful(native) /\ Built(native)
      /\ adapter.attached
  BY <1>1, IdleIs, PairedIs
<1>3. PICK o \in scan(native) :
        /\ native' = o.native
        /\ adapter' = adapter \/ adapter' = [adapter EXCEPT !.scan = client.next]
  BY DEF StartScan
<1>4. /\ Faithful(o.native)
      /\ \/ o.native = native
         \/ /\ Keeps(native, o.native, {"scan_active", "cancelled", "call"})
            /\ o.native.call.kind = "scan"
  BY <1>2, <1>3, ScanIs
<1>5. Recedes(native, o.native)
  <2>1. CASE o.native = native
    BY <2>1 DEF Recedes, Withdraws
  <2>2. CASE /\ Keeps(native, o.native, {"scan_active", "cancelled", "call"})
             /\ o.native.call.kind = "scan"
    BY <2>2
       DEF Recedes, Withdraws, Keeps, Chosen, Early, Ongoing, Begins, Due
  <2> QED BY <1>4, <2>1, <2>2
<1>6. Together(adapter, mail, o.native)
  BY <1>2, <1>5, PairedIs, RecedesTogether
<1>7. Alike(adapter, adapter')
  BY <1>2, <1>3, PairedIs DEF Alike, Adapters
<1> QED BY <1>1, <1>3, <1>4, <1>6, <1>7, AlikeTogether DEF Pairs

LEMMA CancelScanPairs ==
  ASSUME Paired, native.call = NoCall, CancelScan(stopScan(native))
  PROVE  Pairs(adapter', mail', native')
<1>1. adapter.scan # 0 /\ mail' = mail
  BY DEF CancelScan
<1>2. /\ native.attached /\ Faithful(native) /\ Built(native)
      /\ adapter.attached
  BY <1>1, PairedIs DEF Operations
<1>3. PICK o \in stopScan(native) :
        /\ native' = o.native
        /\ \/ adapter' = adapter
           \/ adapter' = [adapter EXCEPT !.scan_cancelling = TRUE]
  BY DEF CancelScan
<1>4. /\ Faithful(o.native)
      /\ Keeps(native, o.native, {"cancelled", "scanning", "loop"})
      /\ \A k : k # "ScanDone" => (Due(o.native, k) <=> Due(native, k))
  BY <1>2, <1>3, StopScanIs
<1>5. Recedes(native, o.native)
  BY <1>4 DEF Recedes, Withdraws, Keeps, Chosen, Early, Ongoing, Begins,
              Switches
<1>6. Together(adapter, mail, o.native)
  BY <1>2, <1>5, PairedIs, RecedesTogether
<1>7. Alike(adapter, adapter')
  BY <1>2, <1>3, PairedIs DEF Alike, Adapters
<1> QED BY <1>1, <1>3, <1>4, <1>6, <1>7, AlikeTogether DEF Pairs

LEMMA EnablePairs ==
  ASSUME Paired, native.call = NoCall, NEW enabled \in BOOLEAN,
         SetEnabled(enabled, enable(native, enabled))
  PROVE  Pairs(adapter', mail', native')
<1>1. stationAdmission = "Ok" /\ client.next # 0
  BY PairedIs DEF SetEnabled, Inv
<1>2. /\ native.attached /\ Faithful(native) /\ Built(native)
      /\ adapter.attached /\ ~adapter.faulted
      /\ adapter.station.kind = "None" /\ ~Connecting(adapter)
      /\ ~Chosen(native) /\ ~Early(native)
      /\ ~native.prepared /\ ~native.selecting /\ ~native.told.leaving
      /\ ~Due(native, "Start") /\ ~Due(native, "Stop")
  BY <1>1, IdleIs, PairedIs
<1>3. PICK o \in enable(native, enabled) :
        /\ native' = o.native /\ mail' = Posted(mail, o.posts)
        /\ LET asked == [adapter EXCEPT !.desired = enabled]
           IN  IF o.answer = "Ok"
               THEN adapter' = [asked EXCEPT !.station =
                                  [id |-> client.next, kind |-> "Enable"]]
               ELSE adapter' = asked
  BY DEF SetEnabled
<1>4. PICK n : n = o.native
  OBVIOUS
<1>5. /\ Faithful(n)
      /\ Keeps(native, n, {"candidates", "attempt", "on", "scanning",
                           "link", "ap", "loop"})
      /\ \/ /\ o.answer = "ConnectionFailed" /\ o.posts = <<>>
            /\ Keeps(native, n, {"candidates", "attempt"})
         \/ /\ o.answer = "Ok" /\ o.posts = <<Enablement(enabled)>>
            /\ native.idf.on = enabled
            /\ Keeps(native, n, {"candidates", "attempt"})
         \/ /\ o.answer = "Ok" /\ o.posts = <<>>
            /\ native.idf.on = ~enabled /\ n.idf.on = enabled
  BY <1>2, <1>3, <1>4, EnableIs
<1>6. /\ n.attached = native.attached
      /\ n.call = NoCall /\ ~Chosen(n) /\ ~Early(n)
      /\ Ongoing(n) <=> Ongoing(native)
      /\ n.prepared = native.prepared /\ ~n.told.leaving
      /\ n.call.kind = "None"
  <2>1. /\ n.attached = native.attached /\ n.call = native.call
        /\ n.prepared = native.prepared
        /\ n.told.phase = native.told.phase
        /\ n.told.leaving = native.told.leaving
    BY <1>5 DEF Keeps
  <2>2. n.call.kind = "None"
    BY <2>1 DEF NoCall
  <2>3. /\ Chosen(n) <=> Chosen(native)
        /\ Early(n) <=> Early(native)
        /\ Ongoing(n) <=> Ongoing(native)
    BY <2>1 DEF Chosen, Early, Ongoing, Begins
  <2> QED BY <1>2, <2>1, <2>2, <2>3
<1>7. PICK a : a = adapter'
  OBVIOUS
<1>8. /\ a.attached = adapter.attached /\ a.faulted = adapter.faulted
      /\ a.enabled = adapter.enabled /\ a.link = adapter.link
      /\ a.draining = adapter.draining /\ a.desired = enabled
      /\ IF o.answer = "Ok" THEN a.station.kind = "Enable"
                            ELSE a.station = adapter.station
  <2>1. PICK asked : asked = [adapter EXCEPT !.desired = enabled]
    OBVIOUS
  <2>2. PICK st : st = [id |-> client.next, kind |-> "Enable"]
    OBVIOUS
  <2>3. a = IF o.answer = "Ok" THEN [asked EXCEPT !.station = st] ELSE asked
    BY <1>3, <1>7, <2>1, <2>2, Zenon
  <2>4. /\ asked.attached = adapter.attached /\ asked.faulted = adapter.faulted
        /\ asked.enabled = adapter.enabled /\ asked.link = adapter.link
        /\ asked.draining = adapter.draining
        /\ asked.station = adapter.station
        /\ DOMAIN asked = DOMAIN adapter
    BY <2>1, PairedIs DEF Adapters
  <2>5. asked.desired = enabled
    BY <2>1, PairedIs DEF Adapters
  <2>6. /\ a.attached = asked.attached /\ a.faulted = asked.faulted
        /\ a.enabled = asked.enabled /\ a.link = asked.link
        /\ a.draining = asked.draining /\ a.desired = asked.desired
    BY <2>3
  <2>7. IF o.answer = "Ok" THEN a.station.kind = "Enable"
                           ELSE a.station = asked.station
    <3>1. "station" \in DOMAIN asked
      BY <2>4, PairedIs DEF Adapters
    <3>2. st.kind = "Enable"
      BY <2>2
    <3> QED BY <2>3, <3>1, <3>2
  <2> QED BY <2>4, <2>5, <2>6, <2>7
<1>9. ~Connecting(a)
  BY <1>2, <1>8 DEF Connecting
<1>10. Apiece(a, n)
  BY <1>2, <1>6, <1>8 DEF Apiece
<1>11. /\ ~mail.overflow => Switched(adapter, mail, native)
                            /\ Follows(adapter, mail, native)
       /\ Mailed(mail)
  BY <1>2, PairedIs DEF Together
<1>12. CASE o.answer = "ConnectionFailed"
  <2>1. o.posts = <<>> /\ Keeps(native, n, {"candidates", "attempt"})
    BY <1>5, <1>12
  <2>2. /\ n.idf.on = native.idf.on /\ \A k : Due(n, k) <=> Due(native, k)
    BY <2>1 DEF Keeps, Due
  <2>3. mail' = mail
    BY <1>3, <2>1 DEF Posted
  <2>4. Obeys(a, n)
    BY <1>2, <1>6, <2>2 DEF Obeys
  <2>5. ~mail.overflow => Switched(a, mail, n) /\ Follows(a, mail, n)
    BY <1>2, <1>6, <1>8, <1>9, <1>11, <1>12, <2>2 DEF Switched, Follows
  <2>6. Together(a, mail, n)
    BY <1>2, <1>8, <1>10, <2>4, <2>5 DEF Together
  <2> QED BY <1>3, <1>4, <1>5, <1>7, <2>3, <2>6 DEF Pairs
<1>13. CASE o.answer = "Ok" /\ o.posts = <<>>
  <2>1. n.idf.on = enabled
    BY <1>5, <1>13
  <2>2. mail' = mail
    BY <1>3, <1>13 DEF Posted
  <2>3. Obeys(a, n)
    BY <1>6, <1>8, <1>13 DEF Obeys
  <2>4. ~mail.overflow => Switched(a, mail, n) /\ Follows(a, mail, n)
    BY <1>2, <1>6, <1>8, <1>9, <1>11, <1>13, <2>1 DEF Switched, Follows
  <2>5. Together(a, mail, n)
    BY <1>2, <1>8, <1>10, <2>3, <2>4 DEF Together
  <2> QED BY <1>3, <1>4, <1>5, <1>7, <2>2, <2>5 DEF Pairs
<1>14. CASE o.answer = "Ok" /\ o.posts = <<Enablement(enabled)>>
  <2>1. PICK e : e = Enablement(enabled)
    OBVIOUS
  <2>2. e \in SaneEvents /\ e.kind = IF enabled THEN "Enabled" ELSE "Disabled"
    BY <2>1, SaneEvent DEF Enablement, Event
  <2>3. PICK q : q = mail'
    OBVIOUS
  <2>4. q = post(mail, e)
    <3>1. o.posts # <<>> /\ o.posts[1] = e
      BY <1>14, <2>1
    <3> QED BY <1>3, <2>3, <3>1 DEF Posted
  <2>5. Mails(mail, q, {e.kind})
    BY <1>11, <2>2, <2>4, PostIs
  <2>6. native.idf.on = enabled /\ Keeps(native, n, {"candidates", "attempt"})
    BY <1>5, <1>14
  <2>7. n.idf.on = enabled /\ \A k : Due(n, k) <=> Due(native, k)
    BY <2>6 DEF Keeps, Due
  <2>8. Obeys(a, n)
    BY <1>6, <1>8, <1>14 DEF Obeys
  <2>9. ~enabled => ~Ongoing(native)
    BY <1>2, <2>6 DEF Faithful, LoopTells, PhaseTells, Ongoing, Linked
  <2>10. ASSUME ~q.overflow
         PROVE  Switched(a, q, n) /\ Follows(a, q, n)
    <3>1. /\ Switched(adapter, mail, native) /\ Follows(adapter, mail, native)
          /\ ~Queued(mail, "Enabled") /\ ~Queued(mail, "Disabled")
      BY <1>2, <1>11, <2>5, <2>10 DEF Mails, Switched
    <3>2. \A k : Queued(q, k) <=> (Queued(mail, k) \/ k = e.kind)
      BY <2>5, <2>10 DEF Mails
    <3>3. Switched(a, q, n)
      BY <1>2, <1>8, <1>9, <1>14, <2>2, <2>7, <3>1, <3>2 DEF Switched
    <3>4. Orderly(q.queue, MailBars)
      <4>1. \A k, l : <<k, l>> \in MailBars /\ l \in {e.kind} =>
              ~Queued(mail, k)
        BY <2>2, <3>1 DEF MailBars, Enablements
      <4> QED BY <2>5, <2>10, <3>1, <4>1 DEF Mails, Follows
    <3>5. Follows(a, q, n)
      BY <1>6, <1>8, <2>2, <2>9, <3>1, <3>2, <3>4 DEF Follows
    <3> QED BY <3>3, <3>5
  <2>11. Together(a, q, n)
    BY <1>2, <1>8, <1>10, <2>8, <2>10 DEF Together
  <2> QED BY <1>3, <1>4, <1>5, <1>7, <2>3, <2>11 DEF Pairs
<1> QED BY <1>5, <1>12, <1>13, <1>14
(* What disconnect() answers, as the adapter has to take it. *)
LEMMA DisconnectAnswered ==
  ASSUME Built(native), Faithful(native), native.call = NoCall,
         ~Due(native, "Stop"), NEW o \in disconnect(native)
  PROVE  /\ Faithful(o.native) /\ Withdraws(native, o.native)
         /\ o.native.attached = native.attached /\ o.native.call = NoCall
         /\ \/ /\ o.answer = "NotFound" /\ native.prepared
               /\ ~Ongoing(o.native)
               /\ o.native.told.leaving = native.told.leaving
            \/ /\ o.answer = "ConnectionFailed"
               /\ o.native.told.leaving = native.told.leaving
            \/ o.answer = "Ok"
<1>1. PICK m : m = o.native
  OBVIOUS
<1>2. native.call.kind = "None"
  BY DEF NoCall
<1>3. CASE /\ o.answer = "NotFound" /\ native.prepared /\ ~m.prepared
           /\ m.told.phase = "Idle"
           /\ Keeps(native, m, {"attempt", "prepared", "secret", "phase"})
  <2>1. /\ m.call = native.call /\ m.attached = native.attached
        /\ m.told.leaving = native.told.leaving
    BY <1>3 DEF Keeps
  <2>2. ~Chosen(m) /\ ~Early(m) /\ ~Ongoing(m)
    BY <1>2, <1>3, <2>1 DEF Chosen, Early, Ongoing, Begins, Linked
  <2>3. Withdraws(native, m)
    BY <1>3, <2>2 DEF Withdraws, Keeps, Due
  <2> QED BY <1>1, <1>3, <2>1, <2>2, <2>3, DisconnectIs
<1>4. CASE /\ o.answer = "ConnectionFailed"
           /\ Keeps(native, m, {"attempt", "cancelled"})
  <2>1. /\ m.call = native.call /\ m.attached = native.attached
        /\ m.told.leaving = native.told.leaving
    BY <1>4 DEF Keeps
  <2>2. Withdraws(native, m)
    BY <1>4 DEF Withdraws, Keeps, Chosen, Early, Ongoing, Begins, Due
  <2> QED BY <1>1, <1>4, <2>1, <2>2, DisconnectIs
<1>5. CASE /\ o.answer = "Ok"
           /\ Keeps(native, m,
                    {"attempt", "cancelled", "leaving", "scanning", "link",
                     "ap", "loop"})
           /\ \A k : k \notin {"ScanDone", "Disconnected"} =>
                (Due(m, k) <=> Due(native, k))
  <2>1. m.call = native.call /\ m.attached = native.attached
    BY <1>5 DEF Keeps
  <2>2. Withdraws(native, m)
    BY <1>5
       DEF Withdraws, Keeps, Chosen, Early, Ongoing, Begins, Switches
  <2> QED BY <1>1, <1>5, <2>1, <2>2, DisconnectIs
<1> QED BY <1>1, <1>3, <1>4, <1>5, DisconnectIs

LEMMA UntouchedWithdraws ==
  ASSUME NEW n
  PROVE  Withdraws(n, n)
BY DEF Withdraws

LEMMA SyntheticIs ==
  ASSUME adapter \in Adapters
  PROVE  Synthetic \in SaneEvents /\ Synthetic.kind = "Disconnected"
<1>1. adapter.link.ssid \in Ssid
  BY AdapterTyped
<1>2. "Ok" \in Status /\ "Ok" \in AnswerStatus
  BY DEF Status, AnswerStatus
<1> QED BY <1>1, <1>2 DEF Synthetic, Event, SaneEvents, Events

LEMMA AcknowledgedIs ==
  ASSUME Mailed(mail), adapter \in Adapters, NEW o
  PROVE  /\ Mailed(Acknowledged(o))
         /\ Mails(mail, Acknowledged(o),
                  IF o.answer = "NotFound" THEN {"Disconnected"} ELSE {})
<1>1. Synthetic \in SaneEvents /\ Synthetic.kind = "Disconnected"
  BY SyntheticIs
<1>2. CASE o.answer = "NotFound"
  <2>1. Acknowledged(o) = post(mail, Synthetic)
    BY <1>2 DEF Acknowledged
  <2>2. Mails(mail, post(mail, Synthetic), {"Disconnected"})
    BY <1>1, PostIs
  <2>3. Mailed(post(mail, Synthetic))
    BY <1>1, MailPosted
  <2> QED BY <1>2, <2>1, <2>2, <2>3
<1>3. CASE o.answer # "NotFound"
  <2>1. Acknowledged(o) = mail
    BY <1>3 DEF Acknowledged
  <2> QED BY <1>3, <2>1, SameMail
<1> QED BY <1>2, <1>3

LEMMA DisconnectPairs ==
  ASSUME Paired, native.call = NoCall, Disconnect(disconnect(native))
  PROVE  Pairs(adapter', mail', native')
<1>1. stationAdmission = "Ok"
  BY DEF Disconnect
<1>2. /\ native.attached /\ Faithful(native) /\ Built(native)
      /\ adapter.attached /\ ~adapter.faulted
      /\ adapter.station.kind = "None" /\ ~Connecting(adapter)
      /\ ~native.prepared /\ ~native.told.leaving /\ ~Due(native, "Stop")
      /\ Together(adapter, mail, native) /\ Mailed(mail)
      /\ adapter \in Adapters
  BY <1>1, IdleIs, PairedIs
<1>3. PICK o \in IF adapter.link.phase = "Idle"
                 THEN {Answer("NotFound", native)} ELSE disconnect(native) :
        /\ native' = o.native /\ mail' = Acknowledged(o)
        /\ IF o.answer \in {"Ok", "NotFound"}
           THEN adapter' = [adapter EXCEPT
                  !.station = [id |-> client.next, kind |-> "Disconnect"],
                  !.waiting = TRUE]
           ELSE adapter' = [adapter EXCEPT !.waiting = FALSE]
  BY DEF Disconnect
<1>4. PICK n : n = o.native
  OBVIOUS
<1>5. /\ Faithful(n) /\ Withdraws(native, n) /\ n.attached /\ n.call = NoCall
      /\ \/ o.answer = "NotFound" /\ n = native /\ adapter.link.phase = "Idle"
         \/ o.answer = "ConnectionFailed" /\ ~n.told.leaving
         \/ o.answer = "Ok"
  <2>1. CASE adapter.link.phase = "Idle"
    <3>1. o.answer = "NotFound" /\ n = native
      BY <1>3, <1>4, <2>1 DEF Answer
    <3> QED BY <1>2, <2>1, <3>1, UntouchedWithdraws
  <2>2. CASE adapter.link.phase # "Idle"
    <3>1. o \in disconnect(native)
      BY <1>3, <2>2
    <3> QED BY <1>2, <1>4, <3>1, DisconnectAnswered
  <2> QED BY <2>1, <2>2
<1>6. PICK a : a = adapter'
  OBVIOUS
<1>7. /\ a.attached = adapter.attached /\ a.faulted = adapter.faulted
      /\ a.enabled = adapter.enabled /\ a.link = adapter.link
      /\ a.draining = adapter.draining
      /\ IF o.answer \in {"Ok", "NotFound"}
         THEN a.station.kind = "Disconnect" /\ a.waiting
         ELSE a.station = adapter.station
  <2>1. PICK st : st = [id |-> client.next, kind |-> "Disconnect"]
    OBVIOUS
  <2>2. st.kind = "Disconnect"
    BY <2>1
  <2>3. IF o.answer \in {"Ok", "NotFound"}
        THEN a = [adapter EXCEPT !.station = st, !.waiting = TRUE]
        ELSE a = [adapter EXCEPT !.waiting = FALSE]
    BY <1>3, <1>6, <2>1
  <2> QED BY <1>2, <2>2, <2>3 DEF Adapters
<1>8. ~Connecting(a) /\ a.station.kind # "Enable"
  BY <1>2, <1>7 DEF Connecting
<1>9. PICK kinds : kinds = IF o.answer = "NotFound" THEN {"Disconnected"} ELSE {}
  OBVIOUS
<1>10. Mails(mail, mail', kinds) /\ kinds \subseteq {"Disconnected"}
  BY <1>2, <1>3, <1>9, AcknowledgedIs
<1>11. ~mail.overflow /\ Follows(adapter, mail, native) /\ kinds # {} =>
         ~Ongoing(n)
  BY <1>5, <1>9 DEF Follows
<1>12. n.told.leaving =>
         a.station.kind \in {"Connect", "Disconnect"} /\ a.waiting
  BY <1>2, <1>5, <1>7
<1>13. Together(a, mail', n)
  BY <1>2, <1>5, <1>7, <1>8, <1>10, <1>11, <1>12, CommandTogether
<1> QED BY <1>3, <1>4, <1>5, <1>6, <1>13 DEF Pairs

LEMMA ConnectPairs ==
  ASSUME Paired, native.call = NoCall, NEW network \in Networks,
         Connect(network, disconnect(native))
  PROVE  Pairs(adapter', mail', native')
<1>1. stationAdmission = "Ok" /\ adapter.enabled
  BY DEF Connect
<1>2. /\ native.attached /\ Faithful(native) /\ Built(native)
      /\ adapter.attached /\ ~adapter.faulted
      /\ adapter.station.kind = "None" /\ ~Connecting(adapter)
      /\ ~native.prepared /\ ~native.told.leaving /\ ~Due(native, "Stop")
      /\ Together(adapter, mail, native) /\ Mailed(mail)
      /\ adapter \in Adapters
  BY <1>1, IdleIs, PairedIs
<1>3. PICK st : st = [id |-> client.next, kind |-> "Connect"]
  OBVIOUS
<1>4. st.kind = "Connect"
  BY <1>3
<1>5. PICK a : a = adapter'
  OBVIOUS
<1>6. CASE adapter.link.phase = "Idle"
  <2>1. /\ a = [adapter EXCEPT !.station = st, !.config = network,
                               !.credentials = network]
        /\ mail' = scheduleNow(mail) /\ native' = native
    BY <1>3, <1>5, <1>6 DEF Connect
  <2>2. /\ a.attached = adapter.attached /\ a.faulted = adapter.faulted
        /\ a.enabled = adapter.enabled /\ a.link = adapter.link
        /\ a.draining = adapter.draining /\ a.station = st
        /\ a.config = network /\ a.credentials = network
    BY <1>2, <2>1 DEF Adapters
  <2>3. Mails(mail, mail', {})
    BY <1>2, <2>1, ScheduledMail, SameMail
  <2>4. Together(a, mail', native)
    BY <1>1, <1>2, <1>4, <2>2, <2>3, UntouchedWithdraws, CommandTogether
  <2> QED BY <1>2, <1>5, <2>1, <2>4 DEF Pairs
<1>7. CASE adapter.link.phase # "Idle"
  <2>1. PICK o \in disconnect(native) :
          /\ native' = o.native /\ mail' = Acknowledged(o)
          /\ IF o.answer \in {"Ok", "NotFound"}
             THEN a = [[adapter EXCEPT !.station = st, !.config = network,
                                       !.credentials = network]
                         EXCEPT !.waiting = TRUE]
             ELSE a = [adapter EXCEPT !.config = network,
                                      !.credentials = NoNetwork,
                                      !.waiting = FALSE]
    BY <1>3, <1>5, <1>7 DEF Connect
  <2>2. PICK n : n = o.native
    OBVIOUS
  <2>3. /\ Faithful(n) /\ Withdraws(native, n) /\ n.attached /\ n.call = NoCall
        /\ \/ o.answer = "ConnectionFailed" /\ ~n.told.leaving
           \/ o.answer = "Ok"
    BY <1>2, <2>1, <2>2, DisconnectAnswered
  <2>4. /\ a.attached = adapter.attached /\ a.faulted = adapter.faulted
        /\ a.enabled = adapter.enabled /\ a.link = adapter.link
        /\ a.draining = adapter.draining
        /\ IF o.answer \in {"Ok", "NotFound"}
           THEN /\ a.station = st /\ a.waiting
                /\ a.config = network /\ a.credentials = network
           ELSE a.station = adapter.station
    BY <1>2, <2>1 DEF Adapters
  <2>5. Mails(mail, mail', {})
    <3>1. o.answer # "NotFound"
      BY <2>3
    <3>2. Mails(mail, Acknowledged(o), {})
      BY <1>2, <3>1, AcknowledgedIs
    <3> QED BY <2>1, <3>2
  <2>6. CASE o.answer = "Ok"
    <3>1. /\ a.station.kind = "Connect" /\ a.waiting
          /\ a.config = network /\ a.credentials = network
      BY <1>4, <2>4, <2>6
    <3>2. /\ a.attached = adapter.attached /\ ~a.faulted
          /\ a.enabled = adapter.enabled /\ a.link = adapter.link
          /\ a.draining = adapter.draining
      BY <1>2, <2>4
    <3>3. Together(a, mail', n)
      <4>1. a.station.kind # "Enable" /\ adapter.station.kind # "Enable"
        BY <1>2, <3>1
      <4>2. a.enabled /\ a.config \in Networks /\ a.credentials = a.config
        BY <1>1, <3>1, <3>2
      <4>3. /\ a.station.kind \in {"Connect", "Disconnect"}
            /\ a.waiting \/ a.cancelling
        BY <3>1
      <4>4. /\ a.attached \/ ~a.draining
            /\ a.attached \/ n.call = NoCall
        BY <1>2, <3>2
      <4>5. ~mail.overflow /\ Switched(adapter, mail, native) =>
              /\ Connecting(a) => a.enabled /\ a.config \in Networks
              /\ /\ Connecting(a) /\ ~a.cancelling
                 /\ a.waiting \/ a.link.phase = "Idle"
                 => a.credentials = a.config
        BY <4>2
      <4>6. n.told.leaving => /\ a.station.kind \in {"Connect", "Disconnect"}
                              /\ a.waiting \/ a.cancelling
        BY <4>3
      <4>7. PICK kinds : kinds = {}
        OBVIOUS
      <4>8. /\ Mails(mail, mail', kinds) /\ kinds \subseteq {"Disconnected"}
            /\ ~mail.overflow /\ Follows(adapter, mail, native) /\ kinds # {}
                 => ~Ongoing(n)
        BY <2>5, <4>7
      <4>9. /\ native.attached /\ Together(adapter, mail, native)
            /\ Withdraws(native, n)
            /\ Connecting(adapter) => Connecting(a)
            /\ a.attached = adapter.attached /\ ~adapter.faulted /\ ~a.faulted
        BY <1>2, <2>3, <3>2
      <4> QED
        BY <3>2, <4>1, <4>4, <4>5, <4>6, <4>8, <4>9, CommandTogether
    <3> QED BY <1>5, <2>1, <2>2, <2>3, <3>3 DEF Pairs
  <2>7. CASE o.answer = "ConnectionFailed"
    <3>1. ~Connecting(a) /\ a.station.kind # "Enable" /\ ~n.told.leaving
      BY <1>2, <2>3, <2>4, <2>7 DEF Connecting
    <3>2. /\ a.attached = adapter.attached /\ ~a.faulted
          /\ a.enabled = adapter.enabled /\ a.link = adapter.link
          /\ a.attached \/ ~a.draining
          /\ a.attached \/ n.call = NoCall
      BY <1>2, <2>4
    <3>3. PICK kinds : kinds = {}
      OBVIOUS
    <3>4. /\ Mails(mail, mail', kinds) /\ kinds \subseteq {"Disconnected"}
          /\ ~mail.overflow /\ Follows(adapter, mail, native) /\ kinds # {}
               => ~Ongoing(n)
      BY <2>5, <3>3
    <3>5. /\ native.attached /\ Together(adapter, mail, native)
          /\ Withdraws(native, n) /\ ~adapter.faulted
          /\ adapter.station.kind # "Enable" /\ ~Connecting(adapter)
      BY <1>2, <2>3
    <3>6. Together(a, mail', n)
      BY <3>1, <3>2, <3>4, <3>5, CommandTogether
    <3> QED BY <1>5, <2>1, <2>2, <2>3, <3>6 DEF Pairs
  <2> QED BY <2>3, <2>6, <2>7
<1> QED BY <1>6, <1>7

LEMMA CancelConnectPairs ==
  ASSUME Paired, native.call = NoCall, CancelConnect(disconnect(native))
  PROVE  Pairs(adapter', mail', native')
<1>1. Connecting(adapter)
  BY DEF CancelConnect
<1>2. /\ native.attached /\ Faithful(native) /\ Built(native)
      /\ adapter.attached /\ ~adapter.faulted
      /\ adapter.station.kind = "Connect"
      /\ Together(adapter, mail, native) /\ Mailed(mail)
      /\ adapter \in Adapters
  BY <1>1, PairedIs DEF Operations, Connecting
<1>3. /\ ~Due(native, "Stop")
      /\ native.told.leaving => adapter.waiting \/ adapter.cancelling
  BY <1>2 DEF Together, Obeys
<1>4. PICK teardown \in BOOLEAN :
        teardown = (~adapter.waiting /\ adapter.link.phase # "Idle")
  OBVIOUS
<1>5. PICK o \in IF teardown THEN disconnect(native) ELSE {Answer("Ok", native)} :
        /\ native' = o.native
        /\ IF o.answer \in {"Ok", "NotFound"}
           THEN /\ adapter' = [adapter EXCEPT !.cancelling = TRUE,
                                              !.waiting = @ \/ teardown]
                /\ mail' = scheduleNow(Acknowledged(o))
           ELSE UNCHANGED <<adapter, mail>>
  BY <1>4 DEF CancelConnect
<1>6. PICK n : n = o.native
  OBVIOUS
<1>7. /\ Faithful(n) /\ Withdraws(native, n) /\ n.attached /\ n.call = NoCall
      /\ \/ o.answer = "NotFound" /\ ~Ongoing(n)
         \/ /\ o.answer = "ConnectionFailed"
            /\ n.told.leaving = native.told.leaving
         \/ o.answer = "Ok"
  <2>1. CASE ~teardown
    <3>1. o.answer = "Ok" /\ n = native
      BY <1>5, <1>6, <2>1 DEF Answer
    <3> QED BY <1>2, <3>1, UntouchedWithdraws
  <2>2. CASE teardown
    <3>1. o \in disconnect(native)
      BY <1>5, <2>2
    <3> QED BY <1>2, <1>3, <1>6, <3>1, DisconnectAnswered
  <2> QED BY <2>1, <2>2
<1>8. PICK a : a = adapter'
  OBVIOUS
<1>9. CASE o.answer = "ConnectionFailed"
  <2>1. a = adapter /\ mail' = mail
    BY <1>5, <1>8, <1>9
  <2>2. Recedes(native, n)
    BY <1>7, <1>9 DEF Recedes
  <2>3. Together(adapter, mail, n)
    BY <1>2, <2>2, RecedesTogether
  <2> QED BY <1>5, <1>6, <1>7, <1>8, <2>1, <2>3 DEF Pairs
<1>10. CASE o.answer \in {"Ok", "NotFound"}
  <2>1. PICK waiting \in BOOLEAN : waiting = (adapter.waiting \/ teardown)
    OBVIOUS
  <2>2. a = [adapter EXCEPT !.cancelling = TRUE, !.waiting = waiting]
    BY <1>5, <1>8, <1>10, <2>1
  <2>3. /\ a.attached = adapter.attached /\ a.faulted = adapter.faulted
        /\ a.enabled = adapter.enabled /\ a.link = adapter.link
        /\ a.draining = adapter.draining /\ a.station = adapter.station
        /\ a.config = adapter.config /\ a.cancelling
    BY <1>2, <2>2 DEF Adapters
  <2>4. Connecting(a) /\ a.station.kind = "Connect"
    BY <1>1, <1>2, <2>3 DEF Connecting
  <2>5. PICK k : k = Acknowledged(o)
    OBVIOUS
  <2>6. PICK kinds : kinds = IF o.answer = "NotFound" THEN {"Disconnected"}
                             ELSE {}
    OBVIOUS
  <2>7. Mailed(k) /\ Mails(mail, k, kinds)
    BY <1>2, <2>5, <2>6, AcknowledgedIs
  <2>8. Mails(mail, mail', kinds)
    <3>1. mail'.queue = k.queue /\ mail'.overflow = k.overflow
      BY <1>5, <1>10, <2>5, <2>7, ScheduledMail
    <3> QED BY <2>7, <3>1 DEF Mails, Queued
  <2>9. kinds \subseteq {"Disconnected"} /\ (kinds # {} => ~Ongoing(n))
    BY <1>7, <1>10, <2>6
  <2>10. ~mail.overflow /\ Switched(adapter, mail, native) =>
           a.enabled /\ a.config \in Networks
    BY <1>1, <2>3 DEF Switched
  <2>11. Together(a, mail', n)
    BY <1>2, <1>7, <2>3, <2>4, <2>8, <2>9, <2>10, CommandTogether
  <2> QED BY <1>5, <1>6, <1>7, <1>8, <2>11 DEF Pairs
<1> QED BY <1>7, <1>9, <1>10
-----------------------------------------------------------------------------
(* What drain() makes of the adapter *)

(* Which fields of the adapter change, but for what it has to report.      *)
Retains(a, b, changed) ==
  /\ DOMAIN b = DOMAIN a /\ b.attached = a.attached
  /\ b.desired = a.desired /\ b.config = a.config
  /\ b.link.ssid = a.link.ssid
  /\ "faulted" \notin changed => b.faulted = a.faulted
  /\ "draining" \notin changed => b.draining = a.draining
  /\ "enabled" \notin changed => b.enabled = a.enabled
  /\ "cancelling" \notin changed => b.cancelling = a.cancelling
  /\ "waiting" \notin changed => b.waiting = a.waiting
  /\ "station" \notin changed => b.station = a.station
  /\ "credentials" \notin changed => b.credentials = a.credentials
  /\ "phase" \notin changed => b.link.phase = a.link.phase

Fields == {"attached", "faulted", "enabled", "desired", "cancelling",
           "scan_cancelling", "waiting", "station", "scan", "link", "config",
           "credentials", "draining", "out"}

LEMMA FieldsAre ==
  ASSUME NEW a \in Adapters
  PROVE  DOMAIN a = Fields /\ DOMAIN a.link = {"id", "ssid", "phase"}
BY DEF Adapters, Fields

(* The link moves on, and that is reported. *)
LEMMA MovedRetains ==
  ASSUME NEW a, DOMAIN a = Fields, DOMAIN a.link = {"id", "ssid", "phase"},
         NEW phase, NEW b, b = Reported([a EXCEPT !.link.phase = phase])
  PROVE  Retains(a, b, {"phase"}) /\ b.link.phase = phase
<1>1. PICK link : link = [a.link EXCEPT !.phase = phase]
  OBVIOUS
<1>2. link.ssid = a.link.ssid /\ link.phase = phase
  BY <1>1
<1>3. PICK c : c = [a EXCEPT !.link = link]
  OBVIOUS
<1>4. c = [a EXCEPT !.link.phase = phase]
  BY <1>1, <1>3 DEF Fields
<1>5. PICK out : b = [c EXCEPT !.out = out]
  BY <1>4 DEF Reported
<1>6. DOMAIN b = Fields
  BY <1>3, <1>5
<1>7. /\ b.attached = a.attached /\ b.desired = a.desired
      /\ b.config = a.config /\ b.faulted = a.faulted
      /\ b.draining = a.draining /\ b.enabled = a.enabled
      /\ b.cancelling = a.cancelling /\ b.waiting = a.waiting
      /\ b.station = a.station /\ b.credentials = a.credentials
      /\ b.link = link
  BY <1>3, <1>5 DEF Fields
<1> QED BY <1>2, <1>6, <1>7 DEF Retains

LEMMA FinishRetains ==
  ASSUME NEW a, DOMAIN a = Fields, a.station.id # 0, NEW status,
         NEW b, b = finishStation(a, status)
  PROVE  /\ Retains(a, b, {"cancelling", "waiting", "station", "credentials"})
         /\ b.station.kind = "None"
<1>1. PICK none : none = NoStation
  OBVIOUS
<1>2. PICK out : b = [a EXCEPT !.station = none, !.cancelling = FALSE,
                               !.waiting = FALSE, !.credentials = NoNetwork,
                               !.out = out]
  BY <1>1 DEF finishStation
<1>3. none.kind = "None"
  BY <1>1 DEF NoStation
<1> QED BY <1>2, <1>3 DEF Retains, Fields

LEMMA FinishScanRetains ==
  ASSUME NEW a, DOMAIN a = Fields, NEW status, NEW b, b = finishScan(a, status)
  PROVE  Retains(a, b, {})
<1>1. CASE a.scan = 0
  BY <1>1 DEF finishScan, Retains
<1>2. CASE a.scan # 0
  <2>1. PICK out : b = [a EXCEPT !.scan = 0, !.scan_cancelling = FALSE,
                                 !.out = out]
    BY <1>2 DEF finishScan
  <2> QED BY <2>1 DEF Retains, Fields
<1> QED BY <1>1, <1>2

LEMMA RetainsChain ==
  ASSUME NEW a, NEW b, NEW c, NEW F, NEW G, Retains(a, b, F), Retains(b, c, G)
  PROVE  Retains(a, c, F \cup G)
BY DEF Retains

LEMMA AbandonedRetains ==
  ASSUME NEW a, DOMAIN a = Fields, DOMAIN a.link = {"id", "ssid", "phase"},
         a.station.id # 0, NEW status, NEW b, b = Abandoned(a, status)
  PROVE  /\ Retains(a, b, {"phase", "cancelling", "waiting", "station",
                           "credentials"})
         /\ b.station.kind = "None" /\ b.link.phase = "Idle"
<1>1. PICK down : down = Reported([a EXCEPT !.link.phase = "Idle"])
  OBVIOUS
<1>2. Retains(a, down, {"phase"}) /\ down.link.phase = "Idle"
  BY <1>1, MovedRetains
<1>3. DOMAIN down = Fields /\ down.station.id # 0
  BY <1>2 DEF Retains
<1>4. b = finishStation(down, status)
  BY <1>1 DEF Abandoned
<1>5. /\ Retains(down, b, {"cancelling", "waiting", "station", "credentials"})
      /\ b.station.kind = "None"
  BY <1>3, <1>4, FinishRetains
<1>6. b.link.phase = "Idle"
  BY <1>2, <1>5 DEF Retains
<1>7. Retains(a, b, {"phase", "cancelling", "waiting", "station",
                     "credentials"})
  BY <1>2, <1>5 DEF Retains
<1> QED BY <1>5, <1>6, <1>7

(* One event less in the queue. *)
LEMMA TakenMail ==
  ASSUME Mailed(mail), mail.queue # <<>>,
         mail' = [mail EXCEPT !.queue = Tail(@)],
         NEW kind, kind = Head(mail.queue).kind
  PROVE  /\ mail'.overflow = mail.overflow
         /\ \A k : Queued(mail, k) <=> (Queued(mail', k) \/ k = kind)
         /\ Orderly(mail.queue, MailBars) =>
              /\ Orderly(mail'.queue, MailBars)
              /\ \A k : <<kind, k>> \in MailBars => ~Queued(mail', k)
<1>1. mail.queue \in Seq(SaneEvents)
  BY DEF Mailed
<1>2. mail'.queue = Tail(mail.queue) /\ mail'.overflow = mail.overflow
  BY DEF Mailed
<1>3. PICK q : q = Tail(mail.queue)
  OBVIOUS
<1>4. PICK e : e = Head(mail.queue)
  OBVIOUS
<1>5. /\ Range(mail.queue) = Range(q) \cup {e}
      /\ Orderly(mail.queue, MailBars) =>
           /\ Orderly(q, MailBars)
           /\ \A d \in Range(q) : <<e.kind, d.kind>> \notin MailBars
  BY <1>1, <1>3, <1>4, ShorterIs
<1> QED BY <1>2, <1>3, <1>4, <1>5 DEF Queued

(* What has been handled is no more in the queue, and what depends on the  *)
(* driver still holds.                                                     *)
LEMMA HandledTogether ==
  ASSUME NEW a, NEW m, NEW n, Together(a, m, n), n.attached, a.attached,
         ~m.overflow, Faithful(n),
         NEW q, ~q.overflow, \A k : Queued(q, k) => Queued(m, k),
         Orderly(q.queue, MailBars),
         NEW b,
         Retains(a, b, {"cancelling", "waiting", "station", "credentials",
                        "phase"}),
         \/ /\ b.station = a.station /\ b.cancelling = a.cancelling
            /\ b.credentials = a.credentials
            /\ b.waiting = a.waiting \/ ~n.told.leaving
            /\ Connecting(a) /\ ~a.cancelling
               /\ (b.waiting \/ b.link.phase = "Idle") =>
                 a.waiting \/ a.link.phase = "Idle"
         \/ /\ b.station.kind = "None" /\ a.station.kind # "Enable"
            /\ ~Chosen(n) /\ ~n.told.leaving,
         \/ b.link.phase = a.link.phase
         \/ b.link.phase # "Idle" /\ ~Early(n)
         \/ ~Ongoing(n)
  PROVE  Together(b, q, n)
<1>1. ~a.faulted /\ ~b.faulted
  BY DEF Together, Retains
<1>2. Obeys(a, n) /\ Switched(a, m, n) /\ Follows(a, m, n)
  BY <1>1 DEF Together
<1>3. /\ b.attached /\ b.enabled = a.enabled /\ b.desired = a.desired
      /\ b.config = a.config /\ b.link.ssid = a.link.ssid
  BY DEF Retains
<1>4. Apiece(b, n)
  BY <1>3 DEF Apiece
<1>5. Follows(b, q, n)
  BY <1>2 DEF Follows, Ongoing
<1>6. CASE /\ b.station = a.station /\ b.cancelling = a.cancelling
           /\ b.credentials = a.credentials
           /\ b.waiting = a.waiting \/ ~n.told.leaving
           /\ Connecting(a) /\ ~a.cancelling
              /\ (b.waiting \/ b.link.phase = "Idle") =>
                a.waiting \/ a.link.phase = "Idle"
  <2>1. Connecting(b) <=> Connecting(a)
    BY <1>6 DEF Connecting
  <2>2. Obeys(b, n)
    BY <1>2, <1>3, <1>6, <2>1 DEF Obeys
  <2>3. Switched(b, q, n)
    BY <1>2, <1>3, <1>6, <2>1 DEF Switched
  <2> QED BY <1>1, <1>4, <1>5, <2>2, <2>3 DEF Together
<1>7. CASE /\ b.station.kind = "None" /\ a.station.kind # "Enable"
           /\ ~Chosen(n) /\ ~n.told.leaving
  <2>1. ~Connecting(b)
    BY <1>7 DEF Connecting
  <2>2. Obeys(b, n)
    BY <1>2, <1>3, <1>7 DEF Obeys
  <2>3. Switched(b, q, n)
    BY <1>2, <1>3, <1>7, <2>1 DEF Switched
  <2> QED BY <1>1, <1>4, <1>5, <2>2, <2>3 DEF Together
<1> QED BY <1>6, <1>7

(* drain() takes an event: what holds of it. *)
Takes ==
  /\ adapter.draining /\ ~mail.overflow /\ mail.queue # <<>>
  /\ mail' = [mail EXCEPT !.queue = Tail(@)]

LEMMA DrainingIs ==
  ASSUME Paired, adapter.draining, ~mail.overflow
  PROVE  /\ adapter.attached /\ native.attached /\ ~adapter.faulted
         /\ adapter \in Adapters /\ DOMAIN adapter = Fields
         /\ DOMAIN adapter.link = {"id", "ssid", "phase"}
         /\ Built(native) /\ Faithful(native) /\ Operations(adapter)
         /\ Apiece(adapter, native) /\ Obeys(adapter, native)
         /\ Switched(adapter, mail, native) /\ Follows(adapter, mail, native)
         /\ Together(adapter, mail, native)
<1>1. /\ Operations(adapter) /\ adapter \in Adapters /\ Built(native)
      /\ Together(adapter, mail, native)
      /\ native.attached => Faithful(native)
      /\ adapter.attached = native.attached
  BY PairedIs
<1>2. adapter.attached /\ native.attached
  BY <1>1 DEF Operations
<1>3. ~adapter.faulted
  BY <1>1 DEF Together
<1> QED BY <1>1, <1>2, <1>3, FieldsAre DEF Together

LEMMA TakesIs ==
  ASSUME Paired, Takes, NEW kind, kind = Head(mail.queue).kind
  PROVE  /\ ~mail'.overflow /\ Queued(mail, kind)
         /\ \A k : Queued(mail', k) => Queued(mail, k)
         /\ Orderly(mail'.queue, MailBars)
         /\ \A k : <<kind, k>> \in MailBars => ~Queued(mail', k)
<1>1. Follows(adapter, mail, native)
  BY DrainingIs DEF Takes
<1>2. Mailed(mail)
  BY PairedIs
<1>3. /\ mail'.overflow = mail.overflow
      /\ \A k : Queued(mail, k) <=> (Queued(mail', k) \/ k = kind)
      /\ Orderly(mail.queue, MailBars) =>
           /\ Orderly(mail'.queue, MailBars)
           /\ \A k : <<kind, k>> \in MailBars => ~Queued(mail', k)
  BY <1>2, TakenMail DEF Takes
<1> QED BY <1>1, <1>3 DEF Takes, Follows

LEMMA HandledPairs ==
  ASSUME Paired, Takes, native' = native,
         Retains(adapter, adapter',
                 {"cancelling", "waiting", "station", "credentials", "phase"}),
         \/ /\ adapter'.station = adapter.station
            /\ adapter'.cancelling = adapter.cancelling
            /\ adapter'.credentials = adapter.credentials
            /\ adapter'.waiting = adapter.waiting \/ ~native.told.leaving
            /\ Connecting(adapter) /\ ~adapter.cancelling
               /\ (adapter'.waiting \/ adapter'.link.phase = "Idle") =>
                 adapter.waiting \/ adapter.link.phase = "Idle"
         \/ /\ adapter'.station.kind = "None" /\ adapter.station.kind # "Enable"
            /\ ~Chosen(native) /\ ~native.told.leaving,
         \/ adapter'.link.phase = adapter.link.phase
         \/ adapter'.link.phase # "Idle" /\ ~Early(native)
         \/ ~Ongoing(native)
  PROVE  Pairs(adapter', mail', native')
<1>1. /\ adapter.attached /\ native.attached /\ Faithful(native)
      /\ Together(adapter, mail, native) /\ ~mail.overflow
  BY DrainingIs DEF Takes
<1>2. /\ ~mail'.overflow /\ Orderly(mail'.queue, MailBars)
      /\ \A k : Queued(mail', k) => Queued(mail, k)
  BY TakesIs
<1>3. Together(adapter', mail', native)
  BY <1>1, <1>2, HandledTogether
<1> QED BY <1>1, <1>3 DEF Pairs

(* What an event that is not about the link or the switch leaves. *)
LEMMA UntouchedPairs ==
  ASSUME Paired, Takes, native' = native, Retains(adapter, adapter', {})
  PROVE  Pairs(adapter', mail', native')
<1>1. /\ Retains(adapter, adapter',
                 {"cancelling", "waiting", "station", "credentials", "phase"})
      /\ adapter'.station = adapter.station
      /\ adapter'.cancelling = adapter.cancelling
      /\ adapter'.credentials = adapter.credentials
      /\ adapter'.waiting = adapter.waiting
      /\ adapter'.link.phase = adapter.link.phase
  BY DEF Retains
<1> QED BY <1>1, HandledPairs

(* The enablement that was asked for ends the operation. *)
LEMMA EnablementPairs ==
  ASSUME Paired, Takes, NEW event, event = Head(mail.queue),
         event.kind \in Enablements, native' = native,
         adapter' = onEnablement(adapter, event)
  PROVE  Pairs(adapter', mail', native')
<1>1. PICK a : a = adapter
  OBVIOUS
<1>2. /\ a.attached /\ native.attached /\ ~a.faulted
      /\ DOMAIN a = Fields /\ DOMAIN a.link = {"id", "ssid", "phase"}
      /\ Faithful(native) /\ Operations(a)
      /\ Apiece(a, native) /\ Obeys(a, native)
      /\ Switched(a, mail, native) /\ Follows(a, mail, native)
  BY <1>1, DrainingIs DEF Takes
<1>3. PICK kind : kind = event.kind
  OBVIOUS
<1>4. /\ ~mail'.overflow /\ Queued(mail, kind)
      /\ \A k : Queued(mail', k) => Queued(mail, k)
      /\ Orderly(mail'.queue, MailBars)
      /\ ~Queued(mail', "Enabled") /\ ~Queued(mail', "Disabled")
  BY <1>3, TakesIs DEF MailBars, Enablements
<1>5. a.station.kind = "Enable" /\ a.station.id # 0
  BY <1>2, <1>3, <1>4 DEF Switched, Enablements, Operations
<1>6. /\ (kind = "Enabled") = a.desired /\ native.idf.on = a.desired
      /\ ~Due(native, "Start") /\ ~Due(native, "Stop")
  <2>1. CASE kind = "Enabled"
    BY <1>2, <1>4, <1>5, <2>1 DEF Switched
  <2>2. CASE kind = "Disabled"
    <3>1. ~a.desired
      BY <1>2, <1>4, <1>5, <2>2 DEF Switched
    <3>2. a.desired = FALSE
      BY <1>1, <3>1, DrainingIs DEF Takes, Adapters
    <3>3. /\ native.idf.on = a.desired
          /\ ~Due(native, "Start") /\ ~Due(native, "Stop")
      BY <1>2, <1>4, <1>5, <2>2 DEF Switched
    <3> QED BY <2>2, <3>2, <3>3
  <2> QED BY <1>3, <2>1, <2>2 DEF Enablements
<1>7. ~Chosen(native) /\ ~native.told.leaving
  BY <1>2, <1>5 DEF Obeys, Connecting
<1>8. PICK on : on = (kind = "Enabled")
  OBVIOUS
<1>9. PICK seen : seen = [a EXCEPT !.enabled = (event.kind = "Enabled"),
                            !.out = Append(@, [call |-> "enabled", id |-> 0,
                                               value |-> event.kind])]
  OBVIOUS
<1>10. /\ Retains(a, seen, {"enabled"}) /\ seen.enabled = on
       /\ DOMAIN seen = Fields /\ seen.link = a.link
       /\ seen.station = a.station
  <2>1. PICK now : now = (event.kind = "Enabled")
    OBVIOUS
  <2>2. PICK out : seen = [a EXCEPT !.enabled = now, !.out = out]
    BY <1>9, <2>1
  <2>3. now = on
    BY <1>3, <1>8, <2>1
  <2> QED BY <1>2, <2>2, <2>3 DEF Retains, Fields
<1>11. PICK dropped : dropped = IF ~(event.kind = "Enabled") /\ a.link.phase # "Idle"
                                THEN Reported([seen EXCEPT !.link.phase = "Idle"])
                                ELSE seen
  OBVIOUS
<1>12. /\ Retains(a, dropped, {"enabled", "phase"}) /\ dropped.enabled = on
       /\ on => dropped.link.phase = a.link.phase
       /\ DOMAIN dropped = Fields
  <2>1. CASE ~on /\ a.link.phase # "Idle"
    <3>1. dropped = Reported([seen EXCEPT !.link.phase = "Idle"])
      BY <1>3, <1>8, <1>11, <2>1
    <3>2. Retains(seen, dropped, {"phase"})
      BY <1>2, <1>10, <3>1, MovedRetains
    <3> QED BY <1>10, <2>1, <3>2 DEF Retains
  <2>2. CASE ~(~on /\ a.link.phase # "Idle")
    <3>1. dropped = seen
      BY <1>3, <1>8, <1>11, <2>2
    <3> QED BY <1>10, <2>2, <3>1 DEF Retains
  <2> QED BY <2>1, <2>2
<1>13. PICK b : b = finishStation(dropped, event.status)
  OBVIOUS
<1>14. dropped.station.id # 0
  BY <1>5, <1>12 DEF Retains
<1>15. /\ Retains(dropped, b, {"cancelling", "waiting", "station", "credentials"})
       /\ b.station.kind = "None"
  BY <1>12, <1>13, <1>14, FinishRetains
<1>16. adapter' = b
  <2>1. onEnablement(a, event)
          = IF /\ a.station.id # 0 /\ a.station.kind = "Enable"
               /\ (event.kind = "Enabled") = a.desired
            THEN b ELSE dropped
    BY <1>9, <1>11, <1>13 DEF onEnablement
  <2>2. (event.kind = "Enabled") = a.desired
    BY <1>3, <1>6
  <2> QED BY <1>1, <1>5, <2>1, <2>2
<1>17. /\ b.attached = a.attached /\ b.enabled = on
       /\ b.faulted = a.faulted /\ b.draining = a.draining
       /\ b.config = a.config /\ b.link.ssid = a.link.ssid
       /\ on => b.link.phase = a.link.phase
  BY <1>12, <1>15 DEF Retains
<1>18. PICK q : q = mail'
  OBVIOUS
<1>19. Apiece(b, native) /\ ~b.faulted
  BY <1>2, <1>17 DEF Apiece
<1>20. Obeys(b, native)
  BY <1>2, <1>6, <1>7, <1>17 DEF Obeys
<1>21. ~Connecting(b)
  BY <1>15 DEF Connecting
<1>22. Switched(b, q, native)
  BY <1>4, <1>6, <1>8, <1>15, <1>17, <1>18, <1>21 DEF Switched
<1>23. ~on => ~Ongoing(native)
  BY <1>2, <1>3, <1>4, <1>8 DEF Follows, Enablements
<1>24. Early(native) => Ongoing(native)
  BY DEF Ongoing
<1>25. Follows(b, q, native)
  BY <1>2, <1>4, <1>17, <1>18, <1>23, <1>24 DEF Follows
<1>26. Together(b, q, native)
  BY <1>19, <1>20, <1>22, <1>25 DEF Together
<1> QED BY <1>2, <1>16, <1>18, <1>26 DEF Pairs

LEMMA AssociatedPairs ==
  ASSUME Paired, Takes, NEW event, event = Head(mail.queue),
         event.kind = "Associated", native' = native,
         adapter' = onAssociated(adapter, event)
  PROVE  Pairs(adapter', mail', native')
<1>1. /\ DOMAIN adapter = Fields
      /\ DOMAIN adapter.link = {"id", "ssid", "phase"}
      /\ Follows(adapter, mail, native)
  BY DrainingIs DEF Takes
<1>2. ~Early(native)
  BY <1>1, TakesIs DEF Follows
<1>3. CASE adapter' = adapter
  BY <1>3, UntouchedPairs DEF Retains
<1>4. CASE /\ adapter.link.phase = "Connecting"
           /\ adapter' = Reported([adapter EXCEPT !.link.phase = "Associated"])
  <2>1. /\ Retains(adapter, adapter', {"phase"})
        /\ adapter'.link.phase = "Associated"
    BY <1>1, <1>4, MovedRetains
  <2>2. /\ Retains(adapter, adapter',
                   {"cancelling", "waiting", "station", "credentials", "phase"})
        /\ adapter'.station = adapter.station
        /\ adapter'.cancelling = adapter.cancelling
        /\ adapter'.credentials = adapter.credentials
        /\ adapter'.waiting = adapter.waiting
    BY <2>1 DEF Retains
  <2> QED BY <1>2, <2>1, <2>2, HandledPairs
<1> QED BY <1>3, <1>4 DEF onAssociated

(* An address ends the connect, which waits for nothing then. *)
LEMMA AddressReadyPairs ==
  ASSUME Paired, Takes, NEW event, event = Head(mail.queue),
         event.kind = "AddressReady", native' = native,
         adapter' = onAddressReady(adapter, event)
  PROVE  Pairs(adapter', mail', native')
<1>1. /\ DOMAIN adapter = Fields
      /\ DOMAIN adapter.link = {"id", "ssid", "phase"}
      /\ Follows(adapter, mail, native) /\ Obeys(adapter, native)
      /\ Operations(adapter)
  BY DrainingIs DEF Takes
<1>2. ~Early(native) /\ ~Chosen(native)
  BY <1>1, TakesIs DEF Follows, Early
<1>3. CASE adapter' = adapter
  BY <1>3, UntouchedPairs DEF Retains
<1>4. ASSUME ~adapter.waiting, ~adapter.cancelling,
             NEW up,
             up = Reported([adapter EXCEPT !.link.phase = "AddressReady"]),
             adapter' = IF /\ adapter.station.kind = "Connect"
                           /\ adapter.station.id = adapter.link.id
                        THEN finishStation(up, "Ok") ELSE up
      PROVE  Pairs(adapter', mail', native')
  <2>0. ~native.told.leaving
    BY <1>1, <1>4 DEF Obeys
  <2>1. Retains(adapter, up, {"phase"}) /\ up.link.phase = "AddressReady"
    <3>1. up = Reported([adapter EXCEPT !.link.phase = "AddressReady"])
      BY <1>4
    <3>2. /\ DOMAIN adapter = Fields
          /\ DOMAIN adapter.link = {"id", "ssid", "phase"}
      BY <1>1
    <3> QED BY <3>1, <3>2, MovedRetains
  <2>2. CASE adapter' = up
    <3>1. /\ Retains(adapter, adapter',
                     {"cancelling", "waiting", "station", "credentials",
                      "phase"})
          /\ adapter'.station = adapter.station
          /\ adapter'.cancelling = adapter.cancelling
          /\ adapter'.credentials = adapter.credentials
          /\ adapter'.waiting = adapter.waiting
      BY <2>1, <2>2 DEF Retains
    <3> QED BY <1>2, <1>4, <2>1, <2>2, <3>1, HandledPairs
  <2>3. CASE /\ adapter.station.kind = "Connect"
             /\ adapter' = finishStation(up, "Ok")
    <3>1. up.station.id # 0 /\ DOMAIN up = Fields
      BY <1>1, <2>1, <2>3 DEF Retains, Operations
    <3>2. /\ Retains(up, adapter',
                     {"cancelling", "waiting", "station", "credentials"})
          /\ adapter'.station.kind = "None"
      BY <2>3, <3>1, FinishRetains
    <3>3. /\ Retains(adapter, adapter',
                     {"cancelling", "waiting", "station", "credentials",
                      "phase"})
          /\ adapter'.link.phase = "AddressReady"
      BY <2>1, <3>2 DEF Retains
    <3> QED BY <1>2, <2>0, <2>1, <2>3, <3>2, <3>3, HandledPairs
  <2> QED BY <1>4, <2>2, <2>3
<1> QED BY <1>3, <1>4 DEF onAddressReady

LEMMA AddressLostPairs ==
  ASSUME Paired, Takes, native' = native, adapter' = onAddressLost(adapter)
  PROVE  Pairs(adapter', mail', native')
<1>1. /\ DOMAIN adapter = Fields
      /\ DOMAIN adapter.link = {"id", "ssid", "phase"}
      /\ Follows(adapter, mail, native)
  BY DrainingIs DEF Takes
<1>2. CASE adapter' = adapter
  BY <1>2, UntouchedPairs DEF Retains
<1>3. CASE /\ adapter.link.phase = "AddressReady"
           /\ adapter' = Reported([adapter EXCEPT !.link.phase = "Associated"])
  <2>1. /\ Retains(adapter, adapter', {"phase"})
        /\ adapter'.link.phase = "Associated"
    BY <1>1, <1>3, MovedRetains
  <2>2. /\ Retains(adapter, adapter',
                   {"cancelling", "waiting", "station", "credentials", "phase"})
        /\ adapter'.station = adapter.station
        /\ adapter'.cancelling = adapter.cancelling
        /\ adapter'.credentials = adapter.credentials
        /\ adapter'.waiting = adapter.waiting
    BY <2>1 DEF Retains
  <2>3. ~Early(native)
    BY <1>1, <1>3 DEF Follows
  <2> QED BY <1>3, <2>1, <2>2, <2>3, HandledPairs
<1> QED BY <1>2, <1>3 DEF onAddressLost

(* A driver that is at no connection is not leaving one. *)
LEMMA UnboundIs ==
  ASSUME NEW n, Built(n), Faithful(n), ~Ongoing(n)
  PROVE  /\ ~n.told.leaving
         /\ n.call = NoCall => n.told.phase = "Idle"
<1>1. n.told.phase \in NativePhase
  BY DEF Built, Stations
<1>2. /\ n.told.phase \notin Linked /\ n.told.phase # "Selecting"
      /\ ~n.prepared
  BY DEF Ongoing, Early, Chosen
<1>3. n.told.phase \in {"Idle", "Prepared"}
  BY <1>1, <1>2 DEF NativePhase, Linked
<1>4. ~n.told.leaving
  BY <1>3 DEF Faithful, PhaseTells
<1>5. ASSUME n.call = NoCall
      PROVE  n.told.phase = "Idle"
  <2>1. n.call.kind = "None"
    BY <1>5 DEF NoCall
  <2> QED BY <1>2, <1>3, <2>1 DEF Faithful, PhaseTells
<1> QED BY <1>4, <1>5

(* The end of a link leaves the driver at none: what it ends is over. *)
LEMMA DisconnectedPairs ==
  ASSUME Paired, Takes, NEW event, event = Head(mail.queue),
         event.kind = "Disconnected", native' = native,
         adapter' = onDisconnected(adapter, event)
  PROVE  Pairs(adapter', mail', native')
<1>1. /\ DOMAIN adapter = Fields
      /\ DOMAIN adapter.link = {"id", "ssid", "phase"}
      /\ Follows(adapter, mail, native) /\ Obeys(adapter, native)
      /\ Operations(adapter) /\ Faithful(native) /\ Built(native)
  BY DrainingIs DEF Takes
<1>2. ~Ongoing(native)
  BY <1>1, TakesIs DEF Follows
<1>3. ~Early(native) /\ ~Chosen(native)
  BY <1>2 DEF Ongoing, Early
<1>4. ~native.told.leaving
  BY <1>1, <1>2, UnboundIs
<1>5. CASE adapter' = adapter
  BY <1>5, UntouchedPairs DEF Retains
<1>6. ASSUME NEW down,
             down = Reported([adapter EXCEPT !.link.phase = "Idle"]),
             \/ /\ Connecting(adapter) /\ adapter.waiting
                /\ adapter' = [down EXCEPT !.waiting = FALSE]
             \/ /\ adapter.station.kind \in {"Disconnect", "Connect"}
                /\ \E status : adapter' = finishStation(down, status)
             \/ ~Connecting(adapter) /\ adapter' = down
      PROVE  Pairs(adapter', mail', native')
  <2>1. Retains(adapter, down, {"phase"})
    BY <1>1, <1>6, MovedRetains
  <2>2. CASE /\ Connecting(adapter) /\ adapter.waiting
             /\ adapter' = [down EXCEPT !.waiting = FALSE]
    <3>1. Retains(down, adapter', {"waiting"})
      <4>1. DOMAIN down = Fields
        BY <1>1, <2>1 DEF Retains
      <4> QED BY <2>2, <4>1 DEF Retains, Fields
    <3>2. /\ Retains(adapter, adapter',
                     {"cancelling", "waiting", "station", "credentials",
                      "phase"})
          /\ adapter'.station = adapter.station
          /\ adapter'.cancelling = adapter.cancelling
          /\ adapter'.credentials = adapter.credentials
      BY <2>1, <3>1 DEF Retains
    <3> QED BY <1>2, <1>4, <2>2, <3>2, HandledPairs
  <2>3. CASE /\ adapter.station.kind \in {"Disconnect", "Connect"}
             /\ \E status : adapter' = finishStation(down, status)
    <3>1. down.station.id # 0 /\ DOMAIN down = Fields
      BY <1>1, <2>1, <2>3 DEF Retains, Operations
    <3>2. /\ Retains(down, adapter',
                     {"cancelling", "waiting", "station", "credentials"})
          /\ adapter'.station.kind = "None"
      BY <2>3, <3>1, FinishRetains
    <3>3. Retains(adapter, adapter',
                  {"cancelling", "waiting", "station", "credentials", "phase"})
      BY <2>1, <3>2 DEF Retains
    <3> QED BY <1>2, <1>3, <1>4, <2>3, <3>2, <3>3, HandledPairs
  <2>4. CASE ~Connecting(adapter) /\ adapter' = down
    <3>1. /\ Retains(adapter, adapter',
                     {"cancelling", "waiting", "station", "credentials",
                      "phase"})
          /\ adapter'.station = adapter.station
          /\ adapter'.cancelling = adapter.cancelling
          /\ adapter'.credentials = adapter.credentials
          /\ adapter'.waiting = adapter.waiting
      BY <2>1, <2>4 DEF Retains
    <3> QED BY <1>2, <2>4, <3>1, HandledPairs
  <2> QED BY <1>6, <2>2, <2>3, <2>4
<1>7. PICK down : down = Reported([adapter EXCEPT !.link.phase = "Idle"])
  OBVIOUS
<1>8. \/ adapter' = adapter
      \/ /\ Connecting(adapter) /\ adapter.waiting
         /\ adapter' = [down EXCEPT !.waiting = FALSE]
      \/ /\ adapter.station.kind = "Disconnect"
         /\ adapter' = finishStation(down, "Ok")
      \/ /\ Connecting(adapter)
         /\ adapter' = finishStation(down, Reason(event))
      \/ ~Connecting(adapter) /\ adapter' = down
  BY <1>7 DEF onDisconnected
<1>9. Connecting(adapter) => adapter.station.kind \in {"Disconnect", "Connect"}
  BY DEF Connecting
<1> QED BY <1>5, <1>6, <1>7, <1>8, <1>9

(* What HandledTogether takes for granted of an operation that is over. *)
LEMMA AbandonedPairs ==
  ASSUME NEW a, a \in Adapters, Operations(a), NEW m, NEW n, Together(a, m, n),
         n.attached, a.attached, ~m.overflow, Faithful(n), NEW q, ~q.overflow,
         \A k : Queued(q, k) => Queued(m, k), Orderly(q.queue, MailBars),
         a.station.kind = "Connect", NEW status, NEW b,
         b = Abandoned(a, status), ~Ongoing(n), ~n.told.leaving
  PROVE  Together(b, q, n)
<1>1. /\ DOMAIN a = Fields /\ DOMAIN a.link = {"id", "ssid", "phase"}
      /\ a.station.id # 0
  BY FieldsAre DEF Operations
<1>2. /\ Retains(a, b, {"phase", "cancelling", "waiting", "station",
                        "credentials"})
      /\ b.station.kind = "None"
  BY <1>1, AbandonedRetains
<1>3. Retains(a, b, {"cancelling", "waiting", "station", "credentials",
                     "phase"})
  BY <1>2 DEF Retains
<1>4. ~Chosen(n)
  BY DEF Ongoing, Early
<1> QED BY <1>2, <1>3, <1>4, HandledTogether

(* A preparation is followed by the join, unless it was torn down; what    *)
(* fails leaves the driver at nothing.                                     *)
LEMMA PreparedPairs ==
  ASSUME Paired, Takes, native.call = NoCall, NEW kind,
         kind = Head(mail.queue).kind, kind = "Prepared", Continues(adapter),
         NEW o \in continueConnect(native), native' = o.native,
         adapter' = onPrepared(adapter, o.answer)
  PROVE  Pairs(adapter', mail', native')
<1>1. PICK a : a = adapter
  OBVIOUS
<1>2. PICK n : n = native
  OBVIOUS
<1>3. PICK m : m = mail
  OBVIOUS
<1>4. PICK p : p = native'
  OBVIOUS
<1>5. PICK q : q = mail'
  OBVIOUS
<1>6. /\ a.attached /\ n.attached /\ ~a.faulted /\ a \in Adapters
      /\ Built(n) /\ Faithful(n) /\ Operations(a)
      /\ Apiece(a, n) /\ Obeys(a, n) /\ Switched(a, m, n) /\ Follows(a, m, n)
      /\ Together(a, m, n) /\ ~m.overflow
  BY <1>1, <1>2, <1>3, DrainingIs DEF Takes
<1>7. /\ ~q.overflow /\ Queued(m, "Prepared")
      /\ \A k : Queued(q, k) => Queued(m, k)
      /\ Orderly(q.queue, MailBars) /\ ~Queued(q, "Prepared")
  BY <1>3, <1>5, TakesIs DEF MailBars
<1>8. /\ Connecting(a) /\ a.station.kind = "Connect"
      /\ ~a.waiting /\ ~a.cancelling
  BY <1>1 DEF Continues, Connecting
<1>9. ~n.told.leaving
  BY <1>6, <1>8 DEF Obeys
<1>10. /\ o.answer = "Ok" => adapter' = a
       /\ o.answer # "Ok" => adapter' = Abandoned(a, o.answer)
  BY <1>1 DEF onPrepared
<1>11. Faithful(p)
  BY <1>2, <1>4, <1>6, ContinueIs
<1>12. CASE o = Answer("NotFound", n) /\ ~n.prepared
  <2>1. p = n /\ adapter' = Abandoned(a, o.answer)
    BY <1>4, <1>10, <1>12 DEF Answer
  <2>2. ~Ongoing(n)
    BY <1>6, <1>7, <1>12 DEF Follows
  <2>3. Together(adapter', q, n)
    BY <1>6, <1>7, <1>8, <1>9, <2>1, <2>2, AbandonedPairs
  <2> QED BY <1>4, <1>5, <1>11, <2>1, <2>3 DEF Pairs
<1>13. CASE /\ o.answer = "ConnectionFailed" /\ n.prepared
            /\ Keeps(n, p, {"prepared", "phase", "secret"})
            /\ ~p.prepared /\ p.told.phase = "Idle"
  <2>1. /\ p.attached = n.attached /\ p.call = n.call
        /\ p.idf.on = n.idf.on /\ p.config = n.config
        /\ p.told.leaving = n.told.leaving /\ p.idf.loop = n.idf.loop
    BY <1>13 DEF Keeps
  <2>2. p.call.kind = "None"
    BY <1>2, <2>1 DEF NoCall
  <2>3. ~Chosen(p) /\ ~Early(p) /\ ~Ongoing(p)
    BY <1>13, <2>2 DEF Chosen, Early, Ongoing, Begins, Linked
  <2>4. Recedes(n, p)
    BY <2>1, <2>3 DEF Recedes, Withdraws, Due
  <2>5. Together(a, m, p)
    BY <1>6, <2>4, RecedesTogether
  <2>6. ~p.told.leaving /\ p.attached
    BY <1>6, <1>9, <2>1
  <2>7. adapter' = Abandoned(a, o.answer)
    BY <1>10, <1>13
  <2>8. Together(adapter', q, p)
    BY <1>6, <1>7, <1>8, <1>11, <2>3, <2>5, <2>6, <2>7, AbandonedPairs
  <2> QED BY <1>4, <1>5, <1>11, <2>8 DEF Pairs
<1>14. CASE /\ o.answer \in {"Ok", "ConnectionFailed"} /\ n.prepared
            /\ Keeps(n, p, {"prepared", "secret", "attempt", "call"})
            /\ ~p.prepared
            /\ p.call = [kind |-> "join", answer |-> o.answer]
  <2>1. /\ p.attached = n.attached
        /\ p.idf.on = n.idf.on /\ p.config = n.config
        /\ p.told.leaving = n.told.leaving /\ p.idf.loop = n.idf.loop
        /\ p.told.phase = n.told.phase
    BY <1>14 DEF Keeps
  <2>2. n.told.phase = "Prepared"
    BY <1>6, <1>14 DEF Faithful, PhaseTells
  <2>3. p.call.kind = "join" /\ p.call.answer = o.answer
    BY <1>14
  <2>4. /\ ~Chosen(p) /\ Chosen(n) /\ Early(n) /\ Ongoing(n)
        /\ p.told.phase \notin Linked
    BY <1>14, <2>1, <2>2, <2>3 DEF Chosen, Early, Ongoing, Begins, Linked
  <2>5. \A k : Due(p, k) <=> Due(n, k)
    BY <2>1 DEF Due
  <2>6. Apiece(a, p)
    BY <1>6, <2>1 DEF Apiece
  <2>7. Obeys(a, p)
    BY <1>6, <2>1, <2>4, <2>5 DEF Obeys
  <2>8. Switched(a, q, p)
    BY <1>6, <1>7, <2>1, <2>5 DEF Switched
  <2>9. Follows(a, q, p)
    BY <1>6, <1>7, <2>4 DEF Follows
  <2>10. Together(a, q, p)
    BY <1>6, <2>6, <2>7, <2>8, <2>9 DEF Together
  <2>11. CASE o.answer = "Ok"
    BY <1>4, <1>5, <1>10, <1>11, <2>10, <2>11 DEF Pairs
  <2>12. CASE o.answer = "ConnectionFailed"
    <3>1. ~Ongoing(p)
      BY <2>3, <2>4, <2>12 DEF Ongoing, Early, Begins
    <3>2. ~p.told.leaving /\ p.attached
      BY <1>6, <1>9, <2>1
    <3>3. adapter' = Abandoned(a, o.answer)
      BY <1>10, <2>12
    <3>4. Together(adapter', q, p)
      BY <1>6, <1>7, <1>8, <1>11, <2>10, <3>1, <3>2, <3>3, AbandonedPairs
    <3> QED BY <1>4, <1>5, <1>11, <3>4 DEF Pairs
  <2> QED BY <1>14, <2>11, <2>12
<1> QED BY <1>2, <1>4, <1>6, <1>12, <1>13, <1>14, ContinueIs

(* drain() hands one event to process(). *)
LEMMA DrainEventPairs ==
  ASSUME Paired, native.call = NoCall, DrainEvent(continueConnect(native))
  PROVE  Pairs(adapter', mail', native')
<1>1. Takes
  BY DEF DrainEvent, Iterates, Takes
<1>2. ~adapter.faulted /\ DOMAIN adapter = Fields
  BY <1>1, DrainingIs DEF Takes
<1>3. PICK event : event = Head(mail.queue)
  OBVIOUS
<1>4. CASE event.kind = "Prepared" /\ Continues(adapter)
  <2>1. PICK o \in continueConnect(native) :
          native' = o.native /\ adapter' = process(adapter, event, o.answer)
    BY <1>2, <1>3, <1>4 DEF DrainEvent
  <2>2. adapter' = onPrepared(adapter, o.answer)
    BY <1>2, <1>4, <2>1 DEF process
  <2> QED BY <1>1, <1>3, <1>4, <2>1, <2>2, PreparedPairs
<1>5. CASE ~(event.kind = "Prepared" /\ Continues(adapter))
  <2>1. native' = native /\ adapter' = process(adapter, event, "Ok")
    BY <1>2, <1>3, <1>5 DEF DrainEvent, Answer
  <2>2. event.kind \in {"Enabled", "Disabled", "Prepared", "ScanDone",
                        "Associated", "AddressReady", "AddressLost",
                        "Disconnected"}
    <3>1. mail.queue \in Seq(SaneEvents) /\ mail.queue # <<>>
      BY <1>1, PairedIs DEF Mailed, Takes
    <3>2. event \in SaneEvents
      BY <1>3, <3>1
    <3> QED BY <3>2 DEF SaneEvents, Events
  <2>3. CASE event.kind \in Enablements
    <3>1. adapter' = onEnablement(adapter, event)
      BY <1>2, <2>1, <2>3 DEF process, Enablements
    <3> QED BY <1>1, <1>3, <2>1, <2>3, <3>1, EnablementPairs
  <2>4. CASE event.kind = "Prepared"
    <3>1. adapter' = adapter
      BY <1>2, <1>5, <2>1, <2>4 DEF process, onPrepared
    <3> QED BY <1>1, <2>1, <3>1, UntouchedPairs DEF Retains
  <2>5. CASE event.kind = "ScanDone"
    <3>1. adapter' = finishScan(adapter, event.status)
      BY <1>2, <2>1, <2>5 DEF process
    <3> QED BY <1>1, <1>2, <2>1, <3>1, FinishScanRetains, UntouchedPairs
  <2>6. CASE event.kind = "Associated"
    <3>1. adapter' = onAssociated(adapter, event)
      BY <1>2, <2>1, <2>6 DEF process
    <3> QED BY <1>1, <1>3, <2>1, <2>6, <3>1, AssociatedPairs
  <2>7. CASE event.kind = "AddressReady"
    <3>1. adapter' = onAddressReady(adapter, event)
      BY <1>2, <2>1, <2>7 DEF process
    <3> QED BY <1>1, <1>3, <2>1, <2>7, <3>1, AddressReadyPairs
  <2>8. CASE event.kind = "AddressLost"
    <3>1. adapter' = onAddressLost(adapter)
      BY <1>2, <2>1, <2>8 DEF process
    <3> QED BY <1>1, <2>1, <3>1, AddressLostPairs
  <2>9. CASE event.kind = "Disconnected"
    <3>1. adapter' = onDisconnected(adapter, event)
      BY <1>2, <2>1, <2>9 DEF process
    <3> QED BY <1>1, <1>3, <2>1, <2>9, <3>1, DisconnectedPairs
  <2> QED BY <2>2, <2>3, <2>4, <2>5, <2>6, <2>7, <2>8, <2>9 DEF Enablements
<1> QED BY <1>4, <1>5

(* The adapter's task is marked or unmarked. *)
LEMMA SameTogether ==
  ASSUME NEW a, NEW m, NEW n, Together(a, m, n),
         NEW q, q.queue = m.queue, q.overflow = m.overflow
  PROVE  Together(a, q, n)
<1>1. \A k : Queued(q, k) <=> Queued(m, k)
  BY DEF Queued
<1>2. n.attached /\ ~q.overflow => Switched(a, q, n) /\ Follows(a, q, n)
  BY <1>1 DEF Together, Switched, Follows
<1> QED BY <1>2 DEF Together

LEMMA DrainPairs ==
  ASSUME Paired, Drain
  PROVE  Pairs(adapter', mail', native')
<1>1. /\ adapter.attached /\ native' = native
      /\ adapter' = [adapter EXCEPT !.draining = TRUE]
      /\ mail' = [mail EXCEPT !.due = FALSE]
  BY DEF Drain
<1>2. /\ adapter \in Adapters /\ Mailed(mail)
      /\ Together(adapter, mail, native)
      /\ native.attached => Faithful(native)
  BY PairedIs
<1>3. Alike(adapter, adapter')
  BY <1>1, <1>2 DEF Alike, Adapters
<1>4. mail'.queue = mail.queue /\ mail'.overflow = mail.overflow
  BY <1>1, <1>2 DEF Mailed
<1>5. Together(adapter', mail, native)
  BY <1>2, <1>3, AlikeTogether
<1>6. Together(adapter', mail', native)
  BY <1>4, <1>5, SameTogether
<1> QED BY <1>1, <1>2, <1>6 DEF Pairs

LEMMA DeliverPairs ==
  ASSUME Paired, Deliver
  PROVE  Pairs(adapter', mail', native')
<1>1. /\ native' = native /\ mail' = mail
      /\ adapter' = [adapter EXCEPT !.out = Tail(@)]
  BY DEF Deliver
<1>2. /\ adapter \in Adapters /\ Together(adapter, mail, native)
      /\ native.attached => Faithful(native)
      /\ Operations(adapter)
  BY PairedIs
<1>3. PICK out : adapter' = [adapter EXCEPT !.out = out]
  BY <1>1
<1>4. adapter.attached \/ ~adapter.draining
  BY <1>2 DEF Operations
<1>5. Alike(adapter, adapter')
  BY <1>2, <1>3, <1>4 DEF Alike, Adapters
<1>6. Together(adapter', mail, native)
  BY <1>2, <1>5, AlikeTogether
<1> QED BY <1>1, <1>2, <1>6 DEF Pairs

(* After an overflow nothing is claimed. *)
LEMMA DrainOverflowPairs ==
  ASSUME Paired, DrainOverflow
  PROVE  Pairs(adapter', mail', native')
<1>1. /\ adapter.draining /\ mail.overflow /\ native' = native
      /\ adapter' = Overflown(adapter)
      /\ mail' = [mail EXCEPT !.queue = <<>>]
  BY DEF DrainOverflow, Iterates
<1>2. /\ adapter \in Adapters /\ Mailed(mail) /\ Operations(adapter)
      /\ Together(adapter, mail, native)
      /\ native.attached => Faithful(native)
  BY PairedIs
<1>3. DOMAIN adapter = Fields
  BY <1>2, FieldsAre
<1>4. PICK a : a = [adapter EXCEPT !.faulted = TRUE, !.draining = FALSE]
  OBVIOUS
<1>5. /\ DOMAIN a = Fields /\ a.attached = adapter.attached
      /\ a.faulted = TRUE /\ a.draining = FALSE
  BY <1>3, <1>4 DEF Fields
<1>6. PICK b : b = finishStation(a, "ConnectionFailed")
  OBVIOUS
<1>7. /\ DOMAIN b = Fields /\ b.attached = a.attached
      /\ b.faulted = a.faulted /\ b.draining = a.draining
  <2>1. CASE a.station.id = 0
    BY <1>5, <1>6, <2>1 DEF finishStation
  <2>2. CASE a.station.id # 0
    BY <1>5, <1>6, <2>2, FinishRetains DEF Retains
  <2> QED BY <2>1, <2>2
<1>8. adapter' = finishScan(b, "ConnectionFailed")
  BY <1>1, <1>4, <1>6 DEF Overflown
<1>9. /\ adapter'.attached = b.attached /\ adapter'.faulted = b.faulted
      /\ adapter'.draining = b.draining
  BY <1>7, <1>8, FinishScanRetains DEF Retains
<1>10. mail'.overflow = mail.overflow
  BY <1>1, <1>2 DEF Mailed
<1>11. Apiece(adapter', native)
  BY <1>2, <1>5, <1>7, <1>9 DEF Apiece, Together
<1>12. Together(adapter', mail', native)
  BY <1>1, <1>5, <1>7, <1>9, <1>10, <1>11 DEF Together
<1> QED BY <1>1, <1>2, <1>12 DEF Pairs

(* What startConnection() makes of the adapter. *)
LEMMA StartConnectionIs ==
  ASSUME NEW a, DOMAIN a = Fields, DOMAIN a.link = {"id", "ssid", "phase"},
         a.station.id # 0, NEW answer, NEW b, b = startConnection(a, answer)
  PROVE  /\ b.attached = a.attached /\ b.faulted = a.faulted
         /\ b.enabled = a.enabled /\ b.config = a.config
         /\ IF answer = "Ok"
            THEN /\ b.station = a.station /\ b.waiting = a.waiting
                 /\ b.cancelling = a.cancelling
                 /\ b.link.phase = "Connecting" /\ b.link.ssid = a.config
            ELSE b.station.kind = "None" /\ b.link.phase = "Idle"
<1>1. PICK link : link = [id |-> a.station.id, ssid |-> a.config,
                          phase |-> "Connecting"]
  OBVIOUS
<1>2. /\ link.phase = "Connecting" /\ link.ssid = a.config
      /\ DOMAIN link = {"id", "ssid", "phase"}
  BY <1>1
<1>3. PICK begun : begun = [Started(a) EXCEPT !.credentials = NoNetwork]
  OBVIOUS
<1>4. PICK out : begun = [a EXCEPT !.link = link, !.out = out,
                                   !.credentials = NoNetwork]
  BY <1>1, <1>3 DEF Started, Reported
<1>5. /\ DOMAIN begun = Fields /\ begun.link = link
      /\ begun.attached = a.attached /\ begun.faulted = a.faulted
      /\ begun.enabled = a.enabled /\ begun.config = a.config
      /\ begun.station = a.station /\ begun.waiting = a.waiting
      /\ begun.cancelling = a.cancelling
  BY <1>4 DEF Fields
<1>6. CASE answer = "Ok"
  BY <1>2, <1>3, <1>5, <1>6 DEF startConnection
<1>7. CASE answer # "Ok"
  <2>1. b = Abandoned(begun, answer)
    BY <1>3, <1>7 DEF startConnection
  <2>2. /\ Retains(begun, b, {"phase", "cancelling", "waiting", "station",
                              "credentials"})
        /\ b.station.kind = "None" /\ b.link.phase = "Idle"
    BY <1>2, <1>5, <2>1, AbandonedRetains
  <2> QED BY <1>5, <1>7, <2>2 DEF Retains
<1> QED BY <1>6, <1>7

(* The queue is empty: a connect that waits for nothing finds the radio    *)
(* on and the driver at no connection, and chooses for it or fails.        *)
LEMMA DrainEndsPairs ==
  ASSUME Paired, native.call = NoCall,
         DrainEnds(connect(native, adapter.config, adapter.credentials))
  PROVE  Pairs(adapter', mail', native')
<1>1. PICK n : n = native
  OBVIOUS
<1>2. PICK m : m = mail
  OBVIOUS
<1>3. PICK a : a = [adapter EXCEPT !.draining = FALSE]
  OBVIOUS
<1>4. adapter.draining /\ ~m.overflow /\ m.queue = <<>>
  BY <1>2 DEF DrainEnds, Iterates
<1>5. /\ adapter.attached /\ n.attached /\ adapter \in Adapters
      /\ Built(n) /\ Faithful(n) /\ Operations(adapter)
      /\ Together(adapter, m, n) /\ n.call = NoCall
  BY <1>1, <1>2, <1>4, DrainingIs
<1>6. Alike(adapter, a) /\ DOMAIN a = DOMAIN adapter /\ a.link = adapter.link
  BY <1>3, <1>5 DEF Alike, Adapters
<1>7. Together(a, m, n) /\ a.attached /\ a.station = adapter.station
  BY <1>5, <1>6, AlikeTogether DEF Alike
<1>8. ~a.faulted
  BY <1>4, <1>7 DEF Together
<1>9. Apiece(a, n) /\ Obeys(a, n) /\ Switched(a, m, n) /\ Follows(a, m, n)
  BY <1>4, <1>5, <1>7, <1>8 DEF Together
<1>10. DOMAIN a = Fields /\ DOMAIN a.link = {"id", "ssid", "phase"}
  BY <1>5, <1>6, FieldsAre
<1>11. /\ \A k : ~Queued(m, k)
       /\ Orderly(m.queue, MailBars)
  BY <1>4, NoneIs DEF Queued
<1>12. CASE adapter' = a /\ native' = n /\ mail' = m
  BY <1>5, <1>7, <1>12 DEF Pairs
<1>13. CASE /\ Connecting(a) /\ a.link.phase = "Idle"
            /\ adapter' = finishStation(a, "Cancelled")
            /\ native' = n /\ mail' = m
  <2>1. ~Ongoing(n)
    BY <1>9, <1>13 DEF Follows
  <2>2. ~Chosen(n) /\ ~n.told.leaving
    BY <1>5, <2>1, UnboundIs DEF Ongoing, Early
  <2>3. /\ Retains(a, adapter',
                   {"cancelling", "waiting", "station", "credentials"})
        /\ adapter'.station.kind = "None"
    BY <1>10, <1>13, FinishRetains DEF Connecting
  <2>4. Retains(a, adapter',
                {"cancelling", "waiting", "station", "credentials", "phase"})
    BY <2>3 DEF Retains
  <2>5. a.station.kind # "Enable"
    BY <1>13 DEF Connecting
  <2>6. \A k : Queued(m, k) => Queued(m, k)
    OBVIOUS
  <2>7. Together(adapter', m, n)
    BY <1>4, <1>5, <1>7, <1>11, <2>1, <2>2, <2>3, <2>4, <2>5, <2>6,
       HandledTogether
  <2> QED BY <1>5, <1>13, <2>7 DEF Pairs
<1>14. ASSUME Connecting(a), a.link.phase = "Idle", ~a.waiting, ~a.cancelling,
              NEW o \in connect(n, a.config, a.credentials),
              adapter' = startConnection(a, o.answer),
              native' = o.native, mail' = Posted(m, o.posts)
       PROVE  Pairs(adapter', mail', native')
  <2>1. ~Ongoing(n)
    BY <1>9, <1>14 DEF Follows
  <2>2. ~Chosen(n) /\ ~n.told.leaving /\ n.told.phase = "Idle"
    BY <1>5, <2>1, UnboundIs DEF Ongoing, Early
  <2>3. a.station.kind = "Connect" /\ a.station.id # 0
    BY <1>14 DEF Connecting
  <2>4. /\ a.enabled /\ a.config \in Networks /\ a.credentials = a.config
        /\ a.enabled = n.idf.on
    BY <1>9, <1>14, <2>3 DEF Switched
  <2>5. ~Due(n, "Start") /\ ~Due(n, "Stop")
    BY <1>9, <2>3 DEF Obeys
  <2>6. a.credentials \in Ssid
    BY <2>4 DEF Ssid
  <2>7. n.idf.on
    BY <2>4
  <2>8. PICK p : p = native'
    OBVIOUS
  <2>9. PICK b : b = adapter'
    OBVIOUS
  <2>10. PICK q : q = mail'
    OBVIOUS
  <2>11. /\ Faithful(p)
         /\ \/ o = Answer("Busy", n)
            \/ /\ o.answer = "Ok"
               /\ o.posts = <<Event("Prepared", NoNetwork, "Ok")>>
               /\ Keeps(n, p,
                        {"candidates", "rejected", "config", "secret",
                         "selected", "prepared", "phase"})
               /\ p.prepared /\ p.told.phase = "Prepared"
               /\ p.config = a.config /\ p.secret = a.credentials
            \/ /\ o.answer \in {"Ok", "ConnectionFailed"} /\ o.posts = <<>>
               /\ Keeps(n, p,
                        {"candidates", "rejected", "config", "secret",
                         "selecting", "cancelled", "call"})
               /\ p.call = [kind |-> "select", answer |-> o.answer]
               /\ p.config = a.config /\ p.secret = a.credentials
    BY <1>5, <1>14, <2>2, <2>4, <2>5, <2>6, <2>7, <2>8, ConnectIs
  <2>12. /\ b.attached = a.attached /\ b.faulted = a.faulted
         /\ b.enabled = a.enabled /\ b.config = a.config
         /\ IF o.answer = "Ok"
            THEN /\ b.station = a.station /\ b.waiting = a.waiting
                 /\ b.cancelling = a.cancelling
                 /\ b.link.phase = "Connecting" /\ b.link.ssid = a.config
            ELSE b.station.kind = "None" /\ b.link.phase = "Idle"
    BY <1>10, <1>14, <2>3, <2>9, StartConnectionIs
  <2>13. /\ p.attached = n.attached /\ p.idf.on = n.idf.on
         /\ p.idf.loop = n.idf.loop /\ p.told.leaving = n.told.leaving
    <3>1. CASE o = Answer("Busy", n)
      BY <1>14, <2>8, <3>1 DEF Answer
    <3>2. CASE Keeps(n, p, {"candidates", "rejected", "config", "secret",
                            "selected", "prepared", "phase"})
      BY <3>2 DEF Keeps
    <3>3. CASE Keeps(n, p, {"candidates", "rejected", "config", "secret",
                            "selecting", "cancelled", "call"})
      BY <3>3 DEF Keeps
    <3> QED BY <2>11, <3>1, <3>2, <3>3
  <2>14. ~Due(p, "Start") /\ ~Due(p, "Stop") /\ ~p.told.leaving
    BY <2>2, <2>5, <2>13 DEF Due
  <2>15. n.call.kind = "None"
    BY <1>5 DEF NoCall
  <2>16. /\ p.call.kind # "join" /\ p.told.phase \notin Linked
         /\ Ongoing(p) => Chosen(p) /\ Early(p)
         /\ Early(p) => Chosen(p)
         /\ Chosen(p) => /\ o.answer = "Ok"
                         /\ p.config = a.config /\ p.secret = p.config
    <3>1. CASE o = Answer("Busy", n)
      <4>1. p = n
        BY <1>14, <2>8, <3>1 DEF Answer
      <4> QED BY <2>1, <2>2, <2>15, <4>1 DEF Ongoing, Early, Begins, Linked
    <3>2. CASE /\ o.answer = "Ok"
               /\ Keeps(n, p, {"candidates", "rejected", "config", "secret",
                               "selected", "prepared", "phase"})
               /\ p.prepared /\ p.told.phase = "Prepared"
               /\ p.config = a.config /\ p.secret = a.credentials
      <4>1. p.call = n.call
        BY <3>2 DEF Keeps
      <4> QED BY <2>4, <2>15, <3>2, <4>1
              DEF Ongoing, Early, Chosen, Begins, Linked
    <3>3. CASE /\ Keeps(n, p, {"candidates", "rejected", "config", "secret",
                               "selecting", "cancelled", "call"})
               /\ o.answer \in {"Ok", "ConnectionFailed"}
               /\ p.call = [kind |-> "select", answer |-> o.answer]
               /\ p.config = a.config /\ p.secret = a.credentials
      <4>1. p.prepared = n.prepared /\ p.told.phase = n.told.phase
        BY <3>3 DEF Keeps
      <4>2. p.call.kind = "select" /\ p.call.answer = o.answer
        BY <3>3
      <4>3. ~n.prepared
        BY <2>2 DEF Chosen
      <4> QED BY <2>2, <2>4, <3>3, <4>1, <4>2, <4>3
              DEF Ongoing, Early, Chosen, Begins, Linked
    <3> QED BY <2>11, <3>1, <3>2, <3>3
  <2>17. ~q.overflow =>
           /\ \A k : Queued(q, k) => k = "Prepared" /\ p.prepared
           /\ Orderly(q.queue, MailBars)
    <3>1. CASE o.posts = <<>>
      BY <1>11, <1>14, <2>10, <3>1 DEF Posted
    <3>2. CASE /\ o.posts = <<Event("Prepared", NoNetwork, "Ok")>>
               /\ p.prepared
      <4>1. PICK e : e = Event("Prepared", NoNetwork, "Ok")
        OBVIOUS
      <4>2. e \in SaneEvents /\ e.kind = "Prepared"
        <5>1. NoNetwork \in Ssid
          BY DEF Ssid
        <5>2. e \in SaneEvents
          BY <4>1, <5>1, SaneEvent
        <5> QED BY <4>1, <5>2 DEF Event
      <4>3. q = post(m, e)
        BY <1>14, <2>10, <3>2, <4>1 DEF Posted
      <4>4. Mailed(m)
        BY <1>2, PairedIs
      <4>5. Mails(m, q, {e.kind})
        BY <4>2, <4>3, <4>4, PostIs
      <4> QED BY <1>11, <3>2, <4>2, <4>5 DEF Mails
    <3>3. o = Answer("Busy", n) => o.posts = <<>>
      BY DEF Answer
    <3> QED BY <2>11, <3>1, <3>2, <3>3
  <2>18. Apiece(b, p)
    BY <1>7, <1>9, <2>12, <2>13 DEF Apiece
  <2>19. Obeys(b, p)
    BY <1>14, <2>12, <2>14, <2>16 DEF Obeys, Connecting
  <2>20. b.station.kind # "Enable"
    BY <2>3, <2>12
  <2>21. ASSUME ~q.overflow
         PROVE  Switched(b, q, p) /\ Follows(b, q, p)
    <3>1. Switched(b, q, p)
      BY <1>14, <2>4, <2>12, <2>13, <2>17, <2>20, <2>21
         DEF Switched, Connecting
    <3>2. Follows(b, q, p)
      BY <2>12, <2>16, <2>17, <2>21 DEF Follows
    <3> QED BY <3>1, <3>2
  <2>22. Together(b, q, p)
    BY <1>8, <2>12, <2>18, <2>19, <2>21 DEF Together
  <2> QED BY <2>8, <2>9, <2>10, <2>11, <2>22 DEF Pairs
<1>15. /\ a.config = adapter.config /\ a.credentials = adapter.credentials
  BY <1>6 DEF Alike
<1>16. \/ adapter' = a /\ native' = n /\ mail' = m
       \/ /\ Connecting(a) /\ a.link.phase = "Idle"
          /\ adapter' = finishStation(a, "Cancelled")
          /\ native' = n /\ mail' = m
       \/ /\ Connecting(a) /\ a.link.phase = "Idle"
          /\ ~a.waiting /\ ~a.cancelling
          /\ \E o \in connect(n, a.config, a.credentials) :
               /\ adapter' = startConnection(a, o.answer)
               /\ native' = o.native /\ mail' = Posted(m, o.posts)
  BY <1>1, <1>2, <1>3, <1>15 DEF DrainEnds
<1> QED BY <1>12, <1>13, <1>14, <1>16

-----------------------------------------------------------------------------
(* The invariant of both, step by step *)

(* A driver that is detached has nothing to deliver or to return. *)
LEMMA DriverPairs ==
  ASSUME Paired, CallReturns \/ Delivers \/ Happens, adapter' = adapter
  PROVE  Pairs(adapter', mail', native')
<1>1. /\ Built(native) /\ native.attached => Faithful(native)
      /\ Together(adapter, mail, native) /\ Mailed(mail)
      /\ adapter.attached = native.attached
  BY PairedIs
<1>2. native.attached
  <2>1. CASE CallReturns
    BY <1>1, <2>1 DEF CallReturns, Together, Apiece
  <2>2. CASE Delivers
    BY <2>2 DEF Delivers, OnStart, OnStop, OnScanDone, OnConnected,
                OnDisconnected, OnGotIp, OnLostIp, Delivered
  <2>3. CASE Happens
    BY <2>3 DEF Happens, ScanFinishes, Joins, Loses, GetsIp, LeaseEnds,
                LossTimer, Raises
  <2> QED BY <2>1, <2>2, <2>3
<1>3. /\ Built(native) /\ Faithful(native)
      /\ Together(adapter, mail, native) /\ Mailed(mail)
  BY <1>2, PairedIs
<1>4. Faithful(native') /\ Together(adapter, mail', native')
  <2>1. CASE CallReturns
    BY <1>2, <1>3, <2>1, ReturnsTogether
  <2>2. CASE Delivers
    BY <1>3, <2>2, DeliversTogether
  <2>3. CASE Happens
    BY <1>3, <2>3, HappensTogether
  <2> QED BY <2>1, <2>2, <2>3
<1> QED BY <1>4 DEF Pairs

LEMMA ApiPairs ==
  ASSUME Paired, Api
  PROVE  Pairs(adapter', mail', native')
<1>1. native.call = NoCall
  BY DEF Api
<1>2. CASE Begin(AttachedStation)
  BY <1>2, BeginPairs
<1>3. CASE Shutdown(detach(native))
  BY <1>1, <1>3, ShutdownPairs
<1>4. ASSUME NEW enabled \in BOOLEAN,
             SetEnabled(enabled, enable(native, enabled))
      PROVE  Pairs(adapter', mail', native')
  BY <1>1, <1>4, EnablePairs
<1>5. CASE StartScan(scan(native))
  BY <1>1, <1>5, ScanPairs
<1>6. ASSUME NEW network \in Networks, Connect(network, disconnect(native))
      PROVE  Pairs(adapter', mail', native')
  BY <1>1, <1>6, ConnectPairs
<1>7. CASE Disconnect(disconnect(native))
  BY <1>1, <1>7, DisconnectPairs
<1>8. CASE CancelScan(stopScan(native))
  BY <1>1, <1>8, CancelScanPairs
<1>9. CASE CancelConnect(disconnect(native))
  BY <1>1, <1>9, CancelConnectPairs
<1> QED BY <1>2, <1>3, <1>4, <1>5, <1>6, <1>7, <1>8, <1>9 DEF Api

LEMMA DispatchPairs ==
  ASSUME Paired, Dispatch
  PROVE  Pairs(adapter', mail', native')
<1>1. CASE CallReturns /\ UNCHANGED <<adapter, client, radio>>
  BY <1>1, DriverPairs
<1>2. CASE native.call = NoCall /\ Drain
  BY <1>2, DrainPairs
<1>3. CASE native.call = NoCall /\ DrainEvent(continueConnect(native))
  BY <1>3, DrainEventPairs
<1>4. CASE native.call = NoCall /\ DrainOverflow
  BY <1>4, DrainOverflowPairs
<1>5. CASE /\ native.call = NoCall
           /\ DrainEnds(connect(native, adapter.config, adapter.credentials))
  BY <1>5, DrainEndsPairs
<1>6. CASE native.call = NoCall /\ Deliver
  BY <1>6, DeliverPairs
<1> QED BY <1>1, <1>2, <1>3, <1>4, <1>5, <1>6 DEF Dispatch

LEMMA StepPairs ==
  ASSUME Paired, [Next]_vars
  PROVE  Pairs(adapter', mail', native')
<1>1. CASE Api
  BY <1>1, ApiPairs
<1>2. CASE Dispatch
  BY <1>2, DispatchPairs
<1>3. CASE EventLoop
  BY <1>3, DriverPairs DEF EventLoop
<1>4. CASE Radio
  BY <1>4, DriverPairs DEF Radio
<1>5. CASE UNCHANGED vars
  <2>1. /\ native.attached => Faithful(native)
        /\ Together(adapter, mail, native)
    BY PairedIs
  <2>2. adapter' = adapter /\ mail' = mail /\ native' = native
    BY <1>5 DEF vars
  <2> QED BY <2>1, <2>2 DEF Pairs
<1> QED BY <1>1, <1>2, <1>3, <1>4, <1>5 DEF Next

LEMMA InitPairs ==
  ASSUME Init
  PROVE  Pairs(adapter, mail, native)
<1>1. /\ adapter.attached = FALSE /\ adapter.draining = FALSE
      /\ adapter.faulted = FALSE
      /\ native.attached = FALSE /\ native.call = NoCall
  BY DEF Init, AdapterInit, NewAdapter, NewStation
<1>2. Together(adapter, mail, native)
  BY <1>1 DEF Together, Apiece
<1> QED BY <1>1, <1>2 DEF Pairs

LEMMA PairedInvariant == Spec => []Paired
<1>1. Init => Paired
  <2>1. Init => BusyInv
    BY InitInv, NewBuilt, NewOwed DEF Init, InterfaceInv, BusyInv
  <2> QED BY <2>1, InitPairs DEF Paired
<1>2. Paired /\ [Next]_vars => Paired'
  <2> SUFFICES ASSUME Paired, [Next]_vars
               PROVE  Paired'
    OBVIOUS
  <2>1. BusyInv'
    <3>1. Kept /\ Built(native') /\ Owed(native')
      BY StepKept, StepOwed DEF Paired, BusyInv
    <3>2. InterfaceInv'
      BY <3>1 DEF InterfaceInv, Kept, Built
    <3>3. Owed(native)'
      BY <3>1 DEF Owed, ScanDue
    <3> QED BY <3>2, <3>3 DEF BusyInv
  <2>2. Pairs(adapter', mail', native')
    BY StepPairs
  <2>3. Pairs(adapter, mail, native)'
    BY <2>2
  <2> QED BY <2>1, <2>3 DEF Paired
<1> QED BY <1>1, <1>2, PTL DEF Spec

-----------------------------------------------------------------------------
(* Which steps penalise an access point *)

(* No candidate that is still at its place fails more often. *)
Milder(s, t) ==
  \A i \in DOMAIN s \cap DOMAIN t :
    t[i].ap = s[i].ap => t[i].failures <= s[i].failures

(* A record found again brings the failures of its AP, or none. *)
LEMMA CandidateMilder ==
  ASSUME NEW n, n.candidates \in BoundedSeq(Candidates, Slots),
         Distinct(n.candidates), NEW record \in Records,
         NEW j \in DOMAIN n.candidates, n.candidates[j].ap = record.ap
  PROVE  Candidate(n, record).failures <= n.candidates[j].failures
<1> DEFINE I == {i \in 1..Len(n.candidates) :
                   n.candidates[i].ap = record.ap
                     /\ (n.fresh \/ n.candidates[i].cooling)}
<1>1. /\ n.candidates \in Seq(Candidates) /\ Len(n.candidates) \in Nat
      /\ DOMAIN n.candidates = 1..Len(n.candidates)
  BY CandidatesTyped
<1>2. SelectInSeq(n.candidates, LAMBDA old :
         old.ap = record.ap /\ (n.fresh \/ old.cooling))
        = IF I # {} THEN Min(I) ELSE 0
  BY DEF SelectInSeq
<1>3. I \subseteq DOMAIN n.candidates /\ I \subseteq Nat
  BY <1>1
<1>4. ASSUME I # {}
      PROVE  Min(I) \in I /\ Min(I) # 0
  <2> HIDE DEF I
  <2>1. \E x \in I : \A y \in I : x <= y
    BY <1>3, <1>4, Least
  <2>2. Min(I) \in I
    BY <2>1 DEF Min
  <2>3. 0 \notin I
    BY DEF I
  <2> QED BY <2>2, <2>3
<1>5. PICK i : i = IF I # {} THEN Min(I) ELSE 0
  OBVIOUS
<1>6. Candidate(n, record) =
        [ap |-> record.ap, rssi |-> record.rssi,
         failures |-> IF i = 0 THEN 0 ELSE n.candidates[i].failures,
         cooling |-> i # 0 /\ n.candidates[i].cooling]
  BY <1>2, <1>5 DEF Candidate
<1>7. i # 0 => n.candidates[i].ap = record.ap /\ i \in DOMAIN n.candidates
  <2>1. i # 0 => i \in I
    BY <1>4, <1>5
  <2> QED BY <1>3, <2>1
<1>8. Candidate(n, record).failures
        = IF i = 0 THEN 0 ELSE n.candidates[i].failures
  BY <1>6
<1>9. i # 0 => i = j
  BY <1>7 DEF Distinct
<1>10. n.candidates[j].failures \in 0..2
  <2>1. n.candidates[j] \in Candidates
    BY <1>1
  <2> QED BY <2>1 DEF Candidates
<1> QED BY <1>8, <1>9, <1>10

(* What is remembered of a scan. *)
LEMMA RememberedMilder ==
  ASSUME NEW n \in Stations, Distinct(n.candidates),
         NEW found \in Found(n.config), NEW m, m = rememberCandidates(n, found)
  PROVE  Milder(n.candidates, m.candidates)
<1>1. found \in Seq(Records) /\ Distinct(found)
  BY FoundIs
<1>2. PICK k : k = Retained(n, found)
  OBVIOUS
<1>3. Ranks(n, found, Len(found), k)
  BY <1>1, <1>2, RetainedRanks, StationTyped
<1>4. k \in Seq(Scored) /\ Len(k) \in Nat /\ DOMAIN k = 1..Len(k)
  BY <1>3 DEF Ranks
<1>5. PICK cs : cs = [i \in DOMAIN k |->
                       [ap |-> k[i].ap, failures |-> k[i].failures,
                        cooling |-> k[i].cooling]]
  OBVIOUS
<1>6. m = [n EXCEPT !.candidates = cs, !.fresh = TRUE]
  BY <1>2, <1>5 DEF rememberCandidates
<1>7. m.candidates = cs
  BY <1>6 DEF Stations
<1>8. ASSUME NEW i \in DOMAIN n.candidates, i \in DOMAIN cs,
             cs[i].ap = n.candidates[i].ap
      PROVE  cs[i].failures <= n.candidates[i].failures
  <2>1. i \in 1..Len(k) /\ cs[i].ap = k[i].ap /\ cs[i].failures = k[i].failures
    BY <1>4, <1>5, <1>8
  <2>2. PICK r \in 1..Len(found) : k[i] = Candidate(n, found[r])
    BY <1>3, <2>1 DEF Ranks
  <2>3. found[r] \in Records
    BY <1>1, <2>2
  <2>4. n.candidates \in BoundedSeq(Candidates, Slots)
    BY StationTyped
  <2>5. n.candidates[i].ap = found[r].ap
    BY <1>8, <2>1, <2>2, <2>3, <2>4, CandidateIs
  <2>6. Candidate(n, found[r]).failures <= n.candidates[i].failures
    BY <2>3, <2>4, <2>5, CandidateMilder
  <2> QED BY <2>1, <2>2, <2>6
<1> QED BY <1>7, <1>8 DEF Milder

LEMMA SelectionMilder ==
  ASSUME Built(native), native.idf.loop # <<>>,
         NEW n \in Later(Rest), NEW found \in Found(native.config),
         Selected(n, found)
  PROVE  Milder(native.candidates, native'.candidates)
<1>1. Built(Rest) /\ Keeps(native, Rest, {"loop"})
  BY RestBuilt, RestIs
<1>2. PICK r : r = Rest
  OBVIOUS
<1>3. /\ r \in Stations /\ r.candidates = native.candidates
      /\ r.config = native.config
  BY <1>1, <1>2 DEF Keeps, Built
<1>4. PICK fresh \in BOOLEAN : \E cs :
        /\ n = [r EXCEPT !.fresh = fresh, !.candidates = cs]
        /\ Regarded(r.candidates, cs)
        /\ \A i \in DOMAIN cs : cs[i].failures = r.candidates[i].failures
  BY <1>2, <1>3, LaterIs
<1>5. PICK cs :
        /\ n = [r EXCEPT !.fresh = fresh, !.candidates = cs]
        /\ Regarded(r.candidates, cs)
        /\ \A i \in DOMAIN cs : cs[i].failures = r.candidates[i].failures
  BY <1>4
<1>6. Built(n) /\ n.candidates = cs /\ n.config = native.config
  <2>1. Built(n)
    BY <1>1, LaterBuilt
  <2>2. n.candidates = cs /\ n.config = r.config
    BY <1>3, <1>5 DEF Stations
  <2> QED BY <1>3, <2>1, <2>2
<1>7. PICK s : s = [n EXCEPT !.selecting = FALSE]
  OBVIOUS
<1>8. Built(s) /\ s.candidates = cs /\ s.config = native.config
  <2>1. Keeps(n, s, {"selecting"})
    BY <1>6, <1>7 DEF Keeps, Built, Stations
  <2>2. s.candidates = cs /\ s.config = native.config
    BY <1>6, <2>1 DEF Keeps
  <2> QED BY <1>6, <1>7, <2>2, SelectingBuilt
<1>9. PICK m : m = rememberCandidates(s, found)
  OBVIOUS
<1>10. Milder(cs, m.candidates) /\ m \in Stations
  <2>1. s \in Stations /\ Distinct(s.candidates) /\ found \in Found(s.config)
    BY <1>8 DEF Built
  <2>2. Milder(cs, m.candidates)
    BY <1>8, <1>9, <2>1, RememberedMilder
  <2>3. PICK ds \in BoundedSeq(Candidates, Slots) :
          m = [s EXCEPT !.candidates = ds, !.fresh = TRUE]
    BY <1>9, <2>1, RememberedIs, Zenon DEF Remembered
  <2>4. m \in Stations
    BY <2>1, <2>3 DEF Stations
  <2> QED BY <2>2, <2>4
<1>11. Milder(native.candidates, m.candidates)
  BY <1>3, <1>5, <1>10 DEF Milder, Regarded
<1>12. CASE Eligible(m) # {}
  <2>1. PICK i \in DOMAIN m.candidates : \E ds :
          /\ selectCandidate(m) = [m EXCEPT !.candidates = ds,
                                            !.selected = m.candidates[i].ap,
                                            !.prepared = TRUE]
          /\ Regarded(m.candidates, ds)
          /\ \A j \in DOMAIN ds : ds[j].failures <= m.candidates[j].failures
    BY <1>10, <1>12, SelectIs
  <2>2. PICK ds :
          /\ selectCandidate(m) = [m EXCEPT !.candidates = ds,
                                            !.selected = m.candidates[i].ap,
                                            !.prepared = TRUE]
          /\ Regarded(m.candidates, ds)
          /\ \A j \in DOMAIN ds : ds[j].failures <= m.candidates[j].failures
    BY <2>1
  <2>3. native' = [selectCandidate(m) EXCEPT !.told.phase = "Prepared"]
    BY <1>7, <1>9, <1>12, Zenon DEF Selected, PostsEvent
  <2>4. PICK p : p = selectCandidate(m)
    OBVIOUS
  <2>5. p.candidates = ds /\ DOMAIN p = DOMAIN m
    BY <1>10, <2>2, <2>4 DEF Stations
  <2>6. native'.candidates = ds
    BY <2>3, <2>4, <2>5
  <2>7. ASSUME NEW j \in DOMAIN native.candidates, j \in DOMAIN ds,
               ds[j].ap = native.candidates[j].ap
        PROVE  ds[j].failures <= native.candidates[j].failures
    <3>1. /\ j \in DOMAIN m.candidates /\ ds[j].ap = m.candidates[j].ap
          /\ ds[j].failures <= m.candidates[j].failures
      BY <2>2, <2>7 DEF Regarded
    <3>2. m.candidates[j].failures <= native.candidates[j].failures
      BY <1>11, <2>7, <3>1 DEF Milder
    <3>3. native.candidates[j].failures \in 0..2
      BY <2>7, CandidateTyped DEF Built
    <3>4. m.candidates[j].failures \in 0..2
      BY <1>10, <3>1, CandidateTyped
    <3>5. ds[j] \in Candidates
      <4>1. ds \in BoundedSeq(Candidates, Slots)
        BY <2>2 DEF Regarded
      <4> QED BY <2>7, <4>1, CandidatesTyped
    <3>6. ds[j].failures \in 0..2
      BY <3>5 DEF Candidates
    <3> QED BY <3>1, <3>2, <3>3, <3>4, <3>6
  <2> QED BY <2>6, <2>7 DEF Milder
<1>13. CASE Eligible(m) = {}
  <2>1. native' = [m EXCEPT !.secret = NoNetwork, !.told.phase = "Idle",
                            !.told.leaving = FALSE]
    BY <1>7, <1>9, <1>13, Zenon DEF Selected, PostsEvent
  <2>2. native'.candidates = m.candidates
    BY <1>10, <2>1 DEF Stations
  <2> QED BY <1>11, <2>2
<1> QED BY <1>12, <1>13

(* The radio and the commands alone penalise nobody. *)
Calm(n, m) == m.candidates = n.candidates

LEMMA RaiseCalm ==
  ASSUME NEW n, Built(n), NEW kind, NEW ap, NEW detail
  PROVE  Calm(n, Raise(n, kind, ap, detail))
<1>1. PICK l : l = Append(n.idf.loop, IdfEvent(kind, ap, detail))
  OBVIOUS
<1>2. Raise(n, kind, ap, detail) = [n EXCEPT !.idf.loop = l]
  BY <1>1 DEF Raise
<1>3. [n EXCEPT !.idf.loop = l].candidates = n.candidates
  BY DEF Built, Stations
<1> QED BY <1>2, <1>3 DEF Calm

LEMMA LeavesCalm ==
  ASSUME NEW n, Built(n)
  PROVE  Calm(n, Leaves(n)) /\ Calm(n, Unjoined(n))
<1>1. Built(Unjoined(n)) /\ Calm(n, Unjoined(n))
  BY UnjoinedBuilt, UnjoinedIs DEF Keeps, Calm
<1>2. Leaves(n) = n
        \/ Leaves(n) = Raise(Unjoined(n), "Disconnected", n.idf.ap, "ASSOC_LEAVE")
  BY DEF Leaves
<1> QED BY <1>1, <1>2, RaiseCalm DEF Calm

LEMMA ScanStopsCalm ==
  ASSUME NEW n, Built(n)
  PROVE  Calm(n, ScanStops(n))
<1>1. PICK m : m = [n EXCEPT !.idf.scanning = FALSE]
  OBVIOUS
<1>2. Built(m) /\ m.candidates = n.candidates
  <2>1. Built(m)
    BY <1>1, ScanningBuilt
  <2>2. m.candidates = n.candidates
    BY <1>1 DEF Built, Stations
  <2> QED BY <2>1, <2>2
<1>3. ScanStops(n) = n \/ ScanStops(n) = Raise(m, "ScanDone", NoAp, "None")
  BY <1>1, Zenon DEF ScanStops
<1> QED BY <1>2, <1>3, RaiseCalm DEF Calm

LEMMA SwitchesCalm ==
  ASSUME NEW n, Built(n)
  PROVE  Calm(n, Starts(n)) /\ \A m \in Stops(n) : Calm(n, m)
<1>1. ASSUME NEW s, Built(s), NEW on \in BOOLEAN, NEW kind, Calm(n, s)
      PROVE  Calm(n, Raise([s EXCEPT !.idf.on = on], kind, NoAp, "None"))
  <2>1. PICK m : m = [s EXCEPT !.idf.on = on]
    OBVIOUS
  <2>2. Built(m)
    BY <1>1, <2>1, OnBuilt
  <2>3. m.candidates = s.candidates
    BY <1>1, <2>1 DEF Built, Stations
  <2>4. Calm(m, Raise(m, kind, NoAp, "None"))
    BY <2>2, RaiseCalm
  <2> QED BY <1>1, <2>1, <2>3, <2>4 DEF Calm
<1>2. Calm(n, Starts(n))
  BY <1>1 DEF Starts, Calm
<1>3. ASSUME NEW m \in Stops(n)
      PROVE  Calm(n, m)
  <2>1. PICK s \in {Leaves(ScanStops(n)), Unjoined(ScanStops(n))} :
          m = Raise([s EXCEPT !.idf.on = FALSE], "Stop", NoAp, "None")
    BY <1>3 DEF Stops
  <2>2. Built(s) /\ Calm(ScanStops(n), s)
    BY <2>1, LeavesBuilt, ScanStopsBuilt, UnjoinedBuilt, LeavesCalm
  <2>3. Calm(n, s)
    BY <2>2, ScanStopsCalm DEF Calm
  <2> QED BY <1>1, <2>1, <2>2, <2>3
<1> QED BY <1>2, <1>3

(* Switching off forgets the candidates, switching on keeps them. *)
LEMMA EnableForgets ==
  ASSUME NEW n, Built(n), NEW enabled \in BOOLEAN, NEW o \in enable(n, enabled)
  PROVE  o.native.candidates \in {n.candidates, <<>>}
<1>1. PICK m : m = IF enabled THEN n
                   ELSE [n EXCEPT !.candidates = <<>>, !.attempt = FALSE]
  OBVIOUS
<1>2. Built(m) /\ m.candidates \in {n.candidates, <<>>}
  <2>1. CASE enabled
    BY <1>1, <2>1
  <2>2. CASE ~enabled
    <3>1. m \in Stations
      BY <1>1, <2>2, Candidateless DEF Built, Stations
    <3>2. m.candidates = <<>>
      BY <1>1, <2>2 DEF Built, Stations
    <3>3. Distinct(m.candidates)
      BY <3>2, Candidateless
    <3> QED BY <1>1, <2>2, <3>1, <3>2, <3>3, FieldsBuilt DEF Built, Stations
  <2> QED BY <2>1, <2>2
<1>3. o.native = m \/ o.native = Starts(m) \/ \E s \in Stops(m) : o.native = s
  <2>1. n.idf.on \in BOOLEAN
    BY StationTyped DEF Built
  <2>2. \/ o = Answer("ConnectionFailed", m)
        \/ o = AnswerPosting("Ok", m, Enablement(enabled))
        \/ o = Answer("Ok", Starts(m))
        \/ \E s \in Stops(m) : o = Answer("Ok", s)
    BY <1>1, <2>1 DEF enable
  <2> QED BY <2>2 DEF Answer, AnswerPosting
<1>4. Calm(m, o.native)
  BY <1>2, <1>3, SwitchesCalm DEF Calm
<1> QED BY <1>2, <1>4 DEF Calm

LEMMA StopScanCalm ==
  ASSUME NEW n, Built(n), NEW o \in stopScan(n)
  PROVE  Calm(n, o.native)
<1>1. o.native \in {Cancelled(n), ScanStops(Cancelled(n))}
  BY DEF stopScan, Answer
<1>2. Built(Cancelled(n)) /\ Calm(n, Cancelled(n))
  BY CancelledBuilt DEF Cancelled, Calm, Built, Stations
<1> QED BY <1>1, <1>2, ScanStopsCalm DEF Calm

LEMMA DisconnectCalm ==
  ASSUME NEW n, Built(n), NEW o \in disconnect(n)
  PROVE  Calm(n, o.native)
<1>1. PICK m : m = Abandoning(n)
  OBVIOUS
<1>2. PICK leaving \in BOOLEAN : leaving = (n.told.phase # "Idle")
  OBVIOUS
<1>3. PICK l : l = [m EXCEPT !.told.leaving = leaving]
  OBVIOUS
<1>4. Built(m) /\ Built(l)
  BY <1>1, <1>2, <1>3, AbandoningBuilt, LeavingBuilt
<1>5. l = [m EXCEPT !.told.leaving = n.told.phase # "Idle"]
  BY <1>2, <1>3
<1>6. PICK u : u = [m EXCEPT !.prepared = FALSE, !.secret = NoNetwork,
                             !.told.phase = "Idle"]
  OBVIOUS
<1>7. n.prepared \in BOOLEAN /\ n.selecting \in BOOLEAN
  BY DEF Built, Stations
<1>8. \/ o = Answer("NotFound", u)
      \/ o = Answer("ConnectionFailed", Cancelled(m))
      \/ o = Answer("Ok", ScanStops(Cancelled(l)))
      \/ o = Answer("ConnectionFailed", m)
      \/ o = Answer("Ok", Leaves(l))
  BY <1>1, <1>5, <1>6, <1>7 DEF disconnect
<1>9. o.native \in {u, Cancelled(m), ScanStops(Cancelled(l)), m, Leaves(l)}
  BY <1>8 DEF Answer
<1>10. Calm(n, m) /\ Calm(m, l) /\ Calm(m, u)
  <2>1. m.candidates = n.candidates
    BY <1>1 DEF Abandoning, Built, Stations
  <2>2. l.candidates = m.candidates
    BY <1>3, <1>4 DEF Built, Stations
  <2>3. u.candidates = m.candidates
    BY <1>4, <1>6 DEF Built, Stations
  <2> QED BY <2>1, <2>2, <2>3 DEF Calm
<1>11. ASSUME NEW s, Built(s)
       PROVE  Built(Cancelled(s)) /\ Calm(s, Cancelled(s))
  BY <1>11, CancelledBuilt DEF Cancelled, Calm, Built, Stations
<1>12. Calm(l, Leaves(l)) /\ Calm(l, ScanStops(Cancelled(l)))
       /\ Calm(m, Cancelled(m))
  BY <1>4, <1>11, LeavesCalm, ScanStopsCalm DEF Calm
<1> QED BY <1>9, <1>10, <1>12 DEF Calm

(* A step that touches the loop penalises nobody, or leaves the loop alone. *)
Spares(n, m) ==
  m.idf.loop = n.idf.loop \/ Milder(n.candidates, m.candidates)

LEMMA CalmSpares ==
  ASSUME NEW n, Built(n), NEW m, m.candidates \in {n.candidates, <<>>}
  PROVE  Spares(n, m)
<1>1. ASSUME m.candidates = n.candidates
      PROVE  Milder(n.candidates, m.candidates)
  <2>1. \A i \in DOMAIN n.candidates : n.candidates[i].failures \in 0..2
    BY CandidateTyped DEF Built
  <2> QED BY <1>1, <2>1 DEF Milder
<1>2. ASSUME m.candidates = <<>>
      PROVE  Milder(n.candidates, m.candidates)
  BY <1>2 DEF Milder
<1> QED BY <1>1, <1>2 DEF Spares

(* Choosing a candidate or scanning for one leaves the loop alone. *)
LEMMA ConnectSettled ==
  ASSUME NEW n, Built(n), NEW network \in Ssid, NEW secret \in Ssid,
         NEW o \in connect(n, network, secret)
  PROVE  o.native.idf = n.idf
<1>1. PICK c : c = Configured(n, network, secret)
  OBVIOUS
<1>2. c \in Stations /\ c.idf = n.idf
  BY <1>1, Candidateless DEF Configured, Built, Stations
<1>3. ASSUME NEW m \in Later(c)
      PROVE  m \in Stations /\ m.idf = n.idf
  <2>1. \E fresh \in BOOLEAN : \E cs :
          /\ m = [c EXCEPT !.fresh = fresh, !.candidates = cs]
          /\ Regarded(c.candidates, cs)
          /\ \A i \in DOMAIN cs : cs[i].failures = c.candidates[i].failures
    BY <1>2, LaterIs
  <2>2. PICK fresh \in BOOLEAN : \E cs :
          /\ m = [c EXCEPT !.fresh = fresh, !.candidates = cs]
          /\ Regarded(c.candidates, cs)
    BY <2>1
  <2>3. PICK cs \in BoundedSeq(Candidates, Slots) :
          m = [c EXCEPT !.fresh = fresh, !.candidates = cs]
    BY <2>2 DEF Regarded
  <2> QED BY <1>2, <2>3 DEF Stations
<1>4. \/ o = Answer("Busy", n)
      \/ \E m \in Later(c) :
           /\ Eligible(m) # {}
           /\ o = AnswerPosting("Ok",
                    [selectCandidate(m) EXCEPT !.told.phase = "Prepared"],
                    Event("Prepared", NoNetwork, "Ok"))
      \/ \E m \in Later(c), st \in VendorAnswers(n) :
           o = Calling([m EXCEPT !.selecting = TRUE, !.cancelled = FALSE],
                       "select", st)
  <2> DEFINE asked == Later(c)
             known == {m \in asked : m.fresh /\ Eligible(m) # {}}
             select(m) == [m EXCEPT !.selecting = TRUE, !.cancelled = FALSE]
  <2>1. \/ o = Answer("Busy", n)
        \/ o \in {AnswerPosting("Ok",
                     [selectCandidate(m) EXCEPT !.told.phase = "Prepared"],
                     Event("Prepared", NoNetwork, "Ok")) : m \in known}
        \/ o \in UNION {{Calling(select(m), "select", answer) :
                          answer \in VendorAnswers(n)} : m \in asked \ known}
    BY <1>1, Zenon DEF connect
  <2>2. CASE o = Answer("Busy", n)
    BY <2>2
  <2>3. CASE o \in {AnswerPosting("Ok",
                     [selectCandidate(m) EXCEPT !.told.phase = "Prepared"],
                     Event("Prepared", NoNetwork, "Ok")) : m \in known}
    BY <2>3, Zenon
  <2>4. CASE o \in UNION {{Calling(select(m), "select", answer) :
                            answer \in VendorAnswers(n)} : m \in asked \ known}
    BY <2>4, Zenon
  <2> QED BY <2>1, <2>2, <2>3, <2>4, Zenon
<1>5. CASE o = Answer("Busy", n)
  BY <1>5 DEF Answer
<1>6. ASSUME NEW m \in Later(c), Eligible(m) # {},
             o = AnswerPosting("Ok",
                   [selectCandidate(m) EXCEPT !.told.phase = "Prepared"],
                   Event("Prepared", NoNetwork, "Ok"))
      PROVE  o.native.idf = n.idf
  <2>1. \E i \in DOMAIN m.candidates : \E cs :
          /\ i \in Eligible(m) /\ \A j \in Eligible(m) : i <= j
          /\ selectCandidate(m) = [m EXCEPT !.candidates = cs,
                                            !.selected = m.candidates[i].ap,
                                            !.prepared = TRUE]
          /\ Regarded(m.candidates, cs)
          /\ \A j \in DOMAIN cs : cs[j].failures <= m.candidates[j].failures
    BY <1>3, <1>6, SelectIs
  <2>2. \E cs, ap : selectCandidate(m) = [m EXCEPT !.candidates = cs,
                                                   !.selected = ap,
                                                   !.prepared = TRUE]
    BY <2>1, Zenon
  <2>3. PICK s : s = [selectCandidate(m) EXCEPT !.told.phase = "Prepared"]
    OBVIOUS
  <2>4. s.idf = m.idf
    BY <1>3, <2>2, <2>3 DEF Stations
  <2>5. o.native = s
    BY <1>6, <2>3 DEF AnswerPosting
  <2> QED BY <1>3, <2>4, <2>5
<1>7. ASSUME NEW m \in Later(c), NEW st,
             o = Calling([m EXCEPT !.selecting = TRUE, !.cancelled = FALSE],
                         "select", st)
      PROVE  o.native.idf = n.idf
  <2>1. PICK l : l = [m EXCEPT !.selecting = TRUE, !.cancelled = FALSE]
    OBVIOUS
  <2>2. PICK d : d = [l EXCEPT !.call = [kind |-> "select", answer |-> st]]
    OBVIOUS
  <2>3. o.native = d
    BY <1>7, <2>1, <2>2 DEF Calling, Answer
  <2>4. d.idf = m.idf
    BY <1>3, <2>1, <2>2 DEF Stations
  <2> QED BY <1>3, <2>3, <2>4
<1> QED BY <1>4, <1>5, <1>6, <1>7

LEMMA ContinueCalm ==
  ASSUME NEW n, Built(n), NEW o \in continueConnect(n)
  PROVE  Calm(n, o.native)
<1>1. PICK b : b = [n EXCEPT !.prepared = FALSE]
  OBVIOUS
<1>2. PICK f : f = [b EXCEPT !.told.phase = "Idle"]
  OBVIOUS
<1>3. PICK g : g = [f EXCEPT !.secret = NoNetwork]
  OBVIOUS
<1>4. PICK c : c = [b EXCEPT !.secret = NoNetwork, !.idf.ip = FALSE,
                             !.attempt = TRUE]
  OBVIOUS
<1>5. /\ f.candidates = n.candidates /\ g.candidates = n.candidates
      /\ c.candidates = n.candidates /\ DOMAIN c = DOMAIN n
  BY <1>1, <1>2, <1>3, <1>4 DEF Built, Stations
<1>6. \/ o = Answer("NotFound", n)
      \/ o = Answer("ConnectionFailed", f)
      \/ o = Answer("ConnectionFailed", g)
      \/ \E st \in VendorAnswers(n) : o = Calling(c, "join", st)
  BY <1>1, <1>2, <1>3, <1>4, Zenon DEF continueConnect
<1>7. ASSUME NEW st, o = Calling(c, "join", st)
      PROVE  o.native.candidates = n.candidates
  <2>1. PICK d : d = [c EXCEPT !.call = [kind |-> "join", answer |-> st]]
    OBVIOUS
  <2>2. o.native = d
    BY <1>7, <2>1 DEF Calling, Answer
  <2>3. d.candidates = c.candidates
    BY <1>5, <2>1 DEF Built, Stations
  <2> QED BY <1>5, <2>2, <2>3
<1> QED BY <1>5, <1>6, <1>7 DEF Answer, Calm

LEMMA ScanCalm ==
  ASSUME NEW n, Built(n), NEW o \in scan(n)
  PROVE  Calm(n, o.native)
<1>1. PICK m : m = [n EXCEPT !.scan_active = TRUE, !.cancelled = FALSE]
  OBVIOUS
<1>2. m.candidates = n.candidates /\ DOMAIN m = DOMAIN n
  BY <1>1 DEF Built, Stations
<1>3. \/ o = Answer("Busy", n)
      \/ \E st \in VendorAnswers(n) : o = Calling(m, "scan", st)
  BY <1>1, Zenon DEF scan
<1>4. ASSUME NEW st, o = Calling(m, "scan", st)
      PROVE  o.native.candidates = n.candidates
  <2>1. PICK d : d = [m EXCEPT !.call = [kind |-> "scan", answer |-> st]]
    OBVIOUS
  <2>2. o.native = d
    BY <1>4, <2>1 DEF Calling, Answer
  <2>3. d.candidates = m.candidates
    BY <1>2, <2>1 DEF Built, Stations
  <2> QED BY <1>2, <2>2, <2>3
<1> QED BY <1>2, <1>3, <1>4 DEF Answer, Calm

(* What TeardownIsBlameless says of a step. *)
Blameless ==
  \A i \in DOMAIN native.candidates \cap DOMAIN native'.candidates :
    /\ native'.candidates[i].ap = native.candidates[i].ap
    /\ native'.candidates[i].failures > native.candidates[i].failures
    /\ native'.idf.loop # native.idf.loop
    => /\ Current.ap = native.candidates[i].ap
       /\ Current.detail = "ASSOC_LEAVE" => native.rejected

LEMMA SparesBlameless ==
  ASSUME Built(native), Built(native'), Spares(native, native')
  PROVE  Blameless
<1>1. CASE native'.idf.loop = native.idf.loop
  BY <1>1 DEF Blameless
<1>2. CASE Milder(native.candidates, native'.candidates)
  <2>1. \A i \in DOMAIN native.candidates : native.candidates[i].failures \in 0..2
    BY CandidateTyped DEF Built
  <2>2. \A i \in DOMAIN native'.candidates :
          native'.candidates[i].failures \in 0..2
    BY CandidateTyped DEF Built
  <2> QED BY <1>2, <2>1, <2>2 DEF Milder, Blameless
<1> QED BY <1>1, <1>2 DEF Spares

(* The one event that penalises is about the AP it penalises. *)
LEMMA OnDisconnectedBlameless ==
  ASSUME Built(native), Built(native'), Faithful(native), OnDisconnected
  PROVE  Blameless
<1>1. native.idf.loop # <<>> /\ Current.kind = "Disconnected"
  BY DEF OnDisconnected, Delivered, Current
<1>2. PICK r : r = Rest
  OBVIOUS
<1>3. Built(r) /\ Keeps(native, r, {"loop"})
  BY <1>1, <1>2, RestBuilt, RestIs
<1>4. Current \in Range(native.idf.loop)
  BY <1>1, <1>2, TakenIs
<1>5. /\ r.candidates = native.candidates /\ r.attempt = native.attempt
      /\ r.selected = native.selected /\ r \in Stations
  BY <1>3 DEF Keeps, Built
<1>6. PICK failure : failure = IF native.rejected THEN "IncompatibleSecurity"
                               ELSE ClassifyDisconnect(Current.detail)
  OBVIOUS
<1>7. PICK a : a = candidateFailed(r, failure)
  OBVIOUS
<1>8. PICK cs :
        /\ a = IF r.attempt
               THEN [r EXCEPT !.attempt = FALSE, !.candidates = cs] ELSE r
        /\ Regarded(r.candidates, cs)
        /\ \A i \in DOMAIN cs :
             cs[i].failures # r.candidates[i].failures =>
               r.candidates[i].ap = r.selected
  <2>1. \E cs :
          /\ candidateFailed(r, failure) =
               IF r.attempt
               THEN [r EXCEPT !.attempt = FALSE, !.candidates = cs] ELSE r
          /\ Regarded(r.candidates, cs)
          /\ \A i \in DOMAIN cs :
               cs[i].failures # r.candidates[i].failures =>
                 r.candidates[i].ap = r.selected
    BY <1>5, FailedIs
  <2> QED BY <1>7, <2>1, Zenon
<1>9. a \in Stations /\ a.candidates = IF r.attempt THEN cs ELSE r.candidates
  <2>1. CASE r.attempt
    <3>1. a = [r EXCEPT !.attempt = FALSE, !.candidates = cs]
      BY <1>8, <2>1
    <3>2. a.candidates = cs
      BY <1>5, <3>1 DEF Stations
    <3>3. a \in Stations
      BY <1>5, <1>8, <3>1 DEF Regarded, Stations
    <3> QED BY <2>1, <3>2, <3>3
  <2>2. CASE ~r.attempt
    BY <1>5, <1>8, <2>2
  <2> QED BY <2>1, <2>2
<1>10. PICK timer \in BOOLEAN : timer = (a.idf.timer \/ native.idf.ip)
  OBVIOUS
<1>11. PICK m : m = [a EXCEPT !.rejected = FALSE, !.idf.ip = FALSE,
                              !.idf.timer = timer,
                              !.told.phase = "Idle", !.told.leaving = FALSE]
  OBVIOUS
<1>12. native' = m
  <2>1. m = [a EXCEPT !.rejected = FALSE, !.idf.ip = FALSE,
                      !.idf.timer = @ \/ native.idf.ip,
                      !.told.phase = "Idle", !.told.leaving = FALSE]
    BY <1>10, <1>11, Zenon
  <2> QED BY <1>2, <1>6, <1>7, <2>1, Zenon DEF OnDisconnected, PostsEvent
<1>13. native'.candidates = a.candidates
  BY <1>9, <1>11, <1>12 DEF Stations
<1>14. CASE native.attempt
  <2>1. native'.candidates = cs
    BY <1>5, <1>9, <1>13, <1>14
  <2>2. /\ Current.ap = native.selected
        /\ Current.detail = "ASSOC_LEAVE" => native.rejected
    BY <1>1, <1>4, <1>14 DEF Faithful, AttemptIsOwn
  <2>3. ASSUME NEW i \in DOMAIN native.candidates \cap DOMAIN native'.candidates,
               native'.candidates[i].failures > native.candidates[i].failures
        PROVE  Current.ap = native.candidates[i].ap
    <3>1. native.candidates[i].failures \in 0..2
      BY <2>3, CandidateTyped DEF Built
    <3>2. native'.candidates[i].failures # native.candidates[i].failures
      BY <2>3, <3>1
    <3>3. native.candidates[i].ap = native.selected
      BY <1>5, <1>8, <2>1, <2>3, <3>2
    <3> QED BY <2>2, <3>3
  <2> QED BY <2>2, <2>3 DEF Blameless
<1>15. CASE ~native.attempt
  <2>1. native'.candidates = native.candidates
    BY <1>5, <1>9, <1>13, <1>15
  <2> QED BY <2>1, CalmSpares, SparesBlameless
<1> QED BY <1>14, <1>15

LEMMA OnGotIpSpares ==
  ASSUME Built(native), Faithful(native), OnGotIp
  PROVE  Spares(native, native')
<1>1. native.idf.loop # <<>> /\ Current.kind = "GotIp"
  BY DEF OnGotIp, Delivered, Current
<1>2. PICK r : r = Rest
  OBVIOUS
<1>3. Built(r) /\ Keeps(native, r, {"loop"}) /\ native \in Stations
  BY <1>1, <1>2, RestBuilt, RestIs DEF Built
<1>4. r.candidates = native.candidates
  BY <1>3 DEF Keeps
<1>5. CASE /\ native.idf.link = "Up" /\ native.idf.ip
           /\ native.idf.ap = native.selected
  <2>1. PICK cs : cs = Forgiven(native)
    OBVIOUS
  <2>2. PICK phase : phase = IF r.told.phase = "Associated"
                             THEN "AddressReady" ELSE r.told.phase
    OBVIOUS
  <2>3. PICK m : m = [r EXCEPT !.attempt = FALSE, !.candidates = cs,
                               !.told.phase = phase]
    OBVIOUS
  <2>4. cs = [i \in DOMAIN r.candidates |->
               IF r.candidates[i].ap = native.selected
               THEN [r.candidates[i] EXCEPT !.failures = 0, !.cooling = FALSE]
               ELSE r.candidates[i]]
    BY <1>4, <2>1 DEF Forgiven
  <2>5. native' = m
    <3>1. m = [r EXCEPT
                 !.attempt = FALSE,
                 !.candidates = [i \in DOMAIN @ |->
                   IF @[i].ap = native.selected
                   THEN [@[i] EXCEPT !.failures = 0, !.cooling = FALSE]
                   ELSE @[i]],
                 !.told.phase = IF @ = "Associated" THEN "AddressReady"
                                                    ELSE @]
      BY <2>2, <2>3, <2>4, Zenon
    <3> QED BY <1>2, <1>5, <3>1, Zenon DEF OnGotIp, PostsEvent
  <2>6. native'.candidates = cs
    BY <1>3, <2>3, <2>5 DEF Built, Stations
  <2>7. \A i \in DOMAIN native.candidates :
          cs[i].failures <= native.candidates[i].failures
    BY <1>3, <2>1, ForgivenIs
  <2>8. Milder(native.candidates, cs)
    BY <2>7 DEF Milder
  <2> QED BY <2>6, <2>8 DEF Spares
<1>6. CASE ~(/\ native.idf.link = "Up" /\ native.idf.ip
             /\ native.idf.ap = native.selected)
  <2>1. native' = r
    BY <1>2, <1>6, Zenon DEF OnGotIp, Ignores
  <2> QED BY <1>4, <2>1, CalmSpares
<1> QED BY <1>5, <1>6

LEMMA OnScanDoneSpares ==
  ASSUME Built(native), Faithful(native), OnScanDone
  PROVE  Spares(native, native')
<1>1. native.idf.loop # <<>> /\ Current.kind = "ScanDone"
  BY DEF OnScanDone, Delivered, Current
<1>2. PICK r : r = Rest
  OBVIOUS
<1>3. r.candidates = native.candidates /\ r \in Stations
  BY <1>1, <1>2, RestBuilt, RestIs DEF Keeps, Built
<1>4. native.selecting \in BOOLEAN /\ native.scan_active \in BOOLEAN
  BY DEF Built, Stations
<1>5. CASE native.selecting
  <2>1. \/ \E n \in Later(Rest), found \in Found(native.config) :
             Selected(n, found)
        \/ Unselected
    BY <1>5, Zenon DEF OnScanDone
  <2>2. CASE Unselected
    <3>1. Keeps(native, native', {"loop", "selecting", "cancelled", "secret",
                                  "phase", "leaving"})
      BY <1>1, <1>5, <2>2, UnselectedIs
    <3>2. native'.candidates = native.candidates
      BY <3>1 DEF Keeps
    <3> QED BY <3>2, CalmSpares
  <2>3. ASSUME NEW n \in Later(Rest), NEW found \in Found(native.config),
               Selected(n, found)
        PROVE  Spares(native, native')
    BY <1>1, <2>3, SelectionMilder DEF Spares
  <2> QED BY <2>1, <2>2, <2>3
<1>6. CASE ~native.selecting
  <2>1. PICK m : m = [r EXCEPT !.scan_active = FALSE, !.cancelled = FALSE]
    OBVIOUS
  <2>2. m.candidates = native.candidates
    BY <1>3, <2>1 DEF Stations
  <2>3. native' = m \/ native' = r
    BY <1>2, <1>4, <1>6, <2>1, Zenon DEF OnScanDone, PostsEvent, Ignores
  <2> QED BY <1>3, <2>2, <2>3, CalmSpares
<1> QED BY <1>5, <1>6

LEMMA DeliversBlameless ==
  ASSUME Built(native), Built(native'), Faithful(native), Delivers
  PROVE  Blameless
<1>1. ASSUME native'.candidates = native.candidates
      PROVE  Blameless
  BY <1>1, CalmSpares, SparesBlameless
<1>2. CASE OnStart
  <2>1. native'.candidates = native.candidates
    BY <1>2, OnStartIs DEF Keeps
  <2> QED BY <1>1, <2>1
<1>3. CASE OnStop
  <2>1. native'.candidates = native.candidates
    BY <1>3, OnStopIs DEF Keeps
  <2> QED BY <1>1, <2>1
<1>4. CASE OnConnected
  <2>1. native'.candidates = native.candidates
    BY <1>4, OnConnectedIs DEF Keeps
  <2> QED BY <1>1, <2>1
<1>5. CASE OnLostIp
  <2>1. native'.candidates = native.candidates
    BY <1>5, OnLostIpIs DEF Keeps
  <2> QED BY <1>1, <2>1
<1>6. CASE OnScanDone
  BY <1>6, OnScanDoneSpares, SparesBlameless
<1>7. CASE OnGotIp
  BY <1>7, OnGotIpSpares, SparesBlameless
<1>8. CASE OnDisconnected
  BY <1>8, OnDisconnectedBlameless
<1> QED BY <1>2, <1>3, <1>4, <1>5, <1>6, <1>7, <1>8 DEF Delivers

(* No command penalises with an event at hand. *)
LEMMA ApiSpares ==
  ASSUME Built(native), Api
  PROVE  Spares(native, native')
<1>1. ASSUME NEW m, Calm(native, m)
      PROVE  Spares(native, m)
  BY <1>1, CalmSpares DEF Calm
<1>2. Spares(native, native)
  BY <1>1 DEF Calm
<1>3. \A st : Spares(native, Answer(st, native).native)
  BY <1>2 DEF Answer
<1>4. \A d \in disconnect(native) : Spares(native, d.native)
  BY <1>1, DisconnectCalm
<1>5. CASE Begin(AttachedStation)
  <2>1. native' = AttachedStation
    BY <1>5 DEF Begin
  <2>2. native'.candidates = <<>>
    BY <2>1 DEF AttachedStation, NewStation
  <2> QED BY <2>2, CalmSpares
<1>6. CASE Shutdown(detach(native))
  <2>1. Built(Leaves(native))
    BY LeavesBuilt
  <2>2. PICK l : l = Leaves(native)
    OBVIOUS
  <2>3. native' = [l EXCEPT
                     !.attached = FALSE, !.selecting = FALSE,
                     !.scan_active = FALSE, !.candidates = <<>>,
                     !.attempt = FALSE, !.secret = NoNetwork,
                     !.idf.loop = <<>>]
    BY <1>6, <2>2 DEF Shutdown, detach
  <2>4. native'.candidates = <<>>
    BY <2>1, <2>2, <2>3 DEF Built, Stations
  <2> QED BY <2>4, CalmSpares
<1>7. ASSUME NEW enabled \in BOOLEAN,
             SetEnabled(enabled, enable(native, enabled))
      PROVE  Spares(native, native')
  <2>1. \A e \in enable(native, enabled) : Spares(native, e.native)
    BY EnableForgets, CalmSpares
  <2> QED BY <1>7, <2>1 DEF SetEnabled
<1>8. CASE StartScan(scan(native))
  <2>1. \A s \in scan(native) : Spares(native, s.native)
    BY <1>1, ScanCalm
  <2> QED BY <1>8, <2>1 DEF StartScan
<1>9. ASSUME NEW network \in Networks, Connect(network, disconnect(native))
      PROVE  Spares(native, native')
  BY <1>2, <1>4, <1>9 DEF Connect
<1>10. CASE Disconnect(disconnect(native))
  BY <1>3, <1>4, <1>10 DEF Disconnect
<1>11. CASE CancelScan(stopScan(native))
  <2>1. \A s \in stopScan(native) : Spares(native, s.native)
    BY <1>1, StopScanCalm
  <2> QED BY <1>11, <2>1 DEF CancelScan
<1>12. CASE CancelConnect(disconnect(native))
  BY <1>3, <1>4, <1>12 DEF CancelConnect
<1> QED
  BY <1>5, <1>6, <1>7, <1>8, <1>9, <1>10, <1>11, <1>12 DEF Api

(* A join that is refused at once does penalise, with no event at hand. *)
LEMMA DispatchSpares ==
  ASSUME Paired, Dispatch
  PROVE  Spares(native, native')
<1>1. /\ Built(native) /\ Inv /\ adapter \in Adapters
      /\ native.attached => Faithful(native)
  BY PairedIs
<1>2. Spares(native, native)
  BY DEF Spares
<1>3. CASE CallReturns
  <2>1. native.call # NoCall /\ native' = Returned(native)
    BY <1>3 DEF CallReturns
  <2>2. Faithful(native)
    <3>1. native.attached
      BY <2>1, PairedIs DEF Together, Apiece
    <3> QED BY <1>1, <3>1
  <2>3. native'.idf.loop = native.idf.loop
    BY <1>1, <2>1, <2>2, ReturnedIs DEF Keeps
  <2> QED BY <2>3 DEF Spares
<1>4. CASE native.call = NoCall /\ DrainEvent(continueConnect(native))
  <2>1. \A c \in continueConnect(native) : Spares(native, c.native)
    BY <1>1, ContinueCalm, CalmSpares DEF Calm
  <2>2. Spares(native, Answer("Ok", native).native)
    BY <1>2 DEF Answer
  <2> QED BY <1>4, <2>1, <2>2 DEF DrainEvent
<1>5. CASE /\ native.call = NoCall
           /\ DrainEnds(connect(native, adapter.config, adapter.credentials))
  <2>1. adapter.config \in Ssid /\ adapter.credentials \in Ssid
    BY <1>1, AdapterTyped
  <2>2. \A c \in connect(native, adapter.config, adapter.credentials) :
          Spares(native, c.native)
    BY <1>1, <2>1, ConnectSettled DEF Spares
  <2> QED BY <1>2, <1>5, <2>2 DEF DrainEnds
<1>6. CASE Drain \/ DrainOverflow \/ Deliver
  BY <1>2, <1>6 DEF Drain, DrainOverflow, Deliver
<1> QED BY <1>3, <1>4, <1>5, <1>6 DEF Dispatch

LEMMA StepBlameless ==
  ASSUME Paired, [Next]_vars
  PROVE  Blameless
<1>1. Built(native) /\ Built(native')
  BY StepKept, PairedIs DEF Paired, BusyInv
<1>2. CASE Api
  BY <1>1, <1>2, ApiSpares, SparesBlameless
<1>3. CASE Dispatch
  BY <1>1, <1>3, DispatchSpares, SparesBlameless
<1>4. CASE EventLoop
  <2>1. native.attached
    BY <1>4 DEF EventLoop, Delivers, OnStart, OnStop, OnScanDone, OnConnected,
                OnDisconnected, OnGotIp, OnLostIp, Delivered
  <2>2. Faithful(native)
    BY <2>1, PairedIs
  <2> QED BY <1>1, <1>4, <2>2, DeliversBlameless DEF EventLoop
<1>5. CASE Radio
  <2>1. native.attached
    BY <1>5 DEF Radio, Happens, ScanFinishes, Joins, Loses, GetsIp, LeaseEnds,
                LossTimer, Raises
  <2>2. Faithful(native)
    BY <2>1, PairedIs
  <2>3. native'.candidates = native.candidates
    BY <1>1, <1>5, <2>2, HappensIs DEF Radio, Keeps
  <2> QED BY <1>1, <2>3, CalmSpares, SparesBlameless
<1>6. CASE UNCHANGED vars
  <2>1. Spares(native, native')
    BY <1>6 DEF vars, Spares
  <2> QED BY <1>1, <2>1, SparesBlameless
<1> QED BY <1>2, <1>3, <1>4, <1>5, <1>6 DEF Next

-----------------------------------------------------------------------------
(* The driver as the contract of NativeStation sees it *)

Seen == IF native.attached THEN View ELSE Detached

Shows(n) ==
  [attached |-> TRUE, enabled |-> n.told.enabled,
   turning |-> n.told.enabled # n.idf.on, target |-> n.idf.on,
   scanning |-> n.scan_active /\ n.call.kind # "scan",
   phase |-> n.told.phase, leaving |-> n.told.leaving,
   ssid |-> n.config, secret |-> n.config]

LEMMA SeenIs ==
  ASSUME Built(native), Built(native')
  PROVE  /\ native.attached => Seen = Shows(native)
         /\ native'.attached => Seen' = Shows(native')
         /\ ~native.attached => Seen = Detached
         /\ ~native'.attached => Seen' = Detached
<1>1. native.attached \in BOOLEAN /\ native'.attached \in BOOLEAN
  BY DEF Built, Stations
<1>2. ASSUME native.attached
      PROVE  Seen = Shows(native)
  <2>1. native.attached = TRUE
    BY <1>1, <1>2
  <2> QED BY <2>1 DEF Seen, View, Shows
<1>3. ASSUME native'.attached
      PROVE  Seen' = Shows(native')
  <2>1. native'.attached = TRUE
    BY <1>1, <1>3
  <2> QED BY <2>1 DEF Seen, View, Shows
<1> QED BY <1>2, <1>3 DEF Seen, Detached

(* What the contract calls posting is the same here. *)
LEMMA PostingIs ==
  ASSUME NEW m, NEW kind, NEW ssid, NEW status, NEW enabled, NEW e
  PROVE  /\ Native!post(m, e) = post(m, e)
         /\ Native!Event(kind, ssid, status) = Event(kind, ssid, status)
         /\ Native!Enablement(enabled) = Enablement(enabled)
BY Zenon DEF Native!post, post, Native!scheduleNow, scheduleNow, Native!Event,
   Event, Native!Enablement, Enablement

LEMMA PostsBy ==
  ASSUME NEW p, NEW q, p = Seen, q = Seen', p.attached = TRUE,
         NEW e, mail' = post(mail, e)
  PROVE  Native!NativePosts(q, e)
<1>1. Native!post(mail, e) = post(mail, e)
  BY PostingIs
<1> QED BY <1>1 DEF Native!NativePosts, Seen

(* A record with the fields the contract has. *)
Sight(p) ==
  p = [attached |-> p.attached, enabled |-> p.enabled, turning |-> p.turning,
       target |-> p.target, scanning |-> p.scanning, phase |-> p.phase,
       leaving |-> p.leaving, ssid |-> p.ssid, secret |-> p.secret]

Alters(p, q, changed) ==
  /\ "attached" \notin changed => q.attached = p.attached
  /\ "enabled" \notin changed => q.enabled = p.enabled
  /\ "turning" \notin changed => q.turning = p.turning
  /\ "target" \notin changed => q.target = p.target
  /\ "scanning" \notin changed => q.scanning = p.scanning
  /\ "phase" \notin changed => q.phase = p.phase
  /\ "leaving" \notin changed => q.leaving = p.leaving
  /\ "ssid" \notin changed => q.ssid = p.ssid
  /\ "secret" \notin changed => q.secret = p.secret

LEMMA SightIs ==
  ASSUME NEW n, NEW p, p = Shows(n)
  PROVE  /\ Sight(p)
         /\ p.attached = TRUE /\ p.enabled = n.told.enabled
         /\ p.turning = (n.told.enabled # n.idf.on) /\ p.target = n.idf.on
         /\ p.scanning = (n.scan_active /\ n.call.kind # "scan")
         /\ p.phase = n.told.phase /\ p.leaving = n.told.leaving
         /\ p.ssid = n.config /\ p.secret = n.config
<1>1. PICK turning, scanning :
        /\ turning = (n.told.enabled # n.idf.on)
        /\ scanning = (n.scan_active /\ n.call.kind # "scan")
  OBVIOUS
<1>2. p = [attached |-> TRUE, enabled |-> n.told.enabled,
           turning |-> turning, target |-> n.idf.on,
           scanning |-> scanning, phase |-> n.told.phase,
           leaving |-> n.told.leaving, ssid |-> n.config,
           secret |-> n.config]
  BY <1>1, Zenon DEF Shows
<1>3. Sight(p)
  BY <1>2 DEF Sight
<1> QED BY <1>1, <1>2, <1>3

LEMMA AltersIs ==
  ASSUME NEW p, NEW q, Sight(p), Sight(q)
  PROVE  /\ Alters(p, q, {"phase"}) => q = [p EXCEPT !.phase = q.phase]
         /\ Alters(p, q, {"scanning"}) =>
              q = [p EXCEPT !.scanning = q.scanning]
         /\ Alters(p, q, {"leaving"}) => q = [p EXCEPT !.leaving = q.leaving]
         /\ Alters(p, q, {"phase", "leaving"}) =>
              q = [p EXCEPT !.phase = q.phase, !.leaving = q.leaving]
         /\ Alters(p, q, {"turning", "target"}) =>
              q = [p EXCEPT !.turning = q.turning, !.target = q.target]
         /\ Alters(p, q, {"enabled", "turning", "phase"}) =>
              q = [p EXCEPT !.enabled = q.enabled, !.turning = q.turning,
                            !.phase = q.phase]
         /\ Alters(p, q, {"ssid", "secret"}) =>
              q = [p EXCEPT !.ssid = q.ssid, !.secret = q.secret]
         /\ Alters(p, q, {"ssid", "secret", "phase"}) =>
              q = [[p EXCEPT !.ssid = q.ssid, !.secret = q.secret]
                     EXCEPT !.phase = q.phase]
BY DEF Sight, Alters

LEMMA ShownAlike ==
  ASSUME NEW n, NEW m, NEW p, p = Shows(n), NEW q, q = Shows(m)
  PROVE  /\ Sight(p) /\ Sight(q) /\ q.attached = p.attached
         /\ m.told.enabled = n.told.enabled => q.enabled = p.enabled
         /\ m.told.enabled = n.told.enabled /\ m.idf.on = n.idf.on =>
              q.turning = p.turning
         /\ m.idf.on = n.idf.on => q.target = p.target
         /\ m.scan_active = n.scan_active /\ m.call = n.call =>
              q.scanning = p.scanning
         /\ m.told.phase = n.told.phase => q.phase = p.phase
         /\ m.told.leaving = n.told.leaving => q.leaving = p.leaving
         /\ m.config = n.config => q.ssid = p.ssid /\ q.secret = p.secret
<1>1. /\ Sight(p) /\ p.attached = TRUE /\ p.enabled = n.told.enabled
      /\ p.target = n.idf.on /\ p.phase = n.told.phase
      /\ p.leaving = n.told.leaving
      /\ p.ssid = n.config /\ p.secret = n.config
  BY SightIs
<1>2. /\ Sight(q) /\ q.attached = TRUE /\ q.enabled = m.told.enabled
      /\ q.target = m.idf.on /\ q.phase = m.told.phase
      /\ q.leaving = m.told.leaving
      /\ q.ssid = m.config /\ q.secret = m.config
  BY SightIs
<1>3. ASSUME m.told.enabled = n.told.enabled, m.idf.on = n.idf.on
      PROVE  q.turning = p.turning
  <2>1. p.turning = (n.told.enabled # n.idf.on)
    BY SightIs
  <2>2. q.turning = (m.told.enabled # m.idf.on)
    BY SightIs
  <2> QED BY <1>3, <2>1, <2>2
<1>4. ASSUME m.scan_active = n.scan_active, m.call = n.call
      PROVE  q.scanning = p.scanning
  <2>1. p.scanning = (n.scan_active /\ n.call.kind # "scan")
    BY SightIs
  <2>2. q.scanning = (m.scan_active /\ m.call.kind # "scan")
    BY SightIs
  <2> QED BY <1>4, <2>1, <2>2
<1> QED BY <1>1, <1>2, <1>3, <1>4

(* Nothing the contract sees changes. *)
LEMMA Unseen ==
  ASSUME NEW n, NEW m,
         Keeps(n, m, {"selecting", "cancelled", "prepared", "attempt",
                      "candidates", "rejected", "selected", "secret",
                      "scanning", "link", "ap", "loop"})
  PROVE  Shows(m) = Shows(n)
BY DEF Keeps, Shows

LEMMA EndsBy ==
  ASSUME NEW p, p = Seen, p.attached = TRUE,
         Seen' = [p EXCEPT !.phase = "Idle", !.leaving = FALSE],
         p.phase \notin {"Idle", "Prepared"},
         mail' = post(mail, Event("Disconnected", p.ssid, "ConnectionFailed"))
  PROVE  Native!Posts
<1>1. Native!Event("Disconnected", p.ssid, "ConnectionFailed")
        = Event("Disconnected", p.ssid, "ConnectionFailed")
  BY PostingIs
<1>2. Native!Drops
  <2>1. Native!NativePosts([p EXCEPT !.phase = "Idle", !.leaving = FALSE],
                           Event("Disconnected", p.ssid, "ConnectionFailed"))
    BY PostsBy
  <2> QED BY <1>1, <2>1 DEF Native!Drops, Seen
<1> QED BY <1>2 DEF Native!Posts

LEMMA SwitchSeen ==
  ASSUME Built(native), Built(native'), Faithful(native), OnStart \/ OnStop
  PROVE  Native!Posts
<1>1. PICK on \in BOOLEAN : IF on THEN OnStart ELSE OnStop
  OBVIOUS
<1>2. native.attached
  BY <1>1 DEF OnStart, OnStop, Delivered
<1>3. /\ native'.attached = native.attached
      /\ native'.scan_active = native.scan_active /\ native'.call = native.call
      /\ native'.told.leaving = native.told.leaving
      /\ native'.config = native.config /\ native'.idf.on = native.idf.on
      /\ on => native'.told.phase = native.told.phase
  BY <1>1, OnStartIs, OnStopIs DEF Keeps
<1>4. /\ native'.told.enabled = on /\ native.idf.on = on
      /\ ~on => native'.told.phase = "Idle"
      /\ mail' = post(mail, Enablement(on))
  <2>1. native.idf.on \in BOOLEAN
    BY DEF Built, Stations
  <2> QED BY <1>1, <2>1, OnStartIs, OnStopIs
<1>5. native.told.enabled = ~on /\ native.told.leaving = FALSE
  <2>1. native.told.enabled \in BOOLEAN /\ native.told.leaving \in BOOLEAN
    BY DEF Built, Stations
  <2>2. CASE on
    <3>1. ~native.told.enabled
      BY <1>1, <2>2, OnStartIs DEF Faithful, LoopTells
    <3>2. ~native.told.leaving
      BY <3>1 DEF Faithful, PhaseTells
    <3> QED BY <2>1, <2>2, <3>1, <3>2
  <2>3. CASE ~on
    <3>1. native.told.enabled /\ ~native.told.leaving
      BY <1>1, <2>3, OnStopIs DEF Faithful, LoopTells
    <3> QED BY <2>1, <2>3, <3>1
  <2> QED BY <2>2, <2>3
<1>6. PICK p : p = Shows(native)
  OBVIOUS
<1>7. Seen = p /\ Seen' = Shows(native')
  BY <1>2, <1>3, <1>6, SeenIs
<1>8. /\ p.turning = TRUE /\ p.target = on /\ p.leaving = FALSE
      /\ p.attached = TRUE
  BY <1>4, <1>5, <1>6 DEF Shows
<1>9. Shows(native') = [p EXCEPT !.enabled = on, !.turning = FALSE,
                                 !.phase = IF on THEN p.phase ELSE "Idle"]
  <2>1. PICK q : q = Shows(native')
    OBVIOUS
  <2>2. Sight(p) /\ Sight(q) /\ Alters(p, q, {"enabled", "turning", "phase"})
    BY <1>6, <1>3, <1>4, <2>1, ShownAlike DEF Keeps, Alters
  <2>3. q.enabled = on /\ q.turning = FALSE
       /\ q.phase = IF on THEN p.phase ELSE "Idle"
    BY <1>6, <1>3, <1>4, <2>1, SightIs
  <2> QED BY <2>1, <2>2, <2>3, AltersIs
<1>10. Native!NativePosts([p EXCEPT !.enabled = on, !.turning = FALSE,
                                    !.phase = IF on THEN p.phase ELSE "Idle"],
                          Enablement(on))
  BY <1>4, <1>7, <1>8, <1>9, PostsBy
<1>11. Native!Enablement(on) = Enablement(on)
  BY PostingIs
<1>12. Native!Turns(on)
  BY <1>7, <1>8, <1>10, <1>11 DEF Native!Turns, Seen
<1> QED BY <1>12 DEF Native!Posts

LEMMA ScanDoneSeen ==
  ASSUME Built(native), Built(native'), Faithful(native), OnScanDone
  PROVE  Native!Posts
<1>1. native.attached
  BY DEF OnScanDone, Delivered
<1>2. native'.attached
  BY <1>1, OnScanDoneIs DEF Keeps
<1>3. PICK p : p = Shows(native)
  OBVIOUS
<1>4. Seen = p /\ Seen' = Shows(native') /\ p.attached = TRUE
  BY <1>1, <1>2, <1>3, SeenIs DEF Shows
<1>5. CASE /\ native.told.phase = "Selecting" /\ ~native.told.leaving
           /\ Keeps(native, native', {"loop", "selecting", "candidates",
                                      "selected", "prepared", "phase"})
           /\ native'.told.phase = "Prepared"
           /\ mail' = post(mail, Event("Prepared", NoNetwork, "Ok"))
  <2>1. Shows(native') = [p EXCEPT !.phase = "Prepared"]
    <3>1. PICK q : q = Shows(native')
      OBVIOUS
    <3>2. Sight(p) /\ Sight(q) /\ Alters(p, q, {"phase"})
      BY <1>3, <1>5, <3>1, ShownAlike DEF Keeps, Alters
    <3>3. q.phase = "Prepared"
      BY <1>3, <1>5, <3>1, SightIs
    <3> QED BY <3>1, <3>2, <3>3, AltersIs
  <2>2. p.phase = "Selecting" /\ ~p.leaving
    BY <1>3, <1>5 DEF Shows
  <2>3. Native!NativePosts([p EXCEPT !.phase = "Prepared"],
                           Event("Prepared", NoNetwork, "Ok"))
    BY <1>4, <1>5, <2>1, PostsBy
  <2>4. Native!Event("Prepared", NoNetwork, "Ok")
          = Event("Prepared", NoNetwork, "Ok")
    BY PostingIs
  <2>5. Native!Prepares
    BY <1>4, <2>2, <2>3, <2>4 DEF Native!Prepares, Seen
  <2> QED BY <2>5 DEF Native!Posts
<1>6. CASE /\ native.told.phase = "Selecting"
           /\ Keeps(native, native', {"loop", "selecting", "cancelled",
                                      "candidates", "secret", "phase",
                                      "leaving"})
           /\ native'.told.phase = "Idle" /\ native'.told.leaving = FALSE
           /\ mail' = post(mail, Event("Disconnected", native.config,
                                       "ConnectionFailed"))
  <2>1. Shows(native') = [p EXCEPT !.phase = "Idle", !.leaving = FALSE]
    <3>1. PICK q : q = Shows(native')
      OBVIOUS
    <3>2. Sight(p) /\ Sight(q) /\ Alters(p, q, {"phase", "leaving"})
      BY <1>3, <1>6, <3>1, ShownAlike DEF Keeps, Alters
    <3>3. q.phase = "Idle" /\ q.leaving = FALSE
      BY <1>3, <1>6, <3>1, SightIs
    <3> QED BY <3>1, <3>2, <3>3, AltersIs
  <2>2. p.phase = "Selecting" /\ p.ssid = native.config
    BY <1>3, <1>6 DEF Shows
  <2> QED BY <1>4, <1>6, <2>1, <2>2, EndsBy
<1>7. ASSUME NEW status \in {"Ok", "ConnectionFailed"},
             native.scan_active, native.call.kind # "scan",
             Keeps(native, native', {"loop", "scan_active", "cancelled"}),
             native'.scan_active = FALSE,
             mail' = post(mail, Event("ScanDone", NoNetwork, status))
      PROVE  Native!Posts
  <2>1. Shows(native') = [p EXCEPT !.scanning = FALSE]
    <3>1. PICK q : q = Shows(native')
      OBVIOUS
    <3>2. Sight(p) /\ Sight(q) /\ Alters(p, q, {"scanning"})
      BY <1>3, <1>7, <3>1, ShownAlike DEF Keeps, Alters
    <3>3. q.scanning = FALSE
      BY <1>3, <1>7, <3>1, SightIs
    <3> QED BY <3>1, <3>2, <3>3, AltersIs
  <2>2. p.scanning
    BY <1>3, <1>7 DEF Shows
  <2>3. Native!NativePosts([p EXCEPT !.scanning = FALSE],
                           Event("ScanDone", NoNetwork, status))
    BY <1>4, <1>7, <2>1, PostsBy
  <2>4. Native!Event("ScanDone", NoNetwork, status)
          = Event("ScanDone", NoNetwork, status)
    BY PostingIs
  <2>5. Native!ScanEnds(status)
    BY <1>4, <2>2, <2>3, <2>4 DEF Native!ScanEnds, Seen
  <2> QED BY <1>7, <2>5 DEF Native!Posts
<1> QED BY <1>5, <1>6, <1>7, OnScanDoneIs

LEMMA OnConnectedSeen ==
  ASSUME Built(native), Built(native'), Faithful(native), OnConnected
  PROVE  Native!Posts \/ Seen' = Seen
<1>1. native.attached
  BY DEF OnConnected, Delivered
<1>2. native'.attached
  BY <1>1, OnConnectedIs DEF Keeps
<1>3. PICK p : p = Shows(native)
  OBVIOUS
<1>4. Seen = p /\ Seen' = Shows(native') /\ p.attached = TRUE
  BY <1>1, <1>2, <1>3, SeenIs DEF Shows
<1>5. /\ native.told.phase = "Joining"
      /\ NetworkOf[Current.ap] = native.config
  BY OnConnectedIs
<1>6. CASE /\ Keeps(native, native', {"loop", "phase"})
           /\ native'.told.phase = "Associated"
           /\ mail' = post(mail, Event("Associated", NetworkOf[Current.ap],
                                       "Ok"))
  <2>1. Shows(native') = [p EXCEPT !.phase = "Associated"]
    <3>1. PICK q : q = Shows(native')
      OBVIOUS
    <3>2. Sight(p) /\ Sight(q) /\ Alters(p, q, {"phase"})
      BY <1>3, <1>6, <3>1, ShownAlike DEF Keeps, Alters
    <3>3. q.phase = "Associated"
      BY <1>3, <1>6, <3>1, SightIs
    <3> QED BY <3>1, <3>2, <3>3, AltersIs
  <2>2. p.phase = "Joining" /\ p.ssid = native.config
    BY <1>3, <1>5 DEF Shows
  <2>3. Native!NativePosts([p EXCEPT !.phase = "Associated"],
                           Event("Associated", p.ssid, "Ok"))
    BY <1>4, <1>5, <1>6, <2>1, <2>2, PostsBy
  <2>4. Native!Event("Associated", p.ssid, "Ok")
          = Event("Associated", p.ssid, "Ok")
    BY PostingIs
  <2>5. Native!Associates
    BY <1>4, <2>2, <2>3, <2>4 DEF Native!Associates, Seen
  <2> QED BY <2>5 DEF Native!Posts
<1>7. CASE Keeps(native, native', {"loop", "rejected", "link", "ap"})
  <2>1. Shows(native') = Shows(native)
    BY <1>7 DEF Keeps, Shows
  <2> QED BY <1>3, <1>4, <2>1
<1> QED BY <1>6, <1>7, OnConnectedIs

LEMMA OnDisconnectedSeen ==
  ASSUME Built(native), Built(native'), Faithful(native), OnDisconnected
  PROVE  Native!Posts
<1>1. native.attached
  BY DEF OnDisconnected, Delivered
<1>2. /\ native.told.phase \in Linked /\ NetworkOf[Current.ap] = native.config
      /\ Keeps(native, native', {"loop", "attempt", "candidates",
                                 "rejected", "phase", "leaving"})
      /\ native'.told.phase = "Idle" /\ native'.told.leaving = FALSE
      /\ mail' = post(mail, Event("Disconnected", NetworkOf[Current.ap],
                                  "ConnectionFailed"))
  BY OnDisconnectedIs
<1>3. native'.attached
  BY <1>1, <1>2 DEF Keeps
<1>4. PICK p : p = Shows(native)
  OBVIOUS
<1>5. Seen = p /\ Seen' = Shows(native') /\ p.attached = TRUE
  BY <1>1, <1>3, <1>4, SeenIs DEF Shows
<1>6. Shows(native') = [p EXCEPT !.phase = "Idle", !.leaving = FALSE]
  <2>1. PICK q : q = Shows(native')
    OBVIOUS
  <2>2. Sight(p) /\ Sight(q) /\ Alters(p, q, {"phase", "leaving"})
    BY <1>4, <1>2, <2>1, ShownAlike DEF Keeps, Alters
  <2>3. q.phase = "Idle" /\ q.leaving = FALSE
    BY <1>4, <1>2, <2>1, SightIs
  <2> QED BY <2>1, <2>2, <2>3, AltersIs
<1>7. p.phase \notin {"Idle", "Prepared"} /\ p.ssid = native.config
  BY <1>2, <1>4 DEF Shows, Linked
<1> QED BY <1>2, <1>5, <1>6, <1>7, EndsBy

LEMMA OnGotIpSeen ==
  ASSUME Built(native), Built(native'), Faithful(native), OnGotIp
  PROVE  Native!Posts \/ Seen' = Seen
<1>1. native.attached
  BY DEF OnGotIp, Delivered
<1>2. native'.attached
  BY <1>1, OnGotIpIs DEF Keeps
<1>3. PICK p : p = Shows(native)
  OBVIOUS
<1>4. Seen = p /\ Seen' = Shows(native') /\ p.attached = TRUE
  BY <1>1, <1>2, <1>3, SeenIs DEF Shows
<1>5. CASE /\ native.told.phase \in Linked
           /\ NetworkOf[native.idf.ap] = native.config
           /\ Keeps(native, native', {"loop", "attempt", "candidates", "phase"})
           /\ native'.told.phase = IF native.told.phase = "Associated"
                                   THEN "AddressReady" ELSE native.told.phase
           /\ mail' = post(mail, Event("AddressReady",
                                       NetworkOf[native.idf.ap], "Ok"))
  <2>1. p.phase = native.told.phase /\ p.ssid = native.config
    BY <1>3 DEF Shows
  <2>2. native'.told.phase = IF p.phase = "Joining" THEN p.phase
                                                    ELSE "AddressReady"
    BY <1>5, <2>1 DEF Linked
  <2>3. Shows(native') = [p EXCEPT !.phase = IF p.phase = "Joining"
                                             THEN p.phase ELSE "AddressReady"]
    <3>1. PICK q : q = Shows(native')
      OBVIOUS
    <3>2. Sight(p) /\ Sight(q) /\ Alters(p, q, {"phase"})
      BY <1>3, <1>5, <2>2, <3>1, ShownAlike DEF Keeps, Alters
    <3>3. q.phase = IF p.phase = "Joining" THEN p.phase ELSE "AddressReady"
      BY <1>3, <1>5, <2>2, <3>1, SightIs
    <3> QED BY <3>1, <3>2, <3>3, AltersIs
  <2>4. Native!NativePosts([p EXCEPT !.phase = IF p.phase = "Joining"
                                               THEN p.phase ELSE "AddressReady"],
                           Event("AddressReady", p.ssid, "Ok"))
    BY <1>4, <1>5, <2>1, <2>3, PostsBy
  <2>5. Native!Event("AddressReady", p.ssid, "Ok")
          = Event("AddressReady", p.ssid, "Ok")
    BY PostingIs
  <2>6. Native!GetsAddress
    BY <1>4, <1>5, <2>1, <2>4, <2>5 DEF Native!GetsAddress, Seen, Linked
  <2> QED BY <2>6 DEF Native!Posts
<1>6. CASE Keeps(native, native', {"loop"})
  <2>1. Shows(native') = Shows(native)
    BY <1>6 DEF Keeps, Shows
  <2> QED BY <1>3, <1>4, <2>1
<1> QED BY <1>5, <1>6, OnGotIpIs

LEMMA OnLostIpSeen ==
  ASSUME Built(native), Built(native'), Faithful(native), OnLostIp
  PROVE  Native!Posts \/ Seen' = Seen
<1>1. native.attached
  BY DEF OnLostIp, Delivered
<1>2. native'.attached
  BY <1>1, OnLostIpIs DEF Keeps
<1>3. PICK p : p = Shows(native)
  OBVIOUS
<1>4. Seen = p /\ Seen' = Shows(native') /\ p.attached = TRUE
  BY <1>1, <1>2, <1>3, SeenIs DEF Shows
<1>5. CASE /\ Keeps(native, native', {"loop", "phase"})
           /\ native'.told.phase = IF native.told.phase = "AddressReady"
                                   THEN "Associated" ELSE native.told.phase
           /\ mail' = post(mail, Event("AddressLost", NoNetwork, "Ok"))
  <2>1. p.phase = native.told.phase
    BY <1>3 DEF Shows
  <2>2. Shows(native') = [p EXCEPT !.phase = IF p.phase = "AddressReady"
                                             THEN "Associated" ELSE p.phase]
    <3>1. PICK q : q = Shows(native')
      OBVIOUS
    <3>2. Sight(p) /\ Sight(q) /\ Alters(p, q, {"phase"})
      BY <1>3, <1>5, <2>1, <3>1, ShownAlike DEF Keeps, Alters
    <3>3. q.phase = IF p.phase = "AddressReady" THEN "Associated" ELSE p.phase
      BY <1>3, <1>5, <2>1, <3>1, SightIs
    <3> QED BY <3>1, <3>2, <3>3, AltersIs
  <2>3. Native!NativePosts([p EXCEPT !.phase = IF p.phase = "AddressReady"
                                               THEN "Associated" ELSE p.phase],
                           Event("AddressLost", NoNetwork, "Ok"))
    BY <1>4, <1>5, <2>2, PostsBy
  <2>4. Native!Event("AddressLost", NoNetwork, "Ok")
          = Event("AddressLost", NoNetwork, "Ok")
    BY PostingIs
  <2>5. Native!LosesAddress
    BY <1>4, <2>3, <2>4 DEF Native!LosesAddress, Seen
  <2> QED BY <2>5 DEF Native!Posts
<1>6. CASE Keeps(native, native', {"loop"})
  <2>1. Shows(native') = Shows(native)
    BY <1>6 DEF Keeps, Shows
  <2> QED BY <1>3, <1>4, <2>1
<1> QED BY <1>5, <1>6, OnLostIpIs

-----------------------------------------------------------------------------
(* What the contract calls a command *)

LEMMA CommandedBy ==
  ASSUME NEW p, p = Seen, NEW o, Seen' = o.native, Native!Arrived(o.posts),
         \/ o \in {Native!Answer("Ok", Native!Attached),
                   Native!Answer("Ok", Native!NewNative)}
         \/ o \in Native!Scans(p)
         \/ \E enabled \in BOOLEAN : o \in Native!Enables(p, enabled)
         \/ \E network \in Networks, secret \in Ssid :
              o \in Native!Connects(p, network, secret)
         \/ o \in Native!ContinuesConnect(p)
         \/ o \in Native!Disconnects(p)
  PROVE  Native!Commanded
<1>1. Native!Ssid = Ssid
  BY DEF Native!Ssid, Ssid
<1> QED BY <1>1 DEF Native!Commanded, Seen

LEMMA Silent ==
  ASSUME NEW status, NEW n
  PROVE  /\ Native!Answer(status, n).native = n
         /\ Native!Arrived(Native!Answer(status, n).posts)
BY DEF Native!Answer, Native!Arrived

LEMMA BeginsBy ==
  ASSUME Seen' \in {Native!Attached, Native!NewNative}
  PROVE  Native!Commanded
<1>1. PICK n : n = Seen'
  OBVIOUS
<1>2. PICK o : o = Native!Answer("Ok", n)
  OBVIOUS
<1>3. o.native = n /\ Native!Arrived(o.posts)
  BY <1>2, Silent
<1>4. o \in {Native!Answer("Ok", Native!Attached),
             Native!Answer("Ok", Native!NewNative)}
  BY <1>1, <1>2
<1> QED BY <1>1, <1>3, <1>4, CommandedBy

LEMMA EnablesBy ==
  ASSUME NEW p, p = Seen, NEW enabled \in BOOLEAN, p.enabled # enabled,
         Seen' = [p EXCEPT !.turning = TRUE, !.target = enabled]
  PROVE  Native!Commanded
<1>1. PICK n : n = [p EXCEPT !.turning = TRUE, !.target = enabled]
  OBVIOUS
<1>2. PICK o : o = Native!Answer("Ok", n)
  OBVIOUS
<1>3. o.native = n /\ Native!Arrived(o.posts)
  BY <1>2, Silent
<1>4. o \in Native!Enables(p, enabled)
  BY <1>1, <1>2 DEF Native!Enables
<1> QED BY <1>1, <1>3, <1>4, CommandedBy

LEMMA ScansBy ==
  ASSUME NEW p, p = Seen, p.scanning = FALSE,
         Seen' = [p EXCEPT !.scanning = TRUE]
  PROVE  Native!Commanded
<1>1. PICK n : n = [p EXCEPT !.scanning = TRUE]
  OBVIOUS
<1>2. PICK o : o = Native!Answer("Ok", n)
  OBVIOUS
<1>3. o.native = n /\ Native!Arrived(o.posts)
  BY <1>2, Silent
<1>4. o \in Native!Scans(p)
  BY <1>1, <1>2 DEF Native!Scans
<1> QED BY <1>1, <1>3, <1>4, CommandedBy

(* connect() fails, or is going to select, or is prepared at once. *)
LEMMA ConnectsBy ==
  ASSUME NEW p, p = Seen, p.enabled = TRUE, p.phase = "Idle",
         NEW network \in Networks, NEW secret \in Ssid,
         NEW asked, asked = [p EXCEPT !.ssid = network, !.secret = secret],
         \/ Seen' = asked
         \/ Seen' = [asked EXCEPT !.phase = "Selecting"]
         \/ /\ Seen' = [asked EXCEPT !.phase = "Prepared"]
            /\ Native!Arrived(<<Event("Prepared", NoNetwork, "Ok")>>)
  PROVE  Native!Commanded
<1>1. CASE Seen' = asked
  <2>1. PICK o : o = Native!Answer("ConnectionFailed", asked)
    OBVIOUS
  <2>2. o.native = asked /\ Native!Arrived(o.posts)
    BY <2>1, Silent
  <2>3. o \in Native!Connects(p, network, secret)
    BY <2>1 DEF Native!Connects, Native!Failures
  <2> QED BY <1>1, <2>2, <2>3, CommandedBy
<1>2. CASE Seen' = [asked EXCEPT !.phase = "Selecting"]
  <2>1. PICK n : n = [asked EXCEPT !.phase = "Selecting"]
    OBVIOUS
  <2>2. PICK o : o = Native!Answer("Ok", n)
    OBVIOUS
  <2>3. o.native = n /\ Native!Arrived(o.posts)
    BY <2>2, Silent
  <2>4. o \in Native!Connects(p, network, secret)
    BY <2>1, <2>2 DEF Native!Connects
  <2> QED BY <1>2, <2>1, <2>3, <2>4, CommandedBy
<1>3. CASE /\ Seen' = [asked EXCEPT !.phase = "Prepared"]
           /\ Native!Arrived(<<Event("Prepared", NoNetwork, "Ok")>>)
  <2>1. PICK n : n = [asked EXCEPT !.phase = "Prepared"]
    OBVIOUS
  <2>2. PICK e : e = Event("Prepared", NoNetwork, "Ok")
    OBVIOUS
  <2>3. e = Native!Event("Prepared", NoNetwork, "Ok")
    BY <2>2, PostingIs
  <2>4. PICK o : o = Native!AnswerPosting("Ok", n, e)
    OBVIOUS
  <2>5. o.native = n /\ o.posts = <<e>>
    BY <2>4 DEF Native!AnswerPosting
  <2>6. o \in Native!Connects(p, network, secret)
    BY <2>1, <2>3, <2>4 DEF Native!Connects
  <2> QED BY <1>3, <2>1, <2>2, <2>5, <2>6, CommandedBy
<1> QED BY <1>1, <1>2, <1>3

LEMMA ContinuesBy ==
  ASSUME NEW p, p = Seen, p.phase = "Prepared",
         NEW phase \in {"Idle", "Joining"},
         Seen' = [p EXCEPT !.phase = phase]
  PROVE  Native!Commanded
<1>1. PICK n : n = [p EXCEPT !.phase = phase]
  OBVIOUS
<1>2. PICK o : o = Native!Answer(IF phase = "Idle" THEN "ConnectionFailed"
                                 ELSE "Ok", n)
  OBVIOUS
<1>3. o.native = n /\ Native!Arrived(o.posts)
  BY <1>2, Silent
<1>4. o \in Native!ContinuesConnect(p)
  BY <1>1, <1>2 DEF Native!ContinuesConnect, Native!Failures
<1> QED BY <1>1, <1>3, <1>4, CommandedBy

LEMMA DisconnectsBy ==
  ASSUME NEW p, p = Seen,
         \/ p.phase = "Prepared" /\ Seen' = [p EXCEPT !.phase = "Idle"]
         \/ /\ p.phase \notin {"Idle", "Prepared"}
            /\ Seen' = [p EXCEPT !.leaving = TRUE]
  PROVE  Native!Commanded
<1>1. PICK o : o = IF p.phase = "Prepared"
                   THEN Native!Answer("NotFound", [p EXCEPT !.phase = "Idle"])
                   ELSE Native!Answer("Ok", [p EXCEPT !.leaving = TRUE])
  OBVIOUS
<1>2. o.native = Seen' /\ Native!Arrived(o.posts)
  BY <1>1, Silent
<1>3. o \in Native!Disconnects(p)
  BY <1>1 DEF Native!Disconnects
<1> QED BY <1>2, <1>3, CommandedBy

-----------------------------------------------------------------------------
(* The commands, as the contract sees them *)

LEMMA SeenAlike ==
  ASSUME Built(native), Built(native'), native'.attached = native.attached,
         native.attached => Shows(native') = Shows(native)
  PROVE  Seen' = Seen
BY SeenIs DEF Detached

LEMMA BeginSeen ==
  ASSUME Built(native), Built(native'), Begin(AttachedStation)
  PROVE  Native!Commanded
<1>1. native' = AttachedStation
  BY DEF Begin
<1>2. PICK n : n = native'
  OBVIOUS
<1>3. /\ n.attached = TRUE /\ n.told.enabled = FALSE /\ n.idf.on = FALSE
      /\ n.scan_active = FALSE /\ n.told.phase = "Idle"
      /\ n.told.leaving = FALSE /\ n.config = NoNetwork
  BY <1>1, <1>2 DEF AttachedStation, NewStation, StoppedIdf
<1>4. PICK q : q = Shows(n)
  OBVIOUS
<1>5. Sight(q) /\ q.attached = TRUE /\ q.enabled = FALSE /\ q.target = FALSE
      /\ q.phase = "Idle" /\ q.leaving = FALSE
      /\ q.ssid = NoNetwork /\ q.secret = NoNetwork
  BY <1>3, <1>4, SightIs
<1>6. q.turning = FALSE
  <2>1. q.turning = (n.told.enabled # n.idf.on)
    BY <1>4, SightIs
  <2> QED BY <1>3, <2>1
<1>7. q.scanning = FALSE
  <2>1. q.scanning = (n.scan_active /\ n.call.kind # "scan")
    BY <1>4, SightIs
  <2> QED BY <1>3, <2>1
<1>8. q = Native!Attached
  <2>1. Native!Attached = [attached |-> TRUE, enabled |-> FALSE,
          turning |-> FALSE, target |-> FALSE, scanning |-> FALSE,
          phase |-> "Idle", leaving |-> FALSE, ssid |-> NoNetwork,
          secret |-> NoNetwork]
    <3>1. PICK m : m = Native!NewNative
      OBVIOUS
    <3>2. m = [attached |-> FALSE, enabled |-> FALSE, turning |-> FALSE,
               target |-> FALSE, scanning |-> FALSE, phase |-> "Idle",
               leaving |-> FALSE, ssid |-> NoNetwork, secret |-> NoNetwork]
      BY <3>1 DEF Native!NewNative
    <3>3. Native!Attached = [m EXCEPT !.attached = TRUE]
      BY <3>1 DEF Native!Attached
    <3> QED BY <3>2, <3>3
  <2>2. q = [attached |-> TRUE, enabled |-> FALSE,
          turning |-> FALSE, target |-> FALSE, scanning |-> FALSE,
          phase |-> "Idle", leaving |-> FALSE, ssid |-> NoNetwork,
          secret |-> NoNetwork]
    BY <1>5, <1>6, <1>7 DEF Sight
  <2> QED BY <2>1, <2>2
<1>9. Seen' = q
  BY <1>2, <1>3, <1>4, SeenIs
<1> QED BY <1>8, <1>9, BeginsBy

LEMMA ShutdownSeen ==
  ASSUME Built(native), Built(native'), Shutdown(detach(native))
  PROVE  Native!Commanded
<1>1. PICK l : l = Leaves(native)
  OBVIOUS
<1>2. l \in Stations
  BY <1>1, LeavesBuilt DEF Built
<1>3. native' = detach(native)
  BY DEF Shutdown
<1>4. native'.attached = FALSE
  BY <1>1, <1>2, <1>3 DEF detach, Stations
<1>5. Detached = Native!NewNative
  BY DEF Detached, Native!NewNative
<1> QED BY <1>4, <1>5, SeenIs, BeginsBy

LEMMA EnableSeen ==
  ASSUME Paired, Built(native'), native.call = NoCall, NEW enabled \in BOOLEAN,
         SetEnabled(enabled, enable(native, enabled))
  PROVE  Native!Commanded \/ Seen' = Seen
<1>1. stationAdmission = "Ok" /\ client.next # 0
  BY PairedIs DEF SetEnabled, Inv
<1>2. /\ native.attached /\ Faithful(native) /\ Built(native)
      /\ ~native.prepared /\ ~native.selecting /\ ~native.told.leaving
      /\ ~Due(native, "Start") /\ ~Due(native, "Stop")
  BY <1>1, IdleIs, PairedIs
<1>3. PICK o \in enable(native, enabled) : native' = o.native
  BY DEF SetEnabled
<1>4. /\ Keeps(native, native', {"candidates", "attempt", "on", "scanning",
                                 "link", "ap", "loop"})
      /\ \/ Keeps(native, native', {"candidates", "attempt"})
         \/ native.idf.on = ~enabled /\ native'.idf.on = enabled
  BY <1>2, <1>3, EnableIs
<1>5. native'.attached = native.attached
  BY <1>4 DEF Keeps
<1>6. CASE Keeps(native, native', {"candidates", "attempt"})
  <2>1. Shows(native') = Shows(native)
    BY <1>6 DEF Keeps, Shows
  <2> QED BY <1>2, <1>5, <2>1, SeenAlike
<1>7. CASE native.idf.on = ~enabled /\ native'.idf.on = enabled
  <2>1. PICK p : p = Shows(native)
    OBVIOUS
  <2>2. PICK q : q = Shows(native')
    OBVIOUS
  <2>3. Seen = p /\ Seen' = q
    BY <1>2, <1>5, <2>1, <2>2, SeenIs
  <2>4. native.told.enabled = ~enabled /\ native'.told.enabled = ~enabled
    <3>1. native.told.enabled = native.idf.on
      BY <1>2 DEF Faithful, LoopTells
    <3>2. native'.told.enabled = native.told.enabled
      BY <1>4 DEF Keeps
    <3> QED BY <1>7, <3>1, <3>2
  <2>5. Sight(p) /\ Sight(q) /\ Alters(p, q, {"turning", "target"})
    BY <1>4, <2>1, <2>2, ShownAlike DEF Keeps, Alters
  <2>6. q.turning = TRUE /\ q.target = enabled /\ p.enabled = ~enabled
    <3>1. q.turning = (native'.told.enabled # native'.idf.on)
      BY <2>2, SightIs
    <3>2. native'.told.enabled # native'.idf.on
      BY <1>7, <2>4
    <3>3. q.turning = TRUE
      BY <3>1, <3>2
    <3> QED BY <1>7, <2>1, <2>2, <2>4, <3>3, SightIs
  <2>7. q = [p EXCEPT !.turning = TRUE, !.target = enabled]
    BY <2>5, <2>6, AltersIs
  <2> QED BY <2>3, <2>6, <2>7, EnablesBy
<1> QED BY <1>4, <1>6, <1>7

LEMMA ScanSeen ==
  ASSUME Paired, Built(native'), native.call = NoCall, native.attached,
         NEW o \in scan(native), native' = o.native
  PROVE  Seen' = Seen
<1>1. Built(native) /\ Faithful(native)
  BY PairedIs
<1>2. \/ native' = native
      \/ /\ Keeps(native, native', {"scan_active", "cancelled", "call"})
         /\ ~native.scan_active /\ native'.call.kind = "scan"
  BY <1>1, ScanIs
<1>3. CASE native' = native
  BY <1>3 DEF Seen, View, Detached
<1>4. CASE /\ Keeps(native, native', {"scan_active", "cancelled", "call"})
           /\ ~native.scan_active /\ native'.call.kind = "scan"
  <2>1. native'.attached = native.attached
    BY <1>4 DEF Keeps
  <2>2. Shows(native') = Shows(native)
    BY <1>4 DEF Keeps, Shows
  <2> QED BY <1>1, <2>1, <2>2, SeenAlike
<1> QED BY <1>2, <1>3, <1>4

LEMMA StopScanSeen ==
  ASSUME Paired, Built(native'), native.attached,
         NEW o \in stopScan(native), native' = o.native
  PROVE  Seen' = Seen
<1>1. Built(native) /\ Faithful(native)
  BY PairedIs
<1>2. Keeps(native, native', {"cancelled", "scanning", "loop"})
  BY <1>1, StopScanIs
<1>3. native'.attached = native.attached /\ Shows(native') = Shows(native)
  BY <1>2 DEF Keeps, Shows
<1> QED BY <1>1, <1>3, SeenAlike

LEMMA DisconnectSeen ==
  ASSUME Paired, Built(native'), native.call = NoCall, native.attached,
         ~Due(native, "Stop"), NEW o \in disconnect(native), native' = o.native
  PROVE  Native!Commanded \/ Seen' = Seen
<1>1. Built(native) /\ Faithful(native)
  BY PairedIs
<1>2. PICK p : p = Shows(native)
  OBVIOUS
<1>3. PICK q : q = Shows(native')
  OBVIOUS
<1>4. \/ /\ native.prepared /\ native'.told.phase = "Idle"
         /\ Keeps(native, native', {"attempt", "prepared", "secret", "phase"})
      \/ Keeps(native, native', {"attempt", "cancelled"})
      \/ /\ ~native.prepared
         /\ Keeps(native, native', {"attempt", "cancelled", "leaving",
                                    "scanning", "link", "ap", "loop"})
         /\ native'.told.leaving = (native.told.phase # "Idle")
  BY <1>1, DisconnectIs
<1>5. native'.attached = native.attached
  BY <1>4 DEF Keeps
<1>6. Seen = p /\ Seen' = q
  BY <1>1, <1>2, <1>3, <1>5, SeenIs
<1>7. CASE /\ native.prepared /\ native'.told.phase = "Idle"
           /\ Keeps(native, native', {"attempt", "prepared", "secret", "phase"})
  <2>1. native.told.phase = "Prepared"
    BY <1>1, <1>7, PreparedIs
  <2>2. Sight(p) /\ Sight(q) /\ Alters(p, q, {"phase"})
    BY <1>2, <1>3, <1>7, ShownAlike DEF Keeps, Alters
  <2>3. p.phase = "Prepared" /\ q.phase = "Idle"
    <3>1. p.phase = native.told.phase
      BY <1>2, SightIs
    <3>2. q.phase = native'.told.phase
      BY <1>3, SightIs
    <3> QED BY <1>7, <2>1, <3>1, <3>2
  <2>4. q = [p EXCEPT !.phase = "Idle"]
    BY <2>2, <2>3, AltersIs
  <2> QED BY <1>6, <2>3, <2>4, DisconnectsBy
<1>8. CASE Keeps(native, native', {"attempt", "cancelled"})
  <2>1. Shows(native') = Shows(native)
    BY <1>8 DEF Keeps, Shows
  <2> QED BY <1>1, <1>5, <2>1, SeenAlike
<1>9. CASE /\ ~native.prepared
           /\ Keeps(native, native', {"attempt", "cancelled", "leaving",
                                      "scanning", "link", "ap", "loop"})
           /\ native'.told.leaving = (native.told.phase # "Idle")
  <2>1. CASE native.told.phase = "Idle"
    <3>1. native.told.leaving = FALSE /\ native'.told.leaving = FALSE
      BY <1>1, <1>9, <2>1 DEF Faithful, PhaseTells, Built, Stations
    <3>2. Shows(native') = Shows(native)
      BY <1>9, <3>1 DEF Keeps, Shows
    <3> QED BY <1>1, <1>5, <3>2, SeenAlike
  <2>2. CASE native.told.phase # "Idle"
    <3>1. native.call.kind = "None"
      BY DEF NoCall
    <3>2. native.told.phase # "Prepared"
      BY <1>1, <1>9, <3>1 DEF Faithful, PhaseTells
    <3>3. Sight(p) /\ Sight(q) /\ Alters(p, q, {"leaving"})
      BY <1>2, <1>3, <1>9, ShownAlike DEF Keeps, Alters
    <3>4. q.leaving = TRUE /\ p.phase = native.told.phase
      BY <1>2, <1>3, <1>9, <2>2, SightIs
    <3>5. q = [p EXCEPT !.leaving = TRUE]
      BY <3>3, <3>4, AltersIs
    <3> QED BY <1>6, <2>2, <3>2, <3>4, <3>5, DisconnectsBy
  <2> QED BY <2>1, <2>2
<1> QED BY <1>4, <1>7, <1>8, <1>9

LEMMA ReturnsSeen ==
  ASSUME Paired, Built(native'), CallReturns
  PROVE  Native!Commanded \/ Seen' = Seen
<1>1. native.call # NoCall /\ native' = Returned(native)
  BY DEF CallReturns
<1>2. /\ Built(native) /\ Together(adapter, mail, native)
      /\ adapter.attached = native.attached
  BY PairedIs
<1>3. native.attached
  BY <1>1, <1>2 DEF Together, Apiece
<1>4. Faithful(native)
  BY <1>3, PairedIs
<1>5. PICK m : m = native'
  OBVIOUS
<1>6. /\ m.call = NoCall
      /\ \/ native.call.kind = "scan" /\ Keeps(native, m, {"scanning", "call"})
         \/ /\ native.call.kind = "scan"
            /\ Keeps(native, m, {"scan_active", "call"}) /\ ~m.scan_active
         \/ /\ native.call.kind = "select" /\ native.call.answer = "Ok"
            /\ Keeps(native, m, {"scanning", "phase", "call"})
            /\ m.told.phase = "Selecting"
         \/ /\ native.call.kind = "select"
            /\ Keeps(native, m, {"selecting", "secret", "call"})
         \/ /\ native.call.kind = "join" /\ native.call.answer = "Ok"
            /\ Keeps(native, m, {"link", "ap", "phase", "call"})
            /\ m.told.phase = "Joining"
         \/ /\ native.call.kind = "join"
            /\ Keeps(native, m, {"attempt", "candidates", "phase", "call"})
            /\ m.told.phase = "Idle"
  BY <1>1, <1>2, <1>4, <1>5, ReturnedIs
<1>7. m.attached = native.attached /\ m.call.kind = "None"
  BY <1>6 DEF Keeps, NoCall
<1>8. PICK p : p = Shows(native)
  OBVIOUS
<1>9. PICK q : q = Shows(m)
  OBVIOUS
<1>10. Seen = p /\ Seen' = q
  BY <1>2, <1>3, <1>5, <1>7, <1>8, <1>9, SeenIs
<1>11. /\ p.scanning = (native.scan_active /\ native.call.kind # "scan")
       /\ q.scanning = (m.scan_active /\ m.call.kind # "scan")
  BY <1>8, <1>9, SightIs
<1>12. native.scan_active \in BOOLEAN /\ m.scan_active \in BOOLEAN
  BY <1>2, <1>5 DEF Built, Stations
<1>13. CASE native.call.kind = "scan"
            /\ Keeps(native, m, {"scanning", "call"})
  <2>1. native.scan_active /\ m.scan_active
    BY <1>4, <1>13 DEF Faithful, ScanIsOne, Keeps
  <2>2. Sight(p) /\ Sight(q) /\ Alters(p, q, {"scanning"})
    BY <1>8, <1>9, <1>13, ShownAlike DEF Keeps, Alters
  <2>3. p.scanning = FALSE
    BY <1>11, <1>13
  <2>4. q.scanning = TRUE
    BY <1>7, <1>11, <2>1
  <2>5. q = [p EXCEPT !.scanning = TRUE]
    BY <2>2, <2>4, AltersIs
  <2> QED BY <1>10, <2>3, <2>5, ScansBy
<1>14. CASE /\ native.call.kind = "scan"
            /\ Keeps(native, m, {"scan_active", "call"}) /\ ~m.scan_active
  <2>1. Shows(m) = Shows(native)
    BY <1>12, <1>14 DEF Keeps, Shows
  <2> QED BY <1>2, <1>5, <1>7, <2>1, SeenAlike
<1>15. ASSUME native.call.kind # "scan", m.scan_active = native.scan_active
       PROVE  q.scanning = p.scanning
  BY <1>7, <1>11, <1>15
<1>16. CASE /\ native.call.kind = "select" /\ native.call.answer = "Ok"
            /\ Keeps(native, m, {"scanning", "phase", "call"})
            /\ m.told.phase = "Selecting"
  <2>1. /\ native.told.phase = "Idle" /\ native.config \in Networks
        /\ native.told.enabled = TRUE
    <3>1. native.told.phase = "Idle" /\ native.config \in Networks
      BY <1>2, <1>4, <1>16, SelectCallIs
    <3>2. native.told.enabled
      BY <1>4, <1>16 DEF Faithful, PhaseTells, Begins
    <3> QED BY <1>2, <3>1, <3>2 DEF Built, Stations
  <2>2. q.scanning = p.scanning
    BY <1>15, <1>16 DEF Keeps
  <2>3. Sight(p) /\ Sight(q) /\ Alters(p, q, {"ssid", "secret", "phase"})
    BY <1>8, <1>9, <1>16, <2>2, ShownAlike DEF Keeps, Alters
  <2>4. /\ p.enabled = TRUE /\ p.phase = "Idle"
        /\ q.phase = "Selecting"
    <3>1. p.enabled = native.told.enabled /\ p.phase = native.told.phase
      BY <1>8, SightIs
    <3>2. q.phase = m.told.phase
      BY <1>9, SightIs
    <3> QED BY <1>16, <2>1, <3>1, <3>2
  <2>5. q.ssid = native.config /\ q.secret = native.config
    <3>1. q.ssid = m.config /\ q.secret = m.config
      BY <1>9, SightIs
    <3> QED BY <1>16, <3>1 DEF Keeps
  <2>6. PICK asked :
          asked = [p EXCEPT !.ssid = native.config, !.secret = native.config]
    OBVIOUS
  <2>7. q = [asked EXCEPT !.phase = "Selecting"]
    BY <2>3, <2>4, <2>5, <2>6, AltersIs
  <2>8. native.config \in Ssid
    BY <2>1 DEF Ssid
  <2> QED BY <1>10, <2>1, <2>4, <2>6, <2>7, <2>8, ConnectsBy
<1>17. CASE /\ native.call.kind = "select"
            /\ Keeps(native, m, {"selecting", "secret", "call"})
  <2>1. Shows(m) = Shows(native)
    BY <1>7, <1>17 DEF Keeps, Shows
  <2> QED BY <1>2, <1>5, <1>7, <2>1, SeenAlike
<1>18. ASSUME native.call.kind = "join", NEW phase \in {"Idle", "Joining"},
              Keeps(native, m, {"link", "ap", "attempt", "candidates", "phase",
                                "call"}),
              m.told.phase = phase
       PROVE  Native!Commanded
  <2>1. native.told.phase = "Prepared"
    BY <1>2, <1>4, <1>18, JoinCallIs
  <2>2. q.scanning = p.scanning
    BY <1>15, <1>18 DEF Keeps
  <2>3. Sight(p) /\ Sight(q) /\ Alters(p, q, {"phase"})
    BY <1>8, <1>9, <1>18, <2>2, ShownAlike DEF Keeps, Alters
  <2>4. p.phase = "Prepared" /\ q.phase = phase
    <3>1. p.phase = native.told.phase
      BY <1>8, SightIs
    <3>2. q.phase = m.told.phase
      BY <1>9, SightIs
    <3> QED BY <1>18, <2>1, <3>1, <3>2
  <2>5. q = [p EXCEPT !.phase = phase]
    BY <2>3, <2>4, AltersIs
  <2> QED BY <1>10, <2>4, <2>5, ContinuesBy
<1>19. CASE /\ native.call.kind = "join" /\ native.call.answer = "Ok"
            /\ Keeps(native, m, {"link", "ap", "phase", "call"})
            /\ m.told.phase = "Joining"
  <2>1. Keeps(native, m, {"link", "ap", "attempt", "candidates", "phase",
                          "call"})
    BY <1>19 DEF Keeps
  <2> QED BY <1>18, <1>19, <2>1
<1>20. CASE /\ native.call.kind = "join"
            /\ Keeps(native, m, {"attempt", "candidates", "phase", "call"})
            /\ m.told.phase = "Idle"
  <2>1. Keeps(native, m, {"link", "ap", "attempt", "candidates", "phase",
                          "call"})
    BY <1>20 DEF Keeps
  <2> QED BY <1>18, <1>20, <2>1
<1> QED BY <1>6, <1>13, <1>14, <1>16, <1>17, <1>19, <1>20

(* The event of a command is the last in the queue, or lost. *)
LEMMA ArrivedBy ==
  ASSUME Mailed(mail), NEW e, e \in SaneEvents, mail' = post(mail, e)
  PROVE  Native!Arrived(<<e>>)
<1>1. /\ mail.queue \in Seq(SaneEvents) /\ mail.overflow \in BOOLEAN
      /\ mail \in [queue : Seq(SaneEvents), overflow : BOOLEAN, due : BOOLEAN]
  BY DEF Mailed
<1>2. PICK q : q = mail'
  OBVIOUS
<1>3. CASE Len(mail.queue) = Capacity
  <2>1. q = [[mail EXCEPT !.overflow = TRUE] EXCEPT !.due = TRUE]
    BY <1>2, <1>3 DEF post, scheduleNow
  <2>2. q.overflow = TRUE
    BY <1>1, <2>1
  <2> QED BY <1>2, <2>2 DEF Native!Arrived
<1>4. CASE Len(mail.queue) # Capacity
  <2>1. PICK s : s = Append(mail.queue, e)
    OBVIOUS
  <2>2. q = [[mail EXCEPT !.queue = s] EXCEPT !.due = TRUE]
    BY <1>2, <1>4, <2>1 DEF post, scheduleNow
  <2>3. q.queue = s
    BY <1>1, <2>2
  <2>4. s \in Seq(SaneEvents) /\ s # <<>> /\ s[Len(s)] = e
    BY <1>1, <2>1
  <2>5. <<e>>[1] = e
    OBVIOUS
  <2> QED BY <1>2, <2>3, <2>4, <2>5 DEF Native!Arrived
<1> QED BY <1>3, <1>4

LEMMA AskedAlike ==
  ASSUME NEW n, NEW m, NEW p, p = Shows(n), NEW q, q = Shows(m)
  PROVE  /\ Sight(p) /\ Sight(q)
         /\ Keeps(n, m, {"candidates", "rejected", "config", "secret",
                         "selected", "prepared", "phase"}) =>
              Alters(p, q, {"ssid", "secret", "phase"})
         /\ /\ Keeps(n, m, {"candidates", "rejected", "config", "secret",
                            "selecting", "cancelled", "call"})
            /\ q.scanning = p.scanning
            => Alters(p, q, {"ssid", "secret"})
<1>1. ASSUME Keeps(n, m, {"candidates", "rejected", "config", "secret",
                          "selected", "prepared", "phase"})
      PROVE  Alters(p, q, {"ssid", "secret", "phase"})
  BY <1>1, ShownAlike DEF Keeps, Alters
<1>2. ASSUME Keeps(n, m, {"candidates", "rejected", "config", "secret",
                          "selecting", "cancelled", "call"}),
             q.scanning = p.scanning
      PROVE  Alters(p, q, {"ssid", "secret"})
  BY <1>2, ShownAlike DEF Keeps, Alters
<1> QED BY <1>1, <1>2, ShownAlike

LEMMA ConnectSeen ==
  ASSUME Built(native), Built(native'), Faithful(native), native.attached,
         Mailed(mail), native.call = NoCall, native.told.phase = "Idle",
         native.idf.on, ~Due(native, "Start"),
         NEW network \in Networks, NEW secret \in Ssid, secret = network,
         NEW o \in connect(native, network, secret), native' = o.native,
         mail' = Posted(mail, o.posts)
  PROVE  Native!Commanded \/ Seen' = Seen
<1>1. PICK m : m = native'
  OBVIOUS
<1>2. \/ o = Answer("Busy", native)
      \/ /\ o.posts = <<Event("Prepared", NoNetwork, "Ok")>>
         /\ Keeps(native, m, {"candidates", "rejected", "config", "secret",
                              "selected", "prepared", "phase"})
         /\ m.told.phase = "Prepared" /\ m.config = network
      \/ /\ Keeps(native, m, {"candidates", "rejected", "config", "secret",
                              "selecting", "cancelled", "call"})
         /\ m.call.kind = "select" /\ m.config = network
  <2>1. PICK call : call = [kind |-> "select", answer |-> o.answer]
    OBVIOUS
  <2>2. call.kind = "select"
    BY <2>1
  <2>3. \/ o = Answer("Busy", native)
        \/ /\ o.posts = <<Event("Prepared", NoNetwork, "Ok")>>
           /\ Keeps(native, o.native,
                    {"candidates", "rejected", "config", "secret",
                     "selected", "prepared", "phase"})
           /\ o.native.told.phase = "Prepared" /\ o.native.config = network
        \/ /\ Keeps(native, o.native,
                    {"candidates", "rejected", "config", "secret",
                     "selecting", "cancelled", "call"})
           /\ o.native.call = call /\ o.native.config = network
    BY <2>1, ConnectIs
  <2>4. m = o.native
    BY <1>1
  <2> QED BY <2>2, <2>3, <2>4
<1>3. native.call.kind = "None"
  BY DEF NoCall
<1>4. CASE o = Answer("Busy", native)
  <2>1. native' = native
    BY <1>4 DEF Answer
  <2> QED BY <2>1 DEF Seen, View, Detached
<1>5. PICK p : p = Shows(native)
  OBVIOUS
<1>6. PICK q : q = Shows(m)
  OBVIOUS
<1>7. PICK asked : asked = [p EXCEPT !.ssid = network, !.secret = secret]
  OBVIOUS
<1>8. p.enabled = TRUE /\ p.phase = "Idle"
  <2>1. native.told.enabled
    BY NothingLeft
  <2>2. p.enabled = native.told.enabled /\ p.phase = native.told.phase
    BY <1>5, SightIs
  <2>3. native.told.enabled \in BOOLEAN
    BY DEF Built, Stations
  <2> QED BY <2>1, <2>2, <2>3
<1>9. CASE /\ o.posts = <<Event("Prepared", NoNetwork, "Ok")>>
           /\ Keeps(native, m, {"candidates", "rejected", "config", "secret",
                                "selected", "prepared", "phase"})
           /\ m.told.phase = "Prepared" /\ m.config = network
  <2>1. m.attached = native.attached
    BY <1>9 DEF Keeps
  <2>2. Seen = p /\ Seen' = q
    BY <1>1, <1>5, <1>6, <2>1, SeenIs
  <2>3. Sight(p) /\ Sight(q) /\ Alters(p, q, {"ssid", "secret", "phase"})
    BY <1>5, <1>6, <1>9, AskedAlike
  <2>4. q.phase = "Prepared" /\ q.ssid = network /\ q.secret = secret
    BY <1>6, <1>9, SightIs
  <2>5. q = [asked EXCEPT !.phase = "Prepared"]
    BY <1>7, <2>3, <2>4, AltersIs
  <2>6. PICK e : e = Event("Prepared", NoNetwork, "Ok")
    OBVIOUS
  <2>7. e \in SaneEvents
    <3>1. NoNetwork \in Ssid
      BY DEF Ssid
    <3> QED BY <2>6, <3>1, SaneEvent
  <2>8. mail' = post(mail, e)
    <3>1. o.posts # <<>> /\ o.posts[1] = e
      BY <1>9, <2>6
    <3> QED BY <3>1 DEF Posted
  <2>9. Native!Arrived(<<e>>)
    BY <2>7, <2>8, ArrivedBy
  <2> QED BY <1>7, <1>8, <2>2, <2>5, <2>6, <2>9, ConnectsBy
<1>10. CASE /\ Keeps(native, m, {"candidates", "rejected", "config", "secret",
                                 "selecting", "cancelled", "call"})
            /\ m.call.kind = "select" /\ m.config = network
  <2>1. m.attached = native.attached
    BY <1>10 DEF Keeps
  <2>2. Seen = p /\ Seen' = q
    BY <1>1, <1>5, <1>6, <2>1, SeenIs
  <2>3. q.scanning = p.scanning
    <3>1. /\ p.scanning = (native.scan_active /\ native.call.kind # "scan")
          /\ q.scanning = (m.scan_active /\ m.call.kind # "scan")
      BY <1>5, <1>6, SightIs
    <3>2. m.scan_active = native.scan_active
      BY <1>10 DEF Keeps
    <3> QED BY <1>3, <1>10, <3>1, <3>2
  <2>4. Sight(p) /\ Sight(q) /\ Alters(p, q, {"ssid", "secret"})
    BY <1>5, <1>6, <1>10, <2>3, AskedAlike
  <2>5. q.ssid = network /\ q.secret = secret
    BY <1>6, <1>10, SightIs
  <2>6. q = asked
    BY <1>7, <2>4, <2>5, AltersIs
  <2> QED BY <1>7, <1>8, <2>2, <2>6, ConnectsBy
<1> QED BY <1>2, <1>4, <1>9, <1>10

LEMMA ContinueSeen ==
  ASSUME Built(native), Built(native'), Faithful(native), native.attached,
         native.call = NoCall, NEW o \in continueConnect(native),
         native' = o.native
  PROVE  Native!Commanded \/ Seen' = Seen
<1>1. PICK m : m = native'
  OBVIOUS
<1>2. \/ o = Answer("NotFound", native)
      \/ /\ native.prepared /\ m.told.phase = "Idle"
         /\ Keeps(native, m, {"prepared", "phase", "secret"})
      \/ /\ Keeps(native, m, {"prepared", "secret", "attempt", "call"})
         /\ m.call.kind = "join"
  <2>1. PICK call : call = [kind |-> "join", answer |-> o.answer]
    OBVIOUS
  <2>2. call.kind = "join"
    BY <2>1
  <2>3. \/ o = Answer("NotFound", native)
        \/ /\ native.prepared /\ o.native.told.phase = "Idle"
           /\ Keeps(native, o.native, {"prepared", "phase", "secret"})
        \/ /\ Keeps(native, o.native,
                    {"prepared", "secret", "attempt", "call"})
           /\ o.native.call = call
    BY <2>1, ContinueIs
  <2>4. m = o.native
    BY <1>1
  <2> QED BY <2>2, <2>3, <2>4
<1>3. native.call.kind = "None"
  BY DEF NoCall
<1>4. CASE o = Answer("NotFound", native)
  <2>1. native' = native
    BY <1>4 DEF Answer
  <2> QED BY <2>1 DEF Seen, View, Detached
<1>5. CASE /\ native.prepared /\ m.told.phase = "Idle"
           /\ Keeps(native, m, {"prepared", "phase", "secret"})
  <2>1. PICK p : p = Shows(native)
    OBVIOUS
  <2>2. PICK q : q = Shows(m)
    OBVIOUS
  <2>3. m.attached = native.attached
    BY <1>5 DEF Keeps
  <2>4. Seen = p /\ Seen' = q
    BY <1>1, <2>1, <2>2, <2>3, SeenIs
  <2>5. Sight(p) /\ Sight(q) /\ Alters(p, q, {"phase"})
    BY <1>5, <2>1, <2>2, ShownAlike DEF Keeps, Alters
  <2>6. p.phase = "Prepared" /\ q.phase = "Idle"
    <3>1. p.phase = native.told.phase
      BY <2>1, SightIs
    <3>2. q.phase = m.told.phase
      BY <2>2, SightIs
    <3>3. native.told.phase = "Prepared"
      BY <1>5, PreparedIs
    <3> QED BY <1>5, <3>1, <3>2, <3>3
  <2>7. q = [p EXCEPT !.phase = "Idle"]
    BY <2>5, <2>6, AltersIs
  <2> QED BY <2>4, <2>6, <2>7, ContinuesBy
<1>6. CASE /\ Keeps(native, m, {"prepared", "secret", "attempt", "call"})
           /\ m.call.kind = "join"
  <2>1. m.attached = native.attached
    BY <1>6 DEF Keeps
  <2>2. Shows(m) = Shows(native)
    BY <1>3, <1>6 DEF Keeps, Shows
  <2> QED BY <1>1, <2>1, <2>2, SeenAlike
<1> QED BY <1>2, <1>4, <1>5, <1>6

LEMMA DrainEndsSeen ==
  ASSUME Paired, Built(native'), native.call = NoCall,
         DrainEnds(connect(native, adapter.config, adapter.credentials))
  PROVE  Native!Commanded \/ Seen' = Seen
<1>1. CASE native' = native
  BY <1>1 DEF Seen, View, Detached
<1>2. PICK a : a = [adapter EXCEPT !.draining = FALSE]
  OBVIOUS
<1>3. adapter.draining /\ ~mail.overflow
  BY DEF DrainEnds, Iterates
<1>4. /\ adapter.attached /\ native.attached /\ adapter \in Adapters
      /\ Built(native) /\ Faithful(native) /\ Operations(adapter)
      /\ Together(adapter, mail, native)
  BY <1>3, DrainingIs
<1>5. Alike(adapter, a) /\ a.link = adapter.link
  BY <1>2, <1>4 DEF Alike, Adapters
<1>6. Together(a, mail, native) /\ a.station = adapter.station
  BY <1>4, <1>5, AlikeTogether DEF Alike
<1>7. ~a.faulted
  BY <1>3, <1>6 DEF Together
<1>8. Obeys(a, native) /\ Switched(a, mail, native) /\ Follows(a, mail, native)
  BY <1>3, <1>4, <1>6, <1>7 DEF Together
<1>9. a.config = adapter.config /\ a.credentials = adapter.credentials
  BY <1>5 DEF Alike
<1>10. ASSUME Connecting(a), a.link.phase = "Idle", ~a.waiting, ~a.cancelling,
              NEW o \in connect(native, a.config, a.credentials),
              native' = o.native, mail' = Posted(mail, o.posts)
       PROVE  Native!Commanded \/ Seen' = Seen
  <2>1. ~Ongoing(native)
    BY <1>8, <1>10 DEF Follows
  <2>2. native.told.phase = "Idle"
    BY <1>4, <2>1, UnboundIs DEF Ongoing, Early
  <2>3. a.station.kind = "Connect"
    BY <1>10 DEF Connecting
  <2>4. /\ a.enabled /\ a.config \in Networks /\ a.credentials = a.config
        /\ a.enabled = native.idf.on
    BY <1>8, <1>10, <2>3 DEF Switched
  <2>5. ~Due(native, "Start")
    BY <1>8, <2>3 DEF Obeys
  <2>6. a.credentials \in Ssid
    BY <2>4 DEF Ssid
  <2>7. native.idf.on
    BY <2>4
  <2>8. Mailed(mail)
    BY PairedIs
  <2> QED BY <1>4, <1>10, <2>2, <2>4, <2>5, <2>6, <2>7, <2>8, ConnectSeen
<1>11. \/ native' = native
       \/ /\ Connecting(a) /\ a.link.phase = "Idle"
          /\ ~a.waiting /\ ~a.cancelling
          /\ \E o \in connect(native, a.config, a.credentials) :
               native' = o.native /\ mail' = Posted(mail, o.posts)
  BY <1>2, <1>9 DEF DrainEnds
<1> QED BY <1>1, <1>10, <1>11

LEMMA DrainEventSeen ==
  ASSUME Paired, Built(native'), native.call = NoCall,
         DrainEvent(continueConnect(native))
  PROVE  Native!Commanded \/ Seen' = Seen
<1>1. CASE native' = native
  BY <1>1 DEF Seen, View, Detached
<1>2. ASSUME NEW o \in continueConnect(native), native' = o.native
      PROVE  Native!Commanded \/ Seen' = Seen
  <2>1. Takes
    BY DEF DrainEvent, Iterates, Takes
  <2>2. native.attached /\ Built(native) /\ Faithful(native)
    BY <2>1, DrainingIs DEF Takes
  <2> QED BY <1>2, <2>2, ContinueSeen
<1>3. \/ native' = native
      \/ \E o \in continueConnect(native) : native' = o.native
  BY DEF DrainEvent, Answer
<1> QED BY <1>1, <1>2, <1>3

(* A command that tears down a connection, from a call of the API. *)
LEMMA TeardownSeen ==
  ASSUME Paired, Built(native'), native.call = NoCall,
         \/ Disconnect(disconnect(native)) \/ CancelConnect(disconnect(native))
         \/ \E network \in Networks : Connect(network, disconnect(native))
  PROVE  Native!Commanded \/ Seen' = Seen
<1>1. native.attached /\ ~Due(native, "Stop")
  <2>1. CASE CancelConnect(disconnect(native))
    <3>1. Connecting(adapter)
      BY <2>1 DEF CancelConnect
    <3>2. /\ native.attached /\ ~adapter.faulted
          /\ adapter.station.kind = "Connect"
          /\ Together(adapter, mail, native)
      BY <3>1, PairedIs DEF Operations, Connecting
    <3> QED BY <3>2 DEF Together, Obeys
  <2>2. CASE \/ Disconnect(disconnect(native))
             \/ \E network \in Networks : Connect(network, disconnect(native))
    <3>1. stationAdmission = "Ok"
      BY <2>2 DEF Disconnect, Connect
    <3> QED BY <3>1, IdleIs, PairedIs
  <2> QED BY <2>1, <2>2
<1>2. CASE native' = native
  BY <1>2 DEF Seen, View, Detached
<1>3. ASSUME NEW o \in disconnect(native), native' = o.native
      PROVE  Native!Commanded \/ Seen' = Seen
  BY <1>1, <1>3, DisconnectSeen
<1>4. \/ native' = native
      \/ \E o \in disconnect(native) : native' = o.native
  <2>1. CASE Disconnect(disconnect(native))
    BY <2>1 DEF Disconnect, Answer
  <2>2. CASE CancelConnect(disconnect(native))
    BY <2>2 DEF CancelConnect, Answer
  <2>3. CASE \E network \in Networks : Connect(network, disconnect(native))
    BY <2>3 DEF Connect
  <2> QED BY <2>1, <2>2, <2>3
<1> QED BY <1>2, <1>3, <1>4

LEMMA ApiSeen ==
  ASSUME Paired, Built(native'), Api
  PROVE  Native!Commanded \/ Seen' = Seen
<1>1. native.call = NoCall /\ Built(native)
  BY PairedIs DEF Api
<1>2. CASE Begin(AttachedStation)
  BY <1>1, <1>2, BeginSeen
<1>3. CASE Shutdown(detach(native))
  BY <1>1, <1>3, ShutdownSeen
<1>4. ASSUME NEW enabled \in BOOLEAN,
             SetEnabled(enabled, enable(native, enabled))
      PROVE  Native!Commanded \/ Seen' = Seen
  BY <1>1, <1>4, EnableSeen
<1>5. CASE StartScan(scan(native))
  <2>1. stationAdmission = "Ok"
    BY <1>5 DEF StartScan
  <2>2. native.attached
    BY <1>1, <2>1, IdleIs, PairedIs
  <2>3. PICK o \in scan(native) : native' = o.native
    BY <1>5 DEF StartScan
  <2> QED BY <1>1, <2>2, <2>3, ScanSeen
<1>6. CASE CancelScan(stopScan(native))
  <2>1. PICK o \in stopScan(native) : native' = o.native
    BY <1>6 DEF CancelScan
  <2>2. native.attached
    BY <1>6, PairedIs DEF CancelScan, Operations
  <2> QED BY <2>1, <2>2, StopScanSeen
<1>7. CASE \/ Disconnect(disconnect(native))
           \/ CancelConnect(disconnect(native))
           \/ \E network \in Networks : Connect(network, disconnect(native))
  BY <1>1, <1>7, TeardownSeen
<1> QED BY <1>2, <1>3, <1>4, <1>5, <1>6, <1>7 DEF Api

LEMMA DispatchSeen ==
  ASSUME Paired, Built(native'), Dispatch
  PROVE  Native!Commanded \/ Seen' = Seen
<1>1. CASE CallReturns
  BY <1>1, ReturnsSeen
<1>2. CASE /\ native.call = NoCall
           /\ DrainEnds(connect(native, adapter.config, adapter.credentials))
  BY <1>2, DrainEndsSeen
<1>3. CASE native.call = NoCall /\ DrainEvent(continueConnect(native))
  BY <1>3, DrainEventSeen
<1>4. CASE Drain \/ DrainOverflow \/ Deliver
  <2>1. native' = native
    BY <1>4 DEF Drain, DrainOverflow, Deliver
  <2> QED BY <2>1 DEF Seen, View, Detached
<1> QED BY <1>1, <1>2, <1>3, <1>4 DEF Dispatch

LEMMA DriverSeen ==
  ASSUME Paired, Built(native'), Delivers \/ Happens
  PROVE  Native!Posts \/ Seen' = Seen
<1>1. native.attached
  BY DEF Delivers, OnStart, OnStop, OnScanDone, OnConnected, OnDisconnected,
         OnGotIp, OnLostIp, Delivered, Happens, ScanFinishes, Joins, Loses,
         GetsIp, LeaseEnds, LossTimer, Raises
<1>2. Built(native) /\ Faithful(native)
  BY <1>1, PairedIs
<1>3. CASE Happens
  <2>1. Keeps(native, native', {"scanning", "link", "ap", "loop"})
    BY <1>2, <1>3, HappensIs
  <2>2. native'.attached = native.attached /\ Shows(native') = Shows(native)
    BY <2>1 DEF Keeps, Shows
  <2> QED BY <1>2, <2>2, SeenAlike
<1>4. CASE OnStart \/ OnStop
  BY <1>2, <1>4, SwitchSeen
<1>5. CASE OnScanDone
  BY <1>2, <1>5, ScanDoneSeen
<1>6. CASE OnConnected
  BY <1>2, <1>6, OnConnectedSeen
<1>7. CASE OnDisconnected
  BY <1>2, <1>7, OnDisconnectedSeen
<1>8. CASE OnGotIp
  BY <1>2, <1>8, OnGotIpSeen
<1>9. CASE OnLostIp
  BY <1>2, <1>9, OnLostIpSeen
<1> QED BY <1>3, <1>4, <1>5, <1>6, <1>7, <1>8, <1>9 DEF Delivers

LEMMA StepSeen ==
  ASSUME Paired, [Next]_vars
  PROVE  Native!Posts \/ Native!Commanded \/ Seen' = Seen
<1>1. Built(native')
  BY StepKept DEF Paired, BusyInv, Kept
<1>2. CASE Api
  BY <1>1, <1>2, ApiSeen
<1>3. CASE Dispatch
  BY <1>1, <1>3, DispatchSeen
<1>4. CASE EventLoop
  BY <1>1, <1>4, DriverSeen DEF EventLoop
<1>5. CASE Radio
  BY <1>1, <1>5, DriverSeen DEF Radio
<1>6. CASE UNCHANGED vars
  BY <1>6 DEF vars, Seen, View, Detached
<1> QED BY <1>2, <1>3, <1>4, <1>5, <1>6 DEF Next

-----------------------------------------------------------------------------
(* The promises of both *)

(* What selectCandidate() prepares and continueConnect() then joins is an  *)
(* AP of the network the adapter is connecting to, with the credentials    *)
(* that came with it: no candidate of an earlier attempt, no scan that was *)
(* cancelled and no disconnect that is still in the event loop gets in     *)
(* between (esp32/idf_interface.cpp, ordered_interface.cpp).               *)
THEOREM JoinsAreOwn == Spec => []JoinIsOwn
<1>1. Paired => JoinIsOwn
  <2> SUFFICES ASSUME Paired, native.attached, ~adapter.faulted
               PROVE  /\ native.prepared => /\ Connecting(adapter)
                                            /\ native.config = adapter.link.ssid
                                            /\ native.secret = native.config
                      /\ native.prepared \/ native.call.kind = "join" =>
                           NetworkOf[native.selected] = adapter.link.ssid
    BY DEF JoinIsOwn
  <2>1. Faithful(native) /\ Obeys(adapter, native)
    BY PairedIs DEF Together
  <2>2. native.prepared => Chosen(native)
    BY DEF Chosen
  <2>3. native.prepared \/ native.call.kind = "join" =>
          NetworkOf[native.selected] = native.config
    BY <2>1 DEF Faithful, NetworkIsOwn
  <2> QED BY <2>1, <2>2, <2>3 DEF Obeys
<1> QED BY <1>1, PairedInvariant, PTL

(* candidateFailed() counts a disconnect against the AP it is about and    *)
(* against no other, and a teardown the driver asked for itself only when  *)
(* it was to refuse that AP: disconnect() ends the attempt, and nothing    *)
(* else is left in the loop when the next one begins.                      *)
THEOREM TeardownsAreBlameless == Spec => TeardownIsBlameless
<1>1. Paired /\ [Next]_vars => [Blameless]_native
  BY StepBlameless
<1>2. [Blameless]_native
        => [\A i \in DOMAIN native.candidates \cap DOMAIN native'.candidates :
              /\ native'.candidates[i].ap = native.candidates[i].ap
              /\ native'.candidates[i].failures > native.candidates[i].failures
              /\ native'.idf.loop # native.idf.loop
              => /\ Current.ap = native.candidates[i].ap
                 /\ Current.detail = "ASSOC_LEAVE" => native.rejected]_native
  BY DEF Blameless
<1> QED BY <1>1, <1>2, PairedInvariant, PTL DEF Spec, TeardownIsBlameless

(* The ESP32 driver is a NativeStation as OrderedInterface relies on it:   *)
(* whatever order its callbacks, its scans and the windows without the     *)
(* lock come in, it changes only by a command it was given or by an event  *)
(* it posts, and every command it accepts is followed by the events the    *)
(* contract has for it.                                                    *)
THEOREM DriverKeepsContract == Spec => NativeRefined
<1>1. Init => (IF native.attached THEN View ELSE Detached) = Native!NewNative
  <2> SUFFICES ASSUME Init
               PROVE  (IF native.attached THEN View ELSE Detached)
                        = Native!NewNative
    OBVIOUS
  <2>1. native.attached = FALSE
    BY DEF Init, NewStation
  <2> QED BY <2>1 DEF Detached, Native!NewNative
<1>2. Paired /\ [Next]_vars =>
        [Native!Posts \/ Native!Commanded]_(IF native.attached THEN View
                                            ELSE Detached)
  BY StepSeen DEF Seen
<1> QED BY <1>1, <1>2, PairedInvariant, PTL
        DEF Spec, NativeRefined, Native!NativeSpec

==============================================================================
