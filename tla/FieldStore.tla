------------------------------ MODULE FieldStore -----------------------------
(***************************************************************************)
(* roo_wifi::FieldStore: profiles kept as two separately committed fields  *)
(* per SSID, settings under a p- key and the secret under an s- key that   *)
(* are hashes of the SSID, and the last successful SSID in a third.        *)
(*                                                                         *)
(* saveProfile() and removeProfile() run on one thread and change one      *)
(* field at a time; a step is one such change with the reads before it, so *)
(* that power can fail between any two.  The medium is external: it        *)
(* commits a field atomically, but a write or erase it reports as failed   *)
(* may have happened, and a read may fail.                                 *)
(*                                                                         *)
(* goal is history: the profile before the latest operation and the one    *)
(* that operation is to leave.  Settings other than the security, static   *)
(* addresses included, are one mark.  Definitions named Slip... are        *)
(* mistakes someone could make; no specification uses them.                *)
(***************************************************************************)
EXTENDS Configuration, Naturals

CONSTANTS
  Networks,    \* the SSIDs
  NoNetwork,   \* the empty SSID
  Hashes,      \* what the SSIDs hash to
  Key,         \* the hash of each SSID
  Securities,  \* the AuthModes that are saved
  Marks,       \* the settings besides the security
  Failing,     \* whether the medium may fail
  Damaged      \* whether fields may be found corrupt

ASSUME FieldAssumption ==
  /\ NoNetwork \notin Networks
  /\ Key \in [Networks -> Hashes]
  /\ Securities \subseteq AuthMode
  /\ Failing \in BOOLEAN
  /\ Damaged \in BOOLEAN

VARIABLES
  fields,  \* the persisted fields
  op,      \* the operation in progress
  goal     \* history: what the latest operation found and was to leave

vars == <<fields, op, goal>>

-----------------------------------------------------------------------------
(* Fields *)

Form == {"absent", "valid", "corrupt"}

NoSettings == [form |-> "absent", ssid |-> NoNetwork, security |-> "Open",
               mark |-> 0]

NoSecret == [form |-> "absent", ssid |-> NoNetwork, secret |-> "none"]

NoLast == [form |-> "absent", ssid |-> NoNetwork]

Settings(ssid, security, mark) ==
  [form |-> "valid", ssid |-> ssid, security |-> security, mark |-> mark]

Secret(ssid, secret) == [form |-> "valid", ssid |-> ssid, secret |-> secret]

(* Who a field belongs to; failed is whether it cannot be read. *)
Ownership(field, ssid, failed) ==
  IF failed THEN "StorageFailure"
  ELSE IF field.form = "absent" THEN "NotFound"
  ELSE IF field.form = "corrupt" THEN "Corrupt"
  ELSE IF field.ssid # ssid THEN "HashCollision" ELSE "Ok"

Profile(status, settings, secret) ==
  [status |-> status, settings |-> settings, secret |-> secret]

NoProfile(status) == Profile(status, NoSettings, "none")

(* read(): unreadable are the fields whose read fails. *)
read(ssid, unreadable) ==
  LET p == fields.p[Key[ssid]]
      s == fields.s[Key[ssid]]
      settings == Ownership(p, ssid, "p" \in unreadable)
      secret == Ownership(s, ssid, "s" \in unreadable)
  IN  IF settings # "Ok" THEN NoProfile(settings)
      ELSE IF p.security = "Open" THEN Profile("Ok", p, "none")
      ELSE IF secret = "NotFound" THEN NoProfile("Corrupt")
      ELSE IF secret # "Ok" THEN NoProfile(secret)
      ELSE IF Validate(p.security, s.secret) # "Ok" THEN NoProfile("Corrupt")
      ELSE Profile("Ok", p, s.secret)

(* enumerateProfiles(): settings that cannot be trusted end it. *)
visitProfile(key) ==
  LET p == fields.p[key]
  IN  IF p.form = "absent" THEN "Ok"
      ELSE IF p.form = "corrupt" \/ Key[p.ssid] # key THEN "Corrupt"
      ELSE "Ok"

enumerateProfiles ==
  [status |-> IF \E key \in Hashes : visitProfile(key) # "Ok" THEN "Corrupt"
              ELSE "Ok",
   ssids |-> {fields.p[key].ssid :
                key \in {k \in Hashes : fields.p[k].form = "valid"}}]

SlipSecretUnchecked(ssid, unreadable) ==
  LET settings == Ownership(fields.p[Key[ssid]], ssid, "p" \in unreadable)
  IN  IF settings = "NotFound" THEN "Ok" ELSE settings

(* Both fields are checked, a secret left without settings too. *)
checkIdentity(ssid, unreadable) ==
  LET settings == Ownership(fields.p[Key[ssid]], ssid, "p" \in unreadable)
      secret == Ownership(fields.s[Key[ssid]], ssid, "s" \in unreadable)
  IN  IF settings \notin {"Ok", "NotFound"} THEN settings
      ELSE IF secret = "NotFound" THEN "Ok" ELSE secret

Outcome(value, status) == [value |-> value, status |-> status]

SlipUnverified(old, new) ==
  {Outcome(new, "Ok")} \cup
  {o \in {Outcome(old, "Ok"), Outcome(new, "Ok")} : Failing}

(* writeVerified(): what it may leave of a field and answer.  A write that *)
(* fails is read back, and only a value confirmed to be another one is a   *)
(* storage failure.                                                        *)
writeVerified(old, new) ==
  {Outcome(new, "Ok")} \cup
  {o \in {Outcome(old, "StorageFailure"), Outcome(old, "CommitUnknown"),
          Outcome(new, "CommitUnknown")} :
     Failing /\ (o.status = "StorageFailure" => old # new)}

SlipEmptied(old, none) == {Outcome([old EXCEPT !.form = "empty"], "Ok")}

SlipEraseSkipped(old, none) == {Outcome(old, "Ok")}

eraseField(old, none) ==
  {Outcome(none, "Ok")} \cup
  {o \in {Outcome(old, "StorageFailure"), Outcome(none, "StorageFailure")} :
     Failing}

-----------------------------------------------------------------------------
(* Operations *)

NoOp == [kind |-> "None", step |-> "None", ssid |-> NoNetwork,
         settings |-> NoSettings, secret |-> "none"]

Kinds == {"None", "Keep", "Replace", "Clear", "Remove", "Last"}

(* The fields, of those that are read, whose read may fail. *)
Unreadable(names) == IF Failing THEN SUBSET names ELSE {{}}

Op(kind, step, settings, secret) ==
  [kind |-> kind, step |-> step, ssid |-> settings.ssid,
   settings |-> settings, secret |-> secret]

Begun(kind, ssid, target, status) ==
  [kind |-> kind, ssid |-> ssid, found |-> fields.p[Key[ssid]],
   prior |-> read(ssid, {}), target |-> target, status |-> status]

(* The operation ends, or goes on with its next step. *)
Returns(status) == op' = NoOp /\ goal' = [goal EXCEPT !.status = status]

Continues(step) == op' = [op EXCEPT !.step = step] /\ UNCHANGED goal

(* What saveProfile() answers before it changes anything. *)
saveStatus(settings, intent, replacement, unreadable, again) ==
  LET identity == checkIdentity(settings.ssid, unreadable)
      kept == read(settings.ssid, again)
      secret == IF intent = "Keep" THEN kept.secret ELSE replacement
  IN  IF identity # "Ok" THEN identity
      ELSE IF settings.security = "Open"
              /\ (intent # "Clear" \/ replacement # "none")
      THEN "InvalidArgument"
      ELSE IF intent = "Keep" /\ kept.status # "Ok" THEN kept.status
      ELSE IF intent = "Clear" /\ replacement # "none" THEN "InvalidArgument"
      ELSE Validate(settings.security, secret)

SlipSettingsFirst(intent, done) ==
  CASE done = "None" -> "settings"
    [] done = "settings" /\ intent = "Replace" -> "secret"
    [] done = "settings" /\ intent = "Clear" -> "clear"
    [] OTHER -> "None"

(* The order of a save: a replaced secret is committed before the settings *)
(* that need it, a secret no longer needed is erased after them.           *)
nextStep(intent, done) ==
  CASE done = "None" -> IF intent = "Replace" THEN "secret" ELSE "settings"
    [] done = "secret" -> "settings"
    [] done = "settings" /\ intent = "Clear" -> "clear"
    [] OTHER -> "None"

Advances(status) ==
  LET next == nextStep(op.kind, op.step)
  IN  IF status = "Ok" /\ next # "None" THEN Continues(next)
                                        ELSE Returns(status)

SaveProfile(settings, intent, replacement, unreadable, again) ==
  /\ op = NoOp
  /\ LET ssid == settings.ssid
         status == saveStatus(settings, intent, replacement, unreadable, again)
         secret == IF intent = "Keep" THEN read(ssid, {}).secret
                                      ELSE replacement
     IN  IF status = "Ok"
         THEN /\ op' = Op(intent, nextStep(intent, "None"), settings, secret)
              /\ goal' = Begun(intent, ssid, Profile("Ok", settings, secret),
                               "Pending")
         ELSE /\ goal' = Begun(intent, ssid, read(ssid, {}), status)
              /\ UNCHANGED op
  /\ UNCHANGED fields

SaveSecret ==
  /\ op.step = "secret"
  /\ \E o \in writeVerified(fields.s[Key[op.ssid]],
                            Secret(op.ssid, op.secret)) :
       /\ fields' = [fields EXCEPT !.s[Key[op.ssid]] = o.value]
       /\ Advances(o.status)

SaveSettings ==
  /\ op.step = "settings"
  /\ \E o \in writeVerified(fields.p[Key[op.ssid]], op.settings) :
       /\ fields' = [fields EXCEPT !.p[Key[op.ssid]] = o.value]
       /\ Advances(o.status)

ClearSecret ==
  /\ op.step = "clear"
  /\ \E o \in eraseField(fields.s[Key[op.ssid]], NoSecret) :
       /\ fields' = [fields EXCEPT !.s[Key[op.ssid]] = o.value]
       /\ Advances(o.status)

RemoveProfile(ssid, unreadable) ==
  /\ op = NoOp
  /\ LET status == checkIdentity(ssid, unreadable)
     IN  IF status = "Ok"
         THEN /\ op' = [NoOp EXCEPT !.kind = "Remove", !.step = "eraseSettings",
                                    !.ssid = ssid]
              /\ goal' = Begun("Remove", ssid, NoProfile("NotFound"), "Pending")
         ELSE /\ goal' = Begun("Remove", ssid, read(ssid, {}), status)
              /\ UNCHANGED op
  /\ UNCHANGED fields

SlipSecretErasedFirst ==
  /\ op.step = "eraseSettings"
  /\ fields' = [fields EXCEPT !.s[Key[op.ssid]] = NoSecret]
  /\ Continues("eraseSecret")

EraseSettings ==
  /\ op.step = "eraseSettings"
  /\ \E o \in eraseField(fields.p[Key[op.ssid]], NoSettings) :
       /\ fields' = [fields EXCEPT !.p[Key[op.ssid]] = o.value]
       /\ IF o.status = "Ok" THEN Continues("eraseSecret")
                             ELSE Returns(o.status)

EraseSecret ==
  /\ op.step = "eraseSecret"
  /\ \E o \in eraseField(fields.s[Key[op.ssid]], NoSecret) :
       /\ fields' = [fields EXCEPT !.s[Key[op.ssid]] = o.value]
       /\ IF o.status = "Ok" THEN Continues("forget") ELSE Returns(o.status)

SlipForgetsAnother(unreadable) ==
  /\ op.step = "forget"
  /\ fields' = [fields EXCEPT !.last = NoLast]
  /\ Returns("Ok")

(* A last profile that is another one, or none, is left alone. *)
ForgetLast(unreadable) ==
  /\ op.step = "forget"
  /\ LET status == Ownership(fields.last, op.ssid, "last" \in unreadable)
     IN  IF status = "Ok"
         THEN \E o \in eraseField(fields.last, NoLast) :
                /\ fields' = [fields EXCEPT !.last = o.value]
                /\ Returns(o.status)
         ELSE /\ Returns(IF status \in {"NotFound", "HashCollision"} THEN "Ok"
                         ELSE status)
              /\ UNCHANGED fields

WriteLastProfile(ssid) ==
  /\ op = NoOp
  /\ \E o \in writeVerified(fields.last, [form |-> "valid", ssid |-> ssid]) :
       /\ fields' = [fields EXCEPT !.last = o.value]
       /\ goal' = Begun("Last", ssid, read(ssid, {}), o.status)
  /\ UNCHANGED op

(* Power fails: the operation is gone and its fields stay as they are. *)
PowerFails ==
  /\ op # NoOp
  /\ Returns("Interrupted")
  /\ UNCHANGED fields

-----------------------------------------------------------------------------

Found(none) ==
  {none} \cup {[none EXCEPT !.form = "corrupt"] : d \in {x \in {0} : Damaged}}

Init ==
  /\ fields \in [p : [Hashes -> Found(NoSettings)],
                 s : [Hashes -> Found(NoSecret)], last : Found(NoLast)]
  /\ op = NoOp
  /\ goal = [kind |-> "None", ssid |-> NoNetwork, found |-> NoSettings,
             prior |-> NoProfile("NotFound"),
             target |-> NoProfile("NotFound"), status |-> "Pending"]

Calls ==
  \/ \E ssid \in Networks, security \in Securities, mark \in Marks,
        intent \in {"Keep", "Replace", "Clear"} :
     \E replacement \in IF intent = "Keep" THEN {"none"} ELSE Secrets,
        unreadable \in Unreadable({"p", "s"}),
        again \in IF intent = "Keep" THEN Unreadable({"p", "s"}) ELSE {{}} :
       SaveProfile(Settings(ssid, security, mark), intent, replacement,
                   unreadable, again)
  \/ \E ssid \in Networks :
       \/ \E unreadable \in Unreadable({"p", "s"}) :
            RemoveProfile(ssid, unreadable)
       \/ WriteLastProfile(ssid)

Steps ==
  \/ SaveSecret \/ SaveSettings \/ ClearSecret
  \/ EraseSettings \/ EraseSecret
  \/ \E unreadable \in Unreadable({"last"}) : ForgetLast(unreadable)

Next == Calls \/ Steps \/ PowerFails

Spec == Init /\ [][Next]_vars

-----------------------------------------------------------------------------
(* The store that the fields implement *)

(* To a caller, an SSID whose key another one has taken has no profile. *)
Seen(ssid) ==
  LET profile == read(ssid, {})
  IN  IF profile.status = "HashCollision" THEN NoProfile("NotFound")
                                          ELSE profile

Call(kind, ssid, target) == [kind |-> kind, ssid |-> ssid, target |-> target]

Store == INSTANCE ProfileStore WITH
  profiles <- [ssid \in Networks |-> Seen(ssid)],
  last <- IF fields.last.form = "valid" THEN fields.last.ssid ELSE NoNetwork,
  call <- IF op = NoOp THEN Call("None", NoNetwork, NoProfile("NotFound"))
                       ELSE Call(goal.kind, goal.ssid, goal.target),
  status <- goal.status

-----------------------------------------------------------------------------
(* Properties *)

(* The fields implement the contract of Store: an operation is refused     *)
(* without effect or moves the one profile it is about, in an order that a *)
(* failure or a power cut cannot turn back, and answers kOk only when what *)
(* a caller loads is what it asked for.                                    *)
StoreRefined == Store!StoreSpec

Step == {"None", "secret", "settings", "clear", "eraseSettings",
         "eraseSecret", "forget"}

SettingsFields ==
  [form : Form, ssid : Networks \cup {NoNetwork},
   security : Securities \cup {"Open"}, mark : Marks \cup {0}]

SecretFields ==
  [form : Form, ssid : Networks \cup {NoNetwork}, secret : Secrets]

Profiles == [status : Status, settings : SettingsFields, secret : Secrets]

(* Every field, the operation and the history keep their types. *)
TypeOK ==
  /\ fields \in [p : [Hashes -> SettingsFields], s : [Hashes -> SecretFields],
                 last : [form : Form, ssid : Networks \cup {NoNetwork}]]
  /\ op \in [kind : Kinds, step : Step, ssid : Networks \cup {NoNetwork},
             settings : SettingsFields, secret : Secrets]
  /\ goal \in [kind : Kinds, ssid : Networks \cup {NoNetwork},
               found : SettingsFields, prior : Profiles, target : Profiles,
               status : Status \cup {"Pending", "Interrupted"}]

(* The fields of a key belong to the SSID that first took it.  Saving or   *)
(* removing another SSID with the same hash never changes them, nor does   *)
(* anything change a field that cannot be decoded, whatever was left       *)
(* behind by operations that failed or were interrupted.                   *)
OwnershipRespected ==
  [][\A k \in Hashes :
       /\ fields'.p[k] # fields.p[k] =>
            Ownership(fields.p[k], op.ssid, FALSE) \in {"Ok", "NotFound"}
       /\ fields'.s[k] # fields.s[k] =>
            Ownership(fields.s[k], op.ssid, FALSE) \in {"Ok", "NotFound"}]_vars

(* What was answered with kOk is what a later load returns: the saved      *)
(* profile, none after a removal, and the remembered last SSID; an         *)
(* enumeration that succeeds lists the profile exactly if it can be told.  *)
OkIsDurable ==
  goal.status = "Ok" =>
    /\ read(goal.ssid, {}) = goal.target
    /\ enumerateProfiles.status = "Ok" =>
         (goal.ssid \in enumerateProfiles.ssids
            <=> goal.target.status \notin {"NotFound", "HashCollision"})
    /\ goal.kind = "Last" => fields.last.ssid = goal.ssid
    /\ goal.kind = "Remove" => fields.last.ssid # goal.ssid

(* Except when a secret is replaced, an operation that fails or is         *)
(* interrupted leaves the profile as it was or as it should become, never  *)
(* a mixture and never unreadable.                                         *)
NothingPartial ==
  goal.kind \notin {"None", "Replace"} =>
    read(goal.ssid, {}) \in {goal.prior, goal.target}

(* When a secret is replaced, new settings are never seen with the old     *)
(* secret; the profile is unreadable only while the old settings last.     *)
SecretFirst ==
  goal.kind = "Replace" =>
    LET now == read(goal.ssid, {})
    IN  \/ now \in {goal.prior, goal.target}
        \/ fields.p[Key[goal.ssid]] = goal.found

(* A removed profile and one saved as open leave no secret of that SSID    *)
(* behind once the operation has answered kOk.                             *)
SecretsErased ==
  /\ goal.status = "Ok"
  /\ goal.kind \in {"Remove", "Clear"}
  => Ownership(fields.s[Key[goal.ssid]], goal.ssid, FALSE) # "Ok"

(* A save that answers kStorageFailure has confirmed that its replacement  *)
(* did not commit, and leaves the earlier settings readable.               *)
PriorSettingsReadable ==
  /\ goal.kind \in {"Keep", "Replace", "Clear"}
  /\ goal.status = "StorageFailure" /\ goal.prior.status = "Ok"
  => read(goal.ssid, {}).status = "Ok"

=============================================================================
