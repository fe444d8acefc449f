--------------------------- MODULE FieldStoreProofs --------------------------
(***************************************************************************)
(* FieldStore for any set of SSIDs and any hash, in three parts:           *)
(*                                                                         *)
(*   - its type invariant, and that an operation changes only fields of    *)
(*     its own SSID;                                                       *)
(*   - what an operation leaves when it answers, fails or is cut off;      *)
(*   - that every behaviour of FieldStore is one of ProfileStore.          *)
(*                                                                         *)
(* checkIdentity() looks at the fields once and the writes come later, so  *)
(* the inductive invariant carries its result: while an operation is in    *)
(* progress both fields of its key are absent or of its SSID (Owned), and  *)
(* what it is about to write is of its SSID as well.                       *)
(***************************************************************************)
EXTENDS FieldStore, TLAPS

(* Both fields under the key of ssid may be changed on its behalf. *)
Free(field, ssid) ==
  field.form = "absent" \/ (field.form = "valid" /\ field.ssid = ssid)

Owned ==
  op.step # "None" =>
    /\ op.ssid \in Networks
    /\ Free(fields.p[Key[op.ssid]], op.ssid)
    /\ Free(fields.s[Key[op.ssid]], op.ssid)
    /\ op.step \in {"secret", "settings"} =>
         op.settings.form = "valid" /\ op.settings.ssid = op.ssid

Inv == TypeOK /\ Owned

(* Free is what Ownership tells of a field that can be read. *)
LEMMA FreeOwnership ==
  ASSUME NEW field, NEW ssid, field.form \in Form
  PROVE  Free(field, ssid)
           <=> Ownership(field, ssid, FALSE) \in {"Ok", "NotFound"}
  BY DEF Free, Ownership, Form

(* Reading the medium can make checkIdentity() fail, never succeed. *)
LEMMA IdentityOwns ==
  ASSUME TypeOK, NEW ssid \in Networks, NEW unreadable,
         checkIdentity(ssid, unreadable) = "Ok"
  PROVE  Free(fields.p[Key[ssid]], ssid) /\ Free(fields.s[Key[ssid]], ssid)
  <1>1. /\ fields.p[Key[ssid]].form \in Form
        /\ fields.s[Key[ssid]].form \in Form
    BY FieldAssumption DEF TypeOK, SettingsFields, SecretFields
  <1> QED
    BY <1>1 DEF checkIdentity, Ownership, Free, Form

(* Validate answers with a status. *)
LEMMA ValidateType ==
  ASSUME NEW security, NEW secret
  PROVE  Validate(security, secret) \in Status
  BY DEF Validate, Status

(* Ownership answers with a status. *)
LEMMA OwnershipType ==
  ASSUME NEW field, NEW ssid, NEW failed
  PROVE  Ownership(field, ssid, failed) \in Status
  BY DEF Ownership, Status

(* read() returns a profile and a status. *)
LEMMA ReadType ==
  ASSUME TypeOK, NEW ssid \in Networks, NEW unreadable
  PROVE  read(ssid, unreadable) \in Profiles
  <1> DEFINE p == fields.p[Key[ssid]]
             s == fields.s[Key[ssid]]
  <1>1. p \in SettingsFields /\ s \in SecretFields /\ s.secret \in Secrets
    BY FieldAssumption DEF TypeOK, SecretFields
  <1>2. NoSettings \in SettingsFields /\ "none" \in Secrets
    BY DEF NoSettings, SettingsFields, Form, Secrets
  <1>3. /\ \A st \in Status : NoProfile(st) \in Profiles
        /\ Profile("Ok", p, "none") \in Profiles
        /\ Profile("Ok", p, s.secret) \in Profiles
    BY <1>1, <1>2 DEF NoProfile, Profile, Profiles, Status
  <1>4. "Corrupt" \in Status
    BY DEF Status
  <1> QED
    BY <1>3, <1>4, OwnershipType DEF read

(* What a call remembers of the profile it starts from is well typed. *)
LEMMA BegunType ==
  ASSUME TypeOK, NEW ssid \in Networks, NEW kind \in Kinds,
         NEW target \in Profiles,
         NEW status \in Status \cup {"Pending", "Interrupted"}
  PROVE  Begun(kind, ssid, target, status) \in
           [kind : Kinds, ssid : Networks \cup {NoNetwork},
            found : SettingsFields, prior : Profiles, target : Profiles,
            status : Status \cup {"Pending", "Interrupted"}]
  <1>1. fields.p[Key[ssid]] \in SettingsFields
    BY FieldAssumption DEF TypeOK
  <1>2. read(ssid, {}) \in Profiles
    BY ReadType
  <1> QED
    BY <1>1, <1>2 DEF Begun

(* saveProfile() answers with a status before it changes anything. *)
LEMMA SaveStatusType ==
  ASSUME TypeOK, NEW settings \in SettingsFields, settings.ssid \in Networks,
         NEW intent, NEW replacement, NEW unreadable, NEW again
  PROVE  saveStatus(settings, intent, replacement, unreadable, again) \in Status
  <1>1. checkIdentity(settings.ssid, unreadable) \in Status
    BY OwnershipType DEF checkIdentity, Status
  <1>2. read(settings.ssid, again).status \in Status
    BY ReadType DEF Profiles
  <1>4. \A secret : Validate(settings.security, secret) \in Status
    BY ValidateType
  <1>5. "InvalidArgument" \in Status
    BY DEF Status
  <1> QED
    BY <1>1, <1>2, <1>4, <1>5 DEF saveStatus

(* A verified write leaves the old value or the new one. *)
LEMMA WriteOutcomes ==
  ASSUME NEW old, NEW new, NEW o \in writeVerified(old, new)
  PROVE  o.value \in {old, new} /\ o.status \in Status
  BY DEF writeVerified, Outcome, Status

(* An erase leaves the old value or none. *)
LEMMA EraseOutcomes ==
  ASSUME NEW old, NEW none, NEW o \in eraseField(old, none)
  PROVE  o.value \in {old, none} /\ o.status \in Status
  BY DEF eraseField, Outcome, Status

(* No operation is well typed and owns nothing. *)
LEMMA NoOpType ==
  /\ NoOp \in [kind : Kinds, step : Step, ssid : Networks \cup {NoNetwork},
               settings : SettingsFields, secret : Secrets]
  /\ NoOp.step = "None"
  BY DEF NoOp, NoSettings, SettingsFields, Form, Kinds, Step, Secrets

(* Initially no operation is in progress. *)
LEMMA InitInv == Init => Inv
  <1> SUFFICES ASSUME Init PROVE Inv
    OBVIOUS
  <1>1. Found(NoSettings) \subseteq SettingsFields
    BY DEF Found, NoSettings, SettingsFields, Form
  <1>2. Found(NoSecret) \subseteq SecretFields
    BY DEF Found, NoSecret, SecretFields, Form, Secrets
  <1>3. Found(NoLast) \subseteq [form : Form, ssid : Networks \cup {NoNetwork}]
    BY DEF Found, NoLast, Form
  <1>4. fields \in [p : [Hashes -> SettingsFields],
                    s : [Hashes -> SecretFields],
                    last : [form : Form, ssid : Networks \cup {NoNetwork}]]
    BY <1>1, <1>2, <1>3 DEF Init
  <1>5. NoProfile("NotFound") \in Profiles /\ NoSettings \in SettingsFields
    BY DEF NoProfile, Profile, Profiles, NoSettings, SettingsFields, Form,
           Status, Secrets
  <1>6. goal \in [kind : Kinds, ssid : Networks \cup {NoNetwork},
                  found : SettingsFields, prior : Profiles,
                  target : Profiles,
                  status : Status \cup {"Pending", "Interrupted"}]
    BY <1>5 DEF Init, Kinds
  <1> QED
    BY <1>4, <1>6, NoOpType DEF Init, Inv, TypeOK, Owned

(* Storing a free value in one of the two fields of the operation keeps    *)
(* the fields typed and its own, and touches no other key.                 *)
LEMMA SettingsUpdate ==
  ASSUME Inv, op.step # "None", NEW value \in SettingsFields,
         Free(value, op.ssid),
         fields' = [fields EXCEPT !.p[Key[op.ssid]] = value]
  PROVE  /\ fields' \in [p : [Hashes -> SettingsFields],
                         s : [Hashes -> SecretFields],
                         last : [form : Form,
                                 ssid : Networks \cup {NoNetwork}]]
         /\ Free(fields'.p[Key[op.ssid]], op.ssid)
         /\ Free(fields'.s[Key[op.ssid]], op.ssid)
         /\ \A k \in Hashes : /\ fields'.s[k] = fields.s[k]
                             /\ k # Key[op.ssid] => fields'.p[k] = fields.p[k]
  <1>1. Key[op.ssid] \in Hashes
    BY FieldAssumption DEF Inv, Owned
  <1> QED
    BY <1>1 DEF Inv, TypeOK, Owned

(* The same for the secret. *)
LEMMA SecretUpdate ==
  ASSUME Inv, op.step # "None", NEW value \in SecretFields,
         Free(value, op.ssid),
         fields' = [fields EXCEPT !.s[Key[op.ssid]] = value]
  PROVE  /\ fields' \in [p : [Hashes -> SettingsFields],
                         s : [Hashes -> SecretFields],
                         last : [form : Form,
                                 ssid : Networks \cup {NoNetwork}]]
         /\ Free(fields'.p[Key[op.ssid]], op.ssid)
         /\ Free(fields'.s[Key[op.ssid]], op.ssid)
         /\ \A k \in Hashes : /\ fields'.p[k] = fields.p[k]
                             /\ k # Key[op.ssid] => fields'.s[k] = fields.s[k]
  <1>1. Key[op.ssid] \in Hashes
    BY FieldAssumption DEF Inv, Owned
  <1> QED
    BY <1>1 DEF Inv, TypeOK, Owned

(* The operation ends: nothing is claimed for it any more. *)
LEMMA ReturnsInv ==
  ASSUME Inv, NEW status \in Status \cup {"Interrupted"}, Returns(status),
         fields' \in [p : [Hashes -> SettingsFields],
                      s : [Hashes -> SecretFields],
                      last : [form : Form, ssid : Networks \cup {NoNetwork}]]
  PROVE  Inv'
  <1>1. goal' \in [kind : Kinds, ssid : Networks \cup {NoNetwork},
                   found : SettingsFields, prior : Profiles,
                   target : Profiles,
                   status : Status \cup {"Pending", "Interrupted"}]
    BY DEF Returns, Inv, TypeOK
  <1>2. op' = NoOp
    BY DEF Returns
  <1> QED
    BY <1>1, <1>2, NoOpType DEF Inv, TypeOK, Owned

(* It goes on: what it owned it still owns. *)
LEMMA ContinuesInv ==
  ASSUME Inv, op.step # "None", NEW step \in Step, Continues(step),
         op.step = "secret" \/ step # "settings", step # "secret",
         fields' \in [p : [Hashes -> SettingsFields],
                      s : [Hashes -> SecretFields],
                      last : [form : Form, ssid : Networks \cup {NoNetwork}]],
         Free(fields'.p[Key[op.ssid]], op.ssid),
         Free(fields'.s[Key[op.ssid]], op.ssid)
  PROVE  Inv'
  <1>1. /\ op' = [op EXCEPT !.step = step]
        /\ goal' = goal
    BY DEF Continues
  <1>2. /\ op'.ssid = op.ssid /\ op'.settings = op.settings
        /\ op'.step = step
    BY <1>1 DEF Inv, TypeOK
  <1>3. TypeOK'
    BY <1>1 DEF Inv, TypeOK
  <1>4. Owned'
    BY <1>2 DEF Inv, Owned
  <1> QED
    BY <1>3, <1>4 DEF Inv

(* The two fields of every key change only where the operation owns them. *)
Respects ==
  \A k \in Hashes :
    /\ fields'.p[k] # fields.p[k] =>
         Ownership(fields.p[k], op.ssid, FALSE) \in {"Ok", "NotFound"}
    /\ fields'.s[k] # fields.s[k] =>
         Ownership(fields.s[k], op.ssid, FALSE) \in {"Ok", "NotFound"}

(* A step that stays within the key of the operation respects every owner. *)
LEMMA OwnedRespects ==
  ASSUME Inv, op.step # "None",
         \A k \in Hashes : k # Key[op.ssid] => /\ fields'.p[k] = fields.p[k]
                                              /\ fields'.s[k] = fields.s[k]
  PROVE  Respects
  <1>1. \A k \in Hashes : /\ fields.p[k].form \in Form
                          /\ fields.s[k].form \in Form
    BY DEF Inv, TypeOK, SettingsFields, SecretFields
  <1>2. /\ Free(fields.p[Key[op.ssid]], op.ssid)
        /\ Free(fields.s[Key[op.ssid]], op.ssid)
    BY DEF Inv, Owned
  <1> QED
    BY <1>1, <1>2, FreeOwnership DEF Respects

(* saveProfile() starts only with the fields its own. *)
LEMMA SaveProfileInv ==
  ASSUME Inv, NEW settings \in SettingsFields, settings.ssid \in Networks,
         settings.form = "valid",
         NEW intent \in {"Keep", "Replace", "Clear"},
         NEW replacement \in Secrets, NEW unreadable, NEW again,
         SaveProfile(settings, intent, replacement, unreadable, again)
  PROVE  Inv' /\ Respects
  <1> DEFINE ssid == settings.ssid
             status == saveStatus(settings, intent, replacement, unreadable,
                                  again)
             secret == IF intent = "Keep" THEN read(ssid, {}).secret
                       ELSE replacement
  <1>1. fields' = fields
    BY DEF SaveProfile
  <1>2. read(ssid, {}) \in Profiles /\ secret \in Secrets
    BY ReadType DEF Inv, Profiles
  <1>3. Profile("Ok", settings, secret) \in Profiles
    BY <1>2 DEF Profile, Profiles, Status
  <1>4. intent \in Kinds /\ status \in Status
    BY SaveStatusType DEF Kinds, Inv
  <1>5. goal' \in [kind : Kinds, ssid : Networks \cup {NoNetwork},
                   found : SettingsFields, prior : Profiles,
                   target : Profiles,
                   status : Status \cup {"Pending", "Interrupted"}]
    BY <1>2, <1>3, <1>4, BegunType DEF SaveProfile, Inv
  <1>6. CASE status = "Ok"
    <2>1. op' = Op(intent, nextStep(intent, "None"), settings, secret)
      BY <1>6 DEF SaveProfile
    <2>2. /\ op'.ssid = ssid /\ op'.settings = settings
          /\ op' \in [kind : Kinds, step : Step,
                      ssid : Networks \cup {NoNetwork},
                      settings : SettingsFields, secret : Secrets]
      BY <2>1, <1>2, <1>4 DEF Op, nextStep, Step
    <2>3. checkIdentity(ssid, unreadable) = "Ok"
      BY <1>6 DEF saveStatus
    <2>4. Free(fields.p[Key[ssid]], ssid) /\ Free(fields.s[Key[ssid]], ssid)
      BY <2>3, IdentityOwns DEF Inv
    <2>5. Owned'
      BY <1>1, <2>2, <2>4 DEF Owned
    <2> QED
      BY <1>1, <1>5, <2>2, <2>5 DEF Inv, TypeOK, Respects
  <1>7. CASE status # "Ok"
    <2>1. op' = op
      BY <1>7 DEF SaveProfile
    <2> QED
      BY <1>1, <1>5, <2>1 DEF Inv, TypeOK, Owned, Respects
  <1> QED
    BY <1>6, <1>7

(* So does removeProfile(). *)
LEMMA RemoveProfileInv ==
  ASSUME Inv, NEW ssid \in Networks, NEW unreadable,
         RemoveProfile(ssid, unreadable)
  PROVE  Inv' /\ Respects
  <1> DEFINE status == checkIdentity(ssid, unreadable)
  <1>1. fields' = fields
    BY DEF RemoveProfile
  <1>2. read(ssid, {}) \in Profiles /\ NoProfile("NotFound") \in Profiles
    BY ReadType DEF Inv, NoProfile, Profile, Profiles, NoSettings,
                    SettingsFields, Form, Status, Secrets
  <1>3. "Remove" \in Kinds /\ status \in Status
    BY OwnershipType DEF Kinds, checkIdentity, Status
  <1>4. goal' \in [kind : Kinds, ssid : Networks \cup {NoNetwork},
                   found : SettingsFields, prior : Profiles,
                   target : Profiles,
                   status : Status \cup {"Pending", "Interrupted"}]
    BY <1>2, <1>3, BegunType DEF RemoveProfile, Inv
  <1>5. CASE status = "Ok"
    <2>1. op' = [NoOp EXCEPT !.kind = "Remove", !.step = "eraseSettings",
                             !.ssid = ssid]
      BY <1>5 DEF RemoveProfile
    <2>2. /\ op'.ssid = ssid /\ op'.step = "eraseSettings"
          /\ op' \in [kind : Kinds, step : Step,
                      ssid : Networks \cup {NoNetwork},
                      settings : SettingsFields, secret : Secrets]
      BY <2>1, <1>3, NoOpType DEF Step, NoOp
    <2>3. Free(fields.p[Key[ssid]], ssid) /\ Free(fields.s[Key[ssid]], ssid)
      BY <1>5, IdentityOwns DEF Inv
    <2>4. Owned'
      BY <1>1, <2>2, <2>3 DEF Owned
    <2> QED
      BY <1>1, <1>4, <2>2, <2>4 DEF Inv, TypeOK, Respects
  <1>6. CASE status # "Ok"
    <2>1. op' = op
      BY <1>6 DEF RemoveProfile
    <2> QED
      BY <1>1, <1>4, <2>1 DEF Inv, TypeOK, Owned, Respects
  <1> QED
    BY <1>5, <1>6

(* writeLastProfile() touches no profile. *)
LEMMA WriteLastInv ==
  ASSUME Inv, NEW ssid \in Networks, WriteLastProfile(ssid)
  PROVE  Inv' /\ Respects
  <1> DEFINE new == [form |-> "valid", ssid |-> ssid]
  <1>1. PICK o \in writeVerified(fields.last, new) :
          /\ fields' = [fields EXCEPT !.last = o.value]
          /\ goal' = Begun("Last", ssid, read(ssid, {}), o.status)
    BY DEF WriteLastProfile
  <1>2. o.value \in {fields.last, new} /\ o.status \in Status
    BY <1>1, WriteOutcomes
  <1>3. op' = op /\ fields'.p = fields.p /\ fields'.s = fields.s
    BY <1>1 DEF WriteLastProfile, Inv, TypeOK
  <1>4. fields' \in [p : [Hashes -> SettingsFields],
                     s : [Hashes -> SecretFields],
                     last : [form : Form, ssid : Networks \cup {NoNetwork}]]
    BY <1>1, <1>2 DEF Inv, TypeOK, Form
  <1>5. goal' \in [kind : Kinds, ssid : Networks \cup {NoNetwork},
                   found : SettingsFields, prior : Profiles,
                   target : Profiles,
                   status : Status \cup {"Pending", "Interrupted"}]
    BY <1>1, <1>2, ReadType, BegunType DEF Inv, Kinds
  <1> QED
    BY <1>3, <1>4, <1>5 DEF Inv, TypeOK, Owned, Respects

(* Writing the secret of a save. *)
LEMMA SaveSecretInv ==
  ASSUME Inv, SaveSecret
  PROVE  Inv' /\ Respects
  <1> DEFINE new == Secret(op.ssid, op.secret)
  <1>1. PICK o \in writeVerified(fields.s[Key[op.ssid]], new) :
          /\ fields' = [fields EXCEPT !.s[Key[op.ssid]] = o.value]
          /\ IF o.status = "Ok" THEN Continues("settings")
                                ELSE Returns(o.status)
    BY DEF SaveSecret, Advances, nextStep
  <1>2. o.value \in {fields.s[Key[op.ssid]], new} /\ o.status \in Status
    BY <1>1, WriteOutcomes
  <1>3. op.step = "secret" /\ Key[op.ssid] \in Hashes /\ op.ssid \in Networks
    BY FieldAssumption DEF SaveSecret, Inv, Owned
  <1>4. new \in SecretFields /\ Free(new, op.ssid)
    BY <1>3 DEF Secret, SecretFields, Free, Form, Inv, TypeOK
  <1>5. o.value \in SecretFields /\ Free(o.value, op.ssid)
    BY <1>2, <1>3, <1>4 DEF Inv, TypeOK, Owned
  <1>6. Inv'
    BY <1>1, <1>2, <1>3, <1>5, SecretUpdate, ContinuesInv, ReturnsInv DEF Step
  <1> QED
    BY <1>1, <1>3, <1>5, <1>6, SecretUpdate, OwnedRespects

(* Writing its settings. *)
LEMMA SaveSettingsInv ==
  ASSUME Inv, SaveSettings
  PROVE  Inv' /\ Respects
  <1>1. PICK o \in writeVerified(fields.p[Key[op.ssid]], op.settings) :
          /\ fields' = [fields EXCEPT !.p[Key[op.ssid]] = o.value]
          /\ IF o.status = "Ok" /\ op.kind = "Clear"
             THEN Continues("clear") ELSE Returns(o.status)
    BY DEF SaveSettings, Advances, nextStep
  <1>2. /\ o.value \in {fields.p[Key[op.ssid]], op.settings}
        /\ o.status \in Status
    BY <1>1, WriteOutcomes
  <1>3. op.step = "settings" /\ Key[op.ssid] \in Hashes
    BY FieldAssumption DEF SaveSettings, Inv, Owned
  <1>4. op.settings \in SettingsFields /\ Free(op.settings, op.ssid)
    BY <1>3 DEF Free, Inv, TypeOK, Owned
  <1>5. o.value \in SettingsFields /\ Free(o.value, op.ssid)
    BY <1>2, <1>3, <1>4 DEF Inv, TypeOK, Owned
  <1>6. Inv'
    BY <1>1, <1>2, <1>3, <1>5, SettingsUpdate, ContinuesInv, ReturnsInv DEF Step
  <1> QED
    BY <1>1, <1>3, <1>5, <1>6, SettingsUpdate, OwnedRespects

(* The last step of a save as open and the second of a removal. *)
LEMMA SecretErasureInv ==
  ASSUME Inv, ClearSecret \/ EraseSecret
  PROVE  Inv' /\ Respects
  <1>1. PICK o \in eraseField(fields.s[Key[op.ssid]], NoSecret) :
          /\ fields' = [fields EXCEPT !.s[Key[op.ssid]] = o.value]
          /\ Returns(o.status) \/ Continues("forget")
    BY DEF ClearSecret, EraseSecret, Advances, nextStep
  <1>2. o.value \in {fields.s[Key[op.ssid]], NoSecret} /\ o.status \in Status
    BY <1>1, EraseOutcomes
  <1>3. op.step \in {"clear", "eraseSecret"} /\ Key[op.ssid] \in Hashes
    BY FieldAssumption DEF ClearSecret, EraseSecret, Inv, Owned
  <1>4. NoSecret \in SecretFields /\ Free(NoSecret, op.ssid)
    BY DEF NoSecret, SecretFields, Free, Form, Secrets
  <1>5. o.value \in SecretFields /\ Free(o.value, op.ssid)
    BY <1>2, <1>3, <1>4 DEF Inv, TypeOK, Owned
  <1>6. Inv'
    BY <1>1, <1>2, <1>3, <1>5, SecretUpdate, ContinuesInv, ReturnsInv DEF Step
  <1> QED
    BY <1>1, <1>3, <1>5, <1>6, SecretUpdate, OwnedRespects

(* The first step of a removal. *)
LEMMA EraseSettingsInv ==
  ASSUME Inv, EraseSettings
  PROVE  Inv' /\ Respects
  <1>1. PICK o \in eraseField(fields.p[Key[op.ssid]], NoSettings) :
          /\ fields' = [fields EXCEPT !.p[Key[op.ssid]] = o.value]
          /\ Returns(o.status) \/ Continues("eraseSecret")
    BY DEF EraseSettings
  <1>2. o.value \in {fields.p[Key[op.ssid]], NoSettings} /\ o.status \in Status
    BY <1>1, EraseOutcomes
  <1>3. op.step = "eraseSettings" /\ Key[op.ssid] \in Hashes
    BY FieldAssumption DEF EraseSettings, Inv, Owned
  <1>4. NoSettings \in SettingsFields /\ Free(NoSettings, op.ssid)
    BY DEF NoSettings, SettingsFields, Free, Form
  <1>5. o.value \in SettingsFields /\ Free(o.value, op.ssid)
    BY <1>2, <1>3, <1>4 DEF Inv, TypeOK, Owned
  <1>6. Inv'
    BY <1>1, <1>2, <1>3, <1>5, SettingsUpdate, ContinuesInv, ReturnsInv DEF Step
  <1> QED
    BY <1>1, <1>3, <1>5, <1>6, SettingsUpdate, OwnedRespects

(* Its last step touches no profile. *)
LEMMA ForgetLastInv ==
  ASSUME Inv, NEW unreadable, ForgetLast(unreadable)
  PROVE  Inv' /\ Respects
  <1> DEFINE status == Ownership(fields.last, op.ssid, "last" \in unreadable)
  <1>1. status \in Status /\ "Ok" \in Status
    BY OwnershipType DEF Status
  <1>2. CASE status = "Ok"
    <2>1. PICK o \in eraseField(fields.last, NoLast) :
            /\ fields' = [fields EXCEPT !.last = o.value]
            /\ Returns(o.status)
      BY <1>2 DEF ForgetLast
    <2>2. o.value \in {fields.last, NoLast} /\ o.status \in Status
      BY <2>1, EraseOutcomes
    <2>3. fields'.p = fields.p /\ fields'.s = fields.s
      BY <2>1 DEF Inv, TypeOK
    <2>4. fields' \in [p : [Hashes -> SettingsFields],
                       s : [Hashes -> SecretFields],
                       last : [form : Form,
                               ssid : Networks \cup {NoNetwork}]]
      BY <2>1, <2>2 DEF Inv, TypeOK, NoLast, Form
    <2> QED
      BY <2>1, <2>2, <2>3, <2>4, ReturnsInv DEF Respects
  <1>3. CASE status # "Ok"
    <2>1. fields' = fields
      BY <1>3 DEF ForgetLast
    <2>2. PICK st \in Status : Returns(st)
      BY <1>1, <1>3 DEF ForgetLast
    <2> QED
      BY <2>1, <2>2, ReturnsInv DEF Inv, TypeOK, Respects
  <1> QED
    BY <1>2, <1>3

(* A power cut ends the operation and changes no field. *)
LEMMA PowerFailsInv ==
  ASSUME Inv, PowerFails
  PROVE  Inv' /\ Respects
  <1>1. fields' = fields /\ Returns("Interrupted")
    BY DEF PowerFails
  <1> QED
    BY <1>1, ReturnsInv DEF Inv, TypeOK, Respects

(* Every step keeps the invariant and respects the owners of the fields. *)
LEMMA NextInv ==
  ASSUME Inv, [Next]_vars
  PROVE  Inv' /\ [Respects]_vars
  <1>1. CASE Calls
    <2>1. ASSUME NEW ssid \in Networks, NEW security \in Securities,
                 NEW mark \in Marks,
                 NEW intent \in {"Keep", "Replace", "Clear"},
                 NEW replacement \in Secrets, NEW unreadable, NEW again,
                 SaveProfile(Settings(ssid, security, mark), intent,
                             replacement, unreadable, again)
          PROVE  Inv' /\ Respects
      <3>1. /\ Settings(ssid, security, mark) \in SettingsFields
            /\ Settings(ssid, security, mark).ssid = ssid
            /\ Settings(ssid, security, mark).form = "valid"
        BY DEF Settings, SettingsFields, Form
      <3> QED
        BY <2>1, <3>1, SaveProfileInv
    <2>2. ASSUME NEW ssid \in Networks, NEW unreadable,
                 RemoveProfile(ssid, unreadable)
          PROVE  Inv' /\ Respects
      BY <2>2, RemoveProfileInv
    <2>3. ASSUME NEW ssid \in Networks, WriteLastProfile(ssid)
          PROVE  Inv' /\ Respects
      BY <2>3, WriteLastInv
    <2>4. "none" \in Secrets
      BY DEF Secrets
    <2> QED
      BY <1>1, <2>1, <2>2, <2>3, <2>4 DEF Calls
  <1>2. CASE Steps
    BY <1>2, SaveSecretInv, SaveSettingsInv, SecretErasureInv,
       EraseSettingsInv, ForgetLastInv DEF Steps
  <1>3. CASE PowerFails
    BY <1>3, PowerFailsInv
  <1>4. CASE UNCHANGED vars
    BY <1>4 DEF vars, Inv, TypeOK, Owned
  <1> QED
    BY <1>1, <1>2, <1>3, <1>4 DEF Next

(* The store keeps its types, for every set of SSIDs and every hash. *)
THEOREM StoreTypeCorrect == Spec => []TypeOK
  <1>1. Inv /\ [Next]_vars => Inv'
    BY NextInv
  <1>2. Inv => TypeOK
    BY DEF Inv
  <1> QED
    BY InitInv, <1>1, <1>2, PTL DEF Spec

(* An SSID never changes a field of another one with the same hash, nor    *)
(* one it cannot decode, for every hash and across any failures and power  *)
(* cuts (checkIdentity() of saveProfile() and removeProfile()).            *)
THEOREM OwnersAreRespected == Spec => OwnershipRespected
  <1>1. Inv /\ [Next]_vars => Inv' /\ [Respects]_vars
    BY NextInv
  <1> QED
    BY InitInv, <1>1, PTL DEF Spec, OwnershipRespected, Respects

-----------------------------------------------------------------------------
(***************************************************************************)
(* Failures and power cuts.                                                *)
(*                                                                         *)
(* The properties speak of an operation that has ended, so the inductive   *)
(* invariant has to say how far each step of an operation has come         *)
(* (Progress): which of its fields already hold what it is to leave, and   *)
(* what is read meanwhile.  Enumeration goes by the settings alone and     *)
(* reading by both fields; they agree because the two fields of a key      *)
(* never belong to different SSIDs (Paired).                               *)
(***************************************************************************)

(* What read() makes of the two fields of a key, if both can be read. *)
Loaded(p, s, ssid) ==
  IF p.form = "absent" THEN NoProfile("NotFound")
  ELSE IF p.form = "corrupt" THEN NoProfile("Corrupt")
  ELSE IF p.ssid # ssid THEN NoProfile("HashCollision")
  ELSE IF p.security = "Open" THEN Profile("Ok", p, "none")
  ELSE IF s.form # "valid" THEN NoProfile("Corrupt")
  ELSE IF s.ssid # ssid THEN NoProfile("HashCollision")
  ELSE IF Validate(p.security, s.secret) # "Ok" THEN NoProfile("Corrupt")
  ELSE Profile("Ok", p, s.secret)

(* The fields, and the profile, that the latest operation is about. *)
SettingsField == fields.p[Key[goal.ssid]]

SecretField == fields.s[Key[goal.ssid]]

Now == Loaded(SettingsField, SecretField, goal.ssid)

(* The two fields of a key are of one SSID. *)
Paired ==
  \A k \in Hashes :
    /\ fields.p[k].form = "valid" => fields.p[k].ssid \in Networks
    /\ fields.p[k].form = "valid" /\ fields.s[k].form = "valid"
         => fields.p[k].ssid = fields.s[k].ssid

(* Only a last SSID that is present is one. *)
LastTold == fields.last.form = "absent" => fields.last.ssid = NoNetwork

(* A save wants a secret that its security takes, none if that is open. *)
Saving ==
  /\ goal.target = Profile("Ok", op.settings, op.secret)
  /\ op.settings.form = "valid" /\ op.settings.ssid = op.ssid
  /\ op.kind = "Clear" <=> op.settings.security = "Open"
  /\ op.kind = "Clear" => op.secret = "none"
  /\ Validate(op.settings.security, op.secret) = "Ok"

(* How far the operation has come before each of its steps. *)
KeepSettings ==
  /\ op.kind = "Keep" /\ op.step = "settings" /\ Saving
  /\ Now = goal.prior
  /\ SecretField = Secret(op.ssid, op.secret)

ReplaceSecret ==
  /\ op.kind = "Replace" /\ op.step = "secret" /\ Saving
  /\ Now = goal.prior /\ SettingsField = goal.found

ReplaceSettings ==
  /\ op.kind = "Replace" /\ op.step = "settings" /\ Saving
  /\ SettingsField = goal.found
  /\ SecretField = Secret(op.ssid, op.secret)

ClearSettings ==
  /\ op.kind = "Clear" /\ op.step = "settings" /\ Saving
  /\ Now = goal.prior

ClearErase ==
  /\ op.kind = "Clear" /\ op.step = "clear" /\ Saving
  /\ SettingsField = op.settings

Removing ==
  /\ op.kind = "Remove" /\ goal.target = NoProfile("NotFound")
  /\ \/ op.step = "eraseSettings" /\ Now = goal.prior
     \/ op.step = "eraseSecret" /\ SettingsField = NoSettings
     \/ /\ op.step = "forget"
        /\ SettingsField = NoSettings /\ SecretField = NoSecret

Progress ==
  op.step # "None" =>
    /\ goal.kind = op.kind /\ goal.ssid = op.ssid /\ goal.status = "Pending"
    /\ \/ KeepSettings \/ ReplaceSecret \/ ReplaceSettings
       \/ ClearSettings \/ ClearErase \/ Removing

(* What has been answered holds, and what was left is no mixture. *)
Answered ==
  goal.status = "Ok" =>
    /\ Now = goal.target
    /\ goal.kind \in {"Remove", "Clear"} =>
         ~(SecretField.form = "valid" /\ SecretField.ssid = goal.ssid)
    /\ goal.kind = "Last" => fields.last.ssid = goal.ssid
    /\ goal.kind = "Remove" => fields.last.ssid # goal.ssid

Left ==
  goal.kind # "None" =>
    /\ goal.ssid \in Networks
    /\ \/ Now \in {goal.prior, goal.target}
       \/ goal.kind = "Replace" /\ SettingsField = goal.found

(* No operation is in progress, or one with a step to take. *)
Idling == op.step = "None" => op = NoOp

Started == goal.kind = "None" => goal.status = "Pending"

DInv ==
  /\ Inv /\ Paired /\ LastTold /\ Progress /\ Answered /\ Left
  /\ Idling /\ Started

-----------------------------------------------------------------------------
(* Reading *)

(* Loaded is read() of fields that can be read. *)
LEMMA ReadIsLoaded ==
  ASSUME TypeOK, NEW ssid \in Networks
  PROVE  read(ssid, {}) = Loaded(fields.p[Key[ssid]], fields.s[Key[ssid]], ssid)
  <1>1. /\ fields.p[Key[ssid]].form \in Form
        /\ fields.s[Key[ssid]].form \in Form
    BY FieldAssumption DEF TypeOK, SettingsFields, SecretFields
  <1> QED
    BY <1>1 DEF read, Loaded, Ownership, Form

(* A read that succeeds although some fields cannot be read has not needed *)
(* them.                                                                   *)
LEMMA ReadAgain ==
  ASSUME TypeOK, NEW ssid \in Networks, NEW again,
         read(ssid, again).status = "Ok"
  PROVE  read(ssid, {}) = read(ssid, again)
  <1>1. /\ fields.p[Key[ssid]].form \in Form
        /\ fields.s[Key[ssid]].form \in Form
    BY FieldAssumption DEF TypeOK, SettingsFields, SecretFields
  <1> QED
    BY <1>1 DEF read, Ownership, NoProfile, Profile, Form

(* Only an open network takes no secret. *)
LEMMA OpenTakesNone ==
  ASSUME NEW security
  PROVE  Validate(security, "none") = "Ok" <=> security = "Open"
  BY DEF Validate, Passphrases, Personal

(* What is saved can be read back. *)
LEMMA SavedIsLoaded ==
  ASSUME NEW p, NEW s, NEW secret, NEW ssid,
         p.form = "valid", p.ssid = ssid, Validate(p.security, secret) = "Ok",
         IF p.security = "Open" THEN secret = "none"
                                ELSE s = Secret(ssid, secret)
  PROVE  Loaded(p, s, ssid) = Profile("Ok", p, secret)
  BY DEF Loaded, Secret

(* A key without settings has no profile. *)
LEMMA NothingIsLoaded ==
  ASSUME NEW s, NEW ssid
  PROVE  Loaded(NoSettings, s, ssid) = NoProfile("NotFound")
  BY DEF Loaded, NoSettings

-----------------------------------------------------------------------------
(* Steps *)

(* Initially nothing has been asked for. *)
LEMMA InitDurable == Init => DInv
  <1> SUFFICES ASSUME Init PROVE DInv
    OBVIOUS
  <1>1. Inv
    BY InitInv
  <1>2. /\ \A k \in Hashes : fields.p[k].form # "valid"
        /\ fields.last.ssid = NoNetwork
    BY DEF Init, Found, NoSettings, NoLast
  <1>3. op = NoOp /\ goal.kind = "None" /\ goal.status = "Pending"
    BY DEF Init
  <1> QED
    BY <1>1, <1>2, <1>3 DEF DInv, Paired, LastTold, Progress, Answered, Left,
                            Idling, Started, NoOp

(* Fields of the operation that stay its own keep every key paired. *)
LEMMA PairedKept ==
  ASSUME DInv, op.step # "None",
         \A k \in Hashes : k # Key[op.ssid] => /\ fields'.p[k] = fields.p[k]
                                              /\ fields'.s[k] = fields.s[k],
         Free(fields'.p[Key[op.ssid]], op.ssid),
         Free(fields'.s[Key[op.ssid]], op.ssid)
  PROVE  Paired'
  <1>1. op.ssid \in Networks
    BY DEF DInv, Inv, Owned
  <1> QED
    BY <1>1 DEF DInv, Paired, Free

(* An operation ends with what its last step left. *)
LEMMA ReturnsDurable ==
  ASSUME DInv, op.step # "None", NEW status, Returns(status),
         Inv', Paired', LastTold',
         LET p == fields'.p[Key[op.ssid]]
             s == fields'.s[Key[op.ssid]]
             now == Loaded(p, s, op.ssid)
         IN  /\ \/ now \in {goal.prior, goal.target}
                \/ op.kind = "Replace" /\ p = goal.found
             /\ status = "Ok" =>
                  /\ now = goal.target
                  /\ op.kind \in {"Remove", "Clear"} => s = NoSecret
                  /\ op.kind = "Remove" => fields'.last.ssid # op.ssid
  PROVE  DInv'
  <1>1. /\ op' = NoOp
        /\ goal' = [goal EXCEPT !.status = status]
    BY DEF Returns
  <1>2. /\ goal'.kind = op.kind /\ goal'.ssid = op.ssid
        /\ goal'.status = status /\ goal'.prior = goal.prior
        /\ goal'.target = goal.target /\ goal'.found = goal.found
    BY <1>1 DEF DInv, Inv, TypeOK, Progress
  <1>3. op.kind \in {"Keep", "Replace", "Clear", "Remove"}
        /\ op.ssid \in Networks
    BY DEF DInv, Inv, Owned, Progress, KeepSettings, ReplaceSecret,
           ReplaceSettings, ClearSettings, ClearErase, Removing
  <1>4. Answered'
    BY <1>2, <1>3 DEF Answered, Now, SettingsField, SecretField, NoSecret
  <1>5. Left'
    BY <1>2, <1>3 DEF Left, Now, SettingsField, SecretField
  <1>6. Progress' /\ Idling' /\ Started'
    BY <1>1, <1>2, <1>3 DEF Progress, Idling, Started, NoOp
  <1> QED
    BY <1>4, <1>5, <1>6 DEF DInv

(* An operation goes on after a step. *)
LEMMA ContinuesDurable ==
  ASSUME DInv, op.step # "None", NEW step, step # "None", Continues(step),
         Inv', Paired', LastTold', Progress',
         LET p == fields'.p[Key[op.ssid]]
             now == Loaded(p, fields'.s[Key[op.ssid]], op.ssid)
         IN  \/ now \in {goal.prior, goal.target}
             \/ op.kind = "Replace" /\ p = goal.found
  PROVE  DInv'
  <1>1. goal' = goal /\ op'.step = step
    BY DEF Continues, DInv, Inv, TypeOK
  <1>2. /\ goal.kind = op.kind /\ goal.ssid = op.ssid
        /\ goal.status = "Pending"
    BY DEF DInv, Progress
  <1>3. Answered' /\ Idling' /\ Started'
    BY <1>1, <1>2 DEF Answered, Idling, Started
  <1>4. Left'
    BY <1>1, <1>2 DEF Left, Now, SettingsField, SecretField, DInv, Inv, Owned
  <1> QED
    BY <1>3, <1>4 DEF DInv

(* Only the new value is answered with kOk. *)
LEMMA OkOutcomes ==
  ASSUME NEW old, NEW new
  PROVE  /\ \A o \in writeVerified(old, new) : o.status = "Ok" => o.value = new
         /\ \A o \in eraseField(old, new) : o.status = "Ok" => o.value = new
  BY DEF writeVerified, eraseField, Outcome

(* A step that stores the settings of its operation. *)
LEMMA SettingsStored ==
  ASSUME DInv, op.step # "None", NEW value \in SettingsFields,
         Free(value, op.ssid),
         fields' = [fields EXCEPT !.p[Key[op.ssid]] = value]
  PROVE  /\ Paired' /\ LastTold' /\ fields'.last = fields.last
         /\ fields'.p[Key[op.ssid]] = value
         /\ fields'.s[Key[op.ssid]] = fields.s[Key[op.ssid]]
  <1>1. Key[op.ssid] \in Hashes
    BY FieldAssumption DEF DInv, Inv, Owned
  <1>2. /\ fields'.p[Key[op.ssid]] = value
        /\ fields'.s = fields.s /\ fields'.last = fields.last
    BY <1>1 DEF DInv, Inv, TypeOK
  <1>3. Paired'
    BY SettingsUpdate, PairedKept DEF DInv
  <1> QED
    BY <1>2, <1>3 DEF DInv, LastTold

(* And one that stores its secret. *)
LEMMA SecretStored ==
  ASSUME DInv, op.step # "None", NEW value \in SecretFields,
         Free(value, op.ssid),
         fields' = [fields EXCEPT !.s[Key[op.ssid]] = value]
  PROVE  /\ Paired' /\ LastTold' /\ fields'.last = fields.last
         /\ fields'.s[Key[op.ssid]] = value
         /\ fields'.p[Key[op.ssid]] = fields.p[Key[op.ssid]]
  <1>1. Key[op.ssid] \in Hashes
    BY FieldAssumption DEF DInv, Inv, Owned
  <1>2. /\ fields'.s[Key[op.ssid]] = value
        /\ fields'.p = fields.p /\ fields'.last = fields.last
    BY <1>1 DEF DInv, Inv, TypeOK
  <1>3. Paired'
    BY SecretUpdate, PairedKept DEF DInv
  <1> QED
    BY <1>2, <1>3 DEF DInv, LastTold

(* What stays of an operation that goes on. *)
LEMMA ContinuesSame ==
  ASSUME DInv, NEW step, Continues(step)
  PROVE  /\ op'.kind = op.kind /\ op'.ssid = op.ssid /\ op'.step = step
         /\ op'.settings = op.settings /\ op'.secret = op.secret
         /\ goal' = goal /\ (Saving => Saving')
  <1>1. /\ op'.kind = op.kind /\ op'.ssid = op.ssid /\ op'.step = step
        /\ op'.settings = op.settings /\ op'.secret = op.secret
        /\ goal' = goal
    BY DEF Continues, DInv, Inv, TypeOK
  <1> QED
    BY <1>1 DEF Saving

(* A replaced secret is written before the settings that need it. *)
LEMMA SaveSecretDurable ==
  ASSUME DInv, SaveSecret
  PROVE  DInv'
  <1> DEFINE new == Secret(op.ssid, op.secret)
             old == fields.s[Key[op.ssid]]
  <1>1. PICK o \in writeVerified(old, new) :
          /\ fields' = [fields EXCEPT !.s[Key[op.ssid]] = o.value]
          /\ IF o.status = "Ok" THEN Continues("settings")
                                ELSE Returns(o.status)
    BY DEF SaveSecret, Advances, nextStep
  <1>2. o.value \in {old, new} /\ (o.status = "Ok" => o.value = new)
    BY <1>1, WriteOutcomes, OkOutcomes
  <1>3. ReplaceSecret /\ op.step = "secret" /\ op.ssid \in Networks
        /\ goal.kind = op.kind /\ goal.ssid = op.ssid
        /\ goal.status = "Pending" /\ Key[op.ssid] \in Hashes
    BY FieldAssumption
       DEF SaveSecret, DInv, Inv, Owned, Progress, KeepSettings, ReplaceSecret,
           ReplaceSettings, ClearSettings, ClearErase, Removing
  <1>4. o.value \in SecretFields /\ Free(o.value, op.ssid)
    <2>1. new \in SecretFields /\ Free(new, op.ssid)
      BY <1>3 DEF Secret, SecretFields, Free, Form, DInv, Inv, TypeOK
    <2> QED
      BY <2>1, <1>2, <1>3 DEF DInv, Inv, TypeOK, Owned
  <1>5. Inv'
    BY SaveSecretInv DEF DInv
  <1>6. /\ Paired' /\ LastTold'
        /\ fields'.p[Key[op.ssid]] = goal.found
        /\ fields'.s[Key[op.ssid]] = o.value
    BY <1>1, <1>3, <1>4, SecretStored DEF ReplaceSecret, SettingsField
  <1>7. CASE o.status = "Ok"
    <2>1. Continues("settings")
      BY <1>1, <1>7
    <2>2. Progress'
      BY <1>2, <1>3, <1>6, <1>7, <2>1, ContinuesSame
         DEF Progress, ReplaceSecret, ReplaceSettings, SettingsField,
             SecretField
    <2> QED
      BY <1>3, <1>5, <1>6, <2>1, <2>2, ContinuesDurable DEF ReplaceSecret
  <1>8. CASE o.status # "Ok"
    BY <1>1, <1>3, <1>5, <1>6, <1>8, ReturnsDurable DEF ReplaceSecret
  <1> QED
    BY <1>7, <1>8

(* Settings are written when the secret they need is already there. *)
LEMMA SaveSettingsDurable ==
  ASSUME DInv, SaveSettings
  PROVE  DInv'
  <1> DEFINE old == fields.p[Key[op.ssid]]
             s == fields.s[Key[op.ssid]]
  <1>1. PICK o \in writeVerified(old, op.settings) :
          /\ fields' = [fields EXCEPT !.p[Key[op.ssid]] = o.value]
          /\ IF o.status = "Ok" /\ op.kind = "Clear"
             THEN Continues("clear") ELSE Returns(o.status)
    BY DEF SaveSettings, Advances, nextStep
  <1>2. o.value \in {old, op.settings}
        /\ (o.status = "Ok" => o.value = op.settings)
    BY <1>1, WriteOutcomes, OkOutcomes
  <1>3. /\ KeepSettings \/ ReplaceSettings \/ ClearSettings
        /\ op.step = "settings" /\ op.ssid \in Networks /\ Saving
        /\ goal.kind = op.kind /\ goal.ssid = op.ssid
        /\ goal.status = "Pending" /\ Key[op.ssid] \in Hashes
    BY FieldAssumption
       DEF SaveSettings, DInv, Inv, Owned, Progress, KeepSettings,
           ReplaceSecret, ReplaceSettings, ClearSettings, ClearErase, Removing
  <1>4. o.value \in SettingsFields /\ Free(o.value, op.ssid)
    BY <1>2, <1>3 DEF DInv, Inv, TypeOK, Owned, Free
  <1>5. Inv'
    BY SaveSettingsInv DEF DInv
  <1>6. /\ Paired' /\ LastTold'
        /\ fields'.p[Key[op.ssid]] = o.value
        /\ fields'.s[Key[op.ssid]] = s
    BY <1>1, <1>3, <1>4, SettingsStored
  <1>7. Loaded(op.settings, s, op.ssid) = goal.target
    <2>1. IF op.settings.security = "Open" THEN op.secret = "none"
                                           ELSE s = Secret(op.ssid, op.secret)
      BY <1>3 DEF Saving, KeepSettings, ReplaceSettings, ClearSettings,
                  SecretField
    <2> QED
      BY <2>1, <1>3, SavedIsLoaded DEF Saving
  <1>8. \/ Loaded(old, s, op.ssid) = goal.prior
        \/ op.kind = "Replace" /\ old = goal.found
    BY <1>3 DEF KeepSettings, ReplaceSettings, ClearSettings, Now,
                SettingsField, SecretField
  <1>9. CASE o.status = "Ok" /\ op.kind = "Clear"
    <2>1. Continues("clear") /\ ClearSettings
      BY <1>1, <1>3, <1>9 DEF KeepSettings, ReplaceSettings
    <2>2. Progress'
      BY <1>2, <1>3, <1>6, <1>9, <2>1, ContinuesSame
         DEF Progress, ClearSettings, ClearErase, SettingsField
    <2> QED
      BY <1>2, <1>3, <1>5, <1>6, <1>7, <1>9, <2>1, <2>2, ContinuesDurable
  <1>10. CASE ~(o.status = "Ok" /\ op.kind = "Clear")
    <2>1. op.kind # "Remove"
      BY <1>3 DEF KeepSettings, ReplaceSettings, ClearSettings
    <2>2. Returns(o.status)
      BY <1>1, <1>10
    <2> QED
      BY <1>2, <1>3, <1>5, <1>6, <1>7, <1>8, <1>10, <2>1, <2>2, ReturnsDurable
  <1> QED
    BY <1>9, <1>10

(* A secret is erased when no settings need it any more. *)
LEMMA SecretErasureDurable ==
  ASSUME DInv, ClearSecret \/ EraseSecret
  PROVE  DInv'
  <1> DEFINE old == fields.s[Key[op.ssid]]
             p == fields.p[Key[op.ssid]]
  <1>1. PICK o \in eraseField(old, NoSecret) :
          /\ fields' = [fields EXCEPT !.s[Key[op.ssid]] = o.value]
          /\ IF o.status = "Ok" /\ op.step = "eraseSecret"
             THEN Continues("forget") ELSE Returns(o.status)
    BY DEF ClearSecret, EraseSecret, Advances, nextStep
  <1>2. o.value \in {old, NoSecret} /\ (o.status = "Ok" => o.value = NoSecret)
    BY <1>1, EraseOutcomes, OkOutcomes
  <1>3. /\ \/ ClearErase /\ op.step = "clear"
           \/ Removing /\ op.step = "eraseSecret"
        /\ op.ssid \in Networks /\ Key[op.ssid] \in Hashes
        /\ goal.kind = op.kind /\ goal.ssid = op.ssid
        /\ goal.status = "Pending"
    BY FieldAssumption
       DEF ClearSecret, EraseSecret, DInv, Inv, Owned, Progress, KeepSettings,
           ReplaceSecret, ReplaceSettings, ClearSettings, ClearErase, Removing
  <1>4. o.value \in SecretFields /\ Free(o.value, op.ssid)
    <2>1. NoSecret \in SecretFields /\ Free(NoSecret, op.ssid)
      BY DEF NoSecret, SecretFields, Free, Form, Secrets
    <2> QED
      BY <2>1, <1>2, <1>3 DEF DInv, Inv, TypeOK, Owned
  <1>5. Inv'
    BY SecretErasureInv DEF DInv
  <1>6. /\ Paired' /\ LastTold'
        /\ fields'.p[Key[op.ssid]] = p
        /\ fields'.s[Key[op.ssid]] = o.value
    BY <1>1, <1>3, <1>4, SecretStored
  <1>7. Loaded(p, o.value, op.ssid) = goal.target
    <2>1. CASE ClearErase
      <3>1. Saving /\ op.kind = "Clear" /\ p = op.settings
        BY <2>1, <1>3 DEF ClearErase, SettingsField
      <3> QED
        BY <3>1, SavedIsLoaded DEF Saving
    <2>2. CASE Removing /\ op.step = "eraseSecret"
      BY <2>2, <1>3, NothingIsLoaded DEF Removing, SettingsField
    <2> QED
      BY <2>1, <2>2, <1>3
  <1>8. CASE o.status = "Ok" /\ op.step = "eraseSecret"
    <2>1. Continues("forget") /\ Removing
      BY <1>1, <1>3, <1>8
    <2>2. Progress'
      BY <1>2, <1>3, <1>6, <1>8, <2>1, ContinuesSame
         DEF Progress, Removing, SettingsField, SecretField
    <2> QED
      BY <1>3, <1>5, <1>6, <1>7, <2>1, <2>2, ContinuesDurable
  <1>9. CASE ~(o.status = "Ok" /\ op.step = "eraseSecret")
    <2>1. Returns(o.status)
      BY <1>1, <1>9
    <2>2. o.status = "Ok" => op.kind = "Clear"
      BY <1>3, <1>9 DEF ClearErase
    <2> QED
      BY <1>2, <1>3, <1>5, <1>6, <1>7, <2>1, <2>2, ReturnsDurable
  <1> QED
    BY <1>8, <1>9

(* A removal starts with the settings, so that no profile is left that     *)
(* cannot be read.                                                         *)
LEMMA EraseSettingsDurable ==
  ASSUME DInv, EraseSettings
  PROVE  DInv'
  <1> DEFINE old == fields.p[Key[op.ssid]]
             s == fields.s[Key[op.ssid]]
  <1>1. PICK o \in eraseField(old, NoSettings) :
          /\ fields' = [fields EXCEPT !.p[Key[op.ssid]] = o.value]
          /\ IF o.status = "Ok" THEN Continues("eraseSecret")
                                ELSE Returns(o.status)
    BY DEF EraseSettings
  <1>2. o.value \in {old, NoSettings}
        /\ (o.status = "Ok" => o.value = NoSettings)
    BY <1>1, EraseOutcomes, OkOutcomes
  <1>3. /\ Removing /\ op.step = "eraseSettings"
        /\ op.ssid \in Networks /\ Key[op.ssid] \in Hashes
        /\ goal.kind = op.kind /\ goal.ssid = op.ssid
        /\ goal.status = "Pending"
    BY FieldAssumption
       DEF EraseSettings, DInv, Inv, Owned, Progress, KeepSettings,
           ReplaceSecret, ReplaceSettings, ClearSettings, ClearErase, Removing
  <1>4. o.value \in SettingsFields /\ Free(o.value, op.ssid)
    <2>1. NoSettings \in SettingsFields /\ Free(NoSettings, op.ssid)
      BY DEF NoSettings, SettingsFields, Free, Form
    <2> QED
      BY <2>1, <1>2, <1>3 DEF DInv, Inv, TypeOK, Owned
  <1>5. Inv'
    BY EraseSettingsInv DEF DInv
  <1>6. /\ Paired' /\ LastTold'
        /\ fields'.p[Key[op.ssid]] = o.value
        /\ fields'.s[Key[op.ssid]] = s
    BY <1>1, <1>3, <1>4, SettingsStored
  <1>7. /\ Loaded(old, s, op.ssid) = goal.prior
        /\ Loaded(NoSettings, s, op.ssid) = goal.target
    BY <1>3, NothingIsLoaded DEF Removing, Now, SettingsField, SecretField
  <1>8. CASE o.status = "Ok"
    <2>1. Continues("eraseSecret")
      BY <1>1, <1>8
    <2>2. Progress'
      BY <1>2, <1>3, <1>6, <1>8, <2>1, ContinuesSame
         DEF Progress, Removing, SettingsField
    <2> QED
      BY <1>2, <1>3, <1>5, <1>6, <1>7, <2>1, <2>2, ContinuesDurable
  <1>9. CASE o.status # "Ok"
    BY <1>1, <1>2, <1>3, <1>5, <1>6, <1>7, <1>9, ReturnsDurable
  <1> QED
    BY <1>8, <1>9

(* A removal ends with the last SSID, unless that is another one. *)
LEMMA ForgetLastDurable ==
  ASSUME DInv, NEW unreadable, ForgetLast(unreadable)
  PROVE  DInv'
  <1> DEFINE status == Ownership(fields.last, op.ssid, "last" \in unreadable)
  <1>1. /\ Removing /\ op.step = "forget"
        /\ op.ssid \in Networks /\ op.ssid # NoNetwork
        /\ fields.p[Key[op.ssid]] = NoSettings
        /\ fields.s[Key[op.ssid]] = NoSecret
    BY FieldAssumption
       DEF ForgetLast, DInv, Inv, Owned, Progress, KeepSettings, ReplaceSecret,
           ReplaceSettings, ClearSettings, ClearErase, Removing,
           SettingsField, SecretField
  <1>2. /\ Loaded(NoSettings, NoSecret, op.ssid) = goal.target
        /\ op.kind = "Remove"
    BY <1>1, NothingIsLoaded DEF Removing
  <1>3. Inv'
    BY ForgetLastInv DEF DInv
  <1>4. CASE status = "Ok"
    <2>1. PICK o \in eraseField(fields.last, NoLast) :
            /\ fields' = [fields EXCEPT !.last = o.value]
            /\ Returns(o.status)
      BY <1>4 DEF ForgetLast
    <2>2. /\ o.value \in {fields.last, NoLast}
          /\ o.status = "Ok" => o.value = NoLast
      BY <2>1, EraseOutcomes, OkOutcomes
    <2>3. /\ fields'.p = fields.p /\ fields'.s = fields.s
          /\ fields'.last = o.value
      BY <2>1 DEF DInv, Inv, TypeOK
    <2>4. Paired' /\ LastTold'
      BY <2>2, <2>3 DEF DInv, Paired, LastTold, NoLast
    <2>5. o.status = "Ok" => fields'.last.ssid # op.ssid
      BY <1>1, <2>2, <2>3 DEF NoLast
    <2> QED
      BY <1>1, <1>2, <1>3, <2>1, <2>3, <2>4, <2>5, ReturnsDurable
  <1>5. CASE status # "Ok"
    <2>1. fields' = fields
      BY <1>5 DEF ForgetLast
    <2>2. PICK answer :
            /\ Returns(answer)
            /\ answer = "Ok" => status \in {"NotFound", "HashCollision"}
      BY <1>5 DEF ForgetLast
    <2>3. answer = "Ok" => fields.last.ssid # op.ssid
      BY <1>1, <2>2 DEF Ownership, DInv, LastTold
    <2>4. Paired' /\ LastTold'
      BY <2>1 DEF DInv, Paired, LastTold
    <2> QED
      BY <1>1, <1>2, <1>3, <2>1, <2>2, <2>3, <2>4, ReturnsDurable
  <1> QED
    BY <1>4, <1>5

(* A power cut leaves what the last step left. *)
LEMMA PowerFailsDurable ==
  ASSUME DInv, PowerFails
  PROVE  DInv'
  <1>1. fields' = fields /\ Returns("Interrupted") /\ op.step # "None"
    BY DEF PowerFails, DInv, Idling
  <1>2. Inv' /\ Paired' /\ LastTold'
    BY <1>1, PowerFailsInv DEF DInv, Paired, LastTold
  <1>3. /\ goal.kind = op.kind /\ goal.ssid = op.ssid /\ op.kind # "None"
    BY <1>1 DEF DInv, Progress, KeepSettings, ReplaceSecret, ReplaceSettings,
                ClearSettings, ClearErase, Removing
  <1> QED
    BY <1>1, <1>2, <1>3, ReturnsDurable
       DEF DInv, Left, Now, SettingsField, SecretField

(* A call that has just been recorded leaves the profile as it found it. *)
LEMMA BegunDurable ==
  ASSUME DInv, NEW kind, kind # "None", NEW ssid \in Networks,
         NEW target, NEW status, goal' = Begun(kind, ssid, target, status),
         fields'.p = fields.p, fields'.s = fields.s
  PROVE  /\ goal'.kind = kind /\ goal'.ssid = ssid /\ goal'.target = target
         /\ goal'.status = status
         /\ Now' = read(ssid, {}) /\ goal'.prior = read(ssid, {})
         /\ SettingsField' = goal'.found
         /\ SettingsField' = fields.p[Key[ssid]]
         /\ SecretField' = fields.s[Key[ssid]]
         /\ Paired' /\ Left' /\ Started'
  <1>1. /\ goal'.kind = kind /\ goal'.ssid = ssid /\ goal'.target = target
        /\ goal'.status = status /\ goal'.prior = read(ssid, {})
        /\ goal'.found = fields.p[Key[ssid]]
    BY DEF Begun
  <1>2. /\ SettingsField' = fields.p[Key[ssid]]
        /\ SecretField' = fields.s[Key[ssid]]
    BY <1>1 DEF SettingsField, SecretField
  <1>3. Now' = read(ssid, {})
    BY <1>1, <1>2, ReadIsLoaded DEF Now, DInv, Inv
  <1> QED
    BY <1>1, <1>2, <1>3 DEF DInv, Paired, Left, Started

(* saveProfile() starts with a secret that the new settings take. *)
LEMMA SaveProfileDurable ==
  ASSUME DInv, NEW settings \in SettingsFields, settings.ssid \in Networks,
         settings.form = "valid",
         NEW intent \in {"Keep", "Replace", "Clear"},
         NEW replacement \in Secrets, NEW unreadable, NEW again,
         SaveProfile(settings, intent, replacement, unreadable, again)
  PROVE  DInv'
  <1> DEFINE ssid == settings.ssid
             status == saveStatus(settings, intent, replacement, unreadable,
                                  again)
             secret == IF intent = "Keep" THEN read(ssid, {}).secret
                       ELSE replacement
             s == fields.s[Key[ssid]]
  <1>1. fields' = fields /\ op = NoOp
    BY DEF SaveProfile
  <1>2. Inv' /\ LastTold'
    BY <1>1, SaveProfileInv DEF DInv, LastTold
  <1>3. CASE status = "Ok"
    <2>1. op' = Op(intent, nextStep(intent, "None"), settings, secret)
      BY <1>3 DEF SaveProfile
    <2>2. /\ op'.kind = intent /\ op'.ssid = ssid /\ op'.settings = settings
          /\ op'.secret = secret
          /\ op'.step = IF intent = "Replace" THEN "secret" ELSE "settings"
      BY <2>1 DEF Op, nextStep
    <2>3. goal' = Begun(intent, ssid, Profile("Ok", settings, secret),
                        "Pending")
      BY <1>3 DEF SaveProfile
    <2>4. /\ settings.security = "Open" =>
               intent = "Clear" /\ replacement = "none"
          /\ intent = "Clear" => replacement = "none"
          /\ intent = "Keep" => read(ssid, again).status = "Ok"
          /\ Validate(settings.security,
                      IF intent = "Keep" THEN read(ssid, again).secret
                      ELSE replacement) = "Ok"
      BY <1>3 DEF saveStatus
    <2>5. intent = "Keep" => read(ssid, {}) = read(ssid, again)
      BY <2>4, ReadAgain DEF DInv, Inv
    <2>6. /\ Validate(settings.security, secret) = "Ok"
          /\ intent = "Clear" <=> settings.security = "Open"
          /\ intent = "Clear" => secret = "none"
      BY <2>4, <2>5, OpenTakesNone
    <2>7. intent = "Keep" => s = Secret(ssid, secret)
      <3> SUFFICES ASSUME intent = "Keep" PROVE s = Secret(ssid, secret)
        OBVIOUS
      <3>1. read(ssid, {}).status = "Ok" /\ secret # "none"
        BY <2>4, <2>5, <2>6, OpenTakesNone
      <3>2. s.form = "valid" /\ s.ssid = ssid /\ s.secret = secret
        BY <3>1, ReadIsLoaded
           DEF DInv, Inv, Loaded, NoProfile, Profile
      <3>3. s \in SecretFields
        BY FieldAssumption DEF DInv, Inv, TypeOK
      <3> QED
        BY <3>2, <3>3 DEF Secret, SecretFields
    <2>8. /\ goal'.kind = intent /\ goal'.ssid = ssid
          /\ goal'.target = Profile("Ok", settings, secret)
          /\ goal'.status = "Pending" /\ Now' = goal'.prior
          /\ SettingsField' = goal'.found /\ SecretField' = s
          /\ Paired' /\ Left' /\ Started'
      BY <1>1, <2>3, BegunDurable
    <2>9. Saving'
      BY <2>2, <2>6, <2>8 DEF Saving
    <2>10. Progress'
      BY <2>2, <2>7, <2>8, <2>9
         DEF Progress, KeepSettings, ReplaceSecret, ClearSettings
    <2> QED
      BY <1>2, <2>2, <2>8, <2>10 DEF DInv, Answered, Idling
  <1>4. CASE status # "Ok"
    <2>1. op' = op /\ goal' = Begun(intent, ssid, read(ssid, {}), status)
      BY <1>4 DEF SaveProfile
    <2>2. goal'.status = status /\ Paired' /\ Left' /\ Started'
      BY <1>1, <2>1, BegunDurable
    <2> QED
      BY <1>1, <1>2, <1>4, <2>1, <2>2
         DEF DInv, Answered, Idling, Progress, NoOp
  <1> QED
    BY <1>3, <1>4

(* removeProfile() starts with everything in place. *)
LEMMA RemoveProfileDurable ==
  ASSUME DInv, NEW ssid \in Networks, NEW unreadable,
         RemoveProfile(ssid, unreadable)
  PROVE  DInv'
  <1> DEFINE status == checkIdentity(ssid, unreadable)
  <1>1. fields' = fields /\ op = NoOp
    BY DEF RemoveProfile
  <1>2. Inv' /\ LastTold'
    BY <1>1, RemoveProfileInv DEF DInv, LastTold
  <1>3. CASE status = "Ok"
    <2>1. op' = [NoOp EXCEPT !.kind = "Remove", !.step = "eraseSettings",
                             !.ssid = ssid]
      BY <1>3 DEF RemoveProfile
    <2>2. goal' = Begun("Remove", ssid, NoProfile("NotFound"), "Pending")
      BY <1>3 DEF RemoveProfile
    <2>3. op'.kind = "Remove" /\ op'.step = "eraseSettings" /\ op'.ssid = ssid
      BY <2>1 DEF NoOp
    <2>4. /\ goal'.kind = "Remove" /\ goal'.ssid = ssid
          /\ goal'.target = NoProfile("NotFound")
          /\ goal'.status = "Pending" /\ Now' = goal'.prior
          /\ Paired' /\ Left' /\ Started'
      BY <1>1, <2>2, BegunDurable
    <2>5. Progress'
      BY <2>3, <2>4 DEF Progress, Removing
    <2> QED
      BY <1>2, <2>3, <2>4, <2>5 DEF DInv, Answered, Idling
  <1>4. CASE status # "Ok"
    <2>1. op' = op /\ goal' = Begun("Remove", ssid, read(ssid, {}), status)
      BY <1>4 DEF RemoveProfile
    <2>2. goal'.status = status /\ Paired' /\ Left' /\ Started'
      BY <1>1, <2>1, BegunDurable
    <2> QED
      BY <1>1, <1>2, <1>4, <2>1, <2>2
         DEF DInv, Answered, Idling, Progress, NoOp
  <1> QED
    BY <1>3, <1>4

(* writeLastProfile() answers kOk only once the SSID is stored. *)
LEMMA WriteLastDurable ==
  ASSUME DInv, NEW ssid \in Networks, WriteLastProfile(ssid)
  PROVE  DInv'
  <1> DEFINE new == [form |-> "valid", ssid |-> ssid]
  <1>1. PICK o \in writeVerified(fields.last, new) :
          /\ fields' = [fields EXCEPT !.last = o.value]
          /\ goal' = Begun("Last", ssid, read(ssid, {}), o.status)
    BY DEF WriteLastProfile
  <1>2. o.value \in {fields.last, new} /\ (o.status = "Ok" => o.value = new)
    BY <1>1, WriteOutcomes, OkOutcomes
  <1>3. /\ fields'.p = fields.p /\ fields'.s = fields.s
        /\ fields'.last = o.value /\ op' = op /\ op = NoOp
    BY <1>1 DEF WriteLastProfile, DInv, Inv, TypeOK
  <1>4. Inv'
    BY WriteLastInv DEF DInv
  <1>5. /\ goal'.kind = "Last" /\ goal'.ssid = ssid
        /\ goal'.target = Now' /\ goal'.status = o.status
        /\ Paired' /\ Left' /\ Started'
    BY <1>1, <1>3, BegunDurable
  <1>6. LastTold'
    BY <1>2, <1>3 DEF DInv, LastTold
  <1>7. Answered'
    BY <1>2, <1>3, <1>5 DEF Answered
  <1> QED
    BY <1>3, <1>4, <1>5, <1>6, <1>7 DEF DInv, Idling, Progress, NoOp

(* Every step keeps the invariant. *)
LEMMA NextDurable ==
  ASSUME DInv, [Next]_vars
  PROVE  DInv'
  <1>1. CASE Calls
    <2>1. ASSUME NEW ssid \in Networks, NEW security \in Securities,
                 NEW mark \in Marks,
                 NEW intent \in {"Keep", "Replace", "Clear"},
                 NEW replacement \in Secrets, NEW unreadable, NEW again,
                 SaveProfile(Settings(ssid, security, mark), intent,
                             replacement, unreadable, again)
          PROVE  DInv'
      <3>1. /\ Settings(ssid, security, mark) \in SettingsFields
            /\ Settings(ssid, security, mark).ssid = ssid
            /\ Settings(ssid, security, mark).form = "valid"
        BY DEF Settings, SettingsFields, Form
      <3> QED
        BY <2>1, <3>1, SaveProfileDurable
    <2>2. ASSUME NEW ssid \in Networks, NEW unreadable,
                 RemoveProfile(ssid, unreadable)
          PROVE  DInv'
      BY <2>2, RemoveProfileDurable
    <2>3. ASSUME NEW ssid \in Networks, WriteLastProfile(ssid)
          PROVE  DInv'
      BY <2>3, WriteLastDurable
    <2>4. "none" \in Secrets
      BY DEF Secrets
    <2> QED
      BY <1>1, <2>1, <2>2, <2>3, <2>4 DEF Calls
  <1>2. CASE Steps
    BY <1>2, SaveSecretDurable, SaveSettingsDurable, SecretErasureDurable,
       EraseSettingsDurable, ForgetLastDurable DEF Steps
  <1>3. CASE PowerFails
    BY <1>3, PowerFailsDurable
  <1>4. CASE UNCHANGED vars
    <2>1. Inv'
      BY NextInv DEF DInv
    <2> QED
      BY <1>4, <2>1
         DEF vars, DInv, Paired, LastTold, Progress, Saving, KeepSettings,
             ReplaceSecret, ReplaceSettings, ClearSettings, ClearErase,
             Removing, Answered, Left, Now, SettingsField, SecretField,
             Idling, Started
  <1> QED
    BY <1>1, <1>2, <1>3, <1>4 DEF Next

-----------------------------------------------------------------------------
(* Results *)

(* The invariant holds throughout. *)
LEMMA Durable == Spec => []DInv
  <1>1. DInv /\ [Next]_vars => DInv'
    BY NextDurable
  <1> QED
    BY InitDurable, <1>1, PTL DEF Spec

(* Now is what a load of the SSID of the latest operation returns. *)
LEMMA NowIsRead ==
  ASSUME DInv, goal.kind # "None"
  PROVE  goal.ssid \in Networks /\ read(goal.ssid, {}) = Now
  <1>1. goal.ssid \in Networks
    BY DEF DInv, Left
  <1> QED
    BY <1>1, ReadIsLoaded DEF DInv, Inv, Now, SettingsField, SecretField

(* An enumeration that succeeds lists exactly the SSIDs whose load finds   *)
(* something of their own, a profile or a broken one.                      *)
LEMMA EnumerationTells ==
  ASSUME TypeOK, Paired, NEW ssid \in Networks,
         enumerateProfiles.status = "Ok"
  PROVE  ssid \in enumerateProfiles.ssids
           <=> read(ssid, {}).status \notin {"NotFound", "HashCollision"}
  <1> DEFINE k == Key[ssid]
             p == fields.p[k]
             s == fields.s[k]
  <1>1. k \in Hashes /\ p.form \in Form /\ s.form \in Form
    BY FieldAssumption DEF TypeOK, SettingsFields, SecretFields
  <1>2. \A key \in Hashes : visitProfile(key) = "Ok"
    BY DEF enumerateProfiles
  <1>3. ASSUME ssid \in enumerateProfiles.ssids
        PROVE  p.form = "valid" /\ p.ssid = ssid
    <2>1. PICK key \in Hashes : /\ fields.p[key].form = "valid"
                                /\ fields.p[key].ssid = ssid
      BY <1>3 DEF enumerateProfiles
    <2>2. Key[ssid] = key
      BY <1>2, <2>1 DEF visitProfile
    <2> QED
      BY <2>1, <2>2
  <1>4. ASSUME p.form = "valid", p.ssid = ssid
        PROVE  ssid \in enumerateProfiles.ssids
    BY <1>1, <1>4 DEF enumerateProfiles
  <1>5. p.form # "corrupt"
    BY <1>1, <1>2 DEF visitProfile
  <1>6. read(ssid, {}).status \notin {"NotFound", "HashCollision"}
          <=> p.form = "valid" /\ p.ssid = ssid
    <2>1. p.form = "valid" /\ p.ssid = ssid /\ s.form = "valid"
            => s.ssid = ssid
      BY <1>1 DEF Paired
    <2> QED
      BY <1>1, <1>5, <2>1, ReadIsLoaded DEF Loaded, NoProfile, Profile, Form
  <1> QED
    BY <1>3, <1>4, <1>6

(* Whatever fails and wherever power is cut, an operation that replaces no *)
(* secret leaves the profile as it was or as it should become: the order   *)
(* of the writes of saveProfile() and removeProfile() is sufficient.       *)
THEOREM OperationsAreAtomic == Spec => []NothingPartial
  <1>1. DInv => NothingPartial
    BY NowIsRead DEF DInv, Left, NothingPartial
  <1> QED
    BY <1>1, Durable, PTL

(* New settings are never read with the secret they replace. *)
THEOREM SecretsComeFirst == Spec => []SecretFirst
  <1>1. DInv => SecretFirst
    BY NowIsRead DEF DInv, Left, SecretFirst, SettingsField
  <1> QED
    BY <1>1, Durable, PTL

(* A removal or a save as open that answers kOk leaves no secret behind.   *)
THEOREM SecretsAreErased == Spec => []SecretsErased
  <1>1. DInv => SecretsErased
    <2> SUFFICES ASSUME DInv, goal.status = "Ok",
                        goal.kind \in {"Remove", "Clear"}
                 PROVE  Ownership(SecretField, goal.ssid, FALSE) # "Ok"
      BY DEF SecretsErased, SecretField
    <2>1. SecretField.form \in Form
      BY NowIsRead, FieldAssumption
         DEF DInv, Inv, TypeOK, SecretFields, SecretField
    <2>2. ~(SecretField.form = "valid" /\ SecretField.ssid = goal.ssid)
      BY DEF DInv, Answered
    <2> QED
      BY <2>1, <2>2 DEF Ownership, Form
  <1> QED
    BY <1>1, Durable, PTL

(* What was answered with kOk is what a later load and enumeration tell,   *)
(* for any SSIDs that share a key.                                         *)
THEOREM AnswersAreDurable == Spec => []OkIsDurable
  <1>1. DInv => OkIsDurable
    <2> SUFFICES ASSUME DInv, goal.status = "Ok" PROVE OkIsDurable
      BY DEF OkIsDurable
    <2>1. goal.kind # "None"
      BY DEF DInv, Started
    <2>2. goal.ssid \in Networks /\ read(goal.ssid, {}) = goal.target
      BY <2>1, NowIsRead DEF DInv, Answered
    <2>3. enumerateProfiles.status = "Ok" =>
            (goal.ssid \in enumerateProfiles.ssids
               <=> goal.target.status \notin {"NotFound", "HashCollision"})
      BY <2>2, EnumerationTells DEF DInv, Inv
    <2> QED
      BY <2>2, <2>3 DEF DInv, Answered, OkIsDurable
  <1> QED
    BY <1>1, Durable, PTL

-----------------------------------------------------------------------------
(***************************************************************************)
(* The refinement: a caller cannot tell two separately committed fields    *)
(* from a store of whole profiles.                                         *)
(*                                                                         *)
(* A call is a Begins or Refuses step, writeLastProfile() a Remembers      *)
(* step, and everything after that, a power cut included, a Works step.    *)
(* The argument about other SSIDs is that of OthersSeen: with another key  *)
(* their fields are untouched, and with the same key they have no profile  *)
(* before or after.  The one step that is not atomic to the caller is the  *)
(* write of a replaced secret (SaveSecretRefines).                         *)
(***************************************************************************)

(* The caller's view of a profile, of the last SSID and of the operation. *)
Shown(profile) ==
  IF profile.status = "HashCollision" THEN NoProfile("NotFound") ELSE profile

LastShown == IF fields.last.form = "valid" THEN fields.last.ssid ELSE NoNetwork

CallShown ==
  IF op = NoOp THEN Call("None", NoNetwork, NoProfile("NotFound"))
               ELSE Call(goal.kind, goal.ssid, goal.target)

(* Seen in terms of the two fields, before and after a step. *)
LEMMA SeenIsShown ==
  ASSUME TypeOK, TypeOK', NEW ssid \in Networks
  PROVE  /\ Seen(ssid) = Shown(Loaded(fields.p[Key[ssid]],
                                      fields.s[Key[ssid]], ssid))
         /\ Seen(ssid)' = Shown(Loaded(fields'.p[Key[ssid]],
                                       fields'.s[Key[ssid]], ssid))
  <1>1. read(ssid, {})' = Loaded(fields'.p[Key[ssid]], fields'.s[Key[ssid]],
                                 ssid)
    <2>1. /\ fields'.p[Key[ssid]].form \in Form
          /\ fields'.s[Key[ssid]].form \in Form
      BY FieldAssumption DEF TypeOK, SettingsFields, SecretFields
    <2> QED
      BY <2>1 DEF read, Loaded, Ownership, Form
  <1> QED
    BY <1>1, ReadIsLoaded DEF Seen, Shown

(* Nothing else is seen while the profile fields stay as they are. *)
LEMMA NothingSeen ==
  ASSUME TypeOK, TypeOK', fields'.p = fields.p, fields'.s = fields.s
  PROVE  [ssid \in Networks |-> Seen(ssid)]'
           = [ssid \in Networks |-> Seen(ssid)]
  BY SeenIsShown

(* The key of the operation shows its own SSID what is loaded. *)
LEMMA OwnSeen ==
  ASSUME NEW p, NEW s, NEW ssid, Free(p, ssid), Free(s, ssid)
  PROVE  Shown(Loaded(p, s, ssid)) = Loaded(p, s, ssid)
  BY DEF Shown, Loaded, Free, NoProfile, Profile

(* It shows any other SSID no profile. *)
LEMMA OthersSeenNothing ==
  ASSUME NEW p, NEW s, NEW ssid, NEW other, other # ssid, Free(p, ssid)
  PROVE  Shown(Loaded(p, s, other)) = NoProfile("NotFound")
  BY DEF Shown, Loaded, Free, NoProfile, Profile

(* A step of an operation is seen by its own SSID alone. *)
LEMMA OthersSeen ==
  ASSUME DInv, TypeOK', op.step # "None",
         \A k \in Hashes : k # Key[op.ssid] => /\ fields'.p[k] = fields.p[k]
                                              /\ fields'.s[k] = fields.s[k],
         Free(fields'.p[Key[op.ssid]], op.ssid),
         NEW other \in Networks, other # op.ssid
  PROVE  Seen(other)' = Seen(other)
  <1>1. Key[other] \in Hashes /\ TypeOK /\ Free(fields.p[Key[op.ssid]], op.ssid)
    BY FieldAssumption DEF DInv, Inv, Owned
  <1>2. CASE Key[other] = Key[op.ssid]
    BY <1>1, <1>2, SeenIsShown, OthersSeenNothing
  <1>3. CASE Key[other] # Key[op.ssid]
    BY <1>1, <1>3, SeenIsShown
  <1> QED
    BY <1>2, <1>3

(* A step of an operation that ends it or goes on, in the caller's terms.  *)
LEMMA WorksStep ==
  ASSUME DInv, DInv', op.step # "None",
         \A k \in Hashes : k # Key[op.ssid] => /\ fields'.p[k] = fields.p[k]
                                              /\ fields'.s[k] = fields.s[k],
         Free(fields'.p[Key[op.ssid]], op.ssid),
         Free(fields'.s[Key[op.ssid]], op.ssid),
         \/ \E step : step # "None" /\ Continues(step)
         \/ \E st : Returns(st),
         LET before == Loaded(fields.p[Key[op.ssid]], fields.s[Key[op.ssid]],
                              op.ssid)
             now == Loaded(fields'.p[Key[op.ssid]], fields'.s[Key[op.ssid]],
                           op.ssid)
         IN  \/ now \in {before, goal.target}
             \/ /\ goal.kind = "Replace" /\ before # goal.target
                /\ \/ now.status = "Corrupt"
                   \/ /\ now.status = "Ok" /\ now.secret = goal.target.secret
                      /\ before.status = "Ok" => now.settings = before.settings,
         \/ LastShown' = LastShown
         \/ /\ LastShown' = NoNetwork /\ LastShown = op.ssid
            /\ op.kind = "Remove",
         op.kind = "Remove" /\ goal'.status = "Ok" => LastShown' # op.ssid
  PROVE  Store!Works
  <1> DEFINE n == op.ssid
             k == Key[op.ssid]
             before == Loaded(fields.p[k], fields.s[k], n)
             now == Loaded(fields'.p[k], fields'.s[k], n)
             seen == [ssid \in Networks |-> Seen(ssid)]
             next == [ssid \in Networks |-> Seen(ssid)']
  <1>1. /\ n \in Networks /\ k \in Hashes /\ TypeOK /\ TypeOK'
        /\ Free(fields.p[k], n) /\ Free(fields.s[k], n)
    BY FieldAssumption DEF DInv, Inv, Owned
  <1>2. /\ goal.kind = op.kind /\ goal.ssid = n /\ goal.status = "Pending"
        /\ op.kind # "None" /\ op # NoOp
    BY DEF DInv, Progress, KeepSettings, ReplaceSecret, ReplaceSettings,
           ClearSettings, ClearErase, Removing, NoOp
  <1>3. \A m \in Networks : m = n => Seen(m) = before /\ Seen(m)' = now
    BY <1>1, SeenIsShown, OwnSeen, SMTT(30)
  <1>4. next = [seen EXCEPT ![n] = next[n]] /\ next[n] = now /\ seen[n] = before
    <2>1. next[n] = now /\ seen[n] = before
      BY <1>1, <1>3
    <2>2. \A m \in Networks : m # n => Seen(m)' = Seen(m)
      BY <1>1, OthersSeen
    <2> QED
      BY <2>1, <2>2
  <1>5. CallShown = Call(op.kind, n, goal.target)
    BY <1>2 DEF CallShown
  <1>6. \/ CallShown' = CallShown /\ goal'.status = goal.status /\ op' # NoOp
        \/ CallShown' = Call("None", NoNetwork, NoProfile("NotFound"))
           /\ (goal'.status = "Ok" => now = goal.target)
    <2>1. CASE \E step : step # "None" /\ Continues(step)
      <3>1. goal' = goal /\ op'.step # "None"
        BY <2>1, ContinuesSame
      <3> QED
        BY <1>2, <3>1 DEF CallShown, NoOp
    <2>2. CASE \E st : Returns(st)
      <3>1. /\ op' = NoOp /\ goal'.ssid = goal.ssid
            /\ goal'.target = goal.target
        BY <2>2 DEF Returns, DInv, Inv, TypeOK
      <3>2. goal'.status = "Ok" => Now' = goal'.target
        BY DEF DInv, Answered
      <3>3. Now' = now
        BY <1>2, <3>1 DEF Now, SettingsField, SecretField
      <3> QED
        BY <3>1, <3>2, <3>3 DEF CallShown
    <2> QED
      BY <2>1, <2>2
  <1>7. op.kind = "Remove" /\ goal'.status = "Ok" => LastShown' # n
    OBVIOUS
  <1>8. ~Store!Idle
    BY <1>2, <1>5 DEF Store!Idle, CallShown, Call
  <1>9. Store!Halfway(before, now) \/ now \in {before, goal.target}
    BY <1>2, <1>5 DEF Store!Halfway, CallShown, Call
  <1> HIDE DEF before, now
  <1>10. Store!Ended => CallShown' # CallShown
    BY <1>2, <1>5 DEF Store!Ended, CallShown, Call
  <1> QED
    BY <1>2, <1>4, <1>5, <1>6, <1>7, <1>8, <1>9, <1>10
       DEF Store!Works, Store!Ended, CallShown, LastShown, Call

(* A call shows in its answer, or in the operation it begins. *)
LEMMA CallsShown ==
  ASSUME DInv, DInv', op = NoOp, fields'.p = fields.p, fields'.s = fields.s,
         LastShown' = LastShown,
         \/ op' = NoOp /\ goal'.status # "Ok"
         \/ op' # NoOp
  PROVE  Store!Refuses \/ Store!Begins
  <1>1. [ssid \in Networks |-> Seen(ssid)]'
          = [ssid \in Networks |-> Seen(ssid)]
    BY NothingSeen DEF DInv, Inv
  <1>2. CallShown = Call("None", NoNetwork, NoProfile("NotFound"))
    BY DEF CallShown
  <1>3. CASE op' = NoOp /\ goal'.status # "Ok"
    <2>1. CallShown' = Call("None", NoNetwork, NoProfile("NotFound"))
      BY <1>3 DEF CallShown
    <2> QED
      BY <1>1, <1>2, <1>3, <2>1
         DEF Store!Refuses, Store!Idle, Store!Ended, CallShown, Call, LastShown
  <1>4. CASE op' # NoOp
    <2>1. /\ goal'.kind # "None" /\ goal'.ssid \in Networks
          /\ goal'.status = "Pending"
      BY <1>4 DEF DInv, Idling, Progress, Inv, Owned, KeepSettings,
                  ReplaceSecret, ReplaceSettings, ClearSettings, ClearErase,
                  Removing
    <2>2. CallShown' = Call(goal'.kind, goal'.ssid, goal'.target)
      BY <1>4 DEF CallShown
    <2> QED
      BY <1>1, <1>2, <2>1, <2>2
         DEF Store!Begins, Store!Idle, Store!Ended, CallShown, Call, LastShown
  <1> QED
    BY <1>3, <1>4

(* writeLastProfile() is seen by no profile. *)
LEMMA WriteLastRefines ==
  ASSUME DInv, DInv', NEW ssid \in Networks, WriteLastProfile(ssid)
  PROVE  Store!Remembers
  <1> DEFINE new == [form |-> "valid", ssid |-> ssid]
  <1>1. PICK o \in writeVerified(fields.last, new) :
          /\ fields' = [fields EXCEPT !.last = o.value]
          /\ goal' = Begun("Last", ssid, read(ssid, {}), o.status)
    BY DEF WriteLastProfile
  <1>2. o.value \in {fields.last, new} /\ (o.status = "Ok" => o.value = new)
    BY <1>1, WriteOutcomes, OkOutcomes
  <1>3. /\ fields'.p = fields.p /\ fields'.s = fields.s
        /\ fields'.last = o.value /\ op' = NoOp /\ op = NoOp
        /\ goal'.status = o.status
    BY <1>1 DEF WriteLastProfile, DInv, Inv, TypeOK, Begun
  <1>4. [m \in Networks |-> Seen(m)]' = [m \in Networks |-> Seen(m)]
    BY <1>3, NothingSeen DEF DInv, Inv
  <1>5. /\ CallShown = Call("None", NoNetwork, NoProfile("NotFound"))
        /\ CallShown' = Call("None", NoNetwork, NoProfile("NotFound"))
    BY <1>3 DEF CallShown
  <1>6. \E n \in Networks : \/ LastShown' = n
                            \/ LastShown' = LastShown /\ goal'.status # "Ok"
    BY <1>2, <1>3 DEF LastShown
  <1> QED
    BY <1>4, <1>5, <1>6
       DEF Store!Remembers, Store!Idle, Store!Ended, CallShown, Call, LastShown

(* With its new secret, a profile is read with the settings it had or not  *)
(* at all, unless it already was what it should become.                    *)
LEMMA SecretHalfway ==
  ASSUME NEW p, NEW s \in SecretFields, NEW ssid, NEW settings, NEW secret,
         Free(p, ssid), settings.security # "Open"
  PROVE  LET before == Loaded(p, s, ssid)
             now == Loaded(p, Secret(ssid, secret), ssid)
             target == Profile("Ok", settings, secret)
         IN  \/ now = before
             \/ /\ before # target
                /\ \/ now.status = "Corrupt"
                   \/ /\ now.status = "Ok" /\ now.secret = target.secret
                      /\ before.status = "Ok" => now.settings = before.settings
  <1> DEFINE before == Loaded(p, s, ssid)
             now == Loaded(p, Secret(ssid, secret), ssid)
             target == Profile("Ok", settings, secret)
  <1>1. CASE p.form = "absent" \/ p.security = "Open"
    BY <1>1 DEF Loaded, Free
  <1>2. CASE p.form = "valid" /\ p.ssid = ssid /\ p.security # "Open"
    <2>1. \/ now = NoProfile("Corrupt")
          \/ now = Profile("Ok", p, secret)
      BY <1>2 DEF Loaded, Secret
    <2>2. before.status = "Ok" => before.settings = p
      BY <1>2 DEF Loaded, NoProfile, Profile
    <2>3. before = target => now = before
      <3> SUFFICES ASSUME before = target PROVE now = before
        OBVIOUS
      <3>1. before.status = "Ok" /\ before.secret = secret
        BY DEF Profile
      <3>2. s.form = "valid" /\ s.ssid = ssid /\ s.secret = secret
        BY <1>2, <3>1 DEF Loaded, NoProfile, Profile
      <3>3. s = Secret(ssid, secret)
        BY <3>2 DEF Secret, SecretFields
      <3> QED
        BY <3>3
    <2> QED
      BY <2>1, <2>2, <2>3 DEF NoProfile, Profile
  <1> QED
    BY <1>1, <1>2 DEF Free

(* Writing a replaced secret. *)
LEMMA SaveSecretRefines ==
  ASSUME DInv, DInv', SaveSecret
  PROVE  Store!Works
  <1> DEFINE new == Secret(op.ssid, op.secret)
             old == fields.s[Key[op.ssid]]
             p == fields.p[Key[op.ssid]]
  <1>1. PICK o \in writeVerified(old, new) :
          /\ fields' = [fields EXCEPT !.s[Key[op.ssid]] = o.value]
          /\ IF o.status = "Ok" THEN Continues("settings")
                                ELSE Returns(o.status)
    BY DEF SaveSecret, Advances, nextStep
  <1>2. o.value \in {old, new}
    BY <1>1, WriteOutcomes
  <1>3. ReplaceSecret /\ op.step = "secret" /\ op.ssid \in Networks
        /\ goal.kind = op.kind /\ goal.ssid = op.ssid
        /\ Key[op.ssid] \in Hashes
        /\ Free(p, op.ssid) /\ Free(old, op.ssid) /\ old \in SecretFields
    BY FieldAssumption
       DEF SaveSecret, DInv, Inv, TypeOK, Owned, Progress, KeepSettings,
           ReplaceSecret, ReplaceSettings, ClearSettings, ClearErase, Removing
  <1>4. o.value \in SecretFields /\ Free(o.value, op.ssid)
    <2>1. new \in SecretFields /\ Free(new, op.ssid)
      BY <1>3 DEF Secret, SecretFields, Free, Form, DInv, Inv, TypeOK
    <2> QED
      BY <2>1, <1>2, <1>3
  <1>5. /\ fields'.p[Key[op.ssid]] = p /\ fields'.last = fields.last
        /\ fields'.s[Key[op.ssid]] = o.value
    BY <1>1, <1>3, <1>4, SecretStored
  <1>6. \A k \in Hashes : k # Key[op.ssid] => /\ fields'.p[k] = fields.p[k]
                                             /\ fields'.s[k] = fields.s[k]
    BY <1>1, <1>3, <1>4, SecretUpdate DEF DInv
  <1>7. LastShown' = LastShown /\ op.kind = "Replace" /\ goal.kind = "Replace"
    BY <1>3, <1>5 DEF LastShown, ReplaceSecret
  <1>8. LET before == Loaded(p, old, op.ssid)
            now == Loaded(p, o.value, op.ssid)
        IN  \/ now = before
            \/ /\ before # goal.target
               /\ \/ now.status = "Corrupt"
                  \/ /\ now.status = "Ok" /\ now.secret = goal.target.secret
                     /\ before.status = "Ok" => now.settings = before.settings
    <2>1. /\ goal.target = Profile("Ok", op.settings, op.secret)
          /\ op.settings.security # "Open"
      BY <1>3 DEF ReplaceSecret, Saving
    <2>2. CASE o.value = old
      BY <2>2
    <2>3. CASE o.value = new
      BY <1>3, <2>1, <2>3, SecretHalfway
    <2> QED
      BY <1>2, <2>2, <2>3
  <1>9. \/ \E step : step # "None" /\ Continues(step)
        \/ \E st : Returns(st)
    BY <1>1
  <1> QED
    BY <1>3, <1>4, <1>5, <1>6, <1>7, <1>8, <1>9, WorksStep

(* Writing the settings changes the profile to what is saved. *)
LEMMA SaveSettingsRefines ==
  ASSUME DInv, DInv', SaveSettings
  PROVE  Store!Works
  <1> DEFINE old == fields.p[Key[op.ssid]]
             s == fields.s[Key[op.ssid]]
  <1>1. PICK o \in writeVerified(old, op.settings) :
          /\ fields' = [fields EXCEPT !.p[Key[op.ssid]] = o.value]
          /\ IF o.status = "Ok" /\ op.kind = "Clear"
             THEN Continues("clear") ELSE Returns(o.status)
    BY DEF SaveSettings, Advances, nextStep
  <1>2. o.value \in {old, op.settings}
    BY <1>1, WriteOutcomes
  <1>3. /\ KeepSettings \/ ReplaceSettings \/ ClearSettings
        /\ op.step = "settings" /\ op.ssid \in Networks /\ Saving
        /\ goal.kind = op.kind /\ goal.ssid = op.ssid
        /\ Key[op.ssid] \in Hashes
        /\ Free(old, op.ssid) /\ Free(s, op.ssid)
    BY FieldAssumption
       DEF SaveSettings, DInv, Inv, Owned, Progress, KeepSettings,
           ReplaceSecret, ReplaceSettings, ClearSettings, ClearErase, Removing
  <1>4. o.value \in SettingsFields /\ Free(o.value, op.ssid)
    BY <1>2, <1>3 DEF DInv, Inv, TypeOK, Owned, Free
  <1>5. /\ fields'.p[Key[op.ssid]] = o.value /\ fields'.last = fields.last
        /\ fields'.s[Key[op.ssid]] = s
    BY <1>1, <1>3, <1>4, SettingsStored
  <1>6. \A k \in Hashes : k # Key[op.ssid] => /\ fields'.p[k] = fields.p[k]
                                             /\ fields'.s[k] = fields.s[k]
    BY <1>1, <1>3, <1>4, SettingsUpdate DEF DInv
  <1>7. Loaded(op.settings, s, op.ssid) = goal.target
    <2>1. IF op.settings.security = "Open" THEN op.secret = "none"
                                           ELSE s = Secret(op.ssid, op.secret)
      BY <1>3 DEF Saving, KeepSettings, ReplaceSettings, ClearSettings,
                  SecretField
    <2> QED
      BY <2>1, <1>3, SavedIsLoaded DEF Saving
  <1>8. LastShown' = LastShown /\ op.kind # "Remove"
    BY <1>3, <1>5
       DEF LastShown, KeepSettings, ReplaceSettings, ClearSettings
  <1>9. \/ \E step : step # "None" /\ Continues(step)
        \/ \E st : Returns(st)
    BY <1>1
  <1> QED
    BY <1>2, <1>3, <1>4, <1>5, <1>6, <1>7, <1>8, <1>9, WorksStep

(* Erasing a secret that is not needed is not seen. *)
LEMMA SecretErasureRefines ==
  ASSUME DInv, DInv', ClearSecret \/ EraseSecret
  PROVE  Store!Works
  <1> DEFINE old == fields.s[Key[op.ssid]]
             p == fields.p[Key[op.ssid]]
  <1>1. PICK o \in eraseField(old, NoSecret) :
          /\ fields' = [fields EXCEPT !.s[Key[op.ssid]] = o.value]
          /\ IF o.status = "Ok" /\ op.step = "eraseSecret"
             THEN Continues("forget") ELSE Returns(o.status)
    BY DEF ClearSecret, EraseSecret, Advances, nextStep
  <1>2. o.value \in {old, NoSecret} /\ (o.status = "Ok" => o.value = NoSecret)
    BY <1>1, EraseOutcomes, OkOutcomes
  <1>3. /\ \/ ClearErase /\ op.step = "clear"
           \/ Removing /\ op.step = "eraseSecret"
        /\ op.ssid \in Networks /\ Key[op.ssid] \in Hashes
        /\ goal.kind = op.kind /\ goal.ssid = op.ssid
        /\ goal.status = "Pending"
        /\ Free(old, op.ssid) /\ Free(p, op.ssid) /\ old \in SecretFields
    BY FieldAssumption
       DEF ClearSecret, EraseSecret, DInv, Inv, TypeOK, Owned, Progress,
           KeepSettings, ReplaceSecret, ReplaceSettings, ClearSettings,
           ClearErase, Removing
  <1>4. o.value \in SecretFields /\ Free(o.value, op.ssid)
    <2>1. NoSecret \in SecretFields /\ Free(NoSecret, op.ssid)
      BY DEF NoSecret, SecretFields, Free, Form, Secrets
    <2> QED
      BY <2>1, <1>2, <1>3
  <1>5. /\ fields'.p[Key[op.ssid]] = p /\ fields'.last = fields.last
        /\ fields'.s[Key[op.ssid]] = o.value
    BY <1>1, <1>3, <1>4, SecretStored
  <1>6. \A k \in Hashes : k # Key[op.ssid] => /\ fields'.p[k] = fields.p[k]
                                             /\ fields'.s[k] = fields.s[k]
    BY <1>1, <1>3, <1>4, SecretUpdate DEF DInv
  <1>7. Loaded(p, o.value, op.ssid) = goal.target
    <2>1. CASE ClearErase
      <3>1. Saving /\ op.kind = "Clear" /\ p = op.settings
        BY <2>1, <1>3 DEF ClearErase, SettingsField
      <3> QED
        BY <3>1, SavedIsLoaded DEF Saving
    <2>2. CASE Removing /\ op.step = "eraseSecret"
      BY <2>2, <1>3, NothingIsLoaded DEF Removing, SettingsField
    <2> QED
      BY <2>1, <2>2, <1>3
  <1>8. LastShown' = LastShown
    BY <1>5 DEF LastShown
  <1>9. op.kind = "Remove" => goal'.status # "Ok"
    <2>1. ASSUME op.kind = "Remove" PROVE goal'.status # "Ok"
      <3>1. op.step = "eraseSecret"
        BY <1>3, <2>1 DEF ClearErase
      <3>2. CASE o.status = "Ok"
        BY <1>1, <1>3, <3>1, <3>2, ContinuesSame
      <3>3. CASE o.status # "Ok"
        BY <1>1, <3>3 DEF Returns, DInv, Inv, TypeOK
      <3> QED
        BY <3>2, <3>3
    <2> QED
      BY <2>1
  <1>10. \/ \E step : step # "None" /\ Continues(step)
         \/ \E st : Returns(st)
    BY <1>1
  <1> QED
    BY <1>3, <1>4, <1>5, <1>6, <1>7, <1>8, <1>9, <1>10, WorksStep

(* Erasing the settings removes the profile. *)
LEMMA EraseSettingsRefines ==
  ASSUME DInv, DInv', EraseSettings
  PROVE  Store!Works
  <1> DEFINE old == fields.p[Key[op.ssid]]
             s == fields.s[Key[op.ssid]]
  <1>1. PICK o \in eraseField(old, NoSettings) :
          /\ fields' = [fields EXCEPT !.p[Key[op.ssid]] = o.value]
          /\ IF o.status = "Ok" THEN Continues("eraseSecret")
                                ELSE Returns(o.status)
    BY DEF EraseSettings
  <1>2. o.value \in {old, NoSettings}
    BY <1>1, EraseOutcomes
  <1>3. /\ Removing /\ op.step = "eraseSettings"
        /\ op.ssid \in Networks /\ Key[op.ssid] \in Hashes
        /\ goal.status = "Pending"
        /\ Free(old, op.ssid) /\ Free(s, op.ssid) /\ old \in SettingsFields
    BY FieldAssumption
       DEF EraseSettings, DInv, Inv, TypeOK, Owned, Progress, KeepSettings,
           ReplaceSecret, ReplaceSettings, ClearSettings, ClearErase, Removing
  <1>4. o.value \in SettingsFields /\ Free(o.value, op.ssid)
    <2>1. NoSettings \in SettingsFields /\ Free(NoSettings, op.ssid)
      BY DEF NoSettings, SettingsFields, Free, Form
    <2> QED
      BY <2>1, <1>2, <1>3
  <1>5. /\ fields'.p[Key[op.ssid]] = o.value /\ fields'.last = fields.last
        /\ fields'.s[Key[op.ssid]] = s
    BY <1>1, <1>3, <1>4, SettingsStored
  <1>6. \A k \in Hashes : k # Key[op.ssid] => /\ fields'.p[k] = fields.p[k]
                                             /\ fields'.s[k] = fields.s[k]
    BY <1>1, <1>3, <1>4, SettingsUpdate DEF DInv
  <1>7. Loaded(NoSettings, s, op.ssid) = goal.target
    BY <1>3, NothingIsLoaded DEF Removing
  <1>8. LastShown' = LastShown
    BY <1>5 DEF LastShown
  <1>9. goal'.status # "Ok"
    <2>1. CASE o.status = "Ok"
      BY <1>1, <1>3, <2>1, ContinuesSame
    <2>2. CASE o.status # "Ok"
      BY <1>1, <2>2 DEF Returns, DInv, Inv, TypeOK
    <2> QED
      BY <2>1, <2>2
  <1>10. \/ \E step : step # "None" /\ Continues(step)
         \/ \E st : Returns(st)
    BY <1>1
  <1> QED
    BY <1>2, <1>3, <1>4, <1>5, <1>6, <1>7, <1>8, <1>9, <1>10, WorksStep

(* A step that changes no field of a profile, the last SSID aside. *)
LEMMA ForgetLastRefines ==
  ASSUME DInv, DInv', NEW unreadable, ForgetLast(unreadable)
  PROVE  Store!Works
  <1> DEFINE status == Ownership(fields.last, op.ssid, "last" \in unreadable)
  <1>1. /\ op.kind = "Remove" /\ op.step = "forget"
        /\ op.ssid \in Networks /\ op.ssid # NoNetwork
        /\ Free(fields.p[Key[op.ssid]], op.ssid)
        /\ Free(fields.s[Key[op.ssid]], op.ssid)
    BY FieldAssumption
       DEF ForgetLast, DInv, Inv, Owned, Progress, KeepSettings, ReplaceSecret,
           ReplaceSettings, ClearSettings, ClearErase, Removing
  <1>2. PICK answer :
          /\ Returns(answer)
          /\ fields'.p = fields.p /\ fields'.s = fields.s
          /\ \/ /\ fields'.last = fields.last
                /\ status # "Ok"
                /\ answer = "Ok" => status \in {"NotFound", "HashCollision"}
             \/ /\ fields'.last \in {fields.last, NoLast} /\ status = "Ok"
                /\ answer = "Ok" => fields'.last = NoLast
    <2>1. CASE status = "Ok"
      <3>1. PICK o \in eraseField(fields.last, NoLast) :
              /\ fields' = [fields EXCEPT !.last = o.value]
              /\ Returns(o.status)
        BY <2>1 DEF ForgetLast
      <3>2. /\ o.value \in {fields.last, NoLast}
            /\ o.status = "Ok" => o.value = NoLast
        BY <3>1, EraseOutcomes, OkOutcomes
      <3>3. /\ fields'.p = fields.p /\ fields'.s = fields.s
            /\ fields'.last = o.value
        BY <3>1 DEF DInv, Inv, TypeOK
      <3> QED
        BY <2>1, <3>1, <3>2, <3>3
    <2>2. CASE status # "Ok"
      BY <2>2 DEF ForgetLast
    <2> QED
      BY <2>1, <2>2
  <1>3. goal'.status = answer
    BY <1>2 DEF Returns, DInv, Inv, TypeOK
  <1>4. \/ LastShown' = LastShown
        \/ LastShown' = NoNetwork /\ LastShown = op.ssid
    BY <1>2 DEF LastShown, NoLast, Ownership, Form, DInv, Inv, TypeOK
  <1>5. answer = "Ok" => LastShown' # op.ssid
    BY <1>1, <1>2 DEF LastShown, NoLast, Ownership
  <1>6. \E st : Returns(st)
    BY <1>2
  <1> QED
    BY <1>1, <1>2, <1>3, <1>4, <1>5, <1>6, WorksStep

(* A power cut ends an operation without an answer. *)
LEMMA PowerFailsRefines ==
  ASSUME DInv, DInv', PowerFails
  PROVE  Store!Works
  <1>1. fields' = fields /\ Returns("Interrupted") /\ op.step # "None"
    BY DEF PowerFails, DInv, Idling
  <1>2. goal'.status = "Interrupted" /\ LastShown' = LastShown
    BY <1>1 DEF Returns, LastShown, DInv, Inv, TypeOK
  <1>3. /\ Free(fields.p[Key[op.ssid]], op.ssid)
        /\ Free(fields.s[Key[op.ssid]], op.ssid)
    BY <1>1 DEF DInv, Inv, Owned
  <1>4. \E st : Returns(st)
    BY <1>1
  <1> QED
    BY <1>1, <1>2, <1>3, <1>4, WorksStep

(* Saving and removing begin or are refused. *)
LEMMA CallsRefine ==
  ASSUME DInv, DInv', Calls
  PROVE  Store!Refuses \/ Store!Begins \/ Store!Remembers
  <1>1. ASSUME NEW settings, NEW intent, NEW replacement, NEW unreadable,
               NEW again, settings.ssid \in Networks,
               SaveProfile(settings, intent, replacement, unreadable, again)
        PROVE  Store!Refuses \/ Store!Begins
    <2> DEFINE status == saveStatus(settings, intent, replacement, unreadable,
                                    again)
    <2>1. fields' = fields /\ op = NoOp /\ LastShown' = LastShown
      BY <1>1 DEF SaveProfile, LastShown
    <2>2. CASE status = "Ok"
      <3>1. op'.step # "None"
        BY <1>1, <2>2 DEF SaveProfile, Op, nextStep
      <3>2. op' # NoOp
        BY <3>1 DEF NoOp
      <3> QED
        BY <2>1, <3>2, CallsShown
    <2>3. CASE status # "Ok"
      <3>1. op' = NoOp /\ goal'.status # "Ok"
        BY <1>1, <2>1, <2>3 DEF SaveProfile, Begun
      <3> QED
        BY <2>1, <3>1, CallsShown
    <2> QED
      BY <2>2, <2>3
  <1>2. ASSUME NEW ssid \in Networks, NEW unreadable,
               RemoveProfile(ssid, unreadable)
        PROVE  Store!Refuses \/ Store!Begins
    <2> DEFINE status == checkIdentity(ssid, unreadable)
    <2>1. fields' = fields /\ op = NoOp /\ LastShown' = LastShown
      BY <1>2 DEF RemoveProfile, LastShown
    <2>2. CASE status = "Ok"
      <3>1. op'.step # "None"
        BY <1>2, <2>2 DEF RemoveProfile, NoOp
      <3>2. op' # NoOp
        BY <3>1 DEF NoOp
      <3> QED
        BY <2>1, <3>2, CallsShown
    <2>3. CASE status # "Ok"
      <3>1. op' = NoOp /\ goal'.status # "Ok"
        BY <1>2, <2>1, <2>3 DEF RemoveProfile, Begun
      <3> QED
        BY <2>1, <3>1, CallsShown
    <2> QED
      BY <2>2, <2>3
  <1>3. \A ssid, security, mark :
          Settings(ssid, security, mark).ssid = ssid
    BY DEF Settings
  <1> QED
    BY <1>1, <1>2, <1>3, WriteLastRefines DEF Calls

(* Initially no operation is in progress. *)
LEMMA InitRefines == Init => Store!Idle
  BY DEF Init, Store!Idle, Call

(* Every step is a step of the store or is not seen. *)
LEMMA NextRefines ==
  ASSUME DInv, DInv', [Next]_vars
  PROVE  [Store!Refuses \/ Store!Begins \/ Store!Remembers
            \/ Store!Works]_(Store!storeVars)
  <1>1. CASE Calls
    BY <1>1, CallsRefine
  <1>2. CASE Steps
    BY <1>2, SaveSecretRefines, SaveSettingsRefines, SecretErasureRefines,
       EraseSettingsRefines, ForgetLastRefines DEF Steps
  <1>3. CASE PowerFails
    BY <1>3, PowerFailsRefines
  <1>4. CASE UNCHANGED vars
    <2>1. [ssid \in Networks |-> Seen(ssid)]'
            = [ssid \in Networks |-> Seen(ssid)]
      BY <1>4, NothingSeen DEF vars, DInv, Inv
    <2> QED
      BY <1>4, <2>1 DEF vars, Store!storeVars
  <1> QED
    BY <1>1, <1>2, <1>3, <1>4 DEF Next

(* FieldStore implements the contract of Store, for every set of SSIDs,    *)
(* every hash and every failure of the medium: an operation moves its own  *)
(* profile only, towards what it is to leave and never back, and answers   *)
(* kOk only when that is what a load returns.                              *)
THEOREM FieldsImplementStore == Spec => StoreRefined
  <1>1. DInv /\ DInv' /\ [Next]_vars
          => [Store!Refuses \/ Store!Begins \/ Store!Remembers
                \/ Store!Works]_(Store!storeVars)
    BY NextRefines
  <1> QED
    BY InitRefines, Durable, <1>1, PTL DEF Spec, StoreRefined, Store!StoreSpec

=============================================================================
