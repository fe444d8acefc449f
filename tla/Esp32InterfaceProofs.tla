------------------------- MODULE Esp32InterfaceProofs ------------------------
(***************************************************************************)
(* What the adapter and the ESP32 driver behind it keep to, for every set  *)
(* of networks and access points, every policy, number of slots and        *)
(* capacity of the queue, and whatever a scan finds.                       *)
(*                                                                         *)
(* The driver is kept apart from the adapter: no lemma about a command or  *)
(* a handler speaks of what the adapter did before.  A driver that is      *)
(* built (Built) answers and posts nothing the adapter cannot take, so     *)
(* that the lemmas of OrderedInterfaceProofs, which hold for any driver,   *)
(* carry over (InterfaceInv).  Three things are about the driver itself:   *)
(* the candidates a selection ranks (Ranks), by induction over the records *)
(* found, the scan it waits for (Owed), and what its fields, the radio and *)
(* the event loop say of one another (Faithful), for Esp32PairProofs.      *)
(***************************************************************************)
EXTENDS Esp32Interface, OrderedInterfaceProofs, WellFoundedInduction,
        FiniteSetTheorems

-----------------------------------------------------------------------------
(* Sequences *)

(* What Append() makes of a sequence. *)
LEMMA Appended ==
  ASSUME NEW S, NEW s \in Seq(S), NEW e \in S
  PROVE  /\ Append(s, e) \in Seq(S) /\ Len(s) \in Nat
         /\ Len(Append(s, e)) = Len(s) + 1
         /\ Append(s, e)[Len(s) + 1] = e
         /\ \A i \in 1..Len(s) : Append(s, e)[i] = s[i] /\ s[i] \in S
         /\ DOMAIN s = 1..Len(s)
         /\ DOMAIN Append(s, e) = 1..(Len(s) + 1)
BY AppendProperties

(* What Tail() leaves of a sequence. *)
LEMMA Dropped ==
  ASSUME NEW S, NEW s \in Seq(S), s # <<>>
  PROVE  /\ Tail(s) \in Seq(S) /\ Head(s) = s[1] /\ s[1] \in S
         /\ Len(s) \in Nat \ {0} /\ Len(Tail(s)) = Len(s) - 1
         /\ \A i \in 1..(Len(s) - 1) : Tail(s)[i] = s[i + 1] /\ s[i + 1] \in S
         /\ DOMAIN s = 1..Len(s)
         /\ DOMAIN Tail(s) = 1..(Len(s) - 1)
<1>1. /\ Tail(s) \in Seq(S) /\ Head(s) = s[1]
      /\ Len(Tail(s)) = Len(s) - 1
      /\ \A i \in 1..Len(Tail(s)) : Tail(s)[i] = s[i + 1]
  BY HeadTailProperties
<1>2. Len(s) \in Nat /\ Len(s) # 0 /\ DOMAIN s = 1..Len(s)
  BY EmptySeq
<1>3. DOMAIN Tail(s) = 1..Len(Tail(s))
  BY <1>1
<1>4. \A i \in 1..Len(s) : s[i] \in S
  OBVIOUS
<1> QED BY <1>1, <1>2, <1>3, <1>4

-----------------------------------------------------------------------------
(* Types of the driver *)

(* An event that event() can be handed. *)
RadioEvents ==
  {event \in IdfEvents :
     /\ event.kind \in {"Connected", "Disconnected", "GotIp"} =>
          event.ap \in Aps
     /\ event.kind = "Connected" => event.detail \in AuthMode
     /\ event.kind = "Disconnected" => event.detail \in DisconnectReason}

(* Each AP once, in the records of a scan or among the candidates. *)
Distinct(found) ==
  \A r, s \in DOMAIN found : found[r].ap = found[s].ap => r = s

(* A driver whose data are what its code makes of them: typed, the         *)
(* candidates distinct, a call in progress only while there is one, and an *)
(* AP wherever one is joined or left.                                      *)
Built(n) ==
  /\ n \in Stations
  /\ Distinct(n.candidates)
  /\ n.idf.loop \in Seq(RadioEvents)
  /\ n.call.kind = "None" => n.call = NoCall
  /\ n.prepared \/ n.call.kind = "join" => n.selected \in Aps
  /\ n.idf.link # "Down" => n.idf.ap \in Aps

(* The fields of a driver. *)
LEMMA StationTyped ==
  ASSUME NEW n \in Stations
  PROVE  /\ n.attached \in BOOLEAN /\ n.selecting \in BOOLEAN
         /\ n.scan_active \in BOOLEAN /\ n.cancelled \in BOOLEAN
         /\ n.prepared \in BOOLEAN /\ n.attempt \in BOOLEAN
         /\ n.candidates \in BoundedSeq(Candidates, Slots)
         /\ n.fresh \in BOOLEAN /\ n.rejected \in BOOLEAN
         /\ n.selected \in Aps \cup {NoAp}
         /\ n.config \in Ssid /\ n.secret \in Ssid
         /\ n.call.kind \in {"None", "scan", "select", "join"}
         /\ n.call.answer \in Status
         /\ n.idf.on \in BOOLEAN /\ n.idf.scanning \in BOOLEAN
         /\ n.idf.link \in {"Down", "Joining", "Up"}
         /\ n.idf.ap \in Aps \cup {NoAp} /\ n.idf.auth \in AuthMode
         /\ n.idf.ip \in BOOLEAN /\ n.idf.timer \in BOOLEAN
         /\ n.idf.loop \in Seq(IdfEvents)
         /\ n.told.enabled \in BOOLEAN /\ n.told.phase \in NativePhase
         /\ n.told.leaving \in BOOLEAN
BY DEF Stations

(* An event more in the loop. *)
LEMMA RaiseBuilt ==
  ASSUME NEW n, Built(n), NEW kind, NEW ap, NEW detail,
         IdfEvent(kind, ap, detail) \in RadioEvents
  PROVE  Built(Raise(n, kind, ap, detail))
<1> DEFINE event == IdfEvent(kind, ap, detail)
           loop == Append(n.idf.loop, event)
<1>1. loop \in Seq(RadioEvents)
  BY Appended DEF Built
<1>2. loop \in Seq(IdfEvents)
  BY Appended DEF Built, Stations, RadioEvents
<1> HIDE DEF loop
<1>3. PICK m : m = [n EXCEPT !.idf.loop = loop]
  OBVIOUS
<1>4. m \in Stations
  BY <1>2, <1>3 DEF Built, Stations
<1>5. Built(m)
  BY <1>1, <1>3, <1>4 DEF Built, Stations
<1> QED BY <1>3, <1>5 DEF Raise, loop

LEMMA UnjoinedBuilt ==
  ASSUME NEW n, Built(n)
  PROVE  Built(Unjoined(n))
<1>1. PICK m : m = Unjoined(n)
  OBVIOUS
<1>2. "Unknown" \in AuthMode
  BY DEF AuthMode
<1>3. m \in Stations
  BY <1>1, <1>2 DEF Unjoined, Built, Stations
<1>4. Built(m)
  BY <1>1, <1>3, ZenonT(30) DEF Unjoined, Built, Stations
<1> QED BY <1>1, <1>4

-----------------------------------------------------------------------------
(* Induction *)

Below == {p \in Nat \X Nat : p[1] < p[2]}

(* Membership of Nat in a well-founded order, so that a set of numbers     *)
(* that is not empty has a least one: the induction over the records found *)
(* rests on it.                                                            *)
LEMMA BelowWellFounded == IsWellFoundedOn(Below, Nat)
<1>1. Below = OpToRel(<, Nat)
  BY Zenon DEF Below, OpToRel
<1> QED BY <1>1, NatLessThanWellFounded

LEMMA Least ==
  ASSUME NEW S \in SUBSET Nat, S # {}
  PROVE  \E x \in S : \A y \in S : x <= y
<1>1. PICK x \in S : \A y \in S : ~(<<y, x>> \in Below)
  BY BelowWellFounded, WFMin
<1>2. ASSUME NEW y \in S
      PROVE  x <= y
  <2>1. x \in Nat /\ y \in Nat
    OBVIOUS
  <2>2. ~(<<y, x>> \in Below)
    BY <1>1
  <2>3. ~(y < x)
    BY <2>1, <2>2 DEF Below
  <2> QED BY <2>1, <2>3
<1> QED BY <1>2

(* Induction over the members of a set, which is no operator parameter. *)
LEMMA Induction ==
  ASSUME NEW S, 0 \in S, \A n \in Nat : n \in S => n + 1 \in S
  PROVE  Nat \subseteq S
<1> SUFFICES ASSUME NEW T, T = Nat \ S, T # {}
             PROVE  FALSE
  OBVIOUS
<1>1. PICK x \in T : \A y \in T : x <= y
  BY Least
<1>2. x - 1 \in T
  BY <1>1
<1> QED BY <1>1, <1>2

-----------------------------------------------------------------------------
(* The candidates of a selection *)

Scored == [ap : Aps, rssi : Strengths, failures : 0..2, cooling : BOOLEAN]

Records == [ap : Aps, rssi : Strengths]

LEMMA StrengthsAreNumbers == Strengths \subseteq Nat /\ Slots \in Nat \ {0}
BY Esp32Assumption

(* Precedes() orders candidates strictly, and is total up to equality of   *)
(* cooling and strength.                                                   *)
LEMMA PrecedesOrders ==
  ASSUME NEW b \in Scored, NEW c \in Scored, NEW d \in Scored
  PROVE  /\ Precedes(b, c) => ~Precedes(c, b)
         /\ ~Precedes(b, c) /\ ~Precedes(c, d) => ~Precedes(b, d)
<1>1. /\ b.rssi \in Nat /\ c.rssi \in Nat /\ d.rssi \in Nat
      /\ b.cooling \in BOOLEAN /\ c.cooling \in BOOLEAN
      /\ d.cooling \in BOOLEAN
  BY StrengthsAreNumbers DEF Scored
<1> QED BY <1>1 DEF Precedes

(* A candidate while it is ranked, with the strength it was found with. *)
LEMMA CandidatesTyped ==
  ASSUME NEW s \in BoundedSeq(Candidates, Slots)
  PROVE  /\ s \in Seq(Candidates) /\ Len(s) \in 0..Slots
         /\ DOMAIN s = 1..Len(s)
<1>1. PICK m \in 0..Slots : s \in [1..m -> Candidates]
  BY DEF BoundedSeq, SeqOf
<1>2. m \in Nat
  BY <1>1, StrengthsAreNumbers
<1>3. s \in Seq(Candidates)
  BY <1>1, <1>2, SeqDef
<1>4. DOMAIN s = 1..m /\ DOMAIN s = 1..Len(s) /\ Len(s) \in Nat
  BY <1>1, <1>3
<1>5. m = Len(s)
  BY <1>2, <1>4
<1> QED BY <1>1, <1>3, <1>4, <1>5

(* A bounded sequence is a sequence. *)
LEMMA CandidatesBounded ==
  ASSUME NEW s, NEW m \in 0..Slots, s \in [1..m -> Candidates]
  PROVE  s \in BoundedSeq(Candidates, Slots)
BY DEF BoundedSeq, SeqOf

(* The penalty of an AP that is still known, and none for any other. *)
LEMMA CandidateIs ==
  ASSUME NEW n, n.candidates \in BoundedSeq(Candidates, Slots),
         NEW record \in Records
  PROVE  /\ Candidate(n, record) \in Scored
         /\ Candidate(n, record).ap = record.ap
         /\ Candidate(n, record).rssi = record.rssi
         /\ Candidate(n, record).cooling =>
              \E i \in DOMAIN n.candidates :
                n.candidates[i].ap = record.ap /\ n.candidates[i].cooling
         /\ (\E i \in DOMAIN n.candidates :
                n.candidates[i].ap = record.ap /\ n.candidates[i].cooling)
            /\ (\A i, j \in DOMAIN n.candidates :
                  n.candidates[i].ap = n.candidates[j].ap => i = j)
            => Candidate(n, record).cooling
<1> DEFINE I == {i \in 1..Len(n.candidates) :
                   n.candidates[i].ap = record.ap
                     /\ (n.fresh \/ n.candidates[i].cooling)}
<1>1. /\ n.candidates \in Seq(Candidates) /\ Len(n.candidates) \in Nat
      /\ DOMAIN n.candidates = 1..Len(n.candidates)
  BY CandidatesTyped
<1>2. SelectInSeq(n.candidates, LAMBDA old :
         old.ap = record.ap /\ (n.fresh \/ old.cooling))
        = IF I # {} THEN Min(I) ELSE 0
  BY DEF SelectInSeq
<1>3. I \subseteq DOMAIN n.candidates /\ I \subseteq Nat
  BY <1>1
<1>4. ASSUME I # {}
      PROVE  Min(I) \in I /\ Min(I) # 0
  <2> HIDE DEF I
  <2>1. \E x \in I : \A y \in I : x <= y
    BY <1>3, <1>4, Least
  <2>2. Min(I) \in I
    BY <2>1 DEF Min
  <2>3. 0 \notin I
    BY DEF I
  <2> QED BY <2>2, <2>3
<1>5. PICK i : i = IF I # {} THEN Min(I) ELSE 0
  OBVIOUS
<1>6. Candidate(n, record) =
        [ap |-> record.ap, rssi |-> record.rssi,
         failures |-> IF i = 0 THEN 0 ELSE n.candidates[i].failures,
         cooling |-> i # 0 /\ n.candidates[i].cooling]
  BY <1>2, <1>5 DEF Candidate
<1>7. i # 0 => i \in I
  BY <1>4, <1>5
<1>8. i = 0 => I = {}
  BY <1>4, <1>5
<1> HIDE DEF I
<1>9. i # 0 => n.candidates[i] \in Candidates
  BY <1>1, <1>3, <1>7
<1>10. /\ record.ap \in Aps /\ record.rssi \in Strengths
       /\ i # 0 => n.candidates[i].failures \in 0..2
       /\ i # 0 => n.candidates[i].cooling \in BOOLEAN
  BY <1>9 DEF Candidates, Records
<1>11. Candidate(n, record) \in Scored
  BY <1>6, <1>10 DEF Scored
<1>12. Candidate(n, record).cooling = (i # 0 /\ n.candidates[i].cooling)
  <2>1. PICK flag : flag = (i # 0 /\ n.candidates[i].cooling)
    OBVIOUS
  <2>2. Candidate(n, record).cooling = flag
    BY <1>6, <2>1
  <2> QED BY <2>1, <2>2
<1>13. i # 0 => n.candidates[i].ap = record.ap /\ i \in DOMAIN n.candidates
  BY <1>3, <1>7 DEF I
<1>14. ASSUME NEW j \in DOMAIN n.candidates,
              n.candidates[j].ap = record.ap, n.candidates[j].cooling
       PROVE  j \in I
  BY <1>1, <1>14 DEF I
<1>15. Candidate(n, record).ap = record.ap
       /\ Candidate(n, record).rssi = record.rssi
  BY <1>6
<1>16. ASSUME Candidate(n, record).cooling
       PROVE  \E j \in DOMAIN n.candidates :
                n.candidates[j].ap = record.ap /\ n.candidates[j].cooling
  BY Zenon, <1>12, <1>13, <1>16
<1>17. ASSUME NEW j \in DOMAIN n.candidates,
              n.candidates[j].ap = record.ap, n.candidates[j].cooling,
              \A k, l \in DOMAIN n.candidates :
                n.candidates[k].ap = n.candidates[l].ap => k = l
       PROVE  Candidate(n, record).cooling
  <2>1. i # 0
    BY <1>8, <1>14, <1>17
  <2>2. i = j
    BY <1>13, <1>17, <2>1
  <2> QED BY Zenon, <1>12, <1>17, <2>1, <2>2
<1> QED BY <1>11, <1>15, <1>16, <1>17

(* c comes before the first that it precedes, at i. *)
Placed(kept, c, i, k) ==
  /\ i \in 1..(Len(kept) + 1)
  /\ \A j \in 1..(i - 1) : ~Precedes(c, kept[j])
  /\ i <= Len(kept) => Precedes(c, kept[i])
  /\ k \in Seq(Scored)
  /\ Len(k) = IF Len(kept) = Slots THEN Slots ELSE Len(kept) + 1
  /\ \A j \in 1..Len(k) :
       k[j] = IF j < i THEN kept[j] ELSE IF j = i THEN c ELSE kept[j - 1]

(* Inserted() keeps the order and the others. *)
LEMMA InsertedIs ==
  ASSUME NEW kept \in Seq(Scored), NEW c \in Scored
  PROVE  \E i \in 1..(Len(kept) + 1) :
           /\ \A j \in 1..(i - 1) : ~Precedes(c, kept[j])
           /\ i <= Len(kept) => Precedes(c, kept[i])
           /\ Inserted(kept, c) \in Seq(Scored)
           /\ Len(Inserted(kept, c)) = Len(kept) + 1
           /\ \A j \in 1..(Len(kept) + 1) : Inserted(kept, c)[j] =
                IF j < i THEN kept[j] ELSE IF j = i THEN c ELSE kept[j - 1]
<1> DEFINE I == {j \in 1..Len(kept) : Precedes(c, kept[j])}
           L == Len(kept)
<1>1. L \in Nat /\ I \subseteq Nat /\ I \subseteq 1..L
  OBVIOUS
<1>2. SelectInSeq(kept, LAMBDA other : Precedes(c, other))
        = IF I # {} THEN Min(I) ELSE 0
  BY DEF SelectInSeq
<1>3. PICK i : /\ i \in 1..(L + 1) /\ (i <= L => i \in I)
               /\ \A j \in I : i <= j
               /\ Inserted(kept, c) = InsertAt(kept, i, c)
  <2>1. CASE I = {}
    <3> HIDE DEF I
    <3>1. SelectInSeq(kept, LAMBDA other : Precedes(c, other)) = 0
      BY <1>2, <2>1
    <3>2. Inserted(kept, c) = InsertAt(kept, L + 1, c)
      BY <3>1 DEF Inserted
    <3> QED BY <1>1, <2>1, <3>2
  <2>2. CASE I # {}
    <3> HIDE DEF I
    <3>1. \E x \in I : \A y \in I : x <= y
      BY <1>1, <2>2, Least
    <3>2. Min(I) \in I /\ \A y \in I : Min(I) <= y
      BY <3>1 DEF Min
    <3>3. Min(I) \in 1..L /\ Min(I) # 0 /\ Min(I) \in 1..(L + 1)
      <4>1. Min(I) \in 1..L
        BY <1>1, <3>2
      <4> HIDE DEF L
      <4> QED BY <1>1, <4>1
    <3>4. Inserted(kept, c) = InsertAt(kept, Min(I), c)
      BY <1>2, <2>2, <3>3 DEF Inserted
    <3> QED BY <3>2, <3>3, <3>4
  <2> QED BY <2>1, <2>2
<1>4. \A j \in 1..(i - 1) : j \notin I
  BY <1>1, <1>3
<1>5. ASSUME NEW j \in 1..(i - 1)
      PROVE  ~Precedes(c, kept[j])
  <2>1. j \in 1..L /\ j \notin I
    BY <1>1, <1>3, <1>4
  <2> QED BY <2>1
<1>6. i <= L => Precedes(c, kept[i])
  BY <1>3
<1> DEFINE front == SubSeq(kept, 1, i - 1)
           back == SubSeq(kept, i, L)
<1>7. /\ front \in Seq(Scored) /\ Len(front) = i - 1
      /\ \A j \in 1..(i - 1) : front[j] = kept[j]
  BY <1>1, <1>3, SubSeqProperties
<1>8. /\ back \in Seq(Scored) /\ Len(back) = L - i + 1
      /\ \A j \in 1..(L - i + 1) : back[j] = kept[i + j - 1]
  BY <1>1, <1>3, SubSeqProperties
<1>9. InsertAt(kept, i, c) = (front \o <<c>>) \o back
  BY DEF InsertAt
<1> HIDE DEF front, back, L, I
<1> DEFINE middle == front \o <<c>>
<1>10. /\ middle \in Seq(Scored) /\ Len(middle) = i
       /\ \A j \in 1..(i - 1) : middle[j] = kept[j]
       /\ middle[i] = c
  <2>1. <<c>> \in Seq(Scored) /\ Len(<<c>>) = 1 /\ <<c>>[1] = c
    OBVIOUS
  <2>2. /\ middle \in Seq(Scored) /\ Len(middle) = Len(front) + 1
        /\ \A j \in 1..Len(middle) :
             middle[j] = IF j <= Len(front) THEN front[j]
                         ELSE <<c>>[j - Len(front)]
    BY <1>7, <2>1, ConcatProperties
  <2> QED BY <1>1, <1>3, <1>7, <2>1, <2>2
<1> HIDE DEF middle
<1> DEFINE k == middle \o back
<1>11. /\ k \in Seq(Scored) /\ Len(k) = L + 1
       /\ \A j \in 1..(L + 1) :
             k[j] = IF j <= i THEN middle[j] ELSE back[j - i]
  <2>1. /\ k \in Seq(Scored) /\ Len(k) = Len(middle) + Len(back)
        /\ \A j \in 1..(Len(middle) + Len(back)) :
             k[j] = IF j <= Len(middle) THEN middle[j]
                    ELSE back[j - Len(middle)]
    BY <1>8, <1>10, ConcatProperties
  <2> QED BY <1>1, <1>3, <1>8, <1>10, <2>1
<1>12. k = Inserted(kept, c)
  BY <1>3, <1>9 DEF middle
<1> HIDE DEF k
<1>13. ASSUME NEW j \in 1..(L + 1)
       PROVE  k[j] = IF j < i THEN kept[j]
                     ELSE IF j = i THEN c ELSE kept[j - 1]
  <2>1. CASE j <= i
    BY <1>1, <1>3, <1>10, <1>11, <2>1
  <2>2. CASE j > i
    <3>1. j - i \in 1..(L - i + 1) /\ i + (j - i) - 1 = j - 1
      BY <1>1, <1>3, <2>2 DEF L
    <3>2. back[j - i] = kept[j - 1]
      BY <1>8, <3>1
    <3> QED BY <1>1, <1>3, <1>11, <2>2, <3>2
  <2> QED BY <1>1, <1>3, <2>1, <2>2
<1> QED BY <1>3, <1>5, <1>6, <1>11, <1>12, <1>13 DEF L

(* Insert() keeps at most as many as there are slots. *)
LEMMA InsertIs ==
  ASSUME NEW kept \in Seq(Scored), NEW c \in Scored, Len(kept) <= Slots
  PROVE  \E i : Placed(kept, c, i, Insert(kept, c))
<1> DEFINE k == Inserted(kept, c)
<1>1. PICK i \in 1..(Len(kept) + 1) :
        /\ \A j \in 1..(i - 1) : ~Precedes(c, kept[j])
        /\ i <= Len(kept) => Precedes(c, kept[i])
        /\ k \in Seq(Scored)
        /\ Len(k) = Len(kept) + 1
        /\ \A j \in 1..(Len(kept) + 1) : k[j] =
             IF j < i THEN kept[j] ELSE IF j = i THEN c ELSE kept[j - 1]
  BY InsertedIs
<1> HIDE DEF k
<1>2. Len(kept) \in Nat /\ Slots \in Nat \ {0}
  BY StrengthsAreNumbers
<1>3. CASE Len(kept) = Slots
  <2>1. /\ SubSeq(k, 1, Slots) \in Seq(Scored)
        /\ Len(SubSeq(k, 1, Slots)) = Slots
        /\ \A j \in 1..Slots : SubSeq(k, 1, Slots)[j] = k[j]
    BY <1>1, <1>2, <1>3, SubSeqProperties
  <2>2. Insert(kept, c) = SubSeq(k, 1, Slots)
    BY <1>3 DEF Insert, k
  <2>3. \A j \in 1..Slots : SubSeq(k, 1, Slots)[j] =
          IF j < i THEN kept[j] ELSE IF j = i THEN c ELSE kept[j - 1]
    BY <1>1, <1>2, <1>3, <2>1
  <2> QED BY <1>1, <1>2, <1>3, <2>1, <2>2, <2>3, ZenonT(30) DEF Placed
<1>4. CASE Len(kept) # Slots
  <2>1. Insert(kept, c) = k
    BY <1>4 DEF Insert, k
  <2> QED BY <1>1, <1>2, <1>4, <2>1 DEF Placed
<1> QED BY <1>3, <1>4

(* What is kept of the first m records found: no more than there are slots *)
(* for, best first, each AP once, and what is left out is no better than   *)
(* the last.                                                               *)
Ranks(n, found, m, kept) ==
  /\ kept \in Seq(Scored) /\ Len(kept) <= Slots
  /\ \A j \in 1..Len(kept) : \E r \in 1..m :
       Compatible(n, found[r]) /\ kept[j] = Candidate(n, found[r])
  /\ \A j, l \in 1..Len(kept) :
       j < l => ~Precedes(kept[l], kept[j]) /\ kept[j].ap # kept[l].ap
  /\ \A r \in 1..m : Compatible(n, found[r]) =>
       \/ \E j \in 1..Len(kept) : kept[j] = Candidate(n, found[r])
       \/ /\ Len(kept) = Slots
          /\ ~Precedes(Candidate(n, found[r]), kept[Slots])

(* One record more is inserted: there is a slot left, or the last is       *)
(* pushed out.                                                             *)
LEMMA RankInserted ==
  ASSUME NEW n, n.candidates \in BoundedSeq(Candidates, Slots),
         NEW found \in Seq(Records), Distinct(found),
         NEW m \in Nat, m + 1 <= Len(found),
         NEW kept, Ranks(n, found, m, kept), Compatible(n, found[m + 1])
  PROVE  Ranks(n, found, m + 1, Insert(kept, Candidate(n, found[m + 1])))
<1> DEFINE L == Len(kept)
<1>1. PICK c : c = Candidate(n, found[m + 1])
  OBVIOUS
<1>2. /\ Len(found) \in Nat /\ DOMAIN found = 1..Len(found)
      /\ \A r \in 1..Len(found) : found[r] \in Records
      /\ m + 1 \in 1..Len(found) /\ \A r \in 1..m : r \in 1..Len(found)
  OBVIOUS
<1>3. \A r \in 1..Len(found) :
        /\ Candidate(n, found[r]) \in Scored
        /\ Candidate(n, found[r]).ap = found[r].ap
  BY <1>2, CandidateIs
<1>4. c \in Scored /\ c.ap = found[m + 1].ap
  BY <1>1, <1>2, <1>3
<1>5. kept \in Seq(Scored) /\ L <= Slots /\ L \in Nat /\ Slots \in Nat \ {0}
  BY StrengthsAreNumbers DEF Ranks
<1>6. \A j \in 1..L : kept[j] \in Scored
  BY <1>5
<1>7. PICK i, k : k = Insert(kept, c) /\ Placed(kept, c, i, k)
  BY <1>4, <1>5, InsertIs
<1>8. /\ i \in 1..(L + 1) /\ k \in Seq(Scored)
      /\ Len(k) = IF L = Slots THEN Slots ELSE L + 1
      /\ \A j \in 1..(i - 1) : ~Precedes(c, kept[j])
      /\ i <= L => Precedes(c, kept[i])
      /\ \A j \in 1..Len(k) :
           k[j] = IF j < i THEN kept[j] ELSE IF j = i THEN c ELSE kept[j - 1]
  BY <1>7 DEF Placed
<1>9. Len(k) <= Slots /\ Len(k) \in L..(L + 1) /\ Len(k) \in Nat
  BY <1>5, <1>8
<1>10. /\ \A j \in 1..L : \E r \in 1..m :
            Compatible(n, found[r]) /\ kept[j] = Candidate(n, found[r])
       /\ \A j, l \in 1..L :
            j < l => ~Precedes(kept[l], kept[j]) /\ kept[j].ap # kept[l].ap
       /\ \A r \in 1..m : Compatible(n, found[r]) =>
            \/ \E j \in 1..L : kept[j] = Candidate(n, found[r])
            \/ /\ L = Slots
               /\ ~Precedes(Candidate(n, found[r]), kept[Slots])
  BY DEF Ranks
<1> HIDE DEF L
<1>11. \A j \in 1..L : kept[j].ap # c.ap
  <2> SUFFICES ASSUME NEW j \in 1..L
               PROVE  kept[j].ap # c.ap
    OBVIOUS
  <2>1. PICK r \in 1..m : kept[j] = Candidate(n, found[r])
    BY <1>10
  <2>2. r \in 1..Len(found) /\ r # m + 1
    BY <1>2
  <2> QED BY <1>2, <1>3, <1>4, <2>1, <2>2 DEF Distinct
<1>12. ASSUME NEW j \in 1..Len(k)
       PROVE  \/ j < i /\ j \in 1..L /\ k[j] = kept[j]
              \/ j = i /\ k[j] = c
              \/ j > i /\ j - 1 \in 1..L /\ k[j] = kept[j - 1]
  BY <1>5, <1>8, <1>9
<1>13. ASSUME NEW j \in 1..L
       PROVE  i <= j => ~Precedes(kept[j], c)
  <2>1. CASE i = j
    BY <1>4, <1>6, <1>8, <2>1, PrecedesOrders
  <2>2. CASE i < j
    <3>1. i \in 1..L /\ Precedes(c, kept[i]) /\ ~Precedes(kept[j], kept[i])
      BY <1>5, <1>8, <1>10, <2>2
    <3>2. ~Precedes(kept[i], c)
      BY <1>4, <1>6, <3>1, PrecedesOrders
    <3> QED BY <1>4, <1>6, <3>1, <3>2, PrecedesOrders
  <2> QED BY <1>5, <1>8, <2>1, <2>2
<1>14. ASSUME NEW j \in 1..Len(k)
       PROVE  \E r \in 1..(m + 1) :
                Compatible(n, found[r]) /\ k[j] = Candidate(n, found[r])
  <2>1. \A q \in 1..L : \E r \in 1..(m + 1) :
          Compatible(n, found[r]) /\ kept[q] = Candidate(n, found[r])
    <3>1. 1..m \subseteq 1..(m + 1)
      OBVIOUS
    <3> QED BY <1>10, <3>1
  <2>2. CASE k[j] = c
    <3>1. m + 1 \in 1..(m + 1)
      OBVIOUS
    <3> QED BY <1>1, <2>2, <3>1
  <2> QED BY <1>12, <2>1, <2>2
<1>15. ASSUME NEW j \in 1..Len(k), NEW l \in 1..Len(k), j < l
       PROVE  ~Precedes(k[l], k[j]) /\ k[j].ap # k[l].ap
  <2>1. CASE j < i /\ l < i
    <3>1. /\ j \in 1..L /\ l \in 1..L /\ k[l] = kept[l] /\ k[j] = kept[j]
      BY <1>5, <1>8, <1>12, <2>1
    <3> QED BY <1>10, <1>15, <3>1
  <2>2. CASE j < i /\ l = i
    BY <1>8, <1>11, <1>12, <2>2
  <2>3. CASE j < i /\ l > i
    <3>1. /\ j < l - 1 /\ j \in 1..L /\ l - 1 \in 1..L
          /\ k[l] = kept[l - 1] /\ k[j] = kept[j]
      BY <1>5, <1>8, <1>12, <1>15, <2>3
    <3> QED BY <1>10, <3>1
  <2>4. CASE j = i /\ l > i
    <3>1. l - 1 \in 1..L /\ i <= l - 1 /\ k[l] = kept[l - 1] /\ k[j] = c
      BY <1>5, <1>8, <1>12, <1>15, <2>4
    <3> QED BY <1>11, <1>13, <3>1
  <2>5. CASE j > i /\ l > i
    <3>1. /\ l - 1 \in 1..L /\ j - 1 \in 1..L /\ j - 1 < l - 1
          /\ k[l] = kept[l - 1] /\ k[j] = kept[j - 1]
      BY <1>5, <1>8, <1>12, <1>15, <2>5
    <3> QED BY <1>10, <3>1
  <2> QED BY <1>5, <1>8, <1>9, <1>15, <2>1, <2>2, <2>3, <2>4, <2>5
(* An entry that is pushed out is no better than the new last one. *)
<1>16. ASSUME L = Slots
       PROVE  /\ Len(k) = Slots
              /\ ~Precedes(kept[Slots], k[Slots])
              /\ i > Slots => ~Precedes(c, k[Slots])
  <2>1. Len(k) = Slots /\ Slots \in 1..L /\ Slots \in 1..Len(k)
    BY <1>5, <1>8, <1>16
  <2>2. CASE i <= Slots
    <3>1. CASE i = Slots
      BY <1>8, <1>12, <1>13, <2>1, <3>1
    <3>2. CASE i < Slots
      <4>1. Slots - 1 \in 1..L /\ k[Slots] = kept[Slots - 1]
        BY <1>5, <1>8, <1>12, <2>1, <3>2
      <4> QED BY <1>5, <1>8, <1>10, <2>1, <3>2, <4>1
    <3> QED BY <1>5, <1>8, <2>2, <3>1, <3>2
  <2>3. CASE i > Slots
    <3>1. k[Slots] = kept[Slots] /\ Slots \in 1..(i - 1)
      BY <1>5, <1>8, <1>12, <2>1, <2>3
    <3>2. ~Precedes(kept[Slots], kept[Slots])
      BY <1>6, <2>1, PrecedesOrders
    <3> QED BY <1>8, <2>1, <3>1, <3>2
  <2> QED BY <1>5, <1>8, <2>1, <2>2, <2>3
<1>17. ASSUME NEW r \in 1..(m + 1), Compatible(n, found[r])
       PROVE  \/ \E j \in 1..Len(k) : k[j] = Candidate(n, found[r])
              \/ /\ Len(k) = Slots
                 /\ ~Precedes(Candidate(n, found[r]), k[Slots])
  <2>1. CASE r = m + 1
    <3>1. CASE i <= Len(k)
      <4>1. i \in 1..Len(k) /\ k[i] = c
        BY <1>8, <1>9, <3>1
      <4> QED BY <1>1, <2>1, <4>1
    <3>2. CASE i > Len(k)
      <4>1. L = Slots /\ i > Slots
        BY <1>5, <1>8, <3>2
      <4> QED BY <1>1, <1>16, <2>1, <4>1
    <3> QED BY <1>8, <1>9, <3>1, <3>2
  <2>2. CASE r # m + 1
    <3>1. r \in 1..m
      BY <2>2
    <3>2. CASE L = Slots /\ ~Precedes(Candidate(n, found[r]), kept[Slots])
      <4>1. /\ Candidate(n, found[r]) \in Scored
            /\ kept[Slots] \in Scored /\ k[Slots] \in Scored
        BY <1>2, <1>3, <1>5, <1>6, <1>8, <1>16, <3>1, <3>2
      <4> QED BY <1>16, <3>2, <4>1, PrecedesOrders
    <3>3. ASSUME NEW j \in 1..L, kept[j] = Candidate(n, found[r])
          PROVE  \/ \E q \in 1..Len(k) : k[q] = Candidate(n, found[r])
                 \/ /\ Len(k) = Slots
                    /\ ~Precedes(Candidate(n, found[r]), k[Slots])
      <4>1. CASE j < i
        <5>1. j \in 1..Len(k) /\ k[j] = kept[j]
          BY <1>5, <1>8, <1>9, <4>1
        <5> QED BY <3>3, <5>1
      <4>2. CASE j >= i /\ j + 1 <= Len(k)
        <5>1. j + 1 \in 1..Len(k) /\ k[j + 1] = kept[j]
          BY <1>5, <1>8, <1>9, <4>2
        <5> QED BY <3>3, <5>1
      <4>3. CASE j >= i /\ j + 1 > Len(k)
        <5>1. L = Slots /\ j = Slots
          BY <1>5, <1>8, <1>9, <4>3
        <5> QED BY <1>16, <3>3, <5>1
      <4> QED BY <1>8, <1>9, <4>1, <4>2, <4>3
    <3> QED BY <1>10, <3>1, <1>17, <3>2, <3>3
  <2> QED BY <2>1, <2>2
<1>18. Ranks(n, found, m + 1, k)
  BY <1>8, <1>9, <1>14, <1>15, <1>17 DEF Ranks
<1> QED BY <1>1, <1>7, <1>18

(* A record of an AP that is not compatible is skipped. *)
LEMMA RankSkipped ==
  ASSUME NEW n, NEW found, NEW m \in Nat, NEW kept,
         Ranks(n, found, m, kept), ~Compatible(n, found[m + 1])
  PROVE  Ranks(n, found, m + 1, kept)
<1>1. \A j \in 1..Len(kept) : \E r \in 1..(m + 1) :
        Compatible(n, found[r]) /\ kept[j] = Candidate(n, found[r])
  <2>1. 1..m \subseteq 1..(m + 1)
    OBVIOUS
  <2> QED BY <2>1 DEF Ranks
<1>2. ASSUME NEW r \in 1..(m + 1), Compatible(n, found[r])
      PROVE  r \in 1..m
  BY <1>2
<1> QED BY <1>1, <1>2 DEF Ranks

(* The loop of rememberCandidates() is a function on the records so far. *)
LEMMA RetainedBuilds ==
  ASSUME NEW n, NEW found \in Seq(Records)
  PROVE  \E f : /\ f[0] = <<>> /\ f[Len(found)] = Retained(n, found)
               /\ \A i \in 1..Len(found) :
                    f[i] = IF Compatible(n, found[i])
                           THEN Insert(f[i - 1], Candidate(n, found[i]))
                           ELSE f[i - 1]
<1> DEFINE L == Len(found)
           step(i, before) ==
             IF Compatible(n, found[i])
             THEN Insert(before, Candidate(n, found[i])) ELSE before
           Builds(f, m) ==
             /\ DOMAIN f = 0..m /\ f[0] = <<>>
             /\ f = [i \in 0..m |-> f[i]]
             /\ \A i \in 1..m : f[i] = step(i, f[i - 1])
           S == {m \in Nat : \E f : Builds(f, m)}
<1>1. L \in Nat
  OBVIOUS
<1>2. 0 \in S
  <2>1. PICK f : f = [i \in 0..0 |-> <<>>]
    OBVIOUS
  <2>2. f = [i \in 0..0 |-> f[i]]
    BY <2>1
  <2>3. Builds(f, 0)
    BY <2>1, <2>2
  <2> QED BY <2>3
<1>3. ASSUME NEW m \in Nat, m \in S
      PROVE  m + 1 \in S
  <2>1. PICK f : Builds(f, m)
    BY <1>3
  <2>2. PICK k : k = step(m + 1, f[m])
    OBVIOUS
  <2>3. PICK g : g = [i \in 0..(m + 1) |-> IF i = m + 1 THEN k ELSE f[i]]
    OBVIOUS
  <2> HIDE DEF step
  <2>4. DOMAIN g = 0..(m + 1) /\ g[0] = <<>>
    BY <2>1, <2>3
  <2>5. g = [i \in 0..(m + 1) |-> g[i]]
    BY <2>3
  <2>6. ASSUME NEW i \in 1..(m + 1)
        PROVE  g[i] = step(i, g[i - 1])
    <3>1. i - 1 \in 0..m /\ i - 1 # m + 1 /\ i \in 0..(m + 1)
      OBVIOUS
    <3>2. g[i - 1] = f[i - 1] /\ g[i] = IF i = m + 1 THEN k ELSE f[i]
      BY <2>3, <3>1
    <3>3. CASE i = m + 1
      BY <2>2, <3>2, <3>3
    <3>4. CASE i # m + 1
      <4>1. i \in 1..m
        BY <3>4
      <4> QED BY <2>1, <3>2, <3>4, <4>1
    <3> QED BY <3>3, <3>4
  <2>7. Builds(g, m + 1)
    BY <2>4, <2>5, <2>6
  <2> QED BY <2>7
<1>4. PICK f : Builds(f, L)
  <2> HIDE DEF S
  <2>1. Nat \subseteq S
    BY <1>2, <1>3, Induction
  <2>2. L \in S
    BY <1>1, <2>1
  <2> QED BY <2>2 DEF S
<1>5. f = [i \in 0..L |-> IF i = 0 THEN <<>>
                          ELSE IF Compatible(n, found[i])
                               THEN Insert(f[i - 1], Candidate(n, found[i]))
                               ELSE f[i - 1]]
  <2>1. \A i \in 0..L :
          f[i] = IF i = 0 THEN <<>>
                 ELSE IF Compatible(n, found[i])
                      THEN Insert(f[i - 1], Candidate(n, found[i]))
                      ELSE f[i - 1]
    BY <1>1, <1>4
  <2> QED BY <1>4, <2>1
<1> DEFINE kept[i \in 0..L] ==
             IF i = 0 THEN <<>>
             ELSE IF Compatible(n, found[i])
                  THEN Insert(kept[i - 1], Candidate(n, found[i]))
                  ELSE kept[i - 1]
<1> HIDE <1>4
<1>6. kept = [i \in 0..L |-> IF i = 0 THEN <<>>
                ELSE IF Compatible(n, found[i])
                     THEN Insert(kept[i - 1], Candidate(n, found[i]))
                     ELSE kept[i - 1]]
  BY <1>5
<1>7. Retained(n, found) = kept[L]
  BY DEF Retained
<1> HIDE DEF kept
<1>8. kept[0] = <<>>
  BY <1>1, <1>6
<1>9. ASSUME NEW i \in 1..L
      PROVE  kept[i] = IF Compatible(n, found[i])
                       THEN Insert(kept[i - 1], Candidate(n, found[i]))
                       ELSE kept[i - 1]
  <2>1. i \in 0..L /\ i # 0
    BY <1>1
  <2> HIDE DEF L
  <2> QED BY <1>6, <2>1
<1> QED BY <1>7, <1>8, <1>9

(* rememberCandidates() keeps the best of what was found. *)
LEMMA RetainedRanks ==
  ASSUME NEW n, n.candidates \in BoundedSeq(Candidates, Slots),
         NEW found \in Seq(Records), Distinct(found)
  PROVE  Ranks(n, found, Len(found), Retained(n, found))
<1> DEFINE L == Len(found)
<1>1. PICK f : /\ f[0] = <<>> /\ f[L] = Retained(n, found)
               /\ \A i \in 1..L :
                    f[i] = IF Compatible(n, found[i])
                           THEN Insert(f[i - 1], Candidate(n, found[i]))
                           ELSE f[i - 1]
  BY RetainedBuilds
<1> DEFINE S == {m \in Nat : m <= L => Ranks(n, found, m, f[m])}
<1>2. L \in Nat
  OBVIOUS
<1>3. 0 \in S
  <2>1. <<>> \in Seq(Scored) /\ Len(<<>>) = 0 /\ 0 <= Slots
    BY StrengthsAreNumbers
  <2>2. Ranks(n, found, 0, <<>>)
    BY <2>1 DEF Ranks
  <2> QED BY <1>1, <2>2
<1>4. ASSUME NEW m \in Nat, m \in S
      PROVE  m + 1 \in S
  <2> SUFFICES ASSUME m + 1 <= L
               PROVE  Ranks(n, found, m + 1, f[m + 1])
    OBVIOUS
  <2>1. Ranks(n, found, m, f[m])
    BY <1>2, <1>4
  <2>2. f[m + 1] = IF Compatible(n, found[m + 1])
                   THEN Insert(f[m], Candidate(n, found[m + 1])) ELSE f[m]
    BY <1>1, <1>2
  <2> QED BY <2>1, <2>2, RankInserted, RankSkipped
<1>5. Nat \subseteq S
  <2> HIDE DEF S
  <2> QED BY <1>3, <1>4, Induction
<1> QED BY <1>1, <1>2, <1>5

-----------------------------------------------------------------------------
(* What a scan finds *)

(* A scan reports each AP of the network at most once. *)
LEMMA FoundIs ==
  ASSUME NEW network, NEW found \in Found(network)
  PROVE  /\ found \in Seq(Records) /\ Distinct(found)
         /\ \A i \in DOMAIN found : NetworkOf[found[i].ap] = network
<1> DEFINE near == {ap \in Aps : NetworkOf[ap] = network}
<1> DEFINE orders(k) == {s \in [1..k -> near] : IsInjective(s)}
           scans(s) == {[i \in DOMAIN s |-> [ap |-> s[i], rssi |-> rssi[i]]] :
                          rssi \in [DOMAIN s -> Strengths]}
<1>1. Found(network) =
        UNION {scans(s) : s \in UNION {orders(k) :
                 k \in {m \in 0..Cardinality(near) : m <= MaxFound}}}
  BY DEF Found
<1> HIDE DEF orders, scans
<1>2. PICK k \in 0..Cardinality(near) : \E s \in orders(k) : found \in scans(s)
  BY <1>1
<1> USE DEF orders, scans
<1>3. PICK s \in [1..k -> near] : IsInjective(s) /\ found \in scans(s)
  BY <1>2
<1>4. PICK rssi \in [DOMAIN s -> Strengths] :
        found = [i \in DOMAIN s |-> [ap |-> s[i], rssi |-> rssi[i]]]
  BY <1>3
<1>5. /\ k \in 0..Cardinality(near) /\ s \in [1..k -> near]
      /\ rssi \in [DOMAIN s -> Strengths]
      /\ IsInjective(s)
      /\ found = [i \in DOMAIN s |-> [ap |-> s[i], rssi |-> rssi[i]]]
  BY <1>2, <1>3, <1>4
<1>6. k \in Nat /\ DOMAIN s = 1..k
  BY <1>5
<1>7. \A i \in 1..k : s[i] \in near /\ rssi[i] \in Strengths
  BY <1>5, <1>6
<1>8. \A i \in 1..k : found[i] = [ap |-> s[i], rssi |-> rssi[i]]
  BY <1>5, <1>6
<1>9. DOMAIN found = 1..k
  BY <1>5, <1>6
<1>10. found \in [1..k -> Records]
  BY <1>5, <1>6, <1>7 DEF Records
<1>11. found \in Seq(Records)
  BY <1>6, <1>10
<1>12. Distinct(found)
  BY <1>5, <1>6, <1>8, <1>9 DEF Distinct, IsInjective
<1> QED BY <1>7, <1>8, <1>9, <1>11, <1>12

(* What rememberCandidates() leaves: candidates for the network that was    *)
(* looked for, each AP once.                                               *)
Remembered(n, m) ==
  \E cs \in BoundedSeq(Candidates, Slots) :
    /\ m = [n EXCEPT !.candidates = cs, !.fresh = TRUE]
    /\ \A i \in DOMAIN cs : NetworkOf[cs[i].ap] = n.config
    /\ Distinct(cs)

(* rememberCandidates() leaves such candidates. *)
LEMMA RememberedIs ==
  ASSUME NEW n \in Stations, NEW found \in Found(n.config)
  PROVE  Remembered(n, rememberCandidates(n, found))
<1> DEFINE kept == Retained(n, found)
<1>1. /\ found \in Seq(Records) /\ Distinct(found)
      /\ \A i \in DOMAIN found : NetworkOf[found[i].ap] = n.config
  BY FoundIs
<1>2. Ranks(n, found, Len(found), kept)
  BY <1>1, RetainedRanks, StationTyped
<1> HIDE DEF kept
<1>3. /\ kept \in Seq(Scored) /\ Len(kept) <= Slots /\ Len(kept) \in Nat
      /\ DOMAIN kept = 1..Len(kept)
      /\ Len(kept) \in 0..Slots
  BY <1>2, StrengthsAreNumbers DEF Ranks
<1>4. PICK cs : cs = [i \in DOMAIN kept |->
              [ap |-> kept[i].ap, failures |-> kept[i].failures,
               cooling |-> kept[i].cooling]]
  OBVIOUS
<1>5. rememberCandidates(n, found) =
        [n EXCEPT !.candidates = cs, !.fresh = TRUE]
  BY <1>4 DEF rememberCandidates, kept
<1>6. cs \in [1..Len(kept) -> Candidates]
  <2>1. \A i \in DOMAIN kept : kept[i] \in Scored
    BY <1>3
  <2> QED BY <1>3, <1>4, <2>1 DEF Scored, Candidates
<1>7. DOMAIN cs = 1..Len(kept)
  BY <1>3, <1>4
<1>8. \A i \in 1..Len(kept) : cs[i].ap = kept[i].ap
  BY <1>3, <1>4
<1>9. ASSUME NEW i \in 1..Len(kept)
      PROVE  NetworkOf[kept[i].ap] = n.config
  <2>1. PICK r \in 1..Len(found) : kept[i] = Candidate(n, found[r])
    BY <1>2 DEF Ranks
  <2>2. r \in DOMAIN found /\ found[r] \in Records
    BY <1>1
  <2>3. kept[i].ap = found[r].ap
    BY <2>1, <2>2, CandidateIs, StationTyped
  <2> QED BY <1>1, <2>2, <2>3
<1>10. ASSUME NEW i \in 1..Len(kept), NEW j \in 1..Len(kept),
              kept[i].ap = kept[j].ap
       PROVE  i = j
  BY <1>2, <1>3, <1>10 DEF Ranks
<1>11. cs \in BoundedSeq(Candidates, Slots)
  BY <1>3, <1>6, CandidatesBounded
<1>12. /\ \A i \in DOMAIN cs : NetworkOf[cs[i].ap] = n.config
       /\ \A i, j \in DOMAIN cs : cs[i].ap = cs[j].ap => i = j
  BY <1>7, <1>8, <1>9, <1>10
<1>13. Distinct(cs)
  BY <1>12 DEF Distinct
<1> QED
  BY Zenon, <1>5, <1>11, <1>12, <1>13 DEF Remembered

(* What a candidate list is made into where its length stays. *)
LEMMA Recandidated ==
  ASSUME NEW s \in BoundedSeq(Candidates, Slots), NEW t,
         DOMAIN t = DOMAIN s, t = [i \in DOMAIN t |-> t[i]],
         \A i \in DOMAIN s : t[i] \in Candidates
  PROVE  t \in BoundedSeq(Candidates, Slots)
<1>1. Len(s) \in 0..Slots /\ DOMAIN s = 1..Len(s)
  BY CandidatesTyped
<1>2. t \in [1..Len(s) -> Candidates]
  BY <1>1
<1> QED BY <1>1, <1>2, CandidatesBounded

(* A candidate of a driver. *)
LEMMA CandidateTyped ==
  ASSUME NEW n \in Stations, NEW i \in DOMAIN n.candidates
  PROVE  /\ n.candidates[i] \in Candidates
         /\ n.candidates[i].ap \in Aps /\ n.candidates[i].failures \in 0..2
         /\ n.candidates[i].cooling \in BOOLEAN
<1>1. n.candidates[i] \in Candidates
  BY CandidatesTyped, StationTyped
<1> QED BY <1>1 DEF Candidates

(* A candidate that is not cooling is one of the candidates. *)
LEMMA EligibleTyped ==
  ASSUME NEW n \in Stations, Eligible(n) # {}
  PROVE  \E i \in Eligible(n) :
           /\ i \in DOMAIN n.candidates
           /\ selectCandidate(n) =
                [n EXCEPT !.candidates[i].failures =
                            IF @ >= 2 THEN 0 ELSE @,
                          !.selected = n.candidates[i].ap,
                          !.prepared = TRUE]
           /\ \A j \in Eligible(n) : i <= j
<1>1. Eligible(n) \subseteq DOMAIN n.candidates
  BY DEF Eligible
<1>2. Eligible(n) \in SUBSET Nat
  BY <1>1, CandidatesTyped, StationTyped
<1>3. \E i \in Eligible(n) : \A j \in Eligible(n) : i <= j
  BY <1>2, Least
<1>4. PICK i : i = CHOOSE k \in Eligible(n) : \A j \in Eligible(n) : k <= j
  OBVIOUS
<1>5. i \in Eligible(n) /\ \A j \in Eligible(n) : i <= j
  BY <1>3, <1>4
<1>6. selectCandidate(n) =
        [n EXCEPT !.candidates[i].failures = IF @ >= 2 THEN 0 ELSE @,
                  !.selected = n.candidates[i].ap,
                  !.prepared = TRUE]
  BY <1>4 DEF selectCandidate
<1> QED BY <1>1, <1>5, <1>6

(* The same APs, in another state. *)
Regarded(s, t) ==
  /\ t \in BoundedSeq(Candidates, Slots)
  /\ DOMAIN t = DOMAIN s /\ \A i \in DOMAIN s : t[i].ap = s[i].ap

(* Looking at the clock changes penalties and freshness, never the APs. *)
LEMMA LaterIs ==
  ASSUME NEW n \in Stations, NEW m \in Later(n)
  PROVE  \E fresh \in BOOLEAN : \E cs :
           /\ m = [n EXCEPT !.fresh = fresh, !.candidates = cs]
           /\ Regarded(n.candidates, cs)
           /\ \A i \in DOMAIN cs : cs[i].failures = n.candidates[i].failures
<1>1. PICK fresh \in {n.fresh, FALSE} : \E over :
        m = [n EXCEPT !.fresh = fresh, !.candidates = Warmed(n, over)]
  BY DEF Later
<1>2. PICK over :
        m = [n EXCEPT !.fresh = fresh, !.candidates = Warmed(n, over)]
  BY <1>1
<1>3. PICK cs : cs = Warmed(n, over)
  OBVIOUS
<1>4. m = [n EXCEPT !.fresh = fresh, !.candidates = cs]
  BY <1>2, <1>3
<1>5. \A i \in DOMAIN n.candidates :
        /\ cs[i] \in Candidates /\ cs[i].ap = n.candidates[i].ap
        /\ cs[i].failures = n.candidates[i].failures
  <2> SUFFICES ASSUME NEW i \in DOMAIN n.candidates
               PROVE  /\ cs[i] \in Candidates /\ cs[i].ap = n.candidates[i].ap
                      /\ cs[i].failures = n.candidates[i].failures
    OBVIOUS
  <2>1. PICK flag : flag = (n.candidates[i].cooling /\ i \notin over)
    OBVIOUS
  <2>2. flag \in BOOLEAN
    BY <2>1
  <2>3. cs[i] = [n.candidates[i] EXCEPT !.cooling = flag]
    BY Zenon, <1>3, <2>1 DEF Warmed
  <2>4. n.candidates[i] \in Candidates
    BY CandidateTyped
  <2> QED BY <2>2, <2>3, <2>4 DEF Candidates
<1>6. DOMAIN cs = DOMAIN n.candidates /\ cs = [i \in DOMAIN cs |-> cs[i]]
  BY <1>3 DEF Warmed
<1>7. cs \in BoundedSeq(Candidates, Slots)
  BY <1>5, <1>6, Recandidated, StationTyped
<1>8. fresh \in BOOLEAN
  BY StationTyped
<1>9. Regarded(n.candidates, cs)
  BY <1>5, <1>6, <1>7 DEF Regarded
<1> QED BY Zenon, <1>4, <1>5, <1>6, <1>8, <1>9

(* selectCandidate() takes the first that is not cooling. *)
LEMMA SelectIs ==
  ASSUME NEW n \in Stations, Eligible(n) # {}
  PROVE  \E i \in DOMAIN n.candidates : \E cs :
           /\ i \in Eligible(n) /\ \A j \in Eligible(n) : i <= j
           /\ selectCandidate(n) = [n EXCEPT !.candidates = cs,
                                             !.selected = n.candidates[i].ap,
                                             !.prepared = TRUE]
           /\ Regarded(n.candidates, cs)
           /\ \A j \in DOMAIN cs : cs[j].failures <= n.candidates[j].failures
<1>1. PICK i \in Eligible(n) :
           /\ i \in DOMAIN n.candidates
           /\ selectCandidate(n) =
                [n EXCEPT !.candidates[i].failures =
                            IF @ >= 2 THEN 0 ELSE @,
                          !.selected = n.candidates[i].ap,
                          !.prepared = TRUE]
           /\ \A j \in Eligible(n) : i <= j
  BY EligibleTyped
<1>2. PICK failures : failures = IF n.candidates[i].failures >= 2 THEN 0
                                 ELSE n.candidates[i].failures
  OBVIOUS
<1>3. failures \in 0..2 /\ failures <= n.candidates[i].failures
  BY <1>1, <1>2, CandidateTyped
<1>4. PICK cs : cs = [n.candidates EXCEPT ![i].failures = failures]
  OBVIOUS
<1>5. selectCandidate(n) = [n EXCEPT !.candidates = cs,
                                     !.selected = n.candidates[i].ap,
                                     !.prepared = TRUE]
  BY Zenon, <1>1, <1>2, <1>4
<1>6. \A j \in DOMAIN n.candidates :
        /\ cs[j] \in Candidates /\ cs[j].ap = n.candidates[j].ap
        /\ cs[j].failures <= n.candidates[j].failures
  <2> SUFFICES ASSUME NEW j \in DOMAIN n.candidates
               PROVE  /\ cs[j] \in Candidates /\ cs[j].ap = n.candidates[j].ap
                      /\ cs[j].failures <= n.candidates[j].failures
    OBVIOUS
  <2>1. n.candidates[j] \in Candidates /\ n.candidates[j].failures \in 0..2
    BY CandidateTyped
  <2>2. CASE i = j
    <3>1. cs[j] = [n.candidates[j] EXCEPT !.failures = failures]
      BY <1>4, <2>2
    <3> QED BY <1>3, <2>1, <2>2, <3>1 DEF Candidates
  <2>3. CASE i # j
    <3>1. cs[j] = n.candidates[j]
      BY <1>4, <2>3
    <3> QED BY <2>1, <3>1
  <2> QED BY <2>2, <2>3
<1>7. DOMAIN cs = DOMAIN n.candidates /\ cs = [j \in DOMAIN cs |-> cs[j]]
  BY <1>4, CandidatesTyped, StationTyped
<1>8. cs \in BoundedSeq(Candidates, Slots)
  BY <1>6, <1>7, Recandidated, StationTyped
<1>9. Regarded(n.candidates, cs)
  BY <1>6, <1>7, <1>8 DEF Regarded
<1> QED BY <1>1, <1>5, <1>6, <1>7, <1>9

(* candidateFailed() changes the penalty of the selected AP, if any. *)
LEMMA FailedIs ==
  ASSUME NEW n \in Stations, NEW failure
  PROVE  \E cs :
           /\ candidateFailed(n, failure) =
                IF n.attempt
                THEN [n EXCEPT !.attempt = FALSE, !.candidates = cs]
                ELSE n
           /\ Regarded(n.candidates, cs)
           /\ \A i \in DOMAIN cs :
                cs[i].failures # n.candidates[i].failures =>
                  n.candidates[i].ap = n.selected
<1>1. PICK cs : cs = [i \in DOMAIN n.candidates |->
                        IF n.candidates[i].ap = n.selected
                        THEN Penalized(n.candidates[i], failure)
                        ELSE n.candidates[i]]
  OBVIOUS
<1>2. candidateFailed(n, failure) =
        IF n.attempt THEN [n EXCEPT !.attempt = FALSE, !.candidates = cs]
        ELSE n
  BY Zenon, <1>1 DEF candidateFailed
<1>3. \A i \in DOMAIN n.candidates :
        /\ cs[i] \in Candidates /\ cs[i].ap = n.candidates[i].ap
        /\ cs[i].failures # n.candidates[i].failures =>
             n.candidates[i].ap = n.selected
  <2> SUFFICES ASSUME NEW i \in DOMAIN n.candidates
               PROVE  /\ cs[i] \in Candidates /\ cs[i].ap = n.candidates[i].ap
                      /\ cs[i].failures # n.candidates[i].failures =>
                           n.candidates[i].ap = n.selected
    OBVIOUS
  <2>1. n.candidates[i] \in Candidates
    BY CandidateTyped
  <2>2. CASE n.candidates[i].ap = n.selected
    <3>1. PICK f \in {1, 2}, c \in BOOLEAN :
            cs[i] = [n.candidates[i] EXCEPT !.failures = f, !.cooling = c]
      <4>1. PICK f : f = IF \/ failure \in {"NetworkNotFound",
                                            "IncompatibleSecurity"}
                            \/ n.candidates[i].failures >= 1
                         THEN 2 ELSE 1
        OBVIOUS
      <4>2. PICK c : c = (n.candidates[i].cooling \/ f = 2)
        OBVIOUS
      <4>3. cs[i] = [n.candidates[i] EXCEPT !.failures = f, !.cooling = c]
        BY Zenon, <1>1, <2>2, <4>1, <4>2 DEF Penalized
      <4>4. f \in {1, 2} /\ c \in BOOLEAN
        BY <4>1, <4>2
      <4> QED BY <4>3, <4>4
    <3>2. f \in 0..2
      BY <3>1
    <3> QED BY <2>1, <2>2, <3>1, <3>2 DEF Candidates
  <2>3. CASE n.candidates[i].ap # n.selected
    BY <1>1, <2>1, <2>3
  <2> QED BY <2>2, <2>3
<1>4. DOMAIN cs = DOMAIN n.candidates /\ cs = [i \in DOMAIN cs |-> cs[i]]
  BY <1>1
<1>5. cs \in BoundedSeq(Candidates, Slots)
  BY <1>3, <1>4, Recandidated, StationTyped
<1>6. Regarded(n.candidates, cs)
  BY <1>3, <1>4, <1>5 DEF Regarded
<1> QED BY <1>2, <1>3, <1>4, <1>6

-----------------------------------------------------------------------------
(* ESP-IDF keeps the driver built *)

(* The events ESP-IDF raises. *)
LEMMA RaiseKinds ==
  /\ \A kind \in {"Start", "Stop", "ScanDone", "LostIp"} :
       IdfEvent(kind, NoAp, "None") \in RadioEvents
  /\ \A ap \in Aps, reason \in DisconnectReason :
       IdfEvent("Disconnected", ap, reason) \in RadioEvents
  /\ \A ap \in Aps, auth \in AuthMode :
       IdfEvent("Connected", ap, auth) \in RadioEvents
  /\ \A ap \in Aps : IdfEvent("GotIp", ap, "None") \in RadioEvents
BY DEF IdfEvent, RadioEvents, IdfEvents

LEMMA LeavesBuilt ==
  ASSUME NEW n, Built(n)
  PROVE  Built(Leaves(n))
<1>1. CASE n.idf.link = "Down"
  BY <1>1 DEF Leaves
<1>2. CASE n.idf.link # "Down"
  <2>1. "ASSOC_LEAVE" \in DisconnectReason
    BY DEF DisconnectReason
  <2>2. n.idf.ap \in Aps
    BY <1>2 DEF Built
  <2>3. Leaves(n) = Raise(Unjoined(n), "Disconnected", n.idf.ap, "ASSOC_LEAVE")
    BY <1>2 DEF Leaves
  <2> QED BY <2>1, <2>2, <2>3, RaiseBuilt, RaiseKinds, UnjoinedBuilt
<1> QED BY <1>1, <1>2

LEMMA ScanningBuilt ==
  ASSUME NEW n, Built(n), NEW scanning \in BOOLEAN
  PROVE  Built([n EXCEPT !.idf.scanning = scanning])
<1>1. PICK m : m = [n EXCEPT !.idf.scanning = scanning]
  OBVIOUS
<1>2. m \in Stations
  BY <1>1 DEF Built, Stations
<1>3. Built(m)
  BY <1>1, <1>2 DEF Built, Stations
<1> QED BY <1>1, <1>3

LEMMA OnBuilt ==
  ASSUME NEW n, Built(n), NEW on \in BOOLEAN
  PROVE  Built([n EXCEPT !.idf.on = on])
<1>1. PICK m : m = [n EXCEPT !.idf.on = on]
  OBVIOUS
<1>2. m \in Stations
  BY <1>1 DEF Built, Stations
<1>3. Built(m)
  BY <1>1, <1>2 DEF Built, Stations
<1> QED BY <1>1, <1>3

LEMMA ScanStopsBuilt ==
  ASSUME NEW n, Built(n)
  PROVE  Built(ScanStops(n))
BY ScanningBuilt, RaiseBuilt, RaiseKinds DEF ScanStops

LEMMA SwitchesBuilt ==
  ASSUME NEW n, Built(n)
  PROVE  Built(Starts(n)) /\ \A m \in Stops(n) : Built(m)
<1>1. Built(Starts(n))
  BY OnBuilt, RaiseBuilt, RaiseKinds DEF Starts
<1>2. ASSUME NEW m \in Stops(n)
      PROVE  Built(m)
  <2>1. PICK s \in {Leaves(ScanStops(n)), Unjoined(ScanStops(n))} :
          m = Raise([s EXCEPT !.idf.on = FALSE], "Stop", NoAp, "None")
    BY <1>2 DEF Stops
  <2>2. Built(s)
    BY <2>1, LeavesBuilt, ScanStopsBuilt, UnjoinedBuilt
  <2> QED BY <2>1, <2>2, OnBuilt, RaiseBuilt, RaiseKinds
<1> QED BY <1>1, <1>2

(* The fields of the driver that an event or a command of ESP-IDF is not.  *)
LEMMA FieldsBuilt ==
  ASSUME NEW n, Built(n),
         NEW m, m.idf = n.idf, m \in Stations, Distinct(m.candidates),
         m.call.kind = "None" => m.call = NoCall,
         m.prepared \/ m.call.kind = "join" => m.selected \in Aps
  PROVE  Built(m)
BY DEF Built

(* What a command may answer and leave behind. *)
Proper(outcome) == Sane(outcome) /\ Built(outcome.native)

LEMMA ProperAnswer ==
  ASSUME NEW st \in {"Ok", "Busy", "ConnectionFailed", "NotFound"},
         NEW n, Built(n)
  PROVE  Proper(Answer(st, n))
<1>1. st \in AnswerStatus
  BY Esp32ErrorsAssumption DEF AnswerStatus
<1> QED BY <1>1 DEF Proper, Sane, Answer

LEMMA ProperPosting ==
  ASSUME NEW n, Built(n), NEW event \in SaneEvents
  PROVE  Proper(AnswerPosting("Ok", n, event))
<1>1. "Ok" \in AnswerStatus
  BY DEF AnswerStatus
<1> QED BY <1>1 DEF Proper, Sane, AnswerPosting

LEMMA SaneEvent ==
  /\ \A enabled \in BOOLEAN : Enablement(enabled) \in SaneEvents
  /\ \A kind \in {"Prepared", "Associated", "AddressReady", "AddressLost"},
        ssid \in Ssid : Event(kind, ssid, "Ok") \in SaneEvents
  /\ \A st \in {"Ok", "ConnectionFailed"} :
        Event("ScanDone", NoNetwork, st) \in SaneEvents
  /\ \A ssid \in Ssid :
        Event("Disconnected", ssid, "ConnectionFailed") \in SaneEvents
<1>1. NoNetwork \in Ssid
  BY DEF Ssid
<1>2. {"Ok", "ConnectionFailed"} \subseteq Status
  BY DEF Status
<1>3. {"Ok", "ConnectionFailed"} \subseteq AnswerStatus
  BY Esp32ErrorsAssumption DEF AnswerStatus
<1> QED
  BY <1>1, <1>2, <1>3
     DEF Enablement, Event, SaneEvents, Events, AnswerStatus

LEMMA Candidateless == <<>> \in BoundedSeq(Candidates, Slots) /\ Distinct(<<>>)
<1>1. <<>> \in [1..0 -> Candidates] /\ 0 \in 0..Slots
  BY StrengthsAreNumbers
<1>2. Distinct(<<>>)
  BY DEF Distinct
<1> QED BY <1>1, <1>2, CandidatesBounded

LEMMA RegardedDistinct ==
  ASSUME NEW s, NEW t, Regarded(s, t), Distinct(s)
  PROVE  Distinct(t)
BY DEF Regarded, Distinct

(* No vendor call has an answer of its own. *)
LEMMA VendorAnswersSane ==
  ASSUME NEW n
  PROVE  VendorAnswers(n) \subseteq {"Ok", "ConnectionFailed"}
BY DEF VendorAnswers

LEMMA CallingProper ==
  ASSUME NEW n, Built(n), NEW kind \in {"scan", "select", "join"},
         NEW st \in {"Ok", "ConnectionFailed"},
         kind = "join" => n.selected \in Aps
  PROVE  Proper(Calling(n, kind, st))
<1>1. PICK m : m = [n EXCEPT !.call = [kind |-> kind, answer |-> st]]
  OBVIOUS
<1>2. st \in Status
  BY DEF Status
<1>3. m \in Stations
  BY <1>1, <1>2 DEF Built, Stations
<1>4. Built(m)
  BY <1>1, <1>3, FieldsBuilt DEF Built, Stations
<1> QED BY <1>1, <1>4, ProperAnswer DEF Calling

-----------------------------------------------------------------------------
(* Commands *)

(* Every answer of enable(), scan(), stopScan(), connect(),                *)
(* continueConnect() and disconnect() is one the adapter knows, and leaves *)
(* a driver that is built.                                                 *)
LEMMA EnableProper ==
  ASSUME NEW n, Built(n), NEW enabled \in BOOLEAN, NEW o \in enable(n, enabled)
  PROVE  Proper(o)
<1>1. PICK m : m = IF enabled THEN n
                   ELSE [n EXCEPT !.candidates = <<>>, !.attempt = FALSE]
  OBVIOUS
<1>2. Built(m)
  <2>1. CASE enabled
    BY <1>1, <2>1
  <2>2. CASE ~enabled
    <3>1. m \in Stations
      BY <1>1, <2>2, Candidateless DEF Built, Stations
    <3>2. Distinct(m.candidates)
      BY <1>1, <2>2, Candidateless DEF Built, Stations
    <3> QED BY <1>1, <2>2, <3>1, <3>2, FieldsBuilt DEF Built, Stations
  <2> QED BY <2>1, <2>2
<1>3. \/ o = Answer("ConnectionFailed", m)
      \/ o = AnswerPosting("Ok", m, Enablement(enabled))
      \/ o = Answer("Ok", Starts(m))
      \/ \E s \in Stops(m) : o = Answer("Ok", s)
  <2>1. n.idf.on \in BOOLEAN
    BY StationTyped DEF Built
  <2> QED BY <1>1, <2>1 DEF enable
<1> QED
  BY <1>2, <1>3, ProperAnswer, ProperPosting, SaneEvent, SwitchesBuilt

LEMMA ScanProper ==
  ASSUME NEW n, Built(n), NEW o \in scan(n)
  PROVE  Proper(o)
<1>1. PICK m : m = [n EXCEPT !.scan_active = TRUE, !.cancelled = FALSE]
  OBVIOUS
<1>2. m \in Stations
  BY <1>1 DEF Built, Stations
<1>3. Built(m)
  BY <1>1, <1>2, FieldsBuilt DEF Built, Stations
<1>4. \/ o = Answer("Busy", n)
      \/ \E st \in {"Ok", "ConnectionFailed"} : o = Calling(m, "scan", st)
  BY <1>1, VendorAnswersSane DEF scan
<1> QED BY <1>3, <1>4, ProperAnswer, CallingProper

LEMMA CancelledBuilt ==
  ASSUME NEW n, Built(n)
  PROVE  Built(Cancelled(n))
<1>1. PICK m : m = Cancelled(n)
  OBVIOUS
<1>2. m \in Stations
  BY <1>1 DEF Built, Stations, Cancelled
<1> QED BY <1>1, <1>2, FieldsBuilt DEF Built, Stations, Cancelled

LEMMA StopScanProper ==
  ASSUME NEW n, Built(n), NEW o \in stopScan(n)
  PROVE  Proper(o)
BY CancelledBuilt, ScanStopsBuilt, ProperAnswer DEF stopScan

(* The same driver with other candidates. *)
LEMMA RecandidatedBuilt ==
  ASSUME NEW n, Built(n), NEW fresh \in BOOLEAN,
         NEW cs \in BoundedSeq(Candidates, Slots), Distinct(cs)
  PROVE  Built([n EXCEPT !.fresh = fresh, !.candidates = cs])
<1>1. PICK m : m = [n EXCEPT !.fresh = fresh, !.candidates = cs]
  OBVIOUS
<1>2. m \in Stations
  BY <1>1 DEF Built, Stations
<1> QED BY <1>1, <1>2, FieldsBuilt DEF Built, Stations

LEMMA LaterBuilt ==
  ASSUME NEW n, Built(n), NEW m \in Later(n)
  PROVE  Built(m)
<1>1. n \in Stations
  BY DEF Built
<1>2. PICK fresh \in BOOLEAN : \E cs :
        /\ m = [n EXCEPT !.fresh = fresh, !.candidates = cs]
        /\ Regarded(n.candidates, cs)
  BY <1>1, LaterIs
<1>3. PICK cs :
        /\ m = [n EXCEPT !.fresh = fresh, !.candidates = cs]
        /\ Regarded(n.candidates, cs)
  BY <1>2
<1>4. cs \in BoundedSeq(Candidates, Slots) /\ Distinct(cs)
  BY <1>3, RegardedDistinct DEF Built, Regarded
<1> QED BY <1>3, <1>4, RecandidatedBuilt

(* What selectCandidate() leaves is prepared for an AP. *)
LEMMA SelectBuilt ==
  ASSUME NEW n, Built(n), Eligible(n) # {}
  PROVE  Built([selectCandidate(n) EXCEPT !.told.phase = "Prepared"])
<1>1. n \in Stations
  BY DEF Built
<1>2. PICK i \in DOMAIN n.candidates : \E cs :
        /\ selectCandidate(n) = [n EXCEPT !.candidates = cs,
                                          !.selected = n.candidates[i].ap,
                                          !.prepared = TRUE]
        /\ Regarded(n.candidates, cs)
  BY <1>1, SelectIs
<1>3. PICK cs :
        /\ selectCandidate(n) = [n EXCEPT !.candidates = cs,
                                          !.selected = n.candidates[i].ap,
                                          !.prepared = TRUE]
        /\ Regarded(n.candidates, cs)
  BY <1>2
<1>4. n.candidates[i].ap \in Aps
  BY <1>1, CandidateTyped
<1>5. PICK m : m = [selectCandidate(n) EXCEPT !.told.phase = "Prepared"]
  OBVIOUS
<1>6. m \in Stations
  BY <1>1, <1>3, <1>4, <1>5, ZenonT(30) DEF Stations, NativePhase, Regarded
<1>7. m.idf = n.idf /\ m.selected = n.candidates[i].ap /\ m.call = n.call
  BY <1>1, <1>3, <1>5 DEF Stations
<1>8. m.candidates = cs
  BY <1>1, <1>3, <1>5 DEF Stations
<1>9. Distinct(m.candidates)
  BY <1>3, <1>8, RegardedDistinct DEF Built
<1> QED BY <1>4, <1>5, <1>6, <1>7, <1>9, FieldsBuilt DEF Built

LEMMA ConnectProper ==
  ASSUME NEW n, Built(n), NEW network \in Ssid, NEW secret \in Ssid,
         NEW o \in connect(n, network, secret)
  PROVE  Proper(o)
<1>1. PICK c : c = Configured(n, network, secret)
  OBVIOUS
<1>2. Built(c)
  <2>1. c \in Stations
    BY <1>1, Candidateless DEF Configured, Built, Stations
  <2>2. c.candidates \in {n.candidates, <<>>}
    BY <1>1 DEF Configured, Built, Stations
  <2>3. Distinct(c.candidates)
    BY <2>2, Candidateless DEF Built
  <2> QED BY <1>1, <2>1, <2>3, FieldsBuilt DEF Configured, Built, Stations
<1>3. \/ o = Answer("Busy", n)
      \/ \E m \in Later(c) :
           /\ Eligible(m) # {}
           /\ o = AnswerPosting("Ok",
                    [selectCandidate(m) EXCEPT !.told.phase = "Prepared"],
                    Event("Prepared", NoNetwork, "Ok"))
      \/ \E m \in Later(c), st \in {"Ok", "ConnectionFailed"} :
           o = Calling([m EXCEPT !.selecting = TRUE, !.cancelled = FALSE],
                       "select", st)
  <2> DEFINE asked == Later(c)
             known == {m \in asked : m.fresh /\ Eligible(m) # {}}
             select(m) == [m EXCEPT !.selecting = TRUE, !.cancelled = FALSE]
  <2>1. \/ o = Answer("Busy", n)
        \/ o \in {AnswerPosting("Ok",
                     [selectCandidate(m) EXCEPT !.told.phase = "Prepared"],
                     Event("Prepared", NoNetwork, "Ok")) : m \in known}
        \/ o \in UNION {{Calling(select(m), "select", answer) :
                            answer \in VendorAnswers(n)} : m \in asked \ known}
    BY <1>1, Zenon DEF connect
  <2>2. CASE o = Answer("Busy", n)
    BY <2>2
  <2>3. CASE o \in {AnswerPosting("Ok",
                     [selectCandidate(m) EXCEPT !.told.phase = "Prepared"],
                     Event("Prepared", NoNetwork, "Ok")) : m \in known}
    BY <2>3, Zenon
  <2>4. CASE o \in UNION {{Calling(select(m), "select", answer) :
                            answer \in VendorAnswers(n)} : m \in asked \ known}
    <3>1. PICK m \in asked \ known, st \in VendorAnswers(n) :
            o = Calling(select(m), "select", st)
      BY <2>4, Zenon
    <3>2. m \in Later(c) /\ st \in {"Ok", "ConnectionFailed"}
      BY <3>1, VendorAnswersSane
    <3> QED BY <3>1, <3>2, Zenon
  <2> QED BY <2>1, <2>2, <2>3, <2>4, Zenon
<1>4. ASSUME NEW m \in Later(c)
      PROVE  Built([m EXCEPT !.selecting = TRUE, !.cancelled = FALSE])
  <2>1. Built(m)
    BY <1>2, LaterBuilt
  <2>2. PICK l : l = [m EXCEPT !.selecting = TRUE, !.cancelled = FALSE]
    OBVIOUS
  <2>3. l \in Stations
    BY <2>1, <2>2 DEF Built, Stations
  <2> QED BY <2>1, <2>2, <2>3, FieldsBuilt DEF Built, Stations
<1>5. Event("Prepared", NoNetwork, "Ok") \in SaneEvents
  BY SaneEvent DEF Ssid
<1> QED
  BY <1>2, <1>3, <1>4, <1>5, LaterBuilt, SelectBuilt, ProperAnswer,
     ProperPosting, CallingProper

LEMMA ContinueProper ==
  ASSUME NEW n, Built(n), NEW o \in continueConnect(n)
  PROVE  Proper(o)
<1>1. PICK b : b = [n EXCEPT !.prepared = FALSE]
  OBVIOUS
<1>2. PICK f : f = [b EXCEPT !.told.phase = "Idle"]
  OBVIOUS
<1>3. PICK g : g = [f EXCEPT !.secret = NoNetwork]
  OBVIOUS
<1>4. PICK c : c = [b EXCEPT !.secret = NoNetwork, !.idf.ip = FALSE,
                             !.attempt = TRUE]
  OBVIOUS
<1>5. Built(b)
  <2>1. b \in Stations
    BY <1>1 DEF Built, Stations
  <2> QED BY <1>1, <2>1, FieldsBuilt DEF Built, Stations
<1>6. Built(f)
  <2>1. f \in Stations
    BY <1>2, <1>5 DEF Built, Stations, NativePhase
  <2> QED BY <1>2, <1>5, <2>1, FieldsBuilt DEF Built, Stations
<1>7. Built(g)
  <2>1. g \in Stations
    BY <1>3, <1>6 DEF Built, Stations, Ssid
  <2> QED BY <1>3, <1>6, <2>1, FieldsBuilt DEF Built, Stations
<1>8. Built(c)
  <2>1. PICK idf : idf = [b.idf EXCEPT !.ip = FALSE]
    OBVIOUS
  <2>2. PICK d : d = [b EXCEPT !.secret = NoNetwork, !.attempt = TRUE]
    OBVIOUS
  <2>3. d \in Stations
    BY <1>5, <2>2 DEF Built, Stations, Ssid
  <2>4. c = [d EXCEPT !.idf = idf]
    BY <1>4, <1>5, <2>1, <2>2 DEF Built, Stations
  <2>5. c \in Stations
    <3>1. b \in Stations
      BY <1>5 DEF Built
    <3>2. idf \in [on : BOOLEAN, scanning : BOOLEAN,
                   link : {"Down", "Joining", "Up"}, ap : Aps \cup {NoAp},
                   auth : AuthMode, ip : BOOLEAN, timer : BOOLEAN,
                   loop : Seq(IdfEvents)]
      BY <2>1, <3>1 DEF Stations
    <3> QED BY <2>3, <2>4, <3>2 DEF Stations
  <2>6. c.idf.loop = b.idf.loop
    BY <1>5, <2>1, <2>2, <2>4 DEF Built, Stations
  <2>7. /\ c.candidates = b.candidates
        /\ c.idf.link = b.idf.link /\ c.idf.ap = b.idf.ap
        /\ c.prepared = b.prepared /\ c.call = b.call
        /\ c.selected = b.selected
    BY <1>5, <2>1, <2>2, <2>4 DEF Built, Stations
  <2> QED BY <1>5, <2>5, <2>6, <2>7 DEF Built
<1>9. n.prepared => c.selected \in Aps
  BY <1>1, <1>4 DEF Built, Stations
<1>10. \/ o = Answer("NotFound", n)
       \/ o = Answer("ConnectionFailed", f)
       \/ o = Answer("ConnectionFailed", g)
       \/ /\ n.prepared
          /\ \E st \in VendorAnswers(n) : o = Calling(c, "join", st)
  BY <1>1, <1>2, <1>3, <1>4, Zenon DEF continueConnect
<1>11. VendorAnswers(n) \subseteq {"Ok", "ConnectionFailed"}
  BY VendorAnswersSane
<1> QED
  BY <1>5, <1>6, <1>7, <1>8, <1>9, <1>10, <1>11, ProperAnswer, CallingProper

LEMMA PhaseBuilt ==
  ASSUME NEW n, Built(n), NEW phase \in NativePhase
  PROVE  Built([n EXCEPT !.told.phase = phase])
<1>1. PICK m : m = [n EXCEPT !.told.phase = phase]
  OBVIOUS
<1>2. m \in Stations
  BY <1>1 DEF Built, Stations
<1> QED BY <1>1, <1>2, FieldsBuilt DEF Built, Stations

LEMMA LeavingBuilt ==
  ASSUME NEW n, Built(n), NEW leaving \in BOOLEAN
  PROVE  Built([n EXCEPT !.told.leaving = leaving])
<1>1. PICK m : m = [n EXCEPT !.told.leaving = leaving]
  OBVIOUS
<1>2. m \in Stations
  BY <1>1 DEF Built, Stations
<1> QED BY <1>1, <1>2, FieldsBuilt DEF Built, Stations

LEMMA AbandoningBuilt ==
  ASSUME NEW n, Built(n)
  PROVE  Built(Abandoning(n))
<1>1. PICK m : m = Abandoning(n)
  OBVIOUS
<1>2. m \in Stations
  BY <1>1 DEF Built, Stations, Abandoning
<1> QED BY <1>1, <1>2, FieldsBuilt DEF Built, Stations, Abandoning

LEMMA UnpreparedBuilt ==
  ASSUME NEW n, Built(n)
  PROVE  Built([n EXCEPT !.prepared = FALSE, !.secret = NoNetwork,
                         !.told.phase = "Idle"])
<1>1. PICK m : m = [n EXCEPT !.prepared = FALSE, !.secret = NoNetwork]
  OBVIOUS
<1>2. m \in Stations
  BY <1>1 DEF Built, Stations, Ssid
<1>3. Built(m)
  BY <1>1, <1>2, FieldsBuilt DEF Built, Stations
<1>4. [n EXCEPT !.prepared = FALSE, !.secret = NoNetwork,
                !.told.phase = "Idle"] = [m EXCEPT !.told.phase = "Idle"]
  BY <1>1 DEF Built, Stations
<1>5. "Idle" \in NativePhase
  BY DEF NativePhase
<1> QED BY <1>3, <1>4, <1>5, PhaseBuilt

LEMMA DisconnectProper ==
  ASSUME NEW n, Built(n), NEW o \in disconnect(n)
  PROVE  Proper(o)
<1>1. PICK m : m = Abandoning(n)
  OBVIOUS
<1>2. PICK leaving \in BOOLEAN : leaving = (n.told.phase # "Idle")
  OBVIOUS
<1>3. PICK l : l = [m EXCEPT !.told.leaving = leaving]
  OBVIOUS
<1>4. Built(m) /\ Built(l)
  BY <1>1, <1>2, <1>3, AbandoningBuilt, LeavingBuilt
<1>5. l = [m EXCEPT !.told.leaving = n.told.phase # "Idle"]
  BY <1>2, <1>3
<1>6. n.prepared \in BOOLEAN /\ n.selecting \in BOOLEAN
  BY DEF Built, Stations
<1>7. \/ o = Answer("NotFound", [m EXCEPT !.prepared = FALSE,
                                          !.secret = NoNetwork,
                                          !.told.phase = "Idle"])
      \/ o = Answer("ConnectionFailed", Cancelled(m))
      \/ o = Answer("Ok", ScanStops(Cancelled(l)))
      \/ o = Answer("ConnectionFailed", m)
      \/ o = Answer("Ok", Leaves(l))
  BY <1>1, <1>5, <1>6 DEF disconnect
<1> QED
  BY <1>4, <1>7, UnpreparedBuilt, CancelledBuilt, ScanStopsBuilt, LeavesBuilt,
     ProperAnswer

(* The loop that reaches nobody. *)
LEMMA DetachBuilt ==
  ASSUME NEW n, Built(n), n.call = NoCall
  PROVE  Built(detach(n))
<1>1. PICK l : l = Leaves(n)
  OBVIOUS
<1>2. Built(l)
  BY <1>1, LeavesBuilt
<1>3. l.call = n.call /\ l.prepared = n.prepared /\ l.selected = n.selected
  BY <1>1 DEF Built, Stations, Leaves, Unjoined, Raise
<1>4. PICK e : e = <<>>
  OBVIOUS
<1>5. e \in Seq(RadioEvents) /\ e \in Seq(IdfEvents)
  BY <1>4
<1>6. PICK idf : idf = [l.idf EXCEPT !.loop = e]
  OBVIOUS
<1>7. PICK a : a = [l EXCEPT !.idf = idf]
  OBVIOUS
<1>8. a \in Stations
  BY <1>2, <1>5, <1>6, <1>7 DEF Built, Stations
<1>9. PICK d : d = [a EXCEPT !.attached = FALSE, !.selecting = FALSE,
                             !.scan_active = FALSE, !.candidates = e,
                             !.attempt = FALSE, !.secret = NoNetwork]
  OBVIOUS
<1>10. d \in Stations
  <2>1. e \in BoundedSeq(Candidates, Slots)
    BY <1>4, Candidateless
  <2> QED BY <1>8, <1>9, <2>1 DEF Stations, Ssid
<1>11. d = detach(n)
  BY <1>1, <1>2, <1>4, <1>6, <1>7, <1>9 DEF Built, Stations, detach
<1>12. /\ d.idf.loop = e /\ d.idf.link = l.idf.link /\ d.idf.ap = l.idf.ap
       /\ d.call = l.call /\ d.prepared = l.prepared
       /\ d.selected = l.selected /\ d.candidates = e
  BY <1>2, <1>6, <1>7, <1>9 DEF Built, Stations
<1>13. Distinct(e)
  BY <1>4, Candidateless
<1> QED
  BY <1>2, <1>5, <1>10, <1>11, <1>12, <1>13 DEF Built

LEMMA NewBuilt == Built(NewStation) /\ Built(AttachedStation)
<1>1. NewStation \in Stations
  <2>1. <<>> \in BoundedSeq(Candidates, Slots) /\ <<>> \in Seq(IdfEvents)
    BY Candidateless
  <2>2. NoCall \in [kind : {"None", "scan", "select", "join"}, answer : Status]
    BY DEF NoCall, Status
  <2>3. StoppedIdf \in
          [on : BOOLEAN, scanning : BOOLEAN, link : {"Down", "Joining", "Up"},
           ap : Aps \cup {NoAp}, auth : AuthMode, ip : BOOLEAN,
           timer : BOOLEAN, loop : Seq(IdfEvents)]
    BY <2>1 DEF StoppedIdf, AuthMode
  <2>4. [enabled |-> FALSE, phase |-> "Idle", leaving |-> FALSE]
          \in [enabled : BOOLEAN, phase : NativePhase, leaving : BOOLEAN]
    BY DEF NativePhase
  <2> QED BY <2>1, <2>2, <2>3, <2>4 DEF NewStation, Stations, Ssid
<1>2. AttachedStation \in Stations
  BY <1>1 DEF AttachedStation, Stations
<1>3. /\ NewStation.idf.loop = <<>> /\ NewStation.idf.link = "Down"
      /\ NewStation.call.kind = "None" /\ ~NewStation.prepared
      /\ NewStation.candidates = <<>> /\ NewStation.call = NoCall
  BY DEF NewStation, StoppedIdf, NoCall
<1>4. /\ AttachedStation.idf = NewStation.idf
      /\ AttachedStation.call = NewStation.call
      /\ AttachedStation.prepared = NewStation.prepared
      /\ AttachedStation.candidates = NewStation.candidates
  BY <1>1 DEF AttachedStation, Stations
<1>5. <<>> \in Seq(RadioEvents) /\ Distinct(<<>>)
  BY Candidateless
<1> QED BY <1>1, <1>2, <1>3, <1>4, <1>5 DEF Built

-----------------------------------------------------------------------------
(* The window of a vendor call closes *)

(* The penalty of an attempt that failed. *)
LEMMA FailedBuilt ==
  ASSUME NEW n, Built(n), NEW failure
  PROVE  Built(candidateFailed(n, failure))
<1>1. n \in Stations
  BY DEF Built
<1>2. PICK cs :
        /\ candidateFailed(n, failure) =
             IF n.attempt THEN [n EXCEPT !.attempt = FALSE, !.candidates = cs]
             ELSE n
        /\ Regarded(n.candidates, cs)
  BY <1>1, FailedIs
<1>3. cs \in BoundedSeq(Candidates, Slots) /\ Distinct(cs)
  BY <1>2, RegardedDistinct DEF Built, Regarded
<1>4. PICK m : m = [n EXCEPT !.attempt = FALSE, !.candidates = cs]
  OBVIOUS
<1>5. m \in Stations
  BY <1>1, <1>3, <1>4 DEF Stations
<1>6. Built(m)
  BY <1>3, <1>4, <1>5, FieldsBuilt DEF Built, Stations
<1> QED BY <1>2, <1>4, <1>6

LEMMA CalledBuilt ==
  ASSUME NEW n, Built(n)
  PROVE  Built([n EXCEPT !.call = NoCall])
<1>1. PICK c : c = NoCall
  OBVIOUS
<1>2. PICK m : m = [n EXCEPT !.call = c]
  OBVIOUS
<1>3. c \in [kind : {"None", "scan", "select", "join"}, answer : Status]
      /\ c.kind = "None"
  BY <1>1 DEF NoCall, Status
<1>4. m \in Stations
  BY <1>2, <1>3 DEF Built, Stations
<1>5. Built(m)
  BY <1>1, <1>2, <1>3, <1>4, FieldsBuilt DEF Built, Stations
<1> QED BY <1>1, <1>2, <1>5

LEMMA UndoneBuilt ==
  ASSUME NEW n, Built(n), n.call # NoCall
  PROVE  Built(Undone(n))
<1>1. n.call.kind \in {"scan", "select", "join"}
  BY DEF Built, Stations
<1>2. CASE n.call.kind = "scan"
  <2>1. PICK m : m = [n EXCEPT !.scan_active = FALSE]
    OBVIOUS
  <2>2. m \in Stations
    BY <2>1 DEF Built, Stations
  <2>3. Built(m)
    BY <2>1, <2>2, FieldsBuilt DEF Built, Stations
  <2> QED BY <1>2, <2>1, <2>3 DEF Undone
<1>3. CASE n.call.kind = "select"
  <2>1. PICK m : m = [n EXCEPT !.selecting = FALSE, !.secret = NoNetwork]
    OBVIOUS
  <2>2. m \in Stations
    BY <2>1 DEF Built, Stations, Ssid
  <2>3. Built(m)
    BY <2>1, <2>2, FieldsBuilt DEF Built, Stations
  <2> QED BY <1>3, <2>1, <2>3 DEF Undone
<1>4. CASE n.call.kind = "join"
  <2>1. "Idle" \in NativePhase
    BY DEF NativePhase
  <2> QED BY <1>4, <2>1, FailedBuilt, PhaseBuilt DEF Undone
<1> QED BY <1>1, <1>2, <1>3, <1>4

LEMMA JoiningBuilt ==
  ASSUME NEW n, Built(n), n.selected \in Aps
  PROVE  Built([n EXCEPT !.idf.link = "Joining", !.idf.ap = n.selected,
                         !.told.phase = "Joining"])
<1>1. PICK idf : idf = [n.idf EXCEPT !.link = "Joining", !.ap = n.selected]
  OBVIOUS
<1>2. PICK m : m = [n EXCEPT !.idf = idf]
  OBVIOUS
<1>3. m \in Stations
  <2>1. n \in Stations
    BY DEF Built
  <2>2. idf \in [on : BOOLEAN, scanning : BOOLEAN,
                 link : {"Down", "Joining", "Up"}, ap : Aps \cup {NoAp},
                 auth : AuthMode, ip : BOOLEAN, timer : BOOLEAN,
                 loop : Seq(IdfEvents)]
    BY <1>1, <2>1 DEF Stations
  <2> QED BY <1>2, <2>1, <2>2 DEF Stations
<1>4. Built(m)
  BY <1>1, <1>2, <1>3 DEF Built, Stations
<1>5. [n EXCEPT !.idf.link = "Joining", !.idf.ap = n.selected,
                !.told.phase = "Joining"] = [m EXCEPT !.told.phase = "Joining"]
  BY <1>1, <1>2 DEF Built, Stations
<1>6. "Joining" \in NativePhase
  BY DEF NativePhase
<1> QED BY <1>4, <1>5, <1>6, PhaseBuilt

LEMMA DoneBuilt ==
  ASSUME NEW n, Built(n), n.call # NoCall
  PROVE  Built(Done(n))
<1>1. n.call.kind \in {"scan", "select", "join"}
  BY DEF Built, Stations
<1>2. CASE n.call.kind = "scan"
  BY <1>2, ScanningBuilt DEF Done
<1>3. CASE n.call.kind = "select"
  <2>1. PICK m : m = [n EXCEPT !.idf.scanning = TRUE]
    OBVIOUS
  <2>2. Built(m)
    BY <2>1, ScanningBuilt
  <2>3. [n EXCEPT !.idf.scanning = TRUE, !.told.phase = "Selecting"]
          = [m EXCEPT !.told.phase = "Selecting"]
    BY <2>1, Zenon
  <2>4. "Selecting" \in NativePhase
    BY DEF NativePhase
  <2> QED BY <1>3, <2>2, <2>3, <2>4, PhaseBuilt DEF Done
<1>4. CASE n.call.kind = "join"
  BY <1>4, JoiningBuilt DEF Done, Built
<1> QED BY <1>1, <1>2, <1>3, <1>4

LEMMA ReturnedBuilt ==
  ASSUME NEW n, Built(n), n.call # NoCall
  PROVE  Built(Returned(n))
BY DoneBuilt, UndoneBuilt, CalledBuilt DEF Returned

-----------------------------------------------------------------------------
(* event() *)

LEMMA RestBuilt ==
  ASSUME Built(native), native.idf.loop # <<>>
  PROVE  /\ Built(Rest) /\ Current \in RadioEvents
         /\ Rest = [native EXCEPT !.idf = Rest.idf]
         /\ Rest.config = native.config
         /\ Rest.idf.loop = Tail(native.idf.loop)
<1>1. /\ native.idf.loop \in Seq(RadioEvents)
      /\ native.idf.loop \in Seq(IdfEvents)
  BY DEF Built, Stations
<1>2. PICK loop : loop = Tail(native.idf.loop)
  OBVIOUS
<1>3. /\ Current \in RadioEvents
      /\ loop \in Seq(RadioEvents) /\ loop \in Seq(IdfEvents)
  BY <1>1, <1>2, Dropped DEF Current
<1>4. PICK idf : idf = [native.idf EXCEPT !.loop = loop]
  OBVIOUS
<1>5. PICK m : m = [native EXCEPT !.idf = idf]
  OBVIOUS
<1>6. m \in Stations
  BY <1>3, <1>4, <1>5 DEF Built, Stations
<1>7. m.idf = idf /\ idf.loop = loop
  BY <1>4, <1>5 DEF Built, Stations
<1>8. Built(m)
  BY <1>3, <1>4, <1>5, <1>6, <1>7 DEF Built, Stations
<1>9. m = Rest
  BY <1>2, <1>4, <1>5, Zenon DEF Rest
<1>10. m.config = native.config
  BY <1>5 DEF Built, Stations
<1> QED BY <1>2, <1>3, <1>5, <1>7, <1>8, <1>9, <1>10

LEMMA CurrentTyped ==
  ASSUME Current \in RadioEvents
  PROVE  /\ Current.kind \in {"Connected", "Disconnected", "GotIp"} =>
              Current.ap \in Aps /\ NetworkOf[Current.ap] \in Ssid
<1>1. \A ap \in Aps : NetworkOf[ap] \in Ssid
  BY Esp32Assumption DEF Ssid
<1> QED BY <1>1 DEF RadioEvents

(* What event() leaves behind. *)
Reacts ==
  /\ Built(native')
  /\ mail' = mail \/ \E event \in SaneEvents : mail' = post(mail, event)

LEMMA PostedBy ==
  ASSUME NEW n, Built(n), NEW event \in SaneEvents, PostsEvent(n, event)
  PROVE  Reacts
BY DEF PostsEvent, Reacts

LEMMA IgnoredBy ==
  ASSUME NEW n, Built(n), Ignores(n)
  PROVE  Reacts
BY DEF Ignores, Reacts

LEMMA ToldBuilt ==
  ASSUME NEW n, Built(n), NEW enabled \in BOOLEAN
  PROVE  Built([n EXCEPT !.told.enabled = enabled])
<1>1. PICK m : m = [n EXCEPT !.told.enabled = enabled]
  OBVIOUS
<1>2. m \in Stations
  BY <1>1 DEF Built, Stations
<1> QED BY <1>1, <1>2, FieldsBuilt DEF Built, Stations

LEMMA AddressBuilt ==
  ASSUME NEW n, Built(n), NEW ip \in BOOLEAN
  PROVE  Built([n EXCEPT !.idf.ip = ip])
<1>1. PICK m : m = [n EXCEPT !.idf.ip = ip]
  OBVIOUS
<1>2. m \in Stations
  BY <1>1 DEF Built, Stations
<1>3. Built(m)
  BY <1>1, <1>2 DEF Built, Stations
<1> QED BY <1>1, <1>3

LEMMA TimerBuilt ==
  ASSUME NEW n, Built(n), NEW timer \in BOOLEAN
  PROVE  Built([n EXCEPT !.idf.timer = timer])
<1>1. PICK m : m = [n EXCEPT !.idf.timer = timer]
  OBVIOUS
<1>2. m \in Stations
  BY <1>1 DEF Built, Stations
<1>3. Built(m)
  BY <1>1, <1>2 DEF Built, Stations
<1> QED BY <1>1, <1>3

LEMMA RejectedBuilt ==
  ASSUME NEW n, Built(n), NEW rejected \in BOOLEAN
  PROVE  Built([n EXCEPT !.rejected = rejected])
<1>1. PICK m : m = [n EXCEPT !.rejected = rejected]
  OBVIOUS
<1>2. m \in Stations
  BY <1>1 DEF Built, Stations
<1>3. Built(m)
  BY <1>1, <1>2, FieldsBuilt DEF Built, Stations
<1> QED BY <1>1, <1>3

LEMMA SelectingBuilt ==
  ASSUME NEW n, Built(n), NEW selecting \in BOOLEAN
  PROVE  Built([n EXCEPT !.selecting = selecting])
<1>1. PICK m : m = [n EXCEPT !.selecting = selecting]
  OBVIOUS
<1>2. m \in Stations
  BY <1>1 DEF Built, Stations
<1> QED BY <1>1, <1>2, FieldsBuilt DEF Built, Stations

LEMMA ScanActiveBuilt ==
  ASSUME NEW n, Built(n), NEW scan_active \in BOOLEAN
  PROVE  Built([n EXCEPT !.scan_active = scan_active])
<1>1. PICK m : m = [n EXCEPT !.scan_active = scan_active]
  OBVIOUS
<1>2. m \in Stations
  BY <1>1 DEF Built, Stations
<1> QED BY <1>1, <1>2, FieldsBuilt DEF Built, Stations

LEMMA CancellingBuilt ==
  ASSUME NEW n, Built(n), NEW cancelled \in BOOLEAN
  PROVE  Built([n EXCEPT !.cancelled = cancelled])
<1>1. PICK m : m = [n EXCEPT !.cancelled = cancelled]
  OBVIOUS
<1>2. m \in Stations
  BY <1>1 DEF Built, Stations
<1> QED BY <1>1, <1>2, FieldsBuilt DEF Built, Stations

LEMMA SecretBuilt ==
  ASSUME NEW n, Built(n), NEW secret \in Ssid
  PROVE  Built([n EXCEPT !.secret = secret])
<1>1. PICK m : m = [n EXCEPT !.secret = secret]
  OBVIOUS
<1>2. m \in Stations
  BY <1>1 DEF Built, Stations
<1> QED BY <1>1, <1>2, FieldsBuilt DEF Built, Stations

LEMMA OnStartPosted ==
  ASSUME Built(native), OnStart
  PROVE  Reacts
BY RestBuilt, ToldBuilt, SaneEvent, PostedBy DEF OnStart, Delivered

LEMMA OnStopPosted ==
  ASSUME Built(native), OnStop
  PROVE  Reacts
<1>1. Built(Rest)
  BY RestBuilt DEF OnStop, Delivered
<1>2. PICK a : a = [Rest EXCEPT !.idf.ip = FALSE]
  OBVIOUS
<1>3. PICK b : b = [a EXCEPT !.told.enabled = FALSE]
  OBVIOUS
<1>4. PICK c : c = [b EXCEPT !.told.phase = "Idle"]
  OBVIOUS
<1>5. "Idle" \in NativePhase
  BY DEF NativePhase
<1>6. Built(c)
  BY <1>1, <1>2, <1>3, <1>4, <1>5, AddressBuilt, ToldBuilt, PhaseBuilt
<1>7. c = [Rest EXCEPT !.idf.ip = FALSE, !.told.enabled = FALSE,
                       !.told.phase = "Idle"]
  BY <1>2, <1>3, <1>4, Zenon
<1>8. PostsEvent(c, Enablement(FALSE))
  BY <1>7 DEF OnStop
<1> QED BY <1>6, <1>8, PostedBy, SaneEvent

LEMMA UnselectedPosted ==
  ASSUME Built(native), native.idf.loop # <<>>, Unselected
  PROVE  Reacts
<1>1. Built(Rest)
  BY RestBuilt
<1>2. PICK a : a = [Rest EXCEPT !.selecting = FALSE]
  OBVIOUS
<1>3. PICK b : b = [a EXCEPT !.cancelled = FALSE]
  OBVIOUS
<1>4. PICK c : c = [b EXCEPT !.secret = NoNetwork]
  OBVIOUS
<1>5. PICK d : d = [c EXCEPT !.told.phase = "Idle"]
  OBVIOUS
<1>6. PICK e : e = [d EXCEPT !.told.leaving = FALSE]
  OBVIOUS
<1>7. "Idle" \in NativePhase /\ NoNetwork \in Ssid
  BY DEF NativePhase, Ssid
<1>8. Built(c)
  BY <1>1, <1>2, <1>3, <1>4, <1>7, SelectingBuilt, CancellingBuilt, SecretBuilt
<1>9. Built(e)
  BY <1>5, <1>6, <1>7, <1>8, PhaseBuilt, LeavingBuilt
<1>10. e = [Rest EXCEPT !.selecting = FALSE, !.cancelled = FALSE,
                        !.secret = NoNetwork, !.told.phase = "Idle",
                        !.told.leaving = FALSE]
  BY <1>2, <1>3, <1>4, <1>5, <1>6, Zenon
<1>11. PostsEvent(e, Event("Disconnected", native.config, "ConnectionFailed"))
  BY <1>10, Zenon DEF Unselected
<1>12. native.config \in Ssid
  BY DEF Built, Stations
<1> QED BY <1>9, <1>11, <1>12, PostedBy, SaneEvent

LEMMA SelectedPosted ==
  ASSUME Built(native), native.idf.loop # <<>>,
         NEW n \in Later(Rest), NEW found \in Found(native.config),
         Selected(n, found)
  PROVE  Reacts
<1>1. Built(Rest) /\ Rest.config = native.config
  BY RestBuilt
<1>2. Built(n) /\ n.config = native.config
  <2>1. Rest \in Stations
    BY <1>1 DEF Built
  <2>2. \E fresh, cs :
          n = [Rest EXCEPT !.fresh = fresh, !.candidates = cs]
    <3>1. \E fresh \in BOOLEAN : \E cs :
            /\ n = [Rest EXCEPT !.fresh = fresh, !.candidates = cs]
            /\ Regarded(Rest.candidates, cs)
            /\ \A i \in DOMAIN cs :
                 cs[i].failures = Rest.candidates[i].failures
      BY <2>1, LaterIs
    <3> QED BY <3>1, Zenon
  <2>3. n.config = Rest.config
    BY <2>1, <2>2 DEF Stations
  <2>4. Built(n)
    BY <1>1, LaterBuilt
  <2> QED BY <1>1, <2>3, <2>4
<1>3. PICK s : s = [n EXCEPT !.selecting = FALSE]
  OBVIOUS
<1>4. Built(s) /\ s.config = native.config
  <2>1. s.config = n.config
    BY <1>2, <1>3 DEF Built, Stations
  <2> QED BY <1>2, <1>3, <2>1, SelectingBuilt
<1>5. PICK m : m = rememberCandidates(s, found)
  OBVIOUS
<1>6. Built(m)
  <2>1. s \in Stations /\ found \in Found(s.config)
    BY <1>4 DEF Built
  <2>2. Remembered(s, m)
    BY <1>5, <2>1, RememberedIs
  <2>3. PICK cs \in BoundedSeq(Candidates, Slots) :
          /\ m = [s EXCEPT !.candidates = cs, !.fresh = TRUE]
          /\ Distinct(cs)
    BY <2>2, Zenon DEF Remembered
  <2>4. PICK fresh \in BOOLEAN : fresh = TRUE
    OBVIOUS
  <2>5. m = [s EXCEPT !.fresh = fresh, !.candidates = cs]
    BY <2>1, <2>3, <2>4 DEF Stations
  <2>6. Built([s EXCEPT !.fresh = fresh, !.candidates = cs])
    BY <1>4, <2>3, <2>4, RecandidatedBuilt
  <2> QED BY <2>5, <2>6
<1>7. CASE Eligible(m) # {}
  <2>1. PostsEvent([selectCandidate(m) EXCEPT !.told.phase = "Prepared"],
                   Event("Prepared", NoNetwork, "Ok"))
    BY <1>3, <1>5, <1>7, Zenon DEF Selected
  <2>2. NoNetwork \in Ssid
    BY DEF Ssid
  <2> QED BY <1>6, <1>7, <2>1, <2>2, SelectBuilt, PostedBy, SaneEvent
<1>8. CASE Eligible(m) = {}
  <2>1. PICK c : c = [m EXCEPT !.secret = NoNetwork]
    OBVIOUS
  <2>2. PICK d : d = [c EXCEPT !.told.phase = "Idle"]
    OBVIOUS
  <2>3. PICK e : e = [d EXCEPT !.told.leaving = FALSE]
    OBVIOUS
  <2>4. "Idle" \in NativePhase /\ NoNetwork \in Ssid
    BY DEF NativePhase, Ssid
  <2>5. Built(e)
    BY <1>6, <2>1, <2>2, <2>3, <2>4, SecretBuilt, PhaseBuilt, LeavingBuilt
  <2>6. e = [m EXCEPT !.secret = NoNetwork, !.told.phase = "Idle",
                      !.told.leaving = FALSE]
    BY <2>1, <2>2, <2>3, Zenon
  <2>7. PostsEvent(e, Event("Disconnected", native.config,
                            "ConnectionFailed"))
    BY <1>3, <1>5, <1>8, <2>6, Zenon DEF Selected
  <2>8. native.config \in Ssid
    BY DEF Built, Stations
  <2> QED BY <2>5, <2>7, <2>8, PostedBy, SaneEvent
<1> QED BY <1>7, <1>8

LEMMA OnScanDonePosted ==
  ASSUME Built(native), OnScanDone
  PROVE  Reacts
<1>1. native.idf.loop # <<>> /\ Built(Rest)
  BY RestBuilt DEF OnScanDone, Delivered
<1>2. native.selecting \in BOOLEAN /\ native.scan_active \in BOOLEAN
  BY DEF Built, Stations
<1>3. \/ \E n \in Later(Rest), found \in Found(native.config) :
           Selected(n, found)
      \/ Unselected
      \/ \E status \in {"Ok", "ConnectionFailed"} :
           PostsEvent([Rest EXCEPT !.scan_active = FALSE, !.cancelled = FALSE],
                      Event("ScanDone", NoNetwork, status))
      \/ Ignores(Rest)
  BY <1>2, Zenon DEF OnScanDone
<1>4. CASE \E n \in Later(Rest), found \in Found(native.config) :
             Selected(n, found)
  BY <1>1, <1>4, SelectedPosted
<1>5. CASE Unselected
  BY <1>1, <1>5, UnselectedPosted
<1>6. ASSUME NEW status \in {"Ok", "ConnectionFailed"},
             PostsEvent([Rest EXCEPT !.scan_active = FALSE,
                                     !.cancelled = FALSE],
                        Event("ScanDone", NoNetwork, status))
      PROVE  Reacts
  <2>1. PICK a : a = [Rest EXCEPT !.scan_active = FALSE]
    OBVIOUS
  <2>2. PICK b : b = [a EXCEPT !.cancelled = FALSE]
    OBVIOUS
  <2>3. Built(b)
    BY <1>1, <2>1, <2>2, ScanActiveBuilt, CancellingBuilt
  <2>4. b = [Rest EXCEPT !.scan_active = FALSE, !.cancelled = FALSE]
    BY <2>1, <2>2, Zenon
  <2>5. PostsEvent(b, Event("ScanDone", NoNetwork, status))
    BY <1>6, <2>4, Zenon
  <2> QED BY <2>3, <2>5, PostedBy, SaneEvent
<1>7. CASE Ignores(Rest)
  BY <1>1, <1>7, IgnoredBy
<1> QED BY <1>3, <1>4, <1>5, <1>6, <1>7

LEMMA OnConnectedPosted ==
  ASSUME Built(native), OnConnected
  PROVE  Reacts
<1>1. /\ Built(Rest) /\ Current \in RadioEvents
      /\ Current.kind = "Connected"
  BY RestBuilt DEF OnConnected, Delivered, Current
<1>2. NetworkOf[Current.ap] \in Ssid
  BY <1>1, CurrentTyped
<1>3. PICK m : m = [Rest EXCEPT !.rejected = TRUE]
  OBVIOUS
<1>4. \/ PostsEvent([Rest EXCEPT !.told.phase = "Associated"],
                    Event("Associated", NetworkOf[Current.ap], "Ok"))
      \/ Ignores(m) \/ Ignores(Leaves(m))
  BY <1>3, Zenon DEF OnConnected
<1>5. Built(m) /\ Built(Leaves(m))
  BY <1>1, <1>3, RejectedBuilt, LeavesBuilt
<1>6. Built([Rest EXCEPT !.told.phase = "Associated"])
  BY <1>1, PhaseBuilt DEF NativePhase
<1>7. Event("Associated", NetworkOf[Current.ap], "Ok") \in SaneEvents
  BY <1>2, SaneEvent
<1> QED BY <1>4, <1>5, <1>6, <1>7, PostedBy, IgnoredBy

LEMMA OnDisconnectedPosted ==
  ASSUME Built(native), OnDisconnected
  PROVE  Reacts
<1>1. /\ Built(Rest) /\ Current \in RadioEvents
      /\ Current.kind = "Disconnected"
  BY RestBuilt DEF OnDisconnected, Delivered, Current
<1>2. NetworkOf[Current.ap] \in Ssid
  BY <1>1, CurrentTyped
<1>3. PICK failure : failure = IF native.rejected THEN "IncompatibleSecurity"
                               ELSE ClassifyDisconnect(Current.detail)
  OBVIOUS
<1>4. PICK a : a = candidateFailed(Rest, failure)
  OBVIOUS
<1>5. Built(a)
  BY <1>1, <1>4, FailedBuilt
<1>6. PICK timer : timer = (a.idf.timer \/ native.idf.ip)
  OBVIOUS
<1>7. timer \in BOOLEAN
  BY <1>6
<1>8. PICK b : b = [a EXCEPT !.rejected = FALSE]
  OBVIOUS
<1>9. PICK c : c = [b EXCEPT !.idf.ip = FALSE]
  OBVIOUS
<1>10. PICK d : d = [c EXCEPT !.idf.timer = timer]
  OBVIOUS
<1>11. PICK e : e = [d EXCEPT !.told.phase = "Idle"]
  OBVIOUS
<1>12. PICK f : f = [e EXCEPT !.told.leaving = FALSE]
  OBVIOUS
<1>13. "Idle" \in NativePhase
  BY DEF NativePhase
<1>14. Built(d)
  BY <1>5, <1>7, <1>8, <1>9, <1>10, RejectedBuilt, AddressBuilt, TimerBuilt
<1>15. Built(f)
  BY <1>11, <1>12, <1>13, <1>14, PhaseBuilt, LeavingBuilt
<1>16. f = [a EXCEPT !.rejected = FALSE, !.idf.ip = FALSE,
                     !.idf.timer = @ \/ native.idf.ip,
                     !.told.phase = "Idle", !.told.leaving = FALSE]
  <2>1. f = [a EXCEPT !.rejected = FALSE, !.idf.ip = FALSE,
                      !.idf.timer = timer,
                      !.told.phase = "Idle", !.told.leaving = FALSE]
    BY <1>8, <1>9, <1>10, <1>11, <1>12, Zenon
  <2>2. [a EXCEPT !.idf.timer = timer]
          = [a EXCEPT !.idf.timer = @ \/ native.idf.ip]
    BY <1>6, Zenon
  <2> QED BY <1>6, <2>1, Zenon
<1>17. PostsEvent(f, Event("Disconnected", NetworkOf[Current.ap],
                           "ConnectionFailed"))
  BY <1>3, <1>4, <1>16, Zenon DEF OnDisconnected
<1> QED BY <1>2, <1>15, <1>17, PostedBy, SaneEvent

LEMMA OnLostIpPosted ==
  ASSUME Built(native), OnLostIp
  PROVE  Reacts
<1>1. Built(Rest)
  BY RestBuilt DEF OnLostIp, Delivered
<1>2. PICK phase : phase = IF Rest.told.phase = "AddressReady"
                           THEN "Associated" ELSE Rest.told.phase
  OBVIOUS
<1>3. phase \in NativePhase
  BY <1>1, <1>2 DEF Built, Stations, NativePhase
<1>4. PICK m : m = [Rest EXCEPT !.told.phase = phase]
  OBVIOUS
<1>5. m = [Rest EXCEPT !.told.phase = IF @ = "AddressReady"
                                      THEN "Associated" ELSE @]
  BY <1>2, <1>4, Zenon
<1>6. \/ Ignores(Rest)
      \/ PostsEvent(m, Event("AddressLost", NoNetwork, "Ok"))
  BY <1>5, Zenon DEF OnLostIp
<1>7. Event("AddressLost", NoNetwork, "Ok") \in SaneEvents
  BY SaneEvent DEF Ssid
<1> QED
  BY <1>1, <1>3, <1>4, <1>6, <1>7, PhaseBuilt, PostedBy, IgnoredBy

(* The AP that was joined keeps no penalty. *)
Forgiven(n) ==
  [i \in DOMAIN n.candidates |->
    IF n.candidates[i].ap = native.selected
    THEN [n.candidates[i] EXCEPT !.failures = 0, !.cooling = FALSE]
    ELSE n.candidates[i]]

LEMMA ForgivenIs ==
  ASSUME NEW n \in Stations
  PROVE  /\ Regarded(n.candidates, Forgiven(n))
         /\ \A i \in DOMAIN n.candidates :
              Forgiven(n)[i].failures <= n.candidates[i].failures
<1>1. PICK cs : cs = Forgiven(n)
  OBVIOUS
<1>2. ASSUME NEW i \in DOMAIN n.candidates
      PROVE  /\ cs[i] \in Candidates /\ cs[i].ap = n.candidates[i].ap
             /\ cs[i].failures <= n.candidates[i].failures
  <2>1. n.candidates[i] \in Candidates /\ n.candidates[i].failures \in 0..2
    BY CandidateTyped
  <2>2. CASE n.candidates[i].ap = native.selected
    <3>1. PICK cooling \in BOOLEAN : cooling = FALSE
      OBVIOUS
    <3>2. PICK failures \in 0..2 : failures = 0
      OBVIOUS
    <3>3. cs[i] = [n.candidates[i] EXCEPT !.failures = failures,
                                          !.cooling = cooling]
      BY <1>1, <2>2, <3>1, <3>2, Zenon DEF Forgiven
    <3>4. cs[i] \in Candidates /\ cs[i].failures = failures
          /\ cs[i].ap = n.candidates[i].ap
      BY <2>1, <3>3 DEF Candidates
    <3> QED BY <2>1, <3>2, <3>4
  <2>3. CASE n.candidates[i].ap # native.selected
    <3>1. cs[i] = n.candidates[i]
      BY <1>1, <2>3 DEF Forgiven
    <3> QED BY <2>1, <3>1
  <2> QED BY <2>2, <2>3
<1>3. DOMAIN cs = DOMAIN n.candidates /\ cs = [i \in DOMAIN cs |-> cs[i]]
  BY <1>1 DEF Forgiven
<1>4. cs \in BoundedSeq(Candidates, Slots)
  BY <1>2, <1>3, Recandidated, StationTyped
<1>5. Regarded(n.candidates, cs)
  BY <1>2, <1>3, <1>4 DEF Regarded
<1> QED BY <1>1, <1>2, <1>5

LEMMA OnGotIpPosted ==
  ASSUME Built(native), OnGotIp
  PROVE  Reacts
<1>1. Built(Rest)
  BY RestBuilt DEF OnGotIp, Delivered
<1>2. CASE native.idf.link = "Up" /\ native.idf.ip
           /\ native.idf.ap = native.selected
  <2>1. NetworkOf[native.idf.ap] \in Ssid
    <3>1. native.idf.ap \in Aps
      BY <1>2 DEF Built
    <3> QED BY <3>1, Esp32Assumption DEF Ssid
  <2>2. PICK cs : cs = Forgiven(Rest)
    OBVIOUS
  <2>3. cs \in BoundedSeq(Candidates, Slots) /\ Distinct(cs)
    <3>1. Rest \in Stations
      BY <1>1 DEF Built
    <3> QED BY <1>1, <2>2, <3>1, ForgivenIs, RegardedDistinct
            DEF Built, Regarded
  <2>4. PICK a : a = [Rest EXCEPT !.attempt = FALSE]
    OBVIOUS
  <2>5. PICK b : b = [a EXCEPT !.fresh = a.fresh, !.candidates = cs]
    OBVIOUS
  <2>6. PICK phase : phase = IF Rest.told.phase = "Associated"
                             THEN "AddressReady" ELSE Rest.told.phase
    OBVIOUS
  <2>7. PICK c : c = [b EXCEPT !.told.phase = phase]
    OBVIOUS
  <2>8. phase \in NativePhase
    BY <1>1, <2>6 DEF Built, Stations, NativePhase
  <2>9. Built(a) /\ a = Abandoning(Rest)
    BY <1>1, <2>4, AbandoningBuilt DEF Abandoning
  <2>10. a.fresh \in BOOLEAN
    BY <2>9 DEF Built, Stations
  <2>11. Built(c)
    BY <2>3, <2>5, <2>7, <2>8, <2>9, <2>10, RecandidatedBuilt, PhaseBuilt
  <2>12. b = [a EXCEPT !.candidates = cs]
    BY <2>5, <2>9 DEF Built, Stations
  <2>13. c = [Rest EXCEPT !.attempt = FALSE, !.candidates = cs,
                          !.told.phase = phase]
    BY <2>4, <2>7, <2>12, Zenon
  <2>14. c = [Rest EXCEPT
                !.attempt = FALSE,
                !.candidates = [i \in DOMAIN @ |->
                  IF @[i].ap = native.selected
                  THEN [@[i] EXCEPT !.failures = 0, !.cooling = FALSE]
                  ELSE @[i]],
                !.told.phase = IF @ = "Associated" THEN "AddressReady" ELSE @]
    BY <2>2, <2>6, <2>13, Zenon DEF Forgiven
  <2>15. PostsEvent(c, Event("AddressReady", NetworkOf[native.idf.ap], "Ok"))
    BY <1>2, <2>14, Zenon DEF OnGotIp
  <2> QED BY <2>1, <2>11, <2>15, PostedBy, SaneEvent
<1>3. CASE ~(native.idf.link = "Up" /\ native.idf.ip
             /\ native.idf.ap = native.selected)
  <2>1. Ignores(Rest)
    BY <1>3, Zenon DEF OnGotIp
  <2> QED BY <1>1, <2>1, IgnoredBy
<1> QED BY <1>2, <1>3

LEMMA DeliversPosted ==
  ASSUME Built(native), Delivers
  PROVE  Reacts
BY OnStartPosted, OnStopPosted, OnScanDonePosted, OnConnectedPosted,
   OnDisconnectedPosted, OnGotIpPosted, OnLostIpPosted
   DEF Delivers

-----------------------------------------------------------------------------
(* The radio *)

LEMMA RaisesBuilt ==
  ASSUME NEW n, Built(n), NEW kind, NEW ap, NEW detail,
         IdfEvent(kind, ap, detail) \in RadioEvents,
         Raises(n, kind, ap, detail)
  PROVE  Built(native') /\ mail' = mail
BY RaiseBuilt DEF Raises

LEMMA HappensBuilt ==
  ASSUME Built(native), Happens
  PROVE  Built(native') /\ mail' = mail
<1>1. CASE ScanFinishes
  BY <1>1, ScanningBuilt, RaiseKinds, RaisesBuilt DEF ScanFinishes
<1>2. ASSUME NEW auth \in Joined, Joins(auth)
      PROVE  Built(native') /\ mail' = mail
  <2>1. auth \in AuthMode /\ native.idf.ap \in Aps
    BY <1>2, Esp32Assumption DEF Joins, Built
  <2>2. PICK idf : idf = [native.idf EXCEPT !.link = "Up", !.auth = auth]
    OBVIOUS
  <2>3. PICK m : m = [native EXCEPT !.idf = idf]
    OBVIOUS
  <2>4. m \in Stations
    <3>1. native \in Stations
      BY DEF Built
    <3>2. idf \in [on : BOOLEAN, scanning : BOOLEAN,
                   link : {"Down", "Joining", "Up"}, ap : Aps \cup {NoAp},
                   auth : AuthMode, ip : BOOLEAN, timer : BOOLEAN,
                   loop : Seq(IdfEvents)]
      BY <2>1, <2>2, <3>1 DEF Stations
    <3> QED BY <2>3, <3>1, <3>2 DEF Stations
  <2>5. Built(m)
    BY <2>1, <2>2, <2>3, <2>4 DEF Built, Stations
  <2>6. m = [native EXCEPT !.idf.link = "Up", !.idf.auth = auth]
    BY <2>2, <2>3 DEF Built, Stations
  <2>7. Raises(m, "Connected", native.idf.ap, auth)
    BY <1>2, <2>6 DEF Joins
  <2> QED BY <2>1, <2>5, <2>7, RaiseKinds, RaisesBuilt
<1>3. ASSUME NEW reason \in Reasons, Loses(reason)
      PROVE  Built(native') /\ mail' = mail
  <2>1. reason \in DisconnectReason /\ native.idf.ap \in Aps
    BY <1>3, Esp32Assumption DEF Loses, Built
  <2> QED BY <1>3, <2>1, UnjoinedBuilt, RaiseKinds, RaisesBuilt DEF Loses
<1>4. CASE GetsIp
  <2>1. native.idf.ap \in Aps
    BY <1>4 DEF GetsIp, Built
  <2> QED BY <1>4, <2>1, AddressBuilt, RaiseKinds, RaisesBuilt DEF GetsIp
<1>5. CASE LeaseEnds
  BY <1>5, AddressBuilt, RaiseKinds, RaisesBuilt DEF LeaseEnds
<1>6. CASE LossTimer
  BY <1>6, TimerBuilt, RaiseKinds, RaisesBuilt DEF LossTimer
<1> QED BY <1>1, <1>2, <1>3, <1>4, <1>5, <1>6 DEF Happens

(* The inductive invariant: that of the adapter (OrderedInterfaceProofs),  *)
(* and a driver that is built.                                             *)
InterfaceInv == Inv /\ Built(native)

(* One lemma for each part of Next: the adapter keeps its invariant, the   *)
(* boundary its contract and the driver is built.                          *)
LEMMA CommandKept ==
  ASSUME InterfaceInv, Api
  PROVE  Kept /\ Built(native')
<1>1. Inv /\ Built(native) /\ adapter \in Adapters /\ native.call = NoCall
  BY DEF InterfaceInv, Inv, Settled, Api
<1>2. Proper(Answer("Ok", native)) /\ Proper(Answer("NotFound", native))
  BY <1>1, ProperAnswer
<1>3. ASSUME NEW o, Proper(o)
      PROVE  Sane(o) /\ Built(o.native)
  BY <1>3 DEF Proper
<1>4. CASE Begin(AttachedStation)
  BY <1>1, <1>4, NewBuilt, BeginKept DEF Begin
<1>5. CASE Shutdown(detach(native))
  BY <1>1, <1>5, DetachBuilt, ShutdownKept DEF Shutdown
<1>6. ASSUME NEW enabled \in BOOLEAN,
             SetEnabled(enabled, enable(native, enabled))
      PROVE  Kept /\ Built(native')
  <2>1. \A e \in enable(native, enabled) : Sane(e) /\ Built(e.native)
    BY <1>1, <1>3, EnableProper
  <2>2. Built(native')
    BY <1>6, <2>1 DEF SetEnabled
  <2> QED BY <1>1, <1>6, <2>1, <2>2, SetEnabledKept
<1>7. CASE StartScan(scan(native))
  <2>1. \A s \in scan(native) : Built(s.native)
    BY <1>1, <1>3, ScanProper
  <2>2. Built(native')
    BY <1>7, <2>1 DEF StartScan
  <2> QED BY <1>1, <1>7, <2>2, StartScanKept
<1>8. \A d \in disconnect(native) : Built(d.native)
  BY <1>1, <1>3, DisconnectProper
<1>9. ASSUME NEW network \in Networks, Connect(network, disconnect(native))
      PROVE  Kept /\ Built(native')
  <2>1. Built(native')
    BY <1>1, <1>8, <1>9 DEF Connect
  <2>2. network \in Ssid
    BY DEF Ssid
  <2> QED BY <1>1, <1>9, <2>1, <2>2, ConnectKept
<1>10. CASE Disconnect(disconnect(native))
  <2>1. Built(native')
    BY <1>2, <1>3, <1>8, <1>10 DEF Disconnect
  <2> QED BY <1>1, <1>10, <2>1, DisconnectKept
<1>11. CASE CancelScan(stopScan(native))
  <2>1. \A s \in stopScan(native) : Built(s.native)
    BY <1>1, <1>3, StopScanProper
  <2>2. Built(native')
    BY <1>11, <2>1 DEF CancelScan
  <2> QED BY <1>1, <1>11, <2>2, CancelScanKept
<1>12. CASE CancelConnect(disconnect(native))
  <2>1. Built(native')
    BY <1>2, <1>3, <1>8, <1>12 DEF CancelConnect
  <2> QED BY <1>1, <1>12, <2>1, CancelConnectKept
<1> QED
  BY <1>4, <1>5, <1>6, <1>7, <1>9, <1>10, <1>11, <1>12 DEF Api

LEMMA DispatchKept ==
  ASSUME InterfaceInv, Dispatch
  PROVE  Kept /\ Built(native')
<1>1. Inv /\ Built(native) /\ adapter \in Adapters
  BY DEF InterfaceInv, Inv, Settled
<1>2. Proper(Answer("Ok", native))
  BY <1>1, ProperAnswer
<1>3. ASSUME NEW o, Proper(o)
      PROVE  Sane(o) /\ o.answer \in AnswerStatus /\ Built(o.native)
  BY <1>3 DEF Proper, Sane
<1>4. CASE CallReturns /\ UNCHANGED <<adapter, client, radio>>
  <2>1. UNCHANGED <<adapter, client, radio, mail>>
    BY <1>4 DEF CallReturns
  <2>2. Built(native')
    BY <1>1, <1>4, ReturnedBuilt DEF CallReturns
  <2> QED BY <1>1, <2>1, <2>2 DEF Inv, Sound, Kept
<1>5. CASE Drain
  BY <1>1, <1>5, DrainKept DEF Drain
<1>6. CASE DrainEvent(continueConnect(native))
  <2>1. \A c \in continueConnect(native) :
          c.answer \in AnswerStatus /\ Built(c.native)
    BY <1>1, <1>3, ContinueProper
  <2>2. Built(native')
    BY <1>2, <1>3, <1>6, <2>1 DEF DrainEvent
  <2> QED BY <1>1, <1>6, <2>1, <2>2, DrainEventKept
<1>7. CASE DrainOverflow
  BY <1>1, <1>7, DrainOverflowKept DEF DrainOverflow
<1>8. CASE DrainEnds(connect(native, adapter.config, adapter.credentials))
  <2>1. adapter.config \in Ssid /\ adapter.credentials \in Ssid
    BY <1>1, AdapterTyped
  <2>2. \A c \in connect(native, adapter.config, adapter.credentials) :
          Sane(c) /\ Built(c.native)
    BY <1>1, <1>3, <2>1, ConnectProper
  <2>3. Built(native')
    BY <1>1, <1>8, <2>2 DEF DrainEnds
  <2> QED BY <1>1, <1>8, <2>2, <2>3, DrainEndsKept
<1>9. CASE Deliver
  BY <1>1, <1>9, DeliverKept DEF Deliver
<1> QED BY <1>4, <1>5, <1>6, <1>7, <1>8, <1>9 DEF Dispatch

LEMMA ReactionKept ==
  ASSUME InterfaceInv, EventLoop \/ Radio
  PROVE  Kept /\ Built(native')
<1>1. Inv /\ Built(native) /\ UNCHANGED <<adapter, client, radio>>
  BY DEF InterfaceInv, EventLoop, Radio
<1>2. Reacts
  BY <1>1, DeliversPosted, HappensBuilt DEF EventLoop, Radio, Reacts
<1>3. CASE mail' = mail
  BY <1>1, <1>2, <1>3 DEF Inv, Sound, Kept, Reacts
<1>4. ASSUME NEW event \in SaneEvents, mail' = post(mail, event)
      PROVE  Kept
  BY <1>1, <1>4, PostKept
<1> QED BY <1>2, <1>3, <1>4 DEF Reacts

LEMMA StepKept ==
  ASSUME InterfaceInv, [Next]_vars
  PROVE  Kept /\ Built(native')
<1>1. CASE UNCHANGED vars
  BY <1>1, StutterKept DEF InterfaceInv, vars
<1> QED
  BY <1>1, CommandKept, DispatchKept, ReactionKept DEF Next

(* The invariant holds throughout. *)
LEMMA Invariant == Spec => []InterfaceInv
<1>1. Init => InterfaceInv
  BY InitInv, NewBuilt DEF Init, InterfaceInv
<1>2. InterfaceInv /\ [Next]_vars => InterfaceInv'
  BY StepKept DEF InterfaceInv, Kept, Built
<1> QED BY <1>1, <1>2, PTL DEF Spec

-----------------------------------------------------------------------------
(* What a selection chooses *)

(* What a selection keeps of what it found. *)
LEMMA KeptIs ==
  ASSUME NEW n, Built(n), NEW found \in Seq(Records), Distinct(found)
  PROVE  \E k :
           /\ Ranks(n, found, Len(found), k)
           /\ DOMAIN rememberCandidates(n, found).candidates = 1..Len(k)
           /\ Len(rememberCandidates(n, found).candidates) = Len(k)
           /\ \A i \in 1..Len(k) :
                rememberCandidates(n, found).candidates[i] =
                  [ap |-> k[i].ap, failures |-> k[i].failures,
                   cooling |-> k[i].cooling]
<1>1. n \in Stations
  BY DEF Built
<1>2. PICK k : k = Retained(n, found)
  OBVIOUS
<1>3. Ranks(n, found, Len(found), k)
  BY <1>1, <1>2, RetainedRanks, StationTyped
<1>4. k \in Seq(Scored) /\ Len(k) \in Nat /\ DOMAIN k = 1..Len(k)
  BY <1>3 DEF Ranks
<1>5. PICK cs : cs = [i \in DOMAIN k |->
                       [ap |-> k[i].ap, failures |-> k[i].failures,
                        cooling |-> k[i].cooling]]
  OBVIOUS
<1>6. rememberCandidates(n, found) =
        [n EXCEPT !.candidates = cs, !.fresh = TRUE]
  BY <1>2, <1>5 DEF rememberCandidates
<1>7. rememberCandidates(n, found).candidates = cs
  BY <1>1, <1>6 DEF Stations
<1>8. DOMAIN cs = 1..Len(k) /\ Len(cs) = Len(k)
  BY <1>4, <1>5
<1>9. \A i \in 1..Len(k) :
        cs[i] = [ap |-> k[i].ap, failures |-> k[i].failures,
                 cooling |-> k[i].cooling]
  BY <1>4, <1>5
<1> QED BY <1>3, <1>7, <1>8, <1>9

(* A candidate keeps cooling exactly where its AP was. *)
LEMMA Cools ==
  ASSUME NEW n, Built(n), NEW record \in Records
  PROVE  Candidate(n, record).cooling <=> record.ap \in Cooling(n)
<1>1. n.candidates \in BoundedSeq(Candidates, Slots)
  BY StationTyped DEF Built
<1>2. \A i, j \in DOMAIN n.candidates :
        n.candidates[i].ap = n.candidates[j].ap => i = j
  BY DEF Built, Distinct
<1>3. Candidate(n, record).cooling <=>
        \E i \in DOMAIN n.candidates :
          n.candidates[i].ap = record.ap /\ n.candidates[i].cooling
  <2>1. CASE Candidate(n, record).cooling
    BY <1>1, <2>1, CandidateIs
  <2>2. CASE \E i \in DOMAIN n.candidates :
               n.candidates[i].ap = record.ap /\ n.candidates[i].cooling
    BY <1>1, <1>2, <2>2, CandidateIs
  <2>3. Candidate(n, record).cooling \in BOOLEAN
    BY <1>1, CandidateIs DEF Scored
  <2> QED BY <2>1, <2>2, <2>3
<1>4. record.ap \in Cooling(n)
        <=> \E i \in DOMAIN n.candidates :
              n.candidates[i].ap = record.ap /\ n.candidates[i].cooling
  BY DEF Range, Cooling
<1> QED BY <1>3, <1>4

(* A candidate keeps the penalty its AP had as long as it counts. *)
LEMMA PenaltyIs ==
  ASSUME NEW n, n.candidates \in BoundedSeq(Candidates, Slots),
         NEW record \in Records, NEW c, c = Candidate(n, record),
         NEW old, old = {d \in Range(n.candidates) :
                           d.ap = record.ap /\ (n.fresh \/ d.cooling)}
  PROVE  /\ old # {} => [ap |-> c.ap, failures |-> c.failures,
                         cooling |-> c.cooling] \in old
         /\ old = {} => c.failures = 0 /\ ~c.cooling
<1> DEFINE I == {i \in 1..Len(n.candidates) :
                   n.candidates[i].ap = record.ap
                     /\ (n.fresh \/ n.candidates[i].cooling)}
<1>1. /\ n.candidates \in Seq(Candidates) /\ Len(n.candidates) \in Nat
      /\ DOMAIN n.candidates = 1..Len(n.candidates)
  BY CandidatesTyped
<1>2. SelectInSeq(n.candidates, LAMBDA d :
         d.ap = record.ap /\ (n.fresh \/ d.cooling))
        = IF I # {} THEN Min(I) ELSE 0
  BY DEF SelectInSeq
<1>3. I \in SUBSET Nat /\ 0 \notin I
  BY <1>1
<1>4. PICK i : i = IF I # {} THEN Min(I) ELSE 0
  OBVIOUS
<1>5. c = [ap |-> record.ap, rssi |-> record.rssi,
           failures |-> IF i = 0 THEN 0 ELSE n.candidates[i].failures,
           cooling |-> i # 0 /\ n.candidates[i].cooling]
  BY <1>2, <1>4 DEF Candidate
<1>6. ASSUME I # {}
      PROVE  i \in I /\ i # 0
  <2> HIDE DEF I
  <2>1. \E x \in I : \A y \in I : x <= y
    BY <1>3, <1>6, Least
  <2>2. Min(I) \in I
    BY <2>1 DEF Min
  <2> QED BY <1>3, <1>4, <1>6, <2>2
<1>7. CASE I # {}
  <2>1. PICK d : d = n.candidates[i]
    OBVIOUS
  <2>2. d \in Candidates /\ d \in old /\ d.ap = record.ap
    BY <1>1, <1>6, <1>7, <2>1 DEF Range
  <2>3. /\ c.ap = d.ap /\ c.failures = d.failures
    BY <1>5, <1>6, <1>7, <2>1, <2>2
  <2>4. c.cooling = d.cooling
    <3>1. d.cooling \in BOOLEAN
      BY <2>2 DEF Candidates
    <3>2. PICK flag : flag = (i # 0 /\ n.candidates[i].cooling)
      OBVIOUS
    <3>3. c.cooling = flag
      BY <1>5, <3>2
    <3>4. flag = d.cooling
      BY <1>6, <1>7, <2>1, <3>1, <3>2
    <3> QED BY <3>3, <3>4
  <2>5. d = [ap |-> d.ap, failures |-> d.failures, cooling |-> d.cooling]
    BY <2>2 DEF Candidates
  <2> QED BY <2>2, <2>3, <2>4, <2>5
<1>8. CASE I = {}
  <2>1. old = {}
    BY <1>1, <1>8 DEF Range
  <2>2. i = 0
    BY <1>4, <1>8
  <2>3. c.failures = 0
    BY <1>5, <2>2
  <2>4. ~c.cooling
    <3>1. PICK flag : flag = (i # 0 /\ n.candidates[i].cooling)
      OBVIOUS
    <3>2. c.cooling = flag
      BY <1>5, <3>1
    <3> QED BY <2>2, <3>1, <3>2
  <2> QED BY <2>1, <2>3, <2>4
<1> QED BY <1>7, <1>8

(* Precedes() ranks candidates as Better() ranks what was found of them. *)
LEMMA BetterPrecedes ==
  ASSUME NEW n, Built(n), NEW r \in Records, NEW s \in Records,
         Better(r, s, Cooling(n))
  PROVE  Precedes(Candidate(n, r), Candidate(n, s))
<1>1. PICK c, d : c = Candidate(n, r) /\ d = Candidate(n, s)
  OBVIOUS
<1>2. n.candidates \in BoundedSeq(Candidates, Slots)
  BY StationTyped DEF Built
<1>3. /\ c.rssi = r.rssi /\ d.rssi = s.rssi
      /\ c.cooling \in BOOLEAN /\ d.cooling \in BOOLEAN
  BY <1>1, <1>2, CandidateIs DEF Scored
<1>4. /\ c.cooling <=> r.ap \in Cooling(n)
      /\ d.cooling <=> s.ap \in Cooling(n)
  BY <1>1, Cools
<1>5. CASE r.ap \notin Cooling(n) /\ s.ap \in Cooling(n)
  <2>1. ~c.cooling /\ d.cooling
    BY <1>4, <1>5
  <2>2. Precedes(c, d)
    BY <2>1, Zenon DEF Precedes
  <2> QED BY <1>1, <2>2
<1>6. CASE (r.ap \in Cooling(n) <=> s.ap \in Cooling(n)) /\ r.rssi > s.rssi
  <2>1. c.cooling = d.cooling
    BY <1>3, <1>4, <1>6
  <2>2. c.rssi > d.rssi
    BY <1>3, <1>6
  <2>3. Precedes(c, d)
    BY <2>1, <2>2, Zenon DEF Precedes
  <2> QED BY <1>1, <2>3
<1> QED BY <1>5, <1>6 DEF Better

(* Whatever precedes one that was kept was kept before it. *)
LEMMA BetterIsBefore ==
  ASSUME NEW n, Built(n), NEW found \in Seq(Records), NEW k,
         Ranks(n, found, Len(found), k),
         NEW r \in DOMAIN found, Compatible(n, found[r]),
         NEW i \in 1..Len(k), Precedes(Candidate(n, found[r]), k[i])
  PROVE  \E j \in 1..(i - 1) : k[j] = Candidate(n, found[r])
<1>1. n.candidates \in BoundedSeq(Candidates, Slots)
  BY StationTyped DEF Built
<1>2. /\ DOMAIN found = 1..Len(found) /\ r \in 1..Len(found)
      /\ found[r] \in Records
  OBVIOUS
<1>3. /\ k \in Seq(Scored) /\ Len(k) \in Nat /\ Len(k) <= Slots
      /\ \A j \in 1..Len(k) : k[j] \in Scored
  BY DEF Ranks
<1>4. PICK c : c = Candidate(n, found[r])
  OBVIOUS
<1>5. c \in Scored /\ Slots \in Nat \ {0}
  BY <1>1, <1>2, <1>4, CandidateIs, StrengthsAreNumbers
<1>6. i \in Nat /\ k[i] \in Scored /\ Precedes(c, k[i]) /\ ~Precedes(k[i], c)
  BY <1>3, <1>4, <1>5, PrecedesOrders
<1>7. \A j, l \in 1..Len(k) : j < l => ~Precedes(k[l], k[j])
  BY DEF Ranks
<1>8. CASE \E j \in 1..Len(k) : k[j] = c
  <2>1. PICK j \in 1..Len(k) : k[j] = c
    BY <1>8
  <2>2. j # i
    BY <1>6, <2>1
  <2>3. ~(i < j)
    BY <1>6, <1>7, <2>1
  <2>4. j \in 1..(i - 1)
    BY <1>3, <1>6, <2>1, <2>2, <2>3
  <2> QED BY <1>4, <2>1, <2>4
<1>9. CASE Len(k) = Slots /\ ~Precedes(c, k[Slots])
  <2>1. Slots \in 1..Len(k) /\ k[Slots] \in Scored
    BY <1>3, <1>5, <1>9
  <2>2. i # Slots
    BY <1>6, <1>9
  <2>3. i < Slots
    BY <1>3, <1>5, <2>2
  <2>4. ~Precedes(k[Slots], k[i])
    BY <1>7, <2>1, <2>3
  <2>5. ~Precedes(c, k[i])
    BY <1>5, <1>6, <1>9, <2>1, <2>4, PrecedesOrders
  <2> QED BY <1>6, <2>5
<1> QED BY <1>2, <1>4, <1>8, <1>9 DEF Ranks

(* A set is no larger than one it can be numbered in. *)
LEMMA AtMost ==
  ASSUME NEW S, NEW T \in SUBSET Nat, IsFiniteSet(T), NEW f \in [S -> T],
         \A x, y \in S : f[x] = f[y] => x = y
  PROVE  IsFiniteSet(S) /\ Cardinality(S) <= Cardinality(T)
<1>1. f \in Injection(S, T)
  BY DEF Injection, IsInjective
<1> QED BY <1>1, FS_Injection

(* The lesser of two numbers. *)
LEMMA LesserIs ==
  ASSUME NEW x \in Nat, NEW y \in Nat
  PROVE  Min({x, y}) \in Nat /\ Min({x, y}) <= x /\ Min({x, y}) <= y
<1>1. \E l \in {x, y} : \A m \in {x, y} : l <= m
  OBVIOUS
<1> QED BY <1>1 DEF Min

(* A usable record is one of those found. *)
LEMMA UsableIs ==
  ASSUME NEW n, n.config = native.config, NEW found,
         NEW r \in Usable(found)
  PROVE  \E x \in DOMAIN found : r = found[x] /\ Compatible(n, found[x])
BY DEF Usable, Compatible

(* No slot stays empty while there are more records that are usable. *)
LEMMA SlotsFill ==
  ASSUME NEW n, Built(n), n.config = native.config,
         NEW found \in Seq(Records), NEW k, Ranks(n, found, Len(found), k)
  PROVE  Len(k) \in Nat /\ Len(k) >= Min({Slots, Cardinality(Usable(found))})
<1> DEFINE usable == Usable(found)
<1>1. n.candidates \in BoundedSeq(Candidates, Slots)
  BY StationTyped DEF Built
<1>2. /\ DOMAIN found = 1..Len(found) /\ Len(found) \in Nat
      /\ \A x \in DOMAIN found : found[x] \in Records
  OBVIOUS
<1>3. k \in Seq(Scored) /\ Len(k) \in Nat /\ Slots \in Nat
  BY StrengthsAreNumbers DEF Ranks
<1>4. \A r \in usable : \E x \in DOMAIN found :
        r = found[x] /\ Compatible(n, found[x])
  BY UsableIs
<1> HIDE DEF usable
<1>5. IsFiniteSet(usable)
  <2>1. IsFiniteSet(1..Len(found)) /\ 1..Len(found) \in SUBSET Nat
    <3>1. PICK l \in Nat : l = Len(found)
      BY <1>2
    <3>2. IsFiniteSet(1..l) /\ 1..l \in SUBSET Nat
      BY FS_Interval
    <3> QED BY <3>1, <3>2
  <2>2. PICK f : f = [r \in usable |->
                       CHOOSE x \in DOMAIN found : found[x] = r]
    OBVIOUS
  <2>3. \A r \in usable : f[r] \in 1..Len(found) /\ found[f[r]] = r
    BY <1>2, <1>4, <2>2
  <2>4. f \in [usable -> 1..Len(found)]
    BY <2>2, <2>3
  <2>5. \A x, y \in usable : f[x] = f[y] => x = y
    BY <2>3
  <2> QED BY <2>1, <2>4, <2>5, AtMost
<1>6. Cardinality(usable) \in Nat
  BY <1>5, FS_CardinalityType
<1>7. PICK m : m = Min({Slots, Cardinality(usable)})
  OBVIOUS
<1>8. m \in Nat /\ m <= Slots /\ m <= Cardinality(usable)
  BY <1>3, <1>6, <1>7, LesserIs
<1>9. CASE Len(k) # Slots
  <2>1. \A r \in usable : \E j \in 1..Len(k) :
          k[j].ap = r.ap /\ k[j].rssi = r.rssi
    <3> SUFFICES ASSUME NEW r \in usable
                 PROVE  \E j \in 1..Len(k) :
                          k[j].ap = r.ap /\ k[j].rssi = r.rssi
      OBVIOUS
    <3>1. PICK x \in DOMAIN found : r = found[x] /\ Compatible(n, found[x])
      BY <1>4
    <3>2. \E j \in 1..Len(k) : k[j] = Candidate(n, found[x])
      BY <1>2, <1>9, <3>1 DEF Ranks
    <3> QED BY <1>1, <1>2, <3>1, <3>2, CandidateIs
  <2>2. PICK f : f = [r \in usable |->
                       CHOOSE j \in 1..Len(k) :
                         k[j].ap = r.ap /\ k[j].rssi = r.rssi]
    OBVIOUS
  <2>3. \A r \in usable : /\ f[r] \in 1..Len(k)
                          /\ k[f[r]].ap = r.ap /\ k[f[r]].rssi = r.rssi
    BY <2>1, <2>2
  <2>4. f \in [usable -> 1..Len(k)]
    BY <2>2, <2>3
  <2>5. \A r \in usable : r = [ap |-> r.ap, rssi |-> r.rssi]
    BY <1>2, <1>4 DEF Records
  <2>6. \A x, y \in usable : f[x] = f[y] => x = y
    BY <2>3, <2>5
  <2>7. /\ IsFiniteSet(1..Len(k)) /\ Cardinality(1..Len(k)) = Len(k)
        /\ 1..Len(k) \in SUBSET Nat
    <3>1. PICK l \in Nat : l = Len(k)
      BY <1>3
    <3>2. /\ IsFiniteSet(1..l) /\ Cardinality(1..l) = l
          /\ 1..l \in SUBSET Nat
      BY FS_Interval, SMTT(30)
    <3> QED BY <3>1, <3>2
  <2>8. Cardinality(usable) <= Len(k)
    BY <2>4, <2>6, <2>7, AtMost
  <2> QED BY <1>3, <1>6, <1>7, <1>8, <2>8 DEF usable
<1>10. CASE Len(k) = Slots
  BY <1>3, <1>7, <1>8, <1>10 DEF usable
<1> QED BY <1>9, <1>10

(* What a selection keeps is the best of what it found. *)
LEMMA KeepsTheBest ==
  ASSUME NEW n, Built(n), n.config = native.config,
         NEW found \in Seq(Records), Distinct(found),
         NEW kept, kept = rememberCandidates(n, found).candidates
  PROVE  /\ KeepsBest(Usable(found), Cooling(n), kept)
         /\ KeepsPenalties(n, kept)
         /\ \A i \in DOMAIN kept : kept[i].cooling <=> kept[i].ap \in Cooling(n)
         /\ DOMAIN kept = 1..Len(kept) /\ Len(kept) \in Nat
<1>1. PICK k :
        /\ Ranks(n, found, Len(found), k)
        /\ DOMAIN rememberCandidates(n, found).candidates = 1..Len(k)
        /\ Len(rememberCandidates(n, found).candidates) = Len(k)
        /\ \A i \in 1..Len(k) :
             rememberCandidates(n, found).candidates[i] =
               [ap |-> k[i].ap, failures |-> k[i].failures,
                cooling |-> k[i].cooling]
  BY KeptIs
<1>2. /\ DOMAIN kept = 1..Len(k) /\ Len(kept) = Len(k)
      /\ \A i \in 1..Len(k) :
           kept[i] = [ap |-> k[i].ap, failures |-> k[i].failures,
                      cooling |-> k[i].cooling]
  BY <1>1, Zenon
<1>3. ASSUME NEW i \in DOMAIN kept
      PROVE  i \in 1..Len(k) /\ kept[i].ap = k[i].ap
             /\ kept[i].failures = k[i].failures
  <2>1. i \in 1..Len(k)
    BY <1>2
  <2>2. kept[i] = [ap |-> k[i].ap, failures |-> k[i].failures,
                   cooling |-> k[i].cooling]
    BY <1>2, <2>1, Zenon
  <2>3. PICK flag : flag = k[i].cooling
    OBVIOUS
  <2> QED BY <2>1, <2>2, <2>3
<1>4. n.candidates \in BoundedSeq(Candidates, Slots)
  BY StationTyped DEF Built
<1>5. /\ \A x \in DOMAIN found : found[x] \in Records
      /\ DOMAIN found = 1..Len(found)
  OBVIOUS
<1>6. Len(k) \in Nat /\ Len(kept) >= Min({Slots, Cardinality(Usable(found))})
  BY <1>1, <1>2, SlotsFill
<1>7. ASSUME NEW i \in DOMAIN kept
      PROVE  \E x \in DOMAIN found :
               /\ Compatible(n, found[x]) /\ k[i] = Candidate(n, found[x])
               /\ kept[i].ap = found[x].ap
  <2>1. PICK x \in DOMAIN found :
          Compatible(n, found[x]) /\ k[i] = Candidate(n, found[x])
    BY <1>1, <1>2, <1>5 DEF Ranks
  <2>2. k[i].ap = found[x].ap
    BY <1>4, <1>5, <2>1, CandidateIs
  <2>3. kept[i].ap = k[i].ap
    BY <1>3
  <2> QED BY <2>1, <2>2, <2>3
<1>8. ASSUME NEW i \in DOMAIN kept
      PROVE  \E r \in Usable(found) : r.ap = kept[i].ap
  <2>1. PICK x \in DOMAIN found :
          Compatible(n, found[x]) /\ kept[i].ap = found[x].ap
    BY <1>7
  <2>2. found[x] \in Usable(found)
    BY <2>1 DEF Usable, Compatible
  <2> QED BY <2>1, <2>2
<1>9. ASSUME NEW i \in DOMAIN kept, NEW j \in DOMAIN kept, i # j
      PROVE  kept[i].ap # kept[j].ap
  <2>1. i \in 1..Len(k) /\ j \in 1..Len(k) /\ (i < j \/ j < i)
    BY <1>1, <1>2, <1>6, <1>9
  <2>2. k[i].ap # k[j].ap
    BY <1>1, <1>2, <2>1 DEF Ranks
  <2>3. kept[i].ap = k[i].ap /\ kept[j].ap = k[j].ap
    BY <1>3
  <2> QED BY <2>2, <2>3
<1>10. ASSUME NEW i \in DOMAIN kept, NEW r \in Usable(found),
             NEW s \in Usable(found), s.ap = kept[i].ap,
             Better(r, s, Cooling(n))
      PROVE  \E j \in 1..(i - 1) : kept[j].ap = r.ap
  <2>1. PICK x \in DOMAIN found : r = found[x] /\ Compatible(n, found[x])
    BY UsableIs
  <2>2. PICK y \in DOMAIN found : s = found[y] /\ Compatible(n, found[y])
    BY UsableIs
  <2>3. PICK z \in DOMAIN found :
          k[i] = Candidate(n, found[z]) /\ kept[i].ap = found[z].ap
    BY <1>7
  <2>4. z = y
    BY <1>10, <2>2, <2>3 DEF Distinct
  <2>5. Precedes(Candidate(n, found[x]), k[i])
    <3>1. r \in Records /\ s \in Records
      BY <1>5, <2>1, <2>2
    <3>2. Precedes(Candidate(n, r), Candidate(n, s))
      BY <1>10, <3>1, BetterPrecedes
    <3> QED BY <2>1, <2>2, <2>3, <2>4, <3>2
  <2>6. i \in 1..Len(k)
    BY <1>1, <1>2
  <2>7. PICK j \in 1..(i - 1) : k[j] = Candidate(n, found[x])
    BY <1>1, <1>2, <2>1, <2>5, <2>6, BetterIsBefore
  <2>8. j \in 1..Len(k)
    BY <1>6, <2>6
  <2>9. kept[j].ap = k[j].ap
    BY <1>2, <1>3, <2>8
  <2>10. k[j].ap = r.ap
    BY <1>4, <1>5, <2>1, <2>7, CandidateIs
  <2> QED BY <2>9, <2>10
<1>11. KeepsBest(Usable(found), Cooling(n), kept)
  BY <1>6, <1>8, <1>9, <1>10 DEF KeepsBest
<1>12. ASSUME NEW i \in DOMAIN kept,
              NEW old, old = {c \in Range(n.candidates) :
                                c.ap = kept[i].ap /\ (n.fresh \/ c.cooling)}
       PROVE  /\ old # {} => kept[i] \in old
              /\ old = {} => kept[i].failures = 0 /\ ~kept[i].cooling
  <2>1. PICK x \in DOMAIN found :
          k[i] = Candidate(n, found[x]) /\ kept[i].ap = found[x].ap
    BY <1>7
  <2>2. PICK c : c = Candidate(n, found[x])
    OBVIOUS
  <2>3. kept[i] = [ap |-> c.ap, failures |-> c.failures,
                   cooling |-> c.cooling]
    BY <1>1, <1>2, <2>1, <2>2
  <2>4. old = {d \in Range(n.candidates) :
                 d.ap = found[x].ap /\ (n.fresh \/ d.cooling)}
    BY <1>12, <2>1
  <2>5. /\ old # {} => [ap |-> c.ap, failures |-> c.failures,
                        cooling |-> c.cooling] \in old
        /\ old = {} => c.failures = 0 /\ ~c.cooling
    BY <1>4, <1>5, <2>2, <2>4, PenaltyIs
  <2>6. PICK flag : flag = c.cooling
    OBVIOUS
  <2>7. kept[i].cooling = flag /\ kept[i].failures = c.failures
    BY <2>3, <2>6
  <2> QED BY <2>3, <2>5, <2>6, <2>7
<1>13. KeepsPenalties(n, kept)
  BY <1>12 DEF KeepsPenalties
<1>14. ASSUME NEW i \in DOMAIN kept
       PROVE  kept[i].cooling <=> kept[i].ap \in Cooling(n)
  <2>1. PICK x \in DOMAIN found :
          k[i] = Candidate(n, found[x]) /\ kept[i].ap = found[x].ap
    BY <1>7
  <2>2. PICK flag : flag = k[i].cooling
    OBVIOUS
  <2>3. kept[i].cooling = flag
    <3>1. kept[i] = [ap |-> k[i].ap, failures |-> k[i].failures,
                     cooling |-> k[i].cooling]
      BY <1>2, <1>3, Zenon
    <3> QED BY <2>2, <3>1
  <2>4. flag <=> found[x].ap \in Cooling(n)
    BY <1>5, <2>1, <2>2, Cools
  <2> QED BY <2>1, <2>3, <2>4
<1> QED BY <1>1, <1>2, <1>6, <1>11, <1>13, <1>14

(* A selection is the best, whatever it finds and whenever. *)
LEMMA SelectsBest ==
  ASSUME Built(native)
  PROVE  SelectionIsBest
<1> SUFFICES ASSUME NEW n \in Later(native), NEW found \in Found(native.config),
                    NEW m, m = rememberCandidates(n, found)
             PROVE  /\ KeepsBest(Usable(found), Cooling(n), m.candidates)
                    /\ KeepsPenalties(n, m.candidates)
                    /\ (\E r \in Usable(found) : r.ap \notin Cooling(n)) =>
                         /\ Eligible(m) # {}
                         /\ selectCandidate(m).selected = m.candidates[1].ap
  BY DEF SelectionIsBest
<1>1. Built(n) /\ n.config = native.config
  <2>1. native \in Stations
    BY DEF Built
  <2>2. \E fresh, cs : n = [native EXCEPT !.fresh = fresh, !.candidates = cs]
    <3>1. \E fresh \in BOOLEAN : \E cs :
            /\ n = [native EXCEPT !.fresh = fresh, !.candidates = cs]
            /\ Regarded(native.candidates, cs)
            /\ \A i \in DOMAIN cs :
                 cs[i].failures = native.candidates[i].failures
      BY <2>1, LaterIs
    <3> QED BY <3>1, Zenon
  <2>3. n.config = native.config
    BY <2>1, <2>2 DEF Stations
  <2> QED BY <2>3, LaterBuilt
<1>2. found \in Seq(Records) /\ Distinct(found)
  BY FoundIs
<1>3. PICK kept : kept = m.candidates
  OBVIOUS
<1>4. /\ KeepsBest(Usable(found), Cooling(n), kept)
      /\ KeepsPenalties(n, kept)
      /\ \A i \in DOMAIN kept : kept[i].cooling <=> kept[i].ap \in Cooling(n)
      /\ DOMAIN kept = 1..Len(kept) /\ Len(kept) \in Nat
  BY <1>1, <1>2, <1>3, KeepsTheBest
<1>5. m \in Stations
  <2>1. n \in Stations /\ found \in Found(n.config)
    BY <1>1 DEF Built
  <2>2. PICK cs \in BoundedSeq(Candidates, Slots) :
          m = [n EXCEPT !.candidates = cs, !.fresh = TRUE]
    BY <2>1, RememberedIs, Zenon DEF Remembered
  <2> QED BY <2>1, <2>2 DEF Stations
<1>6. ASSUME NEW r \in Usable(found), r.ap \notin Cooling(n)
      PROVE  /\ Eligible(m) # {}
             /\ selectCandidate(m).selected = m.candidates[1].ap
  <2>1. 1 \in DOMAIN kept
    <3>1. PICK x \in DOMAIN found : r = found[x] /\ Compatible(n, found[x])
      BY <1>1, UsableIs
    <3>2. PICK k :
            /\ Ranks(n, found, Len(found), k)
            /\ Len(kept) = Len(k)
      BY <1>1, <1>2, <1>3, KeptIs
    <3>3. x \in 1..Len(found) /\ Slots \in Nat \ {0}
      BY <1>2, StrengthsAreNumbers
    <3>4. Len(k) # 0
      BY <3>1, <3>2, <3>3 DEF Ranks
    <3> QED BY <1>4, <3>2, <3>4
  <2>2. kept[1].ap \notin Cooling(n)
    <3>1. PICK s \in Usable(found) : s.ap = kept[1].ap
      BY <1>4, <2>1 DEF KeepsBest
    <3>2. CASE kept[1].ap \in Cooling(n)
      <4>1. Better(r, s, Cooling(n))
        BY <1>6, <3>1, <3>2 DEF Better
      <4>2. \E j \in 1..(1 - 1) : kept[j].ap = r.ap
        BY <1>4, <2>1, <3>1, <4>1 DEF KeepsBest
      <4> QED BY <4>2
    <3> QED BY <3>2
  <2>3. 1 \in Eligible(m)
    BY <1>3, <1>4, <2>1, <2>2 DEF Eligible
  <2>4. PICK i \in DOMAIN m.candidates : \E cs :
          /\ \A j \in Eligible(m) : i <= j
          /\ selectCandidate(m) = [m EXCEPT !.candidates = cs,
                                            !.selected = m.candidates[i].ap,
                                            !.prepared = TRUE]
    BY <1>5, <2>3, SelectIs
  <2>5. i = 1
    BY <1>3, <1>4, <2>3, <2>4
  <2>6. selectCandidate(m).selected = m.candidates[i].ap
    BY <1>5, <2>4 DEF Stations
  <2> QED BY <2>3, <2>5, <2>6
<1> QED BY <1>3, <1>4, <1>6

-----------------------------------------------------------------------------
(* The scan that is owed to the driver *)

(* A scan runs, or its end is still in the loop. *)
ScanDue(n) ==
  \/ n.idf.scanning
  \/ \E i \in DOMAIN n.idf.loop : n.idf.loop[i].kind = "ScanDone"

(* The driver believes in one scan at most, and in none that is neither    *)
(* asked for nor due.                                                      *)
Owed(n) ==
  /\ ~(n.selecting /\ n.scan_active)
  /\ n.call.kind = "scan" => ~n.selecting
  /\ n.call.kind = "select" => ~n.scan_active
  /\ n.selecting \/ n.scan_active =>
       n.call.kind \in {"scan", "select"} \/ ScanDue(n)

(* The driver waits for the same scan as before. *)
Steady(n, m) ==
  /\ m.selecting = n.selecting /\ m.scan_active = n.scan_active
  /\ m.call = n.call
  /\ ScanDue(n) => ScanDue(m)

LEMMA SteadyOwed ==
  ASSUME NEW n, NEW m, Owed(n), Steady(n, m)
  PROVE  Owed(m)
BY DEF Owed, Steady

LEMMA SteadyChain ==
  ASSUME NEW n, NEW m, NEW l, Steady(n, m), Steady(m, l)
  PROVE  Steady(n, l)
BY DEF Steady

LEMMA SteadyFields ==
  ASSUME NEW n, NEW m,
         m.selecting = n.selecting, m.scan_active = n.scan_active,
         m.call = n.call,
         m.idf.scanning = n.idf.scanning, m.idf.loop = n.idf.loop
  PROVE  Steady(n, m)
BY DEF Steady, ScanDue

(* No event more makes a scan less due, and ScanDone makes it due. *)
LEMMA RaiseSteady ==
  ASSUME NEW n, Built(n), NEW kind, NEW ap, NEW detail,
         IdfEvent(kind, ap, detail) \in RadioEvents
  PROVE  /\ Steady(n, Raise(n, kind, ap, detail))
         /\ kind = "ScanDone" => ScanDue(Raise(n, kind, ap, detail))
<1>1. PICK event : event = IdfEvent(kind, ap, detail)
  OBVIOUS
<1>2. PICK m : m = Raise(n, kind, ap, detail)
  OBVIOUS
<1>3. m = [n EXCEPT !.idf.loop = Append(n.idf.loop, event)]
  BY <1>1, <1>2 DEF Raise
<1>4. PICK loop : loop = Append(n.idf.loop, event)
  OBVIOUS
<1>5. /\ DOMAIN n.idf.loop = 1..Len(n.idf.loop) /\ Len(n.idf.loop) \in Nat
      /\ \A i \in 1..Len(n.idf.loop) : loop[i] = n.idf.loop[i]
      /\ DOMAIN loop = 1..(Len(n.idf.loop) + 1)
      /\ loop[Len(n.idf.loop) + 1] = event
  BY <1>1, <1>4, Appended DEF Built
<1>6. /\ m.idf.loop = loop /\ m.idf.scanning = n.idf.scanning
      /\ m.selecting = n.selecting /\ m.scan_active = n.scan_active
      /\ m.call = n.call
  BY <1>3, <1>4 DEF Built, Stations
<1>7. ScanDue(n) => ScanDue(m)
  BY <1>5, <1>6 DEF ScanDue
<1>8. event.kind = kind
  BY <1>1 DEF IdfEvent
<1>9. kind = "ScanDone" => ScanDue(m)
  BY <1>5, <1>6, <1>8 DEF ScanDue
<1>10. Steady(n, m)
  BY <1>6, <1>7 DEF Steady
<1> QED BY <1>2, <1>9, <1>10

LEMMA UnjoinedSteady ==
  ASSUME NEW n, Built(n)
  PROVE  Steady(n, Unjoined(n))
<1>1. PICK m : m = Unjoined(n)
  OBVIOUS
<1>2. /\ m.selecting = n.selecting /\ m.scan_active = n.scan_active
      /\ m.call = n.call
      /\ m.idf.scanning = n.idf.scanning /\ m.idf.loop = n.idf.loop
  BY <1>1 DEF Unjoined, Built, Stations
<1> QED BY <1>1, <1>2, SteadyFields

LEMMA LeavesSteady ==
  ASSUME NEW n, Built(n)
  PROVE  Steady(n, Leaves(n))
<1>1. CASE n.idf.link = "Down"
  BY <1>1, SteadyFields DEF Leaves
<1>2. CASE n.idf.link # "Down"
  <2>1. "ASSOC_LEAVE" \in DisconnectReason
    BY DEF DisconnectReason
  <2>2. n.idf.ap \in Aps
    BY <1>2 DEF Built
  <2>3. Leaves(n) = Raise(Unjoined(n), "Disconnected", n.idf.ap, "ASSOC_LEAVE")
    BY <1>2 DEF Leaves
  <2>4. Steady(Unjoined(n), Leaves(n))
    BY <2>1, <2>2, <2>3, RaiseSteady, RaiseKinds, UnjoinedBuilt
  <2> QED BY <2>4, UnjoinedSteady, SteadyChain
<1> QED BY <1>1, <1>2

LEMMA ScanStopsSteady ==
  ASSUME NEW n, Built(n)
  PROVE  Steady(n, ScanStops(n))
<1>1. CASE ~n.idf.scanning
  BY <1>1, SteadyFields DEF ScanStops
<1>2. CASE n.idf.scanning
  <2>1. PICK m : m = [n EXCEPT !.idf.scanning = FALSE]
    OBVIOUS
  <2>2. Built(m)
    BY <2>1, ScanningBuilt
  <2>3. ScanStops(n) = Raise(m, "ScanDone", NoAp, "None")
    BY <1>2, <2>1, Zenon DEF ScanStops
  <2>4. Steady(m, ScanStops(n)) /\ ScanDue(ScanStops(n))
    BY <2>2, <2>3, RaiseSteady, RaiseKinds
  <2>5. /\ m.selecting = n.selecting /\ m.scan_active = n.scan_active
        /\ m.call = n.call
    BY <2>1 DEF Built, Stations
  <2> QED BY <2>4, <2>5 DEF Steady
<1> QED BY <1>1, <1>2

LEMMA OnSteady ==
  ASSUME NEW n, Built(n), NEW on \in BOOLEAN
  PROVE  Steady(n, [n EXCEPT !.idf.on = on])
<1>1. PICK m : m = [n EXCEPT !.idf.on = on]
  OBVIOUS
<1>2. /\ m.selecting = n.selecting /\ m.scan_active = n.scan_active
      /\ m.call = n.call
      /\ m.idf.scanning = n.idf.scanning /\ m.idf.loop = n.idf.loop
  BY <1>1 DEF Built, Stations
<1> QED BY <1>1, <1>2, SteadyFields

LEMMA SwitchesSteady ==
  ASSUME NEW n, Built(n)
  PROVE  Steady(n, Starts(n)) /\ \A m \in Stops(n) : Steady(n, m)
<1>1. ASSUME NEW s, Built(s), NEW on \in BOOLEAN,
             NEW kind \in {"Start", "Stop"},
             Steady(n, s)
      PROVE  Steady(n, Raise([s EXCEPT !.idf.on = on], kind, NoAp, "None"))
  <2>1. PICK m : m = [s EXCEPT !.idf.on = on]
    OBVIOUS
  <2>2. Built(m) /\ Steady(s, m)
    BY <1>1, <2>1, OnBuilt, OnSteady
  <2>3. Steady(m, Raise(m, kind, NoAp, "None"))
    BY <2>2, RaiseSteady, RaiseKinds
  <2>4. Steady(n, m)
    BY <1>1, <2>2, SteadyChain
  <2> QED BY <2>1, <2>3, <2>4, SteadyChain
<1>2. Steady(n, Starts(n))
  <2>1. Steady(n, n)
    BY SteadyFields
  <2> QED BY <1>1, <2>1 DEF Starts
<1>3. ASSUME NEW m \in Stops(n)
      PROVE  Steady(n, m)
  <2>1. PICK s \in {Leaves(ScanStops(n)), Unjoined(ScanStops(n))} :
          m = Raise([s EXCEPT !.idf.on = FALSE], "Stop", NoAp, "None")
    BY <1>3 DEF Stops
  <2>2. Built(s) /\ Steady(ScanStops(n), s)
    BY <2>1, LeavesBuilt, ScanStopsBuilt, UnjoinedBuilt, LeavesSteady,
       UnjoinedSteady
  <2>3. Steady(n, s)
    BY <2>2, ScanStopsSteady, SteadyChain
  <2> QED BY <1>1, <2>1, <2>2, <2>3
<1> QED BY <1>2, <1>3

(* Commands that neither begin a scan nor end one. *)
LEMMA EnableSteady ==
  ASSUME NEW n, Built(n), NEW enabled \in BOOLEAN, NEW o \in enable(n, enabled)
  PROVE  Steady(n, o.native)
<1>1. PICK m : m = IF enabled THEN n
                   ELSE [n EXCEPT !.candidates = <<>>, !.attempt = FALSE]
  OBVIOUS
<1>2. Built(m) /\ Steady(n, m)
  <2>1. CASE enabled
    BY <1>1, <2>1, SteadyFields
  <2>2. CASE ~enabled
    <3>1. m \in Stations
      BY <1>1, <2>2, Candidateless DEF Built, Stations
    <3>2. Distinct(m.candidates)
      BY <1>1, <2>2, Candidateless DEF Built, Stations
    <3>3. /\ m.selecting = n.selecting /\ m.scan_active = n.scan_active
          /\ m.call = n.call /\ m.idf = n.idf
      BY <1>1, <2>2 DEF Built, Stations
    <3>4. Steady(n, m)
      BY <3>3, SteadyFields
    <3> QED BY <1>1, <2>2, <3>1, <3>2, <3>4, FieldsBuilt DEF Built, Stations
  <2> QED BY <2>1, <2>2
<1>3. o.native = m \/ o.native = Starts(m) \/ \E s \in Stops(m) : o.native = s
  <2>1. n.idf.on \in BOOLEAN
    BY StationTyped DEF Built
  <2>2. \/ o = Answer("ConnectionFailed", m)
        \/ o = AnswerPosting("Ok", m, Enablement(enabled))
        \/ o = Answer("Ok", Starts(m))
        \/ \E s \in Stops(m) : o = Answer("Ok", s)
    BY <1>1, <2>1 DEF enable
  <2> QED BY <2>2 DEF Answer, AnswerPosting
<1> QED BY <1>2, <1>3, SwitchesSteady, SteadyChain

LEMMA CancelledSteady ==
  ASSUME NEW n, Built(n)
  PROVE  Steady(n, Cancelled(n)) /\ Steady(n, Abandoning(n))
<1>1. PICK m, l : m = Cancelled(n) /\ l = Abandoning(n)
  OBVIOUS
<1>2. /\ m.selecting = n.selecting /\ m.scan_active = n.scan_active
      /\ m.call = n.call /\ m.idf = n.idf
  BY <1>1 DEF Cancelled, Built, Stations
<1>3. /\ l.selecting = n.selecting /\ l.scan_active = n.scan_active
      /\ l.call = n.call /\ l.idf = n.idf
  BY <1>1 DEF Abandoning, Built, Stations
<1> QED BY <1>1, <1>2, <1>3, SteadyFields

LEMMA StopScanSteady ==
  ASSUME NEW n, Built(n), NEW o \in stopScan(n)
  PROVE  Steady(n, o.native)
<1>1. o.native \in {Cancelled(n), ScanStops(Cancelled(n))}
  BY DEF stopScan, Answer
<1>2. Built(Cancelled(n)) /\ Steady(n, Cancelled(n))
  BY CancelledBuilt, CancelledSteady
<1> QED BY <1>1, <1>2, ScanStopsSteady, SteadyChain

LEMMA DisconnectSteady ==
  ASSUME NEW n, Built(n), NEW o \in disconnect(n)
  PROVE  Steady(n, o.native)
<1>1. PICK m : m = Abandoning(n)
  OBVIOUS
<1>2. PICK leaving \in BOOLEAN : leaving = (n.told.phase # "Idle")
  OBVIOUS
<1>3. PICK l : l = [m EXCEPT !.told.leaving = leaving]
  OBVIOUS
<1>4. Built(m) /\ Built(l)
  BY <1>1, <1>2, <1>3, AbandoningBuilt, LeavingBuilt
<1>5. l = [m EXCEPT !.told.leaving = n.told.phase # "Idle"]
  BY <1>2, <1>3
<1>6. PICK u : u = [m EXCEPT !.prepared = FALSE, !.secret = NoNetwork,
                             !.told.phase = "Idle"]
  OBVIOUS
<1>7. n.prepared \in BOOLEAN /\ n.selecting \in BOOLEAN
  BY DEF Built, Stations
<1>8. \/ o = Answer("NotFound", u)
      \/ o = Answer("ConnectionFailed", Cancelled(m))
      \/ o = Answer("Ok", ScanStops(Cancelled(l)))
      \/ o = Answer("ConnectionFailed", m)
      \/ o = Answer("Ok", Leaves(l))
  BY <1>1, <1>5, <1>6, <1>7 DEF disconnect
<1>9. o.native \in {u, Cancelled(m), ScanStops(Cancelled(l)), m, Leaves(l)}
  BY <1>8 DEF Answer
<1>10. /\ l.selecting = m.selecting /\ l.scan_active = m.scan_active
       /\ l.call = m.call /\ l.idf = m.idf
  BY <1>3, <1>4 DEF Built, Stations
<1>11. /\ u.selecting = m.selecting /\ u.scan_active = m.scan_active
       /\ u.call = m.call /\ u.idf = m.idf
  BY <1>4, <1>6 DEF Built, Stations
<1>12. Steady(n, m) /\ Steady(n, l) /\ Steady(n, u)
  BY <1>1, <1>10, <1>11, CancelledSteady, SteadyFields, SteadyChain
<1>13. /\ Built(Cancelled(l)) /\ Steady(n, Cancelled(l))
       /\ Steady(n, Cancelled(m))
  BY <1>4, <1>12, CancelledBuilt, CancelledSteady, SteadyChain
<1> QED
  BY <1>4, <1>9, <1>12, <1>13, ScanStopsSteady, LeavesSteady, SteadyChain

(* What a vendor call may be about to do. *)
Asks(n, o) ==
  \E st, kind :
    /\ o.native.call = [kind |-> kind, answer |-> st]
    /\ \/ /\ kind = "scan" /\ o.native.scan_active /\ ~o.native.selecting
       \/ /\ kind = "select" /\ o.native.selecting /\ ~o.native.scan_active
       \/ /\ kind = "join"
          /\ o.native.selecting = n.selecting
          /\ o.native.scan_active = n.scan_active
          /\ ScanDue(n) => ScanDue(o.native)

LEMMA AsksOwed ==
  ASSUME NEW n, NEW o, Owed(n), n.call = NoCall, Asks(n, o)
  PROVE  Owed(o.native)
BY DEF Owed, Asks, NoCall

(* Commands that may begin a scan are in a vendor call when they do. *)
LEMMA ScanOwed ==
  ASSUME NEW n, Built(n), Owed(n), n.call = NoCall, NEW o \in scan(n)
  PROVE  Owed(o.native)
<1>1. PICK m : m = [n EXCEPT !.scan_active = TRUE, !.cancelled = FALSE]
  OBVIOUS
<1>2. CASE o = Answer("Busy", n)
  BY <1>2 DEF Answer
<1>3. ASSUME NEW st, ~n.selecting, o = Calling(m, "scan", st)
      PROVE  Owed(o.native)
  <2>1. PICK c : c = [m EXCEPT !.call = [kind |-> "scan", answer |-> st]]
    OBVIOUS
  <2>2. o.native = c
    BY <1>3, <2>1 DEF Calling, Answer
  <2>3. c.call = [kind |-> "scan", answer |-> st]
    BY <1>1, <2>1 DEF Built, Stations
  <2>4. c.selecting = n.selecting
    BY <1>1, <2>1 DEF Built, Stations
  <2>5. c.scan_active
    BY <1>1, <2>1 DEF Built, Stations
  <2> QED BY <1>3, <2>2, <2>3, <2>4, <2>5, AsksOwed DEF Asks
<1>4. \/ o = Answer("Busy", n)
      \/ /\ ~n.selecting
         /\ \E st \in VendorAnswers(n) : o = Calling(m, "scan", st)
  BY <1>1, Zenon DEF scan
<1> QED BY <1>2, <1>3, <1>4

LEMMA ContinueOwed ==
  ASSUME NEW n, Built(n), Owed(n), n.call = NoCall,
         NEW o \in continueConnect(n)
  PROVE  Owed(o.native)
<1>1. PICK b : b = [n EXCEPT !.prepared = FALSE]
  OBVIOUS
<1>2. PICK f : f = [b EXCEPT !.told.phase = "Idle"]
  OBVIOUS
<1>3. PICK g : g = [f EXCEPT !.secret = NoNetwork]
  OBVIOUS
<1>4. PICK c : c = [b EXCEPT !.secret = NoNetwork, !.idf.ip = FALSE,
                             !.attempt = TRUE]
  OBVIOUS
<1>5. /\ b.selecting = n.selecting /\ b.scan_active = n.scan_active
      /\ b.call = n.call /\ b.idf = n.idf
      /\ f.selecting = n.selecting /\ f.scan_active = n.scan_active
      /\ f.call = n.call /\ f.idf = n.idf
      /\ g.selecting = n.selecting /\ g.scan_active = n.scan_active
      /\ g.call = n.call /\ g.idf = n.idf
  BY <1>1, <1>2, <1>3 DEF Built, Stations
<1>6. Steady(n, f) /\ Steady(n, g)
  BY <1>5, SteadyFields
<1>7. \/ o = Answer("NotFound", n)
      \/ o = Answer("ConnectionFailed", f)
      \/ o = Answer("ConnectionFailed", g)
      \/ \E st \in VendorAnswers(n) : o = Calling(c, "join", st)
  BY <1>1, <1>2, <1>3, <1>4, Zenon DEF continueConnect
<1>8. ASSUME NEW st, o = Calling(c, "join", st)
      PROVE  Owed(o.native)
  <2>1. PICK d : d = [c EXCEPT !.call = [kind |-> "join", answer |-> st]]
    OBVIOUS
  <2>2. o.native = d
    BY <1>8, <2>1 DEF Calling, Answer
  <2>3. /\ d.call = [kind |-> "join", answer |-> st]
        /\ d.selecting = n.selecting /\ d.scan_active = n.scan_active
    BY <1>1, <1>4, <2>1 DEF Built, Stations
  <2>4. d.idf.scanning = n.idf.scanning /\ d.idf.loop = n.idf.loop
    BY <1>1, <1>4, <2>1 DEF Built, Stations
  <2>5. ScanDue(n) => ScanDue(d)
    BY <2>4 DEF ScanDue
  <2> QED BY <2>2, <2>3, <2>5, AsksOwed DEF Asks
<1> QED BY <1>6, <1>7, <1>8, SteadyOwed DEF Answer

LEMMA ConnectOwed ==
  ASSUME NEW n, Built(n), Owed(n), n.call = NoCall,
         NEW network \in Ssid, NEW secret \in Ssid,
         NEW o \in connect(n, network, secret)
  PROVE  Owed(o.native)
<1>1. PICK c : c = Configured(n, network, secret)
  OBVIOUS
<1>2. Built(c)
  <2>1. c \in Stations
    BY <1>1, Candidateless DEF Configured, Built, Stations
  <2>2. c.candidates \in {n.candidates, <<>>}
    BY <1>1 DEF Configured, Built, Stations
  <2>3. Distinct(c.candidates)
    BY <2>2, Candidateless DEF Built
  <2> QED BY <1>1, <2>1, <2>3, FieldsBuilt DEF Configured, Built, Stations
<1>3. /\ c.selecting = n.selecting /\ c.scan_active = n.scan_active
      /\ c.call = n.call /\ c.idf = n.idf
  BY <1>1 DEF Configured, Built, Stations
<1>4. ASSUME NEW m \in Later(c)
      PROVE  /\ Built(m)
             /\ m.selecting = n.selecting /\ m.scan_active = n.scan_active
             /\ m.call = n.call /\ m.idf = n.idf
  <2>1. \E fresh \in BOOLEAN : \E cs :
          /\ m = [c EXCEPT !.fresh = fresh, !.candidates = cs]
          /\ Regarded(c.candidates, cs)
          /\ \A i \in DOMAIN cs : cs[i].failures = c.candidates[i].failures
    BY <1>2, LaterIs DEF Built
  <2>2. \E fresh, cs : m = [c EXCEPT !.fresh = fresh, !.candidates = cs]
    BY <2>1, Zenon
  <2>3. /\ m.selecting = c.selecting /\ m.scan_active = c.scan_active
        /\ m.call = c.call /\ m.idf = c.idf
    BY <1>2, <2>2 DEF Built, Stations
  <2>4. Built(m)
    BY <1>2, LaterBuilt
  <2> QED BY <1>3, <2>3, <2>4
<1>5. \/ o = Answer("Busy", n)
      \/ \E m \in Later(c) :
           /\ Eligible(m) # {}
           /\ o = AnswerPosting("Ok",
                    [selectCandidate(m) EXCEPT !.told.phase = "Prepared"],
                    Event("Prepared", NoNetwork, "Ok"))
      \/ /\ ~n.scan_active
         /\ \E m \in Later(c), st \in VendorAnswers(n) :
              o = Calling([m EXCEPT !.selecting = TRUE, !.cancelled = FALSE],
                          "select", st)
  <2> DEFINE asked == Later(c)
             known == {m \in asked : m.fresh /\ Eligible(m) # {}}
             select(m) == [m EXCEPT !.selecting = TRUE, !.cancelled = FALSE]
  <2>1. \/ o = Answer("Busy", n)
        \/ o \in {AnswerPosting("Ok",
                     [selectCandidate(m) EXCEPT !.told.phase = "Prepared"],
                     Event("Prepared", NoNetwork, "Ok")) : m \in known}
        \/ /\ ~n.scan_active
           /\ o \in UNION {{Calling(select(m), "select", answer) :
                             answer \in VendorAnswers(n)} :
                               m \in asked \ known}
    BY <1>1, Zenon DEF connect
  <2>2. CASE o = Answer("Busy", n)
    BY <2>2
  <2>3. CASE o \in {AnswerPosting("Ok",
                     [selectCandidate(m) EXCEPT !.told.phase = "Prepared"],
                     Event("Prepared", NoNetwork, "Ok")) : m \in known}
    BY <2>3, Zenon
  <2>4. CASE /\ ~n.scan_active
             /\ o \in UNION {{Calling(select(m), "select", answer) :
                               answer \in VendorAnswers(n)} :
                                 m \in asked \ known}
    BY <2>4, Zenon
  <2> QED BY <2>1, <2>2, <2>3, <2>4, Zenon
<1>6. CASE o = Answer("Busy", n)
  BY <1>6 DEF Answer
<1>7. ASSUME NEW m \in Later(c), Eligible(m) # {},
             o = AnswerPosting("Ok",
                   [selectCandidate(m) EXCEPT !.told.phase = "Prepared"],
                   Event("Prepared", NoNetwork, "Ok"))
      PROVE  Owed(o.native)
  <2>1. \E i \in DOMAIN m.candidates : \E cs :
          /\ i \in Eligible(m) /\ \A j \in Eligible(m) : i <= j
          /\ selectCandidate(m) = [m EXCEPT !.candidates = cs,
                                            !.selected = m.candidates[i].ap,
                                            !.prepared = TRUE]
          /\ Regarded(m.candidates, cs)
          /\ \A j \in DOMAIN cs : cs[j].failures <= m.candidates[j].failures
    BY <1>4, <1>7, SelectIs DEF Built
  <2>2. \E cs, ap : selectCandidate(m) = [m EXCEPT !.candidates = cs,
                                                   !.selected = ap,
                                                   !.prepared = TRUE]
    BY <2>1, Zenon
  <2>3. PICK s : s = [selectCandidate(m) EXCEPT !.told.phase = "Prepared"]
    OBVIOUS
  <2>4. /\ s.selecting = m.selecting /\ s.scan_active = m.scan_active
        /\ s.call = m.call /\ s.idf = m.idf
    BY <1>4, <2>2, <2>3 DEF Built, Stations
  <2>5. Steady(n, s)
    BY <1>4, <2>4, SteadyFields
  <2>6. o.native = s
    BY <1>7, <2>3 DEF AnswerPosting
  <2> QED BY <2>5, <2>6, SteadyOwed
<1>8. ASSUME NEW m \in Later(c), NEW st, ~n.scan_active,
             o = Calling([m EXCEPT !.selecting = TRUE, !.cancelled = FALSE],
                         "select", st)
      PROVE  Owed(o.native)
  <2>1. PICK l : l = [m EXCEPT !.selecting = TRUE, !.cancelled = FALSE]
    OBVIOUS
  <2>2. PICK d : d = [l EXCEPT !.call = [kind |-> "select", answer |-> st]]
    OBVIOUS
  <2>3. o.native = d
    BY <1>8, <2>1, <2>2 DEF Calling, Answer
  <2>4. /\ d.call = [kind |-> "select", answer |-> st]
        /\ d.scan_active = m.scan_active
    BY <1>4, <2>1, <2>2 DEF Built, Stations
  <2>5. d.selecting
    BY <1>4, <2>1, <2>2 DEF Built, Stations
  <2> QED BY <1>4, <1>8, <2>3, <2>4, <2>5, AsksOwed DEF Asks
<1> QED BY <1>5, <1>6, <1>7, <1>8

(* A driver that is detached or attached again believes in no scan. *)
LEMMA DetachOwed ==
  ASSUME NEW n, Built(n), n.call = NoCall
  PROVE  Owed(detach(n))
<1>1. PICK l : l = Leaves(n)
  OBVIOUS
<1>2. Built(l) /\ Steady(n, l)
  BY <1>1, LeavesBuilt, LeavesSteady
<1>3. PICK d : d = detach(n)
  OBVIOUS
<1>4. ~d.selecting
  BY <1>1, <1>2, <1>3 DEF detach, Built, Stations
<1>5. ~d.scan_active
  BY <1>1, <1>2, <1>3 DEF detach, Built, Stations
<1>6. d.call = l.call
  BY <1>1, <1>2, <1>3 DEF detach, Built, Stations
<1> QED BY <1>2, <1>3, <1>4, <1>5, <1>6 DEF Owed, Steady, NoCall

LEMMA NewOwed == Owed(NewStation) /\ Owed(AttachedStation)
<1>1. NewStation.call = NoCall /\ ~NewStation.selecting
      /\ ~NewStation.scan_active
  BY DEF NewStation
<1>2. AttachedStation.call = NoCall /\ ~AttachedStation.selecting
      /\ ~AttachedStation.scan_active
  BY DEF AttachedStation, NewStation
<1> QED BY <1>1, <1>2 DEF Owed, NoCall

(* The window of a vendor call closes. *)
LEMMA ClosedOwed ==
  ASSUME NEW n, NEW m, Built(m), Owed(n), n.call # NoCall,
         ~(m.selecting /\ m.scan_active),
         m.selecting \/ m.scan_active => ScanDue(m)
  PROVE  Owed([m EXCEPT !.call = NoCall])
<1>1. PICK l : l = [m EXCEPT !.call = NoCall]
  OBVIOUS
<1>2. /\ l.selecting = m.selecting /\ l.scan_active = m.scan_active
      /\ l.idf = m.idf /\ l.call = NoCall
  BY <1>1 DEF Built, Stations
<1> QED BY <1>1, <1>2 DEF Owed, ScanDue, NoCall

LEMMA UndoneOwed ==
  ASSUME NEW n, Built(n), Owed(n), n.call # NoCall
  PROVE  /\ ~(Undone(n).selecting /\ Undone(n).scan_active)
         /\ Undone(n).selecting \/ Undone(n).scan_active => ScanDue(Undone(n))
<1>1. n.call.kind \in {"scan", "select", "join"}
  BY DEF Built, Stations
<1>2. CASE n.call.kind = "scan"
  <2>1. PICK m : m = [n EXCEPT !.scan_active = FALSE]
    OBVIOUS
  <2>2. ~m.scan_active
    BY <2>1 DEF Built, Stations
  <2>3. m.selecting = n.selecting
    BY <2>1 DEF Built, Stations
  <2>4. ~n.selecting
    BY <1>2 DEF Owed
  <2> QED BY <1>2, <2>1, <2>2, <2>3, <2>4 DEF Undone
<1>3. CASE n.call.kind = "select"
  <2>1. PICK m : m = [n EXCEPT !.selecting = FALSE, !.secret = NoNetwork]
    OBVIOUS
  <2>2. ~m.selecting
    BY <2>1 DEF Built, Stations
  <2>3. m.scan_active = n.scan_active
    BY <2>1 DEF Built, Stations
  <2>4. ~n.scan_active
    BY <1>3 DEF Owed
  <2> QED BY <1>3, <2>1, <2>2, <2>3, <2>4 DEF Undone
<1>4. CASE n.call.kind = "join"
  <2>1. PICK c : c = candidateFailed(n, "Transient")
    OBVIOUS
  <2>2. \E cs :
          candidateFailed(n, "Transient") =
            IF n.attempt THEN [n EXCEPT !.attempt = FALSE, !.candidates = cs]
            ELSE n
    <3>1. \E cs :
            /\ candidateFailed(n, "Transient") =
                 IF n.attempt
                 THEN [n EXCEPT !.attempt = FALSE, !.candidates = cs] ELSE n
            /\ Regarded(n.candidates, cs)
      BY FailedIs DEF Built
    <3> QED BY <3>1, Zenon
  <2>3. /\ c.selecting = n.selecting /\ c.scan_active = n.scan_active
        /\ c.idf = n.idf
    BY <2>1, <2>2 DEF Built, Stations
  <2>4. Built(c)
    BY <2>1, FailedBuilt
  <2>5. PICK m : m = [c EXCEPT !.told.phase = "Idle"]
    OBVIOUS
  <2>6. /\ m.selecting = n.selecting /\ m.scan_active = n.scan_active
        /\ m.idf = n.idf
    BY <2>3, <2>4, <2>5 DEF Built, Stations
  <2>7. Undone(n) = m
    BY <1>4, <2>1, <2>5 DEF Undone
  <2> QED BY <1>4, <2>6, <2>7 DEF Owed, ScanDue
<1> QED BY <1>1, <1>2, <1>3, <1>4

LEMMA DoneOwed ==
  ASSUME NEW n, Built(n), Owed(n), n.call # NoCall
  PROVE  /\ ~(Done(n).selecting /\ Done(n).scan_active)
         /\ Done(n).selecting \/ Done(n).scan_active => ScanDue(Done(n))
<1>1. n.call.kind \in {"scan", "select", "join"}
  BY DEF Built, Stations
<1>2. PICK m : m = Done(n)
  OBVIOUS
<1>3. m.selecting = n.selecting /\ m.scan_active = n.scan_active
  BY <1>1, <1>2 DEF Done, Built, Stations
<1>4. CASE n.call.kind \in {"scan", "select"}
  <2>1. m.idf.scanning
    BY <1>2, <1>4 DEF Done, Built, Stations
  <2> QED BY <1>2, <1>3, <2>1 DEF Owed, ScanDue
<1>5. CASE n.call.kind = "join"
  <2>1. m.idf.scanning = n.idf.scanning /\ m.idf.loop = n.idf.loop
    BY <1>2, <1>5 DEF Done, Built, Stations
  <2> QED BY <1>2, <1>3, <1>5, <2>1 DEF Owed, ScanDue
<1> QED BY <1>1, <1>4, <1>5

LEMMA ReturnedOwed ==
  ASSUME NEW n, Built(n), Owed(n), n.call # NoCall
  PROVE  Owed(Returned(n))
<1>1. PICK m : m = IF n.call.answer = "Ok" THEN Done(n) ELSE Undone(n)
  OBVIOUS
<1>2. /\ Built(m) /\ ~(m.selecting /\ m.scan_active)
      /\ m.selecting \/ m.scan_active => ScanDue(m)
  BY <1>1, DoneOwed, UndoneOwed, DoneBuilt, UndoneBuilt
<1>3. Returned(n) = [m EXCEPT !.call = NoCall]
  BY <1>1 DEF Returned
<1> QED BY <1>2, <1>3, ClosedOwed

-----------------------------------------------------------------------------
(* The event loop *)

(* Taking an event from the loop makes no scan less due, unless the event  *)
(* is the end of it.                                                       *)
LEMMA RestSteady ==
  ASSUME Built(native), native.idf.loop # <<>>
  PROVE  /\ Rest.selecting = native.selecting
         /\ Rest.scan_active = native.scan_active
         /\ Rest.call = native.call
         /\ Current.kind # "ScanDone" => Steady(native, Rest)
<1>1. native.idf.loop \in Seq(RadioEvents)
  BY DEF Built
<1>2. PICK loop : loop = Tail(native.idf.loop)
  OBVIOUS
<1>3. PICK m : m = [native EXCEPT !.idf.loop = loop]
  OBVIOUS
<1>4. m = Rest
  BY <1>2, <1>3, Zenon DEF Rest
<1>5. /\ m.selecting = native.selecting /\ m.scan_active = native.scan_active
      /\ m.call = native.call
  BY <1>3 DEF Built, Stations
<1>6. m.idf.loop = loop /\ m.idf.scanning = native.idf.scanning
  BY <1>3 DEF Built, Stations
<1>7. /\ Current = native.idf.loop[1]
      /\ Len(native.idf.loop) \in Nat \ {0}
      /\ \A i \in 1..(Len(native.idf.loop) - 1) :
           loop[i] = native.idf.loop[i + 1]
      /\ DOMAIN native.idf.loop = 1..Len(native.idf.loop)
      /\ DOMAIN loop = 1..(Len(native.idf.loop) - 1)
  BY <1>1, <1>2, Dropped DEF Current
<1>8. ASSUME Current.kind # "ScanDone", ScanDue(native)
      PROVE  ScanDue(m)
  <2>1. CASE native.idf.scanning
    BY <1>6, <2>1 DEF ScanDue
  <2>2. ASSUME NEW i \in DOMAIN native.idf.loop,
               native.idf.loop[i].kind = "ScanDone"
        PROVE  ScanDue(m)
    <3>1. i # 1
      BY <1>7, <1>8, <2>2
    <3>2. i - 1 \in 1..(Len(native.idf.loop) - 1) /\ (i - 1) + 1 = i
      BY <1>7, <3>1
    <3>3. i - 1 \in DOMAIN loop /\ loop[i - 1] = native.idf.loop[i]
      BY <1>7, <3>2
    <3> QED BY <1>6, <2>2, <3>3 DEF ScanDue
  <2> QED BY <1>8, <2>1, <2>2 DEF ScanDue
<1> QED BY <1>4, <1>5, <1>8 DEF Steady

(* What the handlers of the other events leave of a station. *)
Apart(n, m) ==
  /\ m.selecting = n.selecting /\ m.scan_active = n.scan_active
  /\ m.call = n.call
  /\ m.idf.scanning = n.idf.scanning /\ m.idf.loop = n.idf.loop

LEMMA ApartOwed ==
  ASSUME Built(native), Owed(native), native.idf.loop # <<>>,
         Current.kind # "ScanDone", NEW m, Apart(Rest, m)
  PROVE  Owed(m)
BY RestSteady, SteadyFields, SteadyChain, SteadyOwed DEF Apart

(* One lemma for each handler of event(). *)
LEMMA OnStartOwed ==
  ASSUME Built(native), Owed(native), OnStart
  PROVE  Owed(native')
<1>1. /\ Built(Rest) /\ native.idf.loop # <<>> /\ Current.kind = "Start"
  BY RestBuilt DEF OnStart, Delivered, Current
<1>2. PICK m : m = [Rest EXCEPT !.told.enabled = TRUE]
  OBVIOUS
<1>3. Apart(Rest, m)
  BY <1>1, <1>2 DEF Apart, Built, Stations
<1>4. native' = m
  BY <1>2 DEF OnStart, PostsEvent
<1> QED BY <1>1, <1>3, <1>4, ApartOwed

LEMMA OnStopOwed ==
  ASSUME Built(native), Owed(native), OnStop
  PROVE  Owed(native')
<1>1. /\ Built(Rest) /\ native.idf.loop # <<>> /\ Current.kind = "Stop"
  BY RestBuilt DEF OnStop, Delivered, Current
<1>2. PICK a : a = [Rest EXCEPT !.idf.ip = FALSE]
  OBVIOUS
<1>3. PICK told : told = [a.told EXCEPT !.enabled = FALSE, !.phase = "Idle"]
  OBVIOUS
<1>4. PICK b : b = [a EXCEPT !.told = told]
  OBVIOUS
<1>5. Apart(Rest, b)
  <2>1. Built(a)
    BY <1>1, <1>2, AddressBuilt
  <2>2. a.idf.scanning = Rest.idf.scanning /\ a.idf.loop = Rest.idf.loop
    BY <1>1, <1>2 DEF Built, Stations
  <2>3. /\ a.selecting = Rest.selecting /\ a.scan_active = Rest.scan_active
        /\ a.call = Rest.call
    BY <1>1, <1>2 DEF Built, Stations
  <2>4. /\ b.selecting = a.selecting /\ b.scan_active = a.scan_active
        /\ b.call = a.call /\ b.idf = a.idf
    BY <1>4, <2>1 DEF Built, Stations
  <2> QED BY <2>2, <2>3, <2>4 DEF Apart
<1>6. b = [Rest EXCEPT !.idf.ip = FALSE, !.told.enabled = FALSE,
                       !.told.phase = "Idle"]
  BY <1>2, <1>3, <1>4, Zenon
<1>7. native' = b
  BY <1>6, Zenon DEF OnStop, PostsEvent
<1> QED BY <1>1, <1>5, <1>7, ApartOwed

LEMMA OnConnectedOwed ==
  ASSUME Built(native), Owed(native), OnConnected
  PROVE  Owed(native')
<1>1. /\ Built(Rest) /\ native.idf.loop # <<>> /\ Current.kind = "Connected"
  BY RestBuilt DEF OnConnected, Delivered, Current
<1>2. PICK m : m = [Rest EXCEPT !.told.phase = "Associated"]
  OBVIOUS
<1>3. PICK r : r = [Rest EXCEPT !.rejected = TRUE]
  OBVIOUS
<1>4. Built(r) /\ Apart(Rest, m) /\ Apart(Rest, r)
  BY <1>1, <1>2, <1>3, RejectedBuilt, ZenonT(30) DEF Apart, Built, Stations
<1>5. native' \in {m, r, Leaves(r)}
  BY <1>2, <1>3, Zenon DEF OnConnected, PostsEvent, Ignores
<1>6. Owed(m) /\ Owed(r)
  BY <1>1, <1>4, ApartOwed
<1> QED BY <1>4, <1>5, <1>6, LeavesSteady, SteadyOwed

LEMMA OnDisconnectedOwed ==
  ASSUME Built(native), Owed(native), OnDisconnected
  PROVE  Owed(native')
<1>1. /\ Built(Rest) /\ native.idf.loop # <<>>
      /\ Current.kind = "Disconnected"
  BY RestBuilt DEF OnDisconnected, Delivered, Current
<1>2. PICK failure : failure = IF native.rejected THEN "IncompatibleSecurity"
                               ELSE ClassifyDisconnect(Current.detail)
  OBVIOUS
<1>3. PICK a : a = candidateFailed(Rest, failure)
  OBVIOUS
<1>4. Built(a)
  BY <1>1, <1>3, FailedBuilt
<1>5. Apart(Rest, a)
  <2>1. \E cs :
          a = IF Rest.attempt
              THEN [Rest EXCEPT !.attempt = FALSE, !.candidates = cs]
              ELSE Rest
    <3>1. \E cs :
            /\ candidateFailed(Rest, failure) =
                 IF Rest.attempt
                 THEN [Rest EXCEPT !.attempt = FALSE, !.candidates = cs]
                 ELSE Rest
            /\ Regarded(Rest.candidates, cs)
      BY <1>1, FailedIs DEF Built
    <3> QED BY <1>3, <3>1, Zenon
  <2> QED BY <1>1, <2>1 DEF Apart, Built, Stations
<1>6. PICK b : b = [a EXCEPT !.rejected = FALSE, !.idf.ip = FALSE,
                             !.idf.timer = @ \/ native.idf.ip,
                             !.told.phase = "Idle", !.told.leaving = FALSE]
  OBVIOUS
<1>7. Apart(a, b)
  BY <1>4, <1>6 DEF Apart, Built, Stations
<1>8. native' = b
  BY <1>2, <1>3, <1>6, Zenon DEF OnDisconnected, PostsEvent
<1>9. Apart(Rest, b)
  BY <1>5, <1>7 DEF Apart
<1> QED BY <1>1, <1>8, <1>9, ApartOwed

LEMMA OnGotIpOwed ==
  ASSUME Built(native), Owed(native), OnGotIp
  PROVE  Owed(native')
<1>1. /\ Built(Rest) /\ native.idf.loop # <<>> /\ Current.kind = "GotIp"
  BY RestBuilt DEF OnGotIp, Delivered, Current
<1>2. \/ \E cs, phase : native' = [Rest EXCEPT !.attempt = FALSE,
                                               !.candidates = cs,
                                               !.told.phase = phase]
      \/ native' = Rest
  BY Zenon DEF OnGotIp, PostsEvent, Ignores
<1>3. Apart(Rest, native')
  BY <1>1, <1>2 DEF Apart, Built, Stations
<1> QED BY <1>1, <1>3, ApartOwed

LEMMA OnLostIpOwed ==
  ASSUME Built(native), Owed(native), OnLostIp
  PROVE  Owed(native')
<1>1. /\ Built(Rest) /\ native.idf.loop # <<>> /\ Current.kind = "LostIp"
  BY RestBuilt DEF OnLostIp, Delivered, Current
<1>2. \/ \E phase : native' = [Rest EXCEPT !.told.phase = phase]
      \/ native' = Rest
  BY Zenon DEF OnLostIp, PostsEvent, Ignores
<1>3. Apart(Rest, native')
  BY <1>1, <1>2 DEF Apart, Built, Stations
<1> QED BY <1>1, <1>3, ApartOwed

(* A scan that is done is no longer waited for. *)
LEMMA ScanDoneOwed ==
  ASSUME Built(native), Owed(native), native.idf.loop # <<>>,
         NEW m, m.call = native.call, ~m.selecting, ~m.scan_active
  PROVE  Owed(m)
BY DEF Owed

LEMMA SelectedOwed ==
  ASSUME Built(native), Owed(native), native.selecting,
         native.idf.loop # <<>>, NEW n \in Later(Rest),
         NEW found \in Found(native.config), Selected(n, found)
  PROVE  Owed(native')
<1>1. /\ Built(Rest) /\ Rest.config = native.config
      /\ Rest.scan_active = native.scan_active /\ Rest.call = native.call
  BY RestBuilt, RestSteady
<1>2. ~Rest.scan_active
  BY <1>1 DEF Owed
<1>3. \E fresh, cs : n = [Rest EXCEPT !.fresh = fresh, !.candidates = cs]
  <2>1. \E fresh \in BOOLEAN : \E cs :
          /\ n = [Rest EXCEPT !.fresh = fresh, !.candidates = cs]
          /\ Regarded(Rest.candidates, cs)
          /\ \A i \in DOMAIN cs : cs[i].failures = Rest.candidates[i].failures
    BY <1>1, LaterIs DEF Built
  <2> QED BY <2>1, Zenon
<1>4. /\ Built(n) /\ n.config = native.config
      /\ n.scan_active = Rest.scan_active /\ n.call = native.call
  <2>1. Built(n)
    BY <1>1, LaterBuilt
  <2>2. /\ n.config = Rest.config /\ n.scan_active = Rest.scan_active
        /\ n.call = Rest.call
    BY <1>1, <1>3 DEF Built, Stations
  <2> QED BY <1>1, <2>1, <2>2
<1>5. PICK s : s = [n EXCEPT !.selecting = FALSE]
  OBVIOUS
<1>6. Built(s) /\ ~s.selecting
  <2>1. Built(s)
    BY <1>4, <1>5, SelectingBuilt
  <2>2. ~s.selecting
    BY <1>4, <1>5 DEF Built, Stations
  <2> QED BY <2>1, <2>2
<1>7. /\ s.config = native.config /\ s.scan_active = n.scan_active
      /\ s.call = native.call
  BY <1>4, <1>5 DEF Built, Stations
<1>8. PICK m : m = rememberCandidates(s, found)
  OBVIOUS
<1>9. /\ Built(m) /\ m.selecting = s.selecting
      /\ m.scan_active = s.scan_active /\ m.call = native.call
  <2>1. s \in Stations /\ found \in Found(s.config)
    BY <1>6, <1>7 DEF Built
  <2>2. Remembered(s, m)
    BY <1>8, <2>1, RememberedIs
  <2>3. PICK cs \in BoundedSeq(Candidates, Slots) :
          /\ m = [s EXCEPT !.candidates = cs, !.fresh = TRUE]
          /\ Distinct(cs)
    BY <2>2, Zenon DEF Remembered
  <2>4. PICK fresh \in BOOLEAN : fresh = TRUE
    OBVIOUS
  <2>5. m = [s EXCEPT !.fresh = fresh, !.candidates = cs]
    BY <2>1, <2>3, <2>4 DEF Stations
  <2>6. Built([s EXCEPT !.fresh = fresh, !.candidates = cs])
    BY <1>6, <2>3, <2>4, RecandidatedBuilt
  <2>7. /\ m.selecting = s.selecting /\ m.scan_active = s.scan_active
        /\ m.call = s.call
    BY <2>1, <2>5 DEF Stations
  <2> QED BY <1>7, <2>5, <2>6, <2>7
<1>10. \/ /\ Eligible(m) # {}
          /\ native' = [selectCandidate(m) EXCEPT !.told.phase = "Prepared"]
       \/ native' = [m EXCEPT !.secret = NoNetwork, !.told.phase = "Idle",
                              !.told.leaving = FALSE]
  BY <1>5, <1>8, Zenon DEF Selected, PostsEvent
<1>11. /\ native'.selecting = m.selecting
       /\ native'.scan_active = m.scan_active
       /\ native'.call = m.call
  <2>1. ASSUME Eligible(m) # {},
               native' = [selectCandidate(m) EXCEPT !.told.phase = "Prepared"]
        PROVE  /\ native'.selecting = m.selecting
               /\ native'.scan_active = m.scan_active
               /\ native'.call = m.call
    <3>1. \E cs, ap : selectCandidate(m) = [m EXCEPT !.candidates = cs,
                                                     !.selected = ap,
                                                     !.prepared = TRUE]
      <4>1. \E i \in DOMAIN m.candidates : \E cs :
              /\ i \in Eligible(m) /\ \A j \in Eligible(m) : i <= j
              /\ selectCandidate(m) =
                   [m EXCEPT !.candidates = cs,
                             !.selected = m.candidates[i].ap,
                             !.prepared = TRUE]
              /\ Regarded(m.candidates, cs)
              /\ \A j \in DOMAIN cs :
                   cs[j].failures <= m.candidates[j].failures
        BY <1>9, <2>1, SelectIs DEF Built
      <4> QED BY <4>1, Zenon
    <3> QED BY <1>9, <2>1, <3>1 DEF Built, Stations
  <2>2. CASE native' = [m EXCEPT !.secret = NoNetwork, !.told.phase = "Idle",
                                 !.told.leaving = FALSE]
    BY <1>9, <2>2 DEF Built, Stations
  <2> QED BY <1>10, <2>1, <2>2
<1> QED
  BY <1>2, <1>4, <1>6, <1>7, <1>9, <1>11, ScanDoneOwed

LEMMA OnScanDoneOwed ==
  ASSUME Built(native), Owed(native), OnScanDone
  PROVE  Owed(native')
<1>1. native.idf.loop # <<>> /\ Built(Rest)
  BY RestBuilt DEF OnScanDone, Delivered
<1>2. native.selecting \in BOOLEAN /\ native.scan_active \in BOOLEAN
  BY DEF Built, Stations
<1>3. /\ Rest.selecting = native.selecting
      /\ Rest.scan_active = native.scan_active /\ Rest.call = native.call
  BY <1>1, RestSteady
<1>4. \/ /\ native.selecting
         /\ \E n \in Later(Rest), found \in Found(native.config) :
              Selected(n, found)
      \/ native.selecting /\ Unselected
      \/ /\ ~native.selecting
         /\ native' = [Rest EXCEPT !.scan_active = FALSE, !.cancelled = FALSE]
      \/ ~native.selecting /\ ~native.scan_active /\ native' = Rest
  BY <1>2, Zenon DEF OnScanDone, PostsEvent, Ignores
<1>5. CASE /\ native.selecting
           /\ \E n \in Later(Rest), found \in Found(native.config) :
                Selected(n, found)
  BY <1>1, <1>5, SelectedOwed
<1>6. CASE native.selecting /\ Unselected
  <2>1. PICK told : told = [Rest.told EXCEPT !.phase = "Idle",
                                             !.leaving = FALSE]
    OBVIOUS
  <2>2. PICK m : m = [Rest EXCEPT !.selecting = FALSE, !.cancelled = FALSE,
                                  !.secret = NoNetwork, !.told = told]
    OBVIOUS
  <2>3. native' = [Rest EXCEPT !.selecting = FALSE, !.cancelled = FALSE,
                               !.secret = NoNetwork, !.told.phase = "Idle",
                               !.told.leaving = FALSE]
    BY <1>6, Zenon DEF Unselected, PostsEvent
  <2>4. native' = m
    BY <2>1, <2>2, <2>3, Zenon
  <2>5. ~m.selecting
    BY <1>1, <2>2 DEF Built, Stations
  <2>6. m.scan_active = Rest.scan_active /\ m.call = Rest.call
    BY <1>1, <2>2 DEF Built, Stations
  <2>7. ~Rest.scan_active
    BY <1>3, <1>6 DEF Owed
  <2> QED BY <1>1, <1>3, <2>4, <2>5, <2>6, <2>7, ScanDoneOwed
<1>7. CASE /\ ~native.selecting
           /\ native' = [Rest EXCEPT !.scan_active = FALSE,
                                     !.cancelled = FALSE]
  <2>1. ~native'.scan_active
    BY <1>1, <1>7 DEF Built, Stations
  <2>2. native'.selecting = Rest.selecting /\ native'.call = Rest.call
    BY <1>1, <1>7 DEF Built, Stations
  <2> QED BY <1>1, <1>3, <1>7, <2>1, <2>2, ScanDoneOwed
<1>8. CASE ~native.selecting /\ ~native.scan_active /\ native' = Rest
  BY <1>1, <1>3, <1>8, ScanDoneOwed
<1> QED BY <1>4, <1>5, <1>6, <1>7, <1>8

LEMMA DeliversOwed ==
  ASSUME Built(native), Owed(native), Delivers
  PROVE  Owed(native')
BY OnStartOwed, OnStopOwed, OnScanDoneOwed, OnConnectedOwed,
   OnDisconnectedOwed, OnGotIpOwed, OnLostIpOwed
   DEF Delivers

-----------------------------------------------------------------------------
(* The radio *)

LEMMA RaisesOwed ==
  ASSUME NEW n, Built(n), Owed(n), NEW kind, NEW ap, NEW detail,
         IdfEvent(kind, ap, detail) \in RadioEvents,
         Raises(n, kind, ap, detail)
  PROVE  Owed(native')
BY RaiseSteady, SteadyOwed DEF Raises

LEMMA HappensOwed ==
  ASSUME Built(native), Owed(native), Happens
  PROVE  Owed(native')
<1>1. CASE ScanFinishes
  <2>1. PICK m : m = [native EXCEPT !.idf.scanning = FALSE]
    OBVIOUS
  <2>2. Built(m)
    BY <2>1, ScanningBuilt
  <2>3. native' = Raise(m, "ScanDone", NoAp, "None")
    BY <1>1, <2>1, Zenon DEF ScanFinishes, Raises
  <2>4. Steady(m, native') /\ ScanDue(native')
    BY <2>2, <2>3, RaiseSteady, RaiseKinds
  <2>5. /\ m.selecting = native.selecting
        /\ m.scan_active = native.scan_active /\ m.call = native.call
    BY <2>1 DEF Built, Stations
  <2> QED BY <2>4, <2>5 DEF Owed, Steady
<1>2. ASSUME NEW auth \in Joined, Joins(auth)
      PROVE  Owed(native')
  <2>1. auth \in AuthMode /\ native.idf.ap \in Aps
    BY <1>2, Esp32Assumption DEF Joins, Built
  <2>2. PICK idf : idf = [native.idf EXCEPT !.link = "Up", !.auth = auth]
    OBVIOUS
  <2>3. PICK m : m = [native EXCEPT !.idf = idf]
    OBVIOUS
  <2>4. m \in Stations
    <3>1. native \in Stations
      BY DEF Built
    <3>2. idf \in [on : BOOLEAN, scanning : BOOLEAN,
                   link : {"Down", "Joining", "Up"}, ap : Aps \cup {NoAp},
                   auth : AuthMode, ip : BOOLEAN, timer : BOOLEAN,
                   loop : Seq(IdfEvents)]
      BY <2>1, <2>2, <3>1 DEF Stations
    <3> QED BY <2>3, <3>1, <3>2 DEF Stations
  <2>5. Built(m)
    BY <2>1, <2>2, <2>3, <2>4 DEF Built, Stations
  <2>6. m = [native EXCEPT !.idf.link = "Up", !.idf.auth = auth]
    BY <2>2, <2>3 DEF Built, Stations
  <2>7. Raises(m, "Connected", native.idf.ap, auth)
    BY <1>2, <2>6 DEF Joins
  <2>8. /\ m.selecting = native.selecting
        /\ m.scan_active = native.scan_active /\ m.call = native.call
        /\ m.idf.scanning = native.idf.scanning
        /\ m.idf.loop = native.idf.loop
    BY <2>2, <2>3 DEF Built, Stations
  <2>9. Owed(m)
    BY <2>8, SteadyFields, SteadyOwed
  <2> QED BY <2>1, <2>5, <2>7, <2>9, RaiseKinds, RaisesOwed
<1>3. ASSUME NEW reason \in Reasons, Loses(reason)
      PROVE  Owed(native')
  <2>1. reason \in DisconnectReason /\ native.idf.ap \in Aps
    BY <1>3, Esp32Assumption DEF Loses, Built
  <2>2. Owed(Unjoined(native))
    BY UnjoinedSteady, SteadyOwed
  <2> QED BY <1>3, <2>1, <2>2, UnjoinedBuilt, RaiseKinds, RaisesOwed DEF Loses
<1>4. ASSUME NEW ip \in BOOLEAN
      PROVE  Owed([native EXCEPT !.idf.ip = ip])
  <2>1. PICK m : m = [native EXCEPT !.idf.ip = ip]
    OBVIOUS
  <2>2. /\ m.selecting = native.selecting
        /\ m.scan_active = native.scan_active /\ m.call = native.call
        /\ m.idf.scanning = native.idf.scanning
        /\ m.idf.loop = native.idf.loop
    BY <2>1 DEF Built, Stations
  <2> QED BY <2>1, <2>2, SteadyFields, SteadyOwed
<1>5. CASE GetsIp
  <2>1. native.idf.ap \in Aps
    BY <1>5 DEF GetsIp, Built
  <2> QED BY <1>4, <1>5, <2>1, AddressBuilt, RaiseKinds, RaisesOwed DEF GetsIp
<1>6. CASE LeaseEnds
  BY <1>4, <1>6, AddressBuilt, RaiseKinds, RaisesOwed DEF LeaseEnds
<1>7. CASE LossTimer
  <2>1. PICK timer \in BOOLEAN : timer = FALSE
    OBVIOUS
  <2>2. PICK m : m = [native EXCEPT !.idf.timer = timer]
    OBVIOUS
  <2>3. /\ m.selecting = native.selecting
        /\ m.scan_active = native.scan_active /\ m.call = native.call
        /\ m.idf.scanning = native.idf.scanning
        /\ m.idf.loop = native.idf.loop
    BY <2>2 DEF Built, Stations
  <2>4. Owed(m)
    BY <2>3, SteadyFields, SteadyOwed
  <2>5. Raises(m, "LostIp", NoAp, "None")
    BY <1>7, <2>1, <2>2 DEF LossTimer
  <2> QED BY <2>2, <2>4, <2>5, TimerBuilt, RaiseKinds, RaisesOwed
<1> QED BY <1>1, <1>2, <1>3, <1>5, <1>6, <1>7 DEF Happens

(* The inductive invariant with the scan that is owed. *)
BusyInv == InterfaceInv /\ Owed(native)

LEMMA CommandOwed ==
  ASSUME BusyInv, Api
  PROVE  Owed(native')
<1>1. /\ Built(native) /\ Owed(native) /\ native.call = NoCall
      /\ Inv /\ adapter \in Adapters
  BY DEF BusyInv, InterfaceInv, Inv, Settled, Api
<1>2. ASSUME NEW o, Steady(native, o.native)
      PROVE  Owed(o.native)
  BY <1>1, <1>2, SteadyOwed
<1>3. \A d \in disconnect(native) : Owed(d.native)
  BY <1>1, <1>2, DisconnectSteady
<1>4. \A st : Owed(Answer(st, native).native)
  BY <1>1 DEF Answer
<1>5. CASE Begin(AttachedStation)
  BY <1>5, NewOwed DEF Begin
<1>6. CASE Shutdown(detach(native))
  BY <1>1, <1>6, DetachOwed DEF Shutdown
<1>7. ASSUME NEW enabled \in BOOLEAN,
             SetEnabled(enabled, enable(native, enabled))
      PROVE  Owed(native')
  <2>1. \A e \in enable(native, enabled) : Owed(e.native)
    BY <1>1, <1>2, EnableSteady
  <2> QED BY <1>7, <2>1 DEF SetEnabled
<1>8. CASE StartScan(scan(native))
  <2>1. \A s \in scan(native) : Owed(s.native)
    BY <1>1, ScanOwed
  <2> QED BY <1>8, <2>1 DEF StartScan
<1>9. ASSUME NEW network \in Networks, Connect(network, disconnect(native))
      PROVE  Owed(native')
  BY <1>1, <1>3, <1>9 DEF Connect
<1>10. CASE Disconnect(disconnect(native))
  BY <1>3, <1>4, <1>10 DEF Disconnect
<1>11. CASE CancelScan(stopScan(native))
  <2>1. \A s \in stopScan(native) : Owed(s.native)
    BY <1>1, <1>2, StopScanSteady
  <2> QED BY <1>11, <2>1 DEF CancelScan
<1>12. CASE CancelConnect(disconnect(native))
  BY <1>3, <1>4, <1>12 DEF CancelConnect
<1> QED
  BY <1>5, <1>6, <1>7, <1>8, <1>9, <1>10, <1>11, <1>12 DEF Api

LEMMA DispatchOwed ==
  ASSUME BusyInv, Dispatch
  PROVE  Owed(native')
<1>1. Built(native) /\ Owed(native) /\ Inv /\ adapter \in Adapters
  BY DEF BusyInv, InterfaceInv, Inv, Settled
<1>2. CASE CallReturns
  BY <1>1, <1>2, ReturnedOwed DEF CallReturns
<1>3. CASE native.call = NoCall /\ DrainEvent(continueConnect(native))
  <2>1. \A c \in continueConnect(native) : Owed(c.native)
    BY <1>1, <1>3, ContinueOwed
  <2>2. Owed(Answer("Ok", native).native)
    BY <1>1 DEF Answer
  <2> QED BY <1>3, <2>1, <2>2 DEF DrainEvent
<1>4. CASE /\ native.call = NoCall
           /\ DrainEnds(connect(native, adapter.config, adapter.credentials))
  <2>1. adapter.config \in Ssid /\ adapter.credentials \in Ssid
    BY <1>1, AdapterTyped
  <2>2. \A c \in connect(native, adapter.config, adapter.credentials) :
          Owed(c.native)
    BY <1>1, <1>4, <2>1, ConnectOwed
  <2> QED BY <1>1, <1>4, <2>2 DEF DrainEnds
<1>5. CASE Drain \/ DrainOverflow \/ Deliver
  BY <1>1, <1>5 DEF Drain, DrainOverflow, Deliver
<1> QED BY <1>2, <1>3, <1>4, <1>5 DEF Dispatch

LEMMA StepOwed ==
  ASSUME BusyInv, [Next]_vars
  PROVE  Owed(native')
<1>1. Built(native) /\ Owed(native)
  BY DEF BusyInv, InterfaceInv
<1>2. CASE EventLoop \/ Radio
  BY <1>1, <1>2, DeliversOwed, HappensOwed DEF EventLoop, Radio
<1>3. CASE UNCHANGED vars
  BY <1>1, <1>3 DEF vars
<1> QED BY <1>2, <1>3, CommandOwed, DispatchOwed DEF Next

LEMMA BusyInvariant == Spec => []BusyInv
<1>1. Init => BusyInv
  BY InitInv, NewBuilt, NewOwed DEF Init, InterfaceInv, BusyInv
<1>2. BusyInv /\ [Next]_vars => BusyInv'
  <2> SUFFICES ASSUME BusyInv, [Next]_vars
               PROVE  BusyInv'
    OBVIOUS
  <2>1. Kept /\ Built(native') /\ Owed(native')
    BY StepKept, StepOwed DEF BusyInv
  <2>2. InterfaceInv'
    BY <2>1 DEF InterfaceInv, Kept, Built
  <2>3. Owed(native)'
    BY <2>1 DEF Owed, ScanDue
  <2> QED BY <2>2, <2>3 DEF BusyInv
<1> QED BY <1>1, <1>2, PTL DEF Spec

-----------------------------------------------------------------------------
(* Which fields of the driver change *)

Keeps(n, m, changed) ==
  /\ "attached" \notin changed => m.attached = n.attached
  /\ "selecting" \notin changed => m.selecting = n.selecting
  /\ "scan_active" \notin changed => m.scan_active = n.scan_active
  /\ "cancelled" \notin changed => m.cancelled = n.cancelled
  /\ "prepared" \notin changed => m.prepared = n.prepared
  /\ "attempt" \notin changed => m.attempt = n.attempt
  /\ "candidates" \notin changed => m.candidates = n.candidates
  /\ "rejected" \notin changed => m.rejected = n.rejected
  /\ "selected" \notin changed => m.selected = n.selected
  /\ "config" \notin changed => m.config = n.config
  /\ "secret" \notin changed => m.secret = n.secret
  /\ "call" \notin changed => m.call = n.call
  /\ "on" \notin changed => m.idf.on = n.idf.on
  /\ "scanning" \notin changed => m.idf.scanning = n.idf.scanning
  /\ "link" \notin changed => m.idf.link = n.idf.link
  /\ "ap" \notin changed => m.idf.ap = n.idf.ap
  /\ "loop" \notin changed => m.idf.loop = n.idf.loop
  /\ "enabled" \notin changed => m.told.enabled = n.told.enabled
  /\ "phase" \notin changed => m.told.phase = n.told.phase
  /\ "leaving" \notin changed => m.told.leaving = n.told.leaving
LEMMA KeepsChain ==
  ASSUME NEW n, NEW m, NEW l, NEW F, NEW G, Keeps(n, m, F), Keeps(m, l, G)
  PROVE  Keeps(n, l, F \cup G)
BY DEF Keeps

-----------------------------------------------------------------------------
(* The loop of events, and the queue *)

Due(n, kind) == \E e \in Range(n.idf.loop) : e.kind = kind

Queued(m, kind) == \E e \in Range(m.queue) : e.kind = kind

Switches == {"Start", "Stop"}

Enablements == {"Enabled", "Disabled"}

(* Of two events of kinds that bars names, the second never comes after   *)
(* the first.                                                              *)
Orderly(s, bars) ==
  \A i, j \in DOMAIN s : i < j => <<s[i].kind, s[j].kind>> \notin bars

(* In the loop, no link begins or ends again behind its end or that of the *)
(* radio, and there is one switch and one end of a scan at most.           *)
Bars ==
  ({"Disconnected", "Stop"} \X {"Connected", "Disconnected"})
  \cup (Switches \X Switches)
  \cup {<<kind, kind>> : kind \in {"Connected", "ScanDone"}}

(* In the queue, there is one enablement and one preparation at most.      *)
MailBars == (Enablements \X Enablements) \cup {<<"Prepared", "Prepared">>}

(* One event more at the end. *)
LEMMA LongerIs ==
  ASSUME NEW S, NEW s \in Seq(S), NEW e \in S
  PROVE  /\ Range(Append(s, e)) = Range(s) \cup {e}
         /\ \A bars :
              Orderly(s, bars) /\ (\A d \in Range(s) : <<d.kind, e.kind>> \notin bars)
              => Orderly(Append(s, e), bars)
<1>1. PICK t : t = Append(s, e)
  OBVIOUS
<1>2. /\ DOMAIN s = 1..Len(s) /\ Len(s) \in Nat
      /\ DOMAIN t = 1..(Len(s) + 1) /\ t[Len(s) + 1] = e
      /\ \A i \in 1..Len(s) : t[i] = s[i]
  BY <1>1, Appended
<1>3. Range(t) = Range(s) \cup {e}
  <2>1. Range(t) = {t[i] : i \in DOMAIN t} /\ Range(s) = {s[i] : i \in DOMAIN s}
    BY DEF Range
  <2>2. 1..(Len(s) + 1) = (1..Len(s)) \cup {Len(s) + 1}
    BY <1>2
  <2>3. \A d \in Range(t) : d \in Range(s) \cup {e}
    BY <1>2, <2>1, <2>2
  <2>4. e \in Range(t)
    BY <1>2, <2>1, <2>2
  <2>5. \A d \in Range(s) : d \in Range(t)
    BY <1>2, <2>1, <2>2
  <2> QED BY <2>3, <2>4, <2>5
<1>4. ASSUME NEW bars, Orderly(s, bars),
             \A d \in Range(s) : <<d.kind, e.kind>> \notin bars
      PROVE  Orderly(t, bars)
  <2> SUFFICES ASSUME NEW i \in DOMAIN t, NEW j \in DOMAIN t, i < j
               PROVE  <<t[i].kind, t[j].kind>> \notin bars
    BY DEF Orderly
  <2>1. i \in DOMAIN s /\ t[i] = s[i]
    BY <1>2
  <2>2. CASE j = Len(s) + 1
    BY <1>2, <1>4, <2>1, <2>2 DEF Range
  <2>3. CASE j # Len(s) + 1
    BY <1>2, <1>4, <2>1, <2>3 DEF Orderly
  <2> QED BY <2>2, <2>3
<1> QED BY <1>1, <1>3, <1>4

(* One event less at the front. *)
LEMMA ShorterIs ==
  ASSUME NEW S, NEW s \in Seq(S), s # <<>>
  PROVE  /\ Range(s) = Range(Tail(s)) \cup {Head(s)}
         /\ \A bars : Orderly(s, bars) =>
              /\ Orderly(Tail(s), bars)
              /\ \A d \in Range(Tail(s)) : <<Head(s).kind, d.kind>> \notin bars
<1>1. PICK t : t = Tail(s)
  OBVIOUS
<1>2. /\ Head(s) = s[1] /\ DOMAIN s = 1..Len(s) /\ Len(s) \in Nat \ {0}
      /\ DOMAIN t = 1..(Len(s) - 1)
      /\ \A i \in 1..(Len(s) - 1) : t[i] = s[i + 1]
  BY <1>1, Dropped
<1>3. Range(s) = Range(t) \cup {s[1]}
  <2>1. Range(t) = {t[i] : i \in DOMAIN t} /\ Range(s) = {s[i] : i \in DOMAIN s}
    BY DEF Range
  <2>2. \A d \in Range(t) : d \in Range(s)
    BY <1>2, <2>1
  <2>3. s[1] \in Range(s)
    BY <1>2, <2>1
  <2>4. ASSUME NEW i \in DOMAIN s
        PROVE  s[i] \in Range(t) \cup {s[1]}
    <3>1. CASE i = 1
      BY <3>1
    <3>2. CASE i # 1
      <4>1. i - 1 \in 1..(Len(s) - 1) /\ (i - 1) + 1 = i
        BY <1>2, <3>2
      <4> QED BY <1>2, <2>1, <4>1
    <3> QED BY <3>1, <3>2
  <2> QED BY <2>1, <2>2, <2>3, <2>4
<1>4. ASSUME NEW bars, Orderly(s, bars)
      PROVE  Orderly(t, bars) /\ \A d \in Range(t) : <<s[1].kind, d.kind>> \notin bars
  <2>1. ASSUME NEW i \in DOMAIN t, NEW j \in DOMAIN t, i < j
        PROVE  <<t[i].kind, t[j].kind>> \notin bars
    <3>1. i + 1 \in DOMAIN s /\ j + 1 \in DOMAIN s /\ i + 1 < j + 1
      BY <1>2, <2>1
    <3>2. t[i] = s[i + 1] /\ t[j] = s[j + 1]
      BY <1>2
    <3> QED BY <1>4, <3>1, <3>2 DEF Orderly
  <2>2. ASSUME NEW j \in DOMAIN t
        PROVE  <<s[1].kind, t[j].kind>> \notin bars
    <3>1. 1 \in DOMAIN s /\ j + 1 \in DOMAIN s /\ 1 < j + 1 /\ t[j] = s[j + 1]
      BY <1>2
    <3> QED BY <1>4, <3>1 DEF Orderly
  <2> QED BY <2>1, <2>2 DEF Orderly, Range
<1> QED BY <1>1, <1>2, <1>3, <1>4

LEMMA NoneIs ==
  ASSUME NEW bars
  PROVE  Range(<<>>) = {} /\ Orderly(<<>>, bars)
BY DEF Range, Orderly

(* An event more in the loop. *)
LEMMA RaiseIs ==
  ASSUME NEW n, Built(n), NEW kind, NEW ap, NEW detail,
         IdfEvent(kind, ap, detail) \in RadioEvents
  PROVE  /\ Keeps(n, Raise(n, kind, ap, detail), {"loop"})
         /\ Range(Raise(n, kind, ap, detail).idf.loop)
              = Range(n.idf.loop) \cup {IdfEvent(kind, ap, detail)}
         /\ /\ Orderly(n.idf.loop, Bars)
            /\ \A k : <<k, kind>> \in Bars => ~Due(n, k)
            => Orderly(Raise(n, kind, ap, detail).idf.loop, Bars)
<1>1. PICK e : e = IdfEvent(kind, ap, detail)
  OBVIOUS
<1>2. PICK loop : loop = Append(n.idf.loop, e)
  OBVIOUS
<1>3. PICK m : m = [n EXCEPT !.idf.loop = loop]
  OBVIOUS
<1>4. m = Raise(n, kind, ap, detail)
  BY <1>1, <1>2, <1>3, Zenon DEF Raise
<1>5. Keeps(n, m, {"loop"}) /\ m.idf.loop = loop
  BY <1>3 DEF Keeps, Built, Stations
<1>6. e.kind = kind
  BY <1>1 DEF IdfEvent
<1>7. Range(loop) = Range(n.idf.loop) \cup {e}
  BY <1>1, <1>2, LongerIs DEF Built
<1>8. ASSUME Orderly(n.idf.loop, Bars), \A k : <<k, kind>> \in Bars => ~Due(n, k)
      PROVE  Orderly(loop, Bars)
  <2>1. \A d \in Range(n.idf.loop) : <<d.kind, e.kind>> \notin Bars
    BY <1>6, <1>8 DEF Due
  <2> QED BY <1>1, <1>2, <1>8, <2>1, LongerIs DEF Built
<1> QED BY <1>1, <1>4, <1>5, <1>7, <1>8

(* The station without the event at hand. *)
LEMMA RestIs ==
  ASSUME Built(native), native.idf.loop # <<>>
  PROVE  /\ Keeps(native, Rest, {"loop"})
         /\ Range(native.idf.loop) = Range(Rest.idf.loop) \cup {Current}
         /\ Orderly(native.idf.loop, Bars) =>
              /\ Orderly(Rest.idf.loop, Bars)
              /\ \A d \in Range(Rest.idf.loop) :
                   <<Current.kind, d.kind>> \notin Bars
<1>1. PICK loop : loop = Tail(native.idf.loop)
  OBVIOUS
<1>2. PICK m : m = [native EXCEPT !.idf.loop = loop]
  OBVIOUS
<1>3. m = Rest
  BY <1>1, <1>2, Zenon DEF Rest
<1>4. Keeps(native, m, {"loop"}) /\ m.idf.loop = loop
  BY <1>2 DEF Keeps, Built, Stations
<1>5. native.idf.loop \in Seq(RadioEvents)
  BY DEF Built
<1> QED BY <1>1, <1>3, <1>4, <1>5, ShorterIs DEF Current
-----------------------------------------------------------------------------
(* What the driver tells is what happens *)

(* How far a connection is that has been joined. *)
Linked == {"Joining", "Associated", "AddressReady"}

(* The vendor call in progress is going to begin what it is about. *)
Begins(n, kind) == n.call.kind = kind /\ n.call.answer = "Ok"

(* The loop holds what is yet to be told: at most one end of a link, after *)
(* its beginning, and the switch the enablement is behind by.              *)
LoopTells(n) ==
  /\ Orderly(n.idf.loop, Bars)
  /\ n.idf.link # "Down" => ~Due(n, "Disconnected") /\ ~Due(n, "Stop")
  /\ n.idf.link = "Joining" \/ Due(n, "Connected") => n.told.phase = "Joining"
  /\ n.idf.link = "Joining" => ~Due(n, "Connected")
  /\ n.idf.link # "Down" \/ Due(n, "Disconnected") => n.told.phase \in Linked
  /\ Due(n, "Start") => n.idf.on /\ ~n.told.enabled
  /\ Due(n, "Stop") => ~n.idf.on /\ n.told.enabled
  /\ n.told.enabled # n.idf.on => Due(n, "Start") \/ Due(n, "Stop")
  /\ Due(n, "Stop") => ~n.selecting /\ ~n.prepared /\ ~n.attempt
                         /\ ~n.told.leaving

(* The flags and the call in progress are those of the phase told. *)
PhaseTells(n) ==
  /\ n.selecting <=> n.told.phase = "Selecting" \/ n.call.kind = "select"
  /\ n.call.kind = "select" => n.told.phase = "Idle"
  /\ n.prepared => n.told.phase = "Prepared" /\ n.call.kind # "join"
  /\ n.told.phase = "Prepared" => n.prepared \/ n.call.kind = "join"
  /\ n.call.kind = "join" => n.told.phase = "Prepared" /\ n.attempt
  /\ n.told.leaving => n.told.phase \notin {"Idle", "Prepared"}
  /\ n.told.leaving /\ n.selecting => n.cancelled
  /\ n.told.phase # "Idle" \/ Begins(n, "select") => n.told.enabled
  /\ Begins(n, "select") \/ Begins(n, "join") => n.idf.on
  /\ n.attempt => n.told.phase \in Linked \/ n.call.kind = "join"

(* One scan runs or has its end in the loop, and its owner waits for it. *)
ScanIsOne(n) ==
  /\ n.idf.scanning \/ Due(n, "ScanDone") =>
       /\ n.selecting \/ n.scan_active
       /\ n.call.kind \notin {"scan", "select"}
  /\ n.idf.scanning => ~Due(n, "ScanDone")
  /\ n.call.kind = "scan" => n.scan_active

(* An attempt is one at the selected AP, and what ends it is a failure. *)
AttemptIsOwn(n) ==
  n.attempt =>
    /\ n.idf.link # "Down" => n.idf.ap = n.selected
    /\ \A e \in Range(n.idf.loop) : e.kind = "Disconnected" =>
         /\ e.ap = n.selected
         /\ e.detail = "ASSOC_LEAVE" => n.rejected

(* Candidates, link and events are of the configured network. *)
NetworkIsOwn(n) ==
  /\ \A i \in DOMAIN n.candidates : NetworkOf[n.candidates[i].ap] = n.config
  /\ n.prepared \/ n.call.kind = "join" => NetworkOf[n.selected] = n.config
  /\ n.selecting => n.config \in Networks
  /\ n.idf.link # "Down" => NetworkOf[n.idf.ap] = n.config
  /\ \A e \in Range(n.idf.loop) :
       e.kind \in {"Connected", "Disconnected"} => NetworkOf[e.ap] = n.config

Faithful(n) ==
  /\ LoopTells(n) /\ PhaseTells(n) /\ ScanIsOne(n)
  /\ AttemptIsOwn(n) /\ NetworkIsOwn(n)

-----------------------------------------------------------------------------
(* ESP-IDF keeps the driver faithful *)

LEMMA UnjoinedIs ==
  ASSUME NEW n, Built(n)
  PROVE  /\ Keeps(n, Unjoined(n), {"link", "ap"})
         /\ Unjoined(n).idf.link = "Down"
<1>1. PICK m : m = Unjoined(n)
  OBVIOUS
<1>2. Keeps(n, m, {"link", "ap"}) /\ m.idf.link = "Down"
  BY <1>1 DEF Unjoined, Keeps, Built, Stations
<1> QED BY <1>1, <1>2

LEMMA UnjoinedFaithful ==
  ASSUME NEW n, Built(n), Faithful(n)
  PROVE  Faithful(Unjoined(n))
<1>1. PICK m : m = Unjoined(n)
  OBVIOUS
<1>2. Keeps(n, m, {"link", "ap"}) /\ m.idf.link = "Down"
  BY <1>1, UnjoinedIs
<1>3. \A k : Due(m, k) <=> Due(n, k)
  BY <1>2 DEF Keeps, Due
<1>4. LoopTells(m)
  BY <1>2, <1>3 DEF Faithful, LoopTells, Keeps
<1>5. PhaseTells(m) /\ ScanIsOne(m)
  BY <1>2, <1>3 DEF Faithful, PhaseTells, ScanIsOne, Keeps, Begins
<1>6. AttemptIsOwn(m) /\ NetworkIsOwn(m)
  BY <1>2 DEF Faithful, AttemptIsOwn, NetworkIsOwn, Keeps
<1> QED BY <1>1, <1>4, <1>5, <1>6 DEF Faithful

(* Where an event of the given kind may be raised, and no other of the     *)
(* fields changes.                                                         *)
LEMMA RaisedFaithful ==
  ASSUME NEW n, Built(n), Faithful(n), NEW kind, NEW ap, NEW detail,
         IdfEvent(kind, ap, detail) \in RadioEvents,
         kind \in {"ScanDone", "GotIp", "LostIp"},
         kind = "ScanDone" =>
           /\ ~n.idf.scanning /\ ~Due(n, "ScanDone")
           /\ n.selecting \/ n.scan_active
           /\ n.call.kind \notin {"scan", "select"}
  PROVE  Faithful(Raise(n, kind, ap, detail))
<1>1. PICK m : m = Raise(n, kind, ap, detail)
  OBVIOUS
<1>2. PICK e : e = IdfEvent(kind, ap, detail)
  OBVIOUS
<1>3. /\ Keeps(n, m, {"loop"})
      /\ Range(m.idf.loop) = Range(n.idf.loop) \cup {e}
      /\ /\ Orderly(n.idf.loop, Bars)
         /\ \A k : <<k, kind>> \in Bars => ~Due(n, k)
         => Orderly(m.idf.loop, Bars)
  BY <1>1, <1>2, RaiseIs
<1>4. e.kind = kind
  BY <1>2 DEF IdfEvent
<1>5. \A k : Due(m, k) <=> Due(n, k) \/ k = kind
  BY <1>3, <1>4 DEF Due
<1>6. \A k : <<k, kind>> \in Bars => k = "ScanDone" /\ kind = "ScanDone"
  BY DEF Bars, Switches
<1>7. Orderly(m.idf.loop, Bars)
  BY <1>3, <1>6 DEF Faithful, LoopTells
<1>8. LoopTells(m)
  BY <1>3, <1>5, <1>7 DEF Faithful, LoopTells, Keeps
<1>9. PhaseTells(m) /\ ScanIsOne(m)
  BY <1>3, <1>5 DEF Faithful, PhaseTells, ScanIsOne, Keeps, Begins
<1>10. AttemptIsOwn(m) /\ NetworkIsOwn(m)
  BY <1>3, <1>4 DEF Faithful, AttemptIsOwn, NetworkIsOwn, Keeps
<1> QED BY <1>1, <1>8, <1>9, <1>10 DEF Faithful

(* A link ends: with the event of it, in the loop after that of its        *)
(* beginning.                                                              *)
LEMMA EndedFaithful ==
  ASSUME NEW n, Built(n), Faithful(n), n.idf.link # "Down",
         NEW detail \in DisconnectReason,
         n.attempt /\ detail = "ASSOC_LEAVE" => n.rejected
  PROVE  LET m == Raise(Unjoined(n), "Disconnected", n.idf.ap, detail)
         IN  /\ Faithful(m) /\ Built(m)
             /\ Keeps(n, m, {"link", "ap", "loop"}) /\ m.idf.link = "Down"
             /\ \A k : Due(m, k) <=> Due(n, k) \/ k = "Disconnected"
<1>1. PICK u : u = Unjoined(n)
  OBVIOUS
<1>2. PICK m : m = Raise(u, "Disconnected", n.idf.ap, detail)
  OBVIOUS
<1>3. Built(u) /\ Keeps(n, u, {"link", "ap"}) /\ u.idf.link = "Down"
  BY <1>1, UnjoinedBuilt, UnjoinedIs
<1>4. PICK e : e = IdfEvent("Disconnected", n.idf.ap, detail)
  OBVIOUS
<1>5. e \in RadioEvents
  BY <1>4, RaiseKinds DEF Built
<1>6. /\ Keeps(u, m, {"loop"})
      /\ Range(m.idf.loop) = Range(u.idf.loop) \cup {e}
      /\ /\ Orderly(u.idf.loop, Bars)
         /\ \A k : <<k, "Disconnected">> \in Bars => ~Due(u, k)
         => Orderly(m.idf.loop, Bars)
  BY <1>2, <1>3, <1>4, <1>5, RaiseIs
<1>7. Built(m)
  BY <1>2, <1>3, <1>4, <1>5, RaiseBuilt
<1>8. /\ Keeps(n, m, {"link", "ap", "loop"}) /\ m.idf.link = "Down"
      /\ u.idf.loop = n.idf.loop
  BY <1>3, <1>6 DEF Keeps
<1>9. /\ e.kind = "Disconnected" /\ e.ap = n.idf.ap /\ e.detail = detail
  BY <1>4 DEF IdfEvent
<1>10. \A k : Due(m, k) <=> Due(n, k) \/ k = "Disconnected"
  BY <1>6, <1>8, <1>9 DEF Due
<1>11. Orderly(m.idf.loop, Bars)
  <2>1. \A k : <<k, "Disconnected">> \in Bars => k \in {"Disconnected", "Stop"}
    BY DEF Bars, Switches
  <2>2. \A k : Due(u, k) <=> Due(n, k)
    BY <1>8 DEF Due
  <2> QED BY <1>6, <1>8, <2>1, <2>2 DEF Faithful, LoopTells
<1>12. LoopTells(m)
  BY <1>8, <1>10, <1>11 DEF Faithful, LoopTells, Keeps
<1>13. PhaseTells(m) /\ ScanIsOne(m)
  BY <1>8, <1>10 DEF Faithful, PhaseTells, ScanIsOne, Keeps, Begins
<1>14. AttemptIsOwn(m)
  BY <1>6, <1>8, <1>9 DEF Faithful, AttemptIsOwn, Keeps
<1>15. NetworkIsOwn(m)
  BY <1>6, <1>8, <1>9 DEF Faithful, NetworkIsOwn, Keeps
<1> QED
  BY <1>1, <1>2, <1>7, <1>8, <1>10, <1>12, <1>13, <1>14, <1>15 DEF Faithful

LEMMA LeavesFaithful ==
  ASSUME NEW n, Built(n), Faithful(n), n.attempt => n.rejected
  PROVE  /\ Faithful(Leaves(n)) /\ Built(Leaves(n))
         /\ Keeps(n, Leaves(n), {"link", "ap", "loop"})
         /\ Leaves(n).idf.link = "Down"
         /\ \A k : k # "Disconnected" => (Due(Leaves(n), k) <=> Due(n, k))
<1>1. CASE n.idf.link = "Down"
  <2>1. Leaves(n) = n
    BY <1>1 DEF Leaves
  <2> QED BY <1>1, <2>1 DEF Keeps
<1>2. CASE n.idf.link # "Down"
  <2>1. "ASSOC_LEAVE" \in DisconnectReason
    BY DEF DisconnectReason
  <2>2. Leaves(n) = Raise(Unjoined(n), "Disconnected", n.idf.ap, "ASSOC_LEAVE")
    BY <1>2 DEF Leaves
  <2> QED BY <1>2, <2>1, <2>2, EndedFaithful
<1> QED BY <1>1, <1>2

LEMMA ScanRaisedIs ==
  ASSUME NEW n, Built(n)
  PROVE  LET m == Raise(n, "ScanDone", NoAp, "None")
         IN  /\ Keeps(n, m, {"loop"})
             /\ Range(m.idf.loop)
                  = Range(n.idf.loop) \cup {IdfEvent("ScanDone", NoAp, "None")}
<1>1. IdfEvent("ScanDone", NoAp, "None") \in RadioEvents
  BY RaiseKinds
<1> QED BY <1>1, RaiseIs

LEMMA ScanEndedFaithful ==
  ASSUME NEW n, Built(n), Faithful(n), n.idf.scanning,
         NEW m, m = Raise([n EXCEPT !.idf.scanning = FALSE], "ScanDone", NoAp,
                          "None")
  PROVE  /\ Faithful(m) /\ Built(m) /\ Keeps(n, m, {"scanning", "loop"})
         /\ \A k : k # "ScanDone" => (Due(m, k) <=> Due(n, k))
<1>1. PICK s : s = [n EXCEPT !.idf.scanning = FALSE]
  OBVIOUS
<1>2. Built(s) /\ Keeps(n, s, {"scanning"}) /\ ~s.idf.scanning
  <2>1. Built(s)
    BY <1>1, ScanningBuilt
  <2>2. Keeps(n, s, {"scanning"}) /\ ~s.idf.scanning
    BY <1>1 DEF Keeps, Built, Stations
  <2> QED BY <2>1, <2>2
<1>3. \A k : Due(s, k) <=> Due(n, k)
  BY <1>2 DEF Keeps, Due
<1>4. Faithful(s)
  <2>1. LoopTells(s) /\ PhaseTells(s) /\ ScanIsOne(s)
    BY <1>2, <1>3
       DEF Faithful, LoopTells, PhaseTells, ScanIsOne, Keeps, Begins
  <2>2. AttemptIsOwn(s) /\ NetworkIsOwn(s)
    BY <1>2 DEF Faithful, AttemptIsOwn, NetworkIsOwn, Keeps
  <2> QED BY <2>1, <2>2 DEF Faithful
<1>5. PICK e : e = IdfEvent("ScanDone", NoAp, "None")
  OBVIOUS
<1>6. e \in RadioEvents /\ e.kind = "ScanDone"
  BY <1>5, RaiseKinds DEF IdfEvent
<1>7. /\ n.selecting \/ n.scan_active
      /\ n.call.kind \notin {"scan", "select"} /\ ~Due(n, "ScanDone")
  BY DEF Faithful, ScanIsOne
<1>8. /\ s.selecting \/ s.scan_active
      /\ s.call.kind \notin {"scan", "select"} /\ ~Due(s, "ScanDone")
  BY <1>2, <1>3, <1>7 DEF Keeps
<1>9. Faithful(m) /\ Built(m)
  BY <1>1, <1>2, <1>4, <1>5, <1>6, <1>8, RaisedFaithful, RaiseBuilt
<1>10. /\ Keeps(s, m, {"loop"})
       /\ Range(m.idf.loop) = Range(s.idf.loop) \cup {e}
  BY <1>1, <1>2, <1>5, ScanRaisedIs, Zenon
<1>11. Keeps(n, m, {"scanning", "loop"})
  BY <1>2, <1>10 DEF Keeps
<1>12. \A k : k # "ScanDone" => (Due(m, k) <=> Due(s, k))
  BY <1>6, <1>10 DEF Due
<1> QED BY <1>3, <1>9, <1>11, <1>12

LEMMA ScanStopsFaithful ==
  ASSUME NEW n, Built(n), Faithful(n)
  PROVE  /\ Faithful(ScanStops(n)) /\ Built(ScanStops(n))
         /\ Keeps(n, ScanStops(n), {"scanning", "loop"})
         /\ \A k : k # "ScanDone" => (Due(ScanStops(n), k) <=> Due(n, k))
<1>1. CASE ~n.idf.scanning
  <2>1. ScanStops(n) = n
    BY <1>1 DEF ScanStops
  <2> QED BY <2>1 DEF Keeps
<1>2. CASE n.idf.scanning
  <2>1. ScanStops(n) = Raise([n EXCEPT !.idf.scanning = FALSE], "ScanDone",
                             NoAp, "None")
    BY <1>2 DEF ScanStops
  <2> QED BY <1>2, <2>1, ScanEndedFaithful
<1> QED BY <1>1, <1>2
(* The radio is switched on, or off with its link gone. *)
LEMMA SwitchedFaithful ==
  ASSUME NEW n, Built(n), Faithful(n), NEW on \in BOOLEAN, n.idf.on = ~on,
         ~Due(n, "Start"), ~Due(n, "Stop"),
         ~on => /\ n.idf.link = "Down" /\ n.call = NoCall
                /\ ~n.selecting /\ ~n.prepared /\ ~n.attempt /\ ~n.told.leaving,
         NEW kind, kind = IF on THEN "Start" ELSE "Stop",
         NEW m, m = Raise([n EXCEPT !.idf.on = on], kind, NoAp, "None")
  PROVE  /\ Faithful(m) /\ Keeps(n, m, {"on", "loop"}) /\ m.idf.on = on
<1>1. PICK s : s = [n EXCEPT !.idf.on = on]
  OBVIOUS
<1>2. Built(s) /\ Keeps(n, s, {"on"}) /\ s.idf.on = on
  <2>1. Built(s)
    BY <1>1, OnBuilt
  <2>2. Keeps(n, s, {"on"}) /\ s.idf.on = on
    BY <1>1 DEF Keeps, Built, Stations
  <2> QED BY <2>1, <2>2
<1>3. PICK e : e = IdfEvent(kind, NoAp, "None")
  OBVIOUS
<1>4. e \in RadioEvents /\ e.kind = kind
  BY <1>3, RaiseKinds DEF IdfEvent
<1>5. m = Raise(s, kind, NoAp, "None")
  BY <1>1
<1>6. /\ Keeps(s, m, {"loop"})
      /\ Range(m.idf.loop) = Range(s.idf.loop) \cup {e}
      /\ /\ Orderly(s.idf.loop, Bars)
         /\ \A k : <<k, kind>> \in Bars => ~Due(s, k)
         => Orderly(m.idf.loop, Bars)
  BY <1>2, <1>3, <1>4, <1>5, RaiseIs
<1>7. /\ Keeps(n, m, {"on", "loop"}) /\ m.idf.on = on
      /\ s.idf.loop = n.idf.loop
  BY <1>2, <1>6 DEF Keeps
<1>8. \A k : Due(m, k) <=> Due(n, k) \/ k = kind
  BY <1>4, <1>6, <1>7 DEF Due
<1>9. Orderly(m.idf.loop, Bars)
  <2>1. \A k : <<k, kind>> \in Bars => k \in {"Start", "Stop"}
    BY DEF Bars, Switches
  <2>2. \A k : Due(s, k) <=> Due(n, k)
    BY <1>7 DEF Due
  <2> QED BY <1>6, <1>7, <2>1, <2>2 DEF Faithful, LoopTells
<1>10. n.told.enabled = ~on /\ n.told.enabled \in BOOLEAN
  BY DEF Faithful, LoopTells, Built, Stations
<1>11. LoopTells(m)
  BY <1>7, <1>8, <1>9, <1>10 DEF Faithful, LoopTells, Keeps
<1>12. PhaseTells(m)
  BY <1>7, <1>8, <1>10 DEF Faithful, PhaseTells, Keeps, Begins, NoCall
<1>13. ScanIsOne(m)
  BY <1>7, <1>8 DEF Faithful, ScanIsOne, Keeps
<1>14. AttemptIsOwn(m)
  BY <1>4, <1>6, <1>7 DEF Faithful, AttemptIsOwn, Keeps
<1>15. NetworkIsOwn(m)
  BY <1>4, <1>6, <1>7 DEF Faithful, NetworkIsOwn, Keeps
<1> QED BY <1>7, <1>11, <1>12, <1>13, <1>14, <1>15 DEF Faithful

(* The station the radio is switched off at, without its link. *)
LEMMA StopsFaithful ==
  ASSUME NEW n, Built(n), Faithful(n), n.idf.on, n.call = NoCall,
         ~Due(n, "Start"), ~Due(n, "Stop"),
         ~n.selecting, ~n.prepared, ~n.attempt, ~n.told.leaving,
         NEW m \in Stops(n)
  PROVE  /\ Faithful(m) /\ ~m.idf.on
         /\ Keeps(n, m, {"scanning", "link", "ap", "loop", "on"})
<1>1. PICK s : s = ScanStops(n)
  OBVIOUS
<1>2. /\ Faithful(s) /\ Built(s) /\ Keeps(n, s, {"scanning", "loop"})
      /\ ~Due(s, "Start") /\ ~Due(s, "Stop")
  BY <1>1, ScanStopsFaithful
<1>3. PICK l \in {Leaves(s), Unjoined(s)} :
        m = Raise([l EXCEPT !.idf.on = FALSE], "Stop", NoAp, "None")
  BY <1>1 DEF Stops
<1>4. s.attempt = n.attempt
  BY <1>2 DEF Keeps
<1>5. /\ Faithful(l) /\ Built(l) /\ Keeps(s, l, {"link", "ap", "loop"})
      /\ l.idf.link = "Down" /\ ~Due(l, "Start") /\ ~Due(l, "Stop")
  <2>1. CASE l = Leaves(s)
    BY <1>2, <1>4, <2>1, LeavesFaithful
  <2>2. CASE l = Unjoined(s)
    <3>1. Keeps(s, l, {"link", "ap"}) /\ l.idf.link = "Down"
      BY <1>2, <2>2, UnjoinedIs
    <3>2. l.idf.loop = s.idf.loop
      BY <3>1 DEF Keeps
    <3>3. Keeps(s, l, {"link", "ap", "loop"})
      BY <3>1 DEF Keeps
    <3> QED
      BY <1>2, <2>2, <3>1, <3>2, <3>3, UnjoinedFaithful, UnjoinedBuilt DEF Due
  <2> QED BY <1>3, <2>1, <2>2
<1>6. Keeps(n, l, {"scanning", "link", "ap", "loop"})
  BY <1>2, <1>5 DEF Keeps
<1>7. /\ l.idf.on /\ l.call = NoCall /\ ~l.selecting /\ ~l.prepared
      /\ ~l.attempt /\ ~l.told.leaving
  BY <1>6 DEF Keeps
<1>8. l.idf.on = ~FALSE
  BY <1>5, <1>7 DEF Built, Stations
<1>9. Faithful(m) /\ Keeps(l, m, {"on", "loop"}) /\ m.idf.on = FALSE
  BY <1>3, <1>5, <1>7, <1>8, SwitchedFaithful
<1>10. Keeps(n, m, {"scanning", "link", "ap", "loop", "on"})
  BY <1>6, <1>9 DEF Keeps
<1> QED BY <1>9, <1>10

-----------------------------------------------------------------------------
(* Commands of a faithful driver *)

(* Fields of the attempt that a command may give up. *)
LEMMA AbandonedFaithful ==
  ASSUME NEW n, Built(n), Faithful(n), n.call = NoCall,
         NEW m, Keeps(n, m, {"attempt"}), ~m.attempt
  PROVE  Faithful(m)
<1>1. \A k : Due(m, k) <=> Due(n, k)
  BY DEF Keeps, Due
<1>2. LoopTells(m)
  BY <1>1 DEF Faithful, LoopTells, Keeps
<1>3. PhaseTells(m) /\ ScanIsOne(m)
  BY <1>1 DEF Faithful, PhaseTells, ScanIsOne, Keeps, Begins, NoCall
<1>4. AttemptIsOwn(m) /\ NetworkIsOwn(m)
  BY DEF Faithful, AttemptIsOwn, NetworkIsOwn, Keeps
<1> QED BY <1>2, <1>3, <1>4 DEF Faithful

LEMMA ForgottenFaithful ==
  ASSUME NEW n, Built(n), Faithful(n),
         NEW m, Keeps(n, m, {"candidates"}), DOMAIN m.candidates = {}
  PROVE  Faithful(m)
<1>1. \A k : Due(m, k) <=> Due(n, k)
  BY DEF Keeps, Due
<1>2. LoopTells(m)
  BY <1>1 DEF Faithful, LoopTells, Keeps
<1>3. PhaseTells(m) /\ ScanIsOne(m)
  BY <1>1 DEF Faithful, PhaseTells, ScanIsOne, Keeps, Begins
<1>4. AttemptIsOwn(m) /\ NetworkIsOwn(m)
  BY DEF Faithful, AttemptIsOwn, NetworkIsOwn, Keeps
<1> QED BY <1>2, <1>3, <1>4 DEF Faithful

(* enable() changes the radio when it is accepted, or reports at once what *)
(* it already is.                                                          *)
LEMMA EnableIs ==
  ASSUME NEW n, Built(n), Faithful(n), n.call = NoCall,
         ~Due(n, "Start"), ~Due(n, "Stop"),
         ~n.selecting, ~n.prepared, ~n.told.leaving,
         NEW enabled \in BOOLEAN, NEW o \in enable(n, enabled)
  PROVE  /\ Faithful(o.native)
         /\ Keeps(n, o.native, {"candidates", "attempt", "on", "scanning",
                                "link", "ap", "loop"})
         /\ \/ /\ o.answer = "ConnectionFailed" /\ o.posts = <<>>
               /\ Keeps(n, o.native, {"candidates", "attempt"})
            \/ /\ o.answer = "Ok" /\ o.posts = <<Enablement(enabled)>>
               /\ n.idf.on = enabled
               /\ Keeps(n, o.native, {"candidates", "attempt"})
            \/ /\ o.answer = "Ok" /\ o.posts = <<>>
               /\ n.idf.on = ~enabled /\ o.native.idf.on = enabled
<1>1. PICK a : a = IF enabled THEN n ELSE [n EXCEPT !.attempt = FALSE]
  OBVIOUS
<1>2. PICK m : m = IF enabled THEN n
                   ELSE [n EXCEPT !.candidates = <<>>, !.attempt = FALSE]
  OBVIOUS
<1>3. /\ Faithful(m) /\ Built(m) /\ Keeps(n, m, {"candidates", "attempt"})
      /\ enabled \/ ~m.attempt
  <2>1. CASE enabled
    BY <1>2, <2>1 DEF Keeps
  <2>2. CASE ~enabled
    <3>1. Built(a) /\ Keeps(n, a, {"attempt"}) /\ ~a.attempt
      <4>1. Built(a)
        BY <1>1, <2>2, AbandoningBuilt DEF Abandoning
      <4>2. Keeps(n, a, {"attempt"}) /\ ~a.attempt
        BY <1>1, <2>2 DEF Keeps, Built, Stations
      <4> QED BY <4>1, <4>2
    <3>2. Faithful(a)
      BY <3>1, AbandonedFaithful
    <3>3. Keeps(a, m, {"candidates"}) /\ m.candidates = <<>>
      BY <1>1, <1>2, <2>2 DEF Keeps, Built, Stations
    <3>4. Faithful(m)
      BY <3>1, <3>2, <3>3, ForgottenFaithful
    <3>5. m \in Stations
      BY <1>2, <2>2, Candidateless DEF Built, Stations
    <3>6. Built(m)
      <4>1. Distinct(m.candidates)
        BY <3>3, Candidateless
      <4>2. /\ m.idf = n.idf /\ m.call = n.call /\ m.prepared = n.prepared
            /\ m.selected = n.selected
        BY <1>2, <2>2 DEF Built, Stations
      <4> QED BY <3>5, <4>1, <4>2, FieldsBuilt DEF Built
    <3>7. Keeps(n, m, {"candidates", "attempt"}) /\ ~m.attempt
      BY <3>1, <3>3 DEF Keeps
    <3> QED BY <3>4, <3>6, <3>7
  <2> QED BY <2>1, <2>2
<1>4. n.idf.on \in BOOLEAN
  BY StationTyped DEF Built
<1>5. \/ o = Answer("ConnectionFailed", m)
      \/ n.idf.on = enabled /\ o = AnswerPosting("Ok", m, Enablement(enabled))
      \/ enabled /\ ~n.idf.on /\ o = Answer("Ok", Starts(m))
      \/ /\ ~enabled /\ n.idf.on
         /\ \E s \in Stops(m) : o = Answer("Ok", s)
  BY <1>2, <1>4 DEF enable
<1>6. CASE o = Answer("ConnectionFailed", m)
  BY <1>3, <1>6 DEF Answer, Keeps
<1>7. CASE n.idf.on = enabled /\ o = AnswerPosting("Ok", m, Enablement(enabled))
  BY <1>3, <1>7 DEF AnswerPosting, Keeps
<1>8. /\ m.idf.on = n.idf.on /\ m.call = NoCall /\ m.idf.loop = n.idf.loop
      /\ ~m.selecting /\ ~m.prepared /\ ~m.told.leaving
  BY <1>3 DEF Keeps
<1>9. ~Due(m, "Start") /\ ~Due(m, "Stop")
  BY <1>8 DEF Due
<1>10. CASE enabled /\ ~n.idf.on /\ o = Answer("Ok", Starts(m))
  <2>1. PICK s : s = Starts(m)
    OBVIOUS
  <2>2. s = Raise([m EXCEPT !.idf.on = TRUE], "Start", NoAp, "None")
    BY <2>1 DEF Starts
  <2>3. m.idf.on = ~TRUE
    BY <1>3, <1>8, <1>10 DEF Built, Stations
  <2>4. Faithful(s) /\ Keeps(m, s, {"on", "loop"}) /\ s.idf.on = TRUE
    BY <1>3, <1>9, <2>2, <2>3, SwitchedFaithful
  <2>5. Keeps(n, s, {"candidates", "attempt", "on", "scanning", "link", "ap",
                     "loop"})
    BY <1>3, <2>4 DEF Keeps
  <2>6. o.native = s /\ o.answer = "Ok" /\ o.posts = <<>>
    BY <1>10, <2>1 DEF Answer
  <2> QED BY <1>4, <1>10, <2>4, <2>5, <2>6
<1>11. ASSUME ~enabled, n.idf.on, NEW s \in Stops(m), o = Answer("Ok", s)
       PROVE  /\ Faithful(s)
              /\ Keeps(n, s, {"candidates", "attempt", "on", "scanning",
                              "link", "ap", "loop"})
              /\ ~s.idf.on
  <2>1. /\ Faithful(s) /\ ~s.idf.on
        /\ Keeps(m, s, {"scanning", "link", "ap", "loop", "on"})
    BY <1>3, <1>8, <1>9, <1>11, StopsFaithful
  <2> QED BY <1>3, <2>1 DEF Keeps
<1>12. CASE /\ ~enabled /\ n.idf.on
            /\ \E s \in Stops(m) : o = Answer("Ok", s)
  <2>1. PICK s \in Stops(m) : o = Answer("Ok", s)
    BY <1>12
  <2>2. o.native = s /\ o.answer = "Ok" /\ o.posts = <<>>
    BY <2>1 DEF Answer
  <2>3. s.idf.on \in BOOLEAN
    <3>1. Built(s)
      BY <1>3, <2>1, SwitchesBuilt
    <3> QED BY <3>1 DEF Built, Stations
  <2> QED BY <1>4, <1>11, <1>12, <2>1, <2>2, <2>3
<1> QED BY <1>5, <1>6, <1>7, <1>10, <1>12
(* What has been left of the last connection when the next one begins. *)
LEMMA NothingLeft ==
  ASSUME NEW n, Built(n), Faithful(n), n.call = NoCall, n.told.phase = "Idle",
         n.idf.on, ~Due(n, "Start")
  PROVE  /\ ~n.selecting /\ ~n.prepared /\ ~n.attempt /\ ~n.told.leaving
         /\ n.idf.link = "Down" /\ n.told.enabled /\ ~Due(n, "Stop")
         /\ ~Due(n, "Connected") /\ ~Due(n, "Disconnected")
<1>1. n.told.phase \notin Linked
  BY DEF Linked
<1>2. ~n.selecting /\ ~n.prepared /\ ~n.attempt /\ ~n.told.leaving
  BY <1>1 DEF Faithful, PhaseTells, NoCall
<1>3. /\ n.idf.link = "Down" /\ n.told.enabled /\ ~Due(n, "Stop")
      /\ ~Due(n, "Connected") /\ ~Due(n, "Disconnected")
  BY <1>1 DEF Faithful, LoopTells, Built, Stations
<1> QED BY <1>2, <1>3

(* A connection is configured, and prepared or begun to be selected. *)
LEMMA ConnectFaithful ==
  ASSUME NEW n, Built(n), Faithful(n), n.call = NoCall, n.told.phase = "Idle",
         n.idf.on, ~Due(n, "Start"),
         NEW m,
         Keeps(n, m, {"candidates", "rejected", "config", "secret", "selected",
                      "prepared", "phase", "selecting", "cancelled", "call"}),
         \A i \in DOMAIN m.candidates : NetworkOf[m.candidates[i].ap] = m.config,
         \/ /\ m.prepared /\ m.told.phase = "Prepared" /\ m.call = n.call
            /\ ~m.selecting /\ NetworkOf[m.selected] = m.config
         \/ /\ m.selecting /\ m.call.kind = "select" /\ ~m.prepared
            /\ m.told.phase = "Idle" /\ m.config \in Networks
            /\ ~n.scan_active
  PROVE  Faithful(m)
<1>1. /\ ~n.selecting /\ ~n.prepared /\ ~n.attempt /\ ~n.told.leaving
      /\ n.idf.link = "Down" /\ n.told.enabled /\ ~Due(n, "Stop")
      /\ ~Due(n, "Connected") /\ ~Due(n, "Disconnected")
  BY NothingLeft
<1>2. /\ m.idf.loop = n.idf.loop /\ m.idf.link = "Down" /\ m.idf.on
      /\ m.told.enabled /\ ~m.told.leaving /\ ~m.attempt
      /\ m.idf.scanning = n.idf.scanning /\ m.scan_active = n.scan_active
  BY <1>1 DEF Keeps
<1>3. \A k : Due(m, k) <=> Due(n, k)
  BY <1>2 DEF Due
<1>4. LoopTells(m)
  BY <1>1, <1>2, <1>3 DEF Faithful, LoopTells
<1>5. PhaseTells(m)
  BY <1>1, <1>2 DEF PhaseTells, Begins, NoCall
<1>6. ScanIsOne(m)
  BY <1>1, <1>2, <1>3 DEF Faithful, ScanIsOne, NoCall
<1>7. AttemptIsOwn(m)
  BY <1>2 DEF AttemptIsOwn
<1>8. \A e \in Range(m.idf.loop) : e.kind \notin {"Connected", "Disconnected"}
  BY <1>1, <1>3 DEF Due
<1>9. NetworkIsOwn(m)
  BY <1>2, <1>8 DEF NetworkIsOwn, NoCall
<1> QED BY <1>4, <1>5, <1>6, <1>7, <1>9 DEF Faithful

(* What connect() may do: refuse, prepare the best of the candidates it    *)
(* has, or begin a scan for others.                                        *)
LEMMA ConnectIs ==
  ASSUME NEW n, Built(n), Faithful(n), n.call = NoCall, n.told.phase = "Idle",
         n.idf.on, ~Due(n, "Start"),
         NEW network \in Networks, NEW secret \in Ssid,
         NEW o \in connect(n, network, secret)
  PROVE  /\ Faithful(o.native)
         /\ \/ o = Answer("Busy", n)
            \/ /\ o.answer = "Ok"
               /\ o.posts = <<Event("Prepared", NoNetwork, "Ok")>>
               /\ Keeps(n, o.native,
                        {"candidates", "rejected", "config", "secret",
                         "selected", "prepared", "phase"})
               /\ o.native.prepared /\ o.native.told.phase = "Prepared"
               /\ o.native.config = network /\ o.native.secret = secret
            \/ /\ o.answer \in {"Ok", "ConnectionFailed"} /\ o.posts = <<>>
               /\ Keeps(n, o.native,
                        {"candidates", "rejected", "config", "secret",
                         "selecting", "cancelled", "call"})
               /\ o.native.selecting
               /\ o.native.call = [kind |-> "select", answer |-> o.answer]
               /\ o.native.config = network /\ o.native.secret = secret
<1>1. PICK c : c = Configured(n, network, secret)
  OBVIOUS
<1>2. network \in Ssid
  BY DEF Ssid
<1>3. /\ Keeps(n, c, {"candidates", "rejected", "config", "secret"})
      /\ c.config = network /\ c.secret = secret
      /\ c.candidates = IF n.config = network THEN n.candidates ELSE <<>>
  BY <1>1 DEF Configured, Keeps, Built, Stations
<1>4. c \in Stations
  BY <1>1, <1>2, Candidateless DEF Configured, Built, Stations
<1>5. \A i \in DOMAIN c.candidates : NetworkOf[c.candidates[i].ap] = network
  BY <1>3 DEF Faithful, NetworkIsOwn
<1>6. ASSUME NEW m \in Later(c)
      PROVE  /\ m \in Stations
             /\ Keeps(n, m, {"candidates", "rejected", "config", "secret"})
             /\ m.config = network /\ m.secret = secret
             /\ \A i \in DOMAIN m.candidates :
                  NetworkOf[m.candidates[i].ap] = network
  <2>1. PICK fresh \in BOOLEAN : \E cs :
          /\ m = [c EXCEPT !.fresh = fresh, !.candidates = cs]
          /\ Regarded(c.candidates, cs)
          /\ \A i \in DOMAIN cs : cs[i].failures = c.candidates[i].failures
    BY <1>4, LaterIs
  <2>2. PICK cs : /\ m = [c EXCEPT !.fresh = fresh, !.candidates = cs]
                  /\ Regarded(c.candidates, cs)
    BY <2>1
  <2>3. Keeps(c, m, {"candidates"}) /\ m.candidates = cs
    BY <1>4, <2>2 DEF Keeps, Stations
  <2>4. m \in Stations
    BY <1>4, <2>2 DEF Regarded, Stations
  <2>5. Keeps(n, m, {"candidates", "rejected", "config", "secret"})
    BY <1>3, <2>3 DEF Keeps
  <2>6. \A i \in DOMAIN m.candidates : NetworkOf[m.candidates[i].ap] = network
    BY <1>5, <2>2, <2>3 DEF Regarded
  <2>7. m.config = network /\ m.secret = secret
    BY <1>3, <2>3 DEF Keeps
  <2> QED BY <2>4, <2>5, <2>6, <2>7
<1>7. \/ o = Answer("Busy", n)
      \/ \E m \in Later(c) :
           /\ Eligible(m) # {}
           /\ o = AnswerPosting("Ok",
                    [selectCandidate(m) EXCEPT !.told.phase = "Prepared"],
                    Event("Prepared", NoNetwork, "Ok"))
      \/ /\ ~n.scan_active
         /\ \E m \in Later(c), st \in VendorAnswers(n) :
              o = Calling([m EXCEPT !.selecting = TRUE, !.cancelled = FALSE],
                          "select", st)
  <2> DEFINE asked == Later(c)
             known == {m \in asked : m.fresh /\ Eligible(m) # {}}
             select(m) == [m EXCEPT !.selecting = TRUE, !.cancelled = FALSE]
  <2>1. \/ o = Answer("Busy", n)
        \/ o \in {AnswerPosting("Ok",
                     [selectCandidate(m) EXCEPT !.told.phase = "Prepared"],
                     Event("Prepared", NoNetwork, "Ok")) : m \in known}
        \/ /\ ~n.scan_active
           /\ o \in UNION {{Calling(select(m), "select", answer) :
                             answer \in VendorAnswers(n)} :
                               m \in asked \ known}
    BY <1>1, Zenon DEF connect
  <2>2. CASE o = Answer("Busy", n)
    BY <2>2
  <2>3. CASE o \in {AnswerPosting("Ok",
                     [selectCandidate(m) EXCEPT !.told.phase = "Prepared"],
                     Event("Prepared", NoNetwork, "Ok")) : m \in known}
    BY <2>3, Zenon
  <2>4. CASE /\ ~n.scan_active
             /\ o \in UNION {{Calling(select(m), "select", answer) :
                               answer \in VendorAnswers(n)} :
                                 m \in asked \ known}
    BY <2>4, Zenon
  <2> QED BY <2>1, <2>2, <2>3, <2>4, Zenon
<1>8. CASE o = Answer("Busy", n)
  BY <1>8 DEF Answer
<1>9. ASSUME NEW m \in Later(c), Eligible(m) # {},
             o = AnswerPosting("Ok",
                   [selectCandidate(m) EXCEPT !.told.phase = "Prepared"],
                   Event("Prepared", NoNetwork, "Ok"))
      PROVE  /\ Faithful(o.native)
             /\ o.answer = "Ok"
             /\ o.posts = <<Event("Prepared", NoNetwork, "Ok")>>
             /\ Keeps(n, o.native,
                      {"candidates", "rejected", "config", "secret",
                       "selected", "prepared", "phase"})
             /\ o.native.prepared /\ o.native.told.phase = "Prepared"
             /\ o.native.config = network /\ o.native.secret = secret
  <2>1. PICK i \in DOMAIN m.candidates : \E cs :
          /\ i \in Eligible(m) /\ \A j \in Eligible(m) : i <= j
          /\ selectCandidate(m) = [m EXCEPT !.candidates = cs,
                                            !.selected = m.candidates[i].ap,
                                            !.prepared = TRUE]
          /\ Regarded(m.candidates, cs)
          /\ \A j \in DOMAIN cs : cs[j].failures <= m.candidates[j].failures
    BY <1>6, <1>9, SelectIs
  <2>2. PICK cs :
          /\ selectCandidate(m) = [m EXCEPT !.candidates = cs,
                                            !.selected = m.candidates[i].ap,
                                            !.prepared = TRUE]
          /\ Regarded(m.candidates, cs)
    BY <2>1
  <2>3. PICK s : s = [selectCandidate(m) EXCEPT !.told.phase = "Prepared"]
    OBVIOUS
  <2>4. /\ Keeps(m, s, {"candidates", "selected", "prepared", "phase"})
        /\ s.candidates = cs /\ s.selected = m.candidates[i].ap
        /\ s.prepared /\ s.told.phase = "Prepared"
    <3>1. PICK ap : ap = m.candidates[i].ap
      OBVIOUS
    <3>2. s = [m EXCEPT !.candidates = cs, !.selected = ap, !.prepared = TRUE,
                        !.told.phase = "Prepared"]
      BY <2>2, <2>3, <3>1, Zenon
    <3>3. m \in Stations
      BY <1>6
    <3>4. /\ Keeps(m, s, {"candidates", "selected", "prepared", "phase"})
          /\ s.candidates = cs /\ s.selected = ap
          /\ s.prepared /\ s.told.phase = "Prepared"
      <4>1. Keeps(m, s, {"candidates", "selected", "prepared", "phase"})
        BY <3>2, <3>3 DEF Keeps, Stations
      <4>2. s.candidates = cs /\ s.selected = ap /\ s.told.phase = "Prepared"
        BY <3>2, <3>3 DEF Stations
      <4>3. s.prepared
        BY <3>2, <3>3 DEF Stations
      <4> QED BY <4>1, <4>2, <4>3
    <3> QED BY <3>1, <3>4, Zenon
  <2>5. /\ Keeps(n, s, {"candidates", "rejected", "config", "secret",
                        "selected", "prepared", "phase"})
        /\ s.config = network /\ s.secret = secret
    BY <1>6, <2>4 DEF Keeps
  <2>6. \A j \in DOMAIN s.candidates : NetworkOf[s.candidates[j].ap] = s.config
    BY <1>6, <2>2, <2>4, <2>5 DEF Regarded
  <2>7. NetworkOf[s.selected] = s.config
    BY <1>6, <2>4, <2>5
  <2>8. s.call = n.call /\ s.selecting = n.selecting
    BY <2>5 DEF Keeps
  <2>9. ~n.selecting
    BY NothingLeft
  <2>10. Keeps(n, s, {"candidates", "rejected", "config", "secret", "selected",
                      "prepared", "phase", "selecting", "cancelled", "call"})
    BY <2>5 DEF Keeps
  <2>11. Faithful(s)
    BY <2>4, <2>6, <2>7, <2>8, <2>9, <2>10, ConnectFaithful
  <2>12. /\ o.native = s /\ o.answer = "Ok"
         /\ o.posts = <<Event("Prepared", NoNetwork, "Ok")>>
    BY <1>9, <2>3 DEF AnswerPosting
  <2> QED BY <2>4, <2>5, <2>11, <2>12
<1>10. ASSUME NEW m \in Later(c), NEW st \in VendorAnswers(n), ~n.scan_active,
              o = Calling([m EXCEPT !.selecting = TRUE, !.cancelled = FALSE],
                          "select", st)
       PROVE  /\ Faithful(o.native)
              /\ o.answer \in {"Ok", "ConnectionFailed"} /\ o.posts = <<>>
              /\ Keeps(n, o.native,
                       {"candidates", "rejected", "config", "secret",
                        "selecting", "cancelled", "call"})
              /\ o.native.selecting
              /\ o.native.call = [kind |-> "select", answer |-> o.answer]
              /\ o.native.config = network /\ o.native.secret = secret
  <2>1. PICK l : l = [m EXCEPT !.selecting = TRUE, !.cancelled = FALSE]
    OBVIOUS
  <2>2. PICK d : d = [l EXCEPT !.call = [kind |-> "select", answer |-> st]]
    OBVIOUS
  <2>3. o.native = d /\ o.answer = st /\ o.posts = <<>>
    BY <1>10, <2>1, <2>2 DEF Calling, Answer
  <2>4. /\ Keeps(m, d, {"selecting", "cancelled", "call"}) /\ d.selecting
        /\ d.call = [kind |-> "select", answer |-> st]
    BY <1>6, <2>1, <2>2 DEF Keeps, Stations
  <2>5. /\ Keeps(n, d, {"candidates", "rejected", "config", "secret",
                        "selecting", "cancelled", "call"})
        /\ d.config = network /\ d.secret = secret
        /\ d.candidates = m.candidates
    BY <1>6, <2>4 DEF Keeps
  <2>6. /\ d.call.kind = "select" /\ d.prepared = n.prepared
        /\ d.told.phase = n.told.phase
    BY <2>4, <2>5 DEF Keeps
  <2>7. ~n.prepared
    BY NothingLeft
  <2>8. \A j \in DOMAIN d.candidates : NetworkOf[d.candidates[j].ap] = d.config
    BY <1>6, <2>5
  <2>9. Keeps(n, d, {"candidates", "rejected", "config", "secret", "selected",
                     "prepared", "phase", "selecting", "cancelled", "call"})
    BY <2>5 DEF Keeps
  <2>10. Faithful(d)
    BY <1>10, <2>4, <2>5, <2>6, <2>7, <2>8, <2>9, ConnectFaithful
  <2>11. st \in {"Ok", "ConnectionFailed"}
    BY <1>10 DEF VendorAnswers
  <2> QED BY <2>3, <2>4, <2>5, <2>10, <2>11
<1> QED BY <1>7, <1>8, <1>9, <1>10
(* A command may mark the connection as left, once it cannot be prepared,  *)
(* and its scan as cancelled.                                              *)
LEMMA LeftFaithful ==
  ASSUME NEW n, Built(n), Faithful(n), NEW m,
         Keeps(n, m, {"attempt", "cancelled", "leaving"}),
         \/ m.attempt = n.attempt
         \/ ~m.attempt /\ n.call = NoCall,
         n.cancelled => m.cancelled,
         \/ m.told.leaving = n.told.leaving
         \/ /\ m.told.leaving => m.told.phase \notin {"Idle", "Prepared"}
            /\ m.told.leaving /\ m.selecting => m.cancelled
            /\ ~Due(n, "Stop")
  PROVE  Faithful(m)
<1>1. \A k : Due(m, k) <=> Due(n, k)
  BY DEF Keeps, Due
<1>2. LoopTells(m)
  BY <1>1 DEF Faithful, LoopTells, Keeps
<1>3. PhaseTells(m)
  BY DEF Faithful, PhaseTells, Keeps, Begins, NoCall
<1>4. ScanIsOne(m)
  BY <1>1 DEF Faithful, ScanIsOne, Keeps
<1>5. AttemptIsOwn(m) /\ NetworkIsOwn(m)
  BY DEF Faithful, AttemptIsOwn, NetworkIsOwn, Keeps
<1> QED BY <1>2, <1>3, <1>4, <1>5 DEF Faithful

(* What is known of a station prepared to join, and of its loop. *)
LEMMA PreparedIs ==
  ASSUME NEW n, Built(n), Faithful(n), n.prepared
  PROVE  /\ n.told.phase = "Prepared" /\ n.told.phase \notin Linked
         /\ ~n.selecting /\ ~n.attempt /\ ~n.told.leaving
         /\ n.call.kind \notin {"join", "select"} /\ n.told.enabled
         /\ n.idf.link = "Down" /\ n.idf.on
         /\ ~Due(n, "Connected") /\ ~Due(n, "Disconnected")
         /\ ~Due(n, "Start") /\ ~Due(n, "Stop")
<1>1. n.told.phase = "Prepared" /\ n.call.kind # "join"
  BY DEF Faithful, PhaseTells
<1>2. n.told.phase \notin Linked
  BY <1>1 DEF Linked
<1>3. n.call.kind # "select" /\ ~n.selecting /\ ~n.told.leaving /\ n.told.enabled
  BY <1>1 DEF Faithful, PhaseTells
<1>4. ~n.attempt
  BY <1>1, <1>2 DEF Faithful, PhaseTells
<1>5. ~Due(n, "Start") /\ ~Due(n, "Stop")
  BY <1>3 DEF Faithful, LoopTells
<1>6. n.idf.on
  BY <1>3, <1>5 DEF Faithful, LoopTells, Built, Stations
<1>7. /\ n.idf.link = "Down"
      /\ ~Due(n, "Connected") /\ ~Due(n, "Disconnected")
  BY <1>1, <1>2 DEF Faithful, LoopTells
<1> QED BY <1>1, <1>2, <1>3, <1>4, <1>5, <1>6, <1>7

(* What has been prepared is given up. *)
LEMMA UnpreparedFaithful ==
  ASSUME NEW n, Built(n), Faithful(n), n.call = NoCall, n.prepared, NEW m,
         Keeps(n, m, {"attempt", "prepared", "secret", "phase"}),
         m.attempt => n.attempt, ~m.prepared, m.told.phase = "Idle"
  PROVE  Faithful(m)
<1>1. /\ n.told.phase = "Prepared" /\ n.told.phase \notin Linked
      /\ ~n.selecting /\ ~n.attempt /\ ~n.told.leaving
      /\ n.idf.link = "Down"
      /\ ~Due(n, "Connected") /\ ~Due(n, "Disconnected")
  BY PreparedIs
<1>2. /\ m.idf.loop = n.idf.loop /\ m.idf.link = "Down" /\ ~m.attempt
      /\ ~m.selecting /\ ~m.told.leaving /\ m.call = NoCall
  BY <1>1 DEF Keeps
<1>3. \A k : Due(m, k) <=> Due(n, k)
  BY <1>2 DEF Due
<1>4. LoopTells(m)
  BY <1>1, <1>2, <1>3 DEF Faithful, LoopTells, Keeps
<1>5. PhaseTells(m)
  BY <1>2 DEF PhaseTells, Begins, NoCall
<1>6. ScanIsOne(m)
  BY <1>3 DEF Faithful, ScanIsOne, Keeps
<1>7. AttemptIsOwn(m) /\ NetworkIsOwn(m)
  BY <1>2 DEF Faithful, AttemptIsOwn, NetworkIsOwn, Keeps, NoCall
<1> QED BY <1>4, <1>5, <1>6, <1>7 DEF Faithful

(* disconnect() gives up what is prepared, or leaves the link there is. *)
LEMMA DisconnectIs ==
  ASSUME NEW n, Built(n), Faithful(n), n.call = NoCall, ~Due(n, "Stop"),
         NEW o \in disconnect(n)
  PROVE  /\ Faithful(o.native) /\ o.posts = <<>>
         /\ \/ /\ o.answer = "NotFound" /\ n.prepared /\ ~o.native.prepared
               /\ o.native.told.phase = "Idle"
               /\ Keeps(n, o.native, {"attempt", "prepared", "secret", "phase"})
            \/ /\ o.answer = "ConnectionFailed"
               /\ Keeps(n, o.native, {"attempt", "cancelled"})
            \/ /\ o.answer = "Ok" /\ ~n.prepared
               /\ Keeps(n, o.native,
                        {"attempt", "cancelled", "leaving", "scanning", "link",
                         "ap", "loop"})
               /\ \A k : k \notin {"ScanDone", "Disconnected"} =>
                    (Due(o.native, k) <=> Due(n, k))
               /\ o.native.told.leaving = (n.told.phase # "Idle")
<1>1. PICK m : m = Abandoning(n)
  OBVIOUS
<1>2. PICK leaving \in BOOLEAN : leaving = (n.told.phase # "Idle")
  OBVIOUS
<1>3. PICK l : l = [m EXCEPT !.told.leaving = leaving]
  OBVIOUS
<1>4. Built(m) /\ Built(l)
  BY <1>1, <1>2, <1>3, AbandoningBuilt, LeavingBuilt
<1>5. l = [m EXCEPT !.told.leaving = n.told.phase # "Idle"]
  BY <1>2, <1>3
<1>6. Keeps(n, m, {"attempt"}) /\ ~m.attempt
  <2>1. Keeps(n, m, {"attempt"})
    BY <1>1 DEF Abandoning, Keeps, Built, Stations
  <2>2. ~m.attempt
    BY <1>1 DEF Abandoning, Built, Stations
  <2> QED BY <2>1, <2>2
<1>7. Keeps(m, l, {"leaving"}) /\ l.told.leaving = leaving
  BY <1>3, <1>4 DEF Keeps, Built, Stations
<1>8. Keeps(n, l, {"attempt", "leaving"}) /\ ~l.attempt
  BY <1>6, <1>7 DEF Keeps
<1>9. n.prepared \in BOOLEAN /\ n.selecting \in BOOLEAN
  BY DEF Built, Stations
<1>10. \/ /\ n.prepared
          /\ o = Answer("NotFound", [m EXCEPT !.prepared = FALSE,
                                              !.secret = NoNetwork,
                                              !.told.phase = "Idle"])
       \/ /\ ~n.prepared /\ n.selecting
          /\ \/ o = Answer("ConnectionFailed", Cancelled(m))
             \/ o = Answer("Ok", ScanStops(Cancelled(l)))
       \/ /\ ~n.prepared /\ ~n.selecting
          /\ \/ o = Answer("ConnectionFailed", m)
             \/ o = Answer("Ok", Leaves(l))
  BY <1>1, <1>5, <1>9 DEF disconnect
<1>11. ASSUME NEW a, Built(a)
       PROVE  /\ Built(Cancelled(a)) /\ Keeps(a, Cancelled(a), {"cancelled"})
              /\ Cancelled(a).cancelled
  <2>1. PICK c : c = Cancelled(a)
    OBVIOUS
  <2>2. Keeps(a, c, {"cancelled"})
    BY <1>11, <2>1 DEF Cancelled, Keeps, Built, Stations
  <2>3. c.cancelled
    BY <1>11, <2>1 DEF Cancelled, Built, Stations
  <2> QED BY <1>11, <2>1, <2>2, <2>3, CancelledBuilt
<1>12. ~n.prepared /\ leaving => n.told.phase \notin {"Idle", "Prepared"}
  <2>1. n.told.phase = "Prepared" => n.prepared
    BY DEF Faithful, PhaseTells, NoCall
  <2>2. leaving => n.told.phase # "Idle"
    BY <1>2
  <2> QED BY <2>1, <2>2
<1>13. CASE /\ n.prepared
            /\ o = Answer("NotFound", [m EXCEPT !.prepared = FALSE,
                                                !.secret = NoNetwork,
                                                !.told.phase = "Idle"])
  <2>1. PICK u : u = [m EXCEPT !.prepared = FALSE, !.secret = NoNetwork,
                               !.told.phase = "Idle"]
    OBVIOUS
  <2>2. Keeps(m, u, {"prepared", "secret", "phase"})
    BY <1>4, <2>1 DEF Keeps, Built, Stations
  <2>3. ~u.prepared
    BY <1>4, <2>1 DEF Built, Stations
  <2>4. u.told.phase = "Idle"
    BY <1>4, <2>1 DEF Built, Stations
  <2>5. Keeps(n, u, {"attempt", "prepared", "secret", "phase"}) /\ ~u.attempt
    BY <1>6, <2>2 DEF Keeps
  <2>6. Faithful(u)
    BY <1>13, <2>3, <2>4, <2>5, UnpreparedFaithful
  <2>7. o.native = u /\ o.answer = "NotFound" /\ o.posts = <<>>
    BY <1>13, <2>1 DEF Answer
  <2> QED BY <1>13, <2>3, <2>4, <2>5, <2>6, <2>7
<1>14. CASE o = Answer("ConnectionFailed", Cancelled(m))
  <2>1. PICK c : c = Cancelled(m)
    OBVIOUS
  <2>2. Keeps(m, c, {"cancelled"}) /\ c.cancelled
    BY <1>4, <1>11, <2>1
  <2>3. Keeps(n, c, {"attempt", "cancelled"}) /\ ~c.attempt
    BY <1>6, <2>2 DEF Keeps
  <2>4. /\ Keeps(n, c, {"attempt", "cancelled", "leaving"})
        /\ c.told.leaving = n.told.leaving
    BY <2>3 DEF Keeps
  <2>5. Faithful(c)
    BY <2>2, <2>3, <2>4, LeftFaithful
  <2>6. o.native = c /\ o.answer = "ConnectionFailed" /\ o.posts = <<>>
    BY <1>14, <2>1 DEF Answer
  <2> QED BY <2>3, <2>5, <2>6
<1>15. CASE ~n.prepared /\ o = Answer("Ok", ScanStops(Cancelled(l)))
  <2>1. PICK c : c = Cancelled(l)
    OBVIOUS
  <2>2. Built(c) /\ Keeps(l, c, {"cancelled"}) /\ c.cancelled
    BY <1>4, <1>11, <2>1
  <2>3. /\ Keeps(n, c, {"attempt", "cancelled", "leaving"}) /\ ~c.attempt
        /\ c.told.leaving = leaving /\ c.told.phase = n.told.phase
        /\ c.idf.loop = n.idf.loop
    BY <1>7, <1>8, <2>2 DEF Keeps
  <2>4. Faithful(c)
    BY <1>12, <1>15, <2>2, <2>3, LeftFaithful
  <2>5. PICK s : s = ScanStops(c)
    OBVIOUS
  <2>6. /\ Faithful(s) /\ Keeps(c, s, {"scanning", "loop"})
        /\ \A k : k # "ScanDone" => (Due(s, k) <=> Due(c, k))
    BY <2>2, <2>4, <2>5, ScanStopsFaithful
  <2>7. \A k : Due(c, k) <=> Due(n, k)
    BY <2>3 DEF Due
  <2>8. /\ Keeps(n, s, {"attempt", "cancelled", "leaving", "scanning", "link",
                        "ap", "loop"})
        /\ s.told.leaving = leaving
    BY <2>3, <2>6 DEF Keeps
  <2>9. o.native = s /\ o.answer = "Ok" /\ o.posts = <<>>
    BY <1>15, <2>1, <2>5 DEF Answer
  <2> QED BY <1>2, <1>15, <2>6, <2>7, <2>8, <2>9
<1>16. CASE o = Answer("ConnectionFailed", m)
  <2>1. /\ Keeps(n, m, {"attempt", "cancelled", "leaving"})
        /\ Keeps(n, m, {"attempt", "cancelled"})
        /\ m.told.leaving = n.told.leaving /\ m.cancelled = n.cancelled
    BY <1>6 DEF Keeps
  <2>2. Faithful(m)
    BY <1>6, <2>1, LeftFaithful
  <2> QED BY <1>16, <2>1, <2>2 DEF Answer
<1>17. CASE ~n.prepared /\ ~n.selecting /\ o = Answer("Ok", Leaves(l))
  <2>1. /\ Keeps(n, l, {"attempt", "cancelled", "leaving"})
        /\ l.cancelled = n.cancelled /\ l.told.phase = n.told.phase
        /\ ~l.selecting /\ l.idf.loop = n.idf.loop
    BY <1>8, <1>17 DEF Keeps
  <2>2. Faithful(l)
    BY <1>7, <1>8, <1>12, <1>17, <2>1, LeftFaithful
  <2>3. PICK s : s = Leaves(l)
    OBVIOUS
  <2>4. /\ Faithful(s) /\ Keeps(l, s, {"link", "ap", "loop"})
        /\ \A k : k # "Disconnected" => (Due(s, k) <=> Due(l, k))
    BY <1>4, <1>8, <2>2, <2>3, LeavesFaithful
  <2>5. \A k : Due(l, k) <=> Due(n, k)
    BY <2>1 DEF Due
  <2>6. /\ Keeps(n, s, {"attempt", "cancelled", "leaving", "scanning", "link",
                        "ap", "loop"})
        /\ s.told.leaving = leaving
    BY <1>7, <2>1, <2>4 DEF Keeps
  <2>7. o.native = s /\ o.answer = "Ok" /\ o.posts = <<>>
    BY <1>17, <2>3 DEF Answer
  <2> QED BY <1>2, <1>17, <2>4, <2>5, <2>6, <2>7
<1> QED BY <1>10, <1>13, <1>14, <1>15, <1>16, <1>17

(* Candidates and scan of an attempt do not mix with a scan of the user. *)
LEMMA ScanningFaithful ==
  ASSUME NEW n, Built(n), Faithful(n), n.call = NoCall,
         ~n.selecting, ~n.scan_active, NEW m,
         Keeps(n, m, {"scan_active", "cancelled", "call"}),
         m.call.kind = "scan", m.scan_active
  PROVE  Faithful(m)
<1>1. /\ m.idf.loop = n.idf.loop /\ ~m.selecting
      /\ m.told.phase = n.told.phase /\ m.attempt = n.attempt
  BY DEF Keeps
<1>2. \A k : Due(m, k) <=> Due(n, k)
  BY <1>1 DEF Due
<1>3. LoopTells(m)
  BY <1>2 DEF Faithful, LoopTells, Keeps
<1>4. PhaseTells(m)
  BY DEF Faithful, PhaseTells, Keeps, Begins, NoCall
<1>5. ScanIsOne(m)
  BY <1>2 DEF Faithful, ScanIsOne, Keeps
<1>6. AttemptIsOwn(m) /\ NetworkIsOwn(m)
  BY DEF Faithful, AttemptIsOwn, NetworkIsOwn, Keeps, NoCall
<1> QED BY <1>3, <1>4, <1>5, <1>6 DEF Faithful

LEMMA ScanIs ==
  ASSUME NEW n, Built(n), Faithful(n), n.call = NoCall, NEW o \in scan(n)
  PROVE  /\ Faithful(o.native)
         /\ \/ o.native = n /\ o.answer # "Ok"
            \/ /\ Keeps(n, o.native, {"scan_active", "cancelled", "call"})
               /\ ~n.scan_active /\ o.native.call.kind = "scan"
<1>1. \/ o = Answer("Busy", n)
      \/ /\ ~n.selecting /\ ~n.scan_active
         /\ \E answer \in VendorAnswers(n) :
              o = Calling([n EXCEPT !.scan_active = TRUE, !.cancelled = FALSE],
                          "scan", answer)
  BY DEF scan
<1>2. CASE o = Answer("Busy", n)
  BY <1>2 DEF Answer
<1>3. ASSUME ~n.selecting, ~n.scan_active, NEW answer,
             o = Calling([n EXCEPT !.scan_active = TRUE, !.cancelled = FALSE],
                         "scan", answer)
      PROVE  /\ Faithful(o.native)
             /\ Keeps(n, o.native, {"scan_active", "cancelled", "call"})
             /\ o.native.call.kind = "scan"
  <2>1. PICK s : s = [n EXCEPT !.scan_active = TRUE, !.cancelled = FALSE]
    OBVIOUS
  <2>2. PICK call : call = [kind |-> "scan", answer |-> answer]
    OBVIOUS
  <2>3. PICK m : m = [s EXCEPT !.call = call]
    OBVIOUS
  <2>4. Keeps(n, m, {"scan_active", "cancelled", "call"})
    BY <2>1, <2>3 DEF Keeps, Built, Stations
  <2>5. m.scan_active
    BY <2>1, <2>3 DEF Built, Stations
  <2>6. m.call = call /\ call.kind = "scan"
    BY <2>1, <2>2, <2>3 DEF Built, Stations
  <2>7. Faithful(m)
    BY <1>3, <2>4, <2>5, <2>6, ScanningFaithful
  <2>8. o.native = m
    BY <1>3, <2>1, <2>2, <2>3 DEF Calling, Answer
  <2> QED BY <2>4, <2>6, <2>7, <2>8
<1> QED BY <1>1, <1>2, <1>3

LEMMA StopScanIs ==
  ASSUME NEW n, Built(n), Faithful(n), NEW o \in stopScan(n)
  PROVE  /\ Faithful(o.native)
         /\ Keeps(n, o.native, {"cancelled", "scanning", "loop"})
         /\ \A k : k # "ScanDone" => (Due(o.native, k) <=> Due(n, k))
<1>1. PICK c : c = Cancelled(n)
  OBVIOUS
<1>2. Keeps(n, c, {"cancelled"}) /\ c.cancelled
  <2>1. Keeps(n, c, {"cancelled"})
    BY <1>1 DEF Cancelled, Keeps, Built, Stations
  <2>2. c.cancelled
    BY <1>1 DEF Cancelled, Built, Stations
  <2> QED BY <2>1, <2>2
<1>3. /\ Keeps(n, c, {"attempt", "cancelled", "leaving"})
      /\ c.attempt = n.attempt /\ c.told.leaving = n.told.leaving
      /\ c.idf.loop = n.idf.loop
  BY <1>2 DEF Keeps
<1>4. Faithful(c) /\ Built(c)
  BY <1>1, <1>2, <1>3, LeftFaithful, CancelledBuilt
<1>5. \A k : Due(c, k) <=> Due(n, k)
  BY <1>3 DEF Due
<1>6. o.native \in {c, ScanStops(c)}
  BY <1>1 DEF stopScan, Answer
<1>7. PICK s : s = ScanStops(c)
  OBVIOUS
<1>8. /\ Faithful(s) /\ Keeps(c, s, {"scanning", "loop"})
      /\ \A k : k # "ScanDone" => (Due(s, k) <=> Due(c, k))
  BY <1>4, <1>7, ScanStopsFaithful
<1>9. Keeps(n, s, {"cancelled", "scanning", "loop"})
  BY <1>2, <1>8 DEF Keeps
<1>10. Keeps(n, c, {"cancelled", "scanning", "loop"})
  BY <1>2 DEF Keeps
<1> QED BY <1>4, <1>5, <1>6, <1>7, <1>8, <1>9, <1>10

(* What is prepared is about to be joined. *)
LEMMA JoinFaithful ==
  ASSUME NEW n, Built(n), Faithful(n), n.call = NoCall, n.prepared, NEW m,
         Keeps(n, m, {"prepared", "secret", "attempt", "call"}),
         ~m.prepared, m.attempt, m.call.kind = "join"
  PROVE  Faithful(m)
<1>1. /\ n.told.phase = "Prepared" /\ n.told.phase \notin Linked
      /\ ~n.selecting /\ ~n.told.leaving /\ n.told.enabled
      /\ n.idf.link = "Down" /\ n.idf.on
      /\ ~Due(n, "Connected") /\ ~Due(n, "Disconnected")
      /\ ~Due(n, "Start") /\ ~Due(n, "Stop")
  BY PreparedIs
<1>2. /\ m.idf.loop = n.idf.loop /\ m.idf.link = "Down" /\ m.idf.on
      /\ ~m.selecting /\ ~m.told.leaving /\ m.told.enabled
      /\ m.told.phase = "Prepared"
  BY <1>1 DEF Keeps
<1>3. \A k : Due(m, k) <=> Due(n, k)
  BY <1>2 DEF Due
<1>4. LoopTells(m)
  BY <1>1, <1>2, <1>3 DEF Faithful, LoopTells
<1>5. PhaseTells(m)
  BY <1>2 DEF PhaseTells, Begins
<1>6. ScanIsOne(m)
  BY <1>3 DEF Faithful, ScanIsOne, Keeps
<1>7. \A e \in Range(m.idf.loop) : e.kind \notin {"Connected", "Disconnected"}
  BY <1>1, <1>3 DEF Due
<1>8. AttemptIsOwn(m)
  BY <1>2, <1>7 DEF AttemptIsOwn
<1>9. NetworkIsOwn(m)
  BY <1>2, <1>7 DEF Faithful, NetworkIsOwn, Keeps
<1> QED BY <1>4, <1>5, <1>6, <1>8, <1>9 DEF Faithful

LEMMA ContinueIs ==
  ASSUME NEW n, Built(n), Faithful(n), n.call = NoCall,
         NEW o \in continueConnect(n)
  PROVE  /\ Faithful(o.native)
         /\ \/ o = Answer("NotFound", n) /\ ~n.prepared
            \/ /\ o.answer = "ConnectionFailed" /\ n.prepared
               /\ Keeps(n, o.native, {"prepared", "phase", "secret"})
               /\ ~o.native.prepared /\ o.native.told.phase = "Idle"
            \/ /\ o.answer \in {"Ok", "ConnectionFailed"} /\ n.prepared
               /\ Keeps(n, o.native, {"prepared", "secret", "attempt", "call"})
               /\ ~o.native.prepared
               /\ o.native.call = [kind |-> "join", answer |-> o.answer]
<1>1. PICK b : b = [n EXCEPT !.prepared = FALSE]
  OBVIOUS
<1>2. PICK f : f = [b EXCEPT !.told.phase = "Idle"]
  OBVIOUS
<1>3. PICK g : g = [f EXCEPT !.secret = NoNetwork]
  OBVIOUS
<1>4. PICK c : c = [b EXCEPT !.secret = NoNetwork, !.idf.ip = FALSE,
                             !.attempt = TRUE]
  OBVIOUS
<1>5. Keeps(n, b, {"prepared"}) /\ ~b.prepared /\ b \in Stations
  <2>1. Keeps(n, b, {"prepared"})
    BY <1>1 DEF Keeps, Built, Stations
  <2>2. ~b.prepared
    BY <1>1 DEF Built, Stations
  <2>3. b \in Stations
    BY <1>1 DEF Built, Stations
  <2> QED BY <2>1, <2>2, <2>3
<1>6. Keeps(b, f, {"phase"}) /\ f.told.phase = "Idle" /\ f \in Stations
  <2>1. f \in Stations
    BY <1>2, <1>5 DEF Stations, NativePhase
  <2> QED BY <1>2, <1>5, <2>1 DEF Keeps, Stations
<1>7. Keeps(f, g, {"secret"})
  BY <1>3, <1>6 DEF Keeps, Stations
<1>8. Keeps(b, c, {"secret", "attempt"}) /\ c.attempt
  <2>1. Keeps(b, c, {"secret", "attempt"})
    BY <1>4, <1>5 DEF Keeps, Stations
  <2>2. c.attempt
    BY <1>4, <1>5 DEF Stations
  <2> QED BY <2>1, <2>2
<1>9. \/ o = Answer("NotFound", n) /\ ~n.prepared
      \/ n.prepared /\ o = Answer("ConnectionFailed", f)
      \/ n.prepared /\ o = Answer("ConnectionFailed", g)
      \/ /\ n.prepared
         /\ \E st \in VendorAnswers(n) : o = Calling(c, "join", st)
  BY <1>1, <1>2, <1>3, <1>4, Zenon DEF continueConnect
<1>10. CASE o = Answer("NotFound", n) /\ ~n.prepared
  BY <1>10 DEF Answer
<1>11. ASSUME n.prepared, NEW h, h = f \/ h = g,
              o = Answer("ConnectionFailed", h)
       PROVE  /\ Faithful(o.native) /\ o.answer = "ConnectionFailed"
              /\ Keeps(n, o.native, {"prepared", "phase", "secret"})
              /\ ~o.native.prepared /\ o.native.told.phase = "Idle"
  <2>1. /\ Keeps(n, h, {"prepared", "phase", "secret"})
        /\ ~h.prepared /\ h.told.phase = "Idle"
    BY <1>5, <1>6, <1>7, <1>11 DEF Keeps
  <2>2. /\ Keeps(n, h, {"attempt", "prepared", "secret", "phase"})
        /\ h.attempt = n.attempt
    BY <2>1 DEF Keeps
  <2>3. Faithful(h)
    BY <1>11, <2>1, <2>2, UnpreparedFaithful
  <2> QED BY <1>11, <2>1, <2>3 DEF Answer
<1>12. ASSUME n.prepared, NEW st \in VendorAnswers(n),
              o = Calling(c, "join", st)
       PROVE  /\ Faithful(o.native)
              /\ o.answer \in {"Ok", "ConnectionFailed"}
              /\ Keeps(n, o.native, {"prepared", "secret", "attempt", "call"})
              /\ ~o.native.prepared
              /\ o.native.call = [kind |-> "join", answer |-> o.answer]
  <2>1. PICK call : call = [kind |-> "join", answer |-> st]
    OBVIOUS
  <2>2. PICK d : d = [c EXCEPT !.call = call]
    OBVIOUS
  <2>3. Keeps(c, d, {"call"}) /\ d.call = call
    <3>1. c \in Stations
      <4>1. PICK idf : idf = [b.idf EXCEPT !.ip = FALSE]
        OBVIOUS
      <4>2. PICK e : e = [b EXCEPT !.secret = NoNetwork, !.attempt = TRUE]
        OBVIOUS
      <4>3. e \in Stations
        BY <1>5, <4>2 DEF Stations, Ssid
      <4>4. c = [e EXCEPT !.idf = idf]
        BY <1>4, <1>5, <4>1, <4>2 DEF Stations
      <4>5. idf \in [on : BOOLEAN, scanning : BOOLEAN,
                     link : {"Down", "Joining", "Up"}, ap : Aps \cup {NoAp},
                     auth : AuthMode, ip : BOOLEAN, timer : BOOLEAN,
                     loop : Seq(IdfEvents)]
        BY <1>5, <4>1 DEF Stations
      <4> QED BY <4>3, <4>4, <4>5 DEF Stations
    <3> QED BY <2>2, <3>1 DEF Keeps, Stations
  <2>4. /\ Keeps(n, d, {"prepared", "secret", "attempt", "call"})
        /\ ~d.prepared /\ d.attempt
    <3>1. Keeps(n, d, {"prepared", "secret", "attempt", "call"})
      BY <1>5, <1>8, <2>3 DEF Keeps
    <3>2. d.prepared = c.prepared /\ c.prepared = b.prepared
      BY <1>8, <2>3 DEF Keeps
    <3>3. d.attempt = c.attempt
      BY <2>3 DEF Keeps
    <3> QED BY <1>5, <1>8, <3>1, <3>2, <3>3
  <2>5. d.call.kind = "join"
    BY <2>1, <2>3
  <2>6. Faithful(d)
    BY <1>12, <2>4, <2>5, JoinFaithful
  <2>7. o.native = d /\ o.answer = st
    BY <1>12, <2>1, <2>2 DEF Calling, Answer
  <2>8. st \in {"Ok", "ConnectionFailed"}
    BY VendorAnswersSane
  <2> QED BY <2>1, <2>3, <2>4, <2>6, <2>7, <2>8
<1> QED BY <1>9, <1>10, <1>11, <1>12
-----------------------------------------------------------------------------
(* What a vendor call leaves of the driver when it returns *)

(* A scan of the user begins, or could not. *)
LEMMA ScanReturnedFaithful ==
  ASSUME NEW n, Built(n), Faithful(n), n.call.kind = "scan", NEW m,
         m.call = NoCall,
         \/ Keeps(n, m, {"scanning", "call"})
         \/ Keeps(n, m, {"scan_active", "call"}) /\ m.scan_active = FALSE
  PROVE  Faithful(m)
<1>1. m.idf.loop = n.idf.loop
  BY DEF Keeps
<1>2. \A k : Due(m, k) <=> Due(n, k)
  BY <1>1 DEF Due
<1>3. LoopTells(m)
  BY <1>2 DEF Faithful, LoopTells, Keeps
<1>4. PhaseTells(m)
  BY DEF Faithful, PhaseTells, Keeps, Begins, NoCall
<1>5. ~n.idf.scanning /\ ~Due(n, "ScanDone") /\ n.scan_active
  BY DEF Faithful, ScanIsOne
<1>6. ScanIsOne(m)
  <2>1. CASE Keeps(n, m, {"scanning", "call"})
    <3>1. m.call.kind = "None" /\ ~Due(m, "ScanDone")
      BY <1>2, <1>5, <2>1 DEF NoCall
    <3>2. m.scan_active = n.scan_active
      BY <2>1 DEF Keeps
    <3> QED BY <1>5, <3>1, <3>2 DEF ScanIsOne
  <2>2. CASE Keeps(n, m, {"scan_active", "call"}) /\ m.scan_active = FALSE
    <3>1. m.call.kind = "None" /\ ~Due(m, "ScanDone") /\ ~m.idf.scanning
      BY <1>2, <1>5, <2>2 DEF Keeps, NoCall
    <3> QED BY <3>1 DEF ScanIsOne
  <2> QED BY <2>1, <2>2
<1>7. AttemptIsOwn(m) /\ NetworkIsOwn(m)
  BY DEF Faithful, AttemptIsOwn, NetworkIsOwn, Keeps, NoCall
<1> QED BY <1>3, <1>4, <1>6, <1>7 DEF Faithful

(* What is known while a selection is about to begin. *)
LEMMA SelectCallIs ==
  ASSUME NEW n, Built(n), Faithful(n), n.call.kind = "select"
  PROVE  /\ n.told.phase = "Idle" /\ n.told.phase \notin Linked
         /\ n.selecting /\ ~n.prepared /\ ~n.attempt /\ ~n.told.leaving
         /\ n.idf.link = "Down" /\ ~n.idf.scanning /\ ~Due(n, "ScanDone")
         /\ ~Due(n, "Connected") /\ ~Due(n, "Disconnected") /\ ~Due(n, "Stop")
         /\ n.config \in Networks
<1>1. n.told.phase = "Idle" /\ n.selecting
  BY DEF Faithful, PhaseTells
<1>2. n.told.phase \notin Linked
  BY <1>1 DEF Linked
<1>3. ~n.prepared /\ ~n.attempt /\ ~n.told.leaving
  BY <1>1, <1>2 DEF Faithful, PhaseTells
<1>4. /\ n.idf.link = "Down"
      /\ ~Due(n, "Connected") /\ ~Due(n, "Disconnected") /\ ~Due(n, "Stop")
  BY <1>1, <1>2 DEF Faithful, LoopTells
<1>5. ~n.idf.scanning /\ ~Due(n, "ScanDone")
  BY DEF Faithful, ScanIsOne
<1>6. n.config \in Networks
  BY <1>1 DEF Faithful, NetworkIsOwn
<1> QED BY <1>1, <1>2, <1>3, <1>4, <1>5, <1>6

(* A selection begins, or could not. *)
LEMMA SelectReturnedFaithful ==
  ASSUME NEW n, Built(n), Faithful(n), n.call.kind = "select", NEW m,
         m.call = NoCall,
         \/ /\ Keeps(n, m, {"scanning", "phase", "call"})
            /\ m.told.phase = "Selecting" /\ n.call.answer = "Ok"
         \/ Keeps(n, m, {"selecting", "secret", "call"}) /\ m.selecting = FALSE
  PROVE  Faithful(m)
<1>1. /\ n.told.phase = "Idle" /\ n.told.phase \notin Linked
      /\ n.selecting /\ ~n.prepared /\ ~n.attempt /\ ~n.told.leaving
      /\ n.idf.link = "Down" /\ ~n.idf.scanning /\ ~Due(n, "ScanDone")
      /\ ~Due(n, "Connected") /\ ~Due(n, "Disconnected") /\ ~Due(n, "Stop")
  BY SelectCallIs
<1>2. /\ m.idf.loop = n.idf.loop /\ m.idf.link = "Down"
      /\ ~m.prepared /\ ~m.attempt /\ ~m.told.leaving /\ m.idf.on = n.idf.on
      /\ m.told.enabled = n.told.enabled
  BY <1>1 DEF Keeps
<1>3. \A k : Due(m, k) <=> Due(n, k)
  BY <1>2 DEF Due
<1>4. LoopTells(m)
  BY <1>1, <1>2, <1>3 DEF Faithful, LoopTells
<1>5. PhaseTells(m) /\ ScanIsOne(m)
  <2>1. CASE /\ Keeps(n, m, {"scanning", "phase", "call"})
             /\ m.told.phase = "Selecting" /\ n.call.answer = "Ok"
    <3>1. m.selecting /\ n.told.enabled
      BY <1>1, <2>1 DEF Keeps, Faithful, PhaseTells, Begins
    <3>2. PhaseTells(m)
      BY <1>2, <2>1, <3>1 DEF PhaseTells, Begins, NoCall
    <3>3. ScanIsOne(m)
      BY <1>1, <1>3, <3>1 DEF ScanIsOne, NoCall
    <3> QED BY <3>2, <3>3
  <2>2. CASE Keeps(n, m, {"selecting", "secret", "call"}) /\ m.selecting = FALSE
    <3>1. m.told.phase = "Idle" /\ ~m.idf.scanning
      BY <1>1, <2>2 DEF Keeps
    <3>2. PhaseTells(m)
      BY <1>2, <2>2, <3>1 DEF PhaseTells, Begins, NoCall
    <3>3. ScanIsOne(m)
      BY <1>1, <1>3, <3>1 DEF ScanIsOne, NoCall
    <3> QED BY <3>2, <3>3
  <2> QED BY <2>1, <2>2
<1>6. AttemptIsOwn(m)
  BY <1>2 DEF AttemptIsOwn
<1>7. NetworkIsOwn(m)
  BY <1>2 DEF Faithful, NetworkIsOwn, Keeps, NoCall
<1> QED BY <1>4, <1>5, <1>6, <1>7 DEF Faithful

(* What is known while a join is about to begin. *)
LEMMA JoinCallIs ==
  ASSUME NEW n, Built(n), Faithful(n), n.call.kind = "join"
  PROVE  /\ n.told.phase = "Prepared" /\ n.told.phase \notin Linked
         /\ ~n.selecting /\ ~n.prepared /\ n.attempt /\ ~n.told.leaving
         /\ n.told.enabled /\ n.idf.link = "Down"
         /\ ~Due(n, "Connected") /\ ~Due(n, "Disconnected") /\ ~Due(n, "Stop")
         /\ NetworkOf[n.selected] = n.config
<1>1. n.told.phase = "Prepared" /\ n.attempt /\ ~n.prepared
  BY DEF Faithful, PhaseTells
<1>2. n.told.phase \notin Linked
  BY <1>1 DEF Linked
<1>3. ~n.selecting /\ ~n.told.leaving /\ n.told.enabled
  BY <1>1 DEF Faithful, PhaseTells
<1>4. /\ n.idf.link = "Down"
      /\ ~Due(n, "Connected") /\ ~Due(n, "Disconnected") /\ ~Due(n, "Stop")
  BY <1>1, <1>2 DEF Faithful, LoopTells
<1>5. NetworkOf[n.selected] = n.config
  BY DEF Faithful, NetworkIsOwn
<1> QED BY <1>1, <1>2, <1>3, <1>4, <1>5

(* The radio joins the AP that was selected, or could not. *)
LEMMA JoinReturnedFaithful ==
  ASSUME NEW n, Built(n), Faithful(n), n.call.kind = "join", NEW m,
         m.call = NoCall,
         \/ /\ Keeps(n, m, {"link", "ap", "phase", "call"})
            /\ m.told.phase = "Joining" /\ m.idf.link = "Joining"
            /\ m.idf.ap = n.selected /\ n.call.answer = "Ok"
         \/ /\ Keeps(n, m, {"attempt", "candidates", "phase", "call"})
            /\ m.told.phase = "Idle" /\ m.attempt = FALSE
            /\ DOMAIN m.candidates = DOMAIN n.candidates
            /\ \A i \in DOMAIN n.candidates :
                 m.candidates[i].ap = n.candidates[i].ap
  PROVE  Faithful(m)
<1>1. /\ n.told.phase = "Prepared" /\ n.told.phase \notin Linked
      /\ ~n.selecting /\ ~n.prepared /\ n.attempt /\ ~n.told.leaving
      /\ n.told.enabled /\ n.idf.link = "Down"
      /\ ~Due(n, "Connected") /\ ~Due(n, "Disconnected") /\ ~Due(n, "Stop")
      /\ NetworkOf[n.selected] = n.config
  BY JoinCallIs
<1>2. /\ m.idf.loop = n.idf.loop /\ ~m.selecting /\ m.config = n.config
      /\ ~m.prepared /\ ~m.told.leaving /\ m.idf.on = n.idf.on
      /\ m.told.enabled /\ m.idf.scanning = n.idf.scanning
      /\ m.scan_active = n.scan_active
      /\ m.selected = n.selected
  BY <1>1 DEF Keeps
<1>3. \A k : Due(m, k) <=> Due(n, k)
  BY <1>2 DEF Due
<1>4. \A e \in Range(m.idf.loop) : e.kind \notin {"Connected", "Disconnected"}
  BY <1>1, <1>3 DEF Due
<1>5. ScanIsOne(m)
  BY <1>1, <1>2, <1>3 DEF Faithful, ScanIsOne, NoCall
<1>6. CASE /\ Keeps(n, m, {"link", "ap", "phase", "call"})
           /\ m.told.phase = "Joining" /\ m.idf.link = "Joining"
           /\ m.idf.ap = n.selected /\ n.call.answer = "Ok"
  <2>1. m.told.phase \in Linked
    BY <1>6 DEF Linked
  <2>2. LoopTells(m)
    BY <1>1, <1>2, <1>3, <1>6, <2>1 DEF Faithful, LoopTells
  <2>3. PhaseTells(m)
    BY <1>2, <1>6, <2>1 DEF PhaseTells, Begins, NoCall
  <2>4. AttemptIsOwn(m)
    BY <1>2, <1>4, <1>6 DEF AttemptIsOwn
  <2>5. m.candidates = n.candidates
    BY <1>6 DEF Keeps
  <2>6. NetworkIsOwn(m)
    BY <1>1, <1>2, <1>4, <1>6, <2>5 DEF Faithful, NetworkIsOwn, NoCall
  <2> QED BY <1>5, <2>2, <2>3, <2>4, <2>6 DEF Faithful
<1>7. CASE /\ Keeps(n, m, {"attempt", "candidates", "phase", "call"})
           /\ m.told.phase = "Idle" /\ m.attempt = FALSE
           /\ DOMAIN m.candidates = DOMAIN n.candidates
           /\ \A i \in DOMAIN n.candidates :
                m.candidates[i].ap = n.candidates[i].ap
  <2>1. m.idf.link = "Down"
    BY <1>1, <1>7 DEF Keeps
  <2>2. LoopTells(m)
    BY <1>1, <1>2, <1>3, <1>7, <2>1 DEF Faithful, LoopTells
  <2>3. PhaseTells(m)
    BY <1>2, <1>7 DEF PhaseTells, Begins, NoCall
  <2>4. AttemptIsOwn(m)
    BY <1>7 DEF AttemptIsOwn
  <2>5. \A i \in DOMAIN m.candidates : NetworkOf[m.candidates[i].ap] = m.config
    BY <1>2, <1>7 DEF Faithful, NetworkIsOwn
  <2>6. NetworkIsOwn(m)
    BY <1>2, <1>4, <2>1, <2>5 DEF NetworkIsOwn, NoCall
  <2> QED BY <1>5, <2>2, <2>3, <2>4, <2>6 DEF Faithful
<1> QED BY <1>6, <1>7
(* The four ways a call ends that begins what it is about, or fails. *)
LEMMA ReturnedIs ==
  ASSUME NEW n, Built(n), Faithful(n), n.call # NoCall, NEW m, m = Returned(n)
  PROVE  /\ Faithful(m) /\ m.call = NoCall
         /\ \/ n.call.kind = "scan" /\ Keeps(n, m, {"scanning", "call"})
            \/ /\ n.call.kind = "scan" /\ Keeps(n, m, {"scan_active", "call"})
               /\ ~m.scan_active
            \/ /\ n.call.kind = "select" /\ n.call.answer = "Ok"
               /\ Keeps(n, m, {"scanning", "phase", "call"})
               /\ m.told.phase = "Selecting"
            \/ /\ n.call.kind = "select"
               /\ Keeps(n, m, {"selecting", "secret", "call"})
            \/ /\ n.call.kind = "join" /\ n.call.answer = "Ok"
               /\ Keeps(n, m, {"link", "ap", "phase", "call"})
               /\ m.told.phase = "Joining"
            \/ /\ n.call.kind = "join"
               /\ Keeps(n, m, {"attempt", "candidates", "phase", "call"})
               /\ m.told.phase = "Idle"
<1>1. n.call.kind \in {"scan", "select", "join"}
  BY DEF Built, Stations
<1>2. ASSUME NEW u, u \in Stations, m = [u EXCEPT !.call = NoCall]
      PROVE  Keeps(u, m, {"call"}) /\ m.call = NoCall
  BY <1>2 DEF Keeps, Stations
<1>3. PICK u : u = IF n.call.answer = "Ok" THEN Done(n) ELSE Undone(n)
  OBVIOUS
<1>4. m = [u EXCEPT !.call = NoCall]
  BY <1>3 DEF Returned
<1>5. u \in Stations
  BY <1>3, DoneBuilt, UndoneBuilt DEF Built
<1>6. Keeps(u, m, {"call"}) /\ m.call = NoCall
  BY <1>2, <1>4, <1>5
<1>7. CASE n.call.kind = "scan"
  <2>1. CASE n.call.answer = "Ok"
    <3>1. u = [n EXCEPT !.idf.scanning = TRUE]
      BY <1>3, <1>7, <2>1 DEF Done
    <3>2. Keeps(n, u, {"scanning"})
      BY <3>1 DEF Keeps, Built, Stations
    <3>3. Keeps(n, m, {"scanning", "call"})
      BY <1>6, <3>2 DEF Keeps
    <3> QED BY <1>6, <1>7, <3>3, ScanReturnedFaithful
  <2>2. CASE n.call.answer # "Ok"
    <3>1. u = [n EXCEPT !.scan_active = FALSE]
      BY <1>3, <1>7, <2>2 DEF Undone
    <3>2. Keeps(n, u, {"scan_active"})
      BY <3>1 DEF Keeps, Built, Stations
    <3>3. u.scan_active = FALSE
      BY <3>1 DEF Built, Stations
    <3>4. Keeps(n, m, {"scan_active", "call"})
      BY <1>6, <3>2 DEF Keeps
    <3>5. m.scan_active = u.scan_active
      BY <1>6 DEF Keeps
    <3>6. m.scan_active = FALSE
      BY <3>3, <3>5
    <3> QED BY <1>6, <1>7, <3>4, <3>6, ScanReturnedFaithful
  <2> QED BY <2>1, <2>2
<1>8. CASE n.call.kind = "select"
  <2>1. CASE n.call.answer = "Ok"
    <3>1. u = [n EXCEPT !.idf.scanning = TRUE, !.told.phase = "Selecting"]
      BY <1>3, <1>8, <2>1 DEF Done
    <3>2. Keeps(n, u, {"scanning", "phase"}) /\ u.told.phase = "Selecting"
      BY <3>1 DEF Keeps, Built, Stations
    <3>3. /\ Keeps(n, m, {"scanning", "phase", "call"})
          /\ m.told.phase = "Selecting"
      BY <1>6, <3>2 DEF Keeps
    <3> QED BY <1>6, <1>8, <2>1, <3>3, SelectReturnedFaithful
  <2>2. CASE n.call.answer # "Ok"
    <3>1. u = [n EXCEPT !.selecting = FALSE, !.secret = NoNetwork]
      BY <1>3, <1>8, <2>2 DEF Undone
    <3>2. Keeps(n, u, {"selecting", "secret"})
      BY <3>1 DEF Keeps, Built, Stations
    <3>3. u.selecting = FALSE
      BY <3>1 DEF Built, Stations
    <3>4. Keeps(n, m, {"selecting", "secret", "call"})
      BY <1>6, <3>2 DEF Keeps
    <3>5. m.selecting = u.selecting
      BY <1>6 DEF Keeps
    <3>6. m.selecting = FALSE
      BY <3>3, <3>5
    <3> QED BY <1>6, <1>8, <3>4, <3>6, SelectReturnedFaithful
  <2> QED BY <2>1, <2>2
<1>9. CASE n.call.kind = "join"
  <2>1. CASE n.call.answer = "Ok"
    <3>1. PICK ap : ap = n.selected
      OBVIOUS
    <3>2. u = [n EXCEPT !.idf.link = "Joining", !.idf.ap = ap,
                        !.told.phase = "Joining"]
      BY <1>3, <1>9, <2>1, <3>1 DEF Done
    <3>3. Keeps(n, u, {"link", "ap", "phase"})
      BY <3>2 DEF Keeps, Built, Stations
    <3>4. /\ u.told.phase = "Joining" /\ u.idf.link = "Joining"
          /\ u.idf.ap = ap
      BY <3>2 DEF Built, Stations
    <3>5. Keeps(n, m, {"link", "ap", "phase", "call"})
      BY <1>6, <3>3 DEF Keeps
    <3>6. /\ m.told.phase = "Joining" /\ m.idf.link = "Joining"
          /\ m.idf.ap = n.selected
      BY <1>6, <3>1, <3>4 DEF Keeps
    <3> QED BY <1>6, <1>9, <2>1, <3>5, <3>6, JoinReturnedFaithful
  <2>2. CASE n.call.answer # "Ok"
    <3>1. n \in Stations /\ n.attempt
      BY <1>9 DEF Built, Faithful, PhaseTells
    <3>2. PICK cs :
            /\ candidateFailed(n, "Transient") =
                 [n EXCEPT !.attempt = FALSE, !.candidates = cs]
            /\ Regarded(n.candidates, cs)
      BY <3>1, FailedIs
    <3>3. PICK f : f = [n EXCEPT !.attempt = FALSE, !.candidates = cs]
      OBVIOUS
    <3>4. u = [f EXCEPT !.told.phase = "Idle"]
      BY <1>3, <1>9, <2>2, <3>2, <3>3 DEF Undone
    <3>5. /\ Keeps(n, u, {"attempt", "candidates", "phase"})
          /\ u.told.phase = "Idle" /\ u.candidates = cs
      BY <3>1, <3>3, <3>4 DEF Keeps, Stations
    <3>6. u.attempt = FALSE
      BY <3>1, <3>3, <3>4 DEF Stations
    <3>7. /\ Keeps(n, m, {"attempt", "candidates", "phase", "call"})
          /\ m.told.phase = "Idle" /\ m.candidates = cs
      BY <1>6, <3>5 DEF Keeps
    <3>8. m.attempt = u.attempt
      BY <1>6 DEF Keeps
    <3>9. m.attempt = FALSE
      BY <3>6, <3>8
    <3>10. /\ DOMAIN m.candidates = DOMAIN n.candidates
           /\ \A i \in DOMAIN n.candidates :
                m.candidates[i].ap = n.candidates[i].ap
      BY <3>2, <3>7 DEF Regarded
    <3> QED BY <1>6, <1>9, <3>7, <3>9, <3>10, JoinReturnedFaithful
  <2> QED BY <2>1, <2>2
<1> QED BY <1>1, <1>7, <1>8, <1>9
-----------------------------------------------------------------------------
(* The handlers keep the driver faithful *)

(* The loop without the event at hand. *)
LEMMA TakenIs ==
  ASSUME Built(native), Faithful(native), native.idf.loop # <<>>,
         NEW m, m.idf.loop = Rest.idf.loop
  PROVE  /\ Orderly(m.idf.loop, Bars)
         /\ \A k : Due(native, k) <=> (Due(m, k) \/ k = Current.kind)
         /\ \A k : <<Current.kind, k>> \in Bars => ~Due(m, k)
         /\ Range(m.idf.loop) \subseteq Range(native.idf.loop)
         /\ Current \in Range(native.idf.loop)
<1>1. /\ Range(native.idf.loop) = Range(Rest.idf.loop) \cup {Current}
      /\ Orderly(native.idf.loop, Bars) =>
           /\ Orderly(Rest.idf.loop, Bars)
           /\ \A d \in Range(Rest.idf.loop) :
                <<Current.kind, d.kind>> \notin Bars
  BY RestIs
<1>2. Orderly(native.idf.loop, Bars)
  BY DEF Faithful, LoopTells
<1> QED BY <1>1, <1>2 DEF Due

LEMMA OnStartIs ==
  ASSUME Built(native), Faithful(native), OnStart
  PROVE  /\ Faithful(native')
         /\ Keeps(native, native', {"loop", "enabled"})
         /\ native'.told.enabled = TRUE /\ native.idf.on
         /\ Due(native, "Start")
         /\ ~Due(native', "Start") /\ ~Due(native', "Stop")
         /\ mail' = post(mail, Enablement(TRUE))
<1>1. /\ native.idf.loop # <<>> /\ Current.kind = "Start"
      /\ native' = [Rest EXCEPT !.told.enabled = TRUE]
      /\ mail' = post(mail, Enablement(TRUE))
  BY DEF OnStart, Delivered, Current, PostsEvent
<1>2. PICK m : m = native'
  OBVIOUS
<1>3. PICK r : r = Rest
  OBVIOUS
<1>4. Built(r) /\ Keeps(native, r, {"loop"})
  BY <1>1, <1>3, RestBuilt, RestIs
<1>5. /\ Keeps(r, m, {"enabled"}) /\ m.told.enabled = TRUE
      /\ m.idf.loop = Rest.idf.loop
  BY <1>1, <1>2, <1>3, <1>4 DEF Keeps, Built, Stations
<1>6. Keeps(native, m, {"loop", "enabled"})
  BY <1>4, <1>5 DEF Keeps
<1>7. /\ Orderly(m.idf.loop, Bars)
      /\ \A k : Due(native, k) <=> (Due(m, k) \/ k = "Start")
      /\ \A k : <<"Start", k>> \in Bars => ~Due(m, k)
      /\ Range(m.idf.loop) \subseteq Range(native.idf.loop)
  BY <1>1, <1>5, TakenIs
<1>8. ~Due(m, "Start") /\ ~Due(m, "Stop")
  BY <1>7 DEF Bars, Switches
<1>9. native.idf.on /\ ~native.told.enabled
  BY <1>7 DEF Faithful, LoopTells
<1>10. native.told.phase = "Idle" /\ ~Begins(native, "select")
  BY <1>9 DEF Faithful, PhaseTells
<1>11. m.idf.on = native.idf.on
  BY <1>6 DEF Keeps
<1>12. LoopTells(m)
  <2>1. /\ m.idf.link = native.idf.link /\ m.told.phase = native.told.phase
    BY <1>6 DEF Keeps
  <2> QED BY <1>5, <1>7, <1>8, <1>9, <1>11, <2>1 DEF Faithful, LoopTells
<1>13. PhaseTells(m)
  BY <1>5, <1>6 DEF Faithful, PhaseTells, Keeps, Begins
<1>14. ScanIsOne(m)
  BY <1>6, <1>7 DEF Faithful, ScanIsOne, Keeps
<1>15. AttemptIsOwn(m) /\ NetworkIsOwn(m)
  BY <1>6, <1>7 DEF Faithful, AttemptIsOwn, NetworkIsOwn, Keeps
<1> QED
  BY <1>1, <1>2, <1>5, <1>6, <1>7, <1>8, <1>9, <1>12, <1>13, <1>14, <1>15
     DEF Faithful

LEMMA OnStopIs ==
  ASSUME Built(native), Faithful(native), OnStop
  PROVE  /\ Faithful(native')
         /\ Keeps(native, native', {"loop", "enabled", "phase"})
         /\ native'.told.enabled = FALSE /\ native.idf.on = FALSE
         /\ native'.told.phase = "Idle" /\ ~native'.prepared
         /\ ~native.told.leaving
         /\ Due(native, "Stop")
         /\ ~Due(native', "Start") /\ ~Due(native', "Stop")
         /\ mail' = post(mail, Enablement(FALSE))
<1>1. /\ native.idf.loop # <<>> /\ Current.kind = "Stop"
      /\ native' = [Rest EXCEPT !.idf.ip = FALSE, !.told.enabled = FALSE,
                                !.told.phase = "Idle"]
      /\ mail' = post(mail, Enablement(FALSE))
  BY DEF OnStop, Delivered, Current, PostsEvent
<1>2. PICK m : m = native'
  OBVIOUS
<1>3. PICK r : r = Rest
  OBVIOUS
<1>4. Built(r) /\ Keeps(native, r, {"loop"})
  BY <1>1, <1>3, RestBuilt, RestIs
<1>5. /\ Keeps(r, m, {"enabled", "phase"}) /\ m.told.enabled = FALSE
      /\ m.told.phase = "Idle" /\ m.idf.loop = Rest.idf.loop
  BY <1>1, <1>2, <1>3, <1>4 DEF Keeps, Built, Stations
<1>6. Keeps(native, m, {"loop", "enabled", "phase"})
  BY <1>4, <1>5 DEF Keeps
<1>7. /\ Orderly(m.idf.loop, Bars)
      /\ \A k : Due(native, k) <=> (Due(m, k) \/ k = "Stop")
      /\ \A k : <<"Stop", k>> \in Bars => ~Due(m, k)
      /\ Range(m.idf.loop) \subseteq Range(native.idf.loop)
  BY <1>1, <1>5, TakenIs
<1>8. /\ ~Due(m, "Start") /\ ~Due(m, "Stop")
      /\ ~Due(m, "Connected") /\ ~Due(m, "Disconnected")
  BY <1>7 DEF Bars, Switches
<1>9. /\ ~native.idf.on /\ ~native.selecting /\ ~native.prepared
      /\ ~native.attempt /\ ~native.told.leaving /\ native.idf.link = "Down"
  BY <1>7 DEF Faithful, LoopTells
<1>10. /\ m.idf.on = native.idf.on /\ m.idf.link = native.idf.link
       /\ m.selecting = native.selecting /\ m.prepared = native.prepared
       /\ m.attempt = native.attempt /\ m.told.leaving = native.told.leaving
       /\ m.call = native.call
  BY <1>6 DEF Keeps
<1>11. native.idf.on \in BOOLEAN
  BY DEF Built, Stations
<1>12. LoopTells(m)
  BY <1>5, <1>7, <1>8, <1>9, <1>10, <1>11 DEF LoopTells
<1>13. PhaseTells(m)
  <2>1. native.call.kind # "select" /\ native.call.kind # "join"
    BY <1>9 DEF Faithful, PhaseTells
  <2> QED BY <1>5, <1>9, <1>10, <2>1 DEF PhaseTells, Begins
<1>14. ScanIsOne(m)
  BY <1>6, <1>7 DEF Faithful, ScanIsOne, Keeps
<1>15. AttemptIsOwn(m)
  BY <1>9, <1>10 DEF AttemptIsOwn
<1>16. NetworkIsOwn(m)
  BY <1>6, <1>7 DEF Faithful, NetworkIsOwn, Keeps
<1> QED
  BY <1>1, <1>2, <1>5, <1>6, <1>7, <1>8, <1>9, <1>10, <1>11, <1>12, <1>13,
     <1>14, <1>15, <1>16 DEF Faithful
(* What is known when the scan of a selection is over. *)
LEMMA SelectionDoneIs ==
  ASSUME Built(native), Faithful(native), native.idf.loop # <<>>,
         Current.kind = "ScanDone", native.selecting
  PROVE  /\ native.told.phase = "Selecting" /\ native.told.phase \notin Linked
         /\ ~native.idf.scanning /\ native.told.enabled
         /\ native.call.kind \notin {"scan", "select", "join"}
         /\ ~native.prepared /\ ~native.attempt
         /\ native.idf.link = "Down" /\ ~Due(native, "Stop")
         /\ ~Due(native, "Connected") /\ ~Due(native, "Disconnected")
         /\ native.config \in Networks
<1>1. Due(native, "ScanDone")
  BY TakenIs
<1>2. ~native.idf.scanning /\ native.call.kind \notin {"scan", "select"}
  BY <1>1 DEF Faithful, ScanIsOne
<1>3. native.told.phase = "Selecting"
  BY <1>2 DEF Faithful, PhaseTells
<1>4. native.told.phase \notin Linked
  BY <1>3 DEF Linked
<1>5. /\ native.call.kind # "join" /\ ~native.prepared /\ ~native.attempt
      /\ native.told.enabled
  BY <1>3, <1>4 DEF Faithful, PhaseTells
<1>6. /\ native.idf.link = "Down" /\ ~Due(native, "Stop")
      /\ ~Due(native, "Connected") /\ ~Due(native, "Disconnected")
  BY <1>3, <1>4 DEF Faithful, LoopTells
<1>7. native.config \in Networks
  BY DEF Faithful, NetworkIsOwn
<1> QED BY <1>2, <1>3, <1>4, <1>5, <1>6, <1>7

(* A selection is over: an AP is prepared, or the connection is not. *)
LEMMA SelectionFaithful ==
  ASSUME Built(native), Faithful(native), native.idf.loop # <<>>,
         Current.kind = "ScanDone", native.selecting, NEW m,
         Keeps(native, m, {"loop", "selecting", "candidates", "selected",
                           "prepared", "phase", "cancelled", "secret",
                           "leaving"}),
         m.idf.loop = Rest.idf.loop,
         m.selecting = FALSE, m.told.leaving = FALSE,
         \A i \in DOMAIN m.candidates :
           NetworkOf[m.candidates[i].ap] = native.config,
         \/ /\ m.prepared = TRUE /\ m.told.phase = "Prepared"
            /\ NetworkOf[m.selected] = native.config
         \/ m.prepared = native.prepared /\ m.told.phase = "Idle"
  PROVE  Faithful(m)
<1>1. /\ native.told.phase = "Selecting" /\ native.told.phase \notin Linked
      /\ ~native.idf.scanning /\ native.told.enabled
      /\ native.call.kind \notin {"scan", "select", "join"}
      /\ ~native.prepared /\ ~native.attempt
      /\ native.idf.link = "Down" /\ ~Due(native, "Stop")
      /\ ~Due(native, "Connected") /\ ~Due(native, "Disconnected")
  BY SelectionDoneIs
<1>2. /\ Orderly(m.idf.loop, Bars)
      /\ \A k : Due(native, k) <=> (Due(m, k) \/ k = "ScanDone")
      /\ \A k : <<"ScanDone", k>> \in Bars => ~Due(m, k)
  BY TakenIs
<1>3. ~Due(m, "ScanDone")
  BY <1>2 DEF Bars
<1>4. /\ m.idf.on = native.idf.on /\ m.told.enabled = native.told.enabled
      /\ m.idf.link = "Down" /\ m.attempt = native.attempt
      /\ m.call = native.call /\ ~m.idf.scanning
      /\ m.config = native.config
  BY <1>1 DEF Keeps
<1>5. /\ ~Due(m, "Stop") /\ ~Due(m, "Connected") /\ ~Due(m, "Disconnected")
      /\ (Due(m, "Start") <=> Due(native, "Start"))
  BY <1>1, <1>2
<1>6. LoopTells(m)
  BY <1>2, <1>4, <1>5 DEF Faithful, LoopTells
<1>7. PhaseTells(m)
  BY <1>1, <1>4 DEF PhaseTells, Begins
<1>8. ScanIsOne(m)
  BY <1>1, <1>3, <1>4 DEF ScanIsOne
<1>9. AttemptIsOwn(m)
  BY <1>1, <1>4 DEF AttemptIsOwn
<1>10. \A e \in Range(m.idf.loop) : e.kind \notin {"Connected", "Disconnected"}
  BY <1>5 DEF Due
<1>11. NetworkIsOwn(m)
  BY <1>1, <1>4, <1>10 DEF NetworkIsOwn
<1> QED BY <1>6, <1>7, <1>8, <1>9, <1>11 DEF Faithful

LEMMA UnselectedIs ==
  ASSUME Built(native), Faithful(native), native.idf.loop # <<>>,
         Current.kind = "ScanDone", native.selecting, Unselected
  PROVE  /\ Faithful(native')
         /\ Keeps(native, native', {"loop", "selecting", "cancelled", "secret",
                                    "phase", "leaving"})
         /\ native'.told.phase = "Idle" /\ native'.told.leaving = FALSE
         /\ native'.idf.loop = Rest.idf.loop
         /\ mail' = post(mail, Event("Disconnected", native.config,
                                     "ConnectionFailed"))
<1>1. /\ native' = [Rest EXCEPT !.selecting = FALSE, !.cancelled = FALSE,
                                !.secret = NoNetwork, !.told.phase = "Idle",
                                !.told.leaving = FALSE]
      /\ mail' = post(mail, Event("Disconnected", native.config,
                                  "ConnectionFailed"))
  BY DEF Unselected, PostsEvent
<1>2. PICK m : m = native'
  OBVIOUS
<1>3. PICK r : r = Rest
  OBVIOUS
<1>4. Built(r) /\ Keeps(native, r, {"loop"})
  BY <1>3, RestBuilt, RestIs
<1>5. m = [r EXCEPT !.selecting = FALSE, !.cancelled = FALSE,
                    !.secret = NoNetwork, !.told.phase = "Idle",
                    !.told.leaving = FALSE]
  BY <1>1, <1>2, <1>3
<1>6. /\ Keeps(r, m, {"selecting", "cancelled", "secret", "phase", "leaving"})
      /\ m.told.phase = "Idle" /\ m.idf.loop = r.idf.loop
  BY <1>4, <1>5 DEF Keeps, Built, Stations
<1>7. m.selecting = FALSE
  BY <1>4, <1>5 DEF Built, Stations
<1>8. m.told.leaving = FALSE
  BY <1>4, <1>5 DEF Built, Stations
<1>9. /\ Keeps(native, m, {"loop", "selecting", "cancelled", "secret", "phase",
                           "leaving"})
      /\ m.candidates = native.candidates
  BY <1>4, <1>6 DEF Keeps
<1>10. /\ Keeps(native, m, {"loop", "selecting", "candidates", "selected",
                            "prepared", "phase", "cancelled", "secret",
                            "leaving"})
       /\ m.prepared = native.prepared
  BY <1>9 DEF Keeps
<1>11. \A i \in DOMAIN m.candidates :
         NetworkOf[m.candidates[i].ap] = native.config
  BY <1>9 DEF Faithful, NetworkIsOwn
<1>12. Faithful(m)
  BY <1>3, <1>6, <1>7, <1>8, <1>10, <1>11, SelectionFaithful
<1> QED BY <1>1, <1>2, <1>3, <1>6, <1>8, <1>9, <1>12

LEMMA SelectedStepIs ==
  ASSUME Built(native), Faithful(native), native.idf.loop # <<>>,
         Current.kind = "ScanDone", native.selecting, ~native.cancelled,
         NEW n \in Later(Rest), NEW found \in Found(native.config),
         Selected(n, found)
  PROVE  /\ Faithful(native') /\ native'.idf.loop = Rest.idf.loop
         /\ \/ /\ Keeps(native, native', {"loop", "selecting", "candidates",
                                          "selected", "prepared", "phase"})
               /\ native'.prepared = TRUE /\ native'.told.phase = "Prepared"
               /\ ~native.told.leaving
               /\ mail' = post(mail, Event("Prepared", NoNetwork, "Ok"))
            \/ /\ Keeps(native, native', {"loop", "selecting", "candidates",
                                          "secret", "phase", "leaving"})
               /\ native'.told.phase = "Idle" /\ native'.told.leaving = FALSE
               /\ mail' = post(mail, Event("Disconnected", native.config,
                                           "ConnectionFailed"))
<1>1. Built(Rest) /\ Keeps(native, Rest, {"loop"})
  BY RestBuilt, RestIs
<1>2. Built(n) /\ Keeps(Rest, n, {"candidates"})
  <2>1. Rest \in Stations
    BY <1>1 DEF Built
  <2>2. PICK r : r = Rest
    OBVIOUS
  <2>3. PICK fresh, cs : n = [r EXCEPT !.fresh = fresh, !.candidates = cs]
    <3>1. \E fresh \in BOOLEAN : \E cs :
            /\ n = [Rest EXCEPT !.fresh = fresh, !.candidates = cs]
            /\ Regarded(Rest.candidates, cs)
            /\ \A i \in DOMAIN cs :
                 cs[i].failures = Rest.candidates[i].failures
      BY <2>1, LaterIs
    <3> QED BY <2>2, <3>1, Zenon
  <2>4. Keeps(r, n, {"candidates"})
    BY <2>1, <2>2, <2>3 DEF Keeps, Stations
  <2> QED BY <1>1, <2>2, <2>4, LaterBuilt
<1>3. PICK s : s = [n EXCEPT !.selecting = FALSE]
  OBVIOUS
<1>4. /\ Built(s) /\ Keeps(n, s, {"selecting"}) /\ s.selecting = FALSE
  <2>1. Keeps(n, s, {"selecting"})
    BY <1>2, <1>3 DEF Keeps, Built, Stations
  <2>2. s.selecting = FALSE
    BY <1>2, <1>3 DEF Built, Stations
  <2> QED BY <1>2, <1>3, <2>1, <2>2, SelectingBuilt
<1>5. s.config = native.config
  BY <1>1, <1>2, <1>4 DEF Keeps
<1>6. PICK m : m = rememberCandidates(s, found)
  OBVIOUS
<1>7. /\ m \in Stations /\ Keeps(s, m, {"candidates"})
      /\ \A i \in DOMAIN m.candidates :
           NetworkOf[m.candidates[i].ap] = native.config
  <2>1. s \in Stations /\ found \in Found(s.config)
    BY <1>4, <1>5 DEF Built
  <2>2. Remembered(s, m)
    BY <1>6, <2>1, RememberedIs
  <2>3. PICK cs \in BoundedSeq(Candidates, Slots) :
          /\ m = [s EXCEPT !.candidates = cs, !.fresh = TRUE]
          /\ \A i \in DOMAIN cs : NetworkOf[cs[i].ap] = s.config
    BY <2>2, Zenon DEF Remembered
  <2>4. Keeps(s, m, {"candidates"}) /\ m.candidates = cs
    BY <2>1, <2>3 DEF Keeps, Stations
  <2>5. m \in Stations
    BY <2>1, <2>3 DEF Stations
  <2> QED BY <1>5, <2>3, <2>4, <2>5
<1>8. Keeps(native, m, {"loop", "selecting", "candidates"})
      /\ m.selecting = FALSE
  <2>1. Keeps(native, m, {"loop", "selecting", "candidates"})
    BY <1>1, <1>2, <1>4, <1>7 DEF Keeps
  <2>2. m.selecting = s.selecting
    BY <1>7 DEF Keeps
  <2> QED BY <1>4, <2>1, <2>2
<1>9. m.idf.loop = Rest.idf.loop
  BY <1>2, <1>4, <1>7 DEF Keeps
<1>10. ~native.told.leaving /\ native.told.leaving \in BOOLEAN
  BY DEF Faithful, PhaseTells, Built, Stations
<1>11. m.told.leaving = FALSE /\ m.prepared = native.prepared
  BY <1>8, <1>10 DEF Keeps
<1>12. CASE Eligible(m) # {}
  <2>1. PICK p : p = [selectCandidate(m) EXCEPT !.told.phase = "Prepared"]
    OBVIOUS
  <2>2. PostsEvent(p, Event("Prepared", NoNetwork, "Ok"))
    BY <1>3, <1>6, <1>12, <2>1, Zenon DEF Selected
  <2>3. PICK i \in DOMAIN m.candidates : \E cs :
          /\ i \in Eligible(m) /\ \A j \in Eligible(m) : i <= j
          /\ selectCandidate(m) = [m EXCEPT !.candidates = cs,
                                            !.selected = m.candidates[i].ap,
                                            !.prepared = TRUE]
          /\ Regarded(m.candidates, cs)
          /\ \A j \in DOMAIN cs : cs[j].failures <= m.candidates[j].failures
    BY <1>7, <1>12, SelectIs
  <2>4. PICK cs :
          /\ selectCandidate(m) = [m EXCEPT !.candidates = cs,
                                            !.selected = m.candidates[i].ap,
                                            !.prepared = TRUE]
          /\ Regarded(m.candidates, cs)
    BY <2>3
  <2>5. PICK ap : ap = m.candidates[i].ap
    OBVIOUS
  <2>6. p = [m EXCEPT !.candidates = cs, !.selected = ap, !.prepared = TRUE,
                      !.told.phase = "Prepared"]
    BY <2>1, <2>4, <2>5, Zenon
  <2>7. /\ Keeps(m, p, {"candidates", "selected", "prepared", "phase"})
        /\ p.candidates = cs /\ p.selected = ap /\ p.told.phase = "Prepared"
    BY <1>7, <2>6 DEF Keeps, Stations
  <2>8. p.prepared = TRUE
    BY <1>7, <2>6 DEF Stations
  <2>9. /\ Keeps(native, p, {"loop", "selecting", "candidates", "selected",
                             "prepared", "phase"})
        /\ p.idf.loop = Rest.idf.loop /\ p.told.leaving = FALSE
    BY <1>8, <1>9, <1>11, <2>7 DEF Keeps
  <2>10. p.selecting = m.selecting
    BY <2>7 DEF Keeps
  <2>11. \A j \in DOMAIN p.candidates :
           NetworkOf[p.candidates[j].ap] = native.config
    BY <1>7, <2>4, <2>7 DEF Regarded
  <2>12. NetworkOf[p.selected] = native.config
    BY <1>7, <2>5, <2>7
  <2>13. Keeps(native, p, {"loop", "selecting", "candidates", "selected",
                           "prepared", "phase", "cancelled", "secret",
                           "leaving"})
    BY <2>9 DEF Keeps
  <2>14. Faithful(p)
    BY <1>8, <2>7, <2>8, <2>9, <2>10, <2>11, <2>12, <2>13, SelectionFaithful
  <2> QED BY <1>10, <2>2, <2>7, <2>8, <2>9, <2>14 DEF PostsEvent
<1>13. CASE Eligible(m) = {}
  <2>1. PICK e : e = [m EXCEPT !.secret = NoNetwork, !.told.phase = "Idle",
                               !.told.leaving = FALSE]
    OBVIOUS
  <2>2. PostsEvent(e, Event("Disconnected", native.config,
                            "ConnectionFailed"))
    BY <1>3, <1>6, <1>13, <2>1, Zenon DEF Selected
  <2>3. /\ Keeps(m, e, {"secret", "phase", "leaving"})
        /\ e.told.phase = "Idle"
    BY <1>7, <2>1 DEF Keeps, Stations
  <2>4. e.told.leaving = FALSE
    BY <1>7, <2>1 DEF Stations
  <2>5. /\ Keeps(native, e, {"loop", "selecting", "candidates", "secret",
                             "phase", "leaving"})
        /\ e.idf.loop = Rest.idf.loop /\ e.candidates = m.candidates
    BY <1>8, <1>9, <2>3 DEF Keeps
  <2>6. e.selecting = m.selecting /\ e.prepared = m.prepared
    BY <2>3 DEF Keeps
  <2>7. Keeps(native, e, {"loop", "selecting", "candidates", "selected",
                          "prepared", "phase", "cancelled", "secret",
                          "leaving"})
    BY <2>5 DEF Keeps
  <2>8. Faithful(e)
    BY <1>7, <1>8, <1>11, <2>3, <2>4, <2>5, <2>6, <2>7, SelectionFaithful
  <2> QED BY <2>2, <2>3, <2>4, <2>5, <2>8 DEF PostsEvent
<1> QED BY <1>12, <1>13
LEMMA OnScanDoneIs ==
  ASSUME Built(native), Faithful(native), OnScanDone
  PROVE  /\ Faithful(native')
         /\ \/ /\ native.told.phase = "Selecting" /\ ~native.told.leaving
               /\ Keeps(native, native', {"loop", "selecting", "candidates",
                                          "selected", "prepared", "phase"})
               /\ native'.prepared = TRUE /\ native'.told.phase = "Prepared"
               /\ mail' = post(mail, Event("Prepared", NoNetwork, "Ok"))
            \/ /\ native.told.phase = "Selecting"
               /\ native.call.kind \notin {"scan", "select", "join"}
               /\ ~native.prepared
               /\ Keeps(native, native', {"loop", "selecting", "cancelled",
                                          "candidates", "secret", "phase",
                                          "leaving"})
               /\ native'.told.phase = "Idle" /\ native'.told.leaving = FALSE
               /\ mail' = post(mail, Event("Disconnected", native.config,
                                           "ConnectionFailed"))
            \/ /\ native.scan_active /\ native.call.kind # "scan"
               /\ Keeps(native, native', {"loop", "scan_active", "cancelled"})
               /\ native'.scan_active = FALSE
               /\ \E status \in {"Ok", "ConnectionFailed"} :
                    mail' = post(mail, Event("ScanDone", NoNetwork, status))
         /\ \A k : k # "ScanDone" => (Due(native', k) <=> Due(native, k))
<1>1. native.idf.loop # <<>> /\ Current.kind = "ScanDone"
  BY DEF OnScanDone, Delivered, Current
<1>2. native.selecting \in BOOLEAN /\ native.scan_active \in BOOLEAN
  BY DEF Built, Stations
<1>3. PICK r : r = Rest
  OBVIOUS
<1>4. Built(r) /\ Keeps(native, r, {"loop"})
  BY <1>1, <1>3, RestBuilt, RestIs
<1>5. Due(native, "ScanDone")
  BY <1>1, <1>3, TakenIs
<1>6. /\ native.selecting \/ native.scan_active
      /\ native.call.kind \notin {"scan", "select"} /\ ~native.idf.scanning
  BY <1>5 DEF Faithful, ScanIsOne
<1>7. \A m : m.idf.loop = r.idf.loop =>
         /\ Orderly(m.idf.loop, Bars) /\ ~Due(m, "ScanDone")
         /\ \A k : k # "ScanDone" => (Due(m, k) <=> Due(native, k))
         /\ Range(m.idf.loop) \subseteq Range(native.idf.loop)
  <2> SUFFICES ASSUME NEW m, m.idf.loop = r.idf.loop
               PROVE  /\ Orderly(m.idf.loop, Bars) /\ ~Due(m, "ScanDone")
                      /\ \A k : k # "ScanDone" => (Due(m, k) <=> Due(native, k))
                      /\ Range(m.idf.loop) \subseteq Range(native.idf.loop)
    OBVIOUS
  <2>1. /\ Orderly(m.idf.loop, Bars)
        /\ \A k : Due(native, k) <=> (Due(m, k) \/ k = "ScanDone")
        /\ \A k : <<"ScanDone", k>> \in Bars => ~Due(m, k)
        /\ Range(m.idf.loop) \subseteq Range(native.idf.loop)
    BY <1>1, <1>3, TakenIs
  <2> QED BY <2>1 DEF Bars
<1>8. CASE native.selecting
  <2>1. /\ native.told.phase = "Selecting" /\ ~native.prepared
        /\ native.call.kind \notin {"scan", "select", "join"}
    BY <1>1, <1>8, SelectionDoneIs
  <2>2. \/ /\ ~native.cancelled
           /\ \E n \in Later(Rest), found \in Found(native.config) :
                Selected(n, found)
        \/ Unselected
    BY <1>8, Zenon DEF OnScanDone
  <2>3. /\ Faithful(native') /\ native'.idf.loop = Rest.idf.loop
        /\ \/ /\ Keeps(native, native', {"loop", "selecting", "candidates",
                                         "selected", "prepared", "phase"})
              /\ native'.prepared = TRUE /\ native'.told.phase = "Prepared"
              /\ ~native.told.leaving
              /\ mail' = post(mail, Event("Prepared", NoNetwork, "Ok"))
           \/ /\ Keeps(native, native', {"loop", "selecting", "candidates",
                                         "secret", "phase", "leaving"})
              /\ native'.told.phase = "Idle" /\ native'.told.leaving = FALSE
              /\ mail' = post(mail, Event("Disconnected", native.config,
                                          "ConnectionFailed"))
           \/ /\ Keeps(native, native', {"loop", "selecting", "cancelled",
                                         "secret", "phase", "leaving"})
              /\ native'.told.phase = "Idle" /\ native'.told.leaving = FALSE
              /\ mail' = post(mail, Event("Disconnected", native.config,
                                          "ConnectionFailed"))
    <3>1. CASE Unselected
      BY <1>1, <1>8, <3>1, UnselectedIs
    <3>2. CASE /\ ~native.cancelled
               /\ \E n \in Later(Rest), found \in Found(native.config) :
                    Selected(n, found)
      <4>1. PICK n \in Later(Rest), found \in Found(native.config) :
              Selected(n, found)
        BY <3>2
      <4> QED BY <1>1, <1>8, <3>2, <4>1, SelectedStepIs
    <3> QED BY <2>2, <3>1, <3>2
  <2>4. \A k : k # "ScanDone" => (Due(native', k) <=> Due(native, k))
    BY <1>3, <1>7, <2>3
  <2>5. \/ Keeps(native, native', {"loop", "selecting", "candidates", "secret",
                                   "phase", "leaving"})
        \/ Keeps(native, native', {"loop", "selecting", "cancelled", "secret",
                                   "phase", "leaving"})
        => Keeps(native, native', {"loop", "selecting", "cancelled",
                                   "candidates", "secret", "phase", "leaving"})
    BY DEF Keeps
  <2> QED BY <2>1, <2>3, <2>4, <2>5
<1>9. CASE ~native.selecting
  <2>1. native.scan_active
    BY <1>6, <1>9
  <2>2. PICK status \in {"Ok", "ConnectionFailed"} :
          PostsEvent([Rest EXCEPT !.scan_active = FALSE, !.cancelled = FALSE],
                     Event("ScanDone", NoNetwork, status))
    BY <1>9, <2>1, Zenon DEF OnScanDone
  <2>3. PICK m : m = [r EXCEPT !.scan_active = FALSE, !.cancelled = FALSE]
    OBVIOUS
  <2>4. Keeps(r, m, {"scan_active", "cancelled"})
    BY <1>4, <2>3 DEF Keeps, Built, Stations
  <2>5. m.scan_active = FALSE
    BY <1>4, <2>3 DEF Built, Stations
  <2>6. /\ Keeps(native, m, {"loop", "scan_active", "cancelled"})
        /\ m.idf.loop = r.idf.loop
    BY <1>4, <2>4 DEF Keeps
  <2>7. /\ Orderly(m.idf.loop, Bars) /\ ~Due(m, "ScanDone")
        /\ \A k : k # "ScanDone" => (Due(m, k) <=> Due(native, k))
        /\ Range(m.idf.loop) \subseteq Range(native.idf.loop)
    BY <1>7, <2>6
  <2>8. LoopTells(m)
    BY <2>6, <2>7 DEF Faithful, LoopTells, Keeps
  <2>9. m.selecting = native.selecting
    BY <2>6 DEF Keeps
  <2>10. PhaseTells(m)
    BY <1>9, <2>6, <2>9 DEF Faithful, PhaseTells, Keeps, Begins
  <2>11. m.call = native.call /\ m.idf.scanning = native.idf.scanning
    BY <2>6 DEF Keeps
  <2>12. ScanIsOne(m)
    BY <1>6, <2>7, <2>11 DEF ScanIsOne
  <2>13. AttemptIsOwn(m) /\ NetworkIsOwn(m)
    BY <2>6, <2>7 DEF Faithful, AttemptIsOwn, NetworkIsOwn, Keeps
  <2>14. Faithful(m)
    BY <2>8, <2>10, <2>12, <2>13 DEF Faithful
  <2>15. /\ native' = m
         /\ mail' = post(mail, Event("ScanDone", NoNetwork, status))
    BY <1>3, <2>2, <2>3 DEF PostsEvent
  <2> QED BY <1>6, <2>1, <2>5, <2>6, <2>7, <2>14, <2>15
<1> QED BY <1>2, <1>8, <1>9

LEMMA OnConnectedIs ==
  ASSUME Built(native), Faithful(native), OnConnected
  PROVE  /\ Faithful(native') /\ native.told.phase = "Joining"
         /\ NetworkOf[Current.ap] = native.config
         /\ \A k : k \notin {"Connected", "Disconnected"} =>
              (Due(native', k) <=> Due(native, k))
         /\ \/ /\ Keeps(native, native', {"loop", "phase"})
               /\ native'.told.phase = "Associated"
               /\ mail' = post(mail, Event("Associated", NetworkOf[Current.ap],
                                           "Ok"))
            \/ /\ Keeps(native, native', {"loop", "rejected", "link", "ap"})
               /\ mail' = mail
<1>1. native.idf.loop # <<>> /\ Current.kind = "Connected"
  BY DEF OnConnected, Delivered, Current
<1>2. PICK r : r = Rest
  OBVIOUS
<1>3. Built(r) /\ Keeps(native, r, {"loop"})
  BY <1>1, <1>2, RestBuilt, RestIs
<1>4. /\ \A k : Due(native, k) <=> (Due(r, k) \/ k = "Connected")
      /\ Current \in Range(native.idf.loop)
  BY <1>1, <1>2, TakenIs
<1>5. native.told.phase = "Joining" /\ native.idf.link # "Joining"
  BY <1>4 DEF Faithful, LoopTells
<1>6. NetworkOf[Current.ap] = native.config
  BY <1>1, <1>4 DEF Faithful, NetworkIsOwn
<1>7. ASSUME NEW m, m.idf.loop = r.idf.loop
      PROVE  /\ Orderly(m.idf.loop, Bars) /\ ~Due(m, "Connected")
             /\ \A k : k # "Connected" => (Due(m, k) <=> Due(native, k))
             /\ Range(m.idf.loop) \subseteq Range(native.idf.loop)
  <2>1. /\ Orderly(m.idf.loop, Bars)
        /\ \A k : Due(native, k) <=> (Due(m, k) \/ k = "Connected")
        /\ \A k : <<"Connected", k>> \in Bars => ~Due(m, k)
        /\ Range(m.idf.loop) \subseteq Range(native.idf.loop)
    BY <1>1, <1>2, <1>7, TakenIs
  <2> QED BY <2>1 DEF Bars
<1>8. PICK q : q = [r EXCEPT !.rejected = TRUE]
  OBVIOUS
<1>9. \/ PostsEvent([r EXCEPT !.told.phase = "Associated"],
                    Event("Associated", NetworkOf[Current.ap], "Ok"))
      \/ Ignores(q) \/ Ignores(Leaves(q))
  BY <1>2, <1>8, Zenon DEF OnConnected
<1>10. CASE PostsEvent([r EXCEPT !.told.phase = "Associated"],
                       Event("Associated", NetworkOf[Current.ap], "Ok"))
  <2>1. PICK m : m = [r EXCEPT !.told.phase = "Associated"]
    OBVIOUS
  <2>2. /\ Keeps(r, m, {"phase"}) /\ m.told.phase = "Associated"
    BY <1>3, <2>1 DEF Keeps, Built, Stations
  <2>3. Keeps(native, m, {"loop", "phase"}) /\ m.idf.loop = r.idf.loop
    BY <1>3, <2>2 DEF Keeps
  <2>4. /\ Orderly(m.idf.loop, Bars) /\ ~Due(m, "Connected")
        /\ \A k : k # "Connected" => (Due(m, k) <=> Due(native, k))
        /\ Range(m.idf.loop) \subseteq Range(native.idf.loop)
    BY <1>7, <2>3
  <2>5. m.told.phase \in Linked /\ m.idf.link # "Joining"
    BY <1>5, <2>2, <2>3 DEF Linked, Keeps
  <2>6. LoopTells(m)
    BY <2>3, <2>4, <2>5 DEF Faithful, LoopTells, Keeps
  <2>7. PhaseTells(m)
    BY <1>5, <2>2, <2>3, <2>5 DEF Faithful, PhaseTells, Keeps, Begins
  <2>8. ScanIsOne(m)
    BY <2>3, <2>4 DEF Faithful, ScanIsOne, Keeps
  <2>9. AttemptIsOwn(m) /\ NetworkIsOwn(m)
    BY <2>3, <2>4 DEF Faithful, AttemptIsOwn, NetworkIsOwn, Keeps
  <2>10. Faithful(m)
    BY <2>6, <2>7, <2>8, <2>9 DEF Faithful
  <2> QED BY <1>5, <1>6, <1>10, <2>1, <2>2, <2>3, <2>4, <2>10 DEF PostsEvent
<1>11. /\ Keeps(r, q, {"rejected"}) /\ Built(q)
  <2>1. Keeps(r, q, {"rejected"})
    BY <1>3, <1>8 DEF Keeps, Built, Stations
  <2> QED BY <1>3, <1>8, <2>1, RejectedBuilt
<1>12. q.rejected
  BY <1>3, <1>8 DEF Built, Stations
<1>13. Keeps(native, q, {"loop", "rejected"}) /\ q.idf.loop = r.idf.loop
  BY <1>3, <1>11 DEF Keeps
<1>14. /\ Orderly(q.idf.loop, Bars) /\ ~Due(q, "Connected")
       /\ \A k : k # "Connected" => (Due(q, k) <=> Due(native, k))
       /\ Range(q.idf.loop) \subseteq Range(native.idf.loop)
  BY <1>7, <1>13
<1>15. Faithful(q)
  <2>1. LoopTells(q)
    BY <1>13, <1>14 DEF Faithful, LoopTells, Keeps
  <2>2. PhaseTells(q)
    BY <1>13 DEF Faithful, PhaseTells, Keeps, Begins
  <2>3. ScanIsOne(q)
    BY <1>13, <1>14 DEF Faithful, ScanIsOne, Keeps
  <2>4. AttemptIsOwn(q)
    BY <1>12, <1>13, <1>14 DEF Faithful, AttemptIsOwn, Keeps
  <2>5. NetworkIsOwn(q)
    BY <1>13, <1>14 DEF Faithful, NetworkIsOwn, Keeps
  <2> QED BY <2>1, <2>2, <2>3, <2>4, <2>5 DEF Faithful
<1>16. CASE Ignores(q)
  <2>1. Keeps(native, q, {"loop", "rejected", "link", "ap"})
    BY <1>13 DEF Keeps
  <2> QED BY <1>5, <1>6, <1>14, <1>15, <1>16, <2>1 DEF Ignores
<1>17. CASE Ignores(Leaves(q))
  <2>1. PICK l : l = Leaves(q)
    OBVIOUS
  <2>2. /\ Faithful(l) /\ Keeps(q, l, {"link", "ap", "loop"})
        /\ \A k : k # "Disconnected" => (Due(l, k) <=> Due(q, k))
    BY <1>11, <1>12, <1>15, <2>1, LeavesFaithful
  <2>3. Keeps(native, l, {"loop", "rejected", "link", "ap"})
    BY <1>13, <2>2 DEF Keeps
  <2>4. \A k : k \notin {"Connected", "Disconnected"} =>
          (Due(l, k) <=> Due(native, k))
    BY <1>14, <2>2
  <2> QED BY <1>5, <1>6, <1>17, <2>1, <2>2, <2>3, <2>4 DEF Ignores
<1> QED BY <1>9, <1>10, <1>16, <1>17
LEMMA OnDisconnectedIs ==
  ASSUME Built(native), Faithful(native), OnDisconnected
  PROVE  /\ Faithful(native') /\ native.told.phase \in Linked
         /\ NetworkOf[Current.ap] = native.config
         /\ \A k : k \notin {"Connected", "Disconnected"} =>
              (Due(native', k) <=> Due(native, k))
         /\ Keeps(native, native', {"loop", "attempt", "candidates",
                                    "rejected", "phase", "leaving"})
         /\ native'.told.phase = "Idle" /\ native'.told.leaving = FALSE
         /\ mail' = post(mail, Event("Disconnected", NetworkOf[Current.ap],
                                     "ConnectionFailed"))
<1>1. native.idf.loop # <<>> /\ Current.kind = "Disconnected"
  BY DEF OnDisconnected, Delivered, Current
<1>2. PICK r : r = Rest
  OBVIOUS
<1>3. Built(r) /\ Keeps(native, r, {"loop"})
  BY <1>1, <1>2, RestBuilt, RestIs
<1>4. /\ Due(native, "Disconnected") /\ Current \in Range(native.idf.loop)
  BY <1>1, <1>2, TakenIs
<1>5. native.told.phase \in Linked /\ native.idf.link = "Down"
  BY <1>4 DEF Faithful, LoopTells, Built, Stations
<1>6. /\ ~native.selecting /\ ~native.prepared
      /\ native.call.kind \notin {"select", "join"} /\ native.told.enabled
  BY <1>5 DEF Faithful, PhaseTells, Linked
<1>7. NetworkOf[Current.ap] = native.config
  BY <1>1, <1>4 DEF Faithful, NetworkIsOwn
<1>8. PICK failure : failure = IF native.rejected THEN "IncompatibleSecurity"
                               ELSE ClassifyDisconnect(Current.detail)
  OBVIOUS
<1>9. PICK a : a = candidateFailed(r, failure)
  OBVIOUS
<1>10. /\ a \in Stations /\ Keeps(r, a, {"attempt", "candidates"})
       /\ a.attempt = FALSE /\ a.idf = r.idf
       /\ DOMAIN a.candidates = DOMAIN r.candidates
       /\ \A i \in DOMAIN r.candidates :
            a.candidates[i].ap = r.candidates[i].ap
  <2>1. r \in Stations
    BY <1>3 DEF Built
  <2>2. PICK cs :
          /\ a = IF r.attempt
                 THEN [r EXCEPT !.attempt = FALSE, !.candidates = cs] ELSE r
          /\ Regarded(r.candidates, cs)
    BY <1>9, <2>1, FailedIs
  <2>3. CASE r.attempt
    <3>1. a = [r EXCEPT !.attempt = FALSE, !.candidates = cs]
      BY <2>2, <2>3
    <3>2. /\ Keeps(r, a, {"attempt", "candidates"}) /\ a.candidates = cs
          /\ a.idf = r.idf
      BY <2>1, <3>1 DEF Keeps, Stations
    <3>3. a.attempt = FALSE
      BY <2>1, <3>1 DEF Stations
    <3>4. a \in Stations
      BY <2>1, <2>2, <3>1 DEF Regarded, Stations
    <3> QED BY <2>2, <3>2, <3>3, <3>4 DEF Regarded
  <2>4. CASE ~r.attempt
    <3>1. a = r
      BY <2>2, <2>4
    <3>2. r.attempt = FALSE
      BY <2>1, <2>4 DEF Stations
    <3> QED BY <2>1, <3>1, <3>2 DEF Keeps
  <2> QED BY <2>3, <2>4
<1>11. PICK timer \in BOOLEAN : timer = (a.idf.timer \/ native.idf.ip)
  OBVIOUS
<1>12. PICK m : m = [a EXCEPT !.rejected = FALSE, !.idf.ip = FALSE,
                              !.idf.timer = timer,
                              !.told.phase = "Idle", !.told.leaving = FALSE]
  OBVIOUS
<1>13. /\ native' = m
       /\ mail' = post(mail, Event("Disconnected", NetworkOf[Current.ap],
                                   "ConnectionFailed"))
  <2>1. m = [a EXCEPT !.rejected = FALSE, !.idf.ip = FALSE,
                      !.idf.timer = @ \/ native.idf.ip,
                      !.told.phase = "Idle", !.told.leaving = FALSE]
    BY <1>11, <1>12, Zenon
  <2> QED BY <1>2, <1>8, <1>9, <2>1, Zenon DEF OnDisconnected, PostsEvent
<1>14. /\ Keeps(a, m, {"rejected", "phase", "leaving"})
       /\ m.told.phase = "Idle" /\ m.idf.loop = a.idf.loop
  BY <1>10, <1>12 DEF Keeps, Stations
<1>15. m.told.leaving = FALSE
  BY <1>10, <1>12 DEF Stations
<1>16. /\ Keeps(native, m, {"loop", "attempt", "candidates", "rejected",
                            "phase", "leaving"})
       /\ m.attempt = FALSE /\ m.idf.loop = r.idf.loop
       /\ m.candidates = a.candidates /\ r.candidates = native.candidates
  <2>1. Keeps(native, m, {"loop", "attempt", "candidates", "rejected",
                          "phase", "leaving"})
    BY <1>3, <1>10, <1>14 DEF Keeps
  <2>2. m.attempt = a.attempt /\ m.candidates = a.candidates
    BY <1>14 DEF Keeps
  <2>3. r.candidates = native.candidates
    BY <1>3 DEF Keeps
  <2> QED BY <1>10, <1>14, <2>1, <2>2, <2>3
<1>17. /\ Orderly(m.idf.loop, Bars)
       /\ \A k : k # "Disconnected" => (Due(m, k) <=> Due(native, k))
       /\ \A k : <<"Disconnected", k>> \in Bars => ~Due(m, k)
       /\ Range(m.idf.loop) \subseteq Range(native.idf.loop)
  <2>1. /\ Orderly(m.idf.loop, Bars)
        /\ \A k : Due(native, k) <=> (Due(m, k) \/ k = "Disconnected")
        /\ \A k : <<"Disconnected", k>> \in Bars => ~Due(m, k)
        /\ Range(m.idf.loop) \subseteq Range(native.idf.loop)
    BY <1>1, <1>2, <1>16, TakenIs
  <2> QED BY <2>1
<1>18. ~Due(m, "Connected") /\ ~Due(m, "Disconnected")
  BY <1>17 DEF Bars
<1>19. /\ m.idf.on = native.idf.on /\ m.idf.link = native.idf.link
       /\ m.selecting = native.selecting /\ m.prepared = native.prepared
       /\ m.told.enabled = native.told.enabled /\ m.call = native.call
       /\ m.config = native.config
  BY <1>16 DEF Keeps
<1>20. LoopTells(m)
  BY <1>5, <1>14, <1>15, <1>16, <1>17, <1>18, <1>19 DEF Faithful, LoopTells
<1>21. PhaseTells(m)
  BY <1>6, <1>14, <1>15, <1>16, <1>19 DEF Faithful, PhaseTells, Begins
<1>22. ScanIsOne(m)
  BY <1>16, <1>17 DEF Faithful, ScanIsOne, Keeps
<1>23. AttemptIsOwn(m)
  BY <1>16 DEF AttemptIsOwn
<1>24. \A i \in DOMAIN m.candidates : NetworkOf[m.candidates[i].ap] = m.config
  BY <1>10, <1>16, <1>19 DEF Faithful, NetworkIsOwn
<1>25. NetworkIsOwn(m)
  BY <1>5, <1>6, <1>17, <1>19, <1>24 DEF Faithful, NetworkIsOwn
<1>26. Faithful(m)
  BY <1>20, <1>21, <1>22, <1>23, <1>25 DEF Faithful
<1> QED BY <1>5, <1>7, <1>13, <1>14, <1>15, <1>16, <1>17, <1>26

(* An address got or lost is told of an association that has been told. *)
LEMMA AddressedFaithful ==
  ASSUME Built(native), Faithful(native), native.idf.loop # <<>>,
         Current.kind \in {"GotIp", "LostIp"}, NEW m,
         Keeps(native, m, {"loop", "attempt", "candidates", "phase"}),
         m.idf.loop = Rest.idf.loop,
         \/ m.attempt = native.attempt
         \/ m.attempt = FALSE /\ native.idf.link = "Up",
         DOMAIN m.candidates = DOMAIN native.candidates,
         \A i \in DOMAIN native.candidates :
           m.candidates[i].ap = native.candidates[i].ap,
         \/ m.told.phase = native.told.phase
         \/ {m.told.phase, native.told.phase}
              \subseteq {"Associated", "AddressReady"}
  PROVE  /\ Faithful(m)
         /\ \A k : k \notin {"GotIp", "LostIp"} =>
              (Due(m, k) <=> Due(native, k))
<1>1. /\ Orderly(m.idf.loop, Bars)
      /\ \A k : Due(native, k) <=> (Due(m, k) \/ k = Current.kind)
      /\ Range(m.idf.loop) \subseteq Range(native.idf.loop)
  BY TakenIs
<1>2. \A k : k \notin {"GotIp", "LostIp"} => (Due(m, k) <=> Due(native, k))
  BY <1>1
<1>3. /\ m.told.phase \in Linked <=> native.told.phase \in Linked
      /\ \A p \in {"Idle", "Selecting", "Prepared", "Joining"} :
           m.told.phase = p <=> native.told.phase = p
  BY DEF Linked
<1>4. LoopTells(m)
  BY <1>1, <1>2, <1>3 DEF Faithful, LoopTells, Keeps
<1>5. PhaseTells(m)
  <2>1. m.attempt => native.attempt
    OBVIOUS
  <2>2. \/ m.attempt = native.attempt
        \/ native.told.phase \in Linked
    BY DEF Faithful, LoopTells
  <2>3. m.attempt = native.attempt \/ native.call.kind # "join"
    BY <2>2 DEF Faithful, PhaseTells, Linked
  <2>4. /\ m.selecting = native.selecting /\ m.call = native.call
        /\ m.prepared = native.prepared /\ m.idf.on = native.idf.on
        /\ m.told.leaving = native.told.leaving
        /\ m.cancelled = native.cancelled
        /\ m.told.enabled = native.told.enabled
    BY DEF Keeps
  <2> QED BY <1>3, <2>1, <2>3, <2>4 DEF Faithful, PhaseTells, Begins
<1>6. ScanIsOne(m)
  BY <1>2 DEF Faithful, ScanIsOne, Keeps
<1>7. AttemptIsOwn(m)
  BY <1>1 DEF Faithful, AttemptIsOwn, Keeps
<1>8. \A i \in DOMAIN m.candidates : NetworkOf[m.candidates[i].ap] = m.config
  BY DEF Faithful, NetworkIsOwn, Keeps
<1>9. NetworkIsOwn(m)
  BY <1>1, <1>8 DEF Faithful, NetworkIsOwn, Keeps
<1> QED BY <1>2, <1>4, <1>5, <1>6, <1>7, <1>9 DEF Faithful
LEMMA OnGotIpIs ==
  ASSUME Built(native), Faithful(native), OnGotIp
  PROVE  /\ Faithful(native')
         /\ \A k : k \notin {"GotIp", "LostIp"} =>
              (Due(native', k) <=> Due(native, k))
         /\ \/ /\ native.idf.link = "Up" /\ native.told.phase \in Linked
               /\ NetworkOf[native.idf.ap] = native.config
               /\ Keeps(native, native', {"loop", "attempt", "candidates",
                                          "phase"})
               /\ native'.told.phase = IF native.told.phase = "Associated"
                                       THEN "AddressReady"
                                       ELSE native.told.phase
               /\ mail' = post(mail, Event("AddressReady",
                                           NetworkOf[native.idf.ap], "Ok"))
            \/ Keeps(native, native', {"loop"}) /\ mail' = mail
<1>1. native.idf.loop # <<>> /\ Current.kind = "GotIp"
  BY DEF OnGotIp, Delivered, Current
<1>2. PICK r : r = Rest
  OBVIOUS
<1>3. Built(r) /\ Keeps(native, r, {"loop"}) /\ native \in Stations
  BY <1>1, <1>2, RestBuilt, RestIs DEF Built
<1>4. r.candidates = native.candidates /\ r.told.phase = native.told.phase
  BY <1>3 DEF Keeps
<1>5. CASE /\ native.idf.link = "Up" /\ native.idf.ip
           /\ native.idf.ap = native.selected
  <2>1. PICK cs : cs = Forgiven(native)
    OBVIOUS
  <2>2. PICK phase : phase = IF r.told.phase = "Associated"
                             THEN "AddressReady" ELSE r.told.phase
    OBVIOUS
  <2>3. PICK m : m = [r EXCEPT !.attempt = FALSE, !.candidates = cs,
                               !.told.phase = phase]
    OBVIOUS
  <2>4. cs = [i \in DOMAIN r.candidates |->
               IF r.candidates[i].ap = native.selected
               THEN [r.candidates[i] EXCEPT !.failures = 0, !.cooling = FALSE]
               ELSE r.candidates[i]]
    BY <1>4, <2>1 DEF Forgiven
  <2>5. /\ native' = m
        /\ mail' = post(mail, Event("AddressReady", NetworkOf[native.idf.ap],
                                    "Ok"))
    <3>1. m = [r EXCEPT
                 !.attempt = FALSE,
                 !.candidates = [i \in DOMAIN @ |->
                   IF @[i].ap = native.selected
                   THEN [@[i] EXCEPT !.failures = 0, !.cooling = FALSE]
                   ELSE @[i]],
                 !.told.phase = IF @ = "Associated" THEN "AddressReady"
                                                    ELSE @]
      BY <2>2, <2>3, <2>4, Zenon
    <3> QED BY <1>2, <1>5, <3>1, Zenon DEF OnGotIp, PostsEvent
  <2>6. /\ Keeps(r, m, {"attempt", "candidates", "phase"})
        /\ m.candidates = cs /\ m.told.phase = phase /\ m.idf.loop = r.idf.loop
    BY <1>3, <2>3 DEF Keeps, Built, Stations
  <2>7. m.attempt = FALSE
    BY <1>3, <2>3 DEF Built, Stations
  <2>8. Regarded(native.candidates, cs)
    BY <1>3, <2>1, ForgivenIs
  <2>9. Keeps(native, m, {"loop", "attempt", "candidates", "phase"})
    BY <1>3, <2>6 DEF Keeps
  <2>10. native.told.phase \in Linked /\ NetworkOf[native.idf.ap] = native.config
    BY <1>5 DEF Faithful, LoopTells, NetworkIsOwn
  <2>11. /\ Faithful(m)
         /\ \A k : k \notin {"GotIp", "LostIp"} =>
              (Due(m, k) <=> Due(native, k))
    <3>1. /\ DOMAIN m.candidates = DOMAIN native.candidates
          /\ \A i \in DOMAIN native.candidates :
               m.candidates[i].ap = native.candidates[i].ap
      BY <2>6, <2>8 DEF Regarded
    <3>2. \/ m.told.phase = native.told.phase
          \/ {m.told.phase, native.told.phase}
               \subseteq {"Associated", "AddressReady"}
      BY <1>4, <2>2, <2>6
    <3> QED
      BY <1>1, <1>2, <1>5, <2>6, <2>7, <2>9, <3>1, <3>2, AddressedFaithful
  <2> QED BY <1>4, <1>5, <2>2, <2>5, <2>6, <2>9, <2>10, <2>11
<1>6. CASE ~(/\ native.idf.link = "Up" /\ native.idf.ip
             /\ native.idf.ap = native.selected)
  <2>1. native' = r /\ mail' = mail
    BY <1>2, <1>6 DEF OnGotIp, Ignores
  <2>2. /\ r.attempt = native.attempt /\ r.candidates = native.candidates
        /\ r.told.phase = native.told.phase
        /\ Keeps(native, r, {"loop", "attempt", "candidates", "phase"})
    BY <1>3 DEF Keeps
  <2>3. /\ Faithful(r)
        /\ \A k : k \notin {"GotIp", "LostIp"} =>
             (Due(r, k) <=> Due(native, k))
    BY <1>1, <1>2, <2>2, AddressedFaithful
  <2> QED BY <1>3, <2>1, <2>3
<1> QED BY <1>5, <1>6

LEMMA OnLostIpIs ==
  ASSUME Built(native), Faithful(native), OnLostIp
  PROVE  /\ Faithful(native')
         /\ \A k : k \notin {"GotIp", "LostIp"} =>
              (Due(native', k) <=> Due(native, k))
         /\ \/ /\ Keeps(native, native', {"loop", "phase"})
               /\ native'.told.phase = IF native.told.phase = "AddressReady"
                                       THEN "Associated" ELSE native.told.phase
               /\ mail' = post(mail, Event("AddressLost", NoNetwork, "Ok"))
            \/ Keeps(native, native', {"loop"}) /\ mail' = mail
<1>1. native.idf.loop # <<>> /\ Current.kind = "LostIp"
  BY DEF OnLostIp, Delivered, Current
<1>2. PICK r : r = Rest
  OBVIOUS
<1>3. Built(r) /\ Keeps(native, r, {"loop"})
  BY <1>1, <1>2, RestBuilt, RestIs
<1>4. r.told.phase = native.told.phase
  BY <1>3 DEF Keeps
<1>5. ASSUME NEW m, Keeps(r, m, {"phase"}), m.idf.loop = r.idf.loop,
             \/ m.told.phase = native.told.phase
             \/ /\ native.told.phase = "AddressReady"
                /\ m.told.phase = "Associated"
      PROVE  /\ Faithful(m)
             /\ \A k : k \notin {"GotIp", "LostIp"} =>
                  (Due(m, k) <=> Due(native, k))
             /\ Keeps(native, m, {"loop", "phase"})
  <2>1. /\ Keeps(native, m, {"loop", "phase"})
        /\ Keeps(native, m, {"loop", "attempt", "candidates", "phase"})
        /\ m.attempt = native.attempt /\ m.candidates = native.candidates
    BY <1>3, <1>5 DEF Keeps
  <2>2. \/ m.told.phase = native.told.phase
        \/ {m.told.phase, native.told.phase}
             \subseteq {"Associated", "AddressReady"}
    BY <1>5
  <2> QED BY <1>1, <1>2, <1>5, <2>1, <2>2, AddressedFaithful
<1>6. CASE native.idf.ip
  <2>1. native' = r /\ mail' = mail
    BY <1>2, <1>6 DEF OnLostIp, Ignores
  <2>2. Keeps(r, r, {"phase"})
    BY DEF Keeps
  <2> QED BY <1>3, <1>4, <1>5, <2>1, <2>2
<1>7. CASE ~native.idf.ip
  <2>1. PICK phase : phase = IF r.told.phase = "AddressReady"
                             THEN "Associated" ELSE r.told.phase
    OBVIOUS
  <2>2. PICK m : m = [r EXCEPT !.told.phase = phase]
    OBVIOUS
  <2>3. m = [r EXCEPT !.told.phase = IF @ = "AddressReady"
                                     THEN "Associated" ELSE @]
    BY <2>1, <2>2, Zenon
  <2>4. native' = m /\ mail' = post(mail, Event("AddressLost", NoNetwork, "Ok"))
    BY <1>2, <1>7, <2>3, Zenon DEF OnLostIp, PostsEvent
  <2>5. Keeps(r, m, {"phase"}) /\ m.idf.loop = r.idf.loop /\ m.told.phase = phase
    BY <1>3, <2>2 DEF Keeps, Built, Stations
  <2> QED BY <1>4, <1>5, <2>1, <2>4, <2>5
<1> QED BY <1>6, <1>7
-----------------------------------------------------------------------------
(* ESP-IDF and the network keep the driver faithful *)

(* An address got or lost is in the loop, and nothing else that counts has *)
(* changed.                                                                *)
LEMMA AddressRaised ==
  ASSUME NEW n, Built(n), Faithful(n), NEW s, Built(s), Keeps(n, s, {}),
         NEW kind \in {"GotIp", "LostIp"}, NEW ap,
         IdfEvent(kind, ap, "None") \in RadioEvents,
         NEW m, m = Raise(s, kind, ap, "None")
  PROVE  /\ Faithful(m) /\ Keeps(n, m, {"loop"})
         /\ \A k : k # kind => (Due(m, k) <=> Due(n, k))
<1>1. Faithful(s)
  <2>1. \A k : Due(s, k) <=> Due(n, k)
    BY DEF Keeps, Due
  <2>2. LoopTells(s) /\ PhaseTells(s) /\ ScanIsOne(s)
    BY <2>1 DEF Faithful, LoopTells, PhaseTells, ScanIsOne, Keeps, Begins
  <2>3. AttemptIsOwn(s) /\ NetworkIsOwn(s)
    BY DEF Faithful, AttemptIsOwn, NetworkIsOwn, Keeps
  <2> QED BY <2>2, <2>3 DEF Faithful
<1>2. PICK e : e = IdfEvent(kind, ap, "None")
  OBVIOUS
<1>3. e \in RadioEvents /\ e.kind = kind
  BY <1>2 DEF IdfEvent
<1>4. Faithful(m)
  BY <1>1, RaisedFaithful
<1>5. /\ Keeps(s, m, {"loop"})
      /\ Range(m.idf.loop) = Range(s.idf.loop) \cup {e}
  BY <1>2, <1>3, RaiseIs
<1>6. Keeps(n, m, {"loop"}) /\ s.idf.loop = n.idf.loop
  BY <1>5 DEF Keeps
<1>7. \A k : k # kind => (Due(m, k) <=> Due(n, k))
  BY <1>3, <1>5, <1>6 DEF Due
<1> QED BY <1>4, <1>6, <1>7

(* An AP that is joined accepts. *)
LEMMA JoinsFaithful ==
  ASSUME Built(native), Faithful(native), NEW auth \in Joined, Joins(auth)
  PROVE  /\ Faithful(native') /\ Keeps(native, native', {"link", "loop"})
         /\ \A k : k # "Connected" => (Due(native', k) <=> Due(native, k))
<1>1. auth \in AuthMode /\ native.idf.ap \in Aps /\ native.idf.link = "Joining"
  BY Esp32Assumption DEF Joins, Built
<1>2. PICK idf : idf = [native.idf EXCEPT !.link = "Up", !.auth = auth]
  OBVIOUS
<1>3. PICK s : s = [native EXCEPT !.idf = idf]
  OBVIOUS
<1>4. s \in Stations
  <2>1. native \in Stations
    BY DEF Built
  <2>2. idf \in [on : BOOLEAN, scanning : BOOLEAN,
                 link : {"Down", "Joining", "Up"}, ap : Aps \cup {NoAp},
                 auth : AuthMode, ip : BOOLEAN, timer : BOOLEAN,
                 loop : Seq(IdfEvents)]
    BY <1>1, <1>2, <2>1 DEF Stations
  <2> QED BY <1>3, <2>1, <2>2 DEF Stations
<1>5. Built(s)
  BY <1>1, <1>2, <1>3, <1>4 DEF Built, Stations
<1>6. Keeps(native, s, {"link"}) /\ s.idf.link = "Up"
  BY <1>2, <1>3 DEF Keeps, Built, Stations
<1>7. s = [native EXCEPT !.idf.link = "Up", !.idf.auth = auth]
  BY <1>2, <1>3 DEF Built, Stations
<1>8. PICK e : e = IdfEvent("Connected", native.idf.ap, auth)
  OBVIOUS
<1>9. e \in RadioEvents /\ e.kind = "Connected" /\ e.ap = native.idf.ap
  BY <1>1, <1>8, RaiseKinds DEF IdfEvent
<1>10. PICK m : m = Raise(s, "Connected", native.idf.ap, auth)
  OBVIOUS
<1>11. native' = m
  BY <1>7, <1>10 DEF Joins, Raises
<1>12. /\ Keeps(s, m, {"loop"})
       /\ Range(m.idf.loop) = Range(s.idf.loop) \cup {e}
       /\ /\ Orderly(s.idf.loop, Bars)
          /\ \A k : <<k, "Connected">> \in Bars => ~Due(s, k)
          => Orderly(m.idf.loop, Bars)
  BY <1>5, <1>8, <1>9, <1>10, RaiseIs
<1>13. /\ Keeps(native, m, {"link", "loop"}) /\ m.idf.link = "Up"
       /\ s.idf.loop = native.idf.loop
  BY <1>6, <1>12 DEF Keeps
<1>14. \A k : Due(m, k) <=> Due(native, k) \/ k = "Connected"
  BY <1>9, <1>12, <1>13 DEF Due
<1>15. /\ native.told.phase = "Joining" /\ ~Due(native, "Connected")
       /\ ~Due(native, "Disconnected") /\ ~Due(native, "Stop")
       /\ NetworkOf[native.idf.ap] = native.config
  BY <1>1 DEF Faithful, LoopTells, NetworkIsOwn
<1>16. Orderly(m.idf.loop, Bars)
  <2>1. \A k : <<k, "Connected">> \in Bars =>
          k \in {"Disconnected", "Stop", "Connected"}
    BY DEF Bars, Switches
  <2>2. \A k : Due(s, k) <=> Due(native, k)
    BY <1>13 DEF Due
  <2> QED BY <1>12, <1>13, <1>15, <2>1, <2>2 DEF Faithful, LoopTells
<1>17. LoopTells(m)
  BY <1>13, <1>14, <1>15, <1>16 DEF Faithful, LoopTells, Keeps, Linked
<1>18. PhaseTells(m) /\ ScanIsOne(m)
  BY <1>13, <1>14 DEF Faithful, PhaseTells, ScanIsOne, Keeps, Begins
<1>19. AttemptIsOwn(m)
  BY <1>1, <1>9, <1>12, <1>13 DEF Faithful, AttemptIsOwn, Keeps
<1>20. NetworkIsOwn(m)
  BY <1>1, <1>9, <1>12, <1>13 DEF Faithful, NetworkIsOwn, Keeps
<1> QED
  BY <1>11, <1>13, <1>14, <1>17, <1>18, <1>19, <1>20 DEF Faithful

LEMMA HappensIs ==
  ASSUME Built(native), Faithful(native), Happens
  PROVE  /\ Faithful(native') /\ mail' = mail /\ native.attached
         /\ Keeps(native, native', {"scanning", "link", "ap", "loop"})
         /\ \A k \in Switches : Due(native', k) <=> Due(native, k)
<1>1. mail' = mail
  BY HappensBuilt
<1>2. native.attached
  BY DEF Happens, ScanFinishes, Joins, Loses, GetsIp, LeaseEnds, LossTimer,
         Raises
<1>3. ASSUME NEW changed, Keeps(native, native', changed),
             changed \subseteq {"scanning", "link", "ap", "loop"}
      PROVE  Keeps(native, native', {"scanning", "link", "ap", "loop"})
  BY <1>3 DEF Keeps
<1>4. CASE ScanFinishes
  <2>1. /\ Faithful(native') /\ Keeps(native, native', {"scanning", "loop"})
        /\ \A k : k # "ScanDone" => (Due(native', k) <=> Due(native, k))
    BY <1>4, ScanEndedFaithful DEF ScanFinishes, Raises
  <2> QED BY <1>1, <1>2, <1>3, <2>1 DEF Switches
<1>5. ASSUME NEW auth \in Joined, Joins(auth)
      PROVE  /\ Faithful(native')
             /\ Keeps(native, native', {"scanning", "link", "ap", "loop"})
             /\ \A k \in Switches : Due(native', k) <=> Due(native, k)
  BY <1>3, <1>5, JoinsFaithful DEF Switches
<1>6. ASSUME NEW reason \in Reasons, Loses(reason)
      PROVE  /\ Faithful(native')
             /\ Keeps(native, native', {"scanning", "link", "ap", "loop"})
             /\ \A k \in Switches : Due(native', k) <=> Due(native, k)
  <2>1. reason \in DisconnectReason /\ reason # "ASSOC_LEAVE"
    BY Esp32Assumption
  <2>2. /\ Faithful(native') /\ Keeps(native, native', {"link", "ap", "loop"})
        /\ \A k : Due(native', k) <=> Due(native, k) \/ k = "Disconnected"
    BY <1>6, <2>1, EndedFaithful DEF Loses, Raises
  <2> QED BY <1>3, <2>2 DEF Switches
<1>7. ASSUME NEW s, Built(s), Keeps(native, s, {}),
             NEW kind \in {"GotIp", "LostIp"}, NEW ap \in Aps \cup {NoAp},
             kind = "GotIp" => ap \in Aps,
             native' = Raise(s, kind, ap, "None")
      PROVE  /\ Faithful(native')
             /\ Keeps(native, native', {"scanning", "link", "ap", "loop"})
             /\ \A k \in Switches : Due(native', k) <=> Due(native, k)
  <2>1. IdfEvent(kind, ap, "None") \in RadioEvents
    BY <1>7 DEF IdfEvent, RadioEvents, IdfEvents
  <2>2. /\ Faithful(native') /\ Keeps(native, native', {"loop"})
        /\ \A k : k # kind => (Due(native', k) <=> Due(native, k))
    BY <1>7, <2>1, AddressRaised
  <2> QED BY <1>3, <1>7, <2>2 DEF Switches
<1>8. ASSUME NEW ip \in BOOLEAN
      PROVE  /\ Built([native EXCEPT !.idf.ip = ip])
             /\ Keeps(native, [native EXCEPT !.idf.ip = ip], {})
  <2>1. PICK s : s = [native EXCEPT !.idf.ip = ip]
    OBVIOUS
  <2>2. Keeps(native, s, {})
    BY <2>1 DEF Keeps, Built, Stations
  <2> QED BY <2>1, <2>2, AddressBuilt
<1>9. CASE GetsIp
  <2>1. native.idf.ap \in Aps
    BY <1>9 DEF GetsIp, Built
  <2>2. native' = Raise([native EXCEPT !.idf.ip = TRUE], "GotIp",
                        native.idf.ap, "None")
    BY <1>9 DEF GetsIp, Raises
  <2> QED BY <1>1, <1>2, <1>7, <1>8, <2>1, <2>2
<1>10. CASE LeaseEnds
  <2>1. native' = Raise([native EXCEPT !.idf.ip = FALSE], "LostIp", NoAp,
                        "None")
    BY <1>10 DEF LeaseEnds, Raises
  <2> QED BY <1>1, <1>2, <1>7, <1>8, <2>1
<1>11. CASE LossTimer
  <2>1. PICK s : s = [native EXCEPT !.idf.timer = FALSE]
    OBVIOUS
  <2>2. Keeps(native, s, {})
    BY <2>1 DEF Keeps, Built, Stations
  <2>3. Built(s)
    BY <2>1, TimerBuilt
  <2>4. native' = Raise(s, "LostIp", NoAp, "None")
    BY <1>11, <2>1 DEF LossTimer, Raises
  <2> QED BY <1>1, <1>2, <1>7, <2>2, <2>3, <2>4
<1> QED
  BY <1>1, <1>2, <1>4, <1>5, <1>6, <1>9, <1>10, <1>11 DEF Happens
-----------------------------------------------------------------------------
(* The promises *)

(* Adapter and driver keep their types, whatever the commands, the event   *)
(* loop and the radio do, and the loop of rememberCandidates() fills the   *)
(* candidate slots without growing beyond them (esp32/idf_interface.cpp).  *)
THEOREM TypesAreKept == Spec => []TypeOK
<1>1. InterfaceInv => TypeOK
  BY Typed DEF InterfaceInv, Built, TypeOK
<1> QED BY <1>1, Invariant, PTL

(* In front of the ESP32 driver too, the sink has been told of everything  *)
(* by the time process() returns to the scheduler (ordered_interface.cpp). *)
THEOREM NothingGoesUnreported == Spec => []NothingUnreported
<1>1. InterfaceInv => NothingUnreported
  BY Reports DEF InterfaceInv
<1> QED BY <1>1, Invariant, PTL

(* Every completion finishStation() and finishScan() deliver behind the    *)
(* ESP32 driver is that of the outstanding command, with an outcome its    *)
(* physical state earns.                                                   *)
THEOREM OutcomesAreEarned == Spec => []ResultsAreEarned
<1>1. InterfaceInv => ResultsAreEarned
  BY Earned DEF InterfaceInv
<1> QED BY <1>1, Invariant, PTL

(* drain() settles the station command and the scan when the ESP32 driver  *)
(* posted more than the queue holds.                                       *)
THEOREM OverflowsSettle == Spec => []OverflowSettlesAll
<1>1. InterfaceInv => OverflowSettlesAll
  BY Overflow DEF InterfaceInv
<1> QED BY <1>1, Invariant, PTL

(* credentials_ is empty whenever no admitted connect waits to be started, *)
(* also on every answer the ESP32 driver gives.                            *)
THEOREM CredentialsAreCleared == Spec => []CredentialsAreShortLived
<1>1. InterfaceInv => CredentialsAreShortLived
  BY ShortLived DEF InterfaceInv
<1> QED BY <1>1, Invariant, PTL

(* The adapter in front of the ESP32 driver implements the contract of     *)
(* Interface that Controller.tla runs against.                             *)
THEOREM ContractKept == Spec => ContractSpec
<1>1. Init => radio = NewRadio
  BY InitInv DEF Init
<1>2. InterfaceInv /\ [Next]_vars => [ContractNext]_radio
  BY StepKept DEF Kept
<1> QED BY <1>1, <1>2, Invariant, PTL DEF Spec, ContractSpec

(* Whatever a scan finds and whenever the driver looks at the clock:       *)
(* rememberCandidates() keeps only APs whose security the policy allows,   *)
(* as many as it has slots for, those that are not cooling before those    *)
(* that are and the stronger first, none left out that precedes one kept,  *)
(* each with the failures and the penalty that still count for it; and     *)
(* selectCandidate() takes the first unless all are cooling.               *)
THEOREM BestIsSelected == Spec => []SelectionIsBest
<1>1. InterfaceInv => SelectionIsBest
  BY SelectsBest DEF InterfaceInv
<1> QED BY <1>1, Invariant, PTL

(* selecting_ and scan_active_ are set only while a vendor call is about   *)
(* to begin the scan, the scan runs or its ScanDone is in the event loop:  *)
(* no other event, no answer and no shutdown leaves the driver busy for    *)
(* good.                                                                   *)
THEOREM ScansAreOwed == Spec => []BusyOnlyWhileScanning
<1>1. BusyInv => BusyOnlyWhileScanning
  BY DEF BusyInv, Owed, ScanDue, BusyOnlyWhileScanning
<1> QED BY <1>1, BusyInvariant, PTL

==============================================================================
