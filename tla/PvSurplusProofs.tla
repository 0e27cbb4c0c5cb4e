-------------------------- MODULE PvSurplusProofs --------------------------
(***************************************************************************)
(* Proofs about the PV surplus tracker: types, the average covers exactly  *)
(* the usable readings of the window, and the wallbox's own draw cancels   *)
(* out of it.                                                              *)
(***************************************************************************)
EXTENDS PvSurplus, SumTheorems

Reading == [lead : Nat, value : Int]
\* The stamps of the readings in s, and the values.
Readings(s) == {<<s[k].lead, s[k].value>> : k \in DOMAIN s}
\* The oldest reading first, no two of one time.
Falling(s) == \A j, k \in DOMAIN s : j < k => s[j].lead > s[k].lead

-----------------------------------------------------------------------------
(* The moving average. *)

\* prune keeps exactly the readings younger than the window.
LEMMA PruneKeepsYoung ==
    ASSUME NEW s \in Seq(Reading), Falling(s)
    PROVE  /\ Prune(s) \in Seq(Reading) /\ Falling(Prune(s))
           /\ Readings(Prune(s)) =
              {<<s[k].lead, s[k].value>> : k \in {j \in DOMAIN s : s[j].lead < Window}}
<1> DEFINE young == {k \in 1..Len(s) : s[k].lead < Window}
<1>1. /\ DOMAIN s = 1..Len(s) /\ Len(s) \in Nat
      /\ \A k \in 1..Len(s) : s[k] \in Reading
  OBVIOUS
<1>2. CASE young = {}
  <2>1. Prune(s) = <<>>  BY <1>2 DEF Prune
  <2> QED  BY <1>1, <1>2, <2>1 DEF Readings, Falling
<1>3. CASE young # {}
  <2> DEFINE c == CHOOSE k \in young : \A j \in young : k <= j
  <2>1. c \in young /\ \A j \in young : c <= j
    <3>1. young \subseteq Nat  OBVIOUS
    <3> HIDE DEF young
    <3>2. \E k \in young : \A j \in young : k <= j  BY <1>3, <3>1, Least
    <3> QED  BY <3>2
  <2>2. Prune(s) = SubSeq(s, c, Len(s))  BY <1>3 DEF Prune
  <2> HIDE DEF c
  <2>3. c \in 1..Len(s) /\ s[c].lead < Window  BY <2>1
  <2>4. /\ Prune(s) \in Seq(Reading)
        /\ DOMAIN Prune(s) = 1..(Len(s) - c + 1)
        /\ \A k \in 1..(Len(s) - c + 1) : Prune(s)[k] = s[k + c - 1]
    BY <1>1, <2>2, <2>3
  <2>5. young = c..Len(s)
    <3>1. ASSUME NEW k \in c..Len(s) PROVE k \in young
      <4>1. k \in 1..Len(s) /\ (k = c \/ c < k)  BY <1>1, <2>3
      <4>2. k = c \/ s[c].lead > s[k].lead  BY <1>1, <2>3, <4>1 DEF Falling
      <4>3. s[c].lead \in Nat /\ s[k].lead \in Nat  BY <1>1, <2>3, <4>1 DEF Reading
      <4> QED  BY <2>3, <4>1, <4>2, <4>3, WindowAssumption
    <3> QED  BY <1>1, <2>1, <2>3, <3>1
  <2>6. Falling(Prune(s))
    <3>1. SUFFICES ASSUME NEW j \in 1..(Len(s) - c + 1), NEW k \in 1..(Len(s) - c + 1), j < k
                   PROVE  Prune(s)[j].lead > Prune(s)[k].lead
      BY <2>4 DEF Falling
    <3>2. j + c - 1 \in 1..Len(s) /\ k + c - 1 \in 1..Len(s) /\ j + c - 1 < k + c - 1
      BY <1>1, <2>3, <3>1
    <3>3. s[j + c - 1].lead > s[k + c - 1].lead  BY <1>1, <3>2 DEF Falling
    <3> QED  BY <2>4, <3>3
  <2>7. Readings(Prune(s)) = {<<s[k].lead, s[k].value>> : k \in young}
    <3>1. ASSUME NEW k \in young
          PROVE  \E i \in DOMAIN Prune(s) : Prune(s)[i] = s[k]
      <4>1. k - c + 1 \in 1..(Len(s) - c + 1) /\ (k - c + 1) + c - 1 = k
        BY <1>1, <2>3, <2>5
      <4> QED  BY <2>4, <4>1
    <3>2. ASSUME NEW i \in DOMAIN Prune(s)
          PROVE  \E k \in young : Prune(s)[i] = s[k]
      <4>1. i + c - 1 \in c..Len(s)  BY <1>1, <2>3, <2>4
      <4> QED  BY <2>4, <2>5, <4>1
    <3> HIDE DEF young
    <3> QED  BY <3>1, <3>2 DEF Readings
  <2> QED  BY <1>1, <2>4, <2>6, <2>7
<1> QED  BY <1>2, <1>3

\* Time passes for every reading alike.
Aged(s, elapsed) == [k \in DOMAIN s |-> [s[k] EXCEPT !.lead = @ + elapsed]]
LEMMA AgedReadings ==
    ASSUME NEW s \in Seq(Reading), Falling(s), NEW elapsed \in Nat
    PROVE  /\ Aged(s, elapsed) \in Seq(Reading) /\ Falling(Aged(s, elapsed))
           /\ DOMAIN Aged(s, elapsed) = DOMAIN s
           /\ \A k \in DOMAIN s : /\ Aged(s, elapsed)[k].lead = s[k].lead + elapsed
                                  /\ Aged(s, elapsed)[k].value = s[k].value
<1>1. /\ DOMAIN s = 1..Len(s) /\ Len(s) \in Nat
      /\ \A k \in DOMAIN s : s[k].lead \in Nat /\ s[k].value \in Int /\ s[k] \in Reading
  <2>1. DOMAIN s = 1..Len(s) /\ Len(s) \in Nat /\ \A k \in DOMAIN s : s[k] \in Reading
    OBVIOUS
  <2> QED  BY <2>1 DEF Reading
<1>2. \A k \in DOMAIN s : [s[k] EXCEPT !.lead = @ + elapsed] \in Reading
  BY <1>1 DEF Reading
<1>3. Aged(s, elapsed) \in Seq(Reading)  BY <1>1, <1>2 DEF Aged
<1>4. DOMAIN Aged(s, elapsed) = DOMAIN s  BY DEF Aged
<1>5. \A k \in DOMAIN s : /\ Aged(s, elapsed)[k].lead = s[k].lead + elapsed
                          /\ Aged(s, elapsed)[k].value = s[k].value
  BY <1>1 DEF Aged, Reading
<1>6. Falling(Aged(s, elapsed))  BY <1>1, <1>4, <1>5 DEF Falling
<1> QED  BY <1>3, <1>4, <1>5, <1>6

-----------------------------------------------------------------------------
(* One sample. *)

TrackerInv == TypeOK /\ AverageOfWindow

\* Whatever the reading is, the average covers the window after the sample.
LEMMA TakeSampleKeeps ==
    ASSUME TrackerInv, NEW elapsed \in Nat \ {0}, NEW states, NEW surplus \in Surpluses,
           ReadSample(states) \in Int \cup {None},
           TakeSample(elapsed, states, surplus)
    PROVE  TrackerInv'
<1> DEFINE sample == ReadSample(states)
           aged == Aged(samples, elapsed)
           kept == Prune(aged)
           older == {[r EXCEPT !.age = @ + elapsed] : r \in recent}
           instant == [age |-> 0, value |-> sample, surplus |-> surplus,
                       current |-> draw = power]
           Instant == [age : Nat, value : Int \cup {None},
                       surplus : Surpluses, current : BOOLEAN]
<1>1. /\ samples' = Added(kept, sample)
      /\ lastSample' = IF sample = None THEN lastSample ELSE sample
      /\ recent' = {r \in older : r.age < Window} \cup {instant}
      /\ UNCHANGED <<draw, power, ok>>
  BY DEF TakeSample, Aged
<1>2. sample \in Int \cup {None}  OBVIOUS
<1> HIDE DEF sample
<1>3. /\ samples \in Seq(Reading) /\ Falling(samples)
      /\ Readings(samples) = {<<r.age, r.value>> : r \in Usable}
      /\ recent \subseteq Instant
  BY DEF TrackerInv, TypeOK, AverageOfWindow, Readings, Falling, Reading
<1>4. /\ aged \in Seq(Reading) /\ Falling(aged) /\ DOMAIN aged = DOMAIN samples
      /\ \A k \in DOMAIN samples : /\ aged[k].lead = samples[k].lead + elapsed
                                   /\ aged[k].value = samples[k].value
  BY <1>3, AgedReadings
<1> HIDE DEF aged
<1>5. /\ kept \in Seq(Reading) /\ Falling(kept)
      /\ Readings(kept) =
         {<<aged[k].lead, aged[k].value>> : k \in {j \in DOMAIN aged : aged[j].lead < Window}}
  BY <1>4, PruneKeepsYoung
<1> HIDE DEF kept
<1>6. older \subseteq Instant /\ instant \in Instant
  <2>1. ASSUME NEW r \in Instant PROVE [r EXCEPT !.age = @ + elapsed] \in Instant
    OBVIOUS
  <2>2. instant \in Instant  BY <1>2
  <2> HIDE DEF instant, Instant
  <2> QED  BY <1>3, <2>1, <2>2
<1>7. Readings(kept) = {<<r.age, r.value>> : r \in {q \in older : q.age < Window /\ q.value # None}}
  <2>1. ASSUME NEW k \in DOMAIN samples, aged[k].lead < Window
        PROVE  \E r \in older : /\ r.age < Window /\ r.value # None
                                /\ r.age = aged[k].lead /\ r.value = aged[k].value
    <3>1. PICK r \in Usable : <<samples[k].lead, samples[k].value>> = <<r.age, r.value>>
      BY <1>3 DEF Readings
    <3>2. r \in recent /\ r \in Instant /\ r.value # None  BY <1>3, <3>1 DEF Usable
    <3> DEFINE q == [r EXCEPT !.age = @ + elapsed]
    <3>3. q.age = r.age + elapsed /\ q.value = r.value  BY <3>2
    <3>4. q \in older  BY <3>2
    <3> HIDE DEF q
    <3> QED  BY <1>4, <2>1, <3>1, <3>2, <3>3, <3>4
  <2>2. ASSUME NEW q \in older, q.age < Window, q.value # None
        PROVE  \E k \in DOMAIN samples : /\ aged[k].lead < Window
                                         /\ q.age = aged[k].lead /\ q.value = aged[k].value
    <3>1. PICK r \in recent : q = [r EXCEPT !.age = @ + elapsed]  OBVIOUS
    <3>2. r \in Instant /\ q.age = r.age + elapsed /\ q.value = r.value  BY <1>3, <3>1
    <3>3. r \in Usable  BY <2>2, <3>2 DEF Usable
    <3>4. PICK k \in DOMAIN samples : <<samples[k].lead, samples[k].value>> = <<r.age, r.value>>
      BY <1>3, <3>3 DEF Readings
    <3> QED  BY <1>4, <2>2, <3>2, <3>4
  <2> HIDE DEF older
  <2> DEFINE used == {q \in older : q.age < Window /\ q.value # None}
             young == {j \in DOMAIN aged : aged[j].lead < Window}
  <2>3. ASSUME NEW k \in young
        PROVE  \E r \in used : <<aged[k].lead, aged[k].value>> = <<r.age, r.value>>
    BY <1>4, <2>1
  <2>4. ASSUME NEW q \in used
        PROVE  \E k \in young :
                  <<q.age, q.value>> = <<aged[k].lead, aged[k].value>>
    BY <1>4, <2>2
  <2>5. Readings(kept) = {<<aged[k].lead, aged[k].value>> : k \in young}  BY <1>5
  <2> HIDE DEF used, young
  <2>6. Readings(kept) = {<<r.age, r.value>> : r \in used}
    BY <2>3, <2>4, <2>5
  <2> QED  BY <2>6 DEF used
<1> HIDE DEF older
<1>8. /\ samples' \in Seq(Reading) /\ Falling(samples')
      /\ Readings(samples') = IF sample = None THEN Readings(kept)
                              ELSE Readings(kept) \cup {<<0, sample>>}
  <2>1. CASE sample = None  BY <1>1, <1>5, <2>1 DEF Added
  <2>2. CASE sample # None
    <3> DEFINE new == [lead |-> 0, value |-> sample]
    <3>1. sample \in Int /\ new \in Reading  BY <1>2, <2>2 DEF Reading
    <3>2. samples' = Append(kept, new)  BY <1>1, <2>2 DEF Added
    <3>3. new.lead = 0 /\ new.value = sample  OBVIOUS
    <3> HIDE DEF new
    <3>4. /\ samples' \in Seq(Reading) /\ Len(kept) \in Nat /\ DOMAIN kept = 1..Len(kept)
          /\ DOMAIN samples' = 1..(Len(kept) + 1)
          /\ \A k \in 1..Len(kept) : samples'[k] = kept[k]
          /\ samples'[Len(kept) + 1] = new
      BY <1>5, <3>1, <3>2
    <3>5. \A k \in DOMAIN kept : kept[k].lead > 0
      <4>1. SUFFICES ASSUME NEW k \in DOMAIN kept PROVE kept[k].lead > 0  OBVIOUS
      <4>2. <<kept[k].lead, kept[k].value>> \in Readings(kept)  BY DEF Readings
      <4>3. PICK j \in DOMAIN aged : kept[k].lead = aged[j].lead  BY <1>5, <4>2
      <4>4. samples[j] \in Reading /\ aged[j].lead = samples[j].lead + elapsed
        BY <1>3, <1>4
      <4>5. samples[j].lead \in Nat  BY <4>4 DEF Reading
      <4> QED  BY <4>3, <4>4, <4>5
    <3>6. Falling(samples')
      <4>1. SUFFICES ASSUME NEW j \in DOMAIN samples', NEW k \in DOMAIN samples', j < k
                     PROVE  samples'[j].lead > samples'[k].lead
        BY DEF Falling
      <4>2. j \in DOMAIN kept /\ (k \in DOMAIN kept \/ k = Len(kept) + 1)  BY <3>4, <4>1
      <4> QED  BY <1>5, <3>3, <3>4, <3>5, <4>1, <4>2 DEF Falling
    <3>7. Readings(samples') = Readings(kept) \cup {<<0, sample>>}
      <4>1. ASSUME NEW k \in DOMAIN samples'
            PROVE  <<samples'[k].lead, samples'[k].value>> \in Readings(kept) \cup {<<0, sample>>}
        <5>1. k \in DOMAIN kept \/ k = Len(kept) + 1  BY <3>4
        <5> QED  BY <3>3, <3>4, <5>1 DEF Readings
      <4>2. ASSUME NEW k \in DOMAIN kept
            PROVE  k \in DOMAIN samples' /\ samples'[k] = kept[k]
        BY <3>4
      <4>3. Len(kept) + 1 \in DOMAIN samples'  BY <3>4
      <4> QED  BY <3>3, <3>4, <4>1, <4>2, <4>3 DEF Readings
    <3> QED  BY <2>2, <3>4, <3>6, <3>7
  <2> QED  BY <2>1, <2>2
<1>9. {<<r.age, r.value>> : r \in Usable'} =
        IF sample = None THEN Readings(kept) ELSE Readings(kept) \cup {<<0, sample>>}
  <2>1. Usable' = {r \in older : r.age < Window /\ r.value # None} \cup
                    (IF sample = None THEN {} ELSE {instant})
    BY <1>1 DEF Usable
  <2>2. instant.age = 0 /\ instant.value = sample  OBVIOUS
  <2> HIDE DEF instant
  <2> QED  BY <1>7, <2>1, <2>2
<1>10. TypeOK'
  <2>1. recent' \subseteq Instant  BY <1>1, <1>6
  <2> QED  BY <1>1, <1>2, <1>8, <2>1 DEF TypeOK, TrackerInv, Reading
<1>11. AverageOfWindow'
  BY <1>8, <1>9 DEF AverageOfWindow, Readings, Falling
<1> QED  BY <1>10, <1>11 DEF TrackerInv

-----------------------------------------------------------------------------
(* One reading of every source. *)

\* What a sampling instant may find: all sources usable, or one that is not.
Found(surplus, carrier, broken, state) ==
    /\ surplus \in Surpluses /\ carrier \in Carriers(surplus - draw)
    /\ \/ broken = None
       \/ broken \in Entities /\ state \in UnusableStates

\* The factor of a unit, and the units of the entities.
LEMMA Units ==
    /\ \A unit \in DOMAIN UnitFactors : UnitFactors[unit] \in Nat /\ UnitFactors[unit] > 0
    /\ \A e \in Entities : UnitOf[e] = None \/ UnitOf[e] \in DOMAIN UnitFactors
<1>1. /\ UnitFactors \in [DOMAIN UnitFactors -> Nat \ {0}]
      /\ UnitOf \in [Entities -> DOMAIN UnitFactors \cup {None}]
  BY EntityAssumption
<1> QED  BY <1>1

\* A reading is a number, or unusable.
LEMMA ReadPowerWType ==
    ASSUME NEW state, state.value \in Int \cup {None}
    PROVE  ReadPowerW(state) \in Int \cup {None}
<1>1. CASE state.value = None \/ state.unit = None  BY <1>1 DEF ReadPowerW
<1>2. CASE /\ state.value # None /\ state.unit # None
           /\ state.unit \in DOMAIN UnitFactors
  BY <1>2, Units DEF ReadPowerW
<1>3. CASE /\ state.value # None /\ state.unit # None
           /\ state.unit \notin DOMAIN UnitFactors
  BY <1>3 DEF ReadPowerW
<1> QED  BY <1>1, <1>2, <1>3

\* What an entity shows of a power in its own unit is read as that power.
LEMMA ShownIsRead ==
    ASSUME NEW watts \in Int, NEW e \in Entities,
           UnitOf[e] # None => watts % UnitFactors[UnitOf[e]] = 0
    PROVE  ReadPowerW(Shown(watts, e)) = watts
<1>1. None \notin Int  BY EntityAssumption
<1>2. CASE UnitOf[e] = None
  BY <1>1, <1>2 DEF ReadPowerW, Shown
<1>3. CASE UnitOf[e] # None
  <2>1. PICK f \in Nat : f = UnitFactors[UnitOf[e]] /\ f > 0  BY <1>3, Units
  <2>2. watts \div f \in Int /\ watts = (watts \div f) * f + (watts % f)
    BY <2>1, Division
  <2>3. (watts \div f) * f = watts  BY <1>3, <2>1, <2>2
  <2>4. ReadPowerW(Shown(watts, e)) = (watts \div f) * f
    BY <1>1, <1>3, <2>1, <2>2, Units DEF ReadPowerW, Shown
  <2> QED  BY <2>3, <2>4
<1> QED  BY <1>2, <1>3

\* Every entity shows a number or None.
LEMMA StatesShown ==
    ASSUME draw \in Draws \cup {0}, NEW surplus, NEW carrier, NEW broken, NEW state,
           Found(surplus, carrier, broken, state)
    PROVE  \A e \in Entities :
              EntityStates(surplus - draw, carrier, broken, state)[e].value \in Int \cup {None}
<1>1. surplus \in Int /\ draw \in Int /\ surplus - draw \in Int
  <2>1. surplus \in Surpluses /\ draw \in Draws \cup {0}  BY DEF Found
  <2>2. surplus \in Int /\ draw \in Int  BY <2>1, PowerAssumption
  <2> QED  BY <2>2
<1>2. \A watts \in Int, e \in Entities : Shown(watts, e).value \in Int
  <2> SUFFICES ASSUME NEW watts \in Int, NEW e \in Entities PROVE Shown(watts, e).value \in Int
    OBVIOUS
  <2>1. CASE UnitOf[e] = None  BY <2>1 DEF Shown
  <2>2. CASE UnitOf[e] # None
    <3>1. PICK f \in Nat : f = UnitFactors[UnitOf[e]] /\ f > 0  BY <2>2, Units
    <3>2. watts \div f \in Int  BY <3>1, Division
    <3> QED  BY <2>2, <3>1, <3>2 DEF Shown
  <2> QED  BY <2>1, <2>2
<1>3. \A s \in UnusableStates : s.value \in Int \cup {None}  BY DEF UnusableStates
<1> SUFFICES ASSUME NEW e \in Entities
             PROVE  EntityStates(surplus - draw, carrier, broken, state)[e].value \in Int \cup {None}
  OBVIOUS
<1>4. CASE e = broken
  <2>1. state \in UnusableStates  BY <1>4, EntityAssumption DEF Found
  <2> QED  BY <1>3, <1>4, <2>1 DEF EntityStates
<1>5. CASE e # broken
  BY <1>1, <1>2, <1>5 DEF EntityStates
<1> QED  BY <1>4, <1>5

\* A sample is a number, or skipped.
LEMMA ReadSampleType ==
    ASSUME power \in Int, NEW states,
           \A e \in Entities : states[e].value \in Int \cup {None}
    PROVE  ReadSample(states) \in Int \cup {None}
<1> DEFINE import == ReadOptional(states, "import")
           discharge == ReadOptional(states, "discharge")
           feeds == [e \in FeedIns |-> ReadPowerW(states[e])]
<1>1. \A e \in Entities : ReadPowerW(states[e]) \in Int \cup {None}  BY ReadPowerWType
<1>2. import \in Int \cup {None} /\ discharge \in Int \cup {None}
  BY <1>1 DEF ReadOptional, Entities
<1>3. \A e \in FeedIns : feeds[e] \in Int \cup {None}  BY <1>1 DEF Entities
<1>4. CASE ~ok \/ None \in Range(feeds) \cup {import, discharge}
  BY <1>4 DEF ReadSample
<1>5. CASE ~(~ok \/ None \in Range(feeds) \cup {import, discharge})
  <2>1. import \in Int /\ discharge \in Int  BY <1>2, <1>5
  <2>2. \A e \in FeedIns : feeds[e] # None  BY <1>5 DEF Range
  <2>3. feeds \in [FeedIns -> Int]  BY <1>3, <2>2
  <2>4. SumFunction(feeds) \in Int  BY <2>3, EntityAssumption, SumType
  <2>5. ReadSample(states) = SumFunction(feeds) - import - discharge + power
    BY <1>5 DEF ReadSample
  <2> QED  BY <2>1, <2>4, <2>5
<1> QED  BY <1>4, <1>5

(***************************************************************************)
(* With all sources configured a sample is skipped, or it is what the      *)
(* house has left over, less the error of the copy of the charging power.  *)
(***************************************************************************)
LEMMA ReadSampleHonest ==
    ASSUME TypeOK, Optional = {"import", "discharge"},
           NEW surplus, NEW carrier, NEW broken, NEW state,
           Found(surplus, carrier, broken, state),
           NEW sample,
           sample = ReadSample(EntityStates(surplus - draw, carrier, broken, state))
    PROVE  sample = None \/ sample = surplus - draw + power
<1> DEFINE net == surplus - draw
           states == EntityStates(net, carrier, broken, state)
           import == ReadPowerW(states["import"])
           discharge == ReadPowerW(states["discharge"])
           feeds == [e \in FeedIns |-> ReadPowerW(states[e])]
           shown == IF net >= 0 THEN net ELSE -net
<1>1. /\ surplus \in Int /\ draw \in Int /\ power \in Int /\ net \in Int
      /\ draw \in Draws \cup {0} /\ surplus \in Surpluses
  BY PowerAssumption DEF Found, TypeOK
<1>2. /\ \A e \in FeedIns : e \in Entities /\ e # "import" /\ e # "discharge"
      /\ "import" \in Entities /\ "discharge" \in Entities /\ "import" # "discharge"
      /\ None \notin Entities
  BY EntityAssumption DEF Entities
<1>3. sample = IF ~ok \/ None \in Range(feeds) \cup {import, discharge} THEN None
               ELSE SumFunction(feeds) - import - discharge + power
  BY DEF ReadSample, ReadOptional
<1>4. CASE broken \in Entities
  <2>1. state \in UnusableStates  BY <1>2, <1>4 DEF Found
  <2>2. ReadPowerW(state) = None
    BY <2>1, EntityAssumption DEF UnusableStates, ReadPowerW
  <2>3. ReadPowerW(states[broken]) = None  BY <1>4, <2>2 DEF EntityStates
  <2>4. CASE broken \in FeedIns
    <3>1. feeds[broken] = None  BY <2>3, <2>4
    <3>2. None \in Range(feeds)  BY <2>4, <3>1 DEF Range
    <3> QED  BY <1>3, <3>2
  <2>5. CASE broken \in {"import", "discharge"}  BY <1>3, <2>3, <2>5
  <2> QED  BY <1>4, <2>4, <2>5 DEF Entities
<1>5. CASE broken = None
  <2>1. \A e \in Entities : states[e] = Shown(IF e = carrier THEN shown ELSE 0, e)
    BY <1>2, <1>5 DEF EntityStates
  <2>2. shown \in Int  BY <1>1
  <2>3. \A e \in Entities : UnitOf[e] # None =>
           0 % UnitFactors[UnitOf[e]] = 0 /\ shown % UnitFactors[UnitOf[e]] = 0
    <3> SUFFICES ASSUME NEW e \in Entities, UnitOf[e] # None
                 PROVE  /\ 0 % UnitFactors[UnitOf[e]] = 0
                        /\ shown % UnitFactors[UnitOf[e]] = 0
      OBVIOUS
    <3>1. PICK f \in Nat : f = UnitFactors[UnitOf[e]] /\ f > 0  BY Units
    <3>2. net % f = 0  BY <1>1, <3>1, PowerAssumption
    <3>3. 0 % f = 0
      <4>1. 0 = 0 * f + 0 /\ 0 \in 0..(f - 1)  BY <3>1
      <4> QED  BY <3>1, <4>1, DivisionUnique
    <3>4. (-net) % f = 0
      <4>1. PICK q \in Int : net = q * f
        <5>1. net \div f \in Int /\ net = (net \div f) * f + (net % f)
          BY <1>1, <3>1, Division
        <5>2. net = (net \div f) * f  BY <1>1, <3>1, <3>2, <5>1
        <5> HIDE DEF net
        <5> QED  BY <5>1, <5>2
      <4>2. -net = (-q) * f + 0 /\ 0 \in 0..(f - 1) /\ -q \in Int /\ -net \in Int
        BY <1>1, <3>1, <4>1
      <4> QED  BY <3>1, <4>2, DivisionUnique
    <3> QED  BY <3>1, <3>2, <3>3, <3>4
  <2> HIDE DEF states, shown
  <2>4. \A e \in Entities : ReadPowerW(states[e]) = IF e = carrier THEN shown ELSE 0
    BY <2>1, <2>2, <2>3, ShownIsRead
  <2>5. /\ feeds \in [FeedIns -> Int] /\ IsFiniteSet(FeedIns)
        /\ \A e \in FeedIns : feeds[e] = IF e = carrier THEN shown ELSE 0
    BY <1>2, <2>2, <2>4, EntityAssumption
  <2>6. /\ import = IF "import" = carrier THEN shown ELSE 0
        /\ discharge = IF "discharge" = carrier THEN shown ELSE 0
    BY <1>2, <2>4
  <2> HIDE DEF feeds, import, discharge, net
  <2>7. SumFunction(feeds) - import - discharge = net
    <3>1. CASE net >= 0
      <4>1. carrier \in FeedIns  BY <3>1 DEF Found, Carriers, net
      <4>2. SumFunction(feeds) = feeds[carrier]  BY <2>5, <4>1, SumOfOne
      <4>3. import = 0 /\ discharge = 0  BY <1>2, <2>6, <4>1
      <4>4. shown = net  BY <3>1 DEF shown
      <4> QED  BY <1>1, <2>5, <4>1, <4>2, <4>3, <4>4
    <3>2. CASE ~(net >= 0)
      <4>1. carrier \in {"import", "discharge"}  BY <3>2 DEF Found, Carriers, net
      <4>2. \A e \in FeedIns : feeds[e] = 0  BY <1>2, <2>5, <4>1
      <4>3. PICK e \in FeedIns : TRUE  BY EntityAssumption
      <4>4. SumFunction(feeds) = 0  BY <2>5, <4>2, <4>3, SumOfOne
      <4>5. shown = -net  BY <3>2 DEF shown
      <4> QED  BY <1>1, <1>2, <2>6, <4>1, <4>4, <4>5
    <3> QED  BY <3>1, <3>2
  <2> QED  BY <1>3, <2>7 DEF net
<1> QED  BY <1>4, <1>5 DEF Found

-----------------------------------------------------------------------------
(* The theorems. *)

\* Each sampling step takes a sample of what it finds, a while after the last.
LEMMA SamplingStep ==
    ASSUME Sample \/ SampleBroken
    PROVE  \E elapsed \in Nat \ {0} : \E surplus, carrier, broken, state :
              /\ Found(surplus, carrier, broken, state)
              /\ TakeSample(elapsed, EntityStates(surplus - draw, carrier, broken, state), surplus)
<1>1. \A late \in Late : Interval + late \in Nat \ {0}  BY WindowAssumption
<1>2. CASE Sample
  <2>1. PICK late \in Late, surplus \in Surpluses : \E carrier \in Carriers(surplus - draw) :
           TakeSample(Interval + late, EntityStates(surplus - draw, carrier, None, None), surplus)
    BY <1>2 DEF Sample
  <2>2. PICK carrier \in Carriers(surplus - draw) :
           TakeSample(Interval + late, EntityStates(surplus - draw, carrier, None, None), surplus)
    BY <2>1
  <2>3. Found(surplus, carrier, None, None)  BY DEF Found
  <2> QED  BY <1>1, <2>2, <2>3
<1>3. CASE SampleBroken
  <2>1. PICK late \in Late, surplus \in Surpluses, broken \in Entities,
             state \in UnusableStates : \E carrier \in Carriers(surplus - draw) :
           TakeSample(Interval + late, EntityStates(surplus - draw, carrier, broken, state), surplus)
    BY <1>3 DEF SampleBroken
  <2>2. PICK carrier \in Carriers(surplus - draw) :
           TakeSample(Interval + late, EntityStates(surplus - draw, carrier, broken, state), surplus)
    BY <2>1
  <2>3. Found(surplus, carrier, broken, state)  BY DEF Found
  <2> QED  BY <1>1, <2>2, <2>3
<1> QED  BY <1>2, <1>3

\* The charging power and its copy change without touching the average.
LEMMA OtherStep ==
    ASSUME TypeOK, DrawChanges \/ Poll \/ PollFails \/ UNCHANGED vars
    PROVE  /\ UNCHANGED <<samples, lastSample, recent>>
           /\ draw' \in Draws \cup {0} /\ power' \in Draws \cup {0} /\ ok' \in BOOLEAN
BY DEF TypeOK, DrawChanges, Poll, PollFails, vars

LEMMA TrackerInvInit == Init => TrackerInv
BY DEF Init, TrackerInv, TypeOK, AverageOfWindow, Usable

LEMMA TrackerInvNext == TrackerInv /\ [Next]_vars => TrackerInv'
<1> SUFFICES ASSUME TrackerInv, [Next]_vars PROVE TrackerInv'
  OBVIOUS
<1>1. CASE Sample \/ SampleBroken
  <2>0. PICK elapsed \in Nat \ {0} : \E surplus, carrier, broken, state :
           /\ Found(surplus, carrier, broken, state)
           /\ TakeSample(elapsed, EntityStates(surplus - draw, carrier, broken, state), surplus)
    BY <1>1, SamplingStep
  <2>1. PICK surplus, carrier, broken, state :
           /\ Found(surplus, carrier, broken, state)
           /\ TakeSample(elapsed, EntityStates(surplus - draw, carrier, broken, state), surplus)
    BY <2>0
  <2> DEFINE states == EntityStates(surplus - draw, carrier, broken, state)
  <2>2. surplus \in Surpluses  BY <2>1 DEF Found
  <2>3. draw \in Draws \cup {0} /\ power \in Int
    BY PowerAssumption DEF TrackerInv, TypeOK
  <2>4. \A e \in Entities : states[e].value \in Int \cup {None}
    BY <2>1, <2>3, StatesShown
  <2> HIDE DEF states
  <2>5. ReadSample(states) \in Int \cup {None}  BY <2>3, <2>4, ReadSampleType
  <2>6. TakeSample(elapsed, states, surplus)  BY <2>1 DEF states
  <2> QED  BY <2>2, <2>5, <2>6, TakeSampleKeeps
<1>2. CASE DrawChanges \/ Poll \/ PollFails \/ UNCHANGED vars
  <2>1. /\ UNCHANGED <<samples, lastSample, recent>>
        /\ draw' \in Draws \cup {0} /\ power' \in Draws \cup {0} /\ ok' \in BOOLEAN
    BY <1>2, OtherStep DEF TrackerInv
  <2>2. Usable' = Usable  BY <2>1 DEF Usable
  <2>3. TypeOK'  BY <2>1 DEF TrackerInv, TypeOK
  <2>4. AverageOfWindow'  BY <2>1, <2>2 DEF TrackerInv, AverageOfWindow
  <2> QED  BY <2>3, <2>4 DEF TrackerInv
<1> QED  BY <1>1, <1>2 DEF Next

(***************************************************************************)
(* The types of the tracker's variables, for every window, interval, set   *)
(* of sensors and delay of the timer (PvSurplusTracker).                   *)
(***************************************************************************)
THEOREM TrackerTypes == Spec => []TypeOK
<1>1. TrackerInv => TypeOK  BY DEF TrackerInv
<1> QED  BY <1>1, TrackerInvInit, TrackerInvNext, PTL DEF Spec

(***************************************************************************)
(* The average covers the usable readings of the last Window seconds, each *)
(* once, and no other, for every window, interval and delay of the timer   *)
(* (MovingAverage, take_sample).                                           *)
(***************************************************************************)
THEOREM AverageCoversWindow == Spec => []AverageOfWindow
<1>1. TrackerInv => AverageOfWindow  BY DEF TrackerInv
<1> QED  BY <1>1, TrackerInvInit, TrackerInvNext, PTL DEF Spec

\* A sample taken while the copy of the charging power was up to date is what
\* the house had left over.
Honest == \A r \in recent : r.value # None /\ r.current => r.value = r.surplus

LEMMA HonestNext ==
    ASSUME Optional = {"import", "discharge"}, TrackerInv, Honest, [Next]_vars
    PROVE  Honest'
<1>1. CASE Sample \/ SampleBroken
  <2>0. PICK elapsed \in Nat \ {0} : \E surplus, carrier, broken, state :
           /\ Found(surplus, carrier, broken, state)
           /\ TakeSample(elapsed, EntityStates(surplus - draw, carrier, broken, state), surplus)
    BY <1>1, SamplingStep
  <2>1. PICK surplus, carrier, broken, state :
           /\ Found(surplus, carrier, broken, state)
           /\ TakeSample(elapsed, EntityStates(surplus - draw, carrier, broken, state), surplus)
    BY <2>0
  <2> DEFINE sample == ReadSample(EntityStates(surplus - draw, carrier, broken, state))
             instant == [age |-> 0, value |-> sample, surplus |-> surplus,
                         current |-> draw = power]
             older == {[r EXCEPT !.age = @ + elapsed] : r \in recent}
  <2>2. recent' = {r \in older : r.age < Window} \cup {instant}
    BY <2>1 DEF TakeSample
  <2>3. sample = None \/ sample = surplus - draw + power
    BY <2>1, ReadSampleHonest DEF TrackerInv
  <2>4. surplus \in Int /\ draw \in Int
    <3>1. surplus \in Surpluses /\ draw \in Draws \cup {0}
      BY <2>1 DEF Found, TrackerInv, TypeOK
    <3> QED  BY <3>1, PowerAssumption
  <2> HIDE DEF sample
  <2>5. instant.value # None /\ instant.current => instant.value = instant.surplus
    <3>1. sample # None /\ draw = power => sample = surplus  BY <2>3, <2>4
    <3>2. /\ instant.value = sample /\ instant.surplus = surplus
          /\ instant.current <=> draw = power
      OBVIOUS
    <3> HIDE DEF instant
    <3> QED  BY <3>1, <3>2
  <2>6. \A q \in older : q.value # None /\ q.current => q.value = q.surplus
    <3> SUFFICES ASSUME NEW r \in recent
                 PROVE  LET q == [r EXCEPT !.age = @ + elapsed]
                        IN  q.value # None /\ q.current => q.value = q.surplus
      OBVIOUS
    <3>1. r \in [age : Nat, value : Int \cup {None}, surplus : Surpluses, current : BOOLEAN]
      BY DEF TrackerInv, TypeOK
    <3>2. r.value # None /\ r.current => r.value = r.surplus  BY DEF Honest
    <3> QED  BY <3>1, <3>2
  <2> HIDE DEF instant, older
  <2> QED  BY <2>2, <2>5, <2>6 DEF Honest
<1>2. CASE DrawChanges \/ Poll \/ PollFails \/ UNCHANGED vars
  BY <1>2, OtherStep DEF TrackerInv, Honest
<1> QED  BY <1>1, <1>2 DEF Next

\* The average of honest samples lies among them.
LEMMA AverageAmongSurpluses ==
    ASSUME TrackerInv, Honest, Usable # {}, \A r \in Usable : r.current
    PROVE  LET real == {r.surplus : r \in Usable}
           IN  /\ Average # None
               /\ \E low \in real : low * Average[2] <= Average[1]
               /\ \E high \in real : Average[1] <= high * Average[2]
<1> DEFINE v == [k \in DOMAIN samples |-> samples[k].value]
           real == {r.surplus : r \in Usable}
<1>1. /\ samples \in Seq(Reading)
      /\ {<<samples[k].lead, samples[k].value>> : k \in DOMAIN samples} =
         {<<r.age, r.value>> : r \in Usable}
  BY DEF TrackerInv, TypeOK, AverageOfWindow, Reading
<1>2. /\ DOMAIN samples = 1..Len(samples) /\ Len(samples) \in Nat
      /\ \A k \in DOMAIN samples : samples[k] \in Reading
  BY <1>1
<1>3. DOMAIN samples # {}  BY <1>1
<1>4. samples # <<>>  BY <1>2, <1>3
<1>5. IsFiniteSet(DOMAIN samples) /\ Cardinality(DOMAIN samples) = Len(samples)
  BY <1>2, FS_Interval
<1>6. v \in [DOMAIN samples -> Int]  BY <1>2 DEF Reading
<1>7. Total(samples) = SumFunction(v) /\ SumFunction(v) \in Int
  BY <1>5, <1>6, SumType DEF Total
<1>8. Average = <<SumFunction(v), Len(samples)>>  BY <1>4, <1>7 DEF Average
<1>9. Average # None  BY <1>2, <1>7, <1>8, EntityAssumption
<1>10. ASSUME NEW k \in DOMAIN samples PROVE v[k] \in real
  <2>1. PICK r \in Usable : <<samples[k].lead, samples[k].value>> = <<r.age, r.value>>
    BY <1>1
  <2>2. r.value = r.surplus  BY DEF Usable, Honest
  <2> QED  BY <2>1, <2>2
<1> HIDE DEF v, real
<1>11. /\ \E k \in DOMAIN samples : v[k] * Len(samples) <= SumFunction(v)
       /\ \E k \in DOMAIN samples : SumFunction(v) <= v[k] * Len(samples)
  BY <1>3, <1>5, <1>6, MeanBetween
<1>12. /\ \E low \in real : low * Average[2] <= Average[1]
       /\ \E high \in real : Average[1] <= high * Average[2]
  BY <1>8, <1>10, <1>11
<1> QED  BY <1>9, <1>12 DEF real

(***************************************************************************)
(* Where import and battery discharge are both configured, the average     *)
(* lies within what the house really had left over, for every window, set  *)
(* of feed-in sensors and their units, surplus and charging power: the     *)
(* wallbox's own draw cancels out (surplus_w, MovingAverage).              *)
(***************************************************************************)
THEOREM OwnDrawCancelsOut ==
    ASSUME Optional = {"import", "discharge"}
    PROVE  Spec => []OwnDrawCancels
<1>1. Init => TrackerInv /\ Honest
  BY TrackerInvInit DEF Init, Honest
<1>2. TrackerInv /\ Honest /\ [Next]_vars => (TrackerInv /\ Honest)'
  BY TrackerInvNext, HonestNext
<1>3. TrackerInv /\ Honest => OwnDrawCancels
  BY AverageAmongSurpluses DEF OwnDrawCancels
<1> QED  BY <1>1, <1>2, <1>3, PTL DEF Spec
=============================================================================
