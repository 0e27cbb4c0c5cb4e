----------------------------- MODULE PvSurplus -----------------------------
(***************************************************************************)
(* PvSurplusTracker (pv_surplus.py): every Interval it reads the power     *)
(* sensors of other integrations and the wallbox's own charging power, and *)
(* keeps the average surplus of the last Window.                           *)
(*                                                                         *)
(* The sensors are fed by a meter at the grid connection: it sees what the *)
(* house has left over after the wallbox has drawn its power.  The meter   *)
(* shows the wallbox's draw at once, the coordinator's copy of it only     *)
(* with the next poll.                                                     *)
(*                                                                         *)
(* Samples carry wall clock stamps.  The model keeps each stamp relative   *)
(* to the clock: `lead` is how far the clock is past the stamp.  The clock *)
(* is taken to run steadily; a correction of it is not modelled.           *)
(***************************************************************************)
EXTENDS Integers, Sequences, FiniteSets, Functions

CONSTANTS
    None,             \* Python's None
    Window,           \* PV_AVERAGE_WINDOW_S
    Interval,         \* PV_SAMPLE_INTERVAL_S
    FeedIns,          \* the configured feed-in entities
    Optional,         \* which of "import" and "discharge" are configured
    UnitOf,           \* the unit each entity reports in, None: no unit
    UnitFactors,      \* _POWER_UNIT_FACTORS
    Surpluses,        \* what the house has left over before the wallbox, in W
    Draws,            \* charging powers of the wallbox, in W
    Late              \* by how much a timer may fire late, in s

ASSUME WindowAssumption ==
    /\ Interval \in Nat \ {0}
    /\ Window \in Nat \ {0}
    /\ Late \subseteq Nat /\ 0 \in Late

Entities == FeedIns \cup {"import", "discharge"}

\* An entity of each kind, in W or another unit of power.
ASSUME EntityAssumption ==
    /\ None \notin Int \cup Entities \cup (Int \X Nat)
    /\ IsFiniteSet(FeedIns) /\ FeedIns # {}
    /\ {"import", "discharge"} \cap FeedIns = {}
    /\ Optional \subseteq {"import", "discharge"}
    /\ UnitFactors \in [DOMAIN UnitFactors -> Nat \ {0}]
    /\ "%" \notin DOMAIN UnitFactors \cup {None}
    /\ UnitOf \in [Entities -> DOMAIN UnitFactors \cup {None}]

\* Integers stand for floats: what the meter sees is a whole number of each
\* entity's unit.
ASSUME PowerAssumption ==
    /\ Surpluses \subseteq Int /\ Draws \subseteq Nat
    /\ \A surplus \in Surpluses, load \in Draws \cup {0}, e \in Entities :
          UnitOf[e] # None => (surplus - load) % UnitFactors[UnitOf[e]] = 0

VARIABLES
    draw,        \* power the wallbox takes now
    power,       \* coordinator.data.power_w
    ok,          \* coordinator.last_update_success
    samples,     \* the deque of MovingAverage, oldest first
    lastSample,  \* PvSurplusTracker.last_sample, its surplus_w
    recent       \* history: the sampling instants of the last Window seconds

vars == <<draw, power, ok, samples, lastSample, recent>>

-----------------------------------------------------------------------------
(* The sensors. *)

\* An entity's state: a number (None: "unavailable") in a unit.
Shown(watts, e) ==
    [value |-> IF UnitOf[e] = None THEN watts ELSE watts \div UnitFactors[UnitOf[e]],
     unit |-> UnitOf[e]]
UnusableStates == {[value |-> None, unit |-> "W"], [value |-> 80, unit |-> "%"]}

\* read_power_w
ReadPowerW(state) ==
    IF state.value = None THEN None
    ELSE IF state.unit = None THEN state.value
    ELSE IF state.unit \in DOMAIN UnitFactors
         THEN state.value * UnitFactors[state.unit]
         ELSE None

(***************************************************************************)
(* What the entities show while the meter sees `net`: one of the feed-in   *)
(* sensors carries a positive net, import or the battery covers a negative *)
(* one.  A broken entity shows an unusable state.                          *)
(***************************************************************************)
EntityStates(net, carrier, broken, brokenState) ==
    [e \in Entities |->
        IF e = broken THEN brokenState
        ELSE IF e # carrier THEN Shown(0, e)
        ELSE Shown(IF net >= 0 THEN net ELSE -net, e)]
Carriers(net) == IF net >= 0 THEN FeedIns ELSE {"import", "discharge"}

-----------------------------------------------------------------------------
(* MovingAverage *)

\* Mutant: a sample exactly Window old stays.
PruneLate(s) ==
    LET young == {k \in 1..Len(s) : s[k].lead <= Window}
    IN  IF young = {} THEN <<>>
        ELSE SubSeq(s, CHOOSE k \in young : \A j \in young : k <= j, Len(s))
\* Samples are dropped from the front only, up to the first one in the window.
Prune(s) ==
    LET young == {k \in 1..Len(s) : s[k].lead < Window}
    IN  IF young = {} THEN <<>>
        ELSE SubSeq(s, CHOOSE k \in young : \A j \in young : k <= j, Len(s))

Total(s) == SumFunction([k \in DOMAIN s |-> s[k].value])

\* Mean and count as the tracker shows them; the mean as a fraction.
Average == IF samples = <<>> THEN None ELSE <<Total(samples), Len(samples)>>

-----------------------------------------------------------------------------
(* PvSurplusTracker *)

ReadOptional(states, e) == IF e \in Optional THEN ReadPowerW(states[e]) ELSE 0

\* Mutant: the wallbox's own charging power is left out.
ReadSampleBare(states) ==
    LET import == ReadOptional(states, "import")
        discharge == ReadOptional(states, "discharge")
        feeds == [e \in FeedIns |-> ReadPowerW(states[e])]
    IN  IF ~ok \/ None \in Range(feeds) \cup {import, discharge} THEN None
        ELSE SumFunction(feeds) - import - discharge
\* _read_sample and surplus_w: None as soon as one reading is unusable.
ReadSample(states) ==
    LET import == ReadOptional(states, "import")
        discharge == ReadOptional(states, "discharge")
        feeds == [e \in FeedIns |-> ReadPowerW(states[e])]
    IN  IF ~ok \/ None \in Range(feeds) \cup {import, discharge} THEN None
        ELSE SumFunction(feeds) - import - discharge + power

\* Mutant: an unusable reading is added like any other.
AddedAlways(kept, sample) == Append(kept, [lead |-> 0, value |-> sample])
\* A sample is skipped, not filled in, when a source was unusable.
Added(kept, sample) ==
    IF sample = None THEN kept ELSE Append(kept, [lead |-> 0, value |-> sample])

\* take_sample, `elapsed` seconds after the last one.
TakeSample(elapsed, states, surplus) ==
    LET aged == [k \in DOMAIN samples |-> [samples[k] EXCEPT !.lead = @ + elapsed]]
        kept == Prune(aged)
        sample == ReadSample(states)
        older == {[r EXCEPT !.age = @ + elapsed] : r \in recent}
    IN  /\ samples' = Added(kept, sample)
        /\ lastSample' = IF sample = None THEN lastSample ELSE sample
        /\ recent' = {r \in older : r.age < Window} \cup
                        {[age |-> 0, value |-> sample, surplus |-> surplus,
                          current |-> draw = power]}
        /\ UNCHANGED <<draw, power, ok>>

-----------------------------------------------------------------------------
Init ==
    /\ draw = 0 /\ power = 0 /\ ok = TRUE
    /\ samples = <<>>
    /\ lastSample = None
    /\ recent = {}

\* The timer fires while all configured sources are usable.
Sample ==
    \E late \in Late, surplus \in Surpluses :
        \E carrier \in Carriers(surplus - draw) :
            TakeSample(Interval + late, EntityStates(surplus - draw, carrier, None, None), surplus)

\* It fires while some entity is unavailable or reports another quantity.
SampleBroken ==
    \E late \in Late, surplus \in Surpluses,
       broken \in Entities, state \in UnusableStates :
        \E carrier \in Carriers(surplus - draw) :
            TakeSample(Interval + late, EntityStates(surplus - draw, carrier, broken, state), surplus)

DrawChanges == draw' \in Draws \ {draw} /\ UNCHANGED <<power, ok, samples, lastSample, recent>>
Poll == power' = draw /\ ok' = TRUE /\ UNCHANGED <<draw, samples, lastSample, recent>>
PollFails == ok' = FALSE /\ UNCHANGED <<draw, power, samples, lastSample, recent>>

Next == Sample \/ SampleBroken \/ DrawChanges \/ Poll \/ PollFails
Spec == Init /\ [][Next]_vars

-----------------------------------------------------------------------------
\* The types of the variables.
TypeOK ==
    /\ draw \in Draws \cup {0} /\ power \in Draws \cup {0}
    /\ ok \in BOOLEAN
    /\ samples \in Seq([lead : Nat, value : Int])
    /\ lastSample \in Int \cup {None}
    /\ recent \subseteq [age : Nat, value : Int \cup {None},
                         surplus : Surpluses, current : BOOLEAN]

Usable == {r \in recent : r.value # None}

(***************************************************************************)
(* "Arithmetic mean of the samples taken within the last window_s          *)
(* seconds": the average covers every usable reading of the last Window    *)
(* seconds once, the oldest first, and no other.  Neither an unusable      *)
(* reading nor a late timer leaves an old sample behind (MovingAverage,    *)
(* take_sample).                                                           *)
(***************************************************************************)
AverageOfWindow ==
    /\ {<<samples[k].lead, samples[k].value>> : k \in DOMAIN samples} =
       {<<r.age, r.value>> : r \in Usable}
    /\ \A j, k \in DOMAIN samples : j < k => samples[j].lead > samples[k].lead

(***************************************************************************)
(* While the coordinator's copy of the charging power is up to date at     *)
(* every sample, the average lies within what the house really had left    *)
(* over during the window: the wallbox's own draw cancels out, however     *)
(* often it changed, so regulating on it cannot overshoot (module          *)
(* docstring of pv_surplus.py).                                            *)
(***************************************************************************)
OwnDrawCancels ==
    LET real == {r.surplus : r \in Usable}
    IN  (Usable # {} /\ \A r \in Usable : r.current) =>
            /\ Average # None
            /\ \E low \in real : low * Average[2] <= Average[1]
            /\ \E high \in real : Average[1] <= high * Average[2]
=============================================================================
