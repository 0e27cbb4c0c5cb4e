-------------------------- MODULE LifecycleProofs --------------------------
(***************************************************************************)
(* Theorems about Lifecycle, for all options and settings that the         *)
(* assumptions allow: what is kept between two loads is what was shown,    *)
(* and nothing a user submits or Home Assistant restores is inconsistent.  *)
(***************************************************************************)
EXTENDS Lifecycle, TLAPS

USE DEF HasPv, PhaseSwitching, Policy!policy, Policy!configuration

\* The numbers of settings with a gap between the thresholds.
GapNumbers == {n \in NumberSettings : n.socStop < n.socStart}

\* What may be kept of each platform.
KeptOK ==
    /\ stored["select"] \in CHARGE_MODES \cup {"unavailable", None}
    /\ stored["number"] \in GapNumbers \cup {None}
    /\ stored["switch"] \in {"on", "off"} =>
          (stored["switch"] = "on") \in SettingValues.autoReturn

\* What was on display when it was kept is kept as it was.
LeftKept == \A p \in Platforms : left[p].shown => stored[p] = left[p].had

DisplayOK ==
    /\ left["select"].shown => left["select"].had \in CHARGE_MODES
    /\ left["number"].shown => left["number"].had \in GapNumbers
    /\ left["switch"].shown => left["switch"].had \in {"on", "off"}

MemoryOK == KeptOK /\ LeftKept /\ DisplayOK

LInv ==
    /\ LTypeOK
    /\ opts \in Options /\ saved \in Options
    /\ GapKept
    /\ entry # "loaded" => restoring = {}
    /\ MemoryOK

LEMMA FreshOK == Fresh => mode' \in CHARGE_MODES /\ released' \in BOOLEAN /\ writer' = "none"
                          /\ settings' \in PvSettings /\ GapKept'
BY LifecycleAssumption DEF Fresh, CHARGE_MODES, GapKept

LEMMA NumbersKeepGap ==
    ASSUME settings \in PvSettings, GapKept
    PROVE  Numbers \in GapNumbers
BY DEF PvSettings, GapKept, Numbers, GapNumbers, NumberSettings

LEMMA NumbersBack ==
    ASSUME settings \in PvSettings, NEW n \in GapNumbers, settings' = WithNumbers(n)
    PROVE  settings' \in PvSettings /\ GapKept' /\ Numbers' = n
BY DEF PvSettings, GapKept, Numbers, GapNumbers, NumberSettings, WithNumbers

----------------------------------------------------------------------------
(***************************************************************************)
(* What Home Assistant keeps.                                              *)
(***************************************************************************)
LEMMA MemorySame == ASSUME MemoryOK, UNCHANGED kept PROVE MemoryOK'
BY DEF kept, MemoryOK, KeptOK, LeftKept, DisplayOK

LEMMA StoreKeeps == ASSUME LInv, Store PROVE MemoryOK'
<1>1. /\ mode \in CHARGE_MODES /\ selected \in CHARGE_MODES \cup {"unavailable"}
      /\ Numbers \in GapNumbers /\ ok \in BOOLEAN
  BY NumbersKeepGap DEF LInv, LTypeOK
<1>2. State("select") = selected /\ Value("select") = mode
  BY DEF State, Value
<1>3. State("number") = Numbers /\ Value("number") = Numbers
  BY DEF State, Value
<1>4. /\ Value("switch") \in {"on", "off"}
      /\ (Value("switch") = "on") \in SettingValues.autoReturn
  <2>1. settings.autoReturn \in SettingValues.autoReturn /\ settings.autoReturn \in BOOLEAN
    BY SettingAssumption DEF LInv, LTypeOK, PvSettings
  <2>2. CASE settings.autoReturn
    BY <2>1, <2>2 DEF Value
  <2>3. CASE ~settings.autoReturn
    BY <2>1, <2>3 DEF Value
  <2> QED
    BY <2>2, <2>3
<1>5. State("switch") \in {Value("switch"), "unavailable"}
  <2>1. State("switch") = Shown(Value("switch"), ok)
    BY DEF State
  <2> QED
    BY <2>1 DEF Shown
<1>6. \A p \in Platforms :
         \/ /\ stored'[p] = State(p)
            /\ left'[p] = [had |-> Value(p), shown |-> State(p) = Value(p)]
         \/ stored'[p] = stored[p] /\ left'[p] = left[p]
  BY DEF Store
<1>7. ASSUME NEW p \in Platforms, left'[p].shown
      PROVE  stored'[p] = left'[p].had
  <2>1. CASE /\ stored'[p] = State(p)
             /\ left'[p] = [had |-> Value(p), shown |-> State(p) = Value(p)]
    <3>1. left'[p].had = Value(p) /\ left'[p].shown = (State(p) = Value(p))
      BY <2>1
    <3>2. State(p) = Value(p)
      BY <1>7, <3>1
    <3> QED
      BY <2>1, <3>1, <3>2
  <2>2. CASE stored'[p] = stored[p] /\ left'[p] = left[p]
    BY <1>7, <2>2 DEF LInv, MemoryOK, LeftKept
  <2> QED
    BY <1>6, <2>1, <2>2
<1>8. ASSUME NEW p \in Platforms PROVE KeptOK' /\ DisplayOK'
  BY <1>1, <1>2, <1>3, <1>4, <1>5, <1>6 DEF LInv, MemoryOK, KeptOK, DisplayOK, Platforms
<1> QED
  BY <1>7, <1>8 DEF MemoryOK, LeftKept, Platforms

----------------------------------------------------------------------------
(***************************************************************************)
(* The steps.                                                              *)
(***************************************************************************)
LEMMA LInit == Init => LInv
<1> SUFFICES ASSUME Init PROVE LInv
  OBVIOUS
<1>1. LTypeOK /\ GapKept
  BY LifecycleAssumption DEF Init, LTypeOK, GapKept, CHARGE_MODES
<1>2. MemoryOK
  BY LifecycleAssumption DEF Init, MemoryOK, KeptOK, LeftKept, DisplayOK, Platforms
<1> QED
  BY <1>1, <1>2, LifecycleAssumption DEF Init, LInv

LEMMA FlowStep == ASSUME LInv, SubmitAddress \/ Validated PROVE LInv'
<1>1. LTypeOK' /\ (entry' # "loaded" => restoring' = {})
  <2>1. CASE SubmitAddress
    BY <2>1 DEF LInv, LTypeOK, SubmitAddress, network, load
  <2>2. CASE Validated
    <3>1. flow' \in {"form"} \cup Errors /\ entry' \in {"none", "down"} /\ entry = "none"
      BY <2>2 DEF Validated, Errors
    <3>2. UNCHANGED <<rendered, saved, opts, network, restoring, load, settings, selected, kept>>
      BY <2>2 DEF Validated
    <3> QED
      BY <3>1, <3>2 DEF LInv, LTypeOK, network, load
  <2> QED
    BY <2>1, <2>2
<1>2. MemoryOK'
  BY MemorySame DEF LInv, SubmitAddress, Validated
<1> QED
  BY <1>1, <1>2 DEF LInv, SubmitAddress, Validated, GapKept

LEMMA OpenStep == ASSUME LInv, OpenOptions \/ LinkChanges PROVE LInv'
<1>1. saved.max \in Nat
  BY OptionsAssumption DEF LInv, ValidOptions, MIN_CURRENT_A, ABS_MAX_CURRENT_A
<1>2. LTypeOK'
  <2>1. CASE OpenOptions
    BY <1>1, <2>1 DEF LInv, LTypeOK, OpenOptions, network, load
  <2>2. CASE LinkChanges
    BY <2>2 DEF LInv, LTypeOK, LinkChanges, entryVars, load
  <2> QED
    BY <2>1, <2>2
<1>3. MemoryOK'
  BY MemorySame DEF LInv, OpenOptions, LinkChanges
<1> QED
  BY <1>2, <1>3 DEF LInv, OpenOptions, LinkChanges, entryVars, GapKept

LEMMA SetUpStep == ASSUME LInv, SetUp PROVE LInv'
<1>1. LTypeOK' /\ GapKept'
  BY FreshOK DEF LInv, LTypeOK, SetUp, Platforms
<1>2. MemoryOK'
  BY MemorySame DEF LInv, SetUp
<1> QED
  BY <1>1, <1>2 DEF LInv, SetUp

LEMMA RestoreModeStep == ASSUME LInv, RestoreMode PROVE LInv'
<1>1. LTypeOK' /\ GapKept'
  BY DEF LInv, LTypeOK, RestoreMode, Adds, entryVars, network, GapKept, Shown
<1>2. MemoryOK'
  BY MemorySame DEF LInv, RestoreMode, Adds
<1> QED
  BY <1>1, <1>2 DEF LInv, RestoreMode, Adds, entryVars

LEMMA RestoreSettingsStep == ASSUME LInv, RestoreNumbers \/ RestoreSwitch PROVE LInv'
<1>1. settings' \in PvSettings /\ GapKept'
  <2>1. CASE RestoreNumbers
    BY <2>1, NumbersBack DEF LInv, LTypeOK, RestoreNumbers, MemoryOK, KeptOK, GapKept
  <2>2. CASE RestoreSwitch
    <3>1. settings' = settings
          \/ /\ settings' = [settings EXCEPT !.autoReturn = (stored["switch"] = "on")]
             /\ (stored["switch"] = "on") \in SettingValues.autoReturn
      BY <2>2 DEF LInv, MemoryOK, KeptOK, RestoreSwitch
    <3> QED
      BY <3>1 DEF LInv, LTypeOK, GapKept, PvSettings
  <2> QED
    BY <2>1, <2>2
<1>2. LTypeOK'
  BY <1>1 DEF LInv, LTypeOK, RestoreNumbers, RestoreSwitch, Adds, entryVars, network
<1>3. MemoryOK'
  BY MemorySame DEF LInv, RestoreNumbers, RestoreSwitch, Adds
<1> QED
  BY <1>1, <1>2, <1>3 DEF LInv, RestoreNumbers, RestoreSwitch, Adds, entryVars

\* The policy keeps the types of what it changes.
LEMMA PolicyTypes ==
    ASSUME LInv,
           Policy!Pick \/ Policy!Override \/ Policy!Decide \/ Policy!End \/ Policy!CarGone \/ UNCHANGED load
    PROVE  mode' \in CHARGE_MODES /\ released' \in BOOLEAN /\ writer' \in {"none", "loop", "user"}
BY DEF LInv, LTypeOK, Policy!Pick, Policy!Override, Policy!Decide, Policy!End, Policy!CarGone, Policy!Modes,
   Policy!LoopMayBegin, Policy!CarFull, CHARGE_MODES, load

LEMMA SelectType ==
    ASSUME LInv, mode' \in CHARGE_MODES
    PROVE  Select \in CHARGE_MODES \cup {"unavailable"}
BY DEF LInv, LTypeOK, Select, Shown

LEMMA LoadSteps == ASSUME LInv, Pick \/ Override \/ Decide \/ End PROVE LInv'
<1>1. LoadStep
  BY DEF Pick, Override, Decide, End
<1>2. mode' \in CHARGE_MODES /\ released' \in BOOLEAN /\ writer' \in {"none", "loop", "user"}
  BY PolicyTypes DEF Pick, Override, Decide, End
<1>3. selected' \in CHARGE_MODES \cup {"unavailable"}
  BY <1>2, SelectType DEF LInv, LTypeOK, Pick, Override, Decide, End, Notify
<1>4. LTypeOK' /\ GapKept'
  BY <1>1, <1>2, <1>3 DEF LInv, LTypeOK, LoadStep, entryVars, network, GapKept
<1>5. MemoryOK'
  BY <1>1, MemorySame DEF LInv, LoadStep
<1> QED
  BY <1>1, <1>4, <1>5 DEF LInv, LoadStep, entryVars

LEMMA PollSteps == ASSUME LInv, PollGood \/ PollBad PROVE LInv'
<1>1. /\ UNCHANGED <<entryVars, link, restoring, settings, kept>>
      /\ ok' \in BOOLEAN /\ selected' = Select
  BY DEF PollGood, PollBad
<1>2. mode' \in CHARGE_MODES /\ released' \in BOOLEAN /\ writer' \in {"none", "loop", "user"}
  BY PolicyTypes DEF PollGood, PollBad
<1>3. LTypeOK' /\ GapKept'
  BY <1>1, <1>2, SelectType DEF LInv, LTypeOK, entryVars, GapKept
<1>4. MemoryOK'
  BY <1>1, MemorySame DEF LInv
<1> QED
  BY <1>1, <1>3, <1>4 DEF LInv, entryVars

LEMMA UpdateStep == ASSUME LInv, UpdateSetting PROVE LInv'
<1>1. settings' \in PvSettings /\ GapKept'
  BY DEF UpdateSetting, GapKept
<1>2. selected' \in CHARGE_MODES \cup {"unavailable"}
  BY SelectType DEF LInv, LTypeOK, UpdateSetting, load
<1>3. LTypeOK'
  BY <1>1, <1>2 DEF LInv, LTypeOK, UpdateSetting, entryVars, network, load
<1>4. MemoryOK'
  BY MemorySame DEF LInv, UpdateSetting
<1> QED
  BY <1>1, <1>3, <1>4 DEF LInv, UpdateSetting, entryVars

LEMMA EndsTypes ==
    ASSUME LInv, Ends, UNCHANGED <<flow, rendered>>
    PROVE  LTypeOK' /\ GapKept' /\ entry' = "down" /\ restoring' = {} /\ opts' = saved'
BY FreshOK DEF LInv, LTypeOK, Ends

LEMMA EndSteps == ASSUME LInv, Dump \/ Unload \/ Crash PROVE LInv'
<1>1. MemoryOK'
  BY StoreKeeps, MemorySame DEF LInv, Dump, Unload, Crash
<1>2. CASE Dump
  <2>1. LTypeOK'
    BY <1>2 DEF LInv, LTypeOK, Dump, entryVars, network, load
  <2> QED
    BY <1>1, <1>2, <2>1 DEF LInv, Dump, entryVars, GapKept
<1>3. CASE Unload \/ Crash
  BY <1>1, <1>3, EndsTypes DEF LInv, Unload, Crash
<1> QED
  BY <1>2, <1>3

LEMMA SaveStep == ASSUME LInv, SaveOptions PROVE LInv'
<1>1. PICK o \in Forms : o.start <= o.max /\ saved' = o
  BY DEF SaveOptions
<1>2. saved' \in Options /\ UNCHANGED <<flow, rendered>>
  BY <1>1, LifecycleAssumption DEF SaveOptions
<1>3. CASE Ends /\ Store
  BY <1>2, <1>3, StoreKeeps, EndsTypes DEF LInv
<1>4. CASE /\ opts' = IF entry = "loaded" THEN opts ELSE saved'
           /\ UNCHANGED <<entry, network, restoring, load, settings, selected, kept>>
  <2>1. LTypeOK'
    BY <1>2, <1>4 DEF LInv, LTypeOK, network, load
  <2>2. MemoryOK'
    BY <1>4, MemorySame DEF LInv
  <2> QED
    BY <1>2, <1>4, <2>1, <2>2 DEF LInv, GapKept
<1> QED
  BY <1>3, <1>4 DEF SaveOptions

LEMMA LStep == LInv /\ [Next]_lvars => LInv'
<1> SUFFICES ASSUME LInv, [Next]_lvars PROVE LInv'
  OBVIOUS
<1>1. CASE UNCHANGED lvars
  BY <1>1 DEF LInv, LTypeOK, MemoryOK, KeptOK, LeftKept, DisplayOK, GapKept, lvars, entryVars, network,
     load, kept
<1> QED
  BY <1>1, FlowStep, OpenStep, SetUpStep, RestoreModeStep, RestoreSettingsStep, LoadSteps, PollSteps,
     UpdateStep, EndSteps, SaveStep DEF Next

----------------------------------------------------------------------------
\* The inductive invariant of Lifecycle.
THEOREM LifecycleInvariant == Spec => []LInv
BY LInit, LStep, PTL DEF Spec

\* The variables of Lifecycle keep their types.
THEOREM LifecycleTypes == Spec => []LTypeOK
<1>1. LInv => LTypeOK
  BY DEF LInv
<1> QED
  BY <1>1, LifecycleInvariant, PTL

\* The SoC thresholds keep their gap in every load, whenever loads end and
\* whatever Home Assistant has kept of them.
THEOREM GapSurvives == Spec => []GapKept
<1>1. LInv => GapKept
  BY DEF LInv
<1> QED
  BY <1>1, LifecycleInvariant, PTL

\* What an entity restores is what the controller had when the entity's state
\* was last kept, if it was on display then.
LEMMA RestoresStep ==
    ASSUME LInv, [Next]_lvars, NEW p \in restoring \ restoring', entry' = "loaded", left[p].shown
    PROVE  Value(p)' = left[p].had
<1>1. p \in Platforms /\ entry = "loaded"
  BY DEF LInv, LTypeOK
<1>2. stored[p] = left[p].had
  BY <1>1 DEF LInv, MemoryOK, LeftKept
<1>3. CASE RestoreMode /\ p = "select"
  <2>1. stored[p] \in CHARGE_MODES /\ mode' = stored[p]
    BY <1>2, <1>3 DEF LInv, MemoryOK, DisplayOK, RestoreMode
  <2> QED
    BY <1>2, <1>3, <2>1 DEF Value
<1>4. CASE RestoreNumbers /\ p = "number"
  <2>1. stored[p] \in GapNumbers /\ stored[p] # None
    BY <1>2, <1>4, LifecycleAssumption DEF LInv, MemoryOK, DisplayOK, GapNumbers
  <2>2. settings' = WithNumbers(stored[p]) /\ settings \in PvSettings /\ GapKept
    BY <1>4, <2>1 DEF RestoreNumbers, LInv, LTypeOK
  <2>3. Numbers' = stored[p]
    BY <2>1, <2>2, NumbersBack
  <2> QED
    BY <1>2, <1>4, <2>3 DEF Value
<1>5. CASE RestoreSwitch /\ p = "switch"
  <2>1. stored[p] \in {"on", "off"} /\ settings \in PvSettings
    BY <1>2, <1>5 DEF LInv, LTypeOK, MemoryOK, DisplayOK
  <2>2. settings'.autoReturn = (stored[p] = "on")
    BY <1>5, <2>1 DEF RestoreSwitch, PvSettings
  <2> QED
    BY <1>2, <1>5, <2>1, <2>2 DEF Value
<1>6. ASSUME restoring' = restoring PROVE FALSE
  BY <1>6
<1> QED
  BY <1>1, <1>3, <1>4, <1>5, <1>6 DEF Next, lvars, SubmitAddress, Validated, SetUp, RestoreMode,
     RestoreNumbers, RestoreSwitch, Adds, Pick, Override, Decide, End, LoadStep, PollGood, PollBad,
     UpdateSetting, Dump, Unload, Crash, Ends, OpenOptions, SaveOptions, LinkChanges

THEOREM RestoresWhatWasLeft == Spec => RestoredAsLeft
<1>1. LInv /\ [Next]_lvars =>
        [\A p \in restoring \ restoring' :
            entry' = "loaded" /\ left[p].shown => Value(p)' = left[p].had]_lvars
  BY RestoresStep
<1> QED
  BY <1>1, LifecycleInvariant, PTL DEF Spec, RestoredAsLeft
=============================================================================
