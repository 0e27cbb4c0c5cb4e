---------------------------- MODULE AmtronDefs ----------------------------
(***************************************************************************)
(* Vocabulary of the Mennekes AMTRON integration: the charge point         *)
(* statuses, charge modes and control states of const.py and               *)
(* charge_controller.py, the configuration of one entry, and the pure      *)
(* arithmetic of the PV controller.                                        *)
(*                                                                         *)
(* Time is kept as ages.  Where the code stores a monotonic time stamp and *)
(* later compares `now - stamp` with a threshold, the model stores how     *)
(* many ticks ago the stamp was taken; ages stop growing at AgeCap, which  *)
(* is beyond every threshold.                                              *)
(***************************************************************************)
EXTENDS Integers

CONSTANTS
    None,             \* Python's None
    Options,          \* option sets an entry may have
    Averages,         \* values the surplus average takes, None: too few samples
    Socs,             \* values the SoC entity takes, None: unavailable
    SettingValues,    \* for each controller setting, the values it is given
    UnplugReset,      \* PV_UNPLUG_RESET_S in ticks
    DoneAfter,        \* IMMEDIATE_DONE_AFTER_S in ticks
    MaxWait,          \* bound: ticks a queued cycle waits for the lock
    AgeCap            \* bound: age at which a clock stops counting

VARIABLE
    opts              \* the options the entry was set up with

MIN_CURRENT_A == 6
ABS_MAX_CURRENT_A == 32
PV_WATTS_PER_AMP == 230
MIN_SURPLUS_W == MIN_CURRENT_A * PV_WATTS_PER_AMP

\* What the options flow lets through: its schema and its cross-field check.
ValidOptions ==
    {o \in [max : MIN_CURRENT_A..ABS_MAX_CURRENT_A, pause : 0..ABS_MAX_CURRENT_A,
            start : MIN_CURRENT_A..ABS_MAX_CURRENT_A, phaseSwitching : BOOLEAN,
            pv : BOOLEAN, soc : BOOLEAN] : o.start <= o.max}

MaxCurrent == opts.max
PauseCurrent == opts.pause
StartCurrent == opts.start
HasPv == opts.pv                        \* a PvSurplusTracker exists
HasSoc == opts.soc                      \* a battery SoC entity is chosen
PhaseSwitching == opts.phaseSwitching   \* phase_mode is not "disabled"

SESSION_ACTIVE_STATUSES == {"charging", "suspended_evse", "suspended_ev"}
CHARGING_RELEASED_STATUSES == {"charging", "suspended_ev"}
CONTROLLABLE_STATUSES ==
    {"available", "preparing", "finishing"} \cup SESSION_ACTIVE_STATUSES
UncontrollableStatuses ==
    {"occupied", "reserved", "unavailable", "faulted", "unknown"}
CP_STATUS == CONTROLLABLE_STATUSES \cup UncontrollableStatuses

CHARGE_MODES == {"pv_surplus", "immediate", "off", "manual"}

CONTROL_STATES ==
    {"manual", "off", "immediate", "not_connected", "no_data", "no_sources",
     "phase_switching_enabled", "waiting_for_soc", "waiting_for_surplus",
     "charging_pv", "buffering", "min_interval", "error"}

SettingKeys == {"socStart", "socStop", "minSwitch", "buffer", "autoReturn"}
PvSettings ==
    [socStart : SettingValues.socStart, socStop : SettingValues.socStop,
     minSwitch : SettingValues.minSwitch, buffer : SettingValues.buffer,
     autoReturn : SettingValues.autoReturn]

Age == 0..AgeCap
Stamp == Age \cup {None}
Older(a) == IF a \in Age /\ a < AgeCap THEN a + 1 ELSE a

(***************************************************************************)
(* `now - stamp >= threshold`, for a stamp taken `age` ticks ago and a     *)
(* `now` that was itself captured `n` ticks ago.                           *)
(***************************************************************************)
Elapsed(age, n, threshold) == age # None /\ age - n >= threshold

Least(a, b) == IF a <= b THEN a ELSE b
Greatest(a, b) == IF a >= b THEN a ELSE b

\* Mutant: the configured maximum is not applied.
TargetUncapped(avg) == Greatest(avg \div PV_WATTS_PER_AMP, MIN_CURRENT_A)
\* The regulated current: floor(average / 230 W) within 6 A .. the maximum.
Target(avg) ==
    Least(Greatest(avg \div PV_WATTS_PER_AMP, MIN_CURRENT_A), MaxCurrent)

ASSUME NoneAssumption ==
    /\ None \notin Int
    /\ None \notin CP_STATUS
    /\ None \notin CONTROL_STATES
ASSUME OptionsAssumption == Options \subseteq ValidOptions
ASSUME ReadingAssumption ==
    /\ Averages \subseteq Int \cup {None}
    /\ Socs \subseteq Nat \cup {None}
ASSUME SettingAssumption ==
    /\ SettingValues.socStart \subseteq Nat
    /\ SettingValues.socStop \subseteq Nat
    /\ SettingValues.minSwitch \subseteq 0..(AgeCap - MaxWait)
    /\ SettingValues.buffer \subseteq 0..(AgeCap - MaxWait)
    /\ SettingValues.autoReturn \subseteq BOOLEAN
ASSUME TimeAssumption ==
    /\ MaxWait \in Nat
    /\ AgeCap \in Nat
    /\ UnplugReset \in 0..(AgeCap - MaxWait)
    /\ DoneAfter \in 0..(AgeCap - MaxWait)
=============================================================================
