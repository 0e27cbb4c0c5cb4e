----------------------------- MODULE Lifecycle -----------------------------
(***************************************************************************)
(* One wallbox from its config flow on: the loads of its config entry, the *)
(* entities that restore what Home Assistant kept of the load before, the  *)
(* charge mode select, and the options flow.  Of the charge controller     *)
(* this needs only what it promises, ModePolicy: a load's modes and        *)
(* commands are steps of the policy here.                                  *)
(*                                                                         *)
(* Home Assistant (external) retries a failed set-up, keeps the states of  *)
(* restoring entities when they are removed, at shutdown and from time to  *)
(* time, and calls no service of an unavailable entity.                    *)
(***************************************************************************)
EXTENDS AmtronDefs

CONSTANTS
    DefaultOptions,   \* the options of an entry that has saved none
    DefaultSettings,  \* PvSettings()
    Forms,            \* what the options form can be filled in with
    Stops             \* how loads end, beside saved options: "unload", "crash"

\* What the number platform restores.
NumberSettings ==
    [socStart : SettingValues.socStart, socStop : SettingValues.socStop,
     minSwitch : SettingValues.minSwitch, buffer : SettingValues.buffer]

ASSUME LifecycleAssumption ==
    /\ None \notin NumberSettings /\ None \notin {"on", "off"}
    /\ DefaultOptions \in Options
    /\ {o \in Forms : o.start <= o.max} \subseteq Options
    /\ DefaultSettings \in PvSettings
    /\ DefaultSettings.socStop < DefaultSettings.socStart
    /\ Stops \subseteq {"unload", "crash"}

VARIABLES
    entry,        \* "none" configured, "down": stopped or not yet set up, "loaded"
    flow,         \* the config flow: "form", "validating", or an error it shows
    rendered,     \* maximum current the open options form was rendered with, or None
    saved,        \* entry.options; opts are those the load was set up with
    link,         \* requests reach the wallbox
    ok,           \* coordinator.last_update_success
    restoring,    \* platforms of this load whose entities have not been added
    mode,         \* the controller's mode, `released`, and whose command it awaits
    released,
    writer,
    settings,     \* PvSettings
    selected,     \* what the charge mode select shows
    stored,       \* what Home Assistant keeps of the restoring entities
    left          \* history: what the controller had when that was last stored

entryVars == <<entry, flow, rendered, saved, opts>>
network == <<link, ok>>
load == <<mode, released, writer>>
kept == <<stored, left>>
lvars == <<entryVars, network, restoring, load, settings, selected, kept>>

\* Only the policy's actions are used, which do not depend on `asked`.
Policy ==
    INSTANCE ModePolicy WITH asked <- FALSE, pvSources <- HasPv,
                             phaseSwitching <- PhaseSwitching

Errors == {"cannot_connect", "invalid_response", "unknown"}
Platforms == {"number", "select", "switch"}
Numbers ==
    [socStart |-> settings.socStart, socStop |-> settings.socStop,
     minSwitch |-> settings.minSwitch, buffer |-> settings.buffer]

\* The platform's entities exist; those of the settings need PV sources.
Present(p) == entry = "loaded" /\ p \notin restoring /\ (p = "select" \/ HasPv)

\* A new controller, and what stands for the missing one between two loads.
Fresh ==
    /\ mode' = "manual" /\ released' = FALSE /\ writer' = "none"
    /\ settings' = DefaultSettings

Init ==
    /\ entry = "none" /\ flow = "form" /\ rendered = None
    /\ opts = DefaultOptions /\ saved = DefaultOptions
    /\ link = TRUE /\ ok = FALSE
    /\ restoring = {}
    /\ mode = "manual" /\ released = FALSE /\ writer = "none"
    /\ settings = DefaultSettings
    /\ selected = "unavailable"
    /\ stored = [p \in Platforms |-> None]
    /\ left = [p \in Platforms |-> [had |-> None, shown |-> FALSE]]

(***************************************************************************)
(* The config flow: one read validates host, port and unit id.             *)
(***************************************************************************)
SubmitAddress ==
    /\ entry = "none" /\ flow # "validating"
    /\ flow' = "validating"
    /\ UNCHANGED <<entry, rendered, saved, opts, network, restoring, load, settings, selected, kept>>

Validated ==
    /\ entry = "none" /\ flow = "validating"
    /\ \/ link /\ entry' = "down" /\ flow' = "form"
       \/ flow' \in (IF link THEN Errors ELSE {"cannot_connect"}) /\ UNCHANGED entry
    /\ UNCHANGED <<rendered, saved, opts, network, restoring, load, settings, selected, kept>>

(***************************************************************************)
(* Set-up.  A first refresh that fails raises ConfigEntryNotReady, and the *)
(* set-up is tried again later; a good one makes a new controller and      *)
(* adds the entities.  A platform's entities are added without a pause.    *)
(***************************************************************************)
SetUp ==
    /\ entry = "down" /\ link
    /\ entry' = "loaded" /\ ok' = TRUE
    /\ restoring' = IF HasPv THEN Platforms ELSE {"select"}
    /\ Fresh
    /\ UNCHANGED <<flow, rendered, saved, opts, link, selected, kept>>

Adds(p) ==
    /\ entry = "loaded" /\ p \in restoring
    /\ restoring' = restoring \ {p}
    /\ UNCHANGED <<entryVars, network, writer, kept>>

\* CoordinatorEntity.available: after a failed poll an entity shows no value.
Shown(value, available) == IF available THEN value ELSE "unavailable"

\* Mutant: what was kept is restored whatever it says.
RestoreModeUnchecked ==
    /\ Adds("select")
    /\ IF stored["select"] # None
       THEN mode' = stored["select"] /\ released' = FALSE
       ELSE UNCHANGED <<mode, released>>
    /\ selected' = Shown(mode', ok)
    /\ UNCHANGED settings
\* restore_mode takes no lock, and ignores what is not a mode.
RestoreMode ==
    /\ Adds("select")
    /\ IF stored["select"] \in CHARGE_MODES
       THEN mode' = stored["select"] /\ released' = FALSE
       ELSE UNCHANGED <<mode, released>>
    /\ selected' = Shown(mode', ok)
    /\ UNCHANGED settings

\* The numbers come back from data of their own, which an unavailable entity has too.
WithNumbers(n) ==
    [settings EXCEPT !.socStart = n.socStart, !.socStop = n.socStop,
                     !.minSwitch = n.minSwitch, !.buffer = n.buffer]

\* Mutant: a restored number is checked as the user's are, against the others
\* as they are at that moment.
RestoreNumbersChecked ==
    /\ Adds("number")
    /\ settings' = IF stored["number"] = None THEN settings
                   ELSE IF stored["number"].socStart <= settings.socStop
                   THEN [WithNumbers(stored["number"]) EXCEPT !.socStart = settings.socStart]
                   ELSE WithNumbers(stored["number"])
    /\ UNCHANGED <<mode, released, selected>>
\* restore_setting: not checked, "a restored start/stop pair is only
\* consistent once both are back".
RestoreNumbers ==
    /\ Adds("number")
    /\ settings' = IF stored["number"] = None THEN settings ELSE WithNumbers(stored["number"])
    /\ UNCHANGED <<mode, released, selected>>

RestoreSwitch ==
    /\ Adds("switch")
    /\ settings' = IF stored["switch"] \in {"on", "off"}
                   THEN [settings EXCEPT !.autoReturn = (stored["switch"] = "on")] ELSE settings
    /\ UNCHANGED <<mode, released, selected>>

(***************************************************************************)
(* A load at work.                                                         *)
(***************************************************************************)
Select == IF Present("select") THEN Shown(mode', ok') ELSE selected
\* _notify: what runs to the end of a cycle or a mode change notifies; a
\* command that is under way does so when it ends.
Notify == selected' = IF writer' = "none" THEN Select ELSE selected

LoadStep ==
    /\ entry = "loaded"
    /\ UNCHANGED <<entryVars, network, restoring, settings, kept>>

Pick == Present("select") /\ ok /\ LoadStep /\ Policy!Pick /\ Notify
Override == ok /\ LoadStep /\ Policy!Override /\ Notify
Decide == LoadStep /\ Policy!Decide /\ Notify

\* A failed manual action and an error nobody converts skip the notification.
End == LoadStep /\ Policy!End /\ selected' \in {Select, selected}

\* Mutant: polling stops after a poll that failed.
PollGoodOnce ==
    /\ entry = "loaded" /\ link /\ ok
    /\ ok' = TRUE
    /\ UNCHANGED <<entryVars, link, restoring, settings, kept>>
    /\ Policy!CarGone \/ UNCHANGED load
    /\ selected' = Select
\* The controller hears of a poll before the entities do.
PollGood ==
    /\ entry = "loaded" /\ link
    /\ ok' = TRUE
    /\ UNCHANGED <<entryVars, link, restoring, settings, kept>>
    /\ Policy!CarGone \/ UNCHANGED load
    /\ selected' = Select

PollBad ==
    /\ entry = "loaded"
    /\ ok' = FALSE
    /\ UNCHANGED <<entryVars, link, restoring, load, settings, kept>>
    /\ selected' = Select

Changes(new) ==
    \E k \in SettingKeys :
        /\ Present(IF k = "autoReturn" THEN "switch" ELSE "number")
        /\ \A other \in SettingKeys \ {k} : new[other] = settings[other]
\* Mutant: the thresholds are not checked against each other.
UpdateSettingUnchecked ==
    /\ ok
    /\ \E new \in PvSettings : Changes(new) /\ settings' = new
    /\ UNCHANGED <<entryVars, network, restoring, load, kept>>
    /\ selected' = Select
UpdateSetting ==
    /\ ok
    /\ \E new \in PvSettings :
          Changes(new) /\ new.socStop < new.socStart /\ settings' = new
    /\ UNCHANGED <<entryVars, network, restoring, load, kept>>
    /\ selected' = Select

(***************************************************************************)
(* The end of a load.                                                      *)
(***************************************************************************)
\* The states of the entities that exist are kept, from time to time and when
\* they are removed; of the others Home Assistant keeps what it had.
Value(p) ==
    CASE p = "select" -> mode
      [] p = "number" -> Numbers
      [] p = "switch" -> IF settings.autoReturn THEN "on" ELSE "off"
State(p) ==
    CASE p = "select" -> selected
      [] p = "number" -> Numbers
      [] p = "switch" -> Shown(Value("switch"), ok)
Store ==
    /\ stored' = [p \in Platforms |-> IF Present(p) THEN State(p) ELSE stored[p]]
    /\ left' = [p \in Platforms |->
                   IF Present(p) THEN [had |-> Value(p), shown |-> State(p) = Value(p)]
                   ELSE left[p]]

Dump ==
    /\ entry = "loaded"
    /\ Store
    /\ UNCHANGED <<entryVars, network, restoring, load, settings, selected>>

Ends ==
    /\ entry = "loaded" /\ entry' = "down"
    /\ Fresh
    /\ opts' = saved'
    /\ ok' = FALSE /\ restoring' = {} /\ selected' = "unavailable"
    /\ UNCHANGED link

\* The entry is reloaded, or Home Assistant restarted, by the user.
Unload ==
    /\ "unload" \in Stops
    /\ UNCHANGED <<flow, rendered, saved>>
    /\ Ends /\ Store

Crash ==
    /\ "crash" \in Stops
    /\ UNCHANGED <<flow, rendered, saved, kept>>
    /\ Ends

(***************************************************************************)
(* The options flow.  The form's schema bounds the start current by the    *)
(* maximum saved when the form was rendered, which another dialog may have *)
(* changed since.  New options reload an entry that listens to updates: it *)
(* does once its platforms are set up, and options saved before that wait  *)
(* for the next set-up.                                                    *)
(***************************************************************************)
OpenOptions ==
    /\ entry # "none"
    /\ rendered' = saved.max
    /\ UNCHANGED <<entry, flow, saved, opts, network, restoring, load, settings, selected, kept>>

InSchema(o) ==
    /\ o.max \in MIN_CURRENT_A..ABS_MAX_CURRENT_A
    /\ o.pause \in 0..ABS_MAX_CURRENT_A
    /\ o.start \in MIN_CURRENT_A..rendered

Listens == entry = "loaded" /\ restoring = {}

SaveOptions ==
    /\ rendered # None
    /\ \E o \in Forms : InSchema(o) /\ o.start <= o.max /\ saved' = o
    /\ \/ Listens /\ saved' # saved /\ Ends /\ Store
       \/ /\ ~Listens \/ saved' = saved
          /\ opts' = IF entry = "loaded" THEN opts ELSE saved'
          /\ UNCHANGED <<entry, network, restoring, load, settings, selected, kept>>
    /\ UNCHANGED <<flow, rendered>>

LinkChanges ==
    /\ link' = ~link
    /\ UNCHANGED <<entryVars, ok, restoring, load, settings, selected, kept>>

Next ==
    \/ SubmitAddress \/ Validated
    \/ SetUp \/ RestoreMode \/ RestoreNumbers \/ RestoreSwitch
    \/ Pick \/ Override \/ Decide \/ End \/ UpdateSetting
    \/ PollGood \/ PollBad
    \/ Dump \/ Unload \/ Crash
    \/ OpenOptions \/ SaveOptions
    \/ LinkChanges

Spec == Init /\ [][Next]_lvars

\* Set-up is retried, entities are added, polls go on, commands end.
FairSpec ==
    /\ Spec
    /\ WF_lvars(SetUp) /\ WF_lvars(PollGood) /\ WF_lvars(End)
    /\ WF_lvars(RestoreMode) /\ WF_lvars(RestoreNumbers) /\ WF_lvars(RestoreSwitch)

----------------------------------------------------------------------------
\* The types of the variables.
LTypeOK ==
    /\ entry \in {"none", "down", "loaded"}
    /\ flow \in {"form", "validating"} \cup Errors
    /\ rendered \in Nat \cup {None}
    /\ link \in BOOLEAN /\ ok \in BOOLEAN
    /\ restoring \subseteq Platforms
    /\ mode \in CHARGE_MODES /\ released \in BOOLEAN
    /\ writer \in {"none", "loop", "user"}
    /\ settings \in PvSettings
    /\ selected \in CHARGE_MODES \cup {"unavailable"}

\* The stop SoC is below the start SoC in every load, although settings are
\* restored unchecked and PV sources come and go between loads: otherwise a
\* cycle would start and stop charging at the same SoC (update_setting).
GapKept == settings.socStop < settings.socStart

\* What an entity restores is what the controller had when its state was last
\* kept, if the entity showed it then: through crashes, failed set-ups, a load
\* that ended before it had restored, and loads without PV sources.  Only the
\* numbers survive a wallbox that was unreachable (async_added_to_hass).
RestoredAsLeft ==
    [][\A p \in restoring \ restoring' :
          entry' = "loaded" /\ left[p].shown => Value(p)' = left[p].had]_lvars

\* "Restored after a restart, so e.g. "off" stays off." (select.py): unless the
\* select still showed an earlier mode, because the write of 0 A was under way.
OffStaysOff ==
    [][/\ Adds("select")
       /\ left["select"].had = "off"
       /\ stored["select"] \in {"off", "unavailable"}
       => mode' = "off"]_lvars

\* With the wallbox reachable, every end of a load is followed by a set-up, and
\* the select shows the controller's mode again and again, whatever failed
\* polls and failed commands left on display.
SelectReturns ==
    <>[](entry # "none" /\ link) =>
        \/ []<><<Ends>>_lvars
        \/ <>[]Present("select") /\ []<>(selected = mode)
=============================================================================
