-------------------------- MODULE ChargeController --------------------------
(***************************************************************************)
(* The charge controller together with the coordinator and the wallbox it  *)
(* drives.  A control cycle decides in one step: the code between taking   *)
(* the lock and the first await is not interrupted.  If the decision is a  *)
(* write, the cycle waits for the command with the lock held, and what it  *)
(* does afterwards (`then` of the task) is a step of its own, after any    *)
(* polls that completed in between.                                        *)
(***************************************************************************)
EXTENDS Coordinator, Sequences

CONSTANTS
    InitModes,        \* modes the select may have restored
    UserModes,        \* modes the user picks
    UserOps,          \* manual controls used: "start", "pause", "limit", "power"
    UserLimits,       \* values the current limit slider is set to
    Steady            \* pairs of readings the sources may settle at

ASSUME UserAssumption ==
    /\ InitModes \subseteq CHARGE_MODES
    /\ UserModes \subseteq CHARGE_MODES
    /\ UserOps \subseteq {"start", "pause", "limit", "power"}
    /\ UserLimits \subseteq Nat
    /\ Steady \subseteq Averages \X Socs

VARIABLES
    ctl,       \* mode, released and the four time stamps, as ages
    shown,     \* ChargeController.state, what the diagnostic sensor shows
    settings,  \* PvSettings
    waiting,   \* ages of the `now` of the timer cycles queued on the lock, in order
    readings   \* pairs <<surplus average, SoC>> that cycles read from now on

controller == <<ctl, shown, settings, waiting>>
world == <<readings, opts>>
vars == <<wallbox, coordinator, controller, world>>

Ctl ==
    [mode : CHARGE_MODES, released : BOOLEAN, lastSwitch : Stamp,
     belowMin : Stamp, unplugged : Stamp, vehiclePaused : Stamp]

TypeOK ==
    /\ WallboxTypeOK
    /\ CoordinatorTypeOK
    /\ ctl \in Ctl
    /\ shown \in CONTROL_STATES
    /\ settings \in PvSettings
    /\ waiting \in Seq(Age)
    /\ readings \subseteq Averages \X Socs
    /\ opts \in Options

\* The select and the settings entities have restored their values; the
\* first refresh came before the controller listened to updates.
Init ==
    /\ opts \in Options
    /\ WallboxInit
    /\ CoordinatorInit
    /\ ctl \in [mode : InitModes, released : {FALSE}, lastSwitch : {None},
                belowMin : {None}, unplugged : {None}, vehiclePaused : {None}]
    /\ shown = "manual"
    /\ settings \in PvSettings
    /\ waiting = <<>>
    /\ readings = Averages \X Socs

LockFree == \A c \in Callers : task[c].step = "idle"

EnterMode(k, mode) ==
    [k EXCEPT !.mode = mode, !.released = FALSE,
              !.belowMin = None, !.vehiclePaused = None]

Released(k) == [k EXCEPT !.released = TRUE]
\* Mutant: the release is taken back without its buffer clock.
NotReleasedOnly(k) == [k EXCEPT !.released = FALSE]
NotReleased(k) == [k EXCEPT !.released = FALSE, !.belowMin = None]

(***************************************************************************)
(* Outcomes of a cycle run by caller c that leaves the controller in k: it *)
(* returns a state to show, or it awaits a command.                        *)
(***************************************************************************)
Shows(k, s) ==
    /\ ctl' = k
    /\ shown' = s
    /\ UNCHANGED task

Sends(c, k, command) ==
    /\ ctl' = k
    /\ task' = [task EXCEPT ![c] = command]
    /\ UNCHANGED shown

SwitchAllowed(k, n) ==
    k.lastSwitch = None \/ Elapsed(k.lastSwitch, n, settings.minSwitch)

\* Mutant: the switch is not stamped, so nothing holds back the next one.
SwitchesUnstamped(c, k, n, command) == Sends(c, k, command)
\* A start or stop, kept apart from the previous one by the lockout.
Switches(c, k, n, command) ==
    \/ SwitchAllowed(k, n) /\ Sends(c, [k EXCEPT !.lastSwitch = n], command)
    \/ ~SwitchAllowed(k, n) /\ Shows(k, "min_interval")

(***************************************************************************)
(* PV surplus.  A cycle reads the surplus average and the SoC once; sun,   *)
(* house and battery give it any pair of readings.                         *)
(***************************************************************************)
SocOk(soc) == HasSoc => soc >= settings.socStart

RegulateStopped(c, k, n, avg, soc) ==
    LET waits == IF SocOk(soc) THEN "waiting_for_surplus" ELSE "waiting_for_soc"
        startNow == SocOk(soc) /\ avg >= MIN_SURPLUS_W
        runsOnItsOwn == data.status \in CHARGING_RELEASED_STATUSES /\ data.limit # 0
    IN  \/ /\ startNow
           /\ Switches(c, k, n, Command("start", Target(avg), "release", "charging_pv"))
        \/ /\ ~startNow /\ runsOnItsOwn
           /\ Switches(c, k, n, Command("limit", 0, "keep", waits))
        \/ /\ ~startNow /\ ~runsOnItsOwn
           /\ Shows(k, waits)

\* Mutant: the buffer clock is restarted by every cycle below 6 A.
BelowMinRestarted(k, n, avg) ==
    IF avg >= MIN_SURPLUS_W THEN [k EXCEPT !.belowMin = None]
    ELSE [k EXCEPT !.belowMin = n]
\* The buffer clock starts at the first cycle below 6 A of surplus.
BelowMin(k, n, avg) ==
    IF avg >= MIN_SURPLUS_W THEN [k EXCEPT !.belowMin = None]
    ELSE IF k.belowMin = None THEN [k EXCEPT !.belowMin = n] ELSE k

ChargingOrBuffering(k) == IF k.belowMin = None THEN "charging_pv" ELSE "buffering"

RegulateReleased(c, k0, n, avg, soc) ==
    LET k == BelowMin(k0, n, avg)
        socTooLow == HasSoc /\ soc < settings.socStop
        bufferOver == Elapsed(k.belowMin, n, settings.buffer)
        waits == IF socTooLow THEN "waiting_for_soc" ELSE "waiting_for_surplus"
    IN  \/ /\ socTooLow \/ bufferOver
           /\ Switches(c, k, n, Command("limit", 0, "stop", waits))
        \/ /\ ~socTooLow /\ ~bufferOver
           /\ data.limit # Target(avg)
           /\ Sends(c, k, Command("limit", Target(avg), "adjust", None))
        \/ /\ ~socTooLow /\ ~bufferOver
           /\ data.limit = Target(avg)
           /\ Shows(k, ChargingOrBuffering(k))

Regulate(c, k, n) ==
    \/ ~HasPv /\ Shows(k, "no_sources")
    \/ /\ HasPv
       /\ \E r \in readings : LET avg == r[1]  soc == r[2] IN
             \/ /\ avg = None \/ (HasSoc /\ soc = None)
                /\ Shows(k, "no_data")
             \/ /\ avg # None
                /\ HasSoc => soc # None
                /\ LET ended == k.released /\ data.status = "finishing"
                   IN  \/ /\ ended \/ ~k.released
                          /\ RegulateStopped(c, IF ended THEN NotReleased(k) ELSE k, n, avg, soc)
                       \/ /\ ~ended /\ k.released
                          /\ RegulateReleased(c, k, n, avg, soc)

(***************************************************************************)
(* Immediate.                                                              *)
(***************************************************************************)
\* The clock of a car that pauses by itself, as _vehicle_full keeps it.
VehiclePaused(k, n) ==
    IF data.status # "suspended_ev" THEN [k EXCEPT !.vehiclePaused = None]
    ELSE IF k.vehiclePaused = None THEN [k EXCEPT !.vehiclePaused = n] ELSE k

VehicleFull(k, n) ==
    /\ data.status = "suspended_ev"
    /\ settings.autoReturn
    /\ HasPv
    /\ Elapsed(k.vehiclePaused, n, DoneAfter)

\* Mutant: a finished session is taken for an open one.
ChargeAtMaxFinishing(c, k, n) ==
    \/ /\ data.status # "preparing"
       /\ data.limit # MaxCurrent
       /\ Sends(c, k, Command("limit", MaxCurrent, "keep", "immediate"))
    \/ /\ data.status # "preparing"
       /\ data.limit = MaxCurrent
       /\ Shows(k, "immediate")
    \/ /\ data.status = "preparing"
       /\ Switches(c, k, n, Command("start", MaxCurrent, "keep", "immediate"))
ChargeAtMax(c, k, n) ==
    \/ /\ data.status \in SESSION_ACTIVE_STATUSES
       /\ data.limit # MaxCurrent
       /\ Sends(c, k, Command("limit", MaxCurrent, "keep", "immediate"))
    \/ /\ data.status \in SESSION_ACTIVE_STATUSES
       /\ data.limit = MaxCurrent
       /\ Shows(k, "immediate")
    \/ /\ data.status \notin SESSION_ACTIVE_STATUSES
       /\ Switches(c, k, n, Command("start", MaxCurrent, "keep", "immediate"))

Immediate(c, k0, n) ==
    LET k == VehiclePaused(k0, n)
    IN  \/ VehicleFull(k, n) /\ Regulate(c, EnterMode(k, "pv_surplus"), n)
        \/ ~VehicleFull(k, n) /\ ChargeAtMax(c, k, n)

\* Mutant: Off acts only on an open session.
OffWhenOpen(c, k) ==
    \/ /\ data.limit # 0 /\ data.status \in SESSION_ACTIVE_STATUSES
       /\ Sends(c, k, Command("limit", 0, "keep", "off"))
    \/ /\ data.limit = 0 \/ data.status \notin SESSION_ACTIVE_STATUSES
       /\ Shows(k, "off")
Off(c, k) ==
    \/ data.limit # 0 /\ Sends(c, k, Command("limit", 0, "keep", "off"))
    \/ data.limit = 0 /\ Shows(k, "off")

NotConnected(k) ==
    Shows([NotReleased(k) EXCEPT !.vehiclePaused = None], "not_connected")

(***************************************************************************)
(* _async_apply_mode: one cycle of caller c, from controller state k, with *)
(* a `now` captured n ticks ago.                                           *)
(***************************************************************************)
Usable == ok /\ data.status \in CONTROLLABLE_STATUSES

\* Mutant: Off is applied also when the wallbox switches phases.
CycleAnyPhase(c, k, n) ==
    /\ k.mode = "off"
    /\ Off(c, k)
Cycle(c, k, n) ==
    \/ k.mode = "manual" /\ Shows(k, "manual")
    \/ /\ k.mode # "manual"
       /\ \/ PhaseSwitching /\ Shows(k, "phase_switching_enabled")
          \/ ~PhaseSwitching /\ ~Usable /\ Shows(k, "no_data")
          \/ /\ ~PhaseSwitching /\ Usable
             /\ \/ k.mode = "off" /\ Off(c, k)
                \/ /\ k.mode # "off" /\ data.status = "available"
                   /\ NotConnected(k)
                \/ /\ k.mode = "immediate" /\ data.status # "available"
                   /\ Immediate(c, k, n)
                \/ /\ k.mode = "pv_surplus" /\ data.status # "available"
                   /\ Regulate(c, k, n)

(***************************************************************************)
(* Entry points.                                                           *)
(***************************************************************************)
\* The interval timer captures `now`, and goes on firing while cycles queue on
\* the lock; its interval is no shorter than a tick.
TimerFires ==
    /\ \/ /\ LockFree /\ waiting = <<>>
          /\ Cycle("timer", ctl, 0)
          /\ UNCHANGED waiting
       \/ /\ ~LockFree \/ waiting # <<>>
          /\ \A i \in DOMAIN waiting : waiting[i] # 0
          /\ waiting' = Append(waiting, 0)
          /\ UNCHANGED <<ctl, shown, task>>
    /\ UNCHANGED <<wallbox, world, data, ok, poll, settings>>

QueuedCycle ==
    /\ LockFree
    /\ waiting # <<>>
    /\ Cycle("timer", ctl, Head(waiting))
    /\ waiting' = Tail(waiting)
    /\ UNCHANGED <<wallbox, world, data, ok, poll, settings>>

\* Mutant: the mode is entered before the lock is taken.
SetModeEarly ==
    /\ \/ /\ LockFree
          /\ \E mode \in UserModes :
                Cycle("select", [EnterMode(ctl, mode) EXCEPT !.lastSwitch = None], 0)
       \/ /\ ~LockFree
          /\ \E mode \in UserModes : ctl' = EnterMode(ctl, mode)
          /\ UNCHANGED <<shown, task>>
    /\ UNCHANGED <<wallbox, world, data, ok, poll, settings, waiting>>
\* async_set_mode: the lockout does not hold back the user.
SetMode ==
    /\ LockFree
    /\ \E mode \in UserModes :
          Cycle("select", [EnterMode(ctl, mode) EXCEPT !.lastSwitch = None], 0)
    /\ UNCHANGED <<wallbox, world, data, ok, poll, settings, waiting>>

\* The buttons, and the sliders; the power slider exists with phase switching.
UserAmps(op) ==
    CASE op = "start" -> {StartCurrent}
      [] op = "pause" -> {PauseCurrent}
      [] op = "limit" -> {a \in UserLimits : a <= MaxCurrent}
      [] op = "power" -> IF PhaseSwitching THEN {None} ELSE {}
UserCommands ==
    UNION {{Command(IF op = "pause" THEN "limit" ELSE op, a, "manual", None) :
                a \in UserAmps(op)} : op \in UserOps}

\* Mutant: a manual action does not wait for the lock.
ManualActionUnlocked ==
    /\ task["manual"].step = "idle"
    /\ ctl' = EnterMode(ctl, "manual")
    /\ shown' = "manual"
    /\ \E command \in UserCommands : task' = [task EXCEPT !["manual"] = command]
    /\ UNCHANGED <<wallbox, world, data, ok, poll, settings, waiting>>
\* async_manual_action: back to manual, then the user's write.
ManualAction ==
    /\ LockFree
    /\ ctl' = EnterMode(ctl, "manual")
    /\ shown' = "manual"
    /\ \E command \in UserCommands : task' = [task EXCEPT !["manual"] = command]
    /\ UNCHANGED <<wallbox, world, data, ok, poll, settings, waiting>>

\* update_setting: refused when the pair of SoC thresholds has no gap.
UpdateSetting ==
    /\ \E new \in PvSettings :
          /\ \E k \in SettingKeys :
                \A other \in SettingKeys \ {k} : new[other] = settings[other]
          /\ new.socStop < new.socStart
          /\ settings' = new
    /\ UNCHANGED <<wallbox, world, coordinator, ctl, shown, waiting>>

(***************************************************************************)
(* Callbacks: a finished poll, and the return of a command.                *)
(***************************************************************************)
\* Mutant: a car that is gone does not take back the release.
UpdatedKeepsRelease(k, st) ==
    IF st # "available" THEN [k EXCEPT !.unplugged = None]
    ELSE [k EXCEPT !.unplugged = IF k.unplugged = None THEN 0 ELSE k.unplugged]
\* Mutant: an absent car ends every mode, not only Manual.
UpdatedAnyMode(k, st) ==
    IF st # "available" THEN [k EXCEPT !.unplugged = None]
    ELSE LET gone == [NotReleased(k) EXCEPT
                        !.unplugged = IF k.unplugged = None THEN 0 ELSE k.unplugged]
         IN  IF HasPv /\ gone.unplugged >= UnplugReset
             THEN EnterMode(gone, "pv_surplus") ELSE gone
\* handle_wallbox_update after a poll that read status st.
Updated(k, st) ==
    IF st # "available" THEN [k EXCEPT !.unplugged = None]
    ELSE LET gone == [NotReleased(k) EXCEPT
                        !.unplugged = IF k.unplugged = None THEN 0 ELSE k.unplugged]
         IN  IF /\ gone.mode = "manual"
                /\ HasPv
                /\ gone.unplugged >= UnplugReset
             THEN EnterMode(gone, "pv_surplus") ELSE gone

PollDone ==
    /\ PollLimit
    /\ ctl' = Updated(ctl, poll)
    /\ UNCHANGED <<shown, settings, waiting, world>>

PollOther ==
    /\ PollStatus \/ PollFails
    /\ UNCHANGED <<controller, world>>

\* What the code after the await does, by the task's continuation.
Continue(t) ==
    \/ /\ t.then = "release"
       /\ ctl' = Released(ctl) /\ shown' = t.shows
    \/ /\ t.then = "stop"
       /\ ctl' = NotReleased(ctl) /\ shown' = t.shows
    \/ /\ t.then = "adjust"
       /\ UNCHANGED ctl /\ shown' = ChargingOrBuffering(ctl)
    \/ /\ t.then = "keep"
       /\ UNCHANGED ctl /\ shown' = t.shows
    \/ /\ t.then = "manual"
       /\ UNCHANGED <<ctl, shown>>

CommandReturns(c) ==
    /\ task[c].step = "done"
    /\ Continue(task[c])
    /\ task' = [task EXCEPT ![c] = Idle]
    /\ UNCHANGED <<wallbox, world, data, ok, poll, settings, waiting>>

\* Mutant: a failed manual action never gives the lock back.
CommandRaisesHoldsLock(c) ==
    /\ task[c].step \in {"failed", "malformed"}
    /\ task[c].then # "manual"
    /\ shown' = "error"
    /\ task' = [task EXCEPT ![c] = Idle]
    /\ UNCHANGED <<wallbox, world, data, ok, poll, ctl, settings, waiting>>
\* An error skips the rest.  A HomeAssistantError makes a cycle show "error";
\* one that is not converted ends the cycle without a state.
CommandRaises(c) ==
    /\ task[c].step \in {"failed", "malformed"}
    /\ shown' = IF task[c].step = "failed" /\ task[c].then # "manual" THEN "error" ELSE shown
    /\ task' = [task EXCEPT ![c] = Idle]
    /\ UNCHANGED <<wallbox, world, data, ok, poll, ctl, settings, waiting>>

(***************************************************************************)
(* Time.  A queued cycle starts as soon as the lock is free.               *)
(***************************************************************************)
Tick ==
    /\ waiting # <<>> => ~LockFree
    /\ \A i \in DOMAIN waiting : waiting[i] < MaxWait
    /\ ctl' = [ctl EXCEPT !.lastSwitch = Older(@), !.belowMin = Older(@),
                          !.unplugged = Older(@), !.vehiclePaused = Older(@)]
    /\ waiting' = [i \in DOMAIN waiting |-> Older(waiting[i])]
    /\ UNCHANGED <<wallbox, world, coordinator, shown, settings>>

\* From some time on, sun, house and battery stay as they are.
ReadingsSettle ==
    /\ readings = Averages \X Socs
    /\ readings' \in {{r} : r \in Steady}
    /\ UNCHANGED <<opts, wallbox, coordinator, controller>>

Environment ==
    \/ WallboxNext /\ UNCHANGED <<coordinator, controller, world>>
    \/ ReadingsSettle

Request(c) == CommandStep(c) /\ UNCHANGED <<controller, world>>

Commands == \E c \in Callers : Request(c) \/ CommandReturns(c) \/ CommandRaises(c)

Next ==
    \/ Environment
    \/ PollDone \/ PollOther
    \/ Commands
    \/ TimerFires \/ QueuedCycle
    \/ SetMode \/ ManualAction \/ UpdateSetting
    \/ Tick

Spec == Init /\ [][Next]_vars

(***************************************************************************)
(* Requests time out, polls and cycles are started by interval timers, the *)
(* lock is first come first served, and an open session follows the        *)
(* offered current.  Nothing is assumed of the user, the car or the link.  *)
(***************************************************************************)
Fairness ==
    /\ WF_vars(PollStatus /\ UNCHANGED <<controller, world>>)
    /\ WF_vars(PollFails /\ UNCHANGED <<controller, world>>)
    /\ WF_vars(PollDone)
    /\ \A c \in Callers :
          WF_vars(Request(c)) /\ WF_vars(CommandReturns(c)) /\ WF_vars(CommandRaises(c))
    /\ WF_vars(TimerFires) /\ SF_vars(QueuedCycle)
    /\ WF_vars(Tick)
    /\ WF_vars(Settle /\ UNCHANGED <<coordinator, controller, world>>)

FairSpec == Spec /\ Fairness

----------------------------------------------------------------------------
(***************************************************************************)
(* Safety.                                                                 *)
(***************************************************************************)
LoopCallers == {"timer", "select"}
Busy(c) == task[c].step # "idle"

\* The controller's lock: callers never have commands under way together, so
\* the requests of two decisions cannot mix on the wallbox.
OneCommandAtATime ==
    \A c, d \in Callers : Busy(c) /\ Busy(d) => c = d

\* `released` and the clocks describe the mode they were set in: a release
\* exists only in PV surplus, the buffer clock runs only while released, the
\* paused-car clock only in Immediate.  `released` is set after an await and
\* cleared by polls, so this relates what three handlers leave behind.
ClocksFitMode ==
    /\ ctl.released => ctl.mode = "pv_surplus"
    /\ ctl.belowMin # None => ctl.released
    /\ ctl.vehiclePaused # None => ctl.mode = "immediate"

\* A command returns into the mode that sent it: its continuation is never
\* applied to another mode, although modes change by user and by poll.
CommandFitsMode ==
    \A c \in Callers : Busy(c) =>
        /\ task[c].then \in {"release", "stop", "adjust"} => ctl.mode = "pv_surplus"
        /\ task[c].then = "keep" => ctl.mode # "manual"
        /\ task[c].then = "manual" => ctl.mode \in {"manual", "pv_surplus"}

\* In Manual "the integration doesn't touch the wallbox on its own", and with
\* phase switching the loop leaves the current register alone.
LoopHandsOff ==
    ctl.mode = "manual" \/ PhaseSwitching =>
        \A c \in LoopCallers : ~Busy(c)

\* From its current write until it returns, a command finds its own current
\* in the register: a session is never authorized at a current left over from
\* somebody else (the comment in async_start_charging), and a stop that
\* returns has stopped.
RegisterHoldsCommand ==
    \A c \in Callers :
        task[c].step \in {"read", "tag", "done"} /\ task[c].op # "power" =>
            limit = task[c].amps

\* Whatever the surplus and the options, nothing writes more than the configured
\* maximum but the user's Pause: its current is bounded by 32 A only
\* (config_flow.py), and no cycle ever writes it.
WritesWithinMax ==
    [][limit' # limit /\ limit' > MaxCurrent =>
          Busy("manual") /\ limit' = PauseCurrent]_vars

(***************************************************************************)
(* Liveness.                                                               *)
(***************************************************************************)
\* Cycles that found the lock taken run in the end: commands always give the
\* lock back, whatever the network does to them.
QueuedCyclesRun == <>[](waiting # <<>>) => []<><<QueuedCycle>>_vars

\* Off holds the current at 0 A, although the loop decides on polled data
\* that may be older than the last write.
OffReachesZero ==
    <>[](ctl.mode = "off" /\ link /\ status \in CONTROLLABLE_STATUSES) => <>[](limit = 0)

Plugged == status \in {"preparing", "finishing"} \cup SESSION_ACTIVE_STATUSES

\* Immediate charges a connected car at the maximum: also after a replug that
\* fell between two polls, and again after each end of the session.
ImmediateCharges ==
    <>[](ctl.mode = "immediate" /\ link /\ Plugged)
        => []<>(limit = MaxCurrent /\ status \in SESSION_ACTIVE_STATUSES)

StopReading(r) ==
    /\ r[1] # None /\ r[2] # None
    /\ r[1] < MIN_SURPLUS_W \/ r[2] < settings.socStop

\* Without surplus, or below the stop SoC, PV surplus ends up at 0 A on an open
\* session: the buffer runs out and a session it did not start is stopped too.
PvStops ==
    <>[](/\ ctl.mode = "pv_surplus" /\ link
         /\ status \in SESSION_ACTIVE_STATUSES
         /\ \A r \in readings : StopReading(r))
        => <>[](limit = 0)

StartReading(r) ==
    /\ r[1] # None /\ r[2] # None
    /\ r[1] >= MIN_SURPLUS_W /\ r[2] >= settings.socStart

\* With surplus at a sufficient SoC, PV surplus charges a connected car at the
\* current the surplus pays for (README "Start when the battery SoC ...").
PvStarts ==
    <>[](/\ ctl.mode = "pv_surplus" /\ link /\ Plugged
         /\ \A r \in readings : StartReading(r))
        => <>[](/\ status \in SESSION_ACTIVE_STATUSES
                /\ \A r \in readings : limit = Target(r[1]))
=============================================================================
