---------------------- MODULE ChargeControllerProofs ----------------------
(***************************************************************************)
(* Theorems about ChargeController, for every configuration, every set of  *)
(* readings and every bound that the assumptions allow.                    *)
(***************************************************************************)
EXTENDS ChargeController, TLAPS

\* Names for the parts of the environment and of the options.
USE DEF world, MaxCurrent, PauseCurrent, StartCurrent, HasPv, HasSoc, PhaseSwitching

(***************************************************************************)
(* The parts of the inductive invariant that no run checks by itself: what *)
(* a command under way looks like, so that its register value and the      *)
(* state it will show are known when its requests and its return use them. *)
(***************************************************************************)
Commanded(t) ==
    /\ t.op \in Ops
    /\ t.then \in Continuations
    /\ t.op # "power" => t.amps \in Nat
    /\ t.then \in {"release", "stop", "keep"} => t.shows \in CONTROL_STATES

CommandShape ==
    \A c \in Callers : Busy(c) =>
        Commanded(task[c]) /\ (task[c].then = "manual" <=> c = "manual")

IInv ==
    /\ TypeOK
    /\ ClocksFitMode
    /\ OneCommandAtATime
    /\ CommandFitsMode
    /\ LoopHandsOff
    /\ RegisterHoldsCommand
    /\ CommandShape

(***************************************************************************)
(* What a decision of the loop leaves behind.                              *)
(***************************************************************************)
Consistent(k) ==
    /\ k.released => k.mode = "pv_surplus"
    /\ k.belowMin # None => k.released
    /\ k.vehiclePaused # None => k.mode = "immediate"

Fits(then, mode) ==
    \/ then \in {"release", "stop", "adjust"} /\ mode = "pv_surplus"
    \/ then = "keep" /\ mode # "manual"

LoopCommand(t) ==
    /\ t \in Tasks
    /\ t.step = "write"
    /\ t.op \in {"limit", "start"}
    /\ t.amps \in 0..MaxCurrent
    /\ Commanded(t)

Decided(c) ==
    /\ ctl' \in Ctl
    /\ Consistent(ctl')
    /\ \/ shown' \in CONTROL_STATES /\ task' = task
       \/ /\ shown' = shown
          /\ \E t \in Tasks :
                /\ task' = [task EXCEPT ![c] = t]
                /\ LoopCommand(t)
                /\ Fits(t.then, ctl'.mode)

----------------------------------------------------------------------------
(***************************************************************************)
(* Clocks.                                                                 *)
(***************************************************************************)
\* Ageing keeps a stamp a stamp, and neither sets nor clears it.
LEMMA OlderStamp ==
    ASSUME NEW a \in Stamp
    PROVE  Older(a) \in Stamp /\ (Older(a) = None <=> a = None)
BY NoneAssumption, TimeAssumption DEF Older, Stamp, Age

\* So a queue of cycles stays one.
LEMMA OlderQueue ==
    ASSUME NEW queue \in Seq(Age)
    PROVE  [i \in DOMAIN queue |-> Older(queue[i])] \in Seq(Age)
<1>1. \A a \in Age : Older(a) \in Age
  BY NoneAssumption, TimeAssumption DEF Older, Age
<1> QED
  BY <1>1

LEMMA ZeroIsAge == 0 \in Age
BY TimeAssumption DEF Age

\* The options flow lets no other options through.
LEMMA OptionsInRange ==
    ASSUME opts \in Options
    PROVE  /\ MaxCurrent \in MIN_CURRENT_A..ABS_MAX_CURRENT_A
           /\ StartCurrent \in Nat /\ StartCurrent <= MaxCurrent
           /\ PauseCurrent \in Nat
           /\ HasPv \in BOOLEAN /\ HasSoc \in BOOLEAN /\ PhaseSwitching \in BOOLEAN
BY OptionsAssumption DEF ValidOptions, MIN_CURRENT_A, ABS_MAX_CURRENT_A

\* The regulated current is a current, and never above the maximum.
LEMMA TargetInRange ==
    ASSUME TypeOK, NEW avg \in Int
    PROVE  Target(avg) \in MIN_CURRENT_A..MaxCurrent
<1>1. avg \div PV_WATTS_PER_AMP \in Int
  BY DEF PV_WATTS_PER_AMP
<1>2. opts \in Options
  BY DEF TypeOK
<1> QED
  BY <1>1, <1>2, OptionsInRange DEF Target, Least, Greatest, MIN_CURRENT_A, ABS_MAX_CURRENT_A

LEMMA MaxIsNat == ASSUME TypeOK PROVE MaxCurrent \in Nat
BY OptionsInRange DEF TypeOK, MIN_CURRENT_A

LEMMA NotReleasedCtl ==
    ASSUME NEW k \in Ctl, Consistent(k)
    PROVE  NotReleased(k) \in Ctl /\ Consistent(NotReleased(k)) /\ NotReleased(k).mode = k.mode
BY DEF NotReleased, Ctl, Consistent, Stamp

LEMMA EnterModeCtl ==
    ASSUME NEW k \in Ctl, NEW mode \in CHARGE_MODES
    PROVE  /\ EnterMode(k, mode) \in Ctl
           /\ Consistent(EnterMode(k, mode))
           /\ EnterMode(k, mode).mode = mode
BY DEF EnterMode, Ctl, Consistent, Stamp

----------------------------------------------------------------------------
(***************************************************************************)
(* Decisions.  A cycle either shows a state or sends one command that fits *)
(* the mode it leaves the controller in.                                   *)
(***************************************************************************)
LEMMA ShowsDecides ==
    ASSUME NEW c \in Callers, NEW k \in Ctl, Consistent(k),
           NEW s \in CONTROL_STATES, Shows(k, s)
    PROVE  Decided(c) /\ task' = task
BY DEF Shows, Decided

LEMMA SendsDecides ==
    ASSUME NEW c \in Callers, NEW k \in Ctl, Consistent(k),
           NEW t, LoopCommand(t), Fits(t.then, k.mode), Sends(c, k, t)
    PROVE  Decided(c)
BY DEF Sends, Decided, LoopCommand

LEMMA SwitchesDecides ==
    ASSUME NEW c \in Callers, NEW k \in Ctl, Consistent(k), NEW n \in Age,
           NEW t, LoopCommand(t), Fits(t.then, k.mode), Switches(c, k, n, t)
    PROVE  Decided(c)
<1> DEFINE stamped == [k EXCEPT !.lastSwitch = n]
<1>1. stamped \in Ctl /\ Consistent(stamped) /\ stamped.mode = k.mode
  BY DEF Ctl, Consistent, Stamp
<1>2. CASE Sends(c, stamped, t)
  BY <1>1, <1>2, SendsDecides
<1>3. CASE Shows(k, "min_interval")
  BY <1>3, ShowsDecides DEF CONTROL_STATES
<1> QED
  BY <1>2, <1>3 DEF Switches

\* The commands the loop sends are well formed.
LEMMA StartCommands ==
    ASSUME TypeOK, NEW amps \in 0..MaxCurrent, NEW then \in {"release", "keep"}, NEW s \in CONTROL_STATES
    PROVE  /\ LoopCommand(Command("start", amps, then, s))
           /\ Command("start", amps, then, s).then = then
BY MaxIsNat DEF Command, LoopCommand, Commanded, Tasks, Ops, Continuations, Steps

LEMMA LimitCommands ==
    ASSUME TypeOK, NEW amps \in 0..MaxCurrent, NEW then \in {"stop", "keep"}, NEW s \in CONTROL_STATES
    PROVE  /\ LoopCommand(Command("limit", amps, then, s))
           /\ Command("limit", amps, then, s).then = then
BY MaxIsNat DEF Command, LoopCommand, Commanded, Tasks, Ops, Continuations, Steps

LEMMA AdjustCommands ==
    ASSUME TypeOK, NEW amps \in 0..MaxCurrent
    PROVE  /\ LoopCommand(Command("limit", amps, "adjust", None))
           /\ Command("limit", amps, "adjust", None).then = "adjust"
BY MaxIsNat DEF Command, LoopCommand, Commanded, Tasks, Ops, Continuations, Steps

LEMMA TargetIsCurrent == ASSUME TypeOK, NEW avg \in Int PROVE Target(avg) \in 0..MaxCurrent
BY TargetInRange, MaxIsNat DEF MIN_CURRENT_A

LEMMA ExtremesAreCurrents ==
    ASSUME TypeOK PROVE 0 \in 0..MaxCurrent /\ MaxCurrent \in 0..MaxCurrent
BY MaxIsNat

LEMMA RegulateStoppedDecides ==
    ASSUME TypeOK, NEW c \in Callers, NEW k \in Ctl, Consistent(k), k.mode = "pv_surplus",
           NEW n \in Age, NEW avg \in Int, NEW soc, RegulateStopped(c, k, n, avg, soc)
    PROVE  Decided(c)
<1> DEFINE waits == IF SocOk(soc) THEN "waiting_for_surplus" ELSE "waiting_for_soc"
           start == Command("start", Target(avg), "release", "charging_pv")
           stop  == Command("limit", 0, "keep", waits)
<1>1. waits \in CONTROL_STATES /\ "charging_pv" \in CONTROL_STATES
  BY DEF CONTROL_STATES
<1>2. LoopCommand(start) /\ Fits(start.then, k.mode)
  BY <1>1, TargetIsCurrent, StartCommands DEF Fits
<1>3. LoopCommand(stop) /\ Fits(stop.then, k.mode)
  BY <1>1, ExtremesAreCurrents, LimitCommands DEF Fits
<1>4. CASE Switches(c, k, n, start)
  BY <1>2, <1>4, SwitchesDecides
<1>5. CASE Switches(c, k, n, stop)
  BY <1>3, <1>5, SwitchesDecides
<1>6. CASE Shows(k, waits)
  BY <1>1, <1>6, ShowsDecides
<1> QED
  BY <1>4, <1>5, <1>6 DEF RegulateStopped

LEMMA RegulateReleasedDecides ==
    ASSUME TypeOK, NEW c \in Callers, NEW k0 \in Ctl, Consistent(k0), k0.mode = "pv_surplus",
           k0.released, NEW n \in Age, NEW avg \in Int, NEW soc,
           RegulateReleased(c, k0, n, avg, soc)
    PROVE  Decided(c)
<1> DEFINE k == BelowMin(k0, n, avg)
           waits == IF HasSoc /\ soc < settings.socStop
                    THEN "waiting_for_soc" ELSE "waiting_for_surplus"
           stop == Command("limit", 0, "stop", waits)
           adjust == Command("limit", Target(avg), "adjust", None)
<1>1. k \in Ctl /\ Consistent(k) /\ k.mode = "pv_surplus"
  BY DEF BelowMin, Ctl, Consistent, Stamp
<1>2. /\ waits \in CONTROL_STATES
      /\ ChargingOrBuffering(k) \in CONTROL_STATES
  BY DEF CONTROL_STATES, ChargingOrBuffering
<1>3. LoopCommand(stop) /\ Fits(stop.then, k.mode)
  BY <1>1, <1>2, ExtremesAreCurrents, LimitCommands DEF Fits
<1>4. LoopCommand(adjust) /\ Fits(adjust.then, k.mode)
  BY <1>1, TargetIsCurrent, AdjustCommands DEF Fits
<1> HIDE DEF k, waits, stop, adjust
<1>5. CASE Switches(c, k, n, stop)
  BY <1>1, <1>3, <1>5, SwitchesDecides
<1>6. CASE Sends(c, k, adjust)
  BY <1>1, <1>4, <1>6, SendsDecides
<1>7. CASE Shows(k, ChargingOrBuffering(k))
  BY <1>1, <1>2, <1>7, ShowsDecides
<1> QED
  BY <1>5, <1>6, <1>7 DEF RegulateReleased, k, waits, stop, adjust

LEMMA RegulateDecides ==
    ASSUME TypeOK, NEW c \in Callers, NEW k \in Ctl, Consistent(k),
           k.mode = "pv_surplus", NEW n \in Age, Regulate(c, k, n)
    PROVE  Decided(c)
<1>1. CASE Shows(k, "no_sources")
  BY <1>1, ShowsDecides DEF CONTROL_STATES
<1>2. CASE Shows(k, "no_data")
  BY <1>2, ShowsDecides DEF CONTROL_STATES
<1>3. ASSUME NEW r \in readings, r[1] # None,
             \/ RegulateStopped(c, k, n, r[1], r[2])
             \/ RegulateStopped(c, NotReleased(k), n, r[1], r[2])
             \/ k.released /\ RegulateReleased(c, k, n, r[1], r[2])
      PROVE  Decided(c)
  <2>1. r[1] \in Int
    BY <1>3, ReadingAssumption DEF TypeOK
  <2>2. NotReleased(k) \in Ctl /\ Consistent(NotReleased(k)) /\ NotReleased(k).mode = "pv_surplus"
    BY NotReleasedCtl
  <2>3. CASE RegulateStopped(c, k, n, r[1], r[2])
    BY <2>1, <2>3, RegulateStoppedDecides
  <2>4. CASE RegulateStopped(c, NotReleased(k), n, r[1], r[2])
    BY <2>1, <2>2, <2>4, RegulateStoppedDecides
  <2>5. CASE k.released /\ RegulateReleased(c, k, n, r[1], r[2])
    BY <2>1, <2>5, RegulateReleasedDecides
  <2> QED
    BY <1>3, <2>3, <2>4, <2>5
<1> QED
  BY <1>1, <1>2, <1>3 DEF Regulate

LEMMA ImmediateDecides ==
    ASSUME TypeOK, NEW c \in Callers, NEW k0 \in Ctl, Consistent(k0),
           k0.mode = "immediate", NEW n \in Age, Immediate(c, k0, n)
    PROVE  Decided(c)
<1> DEFINE k == VehiclePaused(k0, n)
           raise == Command("limit", MaxCurrent, "keep", "immediate")
           start == Command("start", MaxCurrent, "keep", "immediate")
<1>1. k \in Ctl /\ Consistent(k) /\ k.mode = "immediate"
  BY DEF VehiclePaused, Ctl, Consistent, Stamp
<1>2. "immediate" \in CONTROL_STATES
  BY DEF CONTROL_STATES
<1>3. /\ LoopCommand(raise) /\ Fits(raise.then, k.mode)
      /\ LoopCommand(start) /\ Fits(start.then, k.mode)
  BY <1>1, <1>2, ExtremesAreCurrents, LimitCommands, StartCommands DEF Fits
<1>4. /\ EnterMode(k, "pv_surplus") \in Ctl
      /\ Consistent(EnterMode(k, "pv_surplus"))
      /\ EnterMode(k, "pv_surplus").mode = "pv_surplus"
  BY <1>1, EnterModeCtl DEF CHARGE_MODES
<1> HIDE DEF k, raise, start
<1>5. CASE Regulate(c, EnterMode(k, "pv_surplus"), n)
  BY <1>4, <1>5, RegulateDecides
<1>6. CASE Sends(c, k, raise)
  BY <1>1, <1>3, <1>6, SendsDecides
<1>7. CASE Shows(k, "immediate")
  BY <1>1, <1>2, <1>7, ShowsDecides
<1>8. CASE Switches(c, k, n, start)
  BY <1>1, <1>3, <1>8, SwitchesDecides
<1> QED
  BY <1>5, <1>6, <1>7, <1>8 DEF Immediate, ChargeAtMax, k, raise, start

\* One cycle, whatever it decides.  In Manual, and when the wallbox switches
\* phases, it sends nothing.
LEMMA CycleDecides ==
    ASSUME TypeOK, NEW c \in Callers, NEW k \in Ctl, Consistent(k),
           NEW n \in Age, Cycle(c, k, n)
    PROVE  Decided(c) /\ (PhaseSwitching => task' = task)
<1>1. CASE Shows(k, "manual")
  BY <1>1, ShowsDecides DEF CONTROL_STATES
<1>2. CASE Shows(k, "phase_switching_enabled")
  BY <1>2, ShowsDecides DEF CONTROL_STATES
<1>3. CASE Shows(k, "no_data")
  BY <1>3, ShowsDecides DEF CONTROL_STATES
<1>4. CASE ~PhaseSwitching /\ k.mode = "off" /\ Off(c, k)
  <2> DEFINE zero == Command("limit", 0, "keep", "off")
  <2>1. LoopCommand(zero) /\ Fits(zero.then, k.mode) /\ "off" \in CONTROL_STATES
    BY <1>4, ExtremesAreCurrents, LimitCommands DEF Fits, CONTROL_STATES
  <2> HIDE DEF zero
  <2>2. CASE Sends(c, k, zero)
    BY <1>4, <2>1, <2>2, SendsDecides
  <2>3. CASE Shows(k, "off")
    BY <2>1, <2>3, ShowsDecides
  <2> QED
    BY <1>4, <2>2, <2>3 DEF Off, zero
<1>5. CASE NotConnected(k)
  <2> DEFINE gone == [NotReleased(k) EXCEPT !.vehiclePaused = None]
  <2>1. gone \in Ctl /\ Consistent(gone)
    BY NotReleasedCtl DEF Ctl, Consistent, Stamp
  <2> QED
    BY <1>5, <2>1, ShowsDecides DEF NotConnected, CONTROL_STATES
<1>6. CASE ~PhaseSwitching /\ k.mode = "immediate" /\ Immediate(c, k, n)
  BY <1>6, ImmediateDecides
<1>7. CASE ~PhaseSwitching /\ k.mode = "pv_surplus" /\ Regulate(c, k, n)
  BY <1>7, RegulateDecides
<1> QED
  BY <1>1, <1>2, <1>3, <1>4, <1>5, <1>6, <1>7 DEF Cycle

----------------------------------------------------------------------------
(***************************************************************************)
(* The invariant.  Steps that leave the tasks and the controller alone are *)
(* set apart from those of the loop, the user and the commands.            *)
(***************************************************************************)
LEMMA InitInv == Init => IInv
<1> SUFFICES ASSUME Init PROVE IInv
  OBVIOUS
<1>1. WallboxTypeOK
  BY OptionsInRange, EventAssumption DEF Init, WallboxInit, WallboxTypeOK
<1>2. CoordinatorTypeOK
  BY <1>1 DEF Init, CoordinatorInit, WallboxTypeOK, CoordinatorTypeOK, Idle, Tasks, Steps
<1>3. ctl \in Ctl /\ Consistent(ctl)
  BY UserAssumption DEF Init, Ctl, Stamp, Consistent
<1>4. shown \in CONTROL_STATES /\ waiting \in Seq(Age) /\ settings \in PvSettings
  BY DEF Init, CONTROL_STATES
<1>5. readings \subseteq Averages \X Socs /\ opts \in Options
  BY DEF Init
<1>6. TypeOK
  BY <1>1, <1>2, <1>3, <1>4, <1>5 DEF TypeOK
<1>7. \A c \in Callers : task[c].step = "idle"
  BY DEF Init, CoordinatorInit, Idle
<1>8. ClocksFitMode
  BY <1>3 DEF Consistent, ClocksFitMode
<1>9. /\ OneCommandAtATime /\ CommandFitsMode /\ LoopHandsOff
      /\ RegisterHoldsCommand /\ CommandShape
  BY <1>7 DEF OneCommandAtATime, CommandFitsMode, LoopHandsOff, LoopCallers, Callers,
              RegisterHoldsCommand, CommandShape, Busy
<1> QED
  BY <1>6, <1>8, <1>9 DEF IInv

LEMMA EnvironmentStep == IInv /\ Environment => IInv'
<1> SUFFICES ASSUME IInv, Environment PROVE IInv'
  OBVIOUS
<1>1. WallboxTypeOK' /\ limit' = limit
  BY EventAssumption DEF IInv, TypeOK, WallboxTypeOK, Environment, ReadingsSettle, WallboxNext,
     CarAndStation, Plug, Unplug, SelfStart, Settle, CarPause, CarResume, SessionEnd, Fault,
     FaultClears, LinkFails, LinkReturns, InSession, wallbox, CP_STATUS, CONTROLLABLE_STATUSES,
     SESSION_ACTIVE_STATUSES, UncontrollableStatuses
<1>2. readings' \subseteq Averages \X Socs /\ opts' = opts
  BY UserAssumption DEF IInv, TypeOK, Environment, ReadingsSettle
<1>3. UNCHANGED <<coordinator, controller>>
  BY DEF Environment, ReadingsSettle
<1>4. TypeOK'
  BY <1>1, <1>2, <1>3 DEF IInv, TypeOK, CoordinatorTypeOK, coordinator, controller
<1> QED
  BY <1>1, <1>2, <1>3, <1>4 DEF IInv, ClocksFitMode, OneCommandAtATime, CommandFitsMode,
     LoopHandsOff, RegisterHoldsCommand, CommandShape, Commanded, Busy, coordinator, controller

\* A finished poll may take back the release, or give Manual back to PV surplus.
LEMMA UpdatedCtl ==
    ASSUME NEW k \in Ctl, Consistent(k), NEW st \in CP_STATUS
    PROVE  /\ Updated(k, st) \in Ctl
           /\ Consistent(Updated(k, st))
           /\ Updated(k, st).mode = k.mode \/ (k.mode = "manual" /\ Updated(k, st).mode = "pv_surplus")
<1> DEFINE gone == [NotReleased(k) EXCEPT
                      !.unplugged = IF k.unplugged = None THEN 0 ELSE k.unplugged]
<1>1. gone \in Ctl /\ Consistent(gone) /\ gone.mode = k.mode
  BY NotReleasedCtl, ZeroIsAge DEF Ctl, Consistent, Stamp
<1>2. /\ EnterMode(gone, "pv_surplus") \in Ctl
      /\ Consistent(EnterMode(gone, "pv_surplus"))
      /\ EnterMode(gone, "pv_surplus").mode = "pv_surplus"
  BY <1>1, EnterModeCtl DEF CHARGE_MODES
<1>3. CASE st # "available"
  BY <1>3 DEF Updated, Ctl, Consistent, Stamp
<1>4. CASE st = "available"
  BY <1>1, <1>2, <1>4 DEF Updated
<1> QED
  BY <1>3, <1>4

LEMMA PollStep == IInv /\ (PollDone \/ PollOther) => IInv'
<1> SUFFICES ASSUME IInv, PollDone \/ PollOther PROVE IInv'
  OBVIOUS
<1>1. UNCHANGED <<wallbox, task, shown, settings, waiting, world>>
  BY DEF PollDone, PollOther, PollLimit, PollStatus, PollFails, ReadRegister, controller
<1>2. CoordinatorTypeOK'
  <2> USE <1>1 DEF IInv, TypeOK, CoordinatorTypeOK, WallboxTypeOK
  <2>1. CASE PollLimit
    BY <2>1 DEF PollLimit
  <2>2. CASE PollStatus
    BY <2>2 DEF PollStatus
  <2>3. CASE PollFails
    BY <2>3 DEF PollFails
  <2> QED
    BY <2>1, <2>2, <2>3 DEF PollDone, PollOther
<1>3. /\ ctl' \in Ctl /\ Consistent(ctl')
      /\ ctl'.mode = ctl.mode \/ (ctl.mode = "manual" /\ ctl'.mode = "pv_surplus")
  <2>1. ctl \in Ctl /\ Consistent(ctl)
    BY DEF IInv, TypeOK, ClocksFitMode, Consistent
  <2>2. CASE PollDone
    <3>1. poll \in CP_STATUS
      BY <2>2 DEF PollDone, PollLimit, IInv, TypeOK, CoordinatorTypeOK
    <3> QED
      BY <2>1, <2>2, <3>1, UpdatedCtl DEF PollDone
  <2>3. CASE PollOther
    BY <2>1, <2>3 DEF PollOther, controller
  <2> QED
    BY <2>2, <2>3
<1>4. TypeOK' /\ ClocksFitMode'
  BY <1>1, <1>2, <1>3 DEF IInv, TypeOK, WallboxTypeOK, wallbox, ClocksFitMode, Consistent
<1>5. CommandFitsMode' /\ LoopHandsOff'
  BY <1>1, <1>3 DEF IInv, CommandFitsMode, LoopHandsOff, Busy, LoopCallers
<1> QED
  BY <1>1, <1>4, <1>5 DEF IInv, OneCommandAtATime, RegisterHoldsCommand, CommandShape, Commanded,
     Busy, wallbox

\* The requests of a command.  Only the caller that holds the lock moves, so
\* the register is written for nobody else.
LEMMA RequestStep ==
    ASSUME IInv, NEW c \in Callers, Request(c)
    PROVE  IInv'
<1>1. PICK next \in {"read", "tag", "done", "failed", "malformed"} :
         task' = [task EXCEPT ![c].step = next]
  BY DEF Request, CommandStep, WriteCurrentLimit, WritePowerLimit, ReadFreshStatus, Authorize, Goes,
     Replies
<1>2. UNCHANGED <<data, ok, poll, ctl, shown, settings, waiting, world>>
  BY DEF Request, CommandStep, WriteCurrentLimit, WritePowerLimit, ReadFreshStatus, Authorize, Goes,
     controller
<1>3. Busy(c) /\ task[c] \in Tasks /\ Commanded(task[c])
  BY DEF IInv, TypeOK, CoordinatorTypeOK, CommandShape, Request, CommandStep, WriteCurrentLimit,
     WritePowerLimit, ReadFreshStatus, Authorize, Busy
<1>4. /\ task'[c].op = task[c].op /\ task'[c].amps = task[c].amps
      /\ task'[c].then = task[c].then /\ task'[c].shows = task[c].shows
      /\ task'[c].step = next
      /\ \A d \in Callers \ {c} : task'[d] = task[d] /\ ~Busy(d)
  BY <1>1, <1>3 DEF IInv, TypeOK, CoordinatorTypeOK, Tasks, OneCommandAtATime, Busy
<1>5. WallboxTypeOK'
  BY <1>3 DEF IInv, TypeOK, WallboxTypeOK, Request, CommandStep, WriteCurrentLimit,
     WritePowerLimit, ReadFreshStatus, Authorize, WriteLimit, ReadRegister, WriteIdTag, wallbox,
     InSession, CP_STATUS, CONTROLLABLE_STATUSES, SESSION_ACTIVE_STATUSES, Commanded
<1>6. task' \in [Callers -> Tasks]
  BY <1>1, <1>3 DEF IInv, TypeOK, CoordinatorTypeOK, Tasks, Steps
<1>7. TypeOK' /\ ClocksFitMode'
  BY <1>2, <1>5, <1>6 DEF IInv, TypeOK, CoordinatorTypeOK, ClocksFitMode
<1>8. /\ OneCommandAtATime' /\ CommandFitsMode' /\ CommandShape' /\ LoopHandsOff'
  BY <1>2, <1>3, <1>4 DEF IInv, OneCommandAtATime, CommandFitsMode, CommandShape, Commanded,
     LoopHandsOff, LoopCallers, Callers, Busy
<1>9. next \in {"read", "tag", "done"} /\ task[c].op # "power" => limit' = task[c].amps
  <2>1. task'[c].step = next
    BY <1>4
  <2>2. CASE WriteCurrentLimit(c)
    <3>1. PICK reply \in Replies :
             /\ WriteLimit(task[c].amps, reply)
             /\ Goes(c, reply, IF task[c].op = "start" THEN "read" ELSE "done")
      BY <2>2 DEF WriteCurrentLimit
    <3>2. CASE reply = "ok"
      BY <3>1, <3>2 DEF WriteLimit, Executed, Replied, ReplyLost, Malformed, Unreached
    <3>3. CASE reply \in {"failed", "malformed"}
      BY <3>1, <3>3, <1>3, <1>4 DEF Goes, IInv, TypeOK, CoordinatorTypeOK, Tasks
    <3> QED
      BY <3>1, <3>2, <3>3 DEF Replies
  <2>3. CASE WritePowerLimit(c)
    BY <2>3 DEF WritePowerLimit
  <2>4. CASE ReadFreshStatus(c) \/ Authorize(c)
    BY <2>4 DEF ReadFreshStatus, Authorize, IInv, RegisterHoldsCommand, ReadRegister, WriteIdTag,
       wallbox
  <2> QED
    BY <2>2, <2>3, <2>4 DEF Request, CommandStep
<1>10. RegisterHoldsCommand'
  BY <1>4, <1>9 DEF RegisterHoldsCommand, Busy
<1> QED
  BY <1>7, <1>8, <1>10 DEF IInv

\* A command's return applies its continuation to the mode that sent it.
LEMMA ReturnStep ==
    ASSUME IInv, NEW c \in Callers, CommandReturns(c) \/ CommandRaises(c)
    PROVE  IInv'
<1>1. UNCHANGED <<wallbox, world, data, ok, poll, settings, waiting>>
  BY DEF CommandReturns, CommandRaises
<1>2. Busy(c) /\ Commanded(task[c])
  BY DEF IInv, CommandShape, CommandReturns, CommandRaises, Busy
<1>3. /\ task' = [task EXCEPT ![c] = Idle]
      /\ task' \in [Callers -> Tasks]
      /\ \A d \in Callers : task'[d].step = "idle"
  BY <1>2 DEF IInv, TypeOK, CoordinatorTypeOK, Tasks, Steps, Idle, OneCommandAtATime, Busy,
     CommandReturns, CommandRaises
<1>4. ctl \in Ctl /\ Consistent(ctl) /\ shown \in CONTROL_STATES
  BY DEF IInv, TypeOK, ClocksFitMode, Consistent
<1>5. ctl' \in Ctl /\ Consistent(ctl') /\ shown' \in CONTROL_STATES
  <2>1. CASE CommandRaises(c)
    BY <1>4, <2>1 DEF CommandRaises, CONTROL_STATES
  <2>2. CASE CommandReturns(c)
    <3>1. CASE task[c].then = "release"
      <4>1. ctl.mode = "pv_surplus"
        BY <1>2, <3>1 DEF IInv, CommandFitsMode
      <4> QED
        BY <1>2, <1>4, <2>2, <3>1, <4>1 DEF CommandReturns, Continue, Released, Commanded, Ctl,
           Consistent
    <3>2. CASE task[c].then = "stop"
      BY <1>2, <1>4, <2>2, <3>2, NotReleasedCtl DEF CommandReturns, Continue, Commanded
    <3>3. CASE task[c].then = "adjust"
      BY <1>4, <2>2, <3>3 DEF CommandReturns, Continue, ChargingOrBuffering, CONTROL_STATES
    <3>4. CASE task[c].then \in {"keep", "manual"}
      BY <1>2, <1>4, <2>2, <3>4 DEF CommandReturns, Continue, Commanded
    <3> QED
      BY <1>2, <3>1, <3>2, <3>3, <3>4 DEF Commanded, Continuations
  <2> QED
    BY <2>1, <2>2
<1>6. TypeOK' /\ ClocksFitMode'
  BY <1>1, <1>3, <1>5 DEF IInv, TypeOK, WallboxTypeOK, wallbox, CoordinatorTypeOK, ClocksFitMode,
     Consistent
<1> QED
  BY <1>3, <1>6 DEF IInv, OneCommandAtATime, CommandFitsMode, LoopHandsOff, LoopCallers, Callers,
     RegisterHoldsCommand, CommandShape, Busy

\* A decision of the loop, taken with the lock free.
LEMMA DecisionStep ==
    ASSUME IInv, LockFree, NEW c \in LoopCallers, Decided(c), PhaseSwitching => task' = task,
           UNCHANGED <<wallbox, world, data, ok, poll, settings>>, waiting' \in Seq(Age)
    PROVE  IInv'
<1>1. c \in Callers
  BY DEF LoopCallers, Callers
<1>2. \A d \in Callers : ~Busy(d)
  BY DEF LockFree, Busy
<1>3. CASE shown' \in CONTROL_STATES /\ task' = task
  <2>1. TypeOK' /\ ClocksFitMode'
    BY <1>3 DEF IInv, TypeOK, WallboxTypeOK, wallbox, CoordinatorTypeOK, ClocksFitMode, Decided,
       Consistent
  <2> QED
    BY <1>2, <1>3, <2>1 DEF IInv, OneCommandAtATime, CommandFitsMode, LoopHandsOff, LoopCallers,
       Callers, RegisterHoldsCommand, CommandShape, Busy
<1>4. ASSUME NEW t \in Tasks, shown' = shown, task' = [task EXCEPT ![c] = t], LoopCommand(t),
             Fits(t.then, ctl'.mode)
      PROVE  IInv'
  <2>1. /\ task' \in [Callers -> Tasks]
        /\ task'[c] = t /\ t.step = "write"
        /\ \A d \in Callers \ {c} : task'[d] = task[d] /\ task'[d].step = "idle"
    BY <1>1, <1>2, <1>4 DEF IInv, TypeOK, CoordinatorTypeOK, LoopCommand, Busy
  <2>2. TypeOK' /\ ClocksFitMode'
    BY <1>4, <2>1 DEF IInv, TypeOK, WallboxTypeOK, wallbox, CoordinatorTypeOK, ClocksFitMode,
       Decided, Consistent
  <2>3. OneCommandAtATime' /\ RegisterHoldsCommand' /\ CommandShape'
    <3>1. c # "manual" /\ t.then # "manual"
      BY <1>4 DEF LoopCallers, Fits
    <3> QED
      BY <1>4, <2>1, <3>1 DEF OneCommandAtATime, RegisterHoldsCommand, CommandShape, Commanded,
         LoopCommand, Busy
  <2>4. CommandFitsMode'
    BY <1>4, <2>1 DEF CommandFitsMode, Fits, Busy
  <2>5. LoopHandsOff'
    <3>1. ctl'.mode # "manual"
      BY <1>4 DEF Fits
    <3>2. ~PhaseSwitching
      BY <1>1, <1>2, <2>1 DEF Busy
    <3> QED
      BY <3>1, <3>2 DEF LoopHandsOff
  <2> QED
    BY <2>2, <2>3, <2>4, <2>5 DEF IInv
<1> QED
  BY <1>3, <1>4 DEF Decided

LEMMA LoopStep == IInv /\ (TimerFires \/ QueuedCycle \/ SetMode) => IInv'
<1> SUFFICES ASSUME IInv, TimerFires \/ QueuedCycle \/ SetMode PROVE IInv'
  OBVIOUS
<1>1. /\ TypeOK /\ ctl \in Ctl /\ Consistent(ctl) /\ waiting \in Seq(Age)
      /\ "timer" \in LoopCallers /\ "select" \in LoopCallers
      /\ LoopCallers \subseteq Callers
  BY DEF IInv, TypeOK, ClocksFitMode, Consistent, LoopCallers, Callers
<1>2. UNCHANGED <<wallbox, world, data, ok, poll, settings>>
  BY DEF TimerFires, QueuedCycle, SetMode
<1>3. CASE LockFree /\ Cycle("timer", ctl, 0) /\ UNCHANGED waiting
  BY <1>1, <1>2, <1>3, ZeroIsAge, CycleDecides, DecisionStep
<1>4. CASE waiting' = Append(waiting, 0) /\ UNCHANGED <<ctl, shown, task>>
  <2>1. waiting' \in Seq(Age)
    BY <1>1, <1>4, ZeroIsAge
  <2>2. TypeOK'
    BY <1>2, <1>4, <2>1 DEF IInv, TypeOK, WallboxTypeOK, wallbox, CoordinatorTypeOK
  <2> QED
    BY <1>2, <1>4, <2>2 DEF IInv, ClocksFitMode, OneCommandAtATime, CommandFitsMode, LoopHandsOff,
       RegisterHoldsCommand, CommandShape, Commanded, Busy, wallbox
<1>5. CASE QueuedCycle
  <2>1. Head(waiting) \in Age /\ waiting' \in Seq(Age)
    BY <1>1, <1>5 DEF QueuedCycle
  <2> QED
    BY <1>1, <1>2, <1>5, <2>1, CycleDecides, DecisionStep DEF QueuedCycle
<1>6. CASE SetMode
  <2>1. PICK mode \in UserModes :
           Cycle("select", [EnterMode(ctl, mode) EXCEPT !.lastSwitch = None], 0)
    BY <1>6 DEF SetMode
  <2> DEFINE k == [EnterMode(ctl, mode) EXCEPT !.lastSwitch = None]
  <2>2. EnterMode(ctl, mode) \in Ctl /\ Consistent(EnterMode(ctl, mode))
    BY <1>1, EnterModeCtl, UserAssumption
  <2>3. k \in Ctl /\ Consistent(k)
    BY <2>2 DEF Ctl, Consistent, Stamp
  <2>4. LockFree /\ waiting' \in Seq(Age)
    BY <1>1, <1>6 DEF SetMode
  <2> HIDE DEF k
  <2>5. Cycle("select", k, 0)
    BY <2>1 DEF k
  <2> QED
    BY <1>1, <1>2, <2>3, <2>4, <2>5, ZeroIsAge, CycleDecides, DecisionStep
<1> QED
  BY <1>3, <1>4, <1>5, <1>6 DEF TimerFires

\* The commands of the buttons and sliders.
LEMMA UserCommandShape ==
    ASSUME TypeOK, NEW t \in UserCommands
    PROVE  t \in Tasks /\ t.step = "write" /\ t.then = "manual" /\ Commanded(t)
BY OptionsInRange, UserAssumption, MaxIsNat
   DEF TypeOK, UserCommands, UserAmps, MIN_CURRENT_A, Command, Tasks, Steps, Ops, Continuations, Commanded

LEMMA ManualStep == IInv /\ ManualAction => IInv'
<1> SUFFICES ASSUME IInv, ManualAction PROVE IInv'
  OBVIOUS
<1>1. PICK t \in UserCommands : task' = [task EXCEPT !["manual"] = t]
  BY DEF ManualAction
<1>2. t \in Tasks /\ t.step = "write" /\ t.then = "manual" /\ Commanded(t)
  BY UserCommandShape DEF IInv
<1>3. ctl' \in Ctl /\ Consistent(ctl') /\ ctl'.mode = "manual"
  BY EnterModeCtl DEF ManualAction, IInv, TypeOK, ClocksFitMode, Consistent, CHARGE_MODES
<1>4. UNCHANGED <<wallbox, world, data, ok, poll, settings, waiting>> /\ shown' = "manual"
  BY DEF ManualAction
<1>5. /\ task' \in [Callers -> Tasks]
      /\ task'["manual"] = t
      /\ \A d \in Callers \ {"manual"} : task'[d].step = "idle"
  BY <1>1, <1>2 DEF IInv, TypeOK, CoordinatorTypeOK, ManualAction, LockFree, Callers
<1>6. TypeOK' /\ ClocksFitMode'
  BY <1>3, <1>4, <1>5 DEF IInv, TypeOK, WallboxTypeOK, wallbox, CoordinatorTypeOK, ClocksFitMode,
     Consistent, CONTROL_STATES
<1>7. OneCommandAtATime' /\ RegisterHoldsCommand' /\ CommandShape' /\ LoopHandsOff'
  BY <1>2, <1>5 DEF OneCommandAtATime, RegisterHoldsCommand, CommandShape, Commanded, LoopHandsOff,
     LoopCallers, Callers, Busy
<1>8. CommandFitsMode'
  BY <1>2, <1>3, <1>5 DEF CommandFitsMode, Busy
<1> QED
  BY <1>6, <1>7, <1>8 DEF IInv

LEMMA SettingStep == IInv /\ UpdateSetting => IInv'
<1> SUFFICES ASSUME IInv, UpdateSetting PROVE IInv'
  OBVIOUS
<1>1. /\ settings' \in PvSettings
      /\ UNCHANGED <<wallbox, world, coordinator, ctl, shown, waiting>>
  BY DEF UpdateSetting
<1> QED
  BY <1>1 DEF IInv, TypeOK, WallboxTypeOK, CoordinatorTypeOK, ClocksFitMode, OneCommandAtATime,
     CommandFitsMode, LoopHandsOff, RegisterHoldsCommand, CommandShape, Commanded, Busy, wallbox,
     coordinator

LEMMA TickStep == IInv /\ Tick => IInv'
<1> SUFFICES ASSUME IInv, Tick PROVE IInv'
  OBVIOUS
<1>1. ctl \in Ctl /\ waiting \in Seq(Age) /\ Consistent(ctl)
  BY DEF IInv, TypeOK, ClocksFitMode, Consistent
<1>2. /\ Older(ctl.lastSwitch) \in Stamp
      /\ Older(ctl.belowMin) \in Stamp /\ (Older(ctl.belowMin) = None <=> ctl.belowMin = None)
      /\ Older(ctl.unplugged) \in Stamp
      /\ Older(ctl.vehiclePaused) \in Stamp
      /\ Older(ctl.vehiclePaused) = None <=> ctl.vehiclePaused = None
  BY <1>1, OlderStamp DEF Ctl
<1>3. /\ ctl' \in Ctl /\ Consistent(ctl') /\ ctl'.mode = ctl.mode
      /\ waiting' \in Seq(Age)
  BY <1>1, <1>2, OlderQueue DEF Tick, Ctl, Consistent
<1>4. UNCHANGED <<wallbox, world, coordinator, shown, settings>>
  BY DEF Tick
<1>5. TypeOK' /\ ClocksFitMode'
  BY <1>3, <1>4 DEF IInv, TypeOK, WallboxTypeOK, wallbox, CoordinatorTypeOK, coordinator,
     ClocksFitMode, Consistent
<1> QED
  BY <1>3, <1>4, <1>5 DEF IInv, OneCommandAtATime, CommandFitsMode, LoopHandsOff,
     RegisterHoldsCommand, CommandShape, Commanded, Busy, wallbox, coordinator

LEMMA StutterStep == IInv /\ UNCHANGED vars => IInv'
BY DEF IInv, TypeOK, WallboxTypeOK, CoordinatorTypeOK, ClocksFitMode, OneCommandAtATime,
   CommandFitsMode, LoopHandsOff, RegisterHoldsCommand, CommandShape, Commanded, Busy, vars,
   wallbox, coordinator, controller

LEMMA NextStep == IInv /\ [Next]_vars => IInv'
<1>1. IInv /\ Commands => IInv'
  BY RequestStep, ReturnStep DEF Commands
<1> QED
  BY <1>1, EnvironmentStep, PollStep, LoopStep, ManualStep, SettingStep, TickStep, StutterStep
     DEF Next

----------------------------------------------------------------------------
\* The inductive invariant holds in every reachable state.
THEOREM Invariant == Spec => []IInv
BY InitInv, NextStep, PTL DEF Spec

\* Every variable keeps its type: clocks stay within the cap, a command under
\* way always carries what its requests need.
THEOREM TypeCorrect == Spec => []TypeOK
<1>1. IInv => TypeOK
  BY DEF IInv
<1> QED
  BY <1>1, Invariant, PTL

\* The controller's lock keeps commands apart.
THEOREM CommandsExclude == Spec => []OneCommandAtATime
<1>1. IInv => OneCommandAtATime
  BY DEF IInv
<1> QED
  BY <1>1, Invariant, PTL

\* A release and its clocks never outlive the mode they belong to.
THEOREM ClocksBelongToMode == Spec => []ClocksFitMode
<1>1. IInv => ClocksFitMode
  BY DEF IInv
<1> QED
  BY <1>1, Invariant, PTL

\* A command's continuation is applied to the mode that sent it.
THEOREM CommandsReturnToTheirMode == Spec => []CommandFitsMode
<1>1. IInv => CommandFitsMode
  BY DEF IInv
<1> QED
  BY <1>1, Invariant, PTL

\* In Manual and with phase switching the loop sends nothing.
THEOREM HandsOff == Spec => []LoopHandsOff
<1>1. IInv => LoopHandsOff
  BY DEF IInv
<1> QED
  BY <1>1, Invariant, PTL

\* A session is authorized, and a command returns, at the command's own current.
THEOREM AuthorizedAtOwnCurrent == Spec => []RegisterHoldsCommand
<1>1. IInv => RegisterHoldsCommand
  BY DEF IInv
<1> QED
  BY <1>1, Invariant, PTL

----------------------------------------------------------------------------
(***************************************************************************)
(* The ceiling.  It takes one more fact about commands under way: only the *)
(* user's Pause may carry more than the maximum.                           *)
(***************************************************************************)
CurrentAllowed(c) ==
    task[c].amps <= MaxCurrent \/ (c = "manual" /\ task[c].amps = PauseCurrent)

CurrentsAllowed ==
    \A c \in Callers : Busy(c) /\ task[c].op # "power" => CurrentAllowed(c)

LEMMA OptionsConstant == [Next]_vars => opts' = opts
BY DEF Next, Commands, Request, CommandReturns, CommandRaises, Environment, ReadingsSettle,
   PollDone, PollOther, TimerFires, QueuedCycle, SetMode, ManualAction, UpdateSetting, Tick, vars

LEMMA CurrentsAllowedStep ==
    ASSUME IInv, CurrentsAllowed, [Next]_vars
    PROVE  CurrentsAllowed'
<1>0. opts' = opts
  BY OptionsConstant
<1>1. CASE UNCHANGED task
  BY <1>0, <1>1 DEF CurrentsAllowed, CurrentAllowed, Busy
<1>2. ASSUME NEW c \in Callers, Request(c)
      PROVE  CurrentsAllowed'
  <2>1. PICK next \in Steps : task' = [task EXCEPT ![c].step = next]
    BY <1>2 DEF Request, CommandStep, WriteCurrentLimit, WritePowerLimit, ReadFreshStatus, Authorize,
       Goes, Steps, Replies
  <2>2. \A d \in Callers : task'[d].op = task[d].op /\ task'[d].amps = task[d].amps
    BY <2>1 DEF IInv, TypeOK, CoordinatorTypeOK, Tasks
  <2>3. \A d \in Callers : Busy(d)' => Busy(d)
    BY <1>2, <2>1 DEF IInv, TypeOK, CoordinatorTypeOK, Tasks, Busy, Request, CommandStep,
       WriteCurrentLimit, WritePowerLimit, ReadFreshStatus, Authorize
  <2> QED
    BY <1>0, <2>2, <2>3 DEF CurrentsAllowed, CurrentAllowed, Busy
<1>3. ASSUME NEW c \in Callers, task' = [task EXCEPT ![c] = Idle]
      PROVE  CurrentsAllowed'
  BY <1>0, <1>3 DEF CurrentsAllowed, CurrentAllowed, Busy, Idle, IInv, TypeOK, CoordinatorTypeOK
<1>4. ASSUME NEW c \in Callers, Decided(c)
      PROVE  CurrentsAllowed'
  BY <1>0, <1>4 DEF Decided, LoopCommand, CurrentsAllowed, CurrentAllowed, Busy, IInv, TypeOK,
     CoordinatorTypeOK
<1>5. CASE TimerFires \/ QueuedCycle \/ SetMode
  <2>1. /\ TypeOK /\ ctl \in Ctl /\ Consistent(ctl) /\ waiting \in Seq(Age)
        /\ "timer" \in Callers /\ "select" \in Callers
    BY DEF IInv, TypeOK, ClocksFitMode, Consistent, Callers
  <2>2. CASE TimerFires
    BY <1>1, <1>4, <2>1, <2>2, ZeroIsAge, CycleDecides DEF TimerFires
  <2>3. CASE QueuedCycle
    <3>1. Head(waiting) \in Age
      BY <2>1, <2>3 DEF QueuedCycle
    <3> QED
      BY <1>4, <2>1, <2>3, <3>1, CycleDecides DEF QueuedCycle
  <2>4. CASE SetMode
    <3>1. PICK mode \in UserModes :
             Cycle("select", [EnterMode(ctl, mode) EXCEPT !.lastSwitch = None], 0)
      BY <2>4 DEF SetMode
    <3> DEFINE k == [EnterMode(ctl, mode) EXCEPT !.lastSwitch = None]
    <3>2. EnterMode(ctl, mode) \in Ctl /\ Consistent(EnterMode(ctl, mode))
      BY <2>1, EnterModeCtl, UserAssumption
    <3>3. k \in Ctl /\ Consistent(k)
      BY <3>2 DEF Ctl, Consistent, Stamp
    <3> HIDE DEF k
    <3>4. Cycle("select", k, 0)
      BY <3>1 DEF k
    <3> QED
      BY <1>4, <2>1, <3>3, <3>4, ZeroIsAge, CycleDecides
  <2> QED
    BY <1>5, <2>2, <2>3, <2>4
<1>6. CASE ManualAction
  <2>1. PICK t \in UserCommands : task' = [task EXCEPT !["manual"] = t]
    BY <1>6 DEF ManualAction
  <2>2. t.op # "power" => t.amps <= MaxCurrent \/ t.amps = PauseCurrent
    BY UserAssumption, OptionsInRange DEF IInv, TypeOK, UserCommands, UserAmps, Command
  <2> QED
    BY <1>0, <2>1, <2>2 DEF CurrentsAllowed, CurrentAllowed, Busy, IInv, TypeOK,
       CoordinatorTypeOK, Callers
<1> QED
  BY <1>1, <1>2, <1>3, <1>5, <1>6 DEF Next, Commands, CommandReturns, CommandRaises, Environment,
     ReadingsSettle, PollDone, PollOther, PollLimit, PollStatus, PollFails, UpdateSetting, Tick, vars,
     coordinator

\* A step changes the current register only by writing the current of a
\* command under way.
LEMMA LimitWrites ==
    ASSUME IInv, [Next]_vars, limit' # limit
    PROVE  \E c \in Callers :
             Busy(c) /\ task[c].op # "power" /\ limit' = task[c].amps
<1>1. PICK c \in Callers : WriteCurrentLimit(c)
  BY DEF Next, Commands, Request, CommandStep, CommandReturns, CommandRaises, Environment,
     WallboxNext, CarAndStation, Plug, Unplug, SelfStart, Settle, CarPause, CarResume, SessionEnd,
     Fault, FaultClears, LinkFails, LinkReturns, ReadingsSettle, PollDone, PollOther, PollLimit,
     PollStatus, PollFails, TimerFires, QueuedCycle, SetMode, ManualAction, UpdateSetting, Tick,
     WritePowerLimit, ReadFreshStatus, Authorize, ReadRegister, WriteIdTag, vars, wallbox
<1> QED
  BY <1>1 DEF WriteCurrentLimit, WriteLimit, Busy

\* Whatever the surplus, the readings and the options, only the user's Pause
\* ever writes more than the configured maximum, and then its own current.
THEOREM CurrentCapped == Spec => WritesWithinMax
<1>1. Init => CurrentsAllowed
  BY DEF Init, CoordinatorInit, Idle, CurrentsAllowed, Busy
<1>2. IInv /\ CurrentsAllowed /\ [Next]_vars => CurrentsAllowed'
  BY CurrentsAllowedStep
<1>3. IInv /\ CurrentsAllowed /\ [Next]_vars
        => [limit' # limit /\ limit' > MaxCurrent =>
              Busy("manual") /\ limit' = PauseCurrent]_vars
  <2>1. SUFFICES ASSUME IInv, CurrentsAllowed, [Next]_vars, limit' # limit, limit' > MaxCurrent
                 PROVE  Busy("manual") /\ limit' = PauseCurrent
    OBVIOUS
  <2>2. PICK c \in Callers : Busy(c) /\ task[c].op # "power" /\ limit' = task[c].amps
    BY <2>1, LimitWrites
  <2>3. task[c].amps \in Nat /\ MaxCurrent \in Nat
    BY <2>1, <2>2, MaxIsNat DEF IInv, CommandShape, Commanded
  <2> QED
    BY <2>1, <2>2, <2>3 DEF CurrentsAllowed, CurrentAllowed
<1> QED
  BY <1>1, <1>2, <1>3, Invariant, PTL DEF Spec, WritesWithinMax
=============================================================================
