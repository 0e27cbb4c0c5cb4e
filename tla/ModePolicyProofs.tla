-------------------------- MODULE ModePolicyProofs --------------------------
(***************************************************************************)
(* The charge controller implements ModePolicy: its initial states are     *)
(* initial states of the policy, and each of its steps is a step of the    *)
(* policy or leaves the policy's state alone.  The user's requests map to  *)
(* the policy's User, everything else to its Controller.                   *)
(***************************************************************************)
EXTENDS ModeHistory, ChargeControllerProofs

PolicyStep == [Policy!Next]_(Policy!policy)
PolicyKeeps == UNCHANGED <<ctl.mode, ctl.released, asked, Writer, HasPv, PhaseSwitching>>

USE DEF Policy!policy, Policy!configuration, world, HasPv, PhaseSwitching

LEMMA KeepsIsStep == ASSUME PolicyKeeps PROVE PolicyStep
BY DEF PolicyKeeps, PolicyStep

LEMMA PolicyInit == MInit => Policy!Init
<1> SUFFICES ASSUME MInit PROVE Policy!Init
  OBVIOUS
<1>1. /\ ctl.mode \in CHARGE_MODES /\ ctl.released = FALSE /\ opts \in Options
      /\ asked \in BOOLEAN
  BY UserAssumption DEF MInit, Init
<1>2. Writer = "none"
  BY DEF MInit, Init, CoordinatorInit, Idle, Writer, Busy, LoopCallers, Callers
<1> QED
  BY <1>1, <1>2, OptionsInRange DEF Policy!Init, Policy!Modes, CHARGE_MODES

(***************************************************************************)
(* What a cycle may do to the mode and to the release.                     *)
(***************************************************************************)
Withdraws(k) == ctl'.mode = k.mode /\ ctl'.released \in {k.released, FALSE}

LEMMA OutcomeWithdraws ==
    ASSUME NEW c, NEW k0 \in Ctl, NEW k \in Ctl, NEW s, NEW t, NEW n \in Age,
           k.mode = k0.mode, k.released \in {k0.released, FALSE},
           Shows(k, s) \/ Sends(c, k, t) \/ Switches(c, k, n, t)
    PROVE  Withdraws(k0)
<1>1. [k EXCEPT !.lastSwitch = n].mode = k.mode /\ [k EXCEPT !.lastSwitch = n].released = k.released
  BY DEF Ctl
<1> QED
  BY <1>1 DEF Shows, Sends, Switches, Withdraws

LEMMA RegulateWithdraws ==
    ASSUME NEW c, NEW k0 \in Ctl, NEW n \in Age, Regulate(c, k0, n)
    PROVE  Withdraws(k0)
<1>1. ASSUME NEW k \in {k0, NotReleased(k0)}, NEW avg, NEW soc, RegulateStopped(c, k, n, avg, soc)
      PROVE  Withdraws(k0)
  <2>1. k \in Ctl /\ k.mode = k0.mode /\ k.released \in {k0.released, FALSE}
    BY DEF NotReleased, Ctl, Stamp
  <2> QED
    BY <1>1, <2>1, OutcomeWithdraws DEF RegulateStopped
<1>2. ASSUME NEW avg, NEW soc, RegulateReleased(c, k0, n, avg, soc)
      PROVE  Withdraws(k0)
  <2> DEFINE k == BelowMin(k0, n, avg)
  <2>1. k \in Ctl /\ k.mode = k0.mode /\ k.released = k0.released
    BY DEF BelowMin, Ctl, Stamp
  <2> HIDE DEF k
  <2> QED
    BY <1>2, <2>1, OutcomeWithdraws DEF RegulateReleased, k
<1> QED
  BY <1>1, <1>2, OutcomeWithdraws DEF Regulate

LEMMA CycleWithdraws ==
    ASSUME NEW c, NEW k \in Ctl, NEW n \in Age, Cycle(c, k, n)
    PROVE  \/ Withdraws(k)
           \/ /\ k.mode = "immediate" /\ HasPv
              /\ ctl'.mode = "pv_surplus" /\ ctl'.released = FALSE
<1>1. CASE NotConnected(k)
  <2> DEFINE gone == [NotReleased(k) EXCEPT !.vehiclePaused = None]
  <2>1. gone \in Ctl /\ gone.mode = k.mode /\ gone.released = FALSE
    BY DEF NotReleased, Ctl, Stamp
  <2> QED
    BY <1>1, <2>1, OutcomeWithdraws DEF NotConnected
<1>2. CASE Regulate(c, k, n)
  BY <1>2, RegulateWithdraws
<1>3. CASE k.mode = "immediate" /\ Immediate(c, k, n)
  <2> DEFINE paused == VehiclePaused(k, n)
  <2>1. paused \in Ctl /\ paused.mode = k.mode /\ paused.released = k.released
    BY DEF VehiclePaused, Ctl, Stamp
  <2>2. /\ EnterMode(paused, "pv_surplus") \in Ctl
        /\ EnterMode(paused, "pv_surplus").mode = "pv_surplus"
        /\ EnterMode(paused, "pv_surplus").released = FALSE
    BY <2>1 DEF EnterMode, Ctl, Stamp, CHARGE_MODES
  <2> HIDE DEF paused
  <2>3. CASE HasPv /\ Regulate(c, EnterMode(paused, "pv_surplus"), n)
    BY <1>3, <2>2, <2>3, RegulateWithdraws DEF Withdraws
  <2>4. CASE ChargeAtMax(c, paused, n)
    BY <2>1, <2>4, OutcomeWithdraws DEF ChargeAtMax
  <2> QED
    BY <1>3, <2>3, <2>4 DEF Immediate, VehicleFull, paused
<1>4. CASE Off(c, k)
  BY <1>4, OutcomeWithdraws DEF Off
<1>5. CASE \E s \in {"manual", "phase_switching_enabled", "no_data"} : Shows(k, s)
  BY <1>5, OutcomeWithdraws
<1> QED
  BY <1>1, <1>2, <1>3, <1>4, <1>5 DEF Cycle

----------------------------------------------------------------------------
(***************************************************************************)
(* The writer.                                                             *)
(***************************************************************************)
LEMMA FreeMeansNone == ASSUME LockFree PROVE Writer = "none"
BY DEF LockFree, Writer, Busy, LoopCallers, Callers

\* A decision taken with the lock free begins a command only where the loop
\* may write.
LEMMA DecisionBegins ==
    ASSUME IInv, LockFree, NEW c \in LoopCallers, Decided(c), PhaseSwitching => task' = task
    PROVE  Writer' = "none" \/ (Writer' = "loop" /\ ctl'.mode # "manual" /\ ~PhaseSwitching)
<1>1. CASE task' = task
  BY <1>1, FreeMeansNone DEF Writer, Busy
<1>2. ASSUME NEW t \in Tasks, task' = [task EXCEPT ![c] = t], LoopCommand(t), Fits(t.then, ctl'.mode)
      PROVE  Writer' = "loop" /\ ctl'.mode # "manual" /\ ~PhaseSwitching
  <2>1. task'[c].step = "write" /\ task[c].step = "idle" /\ task'[c] # task[c]
    BY <1>2 DEF IInv, TypeOK, CoordinatorTypeOK, LoopCommand, LockFree, LoopCallers, Callers
  <2>2. ctl'.mode # "manual"
    BY <1>2 DEF Fits
  <2> QED
    BY <2>1, <2>2 DEF Writer, Busy
<1> QED
  BY <1>1, <1>2 DEF Decided

----------------------------------------------------------------------------
(***************************************************************************)
(* The steps.                                                              *)
(***************************************************************************)
\* Nothing changes for the policy when the tasks, the options and what it sees
\* of the controller stay.
LEMMA NothingForPolicy ==
    ASSUME task' = task, opts' = opts, ctl'.mode = ctl.mode, ctl'.released = ctl.released,
           UNCHANGED asked
    PROVE  PolicyStep
<1>1. Writer' = Writer
  BY DEF Writer, Busy
<1> QED
  BY <1>1, KeepsIsStep DEF PolicyKeeps

LEMMA QuietSteps ==
    ASSUME IInv, Environment \/ PollOther \/ UpdateSetting \/ Tick \/ UNCHANGED vars,
           UNCHANGED asked
    PROVE  PolicyStep
<1>1. CASE Environment \/ UNCHANGED vars
  BY <1>1, NothingForPolicy DEF Environment, ReadingsSettle, vars, coordinator, controller
<1>2. CASE PollOther
  BY <1>2, NothingForPolicy DEF PollOther, PollStatus, PollFails, controller
<1>3. CASE UpdateSetting
  BY <1>3, NothingForPolicy DEF UpdateSetting, coordinator
<1>4. CASE Tick
  <2>1. ctl'.mode = ctl.mode /\ ctl'.released = ctl.released
    BY <1>4 DEF Tick, IInv, TypeOK, Ctl
  <2> QED
    BY <1>4, <2>1, NothingForPolicy DEF Tick, coordinator
<1> QED
  BY <1>1, <1>2, <1>3, <1>4

LEMMA PollDoneStep == ASSUME IInv, PollDone, UNCHANGED asked PROVE PolicyStep
<1>1. task' = task /\ opts' = opts /\ ctl' = Updated(ctl, poll) /\ ctl \in Ctl
  BY DEF PollDone, PollLimit, IInv, TypeOK
<1>2. Writer' = Writer
  BY <1>1 DEF Writer, Busy
<1>3. CASE poll # "available"
  <2>1. ctl'.mode = ctl.mode /\ ctl'.released = ctl.released
    BY <1>1, <1>3 DEF Updated, Ctl
  <2> QED
    BY <1>1, <2>1, NothingForPolicy
<1>4. CASE poll = "available"
  <2> DEFINE gone == [NotReleased(ctl) EXCEPT
                        !.unplugged = IF ctl.unplugged = None THEN 0 ELSE ctl.unplugged]
  <2>1. gone \in Ctl /\ gone.mode = ctl.mode /\ gone.released = FALSE
    BY <1>1, ZeroIsAge DEF NotReleased, Ctl, Stamp
  <2>2. EnterMode(gone, "pv_surplus").mode = "pv_surplus" /\ EnterMode(gone, "pv_surplus").released = FALSE
    BY <2>1 DEF EnterMode, Ctl
  <2>3. \/ ctl' = gone
        \/ gone.mode = "manual" /\ HasPv /\ ctl' = EnterMode(gone, "pv_surplus")
    BY <1>1, <1>4 DEF Updated
  <2> HIDE DEF gone
  <2>4. Policy!CarGone
    BY <1>1, <1>2, <2>1, <2>2, <2>3 DEF Policy!CarGone
  <2> QED
    BY <2>4 DEF PolicyStep, Policy!Next, Policy!Controller
<1> QED
  BY <1>3, <1>4

LEMMA RequestKeeps ==
    ASSUME IInv, NEW c \in Callers, Request(c), UNCHANGED asked
    PROVE  PolicyStep
<1>1. Busy(c) /\ ctl' = ctl /\ opts' = opts
  BY DEF Request, CommandStep, WriteCurrentLimit, WritePowerLimit, ReadFreshStatus, Authorize,
     Busy, controller
<1>2. PICK next \in Steps \ {"idle"} : task' = [task EXCEPT ![c].step = next]
  <2>1. CASE WriteCurrentLimit(c)
    BY <2>1 DEF WriteCurrentLimit, Goes, Steps, Replies
  <2>2. CASE WritePowerLimit(c)
    BY <2>2 DEF WritePowerLimit, Goes, Steps, Replies
  <2>3. CASE ReadFreshStatus(c)
    BY <2>3 DEF ReadFreshStatus, Goes, Steps, Replies
  <2>4. CASE Authorize(c)
    BY <2>4 DEF Authorize, Goes, Steps, Replies
  <2> QED
    BY <2>1, <2>2, <2>3, <2>4 DEF Request, CommandStep
<1>3. \A d \in Callers : task'[d].step # "idle" <=> task[d].step # "idle"
  BY <1>1, <1>2 DEF IInv, TypeOK, CoordinatorTypeOK, Tasks, Busy
<1>4. Writer' = Writer
  BY <1>3 DEF Writer, Busy, LoopCallers, Callers
<1> QED
  BY <1>1, <1>4, KeepsIsStep DEF PolicyKeeps

LEMMA ReturnEnds ==
    ASSUME IInv, NEW c \in Callers, CommandReturns(c) \/ CommandRaises(c), UNCHANGED asked
    PROVE  PolicyStep
<1>1. /\ Busy(c) /\ Commanded(task[c]) /\ (task[c].then = "manual" <=> c = "manual")
      /\ \A d \in Callers : task'[d].step = "idle"
  BY DEF IInv, TypeOK, CoordinatorTypeOK, CommandShape, OneCommandAtATime, CommandReturns,
     CommandRaises, Busy, Idle
<1>2. Writer # "none" /\ (c # "manual" => Writer = "loop")
  BY <1>1 DEF Writer, Busy, LoopCallers, Callers
<1>3. Writer' = "none"
  BY <1>1 DEF Writer, Busy, LoopCallers, Callers
<1>4. opts' = opts /\ ctl \in Ctl
  BY DEF CommandReturns, CommandRaises, IInv, TypeOK
<1>5. CASE CommandReturns(c) /\ task[c].then = "release"
  <2>1. ctl.mode = "pv_surplus" /\ ctl'.mode = ctl.mode /\ ctl'.released = TRUE
    BY <1>1, <1>4, <1>5 DEF IInv, CommandFitsMode, CommandReturns, Continue, Released, Ctl
  <2>2. Policy!End
    BY <1>1, <1>2, <1>3, <1>4, <1>5, <2>1 DEF Policy!End
  <2> QED
    BY <2>2 DEF PolicyStep, Policy!Next, Policy!Controller
<1>6. CASE ctl'.mode = ctl.mode /\ ctl'.released \in {ctl.released, FALSE}
  <2>1. Policy!End
    BY <1>2, <1>3, <1>4, <1>6 DEF Policy!End
  <2> QED
    BY <2>1 DEF PolicyStep, Policy!Next, Policy!Controller
<1>7. CASE CommandReturns(c) /\ task[c].then = "stop"
  BY <1>4, <1>6, <1>7 DEF CommandReturns, Continue, NotReleased, Ctl
<1>8. CASE CommandRaises(c) \/ task[c].then \in {"adjust", "keep", "manual"}
  BY <1>6, <1>8 DEF CommandRaises, CommandReturns, Continue
<1> QED
  BY <1>1, <1>5, <1>7, <1>8 DEF Commanded, Continuations

LEMMA CommandSteps == ASSUME IInv, Commands, UNCHANGED asked PROVE PolicyStep
BY RequestKeeps, ReturnEnds DEF Commands

\* A cycle of the timer, at once or queued.
LEMMA TimerCycleDecides ==
    ASSUME IInv, LockFree, NEW n \in Age, Cycle("timer", ctl, n), opts' = opts,
           UNCHANGED asked
    PROVE  PolicyStep
<1>1. /\ TypeOK /\ ctl \in Ctl /\ Consistent(ctl)
      /\ "timer" \in LoopCallers /\ "timer" \in Callers
  BY DEF IInv, TypeOK, ClocksFitMode, Consistent, LoopCallers, Callers
<1>2. Decided("timer") /\ (PhaseSwitching => task' = task)
  BY <1>1, CycleDecides
<1>3. Writer' = "none" \/ (Writer' = "loop" /\ ctl'.mode # "manual" /\ ~PhaseSwitching)
  BY <1>1, <1>2, DecisionBegins
<1>4. \/ Withdraws(ctl)
      \/ /\ ctl.mode = "immediate" /\ HasPv
         /\ ctl'.mode = "pv_surplus" /\ ctl'.released = FALSE
  BY <1>1, CycleWithdraws
<1>5. Policy!LoopMayBegin
  BY <1>3 DEF Policy!LoopMayBegin
<1>6. Policy!Decide
  BY <1>4, <1>5, FreeMeansNone DEF Policy!Decide, Policy!CarFull, Withdraws
<1> QED
  BY <1>6 DEF PolicyStep, Policy!Next, Policy!Controller

LEMMA TimerSteps ==
    ASSUME IInv, TimerFires \/ QueuedCycle, UNCHANGED asked
    PROVE  PolicyStep
<1>1. CASE LockFree /\ Cycle("timer", ctl, 0)
  BY <1>1, ZeroIsAge, TimerCycleDecides DEF TimerFires, QueuedCycle
<1>2. CASE QueuedCycle
  <2>1. Head(waiting) \in Age
    BY <1>2 DEF QueuedCycle, IInv, TypeOK
  <2> QED
    BY <1>2, <2>1, TimerCycleDecides DEF QueuedCycle
<1>3. CASE UNCHANGED <<ctl, shown, task>>
  BY <1>3, NothingForPolicy DEF TimerFires, QueuedCycle
<1> QED
  BY <1>1, <1>2, <1>3 DEF TimerFires

LEMMA SetModePicks == ASSUME IInv, SetMode, asked' = ~asked PROVE PolicyStep
<1>1. PICK mode \in UserModes :
         Cycle("select", [EnterMode(ctl, mode) EXCEPT !.lastSwitch = None], 0)
  BY DEF SetMode
<1> DEFINE k == [EnterMode(ctl, mode) EXCEPT !.lastSwitch = None]
<1>2. mode \in CHARGE_MODES /\ ctl \in Ctl /\ TypeOK /\ LockFree /\ opts' = opts
  BY UserAssumption DEF IInv, TypeOK, SetMode
<1>3. EnterMode(ctl, mode) \in Ctl /\ Consistent(EnterMode(ctl, mode))
  BY <1>2, EnterModeCtl
<1>4. k \in Ctl /\ Consistent(k) /\ k.mode \in CHARGE_MODES /\ k.released = FALSE
  BY <1>2, <1>3 DEF Ctl, Consistent, Stamp, EnterMode
<1> HIDE DEF k
<1>5. Cycle("select", k, 0)
  BY <1>1 DEF k
<1>6. "select" \in LoopCallers /\ "select" \in Callers
  BY DEF LoopCallers, Callers
<1>7. Decided("select") /\ (PhaseSwitching => task' = task)
  BY <1>2, <1>4, <1>5, <1>6, ZeroIsAge, CycleDecides
<1>8. Writer' = "none" \/ (Writer' = "loop" /\ ctl'.mode # "manual" /\ ~PhaseSwitching)
  BY <1>2, <1>6, <1>7, DecisionBegins
<1>9. ctl'.mode \in CHARGE_MODES /\ ctl'.released = FALSE
  BY <1>4, <1>5, ZeroIsAge, CycleWithdraws DEF Withdraws, CHARGE_MODES
<1>10. Policy!Pick
  BY <1>2, <1>8, <1>9, FreeMeansNone DEF Policy!Pick, Policy!LoopMayBegin, Policy!Modes, CHARGE_MODES
<1> QED
  BY <1>10 DEF PolicyStep, Policy!Next, Policy!User

LEMMA ManualOverrides == ASSUME IInv, ManualAction, asked' = ~asked PROVE PolicyStep
<1>1. PICK t \in UserCommands : task' = [task EXCEPT !["manual"] = t]
  BY DEF ManualAction
<1>2. t.step = "write"
  BY UserCommandShape DEF IInv
<1>3. LockFree /\ ctl' = EnterMode(ctl, "manual") /\ ctl \in Ctl /\ opts' = opts
  BY DEF ManualAction, IInv, TypeOK
<1>4. ctl'.mode = "manual" /\ ctl'.released = FALSE
  BY <1>3 DEF EnterMode, Ctl
<1>5. /\ task'["manual"].step = "write"
      /\ \A d \in LoopCallers : task'[d].step = "idle"
  BY <1>1, <1>2, <1>3 DEF IInv, TypeOK, CoordinatorTypeOK, LockFree, LoopCallers, Callers
<1>6. Writer' = "user"
  BY <1>5 DEF Writer, Busy, LoopCallers
<1>7. Policy!Override
  BY <1>3, <1>4, <1>6, FreeMeansNone DEF Policy!Override
<1> QED
  BY <1>7 DEF PolicyStep, Policy!Next, Policy!User

LEMMA StepKeepsPolicy == IInv /\ [MNext]_mvars => PolicyStep
<1> SUFFICES ASSUME IInv, [MNext]_mvars PROVE PolicyStep
  OBVIOUS
<1>1. CASE UserRequest /\ asked' = ~asked
  BY <1>1, SetModePicks, ManualOverrides DEF UserRequest
<1>2. CASE OwnStep /\ UNCHANGED asked
  BY <1>2, QuietSteps, PollDoneStep, CommandSteps, TimerSteps DEF OwnStep
<1>3. CASE UNCHANGED mvars
  BY <1>3, QuietSteps DEF mvars
<1> QED
  BY <1>1, <1>2, <1>3 DEF MNext

\* The history changes nothing of the controller.
LEMMA MNextIsNext == [MNext]_mvars => [Next]_vars
BY DEF MNext, UserRequest, OwnStep, Next, mvars

LEMMA MInvariant == MSpec => []IInv
<1>1. MInit => IInv
  BY InitInv DEF MInit
<1>2. IInv /\ [MNext]_mvars => IInv'
  BY NextStep, MNextIsNext
<1> QED
  BY <1>1, <1>2, PTL DEF MSpec

----------------------------------------------------------------------------
\* The controller implements the policy of the charge modes: in every order of
\* cycles, polls, commands, failures and requests, a mode changes only by a
\* request of the user, by a full car in Immediate or by an absent one in
\* Manual, and what the loop writes and releases fits the mode.
THEOREM ControllerKeepsPolicy == MSpec => PolicyKept
<1>1. MInit => Policy!Init
  BY PolicyInit
<1>2. IInv /\ [MNext]_mvars => [Policy!Next]_(Policy!policy)
  BY StepKeepsPolicy DEF PolicyStep
<1> QED
  BY <1>1, <1>2, MInvariant, PTL DEF MSpec, PolicyKept, Policy!Spec
=============================================================================
