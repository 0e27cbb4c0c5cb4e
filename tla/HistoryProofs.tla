--------------------------- MODULE HistoryProofs ---------------------------
(***************************************************************************)
(* The lockout between starts and stops, for every lockout, every bound on *)
(* the wait for the lock and every sequence of steps.  A cycle compares a  *)
(* stamp with a `now` that may be as old as it has waited, so what it sees *)
(* of the last switch is not its age: LockoutKept is what remains of the   *)
(* lockout, and Apart relates the stamp to the true age.                   *)
(***************************************************************************)
EXTENDS ChargeHistory, ChargeControllerProofs

\* The caller sends nothing that counts as a start or a stop.
NoSwitch(c) ==
    \/ task' = task
    \/ \E t : /\ task' = [task EXCEPT ![c] = t]
              /\ t.then = "adjust" \/ (t.op # "start" /\ ctl'.mode # "pv_surplus")

\* A cycle of caller c from controller k, with a `now` captured n ticks ago.
Paced(c, k, n) ==
    \/ ctl'.lastSwitch = k.lastSwitch /\ NoSwitch(c)
    \/ SwitchAllowed(k, n) /\ ctl'.lastSwitch = n

HistoryType == hist \in [qualified : BOOLEAN, noticed : BOOLEAN, sinceSwitch : Stamp]

\* No cycle waits longer for the lock than the bound.
WaitBounded == \A i \in DOMAIN waiting : waiting[i] <= MaxWait

\* The stamp is at most as much older than the last switch as a cycle waits.
Apart ==
    /\ HistoryType
    /\ "switch" \notin Track => hist.sinceSwitch = None
    /\ WaitBounded
    /\ hist.sinceSwitch # None =>
          ctl.lastSwitch # None /\ ctl.lastSwitch <= hist.sinceSwitch + MaxWait

HInv == IInv /\ Apart

----------------------------------------------------------------------------
(***************************************************************************)
(* Decisions: either the stamp stays and nothing is switched, or the       *)
(* lockout allowed it and the stamp is the cycle's `now`.                  *)
(***************************************************************************)
LEMMA ShowsPaced ==
    ASSUME NEW c, NEW k0, NEW n, NEW k, k.lastSwitch = k0.lastSwitch, NEW s, Shows(k, s)
    PROVE  Paced(c, k0, n)
BY DEF Shows, Paced, NoSwitch

LEMMA SendsPaced ==
    ASSUME NEW c, NEW k0, NEW n, NEW k, k.lastSwitch = k0.lastSwitch, NEW t, Sends(c, k, t),
           t.then = "adjust" \/ (t.op # "start" /\ k.mode # "pv_surplus")
    PROVE  Paced(c, k0, n)
BY DEF Sends, Paced, NoSwitch

LEMMA SwitchesPaced ==
    ASSUME NEW c, NEW k0, NEW n, NEW k \in Ctl, k.lastSwitch = k0.lastSwitch, NEW t,
           Switches(c, k, n, t)
    PROVE  Paced(c, k0, n)
<1>1. CASE Shows(k, "min_interval")
  BY <1>1, ShowsPaced
<1>2. CASE SwitchAllowed(k, n) /\ Sends(c, [k EXCEPT !.lastSwitch = n], t)
  BY <1>2 DEF SwitchAllowed, Sends, Paced, Ctl
<1> QED
  BY <1>1, <1>2 DEF Switches

LEMMA RegulateStoppedPaced ==
    ASSUME NEW c, NEW k0, NEW n, NEW k \in Ctl, k.lastSwitch = k0.lastSwitch, NEW avg, NEW soc,
           RegulateStopped(c, k, n, avg, soc)
    PROVE  Paced(c, k0, n)
BY ShowsPaced, SwitchesPaced DEF RegulateStopped

LEMMA RegulateReleasedPaced ==
    ASSUME NEW c, NEW k0, NEW n \in Age, NEW k1 \in Ctl, k1.lastSwitch = k0.lastSwitch,
           NEW avg, NEW soc, RegulateReleased(c, k1, n, avg, soc)
    PROVE  Paced(c, k0, n)
<1> DEFINE k == BelowMin(k1, n, avg)
           adjust == Command("limit", Target(avg), "adjust", None)
<1>1. k \in Ctl /\ k.lastSwitch = k0.lastSwitch
  BY DEF BelowMin, Ctl, Stamp
<1>2. adjust.then = "adjust"
  BY DEF Command
<1> HIDE DEF k, adjust
<1>3. CASE Sends(c, k, adjust)
  BY <1>1, <1>2, <1>3, SendsPaced
<1>4. CASE \E s : Shows(k, s)
  BY <1>1, <1>4, ShowsPaced
<1>5. CASE \E t : Switches(c, k, n, t)
  BY <1>1, <1>5, SwitchesPaced
<1> QED
  BY <1>3, <1>4, <1>5 DEF RegulateReleased, k, adjust

LEMMA RegulatePaced ==
    ASSUME NEW c, NEW k0, NEW n \in Age, NEW k \in Ctl, k.lastSwitch = k0.lastSwitch,
           Regulate(c, k, n)
    PROVE  Paced(c, k0, n)
<1>1. NotReleased(k) \in Ctl /\ NotReleased(k).lastSwitch = k0.lastSwitch
  BY DEF NotReleased, Ctl, Stamp
<1>2. CASE \E s : Shows(k, s)
  BY <1>2, ShowsPaced
<1>3. ASSUME NEW r \in readings,
             \/ RegulateStopped(c, k, n, r[1], r[2])
             \/ RegulateStopped(c, NotReleased(k), n, r[1], r[2])
             \/ RegulateReleased(c, k, n, r[1], r[2])
      PROVE  Paced(c, k0, n)
  BY <1>1, <1>3, RegulateStoppedPaced, RegulateReleasedPaced
<1> QED
  BY <1>2, <1>3 DEF Regulate

LEMMA ImmediatePaced ==
    ASSUME NEW c, NEW n \in Age, NEW k0 \in Ctl, k0.mode = "immediate", Immediate(c, k0, n)
    PROVE  Paced(c, k0, n)
<1> DEFINE k == VehiclePaused(k0, n)
           raise == Command("limit", MaxCurrent, "keep", "immediate")
<1>1. k \in Ctl /\ k.lastSwitch = k0.lastSwitch /\ k.mode = "immediate"
  BY DEF VehiclePaused, Ctl, Stamp
<1>2. /\ EnterMode(k, "pv_surplus") \in Ctl
      /\ EnterMode(k, "pv_surplus").lastSwitch = k0.lastSwitch
  BY <1>1 DEF EnterMode, Ctl, Stamp, CHARGE_MODES
<1>3. raise.op # "start"
  BY DEF Command
<1> HIDE DEF k, raise
<1>4. CASE Regulate(c, EnterMode(k, "pv_surplus"), n)
  BY <1>2, <1>4, RegulatePaced
<1>5. CASE Sends(c, k, raise)
  BY <1>1, <1>3, <1>5, SendsPaced
<1>6. CASE \E s : Shows(k, s)
  BY <1>1, <1>6, ShowsPaced
<1>7. CASE \E t : Switches(c, k, n, t)
  BY <1>1, <1>7, SwitchesPaced
<1> QED
  BY <1>4, <1>5, <1>6, <1>7 DEF Immediate, ChargeAtMax, k, raise

LEMMA CyclePaced ==
    ASSUME NEW c, NEW n \in Age, NEW k \in Ctl, Cycle(c, k, n)
    PROVE  Paced(c, k, n)
<1>1. CASE \E s : Shows(k, s)
  BY <1>1, ShowsPaced
<1>2. CASE k.mode = "off" /\ Off(c, k)
  <2> DEFINE zero == Command("limit", 0, "keep", "off")
  <2>1. zero.op # "start"
    BY DEF Command
  <2> HIDE DEF zero
  <2>2. CASE Sends(c, k, zero)
    BY <1>2, <2>1, <2>2, SendsPaced
  <2>3. CASE Shows(k, "off")
    BY <2>3, ShowsPaced
  <2> QED
    BY <1>2, <2>2, <2>3 DEF Off, zero
<1>3. CASE NotConnected(k)
  <2>1. [NotReleased(k) EXCEPT !.vehiclePaused = None].lastSwitch = k.lastSwitch
    BY DEF NotReleased, Ctl
  <2> QED
    BY <1>3, <2>1, ShowsPaced DEF NotConnected
<1>4. CASE k.mode = "immediate" /\ Immediate(c, k, n)
  BY <1>4, ImmediatePaced
<1>5. CASE Regulate(c, k, n)
  BY <1>5, RegulatePaced
<1> QED
  BY <1>1, <1>2, <1>3, <1>4, <1>5 DEF Cycle

----------------------------------------------------------------------------
(***************************************************************************)
(* What counts as a switch.                                                *)
(***************************************************************************)
LEMMA NoSwitchIssued ==
    ASSUME TypeOK, NEW c \in Callers, NoSwitch(c)
    PROVE  ~SwitchIssued
<1>1. CASE task' = task
  BY <1>1 DEF SwitchIssued, Issued, Busy
<1>2. ASSUME NEW t, task' = [task EXCEPT ![c] = t],
             t.then = "adjust" \/ (t.op # "start" /\ ctl'.mode # "pv_surplus")
      PROVE  ~SwitchIssued
  BY <1>2 DEF SwitchIssued, Issued, Busy, TypeOK, CoordinatorTypeOK
<1> QED
  BY <1>1, <1>2 DEF NoSwitch

\* Steps that are not the loop's issue nothing and leave the stamp alone.
LEMMA OthersIssueNothing ==
    ASSUME TypeOK, \/ Environment \/ PollDone \/ PollOther \/ Commands \/ ManualAction
                   \/ UpdateSetting
    PROVE  /\ \A d \in Callers : ~Issued(d)
           /\ ctl'.lastSwitch = ctl.lastSwitch /\ waiting' = waiting
<1>0. ctl \in Ctl /\ task \in [Callers -> Tasks]
  BY DEF TypeOK, CoordinatorTypeOK
<1>1. CASE Environment \/ PollOther \/ UpdateSetting
  BY <1>1 DEF Environment, ReadingsSettle, PollOther, PollStatus, PollFails, UpdateSetting,
     coordinator, controller, Issued, Busy
<1>2. CASE PollDone
  <2>1. Updated(ctl, poll).lastSwitch = ctl.lastSwitch
    BY <1>0 DEF Updated, NotReleased, EnterMode, Ctl
  <2> QED
    BY <1>2, <2>1 DEF PollDone, PollLimit, Issued, Busy
<1>3. ASSUME NEW c \in Callers, Request(c)
      PROVE  (\A d \in Callers : ~Issued(d)) /\ ctl'.lastSwitch = ctl.lastSwitch /\ waiting' = waiting
  <2>1. Busy(c) /\ \A d \in Callers \ {c} : task'[d] = task[d]
    BY <1>0, <1>3 DEF Request, CommandStep, WriteCurrentLimit, WritePowerLimit, ReadFreshStatus,
       Authorize, Goes, Busy
  <2>2. UNCHANGED controller
    BY <1>3 DEF Request
  <2> QED
    BY <2>1, <2>2 DEF controller, Issued, Busy
<1>4. ASSUME NEW c \in Callers, CommandReturns(c) \/ CommandRaises(c)
      PROVE  (\A d \in Callers : ~Issued(d)) /\ ctl'.lastSwitch = ctl.lastSwitch /\ waiting' = waiting
  <2>1. \A d \in Callers : task'[d] = task[d] \/ task'[d].step = "idle"
    BY <1>0, <1>4 DEF CommandReturns, CommandRaises, Idle
  <2>2. ctl'.lastSwitch = ctl.lastSwitch /\ waiting' = waiting
    BY <1>0, <1>4 DEF CommandReturns, CommandRaises, Continue, Released, NotReleased, Ctl
  <2> QED
    BY <2>1, <2>2 DEF Issued, Busy
<1>5. CASE ManualAction
  <2>1. \A d \in LoopCallers : task'[d] = task[d]
    BY <1>0, <1>5 DEF ManualAction, LoopCallers, Callers
  <2>2. ctl'.lastSwitch = ctl.lastSwitch /\ waiting' = waiting
    BY <1>0, <1>5 DEF ManualAction, EnterMode, Ctl
  <2> QED
    BY <2>1, <2>2 DEF Issued, Busy
<1> QED
  BY <1>1, <1>2, <1>3, <1>4, <1>5 DEF Commands

\* What a timer cycle does to the stamp, and when it may switch.
LEMMA TimerPaced ==
    ASSUME HInv, TimerFires \/ QueuedCycle
    PROVE  /\ WaitBounded'
           /\ \/ ~SwitchIssued /\ ctl'.lastSwitch = ctl.lastSwitch
              \/ \E n \in 0..MaxWait : SwitchAllowed(ctl, n) /\ ctl'.lastSwitch = n
<1>1. /\ TypeOK /\ ctl \in Ctl /\ waiting \in Seq(Age) /\ MaxWait \in Nat /\ WaitBounded
      /\ "timer" \in Callers /\ 0 \in 0..MaxWait
  BY TimeAssumption DEF HInv, Apart, IInv, TypeOK, Callers
<1>2. ASSUME NEW n \in Age, n <= MaxWait, Cycle("timer", ctl, n)
      PROVE  \/ ~SwitchIssued /\ ctl'.lastSwitch = ctl.lastSwitch
             \/ \E m \in 0..MaxWait : SwitchAllowed(ctl, m) /\ ctl'.lastSwitch = m
  <2>1. Paced("timer", ctl, n)
    BY <1>1, <1>2, CyclePaced
  <2>2. n \in 0..MaxWait
    BY <1>1, <1>2 DEF Age
  <2> QED
    BY <1>1, <2>1, <2>2, NoSwitchIssued DEF Paced
<1>3. CASE LockFree /\ Cycle("timer", ctl, 0) /\ UNCHANGED waiting
  BY <1>1, <1>2, <1>3, ZeroIsAge DEF WaitBounded
<1>4. CASE waiting' = Append(waiting, 0) /\ UNCHANGED <<ctl, shown, task>>
  <2>1. WaitBounded'
    BY <1>1, <1>4, ZeroIsAge DEF WaitBounded
  <2>2. ~SwitchIssued
    BY <1>4 DEF SwitchIssued, Issued, Busy
  <2> QED
    BY <1>4, <2>1, <2>2
<1>5. CASE QueuedCycle
  <2>1. Head(waiting) \in Age /\ Head(waiting) <= MaxWait /\ Cycle("timer", ctl, Head(waiting))
    BY <1>1, <1>5 DEF QueuedCycle, WaitBounded
  <2>2. WaitBounded'
    BY <1>1, <1>5 DEF QueuedCycle, WaitBounded
  <2> QED
    BY <1>2, <2>1, <2>2
<1> QED
  BY <1>3, <1>4, <1>5 DEF TimerFires

\* The user's cycle starts with no stamp.
LEMMA SelectPaced ==
    ASSUME HInv, SetMode
    PROVE  /\ waiting' = waiting
           /\ SwitchIssued => ctl'.lastSwitch = 0
           /\ SwitchIssued => task'["select"] # task["select"]
<1>1. /\ TypeOK /\ ctl \in Ctl /\ task \in [Callers -> Tasks]
      /\ "select" \in Callers /\ "select" \in LoopCallers
  BY DEF HInv, IInv, TypeOK, CoordinatorTypeOK, Callers, LoopCallers
<1>2. PICK mode \in UserModes :
         Cycle("select", [EnterMode(ctl, mode) EXCEPT !.lastSwitch = None], 0)
  BY DEF SetMode
<1> DEFINE k == [EnterMode(ctl, mode) EXCEPT !.lastSwitch = None]
<1>3. k \in Ctl /\ Consistent(k)
  BY <1>1, UserAssumption DEF EnterMode, Ctl, Stamp, Consistent
<1> HIDE DEF k
<1>4. Cycle("select", k, 0)
  BY <1>2 DEF k
<1>5. SwitchIssued => ctl'.lastSwitch = 0
  BY <1>1, <1>3, <1>4, ZeroIsAge, CyclePaced, NoSwitchIssued DEF Paced
<1>6. \A d \in Callers : d # "select" => task'[d] = task[d]
  BY <1>1, <1>3, <1>4, ZeroIsAge, CycleDecides DEF Decided
<1>7. SwitchIssued => task'["select"] # task["select"]
  BY <1>6 DEF SwitchIssued, Issued, Busy
<1> QED
  BY <1>5, <1>7 DEF SetMode

----------------------------------------------------------------------------
(***************************************************************************)
(* The invariant.                                                          *)
(***************************************************************************)
LEMMA HNextIsNext == HNext => Next
BY DEF HNext, Next

LEMMA HInitInv == HInit => HInv
<1>1. HInit => Apart
  BY DEF HInit, HistInit, Init, Apart, WaitBounded, HistoryType, Stamp
<1> QED
  BY <1>1, InitInv DEF HInit, HInv

\* An age and a stamp that is at most MaxWait older grow together.
LEMMA AgesTogether ==
    ASSUME NEW a \in Age, NEW b \in Age, b <= a + MaxWait
    PROVE  Older(b) <= Older(a) + MaxWait
BY TimeAssumption DEF Older, Age

LEMMA ApartStep == HInv /\ [HNext]_hvars => Apart'
<1> SUFFICES ASSUME HInv, [HNext]_hvars PROVE Apart'
  OBVIOUS
<1>1. /\ TypeOK /\ HistoryType /\ MaxWait \in Nat /\ ctl \in Ctl /\ waiting \in Seq(Age)
  BY TimeAssumption DEF HInv, IInv, TypeOK, Apart
<1>2. CASE /\ \/ Environment \/ PollDone \/ PollOther \/ Commands \/ ManualAction \/ UpdateSetting
           /\ HistoryType'
           /\ hist'.sinceSwitch = hist.sinceSwitch
  BY <1>1, <1>2, OthersIssueNothing DEF HInv, Apart, WaitBounded
<1>3. CASE \/ Environment /\ OnEnvironment
           \/ PollDone /\ OnPollDone
           \/ Commands /\ OnCommand
           \/ ManualAction /\ OnManualAction
           \/ (PollOther \/ UpdateSetting) /\ UNCHANGED hist
  <2>1. HistoryType' /\ hist'.sinceSwitch = hist.sinceSwitch
    BY <1>1, <1>3 DEF HistoryType, OnEnvironment, OnPollDone, PollCounts, OnCommand, OnManualAction
  <2> QED
    BY <1>2, <1>3, <2>1
<1>4. CASE (TimerFires \/ QueuedCycle) /\ OnCycle
  <2>1. /\ HistoryType'
        /\ hist'.sinceSwitch =
              IF "switch" \in Track /\ SwitchIssued THEN 0 ELSE hist.sinceSwitch
    BY <1>1, <1>4, ZeroIsAge DEF HistoryType, OnCycle, When, Stamp
  <2>2. /\ WaitBounded'
        /\ \/ ~SwitchIssued /\ ctl'.lastSwitch = ctl.lastSwitch
           \/ \E n \in 0..MaxWait : SwitchAllowed(ctl, n) /\ ctl'.lastSwitch = n
    BY <1>4, TimerPaced
  <2>3. "switch" \notin Track => hist'.sinceSwitch = None
    BY <2>1 DEF HInv, Apart
  <2>4. CASE ~SwitchIssued /\ ctl'.lastSwitch = ctl.lastSwitch
    BY <2>1, <2>2, <2>3, <2>4 DEF HInv, Apart
  <2>5. ASSUME NEW n \in 0..MaxWait, ctl'.lastSwitch = n
        PROVE  Apart'
    <3>1. hist'.sinceSwitch # None => hist'.sinceSwitch \in Nat
      BY <2>1 DEF HistoryType, Stamp, Age
    <3>2. hist'.sinceSwitch # None =>
             ctl'.lastSwitch # None /\ ctl'.lastSwitch <= hist'.sinceSwitch + MaxWait
      BY <1>1, <2>5, <3>1, NoneAssumption
    <3> QED
      BY <2>1, <2>2, <2>3, <3>2 DEF Apart
  <2> QED
    BY <2>2, <2>4, <2>5
<1>5. CASE SetMode /\ OnSetMode
  <2>0. StartIssued \in BOOLEAN
    BY DEF StartIssued
  <2>1. /\ HistoryType'
        /\ hist'.sinceSwitch =
              IF "switch" \in Track THEN (IF SwitchIssued THEN 0 ELSE None) ELSE hist.sinceSwitch
    BY <1>1, <1>5, <2>0, ZeroIsAge DEF HistoryType, OnSetMode, When, Stamp
  <2>2. waiting' = waiting /\ (SwitchIssued => ctl'.lastSwitch = 0)
    BY <1>5, SelectPaced
  <2>3. 0 # None /\ 0 <= 0 + MaxWait
    BY <1>1, NoneAssumption
  <2> QED
    BY <2>1, <2>2, <2>3 DEF HInv, Apart, WaitBounded
<1>6. CASE Tick /\ OnTick
  <2>1. HistoryType' /\ hist'.sinceSwitch = Older(hist.sinceSwitch)
    BY <1>1, <1>6, OlderStamp DEF HistoryType, OnTick
  <2>2. ctl'.lastSwitch = Older(ctl.lastSwitch)
    BY <1>1, <1>6 DEF Tick, Ctl
  <2>3. WaitBounded'
    <3>1. \A i \in DOMAIN waiting : waiting[i] \in Age /\ waiting[i] < MaxWait
      BY <1>1, <1>6 DEF Tick
    <3>2. \A a \in Age : a < MaxWait => Older(a) <= MaxWait
      BY <1>1, TimeAssumption DEF Older, Age
    <3> QED
      BY <1>6, <3>1, <3>2 DEF Tick, WaitBounded
  <2>4. Older(hist.sinceSwitch) = None <=> hist.sinceSwitch = None
    BY <1>1, OlderStamp DEF HistoryType
  <2>5. ASSUME hist.sinceSwitch # None
        PROVE  ctl'.lastSwitch # None /\ ctl'.lastSwitch <= hist'.sinceSwitch + MaxWait
    <3>1. hist.sinceSwitch \in Age /\ ctl.lastSwitch \in Age
      BY <1>1, <2>5 DEF HInv, Apart, HistoryType, Ctl, Stamp
    <3>2. ctl.lastSwitch <= hist.sinceSwitch + MaxWait
      BY <2>5 DEF HInv, Apart
    <3>3. ctl'.lastSwitch \in Age
      BY <2>2, <3>1, TimeAssumption DEF Older, Age
    <3> QED
      BY <2>1, <2>2, <3>1, <3>2, <3>3, AgesTogether, NoneAssumption DEF Age
  <2> QED
    BY <2>1, <2>2, <2>3, <2>4, <2>5 DEF HInv, Apart
<1>7. CASE UNCHANGED hvars
  BY <1>1, <1>7 DEF HInv, Apart, WaitBounded, HistoryType, hvars, vars, controller
<1> QED
  BY <1>3, <1>4, <1>5, <1>6, <1>7 DEF HNext

LEMMA HNextStep == HInv /\ [HNext]_hvars => HInv'
<1>1. [HNext]_hvars => [Next]_vars
  BY HNextIsNext DEF hvars
<1> QED
  BY <1>1, NextStep, ApartStep DEF HInv

THEOREM HistoryInvariant == HSpec => []HInv
BY HInitInv, HNextStep, PTL DEF HSpec

----------------------------------------------------------------------------
\* A step of the loop that switches does so no sooner than the lockout, less
\* the longest wait of a cycle, after the last switch.
LEMMA SwitchesApart ==
    ASSUME HInv, HNext, SwitchIssued, task'["select"] = task["select"]
    PROVE  hist.sinceSwitch = None \/ hist.sinceSwitch >= settings.minSwitch - MaxWait
<1>1. /\ TypeOK /\ HistoryType /\ MaxWait \in Nat /\ ctl \in Ctl
      /\ settings.minSwitch \in Nat
  BY TimeAssumption, SettingAssumption DEF HInv, IInv, TypeOK, Apart, PvSettings
<1>2. ~(Environment \/ PollDone \/ PollOther \/ Commands \/ ManualAction \/ UpdateSetting)
  BY <1>1, OthersIssueNothing DEF SwitchIssued
<1>3. ~Tick
  BY DEF Tick, coordinator, SwitchIssued, Issued, Busy
<1>4. ~SetMode
  BY SelectPaced
<1>5. TimerFires \/ QueuedCycle
  BY <1>2, <1>3, <1>4 DEF HNext
<1>6. PICK n \in 0..MaxWait : SwitchAllowed(ctl, n)
  BY <1>5, TimerPaced
<1>7. ASSUME hist.sinceSwitch # None
      PROVE  hist.sinceSwitch >= settings.minSwitch - MaxWait
  <2>1. /\ ctl.lastSwitch # None /\ ctl.lastSwitch <= hist.sinceSwitch + MaxWait
        /\ ctl.lastSwitch - n >= settings.minSwitch
    BY <1>6, <1>7 DEF HInv, Apart, SwitchAllowed, Elapsed
  <2>2. ctl.lastSwitch \in Nat /\ hist.sinceSwitch \in Nat /\ n \in Nat
    BY <1>1, <1>7, <2>1 DEF Ctl, HistoryType, Stamp, Age
  <2> QED
    BY <1>1, <2>1, <2>2
<1> QED
  BY <1>7

\* The lockout holds however long cycles queue on the lock with an old `now`,
\* up to the longest wait.
THEOREM LockoutHolds == HSpec => LockoutKept
<1>1. HInv /\ [HNext]_hvars =>
        [SwitchIssued /\ task'["select"] = task["select"] =>
           \/ hist.sinceSwitch = None
           \/ hist.sinceSwitch >= settings.minSwitch - MaxWait]_hvars
  BY SwitchesApart
<1> QED
  BY <1>1, HistoryInvariant, PTL DEF HSpec, LockoutKept

----------------------------------------------------------------------------
(***************************************************************************)
(* The start condition.  A release and the start that brings it about rest *)
(* on a start condition that was met in this session; a stop whose write   *)
(* has reached the wallbox takes the release back when it returns; and a   *)
(* car that may be plugged in has lost its release before.                 *)
(***************************************************************************)
Outstanding(c, then) == Busy(c) /\ task[c].then = then

ReleaseQualified ==
    ctl.released => \/ hist.qualified
                    \/ \E c \in Callers : Outstanding(c, "stop") /\ task[c].step = "done"

StartQualified == \A c \in Callers : Outstanding(c, "release") => hist.qualified

GoneUnreleased ==
    status = "available" /\ hist.noticed =>
        /\ data.status = "available"
        /\ poll \in {None, "available"}
        /\ ~ctl.released
        /\ \A c \in Callers : ~Outstanding(c, "release")

\* Only a stop takes the current of a released session to 0.
ReleaseFits ==
    \A c \in Callers : Busy(c) =>
        /\ task[c].then \in {"keep", "release", "manual"} => ~ctl.released
        /\ task[c].then \in {"adjust", "release"} => task[c].amps # 0
        /\ task[c].then = "stop" => task[c].op = "limit"

QInv == ReleaseQualified /\ StartQualified /\ GoneUnreleased /\ ReleaseFits

(***************************************************************************)
(* What a cycle that starts from controller k may leave behind: the        *)
(* controller k1, and a command t.                                         *)
(***************************************************************************)
Keeps(k, k1) == k1.released => k.released /\ k1.mode = "pv_surplus"

Fitting(t, k, k1) ==
    /\ t.then # "manual"
    /\ t.then \in {"keep", "release"} => ~k1.released
    /\ t.then \in {"adjust", "release"} => t.amps # 0
    /\ t.then = "stop" => t.op = "limit"
    /\ t.then = "adjust" => k.released
    /\ t.then = "release" => data.status # "available" /\ k1.mode = "pv_surplus"

OfSession(c, k) ==
    /\ Keeps(k, ctl')
    /\ \/ task' = task
       \/ \E t : task' = [task EXCEPT ![c] = t] /\ Fitting(t, k, ctl')

LEMMA ShowsOfSession ==
    ASSUME NEW c, NEW k, NEW k1, Keeps(k, k1), NEW s, Shows(k1, s)
    PROVE  OfSession(c, k)
BY DEF Shows, OfSession

LEMMA SendsOfSession ==
    ASSUME NEW c, NEW k, NEW k1, Keeps(k, k1), NEW t, Fitting(t, k, k1), Sends(c, k1, t)
    PROVE  OfSession(c, k)
BY DEF Sends, OfSession

LEMMA SwitchesOfSession ==
    ASSUME NEW c, NEW k, NEW k1 \in Ctl, Keeps(k, k1), NEW n, NEW t, Fitting(t, k, k1),
           Switches(c, k1, n, t)
    PROVE  OfSession(c, k)
<1> DEFINE stamped == [k1 EXCEPT !.lastSwitch = n]
<1>1. stamped.released = k1.released /\ stamped.mode = k1.mode
  BY DEF Ctl
<1>2. Keeps(k, stamped) /\ Fitting(t, k, stamped)
  BY <1>1 DEF Keeps, Fitting
<1> HIDE DEF stamped
<1>3. CASE Sends(c, stamped, t)
  BY <1>2, <1>3, SendsOfSession
<1>4. CASE Shows(k1, "min_interval")
  BY <1>4, ShowsOfSession
<1> QED
  BY <1>3, <1>4 DEF Switches, stamped

\* The regulated current is at least 6 A.
LEMMA TargetNotZero == ASSUME TypeOK, NEW avg \in Int PROVE Target(avg) # 0
BY TargetInRange, OptionsInRange DEF TypeOK, MIN_CURRENT_A, ABS_MAX_CURRENT_A

LEMMA StoppedOfSession ==
    ASSUME TypeOK, data.status # "available", NEW c, NEW k, NEW k1 \in Ctl, ~k1.released,
           k1.mode = "pv_surplus", NEW n, NEW avg \in Int, NEW soc,
           RegulateStopped(c, k1, n, avg, soc)
    PROVE  OfSession(c, k)
<1> DEFINE start == Command("start", Target(avg), "release", "charging_pv")
           stop(waits) == Command("limit", 0, "keep", waits)
<1>1. Keeps(k, k1)
  BY DEF Keeps
<1>2. Fitting(start, k, k1) /\ \A waits : Fitting(stop(waits), k, k1)
  BY TargetNotZero DEF Fitting, Command
<1> HIDE DEF start, stop
<1>3. CASE Switches(c, k1, n, start)
  BY <1>1, <1>2, <1>3, SwitchesOfSession
<1>4. CASE \E waits : Switches(c, k1, n, stop(waits))
  BY <1>1, <1>2, <1>4, SwitchesOfSession
<1>5. CASE \E waits : Shows(k1, waits)
  BY <1>1, <1>5, ShowsOfSession
<1> QED
  BY <1>3, <1>4, <1>5 DEF RegulateStopped, start, stop

LEMMA ReleasedOfSession ==
    ASSUME TypeOK, NEW c, NEW k \in Ctl, k.released, k.mode = "pv_surplus", NEW n \in Age,
           NEW avg \in Int, NEW soc, RegulateReleased(c, k, n, avg, soc)
    PROVE  OfSession(c, k)
<1> DEFINE k1 == BelowMin(k, n, avg)
           stop(waits) == Command("limit", 0, "stop", waits)
           adjust == Command("limit", Target(avg), "adjust", None)
<1>1. k1 \in Ctl /\ Keeps(k, k1)
  BY DEF BelowMin, Ctl, Stamp, Keeps
<1>2. Fitting(adjust, k, k1) /\ \A waits : Fitting(stop(waits), k, k1)
  BY TargetNotZero DEF Fitting, Command
<1> HIDE DEF k1, stop, adjust
<1>3. CASE \E waits : Switches(c, k1, n, stop(waits))
  BY <1>1, <1>2, <1>3, SwitchesOfSession
<1>4. CASE Sends(c, k1, adjust)
  BY <1>1, <1>2, <1>4, SendsOfSession
<1>5. CASE \E s : Shows(k1, s)
  BY <1>1, <1>5, ShowsOfSession
<1> QED
  BY <1>3, <1>4, <1>5 DEF RegulateReleased, k1, stop, adjust

LEMMA RegulateOfSession ==
    ASSUME TypeOK, data.status # "available", NEW c, NEW k \in Ctl, k.mode = "pv_surplus",
           NEW n \in Age, Regulate(c, k, n)
    PROVE  OfSession(c, k)
<1>1. Keeps(k, k)
  BY DEF Keeps
<1>2. /\ NotReleased(k) \in Ctl /\ NotReleased(k).mode = "pv_surplus"
      /\ ~NotReleased(k).released
  BY DEF NotReleased, Ctl, Stamp
<1>3. CASE \E s : Shows(k, s)
  BY <1>1, <1>3, ShowsOfSession
<1>4. ASSUME NEW r \in readings, r[1] # None,
             \/ ~k.released /\ RegulateStopped(c, k, n, r[1], r[2])
             \/ RegulateStopped(c, NotReleased(k), n, r[1], r[2])
             \/ k.released /\ RegulateReleased(c, k, n, r[1], r[2])
      PROVE  OfSession(c, k)
  <2>1. r[1] \in Int
    BY <1>4, ReadingAssumption DEF TypeOK
  <2> QED
    BY <1>2, <1>4, <2>1, StoppedOfSession, ReleasedOfSession
<1> QED
  BY <1>3, <1>4 DEF Regulate

LEMMA ImmediateOfSession ==
    ASSUME TypeOK, data.status # "available", NEW c, NEW k \in Ctl, ~k.released,
           k.mode = "immediate", NEW n \in Age, Immediate(c, k, n)
    PROVE  OfSession(c, k)
<1> DEFINE k1 == VehiclePaused(k, n)
           raise == Command("limit", MaxCurrent, "keep", "immediate")
           start == Command("start", MaxCurrent, "keep", "immediate")
           pv == EnterMode(k1, "pv_surplus")
<1>1. k1 \in Ctl /\ ~k1.released /\ Keeps(k, k1)
  BY DEF VehiclePaused, Ctl, Stamp, Keeps
<1>2. pv \in Ctl /\ ~pv.released /\ pv.mode = "pv_surplus"
  BY <1>1 DEF EnterMode, Ctl, Stamp, CHARGE_MODES
<1>3. Fitting(raise, k, k1) /\ Fitting(start, k, k1)
  BY <1>1 DEF Fitting, Command
<1> HIDE DEF k1, raise, start, pv
<1>4. CASE Regulate(c, pv, n)
  <2>1. OfSession(c, pv)
    BY <1>2, <1>4, RegulateOfSession
  <2> QED
    BY <1>2, <2>1 DEF OfSession, Keeps, Fitting
<1>5. CASE Sends(c, k1, raise)
  BY <1>1, <1>3, <1>5, SendsOfSession
<1>6. CASE Switches(c, k1, n, start)
  BY <1>1, <1>3, <1>6, SwitchesOfSession
<1>7. CASE Shows(k1, "immediate")
  BY <1>1, <1>7, ShowsOfSession
<1> QED
  BY <1>4, <1>5, <1>6, <1>7 DEF Immediate, ChargeAtMax, k1, raise, start, pv

\* One cycle: it adjusts only a released session, and starts only a car that
\* is there.
LEMMA CycleOfSession ==
    ASSUME TypeOK, NEW c, NEW k \in Ctl, Consistent(k), NEW n \in Age, Cycle(c, k, n)
    PROVE  OfSession(c, k)
<1>1. Keeps(k, k)
  BY DEF Keeps, Consistent
<1>2. CASE \E s : Shows(k, s)
  BY <1>1, <1>2, ShowsOfSession
<1>3. CASE k.mode = "off" /\ Off(c, k)
  <2> DEFINE zero == Command("limit", 0, "keep", "off")
  <2>1. Fitting(zero, k, k)
    BY <1>3 DEF Fitting, Command, Consistent
  <2> HIDE DEF zero
  <2>2. CASE Sends(c, k, zero)
    BY <1>1, <2>1, <2>2, SendsOfSession
  <2> QED
    BY <1>2, <1>3, <2>2 DEF Off, zero
<1>4. CASE NotConnected(k)
  <2> DEFINE gone == [NotReleased(k) EXCEPT !.vehiclePaused = None]
  <2>1. Keeps(k, gone)
    BY DEF Keeps, NotReleased, Ctl
  <2> QED
    BY <1>4, <2>1, ShowsOfSession DEF NotConnected
<1>5. CASE k.mode = "immediate" /\ data.status # "available" /\ Immediate(c, k, n)
  BY <1>5, ImmediateOfSession DEF Consistent
<1>6. CASE k.mode = "pv_surplus" /\ data.status # "available" /\ Regulate(c, k, n)
  BY <1>6, RegulateOfSession
<1> QED
  BY <1>2, <1>3, <1>4, <1>5, <1>6 DEF Cycle

----------------------------------------------------------------------------
(***************************************************************************)
(* What the promise needs of the world: answers to writes arrive, whole,   *)
(* and a car is plugged in only after its absence was polled with no       *)
(* command under way.  The runs stop_reply_lost and unplug_during_start    *)
(* show that it fails without either.                                      *)
(***************************************************************************)
Calm ==
    /\ Replug = "calm"
    /\ "session" \in Track
    /\ "lostreply" \notin Events /\ "malformed" \notin Events

LEMMA InvFacts ==
    ASSUME HInv
    PROVE  /\ TypeOK /\ ctl \in Ctl /\ task \in [Callers -> Tasks] /\ HistoryType
           /\ ClocksFitMode /\ OneCommandAtATime /\ CommandFitsMode /\ CommandShape
BY DEF HInv, IInv, Apart, TypeOK, CoordinatorTypeOK

LEMMA SessionInit == HInit => QInv
<1> SUFFICES ASSUME HInit PROVE QInv
  OBVIOUS
<1>1. ~ctl.released /\ ~hist.noticed
  BY DEF HInit, HistInit, Init
<1>2. \A c \in Callers : ~Busy(c)
  BY DEF HInit, Init, CoordinatorInit, Idle, Busy
<1> QED
  BY <1>1, <1>2 DEF QInv, ReleaseQualified, StartQualified, GoneUnreleased, ReleaseFits, Outstanding

\* A car that is plugged in was noticed to be gone, so nothing is released.
LEMMA EnvironmentSession ==
    ASSUME Calm, HInv, QInv, Environment, OnEnvironment,
           status = "available" /\ status' # "available" => hist.noticed
    PROVE  QInv'
<1>1. UNCHANGED <<data, ok, poll, task, ctl>>
  BY DEF Environment, ReadingsSettle, coordinator, controller
<1>2. /\ hist'.qualified = (hist.qualified /\ ~(status = "available" /\ status' # "available"))
      /\ hist'.noticed = (hist.noticed /\ ~(status # "available" /\ status' = "available"))
  BY InvFacts DEF OnEnvironment, HistoryType
<1>3. GoneUnreleased' /\ ReleaseFits'
  BY <1>1, <1>2 DEF QInv, GoneUnreleased, ReleaseFits, Outstanding, Busy
<1>4. ReleaseQualified' /\ StartQualified'
  BY <1>1, <1>2 DEF QInv, GoneUnreleased, ReleaseQualified, StartQualified, Outstanding, Busy
<1> QED
  BY <1>3, <1>4 DEF QInv

\* The poll that reports the car's absence takes the release back.
LEMMA PollSession ==
    ASSUME Calm, HInv, QInv, PollDone, OnPollDone
    PROVE  QInv'
<1>1. /\ UNCHANGED <<task, status>> /\ poll # None /\ poll' = None
      /\ data'.status = poll /\ ctl' = Updated(ctl, poll)
  BY DEF PollDone, PollLimit, ReadRegister, wallbox
<1>2. ctl'.released => ctl.released /\ poll # "available"
  BY <1>1, InvFacts DEF Updated, NotReleased, EnterMode, Ctl
<1>3. /\ hist'.qualified = hist.qualified
      /\ hist'.noticed = (hist.noticed \/ PollCounts)
  BY InvFacts DEF OnPollDone, HistoryType
<1>4. PollCounts => poll = "available" /\ \A c \in Callers : ~Busy(c)
  BY DEF Calm, PollCounts, LockFree, Busy
<1>5. ReleaseQualified' /\ StartQualified' /\ ReleaseFits'
  BY <1>1, <1>2, <1>3 DEF QInv, ReleaseQualified, StartQualified, ReleaseFits, Outstanding, Busy
<1>6. GoneUnreleased'
  BY <1>1, <1>2, <1>3, <1>4 DEF QInv, GoneUnreleased, Outstanding, Busy
<1> QED
  BY <1>5, <1>6 DEF QInv

\* A request moves its own command on and never makes a car disappear.
LEMMA RequestMoves ==
    ASSUME HInv, NEW c \in Callers, Request(c)
    PROVE  /\ task[c].step \in {"write", "read", "tag"}
           /\ \E s \in Steps \ {"idle"} : task' = [task EXCEPT ![c].step = s]
           /\ UNCHANGED <<data, poll, ctl>>
           /\ status' = "available" => status = "available"
<1>1. task[c].step \in {"write", "read", "tag"}
  BY DEF Request, CommandStep, WriteCurrentLimit, WritePowerLimit, ReadFreshStatus, Authorize
<1>2. \E s \in Steps \ {"idle"} : task' = [task EXCEPT ![c].step = s]
  BY DEF Request, CommandStep, WriteCurrentLimit, WritePowerLimit, ReadFreshStatus, Authorize, Goes,
     Steps, Replies
<1>3. UNCHANGED <<data, poll, ctl>>
  BY DEF Request, CommandStep, WriteCurrentLimit, WritePowerLimit, ReadFreshStatus, Authorize, Goes,
     controller
<1>4. status' = "available" => status = "available"
  BY DEF Request, CommandStep, WriteCurrentLimit, WritePowerLimit, ReadFreshStatus, Authorize,
     WriteLimit, ReadRegister, WriteIdTag, InSession, wallbox
<1> QED
  BY <1>1, <1>2, <1>3, <1>4

\* A write that takes the current to 0 is no part of a released session, or
\* it is the stop, which then has only to return.
LEMMA ZeroWrites ==
    ASSUME Calm, HInv, QInv, NEW c \in Callers, Request(c), limit # 0, limit' = 0
    PROVE  \/ ~ctl.released /\ ~Outstanding(c, "release")
           \/ Outstanding(c, "stop") /\ task'[c].step = "done"
<1>1. WriteCurrentLimit(c)
  BY DEF Request, CommandStep, WritePowerLimit, ReadFreshStatus, Authorize, ReadRegister,
     WriteIdTag, wallbox
<1>2. PICK reply \in Replies :
         /\ WriteLimit(task[c].amps, reply)
         /\ Goes(c, reply, IF task[c].op = "start" THEN "read" ELSE "done")
  BY <1>1 DEF WriteCurrentLimit
<1>3. Busy(c) /\ task[c].amps = 0 /\ reply = "ok"
  BY <1>1, <1>2 DEF Calm, WriteCurrentLimit, WriteLimit, Executed, Replied, ReplyLost, Malformed,
     Unreached, Busy
<1>4. task[c].then \in Continuations
  BY <1>3, InvFacts DEF CommandShape, Commanded
<1>5. CASE task[c].then = "stop"
  <2>1. task'[c].step = "done"
    BY <1>2, <1>3, <1>5, InvFacts DEF QInv, ReleaseFits, Goes, Tasks
  <2> QED
    BY <1>3, <1>5, <2>1 DEF Outstanding
<1>6. CASE task[c].then \in {"keep", "manual"}
  BY <1>3, <1>6 DEF QInv, ReleaseFits, Outstanding
<1> QED
  BY <1>3, <1>4, <1>5, <1>6 DEF QInv, ReleaseFits, Continuations

LEMMA RequestSession ==
    ASSUME Calm, HInv, QInv, NEW c \in Callers, Request(c), OnCommand
    PROVE  QInv'
<1>1. /\ hist'.qualified = (hist.qualified /\ ~(limit # 0 /\ limit' = 0))
      /\ hist'.noticed = hist.noticed
  BY InvFacts DEF OnCommand, HistoryType
<1>2. /\ task[c].step \in {"write", "read", "tag"} /\ UNCHANGED <<data, poll, ctl>>
      /\ status' = "available" => status = "available"
  BY RequestMoves
<1>3. PICK s \in Steps \ {"idle"} : task' = [task EXCEPT ![c].step = s]
  BY RequestMoves
<1>4. \A d \in Callers : /\ task'[d].then = task[d].then
                         /\ task'[d].op = task[d].op /\ task'[d].amps = task[d].amps
                         /\ d # c => task'[d] = task[d]
                         /\ Busy(d)' <=> Busy(d)
  BY <1>2, <1>3, InvFacts DEF Tasks, Busy
<1>5. ReleaseFits' /\ GoneUnreleased'
  BY <1>1, <1>2, <1>4 DEF QInv, ReleaseFits, GoneUnreleased, Outstanding
<1>6. CASE limit # 0 /\ limit' = 0
  <2>1. \A d \in Callers : Busy(d) => d = c
    BY <1>2, InvFacts DEF OneCommandAtATime, Busy
  <2>2. CASE ~ctl.released /\ ~Outstanding(c, "release")
    BY <1>2, <1>4, <1>5, <2>1, <2>2 DEF QInv, ReleaseQualified, StartQualified, Outstanding
  <2>3. CASE Outstanding(c, "stop") /\ task'[c].step = "done"
    BY <1>4, <1>5, <2>1, <2>3 DEF QInv, ReleaseQualified, StartQualified, Outstanding
  <2> QED
    BY <1>6, <2>2, <2>3, ZeroWrites
<1>7. CASE ~(limit # 0 /\ limit' = 0)
  <2>1. hist'.qualified = hist.qualified
    BY <1>1, <1>7, InvFacts DEF HistoryType
  <2>2. \A d \in Callers : task[d].step = "done" => task'[d] = task[d]
    BY <1>2, <1>4
  <2>3. ReleaseQualified' /\ StartQualified'
    BY <1>2, <1>4, <2>1, <2>2 DEF QInv, ReleaseQualified, StartQualified, Outstanding
  <2> QED
    BY <1>5, <2>3 DEF QInv
<1> QED
  BY <1>6, <1>7

\* A start that returns was qualified; a stop that returns takes the release
\* back; an error leaves things as they are.
LEMMA ReturnSession ==
    ASSUME Calm, HInv, QInv, NEW c \in Callers, CommandReturns(c) \/ CommandRaises(c), OnCommand
    PROVE  QInv'
<1>1. Busy(c) /\ task' = [task EXCEPT ![c] = Idle] /\ UNCHANGED <<wallbox, data, poll>>
  BY DEF CommandReturns, CommandRaises, Busy
<1>2. hist'.qualified = hist.qualified /\ hist'.noticed = hist.noticed
  BY <1>1, InvFacts DEF OnCommand, HistoryType, wallbox
<1>3. \A d \in Callers : ~Busy(d)'
  BY <1>1, InvFacts DEF OneCommandAtATime, Busy, Idle
<1>4. StartQualified' /\ ReleaseFits'
  BY <1>3 DEF StartQualified, ReleaseFits, Outstanding
<1>5. CASE CommandReturns(c) /\ task[c].then = "release"
  <2>1. hist.qualified
    BY <1>1, <1>5 DEF QInv, StartQualified, Outstanding
  <2>2. ~(status = "available" /\ hist.noticed)
    BY <1>1, <1>5 DEF QInv, GoneUnreleased, Outstanding
  <2>3. ReleaseQualified' /\ GoneUnreleased'
    BY <1>1, <1>2, <2>1, <2>2 DEF ReleaseQualified, GoneUnreleased, wallbox
  <2> QED
    BY <1>4, <2>3 DEF QInv
<1>6. CASE CommandReturns(c) /\ task[c].then = "stop"
  <2>1. ~ctl'.released
    BY <1>6, InvFacts DEF CommandReturns, Continue, NotReleased, Ctl
  <2>2. ReleaseQualified' /\ GoneUnreleased'
    BY <1>1, <1>2, <1>3, <2>1 DEF QInv, ReleaseQualified, GoneUnreleased, Outstanding, wallbox
  <2> QED
    BY <1>4, <2>2 DEF QInv
<1>7. CASE /\ ctl' = ctl
           /\ task[c].then # "stop" \/ task[c].step # "done"
  <2>1. ctl.released => hist.qualified
    BY <1>1, <1>7, InvFacts DEF QInv, ReleaseQualified, OneCommandAtATime, Outstanding
  <2>2. ReleaseQualified' /\ GoneUnreleased'
    BY <1>1, <1>2, <1>3, <1>7, <2>1 DEF QInv, ReleaseQualified, GoneUnreleased, Outstanding, wallbox
  <2> QED
    BY <1>4, <2>2 DEF QInv
<1> QED
  BY <1>5, <1>6, <1>7 DEF CommandReturns, CommandRaises, Continue

\* A cycle taken with the lock free keeps the qualification of a release, and
\* sends a start only with one.
LEMMA DecisionSession ==
    ASSUME HInv, QInv, LockFree, NEW c \in LoopCallers, NEW k \in Ctl, OfSession(c, k),
           k.released => ctl.released /\ hist.qualified,
           UNCHANGED <<wallbox, data, poll>>, hist'.noticed = hist.noticed,
           StartIssued => hist'.qualified,
           k.released /\ hist.qualified /\ ctl'.mode = "pv_surplus" => hist'.qualified
    PROVE  QInv'
<1>1. c \in Callers /\ \A d \in Callers : ~Busy(d)
  BY DEF LoopCallers, Callers, LockFree, Busy
<1>2. ctl'.released => k.released /\ ctl.released /\ hist'.qualified
  BY DEF OfSession, Keeps
<1>3. ReleaseQualified'
  BY <1>2 DEF ReleaseQualified
<1>4. \A d \in Callers : Busy(d)' =>
         /\ d = c /\ Fitting(task'[c], k, ctl')
         /\ task'[c].then = "release" => StartIssued
  BY <1>1, InvFacts DEF OfSession, StartIssued, Issued, Busy
<1>5. StartQualified' /\ ReleaseFits'
  BY <1>4 DEF StartQualified, ReleaseFits, Outstanding, Fitting
<1>6. GoneUnreleased'
  BY <1>2, <1>4 DEF QInv, GoneUnreleased, Outstanding, Fitting, wallbox
<1> QED
  BY <1>3, <1>5, <1>6 DEF QInv

LEMMA TimerSession ==
    ASSUME Calm, HInv, QInv, TimerFires \/ QueuedCycle, OnCycle
    PROVE  QInv'
<1>0. /\ TypeOK /\ ctl \in Ctl /\ Consistent(ctl) /\ waiting \in Seq(Age) /\ "timer" \in LoopCallers
      /\ UNCHANGED <<wallbox, data, poll>>
  BY InvFacts DEF TypeOK, ClocksFitMode, Consistent, LoopCallers, TimerFires, QueuedCycle
<1>1. /\ hist'.qualified = (StartIssued \/ (hist.qualified /\ ctl'.mode = "pv_surplus"))
      /\ hist'.noticed = hist.noticed
  BY InvFacts DEF Calm, OnCycle, When, HistoryType
<1>2. ASSUME LockFree, NEW n \in Age, Cycle("timer", ctl, n)
      PROVE  QInv'
  <2>1. OfSession("timer", ctl)
    BY <1>0, <1>2, CycleOfSession
  <2>2. ctl.released => hist.qualified
    BY <1>2 DEF QInv, ReleaseQualified, LockFree
  <2> QED
    BY <1>0, <1>1, <1>2, <2>1, <2>2, DecisionSession
<1>3. CASE UNCHANGED <<ctl, shown, task>>
  <2>1. (ctl.released => ctl.mode = "pv_surplus") /\ CommandFitsMode
    BY InvFacts DEF ClocksFitMode
  <2> QED
    BY <1>0, <1>1, <1>3, <2>1 DEF QInv, ReleaseQualified, StartQualified, GoneUnreleased, ReleaseFits,
       CommandFitsMode, Outstanding, Busy, wallbox
<1>4. CASE QueuedCycle
  <2>1. Head(waiting) \in Age
    BY <1>0, <1>4 DEF QueuedCycle
  <2> QED
    BY <1>2, <1>4, <2>1 DEF QueuedCycle
<1> QED
  BY <1>2, <1>3, <1>4, ZeroIsAge DEF TimerFires

LEMMA SelectSession ==
    ASSUME Calm, HInv, QInv, SetMode, OnSetMode
    PROVE  QInv'
<1>1. PICK mode \in UserModes :
         Cycle("select", [EnterMode(ctl, mode) EXCEPT !.lastSwitch = None], 0)
  BY DEF SetMode
<1> DEFINE k == [EnterMode(ctl, mode) EXCEPT !.lastSwitch = None]
<1>2. k \in Ctl /\ Consistent(k) /\ ~k.released
  BY InvFacts, UserAssumption DEF EnterMode, Ctl, Stamp, Consistent
<1> HIDE DEF k
<1>3. OfSession("select", k)
  BY <1>1, <1>2, InvFacts, ZeroIsAge, CycleOfSession DEF k
<1>4. hist'.qualified = StartIssued /\ hist'.noticed = hist.noticed
  BY InvFacts DEF Calm, OnSetMode, When, HistoryType
<1> QED
  BY <1>2, <1>3, <1>4, DecisionSession DEF SetMode, LoopCallers

LEMMA ManualSession ==
    ASSUME HInv, QInv, ManualAction, OnManualAction
    PROVE  QInv'
<1>1. PICK t \in UserCommands : task' = [task EXCEPT !["manual"] = t]
  BY DEF ManualAction
<1>2. t.then = "manual"
  BY UserCommandShape, InvFacts
<1>3. ~ctl'.released /\ hist'.noticed = hist.noticed /\ UNCHANGED <<wallbox, data, poll>>
  BY InvFacts DEF ManualAction, EnterMode, Ctl, OnManualAction, HistoryType
<1>4. \A d \in Callers : Busy(d)' => task'[d].then = "manual"
  BY <1>1, <1>2, InvFacts DEF ManualAction, LockFree, Busy
<1> QED
  BY <1>3, <1>4 DEF QInv, ReleaseQualified, StartQualified, GoneUnreleased, ReleaseFits, Outstanding,
     wallbox

LEMMA SessionStep == Calm /\ HInv /\ QInv /\ [HNext]_hvars => QInv'
<1> SUFFICES ASSUME Calm, HInv, QInv, [HNext]_hvars PROVE QInv'
  OBVIOUS
<1>1. CASE Commands /\ OnCommand
  BY <1>1, RequestSession, ReturnSession DEF Commands
<1>2. CASE (PollOther \/ UpdateSetting) /\ UNCHANGED hist
  BY <1>2 DEF PollOther, PollStatus, PollFails, UpdateSetting, ReadRegister, controller, coordinator,
     wallbox, QInv, ReleaseQualified, StartQualified, GoneUnreleased, ReleaseFits, Outstanding, Busy
<1>3. CASE Tick /\ OnTick
  <2>1. ctl'.released = ctl.released /\ UNCHANGED <<status, data, poll, task>>
    BY <1>3, InvFacts DEF Tick, Ctl, wallbox, coordinator
  <2>2. hist'.qualified = hist.qualified /\ hist'.noticed = hist.noticed
    BY <1>3, InvFacts DEF OnTick, HistoryType
  <2> QED
    BY <2>1, <2>2 DEF QInv, ReleaseQualified, StartQualified, GoneUnreleased, ReleaseFits, Outstanding,
       Busy
<1>4. CASE UNCHANGED hvars
  BY <1>4 DEF hvars, vars, wallbox, coordinator, controller, QInv, ReleaseQualified, StartQualified,
     GoneUnreleased, ReleaseFits, Outstanding, Busy
<1>5. CASE Environment /\ OnEnvironment /\ (status = "available" /\ status' # "available" => hist.noticed)
  BY <1>5, EnvironmentSession
<1> QED
  BY <1>1, <1>2, <1>3, <1>4, <1>5, PollSession, TimerSession, SelectSession, ManualSession
     DEF HNext, Calm

\* Only a cycle of the timer, with the lock free, adjusts; the session it
\* adjusts is released.
LEMMA AdjustsQualified ==
    ASSUME HInv, QInv, HNext, AdjustIssued
    PROVE  hist.qualified
<1>1. PICK c \in Callers : Issued(c) /\ task'[c].then = "adjust"
  BY DEF AdjustIssued
<1>2. ~(Environment \/ PollDone \/ PollOther \/ Commands \/ ManualAction \/ UpdateSetting)
  BY <1>1, InvFacts, OthersIssueNothing
<1>3. ~Tick
  BY <1>1 DEF Tick, coordinator, Issued, Busy
<1>4. ASSUME NEW d \in LoopCallers, NEW k, OfSession(d, k)
      PROVE  k.released
  BY <1>1, <1>4, InvFacts DEF OfSession, Fitting, Issued, Busy, LoopCallers, Callers
<1>5. ~SetMode
  <2> SUFFICES ASSUME SetMode PROVE FALSE
    OBVIOUS
  <2>1. PICK mode \in UserModes :
           Cycle("select", [EnterMode(ctl, mode) EXCEPT !.lastSwitch = None], 0)
    BY DEF SetMode
  <2> DEFINE k == [EnterMode(ctl, mode) EXCEPT !.lastSwitch = None]
  <2>2. k \in Ctl /\ Consistent(k) /\ ~k.released
    BY InvFacts, UserAssumption DEF EnterMode, Ctl, Stamp, Consistent
  <2> HIDE DEF k
  <2>3. OfSession("select", k)
    BY <2>1, <2>2, InvFacts, ZeroIsAge, CycleOfSession DEF k
  <2> QED
    BY <1>4, <2>2, <2>3 DEF LoopCallers
<1>6. LockFree /\ \E n \in Age : Cycle("timer", ctl, n)
  <2>1. TimerFires \/ QueuedCycle
    BY <1>2, <1>3, <1>5 DEF HNext
  <2>2. ~UNCHANGED task
    BY <1>1 DEF Issued, Busy
  <2>3. waiting \in Seq(Age)
    BY InvFacts DEF TypeOK
  <2>4. CASE QueuedCycle
    <3>1. Head(waiting) \in Age
      BY <2>3, <2>4 DEF QueuedCycle
    <3> QED
      BY <2>4, <3>1 DEF QueuedCycle
  <2> QED
    BY <2>1, <2>2, <2>4, ZeroIsAge DEF TimerFires
<1>7. ctl.released
  BY <1>4, <1>6, InvFacts, CycleOfSession DEF ClocksFitMode, Consistent, LoopCallers
<1> QED
  BY <1>6, <1>7 DEF QInv, ReleaseQualified, LockFree

(***************************************************************************)
(* PV surplus regulates a session upward of 0 A only if the start SoC was  *)
(* reached, with enough surplus, since the car was plugged in and since    *)
(* the last stop (RegulateStopped, RegulateReleased, Updated).             *)
(***************************************************************************)
THEOREM SessionsStartQualified ==
    ASSUME Calm
    PROVE  HSpec => StartConditionFirst
<1>1. QInv /\ HInv /\ [HNext]_hvars => QInv'
  BY SessionStep
<1>2. QInv /\ HInv /\ [HNext]_hvars => [AdjustIssued => hist.qualified]_hvars
  BY AdjustsQualified
<1> QED
  BY <1>1, <1>2, SessionInit, HistoryInvariant, PTL DEF HSpec, StartConditionFirst
=============================================================================
