---------------------------- MODULE ModeHistory ----------------------------
(***************************************************************************)
(* The charge controller implements ModePolicy.  The policy tells requests *)
(* of the user from what the controller does by itself, which its state    *)
(* does not show: the history variable `asked` adds that, and changes      *)
(* nothing of what the controller does.                                    *)
(***************************************************************************)
EXTENDS ChargeController

VARIABLE asked

mvars == <<vars, asked>>

MInit == Init /\ asked = FALSE

\* The select entity, the buttons and the sliders.
UserRequest == SetMode \/ ManualAction

\* Timers, polls, commands and their environment; settings leave the mode alone.
OwnStep ==
    \/ Environment
    \/ PollDone \/ PollOther
    \/ Commands
    \/ TimerFires \/ QueuedCycle
    \/ UpdateSetting
    \/ Tick

MNext ==
    \/ UserRequest /\ asked' = ~asked
    \/ OwnStep /\ UNCHANGED asked

MSpec == MInit /\ [][MNext]_mvars

Writer ==
    IF \E c \in LoopCallers : Busy(c) THEN "loop"
    ELSE IF Busy("manual") THEN "user" ELSE "none"

Policy ==
    INSTANCE ModePolicy WITH mode <- ctl.mode, released <- ctl.released, writer <- Writer,
                             pvSources <- HasPv, phaseSwitching <- PhaseSwitching

\* A mode stays until the user asks for another one, in every order of cycles,
\* polls, commands and requests, but for Immediate with a full car and Manual
\* with an absent one ("Immediate and Off stay until you change them", README);
\* the loop writes nothing in Manual, and a release never outlives its mode.
PolicyKept == Policy!Spec
=============================================================================
