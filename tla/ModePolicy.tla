----------------------------- MODULE ModePolicy -----------------------------
(***************************************************************************)
(* What the charge modes promise, apart from how the controller keeps its  *)
(* promises: who may write to the wallbox in which mode, which steps may   *)
(* change the mode, and what a release of PV surplus outlives.             *)
(*                                                                         *)
(*   - a mode stays until the user asks for another one, except that       *)
(*     Immediate gives way to PV surplus once the car is full, and Manual  *)
(*     once the car is gone: "Off" and PV surplus stay whatever happens;   *)
(*   - in Manual, and with phase switching, only the user writes;          *)
(*   - any manual control means Manual;                                    *)
(*   - only PV surplus releases charging, by a command of its own, and no  *)
(*     change of mode, no override and no absent car leaves a release.     *)
(***************************************************************************)

VARIABLES
    mode,             \* the charge mode
    released,         \* PV surplus has released charging
    asked,            \* changes with every request of the user, and only then
    writer,           \* whose command is under way: "loop", "user" or "none"
    pvSources,        \* PV sources are configured
    phaseSwitching    \* the wallbox switches phases

policy == <<mode, released, asked, writer, pvSources, phaseSwitching>>
configuration == <<pvSources, phaseSwitching>>

Modes == {"pv_surplus", "immediate", "off", "manual"}

Init ==
    /\ mode \in Modes
    /\ released = FALSE
    /\ asked \in BOOLEAN
    /\ writer = "none"
    /\ pvSources \in BOOLEAN
    /\ phaseSwitching \in BOOLEAN

\* The loop may begin a command of its own in the mode the step leaves.
LoopMayBegin ==
    \/ writer' = "none"
    \/ writer' = "loop" /\ mode' # "manual" /\ ~phaseSwitching

\* Full: Immediate gives way to PV surplus.
CarFull == mode = "immediate" /\ pvSources /\ mode' = "pv_surplus"

\* The user picks a mode, and it is applied at once.
Pick ==
    /\ writer = "none"
    /\ mode' \in Modes
    /\ released' = FALSE
    /\ LoopMayBegin
    /\ UNCHANGED configuration

\* A button or a slider.
Override ==
    /\ writer = "none"
    /\ mode' = "manual"
    /\ released' = FALSE
    /\ writer' = "user"
    /\ UNCHANGED configuration

\* The loop decides: it may take a release back but not grant one.
Decide ==
    /\ writer = "none"
    /\ \/ mode' = mode /\ released' \in {released, FALSE}
       \/ CarFull /\ released' = FALSE
    /\ LoopMayBegin
    /\ UNCHANGED configuration

\* A command ends.  One of the loop may have released PV surplus or stopped it.
End ==
    /\ writer # "none"
    /\ writer' = "none"
    /\ mode' = mode
    /\ \/ released' \in {released, FALSE}
       \/ writer = "loop" /\ mode = "pv_surplus" /\ released' = TRUE
    /\ UNCHANGED configuration

\* The car is reported gone; after a while Manual gives way to PV surplus.
CarGone ==
    /\ released' = FALSE
    /\ \/ mode' = mode
       \/ mode = "manual" /\ pvSources /\ mode' = "pv_surplus"
    /\ UNCHANGED <<writer, configuration>>

User == Pick \/ Override
Controller == Decide \/ End \/ CarGone

Next ==
    \/ User /\ asked' = ~asked
    \/ Controller /\ UNCHANGED asked

Spec == Init /\ [][Next]_policy
=============================================================================
