------------------------------ MODULE MCModes ------------------------------
(***************************************************************************)
(* Values of the constants that a .cfg file cannot write.                  *)
(***************************************************************************)
EXTENDS ModeHistory

\* PV sources, a battery SoC, and a pause current above the maximum.
MCOption ==
    [max |-> 16, pause |-> 20, start |-> 16, phaseSwitching |-> FALSE,
     pv |-> TRUE, soc |-> TRUE]
MCPhases == {MCOption, [MCOption EXCEPT !.phaseSwitching = TRUE]}

\* One tick of lockout and of buffer time, the default thresholds.
MCSettings ==
    [socStart |-> {60}, socStop |-> {50}, minSwitch |-> {1}, buffer |-> {1},
     autoReturn |-> {TRUE}]

MCNone == {}
=============================================================================
