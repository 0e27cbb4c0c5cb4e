---------------------------- MODULE MCController ----------------------------
(***************************************************************************)
(* Values of the constants that a .cfg file cannot write.                  *)
(***************************************************************************)
EXTENDS ChargeController

\* The default options, without PV sources.
MCOption ==
    [max |-> 16, pause |-> 0, start |-> 16, phaseSwitching |-> FALSE,
     pv |-> FALSE, soc |-> FALSE]
MCNoPv == {MCOption}

\* One tick of lockout and of buffer time, the default thresholds.
MCSettings ==
    [socStart |-> {60}, socStop |-> {50}, minSwitch |-> {1}, buffer |-> {1},
     autoReturn |-> {TRUE}]

\* Without sources there is nothing to read.
MCStill == {<<None, None>>}
=============================================================================
