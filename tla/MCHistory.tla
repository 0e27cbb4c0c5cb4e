---------------------------- MODULE MCHistory ----------------------------
(***************************************************************************)
(* Values of the constants that a .cfg file cannot write.                  *)
(***************************************************************************)
EXTENDS ChargeHistory

\* The default options, with PV sources and a battery SoC.
MCOption ==
    [max |-> 16, pause |-> 0, start |-> 16, phaseSwitching |-> FALSE,
     pv |-> TRUE, soc |-> TRUE]
MCPlain == {MCOption}
MCSmallStart == {[MCOption EXCEPT !.start = 8]}

\* One tick of lockout and of buffer time, the default thresholds.
MCSettings ==
    [socStart |-> {60}, socStop |-> {50}, minSwitch |-> {1}, buffer |-> {1},
     autoReturn |-> {TRUE}]

\* The user moves the start SoC; a lockout longer than a cycle can wait.
MCChangingSettings ==
    [socStart |-> {50, 60}, socStop |-> {40}, minSwitch |-> {2},
     buffer |-> {1}, autoReturn |-> {TRUE}]

\* Readings the sources stay at: too little surplus, too low a SoC; enough of both.
MCLow == {<<800, 70>>, <<2000, 40>>}
MCGood == {<<2000, 70>>}
MCSteady == MCLow \cup MCGood
MCNone == {}
=============================================================================
