---------------------------- MODULE MCLifecycle ----------------------------
(***************************************************************************)
(* Values of the constants that a .cfg file cannot write.                  *)
(***************************************************************************)
EXTENDS Lifecycle

MCDefault ==
    [max |-> 16, pause |-> 0, start |-> 16, phaseSwitching |-> FALSE,
     pv |-> FALSE, soc |-> FALSE]
MCWithPv == [MCDefault EXCEPT !.pv = TRUE]
MCOptions == {MCDefault, MCWithPv}
\* The last form is refused: its start current is above its maximum.
MCForms == MCOptions \cup {[MCWithPv EXCEPT !.max = 10]}

MCSettings ==
    [socStart |-> {60, 40}, socStop |-> {50, 30}, minSwitch |-> {1}, buffer |-> {1},
     autoReturn |-> {TRUE}]
MCDefaultSettings ==
    [socStart |-> 60, socStop |-> 50, minSwitch |-> 1, buffer |-> 1, autoReturn |-> TRUE]
=============================================================================
