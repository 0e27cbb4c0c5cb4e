---------------------------- MODULE MCRegisters ----------------------------
(***************************************************************************)
(* Values of the constants that a .cfg file cannot write.                  *)
(***************************************************************************)
EXTENDS Registers, TLC

\* Both ends of every range, and the values next to them.
MCRequests ==
    {-100, 0, 1, 1379, 1380, 1381, 3679, 3680, 3681, 4139, 4140, 4141, 7360,
     7361, 11040, 11041, 22080, 22081}

\* Three of the named bits; 15 is one of the reserved ones.
MCErrorFlags ==
    (0 :> "err_rcmb_triggered") @@ (5 :> "err_rcd_triggered")
      @@ (11 :> "err_actuator_detection_failed")
=============================================================================
