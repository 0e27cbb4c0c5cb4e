--------------------------- MODULE MCPvSurplus ---------------------------
(***************************************************************************)
(* Values of the constants that a .cfg file cannot write.                  *)
(***************************************************************************)
EXTENDS PvSurplus

MCUnitFactors == [W |-> 1, kW |-> 1000, MW |-> 1000000]
\* An inverter in kW, a balcony sensor without a unit, a battery in W.
MCUnitOf ==
    [inverter |-> "kW", balcony |-> None, import |-> "W", discharge |-> "W"]
MCSurpluses == {-1000, 3000}
MCDraws == {0, 2000}
=============================================================================
