----------------------------- MODULE MCModbus -----------------------------
(***************************************************************************)
(* Values of the constants that a .cfg file cannot write.                  *)
(***************************************************************************)
EXTENDS ModbusClient

MCReloaded == <<"first", "reloaded">>
=============================================================================
