--------------------------- MODULE MCCfitsioGate ---------------------------
(* Three threads at the gate, each calling twice, nested or one by one.     *)
EXTENDS CfitsioGate

CONSTANTS t1, t2, t3
=============================================================================
