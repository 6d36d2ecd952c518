----------------------------- MODULE MCPowerSave -----------------------------
(* PowerSave on a small instance: an awake limit of one or two ticks, at most *)
(* one tick of drain grace, a retry every tick, generation counters of at     *)
(* most one bit.  The .cfg files give the values.                             *)
EXTENDS PowerSave
=============================================================================
