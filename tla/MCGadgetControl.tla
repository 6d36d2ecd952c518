--------------------------- MODULE MCGadgetControl ---------------------------
(* A new gadget, or one that a phone is paired with and that has kept its      *)
(* settings through an update.                                                 *)
EXTENDS GadgetControl

MCShortened(name) == IF name = "zero byte" THEN "chosen" ELSE name
MCRecords == {[log_enabled |-> TRUE, alternative_name |-> "legacy"]}

MCGadgetInit == GadgetInit /\ (flash = NoRecord <=> bonded = {})
MCGadgetSpec == MCGadgetInit /\ GadgetRuns
=============================================================================
