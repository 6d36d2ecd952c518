--------------------------- MODULE MCHistoryRuns ---------------------------
(* The constants of HistoryRuns are given in MCHistoryRuns.cfg. *)
EXTENDS HistoryRuns
=============================================================================
