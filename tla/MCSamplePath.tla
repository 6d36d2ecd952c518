---------------------------- MODULE MCSamplePath ----------------------------
(* SamplePath on a small instance: an implausible reading, two that agree and *)
(* one that does not; delays of one or two ticks.                             *)
EXTENDS SamplePath
=============================================================================
