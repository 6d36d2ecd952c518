--------------------------- MODULE MCBleAdvertiser ---------------------------
(* BleAdvertiser with few samples, settings, connections and failures.        *)
EXTENDS BleAdvertiser

\* Either requests fail or they are late, not both.
LateOrFailingInit == BleInit /\ (prompt \/ faults = 0)

LateOrFailingSpec == LateOrFailingInit /\ [][BleNext]_bleVars /\ BleFairness

=============================================================================
