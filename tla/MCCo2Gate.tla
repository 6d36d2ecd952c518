------------------------------ MODULE MCCo2Gate ------------------------------
(* Co2Gate on a small instance: delays of one or two ticks, generation        *)
(* counters of one bit.                                                       *)
EXTENDS Co2Gate

\* Drivers that never fail.
HealthyInit == GateInit /\ faulty = FALSE
HealthyGateSpec == HealthyInit /\ [][GateNext]_allVars
HealthyGateFairSpec == HealthyGateSpec /\ GateFairness

\* Drivers that may fail, but not while Energy Save Mode or the network changes.
QuietFaults == faulty => UNCHANGED <<energySave, netUp>>

=============================================================================
