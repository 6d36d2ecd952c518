------------------------------ MODULE DebugUdp ------------------------------
(***************************************************************************)
(* debug_udp.cpp: the circuit breaker in front of the debug collector.     *)
(* One ENOMEM suspends all exports for a cooldown that doubles from trip   *)
(* to trip, until the exports have been healthy for a while.               *)
(*                                                                         *)
(* The exporters send through this module and see whether the datagram     *)
(* left (Send) and whether the breaker is open (Pressure).  Time is        *)
(* counted in ticks of the initial cooldown.  What else can keep a         *)
(* datagram back (no socket, the 5 ms gap between two) is the outcome      *)
(* "refused", which is always possible.                                    *)
(***************************************************************************)
EXTENDS Integers

CONSTANTS
    CooldownInitial,  \* COLLECTOR_COOLDOWN_INITIAL_MS, in ticks
    CooldownMax,      \* COLLECTOR_COOLDOWN_MAX_MS, in ticks
    HealthyReset      \* COLLECTOR_HEALTHY_RESET_MS, in ticks

ASSUME DebugUdpAssumption ==
    /\ CooldownInitial \in Nat \ {0} /\ HealthyReset \in Nat
    /\ CooldownMax \in Nat /\ CooldownMax >= 2 * CooldownInitial

VARIABLES
    configured,   \* setup() was given a collector
    netUp,        \* the station has an address
    suspended,    \* ticks until suspended_until_ms; 0: not suspended
    cooldown,     \* collector_cooldown_ms
    tripped,      \* last_enomem_ms # 0
    healthy,      \* ticks since healthy_since_ms (saturating); -1: not running
    owed,         \* history: ticks of the cooldown that still have to pass
    faultFree     \* history: ticks since the last datagram failed (saturating)

udpVars == <<configured, netUp, suspended, cooldown, tripped, healthy, owed, faultFree>>

UdpTypeOK ==
    /\ configured \in BOOLEAN /\ netUp \in BOOLEAN /\ tripped \in BOOLEAN
    /\ suspended \in 0 .. CooldownMax /\ owed \in 0 .. CooldownMax
    /\ cooldown \in CooldownInitial .. CooldownMax
    /\ healthy \in -1 .. HealthyReset
    /\ faultFree \in 0 .. HealthyReset

UdpInit ==
    /\ configured \in BOOLEAN /\ netUp = TRUE
    /\ suspended = 0 /\ cooldown = CooldownInitial /\ tripped = FALSE
    /\ healthy = -1 /\ owed = 0 /\ faultFree = HealthyReset

-----------------------------------------------------------------------------
Ready == configured /\ suspended = 0        \* ready_for_export
Pressure == configured /\ suspended' > 0    \* sustained_resource_pressure, afterwards

Outcomes == {"ok", "error", "enomem", "refused"}

\* What suspend_export makes of the cooldown.
NextCooldown == IF 2 * cooldown >= CooldownMax THEN CooldownMax ELSE 2 * cooldown

\* reset_after_resource_pressure, called by the exporter that runs into the open
\* breaker and drops its capture: the suspension stays.
ResetAfterPressure(ticks) == ticks

SuspendExport ==
    /\ suspended' = ResetAfterPressure(cooldown) /\ owed' = cooldown
    /\ cooldown' = NextCooldown
    /\ healthy' = -1 /\ tripped' = TRUE /\ faultFree' = 0

\* (KeepsHealthy: a failed datagram does not end the healthy interval.)
KeepsHealthy == faultFree' = 0 /\ UNCHANGED <<healthy, suspended, cooldown, tripped, owed>>
FailedDatagram == healthy' = -1 /\ faultFree' = 0 /\ UNCHANGED <<suspended, cooldown, tripped, owed>>

\* A datagram got through: only a whole healthy interval brings the short
\* cooldown back.
GoodDatagram ==
    LET age == IF healthy = -1 THEN 0 ELSE healthy IN
    /\ IF cooldown = CooldownInitial /\ ~tripped
       THEN UNCHANGED <<healthy, cooldown, tripped>>
       ELSE IF age >= HealthyReset
       THEN healthy' = -1 /\ cooldown' = CooldownInitial /\ tripped' = FALSE
       ELSE healthy' = age /\ UNCHANGED <<cooldown, tripped>>
    /\ UNCHANGED <<suspended, owed, faultFree>>

\* send_packet.
Send(outcome) ==
    /\ outcome # "refused" => Ready /\ netUp
    /\ CASE outcome = "ok"      -> GoodDatagram
         [] outcome = "error"   -> FailedDatagram
         [] outcome = "enomem"  -> SuspendExport
         [] outcome = "refused" -> UNCHANGED <<suspended, cooldown, tripped, healthy, owed, faultFree>>
    /\ UNCHANGED <<configured, netUp>>

-----------------------------------------------------------------------------
\* The RT/RH decoder exports through the same breaker.
OtherExport == configured /\ \E o \in Outcomes : Send(o)

UdpNetChange == netUp' = ~netUp /\ UNCHANGED <<configured, suspended, cooldown, tripped, healthy,
                                               owed, faultFree>>

\* The clock; suspension_active() lets a cooldown that has passed expire.
Elapse(ticks) == IF ticks > 0 THEN ticks - 1 ELSE 0
UdpTick ==
    /\ suspended' = Elapse(suspended) /\ owed' = Elapse(owed)
    /\ healthy' = IF healthy \in {-1, HealthyReset} THEN healthy ELSE healthy + 1
    /\ faultFree' = IF faultFree < HealthyReset THEN faultFree + 1 ELSE faultFree
    /\ UNCHANGED <<configured, netUp, cooldown, tripped>>

-----------------------------------------------------------------------------
(* What the breaker promises (stated over the steps of whoever sends).         *)

\* The breaker stays open for the whole cooldown of its last trip, although every
\* exporter that drops its capture resets part of the breaker's state, and the
\* cooldown gets shorter only after a whole healthy interval without a failed
\* datagram, however the exports, the network and the trips interleave: a collector
\* that fails now and then is not probed at the short interval.
BackoffIsEarned ==
    /\ suspended' >= owed'
    /\ cooldown' < cooldown => faultFree >= HealthyReset
=============================================================================
