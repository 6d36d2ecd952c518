------------------------------- MODULE Co2Gate -------------------------------
(***************************************************************************)
(* The CO2 capture gate of co2_monitor_0601.cpp, composed with PowerSave,  *)
(* the power policy (USB, Energy Save Mode) that drives it and the passive *)
(* I2C sniffer it switches on and off.                                     *)
(*                                                                         *)
(* One pass of the component's loop() is the sequence of stages "policy",  *)
(* "gate", "co2", "busy", "power"; interrupts may come between any two     *)
(* steps.  The Unni's I2C bus is the environment: its rail goes up and     *)
(* down and its traffic comes whenever it likes.  The sniffer is reduced   *)
(* to the state of its edge buffer (cap): what a capture decodes to is a   *)
(* free choice.  The USB state is the debounced one.                       *)
(***************************************************************************)
EXTENDS PowerSave

CONSTANTS
    Quiet,        \* last_edge_age_us() >= 1 s, in ticks
    IdleStable,   \* co2_wake_idle_stable_ms, in ticks
    GuardTime,    \* co2_wake_guard_time_ms, in ticks
    GraceTime,    \* energy_save_grace, in ticks
    DebugCapture, \* RTRH_DEBUG_CAPTURE with a UDP collector configured
    Stimuli       \* which of "usb", "energy", "rtrh", "netdown" may happen

ASSUME Co2GateAssumption ==
    /\ {Quiet, IdleStable, GuardTime, GraceTime} \subseteq Nat
    /\ DebugCapture \in BOOLEAN
    /\ Stimuli \subseteq {"usb", "energy", "rtrh", "netdown"}

VARIABLES
    phase,          \* co2_capture_gate_phase_
    obs,            \* co2_window_observations_ (saturating at 2)
    requested,      \* co2_gate_requested_
    gateAge,        \* ticks since co2_idle/guard_since_ms_; -1: not started
    activityGen,    \* co2_activity_generation_
    wakeGenSeen,    \* light_sleep_wake_generation_
    watch,          \* co2_warmup_activity_watch
    capture,        \* capture_enabled
    cap,            \* the edge buffer: "empty", "edges", "finished"
    edgeAge,        \* ticks since last_edge (saturating at Quiet)
    exporting,      \* udp_pending.active
    busLow,         \* SDA and SCL are both LOW
    netUp,          \* the station has an address
    usb,            \* usb_power_.state
    energySave,     \* energy_save_mode_
    policyActive,   \* energy_save_policy_active_
    graceAge,       \* ticks of the pending grace; -1: none pending
    stage

snifferVars == <<watch, capture, cap, edgeAge, exporting>>
phaseVars   == <<phase, obs, requested, gateAge, activityGen>>
policyVars  == <<usb, energySave, policyActive, graceAge>>
envVars     == <<busLow, netUp>>
gateVars    == <<snifferVars, phaseVars, policyVars, envVars, wakeGenSeen, stage>>
allVars     == <<vars, gateVars>>

External == usb /\ ~policyActive
GateAgeMax == IF IdleStable > GuardTime THEN IdleStable ELSE GuardTime

GateTypeOK ==
    /\ TypeOK
    /\ phase \in {"Active", "WaitIdleStable", "Guard", "WakeArmed", "Warmup"}
    /\ obs \in 0 .. 2 /\ requested \in BOOLEAN /\ gateAge \in -1 .. GateAgeMax
    /\ activityGen \in 0 .. GenMod - 1 /\ wakeGenSeen \in 0 .. GenMod - 1
    /\ watch \in BOOLEAN /\ capture \in BOOLEAN
    /\ cap \in {"empty", "edges", "finished"} /\ edgeAge \in 0 .. Quiet
    /\ exporting \in BOOLEAN /\ busLow \in BOOLEAN /\ netUp \in BOOLEAN
    /\ usb \in BOOLEAN /\ energySave \in BOOLEAN /\ policyActive \in BOOLEAN
    /\ graceAge \in -1 .. GraceTime
    /\ stage \in {"setup", "apply", "policy", "gate", "co2", "busy", "power"}

GateInit ==
    /\ Init
    /\ phase = "Active" /\ obs = 0 /\ requested = FALSE /\ gateAge = -1
    /\ activityGen = 0 /\ wakeGenSeen = 0
    /\ watch = FALSE /\ capture = TRUE /\ cap = "empty" /\ edgeAge = 0
    /\ exporting = FALSE /\ busLow \in BOOLEAN /\ netUp = TRUE
    /\ usb \in (IF "usb" \in Stimuli THEN BOOLEAN ELSE {FALSE})
    /\ energySave = FALSE /\ policyActive = FALSE /\ graceAge = -1
    /\ stage = "setup"

-----------------------------------------------------------------------------
(* The sniffer's switches. *)

SetCaptureEnabled(on) ==
    IF capture = on
    THEN UNCHANGED <<capture, cap, edgeAge>>
    ELSE capture' = on /\ cap' = "empty" /\ edgeAge' = 0

\* rearm_after_light_sleep: the buffer and the last-edge time start afresh; an
\* export in progress is not told.
RearmSniffer == cap' = "empty" /\ edgeAge' = 0

\* An edge of the bus, or a burst of them.  The handler stores it unless the
\* buffer is frozen, a burst may overflow the buffer, and during a warm-up the
\* handler tells PowerSave.
BusEdge(low) ==
    /\ busLow' = low
    /\ ~low \/ ~busLow                       \* a dead bus has no traffic
    /\ IF capture /\ cap # "finished"
       THEN /\ cap' \in {"edges", "finished"} /\ edgeAge' = 0
            /\ IF watch /\ Co2EdgeCounts
               THEN Co2Edge \/ (faulty /\ UNCHANGED vars)
               ELSE UNCHANGED vars
       ELSE UNCHANGED <<cap, edgeAge, vars>>
    /\ UNCHANGED <<phaseVars, policyVars, watch, capture, exporting, netUp,
                   wakeGenSeen, stage>>

-----------------------------------------------------------------------------
(* Set-up and power policy. *)

\* (ResetKeepsPhase: the phase survives.  ResetForgetsCapture: the sniffer stays
\* as it is.)
ResetKeepsPhase ==
    /\ obs' = 0 /\ requested' = FALSE /\ gateAge' = -1
    /\ watch' = FALSE
    /\ SetCaptureEnabled(TRUE)
    /\ UNCHANGED <<phase, activityGen, exporting>>

ResetForgetsCapture ==
    /\ phase' = "Active" /\ obs' = 0 /\ requested' = FALSE /\ gateAge' = -1
    /\ watch' = FALSE
    /\ UNCHANGED <<activityGen, capture, cap, edgeAge, exporting>>

ResetGate ==
    /\ phase' = "Active" /\ obs' = 0 /\ requested' = FALSE /\ gateAge' = -1
    /\ watch' = FALSE
    /\ SetCaptureEnabled(TRUE)
    /\ UNCHANGED <<activityGen, exporting>>

\* apply_power_policy_ under the policy inputs of the next state.  Unless it is
\* forced, it does nothing when the policy stays the same.
ApplyPolicy(force) ==
    IF force \/ External' # external_power
    THEN SetExternalPower(External') /\ ResetGate
    ELSE UNCHANGED <<vars, phaseVars, snifferVars>>

PowerSetup ==
    /\ stage = "setup" /\ stage' = "apply"
    /\ Setup
    /\ UNCHANGED <<snifferVars, phaseVars, policyVars, envVars, wakeGenSeen>>

FirstPolicy ==
    /\ stage = "apply" /\ stage' = "policy"
    /\ UNCHANGED policyVars
    /\ ApplyPolicy(TRUE)
    /\ UNCHANGED <<envVars, wakeGenSeen>>

UsbChange ==
    /\ stage = "policy" /\ "usb" \in Stimuli
    /\ usb' = ~usb
    /\ UNCHANGED <<energySave, policyActive, graceAge>>
    /\ ApplyPolicy(FALSE)
    /\ UNCHANGED <<envVars, wakeGenSeen, stage>>

\* set_energy_save_mode.  Switched on under USB, the battery policy waits for
\* the grace period.
EnergySaveSwitch ==
    /\ stage = "policy" /\ "energy" \in Stimuli
    /\ energySave' = ~energySave
    /\ policyActive' = (~energySave /\ ~(usb /\ GraceTime > 0))
    /\ graceAge' = IF ~energySave /\ usb /\ GraceTime > 0 THEN 0 ELSE -1
    /\ UNCHANGED usb
    /\ ApplyPolicy(TRUE)
    /\ UNCHANGED <<envVars, wakeGenSeen, stage>>

EnergySaveGrace ==
    /\ stage = "policy" /\ graceAge = GraceTime
    /\ graceAge' = -1 /\ policyActive' = TRUE
    /\ UNCHANGED <<usb, energySave>>
    /\ ApplyPolicy(TRUE)
    /\ UNCHANGED <<envVars, wakeGenSeen, stage>>

\* loop() goes on past the policy; an RT/RH wake re-arms the sniffer first.
StartPass ==
    /\ stage = "policy" /\ stage' = "gate"
    /\ graceAge < GraceTime
    /\ wakeGenSeen' = wake_gen
    /\ IF wake_gen # wakeGenSeen THEN RearmSniffer ELSE UNCHANGED <<cap, edgeAge>>
    /\ UNCHANGED <<vars, phaseVars, policyVars, envVars, watch, capture, exporting>>

-----------------------------------------------------------------------------
(* process_co2_capture_gate_. *)

GatePass ==
    /\ stage = "gate" /\ stage' = "co2"
    /\ UNCHANGED <<policyVars, envVars, wakeGenSeen>>

GateExternal ==
    /\ GatePass /\ External
    /\ IF phase # "Active" \/ co2_powered_down
       THEN SetCo2BusPoweredDown(FALSE) /\ ResetGate
       ELSE UNCHANGED <<vars, phaseVars, snifferVars>>

\* gate_co2_capture_after_window_ once no export is pending.
CloseCapture ==
    /\ requested' = FALSE /\ watch' = FALSE
    /\ SetCaptureEnabled(FALSE)
    /\ phase' = "WaitIdleStable" /\ gateAge' = -1

\* A gate requested during an export waits for it, and nothing else is tried.
GateRequested ==
    /\ GatePass /\ ~External /\ phase = "Active" /\ requested
    /\ IF exporting
       THEN UNCHANGED <<phase, requested, gateAge, watch, capture, cap, edgeAge>>
       ELSE CloseCapture
    /\ UNCHANGED <<vars, obs, activityGen, exporting>>

\* The Active phase: hold the locks of a bus in use; fall back to the wake arm
\* on a bus that has been quiet and dead.  (DeadBusInUse: the dead bus is the
\* one that gets the locks.  NeverQuiet: no fallback.)
DeadBusInUse == ~busLow /\ co2_powered_down
BusInUse == ~busLow /\ ~co2_powered_down

NeverQuiet == FALSE
QuietPowerDown == busLow /\ edgeAge = Quiet

GateActive ==
    /\ GatePass /\ ~External /\ phase = "Active" /\ ~requested
    /\ \/ /\ BusInUse
          /\ SetCo2BusPoweredDown(FALSE)
          /\ UNCHANGED <<phaseVars, snifferVars>>
       \/ /\ QuietPowerDown
          /\ watch' = FALSE
          /\ SetCaptureEnabled(FALSE)
          /\ SetCo2BusPoweredDown(TRUE)
          /\ phase' = "WakeArmed" /\ obs' = 0
          /\ UNCHANGED <<requested, gateAge, activityGen, exporting>>
       \/ /\ ~BusInUse /\ ~QuietPowerDown
          /\ UNCHANGED <<vars, phaseVars, snifferVars>>

GateWaitIdle ==
    /\ GatePass /\ ~External /\ phase = "WaitIdleStable"
    /\ IF ~busLow
       THEN gateAge' = -1 /\ UNCHANGED phase
       ELSE IF gateAge = -1 THEN gateAge' = 0 /\ UNCHANGED phase
       ELSE IF gateAge >= IdleStable THEN gateAge' = 0 /\ phase' = "Guard"
       ELSE UNCHANGED <<gateAge, phase>>
    /\ UNCHANGED <<vars, snifferVars, obs, requested, activityGen>>

GateGuard ==
    /\ GatePass /\ ~External /\ phase = "Guard"
    /\ \/ /\ ~busLow
          /\ phase' = "WaitIdleStable" /\ gateAge' = -1
          /\ UNCHANGED <<vars, obs>>
       \/ /\ busLow /\ gateAge >= GuardTime
          /\ SetCo2BusPoweredDown(TRUE)
          /\ phase' = "WakeArmed" /\ obs' = 0
          /\ UNCHANGED gateAge
       \/ /\ busLow /\ gateAge < GuardTime
          /\ UNCHANGED <<vars, phase, gateAge, obs>>
    /\ UNCHANGED <<snifferVars, requested, activityGen>>

\* The rail is back.  The generation is read before the warm-up is armed; an
\* edge may already be in the re-armed buffer by then, uncounted.
\* (LateSnapshot: the first counted edge is what the comparison starts from.)
LateSnapshot == Bump(co2_activity_gen)
Snapshot == co2_activity_gen

GateWake ==
    /\ GatePass /\ ~External /\ phase = "WakeArmed"
    /\ \/ busLow /\ UNCHANGED <<vars, phaseVars, snifferVars>>
       \/ /\ ~busLow
          /\ capture' = TRUE /\ cap' \in {"empty", "edges"} /\ edgeAge' = 0
          /\ activityGen' = Snapshot /\ UNCHANGED exporting
          /\ \/ /\ BeginCo2Warmup
                /\ watch' = TRUE
                /\ phase' = "Warmup" /\ obs' = 0 /\ requested' = FALSE /\ gateAge' = -1
             \/ /\ BeginCo2WarmupFails
                /\ watch' = FALSE
                /\ phase' = "Active" /\ UNCHANGED <<obs, requested, gateAge>>

GateWarmup ==
    /\ GatePass /\ ~External /\ phase = "Warmup"
    /\ IF co2_activity_gen = activityGen
       THEN UNCHANGED <<vars, phaseVars, snifferVars>>
       ELSE /\ activityGen' = co2_activity_gen
            /\ watch' = FALSE
            /\ PromoteCo2Warmup
            /\ RearmSniffer
            /\ phase' = "Active"
            /\ UNCHANGED <<obs, requested, gateAge, capture, exporting>>

-----------------------------------------------------------------------------
(* process_rtrh_ and process_co2_. *)

RtrhDone ==
    /\ stage = "co2" /\ "rtrh" \in Stimuli
    /\ OnRtrhComplete
    /\ UNCHANGED gateVars

PollPass ==
    /\ stage = "co2" /\ pc = "idle" /\ stage' = "busy"
    /\ UNCHANGED <<policyVars, envVars, wakeGenSeen, activityGen>>

\* Nothing to hand out: capture off, no edge yet, or the last one too fresh.
PollNothing ==
    /\ PollPass
    /\ ~capture \/ cap # "finished"
    /\ UNCHANGED <<vars, snifferVars, phase, obs, requested, gateAge>>

\* A pending export owns the buffer: one more packet, if the network takes it.
PollExport ==
    /\ PollPass
    /\ capture /\ cap = "finished" /\ exporting
    /\ \/ UNCHANGED <<cap, edgeAge, exporting>>
       \/ netUp /\ exporting' = FALSE /\ RearmSniffer
    /\ UNCHANGED <<vars, watch, capture, phase, obs, requested, gateAge>>

\* What a finished capture decodes to: nothing useful, a plausible reading that
\* still awaits confirmation, or an accepted one.
Readings == {"none", "plausible", "accepted"}

Observed(r) == IF r # "none" /\ ~External /\ phase = "Active" /\ obs < 2
               THEN obs + 1 ELSE obs

GateNow(r) == r = "accepted" /\ ~External /\ phase = "Active" /\ Observed(r) >= 2

PollCapture(r, export) ==
    /\ PollPass
    /\ capture /\ (cap = "edges" \/ (cap = "finished" /\ ~exporting))
    /\ exporting' = export
    /\ obs' = Observed(r)
    /\ IF r = "accepted" /\ ValidCo2Counts THEN OnValidCo2 ELSE UNCHANGED vars
    /\ IF GateNow(r) /\ ~export
       THEN CloseCapture
       ELSE /\ requested' = (requested \/ GateNow(r))
            /\ IF export THEN cap' = "finished" /\ UNCHANGED edgeAge ELSE RearmSniffer
            /\ UNCHANGED <<phase, gateAge, watch, capture>>

\* A capture starts an export in a debug build; one in progress goes on with it
\* and may end there.
ExportOutcomes ==
    IF exporting \/ DebugCapture
    THEN {TRUE} \cup IF netUp \/ ~exporting THEN {FALSE} ELSE {}
    ELSE {FALSE}

\* A debug build that has taken an RT/RH capture may have that to export as well.
RtrhExports == IF DebugCapture /\ "rtrh" \in Stimuli THEN BOOLEAN ELSE {FALSE}

MarkTransport ==
    /\ stage = "busy" /\ stage' = "power"
    /\ \E rtrhExport \in RtrhExports : SetTransportBusy(exporting \/ rtrhExport)
    /\ UNCHANGED <<snifferVars, phaseVars, policyVars, envVars, wakeGenSeen>>

-----------------------------------------------------------------------------
(* power_save::loop(), the second half of set_co2_bus_powered_down, and the    *)
(* rest of the world.                                                          *)

PowerReconcile == stage = "power" /\ LoopReconcile /\ UNCHANGED gateVars

PowerWindow ==
    /\ stage = "power" /\ stage' = "policy"
    /\ LoopWindow
    /\ UNCHANGED <<snifferVars, phaseVars, policyVars, envVars, wakeGenSeen>>

FinishBus == ApplyBus /\ UNCHANGED gateVars

RtRhWake == "rtrh" \in Stimuli /\ RtRhEdge /\ UNCHANGED gateVars

NetChange ==
    /\ "netdown" \in Stimuli
    /\ netUp' = ~netUp
    /\ UNCHANGED <<vars, snifferVars, phaseVars, policyVars, busLow, wakeGenSeen, stage>>

Advance(age, max) == IF age = -1 \/ age >= max THEN age ELSE age + 1

GateTick ==
    /\ stage = "policy"
    /\ Tick
    /\ edgeAge' = Advance(edgeAge, Quiet)
    /\ gateAge' = Advance(gateAge, GateAgeMax)
    /\ graceAge' = Advance(graceAge, GraceTime)
    /\ UNCHANGED <<phase, obs, requested, activityGen, wakeGenSeen, watch, capture, cap,
                   exporting, envVars, usb, energySave, policyActive, stage>>

DriversHeal == Heal /\ UNCHANGED gateVars

LoopStep ==
    \/ PowerSetup \/ FirstPolicy \/ EnergySaveGrace \/ StartPass
    \/ GateExternal \/ GateRequested \/ GateActive \/ GateWaitIdle
    \/ GateGuard \/ GateWake \/ GateWarmup
    \/ PollNothing \/ PollExport
    \/ \E r \in Readings : \E export \in ExportOutcomes : PollCapture(r, export)
    \/ MarkTransport \/ PowerReconcile \/ PowerWindow \/ FinishBus

GateNext ==
    \/ LoopStep
    \/ UsbChange
    \/ EnergySaveSwitch
    \/ RtrhDone
    \/ \E low \in BOOLEAN : BusEdge(low)
    \/ RtRhWake
    \/ NetChange
    \/ GateTick
    \/ DriversHeal

GateSpec == GateInit /\ [][GateNext]_allVars

\* loop() is called for ever, a pass is finished once begun, the clock goes on;
\* and an export that keeps trying while the station has an address gets
\* through, or is dropped by the circuit breaker of debug_udp.
GateFairness ==
    /\ WF_allVars(LoopStep) /\ SF_allVars(GateTick)
    /\ SF_allVars(PollExport /\ ~exporting')

GateFairSpec == GateSpec /\ GateFairness

-----------------------------------------------------------------------------
(* What the gate promises. *)

Settled == pc = "idle" /\ stage \notin {"setup", "apply"}

\* On battery the gate and power_save agree on what the bus is doing: the
\* phase that waits for the rail is the one in which the SCL HIGH wake is
\* armed, and the warm-up phase is power_save's warm-up.  The two are separate
\* state machines that are reset by different calls.
PhaseMatchesPower ==
    (Settled /\ ~External) =>
        /\ co2_powered_down <=> phase = "WakeArmed"
        /\ co2_warmup <=> phase = "Warmup"

\* The edge interrupt runs in the two phases that look at the bus and in no
\* other: a sniffer left on through a rail collapse floods the CPU with
\* interrupts, and one left off loses the whole next window.
CaptureFollowsPhase ==
    Settled => /\ capture <=> phase \in {"Active", "Warmup"}
               /\ watch <=> phase = "Warmup"

\* On battery a pass of the gate that finds the bus powered, and does not wait
\* to close the capture, leaves the CO2 lock pair held or about to be taken:
\* the chip does not sleep through the native window.
AwakeAfterGate ==
    (/\ stage = "gate" /\ stage' = "co2" /\ ~External /\ ~faulty
     /\ ~busLow /\ phase' = "Active" /\ ~requested)
    => (~co2_powered_down' /\ (pc' = "bus" \/ FullyHeld(locks', "co2Awake", "co2Cpu")))

NativeWindowAwake == [][AwakeAfterGate]_allVars

\* The locks an edge took in the interrupt are handed over or dropped again.
EdgeHandoffEnds ==
    AnyHeld(locks, "edgeAwake", "edgeCpu") ~> ~AnyHeld(locks, "edgeAwake", "edgeCpu")

\* When the Unni's rail stays down on battery and no more RT/RH wake re-arms the
\* sniffer, the device goes to sleep with the rail's wake armed and no CO2 lock
\* held, whatever phase it was in.
Asleep == /\ phase = "WakeArmed" /\ co2_powered_down /\ gpioWake["scl"] = "high"
          /\ \A h \in {"co2Awake", "co2Cpu", "edgeAwake", "edgeCpu"} : ~Held(locks, h)

SleepsBetweenWindows ==
    <>[](~External /\ busLow) /\ <>[][wake_gen' = wake_gen]_allVars => <>[]Asleep

=============================================================================
