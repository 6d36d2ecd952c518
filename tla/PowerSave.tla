------------------------------ MODULE PowerSave ------------------------------
(***************************************************************************)
(* power_save.cpp: ownership of the eight ESP-IDF power-management locks,  *)
(* the light-sleep wake sources of the CO2 bus and the RT/RH awake window. *)
(*                                                                         *)
(* Two GPIO interrupt handlers (RtRhEdge, Co2Edge) run against the ESPHome *)
(* main task, which calls every other operation.  The firmware has one     *)
(* core: a handler is one step, and so is task code that runs with the     *)
(* handler's interrupt masked, or that commutes with both handlers.  What  *)
(* is left are the two places where a handler can get in between:          *)
(* pc = "bus" (set_co2_bus_powered_down has recorded the new bus state and *)
(* not yet masked the CO2 interrupts) and pc = "window" (loop() has read   *)
(* the clock for the pair retry and not yet looked at lock_held).          *)
(*                                                                         *)
(* Time is counted in ticks of one second.  Every esp_pm_lock call and     *)
(* every gpio_wakeup_enable may fail as long as "faulty" holds.            *)
(***************************************************************************)
EXTENDS Integers

CONSTANTS
    MaxAwake,     \* max_awake_ms, in ticks
    DrainGrace,   \* TRANSPORT_DRAIN_GRACE_MS, in ticks
    RetryPeriod,  \* the 1 s pause between two pair retries, in ticks
    GenMod        \* the generation counters wrap at this value (2^32)

ASSUME PowerSaveAssumption ==
    /\ MaxAwake \in Nat
    /\ DrainGrace \in Nat
    /\ RetryPeriod \in Nat
    /\ GenMod \in Nat \ {0}

VARIABLES
    configured,               \* setup() succeeded: the locks exist
    external_power,
    co2_state_initialized,
    co2_powered_down,
    co2_scl_wakeup_armed,
    co2_warmup_wakeup_armed,
    co2_warmup,
    co2_activity_gen,
    lock_held,                \* the RT/RH awake window is open
    rtrh_complete,
    co2_after_rtrh,
    transport_busy,
    wake_gen,
    locks,                    \* per handle: the driver's flag, esp_pm's count
    gpioWake,                 \* light-sleep wake level of the two CO2 pins
    windowAge,                \* ticks since wake_started_us (saturating)
    retryAge,                 \* ticks since last_pair_retry_us (saturating)
    now_us,                   \* loop()'s clock reading: see LoopReconcile
    pc,
    faulty

co2Vars    == <<co2_state_initialized, co2_powered_down, co2_warmup>>
wakeVars   == <<co2_scl_wakeup_armed, co2_warmup_wakeup_armed, gpioWake>>
windowVars == <<lock_held, rtrh_complete, co2_after_rtrh, windowAge>>
genVars    == <<co2_activity_gen, wake_gen>>
loopVars   == <<retryAge, now_us, pc>>
modeVars   == <<configured, external_power, transport_busy, faulty>>
vars == <<co2Vars, wakeVars, windowVars, genVars, loopVars, modeVars, locks>>

-----------------------------------------------------------------------------
(* The lock handles and what esp_pm does with them. *)

Handles == {"awake", "cpu", "usbAwake", "usbCpu",
            "co2Awake", "co2Cpu", "edgeAwake", "edgeCpu"}

Free == [held |-> FALSE, count |-> 0]

Held(l, h) == l[h].held
FullyHeld(l, s, c) == Held(l, s) /\ Held(l, c)
AnyHeld(l, s, c) == Held(l, s) \/ Held(l, c)

\* A successful esp_pm_lock_acquire / esp_pm_lock_release with its flag.
Acquired(l, h) == [l EXCEPT ![h] = [held |-> TRUE, count |-> l[h].count + 1]]
Released(l, h) == [l EXCEPT ![h] = [held |-> FALSE, count |-> l[h].count - 1]]

\* Every handle of H that is held is released; under faults any of the calls
\* may fail and leaves its flag set.
ReleaseOutcomes(l, H) ==
    LET owned == {h \in H : Held(l, h)} IN
    { [h \in Handles |-> IF h \in R THEN Released(l, h)[h] ELSE l[h]] :
          R \in IF faulty THEN SUBSET owned ELSE {owned} }

\* PmLockPair::acquire: the sleep handle first; when the CPU handle then
\* fails, a sleep handle taken in this very call is given back, if that works.
AcquireOutcomes(l, s, c) ==
    LET afterSleep == IF Held(l, s) THEN l ELSE Acquired(l, s)
        both       == IF Held(l, c) THEN afterSleep ELSE Acquired(afterSleep, c)
    IN  {both} \cup IF ~faulty THEN {}
                    ELSE {l} \cup IF Held(l, c) THEN {} ELSE {afterSleep}

-----------------------------------------------------------------------------
TypeOK ==
    /\ configured \in BOOLEAN /\ external_power \in BOOLEAN
    /\ co2_state_initialized \in BOOLEAN /\ co2_powered_down \in BOOLEAN
    /\ co2_scl_wakeup_armed \in BOOLEAN /\ co2_warmup_wakeup_armed \in BOOLEAN
    /\ co2_warmup \in BOOLEAN /\ lock_held \in BOOLEAN
    /\ rtrh_complete \in BOOLEAN /\ co2_after_rtrh \in BOOLEAN
    /\ transport_busy \in BOOLEAN /\ faulty \in BOOLEAN
    /\ co2_activity_gen \in 0 .. GenMod - 1
    /\ wake_gen \in 0 .. GenMod - 1
    /\ locks \in [Handles -> [held : BOOLEAN, count : Int]]
    /\ gpioWake \in [{"sda", "scl"} -> {"off", "low", "high"}]
    /\ windowAge \in 0 .. MaxAwake + DrainGrace
    /\ retryAge \in 0 .. RetryPeriod
    /\ now_us \in {"none", "taken", "wrapped"}
    /\ pc \in {"idle", "bus", "window"}

\* The static initialisers of the file; a retry is due at once.
Init ==
    /\ configured = FALSE /\ external_power = FALSE
    /\ co2_state_initialized = FALSE /\ co2_powered_down = FALSE
    /\ co2_scl_wakeup_armed = FALSE /\ co2_warmup_wakeup_armed = FALSE
    /\ co2_warmup = FALSE /\ lock_held = FALSE
    /\ rtrh_complete = FALSE /\ co2_after_rtrh = FALSE
    /\ transport_busy = FALSE
    /\ co2_activity_gen = 0 /\ wake_gen = 0
    /\ locks = [h \in Handles |-> Free]
    /\ gpioWake = [p \in {"sda", "scl"} |-> "off"]
    /\ windowAge = 0 /\ retryAge = RetryPeriod
    /\ now_us = "none" /\ pc = "idle"
    /\ faulty \in BOOLEAN

-----------------------------------------------------------------------------
(* The interrupt handlers. *)

\* ++ on a generation counter.
Bump(gen) == IF gen = GenMod - 1 THEN 0 ELSE gen + 1

OpenWindow(complete) ==
    /\ lock_held' = TRUE
    /\ windowAge' = 0
    /\ rtrh_complete' = complete
    /\ co2_after_rtrh' = complete
    /\ now_us' = IF now_us = "taken" THEN "wrapped" ELSE now_us

\* First RT/RH edge: take both locks.  If the CPU lock fails and the rollback
\* fails as well, the window is kept open, already complete, so that loop()
\* retries the release.
RtRhEdge ==
    /\ configured /\ ~external_power /\ ~lock_held
    /\ LET one == Acquired(locks, "awake") IN
       \/ /\ locks' = Acquired(one, "cpu")
          /\ OpenWindow(FALSE)
          /\ wake_gen' = Bump(wake_gen)
       \/ /\ faulty
          /\ locks' = one
          /\ OpenWindow(TRUE)
          /\ UNCHANGED wake_gen
    /\ UNCHANGED <<co2Vars, wakeVars, modeVars, co2_activity_gen, retryAge, pc>>

\* First CO2 edge of a warm-up: take the two hand-off locks.  A failed
\* acquire that could be rolled back leaves everything as it was.
Co2EdgeCounts ==
    /\ configured /\ ~external_power /\ co2_warmup
    /\ ~AnyHeld(locks, "edgeAwake", "edgeCpu")

Co2Edge ==
    /\ Co2EdgeCounts
    /\ LET one == Acquired(locks, "edgeAwake") IN
       \/ locks' = Acquired(one, "edgeCpu")
       \/ faulty /\ locks' = one
    /\ co2_activity_gen' = Bump(co2_activity_gen)
    /\ UNCHANGED <<co2Vars, wakeVars, windowVars, loopVars, modeVars, wake_gen>>

-----------------------------------------------------------------------------
(* Task context. *)

Setup ==
    /\ pc = "idle" /\ ~configured
    /\ configured' = TRUE
    /\ UNCHANGED <<co2Vars, wakeVars, windowVars, genVars, loopVars, locks,
                   external_power, transport_busy, faulty>>

\* disable_co2_warmup_wakeup_: the wake levels after it.  (SdaWakeOff: it
\* forgets the second pin.)
SdaWakeOff == IF co2_warmup_wakeup_armed THEN [gpioWake EXCEPT !["sda"] = "off"] ELSE gpioWake
WarmupWakeOff == [p \in {"sda", "scl"} |->
                     IF co2_warmup_wakeup_armed THEN "off" ELSE gpioWake[p]]

\* Both wake sources of the CO2 pins off, as far as they were armed.
AllWakeOff ==
    /\ co2_scl_wakeup_armed' = FALSE
    /\ co2_warmup_wakeup_armed' = FALSE
    /\ gpioWake' = IF co2_scl_wakeup_armed
                   THEN [WarmupWakeOff EXCEPT !["scl"] = "off"] ELSE WarmupWakeOff

\* USB takes over: no CO2 wake source, no warm-up, a forgotten bus state.
UsbDropsCo2 ==
    /\ AllWakeOff
    /\ co2_warmup' = FALSE
    /\ co2_powered_down' = FALSE
    /\ co2_state_initialized' = FALSE

SetExternalPower(present) ==
    /\ pc = "idle"
    /\ external_power' = present
    /\ \/ /\ present
          /\ UsbDropsCo2
          /\ \E l1 \in ReleaseOutcomes(locks, {"edgeAwake", "edgeCpu"}) :
             \E l2 \in ReleaseOutcomes(l1, {"co2Awake", "co2Cpu"}) :
                IF configured
                THEN locks' \in AcquireOutcomes(l2, "usbAwake", "usbCpu")
                ELSE locks' = l2
       \/ /\ ~present
          /\ locks' \in ReleaseOutcomes(locks, {"usbAwake", "usbCpu"})
          /\ UNCHANGED <<co2Vars, wakeVars>>
    /\ UNCHANGED <<windowVars, genVars, loopVars, configured, transport_busy, faulty>>

\* set_co2_bus_powered_down(pd) up to the masking of the CO2 interrupts.
EnterBus(pd) ==
    LET settled == IF pd THEN ~AnyHeld(locks, "co2Awake", "co2Cpu")
                         ELSE FullyHeld(locks, "co2Awake", "co2Cpu")
        nothingToDo == /\ co2_state_initialized /\ pd = co2_powered_down
                       /\ ~co2_warmup /\ settled
    IN  IF nothingToDo
        THEN UNCHANGED <<co2_state_initialized, co2_powered_down, pc>>
        ELSE /\ co2_state_initialized' = TRUE
             /\ co2_powered_down' = pd
             /\ pc' = "bus"

SetCo2BusPoweredDown(pd) ==
    /\ pc = "idle" /\ configured
    /\ \/ /\ external_power
          /\ UsbDropsCo2
          /\ \E l1 \in ReleaseOutcomes(locks, {"edgeAwake", "edgeCpu"}) :
                locks' \in ReleaseOutcomes(l1, {"co2Awake", "co2Cpu"})
          /\ UNCHANGED pc
       \/ /\ ~external_power
          /\ EnterBus(pd)
          /\ UNCHANGED <<wakeVars, co2_warmup, locks>>
    /\ UNCHANGED <<windowVars, genVars, modeVars, retryAge, now_us>>

\* A finished RT/RH measurement has nothing left to wait for once the bus is
\* dead.  (StillAwaited: the bus call leaves the window to on_rtrh_complete.)
StillAwaited == co2_after_rtrh
NothingToAwait == co2_after_rtrh \/ (lock_held /\ rtrh_complete)

\* The masked part and what follows it: leave the warm-up, drop the hand-off
\* locks, then either release the CO2 pair and arm the SCL HIGH wake, or
\* disarm it and take the CO2 pair.
ApplyBus ==
    /\ pc = "bus"
    /\ pc' = "idle"
    /\ co2_warmup' = FALSE
    /\ co2_warmup_wakeup_armed' = FALSE
    /\ \E l1 \in ReleaseOutcomes(locks, {"edgeAwake", "edgeCpu"}) :
       \/ /\ co2_powered_down
          /\ locks' \in ReleaseOutcomes(l1, {"co2Awake", "co2Cpu"})
          /\ \/ /\ gpioWake' = [WarmupWakeOff EXCEPT !["scl"] = "high"]
                /\ co2_scl_wakeup_armed' = TRUE
             \/ /\ faulty
                /\ gpioWake' = WarmupWakeOff
                /\ UNCHANGED co2_scl_wakeup_armed
          /\ co2_after_rtrh' = NothingToAwait
       \/ /\ ~co2_powered_down
          /\ gpioWake' = IF co2_scl_wakeup_armed
                         THEN [WarmupWakeOff EXCEPT !["scl"] = "off"] ELSE WarmupWakeOff
          /\ co2_scl_wakeup_armed' = FALSE
          /\ locks' \in AcquireOutcomes(l1, "co2Awake", "co2Cpu")
          /\ UNCHANGED co2_after_rtrh
    /\ UNCHANGED <<co2_state_initialized, co2_powered_down, lock_held, rtrh_complete,
                   windowAge, genVars, modeVars, retryAge, now_us>>

\* begin_co2_warmup on battery: SDA/SCL LOW wake, CO2 pair released, light
\* sleep allowed again.
BeginCo2Warmup ==
    /\ pc = "idle" /\ configured /\ ~external_power
    /\ co2_scl_wakeup_armed' = FALSE
    /\ co2_warmup_wakeup_armed' = TRUE
    /\ gpioWake' = [p \in {"sda", "scl"} |-> "low"]
    /\ co2_powered_down' = FALSE
    /\ co2_state_initialized' = TRUE
    /\ locks' \in ReleaseOutcomes(locks, {"co2Awake", "co2Cpu"})
    /\ co2_warmup' = TRUE
    /\ UNCHANGED <<windowVars, genVars, loopVars, modeVars>>

\* The wake arm failed: both pins off, and set_co2_bus_powered_down(false).
BeginCo2WarmupFails ==
    /\ pc = "idle" /\ configured /\ ~external_power /\ faulty
    /\ co2_scl_wakeup_armed' = FALSE
    /\ co2_warmup_wakeup_armed' = FALSE
    /\ gpioWake' = [p \in {"sda", "scl"} |-> "off"]
    /\ EnterBus(FALSE)
    /\ UNCHANGED <<co2_warmup, locks, windowVars, genVars, modeVars, retryAge, now_us>>

\* release_co2_edge_handoff_task_ where the CO2 pair must be complete first.
\* (HandoffTooEarly: it is not waited for.  HandoffForgotten: never released.)
HandoffTooEarly(l)  == ReleaseOutcomes(l, {"edgeAwake", "edgeCpu"})
HandoffForgotten(l) == {l}
HandoffReleased(l)  ==
    IF FullyHeld(l, "co2Awake", "co2Cpu")
    THEN ReleaseOutcomes(l, {"edgeAwake", "edgeCpu"}) ELSE {l}

\* Hand the hold over from the interrupt's pair to the task's pair; the
\* interrupt's pair is kept when the task's could not be taken.
PromoteCo2Warmup ==
    /\ pc = "idle" /\ configured /\ ~external_power /\ co2_warmup
    /\ co2_warmup' = FALSE
    /\ co2_warmup_wakeup_armed' = FALSE
    /\ gpioWake' = WarmupWakeOff
    /\ \E l1 \in AcquireOutcomes(locks, "co2Awake", "co2Cpu") :
          locks' \in HandoffReleased(l1)
    /\ UNCHANGED <<co2_state_initialized, co2_powered_down, co2_scl_wakeup_armed,
                   windowVars, genVars, loopVars, modeVars>>

OnRtrhComplete ==
    /\ pc = "idle" /\ configured /\ lock_held
    /\ rtrh_complete' = TRUE
    /\ co2_after_rtrh' = \/ co2_after_rtrh
                         \/ co2_powered_down \/ co2_warmup
                         \/ FullyHeld(locks, "co2Awake", "co2Cpu")
    /\ UNCHANGED <<co2Vars, wakeVars, genVars, loopVars, modeVars, locks, lock_held, windowAge>>

\* A valid CO2 frame counts once the RT/RH part of the window is complete.
ValidCo2Counts == configured /\ lock_held /\ rtrh_complete

OnValidCo2 ==
    /\ pc = "idle" /\ ValidCo2Counts
    /\ co2_after_rtrh' = TRUE
    /\ UNCHANGED <<co2Vars, wakeVars, genVars, loopVars, modeVars, locks,
                   lock_held, rtrh_complete, windowAge>>

SetTransportBusy(busy) ==
    /\ pc = "idle"
    /\ transport_busy' = busy
    /\ UNCHANGED <<co2Vars, wakeVars, windowVars, genVars, loopVars, locks,
                   configured, external_power, faulty>>

-----------------------------------------------------------------------------
(* loop(). *)

\* Which locks the policy in force wants, and does not have.
UsbLacksLocks     == external_power /\ ~FullyHeld(locks, "usbAwake", "usbCpu")
BatteryHoldsUsb   == ~external_power /\ AnyHeld(locks, "usbAwake", "usbCpu")
Co2ShouldBeFree   == \/ external_power
                     \/ co2_state_initialized /\ (co2_powered_down \/ co2_warmup)
Co2ShouldBeHeld   == /\ ~external_power /\ co2_state_initialized
                     /\ ~co2_powered_down /\ ~co2_warmup
Co2HeldTooLong    == Co2ShouldBeFree /\ AnyHeld(locks, "co2Awake", "co2Cpu")
Co2LacksLocks     == Co2ShouldBeHeld /\ ~FullyHeld(locks, "co2Awake", "co2Cpu")

PairRetryNeeded ==
    UsbLacksLocks \/ BatteryHoldsUsb \/ Co2HeldTooLong \/ Co2LacksLocks

RetryUsb(l) ==
    IF UsbLacksLocks THEN AcquireOutcomes(l, "usbAwake", "usbCpu")
    ELSE IF BatteryHoldsUsb THEN ReleaseOutcomes(l, {"usbAwake", "usbCpu"})
    ELSE {l}

\* (RetryCo2Acquire: a pair held too long is never given back.)
RetryCo2Acquire(l) ==
    IF Co2LacksLocks THEN AcquireOutcomes(l, "co2Awake", "co2Cpu") ELSE {l}

RetryCo2(l) ==
    IF Co2HeldTooLong THEN ReleaseOutcomes(l, {"co2Awake", "co2Cpu"})
    ELSE IF Co2LacksLocks THEN AcquireOutcomes(l, "co2Awake", "co2Cpu")
    ELSE {l}

\* A left-over hand-off pair is dropped once the CO2 pair is complete.
DropHandoff(l) == IF co2_warmup THEN {l} ELSE HandoffReleased(l)

\* The first half of loop().  The clock is read here when a retry is needed;
\* that reading ("taken") also serves the second half.
LoopReconcile ==
    LET due == PairRetryNeeded /\ retryAge = RetryPeriod IN
    /\ pc = "idle" /\ configured
    /\ now_us' = IF PairRetryNeeded THEN "taken" ELSE "none"
    /\ retryAge' = IF due THEN 0 ELSE retryAge
    /\ \E l1 \in (IF due THEN RetryUsb(locks) ELSE {locks}) :
       \E l2 \in (IF due THEN RetryCo2(l1) ELSE {l1}) :
          locks' \in DropHandoff(l2)
    /\ pc' = "window"
    /\ UNCHANGED <<co2Vars, wakeVars, windowVars, genVars, modeVars>>

\* now_us - wake_started_us in unsigned arithmetic: a reading older than the
\* window wraps to a huge value.
Elapsed == IF now_us = "wrapped" THEN MaxAwake + DrainGrace ELSE windowAge

WindowComplete == rtrh_complete /\ co2_after_rtrh

\* (HeldByTransport: a busy transport has no deadline.)
HeldByTransport ==
    /\ lock_held
    /\ WindowComplete \/ Elapsed >= MaxAwake
    /\ ~transport_busy

WindowMayClose ==
    /\ lock_held
    /\ WindowComplete \/ Elapsed >= MaxAwake
    /\ ~transport_busy \/ Elapsed >= MaxAwake + DrainGrace

\* The window counts as closed once neither handle is owned any more.
CloseWindow(l) ==
    IF AnyHeld(l, "awake", "cpu")
    THEN UNCHANGED <<lock_held, rtrh_complete, co2_after_rtrh>>
    ELSE lock_held' = FALSE /\ rtrh_complete' = FALSE /\ co2_after_rtrh' = FALSE

LoopWindow ==
    /\ pc = "window"
    /\ pc' = "idle"
    /\ now_us' = "none"
    /\ IF WindowMayClose
       THEN /\ locks' \in ReleaseOutcomes(locks, {"awake", "cpu"})
            /\ CloseWindow(locks')
       ELSE UNCHANGED <<locks, lock_held, rtrh_complete, co2_after_rtrh>>
    /\ UNCHANGED <<co2Vars, wakeVars, genVars, modeVars, windowAge, retryAge>>

-----------------------------------------------------------------------------
(* The environment: time passes, and one day the drivers stop failing. *)

Tick ==
    /\ pc = "idle"
    /\ windowAge' = IF windowAge < MaxAwake + DrainGrace THEN windowAge + 1 ELSE windowAge
    /\ retryAge' = IF retryAge < RetryPeriod THEN retryAge + 1 ELSE retryAge
    /\ UNCHANGED <<co2Vars, wakeVars, genVars, modeVars, locks, now_us, pc,
                   lock_held, rtrh_complete, co2_after_rtrh>>

Heal ==
    /\ faulty /\ faulty' = FALSE
    /\ UNCHANGED <<co2Vars, wakeVars, windowVars, genVars, loopVars, locks,
                   configured, external_power, transport_busy>>

Next ==
    \/ RtRhEdge
    \/ Co2Edge
    \/ Setup
    \/ \E present \in BOOLEAN : SetExternalPower(present)
    \/ \E pd \in BOOLEAN : SetCo2BusPoweredDown(pd)
    \/ ApplyBus
    \/ BeginCo2Warmup
    \/ BeginCo2WarmupFails
    \/ PromoteCo2Warmup
    \/ OnRtrhComplete
    \/ OnValidCo2
    \/ \E busy \in BOOLEAN : SetTransportBusy(busy)
    \/ LoopReconcile
    \/ LoopWindow
    \/ Tick
    \/ Heal

Spec == Init /\ [][Next]_vars

\* Every pass of the ESPHome main loop ends in power_save::loop(), whatever
\* else the pass called, and the clock never stops: strong fairness.  A call
\* once begun is finished, and the drivers recover: weak fairness.
Fairness ==
    /\ SF_vars(LoopReconcile) /\ SF_vars(Tick)
    /\ WF_vars(LoopWindow) /\ WF_vars(ApplyBus) /\ WF_vars(Heal)

FairSpec == Spec /\ Fairness

-----------------------------------------------------------------------------
(* What a correct power manager promises. *)

\* esp_pm counts every acquire, and only an equal number of releases lets the
\* chip sleep: at any moment the driver's per-handle flag and the count agree,
\* so no handle is ever taken twice or given back twice, whatever fails and
\* whichever handler interrupts the task.
OwnershipExact ==
    \A h \in Handles : locks[h].count = IF locks[h].held THEN 1 ELSE 0

\* The RT/RH window is never reported closed while one of its two handles is
\* still owned: the next edge would then take that handle recursively.
NeverFalselyUnlocked ==
    ~lock_held => ~AnyHeld(locks, "awake", "cpu")

\* A warm-up lets the chip sleep, so it always has both pins armed LOW: the
\* first bus edge can wake it.  The other way round, SCL HIGH stays armed only
\* for a bus that is recorded as powered down: a powered bus idles HIGH and
\* would fire a level wake for ever.
WakeMatchesBusState ==
    pc = "idle" =>
        /\ co2_warmup => \A p \in {"sda", "scl"} : gpioWake[p] = "low"
        /\ gpioWake["scl"] = "high" => co2_powered_down
        /\ \A p \in {"sda", "scl"} : gpioWake[p] = "low" => co2_warmup

\* An RT/RH window whose measurement is complete never waits for a CO2 frame
\* from a bus that is known to be powered down: whichever of the two comes
\* first, set_co2_bus_powered_down or on_rtrh_complete, the other one settles it.
DeadBusNotAwaited ==
    (pc # "bus" /\ lock_held /\ rtrh_complete /\ co2_powered_down) => co2_after_rtrh

\* Under USB policy nothing of the CO2 battery machinery is left armed.
UsbIsQuiescent ==
    external_power => /\ ~co2_warmup /\ ~co2_powered_down
                      /\ \A p \in {"sda", "scl"} : gpioWake[p] = "off"

\* With drivers that do not fail, the locks esp_pm counts between two calls are
\* exactly those the policy wants: the window's pair while a window is open,
\* the CO2 pair while the bus is active, the interrupt's pair in a warm-up
\* only, the USB pair under USB only.  A battery device between two windows
\* therefore holds nothing and sleeps.
LocksMatchPolicy ==
    LET taken == {h \in Handles : locks[h].count > 0} IN
    (~faulty /\ configured /\ pc = "idle") =>
        /\ taken \cap {"awake", "cpu"} = IF lock_held THEN {"awake", "cpu"} ELSE {}
        /\ taken \cap {"co2Awake", "co2Cpu"}
               = IF Co2ShouldBeHeld THEN {"co2Awake", "co2Cpu"} ELSE {}
        /\ taken \cap {"edgeAwake", "edgeCpu"}
               \in IF co2_warmup THEN {{}, {"edgeAwake", "edgeCpu"}} ELSE {{}}
        /\ ~external_power => taken \cap {"usbAwake", "usbCpu"} = {}

\* promote_co2_warmup never opens a gap: when it takes over from an edge that
\* already blocks light sleep, light sleep is still blocked after it, by the
\* task's lock or by the interrupt's.
KeepsAwake ==
    (/\ pc = "idle" /\ pc' = "idle"
     /\ co2_warmup /\ ~co2_warmup' /\ ~external_power'
     /\ locks["edgeAwake"].count > 0)
    => (locks'["co2Awake"].count > 0 \/ locks'["edgeAwake"].count > 0)

PromotionKeepsAwake == [][KeepsAwake]_vars

\* What docs/ISR_ARCHITECTURE.md:560-562 says: "The lock is released only from
\* normal task context after RT/RH completion plus a subsequent valid CO2 frame, or
\* the failsafe timeout."  The code does not keep it: a window that an edge opens
\* between loop()'s two uses of one clock reading looks endlessly old and is
\* closed at once, in the middle of the waveform.
ClosedForCause == lock_held /\ ~lock_held' => WindowComplete \/ windowAge >= MaxAwake

WindowEndsForCause == [][ClosedForCause]_vars

\* No collector, lost completion or failed release keeps the chip awake for
\* ever: every RT/RH window is closed in the end.
WindowCloses == lock_held ~> ~lock_held

\* Lock pairs that disagree with the policy in force do not stay so: the drivers
\* having recovered, a moment comes at which no pair needs a retry.
PairsReconciled == (configured /\ PairRetryNeeded) ~> ~PairRetryNeeded

=============================================================================
