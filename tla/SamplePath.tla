----------------------------- MODULE SamplePath -----------------------------
(* From a decoded measurement to its consumers: process_co2_ with the         *)
(* confirmation of suspect readings, the active probe, process_rtrh_, the     *)
(* shared sample of BridgeCore, and what Home Assistant is told when.         *)
(*                                                                            *)
(* All of it runs in the main loop; what interleaves is the order in which    *)
(* captures, measurements, external sensors, USB, Wi-Fi and the clock come.   *)
(* A CO2 reading is a number in the unit of MaxDelta.  Of Home Assistant's    *)
(* cached values three are kept: CO2, the temperature (humidity and the two   *)
(* display views follow the same code) and the air temperature, which is      *)
(* missing outside its validated range.                                       *)
EXTENDS BridgeCore

CONSTANTS
    Ppm,                   \* the readings a CRC-valid frame may carry
    MinPlausible,          \* CO2_MIN_PLAUSIBLE_PPM
    MaxDelta,              \* CO2_CONFIRM_MAX_DELTA_PPM
    Interval,              \* ha_.interval_ms, in ticks
    ProbeWait              \* the measurement period after an own 21B1, in ticks

ASSUME SampleAssumption ==
    /\ Ppm \subseteq Nat /\ MinPlausible \in Nat /\ MaxDelta \in Nat
    /\ Interval \in Nat \ {0} /\ ProbeWait \in Nat

Keys == {"co2", "temperature", "air"}

VARIABLES
    required, candidate,   \* co2_.confirmation_required, confirmation_candidate_ppm
    external, wifi,        \* external_powered_(), wifi_ha_enabled_
    have,                  \* ha_.have_*
    initial,               \* ha_.initial_*_published
    unseen,                \* the cached values Home Assistant has not been given
    publishAge,            \* ticks since ha_.last_publish_ms, None for never
    probe,                 \* ticks to active_i2c_probe_due_ms_, None in phase Idle
    suspect, last          \* history: a disturbance not yet lived down by two
                           \* readings, and the last plausible reading after it

haVars == <<have, initial, unseen, publishAge>>
co2Vars == <<required, candidate, suspect, last>>
envVars == <<external, wifi>>
sampleVars == <<coreVars, haVars, co2Vars, envVars, probe>>

SampleInit ==
    /\ CoreInit
    /\ required = FALSE /\ candidate = None /\ suspect = FALSE /\ last = None
    /\ external \in BOOLEAN /\ wifi \in BOOLEAN
    /\ have = {} /\ initial = {} /\ unseen = {}
    /\ publishAge = (IF external THEN None ELSE 0)
    /\ probe = None

-----------------------------------------------------------------------------
(* Home Assistant. *)

\* A fresh value for each key of fresh enters the cache; those of shown are
\* published at once, and those of first are from then on repeated.
Cache(fresh, shown, first) ==
    /\ have' = have \cup fresh
    /\ initial' = first
    /\ unseen' = (unseen \cup fresh) \ shown
    /\ publishAge' = IF shown = {} THEN publishAge ELSE 0

\* publish_cached_ha_now_.  (CachedKept: nothing is shown.)
CachedKept == UNCHANGED haVars
PublishCached == Cache({}, have, initial \cup have)

\* maybe_publish_ha_.
Due == wifi /\ ~external /\ (publishAge = None \/ publishAge >= Interval)

MaybePublish ==
    /\ Due
    /\ Cache({}, have \cap initial, initial)
    /\ UNCHANGED <<coreVars, co2Vars, envVars, probe>>

\* apply_power_policy_: on USB the cache is shown, on battery the throttle starts.
ApplyPolicy(ext) ==
    /\ external' = ext
    /\ IF ext THEN PublishCached
       ELSE publishAge' = 0 /\ UNCHANGED <<have, initial, unseen>>

\* USB or Energy Save Mode changes the policy; a switch of Energy Save Mode that
\* does not change it applies it again.
PolicyChange == ApplyPolicy(~external) /\ UNCHANGED <<coreVars, co2Vars, wifi, probe>>
PolicyAgain == ApplyPolicy(external) /\ UNCHANGED <<coreVars, co2Vars, wifi, probe>>

\* set_wifi_ha_enabled and sync_wifi_ha_from_sensirion_settings_.
SwitchWifi ==
    /\ wifi' = ~wifi
    /\ IF wifi THEN UNCHANGED haVars ELSE PublishCached
    /\ UNCHANGED <<coreVars, co2Vars, external, probe>>

-----------------------------------------------------------------------------
(* CO2. *)

\* accept_co2_ppm_: on USB and from the probe a reading is published at once, on
\* battery only the first one is, unless it is the same as the last.
Accept(ppm, fromProbe) ==
    LET shown == \/ external \/ fromProbe
                 \/ "co2" \notin initial /\ ppm # co2 IN
    /\ PublishCo2(ppm)
    /\ Cache({"co2"}, IF shown THEN {"co2"} ELSE {},
             IF shown THEN initial \cup {"co2"} ELSE initial)

\* |a - b| <= MaxDelta
Agree(a, b) == a <= b + MaxDelta /\ b <= a + MaxDelta

\* What is left of the candidate when a capture has errors.  (ErrorKeeps: it
\* survives.)
ErrorKeeps(c) == c
ErrorDrops(c) == None

\* process_co2_ for a capture with or without errors and with or without a
\* CRC-valid reading.  A capture with both makes its own reading suspect.
Capture(errors, ppm) ==
    LET req   == required \/ errors
        cand  == IF errors THEN ErrorDrops(candidate) ELSE candidate
        doubt == suspect \/ errors
        prev  == IF errors THEN None ELSE last IN
    /\ UNCHANGED <<envVars, probe>>
    /\ \/ /\ ppm = None
          /\ required' = req /\ candidate' = cand /\ suspect' = doubt /\ last' = prev
          /\ UNCHANGED <<coreVars, haVars>>
       \/ /\ ppm \in Ppm /\ ppm < MinPlausible
          /\ required' = TRUE /\ candidate' = None /\ suspect' = TRUE /\ last' = None
          /\ UNCHANGED <<coreVars, haVars>>
       \/ /\ ppm \in Ppm /\ ppm >= MinPlausible
          /\ last' = ppm
          /\ suspect' = (doubt /\ ~(prev # None /\ Agree(ppm, prev)))
          /\ IF req /\ (cand = None \/ ~Agree(ppm, cand))
             THEN required' = TRUE /\ candidate' = ppm /\ UNCHANGED <<coreVars, haVars>>
             ELSE /\ required' = FALSE /\ candidate' = None
                  /\ Accept(ppm, FALSE)

Co2Capture ==
    \E errors \in BOOLEAN, ppm \in Ppm \cup {None} : Capture(errors, ppm)

-----------------------------------------------------------------------------
(* process_active_i2c_probe_: a diagnostic that reads the sensor itself, on    *)
(* battery and over a bus that is LOW on both lines.                          *)

ProbeStops ==
    /\ probe # None /\ probe' = None       \* USB, or the native bus is awake
    /\ UNCHANGED <<coreVars, haVars, co2Vars, envVars>>

\* The direct read: a plausible reading is accepted without confirmation.
ProbeRead ==
    /\ ~external /\ probe \in {None, 0} /\ probe' = None
    /\ \E ppm \in {p \in Ppm : p >= MinPlausible} : Accept(ppm, TRUE)
    /\ UNCHANGED <<co2Vars, envVars>>

\* No slave answers EC05, but 21B1 is acknowledged.
ProbeStarts ==
    /\ ~external /\ probe = None /\ probe' = ProbeWait
    /\ UNCHANGED <<coreVars, haVars, co2Vars, envVars>>

-----------------------------------------------------------------------------
(* process_rtrh_. *)

\* What a temperature with or without an air view shows at once, and what has
\* been shown for the first time after it.  On USB a missing air view is
\* forgotten as never shown.
Views(air) == IF air THEN {"temperature", "air"} ELSE {"temperature"}

CacheTemperature(air) ==
    IF external
    THEN Cache(Views(air), Views(air), (initial \ {"air"}) \cup Views(air))
    ELSE Cache(Views(air), Views(air) \ initial, initial \cup Views(air))

RtrhValid(air) ==
    /\ WritePair /\ UNCHANGED <<co2, timer>>
    /\ CacheTemperature(air)
    /\ UNCHANGED <<co2Vars, envVars, probe>>

\* A reject that is local to the humidity keeps its temperature, once an
\* accepted measurement is there to compare it with; BLE is not told.
\* (have_last_accepted_ratio is set wherever a temperature is cached.  A build with
\* rtrh_decode_only sets it without one, but passes on nothing: __init__.py:412.)
RtrhRetained(air) ==
    /\ "temperature" \in have
    /\ CacheTemperature(air)
    /\ UNCHANGED <<coreVars, co2Vars, envVars, probe>>

-----------------------------------------------------------------------------
(* External sensors, the coalescing timer and the clock. *)

ExternalReport ==
    /\ \E s \in Sources, valid \in BOOLEAN : NoteExternal(s, valid)
    /\ UNCHANGED <<haVars, co2Vars, envVars, probe>>

ExternalCommit == CommitExternal /\ UNCHANGED <<haVars, co2Vars, envVars, probe>>

SampleTick ==
    /\ CoreTick
    /\ publishAge' = (IF publishAge \in {None, Interval} THEN publishAge ELSE publishAge + 1)
    /\ probe' = (IF probe \in {None, 0} THEN probe ELSE probe - 1)
    /\ UNCHANGED <<co2, complete, pending, reported, have, initial, unseen, co2Vars, envVars>>

SampleNext ==
    \/ MaybePublish \/ PolicyChange \/ PolicyAgain \/ SwitchWifi
    \/ Co2Capture
    \/ ProbeStops \/ ProbeRead \/ ProbeStarts
    \/ \E air \in BOOLEAN : RtrhValid(air) \/ RtrhRetained(air)
    \/ ExternalReport \/ ExternalCommit
    \/ SampleTick

SampleSpec == SampleInit /\ [][SampleNext]_sampleVars

\* loop() runs for ever and the clock goes on, whatever comes in between.
SampleFairSpec ==
    SampleSpec /\ WF_sampleVars(MaybePublish) /\ WF_sampleVars(SampleTick)

-----------------------------------------------------------------------------
(* What the path promises. *)

\* A disturbed capture or an implausible reading puts the passive path under
\* suspicion: no reading of it reaches BLE, the history or Home Assistant until
\* two plausible ones in a row, with no disturbance between them, agree.  The
\* code keeps one flag and one candidate that four branches write.
AcceptsConfirmed ==
    Co2Capture /\ co2' # co2 => ~suspect'

GlitchesConfirmed == [][AcceptsConfirmed]_sampleVars

\* An external pair is committed only when both sources have reported since the
\* pair was last written and the newest word of each is a valid value: no pair
\* of a good value and a sensor that has failed since.
CommitsNewest ==
    timer = 0 /\ timer' = Off /\ reported # Nothing /\ reported' = Nothing
        => \A s \in Sources : reported[s] = "valid"

NewestPairCommitted == [][CommitsNewest]_sampleVars

\* Home Assistant catches up: while Wi-Fi is on or the device is on USB there is
\* always another moment at which it has been given every cached value, however
\* often measurements come and USB comes and goes.  Two things can put that off
\* for ever, since both restart the throttle that all the values share: Energy
\* Save Mode switched again and again, and an active probe with an interval
\* shorter than Home Assistant's.
HaCatchesUp ==
    <>[](wifi \/ external) /\ <>[][~PolicyAgain /\ ~ProbeRead]_sampleVars
        => []<>(unseen = {})

=============================================================================
