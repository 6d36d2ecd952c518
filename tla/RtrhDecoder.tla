----------------------------- MODULE RtrhDecoder -----------------------------
(***************************************************************************)
(* rtrh_decoder.cpp: the capture of the RT/RH waveform by the edge         *)
(* interrupt, its end and its re-arming in the main loop, and what makes   *)
(* a measurement valid.                                                    *)
(*                                                                         *)
(* The gadget drives two lines with bursts of pulses: a reference, the     *)
(* temperature and the humidity, about 125 ms each, then half a minute of  *)
(* silence.  Nothing on the lines tells the phases apart: the decoder      *)
(* counts time from the first edge it takes for the beginning.             *)
(*                                                                         *)
(* Time is counted in slices of half a phase; every slice of a waveform    *)
(* has edges.  The periods of a slice add its length to the phase in       *)
(* which they are taken, once.  Edge counts, medians and the histogram of  *)
(* the humidity states are left out.                                       *)
(***************************************************************************)
EXTENDS Integers

CONSTANTS
    RefEnd, RtEnd, WaveEnd,  \* slices to REF_PHASE_END_US, RT_PHASE_END_US, the last edge
    Quiet,                   \* MEASUREMENT_QUIET_US, in whole slices
    Gap                      \* the least silence between two waveforms

ASSUME RtrhAssumption ==
    /\ RefEnd \in Nat \ {0} /\ RtEnd \in Nat /\ WaveEnd \in Nat
    /\ RefEnd < RtEnd /\ RtEnd < WaveEnd
    /\ Quiet \in Nat \ {0} /\ Gap \in Nat /\ Gap > Quiet

VARIABLES
    wave,          \* the gadget: the slice it is in, 0 between two waveforms
    silence,       \* slices since the last waveform (saturating)
    unseen,        \* the interrupt has edges of this slice to see
    stalled,       \* the main loop is busy elsewhere (flash, network, probe)
    ran,           \* the main loop has made a pass in this slice
    window,        \* power_save's RT/RH window is open
    rearm,         \* wake_generation() differs from light_sleep_wake_generation_
    pc,            \* where the main loop is
    clock,         \* its view of now - last_edge_us between two reads
    collecting, wake_capture_state, partial_after_wake_complete,
    elapsed,       \* slices since measurement_start_us (saturating)
    lastAge,       \* slices since last_edge_us (saturating)
    counted,       \* the periods of this slice have been added
    ref, rt, rh,   \* duration of the periods of each phase
    pure,          \* no other period than the reference's is in ref
    snapshot,      \* what derive() makes of it: [temperature, humidity : valid or
                   \* not]; history: [aligned, single]
    fresh,         \* snapshot.sequence # last_polled_sequence
    origin,        \* history: the slice in which the measurement began
    foreign,       \* history: its waveform is over and another one has "begun", or
                   \* has been "taken" for its continuation, or "none"
    synced         \* history: the decoder has seen the silence after a waveform

lineVars  == <<wave, silence, unseen>>
loopVars  == <<stalled, ran, window, rearm>>
taskVars  == <<pc, clock>>
stateVars == <<collecting, wake_capture_state, synced>>
timeVars  == <<elapsed, lastAge, counted>>
accumVars == <<ref, rt, rh, pure, origin, foreign>>
pollVars  == <<partial_after_wake_complete, snapshot, fresh>>
rtrhVars  == <<lineVars, loopVars, taskVars, stateVars, timeVars, accumVars, pollVars>>

States == {"UNSYNCHRONIZED", "DISCARD_UNTIL_IDLE", "FRESH_CYCLE_ARMED", "FRESH_CYCLE_ACTIVE"}
Masked == pc \in {"discard masked", "collect masked"}
NoSnapshot == [temperature |-> FALSE, humidity |-> FALSE, aligned |-> FALSE, single |-> FALSE]

\* After setup(): the device may start in the middle of a waveform.
RtrhInit ==
    /\ wave \in 0 .. WaveEnd /\ silence = Gap /\ unseen = (wave # 0)
    /\ stalled = FALSE /\ ran = FALSE /\ window = FALSE /\ rearm = FALSE
    /\ pc = "pass" /\ clock = "none"
    /\ collecting = FALSE /\ wake_capture_state = "UNSYNCHRONIZED" /\ synced = FALSE
    /\ elapsed = 0 /\ lastAge = 0 /\ counted = FALSE
    /\ ref = 0 /\ rt = 0 /\ rh = 0 /\ pure = TRUE /\ origin = 0 /\ foreign = "none"
    /\ partial_after_wake_complete = FALSE /\ snapshot = NoSnapshot /\ fresh = FALSE

-----------------------------------------------------------------------------
(* rtrh_wake_guard.h *)

Discards(state) == state = "DISCARD_UNTIL_IDLE"

AfterEdge(state) == IF state = "FRESH_CYCLE_ARMED" THEN "FRESH_CYCLE_ACTIVE" ELSE state

\* A cycle that began after a known silence is kept, once; any other one in
\* progress is given up.  (NeverKept: each of them is.)
NeverKept(state) == FALSE
KeepsFresh(state) == state = "FRESH_CYCLE_ACTIVE"

AfterRearm(state) ==
    IF ~collecting THEN state
    ELSE IF KeepsFresh(state) THEN "UNSYNCHRONIZED" ELSE "DISCARD_UNTIL_IDLE"

-----------------------------------------------------------------------------
(* The gadget and the clock. *)

PeriodKind(slice) == IF slice <= RefEnd THEN "REF" ELSE IF slice <= RtEnd THEN "RT" ELSE "RH"

WaveStarts ==
    /\ wave = 0 /\ silence = Gap
    /\ wave' = 1 /\ unseen' = TRUE
    /\ foreign' = IF collecting /\ foreign = "none" THEN "begun" ELSE foreign
    /\ UNCHANGED <<silence, loopVars, taskVars, stateVars, timeVars, ref, rt, rh, pure, origin, pollVars>>

\* The next slice.  A main loop that is not stalled has made a pass in this one,
\* and the interrupt has seen its edges.
Tick ==
    /\ ~Masked /\ ~unseen /\ (ran \/ stalled) /\ ran' = FALSE
    /\ wave' = IF wave \in {0, WaveEnd} THEN 0 ELSE wave + 1
    /\ unseen' = (wave' # 0)
    /\ silence' = IF wave # 0 THEN 0 ELSE IF silence < Gap THEN silence + 1 ELSE Gap
    /\ elapsed' = IF elapsed < RtEnd THEN elapsed + 1 ELSE RtEnd
    /\ lastAge' = IF lastAge <= Quiet THEN lastAge + 1 ELSE lastAge
    /\ counted' = FALSE
    /\ UNCHANGED <<stalled, window, rearm, taskVars, stateVars, accumVars, pollVars>>

StallChange == stalled' = ~stalled
               /\ UNCHANGED <<lineVars, ran, window, rearm, taskVars, stateVars, timeVars, accumVars, pollVars>>

\* power_save closes its window: the measurement is complete, or too late.
WindowCloses == window /\ window' = FALSE
                /\ UNCHANGED <<lineVars, stalled, ran, rearm, taskVars, stateVars, timeVars, accumVars, pollVars>>

-----------------------------------------------------------------------------
(* gpio_isr. *)

\* reset_measurement and update_phase: the phase is a matter of time alone.
PhaseAt(age) == IF age < RefEnd THEN "REF" ELSE IF age < RtEnd THEN "RT" ELSE "RH"

RhLength == WaveEnd - RtEnd
Adds(phase) == IF PhaseAt(elapsed') = phase /\ ~(counted /\ collecting) THEN 1 ELSE 0
Duration(d, phase) == (IF collecting THEN d ELSE 0) + Adds(phase)

CollectEdge ==
    /\ collecting' = TRUE
    /\ elapsed' = IF collecting THEN elapsed ELSE 0
    /\ ref' = Duration(ref, "REF") /\ rt' = Duration(rt, "RT")
    /\ rh' = IF collecting /\ rh > RhLength THEN rh ELSE Duration(rh, "RH")
    /\ pure' = ((collecting => pure) /\ (PhaseAt(elapsed') = "REF" => PeriodKind(wave) = "REF"))
    /\ origin' = IF collecting THEN origin ELSE wave
    /\ foreign' = IF collecting /\ foreign # "none" THEN "taken" ELSE "none"
    /\ counted' = TRUE

\* on_rtrh_edge_from_isr on battery: the edge that finds the window closed opens it.
OpensWindow ==
    \/ UNCHANGED <<window, rearm>>
    \/ ~window /\ window' = TRUE /\ rearm' = TRUE

Edge ==
    /\ wave # 0 /\ ~Masked /\ unseen' = FALSE
    /\ OpensWindow
    /\ lastAge' = 0
    /\ wake_capture_state' = AfterEdge(wake_capture_state)
    /\ IF Discards(wake_capture_state)
       THEN UNCHANGED <<collecting, elapsed, counted, accumVars>>
       ELSE CollectEdge
    /\ clock' = IF clock = "none" THEN "none" ELSE "wrapped"
    /\ UNCHANGED <<wave, silence, stalled, ran, pc, synced, pollVars>>

-----------------------------------------------------------------------------
(* The main loop: rearm_after_light_sleep, loop() and poll() in one pass.  The *)
(* two ends of silence are looked for in the same way: now, then last_edge_us, *)
(* and both again with the interrupts masked.                                  *)

ReadClock(due, timed, otherwise) ==
    IF due THEN pc' = timed /\ clock' = IF lastAge > Quiet THEN "quiet" ELSE "recent"
    ELSE pc' = otherwise /\ UNCHANGED clock

Compare(masked, otherwise) ==
    /\ pc' = IF clock \in {"quiet", "wrapped"} THEN masked ELSE otherwise
    /\ clock' = "none"

\* The second look.  (Unchecked: there is none.)
Unchecked == TRUE
StillQuiet == lastAge > Quiet

PassStarts ==
    /\ pc = "pass" /\ rearm' = FALSE
    /\ IF rearm
       THEN /\ wake_capture_state' = AfterRearm(wake_capture_state)
            /\ collecting' = (collecting /\ KeepsFresh(wake_capture_state))
       ELSE UNCHANGED <<wake_capture_state, collecting>>
    /\ ReadClock(Discards(wake_capture_state'), "discard timed", "collect")
    /\ UNCHANGED <<lineVars, stalled, ran, window, synced, timeVars, accumVars, pollVars>>

DiscardCompare ==
    /\ pc = "discard timed" /\ Compare("discard masked", "collect")
    /\ UNCHANGED <<lineVars, loopVars, stateVars, timeVars, accumVars, pollVars>>

DiscardEnds ==
    /\ pc = "discard masked" /\ pc' = "collect"
    /\ IF Discards(wake_capture_state) /\ StillQuiet
       THEN wake_capture_state' = "FRESH_CYCLE_ARMED" /\ synced' = TRUE /\ partial_after_wake_complete' = TRUE
       ELSE UNCHANGED <<wake_capture_state, synced, partial_after_wake_complete>>
    /\ UNCHANGED <<lineVars, loopVars, clock, collecting, timeVars, accumVars, snapshot, fresh>>

CollectClock ==
    /\ pc = "collect" /\ ReadClock(collecting, "collect timed", "poll")
    /\ UNCHANGED <<lineVars, loopVars, stateVars, timeVars, accumVars, pollVars>>

CollectCompare ==
    /\ pc = "collect timed" /\ Compare("collect masked", "poll")
    /\ UNCHANGED <<lineVars, loopVars, stateVars, timeVars, accumVars, pollVars>>

\* temperature_is_valid and humidity_is_valid: reference and temperature last what
\* their windows last and the reference's mean period is a reference's; the
\* humidity lasts what one burst lasts.  (RhOfAnyLength: it may last longer.)
TemperatureValid == ref = RefEnd /\ pure /\ rt = RtEnd - RefEnd
RhOfAnyLength == rh >= RhLength
RhPlausible == rh = RhLength

finalize_measurement ==
    /\ collecting' = FALSE /\ wake_capture_state' = "FRESH_CYCLE_ARMED" /\ synced' = TRUE
    /\ IF ref = 0 \/ rt = 0 \/ rh = 0
       THEN UNCHANGED <<snapshot, fresh>>
       ELSE /\ fresh' = TRUE
            /\ snapshot' = [temperature |-> TemperatureValid,
                            humidity |-> TemperatureValid /\ RhPlausible,
                            aligned |-> origin = 1, single |-> foreign # "taken"]

CollectEnds ==
    /\ pc = "collect masked" /\ pc' = "poll"
    /\ IF collecting /\ StillQuiet
       THEN finalize_measurement
       ELSE UNCHANGED <<stateVars, snapshot, fresh>>
    /\ UNCHANGED <<lineVars, loopVars, clock, timeVars, accumVars, partial_after_wake_complete>>

\* process_rtrh_: a discarded cycle is reported first, a measurement otherwise.
Poll ==
    /\ pc = "poll" /\ pc' = "pass" /\ ran' = TRUE
    /\ partial_after_wake_complete' = FALSE
    /\ fresh' = (fresh /\ partial_after_wake_complete)
    /\ UNCHANGED <<lineVars, stalled, window, rearm, clock, stateVars, timeVars, accumVars, snapshot>>

LoopStep == PassStarts \/ DiscardCompare \/ DiscardEnds \/ CollectClock \/ CollectCompare
            \/ CollectEnds \/ Poll

RtrhNext == WaveStarts \/ Tick \/ StallChange \/ WindowCloses \/ Edge \/ LoopStep

RtrhSpec == RtrhInit /\ [][RtrhNext]_rtrhVars

\* The gadget goes on measuring, edges interrupt, the main loop goes on and the
\* clock with it.
RtrhFairness == WF_rtrhVars(WaveStarts) /\ SF_rtrhVars(Tick) /\ SF_rtrhVars(Edge) /\ WF_rtrhVars(LoopStep)
RtrhFairSpec == RtrhSpec /\ RtrhFairness

-----------------------------------------------------------------------------
(* What the decoder promises. *)

\* From the first silence it has seen after a waveform, the decoder begins every
\* measurement with the first edges of a waveform: no race between loop() and the
\* interrupt, and no re-arming in the middle, makes it take a later edge for the
\* beginning, which would shift all three phases.
BeginsWithWave == collecting /\ synced => origin = 1

\* A measurement passed on with a valid temperature began with its waveform, one
\* with a valid humidity has nothing of another waveform in it, however long the
\* main loop was away and wherever in a waveform the device was started.
ValidIsOneWave ==
    fresh => /\ snapshot.temperature => snapshot.aligned
             /\ snapshot.humidity => snapshot.single

\* Once the main loop is not kept away any more and windows are not closed within
\* a waveform, there is always another complete measurement, although each
\* waveform re-arms the inputs in its middle.
MeasurementsGoOn ==
    <>[]~stalled /\ <>[][~(WindowCloses /\ wave # 0)]_rtrhVars
        => []<>(fresh /\ snapshot.humidity)

=============================================================================
