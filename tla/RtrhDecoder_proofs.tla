------------------------- MODULE RtrhDecoder_proofs -------------------------
(* Proofs about RtrhDecoder, for all lengths of the phases and silences.      *)
(*                                                                            *)
(* What makes the decoder begin with a waveform is that it lets go of a       *)
(* measurement, or of a discarded cycle, only in a silence: with a quiet time *)
(* of at least a slice, "the last edge is longer ago than that" means that    *)
(* the gadget is between two waveforms, or that the interrupt has not yet     *)
(* seen the first edge of the next one (SeesEverySlice, WaitsForWave).        *)
EXTENDS RtrhDecoder, TLAPS

BeginType ==
    /\ wave \in 0 .. WaveEnd /\ unseen \in BOOLEAN /\ lastAge \in Nat
    /\ collecting \in BOOLEAN /\ synced \in BOOLEAN
    /\ wake_capture_state \in States

BetweenWaves == wave = 0 \/ (wave = 1 /\ unseen)

SeesEverySlice ==
    /\ wave # 0 /\ ~unseen => lastAge = 0
    /\ wave > 1 => lastAge <= 1

WaitsForWave == synced /\ ~collecting => Discards(wake_capture_state) \/ BetweenWaves

NothingDiscarded == Discards(wake_capture_state) => ~collecting

BeginInv == BeginType /\ SeesEverySlice /\ WaitsForWave /\ NothingDiscarded /\ BeginsWithWave

LEMMA QuietIsBetween == BeginInv /\ StillQuiet => BetweenWaves
BY RtrhAssumption DEF BeginInv, BeginType, SeesEverySlice, StillQuiet, BetweenWaves

LEMMA BeginInit == RtrhInit => BeginInv
<1> SUFFICES ASSUME RtrhInit PROVE BeginInv
  OBVIOUS
<1>1. unseen \in BOOLEAN /\ (wave # 0 => unseen)
  BY DEF RtrhInit
<1>2. wave \in 0 .. WaveEnd /\ lastAge = 0 /\ collecting = FALSE /\ synced = FALSE
      /\ wake_capture_state = "UNSYNCHRONIZED"
  BY DEF RtrhInit
<1>3. BeginType
  BY <1>1, <1>2 DEF BeginType, States
<1>4. SeesEverySlice
  BY <1>1, <1>2 DEF SeesEverySlice
<1>5. WaitsForWave /\ BeginsWithWave /\ NothingDiscarded
  BY <1>2 DEF WaitsForWave, BeginsWithWave, NothingDiscarded
<1>6. QED
  BY <1>3, <1>4, <1>5 DEF BeginInv

LEMMA GadgetBegin ==
    ASSUME BeginInv, WaveStarts \/ Tick \/ StallChange \/ WindowCloses
    PROVE  BeginInv'
<1>1. UNCHANGED <<collecting, wake_capture_state, synced, origin>>
  BY DEF WaveStarts, Tick, StallChange, WindowCloses, stateVars, accumVars
<1>2. BeginsWithWave' /\ NothingDiscarded'
  BY <1>1 DEF BeginInv, BeginsWithWave, NothingDiscarded, Discards
<1>3. BeginType' /\ SeesEverySlice' /\ (BetweenWaves => BetweenWaves')
  <2>1. CASE WaveStarts
    <3>1. wave = 0 /\ wave' = 1 /\ unseen' = TRUE /\ lastAge' = lastAge
      BY <2>1 DEF WaveStarts, timeVars
    <3>2. BeginType'
      BY <1>1, <3>1, RtrhAssumption DEF BeginInv, BeginType
    <3>3. QED
      BY <3>1, <3>2 DEF SeesEverySlice, BetweenWaves
  <2>2. CASE Tick
    <3>1. ~unseen /\ unseen' \in BOOLEAN /\ (wave' # 0 => unseen')
      BY <2>2 DEF Tick
    <3>2. /\ wave' = IF wave \in {0, WaveEnd} THEN 0 ELSE wave + 1
          /\ lastAge' = IF lastAge <= Quiet THEN lastAge + 1 ELSE lastAge
      BY <2>2 DEF Tick
    <3>3. wave' \in 0 .. WaveEnd /\ lastAge' \in Nat
      BY <3>2, RtrhAssumption DEF BeginInv, BeginType
    <3>4. BeginType'
      BY <1>1, <3>1, <3>3 DEF BeginInv, BeginType
    <3>5. SeesEverySlice'
      BY <3>1, <3>2, RtrhAssumption DEF BeginInv, BeginType, SeesEverySlice
    <3>6. BetweenWaves => BetweenWaves'
      BY <3>1, <3>2 DEF BetweenWaves
    <3>7. QED
      BY <3>4, <3>5, <3>6
  <2>3. CASE StallChange \/ WindowCloses
    <3>1. UNCHANGED <<wave, unseen, lastAge>>
      BY <2>3 DEF StallChange, WindowCloses, lineVars, timeVars
    <3>2. QED
      BY <1>1, <3>1 DEF BeginInv, BeginType, SeesEverySlice, BetweenWaves
  <2>4. QED
    BY <2>1, <2>2, <2>3
<1>4. WaitsForWave'
  BY <1>1, <1>3 DEF BeginInv, WaitsForWave, Discards
<1>5. QED
  BY <1>2, <1>3, <1>4 DEF BeginInv

LEMMA EdgeBegin ==
    ASSUME BeginInv, Edge
    PROVE  BeginInv'
<1>1. /\ wave # 0 /\ wave' = wave /\ unseen' = FALSE /\ lastAge' = 0 /\ synced' = synced
      /\ wake_capture_state' = AfterEdge(wake_capture_state)
  BY DEF Edge
<1>2. wake_capture_state' \in States /\ (Discards(wake_capture_state') <=> Discards(wake_capture_state))
  BY <1>1 DEF BeginInv, BeginType, AfterEdge, States, Discards
<1>3. IF Discards(wake_capture_state) THEN collecting' = collecting /\ origin' = origin
      ELSE collecting' = TRUE /\ origin' = IF collecting THEN origin ELSE wave
  BY DEF Edge, CollectEdge, accumVars
<1>4. BeginType'
  BY <1>1, <1>2, <1>3 DEF BeginInv, BeginType
<1>5. SeesEverySlice'
  BY <1>1 DEF SeesEverySlice
<1>6. WaitsForWave' /\ NothingDiscarded'
  BY <1>2, <1>3 DEF BeginInv, WaitsForWave, NothingDiscarded
<1>7. BeginsWithWave'
  BY <1>1, <1>2, <1>3 DEF BeginInv, BeginsWithWave, NothingDiscarded, WaitsForWave, BetweenWaves
<1>8. QED
  BY <1>4, <1>5, <1>6, <1>7 DEF BeginInv

LEMMA LoopBegin ==
    ASSUME BeginInv, LoopStep
    PROVE  BeginInv'
<1>1. UNCHANGED <<wave, unseen, lastAge, origin>>
  BY DEF LoopStep, PassStarts, DiscardCompare, DiscardEnds, CollectClock, CollectCompare, CollectEnds,
         Poll, lineVars, timeVars, accumVars
<1>2. SeesEverySlice' /\ (BetweenWaves => BetweenWaves')
  BY <1>1 DEF BeginInv, SeesEverySlice, BetweenWaves
<1>3. ASSUME /\ wake_capture_state' \in States /\ collecting' \in BOOLEAN /\ synced' \in BOOLEAN
             /\ WaitsForWave' /\ NothingDiscarded'
             /\ collecting' => collecting /\ synced' = synced
      PROVE  BeginInv'
  <2>1. BeginType'
    BY <1>1, <1>3 DEF BeginInv, BeginType
  <2>2. BeginsWithWave'
    BY <1>1, <1>3 DEF BeginInv, BeginsWithWave
  <2>3. QED
    BY <1>2, <1>3, <2>1, <2>2 DEF BeginInv
<1>4. CASE UNCHANGED stateVars
  BY <1>2, <1>3, <1>4 DEF stateVars, BeginInv, BeginType, WaitsForWave, NothingDiscarded, Discards
<1>5. CASE /\ wake_capture_state' = AfterRearm(wake_capture_state) /\ synced' = synced
           /\ collecting' = (collecting /\ KeepsFresh(wake_capture_state))
  <2>1. /\ wake_capture_state' \in States /\ collecting' \in BOOLEAN
        /\ collecting' => collecting /\ ~Discards(wake_capture_state')
        /\ collecting /\ ~collecting' => Discards(wake_capture_state')
        /\ ~collecting => wake_capture_state' = wake_capture_state
    BY <1>5 DEF BeginInv, BeginType, AfterRearm, KeepsFresh, States, Discards
  <2>2. WaitsForWave' /\ NothingDiscarded'
    BY <1>2, <1>5, <2>1 DEF BeginInv, WaitsForWave, NothingDiscarded, Discards
  <2>3. QED
    BY <1>3, <1>5, <2>1, <2>2 DEF BeginInv, BeginType
<1>6. CASE /\ StillQuiet /\ collecting' = FALSE
           /\ wake_capture_state' = "FRESH_CYCLE_ARMED" /\ synced' = TRUE
  <2>1. WaitsForWave' /\ NothingDiscarded'
    BY <1>2, <1>6, QuietIsBetween DEF WaitsForWave, NothingDiscarded, Discards
  <2>2. QED
    BY <1>3, <1>6, <2>1 DEF States
<1>7. CASE PassStarts
  BY <1>4, <1>5, <1>7 DEF PassStarts, stateVars
<1>8. CASE DiscardEnds
  BY <1>4, <1>6, <1>8 DEF DiscardEnds, stateVars, BeginInv, NothingDiscarded, BeginType
<1>9. CASE CollectEnds
  BY <1>4, <1>6, <1>9 DEF CollectEnds, finalize_measurement
<1>10. CASE DiscardCompare \/ CollectClock \/ CollectCompare \/ Poll
  BY <1>4, <1>10 DEF DiscardCompare, CollectClock, CollectCompare, Poll
<1>11. QED
  BY <1>7, <1>8, <1>9, <1>10 DEF LoopStep

LEMMA BeginStep == BeginInv /\ [RtrhNext]_rtrhVars => BeginInv'
<1>1. BeginInv /\ UNCHANGED rtrhVars => BeginInv'
  BY DEF BeginInv, BeginType, SeesEverySlice, WaitsForWave, NothingDiscarded, BeginsWithWave,
         BetweenWaves, Discards, rtrhVars, lineVars, stateVars, timeVars, accumVars
<1>2. QED
  BY <1>1, GadgetBegin, EdgeBegin, LoopBegin DEF RtrhNext

\* From the first silence on, every measurement begins with the first edges of a
\* waveform: neither the race between loop() and the interrupt nor a re-arm in the
\* middle of a waveform can shift its phases.
THEOREM BeginsWithItsWave == RtrhSpec => []BeginsWithWave
<1>1. BeginInv => BeginsWithWave
  BY DEF BeginInv
<1>2. QED
  BY <1>1, BeginInit, BeginStep, PTL DEF RtrhSpec

(***************************************************************************)
(* What a valid measurement is made of.                                    *)
(*                                                                         *)
(* FromReference: as long as every slice since the beginning has brought   *)
(* pure reference periods, the gadget is as many slices behind the first   *)
(* one as the decoder is; the reference is complete only if that one was   *)
(* the waveform's first.  FirstWave, WaveOver and SecondWave follow the    *)
(* humidity's duration of a measurement that began with its waveform: it   *)
(* is the waveform's own until the next one adds to it.                    *)
(***************************************************************************)

Now == IF counted THEN 1 ELSE 0

CountType ==
    /\ BeginType
    /\ elapsed \in 0 .. RtEnd /\ ref \in Nat /\ rh \in Nat
    /\ counted \in BOOLEAN /\ pure \in BOOLEAN
    /\ foreign \in {"none", "begun", "taken"}
    /\ wave = 0 => ~counted

FromReference ==
    collecting =>
        /\ origin \in 1 .. WaveEnd
        /\ elapsed = 0 => counted
        /\ ref <= RefEnd
        /\ elapsed < RefEnd => ref <= elapsed + Now
        /\ elapsed < RefEnd /\ pure /\ ref = elapsed + Now
              => wave = origin + elapsed /\ (counted => wave <= RefEnd)
        /\ pure /\ ref = RefEnd => origin = 1

FirstWave ==
    collecting /\ origin = 1 /\ foreign = "none" /\ wave # 0 =>
        /\ elapsed < RtEnd => wave = elapsed + 1
        /\ elapsed = RtEnd => wave > RtEnd
        /\ wave <= RtEnd => rh = 0
        /\ wave > RtEnd => rh = wave - RtEnd - (1 - Now)
        /\ ~unseen => counted

WaveOver ==
    collecting /\ origin = 1 /\ (foreign = "begun" \/ (foreign = "none" /\ wave = 0)) =>
        elapsed = RtEnd /\ rh = RhLength /\ ~counted /\ (wave # 0 => unseen)

SecondWave == collecting /\ origin = 1 /\ foreign = "taken" => rh > RhLength

CountInv == CountType /\ FromReference /\ FirstWave /\ WaveOver /\ SecondWave

LEMMA CountInit == RtrhInit => CountInv
<1> SUFFICES ASSUME RtrhInit PROVE CountInv
  OBVIOUS
<1>1. CountType
  <2>1. BeginType
    BY BeginInit DEF BeginInv
  <2>2. elapsed \in 0 .. RtEnd
    BY RtrhAssumption DEF RtrhInit
  <2>3. QED
    BY <2>1, <2>2 DEF RtrhInit, CountType
<1>2. collecting = FALSE
  BY DEF RtrhInit
<1>3. QED
  BY <1>1, <1>2 DEF CountInv, FromReference, FirstWave, WaveOver, SecondWave

\* The steps that touch nothing of the count, but may let go of the measurement.
LEMMA CountKept ==
    ASSUME CountInv, BeginInv', collecting' => collecting,
           UNCHANGED <<wave, unseen, elapsed, counted, ref, rh, pure, origin, foreign>>
    PROVE  CountInv'
<1>1. CountType'
  BY DEF CountInv, CountType, BeginInv
<1>2. FromReference' /\ SecondWave'
  BY DEF CountInv, FromReference, SecondWave, Now
<1>3. FirstWave' /\ WaveOver'
  BY DEF CountInv, FirstWave, WaveOver, Now
<1>4. QED
  BY <1>1, <1>2, <1>3 DEF CountInv

LEMMA CountWaveStarts ==
    ASSUME CountInv, BeginInv', WaveStarts
    PROVE  CountInv'
<1>1. /\ wave = 0 /\ wave' = 1 /\ unseen' = TRUE
      /\ foreign' = IF collecting /\ foreign = "none" THEN "begun" ELSE foreign
      /\ UNCHANGED <<collecting, elapsed, counted, ref, rh, pure, origin>>
  BY DEF WaveStarts, stateVars, timeVars
<1>2. CountType'
  BY <1>1 DEF CountInv, CountType, BeginInv
<1>3. FromReference'
  BY <1>1 DEF CountInv, CountType, FromReference, Now
<1>4. FirstWave'
  BY <1>1 DEF CountInv, FirstWave
<1>5. WaveOver'
  BY <1>1 DEF CountInv, WaveOver
<1>6. SecondWave'
  BY <1>1 DEF CountInv, SecondWave
<1>7. QED
  BY <1>2, <1>3, <1>4, <1>5, <1>6 DEF CountInv

LEMMA CountTick ==
    ASSUME CountInv, BeginInv', Tick
    PROVE  CountInv'
<1>1. /\ ~unseen /\ counted' = FALSE
      /\ wave' = IF wave \in {0, WaveEnd} THEN 0 ELSE wave + 1
      /\ elapsed' = IF elapsed < RtEnd THEN elapsed + 1 ELSE RtEnd
      /\ UNCHANGED <<collecting, ref, rh, pure, origin, foreign>>
  BY DEF Tick, stateVars, accumVars
<1>2. wave \in 0 .. WaveEnd /\ elapsed \in 0 .. RtEnd /\ ref \in Nat /\ rh \in Nat /\ counted \in BOOLEAN
      /\ Now = (IF counted THEN 1 ELSE 0) /\ Now' = 0
  BY <1>1 DEF CountInv, CountType, BeginType, Now
<1>3. CountType'
  <2>1. elapsed' \in 0 .. RtEnd
    BY <1>1, <1>2, RtrhAssumption
  <2>2. QED
    BY <1>1, <2>1 DEF CountInv, CountType, BeginInv
<1>4. FromReference'
  <2> SUFFICES ASSUME collecting PROVE FromReference'
    BY <1>1 DEF FromReference
  <2>1. /\ origin \in 1 .. WaveEnd /\ ref <= RefEnd
        /\ elapsed < RefEnd => ref <= elapsed + Now
        /\ elapsed < RefEnd /\ pure /\ ref = elapsed + Now
              => wave = origin + elapsed /\ (counted => wave <= RefEnd)
        /\ pure /\ ref = RefEnd => origin = 1
    BY DEF CountInv, FromReference
  <2>2. elapsed' # 0
    BY <1>1, <1>2, RtrhAssumption
  <2>3. elapsed' < RefEnd => ref <= elapsed' + Now'
    BY <1>1, <1>2, <2>1, RtrhAssumption
  <2>4. elapsed' < RefEnd /\ pure /\ ref = elapsed' + Now' => wave' = origin + elapsed'
    BY <1>1, <1>2, <2>1, RtrhAssumption
  <2>5. QED
    BY <1>1, <2>1, <2>2, <2>3, <2>4 DEF FromReference
<1>5. FirstWave' /\ WaveOver'
  <2> SUFFICES ASSUME collecting, origin = 1 PROVE FirstWave' /\ WaveOver'
    BY <1>1 DEF FirstWave, WaveOver
  <2>1. CASE foreign = "none" /\ wave # 0
    <3>1. /\ elapsed < RtEnd => wave = elapsed + 1
          /\ elapsed = RtEnd => wave > RtEnd
          /\ wave <= RtEnd => rh = 0
          /\ wave > RtEnd => rh = wave - RtEnd
      <4>1. counted
        BY <1>1, <2>1 DEF CountInv, FirstWave
      <4>2. /\ elapsed < RtEnd => wave = elapsed + 1
            /\ elapsed = RtEnd => wave > RtEnd
            /\ wave <= RtEnd => rh = 0
            /\ wave > RtEnd => rh = wave - RtEnd - (1 - Now)
        BY <2>1 DEF CountInv, FirstWave
      <4>3. QED
        BY <1>2, <4>1, <4>2, RtrhAssumption
    <3>2. CASE wave = WaveEnd
      <4>1. elapsed' = RtEnd /\ rh' = RhLength /\ wave' = 0
        BY <1>1, <1>2, <3>1, <3>2, RtrhAssumption DEF RhLength
      <4>2. QED
        BY <1>1, <4>1 DEF FirstWave, WaveOver
    <3>3. CASE wave # WaveEnd
      <4>1. wave' = wave + 1 /\ wave' # 0
        BY <1>1, <1>2, <2>1, <3>3
      <4>2. /\ elapsed' < RtEnd => wave' = elapsed' + 1
            /\ elapsed' = RtEnd => wave' > RtEnd
            /\ wave' <= RtEnd => rh' = 0
            /\ wave' > RtEnd => rh' = wave' - RtEnd - 1
        BY <1>1, <1>2, <3>1, <4>1, RtrhAssumption
      <4>3. unseen'
        BY <4>1 DEF Tick
      <4>4. WaveOver'
        BY <1>1, <2>1, <4>1 DEF WaveOver
      <4>5. FirstWave'
        BY <1>1, <1>2, <4>2, <4>3 DEF FirstWave
      <4>6. QED
        BY <4>4, <4>5
    <3>4. QED
      BY <3>2, <3>3
  <2>2. CASE foreign = "begun" \/ (foreign = "none" /\ wave = 0)
    <3>1. elapsed = RtEnd /\ rh = RhLength /\ (wave # 0 => unseen)
      BY <2>2 DEF CountInv, WaveOver
    <3>2. wave = 0 /\ wave' = 0 /\ elapsed' = RtEnd
      BY <1>1, <1>2, <3>1, RtrhAssumption
    <3>3. QED
      BY <1>1, <3>1, <3>2 DEF FirstWave, WaveOver
  <2>3. CASE foreign = "taken"
    BY <1>1, <2>3 DEF FirstWave, WaveOver
  <2>4. QED
    BY <2>1, <2>2, <2>3 DEF CountInv, CountType
<1>6. SecondWave'
  BY <1>1 DEF CountInv, SecondWave
<1>7. QED
  BY <1>3, <1>4, <1>5, <1>6 DEF CountInv
LEMMA CountEdge ==
    ASSUME CountInv, BeginInv, BeginInv', Edge
    PROVE  CountInv'
<1>1. wave # 0 /\ wave' = wave /\ unseen' = FALSE
  BY DEF Edge
<1>2. CASE Discards(wake_capture_state)
  <2>1. ~collecting /\ UNCHANGED <<collecting, elapsed, counted, accumVars>>
    BY <1>2 DEF Edge, BeginInv, NothingDiscarded
  <2>2. CountType'
    BY <1>1, <2>1 DEF CountInv, CountType, BeginInv, accumVars
  <2>3. QED
    BY <2>1, <2>2 DEF CountInv, FromReference, FirstWave, WaveOver, SecondWave
<1>3. CASE ~Discards(wake_capture_state)
  <2>1. /\ collecting' = TRUE /\ counted' = TRUE
        /\ elapsed' = IF collecting THEN elapsed ELSE 0
        /\ ref' = Duration(ref, "REF")
        /\ rh' = IF collecting /\ rh > RhLength THEN rh ELSE Duration(rh, "RH")
        /\ pure' = ((collecting => pure) /\ (PhaseAt(elapsed') = "REF" => PeriodKind(wave) = "REF"))
        /\ origin' = IF collecting THEN origin ELSE wave
        /\ foreign' = IF collecting /\ foreign # "none" THEN "taken" ELSE "none"
    BY <1>3 DEF Edge, CollectEdge
  <2>2. wave \in 1 .. WaveEnd /\ elapsed \in 0 .. RtEnd /\ ref \in Nat /\ rh \in Nat
        /\ counted \in BOOLEAN /\ pure \in BOOLEAN /\ collecting \in BOOLEAN
    BY <1>1 DEF CountInv, CountType, BeginType
  <2>3. elapsed' \in 0 .. RtEnd /\ RhLength \in Nat \ {0}
    BY <2>1, <2>2, RtrhAssumption DEF RhLength
  <2>4. /\ elapsed' < RefEnd <=> PhaseAt(elapsed') = "REF"
        /\ elapsed' = RtEnd <=> PhaseAt(elapsed') = "RH"
    BY <2>3, RtrhAssumption DEF PhaseAt
  <2>5. wave <= RefEnd <=> PeriodKind(wave) = "REF"
    BY <2>2, RtrhAssumption DEF PeriodKind
  <2>6. ref' = (IF collecting THEN ref ELSE 0)
                + (IF elapsed' < RefEnd /\ ~(counted /\ collecting) THEN 1 ELSE 0)
    BY <2>1, <2>4 DEF Duration, Adds
  <2>7. Duration(rh, "RH") = (IF collecting THEN rh ELSE 0)
                + (IF elapsed' = RtEnd /\ ~(counted /\ collecting) THEN 1 ELSE 0)
    BY <2>4 DEF Duration, Adds
  <2>8. ref' \in Nat /\ rh' \in Nat
    BY <2>1, <2>2, <2>6, <2>7
  <2>9. pure' \in BOOLEAN /\ (pure' => (collecting => pure) /\ (elapsed' < RefEnd => wave <= RefEnd))
    BY <2>1, <2>4, <2>5
  <2>10. CountType'
    BY <1>1, <2>1, <2>3, <2>8, <2>9 DEF CountInv, CountType, BeginInv
  <2>11. CASE ~collecting
    <3>1. elapsed' = 0 /\ ref' = 1 /\ rh' = 0 /\ origin' = wave /\ foreign' = "none" /\ Now' = 1
      BY <2>1, <2>2, <2>6, <2>7, <2>11, RtrhAssumption DEF Now
    <3>2. pure' => wave <= RefEnd
      BY <2>9, <3>1, RtrhAssumption
    <3>3. FromReference'
      BY <1>1, <2>1, <2>2, <3>1, <3>2, RtrhAssumption DEF FromReference
    <3>4. FirstWave'
      BY <1>1, <2>1, <3>1, RtrhAssumption DEF FirstWave
    <3>5. WaveOver' /\ SecondWave'
      BY <1>1, <3>1 DEF WaveOver, SecondWave
    <3>6. QED
      BY <2>10, <3>3, <3>4, <3>5 DEF CountInv
  <2>12. CASE collecting
    <3>1. elapsed' = elapsed /\ origin' = origin /\ Now' = 1 /\ Now = (IF counted THEN 1 ELSE 0)
      BY <2>1, <2>12 DEF Now
    <3>2. ref' = IF elapsed < RefEnd /\ ~counted THEN ref + 1 ELSE ref
      BY <2>2, <2>6, <2>12, <3>1
    <3>3. rh' = IF rh <= RhLength /\ elapsed = RtEnd /\ ~counted THEN rh + 1 ELSE rh
      BY <2>1, <2>2, <2>3, <2>7, <2>12, <3>1
    <3>4. FromReference'
      <4>1. /\ origin \in 1 .. WaveEnd /\ ref <= RefEnd /\ (elapsed = 0 => counted)
            /\ elapsed < RefEnd => ref <= elapsed + Now
            /\ elapsed < RefEnd /\ pure /\ ref = elapsed + Now
                  => wave = origin + elapsed /\ (counted => wave <= RefEnd)
            /\ pure /\ ref = RefEnd => origin = 1
        BY <2>12 DEF CountInv, FromReference
      <4>2. elapsed < RefEnd => ref' <= elapsed + 1
        BY <2>2, <3>1, <3>2, <4>1
      <4>3. ref' <= RefEnd
        BY <2>2, <3>1, <3>2, <4>1, RtrhAssumption
      <4>4. elapsed < RefEnd /\ pure' /\ ref' = elapsed + 1 => wave = origin + elapsed /\ wave <= RefEnd
        BY <2>2, <2>9, <2>12, <3>1, <3>2, <4>1
      <4>5. pure' /\ ref' = RefEnd => origin = 1
        BY <2>2, <2>9, <2>12, <3>1, <3>2, <4>1, <4>4, RtrhAssumption
      <4>6. QED
        BY <1>1, <2>1, <3>1, <4>1, <4>2, <4>3, <4>4, <4>5 DEF FromReference
    <3>5. FirstWave' /\ WaveOver' /\ SecondWave'
      <4> SUFFICES ASSUME origin = 1 PROVE FirstWave' /\ WaveOver' /\ SecondWave'
        BY <3>1 DEF FirstWave, WaveOver, SecondWave
      <4>1. CASE foreign = "none"
        <5>1. /\ elapsed < RtEnd => wave = elapsed + 1
              /\ elapsed = RtEnd => wave > RtEnd
              /\ wave <= RtEnd => rh = 0
              /\ wave > RtEnd => rh = wave - RtEnd - (1 - Now)
          BY <1>1, <2>12, <4>1 DEF CountInv, FirstWave
        <5>2. /\ wave <= RtEnd => rh' = 0
              /\ wave > RtEnd => rh' = wave - RtEnd
          BY <2>2, <3>1, <3>3, <5>1, RtrhAssumption DEF RhLength
        <5>3. foreign' = "none"
          BY <2>1, <4>1
        <5>4. FirstWave'
          BY <1>1, <2>1, <2>2, <3>1, <5>1, <5>2 DEF FirstWave
        <5>5. WaveOver' /\ SecondWave'
          BY <1>1, <5>3 DEF WaveOver, SecondWave
        <5>6. QED
          BY <5>4, <5>5
      <4>2. CASE foreign # "none"
        <5>1. foreign' = "taken"
          BY <2>1, <2>12, <4>2
        <5>2. rh' > RhLength
          <6>1. CASE foreign = "begun"
            <7>1. elapsed = RtEnd /\ rh = RhLength /\ ~counted
              BY <2>12, <6>1 DEF CountInv, WaveOver
            <7>2. QED
              BY <2>2, <2>3, <3>3, <7>1
          <6>2. CASE foreign = "taken"
            <7>1. rh > RhLength
              BY <2>12, <6>2 DEF CountInv, SecondWave
            <7>2. QED
              BY <2>2, <2>3, <3>3, <7>1
          <6>3. QED
            BY <4>2, <6>1, <6>2 DEF CountInv, CountType
        <5>3. QED
          BY <5>1, <5>2 DEF FirstWave, WaveOver, SecondWave, RhLength
      <4>3. QED
        BY <4>1, <4>2
    <3>6. QED
      BY <2>10, <3>4, <3>5 DEF CountInv
  <2>13. QED
    BY <2>2, <2>11, <2>12
<1>4. QED
  BY <1>2, <1>3

\* Nothing but an edge, the clock and the gadget changes the count.
LEMMA CountStep == CountInv /\ BeginInv /\ BeginInv' /\ [RtrhNext]_rtrhVars => CountInv'
<1> SUFFICES ASSUME CountInv, BeginInv, BeginInv', [RtrhNext]_rtrhVars PROVE CountInv'
  OBVIOUS
<1>1. CASE LoopStep
  <2>1. collecting' => collecting
    BY <1>1 DEF LoopStep, PassStarts, DiscardCompare, DiscardEnds, CollectClock, CollectCompare, CollectEnds,
                finalize_measurement, Poll, stateVars
  <2>2. UNCHANGED <<wave, unseen, elapsed, counted, ref, rh, pure, origin, foreign>>
    BY <1>1 DEF LoopStep, PassStarts, DiscardCompare, DiscardEnds, CollectClock, CollectCompare, CollectEnds,
                Poll, lineVars, timeVars, accumVars
  <2>3. QED
    BY <2>1, <2>2, CountKept
<1>2. CASE StallChange \/ WindowCloses \/ UNCHANGED rtrhVars
  <2>1. UNCHANGED <<wave, unseen, elapsed, counted, ref, rh, pure, origin, foreign, collecting>>
    BY <1>2 DEF StallChange, WindowCloses, rtrhVars, lineVars, stateVars, timeVars, accumVars
  <2>2. QED
    BY <2>1, CountKept
<1>3. QED
  BY <1>1, <1>2, CountWaveStarts, CountTick, CountEdge DEF RtrhNext

\* A measurement is passed on as it is when it ends.
LEMMA ValidStep == CountInv /\ ValidIsOneWave /\ [RtrhNext]_rtrhVars => ValidIsOneWave'
<1> SUFFICES ASSUME CountInv, ValidIsOneWave, [RtrhNext]_rtrhVars PROVE ValidIsOneWave'
  OBVIOUS
<1>1. CASE snapshot' = snapshot /\ (fresh' => fresh)
  BY <1>1 DEF ValidIsOneWave
<1>2. CASE collecting /\ finalize_measurement
  <2>1. CASE ref = 0 \/ rt = 0 \/ rh = 0
    BY <1>1, <1>2, <2>1 DEF finalize_measurement
  <2>2. CASE ~(ref = 0 \/ rt = 0 \/ rh = 0)
    <3>1. snapshot' = [temperature |-> TemperatureValid, humidity |-> TemperatureValid /\ RhPlausible,
                       aligned |-> origin = 1, single |-> foreign # "taken"]
      BY <1>2, <2>2 DEF finalize_measurement
    <3>2. TemperatureValid => origin = 1
      BY <1>2 DEF CountInv, FromReference, TemperatureValid
    <3>3. TemperatureValid /\ RhPlausible => foreign # "taken"
      <4>1. RhPlausible => ~(rh > RhLength)
        BY RtrhAssumption DEF RhPlausible, RhLength
      <4>2. QED
        BY <1>2, <3>2, <4>1 DEF CountInv, SecondWave
    <3>4. QED
      BY <3>1, <3>2, <3>3 DEF ValidIsOneWave
  <2>3. QED
    BY <2>1, <2>2
<1>3. CASE CollectEnds
  BY <1>1, <1>2, <1>3 DEF CollectEnds
<1>4. CASE WaveStarts \/ Tick \/ StallChange \/ WindowCloses \/ Edge \/ UNCHANGED rtrhVars
  BY <1>1, <1>4 DEF WaveStarts, Tick, StallChange, WindowCloses, Edge, rtrhVars, pollVars
<1>5. CASE PassStarts \/ DiscardCompare \/ DiscardEnds \/ CollectClock \/ CollectCompare \/ Poll
  BY <1>1, <1>5 DEF PassStarts, DiscardCompare, DiscardEnds, CollectClock, CollectCompare, Poll, pollVars
<1>6. QED
  BY <1>3, <1>4, <1>5 DEF RtrhNext, LoopStep

\* Wherever in a waveform the device was started and however long the main loop was
\* away: what has a valid temperature began with its waveform, what has a valid
\* humidity is made of a single one.
THEOREM ValidMeasurementsAreOneWave == RtrhSpec => []ValidIsOneWave
<1>1. RtrhInit => ValidIsOneWave
  BY DEF RtrhInit, ValidIsOneWave
<1>2. QED
  BY <1>1, BeginInit, BeginStep, CountInit, CountStep, ValidStep, PTL DEF RtrhSpec

=============================================================================
