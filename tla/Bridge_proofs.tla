--------------------------- MODULE Bridge_proofs ---------------------------
(* Proofs about the two compositions that stand on the gadget bridge:         *)
(* GadgetControl, for all phones, names, records and delays, and SamplePath,  *)
(* for every set of readings and every delay.                                 *)
(*                                                                            *)
(* BondInv: a window that is open, or a comparison that was confirmed in one, *)
(* is an opening that has not let anybody in yet; a success takes both away.  *)
(* SavedInv: settings that do not count as dirty are what is in flash, or     *)
(* what loading it makes of it, and nothing else is staged.                   *)
(*                                                                            *)
(* Of a suspect reading the code keeps one flag and one candidate; what they  *)
(* are meant to say is the history in suspect and last.  ConfirmInv ties the  *)
(* two together: a disturbance that is not lived down always has the flag up, *)
(* and with the flag up the candidate is the last plausible reading since     *)
(* the disturbance.  PendingInv does the same for the coalescer: what is      *)
(* pending is what its source said last.                                      *)
EXTENDS GadgetControl, SamplePath, FiniteSetTheorems, TLAPS

(***************************************************************************)
(* Bonds.                                                                  *)
(***************************************************************************)

BondInv ==
    /\ IsFiniteSet(bonded) /\ opened \in Nat
    /\ pairing_mode \in BOOLEAN /\ link \in {"open", "confirmed", "secure"}
    /\ Cardinality(bonded) <= opened
    /\ pairing_mode \/ link = "confirmed" => Cardinality(bonded) < opened

bondVars == <<pairing_mode, link, bonded, opened>>

LEMMA BondFrame == BondInv /\ UNCHANGED bondVars => BondInv'
BY DEF BondInv, bondVars

LEMMA AuthBonds ==
    ASSUME BondInv, NEW ok \in BOOLEAN, AuthComplete(ok)
    PROVE  BondInv'
<1>1. /\ link # "secure"
      /\ ok => link = "confirmed" \/ peer \in bonded
      /\ pairing_mode' = (pairing_mode /\ ~ok)
      /\ link' = IF ok THEN "secure" ELSE "open"
      /\ bonded' = IF ok THEN bonded \cup {peer} ELSE bonded
      /\ opened' = opened
  BY DEF AuthComplete, OpenAfter
<1>2. CASE ~ok
  BY <1>1, <1>2 DEF BondInv
<1>3. CASE ok
  <2>1. IsFiniteSet(bonded') /\ Cardinality(bonded) \in Nat
        /\ Cardinality(bonded') = IF peer \in bonded THEN Cardinality(bonded) ELSE Cardinality(bonded) + 1
    BY <1>1, <1>3, FS_AddElement, FS_CardinalityType DEF BondInv
  <2>2. Cardinality(bonded') <= opened
    BY <1>1, <1>3, <2>1 DEF BondInv
  <2>3. QED
    BY <1>1, <1>3, <2>1, <2>2 DEF BondInv
<1>4. QED
  BY <1>2, <1>3

LEMMA LinkBonds ==
    ASSUME BondInv, LinkEvent
    PROVE  BondInv'
<1>1. CASE Disconnect \/ \E p \in Peers : Connect(p)
  BY <1>1 DEF Disconnect, Connect, BondInv
<1>2. CASE NumericComparison
  BY <1>2 DEF NumericComparison, BondInv
<1>3. CASE \E ok \in BOOLEAN : AuthComplete(ok)
  BY <1>3, AuthBonds
<1>4. QED
  BY <1>1, <1>2, <1>3 DEF LinkEvent

LEMMA BondInit == GadgetInit => BondInv
<1> SUFFICES ASSUME GadgetInit PROVE BondInv
  OBVIOUS
<1>1. bonded \in Bonds /\ opened = Cardinality(bonded) /\ pairing_mode = FALSE /\ link = "open"
  BY DEF GadgetInit, PairingInit
<1>2. IsFiniteSet(bonded)
  BY <1>1, GadgetAssumption
<1>3. Cardinality(bonded) \in Nat
  BY <1>2, FS_CardinalityType
<1>4. opened \in Nat /\ Cardinality(bonded) <= opened
  BY <1>1, <1>3
<1>5. QED
  BY <1>1, <1>2, <1>4 DEF BondInv

LEMMA BondStep == BondInv /\ [GadgetNext]_gadgetVars => BondInv'
<1> SUFFICES ASSUME BondInv, [GadgetNext]_gadgetVars PROVE BondInv'
  OBVIOUS
<1>1. CASE BridgeLoop
  <2>1. pairing_mode' = (pairing_mode /\ pairing_age < PairingTime) /\ UNCHANGED <<link, bonded, opened>>
    BY <1>1 DEF BridgeLoop, process_pairing_window
  <2>2. pairing_mode' \in BOOLEAN /\ (pairing_mode' => pairing_mode)
    BY <2>1
  <2>3. QED
    BY <2>1, <2>2 DEF BondInv
<1>2. CASE Boot
  BY <1>2 DEF Boot, PairingBoot, BondInv
<1>3. CASE \E on \in BOOLEAN, own \in BOOLEAN : PairingSwitch(on, own)
  <2>1. PICK on \in BOOLEAN : /\ pairing_mode' = on /\ opened' = (IF on THEN opened + 1 ELSE opened)
                              /\ UNCHANGED <<link, bonded>>
    BY <1>3 DEF PairingSwitch, SetPairingMode
  <2>2. Cardinality(bonded) \in Nat
    BY FS_CardinalityType DEF BondInv
  <2>3. CASE on
    BY <2>1, <2>2, <2>3 DEF BondInv
  <2>4. CASE ~on
    BY <2>1, <2>4 DEF BondInv
  <2>5. QED
    BY <2>3, <2>4
<1>4. CASE LinkEvent
  BY <1>4, LinkBonds
<1>5. CASE MonitorLoop \/ Tick
  BY <1>5, BondFrame DEF MonitorLoop, process_ble_pairing_window, Tick, PairingTick, bondVars
<1>6. CASE PrepareForOta \/ PhoneWrites \/ Plug \/ StackEvent \/ \E enabled \in BOOLEAN : WifiHaSwitch(enabled)
  BY <1>6, BondFrame DEF PrepareForOta, PhoneWrites, Plug, StackEvent, WifiHaSwitch, pairingVars, bondVars
<1>7. CASE UNCHANGED gadgetVars
  BY <1>7, BondFrame DEF gadgetVars, pairingVars, bondVars
<1>8. QED
  BY <1>1, <1>2, <1>3, <1>4, <1>5, <1>6, <1>7 DEF GadgetNext

\* The window has been opened at least as often as there are bonded phones, however
\* confirmations, windows that close, disconnections and restarts cross each other.
THEOREM BondsAreAuthorised == GadgetSpec => []BondsAuthorised
<1>1. BondInv => BondsAuthorised
  BY DEF BondInv, BondsAuthorised
<1>2. GadgetSpec => GadgetInit /\ [][GadgetNext]_gadgetVars
  BY PTL DEF GadgetSpec, GadgetRuns
<1>3. QED
  BY <1>1, <1>2, BondInit, BondStep, PTL

(***************************************************************************)
(* Settings.                                                               *)
(***************************************************************************)

Stored == Settings \cup {NoRecord}

SavedInv ==
    /\ settings \in Settings /\ flash \in Stored /\ staged \in Stored /\ dirty \in BOOLEAN
    /\ ~dirty => staged = flash /\ settings \in {flash, Loaded(flash)}

savedVars == <<settings, dirty, staged, flash>>

LEMMA SavedFrame == SavedInv /\ UNCHANGED savedVars => SavedInv'
BY DEF SavedInv, savedVars

LEMMA LoadedType == \A record \in Stored : Loaded(record) \in Settings
<1> SUFFICES ASSUME NEW record \in Stored PROVE Loaded(record) \in Settings
  OBVIOUS
<1>1. CASE record = NoRecord
  BY <1>1 DEF Loaded, Settings, KnownNames
<1>2. CASE record # NoRecord
  <2>1. record \in Settings
    BY <1>2 DEF Stored
  <2>2. Shortened(record.alternative_name) \in KnownNames
    BY <2>1, GadgetAssumption DEF Settings
  <2>3. Migrated(Shortened(record.alternative_name)) \in KnownNames
    BY <2>2 DEF Migrated, KnownNames
  <2>4. Loaded(record) = [record EXCEPT !.alternative_name = Migrated(Shortened(record.alternative_name))]
    BY <1>2 DEF Loaded
  <2>5. QED
    BY <2>1, <2>3, <2>4 DEF Settings
<1>3. QED
  BY <1>1, <1>2

\* Loading changes nothing of a record but two kinds of names.
LEMMA LoadedKeeps ==
    ASSUME NEW record \in Settings
    PROVE  /\ Loaded(record).log_enabled = record.log_enabled
           /\ record.alternative_name # LegacyName /\ Shortened(record.alternative_name) = record.alternative_name
                 => Loaded(record).alternative_name = record.alternative_name
<1>1. record # NoRecord
  BY GadgetAssumption DEF Settings
<1>2. Loaded(record) = [record EXCEPT !.alternative_name = Migrated(Shortened(record.alternative_name))]
  BY <1>1 DEF Loaded
<1>3. QED
  BY <1>2 DEF Migrated, Settings

LEMMA SavedInit == GadgetInit => SavedInv
<1> SUFFICES ASSUME GadgetInit PROVE SavedInv
  OBVIOUS
<1>1. flash \in Stored /\ staged = flash /\ settings = Loaded(flash) /\ dirty = FALSE
  BY GadgetAssumption DEF GadgetInit, SettingsInit, Stored
<1>2. QED
  BY <1>1, LoadedType DEF SavedInv

LEMMA PersistSaves ==
    ASSUME SavedInv, NEW force, NEW outcome \in Outcomes, persist_settings(force, outcome),
           settings' = settings
    PROVE  SavedInv'
<1>1. CASE UNCHANGED <<dirty, staged, flash>>
  BY <1>1, SavedFrame DEF savedVars
<1>2. CASE ~UNCHANGED <<dirty, staged, flash>>
  <2>1. /\ dirty' = StillDirty(outcome)
        /\ staged' = IF outcome = "save_failed" THEN staged ELSE settings
        /\ CASE outcome = "synced"      -> flash' = settings
             [] outcome = "sync_failed" -> flash' \in {flash, settings}
             [] OTHER                   -> UNCHANGED flash
    BY <1>2 DEF persist_settings
  <2>2. CASE outcome = "synced"
    BY <2>1, <2>2 DEF SavedInv, StillDirty, Stored
  <2>3. CASE outcome = "sync_failed"
    BY <2>1, <2>3 DEF SavedInv, StillDirty, Stored
  <2>4. CASE outcome = "save_failed"
    BY <2>1, <2>4 DEF SavedInv, StillDirty, Stored
  <2>5. QED
    BY <2>2, <2>3, <2>4 DEF Outcomes
<1>3. QED
  BY <1>1, <1>2

\* A change is dirty, and of a setting.
LEMMA ChangeIsDirty ==
    ASSUME SavedInv, NEW new \in Settings, Change(new), UNCHANGED <<staged, flash>>
    PROVE  SavedInv'
BY DEF SavedInv, Change

LEMMA SavedStep == SavedInv /\ [GadgetNext]_gadgetVars => SavedInv'
<1> SUFFICES ASSUME SavedInv, [GadgetNext]_gadgetVars PROVE SavedInv'
  OBVIOUS
<1>1. CASE BridgeLoop
  BY <1>1, PersistSaves DEF BridgeLoop, SettingsLoop
<1>2. CASE PrepareForOta
  BY <1>2, PersistSaves DEF PrepareForOta, SettingsFlush
<1>3. CASE Boot
  <2>1. settings' = Loaded(flash) /\ staged' = flash /\ dirty' = FALSE /\ flash' = flash
    BY <1>3 DEF Boot, SettingsBoot
  <2>2. QED
    BY <2>1, LoadedType DEF SavedInv
<1>4. CASE \E enabled \in BOOLEAN : WifiHaSwitch(enabled)
  <2>1. PICK enabled \in BOOLEAN : SetHaDisabled(~enabled) /\ UNCHANGED <<staged, flash>>
    BY <1>4 DEF WifiHaSwitch
  <2>2. CASE UNCHANGED <<settings, dirty>>
    BY <2>1, <2>2, SavedFrame DEF savedVars
  <2>3. CASE Change([settings EXCEPT !.log_enabled = ~enabled])
    <3>1. [settings EXCEPT !.log_enabled = ~enabled] \in Settings
      BY DEF SavedInv, Settings
    <3>2. QED
      BY <2>1, <2>3, <3>1, ChangeIsDirty
  <2>4. QED
    BY <2>1, <2>2, <2>3 DEF SetHaDisabled
<1>5. CASE PhoneWrites
  <2>1. UNCHANGED <<staged, flash>>
    BY <1>5 DEF PhoneWrites
  <2>2. CASE \E value \in BOOLEAN : WriteLogEnabled(value)
    <3>1. PICK value \in BOOLEAN : Change([settings EXCEPT !.log_enabled = value])
      BY <2>2 DEF WriteLogEnabled
    <3>2. [settings EXCEPT !.log_enabled = value] \in Settings
      BY DEF SavedInv, Settings
    <3>3. QED
      BY <2>1, <3>1, <3>2, ChangeIsDirty
  <2>3. CASE \E name \in Names : WriteName(name)
    <3>1. PICK name \in Names : Change([settings EXCEPT !.alternative_name = name])
      BY <2>3 DEF WriteName
    <3>2. [settings EXCEPT !.alternative_name = name] \in Settings
      BY DEF SavedInv, Settings, KnownNames
    <3>3. QED
      BY <2>1, <3>1, <3>2, ChangeIsDirty
  <2>4. QED
    BY <1>5, <2>2, <2>3 DEF PhoneWrites
<1>6. CASE StackEvent
  <2>1. CASE UNCHANGED <<settings, dirty, staged, flash>>
    BY <2>1, SavedFrame DEF savedVars
  <2>2. CASE SyncElsewhere
    BY <2>2 DEF SyncElsewhere, SavedInv
  <2>3. QED
    BY <1>6, <2>1, <2>2 DEF StackEvent, ServiceEvent
<1>7. CASE MonitorLoop \/ Tick \/ Plug \/ LinkEvent \/ \E on \in BOOLEAN, own \in BOOLEAN : PairingSwitch(on, own)
  BY <1>7, SavedFrame DEF MonitorLoop, Tick, Plug, LinkEvent, PairingSwitch, settingsVars, savedVars
<1>8. CASE UNCHANGED gadgetVars
  BY <1>8, SavedFrame DEF gadgetVars, settingsVars, savedVars
<1>9. QED
  BY <1>1, <1>2, <1>3, <1>4, <1>5, <1>6, <1>7, <1>8 DEF GadgetNext

\* What counts as saved is what a restart finds, whichever of save, sync and the
\* backend's own sync failed or came first.
THEOREM SettingsDoSurvive == GadgetSpec => SettingsSurvive
<1> DEFINE Found ==
      Boot /\ ~dirty =>
         /\ settings'.log_enabled = settings.log_enabled
         /\ LET name == settings.alternative_name
            IN name # LegacyName /\ Shortened(name) = name => settings'.alternative_name = name
<1>1. SavedInv /\ [GadgetNext]_gadgetVars => [Found]_gadgetVars
  <2> SUFFICES ASSUME SavedInv, Boot, ~dirty PROVE Found
    OBVIOUS
  <2>1. settings' = Loaded(flash) /\ settings \in Settings /\ settings \in {flash, Loaded(flash)}
    BY DEF Boot, SettingsBoot, SavedInv
  <2>2. CASE settings = Loaded(flash)
    BY <2>1, <2>2
  <2>3. CASE settings = flash
    BY <2>1, <2>3, LoadedKeeps
  <2>4. QED
    BY <2>1, <2>2, <2>3
<1>2. GadgetSpec => GadgetInit /\ [][GadgetNext]_gadgetVars
  BY PTL DEF GadgetSpec, GadgetRuns
<1>3. QED
  BY <1>1, <1>2, SavedInit, SavedStep, PTL DEF SettingsSurvive


ConfirmInv ==
    /\ required \in BOOLEAN /\ suspect \in BOOLEAN
    /\ suspect => required
    /\ required => candidate = last

PendingInv ==
    /\ pending \subseteq Sources
    /\ reported \in [Sources -> {"nothing", "valid", "invalid"}]
    /\ \A s \in pending : reported[s] = "valid"

(***************************************************************************)
(* Confirmation of suspect readings.                                       *)
(***************************************************************************)

\* The steps that leave the confirmation alone are all but those of a capture.
LEMMA OnlyCaptures ==
    ASSUME SampleNext, ~Co2Capture
    PROVE  UNCHANGED co2Vars
<1>1. CASE MaybePublish
  BY <1>1 DEF MaybePublish
<1>2. CASE PolicyChange \/ PolicyAgain
  BY <1>2 DEF PolicyChange, PolicyAgain
<1>3. CASE SwitchWifi
  BY <1>3 DEF SwitchWifi
<1>4. CASE ProbeStops \/ ProbeRead \/ ProbeStarts
  BY <1>4 DEF ProbeStops, ProbeRead, ProbeStarts
<1>5. CASE \E air \in BOOLEAN : RtrhValid(air) \/ RtrhRetained(air)
  BY <1>5 DEF RtrhValid, RtrhRetained
<1>6. CASE ExternalReport \/ ExternalCommit
  BY <1>6 DEF ExternalReport, ExternalCommit
<1>7. CASE SampleTick
  BY <1>7 DEF SampleTick
<1>8. QED
  BY <1>1, <1>2, <1>3, <1>4, <1>5, <1>6, <1>7 DEF SampleNext

\* One capture: the flag and the candidate follow the history, and a reading that
\* is accepted is not under suspicion.
LEMMA CaptureConfirms ==
    ASSUME ConfirmInv, NEW errors \in BOOLEAN, NEW ppm, Capture(errors, ppm)
    PROVE  ConfirmInv' /\ (co2' # co2 => ~suspect')
<1> DEFINE req   == required \/ errors
           cand  == IF errors THEN None ELSE candidate
           doubt == suspect \/ errors
           prev  == IF errors THEN None ELSE last
           Confirmed == prev # None /\ Agree(ppm, prev)
<1>1. (doubt => req) /\ (req => cand = prev)
  BY DEF ConfirmInv
<1>2. req \in BOOLEAN /\ doubt \in BOOLEAN
  BY DEF ConfirmInv
<1>3. CASE /\ ppm = None
           /\ required' = req /\ candidate' = cand /\ suspect' = doubt /\ last' = prev
           /\ UNCHANGED <<coreVars, haVars>>
  BY <1>1, <1>2, <1>3 DEF ConfirmInv, coreVars
<1>4. CASE /\ required' = TRUE /\ candidate' = None /\ suspect' = TRUE /\ last' = None
           /\ UNCHANGED <<coreVars, haVars>>
  BY <1>4 DEF ConfirmInv, coreVars
<1>5. CASE /\ last' = ppm /\ suspect' = (doubt /\ ~Confirmed)
           /\ req /\ (cand = None \/ ~Agree(ppm, cand))
           /\ required' = TRUE /\ candidate' = ppm /\ UNCHANGED <<coreVars, haVars>>
  <2>1. suspect' \in BOOLEAN
    BY <1>2, <1>5
  <2>2. QED
    BY <1>5, <2>1 DEF ConfirmInv, coreVars
<1>6. CASE /\ last' = ppm /\ suspect' = (doubt /\ ~Confirmed)
           /\ ~(req /\ (cand = None \/ ~Agree(ppm, cand)))
           /\ required' = FALSE /\ candidate' = None
  <2>1. doubt => Confirmed
    BY <1>1, <1>6
  <2>2. suspect' = FALSE
    BY <1>6, <2>1
  <2>3. QED
    BY <1>6, <2>2 DEF ConfirmInv
<1>7. QED
  BY <1>3, <1>4, <1>5, <1>6 DEF Capture, ErrorDrops

LEMMA ConfirmStep == ConfirmInv /\ [SampleNext]_sampleVars => ConfirmInv'
<1> SUFFICES ASSUME ConfirmInv, [SampleNext]_sampleVars PROVE ConfirmInv'
  OBVIOUS
<1>1. CASE Co2Capture
  BY <1>1, CaptureConfirms DEF Co2Capture
<1>2. CASE SampleNext /\ ~Co2Capture
  BY <1>2, OnlyCaptures DEF ConfirmInv, co2Vars
<1>3. CASE UNCHANGED sampleVars
  BY <1>3 DEF ConfirmInv, sampleVars, co2Vars
<1>4. QED
  BY <1>1, <1>2, <1>3

\* No reading of the passive path is accepted while a disturbance has not been
\* lived down by two plausible readings in a row that agree: the flag and the
\* candidate of process_co2_ are enough for that, whatever comes in between.
THEOREM GlitchesAreConfirmed == SampleSpec => GlitchesConfirmed
<1>1. SampleInit => ConfirmInv
  BY DEF SampleInit, ConfirmInv
<1>2. ConfirmInv /\ [SampleNext]_sampleVars => [AcceptsConfirmed]_sampleVars
  BY CaptureConfirms DEF AcceptsConfirmed, Co2Capture
<1>3. QED
  BY <1>1, <1>2, ConfirmStep, PTL DEF SampleSpec, GlitchesConfirmed

(***************************************************************************)
(* The coalescer.                                                          *)
(***************************************************************************)

LEMMA WritesPair ==
    ASSUME WritePair
    PROVE  PendingInv'
BY DEF WritePair, PendingInv, Nothing

\* A CO2 reading writes a complete pair over itself or leaves the core alone.
LEMMA AcceptKeeps ==
    ASSUME PendingInv, NEW ppm, NEW fromProbe, Accept(ppm, fromProbe)
    PROVE  PendingInv' /\ timer' = timer
<1>1. PublishCo2(ppm)
  BY DEF Accept
<1>2. CASE complete
  BY <1>1, <1>2, WritesPair DEF PublishCo2
<1>3. CASE ~complete
  BY <1>1, <1>3 DEF PublishCo2, PendingInv
<1>4. QED
  BY <1>2, <1>3

LEMMA NoteKeeps ==
    ASSUME PendingInv, NEW s \in Sources, NEW valid \in BOOLEAN, NoteExternal(s, valid)
    PROVE  PendingInv' /\ (timer' = timer \/ timer' = Coalesce)
<1>1. reported' = [reported EXCEPT ![s] = IF valid THEN "valid" ELSE "invalid"]
  BY DEF NoteExternal
<1>2. reported' \in [Sources -> {"nothing", "valid", "invalid"}]
  BY <1>1 DEF PendingInv
<1>3. CASE valid
  <2>1. pending' = pending \cup {s} /\ timer' = Coalesce
    BY <1>3 DEF NoteExternal
  <2>2. \A q \in pending' : reported'[q] = "valid"
    BY <1>1, <1>3, <2>1 DEF PendingInv
  <2>3. QED
    BY <1>2, <2>1, <2>2 DEF PendingInv
<1>4. CASE ~valid
  BY <1>2, <1>4 DEF NoteExternal, DropPending, PendingInv
<1>5. QED
  BY <1>3, <1>4

LEMMA CommitKeeps ==
    ASSUME PendingInv, CommitExternal
    PROVE  /\ PendingInv'
           /\ reported' = reported \/ \A s \in Sources : reported[s] = "valid"
<1>1. CASE pending = Sources
  BY <1>1, WritesPair DEF CommitExternal, PendingInv
<1>2. CASE pending # Sources
  BY <1>2 DEF CommitExternal, PendingInv
<1>3. QED
  BY <1>1, <1>2

\* A step keeps the invariant, and only the timer's own action turns it off.
TimerGoesOn == timer' = timer \/ timer' = Coalesce \/ timer # 0

LEMMA PendingStep ==
    ASSUME PendingInv, [SampleNext]_sampleVars
    PROVE  PendingInv' /\ (ExternalCommit \/ TimerGoesOn)
<1>1. CASE UNCHANGED <<pending, reported, timer>>
  BY <1>1 DEF PendingInv, TimerGoesOn
<1>2. CASE Co2Capture
  <2>1. PICK errors \in BOOLEAN, ppm \in Ppm \cup {None} : Capture(errors, ppm)
    BY <1>2 DEF Co2Capture
  <2>2. UNCHANGED coreVars \/ Accept(ppm, FALSE)
    BY <2>1 DEF Capture
  <2>3. CASE UNCHANGED coreVars
    BY <1>1, <2>3 DEF coreVars
  <2>4. CASE Accept(ppm, FALSE)
    BY <2>4, AcceptKeeps DEF TimerGoesOn
  <2>5. QED
    BY <2>2, <2>3, <2>4
<1>3. CASE ProbeRead
  <2>1. PICK ppm \in Ppm : Accept(ppm, TRUE)
    BY <1>3 DEF ProbeRead
  <2>2. QED
    BY <2>1, AcceptKeeps DEF TimerGoesOn
<1>4. CASE \E air \in BOOLEAN : RtrhValid(air)
  BY <1>4, WritesPair DEF RtrhValid, TimerGoesOn
<1>5. CASE ExternalReport
  BY <1>5, NoteKeeps DEF ExternalReport, TimerGoesOn
<1>6. CASE ExternalCommit
  BY <1>6, CommitKeeps DEF ExternalCommit
<1>7. CASE SampleTick
  BY <1>7 DEF SampleTick, CoreTick, PendingInv, TimerGoesOn
<1>8. CASE MaybePublish \/ PolicyChange \/ PolicyAgain \/ SwitchWifi
  <2>1. UNCHANGED coreVars
    BY <1>8 DEF MaybePublish, PolicyChange, PolicyAgain, SwitchWifi
  <2>2. QED
    BY <1>1, <2>1 DEF coreVars
<1>9. CASE ProbeStops \/ ProbeStarts \/ \E air \in BOOLEAN : RtrhRetained(air)
  <2>1. UNCHANGED coreVars
    BY <1>9 DEF ProbeStops, ProbeStarts, RtrhRetained
  <2>2. QED
    BY <1>1, <2>1 DEF coreVars
<1>10. CASE UNCHANGED sampleVars
  BY <1>1, <1>10 DEF sampleVars, coreVars
<1>11. QED
  BY <1>2, <1>3, <1>4, <1>5, <1>6, <1>7, <1>8, <1>9, <1>10 DEF SampleNext

\* A pair is committed from two sources only when the newest word of each is a
\* valid value: no sequence of reports, failures and publications in between
\* leaves a value pending that its source has taken back.
THEOREM NewestPairIsCommitted == SampleSpec => NewestPairCommitted
<1>1. SampleInit => PendingInv
  BY DEF SampleInit, CoreInit, PendingInv, Nothing
<1>2. PendingInv /\ [SampleNext]_sampleVars => PendingInv'
  BY PendingStep
<1>3. PendingInv /\ [SampleNext]_sampleVars => [CommitsNewest]_sampleVars
  <2> SUFFICES ASSUME PendingInv, [SampleNext]_sampleVars,
                      timer = 0, timer' = Off, reported # Nothing, reported' = Nothing
               PROVE  \A s \in Sources : reported[s] = "valid"
    BY DEF CommitsNewest
  <2>1. ~TimerGoesOn
    BY CoalesceAssumption DEF TimerGoesOn, Off
  <2>2. ExternalCommit
    BY <2>1, PendingStep
  <2>3. QED
    BY <2>2, CommitKeeps DEF ExternalCommit
<1>4. QED
  BY <1>1, <1>2, <1>3, PTL DEF SampleSpec, NewestPairCommitted
=============================================================================
