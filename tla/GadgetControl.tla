---------------------------- MODULE GadgetControl ----------------------------
(***************************************************************************)
(* The settings, the Wi-Fi switch and the pairing window together, as the  *)
(* bridge and the monitor run them: loop() of both components, the events  *)
(* of the Bluetooth stack, the switches of Home Assistant, the USB plug,   *)
(* and a restart at any point.  All of it runs in one task; a tick of the  *)
(* clock is a pass of its loop.                                            *)
(***************************************************************************)
EXTENDS DeviceSettings, WifiSwitch, PairingWindow

CONSTANT MaxEvents   \* bound: what users, phones, plugs do in one behaviour

ASSUME GadgetAssumption ==
    /\ NoRecord.alternative_name \notin KnownNames
    /\ Records \subseteq Settings
    /\ \A name \in KnownNames : Shortened(name) \in KnownNames
    /\ \A bonds \in Bonds : IsFiniteSet(bonds)
    /\ {PersistRetry, Debounce, StablePoll, DisableDelay, RecoveryWindow, PairingTime} \subseteq Nat \ {0}

VARIABLES
    events,   \* how many of them there were
    ran       \* the loops that ran since the last tick

gadgetVars == <<settingsVars, monitor, pin, pairingVars, events, ran>>

Components == {"bridge", "monitor"}

GadgetInit ==
    /\ SettingsInit /\ PairingInit
    /\ pin \in BOOLEAN
    /\ \E elapsed \in 0 .. Debounce : monitor = Booted(pin, elapsed)
    /\ events = 0 /\ ran = {}

\* An event that somebody or something causes.
Event == events < MaxEvents /\ events' = events + 1

-----------------------------------------------------------------------------

\* What comes of saving a change, if there is one.
Outcomes == {"synced"} \cup IF dirty THEN {"sync_failed", "save_failed"} ELSE {}

BridgeLoop ==
    /\ "bridge" \notin ran
    /\ \E outcome \in Outcomes : SettingsLoop(outcome)
    /\ process_pairing_window
    /\ ran' = ran \cup {"bridge"}
    /\ UNCHANGED <<monitor, pin, events>>

MonitorLoop ==
    /\ "monitor" \notin ran
    /\ monitor' = Loop(monitor, pin, settings.log_enabled)
    /\ process_ble_pairing_window
    /\ ran' = ran \cup {"monitor"}
    /\ UNCHANGED <<settingsVars, pin, events>>

Tick ==
    /\ ran = Components /\ ran' = {}
    /\ monitor' = WifiTick(monitor)
    /\ attempt' = Later(attempt, PersistRetry)
    /\ PairingTick
    /\ UNCHANGED <<settings, dirty, staged, flash, service, broken, pin,
                   pairing_mode, switch, peer, link, bonded, opened, events>>

\* Any restart, a planned one behind a flush.
Boot ==
    /\ Event
    /\ SettingsBoot /\ PairingBoot
    /\ \E elapsed \in 0 .. Debounce : monitor' = Booted(pin, elapsed)
    /\ ran' = {}
    /\ UNCHANGED pin

\* prepare_for_ota.
PrepareForOta ==
    /\ \E outcome \in Outcomes : SettingsFlush(outcome)
    /\ Event
    /\ UNCHANGED <<monitor, pin, pairingVars, ran>>

\* The switch in Home Assistant, which needs a network.
WifiHaSwitch(enabled) ==
    /\ monitor.up /\ Event
    /\ SetHaDisabled(~enabled)
    /\ monitor' = Set(monitor, enabled)
    /\ UNCHANGED <<attempt, staged, flash, service, broken, pin, pairingVars, ran>>

PairingSwitch(on, own) ==
    /\ monitor.up /\ Event
    /\ SetPairingMode(on, own)
    /\ UNCHANGED <<settingsVars, monitor, pin, ran>>

\* The phone's application, over a secure link.
PhoneWrites ==
    /\ link = "secure" /\ Event
    /\ \/ \E value \in BOOLEAN : WriteLogEnabled(value)
       \/ \E name \in Names : WriteName(name)
    /\ UNCHANGED <<attempt, staged, flash, service, broken, monitor, pin, pairingVars, ran>>

Plug ==
    /\ Event
    /\ pin' = ~pin
    /\ UNCHANGED <<settingsVars, monitor, pairingVars, ran>>

LinkEvent ==
    /\ \/ Disconnect \/ NumericComparison
       \/ \E p \in Peers : Connect(p)
       \/ \E ok \in BOOLEAN : AuthComplete(ok)
    /\ UNCHANGED <<settingsVars, monitor, pin, events, ran>>

StackEvent ==
    /\ \/ ServiceEvent(TRUE) /\ UNCHANGED events
       \/ ServiceEvent(FALSE) /\ Event
       \/ SyncElsewhere /\ Event
    /\ UNCHANGED <<monitor, pin, pairingVars, ran>>

GadgetNext ==
    \/ BridgeLoop \/ MonitorLoop \/ Tick
    \/ Boot \/ PrepareForOta
    \/ \E enabled \in BOOLEAN : WifiHaSwitch(enabled)
    \/ \E on \in BOOLEAN, own \in BOOLEAN : PairingSwitch(on, own)
    \/ PhoneWrites \/ Plug \/ LinkEvent \/ StackEvent

\* The main loop goes on, time passes, and saving that is tried again and again
\* succeeds once.
Saved == BridgeLoop /\ dirty /\ ~dirty'
GadgetRuns ==
    /\ [][GadgetNext]_gadgetVars
    /\ WF_gadgetVars(BridgeLoop) /\ WF_gadgetVars(MonitorLoop) /\ WF_gadgetVars(Tick)
    /\ SF_gadgetVars(Saved)
GadgetSpec == GadgetInit /\ GadgetRuns

-----------------------------------------------------------------------------
(* Properties. *)

\* A restart finds the settings as they were, once they count as saved, but for a
\* name that looks like the default of an older version or has a zero byte in it.
SettingsSurvive ==
    [][Boot /\ ~dirty =>
         /\ settings'.log_enabled = settings.log_enabled
         /\ LET name == settings.alternative_name
            IN name # LegacyName /\ Shortened(name) = name => settings'.alternative_name = name]_gadgetVars

\* A change is saved in the end, however many attempts failed before.
SettingsSettle == dirty ~> ~dirty

\* Wherever the setting was changed, and whatever recovery windows there were in
\* between: Wi-Fi ends up as the setting says.
WifiFollowsSetting ==
    /\ <>[](~settings.log_enabled) => <>[]monitor.up
    /\ <>[]settings.log_enabled => <>[](~monitor.up)

\* Opening the window once lets one new phone in.
BondsAuthorised == Cardinality(bonded) <= opened

=============================================================================
