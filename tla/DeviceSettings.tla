---------------------------- MODULE DeviceSettings ----------------------------
(***************************************************************************)
(* sensirion_settings.cpp: the settings a phone reads and writes over GATT *)
(* and their preference record, of the identity without SHT43 probe (which *)
(* always advertises its data).                                            *)
(* "Log enabled" is the switch that disables Wi-Fi.  Everything runs in    *)
(* the main loop; the preference backend has a staging area of its own,    *)
(* which other components' syncs also write out.                           *)
(***************************************************************************)
EXTENDS Integers, Sequences

CONSTANTS
    Names,          \* of the device, as a phone may write them
    DefaultName,    \* configured in YAML
    LegacyName,     \* LEGACY_DEFAULT_NAME
    Shortened(_),   \* a name up to its first zero byte
    Records,        \* what may be in flash at first, besides nothing
    PersistRetry    \* ticks between two attempts to save

VARIABLES
    settings,   \* [log_enabled, alternative_name]
    dirty,      \* preference_dirty
    attempt,    \* ticks since the last attempt; PersistRetry also when there was none
    staged,     \* saved but not synced
    flash,      \* what a restart finds
    service,    \* how far the GATT service is built: an index of Construction
    broken      \* a step of it failed: none of them is retried

settingsVars == <<settings, dirty, attempt, staged, flash, service, broken>>

NoRecord == [log_enabled |-> FALSE, alternative_name |-> "none"]
KnownNames == Names \cup {DefaultName}
Settings == [log_enabled : BOOLEAN, alternative_name : KnownNames]

\* What the stack is asked for, each after the completion of the one before; the
\* four characteristics count as one request here.
Construction == <<"create", "add characteristics", "start">>
Started == Len(Construction) + 1

\* load_settings: a record with the name of an older version gets the configured one.
Migrated(name) == IF name = LegacyName THEN DefaultName ELSE name
Loaded(record) ==
    IF record = NoRecord THEN [log_enabled |-> FALSE, alternative_name |-> DefaultName]
    ELSE [record EXCEPT !.alternative_name = Migrated(Shortened(@))]

SettingsInit ==
    /\ flash \in Records \cup {NoRecord}
    /\ staged = flash
    /\ settings = Loaded(flash)
    /\ dirty = FALSE /\ attempt = PersistRetry
    /\ service = 0 /\ broken = FALSE

SettingsBoot ==
    /\ settings' = Loaded(flash)
    /\ staged' = flash
    /\ dirty' = FALSE /\ attempt' = PersistRetry
    /\ service' = 0 /\ broken' = FALSE
    /\ UNCHANGED flash

Change(new) == settings' = new /\ dirty' = TRUE

\* handle_write, which the permissions limit to an authenticated peer.
WriteLogEnabled(value) == service = Started /\ Change([settings EXCEPT !.log_enabled = value])
WriteName(name) == service = Started /\ Change([settings EXCEPT !.alternative_name = name])

\* sensirion_settings_set_ha_disabled.
SetHaDisabled(value) ==
    IF settings.log_enabled = value THEN UNCHANGED <<settings, dirty>>
    ELSE Change([settings EXCEPT !.log_enabled = value])

-----------------------------------------------------------------------------

\* The preference is saved, then synced; a sync that fails may have written it.
\* (ClearedBySave: the sync is not waited for; RestartsRetry: a loop that only
\* waits counts as an attempt.)
ClearedBySave(outcome) == outcome = "save_failed"
StillDirty(outcome) == outcome # "synced"
RestartsRetry(now) == TRUE
Attempts(now) == now

persist_settings(force, outcome) ==
    LET now == dirty /\ (force \/ attempt >= PersistRetry)
    IN /\ attempt' = IF dirty /\ Attempts(now) THEN 0 ELSE attempt
       /\ IF ~now THEN UNCHANGED <<dirty, staged, flash>>
          ELSE /\ dirty' = StillDirty(outcome)
               /\ staged' = IF outcome = "save_failed" THEN staged ELSE settings
               /\ CASE outcome = "synced"      -> flash' = settings
                    [] outcome = "sync_failed" -> flash' \in {flash, settings}
                    [] OTHER                   -> UNCHANGED flash

\* The service is requested once the BLE server runs.
RequestCreation == service' \in IF service = 0 THEN {0, 1} ELSE {service}

\* sensirion_settings_loop.
SettingsLoop(outcome) ==
    /\ persist_settings(FALSE, outcome)
    /\ RequestCreation
    /\ UNCHANGED <<settings, broken>>

\* sensirion_settings_flush.
SettingsFlush(outcome) ==
    /\ persist_settings(TRUE, outcome)
    /\ UNCHANGED <<settings, service, broken>>

\* The completion of a request makes the next one.
ServiceEvent(ok) ==
    /\ service \in DOMAIN Construction /\ ~broken
    /\ service' = IF ok THEN service + 1 ELSE service
    /\ broken' = ~ok
    /\ UNCHANGED <<settings, dirty, attempt, staged, flash>>

\* The preference backend's own sync.
SyncElsewhere ==
    /\ flash # staged /\ flash' = staged
    /\ UNCHANGED <<settings, dirty, attempt, staged, service, broken>>
=============================================================================
