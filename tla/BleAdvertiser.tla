--------------------------- MODULE BleAdvertiser ---------------------------
(***************************************************************************)
(* sensirion_ble.cpp: the state machine that puts the current sample on    *)
(* the air, and the Bluetooth stack as that file uses it.                  *)
(*                                                                         *)
(* The functions of the file all run in the main task.  The stack takes    *)
(* requests in order, carries each out later and reports its completion,   *)
(* and connections, as events the main task dispatches in order.           *)
(* ESPHome's own advertiser uses the same stack: the advertisement with    *)
(* version 0 is ESPHome's.  The delays of the reassertion (100 to 500 ms)  *)
(* are left out: it comes at any time after it has been scheduled or, with *)
(* a prompt stack, after what was requested before has been answered.      *)
(***************************************************************************)
EXTENDS Integers, Sequences

FaultKinds == {"config call", "start call", "stop call",      \* an error code
               "config", "start", "foreign start", "stop"}    \* a failed completion

CONSTANTS
    Intervals,        \* the advertising intervals that are requested, in ms
    Faults,           \* the kinds of failure that occur
    MaxFaults,        \* bound on failures
    MaxStimuli        \* bound on samples, settings, policy changes, connections

ASSUME BleAssumption ==
    /\ Intervals \subseteq Nat
    /\ Faults \subseteq FaultKinds
    /\ MaxFaults \in Nat
    /\ MaxStimuli \in Nat

VARIABLES
    adv_state, advertisement, configured_version, advertise_data_enabled,
    advertising_interval_ms, gatt_connected, restart_pending,
    sample_complete,  \* the bridge core holds a complete sample
    ble_active, air, linked, requests, events,     \* the Bluetooth stack
    prompt,           \* the stack answers within the delay of a reassertion
    stimuli, faults   \* how many more there may be

machineVars == <<adv_state, configured_version, restart_pending>>
stackVars   == <<ble_active, air, linked, prompt>>
settingVars == <<advertisement, advertise_data_enabled, advertising_interval_ms, sample_complete>>
bleVars     == <<machineVars, stackVars, settingVars, gatt_connected, requests, events, stimuli, faults>>

-----------------------------------------------------------------------------
(* Requests and events. *)

EspHome == [version |-> 0, live |-> FALSE]
Ready(ad) == ad.version > 0      \* advertisement_ready

Config(ad) == [op |-> "config", data |-> ad]
Start(ad, interval) == [op |-> "start", data |-> ad, interval |-> interval]
Stop == [op |-> "stop"]
Event(kind, ok) == [kind |-> kind, ok |-> ok]

Fails(kind) == kind \in Faults /\ faults > 0 /\ faults' = faults - 1
Stimulus    == stimuli > 0 /\ stimuli' = stimuli - 1

\* ESPHome starts its own advertiser.
ForeignRequests == <<Config(EspHome), Start(EspHome, 0)>>

-----------------------------------------------------------------------------
(* The helpers.  Each sets adv_state, configured_version, restart_pending,   *)
(* requests and faults; pending is restart_pending as the caller leaves it.  *)

Enter(state, pending) ==
    /\ adv_state' = state
    /\ restart_pending' = pending
    /\ UNCHANGED <<configured_version, requests, faults>>

\* An accepted request is queued; a refused one falls back on the reassertion.
Request(r, state, pending, refusal) ==
    \/ /\ adv_state' = state
       /\ restart_pending' = pending
       /\ requests' = Append(requests, r)
       /\ UNCHANGED faults
    \/ /\ Fails(refusal)
       /\ adv_state' = "IDLE"
       /\ restart_pending' = TRUE
       /\ UNCHANGED requests

\* Called in state IDLE.
configure_advertisement(ad, pending) ==
    IF ~Ready(ad) \/ gatt_connected
    THEN Enter("IDLE", pending)
    ELSE /\ configured_version' = ad.version
         /\ Request(Config(ad), "CONFIGURING", pending, "config call")

\* The callers have checked that no central is connected.  The stack may refuse
\* to stop what is not on the air; the payload is then configured at once.
stop_advertising(ad, pending) ==
    \/ /\ adv_state' = "STOPPING"
       /\ restart_pending' = pending
       /\ requests' = Append(requests, Stop)
       /\ UNCHANGED <<configured_version, faults>>
    \/ /\ ~air.on
       /\ configure_advertisement(ad, pending)
    \/ /\ Fails("stop call")
       /\ configured_version' = ad.version
       /\ \/ /\ adv_state' = "CONFIGURING"
             /\ restart_pending' = pending
             /\ requests' = Append(requests, Config(ad))
          \/ /\ "config call" \in Faults    \* refused as well
             /\ adv_state' = "IDLE"
             /\ restart_pending' = TRUE
             /\ UNCHANGED requests

request_refresh(ad, state, pending) ==
    IF ~Ready(ad) \/ ~ble_active \/ gatt_connected
    THEN Enter(state, pending)
    ELSE CASE state = "ADVERTISING" -> stop_advertising(ad, pending)
           [] state = "IDLE"        -> configure_advertisement(ad, pending)
           [] OTHER                 -> Enter(state, pending)

-----------------------------------------------------------------------------
(* Calls from the main task. *)

BleInit ==
    /\ adv_state = "IDLE"
    /\ advertisement = [version |-> 0, live |-> TRUE]
    /\ configured_version = 0
    /\ advertise_data_enabled \in BOOLEAN
    /\ advertising_interval_ms = 2000
    /\ gatt_connected = FALSE
    /\ restart_pending = FALSE
    /\ sample_complete = FALSE
    /\ ble_active = FALSE
    /\ air = [on |-> FALSE, data |-> EspHome, interval |-> 0]
    /\ linked = FALSE
    /\ requests = <<>>
    /\ events = <<>>
    /\ prompt \in BOOLEAN
    /\ stimuli = MaxStimuli
    /\ faults \in 0 .. MaxFaults

build_advertisement(enabled) ==
    LET ad == [version |-> advertisement.version + 1, live |-> enabled]
    IN  /\ advertisement' = ad
        /\ request_refresh(ad, adv_state, restart_pending)

\* A reading completes or renews the sample; commit_live_advertisement follows.
PublishSample ==
    /\ Stimulus
    /\ sample_complete' = TRUE
    /\ build_advertisement(advertise_data_enabled)
    /\ UNCHANGED <<advertise_data_enabled, advertising_interval_ms, gatt_connected, stackVars, events>>

SetAdvertiseDataEnabled ==
    /\ Stimulus
    /\ advertise_data_enabled' = ~advertise_data_enabled
    /\ IF sample_complete
       THEN build_advertisement(advertise_data_enabled')
       ELSE UNCHANGED <<advertisement, machineVars, requests, faults>>
    /\ UNCHANGED <<advertising_interval_ms, sample_complete, gatt_connected, stackVars, events>>

Clamped(interval) ==
    IF interval < 20 THEN 20 ELSE IF interval > 10240 THEN 10240 ELSE interval

SetAdvertisingInterval ==
    /\ Stimulus
    /\ \E interval \in Intervals :
          /\ Clamped(interval) # advertising_interval_ms
          /\ advertising_interval_ms' = Clamped(interval)
    /\ request_refresh(advertisement, adv_state, restart_pending)
    /\ UNCHANGED <<advertisement, advertise_data_enabled, sample_complete, gatt_connected, stackVars, events>>

\* (ReassertWhileConnected: the connection is not looked at.)
ReassertWhileConnected ==
    /\ restart_pending /\ Ready(advertisement) /\ ble_active
    /\ stop_advertising(advertisement, FALSE)
    /\ UNCHANGED <<settingVars, gatt_connected, stackVars, events, stimuli>>

\* The reassertion stops whatever is on the air, in whatever state.
Loop ==
    /\ restart_pending /\ ~gatt_connected /\ Ready(advertisement) /\ ble_active
    /\ prompt => requests = <<>> /\ events = <<>>
    /\ stop_advertising(advertisement, FALSE)
    /\ UNCHANGED <<settingVars, gatt_connected, stackVars, events, stimuli>>

-----------------------------------------------------------------------------
(* Events dispatched by the main task. *)

DataSetComplete(ok) ==
    IF adv_state # "CONFIGURING" THEN Enter(adv_state, restart_pending)
    ELSE IF ~ok \/ gatt_connected THEN Enter("IDLE", restart_pending)
    ELSE /\ Request(Start(advertisement, advertising_interval_ms), "STARTING", restart_pending, "start call")
         /\ UNCHANGED configured_version

\* (StartedIsDone: a payload built while the start was under way is forgotten.)
StartedIsDone(ok) ==
    IF adv_state = "STARTING"
    THEN Enter(IF ok THEN "ADVERTISING" ELSE "IDLE", ~ok)
    ELSE Enter(adv_state, restart_pending)

StartComplete(ok) ==
    CASE adv_state = "STARTING" /\ ok ->
           IF configured_version = advertisement.version
           THEN Enter("ADVERTISING", FALSE)
           ELSE request_refresh(advertisement, "ADVERTISING", FALSE)
      [] adv_state = "STARTING" /\ ~ok -> Enter("IDLE", TRUE)
      [] adv_state # "STARTING" ->
           IF ok /\ ~gatt_connected /\ Ready(advertisement)
           THEN Enter("ADVERTISING", TRUE)         \* a foreign advertiser
           ELSE Enter(adv_state, restart_pending)

StopComplete ==
    IF adv_state = "STOPPING"
    THEN configure_advertisement(advertisement, restart_pending)
    ELSE Enter(adv_state, restart_pending)

\* (LeftToEspHome: ESPHome's advertiser is relied on after a connection.)
LeftToEspHome == Enter("IDLE", restart_pending)

Disconnected ==
    /\ adv_state' = "IDLE"
    /\ restart_pending' = (restart_pending \/ Ready(advertisement))
    /\ requests' \in {requests, requests \o ForeignRequests}
    /\ UNCHANGED <<configured_version, faults>>

Dispatch ==
    /\ events # <<>>
    /\ events' = Tail(events)
    /\ LET e == Head(events)
       IN  /\ \/ e.kind = "DATA_SET"   /\ DataSetComplete(e.ok)
              \/ e.kind = "START"      /\ StartComplete(e.ok)
              \/ e.kind = "STOP"       /\ StopComplete
              \/ e.kind = "CONNECT"    /\ Enter("IDLE", restart_pending)
              \/ e.kind = "DISCONNECT" /\ Disconnected
           /\ gatt_connected' = IF e.kind \in {"CONNECT", "DISCONNECT"} THEN e.kind = "CONNECT"
                                ELSE gatt_connected
    /\ UNCHANGED <<settingVars, stackVars, stimuli>>

-----------------------------------------------------------------------------
(* The Bluetooth stack. *)

Activate ==
    /\ ~ble_active
    /\ ble_active' = TRUE
    /\ requests' = requests \o ForeignRequests
    /\ UNCHANGED <<machineVars, settingVars, air, linked, prompt, gatt_connected, events, stimuli, faults>>

\* ESPHome's data are not set as raw data: their completion is another event.
ExecuteConfig(r) ==
    LET report(ok) == IF Ready(r.data) THEN Append(events, Event("DATA_SET", ok)) ELSE events
    IN  \/ /\ air' = [air EXCEPT !.data = r.data]
           /\ events' = report(TRUE)
           /\ UNCHANGED faults
        \/ /\ Ready(r.data) /\ Fails("config")
           /\ events' = report(FALSE)
           /\ UNCHANGED air

\* While a central is connected a start may be refused.
ExecuteStart(r) ==
    \/ /\ air' = [air EXCEPT !.on = TRUE, !.interval = r.interval]
       /\ events' = Append(events, Event("START", TRUE))
       /\ UNCHANGED faults
    \/ /\ \/ linked /\ UNCHANGED faults
          \/ ~linked /\ Fails(IF Ready(r.data) THEN "start" ELSE "foreign start")
       /\ events' = Append(events, Event("START", FALSE))
       /\ UNCHANGED air

ExecuteStop(r) ==
    /\ \/ air' = [air EXCEPT !.on = FALSE] /\ UNCHANGED faults
       \/ air.on /\ Fails("stop") /\ UNCHANGED air
    /\ events' = Append(events, Event("STOP", ~air'.on))

Execute ==
    /\ requests # <<>>
    /\ requests' = Tail(requests)
    /\ LET r == Head(requests)
       IN  \/ r.op = "config" /\ ExecuteConfig(r)
           \/ r.op = "start"  /\ ExecuteStart(r)
           \/ r.op = "stop"   /\ ExecuteStop(r)
    /\ UNCHANGED <<machineVars, settingVars, gatt_connected, ble_active, linked, prompt, stimuli>>

\* A connectable advertisement ends when a central connects.
Connect ==
    /\ Stimulus
    /\ air.on /\ ~linked
    /\ linked' = TRUE
    /\ air' = [air EXCEPT !.on = FALSE]
    /\ events' = Append(events, Event("CONNECT", TRUE))
    /\ UNCHANGED <<machineVars, settingVars, gatt_connected, ble_active, prompt, requests, faults>>

Disconnect ==
    /\ linked
    /\ linked' = FALSE
    /\ events' = Append(events, Event("DISCONNECT", TRUE))
    /\ UNCHANGED <<machineVars, settingVars, gatt_connected, ble_active, air, prompt, requests, stimuli, faults>>

BleNext ==
    \/ PublishSample \/ SetAdvertiseDataEnabled \/ SetAdvertisingInterval
    \/ Loop \/ Dispatch
    \/ Activate \/ Execute \/ Connect \/ Disconnect

BleSpec == BleInit /\ [][BleNext]_bleVars

\* The main loop keeps running and the stack carries out what it has accepted.
BleFairness ==
    /\ WF_bleVars(Loop)
    /\ WF_bleVars(Dispatch)
    /\ WF_bleVars(Execute)
    /\ WF_bleVars(Activate)

-----------------------------------------------------------------------------
(* Properties. *)

States == {"IDLE", "CONFIGURING", "STARTING", "ADVERTISING", "STOPPING"}

\* The advertisements built so far.
Built(version) == [version : 0 .. version, live : BOOLEAN]

\* The fields keep their types; the interval stays within what the controller
\* accepts (sensirion_ble.cpp:145-146) and no version is configured that has
\* not been built.
BleTypeOK ==
    /\ adv_state \in States
    /\ advertisement \in [version : Nat, live : BOOLEAN]
    /\ configured_version \in 0 .. advertisement.version
    /\ advertise_data_enabled \in BOOLEAN
    /\ advertising_interval_ms \in 20 .. 10240
    /\ gatt_connected \in BOOLEAN
    /\ restart_pending \in BOOLEAN
    /\ sample_complete \in BOOLEAN
    /\ ble_active \in BOOLEAN
    /\ air \in [on : BOOLEAN, data : Built(advertisement.version), interval : Nat]
    /\ linked \in BOOLEAN
    /\ prompt \in BOOLEAN
    /\ stimuli \in 0 .. MaxStimuli
    /\ faults \in 0 .. MaxFaults

\* The machine has nothing left to do and believes to be advertising.
Settled ==
    /\ requests = <<>> /\ events = <<>> /\ ~linked
    /\ adv_state = "ADVERTISING" /\ ~restart_pending

\* Whatever completions crossed each other, connections and ESPHome's advertiser
\* included: once the machine has settled in ADVERTISING the current payload is
\* on the air, and with it the last privacy choice.  Nothing would correct it
\* before the next sample.
SettledShowsCurrent ==
    Settled => /\ air.on
               /\ air.data = advertisement
               /\ air.data.live = advertise_data_enabled

\* docs/history/BLE_GATT_RELIABILITY_FIX.md:14-18: while a central is connected
\* the firmware requests nothing of the stack, whichever completion, timer or
\* sample comes.
QuietWhileConnected ==
    [][gatt_connected /\ gatt_connected' => Len(requests') <= Len(requests)]_bleVars

\* Once samples, settings and connections have stopped, and the failures that the
\* code reacts to, the payload built last is on the air for good, or a central stays
\* connected.  (A configuration that completes with an error schedules no
\* reassertion, sensirion_ble.cpp:166-169, nor does a foreign start that fails:
\* after one of them the air stays as it is until the next sample.)
PayloadReturns ==
    <>[](linked \/ ~Ready(advertisement) \/ (air.on /\ air.data = advertisement))

=============================================================================
