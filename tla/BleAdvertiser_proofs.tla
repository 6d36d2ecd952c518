------------------------ MODULE BleAdvertiser_proofs ------------------------
(***************************************************************************)
(* Theorems of BleAdvertiser, for any number of samples, connections and   *)
(* failures and any stack, prompt or late.  The inductive invariant adds   *)
(* to BleTypeOK what the queues hold: no request carries a payload that    *)
(* has not been built.  Machine is the part the helpers change.            *)
(***************************************************************************)
EXTENDS BleAdvertiser, TLAPS

Requests(version) ==
    [op : {"config"}, data : Built(version)]
        \cup [op : {"start"}, data : Built(version), interval : Nat]
        \cup {Stop}

Events == [kind : {"DATA_SET", "START", "STOP", "CONNECT", "DISCONNECT"}, ok : BOOLEAN]

Machine(version) ==
    /\ adv_state \in States
    /\ configured_version \in 0 .. version
    /\ restart_pending \in BOOLEAN
    /\ requests \in Seq(Requests(version))
    /\ faults \in 0 .. MaxFaults

BleInv ==
    /\ BleTypeOK
    /\ requests \in Seq(Requests(advertisement.version))
    /\ events \in Seq(Events)

-----------------------------------------------------------------------------
(* The helpers. *)

\* What Enter leaves alone stays well formed.
LEMMA EnterMachine ==
    ASSUME NEW v \in Nat, NEW state \in States, NEW pending \in BOOLEAN,
           Machine(v), Enter(state, pending)
    PROVE  Machine(v)'
BY DEF Machine, Enter

\* A failure uses up one of those left.
LEMMA FailsBounds ==
    ASSUME NEW kind, faults \in 0 .. MaxFaults, Fails(kind)
    PROVE  faults' \in 0 .. MaxFaults
BY BleAssumption DEF Fails

\* A request is queued, or refused and the machine goes to IDLE.
LEMMA RequestMachine ==
    ASSUME NEW v \in Nat, NEW state \in States, NEW pending \in BOOLEAN, NEW kind,
           NEW r \in Requests(v), Machine(v),
           Request(r, state, pending, kind), configured_version' \in 0 .. v
    PROVE  Machine(v)'
<1>1. "IDLE" \in States
  BY DEF States
<1>2. faults' \in 0 .. MaxFaults
  BY FailsBounds DEF Request, Machine
<1>3. requests' \in Seq(Requests(v))
  BY DEF Request, Machine
<1>4. adv_state' \in States /\ restart_pending' \in BOOLEAN
  BY <1>1 DEF Request
<1>5. QED
  BY <1>2, <1>3, <1>4 DEF Machine

\* Configuring a payload that has been built.
LEMMA ConfigureMachine ==
    ASSUME NEW v \in Nat, NEW ad \in Built(v), NEW pending \in BOOLEAN,
           Machine(v), configure_advertisement(ad, pending)
    PROVE  Machine(v)'
<1>1. "IDLE" \in States /\ "CONFIGURING" \in States
  BY DEF States
<1>2. CASE ~Ready(ad) \/ gatt_connected
  BY <1>1, <1>2, EnterMachine DEF configure_advertisement
<1>3. CASE ~(~Ready(ad) \/ gatt_connected)
  <2>1. Config(ad) \in Requests(v)
    BY DEF Config, Requests
  <2>2. configured_version' \in 0 .. v
    BY <1>3 DEF configure_advertisement, Built
  <2>3. Request(Config(ad), "CONFIGURING", pending, "config call")
    BY <1>3 DEF configure_advertisement
  <2>4. QED
    BY <1>1, <2>1, <2>2, <2>3, RequestMachine
<1>4. QED
  BY <1>2, <1>3

\* Stopping, or configuring at once when the stop is refused.
LEMMA StopMachine ==
    ASSUME NEW v \in Nat, NEW ad \in Built(v), NEW pending \in BOOLEAN,
           Machine(v), stop_advertising(ad, pending)
    PROVE  Machine(v)'
<1>1. "STOPPING" \in States /\ "CONFIGURING" \in States
  BY DEF States
<1>2. Stop \in Requests(v) /\ Config(ad) \in Requests(v)
  BY DEF Requests, Config
<1>3. ad.version \in 0 .. v
  BY DEF Built
<1>4. CASE /\ adv_state' = "STOPPING"
           /\ restart_pending' = pending
           /\ requests' = Append(requests, Stop)
           /\ UNCHANGED <<configured_version, faults>>
  BY <1>1, <1>2, <1>4 DEF Machine
<1>5. CASE ~air.on /\ configure_advertisement(ad, pending)
  BY <1>5, ConfigureMachine
<1>6. CASE /\ Fails("stop call")
           /\ adv_state' = "CONFIGURING"
           /\ configured_version' = ad.version
           /\ restart_pending' = pending
           /\ requests' = Append(requests, Config(ad))
  <2>1. faults' \in 0 .. MaxFaults
    BY <1>6, FailsBounds DEF Machine
  <2>2. requests' \in Seq(Requests(v))
    <3>1. \A q \in Seq(Requests(v)), r \in Requests(v) : Append(q, r) \in Seq(Requests(v))
      OBVIOUS
    <3>2. requests \in Seq(Requests(v))
      BY DEF Machine
    <3>3. QED
      BY <1>2, <1>6, <3>1, <3>2
  <2>3. adv_state' \in States /\ restart_pending' \in BOOLEAN /\ configured_version' \in 0 .. v
    BY <1>1, <1>3, <1>6
  <2>4. QED
    BY <2>1, <2>2, <2>3 DEF Machine
<1>7. CASE /\ Fails("stop call")
           /\ configured_version' = ad.version
           /\ adv_state' = "IDLE"
           /\ restart_pending' = TRUE
           /\ UNCHANGED requests
  <2>1. faults' \in 0 .. MaxFaults
    BY <1>7, FailsBounds DEF Machine
  <2>2. adv_state' \in States /\ restart_pending' \in BOOLEAN /\ configured_version' \in 0 .. v
    BY <1>3, <1>7 DEF States
  <2>3. QED
    BY <1>7, <2>1, <2>2 DEF Machine
<1>8. QED
  BY <1>4, <1>5, <1>6, <1>7 DEF stop_advertising

\* A refresh from any state.
LEMMA RefreshMachine ==
    ASSUME NEW v \in Nat, NEW ad \in Built(v), NEW state \in States, NEW pending \in BOOLEAN,
           Machine(v), request_refresh(ad, state, pending)
    PROVE  Machine(v)'
<1>1. \/ Enter(state, pending)
      \/ stop_advertising(ad, pending)
      \/ configure_advertisement(ad, pending)
  BY DEF request_refresh
<1>2. QED
  BY <1>1, EnterMachine, StopMachine, ConfigureMachine

\* What has been built stays built.
LEMMA MachineGrows ==
    ASSUME NEW v \in Nat, Machine(v)
    PROVE  Machine(v + 1)
<1>1. Requests(v) \subseteq Requests(v + 1)
  BY DEF Requests, Built
<1>2. Seq(Requests(v)) \subseteq Seq(Requests(v + 1))
  BY <1>1
<1>3. QED
  BY <1>2 DEF Machine

\* ESPHome's requests carry no payload of ours.
LEMMA ForeignMachine ==
    ASSUME NEW v \in Nat, NEW q \in Seq(Requests(v))
    PROVE  q \o ForeignRequests \in Seq(Requests(v))
<1>1. EspHome \in Built(v)
  BY DEF EspHome, Built
<1>2. Config(EspHome) \in Requests(v) /\ Start(EspHome, 0) \in Requests(v)
  BY <1>1 DEF Config, Start, Requests
<1>3. ForeignRequests \in Seq(Requests(v))
  BY <1>2 DEF ForeignRequests
<1>4. QED
  BY <1>3

-----------------------------------------------------------------------------
(* The invariant. *)

LEMMA InitInv == BleInit => BleInv
<1> SUFFICES ASSUME BleInit PROVE BleInv
  OBVIOUS
<1>1. EspHome \in Built(0)
  BY DEF EspHome, Built
<1>2. BleTypeOK
  <2>1. advertisement \in [version : Nat, live : BOOLEAN] /\ advertisement.version = 0
    BY DEF BleInit
  <2>2. air \in [on : BOOLEAN, data : Built(0), interval : Nat]
    BY <1>1 DEF BleInit
  <2>3. 2000 \in 20 .. 10240 /\ MaxStimuli \in 0 .. MaxStimuli /\ 0 \in 0 .. 0
    BY BleAssumption
  <2>4. /\ adv_state \in States
        /\ configured_version \in 0 .. advertisement.version
        /\ advertising_interval_ms \in 20 .. 10240
        /\ stimuli \in 0 .. MaxStimuli
        /\ faults \in 0 .. MaxFaults
    BY <2>1, <2>3 DEF BleInit, States
  <2>5. /\ advertise_data_enabled \in BOOLEAN /\ gatt_connected \in BOOLEAN
        /\ restart_pending \in BOOLEAN /\ sample_complete \in BOOLEAN
        /\ ble_active \in BOOLEAN /\ linked \in BOOLEAN /\ prompt \in BOOLEAN
    BY DEF BleInit
  <2>6. QED
    BY <2>1, <2>2, <2>4, <2>5 DEF BleTypeOK
<1>3. requests \in Seq(Requests(advertisement.version)) /\ events \in Seq(Events)
  BY DEF BleInit
<1>4. QED
  BY <1>2, <1>3 DEF BleInv

LEMMA InvMachine ==
    ASSUME BleInv
    PROVE  advertisement.version \in Nat /\ Machine(advertisement.version)
BY DEF BleInv, BleTypeOK, Machine

LEMMA IntervalType ==
    ASSUME BleInv
    PROVE  advertising_interval_ms \in Nat
BY DEF BleInv, BleTypeOK

\* The current payload has been built.
LEMMA CurrentBuilt ==
    ASSUME BleInv
    PROVE  advertisement \in Built(advertisement.version)
<1>1. advertisement = [version |-> advertisement.version, live |-> advertisement.live]
  BY DEF BleInv, BleTypeOK
<1>2. advertisement.version \in 0 .. advertisement.version /\ advertisement.live \in BOOLEAN
  BY DEF BleInv, BleTypeOK
<1>3. QED
  BY <1>1, <1>2 DEF Built

\* Every payload built keeps the invariant.
LEMMA BuildInv ==
    ASSUME BleInv, NEW enabled \in BOOLEAN, build_advertisement(enabled),
           advertise_data_enabled' \in BOOLEAN, sample_complete' \in BOOLEAN,
           stimuli' \in 0 .. MaxStimuli,
           UNCHANGED <<advertising_interval_ms, gatt_connected, stackVars, events>>
    PROVE  BleInv'
<1>1. PICK v \in Nat : v = advertisement.version
  BY InvMachine
<1>2. Machine(v)
  BY <1>1, InvMachine
<1>3. Machine(v + 1)
  BY <1>2, MachineGrows
<1> DEFINE ad == [version |-> v + 1, live |-> enabled]
<1>4. ad \in Built(v + 1) /\ advertisement' = ad /\ ad.version = v + 1
  BY <1>1 DEF Built, build_advertisement
<1>5. request_refresh(ad, adv_state, restart_pending)
  BY <1>1 DEF build_advertisement
<1>6. Machine(v + 1)'
  <2>1. v + 1 \in Nat /\ adv_state \in States /\ restart_pending \in BOOLEAN
    BY <1>3 DEF Machine
  <2>2. QED
    BY <1>3, <1>4, <1>5, <2>1, RefreshMachine
<1>7. advertisement'.version = v + 1 /\ advertisement' \in [version : Nat, live : BOOLEAN]
  BY <1>4
<1>8. air' \in [on : BOOLEAN, data : Built(v + 1), interval : Nat]
  <2>1. Built(v) \subseteq Built(v + 1)
    BY DEF Built
  <2>2. QED
    BY <1>1, <2>1 DEF BleInv, BleTypeOK, stackVars
<1>9. /\ adv_state' \in States
      /\ configured_version' \in 0 .. v + 1
      /\ restart_pending' \in BOOLEAN
      /\ requests' \in Seq(Requests(v + 1))
      /\ faults' \in 0 .. MaxFaults
  BY <1>6 DEF Machine
<1>10. BleTypeOK'
  BY <1>7, <1>8, <1>9 DEF BleInv, BleTypeOK, stackVars
<1>11. QED
  BY <1>7, <1>9, <1>10 DEF BleInv

\* A step of the machine that leaves payload, settings and stack alone.
LEMMA MachineInv ==
    ASSUME NEW v \in Nat, BleInv, v = advertisement.version, Machine(v)', UNCHANGED advertisement,
           advertise_data_enabled' \in BOOLEAN, sample_complete' \in BOOLEAN,
           advertising_interval_ms' \in 20 .. 10240, gatt_connected' \in BOOLEAN,
           stimuli' \in 0 .. MaxStimuli, events' \in Seq(Events), UNCHANGED stackVars
    PROVE  BleInv'
<1>1. UNCHANGED <<ble_active, air, linked, prompt>>
  BY DEF stackVars
<1>2. /\ adv_state' \in States /\ configured_version' \in 0 .. advertisement'.version
      /\ restart_pending' \in BOOLEAN /\ faults' \in 0 .. MaxFaults
  BY DEF Machine
<1>3. BleTypeOK'
  BY <1>1, <1>2 DEF BleInv, BleTypeOK
<1>4. QED
  BY <1>3 DEF BleInv, Machine

LEMMA StimulusBounds ==
    ASSUME stimuli \in 0 .. MaxStimuli, Stimulus
    PROVE  stimuli' \in 0 .. MaxStimuli
BY BleAssumption DEF Stimulus

-----------------------------------------------------------------------------
(* Every step keeps the invariant. *)

LEMMA PublishInv ==
    ASSUME BleInv, PublishSample
    PROVE  BleInv'
<1>1. PICK enabled \in BOOLEAN : build_advertisement(enabled)
  BY DEF PublishSample, BleInv, BleTypeOK
<1>2. stimuli' \in 0 .. MaxStimuli
  BY StimulusBounds DEF PublishSample, BleInv, BleTypeOK
<1>3. advertise_data_enabled' \in BOOLEAN /\ sample_complete' \in BOOLEAN
  BY DEF PublishSample, BleInv, BleTypeOK
<1>4. UNCHANGED <<advertising_interval_ms, gatt_connected, stackVars, events>>
  BY DEF PublishSample
<1>5. QED
  BY <1>1, <1>2, <1>3, <1>4, BuildInv

LEMMA PrivacyInv ==
    ASSUME BleInv, SetAdvertiseDataEnabled
    PROVE  BleInv'
<1>1. stimuli' \in 0 .. MaxStimuli
  BY StimulusBounds DEF SetAdvertiseDataEnabled, BleInv, BleTypeOK
<1>2. advertise_data_enabled' \in BOOLEAN /\ sample_complete' \in BOOLEAN
  BY DEF SetAdvertiseDataEnabled, BleInv, BleTypeOK
<1>3. CASE sample_complete
  <2>1. PICK enabled \in BOOLEAN : build_advertisement(enabled)
    BY <1>3, <1>2 DEF SetAdvertiseDataEnabled
  <2>2. QED
    BY <1>1, <1>2, <2>1, BuildInv DEF SetAdvertiseDataEnabled
<1>4. CASE ~sample_complete
  <2>1. UNCHANGED <<advertisement, machineVars, requests, faults, advertising_interval_ms,
                    sample_complete, gatt_connected, stackVars, events>>
    BY <1>4 DEF SetAdvertiseDataEnabled
  <2>2. QED
    BY <1>1, <1>2, <2>1 DEF BleInv, BleTypeOK, machineVars, stackVars
<1>5. QED
  BY <1>3, <1>4

LEMMA IntervalInv ==
    ASSUME BleInv, SetAdvertisingInterval
    PROVE  BleInv'
<1>1. PICK v \in Nat : v = advertisement.version
  BY InvMachine
<1>2. Machine(v) /\ advertisement \in Built(v) /\ adv_state \in States /\ restart_pending \in BOOLEAN
  BY <1>1, InvMachine, CurrentBuilt DEF Machine
<1>3. Machine(v)'
  BY <1>2, RefreshMachine DEF SetAdvertisingInterval
<1>4. advertising_interval_ms' \in 20 .. 10240
  BY BleAssumption DEF SetAdvertisingInterval, Clamped
<1>5. stimuli' \in 0 .. MaxStimuli
  BY StimulusBounds DEF SetAdvertisingInterval, BleInv, BleTypeOK
<1>6. /\ UNCHANGED <<advertisement, stackVars>>
      /\ advertise_data_enabled' \in BOOLEAN /\ sample_complete' \in BOOLEAN
      /\ gatt_connected' \in BOOLEAN /\ events' \in Seq(Events)
  BY DEF SetAdvertisingInterval, BleInv, BleTypeOK
<1>7. QED
  BY <1>1, <1>3, <1>4, <1>5, <1>6, MachineInv

LEMMA LoopInv ==
    ASSUME BleInv, Loop
    PROVE  BleInv'
<1>1. PICK v \in Nat : v = advertisement.version
  BY InvMachine
<1>2. Machine(v) /\ advertisement \in Built(v)
  BY <1>1, InvMachine, CurrentBuilt
<1>3. Machine(v)'
  BY <1>2, StopMachine DEF Loop
<1>4. /\ UNCHANGED <<advertisement, stackVars>>
      /\ advertise_data_enabled' \in BOOLEAN /\ sample_complete' \in BOOLEAN
      /\ gatt_connected' \in BOOLEAN /\ events' \in Seq(Events)
      /\ advertising_interval_ms' \in 20 .. 10240 /\ stimuli' \in 0 .. MaxStimuli
  BY DEF Loop, settingVars, BleInv, BleTypeOK
<1>5. QED
  BY <1>1, <1>3, <1>4, MachineInv

LEMMA DispatchInv ==
    ASSUME BleInv, Dispatch
    PROVE  BleInv'
<1>1. PICK v \in Nat : v = advertisement.version
  BY InvMachine
<1>2. Machine(v) /\ advertisement \in Built(v)
  BY <1>1, InvMachine, CurrentBuilt
<1>3. adv_state \in States /\ restart_pending \in BOOLEAN /\ configured_version \in 0 .. v
  BY <1>2 DEF Machine
<1>4. {"IDLE", "STARTING", "ADVERTISING"} \subseteq States
  BY DEF States
<1> DEFINE e == Head(events)
<1>5. e \in Events /\ events' \in Seq(Events)
  BY DEF Dispatch, BleInv
<1>6. Machine(v)'
  <2>1. CASE DataSetComplete(e.ok)
    <3>1. CASE Enter(adv_state, restart_pending)
      BY <1>2, <1>3, <3>1, EnterMachine
    <3>2. CASE Enter("IDLE", restart_pending)
      BY <1>2, <1>3, <1>4, <3>2, EnterMachine
    <3>3. CASE /\ Request(Start(advertisement, advertising_interval_ms), "STARTING", restart_pending, "start call")
               /\ UNCHANGED configured_version
      <4>1. Start(advertisement, advertising_interval_ms) \in Requests(v)
        BY <1>2 DEF Start, Requests, BleInv, BleTypeOK
      <4>2. QED
        BY <1>2, <1>3, <1>4, <3>3, <4>1, RequestMachine
    <3>4. QED
      BY <2>1, <3>1, <3>2, <3>3 DEF DataSetComplete
  <2>2. CASE StartComplete(e.ok)
    <3>1. \/ Enter("ADVERTISING", FALSE)
          \/ request_refresh(advertisement, "ADVERTISING", FALSE)
          \/ Enter("IDLE", TRUE)
          \/ Enter("ADVERTISING", TRUE)
          \/ Enter(adv_state, restart_pending)
      BY <2>2 DEF StartComplete
    <3>2. QED
      BY <1>2, <1>3, <1>4, <3>1, EnterMachine, RefreshMachine
  <2>3. CASE StopComplete
    BY <1>2, <1>3, <2>3, EnterMachine, ConfigureMachine DEF StopComplete
  <2>4. CASE Enter("IDLE", restart_pending)
    BY <1>2, <1>3, <1>4, <2>4, EnterMachine
  <2>5. CASE Disconnected
    <3>1. requests' \in Seq(Requests(v))
      BY <1>2, <2>5, ForeignMachine DEF Disconnected, Machine
    <3>2. restart_pending' \in BOOLEAN /\ adv_state' \in States
      BY <1>3, <1>4, <2>5 DEF Disconnected
    <3>3. QED
      BY <1>2, <2>5, <3>1, <3>2 DEF Disconnected, Machine
  <2>6. QED
    BY <2>1, <2>2, <2>3, <2>4, <2>5 DEF Dispatch
<1>7. gatt_connected' \in BOOLEAN
  <2>1. gatt_connected' = IF e.kind \in {"CONNECT", "DISCONNECT"} THEN e.kind = "CONNECT"
                          ELSE gatt_connected
    BY DEF Dispatch
  <2>2. (e.kind = "CONNECT") \in BOOLEAN /\ gatt_connected \in BOOLEAN
    BY DEF BleInv, BleTypeOK
  <2>3. QED
    BY <2>1, <2>2, Zenon
<1>8. /\ UNCHANGED <<advertisement, stackVars>>
      /\ advertise_data_enabled' \in BOOLEAN /\ sample_complete' \in BOOLEAN
      /\ advertising_interval_ms' \in 20 .. 10240 /\ stimuli' \in 0 .. MaxStimuli
  BY DEF Dispatch, settingVars, BleInv, BleTypeOK
<1>9. QED
  BY <1>1, <1>5, <1>6, <1>7, <1>8, MachineInv

LEMMA ActivateInv ==
    ASSUME BleInv, Activate
    PROVE  BleInv'
<1>1. requests' \in Seq(Requests(advertisement.version))
  BY InvMachine, ForeignMachine DEF Activate, BleInv
<1>2. /\ ble_active' \in BOOLEAN
      /\ UNCHANGED <<adv_state, configured_version, restart_pending, advertisement, advertise_data_enabled,
                     advertising_interval_ms, sample_complete, air, linked, prompt, gatt_connected, events,
                     stimuli, faults>>
  BY DEF Activate, machineVars, settingVars
<1>3. BleTypeOK'
  BY <1>2 DEF BleInv, BleTypeOK
<1>4. QED
  BY <1>1, <1>2, <1>3 DEF BleInv

\* The stack changes what is on the air and reports; the payload it has been
\* given had been built.
LEMMA ExecuteInv ==
    ASSUME BleInv, Execute
    PROVE  BleInv'
<1> DEFINE r == Head(requests)
<1>1. r \in Requests(advertisement.version) /\ requests' \in Seq(Requests(advertisement.version))
  BY DEF Execute, BleInv
<1>2. \A kind \in {"DATA_SET", "START", "STOP"}, ok \in BOOLEAN :
         Append(events, Event(kind, ok)) \in Seq(Events)
  BY DEF BleInv, Event, Events
<1>3. faults \in 0 .. MaxFaults /\ air \in [on : BOOLEAN, data : Built(advertisement.version), interval : Nat]
  BY DEF BleInv, BleTypeOK
<1>4. /\ air' \in [on : BOOLEAN, data : Built(advertisement.version), interval : Nat]
      /\ events' \in Seq(Events)
      /\ faults' \in 0 .. MaxFaults
  <2>1. CASE r.op = "config" /\ ExecuteConfig(r)
    <3>1. r.data \in Built(advertisement.version)
      BY <1>1, <2>1 DEF Requests, Stop
    <3>2. events' \in Seq(Events)
      BY <1>2, <2>1 DEF ExecuteConfig, BleInv
    <3>3. air' \in [on : BOOLEAN, data : Built(advertisement.version), interval : Nat]
      BY <1>3, <2>1, <3>1 DEF ExecuteConfig
    <3>4. faults' \in 0 .. MaxFaults
      BY <1>3, <2>1, FailsBounds DEF ExecuteConfig
    <3>5. QED
      BY <3>2, <3>3, <3>4
  <2>2. CASE r.op = "start" /\ ExecuteStart(r)
    <3>1. r.interval \in Nat
      BY <1>1, <2>2 DEF Requests, Stop
    <3>2. events' \in Seq(Events)
      BY <1>2, <2>2 DEF ExecuteStart
    <3>3. air' \in [on : BOOLEAN, data : Built(advertisement.version), interval : Nat]
      BY <1>3, <2>2, <3>1 DEF ExecuteStart
    <3>4. faults' \in 0 .. MaxFaults
      BY <1>3, <2>2, FailsBounds DEF ExecuteStart
    <3>5. QED
      BY <3>2, <3>3, <3>4
  <2>3. CASE r.op = "stop" /\ ExecuteStop(r)
    <3>1. air' \in [on : BOOLEAN, data : Built(advertisement.version), interval : Nat]
      BY <1>3, <2>3 DEF ExecuteStop
    <3>2. events' \in Seq(Events)
      BY <1>2, <2>3, <3>1 DEF ExecuteStop
    <3>3. faults' \in 0 .. MaxFaults
      BY <1>3, <2>3, FailsBounds DEF ExecuteStop
    <3>4. QED
      BY <3>1, <3>2, <3>3
  <2>4. QED
    BY <2>1, <2>2, <2>3 DEF Execute
<1>5. UNCHANGED <<adv_state, configured_version, restart_pending, advertisement, advertise_data_enabled,
                  advertising_interval_ms, sample_complete, ble_active, linked, prompt, gatt_connected, stimuli>>
  BY DEF Execute, machineVars, settingVars
<1>6. BleTypeOK'
  BY <1>4, <1>5 DEF BleInv, BleTypeOK
<1>7. QED
  BY <1>1, <1>4, <1>5, <1>6 DEF BleInv

LEMMA LinkInv ==
    ASSUME BleInv, Connect \/ Disconnect
    PROVE  BleInv'
<1>1. \A kind \in {"CONNECT", "DISCONNECT"} : Append(events, Event(kind, TRUE)) \in Seq(Events)
  BY DEF BleInv, Event, Events
<1>2. CASE Connect
  <2>1. stimuli' \in 0 .. MaxStimuli
    BY <1>2, StimulusBounds DEF Connect, BleInv, BleTypeOK
  <2>2. air \in [on : BOOLEAN, data : Built(advertisement.version), interval : Nat]
    BY DEF BleInv, BleTypeOK
  <2>3. air' \in [on : BOOLEAN, data : Built(advertisement.version), interval : Nat]
    BY <1>2, <2>2 DEF Connect
  <2>4. linked' \in BOOLEAN /\ events' \in Seq(Events)
    BY <1>1, <1>2 DEF Connect
  <2>5. UNCHANGED <<machineVars, settingVars, gatt_connected, ble_active, prompt, requests, faults>>
    BY <1>2 DEF Connect
  <2>6. QED
    BY <2>1, <2>3, <2>4, <2>5 DEF BleInv, BleTypeOK, machineVars, settingVars
<1>3. CASE Disconnect
  <2>1. linked' \in BOOLEAN /\ events' \in Seq(Events)
    BY <1>1, <1>3 DEF Disconnect
  <2>2. UNCHANGED <<machineVars, settingVars, gatt_connected, ble_active, air, prompt, requests, stimuli, faults>>
    BY <1>3 DEF Disconnect
  <2>3. QED
    BY <2>1, <2>2 DEF BleInv, BleTypeOK, machineVars, settingVars
<1>4. QED
  BY <1>2, <1>3

LEMMA NextInv ==
    ASSUME BleInv, [BleNext]_bleVars
    PROVE  BleInv'
<1>1. CASE UNCHANGED bleVars
  BY <1>1 DEF bleVars, machineVars, settingVars, stackVars, BleInv, BleTypeOK
<1>2. CASE BleNext
  BY <1>2, PublishInv, PrivacyInv, IntervalInv, LoopInv, DispatchInv, ActivateInv,
     ExecuteInv, LinkInv DEF BleNext
<1>3. QED
  BY <1>1, <1>2

\* No payload is configured or on the air that has not been built, and every
\* field keeps its type, whatever completions cross each other
\* (sensirion_ble.cpp:97-269).
THEOREM BleTypeCorrect == BleSpec => []BleTypeOK
<1>1. BleInv => BleTypeOK
  BY DEF BleInv
<1>2. QED
  BY <1>1, InitInv, NextInv, PTL DEF BleSpec

-----------------------------------------------------------------------------
(* Nothing is requested while a central is connected. *)

\* The action inside QuietWhileConnected.
Quiet == gatt_connected /\ gatt_connected' => Len(requests') <= Len(requests)

\* With a central connected the helpers leave the requests alone.
LEMMA HelpersQuiet ==
    ASSUME gatt_connected, NEW ad, NEW state, NEW pending
    PROVE  /\ Enter(state, pending) => requests' = requests
           /\ configure_advertisement(ad, pending) => requests' = requests
           /\ request_refresh(ad, state, pending) => requests' = requests
BY DEF Enter, configure_advertisement, request_refresh

\* Before the stack is up there is nothing to complete and nobody to connect.
Dormant ==
    ~ble_active => /\ requests = <<>> /\ events = <<>>
                   /\ ~air.on /\ ~linked /\ ~gatt_connected

LEMMA DormantStep ==
    ASSUME Dormant, [BleNext]_bleVars
    PROVE  Dormant'
<1> SUFFICES ASSUME ~ble_active' PROVE (requests = <<>> /\ events = <<>> /\ ~air.on /\ ~linked /\ ~gatt_connected)'
  BY DEF Dormant
<1>1. CASE UNCHANGED bleVars
  BY <1>1 DEF Dormant, bleVars, stackVars
<1>2. CASE PublishSample \/ SetAdvertiseDataEnabled \/ SetAdvertisingInterval
  <2>1. ~ble_active /\ UNCHANGED <<gatt_connected, stackVars, events>>
    BY <1>2 DEF PublishSample, SetAdvertiseDataEnabled, SetAdvertisingInterval, stackVars
  <2>2. requests' = requests
    BY <1>2, <2>1 DEF PublishSample, SetAdvertiseDataEnabled, SetAdvertisingInterval,
       build_advertisement, request_refresh, Enter
  <2>3. QED
    BY <2>1, <2>2 DEF Dormant, stackVars
<1>3. CASE Loop \/ Dispatch \/ Execute \/ Connect \/ Disconnect
  <2>1. ~ble_active
    BY <1>3 DEF Loop, Dispatch, Execute, Connect, Disconnect, stackVars
  <2>2. requests = <<>> /\ events = <<>> /\ ~air.on /\ ~linked
    BY <2>1 DEF Dormant
  <2>3. QED
    BY <1>3, <2>1, <2>2 DEF Loop, Dispatch, Execute, Connect, Disconnect
<1>4. CASE Activate
  BY <1>4 DEF Activate
<1>5. QED
  BY <1>1, <1>2, <1>3, <1>4 DEF BleNext

LEMMA StepQuiet ==
    ASSUME BleInv, Dormant, [BleNext]_bleVars
    PROVE  Quiet
<1> SUFFICES ASSUME gatt_connected, gatt_connected' PROVE Len(requests') <= Len(requests)
  BY DEF Quiet
<1>1. requests' = requests => Len(requests') <= Len(requests)
  BY DEF BleInv
<1>2. CASE UNCHANGED bleVars
  BY <1>1, <1>2 DEF bleVars
<1>3. CASE PublishSample \/ SetAdvertiseDataEnabled \/ SetAdvertisingInterval
  BY <1>1, <1>3, HelpersQuiet DEF PublishSample, SetAdvertiseDataEnabled,
     SetAdvertisingInterval, build_advertisement
<1>4. CASE Loop
  BY <1>4 DEF Loop
<1>5. CASE Dispatch
  <2> DEFINE e == Head(events)
  <2>1. e.kind # "DISCONNECT"
    BY <1>5 DEF Dispatch
  <2>2. CASE DataSetComplete(e.ok)
    BY <1>1, <2>2, HelpersQuiet DEF DataSetComplete
  <2>3. CASE StartComplete(e.ok)
    BY <1>1, <2>3, HelpersQuiet DEF StartComplete
  <2>4. CASE StopComplete
    BY <1>1, <2>4, HelpersQuiet DEF StopComplete
  <2>5. CASE Enter("IDLE", restart_pending)
    BY <1>1, <2>5, HelpersQuiet
  <2>6. QED
    BY <1>5, <2>1, <2>2, <2>3, <2>4, <2>5 DEF Dispatch
<1>6. CASE Activate
  BY <1>6 DEF Activate, Dormant
<1>7. CASE Execute
  <2>1. requests # <<>> /\ requests' = Tail(requests)
    BY <1>7 DEF Execute
  <2>2. \E S : requests \in Seq(S)
    BY DEF BleInv
  <2>3. QED
    BY <2>1, <2>2
<1>8. CASE Connect \/ Disconnect
  BY <1>1, <1>8 DEF Connect, Disconnect
<1>9. QED
  BY <1>2, <1>3, <1>4, <1>5, <1>6, <1>7, <1>8 DEF BleNext

\* docs/history/BLE_GATT_RELIABILITY_FIX.md:14-18: during a connection no
\* sample, completion or timer makes the firmware request anything of the stack.
THEOREM ConnectionIsQuiet == BleSpec => QuietWhileConnected
<1>1. BleInit => Dormant
  BY DEF BleInit, Dormant
<1>2. BleInv /\ Dormant /\ [BleNext]_bleVars => [Quiet]_bleVars
  BY StepQuiet
<1>3. QED
  BY <1>1, <1>2, InitInv, NextInv, DormantStep, PTL DEF BleSpec, QuietWhileConnected, Quiet

-----------------------------------------------------------------------------
(* The machine settles on the current payload. *)

\* The configuration that the stack carries out last, or has carried out, is ad.
Coming(ad) ==
    \/ \E i \in DOMAIN requests :
          /\ requests[i] = Config(ad)
          /\ \A j \in DOMAIN requests : j > i => requests[j].op # "config"
    \/ /\ air.data = ad
       /\ \A j \in DOMAIN requests : requests[j].op # "config"

\* A start of ours comes after every stop, or is done and no stop comes.
StaysOn ==
    \/ \E i \in DOMAIN requests :
          /\ requests[i].op = "start" /\ Ready(requests[i].data)
          /\ \A j \in DOMAIN requests : j > i => requests[j].op # "stop"
    \/ /\ air.on
       /\ \A j \in DOMAIN requests : requests[j].op # "stop"

\* A connection lasts, or an event about one will send the machine to IDLE.
LinkComing ==
    linked \/ \E i \in DOMAIN events : events[i].kind \in {"CONNECT", "DISCONNECT"}

Believes == adv_state = "ADVERTISING" /\ ~restart_pending
Underway == adv_state \in {"CONFIGURING", "STARTING"} \/ Believes

\* The payload configured last, and the current one if its version is the current.
OursIsComing ==
    \E ad \in Built(advertisement.version) :
        /\ ad.version = configured_version
        /\ ad.version = advertisement.version => ad = advertisement
        /\ Coming(ad)

\* The machine leaves IDLE only with a payload, an active stack and no central.
IdleOtherwise ==
    /\ gatt_connected => adv_state = "IDLE"
    /\ adv_state # "IDLE" => Ready(advertisement) /\ ble_active

\* The payload built last follows the last privacy choice.
LiveAsChosen ==
    /\ sample_complete <=> Ready(advertisement)
    /\ sample_complete => advertisement.live = advertise_data_enabled

SettleInv ==
    /\ IdleOtherwise
    /\ LiveAsChosen
    /\ Underway => OursIsComing
    /\ Believes => configured_version = advertisement.version
    /\ adv_state = "STARTING" \/ Believes => StaysOn \/ LinkComing

\* No configuration and no start of ours completes with a failure.
Reliable == faults = 0 \/ Faults \cap {"config", "start"} = {}

LEMMA NoneFails ==
    ASSUME Reliable
    PROVE  ~Fails("config") /\ ~Fails("start")
BY DEF Reliable, Fails

\* The queue keeps the configuration that comes last when anything else joins it.
LEMMA ComingAppended ==
    ASSUME NEW v \in Nat, requests \in Seq(Requests(v)), NEW r \in Requests(v), r.op # "config",
           requests' = Append(requests, r), air'.data = air.data, NEW ad, Coming(ad)
    PROVE  Coming(ad)'
<1>1. DOMAIN requests' = 1 .. Len(requests) + 1 /\ DOMAIN requests = 1 .. Len(requests)
  OBVIOUS
<1>2. requests'[Len(requests) + 1] = r /\ \A j \in DOMAIN requests : requests'[j] = requests[j]
  OBVIOUS
<1>3. CASE \E i \in DOMAIN requests :
              /\ requests[i] = Config(ad)
              /\ \A j \in DOMAIN requests : j > i => requests[j].op # "config"
  <2>1. PICK i \in DOMAIN requests :
              /\ requests[i] = Config(ad)
              /\ \A j \in DOMAIN requests : j > i => requests[j].op # "config"
    BY <1>3
  <2>2. i \in DOMAIN requests' /\ requests'[i] = Config(ad)
    BY <1>1, <1>2, <2>1
  <2>3. \A j \in DOMAIN requests' : j > i => requests'[j].op # "config"
    BY <1>1, <1>2, <2>1
  <2>4. QED
    BY <2>2, <2>3 DEF Coming, Config
<1>4. CASE air.data = ad /\ \A j \in DOMAIN requests : requests[j].op # "config"
  <2>1. \A j \in DOMAIN requests' : requests'[j].op # "config"
    BY <1>1, <1>2, <1>4
  <2>2. QED
    BY <1>4, <2>1 DEF Coming
<1>5. QED
  BY <1>3, <1>4 DEF Coming

LEMMA ComingAsked ==
    ASSUME NEW v \in Nat, requests \in Seq(Requests(v)), NEW ad,
           requests' = Append(requests, Config(ad))
    PROVE  Coming(ad)'
<1>1. DOMAIN requests' = 1 .. Len(requests) + 1 /\ Len(requests) \in Nat
  OBVIOUS
<1>2. requests'[Len(requests) + 1] = Config(ad)
  OBVIOUS
<1>3. Len(requests) + 1 \in DOMAIN requests'
  BY <1>1
<1>4. \A j \in DOMAIN requests' : ~(j > Len(requests) + 1)
  BY <1>1
<1>5. QED
  BY <1>2, <1>3, <1>4 DEF Coming, Config

\* The stack carries out the first request.
LEMMA ComingExecuted ==
    ASSUME NEW v \in Nat, requests \in Seq(Requests(v)), requests # <<>>, requests' = Tail(requests),
           air'.data = IF Head(requests).op = "config" THEN Head(requests).data ELSE air.data,
           NEW ad, Coming(ad)
    PROVE  Coming(ad)'
<1>1. /\ DOMAIN requests = 1 .. Len(requests) /\ Len(requests) \in Nat \ {0}
      /\ DOMAIN requests' = 1 .. Len(requests) - 1
  OBVIOUS
<1>2. Head(requests) = requests[1] /\ \A j \in DOMAIN requests' : requests'[j] = requests[j + 1]
  OBVIOUS
<1>3. ASSUME NEW i \in DOMAIN requests, requests[i] = Config(ad), i # 1,
             \A j \in DOMAIN requests : j > i => requests[j].op # "config"
      PROVE  Coming(ad)'
  <2>1. i - 1 \in DOMAIN requests' /\ requests'[i - 1] = Config(ad)
    BY <1>1, <1>2, <1>3
  <2>2. \A j \in DOMAIN requests' : j > i - 1 => requests'[j].op # "config"
    BY <1>1, <1>2, <1>3
  <2>3. QED
    BY <2>1, <2>2 DEF Coming, Config
<1>4. ASSUME requests[1] = Config(ad), \A j \in DOMAIN requests : j > 1 => requests[j].op # "config"
      PROVE  Coming(ad)'
  <2>1. air'.data = ad
    BY <1>2, <1>4 DEF Config
  <2>2. \A j \in DOMAIN requests' : requests'[j].op # "config"
    BY <1>1, <1>2, <1>4
  <2>3. QED
    BY <2>1, <2>2 DEF Coming
<1>5. ASSUME air.data = ad, \A j \in DOMAIN requests : requests[j].op # "config"
      PROVE  Coming(ad)'
  <2>1. air'.data = ad
    BY <1>1, <1>2, <1>5
  <2>2. \A j \in DOMAIN requests' : requests'[j].op # "config"
    BY <1>1, <1>2, <1>5
  <2>3. QED
    BY <2>1, <2>2 DEF Coming
<1>6. QED
  BY <1>3, <1>4, <1>5 DEF Coming

\* The same of the start that no stop follows.
LEMMA StaysOnAppended ==
    ASSUME NEW v \in Nat, requests \in Seq(Requests(v)), NEW r \in Requests(v),
           r.op = "start", Ready(r.data), requests' = Append(requests, r)
    PROVE  StaysOn'
<1>1. DOMAIN requests' = 1 .. Len(requests) + 1 /\ Len(requests) \in Nat
  OBVIOUS
<1>2. requests'[Len(requests) + 1] = r
  OBVIOUS
<1>3. Len(requests) + 1 \in DOMAIN requests' /\ \A j \in DOMAIN requests' : ~(j > Len(requests) + 1)
  BY <1>1
<1>4. QED
  BY <1>2, <1>3 DEF StaysOn, Ready

LEMMA StaysOnExecuted ==
    ASSUME NEW v \in Nat, requests \in Seq(Requests(v)), requests # <<>>, requests' = Tail(requests),
           Head(requests).op = "start" /\ Ready(Head(requests).data) => air'.on,
           air.on /\ Head(requests).op # "stop" => air'.on,
           StaysOn
    PROVE  StaysOn'
<1>1. /\ DOMAIN requests = 1 .. Len(requests) /\ Len(requests) \in Nat \ {0}
      /\ DOMAIN requests' = 1 .. Len(requests) - 1
  OBVIOUS
<1>2. Head(requests) = requests[1] /\ \A j \in DOMAIN requests' : requests'[j] = requests[j + 1]
  OBVIOUS
<1>3. ASSUME NEW i \in DOMAIN requests, requests[i].op = "start", Ready(requests[i].data), i # 1,
             \A j \in DOMAIN requests : j > i => requests[j].op # "stop"
      PROVE  StaysOn'
  <2>1. i - 1 \in DOMAIN requests' /\ requests'[i - 1] = requests[i]
    BY <1>1, <1>2, <1>3
  <2>2. \A j \in DOMAIN requests' : j > i - 1 => requests'[j].op # "stop"
    BY <1>1, <1>2, <1>3
  <2>3. QED
    BY <1>3, <2>1, <2>2 DEF StaysOn, Ready
<1>4. ASSUME requests[1].op = "start", Ready(requests[1].data),
             \A j \in DOMAIN requests : j > 1 => requests[j].op # "stop"
      PROVE  StaysOn'
  <2>1. \A j \in DOMAIN requests' : requests'[j].op # "stop"
    BY <1>1, <1>2, <1>4
  <2>2. air'.on
    BY <1>2, <1>4
  <2>3. QED
    BY <2>1, <2>2 DEF StaysOn
<1>5. ASSUME air.on, \A j \in DOMAIN requests : requests[j].op # "stop"
      PROVE  StaysOn'
  <2>1. air'.on
    BY <1>1, <1>2, <1>5
  <2>2. \A j \in DOMAIN requests' : requests'[j].op # "stop"
    BY <1>1, <1>2, <1>5
  <2>3. QED
    BY <2>1, <2>2 DEF StaysOn
<1>6. QED
  BY <1>3, <1>4, <1>5 DEF StaysOn

LEMMA LinkComingAppended ==
    ASSUME events \in Seq(Events), NEW e \in Events, events' = Append(events, e),
           LinkComing, linked' = linked
    PROVE  LinkComing'
<1>1. DOMAIN events' = 1 .. Len(events) + 1 /\ DOMAIN events = 1 .. Len(events)
  OBVIOUS
<1>2. \A j \in DOMAIN events : j \in DOMAIN events' /\ events'[j] = events[j]
  BY <1>1
<1>3. QED
  BY <1>2 DEF LinkComing

LEMMA LinkComingDispatched ==
    ASSUME events \in Seq(Events), events # <<>>, events' = Tail(events),
           Head(events).kind \notin {"CONNECT", "DISCONNECT"}, LinkComing, linked' = linked
    PROVE  LinkComing'
<1>1. /\ DOMAIN events = 1 .. Len(events) /\ Len(events) \in Nat \ {0}
      /\ DOMAIN events' = 1 .. Len(events) - 1
  OBVIOUS
<1>2. Head(events) = events[1] /\ \A j \in DOMAIN events' : events'[j] = events[j + 1]
  OBVIOUS
<1>3. CASE linked
  BY <1>3 DEF LinkComing
<1>4. CASE \E i \in DOMAIN events : events[i].kind \in {"CONNECT", "DISCONNECT"}
  <2>1. PICK i \in DOMAIN events : events[i].kind \in {"CONNECT", "DISCONNECT"}
    BY <1>4
  <2>2. i # 1
    BY <1>2, <2>1
  <2>3. i - 1 \in DOMAIN events' /\ events'[i - 1] = events[i]
    BY <1>1, <1>2, <2>2
  <2>4. QED
    BY <2>1, <2>3 DEF LinkComing
<1>5. QED
  BY <1>3, <1>4 DEF LinkComing

-----------------------------------------------------------------------------
(* What the helpers leave. *)

\* Idle, or on the way to configuring ad.
Fresh(ad) ==
    \/ adv_state' = "IDLE"
    \/ /\ adv_state' \in {"STOPPING", "CONFIGURING"} /\ Ready(ad) /\ ~gatt_connected /\ ble_active
       /\ adv_state' = "CONFIGURING" => configured_version' = ad.version /\ Coming(ad)'

LEMMA ConfigureFresh ==
    ASSUME NEW v \in Nat, requests \in Seq(Requests(v)), NEW ad \in Built(v), NEW pending, ble_active,
           configure_advertisement(ad, pending)
    PROVE  Fresh(ad)
<1>1. CASE adv_state' = "IDLE"
  BY <1>1 DEF Fresh
<1>2. CASE adv_state' # "IDLE"
  <2>1. /\ Ready(ad) /\ ~gatt_connected /\ configured_version' = ad.version
        /\ Request(Config(ad), "CONFIGURING", pending, "config call")
    BY <1>2 DEF configure_advertisement, Enter
  <2>2. adv_state' = "CONFIGURING" /\ requests' = Append(requests, Config(ad))
    BY <1>2, <2>1 DEF Request
  <2>3. Coming(ad)'
    BY <2>2, ComingAsked
  <2>4. QED
    BY <2>1, <2>2, <2>3 DEF Fresh
<1>3. QED
  BY <1>1, <1>2

LEMMA StopFresh ==
    ASSUME NEW v \in Nat, requests \in Seq(Requests(v)), NEW ad \in Built(v), NEW pending, ble_active,
           Ready(ad), ~gatt_connected, stop_advertising(ad, pending)
    PROVE  Fresh(ad)
<1>1. CASE adv_state' = "STOPPING"
  BY <1>1 DEF Fresh
<1>2. CASE ~air.on /\ configure_advertisement(ad, pending)
  BY <1>2, ConfigureFresh
<1>3. CASE /\ adv_state' = "CONFIGURING" /\ configured_version' = ad.version
           /\ requests' = Append(requests, Config(ad))
  <2>1. Coming(ad)'
    BY <1>3, ComingAsked
  <2>2. QED
    BY <1>3, <2>1 DEF Fresh
<1>4. CASE adv_state' = "IDLE" /\ restart_pending' = TRUE
  BY <1>4 DEF Fresh
<1>5. QED
  BY <1>1, <1>2, <1>3, <1>4 DEF stop_advertising

LEMMA RefreshFresh ==
    ASSUME NEW v \in Nat, requests \in Seq(Requests(v)), NEW ad \in Built(v), NEW state, NEW pending,
           request_refresh(ad, state, pending)
    PROVE  \/ Fresh(ad)
           \/ /\ Enter(state, pending)
              /\ state = "ADVERTISING" => ~Ready(ad) \/ ~ble_active \/ gatt_connected
BY StopFresh, ConfigureFresh DEF request_refresh

\* What is fresh is settled, or on its way there.
LEMMA FreshSettles ==
    ASSUME NEW ad, Fresh(ad), advertisement' = ad, LiveAsChosen', BleInv',
           UNCHANGED <<gatt_connected, ble_active>>
    PROVE  SettleInv'
<1>1. ad \in Built(ad.version)
  <2>1. ad = [version |-> ad.version, live |-> ad.live]
    BY DEF BleInv, BleTypeOK
  <2>2. ad.version \in 0 .. ad.version /\ ad.live \in BOOLEAN
    BY DEF BleInv, BleTypeOK
  <2>3. QED
    BY <2>1, <2>2 DEF Built
<1>2. IdleOtherwise'
  BY DEF Fresh, IdleOtherwise
<1>3. ~(adv_state = "STARTING" \/ Believes)'
  BY DEF Fresh, Believes
<1>4. Underway' => OursIsComing'
  <2>1. SUFFICES ASSUME adv_state' = "CONFIGURING" PROVE OursIsComing'
    BY <1>3 DEF Underway, Believes
  <2>2. configured_version' = ad.version /\ Coming(ad)'
    BY <2>1 DEF Fresh
  <2>3. QED
    BY <1>1, <2>2 DEF OursIsComing
<1>5. QED
  BY <1>2, <1>3, <1>4 DEF SettleInv, Believes

\* In IDLE there is nothing to settle.
LEMMA IdleSettles ==
    ASSUME adv_state' = "IDLE", LiveAsChosen'
    PROVE  SettleInv'
BY DEF SettleInv, IdleOtherwise, Underway, Believes

LEMMA LiveAsBefore ==
    ASSUME LiveAsChosen, UNCHANGED settingVars
    PROVE  LiveAsChosen'
BY DEF LiveAsChosen, settingVars, Ready

-----------------------------------------------------------------------------
(* Every step settles. *)

\* A machine that is left as it is, while nothing of ours gets lost.
LEMMA SameSettles ==
    ASSUME SettleInv, BleInv, UNCHANGED <<machineVars, settingVars, gatt_connected>>,
           ble_active => ble_active', \A ad : Coming(ad) => Coming(ad)',
           StaysOn \/ LinkComing => StaysOn' \/ LinkComing'
    PROVE  SettleInv'
<1>1. IdleOtherwise' /\ LiveAsChosen'
  BY DEF SettleInv, IdleOtherwise, LiveAsChosen, Ready, machineVars, settingVars
<1>2. Underway' => Underway /\ (Believes' => Believes)
  BY DEF Underway, Believes, machineVars
<1>3. OursIsComing => OursIsComing'
  <2>1. UNCHANGED <<configured_version, advertisement>>
    BY DEF machineVars, settingVars
  <2>2. QED
    BY <2>1 DEF OursIsComing
<1>4. Underway' => OursIsComing'
  BY <1>2, <1>3 DEF SettleInv
<1>5. Believes' => configured_version' = advertisement'.version
  BY DEF SettleInv, Believes, machineVars, settingVars
<1>6. (adv_state = "STARTING" \/ Believes)' => StaysOn' \/ LinkComing'
  BY DEF SettleInv, Believes, machineVars
<1>7. QED
  BY <1>1, <1>4, <1>5, <1>6 DEF SettleInv

\* With the same requests and the same on the air nothing gets lost.
LEMMA QuietKeeps ==
    ASSUME UNCHANGED <<requests, air>>
    PROVE  /\ \A ad : Coming(ad) => Coming(ad)'
           /\ StaysOn => StaysOn'
BY DEF Coming, StaysOn

\* A payload is built: an earlier configuration that is under way is out of date.
LEMMA BuildSettles ==
    ASSUME SettleInv, BleInv, BleInv', NEW enabled \in BOOLEAN, build_advertisement(enabled),
           sample_complete', advertise_data_enabled' = enabled,
           UNCHANGED <<gatt_connected, stackVars, events>>
    PROVE  SettleInv'
<1>1. PICK v \in Nat : v = advertisement.version /\ requests \in Seq(Requests(v))
  BY DEF BleInv, BleTypeOK
<1> DEFINE new == [version |-> v + 1, live |-> enabled]
<1>2. PICK ad : ad = new
  OBVIOUS
<1>3. ad.version = v + 1 /\ ad.live = enabled /\ ad \in Built(v + 1) /\ advertisement' = ad
  BY <1>1, <1>2 DEF build_advertisement, Built
<1>4. requests \in Seq(Requests(v + 1))
  <2>1. Requests(v) \subseteq Requests(v + 1)
    BY DEF Requests, Built
  <2>2. QED
    BY <1>1, <2>1
<1>5. request_refresh(ad, adv_state, restart_pending)
  BY <1>1, <1>2 DEF build_advertisement
<1>6. LiveAsChosen'
  BY <1>3 DEF LiveAsChosen, Ready
<1>7. UNCHANGED <<air, ble_active, linked, events, gatt_connected>>
  BY DEF stackVars
<1>8. CASE Fresh(ad)
  BY <1>3, <1>6, <1>7, <1>8, FreshSettles
<1>9. CASE /\ Enter(adv_state, restart_pending)
           /\ adv_state = "ADVERTISING" => ~Ready(ad) \/ ~ble_active \/ gatt_connected
  <2>1. adv_state # "ADVERTISING"
    BY <1>3, <1>9 DEF SettleInv, IdleOtherwise, Ready
  <2>2. UNCHANGED <<adv_state, restart_pending, configured_version, requests, faults>>
    BY <1>9 DEF Enter
  <2>3. IdleOtherwise'
    BY <1>3, <1>7, <2>2 DEF SettleInv, IdleOtherwise, Ready
  <2>4. ~Believes'
    BY <2>1, <2>2 DEF Believes
  <2>5. Underway' => OursIsComing'
    <3>1. SUFFICES ASSUME Underway' PROVE OursIsComing'
      OBVIOUS
    <3>2. OursIsComing
      BY <2>2, <2>4, <3>1 DEF SettleInv, Underway
    <3>3. PICK old \in Built(v) : old.version = configured_version /\ Coming(old)
      BY <1>1, <3>2 DEF OursIsComing
    <3>4. Coming(old)'
      BY <1>7, <2>2, <3>3, QuietKeeps
    <3>5. old \in Built(v + 1) /\ old.version # v + 1
      BY <3>3 DEF Built
    <3>6. QED
      BY <1>3, <2>2, <3>3, <3>4, <3>5 DEF OursIsComing
  <2>6. adv_state' = "STARTING" => StaysOn' \/ LinkComing'
    <3>1. UNCHANGED <<requests, air, linked, events>>
      BY <1>7, <2>2
    <3>2. LinkComing' <=> LinkComing
      BY <3>1 DEF LinkComing
    <3>3. StaysOn => StaysOn'
      BY <3>1, QuietKeeps
    <3>4. QED
      BY <2>2, <3>2, <3>3 DEF SettleInv
  <2>7. QED
    BY <1>6, <2>3, <2>4, <2>5, <2>6 DEF SettleInv
<1>10. QED
  BY <1>4, <1>3, <1>5, <1>8, <1>9, RefreshFresh

LEMMA PublishSettles ==
    ASSUME SettleInv, BleInv, BleInv', PublishSample
    PROVE  SettleInv'
<1>1. PICK enabled \in BOOLEAN : enabled = advertise_data_enabled
  BY DEF BleInv, BleTypeOK
<1>2. build_advertisement(enabled)
  BY <1>1 DEF PublishSample
<1>3. QED
  BY <1>1, <1>2, BuildSettles DEF PublishSample

LEMMA PrivacySettles ==
    ASSUME SettleInv, BleInv, BleInv', SetAdvertiseDataEnabled
    PROVE  SettleInv'
<1>1. CASE sample_complete
  <2>1. PICK enabled \in BOOLEAN : enabled = advertise_data_enabled'
    BY DEF BleInv, BleTypeOK
  <2>2. build_advertisement(enabled)
    BY <1>1, <2>1 DEF SetAdvertiseDataEnabled
  <2>3. QED
    BY <1>1, <2>1, <2>2, BuildSettles DEF SetAdvertiseDataEnabled
<1>2. CASE ~sample_complete
  <2>1. adv_state = "IDLE"
    BY <1>2 DEF SettleInv, IdleOtherwise, LiveAsChosen
  <2>2. adv_state' = "IDLE" /\ UNCHANGED <<advertisement, sample_complete>>
    BY <1>2, <2>1 DEF SetAdvertiseDataEnabled, machineVars
  <2>3. LiveAsChosen'
    BY <1>2, <2>2 DEF SettleInv, LiveAsChosen, Ready
  <2>4. QED
    BY <2>2, <2>3, IdleSettles
<1>3. QED
  BY <1>1, <1>2

LEMMA IntervalSettles ==
    ASSUME SettleInv, BleInv, BleInv', SetAdvertisingInterval
    PROVE  SettleInv'
<1>1. PICK v \in Nat : v = advertisement.version /\ requests \in Seq(Requests(v))
  BY DEF BleInv, BleTypeOK
<1>2. PICK ad \in Built(v) : ad = advertisement
  BY <1>1, CurrentBuilt
<1>3. request_refresh(ad, adv_state, restart_pending) /\ advertisement' = ad
  BY <1>2 DEF SetAdvertisingInterval
<1>4. /\ UNCHANGED <<advertise_data_enabled, sample_complete, gatt_connected, events>>
      /\ UNCHANGED <<air, ble_active, linked>>
  BY DEF SetAdvertisingInterval, stackVars
<1>5. LiveAsChosen'
  BY <1>2, <1>3, <1>4 DEF SettleInv, LiveAsChosen, Ready
<1>6. CASE Fresh(ad)
  BY <1>3, <1>4, <1>5, <1>6, FreshSettles
<1>7. CASE Enter(adv_state, restart_pending)
  <2>1. UNCHANGED <<adv_state, restart_pending, configured_version, requests, advertisement>>
    BY <1>2, <1>3, <1>7 DEF Enter
  <2>2. OursIsComing => OursIsComing'
    BY <1>4, <2>1, QuietKeeps DEF OursIsComing
  <2>3. StaysOn \/ LinkComing => StaysOn' \/ LinkComing'
    BY <1>4, <2>1, QuietKeeps DEF LinkComing
  <2>4. (Believes' <=> Believes) /\ (Underway' <=> Underway) /\ IdleOtherwise'
    BY <1>4, <2>1 DEF SettleInv, Believes, Underway, IdleOtherwise, Ready
  <2>5. QED
    BY <1>5, <2>1, <2>2, <2>3, <2>4 DEF SettleInv
<1>8. QED
  BY <1>1, <1>3, <1>6, <1>7, RefreshFresh

LEMMA LoopSettles ==
    ASSUME SettleInv, BleInv, BleInv', Loop
    PROVE  SettleInv'
<1>1. PICK v \in Nat : v = advertisement.version /\ requests \in Seq(Requests(v))
  BY DEF BleInv, BleTypeOK
<1>2. PICK ad \in Built(v) : ad = advertisement
  BY <1>1, CurrentBuilt
<1>3. Ready(ad) /\ ~gatt_connected /\ ble_active /\ stop_advertising(ad, FALSE)
  BY <1>2 DEF Loop
<1>4. Fresh(ad)
  BY <1>1, <1>3, StopFresh
<1>5. advertisement' = ad /\ UNCHANGED <<gatt_connected, ble_active, settingVars>>
  BY <1>2 DEF Loop, settingVars, stackVars
<1>6. LiveAsChosen'
  BY <1>5, LiveAsBefore DEF SettleInv
<1>7. QED
  BY <1>4, <1>5, <1>6, FreshSettles

\* An event that leaves the machine as it is.
LEMMA IgnoredSettles ==
    ASSUME SettleInv, BleInv, events # <<>>, events' = Tail(events),
           Head(events).kind \notin {"CONNECT", "DISCONNECT"},
           Enter(adv_state, restart_pending),
           UNCHANGED <<settingVars, stackVars, gatt_connected>>
    PROVE  SettleInv'
<1>1. UNCHANGED <<machineVars, requests>>
  BY DEF Enter, machineVars
<1>2. UNCHANGED <<air, ble_active, linked>>
  BY DEF stackVars
<1>3. LinkComing => LinkComing'
  BY <1>2, LinkComingDispatched DEF BleInv
<1>4. (\A ad : Coming(ad) => Coming(ad)') /\ (StaysOn => StaysOn')
  BY <1>1, <1>2, QuietKeeps
<1>5. QED
  BY <1>1, <1>2, <1>3, <1>4, SameSettles

LEMMA DataSetSettles ==
    ASSUME SettleInv, BleInv, BleInv', events # <<>>, events' = Tail(events),
           Head(events).kind \notin {"CONNECT", "DISCONNECT"}, NEW ok, DataSetComplete(ok),
           UNCHANGED <<settingVars, stackVars, gatt_connected>>
    PROVE  SettleInv'
<1>1. LiveAsChosen'
  BY LiveAsBefore DEF SettleInv
<1>2. CASE Enter(adv_state, restart_pending)
  BY <1>2, IgnoredSettles
<1>3. CASE adv_state' = "IDLE"
  BY <1>1, <1>3, IdleSettles
<1>4. CASE /\ adv_state = "CONFIGURING" /\ ~gatt_connected
           /\ UNCHANGED configured_version
           /\ adv_state' = "STARTING"
           /\ requests' = Append(requests, Start(advertisement, advertising_interval_ms))
  <2>1. PICK v \in Nat : v = advertisement.version /\ requests \in Seq(Requests(v))
    BY InvMachine DEF BleInv
  <2>2. PICK r \in Requests(v) : r = Start(advertisement, advertising_interval_ms)
    <3>1. advertisement \in Built(v) /\ advertising_interval_ms \in Nat
      BY <2>1, CurrentBuilt, IntervalType
    <3>2. Start(advertisement, advertising_interval_ms) \in Requests(v)
      BY <3>1 DEF Start, Requests
    <3>3. QED
      BY <3>2
  <2>3. r.op = "start" /\ r.data = advertisement /\ requests' = Append(requests, r)
    BY <1>4, <2>2 DEF Start
  <2>4. UNCHANGED <<advertisement, air, ble_active, linked>>
    BY DEF settingVars, stackVars
  <2>5. Ready(r.data)
    BY <1>4, <2>3 DEF SettleInv, IdleOtherwise
  <2>6. StaysOn'
    BY <2>1, <2>3, <2>5, StaysOnAppended
  <2>7. \A ad : Coming(ad) => Coming(ad)'
    BY <2>1, <2>3, <2>4, ComingAppended
  <2>8. OursIsComing'
    BY <1>4, <2>4, <2>7 DEF SettleInv, Underway, OursIsComing
  <2>9. IdleOtherwise'
    BY <1>4, <2>4 DEF SettleInv, IdleOtherwise, Ready
  <2>10. QED
    BY <1>1, <1>4, <2>6, <2>8, <2>9 DEF SettleInv, Believes
<1>5. QED
  BY <1>2, <1>3, <1>4 DEF DataSetComplete, Enter, Request

LEMMA StartSettles ==
    ASSUME SettleInv, BleInv, BleInv', Dormant, events # <<>>, events' = Tail(events),
           Head(events).kind \notin {"CONNECT", "DISCONNECT"}, NEW ok, StartComplete(ok),
           UNCHANGED <<settingVars, stackVars, gatt_connected>>
    PROVE  SettleInv'
<1>1. LiveAsChosen'
  BY LiveAsBefore DEF SettleInv
<1>2. UNCHANGED <<advertisement, air, ble_active, linked>>
  BY DEF settingVars, stackVars
<1>3. ble_active
  BY DEF Dormant
<1>4. CASE Enter(adv_state, restart_pending)
  BY <1>4, IgnoredSettles
<1>5. CASE adv_state' = "IDLE"
  BY <1>1, <1>5, IdleSettles
<1>6. CASE /\ adv_state = "STARTING" /\ configured_version = advertisement.version
           /\ Enter("ADVERTISING", FALSE)
  <2>1. adv_state' = "ADVERTISING" /\ UNCHANGED <<configured_version, requests>>
    BY <1>6 DEF Enter
  <2>2. OursIsComing'
    BY <1>2, <1>6, <2>1, QuietKeeps DEF SettleInv, Underway, OursIsComing
  <2>3. LinkComing => LinkComing'
    BY <1>2, LinkComingDispatched DEF BleInv
  <2>4. StaysOn' \/ LinkComing'
    BY <1>2, <1>6, <2>1, <2>3, QuietKeeps DEF SettleInv
  <2>5. IdleOtherwise'
    BY <1>2, <1>6 DEF SettleInv, IdleOtherwise, Ready
  <2>6. QED
    BY <1>1, <1>2, <1>6, <2>1, <2>2, <2>4, <2>5 DEF SettleInv
<1>7. CASE adv_state = "STARTING" /\ request_refresh(advertisement, "ADVERTISING", FALSE)
  <2>1. PICK v \in Nat : v = advertisement.version /\ requests \in Seq(Requests(v))
    BY InvMachine DEF BleInv
  <2>2. PICK ad \in Built(v) : ad = advertisement
    BY <2>1, CurrentBuilt
  <2>3. Ready(ad) /\ ~gatt_connected
    BY <1>7, <2>2 DEF SettleInv, IdleOtherwise
  <2>4. Fresh(ad)
    BY <1>3, <1>7, <2>1, <2>2, <2>3, RefreshFresh
  <2>5. QED
    BY <1>1, <1>2, <2>2, <2>4, FreshSettles
<1>8. CASE ~gatt_connected /\ Ready(advertisement) /\ Enter("ADVERTISING", TRUE)
  BY <1>1, <1>2, <1>3, <1>8 DEF Enter, SettleInv, IdleOtherwise, Ready, Underway, Believes
<1>9. QED
  BY <1>4, <1>5, <1>6, <1>7, <1>8 DEF StartComplete, Enter

LEMMA StopSettles ==
    ASSUME SettleInv, BleInv, BleInv', events # <<>>, events' = Tail(events),
           Head(events).kind \notin {"CONNECT", "DISCONNECT"}, StopComplete,
           UNCHANGED <<settingVars, stackVars, gatt_connected>>
    PROVE  SettleInv'
<1>1. LiveAsChosen'
  BY LiveAsBefore DEF SettleInv
<1>2. CASE Enter(adv_state, restart_pending)
  BY <1>2, IgnoredSettles
<1>3. CASE adv_state = "STOPPING" /\ configure_advertisement(advertisement, restart_pending)
  <2>1. PICK v \in Nat : v = advertisement.version /\ requests \in Seq(Requests(v))
    BY InvMachine DEF BleInv
  <2>2. PICK ad \in Built(v) : ad = advertisement
    BY <2>1, CurrentBuilt
  <2>3. ble_active
    BY <1>3 DEF SettleInv, IdleOtherwise
  <2>4. Fresh(ad)
    BY <1>3, <2>1, <2>2, <2>3, ConfigureFresh
  <2>5. advertisement' = ad /\ UNCHANGED <<gatt_connected, ble_active>>
    BY <2>2 DEF settingVars, stackVars
  <2>6. QED
    BY <1>1, <2>4, <2>5, FreshSettles
<1>4. QED
  BY <1>2, <1>3 DEF StopComplete

LEMMA DispatchSettles ==
    ASSUME SettleInv, BleInv, BleInv', Dormant, Dispatch
    PROVE  SettleInv'
<1> DEFINE e == Head(events)
<1>1. events # <<>> /\ events' = Tail(events) /\ UNCHANGED <<settingVars, stackVars>>
  BY DEF Dispatch
<1>2. LiveAsChosen'
  BY <1>1, LiveAsBefore DEF SettleInv
<1>3. e.kind \notin {"CONNECT", "DISCONNECT"} => UNCHANGED gatt_connected
  BY DEF Dispatch
<1>4. PICK ok : ok = e.ok
  OBVIOUS
<1>5. CASE e.kind = "DATA_SET" /\ DataSetComplete(ok)
  BY <1>1, <1>3, <1>5, DataSetSettles
<1>6. CASE e.kind = "START" /\ StartComplete(ok)
  BY <1>1, <1>3, <1>6, StartSettles
<1>7. CASE e.kind = "STOP" /\ StopComplete
  BY <1>1, <1>3, <1>7, StopSettles
<1>8. CASE adv_state' = "IDLE"
  BY <1>2, <1>8, IdleSettles
<1>9. QED
  BY <1>4, <1>5, <1>6, <1>7, <1>8 DEF Dispatch, Enter, Disconnected

LEMMA ActivateSettles ==
    ASSUME SettleInv, BleInv, Activate
    PROVE  SettleInv'
<1>1. adv_state' = "IDLE" /\ UNCHANGED settingVars
  BY DEF Activate, SettleInv, IdleOtherwise, machineVars
<1>2. LiveAsChosen'
  BY <1>1, LiveAsBefore DEF SettleInv
<1>3. QED
  BY <1>1, <1>2, IdleSettles

\* The stack carries out a request, and no completion of ours fails.
LEMMA ExecuteSettles ==
    ASSUME SettleInv, BleInv, Reliable, Execute
    PROVE  SettleInv'
<1> DEFINE r == Head(requests)
<1>1. PICK v \in Nat : v = advertisement.version /\ requests \in Seq(Requests(v))
  BY DEF BleInv, BleTypeOK
<1>2. /\ requests # <<>> /\ requests' = Tail(requests) /\ r \in Requests(v)
      /\ UNCHANGED <<machineVars, settingVars, gatt_connected, ble_active, linked>>
  BY <1>1 DEF Execute
<1>3. air = [air EXCEPT !.data = air.data] /\ air \in [on : BOOLEAN, data : Built(v), interval : Nat]
  BY <1>1 DEF BleInv, BleTypeOK
<1>4. LinkComing => LinkComing'
  <2>1. events' = events \/ \E e \in Events : events' = Append(events, e)
    <3>1. \A kind \in {"DATA_SET", "START", "STOP"}, ok \in BOOLEAN : Event(kind, ok) \in Events
      BY DEF Event, Events
    <3>2. CASE r.op = "config" /\ ExecuteConfig(r)
      BY <3>1, <3>2 DEF ExecuteConfig
    <3>3. CASE r.op = "start" /\ ExecuteStart(r)
      BY <3>1, <3>3 DEF ExecuteStart
    <3>4. CASE r.op = "stop" /\ ExecuteStop(r)
      <4>1. air'.on \in BOOLEAN
        BY <1>3, <3>4 DEF ExecuteStop
      <4>2. QED
        BY <3>1, <3>4, <4>1 DEF ExecuteStop
    <3>5. QED
      BY <3>2, <3>3, <3>4 DEF Execute
  <2>2. QED
    BY <1>2, <2>1, LinkComingAppended DEF LinkComing, BleInv
<1>5. air'.data = IF r.op = "config" THEN r.data ELSE air.data
  <2>1. CASE r.op = "config" /\ ExecuteConfig(r)
    BY <1>3, <2>1, NoneFails DEF ExecuteConfig
  <2>2. CASE r.op = "start" /\ ExecuteStart(r)
    BY <1>3, <2>2 DEF ExecuteStart
  <2>3. CASE r.op = "stop" /\ ExecuteStop(r)
    BY <1>3, <2>3 DEF ExecuteStop
  <2>4. QED
    BY <2>1, <2>2, <2>3 DEF Execute
<1>6. \A ad : Coming(ad) => Coming(ad)'
  BY <1>1, <1>2, <1>5, ComingExecuted
<1>7. air.on /\ r.op # "stop" => air'.on
  <2>1. CASE r.op = "config" /\ ExecuteConfig(r)
    BY <1>3, <2>1 DEF ExecuteConfig
  <2>2. CASE r.op = "start" /\ ExecuteStart(r)
    BY <1>3, <2>2 DEF ExecuteStart
  <2>3. QED
    BY <2>1, <2>2 DEF Execute
<1>8. r.op = "start" /\ Ready(r.data) => air'.on \/ linked
  <2>1. SUFFICES ASSUME ExecuteStart(r), Ready(r.data) PROVE air'.on \/ linked
    BY DEF Execute
  <2>2. CASE air' = [air EXCEPT !.on = TRUE, !.interval = r.interval]
    BY <1>3, <2>2
  <2>3. QED
    BY <2>1, <2>2, NoneFails DEF ExecuteStart
<1>9. StaysOn \/ LinkComing => StaysOn' \/ LinkComing'
  <2>1. CASE LinkComing
    BY <1>4, <2>1
  <2>2. CASE ~LinkComing /\ StaysOn
    <3>1. ~linked
      BY <2>2 DEF LinkComing
    <3>2. StaysOn'
      BY <1>1, <1>2, <1>7, <1>8, <2>2, <3>1, StaysOnExecuted
    <3>3. QED
      BY <3>2
  <2>3. QED
    BY <2>1, <2>2
<1>10. QED
  BY <1>2, <1>6, <1>9, SameSettles

LEMMA LinkSettles ==
    ASSUME SettleInv, BleInv, Connect \/ Disconnect
    PROVE  SettleInv'
<1>1. /\ UNCHANGED <<machineVars, settingVars, gatt_connected, ble_active, requests>>
      /\ air'.data = air.data
  <2>1. air \in [on : BOOLEAN, data : Built(advertisement.version), interval : Nat]
    BY DEF BleInv, BleTypeOK
  <2>2. QED
    BY <2>1 DEF Connect, Disconnect
<1>2. \A ad : Coming(ad) => Coming(ad)'
  BY <1>1 DEF Coming
<1>3. LinkComing'
  <2>1. CASE Connect
    BY <2>1 DEF Connect, LinkComing
  <2>2. CASE Disconnect
    <3>1. events' = Append(events, Event("DISCONNECT", TRUE)) /\ events \in Seq(Events)
      BY <2>2 DEF Disconnect, BleInv
    <3>2. \A q \in Seq(Events), e \in Events :
             Len(q) + 1 \in DOMAIN Append(q, e) /\ Append(q, e)[Len(q) + 1] = e
      OBVIOUS
    <3>3. Event("DISCONNECT", TRUE) \in Events
      BY DEF Event, Events
    <3>4. Len(events) + 1 \in DOMAIN events' /\ events'[Len(events) + 1] = Event("DISCONNECT", TRUE)
      BY <3>1, <3>2, <3>3
    <3>5. events'[Len(events) + 1].kind = "DISCONNECT"
      BY <3>4 DEF Event
    <3>6. QED
      BY <3>4, <3>5 DEF LinkComing
  <2>3. QED
    BY <2>1, <2>2
<1>4. QED
  BY <1>1, <1>2, <1>3, SameSettles

LEMMA NextSettles ==
    ASSUME SettleInv, BleInv, BleInv', Dormant, Reliable, [BleNext]_bleVars
    PROVE  SettleInv'
<1>1. CASE UNCHANGED bleVars
  <2>1. UNCHANGED <<machineVars, settingVars, gatt_connected, ble_active, air, requests, linked, events>>
    BY <1>1 DEF bleVars, stackVars
  <2>2. (\A ad : Coming(ad) => Coming(ad)') /\ (StaysOn => StaysOn') /\ (LinkComing => LinkComing')
    BY <2>1, QuietKeeps DEF LinkComing
  <2>3. QED
    BY <2>1, <2>2, SameSettles
<1>2. CASE BleNext
  BY <1>2, PublishSettles, PrivacySettles, IntervalSettles, LoopSettles, DispatchSettles,
     ActivateSettles, ExecuteSettles, LinkSettles DEF BleNext
<1>3. QED
  BY <1>1, <1>2

\* Where no failures are left there will be none.
LEMMA HelpersReliable ==
    ASSUME faults = 0, NEW ad, NEW state, NEW pending
    PROVE  /\ Enter(state, pending) => faults' = 0
           /\ configure_advertisement(ad, pending) => faults' = 0
           /\ stop_advertising(ad, pending) => faults' = 0
           /\ request_refresh(ad, state, pending) => faults' = 0
<1>1. Enter(state, pending) => faults' = 0
  BY DEF Enter
<1>2. configure_advertisement(ad, pending) => faults' = 0
  BY DEF configure_advertisement, Enter, Request, Fails
<1>3. stop_advertising(ad, pending) => faults' = 0
  BY <1>2 DEF stop_advertising, Fails
<1>4. request_refresh(ad, state, pending) => faults' = 0
  BY <1>1, <1>2, <1>3 DEF request_refresh
<1>5. QED
  BY <1>1, <1>2, <1>3, <1>4

LEMMA ReliableStays ==
    ASSUME Reliable, [BleNext]_bleVars
    PROVE  Reliable'
<1>1. CASE Faults \cap {"config", "start"} = {}
  BY <1>1 DEF Reliable
<1>2. CASE faults = 0
  <2> SUFFICES faults' = 0
    BY DEF Reliable
  <2>1. PICK ad, state, pending, new :
            ad = advertisement /\ state = adv_state /\ pending = restart_pending /\ new = advertisement'
    OBVIOUS
  <2>2. CASE PublishSample \/ SetAdvertiseDataEnabled \/ SetAdvertisingInterval
    <3>1. UNCHANGED faults \/ request_refresh(new, state, pending)
      BY <2>1, <2>2 DEF PublishSample, SetAdvertiseDataEnabled, SetAdvertisingInterval,
         build_advertisement
    <3>2. QED
      BY <1>2, <3>1, HelpersReliable
  <2>3. CASE Loop
    BY <1>2, <2>1, <2>3, HelpersReliable DEF Loop
  <2>4. CASE Dispatch
    <3>1. PICK ok : ok = Head(events).ok
      OBVIOUS
    <3>2. CASE DataSetComplete(ok)
      BY <1>2, <3>2 DEF DataSetComplete, Enter, Request, Fails
    <3>3. CASE StartComplete(ok)
      <4>1. CASE request_refresh(ad, "ADVERTISING", FALSE)
        BY <1>2, <4>1, HelpersReliable
      <4>2. QED
        BY <1>2, <2>1, <3>3, <4>1 DEF StartComplete, Enter
    <3>4. CASE StopComplete
      <4>1. CASE configure_advertisement(ad, pending)
        BY <1>2, <4>1, HelpersReliable
      <4>2. QED
        BY <1>2, <2>1, <3>4, <4>1 DEF StopComplete, Enter
    <3>5. CASE Enter("IDLE", restart_pending) \/ Disconnected
      BY <1>2, <3>5 DEF Enter, Disconnected
    <3>6. QED
      BY <2>4, <3>1, <3>2, <3>3, <3>4, <3>5 DEF Dispatch
  <2>5. CASE Execute
    <3>1. PICK r : r = Head(requests)
      OBVIOUS
    <3>2. ExecuteConfig(r) \/ ExecuteStart(r) \/ ExecuteStop(r)
      BY <2>5, <3>1 DEF Execute
    <3>3. ExecuteConfig(r) => faults' = 0
      BY <1>2 DEF ExecuteConfig, Fails
    <3>4. ExecuteStart(r) => faults' = 0
      <4>1. ~Fails("start") /\ ~Fails("foreign start")
        BY <1>2 DEF Fails
      <4>2. ~Fails(IF Ready(r.data) THEN "start" ELSE "foreign start")
        BY <4>1
      <4>3. QED
        BY <1>2, <4>2 DEF ExecuteStart
    <3>5. ExecuteStop(r) => faults' = 0
      BY <1>2 DEF ExecuteStop, Fails
    <3>6. QED
      BY <3>2, <3>3, <3>4, <3>5
  <2>6. CASE Activate \/ Connect \/ Disconnect \/ UNCHANGED bleVars
    BY <1>2, <2>6 DEF bleVars, Activate, Connect, Disconnect
  <2>7. QED
    BY <2>2, <2>3, <2>4, <2>5, <2>6 DEF BleNext
<1>3. QED
  BY <1>1, <1>2 DEF Reliable

\* sensirion_ble.cpp:161-269: however late the stack answers, whatever it refuses,
\* whichever connections and restarts of ESPHome's advertiser cross the completions,
\* and for every number of samples: when no configuration or start of ours completes
\* with a failure, the machine settles on the current payload and the last privacy
\* choice only.
THEOREM SettlesOnTheCurrent == BleSpec /\ Reliable => []SettledShowsCurrent
<1>1. BleInit => Dormant /\ SettleInv
  <2>1. SUFFICES ASSUME BleInit PROVE Dormant /\ SettleInv
    OBVIOUS
  <2>2. /\ adv_state = "IDLE" /\ advertisement.version = 0 /\ sample_complete = FALSE
        /\ requests = <<>> /\ events = <<>> /\ air.on = FALSE /\ linked = FALSE /\ gatt_connected = FALSE
    BY <2>1 DEF BleInit
  <2>3. ~Ready(advertisement)
    BY <2>2 DEF Ready
  <2>4. QED
    BY <2>2, <2>3 DEF Dormant, SettleInv, IdleOtherwise, LiveAsChosen, Underway, Believes
<1>2. BleInv /\ SettleInv => SettledShowsCurrent
  <2>1. SUFFICES ASSUME BleInv, SettleInv, Settled
                 PROVE  air.on /\ air.data = advertisement /\ air.data.live = advertise_data_enabled
    BY DEF SettledShowsCurrent
  <2>2. requests = <<>> /\ Believes /\ ~LinkComing
    BY <2>1 DEF Settled, Believes, LinkComing
  <2>3. air.on
    BY <2>1, <2>2 DEF SettleInv, StaysOn
  <2>4. air.data = advertisement
    BY <2>1, <2>2 DEF SettleInv, Underway, OursIsComing, Coming
  <2>5. sample_complete /\ advertisement.live = advertise_data_enabled
    BY <2>1, <2>2 DEF SettleInv, IdleOtherwise, LiveAsChosen, Believes
  <2>6. QED
    BY <2>3, <2>4, <2>5
<1>3. QED
  BY <1>1, <1>2, InitInv, NextInv, DormantStep, NextSettles, ReliableStays, PTL DEF BleSpec

=============================================================================
