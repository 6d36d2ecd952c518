# Specifications of the Unni CO2 sniffer firmware

TLA+ modules, model-checking configurations and machine-checked proofs for the
ESPHome components `co2_monitor_0601` and `sensirion_gadget_bridge`: firmware of
an ESP32-C3 that listens passively on the display bus and the RT/RH timing
signals of an "Unni" CO2 monitor, sleeps between the monitor's measurement
windows, and offers the readings to Home Assistant and, as a Sensirion gadget
with a downloadable history, over BLE.

Source paths below are relative to the repository's root (`src/` here).

## 1. The system

### Components, their state and their operations

| Component (source) | State | Operations | Hard behaviour |
|---|---|---|---|
| **Power manager** `co2_monitor_0601/power_save.cpp` | eight esp_pm lock handles with their ownership flags, light-sleep wake levels of SDA and SCL, recorded bus state, warm-up, RT/RH awake window, two activity generations | `setup`, `set_external_power`, `set_co2_bus_powered_down`, `begin_co2_warmup`, `promote_co2_warmup`, `on_rtrh_complete`, `on_valid_co2`, `set_transport_busy`, `loop`; from interrupts `on_rtrh_edge_from_isr`, `on_co2_edge_from_isr` | interrupts between two steps of the task; every driver call can fail and leaves half a pair; retries; deadlines |
| **CO2 capture gate and power policy** `co2_monitor_0601.cpp` | gate phase (Active, WaitIdleStable, Guard, WakeArmed, Warmup), window observations, gate request, USB and Energy Save Mode with its grace period | `process_co2_capture_gate_`, `gate_co2_capture_after_window_`, `apply_power_policy_`, `set_energy_save_mode`, `process_usb_power_` | a second state machine over the same bus, reset by other calls than the first |
| **Passive I2C sniffer** `i2c_sniffer.cpp` | edge buffer, finished flag, last-edge time, pending debug export, frozen copy of a suspicious capture | `gpio_isr`, `poll`, `set_capture_enabled`, `rearm_after_light_sleep`, `suspend`/`restore_passive_gpio`, export steps, HTTP download | the buffer changes hands between an interrupt and the task; time stamps read in the wrong order |
| **Debug UDP** `debug_udp.cpp` | circuit breaker with a cooldown that doubles | `send_packet`, `loop` | several exporters, retries against a collector that is absent |
| **Frame decoder, missing-clock recovery** `i2c_sniffer.cpp` | the sample buffer, the RMT record of SCL | `decode_capture`, search for missing pulses, RMT repair | edges that a late interrupt merges or loses; two repairs that both fit |
| **CO2 readings** `co2_decoder.cpp`, `co2_monitor_0601.cpp` | confirmation of suspicious readings | `validate_measurement_capture`, `process_co2_` | confirmation across errors |
| **RT/RH decoder** `rtrh_decoder.cpp`, `rtrh_validation.h`, `rtrh_wake_guard.h` | accumulators of three phases, wake capture, snapshot | edge interrupt, `loop`, re-arm after a wake | the wake edge comes in the middle of what it starts |
| **Bridge core, coalescer** `sensirion_bridge_core.cpp` | shared sample, pending external values, timer | `publish_*`, `note_external_*`, `commit_external_if_due` | values of two sensors at different times |
| **Publishing to Home Assistant, active probe** `co2_monitor_0601.cpp` | cached values, shared throttle, probe phase | `maybe_publish_ha_`, `process_probe_` | everything restarts one throttle |
| **Wi-Fi/HA switch, recovery window** `co2_monitor_0601.cpp` | shared setting, pending disable, USB debounce, window | switch writes, USB, `loop` | timers and two owners of one setting |
| **Device settings** `sensirion_settings.cpp` | settings, dirty flag, retry time | loading with migrations, GATT writes, `loop` | a preference that is saved and not synced; restarts |
| **Pairing window** `sensirion_gadget_bridge.cpp` | window, confirmation under way | button, comparison, completion | a confirmation that outlives its window |
| **BLE advertiser** `sensirion_ble.cpp` | advertising state machine | setters, GAP events, `loop` | asynchronous completions, timeouts, disconnects |
| **Sample history** `sensirion_history.cpp` | ring of samples and A/B journal in flash, pending ring in RAM, clear in progress, runs with their anchors, run index in NVS, download | `sampling_tick`, `commit_sample`, `flush_flash`, `write_meta`, `request_clear`, `clear_tick`, `init_flash`, `start_download`, `download_tick` | a reset inside any flash operation; calls that fail; saturating counts; a wall clock that comes late; a window that moves under a download |
| Transfer guard, calibration, battery, SHT43 probe, host builds, code generation, tools, board | – | – | see section 5 |

### How they interact

The ESPHome main task calls each component's `loop()` in turn. One pass of
`CO2Monitor0601::loop()` applies USB and Energy Save changes, re-arms the sniffer
after an RT/RH wake, runs the capture gate, polls the RT/RH decoder and the
sniffer, tells the power manager whether an export is pending, and ends in
`power_save::loop()`. GPIO interrupts of the two CO2 pins and the RT/RH pins run
in between, on the one core. They share with the task the sniffer's buffer, the
decoder's accumulators, and the lock flags, wake state and generations of the
power manager. A web server task of its own downloads frozen captures. Accepted
readings go to the bridge core, which hands complete samples to the advertiser
and the history. The history shares nothing with the interrupts: what can come
between two of its steps is a client, or a reset.

### What makes each component correct

* **Power manager**: a lock's flag and the count in esp_pm never part; what is
  armed as a wake source fits the recorded bus state; the hand-over from the
  interrupt's locks to the task's has no gap; nothing stays locked for ever.
* **Gate**: it agrees with the power manager about the bus; the edge interrupt is
  on in the right phases; the chip is awake in a native window and asleep outside.
* **Sniffer and breaker**: nothing is stored in a buffer that the task reads;
  every way to empty it arms it again; backoff is earned back, never forgotten.
* **Decoders**: a capture that is accepted is what was on the bus; a measurement
  that is valid is one waveform.
* **Readings**: suspicion is lived down by two readings in a row; pairs are made
  of the newest words; Home Assistant catches up.
* **Settings, Wi-Fi, pairing**: what counts as saved survives; Wi-Fi follows the
  setting in the end; one opening lets in one phone.
* **BLE**: the current payload is on the air in the end; connections are quiet.
* **History**: a checkpoint saves what it counted; a reset loses only what came
  after it; counts agree; the time a client works out for a sample is the time it
  was taken; walking the runs repeats none.

## 2. The modules

Each component module has an MC module with its instance, and a `.cfg` of the
same name; `*_proofs` modules hold the theorems.

| Module | What it is |
|---|---|
| `PowerSave` | `power_save.cpp`: every operation and both interrupt handlers |
| `Co2Gate` | the capture gate and the power policy; extends `PowerSave` and is composed with it |
| `SnifferBuffer` | abstract: the edge buffer as the gate relies on it |
| `DebugUdp` | the circuit breaker of `debug_udp.cpp` |
| `I2cCapture` | the sniffer; extends `DebugUdp`, implements `SnifferBuffer` |
| `I2cWire` | the bus: what master and slave put on the lines, what a late interrupt stores |
| `FrameDecoder`, `MissingClock` | `decode_capture` with the validator, the pulse candidates and the RMT repair, as pure operators |
| `CaptureRecovery` | what `poll()` does with a finished capture, checked against `I2cWire` |
| `RtrhDecoder` | `rtrh_decoder.cpp`: interrupt, `loop()`, wake capture, validity |
| `BridgeCore` | the shared sample and the coalescer |
| `SamplePath` | from a decoded capture or measurement to BLE and Home Assistant; extends `BridgeCore` |
| `DeviceSettings`, `WifiSwitch`, `PairingWindow` | one component each |
| `GadgetControl` | the three together with restarts |
| `BleAdvertiser` | `sensirion_ble.cpp` with the Bluetooth stack it drives |
| `HistoryLog` | abstract: what a sample history promises, a bounded log and its checkpoints |
| `HistoryStore` | ring, journal, clearing, restart; implements `HistoryLog` |
| `HistoryRuns` | runs, anchors, run index and downloads over that log |

### PowerSave

Variables carry the names of the file-scope state. A lock handle is a record of
the driver's `held` flag and of the count that esp_pm keeps; the property
`OwnershipExact` is about the two never parting. `gpioWake` is the wake level of
each CO2 pin, whatever flag says it is armed. Times are ages in ticks of a
second, saturating where the code only compares.

Operations are one action each. On one core an interrupt can only come where the
task has not masked it, so task code is cut in two only where a handler could see
a difference: between recording the new bus state and masking
(`SetCo2BusPoweredDown` / `ApplyBus`, `pc = "bus"`), and between the clock reading
and the window check of `loop()` (`LoopReconcile` / `LoopWindow`,
`pc = "window"`). `now_us = "wrapped"` says that an edge has opened the window
after the reading, so that the unsigned difference is huge. While `faulty` holds,
each esp_pm call and each `gpio_wakeup_enable` may fail independently
(`AcquireOutcomes`, `ReleaseOutcomes`); `Heal` ends that.

In `Spec` the callers are free: every operation may be called at any time in any
order. `gpio_wakeup_disable` is taken to work. `setup()` is taken to succeed when
it is modelled; before it, every operation returns at once.

### Co2Gate

Extends `PowerSave` and calls its actions. One pass of the component's `loop()` is
the sequence of stages `policy`, `gate`, `co2`, `busy`, `power`; the interrupts,
the Unni's bus (`BusEdge`, its rail is `busLow`), the network and time come
between any two steps. The sniffer is reduced to its switch, the warm-up hook and the
buffer of `SnifferBuffer`, which is empty, holds edges, or is finished; what a capture decodes to
(nothing, a plausible reading, an accepted one) is a free choice. A debug build
may start an export of a capture, which freezes the buffer until the packets are
out. `I2cCapture` implements that buffer.

`GateWake` takes the snapshot of the activity generation and calls
`begin_co2_warmup` in one step: an edge between the two sets no generation yet,
and may be in the re-armed buffer (`cap'` is free). That the rail collapses again
within those microseconds is not modelled. `debug_udp`'s breaker is in the model
as an address that comes and goes and in the fairness of `PollExport`; the breaker
itself is in `I2cCapture`, as is the active I2C probe.

### HistoryStore and HistoryLog

`HistoryStore` makes every flash operation a step of its own (`pc`), because a
reset can come between any two of them, or in the middle of one (`Interrupted`):
a program or erase that is cut short leaves the cells as they were, done, or
garbled. Flash is NOR: programming cells that are not blank garbles them
(`ProgramSample`, `ProgramRecord`). Each of the three kinds of flash calls may
fail (`Errors`). `caller` says on whose behalf a flush runs, since commit, clear
and boot go on differently after it. Timers only choose when a flush is due, so
the clock is left out and the choice is free; so is whether a sample starts a new
run. A record holds the generation, count, ring position and run length; its CRC
is the difference between `written` and `torn`. `RequestClear` is the change of
the interval (the interval itself is not in the records); runs, index and downloads
are in `HistoryRuns`.

Failed checkpoints are bounded by `CheckpointMayFail`: with the journal failing
for as long as it takes to record 2496 further samples (17 days at the default
interval), the ring would overtake the window of the last record.

`HistoryLog` has the log that a download would see, its durable prefix state, and
how much of it is still in RAM. `HistoryStore` implements it under the mapping at
the end of the module: the log is what `logical_sample` returns, the durable log
is what `init_flash` would restore at this moment. The abstract specification
names one hole that the code leaves: samples that had been programmed before a
reset but not checkpointed leave cells behind that are not blank (`spoiled`); the
next flush programs over them, and those new samples may be damaged although their
write is reported as successful. Samples that a checkpoint covers never are.

### BleAdvertiser

The functions of `sensirion_ble.cpp` run in the main task, one action per call or
dispatched event. The Bluetooth stack is modelled from how the file uses it: it
queues requests (`requests`), carries them out in order (`Execute`) and reports
completions and connections in order (`events`). A payload is its version and
whether it carries measurements; `Ready` stands for `advertisement_ready`, which is
set where the version is first counted. ESPHome's own advertiser shares the stack
and is started when the stack gets up and, perhaps, after a connection; its
advertisement has version 0. `air` is what a receiver sees. The nested calls
(`build_advertisement` calls `request_refresh`, which calls
`configure_advertisement`) are operators that take the state and the reassertion
flag as their caller leaves them.

Delays of the reassertion are not counted. Either the stack is `prompt`, and a
reassertion comes after what was requested before has been answered (the shortest
delay is 100 ms), or it may come at any time. At most one central is connected.

### I2cCapture, DebugUdp and SnifferBuffer

The interrupt (`GpioIsr`) can come between any two steps of the task; calls that
mask it first are one step. `pc` says where in `poll()` the task is: the reads of
the clock and of `last_edge`, the decision, the clearing of `capturing`, the
emptying and the new baseline are steps of their own, because the code makes them
without a mask. A level of the bus is one of two; a late interrupt sees only the
last of several. One suspicious capture is copied for the HTTP download, whose
server is a task of its own. `DebugUdp` is the breaker that both exporters send
through; what else may keep a datagram back is one outcome, `refused`, that is
always possible.

`bufferState` maps the sniffer to the three states of `SnifferBuffer`, which is
what `Co2Gate` is built on. `ImplementsBuffer` is checked and proved.

### I2cWire, FrameDecoder, MissingClock and CaptureRecovery

`Transmit` gives the levels of a list of transfers with their times; `Seen` takes
out those the interrupt came too late for. `decode_capture` and the candidates are
operators over a sequence of samples; `CaptureRecovery` takes the code's search
step by step: decode, RMT repair, one pulse, pairs of pulses, each inserted in the
buffer and taken out again. The fixed arrays are bounds of the sequences. The
validator is that of a CO2 measurement, with CRC and acknowledge bits. A wire is
whatever records levels at times that grow (`Recording`); the run takes the
measurement that `Transmit` makes. `NoWrap` says that the 32-bit clock does not
wrap within a capture, `Measurements` that every wire carries a measurement.

### RtrhDecoder

Time is counted in slices of half a phase, each with edges; the first edge that is
taken begins the reference phase. The reads of the clock and of the last edge's
time in `loop()` and the mask are steps of their own, as in `poll()`. `stalled`
keeps the main loop away from whole silences; windows of the power manager close at
any time, so that the next waveform begins with a wake capture. What a measurement
is made of is remembered beside it (`origin`, `foreign`): the code cannot see it,
the properties are about it. Durations stand for the checks of each phase; edge
counts, medians, the histogram of humidity states and the conversions are left out.

### BridgeCore and SamplePath

All of it is the main loop; what interleaves is the order in which captures (good,
damaged, implausible), measurements, external sensors, probe readings, USB and
Wi-Fi come. A CO2 reading is a number in units of the confirmation tolerance.
Of Home Assistant's cached values three stand for the rest. `suspect` and `last`
keep the history that the code's one flag and one candidate are meant to sum up.

### DeviceSettings, WifiSwitch, PairingWindow and GadgetControl

A preference has two stages, staged and in flash, since other components' syncs
write out what is staged. The monitor's state is a record that the functions of
`loop()` map one after the other; its timers are ages. A phone that has confirmed
a comparison completes its pairing at any later time. `GadgetControl` runs both
loops between two ticks and restarts everything at any point.

### HistoryRuns

A sample is the moment it was taken, in intervals. Flash is reduced to what
`HistoryLog` promises: a checkpoint saves the log, a restart returns to it, and a
flush or a record may fail (`FlushResults`). Ring positions count on and are
compared modulo `FLASH_CAPACITY`, which is what makes a stale descriptor look
valid. The wall clock is right once it is set, and is set at some point or
not; a correction beyond the two seconds that the code tolerates only starts a run.
The transfer guard and a busy stack may hold a packet back at any time (`Pause`);
two samples go into a packet. `newest`, `due`, `moved`, `crossed`, `told` and
`lost` are there for the properties.

## 3. The model-checking runs

| Run | Specification | Shows |
|---|---|---|
| `MCPowerSave` | `FairSpec`, callers and faults free | lock ownership, wake sources; nothing waits for a bus without power; every window is closed; no pair stays at odds with the policy |
| `MCPowerSaveWindow` | the same, violation | a retry that is due lets the clock be read before an edge, and the window that the edge opens is closed at once |
| `MCCo2GatePolicy` | `GateSpec` under `QuietFaults`, debug build, USB, Energy Save, network, failing drivers | the edge interrupt is on in the right phases through every policy change; the promotion of a warm-up has no gap |
| `MCCo2GateLive` | `HealthyGateFairSpec`, production build, USB, RT/RH | gate and power manager agree; native windows keep the chip awake; locks are exactly those the policy wants; hand-off locks end; the device ends up asleep when the rail stays down |
| `MCCo2GateEnergy` | `HealthyGateSpec`, violation | Energy Save Mode switched while the rail is down leaves the next window unguarded |
| `MCI2cCapture` | `BuildSpec`, release, UDP and HTTP builds | the interrupt listens when it should; a finished buffer and a frozen copy stay as they are; the breaker keeps its backoff; the buffer becomes free again; the sniffer implements `SnifferBuffer` |
| `MCDecoders` | `RecoverySpec` for one measurement with many losses, then `RtrhFairSpec` | merged data edges do no harm; what is accepted is what was sent; the losses the repairs are made for are repaired; the waveform is left as it was. RT/RH measurements begin with their waveform; valid ones are made of one; there is always another one |
| `MCSamplePath` | `SampleFairSpec` | suspect readings wait for confirmation; pairs are made of the newest words; Home Assistant catches up |
| `MCGadgetControl` | `MCGadgetSpec`, a new gadget and a used one | saved settings survive restarts, unsaved ones are saved in the end, Wi-Fi follows the setting, an opening lets in one phone |
| `MCBleAdvertiser` | `LateOrFailingSpec` | the machine settles only on the current payload, requests nothing during a connection, and returns to the air |
| `MCHistoryStore` | `MCSpec`, restarts and failing flash calls | the store implements the log; the counts agree; what is not dirty is durable |
| `MCHistoryRuns` | `RunsSpec`, restarts, late clocks and failures | anchors and ages are true; a packet brings the samples its header promises; transfers in a row repeat nothing |

Every property of a passing run is paired with a mutant of the code
(`PROJECT.json`), whose body stands in the module as an operator with a comment
that says what it gets wrong; the run must fail with it.

Two runs may stop: the advertiser when its stimuli are used up, and the history at
its last moment. `MCDecoders` puts two modules into one run: they share no variable,
so that one after the other is as good as every interleaving; a behaviour leaves the
capture at any point of `poll()` for the RT/RH lines.

### Bounds

* **PowerSave, Co2Gate.** Awake limit 1 tick, drain grace 0 or 1, retry period 1,
  gate delays 1, or 2 in the liveness run, which leaves time between two passes of
  the gate inside a delay. The code only compares ages with limits; what matters is
  which of several deadlines is reached first, and each order occurs. Generations
  wrap at 2 where they are compared, so the wrap is on every path. All eight locks,
  and the choice which of the esp_pm calls fails is free. In `MCCo2GatePolicy` the
  drivers do not fail while Energy Save Mode or the network changes (`QuietFaults`,
  an action constraint of a run that checks safety only): failures before and after
  a change are there, in the middle of one they are `MCPowerSave`'s subject.
* **I2cCapture.** Two levels, a buffer of three edges in packets of two: an export
  has one packet or two, a buffer overflows. Cooldowns 1 to 4 double twice and
  saturate, and a healthy interval is shorter than the longest.
* **CaptureRecovery.** A whole measurement, command and answer, at 25 kHz with
  stretched bytes: 160 levels. Losses are each single clock, pairs of clocks at
  distances of 1, 3 and 10, four in a row, all data changes, all setups, and pairs
  of neighbouring levels; the RMT record is there or has overflowed. One reading is
  enough, as the code looks at the data only through the CRC; the wrap of the
  microsecond clock is not in this instance.
* **RtrhDecoder.** Phases of two slices, silences of three, a quiet time of one.
  With two slices to a phase a shift by half a phase is seen.
* **SamplePath.** Four readings: implausible, two that agree, one that does not.
  Throttle 2, coalescing and probe waits 1.
* **GadgetControl.** Three names (chosen, the old default, one with a zero byte),
  two phones, one of them perhaps bonded; delays of 1 or 2; two events of users,
  phones and plugs with restarts and failing saves in between. Two events are the
  least with which a setting is changed from both sides, or a window opened twice.
* **BLE.** Four stimuli (samples, privacy and interval changes, connections) and
  two failures in any order, and two intervals, one of them below the limit. The
  longest behaviours have 58 states: a connection, a foreign start and two payloads
  cross each other. Failures come with a prompt stack only: a start that fails
  behind a queue of older requests, after a foreign start has been taken for it,
  is not noticed.
* **HistoryStore.** Three data sectors of two samples, a window of two, a pending
  ring of two, two journal sectors of two records, three generations counted from 7
  across the wrap at 8, and two mishaps (restarts or failed calls) in all. The
  initial states are a blank flash and a used one whose ring is one sample from
  wrapping. The store copies samples without looking at them, so one marked sample
  among equal ones is enough to see an order or a place mixed up.
* **HistoryRuns.** A window of three, a ring of four, a pending ring of one, an
  index of two, six moments and three events of clients, clocks, flash and
  restarts. Six samples fill the window twice and wrap the ring; three events make
  two runs, or a transfer of an older run, with one mishap.

### Fairness

* `PowerSave!FairSpec`: ESPHome calls `loop()` for ever and the clock goes on
  whatever the callers do in between: strong fairness of `LoopReconcile` and
  `Tick`, which other calls keep disabling for a moment. A call once begun is
  finished (weak fairness of `LoopWindow` and `ApplyBus`). Drivers recover
  (`Heal`): without it no lock could be promised to anyone.
* `Co2Gate!GateFairSpec`: weak fairness of `LoopStep`, since a pass of `loop()` is
  never abandoned, strong fairness of the clock, and strong fairness of an export
  that gets its packets out: while the station has an address, `debug_udp` either
  sends or gives up.
* `I2cCapture!CaptureFairness`: `poll()` is called again and again and gets to its
  end although interrupts and the HTTP server come between (weak fairness of
  `Poll`, `RestorePassiveGpio` and the clock, strong of `PollClock` and
  `PollFinished`), and a datagram that could be sent again and again is answered
  with success or ENOMEM at some point. That the station has an address again and
  again is a premise of `BufferRecycled`, not fairness.
* `RtrhDecoder!RtrhFairness`: the gadget goes on measuring, edges interrupt, the
  loop and the clock go on. That the loop is not kept away for whole silences, and
  that the power manager does not cut every waveform, are premises of
  `MeasurementsGoOn`. `MCDecoders` adds that it gets to them (`CaptureLeft`).
* `SamplePath!SampleFairSpec` and `GadgetControl!GadgetRuns`: loops and clock go on;
  strong fairness of `Saved`: of infinitely many attempts to save one succeeds.
* `BleAdvertiser!BleFairness`: the main loop keeps calling `sensirion_ble_loop` and
  dispatching events, and the stack carries out what it has accepted and gets up
  in the end. `PayloadReturns` is about the time after the last stimulus and failure,
  and about the failures after which the code schedules a reassertion.

Nothing assumes that a frame of the Unni's bus, USB or the network ever comes.
The history has safety properties only.

### What the violations say

`WindowEndsForCause` (`power_save.cpp:579`): `docs/ISR_ARCHITECTURE.md:560-562` says that a
window ends by a completed measurement or by its timeout. When a lock pair is due for
a retry, `loop()` reads the clock for it (line 551) before it looks at the window. In
TLC's trace a lock of USB times cannot be released when the plug is pulled; the next
`loop()` reads the clock to try again, an edge of the RT/RH line opens a window with
a later start, and the unsigned difference of the two wraps: the window is closed
at once, without its measurement, and its pair is released in the middle of the
waveform. The next edge opens another window; `WindowCloses` holds all the same.

`NativeWindowAwake` with Energy Save switches (`co2_monitor_0601.cpp:777`):
`apply_power_policy_` resets the gate and not the power manager's bus state. The
same cause breaks `PhaseMatchesPower` and `EdgeHandoffEnds` with that stimulus,
which is why their run is without it.

### What else the models showed

These behaviours of the code were met while modelling. Each is in the model where
it is one of the modelled parts; the properties are stated so that they say what
is left, and the exception is visible in the formula or in the run's bounds.

Power manager and gate:

* `power_save.cpp:170`: a hand-off lock whose release failed on the way to a
  powered-down bus is not retried while the CO2 pair is free, although
  `docs/ISR_ARCHITECTURE.md:552-554` says so of every handle. Likewise an SCL wake
  that could not be armed (line 337). `LocksMatchPolicy` holds with healthy drivers
  only; `PairsReconciled` is what is left of it with failing ones.
* `co2_monitor_0601.cpp:1703`: in debug builds an export without a station address
  holds up the gate request (`docs/LIGHT_SLEEP.md:104-106`), and the buffer with it.
* Debug builds: the quiet fallback switches the capture off under an export, which
  the comment at `co2_monitor_0601.cpp:1661-1663` wants to avoid; an export during
  the warm-up freezes the buffer, so that the edge that should end the warm-up is
  ignored. `SleepsBetweenWindows` is stated of the production build.

Sniffer and decoder:

* `i2c_sniffer.cpp:1722-1726`: `poll()` reads the clock before `last_edge`; an edge
  between the two makes the unsigned difference wrap, and a capture is cut in the
  middle of a transaction (`i2c_sniffer.h:131`: "Returns true when one
  quiet-period-delimited edge capture was consumed."). `PollClock` and
  `PollCompare` are the two reads. The decoder then finds a truncated frame.
* Edges that come between the decision and `capturing = false`, or between the new
  baseline and `capturing = true`, are in no capture.
* A re-arm after a wake in the middle of a UDP export leaves `udp_pending.active`.
* `i2c_sniffer.cpp:852,893`: the samples between the two edges of a pulse are found
  by comparing times as plain numbers, while line 830 compares them by their signed
  difference. A pulse that is tried in front of a wrap of the 32-bit clock inverts
  all samples behind the wrap as well, and taking it out does not restore them; the
  comment at lines 1744-1745 says that the frozen trace is never rewritten. On
  `MCDecoders`' instance with `Epochs` at `ClockMod - 1500` and the one loss
  set `{26, 27}` TLC finds `WaveformKept` violated within eight states, 139 of 164
  samples changed. The wrap comes every 71 minutes; a debug build then exports or
  serves the changed trace. `WaveformKept` is checked and proved away from the wrap.
* `rtrh_decoder.cpp:755`: in the debug build an edge between
  `debug.capturing = false` and `debug.ready = true` starts a new debug capture.

Readings and settings:

* Home Assistant's values share one throttle: on battery each accepted probe
  reading restarts it, so with the default intervals temperature and humidity are
  never repeated; `HaCatchesUp` has this as a premise. External sensors that report
  more often than every 100 ms restart the coalescer for ever.
* `README.md:401` says that the probe runs only after the bus was free of edges for
  a second; while it waits for its result only the levels are looked at.
* A publication of CO2 discards pending external values and writes the old pair
  again.
* `sensirion_settings.cpp:131-147`: the old default name is migrated at each start,
  also if a user has chosen it, and a name with a zero byte comes back shorter;
  `SettingsSurvive` leaves out these names.
* `co2_monitor_0601.cpp:2275`: with the bridge and USB attached at start, the
  restored setting is applied after the first look at USB, and no recovery window
  is opened (line 662 announces one for a "reboot with USB attached"). A pending
  disable that was asked for before a recovery window ends inside it.
* The renewed encryption of a phone that is already bonded closes the pairing
  window.

BLE: a configuration that completes with a failure (`sensirion_ble.cpp:166-169`)
schedules no reassertion, so that nothing is on the air until the next sample;
`MCBleAdvertiser` leaves that failure out, as it does a failing start of ESPHome's
advertiser. In state STARTING a change of the interval is not seen (line 198): the
completion compares payload versions only, unlike what the comment at 155-157
says, until the next sample.

History:

* `sensirion_history.cpp:593`: `meta_sector` names a sector without a record after
  a failed write, and the next clear prepares the other one, so that the only valid
  journal is erased ("At least one previously valid journal remains recoverable",
  `docs/history/RELIABILITY_HARDENING_2026-08-30.md:50-51`). The history is empty at
  that moment: a reset then finds no journal and starts a fresh one, and what is
  lost is the interval and the generation. The properties of `MCHistoryStore` speak
  of the log and are not about that.
* A sample that is committed between two packets of a transfer moves the window
  when it is full, and the next packet skips a sample (`moved`).
* A run that begins during a transfer resets the session, and the completion sets
  it to the successor of the old ordinal (`sensirion_history.cpp:985-995`): the
  same run comes again, in spite of the comment at 858-860 (`crossed`).
* After the ring has wrapped a descriptor whose slots have been written again can
  look valid and deliver other samples with its own times (`Stale`), although
  `docs/history/HISTORY_SPARSE_TIME_ANCHORS_2026-08-30.md` says that an entry is
  used only while its whole range is inside the window.
* Samples that are dropped because the pending ring cannot be flushed leave a hole
  in a run that has no stamp yet, since the sampling clock goes on (`lost`).
* An older run that cannot be dated because the wall clock is not set is answered
  by a transfer of no samples, which moves on to the next one all the same.

## 4. What is proved

All theorems hold for every value of the constants that satisfies the assumption
named in the component's module (`PowerSaveAssumption`, `RunsAssumption` and so
on): delays and capacities are naturals, positive where the code divides or wraps
by them. TLC evaluates the assumptions on its runs.

**`Co2Gate_proofs`** holds the theorems of `PowerSave` and those of the gate that
composes it. The invariant of `PowerSave` is `IInv`: `TypeOK`, `OwnershipExact`,
`NeverFalselyUnlocked` and two strengthenings about the wake sources.
`WakeExact` says exactly which wake level each combination of the two
armed flags stands for, and `ArmedInState` which flags each bus state allows;
`WakeMatchesBusState` alone is not inductive, since `disable_co2_warmup_wakeup_`
only touches pins whose flag is set. Every lock operation is summed up by a lemma
about its outcomes (`ReleaseTouches`, `AcquireTouches`): it changes the handles
named and keeps flag and count together. `NextInv` then has one lemma per action.
From `IInv` follow `TypeCorrect`, `OwnershipIsExact`, `NoFalseUnlock`,
`WakeIsSound` and `UsbDisarmsAll`. `PromotionIsSeamless` is an action property proved
step by step under `IInv`, and `DeadBusIsNotAwaited` has its own small invariant. `LocksMatchPolicy`, what the code asks of the locks in each
state of bus, supply and USB, needs `HealthyInv`: as long as no driver call has
failed (`~faulty`) the flags of all locks are a function of the policy, the hand-off
locks of the pair included.

Of the composition, `CaptureIsGated` (from `CaptureInv`) and `PhaseAgrees` (from
`PhaseInv`, which also places the call between its two halves) are invariants;
`NativeWindowIsAwake` follows for each gate pass. `GateDrivesPowerSave`
shows that the gate is a `PowerSave` whose callers are the code's:
`GateSpec => Spec`. Hence everything proved of `PowerSave` holds in the composition;
`GateKeepsOwnership` and `GateLocksAreThePolicys` are examples. `PhaseAgrees` and
`NativeWindowIsAwake` carry the hypothesis that Energy Save Mode is not switched, for
the violation above.

**`I2cCapture_proofs`.** `CaptureInv` has five parts: the breaker against what is
owed (`UdpInv`), whether the interrupt may store at each place of the task
(`IsrInv`), what is stored and compared with (`EdgeInv`), whether a download still
has the copy that is kept (`CopyInv`), and who owns a finished buffer
(`ExportInv`). The five theorems are the run's safety properties, that each stored
sample is a change of level (`StoredAreChanges`, which the frame decoder relies
on), and the refinement `CaptureSpec => Buffer!BufferSpec`.

**`RtrhDecoder_proofs`.** The decoder lets go of a measurement or of a discarded
cycle only in a silence (`BeginInv`); from that, what each phase has been given
adds up to one waveform (`CountInv`), whatever the lengths.

**`CaptureRecovery_proofs`** has two theorems. `WaveformIsKept`: whatever the wire,
the levels missed and the pulses and RMT edges tried, the samples are afterwards those
that the interrupt stored. Away from the wrap (`NoWrap`) what is stored is a `Trace`, samples in the order
of their times inside a span shorter than half the clock, in which the signed
difference and the plain comparison agree (`SinceInSpan`, `BeforeInSpan`). The
pulses that are tried lie inside that span (`CandidatesInSpan`, by way of the
intervals without a clock), so that the buffer with a pulse in it has a `Shape`: the
trace, the two edges at their places, and the levels between them inverted. A buffer
of that shape is a trace again (`ShapeIsTrace`), so that a second pulse can be put
in, and taking the pulse out of it finds both edges and gives the samples back (`UndoExact`,
`TriedAndUndone`). The edges of the RMT record come in the order of their times
(`EdgesBuilt`), in a span three times as wide as the capture's, since the alignment takes
an edge of each list for the same one (`AlignmentFound`); `RecoveryAssumption` says that a
capture is shorter than a sixth of the clock (12 minutes). Each of them is put in behind the last one, so that their
places grow and both orders of taking them out, the last in the list first and the
last in the buffer first, are the same (`RmtState`, `UndoneBackwards`, `UndoneSorted`,
`RmtLeavesData`). This theorem does not depend on what the decoder makes of the
buffer.

`SetupsAreResolved`: for every measurement on the wire, every moment at which it
begins, also in front of the wrap, and every loss of data changes that were set up
for a clock (`missed \subseteq wire.setups`), the first decoding gives the frames
that were sent, without an error, so that nothing is repaired. Its hypothesis
`Measurements` says that every wire is what `Transmit` makes of transfers that the
fixed arrays have room for, the last one ended by a STOP, and that they make a
measurement for the validator; bytes are free, and so are the times of the bus and the
sizes of the arrays, which need only be natural numbers (`WireAssumption`, `DecoderAssumption`). `MCDecoders` lets TLC
evaluate `Measurements` and `NoWrap` for its instance. The invariant (`SetupInv`) is simple; the
work is in what the decoder hears. It is followed one level at a time: a low clock is only remembered
(`LowIsRemembered`), a rise of the clock is a bit even if the data changed with it
(`RiseIsBit`), and only a change of the data under a high clock is a START or a STOP
(`FallIsStart`, `RiseIsStop`). `Heard` carries this over the samples that were
seen; nine bits make a byte with its acknowledge (`ByteIsHeard`), bytes a body
(`BodySent`), and transfers a line (`LineSent`). `Transmit` and the decoder are
folds, and their runs are taken as functions (`DecodeRunExists`, `ByteRunExists`,
`LineRunExists`) and followed by a least-number argument (`UpTo`).

**`Bridge_proofs`** holds what is proved of the samples' way and of the user's
controls. Of `SamplePath` it ties the code's flag and candidate to the history they
stand for (`ConfirmInv`), and what is pending to the last word of its source
(`PendingInv`). Of `GadgetControl`: an open window or a confirmed comparison
is an opening that has let nobody in yet (`BondInv`); clean settings are what is in
flash or what loading makes of it (`SavedInv`).

**`HistoryStore_proofs`.** `HistoryInv` has one part for each thing that must not
come apart: the journal (`Ordered`: sequence numbers are unique and grow in the order
of the cells; `HeadKnown`: the RAM knows the newest), the ring (`Room`: what is
counted fits beside what is pending), the batch of a flush between its steps
(`Batch`), what a clean state says of flash (`Clean`), the calls that are under way
(`Calls`) and the clear (`Clearing`). `CountsAgree` and `CleanIsDurable` are parts of
it. `ImplementsLog` follows class by class of steps: those the log does not see
(`Unseen`), checkpoints, flushes, clears, restarts and appends; the lemmas about
`LogNow`, `DurableNow` and `SpoiledNow` say which part of the store each looks at.
The newest valid record is found by a least-number argument, and `HistoryAssumption`
says that an erased or a damaged cell is no sample.

**`HistoryRuns_proofs`.** `AnchorsTrue` is not inductive: a run that grows keeps its
anchor, so the sample that joins it must be an interval younger than the last. This
follows from `Stamped` (a run of this boot with an anchor has the stamp of its last
sample, because the wall clock stays set) and `Grows` (a restored run never grows,
the next sample starts a new one). `TrueRecord` says the same of what a checkpoint
holds, and the type of the index contains it for every descriptor. The lemmas go up
from a flush over the index and a sample to a commit, and from the selection of a
run to a transfer.

What a transfer delivers is a matter of places, counted from the first sample ever
programmed. A `View` is a log with its end and the run at its end: `Live`, or what a
restart makes of a record (`Kept`). `PlaceInv` says of both that the samples grow and
that between those of a run only what was dropped is missing (`Sound`, `Spaced`), and
of the index in RAM and in NVS that each descriptor ends before the next begins and
before the current run, and that its samples are in the window if its start is
(`Placed`, `Fits`). The last descriptor may be that of the current run, after a restart
only (`Self`). For this to survive a restart, an index may refer only to what the newest
record has saved (`Written`), a clean state must be what that record says (`Clean`), and
no sample may come from before the restart's moment (`Timely`, `Sampling`). The lemmas
say that `Placed` is kept when the window slides by a sample, with or without
eviction (`PlacedSlides`), when the index drops its oldest entries (`PlacedSuffix`) and
when it gets a run (`PlacedAppend`); `IndexIsBacked` is the result.

`TransferInv` adds the download and the session. Among the descriptors that are not
stale exactly the other runs than the current one are offered (`OfferedOrSelf`), so
that the k-th offered is the k-th from the end (`RankOfFresh`), and a stale one never
comes before a fresh one (`RankOfStale`). A download lies in the window and above all
runs that come later (`Down`), and a session goes on below what it has told (`Sess`);
both are kept while samples arrive, because what has the same place later is younger.
`RunsComeOnce` follows. `RunsAreDelivered` also needs `SpacedCounts`: the moments
between two samples of a run are its samples and what was dropped, counted by a
bijection. Both have the exceptions of the properties: a run that begins during a
transfer, a window that moves under one, and stale descriptors.

**`BleAdvertiser_proofs`.** `BleInv` adds to `BleTypeOK` what the two queues hold; it
has one lemma per helper (what `Enter`, `configure_advertisement`, `request_refresh`
... do to `Machine`, the part they change) and one per action. `BleTypeCorrect` says
more than types: no payload is configured or on the air that has not been built.
`ConnectionIsQuiet` also needs `Dormant`: before the stack is up its queues are empty
and nobody is connected. Both hold for a stack that is late and fails, and for every bound.
`SettlesOnTheCurrent` states `SettledShowsCurrent` of a stack that is as late as it
likes, as long as our own configuration and start do not fail (`Reliable`):
`SettleInv` says that the last configuration queued or applied is ours and what
version it carries, and that a machine which believes that it advertises has the air
or a start on its way. Without `Reliable` it is false: a late answer to an earlier
start counts for the one that fails, which TLC finds with one fault; so the run and
the theorem both leave that case out.

**Model-checked only.** All liveness, which is out of the prover's reach, and two
properties of captures, `NeverMisread` and `ClocksRepaired`: whether a reading made of
inserted pulses can be another than the one that was sent depends on which bytes
have the same CRC, which TLC decides for the measurement of the run. Every other
property of a passing run is a theorem.

## 5. What is not modelled

* **Calibration, battery estimation, battery learning, thermal transient**:
  floating-point arithmetic. The learning also has state in flash: a save that
  fails where a session is concluded leaves the session active, so that a discharge
  counts again after a restart.
* **RT/RH signal processing**: edge counts, medians, the histogram of humidity
  states, and the debug capture of periods. Shifts by less than the margins of the
  duration checks (about 20 ms) at a start in the middle of a waveform are below the
  slices of `RtrhDecoder`.
* **Transfer guard**: two comparisons of a predicted waveform with the clock; the
  download knows only whether it is blocked, which `HistoryRuns` leaves free.
* **Active probe on the wire**: it drives the bus in one blocking call.
* **History details**: migration of records of older versions, the read-only GATT
  characteristics, and drift of anchors by the seconds that the code tolerates. Time is
  counted in whole intervals, so that the truncation of `(run_count - 1) * interval_ms / 1000`
  (`sensirion_history_format.h:34,45`) is exact, as it is for intervals of whole seconds, and the
  bound of `age_ms_from_epoch` (`sensirion_history.cpp:444`: an age in milliseconds that does not
  fit into 32 bits, beyond 49 days, is not offered) is never reached: what drops out there are the
  oldest runs, behind all that a walk offers. The age in a header is that of the moment
  the transfer starts.
* **Failing flash calls** leave the cells as they were; partly programmed cells come from resets
  only. A record that a failing call has programmed in part would be written again at the
  same place (`sensirion_history.cpp:560-566` moves `next_meta_slot` after a success only).
* **Advertising failures**: a configuration that completes with an error and a start of ESPHome's
  advertiser that fails (see section 3).
* **Sentinels**: times for which 0 means "never" (`last_edge_us`, `last_tick`,
  `last_attempt`, `suspended_until_ms`, `last_pair_retry_us`), which differ from a
  clock reading of 0 only for a millisecond after 49 days or at start.
* The SHT43 identity probe (static characteristics), host builds, code generation,
  tools, tests and board, and ESP-IDF itself. In particular nothing is said about
  what `gpio_wakeup_enable` and `gpio_set_intr_type` do to each other's settings of
  one pin.

## 6. Plan

In this order; each module is written so that it can be proved about.

1. That a checkpointed sample survives, and `HistoryRuns` over `HistoryLog`: one step of
   a commit is a flush, a checkpoint and a sample there.
2. `I2cCapture` and `Co2Gate` in one composition, so that the fairness of exports in
   `Co2Gate` follows from `DebugUdp`; `RtrhDecoder` with the window of `PowerSave`.
3. What `decode_capture` makes of a transmission without one of its clocks, as a
   theorem beside `SetupsAreResolved`: the decoder's half of `ClocksRepaired`.
4. Battery learning with its sessions in flash, over abstract amounts of charge.
