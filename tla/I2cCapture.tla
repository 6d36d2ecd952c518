----------------------------- MODULE I2cCapture -----------------------------
(***************************************************************************)
(* The passive sniffer of i2c_sniffer.cpp: one edge buffer that the GPIO   *)
(* interrupt fills and poll() empties, the debug copies of it that leave   *)
(* over UDP or HTTP, and the task's calls that switch it, arm it again or  *)
(* take the bus over for the active probe.                                 *)
(*                                                                         *)
(* The interrupt (GpioIsr) can come between any two steps of the task.     *)
(* pc says where the task is: "timed" (poll() has read the clock and not   *)
(* yet last_edge), "decided" (it takes the bus for quiet and has not yet   *)
(* cleared "capturing"), "consume" (the buffer is frozen), "baseline" (it  *)
(* is emptied, capturing not yet set), "process" (the caller looks at the  *)
(* capture), "probe" (the active probe owns the bus).  Calls that mask the *)
(* interrupt first are one step.  The HTTP server is a task of its own.    *)
(*                                                                         *)
(* A level of the bus is a member of Levels.  An interrupt that is late    *)
(* sees only the last of several levels.  Ticks of the clock are           *)
(* milliseconds of quiet or, when nothing else happens, cooldown ticks of  *)
(* the UDP breaker.                                                        *)
(***************************************************************************)
EXTENDS DebugUdp, Sequences

CONSTANTS
    Levels,        \* levels of the two lines
    MaxSamples,    \* MAX_SAMPLES
    Timeout,       \* CAPTURE_TIMEOUT_US, in ticks
    PacketSamples, \* samples that fit into one export packet
    Rearms         \* whether an RT/RH wake may arm the sniffer again

ASSUME I2cCaptureAssumption ==
    /\ MaxSamples \in Nat \ {0} /\ Timeout \in Nat \ {0}
    /\ PacketSamples \in Nat \ {0} /\ Rearms \in BOOLEAN

VARIABLES
    wire,                   \* the bus
    irq,                    \* an edge interrupt is pending
    samples, capture_initial_value, last_value,
    edgeAge,                \* ticks since last_edge (saturating)
    capturing, capture_enabled, capture_finished, capture_overflow,
    pc,
    clock,                  \* poll()'s view of now - last_edge
    debug, web,             \* RTRH_DEBUG_CAPTURE; USE_WEB_SERVER_BASE
    udp_pending,            \* [active, count, packet_index]
    copy,                   \* last_capture_data: [has, id, current]
    last_capture_frozen,
    raw,                    \* the capture handed out has debug_raw_sequence # 0
    download                \* the HTTP request: [active, id, current, frozen]

isrVars    == <<samples, capture_initial_value, last_value, edgeAge, capturing,
                capture_finished, capture_overflow>>
exportVars == <<udp_pending>>
copyVars   == <<copy, last_capture_frozen, raw>>
buildVars  == <<debug, web>>
taskVars   == <<capture_enabled, pc, clock>>
captureVars == <<udpVars, isrVars, exportVars, copyVars, buildVars, taskVars, wire, irq, download>>

NoExport == [active |-> FALSE, count |-> 0, packet_index |-> 0]
NoDownload == [active |-> FALSE, id |-> 0, current |-> FALSE, frozen |-> FALSE]

CaptureTypeOK ==
    /\ UdpTypeOK
    /\ wire \in Levels /\ irq \in BOOLEAN
    /\ samples \in Seq(Levels) /\ Len(samples) <= MaxSamples
    /\ capture_initial_value \in Levels /\ last_value \in Levels
    /\ edgeAge \in 0 .. Timeout
    /\ capturing \in BOOLEAN /\ capture_enabled \in BOOLEAN
    /\ capture_finished \in BOOLEAN /\ capture_overflow \in BOOLEAN
    /\ pc \in {"idle", "timed", "decided", "consume", "baseline", "process", "probe"}
    /\ clock \in {"none", "fresh", "quiet", "wrapped"}
    /\ debug \in BOOLEAN /\ web \in BOOLEAN
    /\ udp_pending \in [active : BOOLEAN, count : 0 .. MaxSamples, packet_index : 0 .. MaxSamples]
    /\ copy \in [has : BOOLEAN, id : 0 .. 1, current : BOOLEAN]
    /\ last_capture_frozen \in BOOLEAN /\ raw \in BOOLEAN
    /\ download \in [active : BOOLEAN, id : 0 .. 1, current : BOOLEAN, frozen : BOOLEAN]

\* After setup(): the passive tap listens.  The build and its collector are given.
CaptureInit ==
    /\ UdpInit
    /\ wire \in Levels /\ irq = FALSE
    /\ samples = <<>> /\ capture_initial_value = wire /\ last_value = wire /\ edgeAge = 0
    /\ capturing = TRUE /\ capture_enabled = TRUE
    /\ capture_finished = FALSE /\ capture_overflow = FALSE
    /\ pc = "idle" /\ clock = "none"
    /\ debug \in BOOLEAN /\ web \in BOOLEAN /\ (configured \/ web => debug)
    /\ udp_pending = NoExport
    /\ copy = [has |-> FALSE, id |-> 0, current |-> FALSE]
    /\ last_capture_frozen = FALSE /\ raw = FALSE
    /\ download = NoDownload

-----------------------------------------------------------------------------
(* The bus and the interrupt. *)

\* A transition of a line; its interrupt is off while capture is, and during the
\* active probe.
BusMoves(level) ==
    /\ level # wire /\ wire' = level
    /\ irq' = (irq \/ (capture_enabled /\ pc # "probe"))
    /\ UNCHANGED <<udpVars, isrVars, exportVars, copyVars, buildVars, taskVars, download>>

\* gpio_isr.  An interrupt that finds the level it knows stores nothing; an edge
\* that no longer fits ends the capture.  (StoresFrozen: it does not look at
\* "capturing".)
StoresFrozen == wire # last_value
Stores == capturing /\ wire # last_value

GpioIsr ==
    /\ irq /\ irq' = FALSE
    /\ IF ~Stores
       THEN UNCHANGED <<isrVars, clock>>
       ELSE /\ capture_initial_value' =
                  IF samples = <<>> THEN last_value ELSE capture_initial_value
            /\ last_value' = wire /\ edgeAge' = 0
            /\ clock' = IF pc = "timed" THEN "wrapped" ELSE clock
            /\ IF Len(samples) < MaxSamples
               THEN /\ samples' = Append(samples, wire)
                    /\ UNCHANGED <<capturing, capture_finished, capture_overflow>>
               ELSE /\ capture_overflow' = TRUE
                    /\ capturing' = FALSE /\ capture_finished' = TRUE
                    /\ UNCHANGED samples
    /\ UNCHANGED <<udpVars, exportVars, copyVars, buildVars, capture_enabled, pc, wire, download>>

-----------------------------------------------------------------------------
(* Emptying the buffer. *)

\* The buffer is empty and the level of this moment is what the next is compared
\* with.
EmptyBuffer(level) ==
    /\ samples' = <<>> /\ capture_finished' = FALSE /\ capture_overflow' = FALSE
    /\ last_value' = level /\ capture_initial_value' = level /\ edgeAge' = 0

\* Calls that mask the interrupts, empty the buffer and arm it again.
\* (StaysDeaf: without setting "capturing" again.)
StaysDeaf(level, enabled) == EmptyBuffer(level) /\ irq' = FALSE /\ capturing' = FALSE
ArmPassive(level, enabled) == EmptyBuffer(level) /\ irq' = FALSE /\ capturing' = enabled

\* set_capture_enabled, from the capture gate.
SetCapture ==
    /\ pc = "idle"
    /\ capture_enabled' = ~capture_enabled
    /\ ArmPassive(wire, ~capture_enabled)
    /\ UNCHANGED <<udpVars, exportVars, copyVars, buildVars, pc, clock, wire, download>>

\* rearm_after_light_sleep: the export in progress is not told.
RearmAfterLightSleep ==
    /\ Rearms /\ pc = "idle"
    /\ ArmPassive(wire, capture_enabled)
    /\ UNCHANGED <<udpVars, exportVars, copyVars, buildVars, taskVars, wire, download>>

\* The active probe: begin_active_master_ takes the bus, drives it as it likes
\* (BusMoves), and restore_passive_gpio_ gives it back.  Only the first command of
\* a probe waits for a long quiet; those after it look at the levels, which a dead
\* bus may have at any time.
BeginActiveMaster ==
    /\ pc = "idle" /\ pc' = "probe"
    /\ irq' = FALSE /\ capturing' = FALSE
    /\ samples' = <<>> /\ capture_finished' = FALSE /\ capture_overflow' = FALSE
    /\ UNCHANGED <<udpVars, exportVars, copyVars, buildVars, wire, download, capture_enabled, clock,
                   capture_initial_value, last_value, edgeAge>>

RestorePassiveGpio ==
    /\ pc = "probe" /\ pc' = "idle"
    /\ \E level \in Levels : wire' = level /\ ArmPassive(level, capture_enabled)
    /\ UNCHANGED <<udpVars, exportVars, copyVars, buildVars, capture_enabled, clock, download>>

-----------------------------------------------------------------------------
(* The export over UDP. *)

PacketCount(count) == (count + PacketSamples - 1) \div PacketSamples

\* What udp_export_pending_step makes of an export e after a datagram: it goes on,
\* it is complete, or it is dropped because the breaker is open.  (KeepsTrying:
\* nothing is dropped.)
KeepsTrying(e, outcome) ==
    IF outcome # "ok" THEN e
    ELSE IF e.packet_index + 1 >= PacketCount(e.count) THEN NoExport
    ELSE [e EXCEPT !.packet_index = @ + 1]
AfterPacket(e, outcome) ==
    IF outcome # "ok" THEN IF Pressure THEN NoExport ELSE e
    ELSE IF e.packet_index + 1 >= PacketCount(e.count) THEN NoExport
    ELSE [e EXCEPT !.packet_index = @ + 1]

\* poll() with a finished buffer under export: one packet.
PollExport(outcome) ==
    /\ pc = "idle" /\ capture_enabled
    /\ configured /\ udp_pending.active /\ capture_finished
    /\ Send(outcome)
    /\ udp_pending' = AfterPacket(udp_pending, outcome)
    /\ IF udp_pending'.active
       THEN UNCHANGED <<isrVars, pc, raw>>
       ELSE /\ EmptyBuffer(wire) /\ pc' = "baseline" /\ raw' = FALSE
            /\ UNCHANGED capturing
    /\ UNCHANGED <<buildVars, capture_enabled, clock, wire, irq, download, copy,
                   last_capture_frozen>>

-----------------------------------------------------------------------------
(* poll() without an export in its way. *)

PollReady == pc = "idle" /\ capture_enabled /\ ~(configured /\ udp_pending.active /\ capture_finished)

PollFinished ==
    /\ PollReady /\ capture_finished /\ pc' = "consume"
    /\ UNCHANGED <<udpVars, isrVars, exportVars, copyVars, buildVars, capture_enabled, clock, wire,
                   irq, download>>

\* Edges, but no end yet: the clock is read.
PollClock ==
    /\ PollReady /\ ~capture_finished /\ samples # <<>>
    /\ pc' = "timed"
    /\ clock' = IF edgeAge >= Timeout THEN "quiet" ELSE "fresh"
    /\ UNCHANGED <<udpVars, isrVars, exportVars, copyVars, buildVars, capture_enabled, wire, irq,
                   download>>

\* The difference to last_edge, as it is by now: after an edge in between it is
\* zero, or wraps.
PollCompare ==
    /\ pc = "timed" /\ clock' = "none"
    /\ \/ clock \in {"fresh", "wrapped"} /\ pc' = "idle"
       \/ clock \in {"quiet", "wrapped"} /\ pc' = "decided"
    /\ UNCHANGED <<udpVars, isrVars, exportVars, copyVars, buildVars, capture_enabled, wire, irq,
                   download>>

PollCut ==
    /\ pc = "decided" /\ pc' = "consume"
    /\ capturing' = FALSE /\ capture_finished' = TRUE
    /\ UNCHANGED <<udpVars, exportVars, copyVars, buildVars, capture_enabled, clock, wire, irq,
                   download, samples, capture_initial_value, last_value, edgeAge, capture_overflow>>

\* store_raw_capture: with a collector that can be reached the capture is exported
\* and only its sequence number kept; otherwise it is copied for /capture, unless
\* a frozen one is there.
CopyBlocked == ~debug \/ (configured /\ ~web) \/ last_capture_frozen
Replaced == [has |-> TRUE, id |-> 1 - copy.id, current |-> TRUE]

StoreRaw ==
    IF debug /\ Ready
    THEN /\ raw' = TRUE /\ copy' = [copy EXCEPT !.current = FALSE]
         /\ download' = [download EXCEPT !.current = FALSE]
    ELSE IF CopyBlocked THEN raw' = FALSE /\ UNCHANGED <<copy, download>>
    ELSE raw' = TRUE /\ copy' = Replaced /\ download' = [download EXCEPT !.current = FALSE]

\* udp_begin_raw_capture: not over an export that is still pending.
BegunExport ==
    IF debug /\ Ready /\ ~udp_pending.active
    THEN [active |-> TRUE, count |-> Len(samples), packet_index |-> 0]
    ELSE udp_pending

\* The frozen buffer is stored, its first packet sent, and decoded; without an
\* export it is empty again.  (EmptiesExported: with one, too.)
EmptiesExported == TRUE
BufferReleased == ~udp_pending'.active

Consume(outcome) ==
    /\ pc = "consume"
    /\ StoreRaw
    /\ IF configured /\ BegunExport.active
       THEN /\ Send(outcome)
            /\ udp_pending' = AfterPacket(BegunExport, outcome)
       ELSE /\ outcome = "refused" /\ udp_pending' = BegunExport
            /\ UNCHANGED udpVars
    /\ IF BufferReleased
       THEN EmptyBuffer(wire) /\ pc' = "baseline" /\ UNCHANGED capturing
       ELSE pc' = "process" /\ UNCHANGED isrVars
    /\ UNCHANGED <<buildVars, capture_enabled, clock, wire, irq, last_capture_frozen>>

PollArm ==
    /\ pc = "baseline" /\ pc' = "process"
    /\ capturing' = TRUE
    /\ UNCHANGED <<udpVars, exportVars, copyVars, buildVars, capture_enabled, clock, wire, irq,
                   download, samples, capture_initial_value, last_value, edgeAge,
                   capture_finished, capture_overflow>>

-----------------------------------------------------------------------------
(* The copy for /capture. *)

\* process_co2_ finds the capture suspicious and freezes its copy, unless it left
\* over UDP; or it does not.
Freezable == raw /\ ~Ready /\ copy.has

Process ==
    /\ pc = "process" /\ pc' = "idle"
    /\ last_capture_frozen' \in {last_capture_frozen, last_capture_frozen \/ Freezable}
    /\ UNCHANGED <<udpVars, isrVars, exportVars, buildVars, capture_enabled, clock, wire, irq,
                   download, copy, raw>>

\* CaptureHandler::handleRequest: the copy is taken, sent, and released when what
\* was sent is still what is frozen.
DownloadBegins ==
    /\ web /\ ~download.active /\ copy.has
    /\ download' = [active |-> TRUE, id |-> copy.id, current |-> TRUE,
                    frozen |-> last_capture_frozen]
    /\ UNCHANGED <<udpVars, isrVars, exportVars, copyVars, buildVars, taskVars, wire, irq>>

\* Only what was sent and is still what is frozen is released.
Releases(sent) == sent /\ download.frozen /\ download.current

DownloadEnds(sent) ==
    /\ download.active /\ download' = NoDownload
    /\ last_capture_frozen' = (last_capture_frozen /\ ~Releases(sent))
    /\ UNCHANGED <<udpVars, isrVars, exportVars, buildVars, taskVars, wire, irq, copy, raw>>

-----------------------------------------------------------------------------
\* A millisecond or, when the task has nothing to do, a tick of the breaker.
CaptureTick ==
    /\ \/ /\ edgeAge < Timeout /\ edgeAge' = edgeAge + 1 /\ UNCHANGED udpVars
       \/ /\ edgeAge = Timeout /\ pc = "idle" /\ UdpTick /\ UNCHANGED edgeAge
    /\ UNCHANGED <<exportVars, copyVars, buildVars, taskVars, wire, irq, download, samples,
                   capture_initial_value, last_value, capturing, capture_finished,
                   capture_overflow>>

Elsewhere == (OtherExport \/ UdpNetChange) /\ pc = "idle"
             /\ UNCHANGED <<isrVars, exportVars, copyVars, buildVars, taskVars, wire, irq, download>>

Poll == \/ PollFinished \/ PollClock \/ PollCompare \/ PollCut \/ PollArm \/ Process
        \/ \E o \in Outcomes : PollExport(o) \/ Consume(o)

CaptureNext ==
    \/ \E level \in Levels : BusMoves(level)
    \/ GpioIsr
    \/ SetCapture \/ RearmAfterLightSleep \/ BeginActiveMaster \/ RestorePassiveGpio
    \/ Poll
    \/ DownloadBegins \/ \E sent \in BOOLEAN : DownloadEnds(sent)
    \/ CaptureTick \/ Elsewhere

CaptureSpec == CaptureInit /\ [][CaptureNext]_captureVars

\* loop() keeps calling poll(), the clock goes on, and an export that keeps trying
\* while the station has an address gets a datagram through.
CaptureFairness ==
    /\ WF_captureVars(Poll) /\ WF_captureVars(RestorePassiveGpio) /\ WF_captureVars(CaptureTick)
    /\ SF_captureVars(PollClock) /\ SF_captureVars(PollFinished)
    /\ SF_captureVars(\E o \in {"ok", "enomem"} : PollExport(o))

CaptureFairSpec == CaptureSpec /\ CaptureFairness
-----------------------------------------------------------------------------
(* What the sniffer promises. *)

\* Between two calls the interrupt listens exactly when capture is on and no
\* finished capture waits in the buffer: every one of the five ways to empty the
\* buffer arms it again, and none arms a buffer that poll() still reads.
Listening ==
    /\ pc \in {"idle", "process"} => (capturing <=> capture_enabled /\ ~capture_finished)
    /\ capture_finished => ~capturing
    /\ pc = "probe" => samples = <<>> /\ ~capturing

\* What the frame decoder relies on: each stored sample differs from the level
\* before it, the first one from the level before the capture.
SamplesAreChanges ==
    \A i \in DOMAIN samples :
        samples[i] # IF i = 1 THEN capture_initial_value ELSE samples[i - 1]

\* A finished capture does not change under the task that reads it: it is emptied
\* as a whole or stays as it is, whatever the bus does meanwhile.
BufferFrozen ==
    (capture_finished /\ samples' # <<>>)
      => UNCHANGED <<samples, capture_initial_value, capture_overflow>>

\* The copy of a suspicious capture is kept until a client has got that very copy:
\* neither later captures nor a download that failed or had begun before it was
\* frozen take it away.
CopyFrozen ==
    last_capture_frozen =>
      /\ copy'.id = copy.id
      /\ last_capture_frozen' \/ (download.active /\ download.frozen /\ download.id = copy.id
                                  /\ ~download'.active)

\* Evidence stays: neither the buffer under its reader nor the copy of a suspicious
\* capture before its download is changed by what the bus and the clients do.
FrozenBufferStays == [][BufferFrozen /\ CopyFrozen]_captureVars

\* The breaker's promise over all steps of the sniffer.
BackoffEarned == [][BackoffIsEarned]_captureVars

\* A finished capture makes room in the end, even for a collector that answers
\* with ENOMEM, as long as the station has an address again and again.
BufferRecycled ==
    []<>netUp => (capture_finished ~> ~capture_finished)

\* The sniffer is the buffer that the capture gate is modelled with.
bufferState ==
    IF capture_finished /\ (capture_overflow \/ pc # "consume") THEN "finished"
    ELSE IF samples # <<>> THEN "edges" ELSE "empty"

Buffer == INSTANCE SnifferBuffer WITH
    capture <- capture_enabled, cap <- bufferState,
    exporting <- configured /\ udp_pending.active

ImplementsBuffer == Buffer!BufferSpec
=============================================================================
