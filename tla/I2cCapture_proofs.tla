------------------------- MODULE I2cCapture_proofs -------------------------
(* Proofs about I2cCapture, for every buffer, packet and timing constant.     *)
(*                                                                            *)
(* UdpInv: the breaker's own state against the history of what is owed.       *)
(* IsrInv: at every place of the task, whether the interrupt may store.       *)
(* EdgeInv: what is stored, and what the next edge is compared with.          *)
(* CopyInv: a download knows whether its copy is still the one that is kept.  *)
(* ExportInv: who owns a finished buffer.                                     *)
EXTENDS I2cCapture, TLAPS

UdpInv ==
    /\ configured \in BOOLEAN /\ netUp \in BOOLEAN /\ tripped \in BOOLEAN
    /\ suspended \in Nat /\ owed \in Nat /\ suspended >= owed
    /\ cooldown \in CooldownInitial .. CooldownMax
    /\ healthy \in -1 .. HealthyReset /\ faultFree \in 0 .. HealthyReset
    /\ healthy <= faultFree

IsrInv ==
    /\ capturing \in BOOLEAN /\ capture_enabled \in BOOLEAN /\ capture_finished \in BOOLEAN
    /\ pc \in {"idle", "timed", "decided", "consume", "baseline", "process", "probe"}
    /\ capture_finished => ~capturing
    /\ pc \in {"idle", "process", "timed", "decided"}
          => (capturing <=> capture_enabled /\ ~capture_finished)
    /\ pc \in {"timed", "decided", "consume", "baseline"} => capture_enabled
    /\ pc = "consume" => capture_finished
    /\ pc \in {"baseline", "probe"} => ~capturing /\ ~capture_finished /\ samples = <<>>

EdgeInv ==
    /\ wire \in Levels /\ samples \in Seq(Levels)
    /\ capture_initial_value \in Levels /\ last_value \in Levels
    /\ capturing /\ samples # <<>> => last_value = samples[Len(samples)]
    /\ SamplesAreChanges

CopyInv ==
    /\ copy \in [has : BOOLEAN, id : 0 .. 1, current : BOOLEAN]
    /\ download \in [active : BOOLEAN, id : 0 .. 1, current : BOOLEAN, frozen : BOOLEAN]
    /\ last_capture_frozen \in BOOLEAN
    /\ download.active /\ download.current => download.id = copy.id

ExportInv ==
    /\ udp_pending \in [active : BOOLEAN, count : Nat, packet_index : Nat]
    /\ udp_pending.active => configured
    /\ capture_overflow \in BOOLEAN
    /\ capture_overflow => capture_finished
    /\ pc \in {"timed", "decided"} => samples # <<>>
    /\ pc = "consume" /\ ~capture_overflow => samples # <<>>
    /\ pc \in {"timed", "decided"} /\ capture_finished => capture_overflow
    /\ pc \in {"idle", "process"} /\ capture_finished /\ ~capture_overflow => udp_pending.active

CaptureInv == UdpInv /\ IsrInv /\ EdgeInv /\ CopyInv /\ ExportInv

(***************************************************************************)
(* The breaker.                                                            *)
(***************************************************************************)

LEMMA UdpFrame == UdpInv /\ UNCHANGED udpVars => UdpInv' /\ BackoffIsEarned /\ configured' = configured
BY DEF UdpInv, udpVars, BackoffIsEarned

LEMMA SendKeeps ==
    ASSUME UdpInv, NEW outcome \in Outcomes, Send(outcome)
    PROVE  UdpInv' /\ BackoffIsEarned /\ configured' = configured
<1>1. configured' = configured /\ netUp' = netUp
  BY DEF Send
<1>2. CASE outcome = "ok"
  <2>1. GoodDatagram
    BY <1>2 DEF Send
  <2>2. UNCHANGED <<suspended, owed, faultFree>>
    BY <2>1 DEF GoodDatagram
  <2>3. CASE UNCHANGED <<healthy, cooldown, tripped>>
    BY <1>1, <2>2, <2>3, UdpFrame DEF udpVars
  <2>4. CASE /\ (IF healthy = -1 THEN 0 ELSE healthy) >= HealthyReset
             /\ healthy' = -1 /\ cooldown' = CooldownInitial /\ tripped' = FALSE
    <3>1. faultFree >= HealthyReset
      <4>1. HealthyReset \in Nat /\ faultFree \in Nat /\ healthy \in Int /\ healthy <= faultFree
        BY DebugUdpAssumption DEF UdpInv
      <4>2. CASE healthy = -1
        BY <2>4, <4>1, <4>2
      <4>3. CASE healthy # -1
        BY <2>4, <4>1, <4>3
      <4>4. QED
        BY <4>2, <4>3
    <3>2. UdpInv'
      <4>1. configured' \in BOOLEAN /\ netUp' \in BOOLEAN /\ tripped' \in BOOLEAN
        BY <1>1, <2>4 DEF UdpInv
      <4>2. cooldown' \in CooldownInitial .. CooldownMax /\ healthy' \in -1 .. HealthyReset
            /\ healthy' <= faultFree
        BY <2>2, <2>4, DebugUdpAssumption DEF UdpInv
      <4>3. QED
        BY <2>2, <4>1, <4>2 DEF UdpInv
    <3>3. QED
      BY <1>1, <3>1, <3>2 DEF UdpInv, BackoffIsEarned
  <2>5. CASE healthy' = (IF healthy = -1 THEN 0 ELSE healthy) /\ UNCHANGED <<cooldown, tripped>>
    BY <1>1, <2>2, <2>5, DebugUdpAssumption DEF UdpInv, BackoffIsEarned
  <2>6. QED
    BY <2>1, <2>3, <2>4, <2>5 DEF GoodDatagram
<1>3. CASE outcome = "error"
  BY <1>1, <1>3, DebugUdpAssumption DEF Send, FailedDatagram, UdpInv, BackoffIsEarned
<1>4. CASE outcome = "enomem"
  <2>1. /\ suspended' = cooldown /\ owed' = cooldown /\ cooldown' = NextCooldown
        /\ healthy' = -1 /\ tripped' = TRUE /\ faultFree' = 0
    BY <1>4 DEF Send, SuspendExport, ResetAfterPressure
  <2>2. NextCooldown \in CooldownInitial .. CooldownMax /\ NextCooldown >= cooldown
    BY DebugUdpAssumption DEF NextCooldown, UdpInv
  <2>3. QED
    BY <1>1, <2>1, <2>2, DebugUdpAssumption DEF UdpInv, BackoffIsEarned
<1>5. CASE outcome = "refused"
  BY <1>1, <1>5, UdpFrame DEF Send, udpVars
<1>6. QED
  BY <1>2, <1>3, <1>4, <1>5 DEF Outcomes

LEMMA ClockKeeps ==
    ASSUME UdpInv, UdpTick
    PROVE  UdpInv' /\ BackoffIsEarned /\ configured' = configured
BY DebugUdpAssumption DEF UdpInv, UdpTick, Elapse, BackoffIsEarned

LEMMA ElsewhereKeeps ==
    ASSUME UdpInv, OtherExport \/ UdpNetChange
    PROVE  UdpInv' /\ BackoffIsEarned /\ configured' = configured
<1>1. CASE OtherExport
  BY <1>1, SendKeeps DEF OtherExport
<1>2. CASE UdpNetChange
  BY <1>2 DEF UdpNetChange, UdpInv, BackoffIsEarned
<1>3. QED
  BY <1>1, <1>2

\* Every step of the sniffer is one of the breaker, or none.
LEMMA UdpStep ==
    ASSUME UdpInv, [CaptureNext]_captureVars
    PROVE  UdpInv' /\ BackoffIsEarned /\ configured' = configured
<1>1. CASE Poll
  <2>1. CASE \E o \in Outcomes : PollExport(o) \/ Consume(o)
    BY <2>1, SendKeeps, UdpFrame DEF PollExport, Consume
  <2>2. CASE PollFinished \/ PollClock \/ PollCompare \/ PollCut \/ PollArm \/ Process
    BY <2>2, UdpFrame DEF PollFinished, PollClock, PollCompare, PollCut, PollArm, Process
  <2>3. QED
    BY <1>1, <2>1, <2>2 DEF Poll
<1>2. CASE CaptureTick \/ Elsewhere
  BY <1>2, ClockKeeps, ElsewhereKeeps, UdpFrame DEF CaptureTick, Elsewhere
<1>3. CASE \/ \E level \in Levels : BusMoves(level)
           \/ GpioIsr \/ SetCapture \/ RearmAfterLightSleep \/ BeginActiveMaster \/ RestorePassiveGpio
  BY <1>3, UdpFrame DEF BusMoves, GpioIsr, SetCapture, RearmAfterLightSleep, BeginActiveMaster, RestorePassiveGpio
<1>4. CASE DownloadBegins \/ (\E sent \in BOOLEAN : DownloadEnds(sent)) \/ UNCHANGED captureVars
  BY <1>4, UdpFrame DEF DownloadBegins, DownloadEnds, captureVars
<1>5. QED
  BY <1>1, <1>2, <1>3, <1>4 DEF CaptureNext
(***************************************************************************)
(* Who may store.                                                          *)
(***************************************************************************)

isrState == <<capturing, capture_enabled, capture_finished, pc, samples>>

LEMMA IsrFrame == IsrInv /\ UNCHANGED isrState => IsrInv'
BY DEF IsrInv, isrState

LEMMA ArmedIsr ==
    ASSUME IsrInv, NEW level, ArmPassive(level, capture_enabled'), capture_enabled' \in BOOLEAN, pc' = "idle"
    PROVE  IsrInv'
BY DEF IsrInv, ArmPassive, EmptyBuffer

LEMMA PollIsr ==
    ASSUME IsrInv, Poll
    PROVE  IsrInv'
<1>1. CASE PollFinished
  BY <1>1 DEF PollFinished, PollReady, IsrInv, isrVars
<1>2. CASE PollClock \/ PollCompare
  BY <1>2 DEF PollClock, PollCompare, PollReady, IsrInv, isrVars
<1>3. CASE PollCut
  BY <1>3 DEF PollCut, IsrInv
<1>4. CASE PollArm
  BY <1>4 DEF PollArm, IsrInv
<1>5. CASE Process
  BY <1>5 DEF Process, IsrInv, isrVars
<1>6. CASE \E o \in Outcomes : PollExport(o)
  <2>1. PICK o \in Outcomes : PollExport(o)
    BY <1>6
  <2>2. pc = "idle" /\ capture_finished /\ capture_enabled /\ capture_enabled' = capture_enabled
    BY <2>1 DEF PollExport
  <2>3. CASE udp_pending'.active
    BY <2>1, <2>2, <2>3, IsrFrame DEF PollExport, isrVars, isrState
  <2>4. CASE ~udp_pending'.active
    <3>1. pc' = "baseline" /\ capturing' = capturing /\ capture_finished' = FALSE /\ samples' = <<>>
      BY <2>1, <2>4 DEF PollExport, EmptyBuffer
    <3>2. QED
      BY <2>2, <3>1 DEF IsrInv
  <2>5. QED
    BY <2>3, <2>4
<1>7. CASE \E o \in Outcomes : Consume(o)
  <2>1. PICK o \in Outcomes : Consume(o)
    BY <1>7
  <2>2. pc = "consume" /\ capture_enabled' = capture_enabled
    BY <2>1 DEF Consume
  <2>3. CASE BufferReleased
    <3>1. pc' = "baseline" /\ capturing' = capturing /\ capture_finished' = FALSE /\ samples' = <<>>
      BY <2>1, <2>3 DEF Consume, EmptyBuffer
    <3>2. QED
      BY <2>2, <3>1 DEF IsrInv
  <2>4. CASE ~BufferReleased
    BY <2>1, <2>2, <2>4 DEF Consume, isrVars, IsrInv
  <2>5. QED
    BY <2>3, <2>4
<1>8. QED
  BY <1>1, <1>2, <1>3, <1>4, <1>5, <1>6, <1>7 DEF Poll

LEMMA GpioIsrIsr ==
    ASSUME IsrInv, EdgeInv, GpioIsr
    PROVE  IsrInv'
<1>1. capture_enabled' = capture_enabled /\ pc' = pc
  BY DEF GpioIsr
<1>2. CASE ~Stores
  BY <1>1, <1>2, IsrFrame DEF GpioIsr, isrVars, isrState
<1>3. CASE Stores
  <2>1. capturing /\ ~capture_finished /\ pc \in {"idle", "process", "timed", "decided"}
    BY <1>3 DEF Stores, IsrInv
  <2>2. CASE capturing' = capturing /\ capture_finished' = capture_finished
    BY <1>1, <2>1, <2>2 DEF IsrInv
  <2>3. CASE capturing' = FALSE /\ capture_finished' = TRUE
    BY <1>1, <2>1, <2>3 DEF IsrInv
  <2>4. QED
    BY <1>3, <2>2, <2>3 DEF GpioIsr
<1>4. QED
  BY <1>2, <1>3

LEMMA IsrStep ==
    ASSUME IsrInv, EdgeInv, [CaptureNext]_captureVars
    PROVE  IsrInv'
<1>1. CASE Poll
  BY <1>1, PollIsr
<1>2. CASE GpioIsr
  BY <1>2, GpioIsrIsr
<1>3. CASE SetCapture
  <2>1. capture_enabled' = ~capture_enabled /\ ArmPassive(wire, ~capture_enabled) /\ pc' = "idle"
    BY <1>3 DEF SetCapture
  <2>2. capture_enabled' \in BOOLEAN
    BY <2>1
  <2>3. capturing' = capture_enabled' /\ capture_finished' = FALSE
    BY <2>1 DEF ArmPassive, EmptyBuffer
  <2>4. QED
    BY <2>1, <2>2, <2>3 DEF IsrInv
<1>4. CASE RearmAfterLightSleep
  BY <1>4 DEF RearmAfterLightSleep, ArmPassive, EmptyBuffer, taskVars, IsrInv
<1>5. CASE BeginActiveMaster
  BY <1>5 DEF BeginActiveMaster, IsrInv
<1>6. CASE RestorePassiveGpio
  <2>1. /\ pc' = "idle" /\ capture_enabled' = capture_enabled
        /\ capturing' = capture_enabled /\ capture_finished' = FALSE
    BY <1>6 DEF RestorePassiveGpio, ArmPassive, EmptyBuffer
  <2>2. QED
    BY <2>1 DEF IsrInv
<1>7. CASE (\E level \in Levels : BusMoves(level)) \/ CaptureTick \/ Elsewhere
  BY <1>7, IsrFrame DEF BusMoves, CaptureTick, Elsewhere, isrVars, taskVars, isrState
<1>8. CASE DownloadBegins \/ (\E sent \in BOOLEAN : DownloadEnds(sent)) \/ UNCHANGED captureVars
  BY <1>8, IsrFrame DEF DownloadBegins, DownloadEnds, captureVars, isrVars, taskVars, isrState
<1>9. QED
  BY <1>1, <1>2, <1>3, <1>4, <1>5, <1>6, <1>7, <1>8 DEF CaptureNext

(***************************************************************************)
(* What is stored.                                                         *)
(***************************************************************************)

edgeState == <<samples, capture_initial_value, last_value>>

\* All the steps of the task keep the buffer as it is or empty it as a whole.
LEMMA KeptOrEmptied ==
    ASSUME [CaptureNext]_captureVars, ~GpioIsr
    PROVE  \/ UNCHANGED <<edgeState, capture_overflow>>
           \/ samples' = <<>> /\ UNCHANGED <<capture_initial_value, last_value>>
           \/ samples' = <<>> /\ last_value' = wire' /\ capture_initial_value' = wire'
<1>1. CASE Poll
  <2>1. CASE \E o \in Outcomes : PollExport(o) \/ Consume(o)
    <3>1. PICK o \in Outcomes : PollExport(o) \/ Consume(o)
      BY <2>1
    <3>2. wire' = wire /\ (UNCHANGED isrVars \/ EmptyBuffer(wire))
      BY <3>1 DEF PollExport, Consume
    <3>3. QED
      BY <3>2 DEF isrVars, edgeState, EmptyBuffer
  <2>2. CASE PollFinished \/ PollClock \/ PollCompare \/ PollCut \/ PollArm \/ Process
    BY <2>2 DEF PollFinished, PollClock, PollCompare, PollCut, PollArm, Process, isrVars, edgeState
  <2>3. QED
    BY <1>1, <2>1, <2>2 DEF Poll
<1>2. CASE SetCapture \/ RearmAfterLightSleep
  BY <1>2 DEF SetCapture, RearmAfterLightSleep, ArmPassive, EmptyBuffer
<1>3. CASE BeginActiveMaster
  BY <1>3 DEF BeginActiveMaster
<1>4. CASE RestorePassiveGpio
  BY <1>4 DEF RestorePassiveGpio, ArmPassive, EmptyBuffer
<1>5. CASE (\E level \in Levels : BusMoves(level)) \/ CaptureTick \/ Elsewhere
  BY <1>5 DEF BusMoves, CaptureTick, Elsewhere, isrVars, edgeState
<1>6. CASE DownloadBegins \/ (\E sent \in BOOLEAN : DownloadEnds(sent)) \/ UNCHANGED captureVars
  BY <1>6 DEF DownloadBegins, DownloadEnds, captureVars, isrVars, edgeState
<1>7. QED
  BY <1>1, <1>2, <1>3, <1>4, <1>5, <1>6 DEF CaptureNext

LEMMA WireStep ==
    ASSUME wire \in Levels, [CaptureNext]_captureVars
    PROVE  wire' \in Levels /\ (GpioIsr => wire' = wire)
<1>1. CASE wire' = wire
  BY <1>1
<1>2. CASE (\E level \in Levels : BusMoves(level)) \/ RestorePassiveGpio
  <2>1. wire' \in Levels
    BY <1>2 DEF BusMoves, RestorePassiveGpio
  <2>2. GpioIsr => wire' = wire
    BY DEF GpioIsr
  <2>3. QED
    BY <2>1, <2>2
<1>3. CASE GpioIsr \/ SetCapture \/ RearmAfterLightSleep \/ BeginActiveMaster \/ Poll
  BY <1>1, <1>3 DEF GpioIsr, SetCapture, RearmAfterLightSleep, BeginActiveMaster, Poll, PollFinished,
                    PollClock, PollCompare, PollCut, PollArm, Process, PollExport, Consume
<1>4. CASE DownloadBegins \/ (\E sent \in BOOLEAN : DownloadEnds(sent)) \/ CaptureTick \/ Elsewhere
           \/ UNCHANGED captureVars
  BY <1>1, <1>4 DEF DownloadBegins, DownloadEnds, CaptureTick, Elsewhere, captureVars
<1>5. GpioIsr => wire' = wire
  BY DEF GpioIsr
<1>6. QED
  BY <1>1, <1>2, <1>3, <1>4, <1>5 DEF CaptureNext

LEMMA StoredEdge ==
    ASSUME EdgeInv, GpioIsr, Stores, Len(samples) < MaxSamples
    PROVE  EdgeInv'
<1>1. /\ samples' = Append(samples, wire) /\ last_value' = wire /\ wire' = wire
      /\ capture_initial_value' = IF samples = <<>> THEN last_value ELSE capture_initial_value
      /\ wire # last_value
  BY DEF GpioIsr, Stores
<1>2. samples \in Seq(Levels) /\ wire \in Levels
  BY DEF EdgeInv
<1>3. /\ samples' \in Seq(Levels) /\ Len(samples') = Len(samples) + 1 /\ Len(samples) \in Nat
      /\ samples'[Len(samples) + 1] = wire
      /\ \A i \in 1 .. Len(samples) : samples'[i] = samples[i]
  BY <1>1, <1>2
<1>4. last_value' = samples'[Len(samples')] /\ capture_initial_value' \in Levels
  BY <1>1, <1>3 DEF EdgeInv
<1>5. ASSUME NEW i \in DOMAIN samples'
      PROVE  samples'[i] # IF i = 1 THEN capture_initial_value' ELSE samples'[i - 1]
  <2>1. i \in 1 .. (Len(samples) + 1) /\ DOMAIN samples = 1 .. Len(samples)
    BY <1>2, <1>3, <1>5
  <2>2. CASE i = Len(samples) + 1
    <3>1. CASE i = 1
      <4>1. samples = <<>>
        BY <1>2, <1>3, <2>2, <3>1
      <4>2. QED
        BY <1>1, <1>3, <2>2, <3>1, <4>1
    <3>2. CASE i # 1
      <4>1. samples # <<>> /\ Len(samples) \in 1 .. Len(samples)
        BY <1>2, <1>3, <2>1, <2>2, <3>2
      <4>2. last_value = samples[Len(samples)]
        BY <4>1 DEF EdgeInv, Stores
      <4>3. samples'[i - 1] = last_value
        BY <1>3, <2>2, <4>1, <4>2
      <4>4. QED
        BY <1>1, <1>3, <2>2, <3>2, <4>3
    <3>3. QED
      BY <3>1, <3>2
  <2>3. CASE i # Len(samples) + 1
    <3>1. i \in 1 .. Len(samples) /\ samples # <<>> /\ i \in DOMAIN samples
      BY <1>2, <1>3, <2>1, <2>3
    <3>2. samples[i] # IF i = 1 THEN capture_initial_value ELSE samples[i - 1]
      BY <3>1 DEF EdgeInv, SamplesAreChanges
    <3>3. i # 1 => samples'[i - 1] = samples[i - 1]
      BY <1>3, <3>1
    <3>4. QED
      BY <1>1, <1>3, <3>1, <3>2, <3>3
  <2>4. QED
    BY <2>2, <2>3
<1>6. SamplesAreChanges'
  BY <1>5 DEF SamplesAreChanges
<1>7. QED
  BY <1>1, <1>2, <1>3, <1>4, <1>6 DEF EdgeInv

\* Armed again is only an empty buffer.
LEMMA ArmedEmpty ==
    ASSUME IsrInv, [CaptureNext]_captureVars, capturing'
    PROVE  capturing \/ samples' = <<>>
<1>1. CASE Poll
  <2>1. CASE PollArm
    BY <2>1 DEF PollArm, IsrInv
  <2>2. CASE \E o \in Outcomes : PollExport(o) \/ Consume(o)
    BY <2>2 DEF PollExport, Consume, EmptyBuffer, isrVars
  <2>3. CASE PollFinished \/ PollClock \/ PollCompare \/ PollCut \/ Process
    BY <2>3 DEF PollFinished, PollClock, PollCompare, PollCut, Process, isrVars
  <2>4. QED
    BY <1>1, <2>1, <2>2, <2>3 DEF Poll
<1>2. CASE GpioIsr
  BY <1>2 DEF GpioIsr, Stores, isrVars
<1>3. CASE SetCapture \/ RearmAfterLightSleep \/ BeginActiveMaster \/ RestorePassiveGpio
  BY <1>3 DEF SetCapture, RearmAfterLightSleep, BeginActiveMaster, RestorePassiveGpio, ArmPassive, EmptyBuffer
<1>4. CASE (\E level \in Levels : BusMoves(level)) \/ CaptureTick \/ Elsewhere
  BY <1>4 DEF BusMoves, CaptureTick, Elsewhere, isrVars
<1>5. CASE DownloadBegins \/ (\E sent \in BOOLEAN : DownloadEnds(sent)) \/ UNCHANGED captureVars
  BY <1>5 DEF DownloadBegins, DownloadEnds, captureVars, isrVars
<1>6. QED
  BY <1>1, <1>2, <1>3, <1>4, <1>5 DEF CaptureNext

LEMMA EdgeStep ==
    ASSUME IsrInv, EdgeInv, [CaptureNext]_captureVars
    PROVE  EdgeInv'
<1>1. wire' \in Levels
  BY WireStep DEF EdgeInv
<1>2. CASE GpioIsr /\ Stores /\ Len(samples) < MaxSamples
  BY <1>2, StoredEdge
<1>3. CASE GpioIsr /\ Stores /\ ~(Len(samples) < MaxSamples)
  <2>1. samples # <<>>
    BY <1>3, I2cCaptureAssumption
  <2>2. samples' = samples /\ last_value' = wire /\ capture_initial_value' = capture_initial_value
        /\ capturing' = FALSE
    BY <1>3, <2>1 DEF GpioIsr
  <2>3. SamplesAreChanges'
    BY <2>2 DEF EdgeInv, SamplesAreChanges
  <2>4. QED
    BY <1>1, <2>2, <2>3 DEF EdgeInv
<1>4. CASE samples' = <<>> /\ capture_initial_value' \in Levels /\ last_value' \in Levels
  <2>1. samples' \in Seq(Levels) /\ DOMAIN samples' = {}
    BY <1>4
  <2>2. SamplesAreChanges'
    BY <2>1 DEF SamplesAreChanges
  <2>3. QED
    BY <1>1, <1>4, <2>1, <2>2 DEF EdgeInv
<1>5. CASE UNCHANGED edgeState
  <2>1. SamplesAreChanges'
    BY <1>5 DEF EdgeInv, SamplesAreChanges, edgeState
  <2>2. capturing' /\ samples' # <<>> => last_value' = samples'[Len(samples')]
    BY <1>5, ArmedEmpty DEF EdgeInv, edgeState
  <2>3. QED
    BY <1>1, <1>5, <2>1, <2>2 DEF EdgeInv, edgeState
<1>6. CASE GpioIsr /\ ~Stores
  <2>1. UNCHANGED edgeState
    BY <1>6 DEF GpioIsr, isrVars, edgeState
  <2>2. QED
    BY <1>5, <2>1
<1>7. CASE ~GpioIsr
  BY <1>1, <1>4, <1>5, <1>7, KeptOrEmptied DEF EdgeInv
<1>8. QED
  BY <1>2, <1>3, <1>6, <1>7

(***************************************************************************)
(* The copy.                                                               *)
(***************************************************************************)

copyState == <<copy, download, last_capture_frozen>>

LEMMA StoreRawCopies ==
    ASSUME CopyInv, StoreRaw, last_capture_frozen' = last_capture_frozen
    PROVE  CopyInv' /\ CopyFrozen
<1>1. copy \in [has : BOOLEAN, id : 0 .. 1, current : BOOLEAN]
      /\ download \in [active : BOOLEAN, id : 0 .. 1, current : BOOLEAN, frozen : BOOLEAN]
  BY DEF CopyInv
<1>2. CASE UNCHANGED <<copy, download>>
  BY <1>2 DEF CopyInv, CopyFrozen
<1>3. CASE copy' = [copy EXCEPT !.current = FALSE] /\ download' = [download EXCEPT !.current = FALSE]
  BY <1>1, <1>3 DEF CopyInv, CopyFrozen
<1>4. CASE ~last_capture_frozen /\ copy' = Replaced /\ download' = [download EXCEPT !.current = FALSE]
  <2>1. copy' \in [has : BOOLEAN, id : 0 .. 1, current : BOOLEAN]
    BY <1>1, <1>4 DEF Replaced
  <2>2. QED
    BY <1>1, <1>4, <2>1 DEF CopyInv, CopyFrozen
<1>5. QED
  BY <1>2, <1>3, <1>4 DEF StoreRaw, CopyBlocked

LEMMA CopyStep ==
    ASSUME CopyInv, [CaptureNext]_captureVars
    PROVE  CopyInv' /\ CopyFrozen
<1>1. CASE UNCHANGED copyState
  BY <1>1 DEF CopyInv, CopyFrozen, copyState
<1>2. CASE \E o \in Outcomes : Consume(o)
  BY <1>2, StoreRawCopies DEF Consume
<1>3. CASE Process
  <2>1. copy' = copy /\ download' = download /\ last_capture_frozen' \in BOOLEAN
        /\ (last_capture_frozen => last_capture_frozen')
    BY <1>3 DEF Process, CopyInv, Freezable
  <2>2. QED
    BY <2>1 DEF CopyInv, CopyFrozen
<1>4. CASE DownloadBegins
  <2>1. copy' = copy /\ last_capture_frozen' = last_capture_frozen
        /\ download' = [active |-> TRUE, id |-> copy.id, current |-> TRUE, frozen |-> last_capture_frozen]
    BY <1>4 DEF DownloadBegins, copyVars
  <2>2. QED
    BY <2>1 DEF CopyInv, CopyFrozen
<1>5. CASE \E sent \in BOOLEAN : DownloadEnds(sent)
  <2>1. PICK sent \in BOOLEAN : DownloadEnds(sent)
    BY <1>5
  <2>2. /\ copy' = copy /\ download' = NoDownload /\ download.active
        /\ last_capture_frozen' = (last_capture_frozen /\ ~Releases(sent))
    BY <2>1 DEF DownloadEnds
  <2>3. last_capture_frozen' \in BOOLEAN
    BY <2>2
  <2>4. ~download'.active /\ download' \in [active : BOOLEAN, id : 0 .. 1, current : BOOLEAN, frozen : BOOLEAN]
    BY <2>2 DEF NoDownload
  <2>5. last_capture_frozen /\ ~last_capture_frozen' => download.frozen /\ download.id = copy.id
    BY <2>2 DEF Releases, CopyInv
  <2>6. QED
    BY <2>2, <2>3, <2>4, <2>5 DEF CopyInv, CopyFrozen
<1>6. CASE \/ PollFinished \/ PollClock \/ PollCompare \/ PollCut \/ PollArm
           \/ \E o \in Outcomes : PollExport(o)
  BY <1>1, <1>6 DEF PollFinished, PollClock, PollCompare, PollCut, PollArm, PollExport, copyVars, copyState
<1>7. CASE GpioIsr \/ SetCapture \/ RearmAfterLightSleep \/ BeginActiveMaster \/ RestorePassiveGpio
  BY <1>1, <1>7 DEF GpioIsr, SetCapture, RearmAfterLightSleep, BeginActiveMaster, RestorePassiveGpio,
                    copyVars, copyState
<1>8. CASE (\E level \in Levels : BusMoves(level)) \/ CaptureTick \/ Elsewhere \/ UNCHANGED captureVars
  BY <1>1, <1>8 DEF BusMoves, CaptureTick, Elsewhere, captureVars, copyVars, copyState
<1>9. QED
  BY <1>2, <1>3, <1>4, <1>5, <1>6, <1>7, <1>8 DEF CaptureNext, Poll
(***************************************************************************)
(* Who owns a finished buffer.                                             *)
(***************************************************************************)

exportState == <<udp_pending, configured, capture_overflow, capture_finished, samples, pc>>

LEMMA ExportFrame == ExportInv /\ UNCHANGED exportState => ExportInv'
BY DEF ExportInv, exportState

Exports == [active : BOOLEAN, count : Nat, packet_index : Nat]

LEMMA NextPacket ==
    ASSUME NEW e \in Exports, NEW outcome
    PROVE  AfterPacket(e, outcome) \in Exports /\ (AfterPacket(e, outcome).active => e.active)
<1>1. NoExport \in Exports /\ NoExport.active = FALSE
  BY DEF NoExport, Exports
<1>2. [e EXCEPT !.packet_index = @ + 1] \in Exports /\ [e EXCEPT !.packet_index = @ + 1].active = e.active
  BY DEF Exports
<1>3. AfterPacket(e, outcome) \in {e, NoExport, [e EXCEPT !.packet_index = @ + 1]}
  BY DEF AfterPacket
<1>4. QED
  BY <1>1, <1>2, <1>3

\* The export that a taken capture begins or finds.
LEMMA Begun ==
    ASSUME ExportInv, samples \in Seq(Levels)
    PROVE  BegunExport \in Exports /\ (BegunExport.active => configured)
<1>1. Len(samples) \in Nat
  OBVIOUS
<1>2. CASE debug /\ Ready /\ ~udp_pending.active
  BY <1>1, <1>2 DEF BegunExport, Exports, Ready
<1>3. CASE ~(debug /\ Ready /\ ~udp_pending.active)
  BY <1>3 DEF BegunExport, Exports, ExportInv
<1>4. QED
  BY <1>2, <1>3

LEMMA ConsumeExport ==
    ASSUME CaptureInv, configured' = configured, NEW o \in Outcomes, Consume(o)
    PROVE  ExportInv' /\ (udp_pending'.active => configured)
<1>1. BegunExport \in Exports /\ (BegunExport.active => configured)
  BY Begun DEF CaptureInv, EdgeInv
<1>2. udp_pending' = AfterPacket(BegunExport, o) \/ udp_pending' = BegunExport
  BY DEF Consume
<1>3. udp_pending' \in Exports /\ (udp_pending'.active => configured)
  BY <1>1, <1>2, NextPacket
<1>4. CASE BufferReleased
  <2>1. capture_finished' = FALSE /\ capture_overflow' = FALSE /\ pc' = "baseline"
    BY <1>4 DEF Consume, EmptyBuffer
  <2>2. QED
    BY <1>3, <2>1 DEF ExportInv, Exports
<1>5. CASE ~BufferReleased
  <2>1. /\ capture_finished' = capture_finished /\ capture_overflow' = capture_overflow
        /\ pc' = "process" /\ udp_pending'.active
    BY <1>5 DEF Consume, isrVars, BufferReleased
  <2>2. QED
    BY <1>3, <2>1 DEF CaptureInv, ExportInv, Exports
<1>6. QED
  BY <1>3, <1>4, <1>5

LEMMA PollExportExport ==
    ASSUME CaptureInv, configured' = configured, NEW o \in Outcomes, PollExport(o)
    PROVE  ExportInv'
<1>1. pc = "idle" /\ configured /\ udp_pending \in Exports /\ udp_pending' = AfterPacket(udp_pending, o)
  BY DEF PollExport, CaptureInv, ExportInv, Exports
<1>2. udp_pending' \in Exports
  BY <1>1, NextPacket
<1>3. CASE udp_pending'.active
  <2>1. capture_finished' = capture_finished /\ capture_overflow' = capture_overflow /\ pc' = "idle"
    BY <1>1, <1>3 DEF PollExport, isrVars
  <2>2. QED
    BY <1>1, <1>2, <1>3, <2>1 DEF CaptureInv, ExportInv, Exports
<1>4. CASE ~udp_pending'.active
  <2>1. capture_finished' = FALSE /\ capture_overflow' = FALSE /\ pc' = "baseline"
    BY <1>4 DEF PollExport, EmptyBuffer
  <2>2. QED
    BY <1>2, <1>4, <2>1 DEF ExportInv, Exports
<1>5. QED
  BY <1>3, <1>4

LEMMA ExportStep ==
    ASSUME CaptureInv, [CaptureNext]_captureVars
    PROVE  ExportInv'
<1>1. configured' = configured
  BY UdpStep DEF CaptureInv
<1>2. CASE \E o \in Outcomes : PollExport(o) \/ Consume(o)
  BY <1>1, <1>2, ConsumeExport, PollExportExport
<1>3. CASE PollFinished
  <2>1. /\ capture_finished /\ ~(configured /\ udp_pending.active) /\ pc = "idle" /\ pc' = "consume"
        /\ UNCHANGED <<udp_pending, capture_overflow, capture_finished, samples>>
    BY <1>3 DEF PollFinished, PollReady, isrVars, exportVars
  <2>2. QED
    BY <1>1, <2>1 DEF CaptureInv, ExportInv
<1>4. CASE PollClock \/ PollCompare
  <2>1. /\ pc \in {"idle", "timed"} /\ pc' \in {"idle", "timed", "decided"} /\ samples # <<>>
        /\ pc = "idle" => ~capture_finished
        /\ UNCHANGED <<udp_pending, capture_overflow, capture_finished, samples>>
    BY <1>4 DEF PollClock, PollCompare, PollReady, isrVars, exportVars, CaptureInv, ExportInv
  <2>2. QED
    BY <1>1, <2>1 DEF CaptureInv, ExportInv
<1>5. CASE PollCut
  <2>1. /\ pc = "decided" /\ pc' = "consume" /\ capture_finished' = TRUE
        /\ UNCHANGED <<udp_pending, capture_overflow, samples>>
    BY <1>5 DEF PollCut, exportVars
  <2>2. QED
    BY <1>1, <2>1 DEF CaptureInv, ExportInv
<1>6. CASE PollArm \/ Process
  <2>1. /\ pc \in {"baseline", "process"} /\ pc' \in {"process", "idle"}
        /\ pc = "baseline" => pc' = "process" /\ ~capture_finished
        /\ UNCHANGED <<udp_pending, capture_overflow, capture_finished, samples>>
    BY <1>6 DEF PollArm, Process, isrVars, exportVars, CaptureInv, IsrInv
  <2>2. QED
    BY <1>1, <2>1 DEF CaptureInv, ExportInv
<1>7. CASE GpioIsr
  <2>1. pc' = pc /\ udp_pending' = udp_pending
    BY <1>7 DEF GpioIsr, exportVars
  <2>2. CASE ~Stores
    BY <1>1, <1>7, <2>1, <2>2, ExportFrame DEF GpioIsr, isrVars, exportState, CaptureInv
  <2>3. CASE Stores /\ Len(samples) < MaxSamples
    <3>1. samples' # <<>> /\ UNCHANGED <<capture_finished, capture_overflow>>
      BY <1>7, <2>3 DEF GpioIsr, CaptureInv, EdgeInv
    <3>2. QED
      BY <1>1, <2>1, <3>1 DEF CaptureInv, ExportInv
  <2>4. CASE Stores /\ ~(Len(samples) < MaxSamples)
    <3>1. samples' = samples /\ capture_finished' = TRUE /\ capture_overflow' = TRUE
      BY <1>7, <2>4 DEF GpioIsr
    <3>2. QED
      BY <1>1, <2>1, <3>1 DEF CaptureInv, ExportInv
  <2>5. QED
    BY <2>2, <2>3, <2>4
<1>8. CASE SetCapture \/ RearmAfterLightSleep \/ BeginActiveMaster \/ RestorePassiveGpio
  <2>1. /\ pc' \in {"idle", "probe"} /\ capture_finished' = FALSE /\ capture_overflow' = FALSE
        /\ udp_pending' = udp_pending
    BY <1>8 DEF SetCapture, RearmAfterLightSleep, BeginActiveMaster, RestorePassiveGpio, ArmPassive,
                EmptyBuffer, exportVars, taskVars
  <2>2. QED
    BY <1>1, <2>1 DEF CaptureInv, ExportInv
<1>9. CASE (\E level \in Levels : BusMoves(level)) \/ CaptureTick \/ Elsewhere
  BY <1>1, <1>9, ExportFrame DEF BusMoves, CaptureTick, Elsewhere, isrVars, exportVars, taskVars,
                                 exportState, CaptureInv
<1>10. CASE DownloadBegins \/ (\E sent \in BOOLEAN : DownloadEnds(sent)) \/ UNCHANGED captureVars
  BY <1>1, <1>10, ExportFrame DEF DownloadBegins, DownloadEnds, captureVars, isrVars, exportVars, taskVars,
                                  exportState, CaptureInv
<1>11. QED
  BY <1>2, <1>3, <1>4, <1>5, <1>6, <1>7, <1>8, <1>9, <1>10 DEF CaptureNext, Poll

(***************************************************************************)
(* The properties.                                                         *)
(***************************************************************************)

LEMMA CaptureInitInv == CaptureInit => CaptureInv
<1> SUFFICES ASSUME CaptureInit PROVE CaptureInv
  OBVIOUS
<1>1. UdpInv
  <2>1. configured \in BOOLEAN /\ netUp \in BOOLEAN /\ tripped \in BOOLEAN
    BY DEF CaptureInit, UdpInit
  <2>2. suspended = 0 /\ owed = 0 /\ cooldown = CooldownInitial /\ healthy = -1 /\ faultFree = HealthyReset
    BY DEF CaptureInit, UdpInit
  <2>3. QED
    BY <2>1, <2>2, DebugUdpAssumption DEF UdpInv
<1>2. IsrInv
  BY DEF CaptureInit, IsrInv
<1>3. EdgeInv
  <2>1. samples = <<>> /\ DOMAIN samples = {} /\ samples \in Seq(Levels)
    BY DEF CaptureInit
  <2>2. QED
    BY <2>1 DEF CaptureInit, EdgeInv, SamplesAreChanges
<1>4. CopyInv
  <2>1. /\ copy = [has |-> FALSE, id |-> 0, current |-> FALSE]
        /\ download = [active |-> FALSE, id |-> 0, current |-> FALSE, frozen |-> FALSE]
        /\ last_capture_frozen = FALSE
    BY DEF CaptureInit, NoDownload
  <2>2. copy \in [has : BOOLEAN, id : 0 .. 1, current : BOOLEAN]
    BY <2>1
  <2>3. download \in [active : BOOLEAN, id : 0 .. 1, current : BOOLEAN, frozen : BOOLEAN]
    BY <2>1
  <2>4. last_capture_frozen \in BOOLEAN
    BY <2>1
  <2>5. ~download.active
    BY <2>1
  <2>6. QED
    BY <2>2, <2>3, <2>4, <2>5 DEF CopyInv
<1>5. ExportInv
  BY DEF CaptureInit, ExportInv, NoExport
<1>6. QED
  BY <1>1, <1>2, <1>3, <1>4, <1>5 DEF CaptureInv

LEMMA CaptureStep == CaptureInv /\ [CaptureNext]_captureVars => CaptureInv'
BY UdpStep, IsrStep, EdgeStep, CopyStep, ExportStep DEF CaptureInv

\* Between two calls the interrupt listens exactly when capture is on and nothing
\* finished waits, whatever armed, emptied or handed over the buffer last.
THEOREM ListensWhenItShould == CaptureSpec => []Listening
<1>1. CaptureInv => Listening
  BY DEF CaptureInv, IsrInv, Listening
<1>2. QED
  BY <1>1, CaptureInitInv, CaptureStep, PTL DEF CaptureSpec

\* Every stored sample is a change of the level before it.
THEOREM StoredAreChanges == CaptureSpec => []SamplesAreChanges
<1>1. CaptureInv => SamplesAreChanges
  BY DEF CaptureInv, EdgeInv
<1>2. QED
  BY <1>1, CaptureInitInv, CaptureStep, PTL DEF CaptureSpec

\* Neither a finished buffer nor the copy of a suspicious capture is changed under
\* the one who reads it.
THEOREM EvidenceStays == CaptureSpec => FrozenBufferStays
<1>1. CaptureInv /\ [CaptureNext]_captureVars => BufferFrozen
  <2> SUFFICES ASSUME CaptureInv, [CaptureNext]_captureVars, capture_finished, samples' # <<>>
               PROVE  UNCHANGED <<samples, capture_initial_value, capture_overflow>>
    BY DEF BufferFrozen
  <2>1. CASE GpioIsr
    BY <2>1 DEF GpioIsr, Stores, CaptureInv, IsrInv, isrVars
  <2>2. CASE ~GpioIsr
    BY <2>2, KeptOrEmptied DEF edgeState
  <2>3. QED
    BY <2>1, <2>2
<1>2. CaptureInv /\ [CaptureNext]_captureVars => [BufferFrozen /\ CopyFrozen]_captureVars
  BY <1>1, CopyStep DEF CaptureInv
<1>3. QED
  BY <1>2, CaptureInitInv, CaptureStep, PTL DEF CaptureSpec, FrozenBufferStays

\* The breaker stays open for its whole cooldown and shortens it only after a whole
\* healthy interval, whoever sends, drops or resets.
THEOREM BackoffIsKept == CaptureSpec => BackoffEarned
<1>1. CaptureInv /\ [CaptureNext]_captureVars => [BackoffIsEarned]_captureVars
  BY UdpStep DEF CaptureInv
<1>2. QED
  BY <1>1, CaptureInitInv, CaptureStep, PTL DEF CaptureSpec, BackoffEarned

(***************************************************************************)
(* The buffer that the capture gate is modelled with.                      *)
(***************************************************************************)

exporting == configured /\ udp_pending.active

\* Abstract stutter, stated over the parts of the mapping.
KeepsBuffer == capture_enabled' = capture_enabled /\ bufferState' = bufferState /\ exporting' = exporting

LEMMA Exporting ==
    ASSUME CaptureInv
    PROVE  exporting = udp_pending.active /\ exporting \in BOOLEAN /\ capture_enabled \in BOOLEAN
BY DEF CaptureInv, ExportInv, IsrInv, UdpInv, exporting

LEMMA TaskKeepsBuffer ==
    ASSUME CaptureInv, configured' = configured,
           PollFinished \/ PollClock \/ PollCompare \/ PollCut \/ PollArm \/ Process
    PROVE  KeepsBuffer
<1>1. udp_pending' = udp_pending /\ samples' = samples /\ capture_overflow' = capture_overflow
      /\ capture_enabled' = capture_enabled
  BY DEF PollFinished, PollClock, PollCompare, PollCut, PollArm, Process, isrVars, exportVars
<1>2. exporting' = exporting
  BY <1>1 DEF exporting
<1>3. CASE PollFinished
  <2>1. ~udp_pending.active /\ pc = "idle" /\ capture_finished /\ pc' = "consume" /\ capture_finished'
    BY <1>3 DEF PollFinished, PollReady, isrVars, CaptureInv, ExportInv
  <2>2. capture_overflow
    BY <2>1 DEF CaptureInv, ExportInv
  <2>3. QED
    BY <1>1, <1>2, <2>1, <2>2 DEF KeepsBuffer, bufferState
<1>4. CASE PollClock \/ PollCompare \/ Process
  <2>1. pc # "consume" /\ pc' # "consume" /\ capture_finished' = capture_finished
    BY <1>4 DEF PollClock, PollCompare, PollReady, Process, isrVars
  <2>2. QED
    BY <1>1, <1>2, <2>1 DEF KeepsBuffer, bufferState
<1>5. CASE PollCut
  <2>1. pc = "decided" /\ pc' = "consume" /\ capture_finished'
    BY <1>5 DEF PollCut
  <2>2. capture_finished <=> capture_overflow
    BY <2>1 DEF CaptureInv, ExportInv
  <2>3. QED
    BY <1>1, <1>2, <2>1, <2>2 DEF KeepsBuffer, bufferState
<1>6. CASE PollArm
  <2>1. ~capture_finished /\ capture_finished' = capture_finished
    BY <1>6 DEF PollArm, CaptureInv, IsrInv
  <2>2. QED
    BY <1>1, <1>2, <2>1 DEF KeepsBuffer, bufferState
<1>7. QED
  BY <1>3, <1>4, <1>5, <1>6

LEMMA InterruptStores ==
    ASSUME CaptureInv, configured' = configured, GpioIsr
    PROVE  Buffer!StoreEdges \/ KeepsBuffer
<1>1. udp_pending' = udp_pending /\ pc' = pc /\ capture_enabled' = capture_enabled
  BY DEF GpioIsr, exportVars
<1>2. exporting' = exporting
  BY <1>1 DEF exporting
<1>3. CASE ~Stores
  BY <1>1, <1>2, <1>3 DEF GpioIsr, isrVars, KeepsBuffer, bufferState
<1>4. CASE Stores
  <2>1. capturing /\ ~capture_finished /\ capture_enabled /\ pc # "consume"
    BY <1>4 DEF Stores, CaptureInv, IsrInv
  <2>2. bufferState # "finished"
    BY <2>1 DEF bufferState
  <2>3. bufferState' \in {"edges", "finished"}
    <3>1. CASE Len(samples) < MaxSamples
      BY <1>4, <3>1 DEF GpioIsr, bufferState, CaptureInv, EdgeInv
    <3>2. CASE ~(Len(samples) < MaxSamples)
      BY <1>4, <3>2 DEF GpioIsr, bufferState
    <3>3. QED
      BY <3>1, <3>2
  <2>4. QED
    BY <1>1, <1>2, <2>1, <2>2, <2>3 DEF Buffer!StoreEdges, exporting
<1>5. QED
  BY <1>3, <1>4

LEMMA ArmingEmpties ==
    ASSUME CaptureInv, configured' = configured,
           SetCapture \/ RearmAfterLightSleep \/ BeginActiveMaster \/ RestorePassiveGpio
    PROVE  Buffer!SwitchCapture \/ Buffer!Rearm
<1>1. udp_pending' = udp_pending /\ samples' = <<>> /\ capture_finished' = FALSE
  BY DEF SetCapture, RearmAfterLightSleep, BeginActiveMaster, RestorePassiveGpio, ArmPassive, EmptyBuffer,
         exportVars
<1>2. exporting' = exporting /\ bufferState' = "empty"
  BY <1>1 DEF exporting, bufferState
<1>3. CASE SetCapture
  BY <1>2, <1>3 DEF SetCapture, Buffer!SwitchCapture, exporting
<1>4. CASE RearmAfterLightSleep \/ BeginActiveMaster \/ RestorePassiveGpio
  <2>1. capture_enabled' = capture_enabled
    BY <1>4 DEF RearmAfterLightSleep, BeginActiveMaster, RestorePassiveGpio, taskVars
  <2>2. QED
    BY <1>2, <2>1 DEF Buffer!Rearm, exporting
<1>5. QED
  BY <1>3, <1>4

LEMMA ExportDrains ==
    ASSUME CaptureInv, CaptureInv', NEW o \in Outcomes, PollExport(o)
    PROVE  Buffer!DrainExport \/ KeepsBuffer
<1>1. /\ pc = "idle" /\ capture_finished /\ capture_enabled /\ capture_enabled' = capture_enabled
      /\ udp_pending.active
  BY DEF PollExport
<1>2. bufferState = "finished" /\ exporting
  BY <1>1, Exporting DEF bufferState
<1>3. CASE udp_pending'.active
  <2>1. UNCHANGED <<samples, capture_finished, capture_overflow, pc>> /\ exporting'
    BY <1>3, Exporting DEF PollExport, isrVars, CaptureInv, ExportInv, exporting
  <2>2. QED
    BY <1>1, <1>2, <2>1 DEF KeepsBuffer, bufferState
<1>4. CASE ~udp_pending'.active
  <2>1. samples' = <<>> /\ capture_finished' = FALSE /\ ~exporting'
    BY <1>4 DEF PollExport, EmptyBuffer, exporting
  <2>2. bufferState' = "empty"
    BY <2>1 DEF bufferState
  <2>3. QED
    BY <1>1, <1>2, <2>1, <2>2 DEF Buffer!DrainExport, exporting
<1>5. QED
  BY <1>3, <1>4

LEMMA ConsumeTakes ==
    ASSUME CaptureInv, CaptureInv', NEW o \in Outcomes, Consume(o)
    PROVE  Buffer!TakeCapture \/ Buffer!DrainExport \/ KeepsBuffer
<1>1. pc = "consume" /\ capture_finished /\ capture_enabled /\ capture_enabled' = capture_enabled
  BY DEF Consume, CaptureInv, IsrInv
<1>2. /\ capture_overflow => bufferState = "finished"
      /\ ~capture_overflow => bufferState = "edges"
  BY <1>1 DEF bufferState, CaptureInv, ExportInv
<1>3. exporting' \in BOOLEAN /\ exporting' = udp_pending'.active
  BY DEF CaptureInv, ExportInv, UdpInv, exporting
<1>4. bufferState' = IF exporting' THEN "finished" ELSE "empty"
  <2>1. CASE BufferReleased
    <3>1. samples' = <<>> /\ capture_finished' = FALSE /\ ~exporting'
      BY <1>3, <2>1 DEF Consume, EmptyBuffer, BufferReleased
    <3>2. QED
      BY <3>1 DEF bufferState
  <2>2. CASE ~BufferReleased
    <3>1. capture_finished' = capture_finished /\ pc' = "process" /\ exporting'
      BY <1>3, <2>2 DEF Consume, isrVars, BufferReleased
    <3>2. QED
      BY <1>1, <3>1 DEF bufferState
  <2>3. QED
    BY <2>1, <2>2
<1>5. CASE ~capture_overflow \/ ~exporting
  BY <1>1, <1>2, <1>3, <1>4, <1>5 DEF Buffer!TakeCapture, exporting
<1>6. CASE capture_overflow /\ exporting /\ exporting'
  BY <1>1, <1>2, <1>4, <1>6 DEF KeepsBuffer
<1>7. CASE capture_overflow /\ exporting /\ ~exporting'
  BY <1>1, <1>2, <1>4, <1>7 DEF Buffer!DrainExport, exporting
<1>8. QED
  BY <1>3, <1>5, <1>6, <1>7

LEMMA BufferStep ==
    ASSUME CaptureInv, CaptureInv', [CaptureNext]_captureVars
    PROVE  Buffer!BufferNext \/ KeepsBuffer
<1>1. configured' = configured
  BY UdpStep DEF CaptureInv
<1>2. CASE Poll
  <2>1. CASE PollFinished \/ PollClock \/ PollCompare \/ PollCut \/ PollArm \/ Process
    BY <1>1, <2>1, TaskKeepsBuffer
  <2>2. CASE \E o \in Outcomes : PollExport(o) \/ Consume(o)
    BY <2>2, ExportDrains, ConsumeTakes DEF Buffer!BufferNext
  <2>3. QED
    BY <1>2, <2>1, <2>2 DEF Poll
<1>3. CASE GpioIsr
  BY <1>1, <1>3, InterruptStores DEF Buffer!BufferNext
<1>4. CASE SetCapture \/ RearmAfterLightSleep \/ BeginActiveMaster \/ RestorePassiveGpio
  BY <1>1, <1>4, ArmingEmpties DEF Buffer!BufferNext
<1>5. CASE (\E level \in Levels : BusMoves(level)) \/ DownloadBegins \/ (\E sent \in BOOLEAN : DownloadEnds(sent))
           \/ CaptureTick \/ Elsewhere \/ UNCHANGED captureVars
  <2>1. UNCHANGED <<samples, capture_finished, capture_overflow, pc, capture_enabled, udp_pending>>
    BY <1>5 DEF BusMoves, DownloadBegins, DownloadEnds, CaptureTick, Elsewhere, captureVars, isrVars, exportVars,
                taskVars
  <2>2. QED
    BY <1>1, <2>1 DEF KeepsBuffer, bufferState, exporting
<1>6. QED
  BY <1>2, <1>3, <1>4, <1>5 DEF CaptureNext

\* The sniffer is the buffer that the capture gate is modelled with: every step of
\* the interrupt, of poll() and of the calls that re-arm it is one of that buffer's,
\* or none of its business.
THEOREM SnifferImplementsBuffer == CaptureSpec => ImplementsBuffer
<1>1. CaptureInit => Buffer!BufferInit
  BY DEF CaptureInit, NoExport, Buffer!BufferInit, bufferState
<1>2. CaptureInv /\ CaptureInv' /\ [CaptureNext]_captureVars => [Buffer!BufferNext]_(Buffer!bufferVars)
  BY BufferStep DEF KeepsBuffer, Buffer!bufferVars, exporting
<1>3. QED
  BY <1>1, <1>2, CaptureInitInv, CaptureStep, PTL DEF CaptureSpec, ImplementsBuffer, Buffer!BufferSpec

=============================================================================
