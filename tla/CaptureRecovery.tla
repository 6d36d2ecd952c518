-------------------------- MODULE CaptureRecovery --------------------------
(***************************************************************************)
(* What poll() of i2c_sniffer.cpp does with a finished capture: decode it, *)
(* and when the caller's validator refuses it, repair it with the RMT      *)
(* record of SCL or by trying one missing clock pulse, then two, in the    *)
(* sample buffer itself.                                                   *)
(*                                                                         *)
(* The initial states are what the bus can have given the interrupt: the   *)
(* transfers sent, the levels it came too late for, the clock value at the *)
(* first edge, and what the RMT receiver has of SCL.                       *)
(***************************************************************************)
EXTENDS MissingClock

CONSTANTS
    Wires,        \* what the bus may carry: a list of transfers and what Transmit makes of it
    Losses(_),    \* of a wire: the sets of samples the interrupt may miss
    Epochs,       \* clock values at the start of a capture
    RmtStates     \* of "off", "pending", "overflow", "done"

\* What a wire is of the bus: levels at times that grow.
Recording(w) ==
    /\ w.t \in Nat /\ w.samples \in Seq([t : 0 .. w.t, scl : {0, 1}, sda : {0, 1}])
    /\ \A m, n \in 1 .. Len(w.samples) : m <= n => w.samples[m].t <= w.samples[n].t

ASSUME RecoveryAssumption ==
    /\ ClockMod \in Nat \ {0} /\ ClockMod % 2 = 0
    /\ RmtStates \subseteq {"off", "pending", "overflow", "done"}
    /\ Epochs \subseteq 0 .. ClockMod - 1
    /\ \A w \in Wires : Recording(w) /\ 6 * w.t < ClockMod

VARIABLES
    wire,       \* what was on the bus
    missed,     \* the levels the interrupt came too late for
    captured,   \* what the interrupt stored
    data,       \* samples[] of the source
    rmt,        \* state of the RMT receiver
    stage,      \* where poll() is
    tries,      \* the combinations of pulses still to be tried in this round
    accepted,   \* have_accepted and accepted: at most one capture
    ambiguous,
    capture     \* poll()'s result

recoveryVars == <<wire, missed, captured, data, rmt, stage, tries, accepted, ambiguous, capture>>

Idle == [scl |-> 1, sda |-> 1]
At(samples, epoch) == [n \in DOMAIN samples |-> [samples[n] EXCEPT !.t = (@ + epoch) % ClockMod]]

\* SCL from its first edge on, as the receiver measures it; the last level is ended
\* by silence.
RmtHalves(all) ==
    LET edges == GpioSclEdges(all, Idle)
    IN [n \in DOMAIN edges |->
          [level |-> edges[n].level,
           ticks |-> IF n = Len(edges) THEN 0 ELSE 5 * (edges[n + 1].t - edges[n].t)]]

RecoveryInit ==
    /\ wire \in Wires
    /\ missed \in Losses(wire)
    /\ \E epoch \in Epochs : captured = Seen(At(wire.samples, epoch), missed)
    /\ data = captured
    /\ rmt \in RmtStates
    /\ stage = "decode"
    /\ tries = <<>>
    /\ accepted = <<>> /\ ambiguous = FALSE
    /\ capture = EmptyCapture

-----------------------------------------------------------------------------

Finish(result) == stage' = "done" /\ capture' = result

Decode ==
    /\ stage = "decode"
    /\ LET result == decode_capture(data, Idle) IN
       IF validate_measurement_capture(result) THEN Finish(result)
       ELSE /\ capture' = result
            /\ stage' = IF rmt = "done" THEN "rmt" ELSE "collect"
    /\ UNCHANGED <<wire, missed, captured, data, rmt, tries, accepted, ambiguous>>

\* The RMT edges are put into the buffer for this one decoding, whatever comes of it.
RmtRepair ==
    /\ stage = "rmt"
    /\ LET attempt == RmtInserted(data, Idle, RmtHalves(wire.samples))
           result == decode_capture(attempt.data, Idle)
       IN /\ data' = RmtTakenOut(attempt)
          /\ IF attempt.ok /\ attempt.in # <<>> /\ validate_measurement_capture(result)
             THEN Finish(result) ELSE stage' = "collect" /\ UNCHANGED capture
    /\ UNCHANGED <<wire, missed, captured, rmt, tries, accepted, ambiguous>>

\* One pulse first: every candidate, alone.
Collect ==
    /\ stage = "collect"
    /\ LET pulses == Candidates(data, Idle) IN
       /\ tries' = [n \in DOMAIN pulses |-> <<pulses[n]>>]
       /\ stage' = IF pulses = <<>> THEN "done" ELSE "single"
    /\ UNCHANGED <<wire, missed, captured, data, rmt, accepted, ambiguous, capture>>

\* remember_valid_recovery: another placement of the pulses must decode to the same
\* frames.  (KeepsTheFirst: it is not compared.)
KeepsTheFirst(found, result) == FALSE
Contradicts(found, result) ==
    found # <<>> /\ (found[1].frames # result.frames \/ found[1].errors # result.errors)

\* The pulses of one try are put into the buffer, and those that could be are taken
\* out again, the last one first.
Applied(hypothesis) ==
    LET first == apply_pulse(data, Idle, hypothesis[1])
        second == apply_pulse(first.data, Idle, hypothesis[2])
    IN IF ~first.ok THEN [ok |-> FALSE, data |-> data, in |-> <<>>]
       ELSE IF Len(hypothesis) = 1 THEN [ok |-> TRUE, data |-> first.data, in |-> hypothesis]
       ELSE [ok |-> second.ok, data |-> second.data,
             in |-> IF second.ok THEN <<hypothesis[2], hypothesis[1]>> ELSE <<hypothesis[1]>>]
TakenOut(buffer, in) ==
    LET once == undo_pulse(buffer, in[1])
    IN IF in = <<>> THEN buffer ELSE IF Len(in) = 1 THEN once ELSE undo_pulse(once, in[2])

\* Two pulses of different intervals, one after the other.  (SamePlace: of the same
\* interval.)
SamePlace(p, q) == p.id = q.id /\ p.t2 < q.t1
Combinable(p, q) == p.id # q.id /\ p.t2 < q.t1
Pairs(pulses) ==
    LET Ordered(m, n) == IF pulses[n].t1 < pulses[m].t1 THEN <<pulses[n], pulses[m]>> ELSE <<pulses[m], pulses[n]>>
        With(m) == Chosen([k \in 1 .. Len(pulses) - m |-> Ordered(m, m + k)],
                          {k \in 1 .. Len(pulses) - m : Combinable(Ordered(m, m + k)[1], Ordered(m, m + k)[2])})
    IN FlattenSeq([m \in DOMAIN pulses |-> With(m)])

Try ==
    /\ stage \in {"single", "pair"} /\ tries # <<>>
    /\ LET applied == Applied(Head(tries))
           result == decode_capture(applied.data, Idle)
           valid == applied.ok /\ validate_measurement_capture(result)
           undone == TakenOut(applied.data, applied.in)
           restored == Len(undone) = Len(data)
       IN /\ data' = undone
          /\ ambiguous' = (valid /\ restored /\ Contradicts(accepted, result))
          /\ accepted' = IF valid /\ restored /\ accepted = <<>> THEN <<result>> ELSE accepted
          /\ IF ambiguous' \/ ~restored THEN stage' = "done" /\ UNCHANGED <<tries, capture>>
             ELSE tries' = Tail(tries) /\ UNCHANGED <<stage, capture>>
    /\ UNCHANGED <<wire, missed, captured, rmt>>

\* Two pulses are only tried when no single one fits.
NextRound ==
    /\ stage \in {"single", "pair"} /\ tries = <<>>
    /\ IF accepted # <<>> THEN Finish(accepted[1]) /\ UNCHANGED tries
       ELSE IF stage = "single"
       THEN tries' = Pairs(Candidates(data, Idle)) /\ stage' = "pair" /\ UNCHANGED capture
       ELSE stage' = "done" /\ UNCHANGED <<tries, capture>>
    /\ UNCHANGED <<wire, missed, captured, data, rmt, accepted, ambiguous>>

RecoveryNext == Decode \/ RmtRepair \/ Collect \/ Try \/ NextRound

RecoverySpec == RecoveryInit /\ [][RecoveryNext]_recoveryVars

-----------------------------------------------------------------------------
(* Properties. *)

FramesOf(ts) ==
    [n \in DOMAIN ts |->
        FrameOf([bytes |-> ts[n].bytes, acks |-> ts[n].acks, truncated |-> FALSE], ts[n].end, 0)]
SentFrames == FramesOf(wire.transfers)

\* Late interrupts that merge a data change with the clock edge after it do no
\* harm within a byte: the capture decodes to the transfers that were sent.
SetupsResolved ==
    stage # "decode" /\ missed \subseteq wire.setups =>
        capture.frames = SentFrames /\ capture.errors = 0

\* Whatever levels were missed and however the capture was repaired: a capture
\* the validator accepts is the transaction that was on the bus.
NeverMisread ==
    stage = "done" /\ validate_measurement_capture(capture) => capture.frames = SentFrames

\* Losses the repairs are made for are repaired, unless two readings fit: one clock,
\* two clocks that are not neighbours, and with the RMT record any few clocks.
LostClocks == {k \in DOMAIN wire.clocks : wire.clocks[k] \subseteq missed}
ClocksRepaired ==
    /\ stage = "done" /\ ~ambiguous
    /\ missed = UNION {wire.clocks[k] : k \in LostClocks}
    /\ \/ 2 * Cardinality(LostClocks) <= RmtMaxRepairEdges /\ rmt = "done"
       \/ Cardinality(LostClocks) <= 2 /\ \A k \in LostClocks : k + 1 \notin LostClocks
    => capture.frames = SentFrames

\* The repairs work in the sample buffer but leave it as the interrupt stored it:
\* it is exported and downloaded afterwards.
WaveformKept == data = captured

\* The clock does not wrap during a capture.
NoWrap == \A w \in Wires, epoch \in Epochs : epoch + w.t < ClockMod

\* Every wire carries a CO2 measurement, as the gadget's own controller makes it:
\* transfers the fixed arrays have room for, the last one stopped, that make a
\* measurement for the validator.
GoodTransfer(t) ==
    /\ t.bytes \in Seq(0 .. 255) /\ t.acks \in Seq(BOOLEAN)
    /\ Len(t.acks) = Len(t.bytes) /\ Len(t.bytes) \in 1 .. MAX_DATA_BYTES + 1
    /\ t.end \in {"Stop", "RepeatedStart"}
GoodTransfers(ts) ==
    /\ Len(ts) \in 0 .. MAX_FRAMES /\ ts \in Seq({ts[n] : n \in 1 .. Len(ts)})
    /\ \A n \in 1 .. Len(ts) : GoodTransfer(ts[n])
    /\ ts # <<>> => ts[Len(ts)].end = "Stop"
Measurements ==
    \A w \in Wires :
        /\ w = Transmit(w.transfers) /\ GoodTransfers(w.transfers)
        /\ validate_measurement_capture([frames |-> FramesOf(w.transfers), errors |-> 0, coalesced |-> 0])
=============================================================================
