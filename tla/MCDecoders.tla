------------------------------ MODULE MCDecoders ------------------------------
(* The two decoders of the component: CaptureRecovery with the CO2 measurement *)
(* as the gadget's own controller does it, with losses, and RtrhDecoder with   *)
(* phases of two slices.  They share no variable, so that each order of their  *)
(* steps gives the same states of each.  Here a behaviour begins with poll()   *)
(* and its capture, and leaves it, wherever it is, for the RT/RH lines.        *)
EXTENDS CaptureRecovery, RtrhDecoder

Command == [bytes |-> <<196, 236, 5>>, acks |-> <<TRUE, TRUE, TRUE>>, end |-> "Stop"]
Answer(msb, lsb) ==
    [bytes |-> <<197, msb, lsb, sensirion_crc(msb, lsb)>>, acks |-> <<TRUE, TRUE, TRUE, FALSE>>, end |-> "Stop"]
MCWires == {Transmit(<<Command, Answer(4, 190)>>)}

\* A clock, two clocks, the data changes (within bytes, all), and any few neighbouring levels.
DataChanges(w) == {n \in 2 .. Len(w.samples) : w.samples[n - 1].scl = 0 /\ w.samples[n].scl = 0}
MCLosses(w) ==
    LET ClocksAt(K) == UNION {w.clocks[k] : k \in K \cap DOMAIN w.clocks}
    IN {{}, w.setups, DataChanges(w)}
         \cup {w.clocks[k] : k \in DOMAIN w.clocks}
         \cup {ClocksAt({k, k + d}) : k \in {2, 9, 18, 27, 36, 49, 60}, d \in {1, 3, 10}}
         \cup {ClocksAt(k .. k + 3) : k \in {6, 24, 50}}
         \cup {{n, n + d} : n \in {1, 2, 40, 76, 100, 130, 153, 160}, d \in {0, 1, 2}}
MCEpochs == {0}

\* The wire is one the theorems are about.
ASSUME MCInstance == NoWrap /\ Measurements

\* poll() without a capture.
Nothing == [samples |-> <<>>, t |-> 0, transfers |-> <<>>, clocks |-> <<>>, setups |-> {}]
NoCapture ==
    /\ wire = Nothing /\ missed = {} /\ captured = <<>> /\ data = <<>> /\ rmt = "off"
    /\ stage = "none" /\ tries = <<>> /\ accepted = <<>> /\ ambiguous = FALSE /\ capture = EmptyCapture

Init == RtrhInit /\ (NoCapture \/ (RecoveryInit /\ wave = 0))

CaptureStep == RecoveryNext /\ UNCHANGED rtrhVars
CaptureLeft ==
    /\ stage # "none" /\ stage' = "none" /\ UNCHANGED rtrhVars
    /\ wire' = Nothing /\ missed' = {} /\ captured' = <<>> /\ data' = <<>> /\ rmt' = "off"
    /\ tries' = <<>> /\ accepted' = <<>> /\ ambiguous' = FALSE /\ capture' = EmptyCapture
RtrhStep == stage = "none" /\ RtrhNext /\ UNCHANGED recoveryVars
Next == CaptureStep \/ CaptureLeft \/ RtrhStep

Spec ==
    /\ Init /\ [][Next]_<<recoveryVars, rtrhVars>>
    /\ WF_recoveryVars(CaptureLeft) /\ RtrhFairness
=============================================================================
