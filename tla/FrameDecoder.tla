---------------------------- MODULE FrameDecoder ----------------------------
(***************************************************************************)
(* decode_capture of i2c_sniffer.cpp: from the stored samples of a capture *)
(* to I2C frames, and what co2_decoder.cpp makes of the frames.  Pure      *)
(* operators; I2cWire is what they are checked against.                    *)
(*                                                                         *)
(* A capture is [frames, errors, coalesced]: Capture without its fixed     *)
(* arrays.  A frame that does not fit into them is counted as an error.    *)
(***************************************************************************)
EXTENDS I2cWire

CONSTANTS
    MAX_FRAMES,
    MAX_DATA_BYTES

ASSUME DecoderAssumption == MAX_FRAMES \in Nat /\ MAX_DATA_BYTES \in Nat

EmptyRaw == [bytes |-> <<>>, acks |-> <<>>, truncated |-> FALSE]
EmptyCapture == [frames |-> <<>>, errors |-> 0, coalesced |-> 0]

classify_frame(raw, end, partial) ==
    CASE raw.truncated                               -> "Truncated"
      [] ~raw.truncated /\ partial # 0               -> "IncompleteByte"
      [] ~raw.truncated /\ partial = 0 /\ end = "CaptureEnd" -> "CaptureEndedInFrame"
      [] OTHER                                       -> "Valid"

FrameOf(raw, end, partial) ==
    [address |-> raw.bytes[1] \div 2, read |-> raw.bytes[1] % 2 = 1,
     address_ack |-> raw.acks[1], data |-> Tail(raw.bytes), acks |-> Tail(raw.acks),
     end_condition |-> end, partial_bits |-> partial,
     status |-> classify_frame(raw, end, partial)]

frame_valid(frame) == frame.status = "Valid"

\* append_frame and finish_active_frame: a segment without a whole address byte
\* and a frame that finds no room are errors of the capture.
RoomForFrame(capture) == Len(capture.frames) < MAX_FRAMES
finish_active_frame(capture, raw, end, partial) ==
    LET frame == FrameOf(raw, end, partial)
    IN IF raw.bytes = <<>> \/ ~RoomForFrame(capture)
       THEN [capture EXCEPT !.errors = @ + 1]
       ELSE [capture EXCEPT !.frames = Append(@, frame),
                            !.errors = IF frame_valid(frame) THEN @ ELSE @ + 1]

\* A ninth clock completes the byte with its acknowledge bit.
AddByte(raw, byte, bit) ==
    IF Len(raw.bytes) < MAX_DATA_BYTES + 1
    THEN [raw EXCEPT !.bytes = Append(@, byte), !.acks = Append(@, bit = 0)]
    ELSE [raw EXCEPT !.truncated = TRUE]

\* The SCL rise that sets up a STOP or a repeated START has been taken for a bit.
RolledBack(bits) == IF bits = 1 THEN 0 ELSE bits

\* An SDA change that is seen together with a rise of SCL happened before it: only
\* within a byte, where neither START nor STOP is legal.  (NeverCoalesced: it is
\* read as START or STOP everywhere.)
NeverCoalesced(d, s) == FALSE
CoalescedDataEdge(d, s) ==
    d.active /\ d.previous.scl = 0 /\ s.scl = 1 /\ d.previous.sda # s.sda /\ d.bits # 0

Boundary(d, end, active, s) ==
    [d EXCEPT !.capture = IF d.active THEN finish_active_frame(@, d.raw, end, RolledBack(d.bits)) ELSE @,
              !.raw = EmptyRaw, !.byte = 0, !.bits = 0, !.active = active, !.previous = s]

\* One sample: the decoder d is [active, byte, bits, raw, previous, capture].
DecodeSample(d, s) ==
    LET coalesced == CoalescedDataEdge(d, s)
        e == IF coalesced THEN [d EXCEPT !.capture.coalesced = @ + 1] ELSE d
    IN CASE ~coalesced /\ d.previous.sda = 1 /\ s.sda = 0 /\ s.scl = 1 ->
              Boundary(d, "RepeatedStart", TRUE, s)
         [] ~coalesced /\ d.active /\ d.previous.sda = 0 /\ s.sda = 1 /\ s.scl = 1 ->
              Boundary(d, "Stop", FALSE, s)
         [] OTHER ->
              IF ~(d.active /\ d.previous.scl = 0 /\ s.scl = 1) THEN [e EXCEPT !.previous = s]
              ELSE IF d.bits < 8
              THEN [e EXCEPT !.byte = (2 * @ + s.sda) % 256, !.bits = @ + 1, !.previous = s]
              ELSE [e EXCEPT !.raw = AddByte(@, d.byte, s.sda), !.byte = 0, !.bits = 0, !.previous = s]

decode_capture(samples, initial) ==
    LET d == Scan(DecodeSample,
                  [active |-> FALSE, byte |-> 0, bits |-> 0, raw |-> EmptyRaw,
                   previous |-> initial, capture |-> EmptyCapture], samples)
    IN IF d.active THEN finish_active_frame(d.capture, d.raw, "CaptureEnd", d.bits) ELSE d.capture

-----------------------------------------------------------------------------
(* co2_decoder.cpp. *)

CO2_I2C_ADDRESS == 98     \* 0x62
Polynomial == BitsOf(49)  \* 0x31

Xor(a, b) == [i \in DOMAIN a |-> (a[i] + b[i]) % 2]
ShiftCrc(crc, step) ==
    LET shifted == Append(Tail(crc), 0) IN IF crc[1] = 1 THEN Xor(shifted, Polynomial) ELSE shifted
sensirion_crc(byte0, byte1) ==
    NumberOf(Scan(LAMBDA crc, byte : Scan(ShiftCrc, Xor(crc, BitsOf(byte)), <<1, 2, 3, 4, 5, 6, 7, 8>>),
                  BitsOf(255), <<byte0, byte1>>))

\* The command (EC05) and its answer, both whole and stopped.
validate_measurement_capture(capture) ==
    /\ capture.errors = 0 /\ Len(capture.frames) = 2
    /\ \A i \in 1 .. 2 :
         LET frame == capture.frames[i] IN
         /\ frame_valid(frame) /\ frame.address = CO2_I2C_ADDRESS /\ frame.address_ack
         /\ frame.end_condition = "Stop"
    /\ LET command == capture.frames[1] IN
         ~command.read /\ command.data = <<236, 5>> /\ command.acks = <<TRUE, TRUE>>
    /\ LET response == capture.frames[2] IN
         /\ response.read /\ response.acks = <<TRUE, TRUE, FALSE>>
         /\ response.data[3] = sensirion_crc(response.data[1], response.data[2])

\* process_frame, for the frames of a read: anything that is not a whole answer
\* with its last byte refused is an error.
WholeAnswer(frame) ==
    Len(frame.data) >= 3 /\ frame.address_ack /\ frame.acks[1] /\ frame.acks[2] /\ ~frame.acks[3]

process_frame(result, frame) ==
    IF ~frame_valid(frame) \/ frame.address # CO2_I2C_ADDRESS \/ ~frame.read THEN result
    ELSE IF ~WholeAnswer(frame) THEN [result EXCEPT !.frame_errors = @ + 1]
    ELSE IF frame.data[3] # sensirion_crc(frame.data[1], frame.data[2])
    THEN [result EXCEPT !.crc_errors = @ + 1]
    ELSE [result EXCEPT !.have_co2 = TRUE, !.co2_ppm = 256 * frame.data[1] + frame.data[2]]

\* What process_co2_ knows of a capture.
ReadingOf(capture) ==
    Scan(process_frame,
         [have_co2 |-> FALSE, co2_ppm |-> 0, frame_errors |-> capture.errors, crc_errors |-> 0],
         capture.frames)
=============================================================================
