------------------------------ MODULE I2cWire ------------------------------
(***************************************************************************)
(* The gadget's I2C bus, which the frame decoder is checked against: what  *)
(* a master and its slave put on the two lines for a list of transfers,    *)
(* and which of it a late edge interrupt stores.                           *)
(*                                                                         *)
(* A level is [scl, sda], a sample a level with its time in microseconds.  *)
(* A transfer is [bytes, acks, end], its first byte the address byte.      *)
(***************************************************************************)
EXTENDS Integers, Sequences

CONSTANTS
    HalfBit,   \* length of each half of a clock
    ByteGap,   \* how much longer SCL stays low before a byte
    IdleTime   \* between two transfers

ASSUME WireAssumption == HalfBit \in Nat /\ ByteGap \in Nat /\ IdleTime \in Nat

\* A fold from left to right, in one pass (those of the library go through sets).
\* The singletons keep TLC's evaluation strict.
Scan(op(_, _), base, seq) ==
    LET acc[n \in 0 .. Len(seq)] ==
            IF n = 0 THEN {base} ELSE {op(a, seq[n]) : a \in acc[n - 1]}
    IN CHOOSE last \in acc[Len(seq)] : TRUE

BitsOf(byte) == LET weight == <<128, 64, 32, 16, 8, 4, 2, 1>> IN [i \in 1 .. 8 |-> (byte \div weight[i]) % 2]
NumberOf(bits) == Scan(LAMBDA n, b : 2 * n + b, 0, bits)

\* The wire w so far: its samples, the time, the two samples of every clock, and
\* the samples that only set up the data of a bit other than the first of its byte.
IdleWire == [transfers |-> <<>>, samples |-> <<>>, t |-> 0, clocks |-> <<>>, setups |-> {}]
Sda(w) == IF w.samples = <<>> THEN 1 ELSE w.samples[Len(w.samples)].sda

Drive(w, dt, scl, sda) ==
    [w EXCEPT !.t = @ + dt, !.samples = Append(@, [t |-> w.t + dt, scl |-> scl, sda |-> sda])]

\* SCL is low for "low": the data is set up in its first half, if it changes.
SendBit(w, bit, low, within) ==
    LET changes == Sda(w) # bit
        setup == IF changes THEN Drive(w, low \div 2, 0, bit) ELSE w
        clock == Drive(Drive(setup, low - (setup.t - w.t), 1, bit), HalfBit, 0, bit)
        rise == Len(setup.samples) + 1
    IN [clock EXCEPT !.clocks = Append(@, {rise, rise + 1}),
                     !.setups = IF changes /\ within THEN @ \cup {rise - 1} ELSE @]

SendByte(w, byte, ack) ==
    Scan(LAMBDA v, i : SendBit(v, Append(BitsOf(byte), IF ack THEN 0 ELSE 1)[i],
                               IF i = 1 THEN HalfBit + ByteGap ELSE HalfBit, i > 1),
         w, [i \in 1 .. 9 |-> i])

SendStart(w) == Drive(Drive(w, IdleTime, 1, 0), HalfBit, 0, 0)
SendStop(w) ==
    LET low == IF Sda(w) = 1 THEN Drive(w, HalfBit, 0, 0) ELSE w
    IN Drive(Drive(low, HalfBit, 1, 0), HalfBit, 1, 1)
SendRepeatedStart(w) ==
    LET low == IF Sda(w) = 0 THEN Drive(w, HalfBit, 0, 1) ELSE w
    IN Drive(Drive(Drive(low, HalfBit, 1, 1), HalfBit, 1, 0), HalfBit, 0, 0)

\* A transfer that ends in a repeated START leaves the next one started.
SendTransfer(w, started, transfer) ==
    LET body == Scan(LAMBDA v, i : SendByte(v, transfer.bytes[i], transfer.acks[i]),
                     IF started THEN w ELSE SendStart(w), [i \in DOMAIN transfer.bytes |-> i])
    IN IF transfer.end = "Stop" THEN SendStop(body) ELSE SendRepeatedStart(body)

Transmit(transfers) ==
    Scan(LAMBDA w, i : SendTransfer(w, i > 1 /\ transfers[i - 1].end = "RepeatedStart", transfers[i]),
         [IdleWire EXCEPT !.transfers = transfers], [i \in DOMAIN transfers |-> i])

\* What is stored when the interrupt misses some levels: a later interrupt finds
\* a changed level or stores nothing.
Seen(all, missed) ==
    Scan(LAMBDA s, i :
            LET last == IF s = <<>> THEN [scl |-> 1, sda |-> 1] ELSE s[Len(s)]
            IN IF i \in missed \/ (last.scl = all[i].scl /\ last.sda = all[i].sda)
               THEN s ELSE Append(s, all[i]),
         <<>>, [i \in DOMAIN all |-> i])
=============================================================================
