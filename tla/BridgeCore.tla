----------------------------- MODULE BridgeCore -----------------------------
(* The authoritative sample of the Sensirion gadget (sensirion_bridge_core):  *)
(* the temperature/humidity pair that BLE, GATT and the history share, and    *)
(* the coalescer of two external sensors that report one after the other.     *)
(* A temperature or humidity is reduced to whether it is valid; the numbers   *)
(* are not told apart.  A CO2 reading stands beside the pair, but its         *)
(* publication runs through sample_updated_, which writes the pair back over  *)
(* itself.                                                                    *)
EXTENDS Integers

CONSTANT Coalesce          \* EXTERNAL_COALESCE_MS, in ticks

ASSUME CoalesceAssumption == Coalesce \in Nat \ {0}

VARIABLES
    co2,                   \* sample_.co2_ppm, None without have_co2
    complete,              \* sample_.temperature_humidity_complete()
    pending,               \* pending_temperature_, pending_humidity_: subset of Sources
    timer,                 \* "sensirion-trh-coalesce": ticks to go, or Off
    reported               \* what each source said last since the pair was last written

None == -1
Sources == {"temperature", "humidity"}
Off == Coalesce + 1
Nothing == [s \in Sources |-> "nothing"]

coreVars == <<co2, complete, pending, timer, reported>>

CoreInit ==
    co2 = None /\ complete = FALSE /\ pending = {} /\ timer = Off /\ reported = Nothing

-----------------------------------------------------------------------------

\* publish_temperature_humidity: the pair is replaced and whatever an external
\* source has pending is dropped with it.
WritePair == complete' = TRUE /\ pending' = {} /\ reported' = Nothing

\* publish_co2, followed by sample_updated_: a complete pair is handed to BLE
\* through the same call that publishes one, so it discards pending external
\* values too.
PublishCo2(ppm) ==
    /\ co2' = ppm /\ UNCHANGED timer
    /\ IF complete THEN WritePair ELSE UNCHANGED <<complete, pending, reported>>

\* note_external_temperature and note_external_humidity, with the callbacks that
\* restart the timer.  An invalid value drops what both sources have pending.
\* (KeepPending: an invalid value is ignored.)
KeepPending(s) == pending
DropPending(s) == {}

NoteExternal(s, valid) ==
    /\ reported' = [reported EXCEPT ![s] = IF valid THEN "valid" ELSE "invalid"]
    /\ IF valid
       THEN pending' = pending \cup {s} /\ timer' = Coalesce
       ELSE pending' = DropPending(s) /\ UNCHANGED timer
    /\ UNCHANGED <<co2, complete>>

\* commit_external_if_due when the timer fires.
CommitExternal ==
    /\ timer = 0 /\ timer' = Off
    /\ IF pending = Sources
       THEN WritePair
       ELSE pending' = {} /\ UNCHANGED <<complete, reported>>
    /\ UNCHANGED co2

CoreTick == timer' = (IF timer \in {0, Off} THEN timer ELSE timer - 1)

=============================================================================
