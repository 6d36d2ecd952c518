---------------------------- MODULE SnifferBuffer ----------------------------
(***************************************************************************)
(* What the capture gate may rely on when it drives the passive sniffer:   *)
(* the edge buffer as it is seen between two calls.  Co2Gate contains      *)
(* these steps; I2cCapture implements them.                                *)
(***************************************************************************)
VARIABLES
    capture,   \* capture is switched on
    cap,       \* the edge buffer: "empty", "edges", "finished"
    exporting  \* an export owns the finished buffer

bufferVars == <<capture, cap, exporting>>

BufferInit == capture = TRUE /\ cap = "empty" /\ exporting = FALSE

\* The interrupt stores edges or fills the buffer; never in a finished one, and
\* never while capture is off.
StoreEdges ==
    /\ capture /\ cap # "finished"
    /\ cap' \in {"edges", "finished"}
    /\ UNCHANGED <<capture, exporting>>

\* The task switches capture on or off, or arms it again: an export is not told.
SwitchCapture == capture' = ~capture /\ cap' = "empty" /\ UNCHANGED exporting
Rearm == cap' = "empty" /\ UNCHANGED <<capture, exporting>>

\* poll() with a pending export of a finished buffer: a packet, or the last one.
DrainExport ==
    /\ capture /\ cap = "finished" /\ exporting
    /\ exporting' = FALSE /\ cap' = "empty"
    /\ UNCHANGED capture

\* poll() takes a capture: it is consumed, or kept for its export.
TakeCapture ==
    /\ capture /\ (cap = "edges" \/ (cap = "finished" /\ ~exporting))
    /\ exporting' \in BOOLEAN
    /\ cap' = IF exporting' THEN "finished" ELSE "empty"
    /\ UNCHANGED capture

BufferNext == StoreEdges \/ SwitchCapture \/ Rearm \/ DrainExport \/ TakeCapture
BufferSpec == BufferInit /\ [][BufferNext]_bufferVars
=============================================================================
