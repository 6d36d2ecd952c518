----------------------------- MODULE HistoryLog -----------------------------
(***************************************************************************)
(* What the sample history promises, without flash sectors and journals: a *)
(* bounded log of samples of which a restart keeps the state of the last   *)
(* checkpoint.  HistoryStore implements it.                                *)
(*                                                                         *)
(* The promise has a hole that the code leaves open: a restart in the      *)
(* middle of a flush may leave the flash cells after the checkpoint        *)
(* programmed (spoiled), and the samples flushed next may then be damaged. *)
(* Samples that a checkpoint has saved never are.                          *)
(***************************************************************************)
EXTENDS Integers, Sequences

CONSTANTS Samples, Capacity

VARIABLES
    log,      \* the samples a download would see, oldest first
    durable,  \* the log a restart comes back with
    ram,      \* how many of the newest samples have not been flushed
    spoiled   \* the cells for the next samples are not blank

logVars == <<log, durable, ram, spoiled>>

Newest(n, s) == IF Len(s) <= n THEN s ELSE SubSeq(s, Len(s) - n + 1, Len(s))

LogInit ==
    /\ durable \in Seq(Samples) /\ Len(durable) <= Capacity /\ log = durable
    /\ ram = 0 /\ spoiled = FALSE

\* Only a restart makes the cells spoiled.
NotSpoiledAnew == spoiled' => spoiled

AppendSample(s) ==
    /\ ram' = ram + 1
    /\ log' = Newest(Capacity, Append(log, s))
    /\ NotSpoiledAnew
    /\ UNCHANGED durable

\* The old samples of a log stay, each of the n newest stays or is damaged.
SparesAllBut(n, before, after) ==
    /\ Len(after) = Len(before)
    /\ \A i \in 1 .. Len(before) :
          \/ after[i] = before[i]
          \/ after[i] = "corrupt" /\ i > Len(before) - n

\* The unflushed samples go to flash; on spoiled cells any of them may suffer.
Flush ==
    /\ ram > 0 /\ ram' = 0
    /\ SparesAllBut(IF spoiled THEN ram ELSE 0, log, log')
    /\ NotSpoiledAnew
    /\ UNCHANGED durable

Checkpoint ==
    /\ ram = 0 /\ ram' = 0
    /\ durable' = log
    /\ UNCHANGED <<log, spoiled>>

Clear ==
    /\ ram' = 0 /\ log' = <<>> /\ spoiled' = FALSE
    /\ UNCHANGED durable

Restart ==
    /\ ram' = 0 /\ log' = durable /\ spoiled' \in BOOLEAN
    /\ UNCHANGED durable

LogNext ==
    \/ \E s \in Samples : AppendSample(s)
    \/ Flush
    \/ Checkpoint
    \/ Clear
    \/ Restart

LogSpec == LogInit /\ [][LogNext]_logVars

=============================================================================
