--------------------------- MODULE MCHistoryStore ---------------------------
(* HistoryStore on a small flash: sectors of two samples and of two records.  *)
(* The store does not look at the samples it moves, so it is enough to follow *)
(* one marked sample among equal ones.  Bounds: the restarts, and the records *)
(* written (by their generation, across the wrap of the counter).             *)
EXTENDS HistoryStore

CONSTANTS
    plain, marked,
    FirstGen, FirstSlots,  \* the generation and the ring position of a used device
    LastGen,      \* no flush begins and no clear goes on at this one
    MaxMishaps    \* restarts and failed flash calls, together

VARIABLE mishaps

\* The marked sample is committed only when nothing is left of an earlier one.
CommitsMark == Len(pending') > Len(pending) /\ pending'[Len(pending')] = marked
MarkGone == marked \notin {data[slot] : slot \in Slots} \cup {pending[i] : i \in DOMAIN pending}

MCInit ==
    /\ HistoryInit
    /\ \/ journal["primary"][0] = Blank
       \/ \E slot \in FirstSlots :
             journal["primary"][0] = FirstRecord(slot, FirstGen) /\ data = UsedData(slot, plain)
    /\ mishaps = 0

\* A flash operation that ends its flush without a record has failed.
Fails == pc \in {"erase", "program", "switch", "record"} /\ pc' \in {"idle", "commit"}
         /\ generation' = generation

MCNext ==
    /\ HistoryNext
    /\ CommitsMark => MarkGone
    /\ generation = LastGen => pc' \in {"idle", "boot"}
    /\ mishaps' = IF pc' = "boot" \/ Fails THEN mishaps + 1 ELSE mishaps
    /\ mishaps' <= MaxMishaps

MCSpec == MCInit /\ [][MCNext]_<<histVars, mishaps>>

=============================================================================
