---------------------------- MODULE HistoryRuns ----------------------------
(***************************************************************************)
(* sensirion_history.cpp: the runs of the sample history and their         *)
(* download.  A transfer carries one uniformly sampled run, told by the    *)
(* age of its newest sample alone.  The newest run is known from the       *)
(* metadata, completed ones from a sparse index in NVS; transfers in a row *)
(* walk from the newest run to older ones.                                 *)
(*                                                                         *)
(* A sample is the moment it was taken, in sampling intervals.  What flash *)
(* sectors and journal make of a log is HistoryStore's matter: here a      *)
(* checkpoint saves the log, and a restart returns to it (HistoryLog).     *)
(* Positions count all samples ever programmed; the code knows them modulo *)
(* FLASH_CAPACITY.  A clear goes on at the next multiple.                  *)
(***************************************************************************)
EXTENDS Integers, Sequences, FiniteSets

CONSTANTS
    HISTORY_CAPACITY, PENDING_CAPACITY, FLASH_CAPACITY, RUN_INDEX_CAPACITY,
    Intervals, DefaultInterval,  \* intervals, told apart and no more
    Requests,                    \* sample counts a client asks for, 0 for all
    NoProgress, MaxTransfer,     \* the two time limits of a transfer
    Faults,                      \* what may fail: "program", "record", "index", "read"
    MaxNow, MaxEvents            \* bounds: the clock; clients, clocks, faults and restarts

ASSUME RunsAssumption ==
    /\ {HISTORY_CAPACITY, PENDING_CAPACITY, FLASH_CAPACITY, RUN_INDEX_CAPACITY} \subseteq Nat \ {0}
    /\ HISTORY_CAPACITY + PENDING_CAPACITY <= FLASH_CAPACITY
    /\ DefaultInterval \in Intervals
    /\ Requests \subseteq Nat
    /\ {NoProgress, MaxTransfer, MaxNow, MaxEvents} \subseteq Nat
    /\ Faults \subseteq {"program", "record", "index", "read"}

VARIABLES
    now, clock,            \* the moment, and whether the wall clock knows it
    log, pending,          \* what logical_sample returns; how much of it is in RAM
    write, dirty,          \* flash.write_slot as a position, flash.metadata_dirty
    durable,               \* what the newest record restores
    interval,
    clock_started, last_sample, latest,          \* the sampling clock, latest_ms
    run_count, run_anchor, last_epoch, relative, force_new_run,
    runs, saved,           \* run_index, oldest first, and its copy in NVS
    clearing,
    connected, notify, download, session,
    lost,                  \* samples dropped unnoticed: see Dropped
    events

clockVars  == <<now, clock>>
storeVars  == <<log, pending, write, dirty, durable, interval>>
beatVars   == <<clock_started, last_sample, latest>>
runVars    == <<run_count, run_anchor, last_epoch, relative, force_new_run>>
indexVars  == <<runs, saved>>
linkVars   == <<connected, notify>>
clientVars == <<linkVars, download, session>>
runsVars   == <<clockVars, storeVars, beatVars, runVars, indexVars, clearing, clientVars,
                lost, events>>

-----------------------------------------------------------------------------

MinOf(a, b) == IF a < b THEN a ELSE b
LastOf(s) == s[Len(s)]
Newest(n, s) == IF Len(s) <= n THEN s ELSE SubSeq(s, Len(s) - n + 1, Len(s))

Slot(position) == position % FLASH_CAPACITY

\* wall_clock_epoch_s: 0 while the wall clock is not set.
Epoch == IF clock THEN now ELSE 0

\* run_latest_epoch_s and run_anchor_for_latest_epoch_s.
LatestOf(anchor, n) == IF anchor = 0 \/ n = 0 THEN 0 ELSE anchor + n - 1
AnchorOf(newest, n) == newest - (n - 1)

\* "newest" is the moment of the last sample of the transfer, "due" what its header
\* makes of it; "moved": the window has lost a sample during the transfer;
\* "crossed": a run has begun.
NoDownload ==
    [phase |-> "inactive", requested |-> 0, count |-> 0, sent |-> 0, start |-> 0, ordinal |-> 0,
     due |-> 0, idle |-> 0, total |-> 0, newest |-> 0, stale |-> FALSE,
     moved |-> FALSE, crossed |-> FALSE]

\* "told" is the oldest moment the session has delivered.
NoSession == [active |-> FALSE, next |-> 0, told |-> 0, crossed |-> FALSE]

RunsInit ==
    /\ now = 1 /\ clock \in BOOLEAN
    /\ log = <<>> /\ pending = 0 /\ write = 0 /\ dirty = FALSE /\ interval = DefaultInterval
    /\ durable = [log |-> <<>>, write |-> 0, run_count |-> 0, run_anchor |-> 0,
                  interval |-> DefaultInterval]
    /\ clock_started = FALSE /\ last_sample = 0 /\ latest = 0
    /\ run_count = 0 /\ run_anchor = 0 /\ last_epoch = 0
    /\ relative = FALSE /\ force_new_run = FALSE
    /\ runs = <<>> /\ saved = [interval |-> DefaultInterval, runs |-> <<>>]
    /\ clearing = "inactive"
    /\ connected = FALSE /\ notify = FALSE
    /\ download = NoDownload /\ session = NoSession
    /\ lost = {} /\ events = 0

Event == events < MaxEvents /\ events' = events + 1

-----------------------------------------------------------------------------
(* Flush and checkpoint, and the run index in NVS. *)

Checkpoint(position) ==
    [log |-> log, write |-> position, run_count |-> run_count, run_anchor |-> run_anchor,
     interval |-> interval]

\* What flush_flash may come to.  A record may fail after its samples are in flash.
AsIs(ok) == [ok |-> ok, pending |-> pending, write |-> write, dirty |-> dirty, durable |-> durable]
Flushed == [ok |-> TRUE, pending |-> 0, write |-> write + pending, dirty |-> FALSE,
            durable |-> Checkpoint(write + pending)]
Unrecorded == [Flushed EXCEPT !.ok = FALSE, !.dirty = TRUE, !.durable = durable]
FlushResults ==
    IF pending = 0 /\ ~dirty THEN {AsIs(TRUE)}
    ELSE {Flushed}
         \cup (IF pending > 0 /\ "program" \in Faults THEN {AsIs(FALSE)} ELSE {})
         \cup (IF "record" \in Faults THEN {Unrecorded} ELSE {})

FlushesTo(r) ==
    /\ pending' = r.pending /\ write' = r.write /\ dirty' = r.dirty /\ durable' = r.durable

\* persist_run_index.
Persisted(rs, i) ==
    {[interval |-> i, runs |-> rs]} \cup (IF "index" \in Faults THEN {saved} ELSE {})

\* append_run_descriptor: a run that is the latest entry already is not repeated.
SameRun(d, e) ==
    d.anchor = e.anchor /\ d.count = e.count /\ Slot(d.start) = Slot(e.start)
Indexes(d) ==
    IF runs # <<>> /\ SameRun(LastOf(runs), d) THEN UNCHANGED indexVars
    ELSE /\ runs' = Newest(RUN_INDEX_CAPACITY, Append(runs, d))
         /\ saved' \in Persisted(runs', interval)

-----------------------------------------------------------------------------
(* sampling_tick and commit_sample. *)

\* The pending ring is full and cannot be flushed.  Until a sample of the run has
\* been stamped by the wall clock, nobody notices the gap.
Dropped(r) ==
    /\ FlushesTo(r)
    /\ lost' = IF last_epoch = 0 THEN lost \cup (last_sample + 1 .. now) ELSE lost
    /\ UNCHANGED <<log, latest, runVars, indexVars, download, session>>

\* A full window has evicted the first sample of the run.
\* (KeptAnchor: its anchor is kept.)
KeptAnchor(n) == run_anchor
Rebased(n) == IF Epoch # 0 THEN AnchorOf(Epoch, n) ELSE run_anchor + 1

\* finalize_current_run_for_index, then the sample.
Stored(r, new) ==
    LET ends == new /\ run_count > 0
        begins == new \/ run_count = 0
        window_full == run_count = HISTORY_CAPACITY
        grown == MinOf(run_count + 1, HISTORY_CAPACITY)
    IN
    /\ IF ends /\ run_anchor # 0 /\ r.ok
       THEN Indexes([anchor |-> run_anchor, start |-> r.write - run_count, count |-> run_count,
                     newest |-> LastOf(log)])
       ELSE UNCHANGED indexVars
    /\ session' = IF ends THEN NoSession ELSE session
    /\ log' = Newest(HISTORY_CAPACITY, Append(log, now))
    /\ pending' = r.pending + 1 /\ write' = r.write /\ durable' = r.durable
    /\ run_count' = IF begins THEN 1 ELSE grown
    /\ run_anchor' =
          IF begins THEN Epoch
          ELSE IF window_full /\ run_anchor # 0 THEN Rebased(grown)
          ELSE IF run_anchor = 0 /\ Epoch # 0 THEN AnchorOf(Epoch, grown)
          ELSE run_anchor
    /\ dirty' = (r.dirty \/ begins \/ run_anchor' # run_anchor)
    /\ last_epoch' = IF Epoch # 0 THEN Epoch
                     ELSE IF ~new /\ last_epoch # 0 THEN last_epoch + 1 ELSE 0
    /\ force_new_run' = FALSE /\ relative' = TRUE /\ latest' = now
    /\ download' = [download EXCEPT
                       !.moved = @ \/ (download.phase # "inactive" /\ Len(log) = HISTORY_CAPACITY),
                       !.crossed = @ \/ (download.phase # "inactive" /\ ends)]
    /\ UNCHANGED lost

\* Two stamps that do not lie an interval apart begin a run; so does a correction
\* of the wall clock by more than two seconds, which is free to come at any time.
CommitSample(due_new, corrected) ==
    LET stamped == run_count > 0 /\ last_epoch # 0 /\ Epoch # 0
        new == due_new \/ (stamped /\ (corrected \/ Epoch # last_epoch + 1))
        full == pending = PENDING_CAPACITY
        ends == new /\ run_count > 0 /\ run_anchor # 0
    IN
    /\ corrected => stamped /\ ~due_new
    /\ \E r \in IF full \/ ends THEN FlushResults ELSE {AsIs(TRUE)} :
          /\ IF full /\ ~r.ok THEN Dropped(r) ELSE Stored(r, new)
          /\ IF corrected \/ ~r.ok \/ (runs' # runs /\ saved' = saved) THEN Event
             ELSE UNCHANGED events

\* The bridge has a complete sample from some moment on (SamplePath).
FirstSample ==
    /\ clearing = "inactive" /\ ~clock_started
    /\ clock_started' = TRUE /\ last_sample' = now
    /\ CommitSample(force_new_run \/ run_count = 0, FALSE)
    /\ UNCHANGED <<clockVars, interval, clearing, linkVars>>

\* cadence_gap: a whole interval was missed.  (GapOverlooked: a late loop is not one.)
GapOverlooked == now - last_sample > 2
CadenceGap == now - last_sample >= 2

NextSample ==
    /\ clearing = "inactive" /\ clock_started /\ now > last_sample
    /\ last_sample' = now
    /\ \E corrected \in BOOLEAN : CommitSample(force_new_run \/ CadenceGap, corrected)
    /\ UNCHANGED <<clockVars, interval, clock_started, clearing, linkVars>>

\* The flush timer, or the retry of a record.
FlushTick ==
    /\ clearing = "inactive" /\ (pending > 0 \/ dirty)
    /\ \E r \in FlushResults :
          /\ FlushesTo(r)
          /\ IF r.ok THEN UNCHANGED events ELSE Event
    /\ UNCHANGED <<clockVars, log, interval, beatVars, runVars, indexVars, clearing, clientVars, lost>>

-----------------------------------------------------------------------------
(* set_interval, request_clear, clear_tick. *)

NoRun ==
    /\ run_count' = 0 /\ run_anchor' = 0 /\ last_epoch' = 0
    /\ relative' = FALSE /\ force_new_run' = FALSE

\* A client writes another interval: everything in RAM and the index are dropped.
SetInterval(i) ==
    /\ connected /\ i # interval /\ Event
    /\ interval' = i
    /\ log' = <<>> /\ pending' = 0
    /\ write' = IF write = 0 THEN 0 ELSE (((write - 1) \div FLASH_CAPACITY) + 1) * FLASH_CAPACITY
    /\ NoRun /\ clock_started' = FALSE /\ last_sample' = 0 /\ latest' = 0
    /\ runs' = <<>> /\ saved' \in Persisted(<<>>, i)
    /\ download' = NoDownload /\ session' = NoSession
    /\ clearing' = "prepare"
    /\ UNCHANGED <<clockVars, dirty, durable, linkVars, lost>>

\* A record of the empty history comes first; the sectors are HistoryStore's matter.
ClearPrepare ==
    /\ clearing = "prepare"
    /\ \/ /\ durable' = Checkpoint(write) /\ dirty' = FALSE
          /\ clearing' = "erase"
          /\ UNCHANGED events
       \/ /\ "record" \in Faults /\ Event
          /\ dirty' = TRUE
          /\ UNCHANGED <<durable, clearing>>
    /\ UNCHANGED <<clockVars, log, pending, write, interval, beatVars, runVars, indexVars,
                   clientVars, lost>>

ClearErase ==
    /\ clearing = "erase"
    /\ clearing' = "inactive"
    /\ UNCHANGED <<clockVars, storeVars, beatVars, runVars, indexVars, clientVars, lost, events>>

-----------------------------------------------------------------------------
(* select_download_run. *)

Visible == Len(log) - pending

\* descriptor_logical_window.
Distance(d) == Slot(d.start - (write - Visible))
InWindow(d) == d.count <= Visible /\ Distance(d) + d.count <= Visible

\* The restored current run may have a descriptor: it is not offered twice.
\* (OfferedAnyway: it is.)
OfferedAnyway(d) == FALSE
IsCurrentRun(d) == d.anchor = run_anchor /\ d.count = run_count

Offered(d) ==
    ~IsCurrentRun(d) /\ InWindow(d) /\ Epoch >= LatestOf(d.anchor, d.count)

\* The k-th newest run that can be offered.
At(k) ==
    {i \in DOMAIN runs :
        Offered(runs[i]) /\ Cardinality({j \in i .. Len(runs) : Offered(runs[j])}) = k}

\* The slots of a stale descriptor have been written again.
Stale(d) == d.start < write - Visible

NewestRunAvailable ==
    /\ run_count > 0
    /\ \/ relative
       \/ run_anchor # 0 /\ Epoch # 0 /\ Epoch >= LatestOf(run_anchor, run_count)

Nothing == [count |-> 0, start |-> 0, age |-> 0, newest |-> 0, stale |-> FALSE]
NewestRun ==
    IF ~NewestRunAvailable THEN Nothing
    ELSE [count |-> run_count, start |-> Len(log) - run_count,
          age |-> IF relative THEN now - latest ELSE Epoch - LatestOf(run_anchor, run_count),
          newest |-> LastOf(log), stale |-> FALSE]

OlderRun(k) ==
    IF Epoch = 0 \/ At(k) = {} THEN Nothing
    ELSE LET d == runs[CHOOSE i \in At(k) : TRUE]
         IN [count |-> d.count, start |-> Distance(d),
             age |-> Epoch - LatestOf(d.anchor, d.count), newest |-> d.newest,
             stale |-> Stale(d)]

SelectDownloadRun(k) == IF k = 0 THEN NewestRun ELSE OlderRun(k)

\* download_session_active: within five minutes of the last complete transfer.
NextOrdinal == IF session.active THEN session.next ELSE 0

-----------------------------------------------------------------------------
(* The transfer. *)

\* start_download with "wanted" samples, or as many as the run has.
Start(wanted) ==
    LET run == SelectDownloadRun(NextOrdinal)
        n == IF wanted # 0 THEN MinOf(wanted, run.count) ELSE run.count
        start == run.start + run.count - n
    IN download' = [NoDownload EXCEPT
                       !.phase = "header", !.requested = wanted, !.ordinal = NextOrdinal,
                       !.count = n, !.start = start, !.due = now - run.age,
                       !.newest = run.newest, !.stale = run.stale]

Connect ==
    /\ ~connected /\ connected' = TRUE
    /\ UNCHANGED <<clockVars, storeVars, beatVars, runVars, indexVars, clearing, notify, download,
                   session, lost, events>>

Subscribe ==
    /\ connected /\ Event
    /\ notify' = TRUE
    /\ IF clearing = "inactive" THEN Start(download.requested) ELSE UNCHANGED download
    /\ UNCHANGED <<clockVars, storeVars, beatVars, runVars, indexVars, clearing, connected, session,
                   lost>>

Unsubscribe ==
    /\ connected /\ notify /\ Event
    /\ notify' = FALSE /\ download' = NoDownload
    /\ UNCHANGED <<clockVars, storeVars, beatVars, runVars, indexVars, clearing, connected, session,
                   lost>>

Disconnect ==
    /\ connected /\ Event
    /\ connected' = FALSE /\ notify' = FALSE /\ download' = NoDownload
    /\ UNCHANGED <<clockVars, storeVars, beatVars, runVars, indexVars, clearing, session, lost>>

\* The client writes how many samples it wants; this also asks for the next run.
Request(n) ==
    /\ connected /\ Event
    /\ IF notify /\ download.phase = "inactive" /\ clearing = "inactive"
       THEN Start(n)
       ELSE download' = [download EXCEPT !.requested = n]
    /\ UNCHANGED <<clockVars, storeVars, beatVars, runVars, indexVars, clearing, linkVars, session,
                   lost>>

\* complete_download_session and reset_download.
Completed(d) ==
    /\ session' = [active |-> TRUE, next |-> d.ordinal + 1,
                   told |-> IF d.count > 0 THEN log[d.start + 1] ELSE session.told,
                   crossed |-> d.crossed \/ session.crossed]
    /\ download' = NoDownload

\* download_tick gets past its time limits and its guard.
MaySend ==
    /\ download.phase # "inactive" /\ connected /\ notify /\ clearing = "inactive"
    /\ download.idle < NoProgress /\ download.total < MaxTransfer
Sending == UNCHANGED <<clockVars, storeVars, beatVars, runVars, indexVars, clearing, linkVars, lost>>

SendHeader ==
    /\ MaySend /\ download.phase = "header"
    /\ IF download.count = 0 THEN Completed(download)
       ELSE /\ download' = [download EXCEPT !.phase = "data", !.idle = 0]
            /\ UNCHANGED session
    /\ Sending /\ UNCHANGED events

\* Two samples to a packet.
SendData ==
    LET sent == MinOf(download.sent + 2, download.count) IN
    /\ MaySend /\ download.phase = "data"
    /\ \/ /\ download.start + sent <= Len(log)
          /\ IF sent = download.count THEN Completed(download)
             ELSE /\ download' = [download EXCEPT !.sent = sent, !.idle = 0]
                  /\ UNCHANGED session
          /\ UNCHANGED events
       \/ /\ "read" \in Faults /\ Event
          /\ download' = NoDownload
          /\ UNCHANGED session
    /\ Sending

\* The time limits do not stop while the guard holds the packets back.
TimedOut(d) == d.idle >= NoProgress \/ d.total >= MaxTransfer

Abort ==
    /\ download.phase # "inactive" /\ connected /\ notify /\ clearing = "inactive"
    /\ TimedOut(download)
    /\ download' = NoDownload
    /\ Sending /\ UNCHANGED <<session, events>>

-----------------------------------------------------------------------------
(* Time and power. *)

\* The time of a transfer, in fractions of an interval.
Pause ==
    /\ download.phase # "inactive"
    /\ download' = [download EXCEPT !.idle = MinOf(@ + 1, NoProgress),
                                    !.total = MinOf(@ + 1, MaxTransfer)]
    /\ UNCHANGED <<clockVars, storeVars, beatVars, runVars, indexVars, clearing, linkVars, session,
                   lost, events>>

\* The main loop may come late, by an interval at most.
Tick ==
    /\ now < MaxNow
    /\ clock_started => now - last_sample < 2
    /\ now' = now + 1
    /\ UNCHANGED <<clock, storeVars, beatVars, runVars, indexVars, clearing, clientVars, lost, events>>

ClockArrives ==
    /\ ~clock /\ clock' = TRUE
    /\ UNCHANGED <<now, storeVars, beatVars, runVars, indexVars, clearing, clientVars, lost, events>>

SessionExpires ==
    /\ session.active
    /\ session' = NoSession
    /\ UNCHANGED <<clockVars, storeVars, beatVars, runVars, indexVars, clearing, linkVars, download,
                   lost, events>>

\* init_flash and setup_run_index_preference.  Restored samples have no age but that
\* of their anchor.  The system time may outlast a reset.  No two samples are of one
\* moment.
Restart ==
    /\ Event
    /\ now < MaxNow /\ now' = now + 1 /\ clock' \in {clock, FALSE}
    /\ log' = durable.log /\ pending' = 0 /\ write' = durable.write /\ dirty' = FALSE
    /\ interval' = durable.interval
    /\ clock_started' = FALSE /\ last_sample' = 0 /\ latest' = now'
    /\ run_count' = durable.run_count /\ run_anchor' = durable.run_anchor
    /\ last_epoch' = LatestOf(run_anchor', run_count')
    /\ relative' = FALSE
    /\ force_new_run' = (log' # <<>>)
    /\ LET restored == IF saved.interval = interval' THEN saved.runs ELSE <<>> IN
       IF log' = <<>> /\ restored # <<>>
       THEN runs' = <<>> /\ saved' \in Persisted(<<>>, interval')
       ELSE runs' = restored /\ UNCHANGED saved
    /\ clearing' = "inactive"
    /\ connected' = FALSE /\ notify' = FALSE
    /\ download' = NoDownload /\ session' = NoSession
    /\ UNCHANGED <<durable, lost>>

-----------------------------------------------------------------------------

RunsNext ==
    \/ FirstSample
    \/ NextSample
    \/ FlushTick
    \/ \E i \in Intervals : SetInterval(i)
    \/ ClearPrepare
    \/ ClearErase
    \/ Connect
    \/ Subscribe
    \/ Unsubscribe
    \/ Disconnect
    \/ \E n \in Requests : Request(n)
    \/ SendHeader
    \/ SendData
    \/ Abort
    \/ Pause
    \/ Tick
    \/ ClockArrives
    \/ SessionExpires
    \/ Restart

RunsSpec == RunsInit /\ [][RunsNext]_runsVars

-----------------------------------------------------------------------------
(* Properties. *)

\* A moment, a run that its anchor tells the truth about, and what a record restores.
Moments == Nat \ {0}
TrueRuns ==
    {d \in [anchor : Int, start : Int, count : Nat, newest : Int] :
        LatestOf(d.anchor, d.count) = d.newest}
Records == [log : Seq(Moments), write : Int, run_count : 0 .. HISTORY_CAPACITY,
            run_anchor : Int, interval : Intervals]

RunsTypeOK ==
    /\ now \in Moments /\ clock \in BOOLEAN
    /\ log \in Seq(Moments) /\ pending \in Nat /\ write \in Int /\ dirty \in BOOLEAN
    /\ durable \in Records /\ interval \in Intervals
    /\ latest \in Nat /\ run_count \in 0 .. HISTORY_CAPACITY /\ run_anchor \in Int /\ last_epoch \in Int
    /\ relative \in BOOLEAN /\ force_new_run \in BOOLEAN
    /\ runs \in Seq(TrueRuns) /\ saved.runs \in Seq(TrueRuns)
    /\ download = [x \in DOMAIN NoDownload |-> download[x]]
    /\ download.count \in Nat /\ download.requested \in Nat

\* The anchor of a run tells when its newest sample was taken, whatever was evicted,
\* reconstructed, saved or restored, and so does the header of a transfer.
AnchorsTrue ==
    /\ run_count > 0 /\ run_anchor # 0 => LatestOf(run_anchor, run_count) = LastOf(log)
    /\ \A i \in DOMAIN runs : LatestOf(runs[i].anchor, runs[i].count) = runs[i].newest
    /\ download.count > 0 => download.due = download.newest

\* The packet that goes out brings each sample with the time a client works out for
\* it, from the age in the header and its place in the run, except for samples
\* dropped while no sample of the run had a stamp.  Two cases of the code are
\* left out: the window that moves under a transfer, and a stale descriptor.
DeliversTheRun ==
    [][ LET d == download
            packet == d.sent + 1 .. MinOf(d.sent + 2, d.count)
            missing(t) == Cardinality({x \in lost : t < x /\ x < d.due})
        IN SendData /\ ~(d.moved \/ d.stale) =>
              \A i \in packet :
                 LET sample == log[d.start + i]
                 IN d.due - sample = (d.count - i) + missing(sample) ]_runsVars

\* Transfers in a row bring no sample twice: the run that a session offers next lies
\* before all that it has delivered.  Left out are sessions in which a run began
\* during a transfer, and stale descriptors.
RunsOnce ==
    LET next == SelectDownloadRun(NextOrdinal) IN
    session.told # 0 /\ ~session.crossed /\ next.count > 0 /\ ~next.stale =>
        log[next.start + next.count] < session.told

=============================================================================
