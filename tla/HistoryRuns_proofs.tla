------------------------ MODULE HistoryRuns_proofs ------------------------
(* Proofs about HistoryRuns, for every capacity of the window, the ring and   *)
(* the index, every time limit and every fault.                               *)
(*                                                                            *)
(* AnchorsTrue alone is not inductive.  A run that grows keeps its anchor, so *)
(* the sample that joins it must be one interval younger than the last: this  *)
(* is so because a sample that joins an anchored run is compared with the     *)
(* stamp of the last one (Stamped), which needs a wall clock that stays set   *)
(* for as long as the device runs, and because a restored run never grows     *)
(* (Grows).  What a checkpoint has saved is told the truth about as well.     *)
(*                                                                            *)
(* That a transfer brings the samples of one run, and a session no sample     *)
(* twice, is a matter of places.  PlaceInv says where the runs lie: each      *)
(* descriptor ends before the next begins (Placed), its samples are at that   *)
(* place for as long as the window holds them, and only what was dropped is   *)
(* missing between them (Spaced).  This has to be so for the newest record    *)
(* and for the index in NVS as well, because a restart returns to these: an   *)
(* index never refers to what no record has saved (Written).  TransferInv     *)
(* then follows a download while the window slides (Down), and a session      *)
(* while runs leave it (Sess).                                                *)
EXTENDS HistoryRuns, FiniteSetTheorems, TLAPS

Grows   == /\ run_count > 0 /\ ~force_new_run => relative
           /\ run_count > 0 => log # <<>>
           /\ relative => latest = LastOf(log) /\ log # <<>>
Stamped == relative /\ run_anchor # 0 => clock /\ last_epoch = LastOf(log)
Current == run_count > 0 /\ run_anchor # 0 => LatestOf(run_anchor, run_count) = LastOf(log)

TrueRecord(u) ==
    /\ u.run_count > 0 => u.log # <<>>
    /\ u.run_count > 0 /\ u.run_anchor # 0 => LatestOf(u.run_anchor, u.run_count) = LastOf(u.log)
HeaderTrue == download.count > 0 => download.due = download.newest

RunsInv == RunsTypeOK /\ Grows /\ Stamped /\ Current /\ TrueRecord(durable) /\ HeaderTrue

(***************************************************************************)
(* Helpers.                                                                *)
(***************************************************************************)

\* The window keeps the newest entry.
LEMMA NewestKeeps ==
    ASSUME NEW S, NEW s \in Seq(S), NEW x \in S, NEW n \in Nat \ {0}
    PROVE  /\ Newest(n, Append(s, x)) \in Seq(S)
           /\ Newest(n, Append(s, x)) # <<>>
           /\ LastOf(Newest(n, Append(s, x))) = x
<1> DEFINE t == Append(s, x)
<1>1. t \in Seq(S) /\ Len(t) = Len(s) + 1 /\ t[Len(t)] = x /\ Len(s) \in Nat
  OBVIOUS
<1> HIDE DEF t
<1>2. CASE Len(t) <= n
  BY <1>1, <1>2 DEF Newest, LastOf, t
<1>3. CASE Len(t) > n
  <2> DEFINE m == Len(t) - n + 1  u == SubSeq(t, m, Len(t))
  <2>1. m \in Int /\ 1 <= m /\ m <= Len(t) /\ Len(t) - m + 1 = n
    BY <1>1, <1>3
  <2>2. u \in Seq(S) /\ Len(u) = n /\ u[n] = t[m + n - 1]
    BY <1>1, <2>1
  <2>3. m + n - 1 = Len(t)
    BY <1>1
  <2>4. Newest(n, t) = u
    BY <1>1, <1>3 DEF Newest
  <2> HIDE DEF u, m
  <2>5. LastOf(u) = x /\ u # <<>>
    BY <1>1, <2>2, <2>3 DEF LastOf
  <2>6. QED
    BY <2>2, <2>4, <2>5 DEF t
<1>4. QED
  BY <1>1, <1>2, <1>3 DEF t

LEMMA EpochType == ASSUME RunsTypeOK PROVE Epoch \in Nat /\ (Epoch # 0 => Epoch = now /\ clock)
BY DEF RunsTypeOK, Moments, Epoch

LEMMA LastOfMoments == ASSUME NEW s \in Seq(Moments), s # <<>> PROVE LastOf(s) \in Moments
BY DEF LastOf, Moments

\* Whatever a flush comes to, its record is true.
LEMMA FlushKeeps ==
    ASSUME RunsInv, NEW r \in FlushResults \cup {AsIs(TRUE)}
    PROVE  /\ r.pending \in Nat /\ r.write \in Int /\ r.dirty \in BOOLEAN /\ r.ok \in BOOLEAN
           /\ r.durable \in Records /\ TrueRecord(r.durable)
<1>1. /\ pending \in Nat /\ write \in Int /\ write + pending \in Int /\ dirty \in BOOLEAN
      /\ durable \in Records /\ TrueRecord(durable)
  BY DEF RunsInv, RunsTypeOK
<1>2. Checkpoint(write + pending) \in Records /\ TrueRecord(Checkpoint(write + pending))
  BY <1>1 DEF RunsInv, RunsTypeOK, Checkpoint, Records, TrueRecord, Grows, Current
<1>3. CASE \E ok \in BOOLEAN : r = AsIs(ok)
  BY <1>1, <1>3 DEF AsIs
<1>4. CASE r = Flushed
  BY <1>1, <1>2, <1>4 DEF Flushed
<1>5. CASE r = Unrecorded
  BY <1>1, <1>2, <1>5 DEF Unrecorded, Flushed
<1>6. QED
  BY <1>3, <1>4, <1>5 DEF FlushResults

\* A run that is indexed is one that its anchor tells the truth about.
LEMMA IndexKeeps ==
    ASSUME RunsInv, NEW d \in TrueRuns, Indexes(d)
    PROVE  runs' \in Seq(TrueRuns) /\ saved'.runs \in Seq(TrueRuns)
<1>1. runs \in Seq(TrueRuns) /\ saved.runs \in Seq(TrueRuns)
  BY DEF RunsInv, RunsTypeOK
<1>2. CASE UNCHANGED indexVars
  BY <1>1, <1>2 DEF indexVars
<1>3. CASE runs' = Newest(RUN_INDEX_CAPACITY, Append(runs, d)) /\ saved' \in Persisted(runs', interval)
  <2>1. runs' \in Seq(TrueRuns)
    BY <1>1, <1>3, NewestKeeps, RunsAssumption
  <2>2. QED
    BY <1>1, <1>3, <2>1 DEF Persisted
<1>4. QED
  BY <1>2, <1>3 DEF Indexes

(***************************************************************************)
(* The samples.                                                            *)
(***************************************************************************)

\* A sample that joins a run: a run that grows belongs to this boot, and if it is
\* stamped the sample is one interval younger than the last.
LEMMA StoredKeeps ==
    ASSUME RunsInv, NEW r \in FlushResults \cup {AsIs(TRUE)}, NEW new \in BOOLEAN,
           Stored(r, new),
           run_count > 0 /\ ~new => relative,
           run_count > 0 /\ ~new /\ last_epoch # 0 /\ Epoch # 0 => Epoch = last_epoch + 1,
           UNCHANGED <<now, clock, interval>>
    PROVE  RunsInv'
<1> DEFINE begins == new \/ run_count = 0
           grown == MinOf(run_count + 1, HISTORY_CAPACITY)
<1> USE DEF RunsInv
<1>t. /\ now \in Nat /\ now # 0 /\ clock \in BOOLEAN /\ log \in Seq(Moments) /\ run_count \in Nat
      /\ run_count \in 0 .. HISTORY_CAPACITY /\ run_anchor \in Int /\ last_epoch \in Int /\ relative \in BOOLEAN /\ interval \in Intervals
      /\ runs \in Seq(TrueRuns) /\ saved.runs \in Seq(TrueRuns) /\ now \in Moments
  BY RunsAssumption DEF RunsTypeOK, Moments
<1>c. HISTORY_CAPACITY \in Nat \ {0}
  BY RunsAssumption
<1>r. /\ r.pending \in Nat /\ r.write \in Int /\ r.dirty \in BOOLEAN /\ r.ok \in BOOLEAN
      /\ r.durable \in Records /\ TrueRecord(r.durable)
  BY FlushKeeps
<1>e. Epoch \in Nat /\ (Epoch # 0 => Epoch = now /\ clock)
  BY EpochType
<1>1. log' \in Seq(Moments) /\ log' # <<>> /\ LastOf(log') = now
  BY <1>t, <1>c, NewestKeeps DEF Stored
<1>2. /\ run_count' = (IF begins THEN 1 ELSE grown) /\ grown \in Nat /\ grown > 0
      /\ run_count' \in Nat /\ run_count' > 0 /\ run_count' \in 0 .. HISTORY_CAPACITY
  BY <1>t, <1>c DEF Stored, MinOf
<1>3. /\ latest' = now /\ relative' = TRUE /\ force_new_run' = FALSE
      /\ pending' = r.pending + 1 /\ write' = r.write /\ durable' = r.durable
  BY DEF Stored
<1>4. /\ last_epoch' = IF Epoch # 0 THEN Epoch
                       ELSE IF ~new /\ last_epoch # 0 THEN last_epoch + 1 ELSE 0
      /\ last_epoch' \in Int
  BY <1>t, <1>e DEF Stored
<1>5. /\ run_anchor' \in Int
      /\ run_anchor' # 0 => Epoch # 0 /\ LatestOf(run_anchor', run_count') = now
  <2>1. CASE begins
    <3>1. run_anchor' = Epoch /\ run_count' = 1
      BY <2>1, <1>2 DEF Stored
    <3>2. QED
      BY <3>1, <1>e DEF LatestOf
  <2>2. CASE ~begins /\ run_count = HISTORY_CAPACITY /\ run_anchor # 0
    <3>1. relative /\ clock /\ Epoch # 0 /\ Epoch = now
      BY <2>2, <1>t, <1>c DEF Stamped, Epoch
    <3>2. run_anchor' = AnchorOf(now, grown) /\ run_count' = grown
      BY <2>2, <3>1, <1>2 DEF Stored, Rebased
    <3>3. run_anchor' = now - (run_count' - 1) /\ run_anchor' \in Int
      BY <3>2, <1>2, <1>t DEF AnchorOf
    <3>4. run_anchor' # 0 => LatestOf(run_anchor', run_count') = now
      BY <3>3, <1>2, <1>t DEF LatestOf
    <3>5. QED
      BY <3>1, <3>3, <3>4
  <2>3. CASE ~begins /\ run_count # HISTORY_CAPACITY /\ run_anchor # 0
    <3>1. relative /\ clock /\ last_epoch = LastOf(log) /\ run_count > 0 /\ ~new
      BY <2>3, <1>t DEF Stamped
    <3>2. log # <<>> /\ last_epoch # 0 /\ last_epoch \in Nat
      BY <3>1, <1>t, LastOfMoments DEF Grows, Moments
    <3>3. Epoch # 0 /\ Epoch = now /\ now = last_epoch + 1
      BY <3>1, <3>2, <1>t DEF Epoch
    <3>4. LatestOf(run_anchor, run_count) = last_epoch
      BY <2>3, <3>1 DEF Current
    <3>5. run_anchor' = run_anchor
      BY <2>3, <1>t DEF Stored
    <3>6. run_count' = run_count + 1
      BY <2>3, <1>2, <1>t, <1>c DEF MinOf
    <3>7. QED
      BY <3>1, <3>2, <3>3, <3>4, <3>5, <3>6, <2>3, <1>t, <1>c DEF LatestOf
  <2>4. CASE ~begins /\ run_anchor = 0
    <3>1. run_anchor' = (IF Epoch # 0 THEN AnchorOf(Epoch, grown) ELSE 0) /\ run_count' = grown
      BY <2>4, <1>2 DEF Stored
    <3>2. CASE Epoch = 0
      BY <3>1, <3>2
    <3>3. CASE Epoch # 0
      <4>1. Epoch = now /\ run_anchor' = now - (run_count' - 1) /\ run_anchor' \in Int
        BY <3>1, <3>3, <1>e, <1>2, <1>t DEF AnchorOf
      <4>2. run_anchor' # 0 => LatestOf(run_anchor', run_count') = now
        BY <4>1, <1>2, <1>t DEF LatestOf
      <4>3. QED
        BY <3>3, <4>1, <4>2
    <3>4. QED
      BY <3>2, <3>3
  <2>5. QED
    BY <2>1, <2>2, <2>3, <2>4
<1>6. runs' \in Seq(TrueRuns) /\ saved'.runs \in Seq(TrueRuns)
  <2>1. CASE UNCHANGED indexVars
    BY <2>1, <1>t DEF indexVars
  <2>2. CASE run_count > 0 /\ run_anchor # 0
             /\ Indexes([anchor |-> run_anchor, start |-> r.write - run_count, count |-> run_count,
                         newest |-> LastOf(log)])
    <3> DEFINE d == [anchor |-> run_anchor, start |-> r.write - run_count, count |-> run_count,
                     newest |-> LastOf(log)]
    <3>1. LatestOf(run_anchor, run_count) = LastOf(log) /\ LastOf(log) \in Int
      BY <2>2, <1>t, LastOfMoments DEF Current, Grows, Moments
    <3>2. d \in TrueRuns
      BY <3>1, <1>t, <1>r DEF TrueRuns
    <3>3. QED
      BY <2>2, <3>2, IndexKeeps
  <2>3. QED
    BY <2>1, <2>2 DEF Stored
<1>7. /\ download' = [x \in DOMAIN NoDownload |-> download'[x]]
      /\ download'.count = download.count /\ download'.requested = download.requested
      /\ download'.due = download.due /\ download'.newest = download.newest
  <2>1. download = [x \in DOMAIN NoDownload |-> download[x]]
    BY DEF RunsTypeOK
  <2>2. PICK a, b : download' = [download EXCEPT !.moved = a, !.crossed = b]
    BY DEF Stored
  <2> DEFINE e == [download EXCEPT !.moved = a, !.crossed = b]
  <2>3. /\ e = [x \in DOMAIN NoDownload |-> e[x]]
        /\ e.count = download.count /\ e.requested = download.requested
        /\ e.due = download.due /\ e.newest = download.newest
    BY <2>1 DEF NoDownload
  <2>4. download' = e
    BY <2>2
  <2> HIDE DEF e
  <2>5. QED
    BY <2>3, <2>4
<1>8. dirty' \in BOOLEAN
  BY <1>r DEF Stored
<1>9. RunsTypeOK'
  <2>1. /\ download'.count \in Nat /\ download'.requested \in Nat
        /\ pending' \in Nat /\ latest' \in Nat
    <3>1. download.count \in Nat /\ download.requested \in Nat
      BY DEF RunsInv, RunsTypeOK
    <3>2. pending' = r.pending + 1 /\ r.pending \in Nat /\ latest' = now /\ now \in Nat
      BY <1>t, <1>r, <1>3 DEF Moments
    <3>3. QED
      BY <1>7, <3>1, <3>2
  <2>2. /\ now' = now /\ clock' = clock /\ interval' = interval
    OBVIOUS
  <2>3. QED
    BY <2>1, <2>2, <1>t, <1>r, <1>1, <1>2, <1>3, <1>4, <1>5, <1>6, <1>7, <1>8 DEF RunsTypeOK
<1>10. Grows'
  BY <1>1, <1>3 DEF Grows
<1>11. Stamped'
  BY <1>1, <1>4, <1>5, <1>e DEF Stamped
<1>12. Current'
  BY <1>1, <1>5 DEF Current
<1>13. HeaderTrue' /\ TrueRecord(durable)'
  BY <1>3, <1>r, <1>7 DEF HeaderTrue, TrueRecord
<1>14. QED
  BY <1>9, <1>10, <1>11, <1>12, <1>13

LEMMA CommitKeeps ==
    ASSUME RunsInv, NEW due_new \in BOOLEAN, NEW corrected \in BOOLEAN,
           force_new_run => due_new, CommitSample(due_new, corrected),
           UNCHANGED <<now, clock, interval>>
    PROVE  RunsInv'
<1> DEFINE stamped == run_count > 0 /\ last_epoch # 0 /\ Epoch # 0
           new == due_new \/ (stamped /\ (corrected \/ Epoch # last_epoch + 1))
<1>1. new \in BOOLEAN
  OBVIOUS
<1>2. PICK r \in FlushResults \cup {AsIs(TRUE)} : Dropped(r) \/ Stored(r, new)
  BY DEF CommitSample
<1>3. CASE Dropped(r)
  <2>1. /\ r.pending \in Nat /\ r.write \in Int /\ r.dirty \in BOOLEAN
        /\ r.durable \in Records /\ TrueRecord(r.durable)
    BY FlushKeeps
  <2>2. /\ pending' = r.pending /\ write' = r.write /\ dirty' = r.dirty /\ durable' = r.durable
        /\ UNCHANGED <<now, clock, interval, log, latest, run_count, run_anchor, last_epoch,
                       relative, force_new_run, runs, saved, download>>
    BY <1>3 DEF Dropped, FlushesTo, runVars, indexVars
  <2>3. RunsTypeOK'
    BY <2>1, <2>2 DEF RunsInv, RunsTypeOK
  <2>4. Grows' /\ Stamped' /\ Current' /\ TrueRecord(durable)' /\ HeaderTrue'
    BY <2>1, <2>2 DEF RunsInv, Grows, Stamped, Current, HeaderTrue, TrueRecord
  <2>5. QED
    BY <2>3, <2>4 DEF RunsInv
<1>4. CASE Stored(r, new)
  <2>1. run_count > 0 /\ ~new => relative
    BY DEF RunsInv, Grows
  <2>2. run_count > 0 /\ ~new /\ last_epoch # 0 /\ Epoch # 0 => Epoch = last_epoch + 1
    OBVIOUS
  <2> HIDE DEF new
  <2>3. QED
    BY <1>1, <1>4, <2>1, <2>2, StoredKeeps
<1>5. QED
  BY <1>2, <1>3, <1>4

(***************************************************************************)
(* The transfer.                                                           *)
(***************************************************************************)

\* The age of the run that a transfer takes leads back to its newest sample.
LEMMA SelectionIsTrue ==
    ASSUME RunsInv, NEW k
    PROVE  LET run == SelectDownloadRun(k) IN
           /\ run.count \in Nat
           /\ run.count > 0 => now - run.age = run.newest
<1>t. /\ now \in Nat /\ now # 0 /\ log \in Seq(Moments) /\ run_count \in Nat /\ run_anchor \in Int
      /\ latest \in Nat /\ runs \in Seq(TrueRuns) /\ relative \in BOOLEAN
  BY RunsAssumption DEF RunsInv, RunsTypeOK, Moments
<1>e. Epoch \in Nat /\ (Epoch # 0 => Epoch = now)
  BY EpochType DEF RunsInv
<1>1. ASSUME NewestRunAvailable
      PROVE  /\ NewestRun.count \in Nat
             /\ now - NewestRun.age = NewestRun.newest
  <2>1. /\ NewestRun.count = run_count /\ NewestRun.newest = LastOf(log)
        /\ NewestRun.age = IF relative THEN now - latest ELSE Epoch - LatestOf(run_anchor, run_count)
    BY <1>1 DEF NewestRun
  <2>2. CASE relative
    <3>1. latest = LastOf(log)
      BY <2>2 DEF RunsInv, Grows
    <3>2. QED
      BY <2>1, <2>2, <3>1, <1>t
  <2>3. CASE ~relative
    <3>1. run_count > 0 /\ run_anchor # 0 /\ Epoch = now
      BY <1>1, <2>3, <1>e DEF NewestRunAvailable
    <3>2. LatestOf(run_anchor, run_count) = LastOf(log) /\ LatestOf(run_anchor, run_count) \in Int
      BY <3>1, <1>t DEF RunsInv, Current, LatestOf
    <3>3. QED
      BY <2>1, <2>3, <3>1, <3>2, <1>t
  <2>4. QED
    BY <2>2, <2>3
<1>2. ASSUME Epoch # 0, At(k) # {}
      PROVE  /\ OlderRun(k).count \in Nat
             /\ now - OlderRun(k).age = OlderRun(k).newest
  <2> DEFINE d == runs[CHOOSE i \in At(k) : TRUE]
  <2>1. d \in TrueRuns
    <3>1. (CHOOSE i \in At(k) : TRUE) \in At(k)
      BY <1>2
    <3>2. PICK i \in DOMAIN runs : i = CHOOSE j \in At(k) : TRUE
      BY <3>1 DEF At
    <3>3. runs[i] \in TrueRuns
      BY <3>2, <1>t
    <3>4. QED
      BY <3>2, <3>3
  <2>2. /\ OlderRun(k).count = d.count /\ OlderRun(k).newest = d.newest
        /\ OlderRun(k).age = Epoch - LatestOf(d.anchor, d.count)
    BY <1>2 DEF OlderRun
  <2> HIDE DEF d
  <2>3. d.count \in Nat /\ LatestOf(d.anchor, d.count) = d.newest /\ d.newest \in Int
    BY <2>1 DEF TrueRuns
  <2>4. QED
    BY <2>2, <2>3, <1>2, <1>e, <1>t
<1>3. Nothing.count = 0
  BY DEF Nothing
<1>4. ~NewestRunAvailable => NewestRun = Nothing
  BY DEF NewestRun
<1>5. Epoch = 0 \/ At(k) = {} => OlderRun(k) = Nothing
  BY DEF OlderRun
<1>6. QED
  BY <1>1, <1>2, <1>3, <1>4, <1>5 DEF SelectDownloadRun

LEMMA StartIsTrue ==
    ASSUME RunsInv, NEW wanted \in Nat, Start(wanted)
    PROVE  /\ download' = [x \in DOMAIN NoDownload |-> download'[x]]
           /\ download'.count \in Nat /\ download'.requested \in Nat
           /\ HeaderTrue'
<1> DEFINE run == SelectDownloadRun(NextOrdinal)
           n == IF wanted # 0 THEN MinOf(wanted, run.count) ELSE run.count
<1>1. run.count \in Nat /\ (run.count > 0 => now - run.age = run.newest)
  BY SelectionIsTrue
<1>2. PICK ordinal, start, stale :
         download' = [NoDownload EXCEPT
                        !.phase = "header", !.requested = wanted, !.ordinal = ordinal,
                        !.count = n, !.start = start, !.due = now - run.age,
                        !.newest = run.newest, !.stale = stale]
  BY DEF Start
<1>3. n \in Nat /\ (n > 0 => run.count > 0)
  BY <1>1 DEF MinOf
<1> HIDE DEF n, run
<1>4. /\ download' = [x \in DOMAIN NoDownload |-> download'[x]]
      /\ download'.count = n /\ download'.requested = wanted
      /\ download'.due = now - run.age /\ download'.newest = run.newest
  BY <1>2 DEF NoDownload
<1>5. QED
  BY <1>1, <1>3, <1>4 DEF HeaderTrue

\* What the client does changes nothing but the transfer.
LEMMA TransferKeeps ==
    ASSUME RunsInv,
           UNCHANGED <<clockVars, storeVars, beatVars, runVars, indexVars>>,
           download' = [x \in DOMAIN NoDownload |-> download'[x]],
           download'.count \in Nat, download'.requested \in Nat,
           HeaderTrue'
    PROVE  RunsInv'
<1>1. UNCHANGED <<now, clock, log, pending, write, dirty, durable, interval, latest, run_count,
                  run_anchor, last_epoch, relative, force_new_run, runs, saved>>
  BY DEF clockVars, storeVars, beatVars, runVars, indexVars
<1>2. RunsTypeOK'
  BY <1>1 DEF RunsInv, RunsTypeOK
<1>3. Grows' /\ Stamped' /\ Current' /\ TrueRecord(durable)'
  BY <1>1 DEF RunsInv, Grows, Stamped, Current, TrueRecord
<1>4. QED
  BY <1>2, <1>3 DEF RunsInv

LEMMA NothingStored ==
    <<>> \in Seq(Moments) /\ <<>> \in Seq(TrueRuns)
OBVIOUS

\* The index in NVS keeps its shape when a write fails.
LEMMA PersistKeeps ==
    ASSUME RunsInv, NEW i, saved' \in Persisted(<<>>, i)
    PROVE  saved'.runs \in Seq(TrueRuns)
<1>1. saved.runs \in Seq(TrueRuns)
  BY DEF RunsInv, RunsTypeOK
<1>2. saved' = saved \/ saved' = [interval |-> i, runs |-> <<>>]
  BY DEF Persisted
<1>3. saved'.runs = saved.runs \/ saved'.runs = <<>>
  BY <1>2
<1>4. QED
  BY <1>1, <1>3, NothingStored

LEMMA NoTransfer ==
    /\ NoDownload = [x \in DOMAIN NoDownload |-> NoDownload[x]]
    /\ NoDownload.count = 0 /\ NoDownload.requested = 0
BY DEF NoDownload

\* Nothing but the store's own state changes.
LEMMA RecordKeeps ==
    ASSUME RunsInv,
           UNCHANGED <<now, clock, log, interval, latest, run_count, run_anchor, last_epoch, relative,
                       force_new_run, runs, saved, download>>,
           pending' \in Nat, write' \in Int, dirty' \in BOOLEAN,
           durable' \in Records, TrueRecord(durable')
    PROVE  RunsInv'
<1>1. RunsTypeOK'
  BY DEF RunsInv, RunsTypeOK
<1>2. Grows' /\ Stamped' /\ Current' /\ HeaderTrue' /\ TrueRecord(durable)'
  BY DEF RunsInv, Grows, Stamped, Current, HeaderTrue, TrueRecord
<1>3. QED
  BY <1>1, <1>2 DEF RunsInv

(***************************************************************************)
(* The invariant.                                                          *)
(***************************************************************************)

LEMMA InitTrue == RunsInit => RunsInv
<1> SUFFICES ASSUME RunsInit PROVE RunsInv
  OBVIOUS
<1>1. DefaultInterval \in Intervals /\ HISTORY_CAPACITY \in Nat \ {0}
  BY RunsAssumption
<1>2. now \in Moments /\ clock \in BOOLEAN /\ log = <<>> /\ runs = <<>> /\ saved.runs = <<>>
  BY DEF RunsInit, Moments
<1>3. durable \in Records /\ TrueRecord(durable)
  BY <1>1 DEF RunsInit, Records, TrueRecord
<1>4. RunsTypeOK
  <2>1. /\ pending = 0 /\ write = 0 /\ dirty = FALSE /\ interval = DefaultInterval /\ latest = 0
        /\ run_count = 0 /\ run_anchor = 0 /\ last_epoch = 0 /\ relative = FALSE
        /\ force_new_run = FALSE /\ download = NoDownload
    BY DEF RunsInit
  <2>2. run_count \in 0 .. HISTORY_CAPACITY
    BY <2>1, <1>1
  <2>3. /\ download = [x \in DOMAIN NoDownload |-> download[x]]
        /\ download.count \in Nat /\ download.requested \in Nat
    BY <2>1, NoTransfer
  <2>4. log \in Seq(Moments) /\ runs \in Seq(TrueRuns) /\ saved.runs \in Seq(TrueRuns)
    BY <1>2, NothingStored
  <2>5. /\ pending \in Nat /\ write \in Int /\ latest \in Nat /\ run_anchor \in Int
        /\ last_epoch \in Int /\ interval \in Intervals
    BY <2>1, <1>1
  <2>6. dirty \in BOOLEAN /\ relative \in BOOLEAN /\ force_new_run \in BOOLEAN /\ clock \in BOOLEAN
    BY <2>1, <1>2
  <2>7. now \in Moments /\ durable \in Records
    BY <1>2, <1>3
  <2>8. QED
    BY <2>2, <2>3, <2>4, <2>5, <2>6, <2>7 DEF RunsTypeOK
<1>5. Grows /\ Stamped /\ Current /\ HeaderTrue
  BY NoTransfer DEF RunsInit, Grows, Stamped, Current, HeaderTrue
<1>6. QED
  BY <1>3, <1>4, <1>5 DEF RunsInv

LEMMA RestartKeeps == RunsInv /\ Restart => RunsInv'
<1> SUFFICES ASSUME RunsInv, Restart PROVE RunsInv'
  OBVIOUS
<1>1. /\ durable \in Records /\ TrueRecord(durable) /\ now \in Nat /\ clock \in BOOLEAN
      /\ saved.runs \in Seq(TrueRuns)
  BY DEF RunsInv, RunsTypeOK, Moments
<1>2. /\ now' \in Moments /\ clock' \in BOOLEAN /\ latest' = now' /\ latest' \in Nat
      /\ pending' = 0 /\ dirty' = FALSE /\ relative' = FALSE
  <2>1. now' = now + 1 /\ latest' = now' /\ pending' = 0 /\ dirty' = FALSE /\ clock' \in {clock, FALSE}
    BY DEF Restart
  <2>2. relative' = FALSE
    BY DEF Restart
  <2>3. now' \in Moments /\ latest' \in Nat
    BY <1>1, <2>1 DEF Moments
  <2>4. clock' \in BOOLEAN
    BY <1>1, <2>1
  <2>5. QED
    BY <2>1, <2>2, <2>3, <2>4
<1>3. /\ log' = durable.log /\ write' = durable.write /\ interval' = durable.interval
      /\ run_count' = durable.run_count /\ run_anchor' = durable.run_anchor
      /\ durable' = durable /\ force_new_run' = (log' # <<>>)
      /\ last_epoch' = LatestOf(run_anchor', run_count')
      /\ download' = NoDownload
  BY DEF Restart
<1>4. /\ log' \in Seq(Moments) /\ write' \in Int /\ interval' \in Intervals
      /\ run_count' \in 0 .. HISTORY_CAPACITY /\ run_anchor' \in Int
  BY <1>1, <1>3 DEF Records
<1>5. last_epoch' \in Int
  <2>1. run_count' \in Int /\ run_anchor' \in Int
    BY <1>4, RunsAssumption
  <2>2. LatestOf(run_anchor', run_count') \in Int
    BY <2>1 DEF LatestOf
  <2>3. QED
    BY <1>3, <2>2
<1>6. runs' \in Seq(TrueRuns) /\ saved'.runs \in Seq(TrueRuns)
  <2> DEFINE restored == IF saved.interval = interval' THEN saved.runs ELSE <<>>
  <2>1. restored \in Seq(TrueRuns)
    BY <1>1
  <2>2. \/ runs' = <<>> /\ saved' \in Persisted(<<>>, interval')
        \/ runs' = restored /\ UNCHANGED saved
    BY DEF Restart
  <2> HIDE DEF restored
  <2>3. CASE runs' = <<>> /\ saved' \in Persisted(<<>>, interval')
    BY <2>3, NothingStored, PersistKeeps
  <2>4. QED
    BY <2>1, <2>2, <2>3, <1>1
<1>7. /\ download' = [x \in DOMAIN NoDownload |-> download'[x]]
      /\ download'.count = 0 /\ download'.requested = 0
  BY <1>3, NoTransfer
<1>8. RunsTypeOK'
  <2>1. durable' \in Records /\ pending' \in Nat /\ relative' \in BOOLEAN /\ dirty' \in BOOLEAN
    BY <1>1, <1>2, <1>3
  <2>2. force_new_run' \in BOOLEAN
    BY <1>3
  <2>3. QED
    BY <2>1, <2>2, <1>2, <1>4, <1>5, <1>6, <1>7 DEF RunsTypeOK
<1>9. TrueRecord(durable)'
  BY <1>1, <1>3 DEF TrueRecord
<1>10. Grows'
  BY <1>1, <1>2, <1>3 DEF Grows, TrueRecord
<1>11. Stamped' /\ HeaderTrue'
  BY <1>2, <1>7 DEF Stamped, HeaderTrue
<1>12. Current'
  BY <1>1, <1>3 DEF Current, TrueRecord
<1>13. QED
  BY <1>8, <1>9, <1>10, <1>11, <1>12 DEF RunsInv

LEMMA SetIntervalKeeps == ASSUME RunsInv, NEW i \in Intervals, SetInterval(i) PROVE RunsInv'
<1>1. /\ durable \in Records /\ TrueRecord(durable) /\ now \in Moments /\ clock \in BOOLEAN
      /\ dirty \in BOOLEAN /\ write \in Int /\ saved.runs \in Seq(TrueRuns)
  BY DEF RunsInv, RunsTypeOK
<1>2. /\ UNCHANGED <<now, clock, dirty, durable>> /\ interval' = i /\ log' = <<>> /\ pending' = 0
      /\ run_count' = 0 /\ run_anchor' = 0 /\ last_epoch' = 0 /\ latest' = 0
      /\ relative' = FALSE /\ force_new_run' = FALSE /\ runs' = <<>>
      /\ saved' \in Persisted(<<>>, i) /\ download' = NoDownload
  BY DEF SetInterval, NoRun, clockVars
<1>3. write' \in Int
  <2>1. FLASH_CAPACITY \in Nat \ {0}
    BY RunsAssumption
  <2>2. (write - 1) \div FLASH_CAPACITY \in Int
    BY <1>1, <2>1
  <2>3. (((write - 1) \div FLASH_CAPACITY) + 1) * FLASH_CAPACITY \in Int
    BY <2>1, <2>2
  <2>4. QED
    BY <2>3 DEF SetInterval
<1>4. saved'.runs \in Seq(TrueRuns)
  BY <1>2, PersistKeeps
<1>5. HISTORY_CAPACITY \in Nat
  BY RunsAssumption
<1>d. /\ download' = [x \in DOMAIN NoDownload |-> download'[x]]
      /\ download'.count \in Nat /\ download'.requested \in Nat
  BY <1>2, NoTransfer
<1>6. RunsTypeOK'
  <2>1. run_count' \in 0 .. HISTORY_CAPACITY
    BY <1>2, <1>5
  <2>2. log' \in Seq(Moments) /\ runs' \in Seq(TrueRuns)
    BY <1>2, NothingStored
  <2>3. /\ pending' \in Nat /\ latest' \in Nat /\ run_anchor' \in Int
        /\ last_epoch' \in Int /\ interval' \in Intervals
    BY <1>2
  <2>4. dirty' \in BOOLEAN /\ relative' \in BOOLEAN /\ force_new_run' \in BOOLEAN /\ clock' \in BOOLEAN
    BY <1>1, <1>2
  <2>5. now' \in Moments /\ durable' \in Records
    BY <1>1, <1>2
  <2>6. QED
    BY <2>1, <2>2, <2>3, <2>4, <2>5, <1>3, <1>4, <1>d DEF RunsTypeOK
<1>7. Grows' /\ Stamped' /\ Current' /\ HeaderTrue' /\ TrueRecord(durable)'
  BY <1>1, <1>2, NoTransfer DEF Grows, Stamped, Current, HeaderTrue, TrueRecord
<1>8. QED
  BY <1>6, <1>7 DEF RunsInv

LEMMA NextKeeps == RunsInv /\ [RunsNext]_runsVars => RunsInv'
<1> SUFFICES ASSUME RunsInv, [RunsNext]_runsVars PROVE RunsInv'
  OBVIOUS
<1> USE DEF clockVars, indexVars, linkVars, clientVars
<1>t. /\ download = [x \in DOMAIN NoDownload |-> download[x]]
      /\ download.count \in Nat /\ download.requested \in Nat /\ HeaderTrue
  BY DEF RunsInv, RunsTypeOK
<1>1. CASE FirstSample
  <2>1. CommitSample(force_new_run \/ run_count = 0, FALSE) /\ UNCHANGED <<now, clock, interval>>
    BY <1>1 DEF FirstSample
  <2>2. force_new_run \in BOOLEAN
    BY DEF RunsInv, RunsTypeOK
  <2>3. (force_new_run \/ run_count = 0) \in BOOLEAN /\ (force_new_run => force_new_run \/ run_count = 0)
    BY <2>2
  <2>4. QED
    BY <2>1, <2>3, CommitKeeps
<1>2. CASE NextSample
  <2>1. PICK corrected \in BOOLEAN : CommitSample(force_new_run \/ CadenceGap, corrected)
    BY <1>2 DEF NextSample
  <2>2. UNCHANGED <<now, clock, interval>>
    BY <1>2 DEF NextSample
  <2>3. (force_new_run \/ CadenceGap) \in BOOLEAN /\ (force_new_run => force_new_run \/ CadenceGap)
    OBVIOUS
  <2>4. QED
    BY <2>1, <2>2, <2>3, CommitKeeps
<1>3. CASE FlushTick
  <2>1. PICK r \in FlushResults : FlushesTo(r)
    BY <1>3 DEF FlushTick
  <2>2. /\ r.pending \in Nat /\ r.write \in Int /\ r.dirty \in BOOLEAN
        /\ r.durable \in Records /\ TrueRecord(r.durable)
    BY FlushKeeps
  <2>3. pending' = r.pending /\ write' = r.write /\ dirty' = r.dirty /\ durable' = r.durable
    BY <2>1 DEF FlushesTo
  <2>4. UNCHANGED <<now, clock, log, interval, latest, run_count, run_anchor, last_epoch, relative,
                    force_new_run, runs, saved, download>>
    BY <1>3 DEF FlushTick, beatVars, runVars
  <2>5. QED
    BY <2>2, <2>3, <2>4, RecordKeeps
<1>4. CASE \E i \in Intervals : SetInterval(i)
  BY <1>4, SetIntervalKeeps
<1>5. CASE ClearPrepare
  <2>1. pending \in Nat /\ write \in Int /\ durable \in Records /\ TrueRecord(durable)
    BY DEF RunsInv, RunsTypeOK
  <2>2. Checkpoint(write) \in Records /\ TrueRecord(Checkpoint(write))
    BY <2>1 DEF RunsInv, RunsTypeOK, Checkpoint, Records, TrueRecord, Grows, Current
  <2>3. pending' \in Nat /\ write' \in Int /\ dirty' \in BOOLEAN /\ durable' \in Records
        /\ TrueRecord(durable')
    BY <1>5, <2>1, <2>2 DEF ClearPrepare
  <2>4. UNCHANGED <<now, clock, log, interval, latest, run_count, run_anchor, last_epoch, relative,
                    force_new_run, runs, saved, download>>
    BY <1>5 DEF ClearPrepare, beatVars, runVars
  <2>5. QED
    BY <2>3, <2>4, RecordKeeps
<1>6. CASE ClearErase
  BY <1>6, <1>t, TransferKeeps DEF ClearErase, HeaderTrue
<1>7. CASE Connect
  BY <1>7, <1>t, TransferKeeps DEF Connect, HeaderTrue
<1>8. CASE Subscribe
  <2>1. UNCHANGED <<clockVars, storeVars, beatVars, runVars, indexVars>>
    BY <1>8 DEF Subscribe
  <2>2. CASE Start(download.requested)
    BY <2>1, <2>2, <1>t, StartIsTrue, TransferKeeps
  <2>3. CASE UNCHANGED download
    BY <2>1, <2>3, <1>t, TransferKeeps DEF HeaderTrue
  <2>4. QED
    BY <1>8, <2>2, <2>3 DEF Subscribe
<1>9. CASE Unsubscribe
  BY <1>9, NoTransfer, TransferKeeps DEF Unsubscribe, HeaderTrue
<1>10. CASE Disconnect
  BY <1>10, NoTransfer, TransferKeeps DEF Disconnect, HeaderTrue
<1>11. CASE \E n \in Requests : Request(n)
  <2>1. PICK n \in Requests : Request(n)
    BY <1>11
  <2>2. n \in Nat /\ UNCHANGED <<clockVars, storeVars, beatVars, runVars, indexVars>>
    BY <2>1, RunsAssumption DEF Request
  <2>3. CASE Start(n)
    BY <2>2, <2>3, StartIsTrue, TransferKeeps
  <2>4. CASE download' = [download EXCEPT !.requested = n]
    <3>1. /\ download' = [x \in DOMAIN NoDownload |-> download'[x]]
          /\ download'.count = download.count /\ download'.requested = n
          /\ download'.due = download.due /\ download'.newest = download.newest
      BY <2>4, <1>t DEF NoDownload
    <3>2. QED
      BY <2>2, <3>1, <1>t, TransferKeeps DEF HeaderTrue
  <2>5. QED
    BY <2>1, <2>3, <2>4 DEF Request
<1>12. CASE SendHeader
  <2>1. UNCHANGED <<clockVars, storeVars, beatVars, runVars, indexVars>>
    BY <1>12 DEF SendHeader, Sending
  <2>2. CASE Completed(download)
    BY <2>1, <2>2, NoTransfer, TransferKeeps DEF Completed, HeaderTrue
  <2>3. CASE download' = [download EXCEPT !.phase = "data", !.idle = 0]
    <3>1. /\ download' = [x \in DOMAIN NoDownload |-> download'[x]]
          /\ download'.count = download.count /\ download'.requested = download.requested
          /\ download'.due = download.due /\ download'.newest = download.newest
      BY <2>3, <1>t DEF NoDownload
    <3>2. QED
      BY <2>1, <3>1, <1>t, TransferKeeps DEF HeaderTrue
  <2>4. QED
    BY <1>12, <2>2, <2>3 DEF SendHeader
<1>13. CASE SendData
  <2> DEFINE sent == MinOf(download.sent + 2, download.count)
  <2>1. UNCHANGED <<clockVars, storeVars, beatVars, runVars, indexVars>>
    BY <1>13 DEF SendData, Sending
  <2>2. CASE download' = NoDownload
    BY <2>1, <2>2, NoTransfer, TransferKeeps DEF HeaderTrue
  <2>3. CASE download' = [download EXCEPT !.sent = sent, !.idle = 0]
    <3> HIDE DEF sent
    <3>1. /\ download' = [x \in DOMAIN NoDownload |-> download'[x]]
          /\ download'.count = download.count /\ download'.requested = download.requested
          /\ download'.due = download.due /\ download'.newest = download.newest
      BY <2>3, <1>t DEF NoDownload
    <3>2. QED
      BY <2>1, <3>1, <1>t, TransferKeeps DEF HeaderTrue
  <2>4. QED
    BY <1>13, <2>2, <2>3 DEF SendData, Completed
<1>14. CASE Abort
  BY <1>14, NoTransfer, TransferKeeps DEF Abort, Sending, HeaderTrue
<1>15. CASE Pause
  <2>1. UNCHANGED <<clockVars, storeVars, beatVars, runVars, indexVars>>
    BY <1>15 DEF Pause
  <2>2. PICK idle, total : download' = [download EXCEPT !.idle = idle, !.total = total]
    BY <1>15 DEF Pause
  <2>3. /\ download' = [x \in DOMAIN NoDownload |-> download'[x]]
        /\ download'.count = download.count /\ download'.requested = download.requested
        /\ download'.due = download.due /\ download'.newest = download.newest
    BY <2>2, <1>t DEF NoDownload
  <2>4. QED
    BY <2>1, <2>3, <1>t, TransferKeeps DEF HeaderTrue
<1>16. CASE Tick \/ ClockArrives
  <2>1. UNCHANGED <<log, pending, write, dirty, durable, interval, latest, run_count, run_anchor,
                    last_epoch, relative, force_new_run, runs, saved, download>>
    BY <1>16 DEF Tick, ClockArrives, storeVars, beatVars, runVars
  <2>a. now \in Moments /\ clock \in BOOLEAN
    BY DEF RunsInv, RunsTypeOK
  <2>b. now' \in Moments
    <3>1. CASE now' = now + 1
      BY <3>1, <2>a DEF Moments
    <3>2. QED
      BY <1>16, <3>1, <2>a DEF Tick, ClockArrives
  <2>c. clock' \in BOOLEAN /\ (clock => clock')
    BY <1>16, <2>a DEF Tick, ClockArrives
  <2>2. RunsTypeOK'
    BY <2>1, <2>b, <2>c DEF RunsInv, RunsTypeOK
  <2>3. Grows' /\ Stamped' /\ Current' /\ HeaderTrue' /\ TrueRecord(durable)'
    BY <2>1, <2>c DEF RunsInv, Grows, Stamped, Current, HeaderTrue, TrueRecord
  <2>4. QED
    BY <2>2, <2>3 DEF RunsInv
<1>17. CASE SessionExpires
  BY <1>17, <1>t, TransferKeeps DEF SessionExpires, HeaderTrue
<1>18. CASE Restart
  BY <1>18, RestartKeeps
<1>19. CASE UNCHANGED runsVars
  BY <1>19, <1>t, TransferKeeps DEF runsVars, HeaderTrue
<1>20. QED
  BY <1>1, <1>2, <1>3, <1>4, <1>5, <1>6, <1>7, <1>8, <1>9, <1>10, <1>11, <1>12, <1>13, <1>14,
     <1>15, <1>16, <1>17, <1>18, <1>19 DEF RunsNext

(***************************************************************************)
(* Types and anchors.                                                      *)
(***************************************************************************)

LEMMA RunsInvariant == RunsSpec => []RunsInv
BY InitTrue, NextKeeps, PTL DEF RunsSpec

\* Types, and that every run of the index has a true anchor, in RAM and in NVS.
THEOREM RunsTypeCorrect == RunsSpec => []RunsTypeOK
<1>1. RunsInv => RunsTypeOK
  BY DEF RunsInv
<1>2. QED
  BY <1>1, RunsInvariant, PTL

\* Whatever was evicted, dropped, saved, restored or cleared: an anchor tells when
\* its run ended, and the age in a header leads back to the newest sample sent.
THEOREM AnchorsAreTrue == RunsSpec => []AnchorsTrue
<1>1. RunsInv => AnchorsTrue
  <2> SUFFICES ASSUME RunsInv PROVE AnchorsTrue
    OBVIOUS
  <2>1. ASSUME NEW i \in DOMAIN runs
        PROVE  LatestOf(runs[i].anchor, runs[i].count) = runs[i].newest
    <3>1. runs[i] \in TrueRuns
      BY DEF RunsInv, RunsTypeOK
    <3>2. QED
      BY <3>1 DEF TrueRuns
  <2>2. QED
    BY <2>1 DEF RunsInv, Current, HeaderTrue, AnchorsTrue
<1>2. QED
  BY <1>1, RunsInvariant, PTL

(***************************************************************************)
(* Where the runs lie.                                                     *)
(***************************************************************************)

\* What a log comes to: where it ends, and the run at its end.  In "over" that
\* run may have been indexed; so it may after a restart.
Views == [log : Seq(Moments), end : Int, count : Nat, anchor : Int, over : BOOLEAN]
Live == [log |-> log, end |-> write + pending, count |-> run_count, anchor |-> run_anchor,
         over |-> force_new_run]
Kept(u) == [log |-> u.log, end |-> u.write, count |-> u.run_count, anchor |-> u.run_anchor,
            over |-> TRUE]

First(v) == v.end - Len(v.log)
Begin(v) == v.end - v.count
End(d) == d.start + d.count

\* Between the samples of a run only what was dropped is missing.
Spaced(lg, a, b, gone) ==
    \A m \in lg[a] + 1 .. lg[b] : m \in gone <=> \A k \in a .. b : lg[k] # m

Sound(v, gone) ==
    /\ Len(v.log) <= HISTORY_CAPACITY /\ v.count <= Len(v.log)
    /\ \A i, j \in 1 .. Len(v.log) : i < j => v.log[i] < v.log[j]
    /\ \A i \in 1 .. Len(v.log) : v.log[i] >= i
    /\ v.count > 0 => Spaced(v.log, Len(v.log) - v.count + 1, Len(v.log), gone)

\* The descriptor of the run at the end.
Self(d, v) == v.over /\ d.anchor = v.anchor /\ d.count = v.count /\ d.start = Begin(v)

\* A run that is still in the window has its samples there.
Fits(d, v, gone) ==
    /\ v.log[End(d) - First(v)] = d.newest
    /\ Spaced(v.log, d.start - First(v) + 1, End(d) - First(v), gone)

Placed(rs, v, gone) ==
    \A i \in 1 .. Len(rs) :
       /\ rs[i].count > 0
       /\ \A j \in 1 .. Len(rs) : i < j => End(rs[i]) <= rs[j].start
       /\ End(rs[i]) <= Begin(v) \/ (i = Len(rs) /\ Self(rs[i], v))
       /\ First(v) <= rs[i].start => Fits(rs[i], v, gone)

\* "t" is "s" with one more sample, and without its first "q".
Slid(s, t, x, q) ==
    /\ q \in {0, 1} /\ Len(t) = Len(s) + 1 - q
    /\ \A i \in 1 .. Len(t) - 1 : t[i] = s[i + q]
    /\ t[Len(t)] = x

LEMMA WindowSlides ==
    ASSUME NEW S, NEW s \in Seq(S), NEW x \in S, NEW n \in Nat \ {0}, Len(s) <= n
    PROVE  \E q \in {0, 1} :
              /\ Slid(s, Newest(n, Append(s, x)), x, q)
              /\ q = 1 <=> Len(s) = n
              /\ Newest(n, Append(s, x)) \in Seq(S)
              /\ Len(Newest(n, Append(s, x))) <= n
<1> DEFINE t == Append(s, x)
<1>1. /\ t \in Seq(S) /\ Len(t) = Len(s) + 1 /\ t[Len(t)] = x /\ Len(s) \in Nat
      /\ \A i \in 1 .. Len(s) : t[i] = s[i]
  OBVIOUS
<1> HIDE DEF t
<1>2. CASE Len(s) < n
  <2>1. Newest(n, t) = t
    BY <1>1, <1>2 DEF Newest
  <2>2. Slid(s, t, x, 0)
    BY <1>1 DEF Slid
  <2>3. QED
    BY <1>1, <1>2, <2>1, <2>2 DEF t
<1>3. CASE Len(s) = n
  <2> DEFINE u == SubSeq(t, 2, n + 1)
  <2>1. Newest(n, t) = u
    BY <1>1, <1>3 DEF Newest
  <2>2. u \in Seq(S) /\ Len(u) = n /\ \A i \in 1 .. n : u[i] = t[i + 1]
    BY <1>1, <1>3
  <2> HIDE DEF u
  <2>3. Slid(s, u, x, 1)
    BY <1>1, <1>3, <2>2 DEF Slid
  <2>4. QED
    BY <1>1, <1>3, <2>1, <2>2, <2>3 DEF t
<1>4. QED
  BY <1>1, <1>2, <1>3

\* The place of a run in the log that has slid.
LEMMA SpacedSlides ==
    ASSUME NEW s \in Seq(Moments), NEW t \in Seq(Moments), NEW q \in Int, NEW gone,
           NEW a \in Int, NEW b \in Int, a <= b,
           \A k \in a .. b : t[k] = s[k + q],
           Spaced(s, a + q, b + q, gone)
    PROVE  Spaced(t, a, b, gone)
<1>1. t[a] = s[a + q] /\ t[b] = s[b + q]
  OBVIOUS
<1>2. SUFFICES ASSUME NEW m \in t[a] + 1 .. t[b]
               PROVE  m \in gone <=> \A k \in a .. b : t[k] # m
  BY DEF Spaced
<1>3. m \in gone <=> \A k \in a + q .. b + q : s[k] # m
  BY <1>1 DEF Spaced
<1>4. (\A k \in a + q .. b + q : s[k] # m) <=> (\A k \in a .. b : t[k] # m)
  <2>1. ASSUME \A k \in a + q .. b + q : s[k] # m, NEW k \in a .. b PROVE t[k] # m
    <3>1. k + q \in a + q .. b + q
      OBVIOUS
    <3>2. QED
      BY <2>1, <3>1
  <2>2. ASSUME \A k \in a .. b : t[k] # m, NEW k \in a + q .. b + q PROVE s[k] # m
    <3>1. k - q \in a .. b /\ (k - q) + q = k
      OBVIOUS
    <3>2. t[k - q] = s[(k - q) + q] /\ t[k - q] # m
      BY <2>2, <3>1
    <3>3. QED
      BY <3>1, <3>2
  <2>3. QED
    BY <2>1, <2>2
<1>5. QED
  BY <1>3, <1>4

\* The end of a run is spaced like the whole.
LEMMA SpacedSuffix ==
    ASSUME NEW s \in Seq(Moments), NEW gone, NEW a \in Int, NEW c \in Int, NEW b \in Int,
           1 <= a, a <= c, c <= b, b <= Len(s),
           \A i, j \in 1 .. Len(s) : i < j => s[i] < s[j],
           Spaced(s, a, b, gone)
    PROVE  Spaced(s, c, b, gone)
<1>t. \A k \in 1 .. Len(s) : s[k] \in Int
  BY DEF Moments
<1>1. s[a] <= s[c] /\ s[a] \in Int /\ s[b] \in Int /\ s[c] \in Int
  <2>1. CASE a = c
    BY <2>1, <1>t
  <2>2. CASE a < c
    BY <2>2, <1>t
  <2>3. QED
    BY <2>1, <2>2
<1>2. SUFFICES ASSUME NEW m \in s[c] + 1 .. s[b]
               PROVE  m \in gone <=> \A k \in c .. b : s[k] # m
  BY DEF Spaced
<1>3. m \in Int /\ s[c] < m /\ m <= s[b] /\ m \in s[a] + 1 .. s[b]
  BY <1>1
<1>4. m \in gone <=> \A k \in a .. b : s[k] # m
  BY <1>3 DEF Spaced
<1>5. ASSUME NEW k \in a .. b, ~(k \in c .. b) PROVE s[k] # m
  <2>1. k < c /\ k \in 1 .. Len(s) /\ c \in 1 .. Len(s)
    BY <1>5
  <2>2. s[k] < s[c] /\ s[k] \in Int
    BY <2>1, <1>t
  <2>3. QED
    BY <2>2, <1>3, <1>1
<1>6. \A k \in c .. b : k \in a .. b
  OBVIOUS
<1>7. QED
  BY <1>4, <1>5, <1>6

\* What is dropped later is none of its business.
LEMMA SpacedLater ==
    ASSUME NEW s, NEW gone, NEW more, NEW a, NEW b, s[b] \in Int, s[a] \in Int,
           \A m \in more : m \in Int /\ s[b] < m,
           Spaced(s, a, b, gone)
    PROVE  Spaced(s, a, b, gone \cup more)
<1>1. SUFFICES ASSUME NEW m \in s[a] + 1 .. s[b]
               PROVE  m \in gone \cup more <=> \A k \in a .. b : s[k] # m
  BY DEF Spaced
<1>2. m \notin more
  OBVIOUS
<1>3. m \in gone <=> \A k \in a .. b : s[k] # m
  BY DEF Spaced
<1>4. QED
  BY <1>2, <1>3

\* A sample joins a run or begins one.
LEMMA SpacedGrows ==
    ASSUME NEW s \in Seq(Moments), NEW gone, NEW a \in Int, NEW b \in Int,
           1 <= a, a <= b, b = Len(s) - 1,
           \A i, j \in 1 .. Len(s) : i < j => s[i] < s[j],
           Spaced(s, a, b, gone),
           s[b + 1] \notin gone, \A m \in s[b] + 1 .. s[b + 1] - 1 : m \in gone
    PROVE  Spaced(s, a, b + 1, gone)
<1>t. \A k \in 1 .. Len(s) : s[k] \in Int
  BY DEF Moments
<1>1. SUFFICES ASSUME NEW m \in s[a] + 1 .. s[b + 1]
               PROVE  m \in gone <=> \A k \in a .. b + 1 : s[k] # m
  BY DEF Spaced
<1>2. /\ s[a] \in Int /\ s[b] \in Int /\ s[b + 1] \in Int /\ s[b] < s[b + 1]
      /\ \A k \in a .. b : k \in 1 .. Len(s)
  BY <1>t
<1>3. CASE m \in s[a] + 1 .. s[b]
  <2>1. m \in gone <=> \A k \in a .. b : s[k] # m
    BY <1>3 DEF Spaced
  <2>2. s[b + 1] # m
    BY <1>2, <1>3
  <2>3. \A k \in a .. b + 1 : k \in a .. b \/ k = b + 1
    OBVIOUS
  <2>4. \A k \in a .. b : k \in a .. b + 1
    OBVIOUS
  <2>5. QED
    BY <2>1, <2>2, <2>3, <2>4
<1>4. CASE m = s[b + 1]
  <2>1. b + 1 \in a .. b + 1
    OBVIOUS
  <2>2. QED
    BY <1>4, <2>1
<1>5. CASE m \in s[b] + 1 .. s[b + 1] - 1
  <2>1. m \in gone
    BY <1>5
  <2>2. ASSUME NEW k \in a .. b + 1 PROVE s[k] # m
    <3>1. CASE k = b + 1
      BY <3>1, <1>5, <1>2
    <3>2. CASE k <= b
      <4>1. k \in 1 .. Len(s) /\ b \in 1 .. Len(s) /\ (k < b \/ k = b)
        BY <3>2
      <4>2. s[k] \in Int /\ s[k] <= s[b]
        <5>1. CASE k = b
          BY <5>1, <1>2
        <5>2. CASE k < b
          <6>1. s[k] < s[b] /\ s[k] \in Int /\ s[b] \in Int
            BY <5>2, <4>1, <1>t
          <6>2. QED
            BY <6>1
        <5>3. QED
          BY <4>1, <5>1, <5>2
      <4>3. QED
        BY <4>2, <1>5, <1>2
    <3>3. QED
      BY <3>1, <3>2
  <2>3. QED
    BY <2>1, <2>2
<1>6. QED
  BY <1>2, <1>3, <1>4, <1>5

\* The log with one more sample, which begins a run or joins the one at the end.
LEMMA SoundSlides ==
    ASSUME NEW v \in Views, NEW w \in Views, NEW gone, NEW x \in Moments, NEW q \in {0, 1},
           Sound(v, gone), Slid(v.log, w.log, x, q), Len(w.log) <= HISTORY_CAPACITY,
           q = 1 <=> Len(v.log) = HISTORY_CAPACITY,
           \A i \in 1 .. Len(v.log) : v.log[i] < x,
           \/ w.count = 1
           \/ /\ v.count > 0 /\ w.count = MinOf(v.count + 1, HISTORY_CAPACITY)
              /\ x \notin gone /\ \A m \in LastOf(v.log) + 1 .. x - 1 : m \in gone
    PROVE  Sound(w, gone)
<1> DEFINE s == v.log  t == w.log
<1>c. HISTORY_CAPACITY \in Nat \ {0}
  BY RunsAssumption
<1>t. /\ s \in Seq(Moments) /\ t \in Seq(Moments) /\ x \in Nat /\ x > 0
      /\ \A i \in 1 .. Len(s) : s[i] \in Nat
      /\ \A i \in 1 .. Len(t) : t[i] \in Nat
  BY DEF Views, Moments
<1>n. Len(s) \in Nat /\ Len(t) \in Nat /\ v.count \in Nat /\ w.count \in Nat
  BY DEF Views
<1>l. Len(s) <= HISTORY_CAPACITY /\ v.count <= Len(s)
  BY DEF Sound
<1>s. /\ \A i, j \in 1 .. Len(s) : i < j => s[i] < s[j]
      /\ \A i \in 1 .. Len(s) : s[i] >= i
      /\ v.count > 0 => Spaced(s, Len(s) - v.count + 1, Len(s), gone)
  BY DEF Sound
<1>p. q \in Int /\ q >= 0 /\ q <= 1 /\ Len(t) = Len(s) + 1 - q
  BY DEF Slid
<1>q. (\A i \in 1 .. Len(t) - 1 : t[i] = s[i + q]) /\ t[Len(t)] = x
  BY DEF Slid
<1>x. \A i \in 1 .. Len(s) : s[i] < x
  OBVIOUS
<1> HIDE DEF s, t
<1>1. Len(t) >= 1 /\ Len(t) <= HISTORY_CAPACITY
  <2>1. Len(t) <= HISTORY_CAPACITY
    BY DEF t
  <2>2. CASE q = 1
    BY <2>1, <2>2, <1>p, <1>c, <1>n DEF s
  <2>3. CASE q = 0
    BY <2>1, <2>3, <1>p, <1>n
  <2>4. QED
    BY <2>2, <2>3
<1>2. ASSUME NEW i \in 1 .. Len(t), NEW j \in 1 .. Len(t), i < j PROVE t[i] < t[j]
  <2>1. i \in 1 .. Len(t) - 1 /\ t[i] = s[i + q] /\ i + q \in 1 .. Len(s)
    BY <1>2, <1>q, <1>p, <1>n, <1>t
  <2>2. CASE j = Len(t)
    BY <2>1, <2>2, <1>q, <1>x
  <2>3. CASE j # Len(t)
    <3>1. j \in 1 .. Len(t) - 1 /\ j + q \in 1 .. Len(s) /\ i + q < j + q
      BY <1>2, <2>3, <1>p, <1>n
    <3>3. t[j] = s[j + q]
      BY <3>1, <1>q
    <3>2. QED
      BY <2>1, <3>1, <3>3, <1>s
  <2>4. QED
    BY <2>2, <2>3
<1>3. ASSUME NEW i \in 1 .. Len(t) PROVE t[i] >= i
  <2>1. CASE i = Len(t)
    <3>1. CASE Len(s) = 0
      BY <2>1, <3>1, <1>q, <1>p, <1>n, <1>t
    <3>2. CASE Len(s) > 0
      <4>1. s[Len(s)] >= Len(s) /\ s[Len(s)] < x /\ s[Len(s)] \in Nat
        BY <3>2, <1>s, <1>x, <1>t, <1>n
      <4>2. QED
        BY <2>1, <4>1, <1>q, <1>p, <1>n, <1>t
    <3>3. QED
      BY <3>1, <3>2, <1>t
  <2>2. CASE i # Len(t)
    <3>1. i \in 1 .. Len(t) - 1 /\ t[i] = s[i + q] /\ i + q \in 1 .. Len(s)
      BY <2>2, <1>q, <1>p, <1>n, <1>t
    <3>2. s[i + q] >= i + q /\ s[i + q] \in Nat
      BY <3>1, <1>s, <1>t
    <3>3. QED
      BY <3>1, <3>2
  <2>3. QED
    BY <2>1, <2>2
<1>4. w.count <= Len(t) /\ w.count > 0 /\ Spaced(t, Len(t) - w.count + 1, Len(t), gone)
  <2>1. CASE w.count = 1
    <3>1. Len(t) - w.count + 1 = Len(t) /\ t[Len(t)] \in Nat
      BY <2>1, <1>1, <1>t, <1>n
    <3>2. Spaced(t, Len(t), Len(t), gone)
      BY <3>1 DEF Spaced
    <3>3. QED
      BY <2>1, <3>1, <3>2, <1>1
  <2>2. CASE /\ v.count > 0 /\ w.count = MinOf(v.count + 1, HISTORY_CAPACITY)
             /\ x \notin gone /\ \A m \in LastOf(v.log) + 1 .. x - 1 : m \in gone
    <3> DEFINE a == Len(t) - w.count + 1  b == Len(t) - 1  e == Len(s) - v.count + 1
    <3>1. w.count \in {v.count, v.count + 1} /\ (w.count = v.count <=> v.count = HISTORY_CAPACITY)
          /\ w.count <= Len(t) /\ (w.count = v.count => q = 1)
      <4>1. CASE v.count = HISTORY_CAPACITY
        <5>1. Len(s) = HISTORY_CAPACITY /\ w.count = HISTORY_CAPACITY
          BY <4>1, <2>2, <1>l, <1>n, <1>c DEF MinOf
        <5>2. q = 1
          BY <5>1 DEF s
        <5>3. QED
          BY <4>1, <5>1, <5>2, <1>p, <1>n
      <4>2. CASE v.count < HISTORY_CAPACITY
        <5>1. w.count = v.count + 1
          BY <4>2, <2>2, <1>n, <1>c DEF MinOf
        <5>2. q = 1 => Len(s) = HISTORY_CAPACITY
          BY DEF s
        <5>3. QED
          BY <4>2, <5>1, <5>2, <1>p, <1>l, <1>n
      <4>3. QED
        BY <4>1, <4>2, <1>l, <1>n, <1>c
    <3>2. /\ a \in Int /\ b \in Int /\ e \in Int /\ 1 <= e /\ e <= Len(s)
          /\ 1 <= a /\ a <= Len(t) /\ b + q = Len(s)
          /\ e <= a + q /\ (w.count = v.count + 1 => a + q = e)
      BY <3>1, <2>2, <1>p, <1>l, <1>n, <1>1, SMTT(30)
    <3>3. CASE w.count = 1
      BY <3>3, <2>1
    <3>4. CASE w.count > 1
      <4>1. a <= b
        BY <3>4, <1>n, <1>1
      <4>2. Spaced(s, e, Len(s), gone)
        BY <2>2, <1>s
      <4> HIDE DEF a, b, e
      <4>3. Spaced(s, a + q, b + q, gone)
        <5>1. /\ a + q \in Int /\ e \in Int /\ Len(s) \in Int /\ 1 <= e /\ e <= a + q
              /\ a + q <= Len(s) /\ Len(s) <= Len(s)
          BY <3>2, <4>1, <1>p, <1>n
        <5>2. Spaced(s, a + q, Len(s), gone)
          BY <5>1, <4>2, <1>t, <1>s, SpacedSuffix
        <5>3. QED
          BY <5>2, <3>2
      <4>4. \A k \in a .. b : t[k] = s[k + q]
        BY <3>2, <1>q, <1>n DEF b
      <4>5. Spaced(t, a, b, gone)
        BY <3>2, <4>1, <4>3, <4>4, <1>t, <1>p, SpacedSlides
      <4>6. /\ b = Len(t) - 1 /\ b + 1 = Len(t) /\ t[b] = LastOf(v.log) /\ t[b + 1] = x
        <5>1. b \in a .. b /\ b + 1 = Len(t)
          BY <3>2, <4>1, <1>n DEF b
        <5>2. t[b] = s[Len(s)]
          BY <5>1, <4>4, <3>2
        <5>3. QED
          BY <5>1, <5>2, <1>q DEF LastOf, s, b
      <4>7. Spaced(t, a, b + 1, gone)
        <5>1. t[b + 1] \notin gone /\ \A m \in t[b] + 1 .. t[b + 1] - 1 : m \in gone
          BY <4>6, <2>2
        <5>2. QED
          BY <5>1, <3>2, <4>1, <4>5, <4>6, <1>t, <1>n, <1>2, SpacedGrows
      <4>8. QED
        BY <3>1, <3>4, <4>6, <4>7, <1>n DEF a
    <3>5. QED
      BY <3>1, <3>3, <3>4, <2>2, <1>n
  <2>3. QED
    BY <2>1, <2>2
<1>5. QED
  BY <1>1, <1>2, <1>3, <1>4 DEF Sound, t

\* A place in the window, counted from a first sample that has moved.
LEMMA Shifted ==
    ASSUME NEW place \in Int, NEW first \in Int, NEW q \in Int
    PROVE  /\ (place - (first + q)) + q = place - first
           /\ (place - (first + q) + 1) + q = place - first + 1
OBVIOUS

\* The places of a descriptor in the window.
LEMMA PlacesInOrder ==
    ASSUME NEW start \in Int, NEW count \in Nat, NEW first \in Int, count > 0, first <= start
    PROVE  /\ start - first + 1 \in Int /\ (start + count) - first \in Int
           /\ 1 <= start - first + 1 /\ start - first + 1 <= (start + count) - first
OBVIOUS

LEMMA BeginsBefore ==
    ASSUME NEW end \in Int, NEW count \in Nat PROVE end - count \in Int /\ end - count <= end
OBVIOUS

\* A descriptor lies in the log, wherever the log has slid to.
LEMMA PlacedSlides ==
    ASSUME NEW v \in Views, NEW w \in Views, NEW gone, NEW x \in Moments, NEW q \in {0, 1},
           NEW rs \in Seq(TrueRuns),
           Sound(v, gone), Slid(v.log, w.log, x, q), w.end = v.end + 1,
           Begin(v) <= Begin(w), v.over => v.end <= Begin(w),
           Placed(rs, v, gone)
    PROVE  Placed(rs, w, gone)
<1>t. v.log \in Seq(Moments) /\ w.log \in Seq(Moments)
  BY DEF Views
<1>n. /\ Len(v.log) \in Nat /\ Len(w.log) \in Nat
      /\ v.end \in Int /\ w.end \in Int /\ v.count \in Nat /\ w.count \in Nat /\ Len(rs) \in Nat
  BY DEF Views
<1>q. q \in Int /\ q >= 0 /\ q <= 1 /\ Len(w.log) = Len(v.log) + 1 - q
  BY DEF Slid
<1>s. \A i \in 1 .. Len(w.log) - 1 : w.log[i] = v.log[i + q]
  BY DEF Slid
<1>v. /\ First(v) = v.end - Len(v.log) /\ First(w) = w.end - Len(w.log)
      /\ Begin(v) = v.end - v.count /\ Begin(w) = w.end - w.count
  BY DEF First, Begin
<1>b. First(v) \in Int /\ First(w) \in Int /\ Begin(v) \in Int /\ Begin(w) \in Int
  <2>1. \A o \in Int : \A y \in Nat : o - y \in Int
    OBVIOUS
  <2>2. QED
    BY <1>n, <1>v, <2>1
<1>f. First(w) = First(v) + q
  BY <1>n, <1>q, <1>v
<1>1. SUFFICES ASSUME NEW i \in 1 .. Len(rs)
               PROVE  /\ rs[i].count > 0
                      /\ \A j \in 1 .. Len(rs) : i < j => End(rs[i]) <= rs[j].start
                      /\ End(rs[i]) <= Begin(w)
                      /\ First(w) <= rs[i].start => Fits(rs[i], w, gone)
  BY DEF Placed
<1>2. /\ rs[i] \in TrueRuns /\ rs[i].count > 0
      /\ \A j \in 1 .. Len(rs) : i < j => End(rs[i]) <= rs[j].start
      /\ End(rs[i]) <= Begin(v) \/ Self(rs[i], v)
      /\ First(v) <= rs[i].start => Fits(rs[i], v, gone)
  BY DEF Placed
<1> DEFINE d == rs[i]
<1>3. d.start \in Int /\ d.count \in Nat /\ End(d) = d.start + d.count /\ End(d) \in Int
  <2>1. d \in TrueRuns
    BY <1>2
  <2> HIDE DEF d
  <2>2. d.start \in Int /\ d.count \in Nat
    BY <2>1 DEF TrueRuns
  <2>3. End(d) = d.start + d.count
    BY DEF End
  <2>4. QED
    BY <2>2, <2>3
<1> HIDE DEF d
<1>4. End(d) <= Begin(w) /\ End(d) <= v.end
  <2>1. CASE End(d) <= Begin(v)
    <3>1. Begin(v) <= v.end
      BY <1>n, <1>v, BeginsBefore
    <3>2. \A o, y, z, u \in Int : o <= y /\ y <= z /\ y <= u => o <= z /\ o <= u
      OBVIOUS
    <3>3. QED
      BY <2>1, <1>b, <1>n, <1>3, <3>1, <3>2
  <2>2. CASE Self(d, v)
    <3>1. d.start = Begin(v) /\ d.count = v.count /\ v.end <= Begin(w)
      BY <2>2 DEF Self
    <3>2. End(d) = v.end
      <4>1. \A o, y \in Int : (o - y) + y = o
        OBVIOUS
      <4>2. QED
        BY <1>n, <1>3, <1>v, <3>1, <4>1
    <3>3. QED
      BY <3>1, <3>2, <1>n
  <2>3. End(d) <= Begin(v) \/ Self(d, v)
    BY <1>2 DEF d
  <2>4. QED
    BY <2>1, <2>2, <2>3
<1>5. ASSUME First(w) <= d.start PROVE Fits(d, w, gone)
  <2> DEFINE a == d.start - First(w) + 1  b == End(d) - First(w)
  <2>1. First(v) <= d.start
    <3>1. \A o, y, z \in Int : y >= 0 /\ o + y <= z => o <= z
      OBVIOUS
    <3>2. QED
      BY <1>5, <1>f, <1>b, <1>q, <1>3, <3>1
  <2>a. a \in Int /\ b \in Int /\ 1 <= a /\ a <= b
    <3>1. d.count > 0 /\ First(w) <= d.start
      BY <1>2, <1>5 DEF d
    <3>2. QED
      BY <1>3, <1>b, <3>1, PlacesInOrder
  <2>b. a + q = d.start - First(v) + 1 /\ b + q = End(d) - First(v)
    <3>1. /\ a = d.start - (First(v) + q) + 1 /\ b = End(d) - (First(v) + q)
      BY <1>f
    <3>2. /\ (d.start - (First(v) + q) + 1) + q = d.start - First(v) + 1
          /\ (End(d) - (First(v) + q)) + q = End(d) - First(v)
      <4>1. d.start \in Int /\ End(d) \in Int /\ First(v) \in Int /\ q \in Int
        BY <1>3, <1>q, <1>b
      <4>2. QED
        BY <4>1, Shifted
    <3>3. QED
      BY <3>1, <3>2
  <2>c. b <= Len(w.log) - 1
    <3>1. \A o, y \in Int : \A l \in Nat : o <= y => o - ((y + 1) - l) <= l - 1
      OBVIOUS
    <3>2. First(w) = (v.end + 1) - Len(w.log)
      BY <1>v
    <3>3. QED
      BY <1>4, <1>3, <1>n, <3>1, <3>2
  <2>2. /\ a \in Int /\ b \in Int /\ 1 <= a /\ a <= b /\ b <= Len(w.log) - 1
        /\ a + q = d.start - First(v) + 1 /\ b + q = End(d) - First(v)
    BY <2>a, <2>b, <2>c
  <2>3. v.log[b + q] = d.newest /\ Spaced(v.log, a + q, b + q, gone)
    BY <2>1, <2>2, <1>2 DEF Fits, d
  <2>4. Fits(d, w, gone) <=> w.log[b] = d.newest /\ Spaced(w.log, a, b, gone)
    BY DEF Fits
  <2> HIDE DEF a, b
  <2>5. \A k \in a .. b : w.log[k] = v.log[k + q]
    <3>1. \A k \in a .. b : k \in 1 .. Len(w.log) - 1
      <4>1. a \in Int /\ b \in Int /\ 1 <= a /\ b <= Len(w.log) - 1
        BY <2>2
      <4>2. QED
        BY <4>1, <1>n
    <3>2. QED
      BY <3>1, <1>s
  <2>6. w.log[b] = d.newest
    BY <2>2, <2>3, <2>5
  <2>7. Spaced(w.log, a, b, gone)
    BY <2>2, <2>3, <2>5, <1>t, <1>q, SpacedSlides
  <2>8. QED
    BY <2>4, <2>6, <2>7
<1>6. QED
  BY <1>2, <1>4, <1>5 DEF d

\* Dropped moments after the newest sample change nothing.
LEMMA PlacedLater ==
    ASSUME NEW v \in Views, NEW gone, NEW more, NEW rs \in Seq(TrueRuns),
           \A m \in more : m \in Int /\ \A i \in 1 .. Len(v.log) : v.log[i] < m,
           Sound(v, gone)
    PROVE  /\ Sound(v, gone \cup more)
           /\ Placed(rs, v, gone) => Placed(rs, v, gone \cup more)
<1>t. \A i \in 1 .. Len(v.log) : v.log[i] \in Int
  BY DEF Views, Moments
<1>n. /\ Len(v.log) \in Nat /\ v.end \in Int /\ v.count \in Nat
      /\ First(v) = v.end - Len(v.log) /\ Begin(v) = v.end - v.count /\ v.count <= Len(v.log)
  BY DEF Views, First, Begin, Sound
<1>1. ASSUME NEW a \in 1 .. Len(v.log), NEW b \in 1 .. Len(v.log), Spaced(v.log, a, b, gone)
      PROVE  Spaced(v.log, a, b, gone \cup more)
  <2>1. v.log[a] \in Int /\ v.log[b] \in Int /\ \A m \in more : m \in Int /\ v.log[b] < m
    BY <1>t
  <2>2. QED
    BY <1>1, <2>1, SpacedLater
<1>2. Sound(v, gone \cup more)
  <2>1. ASSUME v.count > 0 PROVE Spaced(v.log, Len(v.log) - v.count + 1, Len(v.log), gone \cup more)
    <3>1. Len(v.log) - v.count + 1 \in 1 .. Len(v.log) /\ Len(v.log) \in 1 .. Len(v.log)
      BY <2>1, <1>n
    <3>2. Spaced(v.log, Len(v.log) - v.count + 1, Len(v.log), gone)
      BY <2>1 DEF Sound
    <3>3. QED
      BY <3>1, <3>2, <1>1
  <2>2. QED
    BY <2>1 DEF Sound
<1>3. ASSUME Placed(rs, v, gone), NEW i \in 1 .. Len(rs), First(v) <= rs[i].start
      PROVE  Fits(rs[i], v, gone \cup more)
  <2> DEFINE d == rs[i]  a == d.start - First(v) + 1  b == End(d) - First(v)
  <2>1. d.start \in Int /\ d.count \in Nat /\ d.count > 0 /\ End(d) = d.start + d.count
        /\ (End(d) <= Begin(v) \/ Self(d, v)) /\ Fits(d, v, gone)
    <3>1. rs[i] \in TrueRuns
      OBVIOUS
    <3>2. d.start \in Int /\ d.count \in Nat
      BY <3>1 DEF TrueRuns
    <3>3. d.count > 0 /\ (End(d) <= Begin(v) \/ Self(d, v)) /\ Fits(d, v, gone)
      BY <1>3 DEF Placed
    <3>4. QED
      BY <3>2, <3>3 DEF End
  <2>2. End(d) <= v.end
    BY <2>1, <1>n DEF Self
  <2>3. a \in 1 .. Len(v.log) /\ b \in 1 .. Len(v.log)
    <3>1. First(v) \in Int /\ v.end \in Int /\ Len(v.log) \in Nat /\ First(v) = v.end - Len(v.log)
          /\ First(v) <= d.start
      BY <1>n, <1>3 DEF First
    <3>2. \A st, fi, en \in Int : \A co, l \in Nat :
             co > 0 /\ fi <= st /\ fi = en - l /\ st + co <= en =>
                st - fi + 1 \in 1 .. l /\ (st + co) - fi \in 1 .. l
      <4>1. SUFFICES ASSUME NEW st \in Int, NEW fi \in Int, NEW en \in Int, NEW co \in Nat, NEW l \in Nat,
                            co > 0, fi <= st, fi = en - l, st + co <= en
                     PROVE  st - fi + 1 \in 1 .. l /\ (st + co) - fi \in 1 .. l
        OBVIOUS
      <4>2. en = fi + l
        BY <4>1
      <4>3. st + co <= fi + l
        BY <4>1, <4>2
      <4>4. 1 <= st - fi + 1 /\ st - fi + 1 <= l
        BY <4>1, <4>3
      <4>5. 1 <= (st + co) - fi /\ (st + co) - fi <= l
        BY <4>1, <4>3
      <4>6. QED
        BY <4>4, <4>5
    <3> HIDE DEF d
    <3>3. QED
      BY <2>1, <2>2, <3>1, <3>2
  <2>4. v.log[b] = d.newest /\ Spaced(v.log, a, b, gone)
    BY <2>1 DEF Fits
  <2>5. Spaced(v.log, a, b, gone \cup more)
    BY <2>3, <2>4, <1>1
  <2>6. QED
    BY <2>4, <2>5 DEF Fits
<1>4. QED
  BY <1>2, <1>3 DEF Placed

\* The run at the end may be indexed.
LEMMA PlacedOver ==
    ASSUME NEW v \in Views, NEW w \in Views, NEW rs, NEW gone,
           w.log = v.log, w.end = v.end, w.count = v.count, w.anchor = v.anchor, v.over => w.over
    PROVE  /\ Placed(rs, v, gone) => Placed(rs, w, gone)
           /\ Sound(v, gone) => Sound(w, gone)
<1>1. First(v) = First(w) /\ Begin(v) = Begin(w)
  BY DEF First, Begin
<1>2. \A d : Self(d, v) => Self(d, w)
  BY <1>1 DEF Self
<1>3. \A d : Fits(d, v, gone) => Fits(d, w, gone)
  BY <1>1 DEF Fits
<1>4. QED
  BY <1>1, <1>2, <1>3 DEF Placed, Sound

\* Everything before a log that has nothing is stale.
LEMMA PlacedBefore ==
    ASSUME NEW w \in Views, NEW v \in Views, NEW rs \in Seq(TrueRuns), NEW gone,
           Placed(rs, v, gone), w.log = <<>>, w.count = 0,
           \A i \in 1 .. Len(rs) : End(rs[i]) <= w.end
    PROVE  Placed(rs, w, gone)
<1>1. First(w) = w.end /\ Begin(w) = w.end /\ w.end \in Int
  BY DEF First, Begin, Views
<1>2. SUFFICES ASSUME NEW i \in 1 .. Len(rs) PROVE ~(First(w) <= rs[i].start)
  BY <1>1 DEF Placed
<1>3. rs[i].start \in Int /\ rs[i].count \in Nat /\ rs[i].count > 0 /\ rs[i].start + rs[i].count <= w.end
  BY DEF Placed, TrueRuns, End
<1>4. QED
  BY <1>1, <1>3

LEMMA NewestOf ==
    ASSUME NEW S, NEW s \in Seq(S), NEW n \in Nat \ {0}
    PROVE  \A i \in 1 .. Len(Newest(n, s)) : \E j \in 1 .. Len(s) : Newest(n, s)[i] = s[j]
<1>t. Len(s) \in Nat
  OBVIOUS
<1>1. CASE Len(s) <= n
  BY <1>1 DEF Newest
<1>2. CASE Len(s) > n
  <2> DEFINE q == Len(s) - n  u == SubSeq(s, q + 1, Len(s))
  <2>1. Newest(n, s) = u
    BY <1>2, <1>t DEF Newest
  <2>2. q \in Nat /\ q + n = Len(s)
    BY <1>2, <1>t
  <2>3. Len(u) = n /\ \A i \in 1 .. n : u[i] = s[i + q]
    BY <1>2, <1>t
  <2> HIDE DEF u, q
  <2>4. \A i \in 1 .. n : i + q \in 1 .. Len(s)
    BY <2>2
  <2>5. QED
    BY <2>1, <2>3, <2>4
<1>3. QED
  BY <1>1, <1>2, <1>t

\* Dropping the oldest descriptors of an index.
LEMMA PlacedSuffix ==
    ASSUME NEW v, NEW gone, NEW rs \in Seq(TrueRuns), NEW n \in Nat \ {0}, Placed(rs, v, gone)
    PROVE  Placed(Newest(n, rs), v, gone)
<1>t. Len(rs) \in Nat
  OBVIOUS
<1>1. CASE Len(rs) <= n
  BY <1>1 DEF Newest
<1>2. CASE Len(rs) > n
  <2> DEFINE q == Len(rs) - n  u == SubSeq(rs, q + 1, Len(rs))
  <2>1. Newest(n, rs) = u
    BY <1>2, <1>t DEF Newest
  <2>2. q \in Nat /\ q + n = Len(rs)
    BY <1>2, <1>t
  <2>3. Len(u) = n /\ \A i \in 1 .. n : u[i] = rs[i + q]
    BY <1>2, <1>t
  <2> HIDE DEF u, q
  <2>4. ASSUME NEW i \in 1 .. n
        PROVE  /\ u[i].count > 0
               /\ \A j \in 1 .. n : i < j => End(u[i]) <= u[j].start
               /\ End(u[i]) <= Begin(v) \/ (i = n /\ Self(u[i], v))
               /\ First(v) <= u[i].start => Fits(u[i], v, gone)
    <3>1. i + q \in 1 .. Len(rs) /\ u[i] = rs[i + q] /\ (i + q = Len(rs) => i = n)
      BY <2>2, <2>3
    <3>2. ASSUME NEW j \in 1 .. n, i < j PROVE j + q \in 1 .. Len(rs) /\ i + q < j + q /\ u[j] = rs[j + q]
      <4>1. j + q \in 1 .. Len(rs) /\ i + q < j + q
        BY <3>2, <2>2
      <4>2. QED
        BY <4>1, <2>3
    <3>3. /\ rs[i + q].count > 0
          /\ \A j \in 1 .. Len(rs) : i + q < j => End(rs[i + q]) <= rs[j].start
          /\ End(rs[i + q]) <= Begin(v) \/ (i + q = Len(rs) /\ Self(rs[i + q], v))
          /\ First(v) <= rs[i + q].start => Fits(rs[i + q], v, gone)
      BY <3>1 DEF Placed
    <3>4. QED
      BY <3>1, <3>2, <3>3
  <2>5. QED
    BY <2>1, <2>3, <2>4 DEF Placed
<1>3. QED
  BY <1>1, <1>2, <1>t

\* The run at the end gets a descriptor.
LEMMA PlacedAppend ==
    ASSUME NEW v \in Views, NEW gone, NEW rs \in Seq(TrueRuns), NEW d \in TrueRuns,
           Sound(v, gone), Placed(rs, v, gone), v.over = TRUE, v.count > 0,
           d = [anchor |-> v.anchor, start |-> Begin(v), count |-> v.count,
                newest |-> LastOf(v.log)],
           rs # <<>> => ~Self(LastOf(rs), v)
    PROVE  Placed(Append(rs, d), v, gone)
<1> DEFINE t == Append(rs, d)
<1>1. /\ Len(rs) \in Nat /\ Len(t) = Len(rs) + 1 /\ t[Len(t)] = d
      /\ \A i \in 1 .. Len(rs) : t[i] = rs[i]
  OBVIOUS
<1> HIDE DEF t
<1>d. /\ d.anchor = v.anchor /\ d.start = Begin(v) /\ d.count = v.count /\ d.newest = LastOf(v.log)
  OBVIOUS
<1>n. /\ v.end \in Int /\ v.count \in Nat /\ Len(v.log) \in Nat
      /\ Begin(v) = v.end - v.count /\ First(v) = v.end - Len(v.log)
  BY DEF Views, Begin, First
<1>2. Self(d, v)
  BY <1>d DEF Self
<1>3. Fits(d, v, gone)
  <2>1. End(d) = v.end
    BY <1>d, <1>n DEF End
  <2>2. End(d) - First(v) = Len(v.log)
    BY <2>1, <1>n
  <2>3. d.start - First(v) + 1 = Len(v.log) - v.count + 1
    BY <1>d, <1>n
  <2>4. Spaced(v.log, Len(v.log) - v.count + 1, Len(v.log), gone)
    BY DEF Sound
  <2>5. QED
    BY <2>2, <2>3, <2>4, <1>d DEF Fits, LastOf
<1>4. SUFFICES ASSUME NEW i \in 1 .. Len(t)
               PROVE  /\ t[i].count > 0
                      /\ \A j \in 1 .. Len(t) : i < j => End(t[i]) <= t[j].start
                      /\ End(t[i]) <= Begin(v) \/ (i = Len(t) /\ Self(t[i], v))
                      /\ First(v) <= t[i].start => Fits(t[i], v, gone)
  BY DEF Placed, t
<1>5. CASE i = Len(t)
  <2>1. t[i] = d /\ \A j \in 1 .. Len(t) : ~(i < j)
    BY <1>5, <1>1
  <2>2. QED
    BY <1>5, <2>1, <1>2, <1>3, <1>d
<1>6. CASE i # Len(t)
  <2>1. i \in 1 .. Len(rs) /\ t[i] = rs[i]
    BY <1>1, <1>6
  <2>2. /\ rs[i].count > 0
        /\ \A j \in 1 .. Len(rs) : i < j => End(rs[i]) <= rs[j].start
        /\ End(rs[i]) <= Begin(v) \/ (i = Len(rs) /\ Self(rs[i], v))
        /\ First(v) <= rs[i].start => Fits(rs[i], v, gone)
    BY <2>1 DEF Placed
  <2>3. i = Len(rs) => ~Self(rs[i], v)
    BY <2>1 DEF LastOf
  <2>4. End(rs[i]) <= Begin(v)
    BY <2>2, <2>3
  <2>5. ASSUME NEW j \in 1 .. Len(t), i < j PROVE End(rs[i]) <= t[j].start
    <3>1. CASE j = Len(t)
      BY <3>1, <2>4, <1>1, <1>d
    <3>2. CASE j # Len(t)
      <4>1. j \in 1 .. Len(rs) /\ t[j] = rs[j]
        BY <3>2, <1>1
      <4>2. QED
        BY <4>1, <2>2, <2>5
    <3>3. QED
      BY <3>1, <3>2
  <2>6. QED
    BY <1>6, <2>1, <2>2, <2>4, <2>5
<1>7. QED
  BY <1>5, <1>6

(***************************************************************************)
(* The places of the runs, now, in the newest record and in NVS.           *)
(***************************************************************************)

\* An index refers to what a record has saved.
Written ==
    /\ write \in Nat /\ durable.write \in Nat /\ durable.write <= write
    /\ \A i \in 1 .. Len(runs) : End(runs[i]) <= durable.write
    /\ \A i \in 1 .. Len(saved.runs) : End(saved.runs[i]) <= durable.write

Clean == pending = 0 /\ ~dirty /\ clearing # "prepare" => durable = Checkpoint(write)

\* The sampling clock has been told of every moment up to here.
Horizon == IF clock_started THEN last_sample ELSE now
Timely ==
    /\ clock_started \in BOOLEAN /\ last_sample \in Nat /\ last_sample <= now /\ lost \subseteq Nat
    /\ \A i \in 1 .. Len(log) : log[i] <= Horizon /\ (~clock_started => log[i] < now)
    /\ \A i \in 1 .. Len(durable.log) : durable.log[i] <= Horizon
    /\ \A m \in lost : m <= Horizon

Sampling ==
    /\ relative <=> clock_started
    /\ clock_started => run_count > 0 /\ ~force_new_run /\ clearing = "inactive"
    /\ ~clock_started => pending = 0
    /\ relative /\ last_epoch # 0 => clock /\ last_epoch = LastOf(log)
    /\ relative /\ last_epoch = 0 => \A m \in LastOf(log) + 1 .. last_sample : m \in lost
    /\ clearing = "prepare" => log = <<>> /\ pending = 0 /\ run_count = 0

Laid == Sound(Live, lost) /\ Sound(Kept(durable), lost)
Indexed ==
    /\ Placed(runs, Live, lost) /\ Placed(saved.runs, Live, lost)
    /\ Placed(saved.runs, Kept(durable), lost)

PlaceInv == RunsInv /\ Written /\ Clean /\ Timely /\ Sampling /\ Laid /\ Indexed

LEMMA ViewTypes ==
    ASSUME RunsTypeOK
    PROVE  /\ Live \in Views /\ Kept(durable) \in Views
           /\ Live.log = log /\ Live.end = write + pending /\ Live.count = run_count
           /\ Live.anchor = run_anchor /\ Live.over = force_new_run
           /\ \A u \in Records : /\ Kept(u) \in Views /\ Kept(u).log = u.log /\ Kept(u).end = u.write
                                 /\ Kept(u).count = u.run_count /\ Kept(u).anchor = u.run_anchor
                                 /\ Kept(u).over = TRUE
<1>1. HISTORY_CAPACITY \in Nat
  BY RunsAssumption
<1>2. \A u \in Records : Kept(u) \in Views
  BY <1>1 DEF Kept, Views, Records
<1>3. /\ log \in Seq(Moments) /\ write + pending \in Int /\ run_count \in Nat /\ run_anchor \in Int
      /\ force_new_run \in BOOLEAN
  BY <1>1 DEF RunsTypeOK
<1>4. Live \in Views
  BY <1>3 DEF Live, Views
<1>5. durable \in Records
  BY DEF RunsTypeOK
<1>6. QED
  BY <1>2, <1>4, <1>5 DEF Live, Kept

LEMMA ViewTypesHold ==
    RunsTypeOK => /\ Live \in Views /\ Live.log = log /\ Live.end = write + pending
                  /\ Live.count = run_count /\ Live.anchor = run_anchor /\ Live.over = force_new_run
BY ViewTypes

\* What a flush comes to: no sample changes its place, and a record that is written
\* says what there is.
LEMMA FlushPlaces ==
    ASSUME PlaceInv, clearing # "prepare", NEW r \in FlushResults \cup {AsIs(TRUE)}
    PROVE  /\ r.pending \in Nat /\ r.write \in Nat /\ r.write + r.pending = write + pending
           /\ r.pending <= pending /\ write <= r.write
           /\ r.durable \in {durable, Checkpoint(write + pending)}
           /\ r.durable.write \in Nat /\ durable.write <= r.durable.write /\ r.durable.write <= r.write
           /\ r.pending = 0 /\ ~r.dirty => r.durable = Checkpoint(r.write)
           /\ r \in FlushResults /\ r.ok =>
                 /\ r.pending = 0 /\ r.write = write + pending
                 /\ r.durable = Checkpoint(r.write) /\ r.durable.write = r.write
<1>1. /\ write \in Nat /\ pending \in Nat /\ durable.write \in Nat /\ durable.write <= write
      /\ dirty \in BOOLEAN
  BY DEF PlaceInv, Written, RunsInv, RunsTypeOK
<1>2. pending = 0 /\ ~dirty => durable = Checkpoint(write)
  BY DEF PlaceInv, Clean
<1>3. \A w : Checkpoint(w).write = w
  BY DEF Checkpoint
<1>4. CASE r = AsIs(TRUE)
  <2>1. r.pending = pending /\ r.write = write /\ r.dirty = dirty /\ r.durable = durable /\ r.ok = TRUE
    BY <1>4 DEF AsIs
  <2>2. r \in FlushResults => pending = 0 /\ ~dirty
    <3>1. SUFFICES ASSUME r \in FlushResults, ~(pending = 0 /\ ~dirty) PROVE FALSE
      OBVIOUS
    <3>2. r \in {Flushed, AsIs(FALSE), Unrecorded}
      BY <3>1 DEF FlushResults
    <3>3. r = Flushed
      <4>1. AsIs(FALSE).ok = FALSE /\ Unrecorded.ok = FALSE
        BY DEF AsIs, Unrecorded, Flushed
      <4>2. QED
        BY <3>2, <2>1, <4>1
    <3>4. r.pending = 0 /\ r.dirty = FALSE
      BY <3>3 DEF Flushed
    <3>5. QED
      BY <3>1, <3>4, <2>1
  <2>3. write + 0 = write /\ (pending = 0 => write + pending = write)
    BY <1>1
  <2>4. QED
    BY <1>1, <1>2, <1>3, <2>1, <2>2, <2>3
<1>5. CASE r = AsIs(FALSE)
  <2>1. r.pending = pending /\ r.write = write /\ r.dirty = dirty /\ r.durable = durable /\ r.ok = FALSE
    BY <1>5 DEF AsIs
  <2>2. QED
    BY <1>1, <1>2, <2>1
<1>6. CASE r = Flushed
  <2>1. /\ r.pending = 0 /\ r.write = write + pending /\ r.dirty = FALSE
        /\ r.durable = Checkpoint(write + pending) /\ r.ok = TRUE
    BY <1>6 DEF Flushed
  <2>2. QED
    BY <1>1, <1>3, <2>1
<1>7. CASE r = Unrecorded
  <2>1. /\ r.pending = 0 /\ r.write = write + pending /\ r.dirty = TRUE
        /\ r.durable = durable /\ r.ok = FALSE
    BY <1>7 DEF Unrecorded, Flushed
  <2>2. QED
    BY <1>1, <2>1
<1>8. r \in {AsIs(TRUE), AsIs(FALSE), Flushed, Unrecorded}
  BY DEF FlushResults
<1>9. QED
  BY <1>4, <1>5, <1>6, <1>7, <1>8

\* The record of a flush lies as the log does.
LEMMA RecordPlaces ==
    ASSUME PlaceInv, NEW u \in {durable, Checkpoint(write + pending)}
    PROVE  /\ u \in Records /\ Sound(Kept(u), lost) /\ Placed(saved.runs, Kept(u), lost)
           /\ \A i \in 1 .. Len(u.log) : u.log[i] <= Horizon
<1>1. CASE u = durable
  BY <1>1 DEF PlaceInv, Laid, Indexed, Timely, RunsInv, RunsTypeOK
<1>2. CASE u = Checkpoint(write + pending)
  <2>1. /\ u.log = log /\ u.write = write + pending /\ u.run_count = run_count
        /\ u.run_anchor = run_anchor
    BY <1>2 DEF Checkpoint
  <2>2. u \in Records
    <3>1. write + pending \in Int
      BY DEF PlaceInv, RunsInv, RunsTypeOK
    <3>2. QED
      BY <1>2, <3>1 DEF PlaceInv, RunsInv, RunsTypeOK, Checkpoint, Records
  <2>3. /\ Kept(u) \in Views /\ Kept(u).log = Live.log /\ Kept(u).end = Live.end
        /\ Kept(u).count = Live.count /\ Kept(u).anchor = Live.anchor /\ Kept(u).over = TRUE
        /\ Live \in Views
    BY <2>1, <2>2, ViewTypes DEF PlaceInv, RunsInv
  <2>4. Sound(Kept(u), lost) /\ Placed(saved.runs, Kept(u), lost)
    BY <2>3, PlacedOver DEF PlaceInv, Laid, Indexed
  <2>5. QED
    BY <2>1, <2>2, <2>4 DEF PlaceInv, Timely
<1>3. QED
  BY <1>1, <1>2

\* Nothing but what is in flash changes.
LEMMA FlushKeepsPlaces ==
    ASSUME PlaceInv, RunsInv', clearing # "prepare" \/ clearing' # "prepare",
           UNCHANGED <<now, clock, log, beatVars, runVars, indexVars, lost>>,
           write' + pending' = write + pending, pending' <= pending,
           write' \in Nat, write <= write',
           durable' \in {durable, Checkpoint(write + pending)},
           durable'.write \in Nat, durable.write <= durable'.write, durable'.write <= write',
           clearing' = "prepare" => clearing = "prepare" /\ clock_started = FALSE,
           clearing' \in {clearing, "erase", "inactive"}, clock_started => clearing' = "inactive",
           Clean'
    PROVE  PlaceInv'
<1> USE DEF beatVars, runVars, indexVars
<1>1. Live' = Live
  BY DEF Live
<1>2. /\ durable' \in Records /\ Sound(Kept(durable'), lost) /\ Placed(saved.runs, Kept(durable'), lost)
      /\ \A i \in 1 .. Len(durable'.log) : durable'.log[i] <= Horizon
  BY RecordPlaces
<1>3. Horizon' = Horizon
  BY DEF Horizon
<1>4. Written'
  <2>1. \A d \in TrueRuns : End(d) <= durable.write => End(d) <= durable'.write
    <3>1. \A d \in TrueRuns : End(d) \in Int
      BY DEF End, TrueRuns
    <3>2. durable.write \in Int /\ durable'.write \in Int
      BY DEF PlaceInv, Written
    <3>3. QED
      BY <3>1, <3>2
  <2>2. /\ \A i \in 1 .. Len(runs) : runs[i] \in TrueRuns
        /\ \A i \in 1 .. Len(saved.runs) : saved.runs[i] \in TrueRuns
    <3>1. runs \in Seq(TrueRuns) /\ saved.runs \in Seq(TrueRuns)
      BY DEF PlaceInv, RunsInv, RunsTypeOK
    <3>2. QED
      BY <3>1
  <2>3. QED
    BY <2>1, <2>2 DEF PlaceInv, Written
<1>5. Timely'
  BY <1>2, <1>3 DEF PlaceInv, Timely
<1>6. Sampling'
  <2>1. pending \in Nat /\ pending' \in Nat
    BY DEF PlaceInv, RunsInv, RunsTypeOK
  <2>2. pending = 0 => pending' = 0
    BY <2>1
  <2>3. QED
    BY <2>2 DEF PlaceInv, Sampling
<1>7. Laid' /\ Indexed'
  BY <1>1, <1>2 DEF PlaceInv, Laid, Indexed
<1>8. QED
  BY <1>4, <1>5, <1>6, <1>7 DEF PlaceInv

\* Samples that are dropped lie after all that is stored.
LEMMA DroppedPlaces ==
    ASSUME PlaceInv, RunsInv', NEW r \in FlushResults, Dropped(r),
           clock_started, last_sample < now, last_sample' = now,
           UNCHANGED <<now, clock, clock_started, interval, clearing>>
    PROVE  PlaceInv'
<1> DEFINE more == IF last_epoch = 0 THEN last_sample + 1 .. now ELSE {}
<1>1. /\ pending' = r.pending /\ write' = r.write /\ dirty' = r.dirty /\ durable' = r.durable
      /\ lost' = lost \cup more
      /\ UNCHANGED <<log, latest, run_count, run_anchor, last_epoch, relative, force_new_run, runs, saved>>
  BY DEF Dropped, FlushesTo, runVars, indexVars
<1>2. clearing = "inactive" /\ clearing' = "inactive" /\ last_sample \in Nat /\ now \in Nat
      /\ Horizon = last_sample /\ Horizon' = now
  BY DEF PlaceInv, Sampling, Timely, RunsInv, RunsTypeOK, Moments, Horizon
<1>3. /\ r.pending \in Nat /\ r.write \in Nat /\ r.write + r.pending = write + pending
      /\ r.durable \in {durable, Checkpoint(write + pending)}
      /\ r.durable.write \in Nat /\ durable.write <= r.durable.write /\ r.durable.write <= r.write
      /\ r.pending = 0 /\ ~r.dirty => r.durable = Checkpoint(r.write)
  BY <1>2, FlushPlaces
<1>4. more \subseteq Nat /\ \A m \in more : m \in Int /\ last_sample < m /\ m <= now
  BY <1>2
<1> HIDE DEF more
<1>5. /\ durable' \in Records /\ Sound(Kept(durable'), lost) /\ Placed(saved.runs, Kept(durable'), lost)
      /\ \A i \in 1 .. Len(durable'.log) : durable'.log[i] <= Horizon
  BY <1>1, <1>3, RecordPlaces
<1>6. /\ runs \in Seq(TrueRuns) /\ saved.runs \in Seq(TrueRuns) /\ log \in Seq(Moments)
      /\ RunsTypeOK /\ RunsTypeOK'
  BY DEF PlaceInv, RunsInv, RunsTypeOK
<1>7. /\ Live \in Views /\ Live.log = log
      /\ Kept(durable') \in Views /\ Kept(durable').log = durable'.log
  BY <1>5, <1>6, ViewTypes
<1>8. Live' = Live
  BY <1>1, <1>3 DEF Live
<1>9. \A m \in more : /\ m \in Int
                      /\ \A i \in 1 .. Len(Live.log) : Live.log[i] < m
                      /\ \A i \in 1 .. Len(Kept(durable').log) : Kept(durable').log[i] < m
  <2>1. /\ \A i \in 1 .. Len(log) : log[i] \in Nat /\ log[i] <= last_sample
        /\ \A i \in 1 .. Len(durable'.log) : durable'.log[i] \in Nat /\ durable'.log[i] <= last_sample
    <3>1. durable'.log \in Seq(Moments)
      BY <1>5 DEF Records
    <3>2. /\ \A i \in 1 .. Len(log) : log[i] \in Nat
          /\ \A i \in 1 .. Len(durable'.log) : durable'.log[i] \in Nat
      BY <1>6, <3>1 DEF Moments
    <3>3. \A i \in 1 .. Len(log) : log[i] <= last_sample
      BY <1>2 DEF PlaceInv, Timely
    <3>4. QED
      BY <3>2, <3>3, <1>5, <1>2
  <2>2. \A a, m \in Int : a <= last_sample /\ last_sample < m => a < m
    BY <1>2
  <2>3. SUFFICES ASSUME NEW m \in more
                 PROVE  /\ m \in Int
                        /\ \A i \in 1 .. Len(log) : log[i] < m
                        /\ \A i \in 1 .. Len(durable'.log) : durable'.log[i] < m
    BY <1>7
  <2>4. m \in Int /\ last_sample < m
    BY <1>4
  <2>5. QED
    BY <2>1, <2>2, <2>4
<1>10. /\ Sound(Live, lost') /\ Placed(runs, Live, lost') /\ Placed(saved.runs, Live, lost')
       /\ Sound(Kept(durable'), lost') /\ Placed(saved.runs, Kept(durable'), lost')
  <2>1. /\ Sound(Live, lost) /\ Placed(runs, Live, lost) /\ Placed(saved.runs, Live, lost)
    BY DEF PlaceInv, Laid, Indexed
  <2>2. Sound(Live, lost \cup more) /\ Placed(runs, Live, lost \cup more)
        /\ Placed(saved.runs, Live, lost \cup more)
    BY <1>6, <1>7, <1>9, <2>1, PlacedLater
  <2>3. Sound(Kept(durable'), lost \cup more) /\ Placed(saved.runs, Kept(durable'), lost \cup more)
    BY <1>5, <1>6, <1>7, <1>9, PlacedLater
  <2>4. QED
    BY <1>1, <2>2, <2>3
<1>11. Laid' /\ Indexed'
  BY <1>1, <1>8, <1>10 DEF Laid, Indexed
<1>12. Written'
  <2>1. \A d \in TrueRuns : End(d) <= durable.write => End(d) <= durable'.write
    <3>1. \A d \in TrueRuns : End(d) \in Int
      BY DEF End, TrueRuns
    <3>2. durable.write \in Int /\ durable'.write \in Int /\ durable.write <= durable'.write
      BY <1>1, <1>3 DEF PlaceInv, Written
    <3>3. QED
      BY <3>1, <3>2
  <2>2. /\ \A i \in 1 .. Len(runs) : runs[i] \in TrueRuns
        /\ \A i \in 1 .. Len(saved.runs) : saved.runs[i] \in TrueRuns
    BY <1>6
  <2>3. QED
    BY <2>1, <2>2, <1>1, <1>3 DEF PlaceInv, Written
<1>13. Clean'
  BY <1>1, <1>3 DEF Clean, Checkpoint
<1>14. Timely'
  <2>1. lost' \subseteq Nat /\ \A m \in lost' : m <= now
    <3>1. \A m \in lost : m \in Nat /\ m <= last_sample
      BY <1>2 DEF PlaceInv, Timely
    <3>2. \A m \in lost : m <= now
      BY <3>1, <1>2
    <3>3. QED
      BY <3>1, <3>2, <1>1, <1>4
  <2>2. \A a \in Int : a <= last_sample => a <= now
    BY <1>2
  <2>3. /\ \A i \in 1 .. Len(log) : log[i] \in Int /\ log[i] <= last_sample
        /\ \A i \in 1 .. Len(durable'.log) : durable'.log[i] \in Int /\ durable'.log[i] <= last_sample
    <3>1. durable'.log \in Seq(Moments)
      BY <1>5 DEF Records
    <3>2. /\ \A i \in 1 .. Len(log) : log[i] \in Int
          /\ \A i \in 1 .. Len(durable'.log) : durable'.log[i] \in Int
      BY <1>6, <3>1 DEF Moments
    <3>3. \A i \in 1 .. Len(log) : log[i] <= last_sample
      BY <1>2 DEF PlaceInv, Timely
    <3>4. QED
      BY <3>2, <3>3, <1>5, <1>2
  <2>4. clock_started' = TRUE /\ last_sample' \in Nat /\ last_sample' <= now'
    BY <1>2 DEF PlaceInv, Timely
  <2>5. QED
    BY <1>1, <1>2, <2>1, <2>2, <2>3, <2>4 DEF Timely
<1>15. Sampling'
  <2>1. relative' /\ last_epoch' = 0 => \A m \in LastOf(log') + 1 .. last_sample' : m \in lost'
    <3>1. SUFFICES ASSUME relative, last_epoch = 0, NEW m \in LastOf(log) + 1 .. now PROVE m \in lost'
      BY <1>1
    <3>2. \A k \in LastOf(log) + 1 .. last_sample : k \in lost
      BY <3>1 DEF PlaceInv, Sampling
    <3>3. more = last_sample + 1 .. now
      BY <3>1 DEF more
    <3>4. LastOf(log) \in Int
      <4>1. log # <<>>
        BY <3>1 DEF PlaceInv, RunsInv, Grows
      <4>2. QED
        BY <4>1, <1>6, LastOfMoments DEF Moments
    <3>5. m \in LastOf(log) + 1 .. last_sample \/ m \in last_sample + 1 .. now
      BY <3>4, <1>2
    <3>6. QED
      BY <3>2, <3>3, <3>5, <1>1
  <2>2. QED
    BY <2>1, <1>1, <1>2 DEF PlaceInv, Sampling
<1>16. QED
  BY <1>11, <1>12, <1>13, <1>14, <1>15 DEF PlaceInv

\* A run that ends is indexed where it lies.
LEMMA IndexPlaces ==
    ASSUME PlaceInv, clearing # "prepare", NEW r \in FlushResults, r.ok,
           run_count > 0, run_anchor # 0,
           Indexes([anchor |-> run_anchor, start |-> r.write - run_count, count |-> run_count,
                    newest |-> LastOf(log)])
    PROVE  /\ runs' \in Seq(TrueRuns) /\ saved'.runs \in Seq(TrueRuns)
           /\ Placed(runs', Kept(r.durable), lost) /\ Placed(saved'.runs, Kept(r.durable), lost)
           /\ \A i \in 1 .. Len(runs') : End(runs'[i]) <= r.durable.write
           /\ \A i \in 1 .. Len(saved'.runs) : End(saved'.runs[i]) <= r.durable.write
<1> DEFINE d == [anchor |-> run_anchor, start |-> r.write - run_count, count |-> run_count,
                 newest |-> LastOf(log)]
           v == Kept(r.durable)
<1>1. /\ r.pending = 0 /\ r.write \in Nat /\ r.write = write + pending
      /\ r.durable = Checkpoint(r.write) /\ r.durable \in {durable, Checkpoint(write + pending)}
      /\ r.durable.write = r.write /\ r.durable.write \in Nat /\ durable.write <= r.durable.write
  BY FlushPlaces
<1>2. /\ RunsInv /\ RunsTypeOK /\ run_count \in Nat /\ run_anchor \in Int /\ log \in Seq(Moments)
      /\ runs \in Seq(TrueRuns) /\ saved.runs \in Seq(TrueRuns)
  BY RunsAssumption DEF PlaceInv, RunsInv, RunsTypeOK
<1>3. d \in TrueRuns
  <2>1. LatestOf(run_anchor, run_count) = LastOf(log) /\ log # <<>>
    BY <1>2 DEF RunsInv, Current, Grows
  <2>2. LastOf(log) \in Int
    BY <2>1, <1>2, LastOfMoments DEF Moments
  <2>3. QED
    BY <1>1, <1>2, <2>1, <2>2 DEF TrueRuns
<1>4. /\ r.durable \in Records /\ Sound(v, lost) /\ Placed(saved.runs, v, lost)
  BY <1>1, RecordPlaces
<1>5. /\ v \in Views /\ v.log = log /\ v.end = r.write /\ v.count = run_count /\ v.anchor = run_anchor
      /\ v.over = TRUE
  <2>1. /\ v \in Views /\ v.log = r.durable.log /\ v.end = r.durable.write
        /\ v.count = r.durable.run_count /\ v.anchor = r.durable.run_anchor /\ v.over = TRUE
    BY <1>2, <1>4, ViewTypes
  <2>2. r.durable.log = log /\ r.durable.run_count = run_count /\ r.durable.run_anchor = run_anchor
    BY <1>1 DEF Checkpoint
  <2>3. QED
    BY <1>1, <2>1, <2>2
<1> HIDE DEF v
<1>6. Placed(runs, v, lost)
  <2>1. Live \in Views /\ Live.log = log /\ Live.end = write + pending /\ Live.count = run_count
        /\ Live.anchor = run_anchor
    BY <1>2, ViewTypes
  <2>2. Placed(runs, Live, lost)
    BY DEF PlaceInv, Indexed
  <2>3. QED
    BY <1>1, <1>5, <2>1, <2>2, PlacedOver
<1>7. /\ \A e \in TrueRuns : End(e) <= durable.write => End(e) <= r.durable.write
      /\ End(d) <= r.durable.write
  <2>1. \A e \in TrueRuns : End(e) \in Int
    BY DEF End, TrueRuns
  <2>2. durable.write \in Int
    BY DEF PlaceInv, Written
  <2>3. End(d) = r.write
    BY <1>1, <1>2 DEF End
  <2>4. QED
    BY <1>1, <2>1, <2>2, <2>3
<1>8. /\ \A i \in 1 .. Len(runs) : runs[i] \in TrueRuns /\ End(runs[i]) <= r.durable.write
      /\ \A i \in 1 .. Len(saved.runs) : saved.runs[i] \in TrueRuns /\ End(saved.runs[i]) <= r.durable.write
  <2>1. /\ \A i \in 1 .. Len(runs) : runs[i] \in TrueRuns
        /\ \A i \in 1 .. Len(saved.runs) : saved.runs[i] \in TrueRuns
    BY <1>2
  <2>2. /\ \A i \in 1 .. Len(runs) : End(runs[i]) <= durable.write
        /\ \A i \in 1 .. Len(saved.runs) : End(saved.runs[i]) <= durable.write
    BY DEF PlaceInv, Written
  <2>3. QED
    BY <2>1, <2>2, <1>7
<1>9. CASE UNCHANGED indexVars
  BY <1>2, <1>4, <1>6, <1>8, <1>9 DEF indexVars, v
<1>10. CASE /\ ~(runs # <<>> /\ SameRun(LastOf(runs), d))
            /\ runs' = Newest(RUN_INDEX_CAPACITY, Append(runs, d))
            /\ saved' \in Persisted(runs', interval)
  <2>1. runs # <<>> => ~Self(LastOf(runs), v)
    <3>1. SUFFICES ASSUME runs # <<>>, Self(LastOf(runs), v) PROVE SameRun(LastOf(runs), d)
      BY <1>10
    <3>2. /\ LastOf(runs).anchor = run_anchor /\ LastOf(runs).count = run_count
          /\ LastOf(runs).start = r.write - run_count
      BY <3>1, <1>5 DEF Self, Begin
    <3>3. QED
      BY <3>2 DEF SameRun
  <2>2. d = [anchor |-> v.anchor, start |-> Begin(v), count |-> v.count, newest |-> LastOf(v.log)]
    BY <1>5 DEF Begin
  <2>3. Placed(Append(runs, d), v, lost)
    <3> HIDE DEF d
    <3>1. QED
      BY <1>2, <1>3, <1>4, <1>5, <1>6, <2>1, <2>2, PlacedAppend
  <2>4. Append(runs, d) \in Seq(TrueRuns) /\ RUN_INDEX_CAPACITY \in Nat \ {0}
    BY <1>2, <1>3, RunsAssumption
  <2>5. Placed(runs', v, lost)
    BY <1>10, <2>3, <2>4, PlacedSuffix
  <2>6. runs' \in Seq(TrueRuns) /\ \A i \in 1 .. Len(runs') : End(runs'[i]) <= r.durable.write
    <3> DEFINE rs == Append(runs, d)
    <3>1. \A i \in 1 .. Len(rs) : End(rs[i]) <= r.durable.write
      <4>1. \A i \in 1 .. Len(rs) : rs[i] = d \/ \E j \in 1 .. Len(runs) : rs[i] = runs[j]
        BY <1>2
      <4>2. QED
        BY <4>1, <1>7, <1>8
    <3>2. \A i \in 1 .. Len(runs') : \E j \in 1 .. Len(rs) : runs'[i] = rs[j]
      <4>1. runs' = Newest(RUN_INDEX_CAPACITY, rs) /\ rs \in Seq(TrueRuns)
        BY <1>10, <2>4
      <4> HIDE DEF rs
      <4>2. QED
        BY <4>1, <2>4, NewestOf
    <3>3. runs' \in Seq(TrueRuns)
      BY <1>10, <1>3, <1>2, <2>4, NewestKeeps
    <3> HIDE DEF rs
    <3>4. QED
      BY <3>1, <3>2, <3>3
  <2>7. saved'.runs = runs' \/ saved'.runs = saved.runs
    BY <1>10 DEF Persisted
  <2>8. QED
    BY <1>2, <1>4, <1>8, <2>5, <2>6, <2>7 DEF v
<1>11. QED
  BY <1>9, <1>10 DEF Indexes

\* A sample begins a run or joins the one at the end, and all others stay in place.
LEMMA StoredPlaces ==
    ASSUME PlaceInv, RunsInv', NEW r \in FlushResults \cup {AsIs(TRUE)}, NEW new \in BOOLEAN,
           Stored(r, new), clearing = "inactive",
           new /\ run_count > 0 /\ run_anchor # 0 => r \in FlushResults,
           force_new_run => new, ~new => run_count > 0,
           ~new => relative,
           ~new => now \notin lost /\ \A m \in LastOf(log) + 1 .. now - 1 : m \in lost,
           \A i \in 1 .. Len(log) : log[i] < now,
           clock_started' = TRUE, last_sample' = now,
           UNCHANGED <<now, clock, interval, clearing>>
    PROVE  PlaceInv'
<1> DEFINE grown == MinOf(run_count + 1, HISTORY_CAPACITY)
           u == r.durable
<1>c. HISTORY_CAPACITY \in Nat \ {0}
  BY RunsAssumption
<1>t. /\ RunsTypeOK /\ RunsTypeOK' /\ log \in Seq(Moments) /\ now \in Moments /\ now \in Nat
      /\ run_count \in Nat /\ run_count <= HISTORY_CAPACITY /\ run_anchor \in Int
      /\ pending \in Nat /\ write \in Nat
      /\ runs \in Seq(TrueRuns) /\ saved.runs \in Seq(TrueRuns)
      /\ runs' \in Seq(TrueRuns) /\ saved'.runs \in Seq(TrueRuns)
  BY <1>c DEF PlaceInv, Written, RunsInv, RunsTypeOK, Moments
<1>1. /\ log' = Newest(HISTORY_CAPACITY, Append(log, now))
      /\ pending' = r.pending + 1 /\ write' = r.write /\ durable' = u
      /\ run_count' = (IF new THEN 1 ELSE grown)
      /\ relative' = TRUE /\ force_new_run' = FALSE /\ lost' = lost
  <2>1. (new \/ run_count = 0) <=> new
    BY <1>t
  <2>2. run_count' = IF new \/ run_count = 0 THEN 1 ELSE grown
    BY DEF Stored
  <2>3. run_count' = (IF new THEN 1 ELSE grown)
    BY <2>1, <2>2
  <2>4. QED
    BY <2>3 DEF Stored
<1>2. /\ r.pending \in Nat /\ r.write \in Nat /\ r.write + r.pending = write + pending
      /\ u \in {durable, Checkpoint(write + pending)}
      /\ u.write \in Nat /\ durable.write <= u.write /\ u.write <= r.write
  BY FlushPlaces
<1>3. u \in Records /\ Sound(Kept(u), lost) /\ Placed(saved.runs, Kept(u), lost)
      /\ \A i \in 1 .. Len(u.log) : u.log[i] <= Horizon
  BY <1>2, RecordPlaces
<1>4. /\ Live \in Views /\ Live.log = log /\ Live.end = write + pending /\ Live.count = run_count
      /\ Live.over = force_new_run
      /\ Kept(u) \in Views /\ Kept(u).log = u.log /\ Kept(u).end = u.write
      /\ Kept(u).count = u.run_count /\ Kept(u).over = TRUE
  BY <1>3, <1>t, ViewTypes
<1>5. /\ Live' \in Views /\ Live'.log = log' /\ Live'.end = write' + pending' /\ Live'.count = run_count'
  <2>1. (Live \in Views /\ Live.log = log /\ Live.end = write + pending /\ Live.count = run_count)'
    BY <1>t, ViewTypesHold, PTL
  <2>2. QED
    BY <2>1
<1>6. /\ Sound(Live, lost) /\ Placed(runs, Live, lost) /\ Placed(saved.runs, Live, lost)
  BY DEF PlaceInv, Laid, Indexed
<1>7. Len(log) <= HISTORY_CAPACITY /\ run_count <= Len(log)
  BY <1>4, <1>6 DEF Sound
<1>8. PICK q \in {0, 1} : /\ Slid(log, log', now, q)
                          /\ q = 1 <=> Len(log) = HISTORY_CAPACITY
                          /\ Len(log') <= HISTORY_CAPACITY
  BY <1>1, <1>c, <1>t, <1>7, WindowSlides
<1>9. Live'.end = Live.end + 1
  <2>1. Live'.end = r.write + (r.pending + 1)
    BY <1>1, <1>5
  <2>2. r.write + (r.pending + 1) = (r.write + r.pending) + 1
    BY <1>2
  <2>3. QED
    BY <2>1, <2>2, <1>2, <1>4
<1>10. /\ Begin(Live) = write + pending - run_count
       /\ Begin(Live') = write + pending + 1 - run_count'
  <2>1. Begin(Live) = Live.end - Live.count /\ Begin(Live') = Live'.end - Live'.count
    BY DEF Begin
  <2>2. Live'.end = write + pending + 1 /\ Live'.count = run_count'
    BY <1>4, <1>5, <1>9
  <2>3. Live.end = write + pending /\ Live.count = run_count
    BY <1>4
  <2>a. run_count' \in Int /\ write \in Int /\ pending \in Int
    BY <1>t DEF RunsTypeOK
  <2>4. Begin(Live') = write + pending + 1 - run_count'
    BY <2>1, <2>2, <2>a
  <2>5. Begin(Live) = write + pending - run_count
    BY <2>1, <2>3, <1>t
  <2>6. QED
    BY <2>4, <2>5
<1>11. /\ Begin(Live) <= Begin(Live') /\ (new => Begin(Live') = Live.end)
  <2>1. new => run_count' = 1
    BY <1>1
  <2>2. ~new => run_count' <= run_count + 1 /\ run_count' \in Nat
    BY <1>1, <1>t, <1>c DEF MinOf
  <2>3. CASE new
    BY <2>1, <2>3, <1>10, <1>4, <1>t
  <2>4. CASE ~new
    BY <2>2, <2>4, <1>10, <1>t
  <2>5. QED
    BY <2>3, <2>4
<1>12. Live.over => Live.end <= Begin(Live')
  <2>1. SUFFICES ASSUME new PROVE Live.end <= Begin(Live')
    BY <1>4
  <2>2. QED
    BY <1>11, <1>4, <1>t, <2>1
<1>13. /\ Placed(runs, Live', lost) /\ Placed(saved.runs, Live', lost)
  BY <1>4, <1>5, <1>6, <1>8, <1>9, <1>11, <1>12, <1>t, PlacedSlides
<1>14. Sound(Live', lost)
  <2>1. \/ Live'.count = 1
        \/ /\ Live.count > 0 /\ Live'.count = MinOf(Live.count + 1, HISTORY_CAPACITY)
           /\ now \notin lost /\ \A m \in LastOf(Live.log) + 1 .. now - 1 : m \in lost
    BY <1>1, <1>4, <1>5
  <2>2. \A i \in 1 .. Len(Live.log) : Live.log[i] < now
    BY <1>4
  <2>3. Slid(Live.log, Live'.log, now, q) /\ Len(Live'.log) <= HISTORY_CAPACITY
        /\ (q = 1 <=> Len(Live.log) = HISTORY_CAPACITY)
    BY <1>4, <1>5, <1>8
  <2> HIDE DEF u
  <2>4. QED
    BY <1>4, <1>5, <1>6, <1>c, <1>t, <2>1, <2>2, <2>3, SoundSlides
<1>15. Laid'
  BY <1>1, <1>3, <1>14 DEF Laid
<1>16. /\ Placed(runs', Live', lost) /\ Placed(saved'.runs, Live', lost)
       /\ Placed(saved'.runs, Kept(u), lost)
       /\ \A i \in 1 .. Len(runs') : End(runs'[i]) <= u.write
       /\ \A i \in 1 .. Len(saved'.runs) : End(saved'.runs[i]) <= u.write
  <2>1. CASE UNCHANGED indexVars
    <3>1. runs' = runs /\ saved' = saved
      BY <2>1 DEF indexVars
    <3>2. \A d \in TrueRuns : End(d) <= durable.write => End(d) <= u.write
      <4>1. \A d \in TrueRuns : End(d) \in Int
        BY DEF End, TrueRuns
      <4>2. durable.write \in Int
        BY DEF PlaceInv, Written
      <4>3. QED
        BY <4>1, <4>2, <1>2
    <3>3. /\ \A i \in 1 .. Len(runs) : runs[i] \in TrueRuns
          /\ \A i \in 1 .. Len(saved.runs) : saved.runs[i] \in TrueRuns
      BY <1>t
    <3>4. QED
      BY <3>1, <3>2, <3>3, <1>3, <1>13 DEF PlaceInv, Written
  <2>2. CASE /\ new /\ run_count > 0 /\ run_anchor # 0 /\ r.ok
             /\ Indexes([anchor |-> run_anchor, start |-> r.write - run_count, count |-> run_count,
                         newest |-> LastOf(log)])
    <3>1. r \in FlushResults
      BY <2>2
    <3>2. /\ Placed(runs', Kept(u), lost) /\ Placed(saved'.runs, Kept(u), lost)
          /\ \A i \in 1 .. Len(runs') : End(runs'[i]) <= u.write
          /\ \A i \in 1 .. Len(saved'.runs) : End(saved'.runs[i]) <= u.write
      BY <2>2, <3>1, IndexPlaces
    <3>3. /\ r.write = write + pending /\ u = Checkpoint(r.write) /\ u.write = r.write
      BY <2>2, <3>1, FlushPlaces
    <3>4. Kept(u).log = log /\ Kept(u).end = write + pending /\ Kept(u).count = run_count
      BY <3>3, <1>4 DEF Checkpoint
    <3>5. Begin(Kept(u)) = Begin(Live)
      BY <3>4, <1>4 DEF Begin
    <3>6. /\ Begin(Kept(u)) <= Begin(Live') /\ Kept(u).end <= Begin(Live')
          /\ Live'.end = Kept(u).end + 1 /\ Slid(Kept(u).log, Live'.log, now, q)
      <4>1. Begin(Live') = Live.end /\ Live.end \in Int
        BY <2>2, <1>11, <1>4, <1>t
      <4>2. QED
        BY <4>1, <3>4, <3>5, <1>4, <1>5, <1>8, <1>9, <1>11
    <3>7. Placed(runs', Live', lost) /\ Placed(saved'.runs, Live', lost)
      BY <3>2, <3>6, <1>3, <1>4, <1>5, <1>t, PlacedSlides
    <3>8. QED
      BY <3>2, <3>7
  <2>3. QED
    BY <2>1, <2>2 DEF Stored
<1>17. Indexed'
  BY <1>1, <1>16 DEF Indexed
<1>18. Written'
  BY <1>1, <1>2, <1>16 DEF Written
<1>19. Clean'
  <2>1. pending' # 0
    BY <1>1, <1>2
  <2>2. QED
    BY <2>1 DEF Clean
<1>20. Timely'
  <2>1. Horizon' = now /\ Horizon \in Nat /\ Horizon <= now
    BY <1>t DEF PlaceInv, Timely, Horizon
  <2>2. \A i \in 1 .. Len(log') : log'[i] <= now
    <3>1. \A i \in 1 .. Len(log) : log[i] \in Nat /\ log[i] <= now
      <4>1. \A i \in 1 .. Len(log) : log[i] \in Nat
        BY <1>t DEF Moments
      <4>2. QED
        BY <4>1, <1>t
    <3>2. \A i \in 1 .. Len(log') : log'[i] = now \/ \E j \in 1 .. Len(log) : log'[i] = log[j]
      <4>1. Append(log, now) \in Seq(Moments)
        BY <1>t
      <4>2. \A i \in 1 .. Len(log') : \E j \in 1 .. Len(Append(log, now)) : log'[i] = Append(log, now)[j]
        <5> DEFINE s == Append(log, now)
        <5>1. s \in Seq(Moments) /\ log' = Newest(HISTORY_CAPACITY, s)
          BY <4>1, <1>1
        <5> HIDE DEF s
        <5>2. \A i \in 1 .. Len(log') : \E j \in 1 .. Len(s) : log'[i] = s[j]
          BY <5>1, <1>c, NewestOf
        <5>3. QED
          BY <5>2 DEF s
      <4>3. \A j \in 1 .. Len(Append(log, now)) :
               Append(log, now)[j] = now \/ \E k \in 1 .. Len(log) : Append(log, now)[j] = log[k]
        BY <1>t
      <4> DEFINE s == Append(log, now)
      <4> HIDE DEF s
      <4>4. QED
        BY <4>2, <4>3 DEF s
    <3>3. QED
      BY <3>1, <3>2, <1>t
  <2>3. \A i \in 1 .. Len(u.log) : u.log[i] <= now
    <3>1. \A i \in 1 .. Len(u.log) : u.log[i] \in Nat
      <4>1. u.log \in Seq(Moments)
        BY <1>3 DEF Records
      <4>2. QED
        BY <4>1 DEF Moments
    <3>2. \A a \in Nat : a <= Horizon => a <= now
      BY <2>1, <1>t
    <3>3. QED
      BY <3>1, <3>2, <1>3
  <2>4. lost \subseteq Nat /\ \A m \in lost : m <= now
    <3>1. lost \subseteq Nat /\ \A m \in lost : m \in Nat /\ m <= Horizon
      BY DEF PlaceInv, Timely
    <3>2. \A a \in Nat : a <= Horizon => a <= now
      BY <2>1, <1>t
    <3>3. QED
      BY <3>1, <3>2
  <2>5. last_sample' \in Nat /\ last_sample' <= now' /\ now' = now /\ clock_started' = TRUE
    BY <1>t
  <2>6. QED
    BY <1>1, <2>1, <2>2, <2>3, <2>4, <2>5 DEF Timely
<1>21. Sampling'
  <2>1. run_count' > 0
    BY <1>1, <1>t, <1>c DEF MinOf
  <2>2. LastOf(log') = now
    BY <1>1, <1>t, <1>c, NewestKeeps
  <2>3. last_epoch' = IF Epoch # 0 THEN Epoch ELSE IF ~new /\ last_epoch # 0 THEN last_epoch + 1 ELSE 0
    BY DEF Stored
  <2>4. Epoch \in Nat /\ (Epoch # 0 => Epoch = now /\ clock)
    BY <1>t, EpochType
  <2>5. last_epoch' # 0 => clock /\ last_epoch' = now
    <3>1. CASE Epoch # 0
      BY <3>1, <2>3, <2>4
    <3>2. CASE Epoch = 0 /\ ~new /\ last_epoch # 0
      <4>1. clock
        BY <3>2 DEF PlaceInv, Sampling
      <4>2. Epoch = now /\ now # 0
        BY <4>1, <1>t DEF Epoch, Moments
      <4>3. QED
        BY <3>2, <4>2
    <3>3. CASE Epoch = 0 /\ (new \/ last_epoch = 0)
      BY <3>3, <2>3
    <3>4. QED
      BY <3>1, <3>2, <3>3
  <2>6. LastOf(log') + 1 .. last_sample' = {}
    BY <2>2, <1>t
  <2>7. clearing' = "inactive" /\ clock_started' = TRUE /\ relative' = TRUE /\ force_new_run' = FALSE
        /\ clock' = clock
    BY <1>1
  <2>8. QED
    BY <2>1, <2>2, <2>5, <2>6, <2>7 DEF Sampling
<1>22. QED
  BY <1>15, <1>17, <1>18, <1>19, <1>20, <1>21 DEF PlaceInv

LEMMA FirstSamplePlaces == ASSUME PlaceInv, RunsInv', FirstSample PROVE PlaceInv'
<1> DEFINE due_new == force_new_run \/ run_count = 0
           stamped == run_count > 0 /\ last_epoch # 0 /\ Epoch # 0
           new == due_new \/ (stamped /\ (FALSE \/ Epoch # last_epoch + 1))
           full == pending = PENDING_CAPACITY
           ends == new /\ run_count > 0 /\ run_anchor # 0
<1>1. /\ clearing = "inactive" /\ ~clock_started /\ clock_started' = TRUE /\ last_sample' = now
      /\ CommitSample(due_new, FALSE)
      /\ UNCHANGED <<now, clock, interval, clearing>>
  BY DEF FirstSample, clockVars
<1>2. PICK r \in IF full \/ ends THEN FlushResults ELSE {AsIs(TRUE)} :
         IF full /\ ~r.ok THEN Dropped(r) ELSE Stored(r, new)
  BY <1>1 DEF CommitSample
<1>3. ~full
  <2>1. pending = 0
    BY <1>1 DEF PlaceInv, Sampling
  <2>2. PENDING_CAPACITY # 0
    BY RunsAssumption
  <2>3. QED
    BY <2>1, <2>2
<1>4. Stored(r, new) /\ r \in FlushResults \cup {AsIs(TRUE)} /\ (ends => r \in FlushResults)
  BY <1>2, <1>3
<1>5. force_new_run \in BOOLEAN /\ run_count \in Nat /\ (run_count > 0 /\ ~force_new_run => relative)
      /\ (relative => clock_started)
  BY RunsAssumption DEF PlaceInv, RunsInv, RunsTypeOK, Grows, Sampling
<1>6. new
  <2>1. run_count = 0 \/ run_count > 0
    BY <1>5
  <2>2. QED
    BY <1>1, <1>5, <2>1
<1>7. \A i \in 1 .. Len(log) : log[i] < now
  BY <1>1 DEF PlaceInv, Timely
<1>8. new \in BOOLEAN
  BY <1>6
<1> HIDE DEF new
<1>9. QED
  BY <1>1, <1>4, <1>6, <1>7, <1>8, StoredPlaces

LEMMA NextSamplePlaces == ASSUME PlaceInv, RunsInv', NextSample PROVE PlaceInv'
<1>1. PICK corrected \in BOOLEAN : CommitSample(force_new_run \/ CadenceGap, corrected)
  BY DEF NextSample
<1> DEFINE due_new == force_new_run \/ CadenceGap
           stamped == run_count > 0 /\ last_epoch # 0 /\ Epoch # 0
           new == due_new \/ (stamped /\ (corrected \/ Epoch # last_epoch + 1))
           full == pending = PENDING_CAPACITY
           ends == new /\ run_count > 0 /\ run_anchor # 0
<1>2. /\ clearing = "inactive" /\ clock_started /\ clock_started' = clock_started
      /\ last_sample < now /\ last_sample' = now /\ UNCHANGED <<now, clock, interval, clearing>>
  <2>1. last_sample \in Int /\ now \in Int /\ now > last_sample
    BY DEF NextSample, PlaceInv, Timely, RunsInv, RunsTypeOK, Moments
  <2>2. QED
    BY <2>1 DEF NextSample, clockVars
<1>3. PICK r \in IF full \/ ends THEN FlushResults ELSE {AsIs(TRUE)} :
         IF full /\ ~r.ok THEN Dropped(r) ELSE Stored(r, new)
  BY <1>1 DEF CommitSample
<1>4. clock_started = TRUE /\ clock_started' = TRUE /\ run_count > 0 /\ ~force_new_run /\ relative
  BY <1>2 DEF PlaceInv, Sampling, Timely
<1>5. CASE full /\ ~r.ok
  <2>1. r \in FlushResults /\ Dropped(r)
    BY <1>3, <1>5
  <2>2. QED
    BY <1>2, <1>4, <2>1, DroppedPlaces
<1>6. CASE ~(full /\ ~r.ok)
  <2>1. Stored(r, new) /\ r \in FlushResults \cup {AsIs(TRUE)} /\ (ends => r \in FlushResults)
    BY <1>3, <1>6
  <2>t. last_sample \in Nat /\ now \in Nat /\ now > 0 /\ log \in Seq(Moments) /\ log # <<>>
        /\ LastOf(log) \in Nat /\ Horizon = last_sample
    <3>1. log # <<>> /\ log \in Seq(Moments)
      BY <1>4 DEF PlaceInv, RunsInv, RunsTypeOK, Grows
    <3>2. QED
      <4>1. last_sample \in Nat
        BY DEF PlaceInv, Timely
      <4>2. now \in Nat /\ now > 0
        <5>1. now \in Moments
          BY DEF PlaceInv, RunsInv, RunsTypeOK
        <5>2. QED
          BY <5>1 DEF Moments
      <4>3. LastOf(log) \in Nat
        BY <3>1, LastOfMoments DEF Moments
      <4>4. Horizon = last_sample
        BY <1>4 DEF Horizon
      <4>5. QED
        BY <3>1, <4>1, <4>2, <4>3, <4>4
  <2>2. \A i \in 1 .. Len(log) : log[i] < now
    <3>1. \A i \in 1 .. Len(log) : log[i] \in Nat
      BY <2>t DEF Moments
    <3>2. \A i \in 1 .. Len(log) : log[i] <= last_sample
      BY <2>t DEF PlaceInv, Timely
    <3>3. QED
      BY <1>2, <2>t, <3>1, <3>2
  <2>3. ASSUME ~new PROVE now \notin lost /\ \A m \in LastOf(log) + 1 .. now - 1 : m \in lost
    <3>1. now = last_sample + 1
      BY <2>3, <1>2, <2>t DEF CadenceGap
    <3>2. now \notin lost
      <4>1. \A m \in lost : m <= last_sample
        BY <2>t DEF PlaceInv, Timely
      <4>2. ~(now <= last_sample)
        BY <3>1, <2>t
      <4>3. QED
        BY <4>1, <4>2
    <3>3. CASE last_epoch = 0
      <4>1. \A m \in LastOf(log) + 1 .. last_sample : m \in lost
        BY <3>3, <1>4 DEF PlaceInv, Sampling
      <4>2. now - 1 = last_sample
        BY <3>1, <2>t
      <4>3. QED
        BY <3>2, <4>1, <4>2
    <3>4. CASE last_epoch # 0
      <4>1. clock /\ last_epoch = LastOf(log)
        BY <3>4, <1>4 DEF PlaceInv, Sampling
      <4>2. Epoch = now /\ Epoch # 0
        BY <4>1, <2>t DEF Epoch
      <4>3. now = last_epoch + 1
        BY <2>3, <3>4, <4>2, <1>4
      <4>4. LastOf(log) + 1 .. now - 1 = {}
        BY <4>1, <4>3, <2>t
      <4>5. QED
        BY <3>2, <4>4
    <3>5. QED
      BY <3>3, <3>4
  <2>4. new \in BOOLEAN /\ (force_new_run => new)
    OBVIOUS
  <2> HIDE DEF new
  <2>5. QED
    BY <1>2, <1>4, <2>1, <2>2, <2>3, <2>4, StoredPlaces
<1>7. QED
  BY <1>5, <1>6

LEMMA FlushTickPlaces == ASSUME PlaceInv, RunsInv', FlushTick PROVE PlaceInv'
<1>1. PICK r \in FlushResults : FlushesTo(r)
  BY DEF FlushTick
<1>2. /\ clearing = "inactive" /\ clearing' = "inactive"
      /\ UNCHANGED <<now, clock, log, interval, beatVars, runVars, indexVars, lost>>
  BY DEF FlushTick, clockVars
<1>3. pending' = r.pending /\ write' = r.write /\ dirty' = r.dirty /\ durable' = r.durable
  BY <1>1 DEF FlushesTo
<1>4. /\ r.pending \in Nat /\ r.write \in Nat /\ r.write + r.pending = write + pending
      /\ r.pending <= pending /\ write <= r.write
      /\ r.durable \in {durable, Checkpoint(write + pending)}
      /\ r.durable.write \in Nat /\ durable.write <= r.durable.write /\ r.durable.write <= r.write
      /\ r.pending = 0 /\ ~r.dirty => r.durable = Checkpoint(r.write)
  BY <1>2, FlushPlaces
<1>5. Clean'
  BY <1>2, <1>3, <1>4 DEF Clean, Checkpoint, runVars
<1>6. QED
  BY <1>2, <1>3, <1>4, <1>5, FlushKeepsPlaces

LEMMA ClearPlaces == ASSUME PlaceInv, RunsInv', ClearPrepare \/ ClearErase PROVE PlaceInv'
<1>1. /\ UNCHANGED <<now, clock, log, interval, beatVars, runVars, indexVars, lost, pending, write>>
  BY DEF ClearPrepare, ClearErase, clockVars, storeVars
<1>2. /\ clearing # "inactive" /\ (clock_started => clearing = "inactive")
      /\ (clearing = "prepare" => pending = 0)
      /\ clock_started \in BOOLEAN /\ write \in Nat /\ pending \in Nat
      /\ durable.write \in Nat /\ durable.write <= write
  BY DEF ClearPrepare, ClearErase, PlaceInv, Sampling, Timely, Written, RunsInv, RunsTypeOK
<1>3. clock_started = FALSE
  BY <1>2
<1>4. CASE /\ clearing = "prepare" /\ clearing' = "erase" /\ durable' = Checkpoint(write) /\ dirty' = FALSE
  <2>1. durable' = Checkpoint(write + pending) /\ durable'.write = write
    BY <1>2, <1>4 DEF Checkpoint
  <2>2. Clean'
    BY <1>1, <1>4 DEF Clean, Checkpoint, runVars
  <2>3. QED
    BY <1>1, <1>2, <1>3, <1>4, <2>1, <2>2, FlushKeepsPlaces
<1>5. CASE clearing = "prepare" /\ clearing' = "prepare" /\ durable' = durable
  <2>1. Clean'
    BY <1>5 DEF Clean
  <2>2. Laid' /\ Indexed' /\ Written' /\ Timely' /\ Sampling'
    <3>1. Live' = Live /\ Horizon' = Horizon
      BY <1>1 DEF Live, Horizon, beatVars, runVars
    <3>2. QED
      BY <1>1, <1>5, <3>1 DEF PlaceInv, Laid, Indexed, Written, Timely, Sampling,
                              beatVars, runVars, indexVars
  <2>3. QED
    BY <2>1, <2>2 DEF PlaceInv
<1>6. CASE clearing = "erase" /\ clearing' = "inactive" /\ UNCHANGED <<durable, dirty>>
  <2>1. Clean'
    BY <1>1, <1>6 DEF PlaceInv, Clean, Checkpoint, runVars
  <2>2. QED
    BY <1>1, <1>2, <1>3, <1>6, <2>1, FlushKeepsPlaces
<1>7. QED
  BY <1>4, <1>5, <1>6 DEF ClearPrepare, ClearErase, storeVars

LEMMA TimePlaces == ASSUME PlaceInv, RunsInv', Tick \/ ClockArrives PROVE PlaceInv'
<1>1. /\ UNCHANGED <<log, pending, write, dirty, durable, interval, clock_started, last_sample,
                     run_count, run_anchor, last_epoch, relative, force_new_run, runs, saved,
                     clearing, lost>>
  BY DEF Tick, ClockArrives, storeVars, beatVars, runVars, indexVars
<1>2. now \in Nat /\ now' \in Nat /\ now <= now' /\ (clock => clock')
  <2>1. now \in Nat
    BY DEF PlaceInv, RunsInv, RunsTypeOK, Moments
  <2>2. CASE Tick
    <3>1. now' = now + 1 /\ clock' = clock
      BY <2>2 DEF Tick
    <3>2. QED
      BY <2>1, <3>1
  <2>3. CASE ClockArrives
    <3>1. now' = now /\ clock'
      BY <2>3 DEF ClockArrives
    <3>2. QED
      BY <2>1, <3>1
  <2>4. QED
    BY <2>2, <2>3
<1>3. Live' = Live
  BY <1>1 DEF Live
<1>4. Written' /\ Clean' /\ Laid' /\ Indexed' /\ Sampling'
  BY <1>1, <1>2, <1>3 DEF PlaceInv, Written, Clean, Checkpoint, Laid, Indexed, Sampling
<1>5. Timely'
  <2>1. /\ \A i \in 1 .. Len(log) : log[i] \in Nat
        /\ \A i \in 1 .. Len(durable.log) : durable.log[i] \in Nat
        /\ lost \subseteq Nat
    <3>1. log \in Seq(Moments) /\ durable.log \in Seq(Moments)
      BY DEF PlaceInv, RunsInv, RunsTypeOK, Records
    <3>2. QED
      BY <3>1 DEF PlaceInv, Timely, Moments
  <2>2. Horizon \in Nat /\ Horizon' \in Nat /\ Horizon <= Horizon'
    BY <1>1, <1>2 DEF PlaceInv, Timely, Horizon
  <2>3. \A a \in Nat : (a <= Horizon => a <= Horizon') /\ (a < now => a < now')
    BY <2>2, <1>2
  <2>4. last_sample <= now'
    BY <1>2 DEF PlaceInv, Timely
  <2>5. QED
    BY <1>1, <2>1, <2>3, <2>4 DEF PlaceInv, Timely
<1>6. QED
  BY <1>4, <1>5 DEF PlaceInv

LEMMA StillPlaces ==
    ASSUME PlaceInv, RunsInv',
           UNCHANGED <<clockVars, storeVars, beatVars, runVars, indexVars, clearing, lost>>
    PROVE  PlaceInv'
<1> USE DEF clockVars, storeVars, beatVars, runVars, indexVars
<1>1. Live' = Live /\ Horizon' = Horizon
  BY DEF Live, Horizon
<1>2. Written' /\ Clean' /\ Laid' /\ Indexed'
  BY <1>1 DEF PlaceInv, Written, Clean, Checkpoint, Laid, Indexed
<1>3. Sampling' /\ Timely'
  BY <1>1 DEF PlaceInv, Sampling, Timely
<1>4. QED
  BY <1>2, <1>3 DEF PlaceInv

\* The next multiple of the ring's size is not below.
LEMMA RoundedUp ==
    ASSUME NEW w \in Nat, NEW n \in Nat \ {0}
    PROVE  LET x == IF w = 0 THEN 0 ELSE (((w - 1) \div n) + 1) * n IN x \in Nat /\ w <= x
<1>1. CASE w = 0
  BY <1>1
<1>2. CASE w > 0
  <2> DEFINE q == (w - 1) \div n
  <2>1. q \in Nat /\ w - 1 = q * n + ((w - 1) % n) /\ (w - 1) % n \in 0 .. n - 1
    BY <1>2
  <2> HIDE DEF q
  <2>2. (q + 1) * n = q * n + n /\ q * n \in Nat /\ (q + 1) * n \in Nat
    BY <2>1
  <2>3. w <= (q + 1) * n
    BY <1>2, <2>1, <2>2
  <2>4. QED
    BY <1>2, <2>2, <2>3 DEF q
<1>3. QED
  BY <1>1, <1>2

LEMMA SetIntervalPlaces == ASSUME PlaceInv, RunsInv', NEW i \in Intervals, SetInterval(i) PROVE PlaceInv'
<1>1. /\ UNCHANGED <<now, clock, durable, lost>> /\ log' = <<>> /\ pending' = 0
      /\ run_count' = 0 /\ run_anchor' = 0 /\ last_epoch' = 0 /\ relative' = FALSE
      /\ force_new_run' = FALSE /\ clock_started' = FALSE /\ last_sample' = 0
      /\ runs' = <<>> /\ saved' \in Persisted(<<>>, i) /\ clearing' = "prepare"
      /\ write' = IF write = 0 THEN 0 ELSE (((write - 1) \div FLASH_CAPACITY) + 1) * FLASH_CAPACITY
  BY DEF SetInterval, NoRun, clockVars
<1>2. /\ write \in Nat /\ durable.write \in Nat /\ durable.write <= write
      /\ now \in Nat /\ clock_started \in BOOLEAN /\ durable \in Records
      /\ saved.runs \in Seq(TrueRuns) /\ RunsTypeOK /\ RunsTypeOK'
  BY DEF PlaceInv, Written, Timely, RunsInv, RunsTypeOK, Moments
<1>3. write' \in Nat /\ write <= write'
  BY <1>1, <1>2, RoundedUp, RunsAssumption
<1>4. saved'.runs = saved.runs \/ saved'.runs = <<>>
  BY <1>1 DEF Persisted
<1>5. /\ Live' \in Views /\ Live'.log = <<>> /\ Live'.end = write' + 0 /\ Live'.count = 0
  <2>1. (Live \in Views /\ Live.log = log /\ Live.end = write + pending /\ Live.count = run_count)'
    BY <1>2, ViewTypesHold, PTL
  <2>2. QED
    BY <2>1, <1>1
<1>6. Live'.end = write'
  <2>1. write' + 0 = write'
    <3>1. \A x \in Nat : x + 0 = x
      OBVIOUS
    <3>2. write' \in Nat
      BY <1>3
    <3>3. QED
      BY <3>1, <3>2
  <2>2. QED
    BY <1>5, <2>1
<1>7. /\ Placed(saved.runs, Live, lost) /\ Placed(saved.runs, Kept(durable), lost)
      /\ Sound(Kept(durable), lost) /\ Live \in Views
  BY <1>2, ViewTypes DEF PlaceInv, Laid, Indexed
<1>8. \A k \in 1 .. Len(saved.runs) : End(saved.runs[k]) <= durable.write /\ End(saved.runs[k]) <= write'
  <2>1. \A k \in 1 .. Len(saved.runs) : saved.runs[k] \in TrueRuns
    BY <1>2
  <2>2. \A d \in TrueRuns : End(d) \in Int
    BY DEF End, TrueRuns
  <2>3. \A k \in 1 .. Len(saved.runs) : End(saved.runs[k]) <= durable.write
    BY DEF PlaceInv, Written
  <2>4. \A e \in Int : e <= durable.write => e <= write'
    BY <1>2, <1>3
  <2>5. QED
    BY <2>1, <2>2, <2>3, <2>4
<1>9. Placed(saved.runs, Live', lost)
  BY <1>2, <1>5, <1>6, <1>7, <1>8, PlacedBefore
<1>10. \A v : Placed(<<>>, v, lost)
  BY DEF Placed
<1>11. Sound(Live', lost)
  BY <1>5, RunsAssumption DEF Sound
<1>12. Laid' /\ Indexed'
  BY <1>1, <1>4, <1>7, <1>9, <1>10, <1>11 DEF Laid, Indexed
<1>13. Written'
  <2>1. durable.write <= write'
    BY <1>2, <1>3
  <2>2. /\ \A k \in 1 .. Len(runs') : End(runs'[k]) <= durable.write
        /\ \A k \in 1 .. Len(saved'.runs) : End(saved'.runs[k]) <= durable.write
    BY <1>1, <1>4, <1>8
  <2>3. QED
    BY <1>1, <1>2, <1>3, <2>1, <2>2 DEF Written
<1>14. Clean'
  BY <1>1 DEF Clean
<1>15. Timely'
  <2>1. /\ \A k \in 1 .. Len(durable.log) : durable.log[k] \in Nat
        /\ lost \subseteq Nat
    <3>1. durable.log \in Seq(Moments)
      BY <1>2 DEF Records
    <3>2. QED
      BY <3>1 DEF PlaceInv, Timely, Moments
  <2>2. Horizon \in Nat /\ Horizon <= now /\ Horizon' = now
    BY <1>1, <1>2 DEF PlaceInv, Timely, Horizon
  <2>3. \A a \in Nat : a <= Horizon => a <= now
    BY <2>2, <1>2
  <2>4. 0 \in Nat /\ 0 <= now /\ 1 .. Len(log') = {} /\ clock_started' \in BOOLEAN
    <3>1. log' = <<>> /\ clock_started' = FALSE
      BY <1>1
    <3>2. 1 .. Len(log') = {}
      BY <3>1
    <3>3. 0 <= now /\ 0 \in Nat
      <4>1. now \in Nat
        BY <1>2
      <4>2. QED
        BY <4>1
    <3>4. clock_started' \in BOOLEAN
      BY <3>1
    <3>5. QED
      BY <3>2, <3>3, <3>4
  <2>5. /\ \A k \in 1 .. Len(durable.log) : durable.log[k] <= now
        /\ \A m \in lost : m <= now
    BY <2>1, <2>3 DEF PlaceInv, Timely
  <2>6. /\ last_sample' \in Nat /\ last_sample' <= now' /\ lost' = lost /\ durable' = durable
    BY <1>1, <2>4
  <2>7. QED
    BY <2>1, <2>2, <2>4, <2>5, <2>6 DEF Timely
<1>16. Sampling'
  BY <1>1 DEF Sampling
<1>17. QED
  BY <1>12, <1>13, <1>14, <1>15, <1>16 DEF PlaceInv

LEMMA RestartPlaces == ASSUME PlaceInv, RunsInv', Restart PROVE PlaceInv'
<1>1. /\ now' = now + 1 /\ UNCHANGED <<durable, lost>>
      /\ log' = durable.log /\ pending' = 0 /\ write' = durable.write /\ dirty' = FALSE
      /\ interval' = durable.interval
      /\ clock_started' = FALSE /\ last_sample' = 0
      /\ run_count' = durable.run_count /\ run_anchor' = durable.run_anchor
      /\ relative' = FALSE /\ force_new_run' = (log' # <<>>) /\ clearing' = "inactive"
  BY DEF Restart
<1>2. /\ write \in Nat /\ durable.write \in Nat /\ durable.write <= write
      /\ now \in Nat /\ durable \in Records
      /\ saved.runs \in Seq(TrueRuns) /\ RunsTypeOK /\ RunsTypeOK'
  BY DEF PlaceInv, Written, RunsInv, RunsTypeOK, Moments
<1>3. /\ runs' = <<>> \/ runs' = saved.runs
      /\ saved'.runs = <<>> \/ saved'.runs = saved.runs
  <2> DEFINE restored == IF saved.interval = interval' THEN saved.runs ELSE <<>>
  <2>1. \/ runs' = <<>> /\ saved' \in Persisted(<<>>, interval')
        \/ runs' = restored /\ UNCHANGED saved
    BY DEF Restart
  <2>2. restored = saved.runs \/ restored = <<>>
    OBVIOUS
  <2> HIDE DEF restored
  <2>3. QED
    BY <2>1, <2>2 DEF Persisted
<1>4. /\ Live' \in Views /\ Live'.log = durable.log /\ Live'.end = durable.write + 0
      /\ Live'.count = durable.run_count /\ Live'.anchor = durable.run_anchor
      /\ Live'.over = (durable.log # <<>>)
  <2>1. (/\ Live \in Views /\ Live.log = log /\ Live.end = write + pending /\ Live.count = run_count
         /\ Live.anchor = run_anchor /\ Live.over = force_new_run)'
    BY <1>2, ViewTypesHold, PTL
  <2>2. QED
    BY <2>1, <1>1
<1>5. /\ Kept(durable) \in Views /\ Kept(durable).log = durable.log /\ Kept(durable).end = durable.write
      /\ Kept(durable).count = durable.run_count /\ Kept(durable).anchor = durable.run_anchor
      /\ Kept(durable).over = TRUE
  BY <1>2, ViewTypes
<1>6. Live'.end = durable.write
  BY <1>2, <1>4
<1>7. /\ Placed(saved.runs, Kept(durable), lost) /\ Sound(Kept(durable), lost)
  BY DEF PlaceInv, Laid, Indexed
<1>8. Sound(Live', lost) /\ Placed(saved.runs, Live', lost)
  <2>1. CASE durable.log # <<>>
    <3>1. Kept(durable).over => Live'.over
      BY <1>4, <2>1
    <3>2. QED
      BY <1>4, <1>5, <1>6, <1>7, <3>1, PlacedOver
  <2>2. CASE durable.log = <<>>
    <3>1. durable.run_count = 0
      <4>1. durable.run_count <= Len(durable.log) /\ durable.run_count \in Nat
        BY <1>2, <1>5, <1>7, RunsAssumption DEF Sound, Records
      <4>2. QED
        BY <4>1, <2>2
    <3>2. \A k \in 1 .. Len(saved.runs) : End(saved.runs[k]) <= Live'.end
      BY <1>6 DEF PlaceInv, Written
    <3>3. Placed(saved.runs, Live', lost)
      BY <1>2, <1>4, <1>5, <1>7, <2>2, <3>1, <3>2, PlacedBefore
    <3>4. Sound(Live', lost)
      BY <1>4, <2>2, <3>1, RunsAssumption DEF Sound
    <3>5. QED
      BY <3>3, <3>4
  <2>3. QED
    BY <2>1, <2>2
<1>9. \A v : Placed(<<>>, v, lost)
  BY DEF Placed
<1>10. Laid' /\ Indexed'
  BY <1>1, <1>3, <1>7, <1>8, <1>9 DEF Laid, Indexed
<1>11. Written'
  <2>1. \A k \in 1 .. Len(saved.runs) : End(saved.runs[k]) <= durable.write
    BY DEF PlaceInv, Written
  <2>2. /\ \A k \in 1 .. Len(runs') : End(runs'[k]) <= durable.write
        /\ \A k \in 1 .. Len(saved'.runs) : End(saved'.runs[k]) <= durable.write
    BY <1>3, <2>1
  <2>3. durable.write <= durable.write
    BY <1>2
  <2>4. QED
    BY <1>1, <1>2, <2>2, <2>3 DEF Written
<1>12. Clean'
  <2>1. durable = [log |-> durable.log, write |-> durable.write, run_count |-> durable.run_count,
                   run_anchor |-> durable.run_anchor, interval |-> durable.interval]
    BY <1>2 DEF Records
  <2>2. Checkpoint(write)' = [log |-> durable.log, write |-> durable.write,
                              run_count |-> durable.run_count, run_anchor |-> durable.run_anchor,
                              interval |-> durable.interval]
    BY <1>1 DEF Checkpoint
  <2>3. durable' = Checkpoint(write)'
    BY <2>1, <2>2, <1>1
  <2>4. QED
    BY <2>3 DEF Clean
<1>13. Timely'
  <2>1. /\ \A k \in 1 .. Len(durable.log) : durable.log[k] \in Nat
        /\ lost \subseteq Nat
    <3>1. durable.log \in Seq(Moments)
      BY <1>2 DEF Records
    <3>2. QED
      BY <3>1 DEF PlaceInv, Timely, Moments
  <2>2. Horizon \in Nat /\ Horizon <= now /\ Horizon' = now + 1
    BY <1>1, <1>2 DEF PlaceInv, Timely, Horizon
  <2>3. \A a \in Nat : a <= Horizon => a <= now + 1 /\ a < now + 1
    BY <2>2, <1>2
  <2>4. 0 \in Nat /\ 0 <= now + 1
    BY <1>2
  <2>5. QED
    BY <1>1, <2>1, <2>2, <2>3, <2>4 DEF PlaceInv, Timely
<1>14. Sampling'
  BY <1>1 DEF Sampling
<1>15. QED
  BY <1>10, <1>11, <1>12, <1>13, <1>14 DEF PlaceInv

LEMMA InitPlaces == RunsInit => PlaceInv
<1> SUFFICES ASSUME RunsInit PROVE PlaceInv
  OBVIOUS
<1>1. RunsInv
  BY InitTrue
<1>2. /\ now = 1 /\ log = <<>> /\ pending = 0 /\ write = 0 /\ clock_started = FALSE /\ last_sample = 0
      /\ durable = Checkpoint(write) /\ run_count = 0 /\ relative = FALSE /\ force_new_run = FALSE
      /\ runs = <<>> /\ saved.runs = <<>> /\ lost = {} /\ clearing = "inactive"
      /\ durable.log = <<>> /\ durable.write = 0 /\ durable.run_count = 0
  BY DEF RunsInit, Checkpoint
<1>3. Written /\ Clean /\ Sampling
  BY <1>2 DEF Written, Clean, Sampling
<1>4. Timely
  <2>1. 1 .. Len(log) = {} /\ 1 .. Len(durable.log) = {} /\ last_sample \in Nat /\ last_sample <= now
    BY <1>2
  <2>2. QED
    BY <1>2, <2>1 DEF Timely
<1>5. \A v : Placed(<<>>, v, lost)
  BY DEF Placed
<1>6. /\ Live.log = <<>> /\ Live.count = 0 /\ Kept(durable).log = <<>> /\ Kept(durable).count = 0
  BY <1>2 DEF Live, Kept
<1>7. Laid /\ Indexed
  BY <1>2, <1>5, <1>6, RunsAssumption DEF Laid, Indexed, Sound
<1>8. QED
  BY <1>1, <1>3, <1>4, <1>7 DEF PlaceInv

LEMMA NextPlaces == PlaceInv /\ [RunsNext]_runsVars => PlaceInv'
<1> SUFFICES ASSUME PlaceInv, [RunsNext]_runsVars PROVE PlaceInv'
  OBVIOUS
<1>1. RunsInv'
  BY NextKeeps DEF PlaceInv
<1>2. CASE FirstSample
  BY <1>1, <1>2, FirstSamplePlaces
<1>3. CASE NextSample
  BY <1>1, <1>3, NextSamplePlaces
<1>4. CASE FlushTick
  BY <1>1, <1>4, FlushTickPlaces
<1>5. CASE \E i \in Intervals : SetInterval(i)
  BY <1>1, <1>5, SetIntervalPlaces
<1>6. CASE ClearPrepare \/ ClearErase
  BY <1>1, <1>6, ClearPlaces
<1>7. CASE Tick \/ ClockArrives
  BY <1>1, <1>7, TimePlaces
<1>8. CASE Restart
  BY <1>1, <1>8, RestartPlaces
<1>9. CASE \/ Connect \/ Subscribe \/ Unsubscribe \/ Disconnect
           \/ \E n \in Requests : Request(n)
           \/ SendHeader \/ SendData \/ Abort \/ Pause \/ SessionExpires
  <2>1. UNCHANGED <<clockVars, storeVars, beatVars, runVars, indexVars, clearing, lost>>
    BY <1>9 DEF Connect, Subscribe, Unsubscribe, Disconnect, Request, SendHeader, SendData, Abort,
                Pause, SessionExpires, Sending
  <2>2. QED
    BY <1>1, <2>1, StillPlaces
<1>10. CASE UNCHANGED runsVars
  <2>1. UNCHANGED <<clockVars, storeVars, beatVars, runVars, indexVars, clearing, lost>>
    BY <1>10 DEF runsVars
  <2>2. QED
    BY <1>1, <2>1, StillPlaces
<1>11. QED
  BY <1>2, <1>3, <1>4, <1>5, <1>6, <1>7, <1>8, <1>9, <1>10 DEF RunsNext

LEMMA PlacesInvariant == RunsSpec => []PlaceInv
BY InitPlaces, NextPlaces, PTL DEF RunsSpec

\* The index in RAM and the one in NVS refer to nothing but what the newest record has
\* saved, so no power loss leaves a run without its samples; and the runs of both lie
\* apart, in their order, below the current one (append_run_descriptor, persist_run_index).
THEOREM IndexIsBacked == RunsSpec => [](Written /\ Indexed)
<1>1. PlaceInv => Written /\ Indexed
  BY DEF PlaceInv
<1>2. QED
  BY <1>1, PlacesInvariant, PTL

(***************************************************************************)
(* The transfers.                                                          *)
(***************************************************************************)

\* The descriptors of other runs than the current one, and the place of one of them
\* in the order in which a session offers them.
OtherRuns(rs, v) == IF rs # <<>> /\ Self(LastOf(rs), v) THEN Len(rs) - 1 ELSE Len(rs)
Others == OtherRuns(runs, Live)
Rank(i) == Others - i + 1

\* The runs that come at k or later ended before m.
EndBefore(rs, n, first, k, m) ==
    \A i \in 1 .. n : k <= n - i + 1 /\ first <= rs[i].start => rs[i].newest < m
Before(k, m) == EndBefore(runs, Others, First(Live), k, m)

\* What a transfer holds is in the window, older than what comes next and, unless
\* it is one of the two cases that are left out, a run.
Down ==
    LET d == download IN
    /\ d.ordinal \in Nat /\ d.sent \in Nat
    /\ d.phase # "inactive" /\ d.count > 0 =>
          /\ d.start \in Nat /\ d.start + d.count <= Len(log)
          /\ ~d.crossed => Before(d.ordinal + 1, log[d.start + 1])
          /\ ~d.moved /\ ~d.stale => /\ log[d.start + d.count] = d.newest
                                     /\ Spaced(log, d.start + 1, d.start + d.count, lost)

\* A session goes on below what it has told.
Sess ==
    /\ session.told # 0 => session.active
    /\ session.active => session.next \in Nat \ {0}
    /\ session.told # 0 /\ ~session.crossed =>
          /\ Before(session.next, session.told)
          /\ session.told \in Nat
          /\ download.phase # "inactive" => session.next <= download.ordinal

TransferInv == PlaceInv /\ Down /\ Sess

LEMMA EndBeforeLess ==
    ASSUME NEW rs \in Seq(TrueRuns), NEW n \in Nat, n <= Len(rs), NEW first \in Int, NEW later \in Int,
           NEW k \in Int, NEW h \in Int, NEW m \in Int, NEW l \in Int,
           first <= later, k <= h, m <= l, EndBefore(rs, n, first, k, m)
    PROVE  EndBefore(rs, n, later, h, l)
<1>1. SUFFICES ASSUME NEW i \in 1 .. n, h <= n - i + 1, later <= rs[i].start
               PROVE  rs[i].newest < l
  BY DEF EndBefore
<1>2. rs[i] \in TrueRuns
  <2>1. i \in 1 .. Len(rs)
    OBVIOUS
  <2>2. QED
    BY <2>1
<1>3. rs[i].start \in Int /\ rs[i].newest \in Int
  BY <1>2 DEF TrueRuns
<1>4. k <= n - i + 1 /\ first <= rs[i].start
  <2>1. \A x, y, z \in Int : x <= y /\ y <= z => x <= z
    OBVIOUS
  <2>2. n - i + 1 \in Int
    OBVIOUS
  <2>3. QED
    BY <1>1, <1>3, <2>1, <2>2
<1>5. rs[i].newest < m
  BY <1>4 DEF EndBefore
<1>6. QED
  BY <1>3, <1>5

\* The numbers that the selection works with.
LEMMA WindowNumbers ==
    ASSUME PlaceInv
    PROVE  /\ RunsTypeOK /\ log \in Seq(Moments) /\ runs \in Seq(TrueRuns) /\ Len(log) \in Nat
           /\ Len(runs) \in Nat /\ run_count \in Nat /\ run_anchor \in Int
           /\ write \in Nat /\ pending \in Nat
           /\ First(Live) = write + pending - Len(log) /\ First(Live) \in Int
           /\ Begin(Live) = write + pending - run_count /\ Begin(Live) \in Int
           /\ Visible \in Int /\ Visible <= Len(log)
           /\ write - Visible = First(Live) /\ write - First(Live) = Visible
           /\ Len(log) <= HISTORY_CAPACITY /\ run_count <= Len(log)
           /\ \A i, j \in 1 .. Len(log) : i < j => log[i] < log[j]
           /\ \A i \in 1 .. Len(log) : log[i] \in Nat /\ log[i] > 0 /\ log[i] <= now
           /\ Others \in Nat /\ Others <= Len(runs)
<1>1. /\ RunsTypeOK /\ log \in Seq(Moments) /\ runs \in Seq(TrueRuns) /\ Len(log) \in Nat
      /\ Len(runs) \in Nat /\ run_count \in Nat /\ run_anchor \in Int /\ write \in Nat /\ pending \in Nat
      /\ now \in Nat
  <2>1. RunsTypeOK
    BY DEF PlaceInv, RunsInv
  <2>2. /\ log \in Seq(Moments) /\ runs \in Seq(TrueRuns)
    BY <2>1 DEF RunsTypeOK
  <2>3. Len(log) \in Nat /\ Len(runs) \in Nat
    BY <2>2
  <2>4. run_count \in Nat /\ run_anchor \in Int /\ pending \in Nat /\ now \in Nat
    BY <2>1, RunsAssumption DEF RunsTypeOK, Moments
  <2>5. write \in Nat
    BY DEF PlaceInv, Written
  <2>6. QED
    BY <2>1, <2>2, <2>3, <2>4, <2>5
<1>2. /\ Live.log = log /\ Live.end = write + pending /\ Live.count = run_count
  BY <1>1, ViewTypes
<1>3. First(Live) = (write + pending) - Len(log) /\ Begin(Live) = (write + pending) - run_count
  BY <1>2 DEF First, Begin
<1>4. Visible = Len(log) - pending
  BY DEF Visible
<1>5. Sound(Live, lost)
  BY DEF PlaceInv, Laid
<1>6. /\ Len(log) <= HISTORY_CAPACITY /\ run_count <= Len(log)
      /\ \A i, j \in 1 .. Len(log) : i < j => log[i] < log[j]
  BY <1>2, <1>5 DEF Sound
<1>7. \A i \in 1 .. Len(log) : log[i] \in Nat /\ log[i] > 0 /\ log[i] <= now
  <2>1. \A i \in 1 .. Len(log) : log[i] \in Nat /\ log[i] > 0
    BY <1>1 DEF Moments
  <2>2. \A i \in 1 .. Len(log) : log[i] <= Horizon
    BY DEF PlaceInv, Timely
  <2>3. Horizon \in Nat /\ Horizon <= now
    BY <1>1 DEF PlaceInv, Timely, Horizon
  <2>4. \A a \in Nat : a <= Horizon => a <= now
    BY <2>3, <1>1
  <2>5. QED
    BY <2>1, <2>2, <2>4
<1>8. Others \in Nat /\ Others <= Len(runs)
  <2>1. runs # <<>> => Len(runs) > 0
    BY <1>1
  <2>2. QED
    BY <1>1, <2>1 DEF Others, OtherRuns
<1>9. /\ First(Live) = write + pending - Len(log) /\ First(Live) \in Int
      /\ Begin(Live) = write + pending - run_count /\ Begin(Live) \in Int
      /\ Visible \in Int /\ Visible <= Len(log)
      /\ write - Visible = First(Live) /\ write - First(Live) = Visible
  BY <1>1, <1>3, <1>4
<1>10. QED
  BY <1>1, <1>6, <1>7, <1>8, <1>9

\* A descriptor that is not stale.
LEMMA InTheWindow ==
    ASSUME PlaceInv, NEW i \in 1 .. Len(runs), First(Live) <= runs[i].start
    PROVE  /\ runs[i] \in TrueRuns /\ runs[i].count \in Nat /\ runs[i].count > 0
           /\ Distance(runs[i]) = runs[i].start - First(Live)
           /\ Distance(runs[i]) \in Nat
           /\ Distance(runs[i]) + runs[i].count <= Visible
           /\ Distance(runs[i]) + runs[i].count = End(runs[i]) - First(Live)
           /\ InWindow(runs[i]) /\ ~Stale(runs[i])
           /\ log[Distance(runs[i]) + runs[i].count] = runs[i].newest
           /\ Spaced(log, Distance(runs[i]) + 1, Distance(runs[i]) + runs[i].count, lost)
<1> DEFINE d == runs[i]
<1>1. /\ log \in Seq(Moments) /\ runs \in Seq(TrueRuns) /\ Len(log) \in Nat
      /\ write \in Nat /\ First(Live) \in Int /\ Visible \in Int /\ Visible <= Len(log)
      /\ write - Visible = First(Live) /\ write - First(Live) = Visible
      /\ Len(log) <= HISTORY_CAPACITY /\ Live.log = log
  BY WindowNumbers, ViewTypes
<1>2. d \in TrueRuns
  BY <1>1
<1>3. d.start \in Int /\ d.count \in Nat /\ d.count > 0 /\ Fits(d, Live, lost)
  BY <1>2 DEF PlaceInv, Indexed, Placed, TrueRuns
<1>4. End(d) = d.start + d.count /\ End(d) <= write
  <2>1. End(d) <= durable.write /\ durable.write <= write /\ durable.write \in Nat
    BY DEF PlaceInv, Written
  <2>2. QED
    BY <2>1, <1>1, <1>3 DEF End
<1>5. FLASH_CAPACITY \in Nat \ {0} /\ HISTORY_CAPACITY \in Nat /\ HISTORY_CAPACITY <= FLASH_CAPACITY
  BY RunsAssumption
<1> HIDE DEF d
<1>6. /\ d.start - First(Live) \in Nat /\ d.start - First(Live) + d.count <= Visible
      /\ d.start - First(Live) < FLASH_CAPACITY
      /\ (d.start - First(Live)) + d.count = End(d) - First(Live)
  <2>1. d.start - First(Live) \in Nat
    BY <1>1, <1>3 DEF d
  <2>2. (d.start - First(Live)) + d.count = End(d) - First(Live)
    BY <1>1, <1>3, <1>4
  <2>3. End(d) - First(Live) <= write - First(Live) /\ End(d) \in Int
    BY <1>1, <1>3, <1>4
  <2>4. d.start - First(Live) + d.count <= Visible
    BY <2>1, <2>2, <2>3, <1>1, <1>3
  <2>5. d.start - First(Live) < Visible
    <3>1. \A x, c \in Nat : \A y \in Int : c > 0 /\ x + c <= y => x < y
      OBVIOUS
    <3>2. QED
      BY <2>1, <2>4, <1>1, <1>3, <3>1
  <2>6. QED
    BY <2>1, <2>2, <2>4, <2>5, <1>1, <1>5
<1>7. Distance(d) = d.start - First(Live)
  <2>1. Distance(d) = (d.start - First(Live)) % FLASH_CAPACITY
    BY <1>1 DEF Distance, Slot
  <2>2. \A x \in Nat : x < FLASH_CAPACITY => x % FLASH_CAPACITY = x
    BY <1>5
  <2>3. QED
    BY <2>1, <2>2, <1>6
<1>8. Distance(d) + d.count <= Visible /\ Distance(d) \in Nat /\ Distance(d) + d.count = End(d) - First(Live)
  BY <1>6, <1>7
<1>9. d.count <= Visible
  BY <1>8, <1>3, <1>1
<1>10. InWindow(d)
  BY <1>8, <1>9 DEF InWindow
<1>11. ~Stale(d)
  <2>1. ~(d.start < First(Live))
    BY <1>1, <1>3 DEF d
  <2>2. QED
    BY <2>1, <1>1 DEF Stale
<1>12. log[End(d) - First(Live)] = d.newest
       /\ Spaced(log, d.start - First(Live) + 1, End(d) - First(Live), lost)
  BY <1>1, <1>3 DEF Fits
<1>13. log[Distance(d) + d.count] = d.newest
       /\ Spaced(log, Distance(d) + 1, Distance(d) + d.count, lost)
  BY <1>7, <1>8, <1>12
<1>14. QED
  BY <1>2, <1>3, <1>7, <1>8, <1>10, <1>11, <1>13 DEF d

\* Of the descriptors that are not stale all but the current run's are offered.
LEMMA OfferedOrSelf ==
    ASSUME PlaceInv, Epoch # 0, NEW i \in 1 .. Len(runs), First(Live) <= runs[i].start
    PROVE  Offered(runs[i]) <=> i <= Others
<1> DEFINE d == runs[i]  at == Distance(d) + d.count
<1>1. /\ d \in TrueRuns /\ d.count \in Nat /\ d.count > 0 /\ Distance(d) \in Nat
      /\ at <= Visible /\ at = End(d) - First(Live)
      /\ InWindow(d) /\ log[at] = d.newest
  BY InTheWindow
<1>2. /\ log \in Seq(Moments) /\ Len(log) \in Nat /\ run_count \in Nat /\ run_anchor \in Int
      /\ Visible \in Int /\ Visible <= Len(log) /\ write \in Nat /\ pending \in Nat /\ Len(runs) \in Nat
      /\ First(Live) = write + pending - Len(log) /\ First(Live) \in Int
      /\ Begin(Live) = write + pending - run_count
      /\ \A k, j \in 1 .. Len(log) : k < j => log[k] < log[j]
      /\ \A k \in 1 .. Len(log) : log[k] \in Nat /\ log[k] > 0 /\ log[k] <= now
      /\ Live.anchor = run_anchor /\ Live.count = run_count /\ RunsTypeOK
  BY WindowNumbers, ViewTypes
<1>3. /\ d.start \in Int /\ d.newest \in Int /\ d.anchor \in Int /\ LatestOf(d.anchor, d.count) = d.newest
      /\ End(d) = d.start + d.count
  BY <1>1 DEF TrueRuns, End
<1>4. End(d) <= Begin(Live) \/ (i = Len(runs) /\ Self(d, Live))
  BY DEF PlaceInv, Indexed, Placed
<1> HIDE DEF d, at
<1>5. at \in 1 .. Len(log)
  <2>1. at \in Int /\ at > 0
    BY <1>1 DEF at
  <2>2. at <= Visible /\ Visible \in Int /\ Visible <= Len(log) /\ Len(log) \in Nat
    BY <1>1, <1>2
  <2>3. QED
    BY <2>1, <2>2
<1>6. Epoch >= LatestOf(d.anchor, d.count)
  <2>1. Epoch = now /\ now \in Nat
    BY <1>2, EpochType DEF RunsTypeOK, Moments
  <2>2. d.newest <= now
    BY <1>1, <1>2, <1>5
  <2>3. QED
    BY <2>1, <2>2, <1>3
<1>7. Self(d, Live) => IsCurrentRun(d) /\ i = Len(runs) /\ d = LastOf(runs)
  <2>1. SUFFICES ASSUME Self(d, Live) PROVE IsCurrentRun(d) /\ i = Len(runs) /\ d = LastOf(runs)
    OBVIOUS
  <2>2. d.anchor = run_anchor /\ d.count = run_count /\ d.start = Begin(Live)
    BY <2>1, <1>2 DEF Self
  <2>3. ~(End(d) <= Begin(Live))
    BY <2>2, <1>1, <1>2, <1>3
  <2>4. i = Len(runs)
    BY <2>3, <1>4
  <2>5. QED
    BY <2>2, <2>4 DEF IsCurrentRun, LastOf, d
<1>8. IsCurrentRun(d) => Self(d, Live)
  <2>1. SUFFICES ASSUME IsCurrentRun(d), End(d) <= Begin(Live) PROVE FALSE
    BY <1>4
  <2>2. d.anchor = run_anchor /\ d.count = run_count
    BY <2>1 DEF IsCurrentRun
  <2>3. d.newest > 0
    BY <1>1, <1>2, <1>5
  <2>4. run_anchor # 0
    <3>1. run_anchor = 0 => LatestOf(run_anchor, run_count) = 0
      BY DEF LatestOf
    <3>2. QED
      BY <3>1, <2>2, <2>3, <1>3
  <2>5. d.newest = LastOf(log)
    BY <2>2, <2>4, <1>1, <1>3 DEF PlaceInv, RunsInv, Current
  <2>6. at < Len(log)
    <3>1. End(d) <= (write + pending) - run_count /\ run_count > 0
      BY <2>1, <2>2, <1>1, <1>2
    <3>2. at = End(d) - ((write + pending) - Len(log))
      BY <1>1, <1>2
    <3>3. End(d) \in Int
      BY <1>1, <1>3
    <3>4. QED
      BY <3>1, <3>2, <3>3, <1>2
  <2>7. Len(log) \in 1 .. Len(log)
    BY <2>6, <1>2, <1>5
  <2>8. log[at] < log[Len(log)] /\ log[at] \in Int /\ log[Len(log)] \in Int
    BY <2>6, <2>7, <1>2, <1>5
  <2>9. QED
    BY <2>5, <2>8, <1>1 DEF LastOf
<1>9. Offered(d) <=> ~Self(d, Live)
  BY <1>1, <1>6, <1>7, <1>8 DEF Offered
<1>10. Self(d, Live) <=> ~(i <= Others)
  <2>1. CASE Self(d, Live)
    <3>1. i = Len(runs) /\ runs # <<>> /\ Self(LastOf(runs), Live)
      BY <2>1, <1>7
    <3>2. Others = Len(runs) - 1
      BY <3>1 DEF Others, OtherRuns
    <3>3. ~(i <= Others)
      BY <3>1, <3>2, <1>2
    <3>4. QED
      BY <2>1, <3>3
  <2>2. CASE ~Self(d, Live)
    <3>1. i = Len(runs) => d = LastOf(runs)
      BY DEF LastOf, d
    <3>2. CASE i = Len(runs)
      <4>1. Others = Len(runs)
        BY <2>2, <3>1, <3>2 DEF Others, OtherRuns
      <4>2. i <= Others
        BY <4>1, <3>2, <1>2
      <4>3. QED
        BY <2>2, <4>2
    <3>3. CASE i # Len(runs)
      <4>1. i <= Len(runs) - 1 /\ i \in Int
        BY <3>3, <1>2
      <4>2. Others = Len(runs) \/ Others = Len(runs) - 1
        BY DEF Others, OtherRuns
      <4>3. i <= Others
        BY <4>1, <4>2, <1>2
      <4>4. QED
        BY <2>2, <4>3
    <3>4. QED
      BY <3>2, <3>3
  <2>3. QED
    BY <2>1, <2>2
<1>11. QED
  BY <1>9, <1>10 DEF d

\* What follows a descriptor that is not stale is not stale.
LEMMA FreshOnwards ==
    ASSUME PlaceInv, NEW i \in 1 .. Len(runs), NEW j \in 1 .. Len(runs), i <= j,
           First(Live) <= runs[i].start
    PROVE  First(Live) <= runs[j].start
<1>1. CASE i = j
  BY <1>1
<1>2. CASE i < j
  <2>1. End(runs[i]) <= runs[j].start /\ runs[i].count > 0
    BY <1>2 DEF PlaceInv, Indexed, Placed
  <2>2. runs[i] \in TrueRuns /\ runs[j] \in TrueRuns /\ First(Live) \in Int
    <3>1. runs \in Seq(TrueRuns) /\ First(Live) \in Int
      BY WindowNumbers
    <3>2. QED
      BY <3>1
  <2>3. runs[i].start \in Int /\ runs[i].count \in Int /\ runs[j].start \in Int
    BY <2>2 DEF TrueRuns
  <2>4. QED
    BY <2>1, <2>2, <2>3 DEF End
<1>3. QED
  BY <1>1, <1>2

\* The descriptors that count for the place of another one.
LEMMA RankOfFresh ==
    ASSUME PlaceInv, Epoch # 0, NEW k, NEW i \in At(k), First(Live) <= runs[i].start
    PROVE  i \in 1 .. Others /\ k = Rank(i)
<1> DEFINE T == {j \in i .. Len(runs) : Offered(runs[j])}
<1>1. Len(runs) \in Nat /\ Others \in Nat /\ Others <= Len(runs) /\ runs \in Seq(TrueRuns)
  BY WindowNumbers
<1>2. i \in 1 .. Len(runs) /\ Offered(runs[i]) /\ Cardinality(T) = k
  BY <1>1 DEF At
<1>3. \A j \in 1 .. Len(runs) : i <= j => (Offered(runs[j]) <=> j <= Others)
  <2>1. \A j \in 1 .. Len(runs) : i <= j => First(Live) <= runs[j].start
    BY <1>2, FreshOnwards
  <2>2. QED
    BY <2>1, OfferedOrSelf
<1>4. i <= Others
  BY <1>1, <1>2, <1>3
<1>5. T = i .. Others
  BY <1>1, <1>2, <1>3
<1>6. Cardinality(i .. Others) = Others - i + 1
  <2>1. i \in Int /\ Others \in Int /\ ~(i > Others)
    BY <1>1, <1>2, <1>4
  <2>2. QED
    BY <2>1, FS_Interval
<1> HIDE DEF T
<1>7. k = Others - i + 1
  BY <1>2, <1>5, <1>6
<1>8. i \in 1 .. Others
  BY <1>1, <1>2, <1>4
<1>9. QED
  BY <1>7, <1>8 DEF Rank

LEMMA RankOfStale ==
    ASSUME PlaceInv, Epoch # 0, NEW k, NEW i \in At(k), ~(First(Live) <= runs[i].start),
           NEW j \in 1 .. Others, First(Live) <= runs[j].start
    PROVE  k \in Nat /\ Rank(j) < k
<1> DEFINE T == {h \in i .. Len(runs) : Offered(runs[h])}
           S == j .. Others
<1>1. Len(runs) \in Nat /\ Others \in Nat /\ Others <= Len(runs) /\ runs \in Seq(TrueRuns)
  BY WindowNumbers
<1>2. i \in 1 .. Len(runs) /\ Offered(runs[i]) /\ Cardinality(T) = k
  BY <1>1 DEF At
<1>3. j \in 1 .. Len(runs)
  BY <1>1
<1>4. i < j
  BY <1>1, <1>2, <1>3, FreshOnwards
<1>5. \A h \in S : h \in T
  <2>1. SUFFICES ASSUME NEW h \in S PROVE h \in T
    OBVIOUS
  <2>2. h \in 1 .. Len(runs) /\ j <= h /\ h <= Others /\ h \in i .. Len(runs)
    BY <1>1, <1>2, <1>3, <1>4
  <2>3. First(Live) <= runs[h].start
    BY <1>3, <2>2, FreshOnwards
  <2>4. Offered(runs[h])
    BY <2>2, <2>3, OfferedOrSelf
  <2>5. QED
    BY <2>2, <2>4
<1>6. IsFiniteSet(S) /\ Cardinality(S) = Others - j + 1
  <2>1. j \in Int /\ Others \in Int /\ ~(j > Others)
    BY <1>1
  <2>2. QED
    BY <2>1, FS_Interval
<1>7. IsFiniteSet(T)
  <2>1. IsFiniteSet(i .. Len(runs))
    <3>1. i \in Int /\ Len(runs) \in Int
      BY <1>1, <1>2
    <3>2. QED
      BY <3>1, FS_Interval
  <2>2. T \in SUBSET (i .. Len(runs))
    OBVIOUS
  <2>3. QED
    BY <2>1, <2>2, FS_Subset
<1>8. i \in T /\ i \notin S
  <2>1. i \in i .. Len(runs)
    BY <1>1, <1>2
  <2>2. QED
    BY <1>1, <1>2, <1>4, <2>1
<1> HIDE DEF T, S
<1>9. Cardinality(S \cup {i}) = Cardinality(S) + 1
  BY <1>6, <1>8, FS_AddElement
<1>10. S \cup {i} \in SUBSET T
  BY <1>5, <1>8
<1>11. Cardinality(S \cup {i}) <= Cardinality(T)
  BY <1>7, <1>10, FS_Subset
<1>12. Cardinality(T) \in Nat
  BY <1>7, FS_CardinalityType
<1>13. QED
  BY <1>1, <1>2, <1>3, <1>6, <1>9, <1>11, <1>12 DEF Rank

\* Another run than the current one ends before that begins.
LEMMA OthersEnd ==
    ASSUME PlaceInv, NEW i \in 1 .. Others
    PROVE  End(runs[i]) <= Begin(Live)
<1>1. Len(runs) \in Nat /\ Others \in Nat /\ Others <= Len(runs) /\ runs \in Seq(TrueRuns)
  BY WindowNumbers
<1>2. i \in 1 .. Len(runs) /\ i <= Others
  BY <1>1
<1>3. End(runs[i]) <= Begin(Live) \/ (i = Len(runs) /\ Self(runs[i], Live))
  BY <1>2 DEF PlaceInv, Indexed, Placed
<1>4. ASSUME i = Len(runs), Self(runs[i], Live) PROVE FALSE
  <2>1. runs # <<>> /\ Self(LastOf(runs), Live)
    BY <1>1, <1>2, <1>4 DEF LastOf
  <2>2. Others = Len(runs) - 1
    BY <2>1 DEF Others, OtherRuns
  <2>3. QED
    BY <1>1, <1>2, <1>4, <2>2
<1>5. QED
  BY <1>3, <1>4

\* The newest sample of a run is older than what lies behind it in the window.
LEMMA EndsBelow ==
    ASSUME PlaceInv, NEW i \in 1 .. Len(runs), First(Live) <= runs[i].start,
           NEW p \in 1 .. Len(log), End(runs[i]) - First(Live) < p
    PROVE  runs[i].newest < log[p]
<1> DEFINE d == runs[i]  at == Distance(d) + d.count
<1>1. /\ d.count \in Nat /\ d.count > 0 /\ Distance(d) \in Nat
      /\ at = End(d) - First(Live) /\ log[at] = d.newest
  BY InTheWindow
<1>2. Len(log) \in Nat /\ \A k, j \in 1 .. Len(log) : k < j => log[k] < log[j]
  BY WindowNumbers
<1> HIDE DEF d
<1>3. at \in 1 .. Len(log) /\ at < p
  <2>1. at \in Nat /\ at > 0
    BY <1>1
  <2>2. at < p
    BY <1>1 DEF d
  <2>3. QED
    BY <1>2, <2>1, <2>2
<1>4. QED
  BY <1>1, <1>2, <1>3 DEF d

\* What a transfer may be given: it lies in the window, and the runs that come after
\* it in the order of a session ended before it begins.
LEMMA SelectedRun ==
    ASSUME PlaceInv, NEW k \in Nat, SelectDownloadRun(k).count > 0
    PROVE  LET run == SelectDownloadRun(k) IN
           /\ run.count \in Nat /\ run.start \in Nat /\ run.start + run.count <= Len(log)
           /\ Before(k + 1, log[run.start + 1])
           /\ ~run.stale => /\ log[run.start + run.count] = run.newest
                            /\ Spaced(log, run.start + 1, run.start + run.count, lost)
           /\ ~run.stale /\ k > 0 => \E i \in 1 .. Others : /\ k = Rank(i)
                                                            /\ First(Live) <= runs[i].start
                                                            /\ runs[i].newest = run.newest
<1> DEFINE run == SelectDownloadRun(k)
<1>1. /\ RunsTypeOK /\ log \in Seq(Moments) /\ runs \in Seq(TrueRuns) /\ Len(log) \in Nat
      /\ Len(runs) \in Nat /\ run_count \in Nat /\ Others \in Nat /\ Others <= Len(runs)
  BY WindowNumbers
<1>2. /\ write \in Nat /\ pending \in Nat /\ First(Live) \in Int /\ Begin(Live) \in Int
      /\ First(Live) = write + pending - Len(log) /\ Begin(Live) = write + pending - run_count
      /\ Visible \in Int /\ Visible <= Len(log) /\ write - Visible = First(Live)
      /\ run_count <= Len(log)
  BY WindowNumbers
<1>3. CASE k = 0
  <2>1. NewestRunAvailable /\ run = NewestRun
    <3>1. run = NewestRun
      BY <1>3 DEF SelectDownloadRun
    <3>2. ~NewestRunAvailable => run.count = 0
      BY <3>1 DEF NewestRun, Nothing
    <3>3. QED
      BY <3>1, <3>2
  <2>2. /\ run.count = run_count /\ run.start = Len(log) - run_count /\ run.newest = LastOf(log)
        /\ ~run.stale /\ run_count > 0
    BY <2>1 DEF NewestRun, NewestRunAvailable
  <2> HIDE DEF run
  <2>3. /\ run.count \in Nat /\ run.start \in Nat /\ run.start + run.count = Len(log)
        /\ run.start + 1 \in 1 .. Len(log) /\ run.start + 1 = Len(log) - run_count + 1
    BY <1>1, <1>2, <2>2
  <2>4. Before(k + 1, log[run.start + 1])
    <3>1. SUFFICES ASSUME NEW i \in 1 .. Others, First(Live) <= runs[i].start
                   PROVE  runs[i].newest < log[run.start + 1]
      BY DEF Before, EndBefore
    <3>2. i \in 1 .. Len(runs)
      BY <1>1
    <3>3. End(runs[i]) <= Begin(Live)
      BY OthersEnd
    <3>4. End(runs[i]) \in Int
      <4>1. runs[i] \in TrueRuns
        BY <1>1, <3>2
      <4>2. QED
        BY <4>1 DEF End, TrueRuns
    <3>5. End(runs[i]) - First(Live) < run.start + 1
      BY <1>1, <1>2, <2>3, <3>3, <3>4
    <3>6. QED
      BY <2>3, <3>1, <3>2, <3>5, EndsBelow
  <2>5. Spaced(log, run.start + 1, run.start + run.count, lost)
    <3>1. Sound(Live, lost) /\ Live.log = log /\ Live.count = run_count
      BY <1>1, ViewTypes DEF PlaceInv, Laid
    <3>2. Spaced(log, Len(log) - run_count + 1, Len(log), lost)
      BY <2>2, <3>1 DEF Sound
    <3>3. QED
      BY <2>3, <3>2
  <2>6. log[run.start + run.count] = run.newest
    BY <2>2, <2>3 DEF LastOf
  <2>7. QED
    BY <1>1, <1>3, <2>2, <2>3, <2>4, <2>5, <2>6 DEF run
<1>4. CASE k > 0
  <2>1. run = OlderRun(k)
    BY <1>4 DEF SelectDownloadRun
  <2>2. Epoch # 0 /\ At(k) # {}
    <3>1. (Epoch = 0 \/ At(k) = {}) => run.count = 0
      BY <2>1 DEF OlderRun, Nothing
    <3>2. QED
      BY <3>1
  <2> DEFINE i == CHOOSE i \in At(k) : TRUE
             d == runs[i]
  <2>3. i \in At(k)
    BY <2>2
  <2>4. run.count = d.count /\ run.start = Distance(d) /\ run.newest = d.newest /\ run.stale = Stale(d)
    BY <2>1, <2>2 DEF OlderRun
  <2> HIDE DEF run, i
  <2>5. i \in 1 .. Len(runs) /\ InWindow(d)
    BY <1>1, <2>3 DEF At, Offered
  <2>6. d \in TrueRuns /\ d.count \in Nat /\ d.count > 0 /\ d.start \in Int
    <3>1. d \in TrueRuns
      BY <1>1, <2>5
    <3>2. QED
      BY <2>5, <3>1 DEF PlaceInv, Indexed, Placed, TrueRuns
  <2>7. Distance(d) \in Nat
    <3>1. d.start - (write - Visible) \in Int
      BY <1>2, <2>6
    <3>2. FLASH_CAPACITY \in Nat \ {0}
      BY RunsAssumption
    <3>3. QED
      BY <3>1, <3>2 DEF Distance, Slot
  <2>8. Distance(d) + d.count <= Len(log)
    <3>1. Distance(d) + d.count <= Visible
      BY <2>5 DEF InWindow
    <3>2. Visible \in Int /\ Visible <= Len(log) /\ Len(log) \in Nat
      BY <1>1, <1>2
    <3> HIDE DEF d
    <3>3. QED
      BY <2>6, <2>7, <3>1, <3>2
  <2>9. Distance(d) + 1 \in 1 .. Len(log)
    BY <1>1, <2>6, <2>7, <2>8
  <2>10. Stale(d) <=> ~(First(Live) <= d.start)
    BY <1>2, <2>6 DEF Stale
  <2>11. CASE First(Live) <= d.start
    <3>1. i \in 1 .. Others /\ k = Rank(i)
      BY <2>2, <2>3, <2>11, RankOfFresh
    <3>2. /\ log[Distance(d) + d.count] = d.newest
          /\ Spaced(log, Distance(d) + 1, Distance(d) + d.count, lost)
          /\ Distance(d) = d.start - First(Live)
      BY <2>5, <2>11, InTheWindow
    <3>3. Before(k + 1, log[Distance(d) + 1])
      <4>1. SUFFICES ASSUME NEW j \in 1 .. Others, k + 1 <= Others - j + 1, First(Live) <= runs[j].start
                     PROVE  runs[j].newest < log[Distance(d) + 1]
        BY DEF Before, EndBefore
      <4>2. j \in 1 .. Len(runs) /\ j < i
        BY <1>1, <3>1, <4>1 DEF Rank
      <4>3. End(runs[j]) <= d.start
        BY <2>5, <4>2 DEF PlaceInv, Indexed, Placed
      <4>4. End(runs[j]) \in Int
        <5>1. runs[j] \in TrueRuns
          BY <1>1, <4>2
        <5>2. QED
          BY <5>1 DEF End, TrueRuns
      <4>5. End(runs[j]) - First(Live) < Distance(d) + 1
        BY <1>2, <2>6, <3>2, <4>3, <4>4
      <4>6. QED
        BY <2>9, <4>1, <4>2, <4>5, EndsBelow
    <3> HIDE DEF d
    <3>4. QED
      BY <2>4, <2>6, <2>7, <2>8, <2>11, <3>1, <3>2, <3>3 DEF run, d
  <2>12. CASE ~(First(Live) <= d.start)
    <3>1. Before(k + 1, log[Distance(d) + 1])
      <4>1. SUFFICES ASSUME NEW j \in 1 .. Others, k + 1 <= Others - j + 1, First(Live) <= runs[j].start
                     PROVE  FALSE
        BY DEF Before, EndBefore
      <4>2. Rank(j) < k
        BY <2>2, <2>3, <2>12, <4>1, RankOfStale
      <4>3. QED
        BY <1>1, <4>1, <4>2 DEF Rank
    <3>2. run.stale
      BY <2>4, <2>10, <2>12
    <3>3. QED
      BY <2>4, <2>6, <2>7, <2>8, <3>1, <3>2 DEF run
  <2>13. QED
    BY <2>11, <2>12
<1>5. QED
  BY <1>3, <1>4

\* Nothing but the transfer and the session changes.
Staying == UNCHANGED <<clockVars, storeVars, beatVars, runVars, indexVars, clearing, lost>>

LEMMA StayingPut ==
    ASSUME Staying
    PROVE  /\ log' = log /\ lost' = lost /\ runs' = runs
           /\ Others' = Others /\ First(Live)' = First(Live)
<1>1. /\ log' = log /\ lost' = lost /\ runs' = runs /\ write' = write /\ pending' = pending
      /\ run_count' = run_count /\ run_anchor' = run_anchor /\ force_new_run' = force_new_run
  BY DEF Staying, storeVars, runVars, indexVars
<1>2. Live' = Live
  BY <1>1 DEF Live
<1>3. QED
  BY <1>1, <1>2 DEF Others, OtherRuns, First

LEMMA StartTransfers ==
    ASSUME TransferInv, NEW wanted \in Nat, Start(wanted), Staying, session' = session
    PROVE  Down' /\ Sess'
<1> DEFINE k == NextOrdinal
           run == SelectDownloadRun(k)
           n == IF wanted # 0 THEN MinOf(wanted, run.count) ELSE run.count
           first == run.start + (run.count - n)
<1>1. /\ download'.phase = "header" /\ download'.ordinal = k /\ download'.count = n
      /\ download'.start = first /\ download'.sent = 0 /\ download'.newest = run.newest
      /\ download'.stale = run.stale /\ ~download'.moved /\ ~download'.crossed
  BY DEF Start, NoDownload
<1>2. /\ log' = log /\ lost' = lost /\ runs' = runs /\ Others' = Others /\ First(Live)' = First(Live)
  BY StayingPut
<1>3. k \in Nat /\ (session.told # 0 => session.next = k)
  BY DEF TransferInv, Sess, NextOrdinal
<1>4. run.count \in Nat
  BY SelectionIsTrue DEF TransferInv, PlaceInv
<1>5. n \in Nat /\ n <= run.count /\ (n > 0 => run.count > 0)
  BY <1>4 DEF MinOf
<1>6. /\ log \in Seq(Moments) /\ runs \in Seq(TrueRuns) /\ Len(log) \in Nat /\ Len(runs) \in Nat
      /\ First(Live) \in Int /\ Others \in Nat /\ Others <= Len(runs)
      /\ \A i, j \in 1 .. Len(log) : i < j => log[i] < log[j]
      /\ \A i \in 1 .. Len(log) : log[i] \in Nat
  BY WindowNumbers DEF TransferInv
<1>7. ASSUME n > 0
      PROVE  /\ first \in Nat /\ first + n <= Len(log)
             /\ Before(k + 1, log[first + 1])
             /\ ~run.stale => /\ log[first + n] = run.newest
                              /\ Spaced(log, first + 1, first + n, lost)
  <2>1. PlaceInv /\ run.count > 0
    BY <1>5, <1>7 DEF TransferInv
  <2>2. /\ run.start \in Nat /\ run.start + run.count <= Len(log)
        /\ Before(k + 1, log[run.start + 1])
        /\ ~run.stale => /\ log[run.start + run.count] = run.newest
                         /\ Spaced(log, run.start + 1, run.start + run.count, lost)
    BY <1>3, <2>1, SelectedRun
  <2> HIDE DEF run, n, k
  <2>3. /\ first \in Nat /\ first + n = run.start + run.count
        /\ run.start + 1 <= first + 1 /\ first + 1 \in 1 .. Len(log) /\ run.start + 1 \in 1 .. Len(log)
        /\ first + 1 <= first + n
    <3>1. run.start \in Nat /\ run.start + run.count <= Len(log)
      BY <2>2
    <3>2. run.count \in Nat /\ n \in Nat /\ n <= run.count /\ n > 0 /\ Len(log) \in Nat
      BY <1>4, <1>5, <1>6, <1>7
    <3>3. \A s, c, m, l \in Nat :
             m <= c /\ m > 0 /\ s + c <= l =>
                /\ s + (c - m) \in Nat /\ (s + (c - m)) + m = s + c
                /\ s + 1 <= s + (c - m) + 1 /\ (s + (c - m)) + 1 \in 1 .. l /\ s + 1 \in 1 .. l
                /\ (s + (c - m)) + 1 <= (s + (c - m)) + m
      OBVIOUS
    <3>4. QED
      BY <3>1, <3>2, <3>3
  <2>4. log[run.start + 1] <= log[first + 1]
    <3>1. run.start + 1 = first + 1 \/ run.start + 1 < first + 1
      BY <2>2, <2>3
    <3>2. QED
      BY <1>6, <2>3, <3>1
  <2>5. Before(k + 1, log[first + 1])
    <3>1. EndBefore(runs, Others, First(Live), k + 1, log[run.start + 1])
      BY <2>2 DEF Before
    <3>2. log[run.start + 1] \in Int /\ log[first + 1] \in Int /\ k + 1 \in Int
          /\ First(Live) <= First(Live) /\ k + 1 <= k + 1
      BY <1>3, <1>6, <2>3
    <3> HIDE DEF first
    <3>3. EndBefore(runs, Others, First(Live), k + 1, log[first + 1])
      BY <1>6, <2>4, <3>1, <3>2, EndBeforeLess
    <3>4. QED
      BY <3>3 DEF Before
  <2>6. ASSUME ~run.stale PROVE Spaced(log, first + 1, first + n, lost)
    <3>1. Spaced(log, run.start + 1, first + n, lost)
      BY <2>2, <2>3, <2>6
    <3>2. /\ run.start + 1 \in Int /\ first + 1 \in Int /\ first + n \in Int /\ 1 <= run.start + 1
          /\ first + n <= Len(log)
      BY <1>5, <2>2, <2>3
    <3> HIDE DEF first
    <3>3. QED
      BY <1>6, <2>3, <3>1, <3>2, SpacedSuffix
  <2>7. QED
    BY <2>2, <2>3, <2>5, <2>6
<1> HIDE DEF run, n, k, first
<1>8. Down'
  <2>1. download'.ordinal \in Nat /\ download'.sent \in Nat
    BY <1>1, <1>3
  <2>2. ASSUME n > 0
        PROVE  /\ EndBefore(runs', Others', First(Live)', k + 1, log'[first + 1])
               /\ first \in Nat /\ first + n <= Len(log')
               /\ ~run.stale => /\ log'[first + n] = run.newest
                                /\ Spaced(log', first + 1, first + n, lost')
    <3>1. /\ EndBefore(runs, Others, First(Live), k + 1, log[first + 1])
          /\ first \in Nat /\ first + n <= Len(log)
          /\ ~run.stale => /\ log[first + n] = run.newest
                           /\ Spaced(log, first + 1, first + n, lost)
      BY <1>7, <2>2 DEF Before
    <3>2. QED
      BY <1>2, <3>1
  <2>3. QED
    BY <1>1, <2>1, <2>2 DEF Down, Before
<1>9. Sess'
  BY <1>1, <1>2, <1>3 DEF TransferInv, Sess, Before
<1>10. QED
  BY <1>8, <1>9

LEMMA CompletedTransfers ==
    ASSUME TransferInv, download.phase # "inactive", Completed(download), Staying
    PROVE  Down' /\ Sess'
<1> DEFINE d == download
<1>1. /\ download' = NoDownload /\ session'.active = TRUE /\ session'.next = d.ordinal + 1
      /\ session'.told = (IF d.count > 0 THEN log[d.start + 1] ELSE session.told)
      /\ session'.crossed = (d.crossed \/ session.crossed)
  BY DEF Completed
<1>2. /\ log' = log /\ lost' = lost /\ runs' = runs /\ Others' = Others /\ First(Live)' = First(Live)
  BY StayingPut
<1>3. d.ordinal \in Nat /\ d.count \in Nat
  BY DEF TransferInv, Down, PlaceInv, RunsInv, RunsTypeOK
<1>4. Down'
  BY <1>1 DEF Down, NoDownload
<1>5. ASSUME session'.told # 0, ~session'.crossed
      PROVE  session'.told \in Nat /\ Before(d.ordinal + 1, session'.told)
  <2>1. ~d.crossed /\ ~session.crossed
    BY <1>1, <1>5
  <2>2. CASE d.count > 0
    <3>1. /\ d.start \in Nat /\ d.start + d.count <= Len(log)
          /\ Before(d.ordinal + 1, log[d.start + 1])
      BY <2>1, <2>2 DEF TransferInv, Down
    <3>2. Len(log) \in Nat /\ \A i \in 1 .. Len(log) : log[i] \in Nat
      BY WindowNumbers DEF TransferInv
    <3>3. d.start + 1 \in 1 .. Len(log)
      <4>1. d.start \in Nat /\ d.start + d.count <= Len(log)
        BY <3>1
      <4>2. QED
        BY <4>1, <3>2, <2>2, <1>3
    <3>4. session'.told = log[d.start + 1]
      BY <1>1, <2>2
    <3>5. QED
      BY <3>1, <3>2, <3>3, <3>4
  <2>3. CASE ~(d.count > 0)
    <3>1. session'.told = session.told
      BY <1>1, <2>3
    <3>2. /\ Before(session.next, session.told) /\ session.told \in Nat
          /\ session.next <= d.ordinal /\ session.next \in Nat
      BY <1>5, <2>1, <3>1 DEF TransferInv, Sess
    <3>3. /\ runs \in Seq(TrueRuns) /\ First(Live) \in Int /\ Others \in Nat /\ Others <= Len(runs)
      BY WindowNumbers DEF TransferInv
    <3>4. EndBefore(runs, Others, First(Live), session.next, session.told)
      BY <3>2 DEF Before
    <3>5. /\ session.next \in Int /\ d.ordinal + 1 \in Int /\ session.next <= d.ordinal + 1
          /\ First(Live) <= First(Live) /\ session.told <= session.told /\ session.told \in Int
      BY <1>3, <3>2, <3>3
    <3>6. EndBefore(runs, Others, First(Live), d.ordinal + 1, session.told)
      BY <3>3, <3>4, <3>5, EndBeforeLess
    <3>7. QED
      BY <3>1, <3>2, <3>6 DEF Before
  <2>4. QED
    BY <2>2, <2>3
<1>6. d.ordinal + 1 \in Nat \ {0}
  BY <1>3
<1>7. download'.phase = "inactive"
  BY <1>1 DEF NoDownload
<1>8. ASSUME session'.told # 0, ~session'.crossed
      PROVE  session'.told \in Nat /\ Before(session.next, session.told)'
  BY <1>1, <1>2, <1>5, <1>8 DEF Before
<1>9. session'.active /\ session'.next \in Nat \ {0}
  BY <1>1, <1>6
<1>10. Sess'
  BY <1>7, <1>8, <1>9 DEF Sess
<1>11. QED
  BY <1>4, <1>10

LEMMA NoSessionTransfers == ASSUME session' = NoSession PROVE Sess'
<1>1. session'.told = 0 /\ ~session'.active
  BY DEF NoSession
<1>2. QED
  BY <1>1 DEF Sess

LEMMA SameSessionTransfers ==
    ASSUME Sess, session' = session, runs' = runs, Others' = Others, First(Live)' = First(Live),
           download'.phase # "inactive" =>
              download.phase # "inactive" /\ download'.ordinal = download.ordinal
    PROVE  Sess'
<1>1. Before(session.next, session.told) => Before(session.next, session.told)'
  BY DEF Before
<1>2. QED
  BY <1>1 DEF Sess

\* A transfer that ends without being told, and one that goes on.
LEMMA ResetTransfers ==
    ASSUME TransferInv, Staying, download' = NoDownload, session' \in {session, NoSession}
    PROVE  Down' /\ Sess'
<1>1. /\ Others' = Others /\ First(Live)' = First(Live) /\ runs' = runs
  BY StayingPut
<1>2. download'.ordinal = 0 /\ download'.sent = 0 /\ download'.phase = "inactive"
  BY DEF NoDownload
<1>3. Down'
  BY <1>2 DEF Down
<1>4. CASE session' = session
  BY <1>1, <1>2, <1>3, <1>4, SameSessionTransfers DEF TransferInv
<1>5. CASE session' = NoSession
  BY <1>3, <1>5, NoSessionTransfers
<1>6. QED
  BY <1>3, <1>4, <1>5

LEMMA GoesOnTransfers ==
    ASSUME TransferInv, Staying, session' \in {session, NoSession},
           \A x \in {"ordinal", "count", "start", "newest", "stale", "moved", "crossed"} :
              download'[x] = download[x],
           download'.phase # "inactive" => download.phase # "inactive",
           download.sent \in Nat => download'.sent \in Nat
    PROVE  Down' /\ Sess'
<1>1. /\ log' = log /\ lost' = lost /\ runs' = runs /\ Others' = Others /\ First(Live)' = First(Live)
  BY StayingPut
<1>2. /\ download'.ordinal = download.ordinal /\ download'.count = download.count
      /\ download'.start = download.start /\ download'.newest = download.newest
      /\ download'.stale = download.stale /\ download'.moved = download.moved
      /\ download'.crossed = download.crossed
  OBVIOUS
<1>3. Down'
  BY <1>1, <1>2 DEF TransferInv, Down, Before
<1>4. CASE session' = session
  BY <1>1, <1>2, <1>3, <1>4, SameSessionTransfers DEF TransferInv
<1>5. CASE session' = NoSession
  BY <1>3, <1>5, NoSessionTransfers
<1>6. QED
  BY <1>3, <1>4, <1>5

\* No sample is stored and no run begins.
LEMMA SteadyTransfers ==
    ASSUME TransferInv, NEW more, lost' = lost \cup more,
           \A m \in more : m \in Int /\ \A i \in 1 .. Len(log) : log[i] < m,
           log' = log, runs' = runs, write' + pending' = write + pending,
           UNCHANGED <<run_count, run_anchor, force_new_run, download, session>>
    PROVE  Down' /\ Sess'
<1>1. Live' = Live
  BY DEF Live
<1>2. Others' = Others /\ First(Live)' = First(Live)
  BY <1>1 DEF Others, OtherRuns, First
<1> DEFINE d == download
<1>3. Len(log) \in Nat /\ (\A i \in 1 .. Len(log) : log[i] \in Nat) /\ d.count \in Nat
  BY WindowNumbers DEF TransferInv, PlaceInv, RunsInv, RunsTypeOK
<1>4. ASSUME d.phase # "inactive", d.count > 0, ~d.moved, ~d.stale
      PROVE  Spaced(log, d.start + 1, d.start + d.count, lost')
  <2>1. d.start \in Nat /\ d.start + d.count <= Len(log)
    BY <1>4 DEF TransferInv, Down
  <2>2. Spaced(log, d.start + 1, d.start + d.count, lost)
    BY <1>4 DEF TransferInv, Down
  <2>3. d.start + 1 \in 1 .. Len(log) /\ d.start + d.count \in 1 .. Len(log)
    BY <1>3, <1>4, <2>1
  <2>4. log[d.start + 1] \in Int /\ log[d.start + d.count] \in Int
    BY <1>3, <2>3
  <2>5. \A m \in more : m \in Int /\ log[d.start + d.count] < m
    BY <2>3
  <2>6. QED
    BY <2>2, <2>4, <2>5, SpacedLater
<1>5. \A k, m : Before(k, m) => EndBefore(runs', Others', First(Live)', k, m)
  BY <1>2 DEF Before
<1>6. Down'
  <2>1. ASSUME d.phase # "inactive", d.count > 0
        PROVE  /\ d.start \in Nat /\ d.start + d.count <= Len(log')
               /\ ~d.crossed => EndBefore(runs', Others', First(Live)', d.ordinal + 1, log'[d.start + 1])
               /\ ~d.moved /\ ~d.stale => /\ log'[d.start + d.count] = d.newest
                                          /\ Spaced(log', d.start + 1, d.start + d.count, lost')
    BY <1>4, <1>5, <2>1 DEF TransferInv, Down
  <2>2. d.ordinal \in Nat /\ d.sent \in Nat /\ download' = d
    BY DEF TransferInv, Down
  <2>3. QED
    BY <2>1, <2>2 DEF Down, Before
<1>7. Sess'
  BY <1>2, SameSessionTransfers DEF TransferInv
<1>8. QED
  BY <1>6, <1>7

LEMMA DroppedTransfers ==
    ASSUME TransferInv, NEW r \in FlushResults, Dropped(r), clearing # "prepare",
           clock_started, now > last_sample
    PROVE  Down' /\ Sess'
<1> DEFINE more == IF last_epoch = 0 THEN last_sample + 1 .. now ELSE {}
<1>1. /\ lost' = lost \cup more /\ log' = log /\ runs' = runs
      /\ UNCHANGED <<run_count, run_anchor, force_new_run, download, session>>
      /\ pending' = r.pending /\ write' = r.write
  BY DEF Dropped, FlushesTo, runVars, indexVars
<1>2. r.write + r.pending = write + pending
  <2>1. r \in FlushResults \cup {AsIs(TRUE)} /\ PlaceInv
    BY DEF TransferInv
  <2>2. QED
    BY <2>1, FlushPlaces
<1>3. \A m \in more : m \in Int /\ \A i \in 1 .. Len(log) : log[i] < m
  <2>1. Timely
    BY DEF TransferInv, PlaceInv
  <2>2. last_sample \in Nat /\ Horizon = last_sample
    BY <2>1 DEF Timely, Horizon
  <2>3. now \in Nat /\ \A i \in 1 .. Len(log) : log[i] \in Nat
    BY WindowNumbers DEF TransferInv, PlaceInv, RunsInv, RunsTypeOK, Moments
  <2>4. \A i \in 1 .. Len(log) : log[i] <= last_sample
    BY <2>1, <2>2 DEF Timely
  <2>5. QED
    BY <2>2, <2>3, <2>4
<1> HIDE DEF more
<1>4. QED
  BY <1>1, <1>2, <1>3, SteadyTransfers

LEMMA StoredTransfers ==
    ASSUME TransferInv, NEW r \in FlushResults \cup {AsIs(TRUE)}, NEW new \in BOOLEAN,
           Stored(r, new), clearing # "prepare", force_new_run => new,
           \A i \in 1 .. Len(log) : log[i] < now
    PROVE  Down' /\ Sess'
<1> DEFINE d == download
           ends == new /\ run_count > 0
<1>c. HISTORY_CAPACITY \in Nat \ {0}
  BY RunsAssumption
<1>t. /\ log \in Seq(Moments) /\ now \in Moments /\ now \in Nat /\ Len(log) \in Nat
      /\ run_count \in Nat /\ pending \in Nat /\ write \in Nat /\ runs \in Seq(TrueRuns)
      /\ First(Live) = write + pending - Len(log) /\ First(Live) \in Int
      /\ Len(log) <= HISTORY_CAPACITY
      /\ \A i, j \in 1 .. Len(log) : i < j => log[i] < log[j]
      /\ \A i \in 1 .. Len(log) : log[i] \in Nat
      /\ Others \in Nat /\ Others <= Len(runs) /\ d.count \in Nat /\ RunsTypeOK /\ PlaceInv
  <2>1. PlaceInv /\ RunsTypeOK
    BY DEF TransferInv, PlaceInv, RunsInv
  <2>2. now \in Moments /\ now \in Nat /\ d.count \in Nat
    BY <2>1 DEF RunsTypeOK, Moments
  <2>3. QED
    BY <2>1, <2>2, WindowNumbers
<1>1. /\ log' = Newest(HISTORY_CAPACITY, Append(log, now))
      /\ pending' = r.pending + 1 /\ write' = r.write /\ force_new_run' = FALSE /\ lost' = lost
      /\ session' = (IF ends THEN NoSession ELSE session)
      /\ (~ends => runs' = runs)
  BY DEF Stored, indexVars
<1>2. /\ download'.phase = d.phase /\ download'.ordinal = d.ordinal /\ download'.count = d.count
      /\ download'.start = d.start /\ download'.sent = d.sent /\ download'.newest = d.newest
      /\ download'.stale = d.stale
      /\ download'.moved = (d.moved \/ (d.phase # "inactive" /\ Len(log) = HISTORY_CAPACITY))
      /\ download'.crossed = (d.crossed \/ (d.phase # "inactive" /\ ends))
  <2>1. download = [x \in DOMAIN NoDownload |-> download[x]]
    BY <1>t DEF RunsTypeOK
  <2>2. \E a, b : download' = [download EXCEPT !.moved = a, !.crossed = b]
    BY DEF Stored
  <2>3. QED
    BY <2>1, <2>2 DEF Stored, NoDownload
<1> HIDE DEF ends
<1>3. PICK q \in {0, 1} : /\ Slid(log, log', now, q) /\ log' \in Seq(Moments)
                          /\ q = 1 <=> Len(log) = HISTORY_CAPACITY
  BY <1>c, <1>t, <1>1, WindowSlides
<1>4. /\ Len(log') = Len(log) + 1 - q /\ log'[Len(log')] = now
      /\ \A i \in 1 .. Len(log') - 1 : log'[i] = log[i + q]
  BY <1>3 DEF Slid
<1>5. Len(log) <= Len(log') /\ Len(log') \in Nat
  BY <1>t, <1>4
<1>6. \A i \in 1 .. Len(log) : log'[i] \in Nat /\ log[i] <= log'[i]
  <2>1. SUFFICES ASSUME NEW i \in 1 .. Len(log) PROVE log'[i] \in Nat /\ log[i] <= log'[i]
    OBVIOUS
  <2>2. CASE i = Len(log')
    BY <1>t, <1>4, <2>2
  <2>3. CASE i # Len(log')
    <3>1. i \in 1 .. Len(log') - 1 /\ i + q \in 1 .. Len(log) /\ (i + q = i \/ i < i + q)
      <4>1. Len(log) \in Nat /\ Len(log') = Len(log) + 1 - q /\ Len(log) <= Len(log')
        BY <1>t, <1>4, <1>5
      <4>2. QED
        BY <4>1, <2>3
    <3>2. log'[i] = log[i + q]
      BY <1>4, <3>1
    <3>3. log[i] <= log[i + q]
      BY <1>t, <3>1
    <3>4. QED
      BY <1>t, <3>1, <3>2, <3>3
  <2>4. QED
    BY <2>2, <2>3
<1>7. First(Live)' = First(Live) + q
  <2>1. r.write \in Nat /\ r.pending \in Nat /\ r.write + r.pending = write + pending
    BY <1>t, FlushPlaces
  <2>2. First(Live)' = (write' + pending') - Len(log')
    BY DEF First, Live
  <2>3. write' = r.write /\ pending' = r.pending + 1 /\ Len(log') = Len(log) + 1 - q
    BY <1>1, <1>4
  <2>4. First(Live)' = (r.write + (r.pending + 1)) - (Len(log) + 1 - q)
    BY <2>2, <2>3
  <2>5. /\ write \in Nat /\ pending \in Nat /\ Len(log) \in Nat /\ q \in Int
        /\ First(Live) = (write + pending) - Len(log)
    BY <1>t
  <2>6. QED
    BY <2>1, <2>4, <2>5
<1>8. ASSUME ~ends
      PROVE  /\ runs' = runs /\ Others' = Others
             /\ \A k \in Int : \A m, l \in Int :
                   Before(k, m) /\ m <= l => EndBefore(runs', Others', First(Live)', k, l)
  <2>1. Live'.over = FALSE
    BY <1>1 DEF Live
  <2>2. ~Self(LastOf(runs), Live)'
    BY <2>1 DEF Self
  <2>3. runs # <<>> => ~Self(LastOf(runs), Live)
    <3>1. SUFFICES ASSUME runs # <<>>, Self(LastOf(runs), Live) PROVE FALSE
      OBVIOUS
    <3>2. force_new_run /\ LastOf(runs).count = run_count
      BY <3>1 DEF Self, Live
    <3>3. run_count = 0
      BY <1>8, <1>t, <3>2 DEF ends
    <3>4. Len(runs) \in 1 .. Len(runs)
      BY <1>t, <3>1
    <3>5. runs[Len(runs)].count > 0
      BY <1>t, <3>4 DEF PlaceInv, Indexed, Placed
    <3>6. QED
      BY <3>2, <3>3, <3>5 DEF LastOf
  <2>4. runs' = runs /\ Others = Len(runs) /\ Others' = Others
    BY <1>1, <1>8, <2>2, <2>3 DEF Others, OtherRuns
  <2>5. ASSUME NEW k \in Int, NEW m \in Int, NEW l \in Int, Before(k, m), m <= l
        PROVE  EndBefore(runs', Others', First(Live)', k, l)
    <3>1. First(Live) <= First(Live) + q /\ First(Live) + q \in Int /\ k <= k
      BY <1>t
    <3>2. EndBefore(runs, Others, First(Live), k, m)
      BY <2>5 DEF Before
    <3>3. EndBefore(runs, Others, First(Live) + q, k, l)
      BY <1>t, <2>5, <3>1, <3>2, EndBeforeLess
    <3>4. QED
      BY <1>7, <2>4, <3>3
  <2>6. QED
    BY <2>4, <2>5
<1>9. Down'
  <2>1. ASSUME d.phase # "inactive", d.count > 0
        PROVE  /\ d.start \in Nat /\ d.start + d.count <= Len(log')
               /\ ~d.crossed /\ ~ends =>
                     EndBefore(runs', Others', First(Live)', d.ordinal + 1, log'[d.start + 1])
               /\ ~d.moved /\ ~d.stale /\ Len(log) # HISTORY_CAPACITY =>
                     /\ log'[d.start + d.count] = d.newest
                     /\ Spaced(log', d.start + 1, d.start + d.count, lost')
    <3>1. /\ d.start \in Nat /\ d.start + d.count <= Len(log) /\ d.ordinal \in Nat
          /\ ~d.crossed => Before(d.ordinal + 1, log[d.start + 1])
          /\ ~d.moved /\ ~d.stale => /\ log[d.start + d.count] = d.newest
                                     /\ Spaced(log, d.start + 1, d.start + d.count, lost)
      BY <2>1 DEF TransferInv, Down
    <3>n. d.start \in Nat /\ d.start + d.count <= Len(log) /\ d.count > 0 /\ d.ordinal \in Nat
      BY <2>1, <3>1
    <3>2. /\ d.start + 1 \in 1 .. Len(log) /\ d.start + d.count \in 1 .. Len(log)
          /\ d.start + d.count <= Len(log') /\ d.ordinal + 1 \in Int /\ d.start + 1 <= d.start + d.count
      <4>1. Len(log) \in Nat /\ Len(log') \in Nat /\ Len(log) <= Len(log') /\ d.count \in Nat
        BY <1>t, <1>5
      <4>2. QED
        BY <3>n, <4>1
    <3>3. ASSUME ~d.crossed, ~ends
          PROVE  EndBefore(runs', Others', First(Live)', d.ordinal + 1, log'[d.start + 1])
      <4>1. log[d.start + 1] \in Int /\ log'[d.start + 1] \in Int /\ log[d.start + 1] <= log'[d.start + 1]
        BY <1>t, <1>6, <3>2
      <4>2. Before(d.ordinal + 1, log[d.start + 1])
        BY <3>1, <3>3
      <4>3. QED
        BY <1>8, <3>2, <3>3, <4>1, <4>2
    <3>4. ASSUME ~d.moved, ~d.stale, Len(log) # HISTORY_CAPACITY
          PROVE  /\ log'[d.start + d.count] = d.newest
                 /\ Spaced(log', d.start + 1, d.start + d.count, lost')
      <4>1. q = 0
        BY <1>3, <3>4
      <4>2. \A i \in 1 .. Len(log) : log'[i] = log[i]
        BY <1>t, <1>4, <4>1
      <4>3. log'[d.start + d.count] = d.newest
        BY <3>1, <3>2, <3>4, <4>2
      <4>4. \A i \in d.start + 1 .. d.start + d.count : log'[i] = log[i + 0]
        <5>1. \A i \in d.start + 1 .. d.start + d.count : i \in 1 .. Len(log) /\ i + 0 = i
          BY <1>t, <3>n
        <5>2. QED
          BY <4>2, <5>1
      <4>5. Spaced(log, d.start + 1 + 0, d.start + d.count + 0, lost)
        <5>1. d.start + 1 + 0 = d.start + 1 /\ d.start + d.count + 0 = d.start + d.count
          BY <1>t, <3>n
        <5>2. QED
          BY <3>1, <3>4, <5>1
      <4>6. d.start + 1 \in Int /\ d.start + d.count \in Int
        BY <1>t, <3>n
      <4>7. Spaced(log', d.start + 1, d.start + d.count, lost)
        <5>1. 0 \in Int /\ log' \in Seq(Moments) /\ log \in Seq(Moments)
          BY <1>t, <1>3
        <5>2. \A s, u \in Seq(Moments) : \A gone : \A x, y \in Int :
                 /\ x <= y /\ \A i \in x .. y : u[i] = s[i + 0]
                 /\ Spaced(s, x + 0, y + 0, gone)
                 => Spaced(u, x, y, gone)
          <6>1. 0 \in Int
            OBVIOUS
          <6>2. QED
            BY <6>1, SpacedSlides
        <5>3. QED
          BY <3>2, <4>4, <4>5, <4>6, <5>1, <5>2
      <4>8. QED
        BY <1>1, <4>3, <4>7
    <3>5. QED
      BY <3>1, <3>2, <3>3, <3>4
  <2>2. d.ordinal \in Nat /\ d.sent \in Nat
    BY DEF TransferInv, Down
  <2>3. QED
    BY <1>2, <2>1, <2>2 DEF Down, Before
<1>10. Sess'
  <2>1. CASE ends
    BY <1>1, <2>1, NoSessionTransfers
  <2>2. CASE ~ends
    <3>1. session' = session
      BY <1>1, <2>2
    <3>2. ASSUME session.told # 0, ~session.crossed
          PROVE  /\ EndBefore(runs', Others', First(Live)', session.next, session.told)
                 /\ session.told \in Nat
                 /\ d.phase # "inactive" => session.next <= d.ordinal
      <4>1. /\ session.told \in Nat /\ session.next \in Nat /\ Before(session.next, session.told)
            /\ d.phase # "inactive" => session.next <= d.ordinal
        BY <3>2 DEF TransferInv, Sess
      <4>2. session.told \in Int /\ session.next \in Int /\ session.told <= session.told
        BY <4>1
      <4>3. QED
        BY <1>8, <2>2, <4>1, <4>2
    <3>3. /\ session.told # 0 => session.active
          /\ session.active => session.next \in Nat \ {0}
      BY DEF TransferInv, Sess
    <3>4. QED
      BY <1>2, <3>1, <3>2, <3>3 DEF Sess, Before
  <2>3. QED
    BY <2>1, <2>2
<1>11. QED
  BY <1>9, <1>10

LEMMA CommitTransfers ==
    ASSUME TransferInv, NEW due_new \in BOOLEAN, NEW corrected \in BOOLEAN,
           CommitSample(due_new, corrected), clearing = "inactive", force_new_run => due_new,
           \A i \in 1 .. Len(log) : log[i] < now,
           pending = PENDING_CAPACITY => clock_started /\ now > last_sample
    PROVE  Down' /\ Sess'
<1> DEFINE stamped == run_count > 0 /\ last_epoch # 0 /\ Epoch # 0
           new == due_new \/ (stamped /\ (corrected \/ Epoch # last_epoch + 1))
           full == pending = PENDING_CAPACITY
           ends == new /\ run_count > 0 /\ run_anchor # 0
<1>1. PICK r \in IF full \/ ends THEN FlushResults ELSE {AsIs(TRUE)} :
         IF full /\ ~r.ok THEN Dropped(r) ELSE Stored(r, new)
  BY DEF CommitSample
<1>2. CASE full /\ ~r.ok
  <2>1. r \in FlushResults /\ Dropped(r)
    BY <1>1, <1>2
  <2>2. QED
    BY <1>2, <2>1, DroppedTransfers
<1>3. CASE ~(full /\ ~r.ok)
  <2>1. r \in FlushResults \cup {AsIs(TRUE)} /\ Stored(r, new)
    BY <1>1, <1>3
  <2>2. new \in BOOLEAN /\ (force_new_run => new)
    OBVIOUS
  <2> HIDE DEF new
  <2>3. QED
    BY <2>1, <2>2, StoredTransfers
<1>4. QED
  BY <1>2, <1>3

LEMMA SampleTransfers == ASSUME TransferInv, FirstSample \/ NextSample PROVE Down' /\ Sess'
<1>1. /\ Timely /\ Sampling /\ RunsTypeOK /\ now \in Nat /\ last_sample \in Nat
      /\ \A i \in 1 .. Len(log) : log[i] \in Nat
  BY WindowNumbers DEF TransferInv, PlaceInv, Timely, RunsTypeOK, Moments
<1>2. CASE FirstSample
  <2>1. CommitSample(force_new_run \/ run_count = 0, FALSE) /\ clearing = "inactive" /\ ~clock_started
    BY <1>2 DEF FirstSample
  <2>2. \A i \in 1 .. Len(log) : log[i] < now
    BY <1>1, <2>1 DEF Timely
  <2>3. pending # PENDING_CAPACITY
    <3>1. pending = 0 /\ PENDING_CAPACITY # 0
      BY <1>1, <2>1, RunsAssumption DEF Sampling
    <3>2. QED
      BY <3>1
  <2>4. (force_new_run \/ run_count = 0) \in BOOLEAN /\ FALSE \in BOOLEAN
        /\ (force_new_run => force_new_run \/ run_count = 0)
    OBVIOUS
  <2>5. QED
    BY <2>1, <2>2, <2>3, <2>4, CommitTransfers
<1>3. CASE NextSample
  <2>1. PICK corrected \in BOOLEAN : CommitSample(force_new_run \/ CadenceGap, corrected)
    BY <1>3 DEF NextSample
  <2>2. clearing = "inactive" /\ clock_started /\ now > last_sample
    BY <1>3 DEF NextSample
  <2>3. \A i \in 1 .. Len(log) : log[i] < now
    <3>1. \A i \in 1 .. Len(log) : log[i] <= last_sample
      BY <1>1, <2>2 DEF Timely, Horizon
    <3>2. QED
      BY <1>1, <2>2, <3>1
  <2>4. (force_new_run \/ CadenceGap) \in BOOLEAN /\ (force_new_run => force_new_run \/ CadenceGap)
    OBVIOUS
  <2>5. QED
    BY <2>1, <2>2, <2>3, <2>4, CommitTransfers
<1>4. QED
  BY <1>2, <1>3

\* The other steps of the bridge leave its window where it is.
LEMMA BridgeTransfers ==
    ASSUME TransferInv, FlushTick \/ ClearPrepare \/ ClearErase \/ Tick \/ ClockArrives
    PROVE  Down' /\ Sess'
<1>1. /\ lost' = lost \cup {} /\ log' = log /\ runs' = runs
      /\ UNCHANGED <<run_count, run_anchor, force_new_run, download, session>>
  BY DEF FlushTick, ClearPrepare, ClearErase, Tick, ClockArrives, storeVars, runVars, indexVars,
         clientVars
<1>2. write' + pending' = write + pending
  <2>1. CASE FlushTick
    <3>1. PICK r \in FlushResults : FlushesTo(r)
      BY <2>1 DEF FlushTick
    <3>2. r \in FlushResults \cup {AsIs(TRUE)} /\ PlaceInv /\ clearing # "prepare"
      BY <2>1 DEF TransferInv, FlushTick
    <3>3. r.write + r.pending = write + pending
      BY <3>2, FlushPlaces
    <3>4. QED
      BY <3>1, <3>3 DEF FlushesTo
  <2>2. CASE ~FlushTick
    BY <2>2 DEF ClearPrepare, ClearErase, Tick, ClockArrives, storeVars
  <2>3. QED
    BY <2>1, <2>2
<1>3. PICK none : none = {}
  OBVIOUS
<1>4. lost' = lost \cup none /\ \A m \in none : m \in Int /\ \A i \in 1 .. Len(log) : log[i] < m
  BY <1>1, <1>3
<1>5. QED
  BY <1>1, <1>2, <1>4, SteadyTransfers

LEMMA EmptiedTransfers == ASSUME download' = NoDownload, session' = NoSession PROVE Down' /\ Sess'
<1>1. download'.ordinal = 0 /\ download'.sent = 0 /\ download'.phase = "inactive"
  BY DEF NoDownload
<1>2. Down'
  BY <1>1 DEF Down
<1>3. QED
  BY <1>2, NoSessionTransfers

LEMMA ClientTransfers ==
    ASSUME TransferInv,
           \/ Connect \/ Subscribe \/ Unsubscribe \/ Disconnect
           \/ \E n \in Requests : Request(n)
           \/ SendHeader \/ SendData \/ Abort \/ Pause \/ SessionExpires
           \/ UNCHANGED runsVars
    PROVE  Down' /\ Sess'
<1>1. Staying
  BY DEF Connect, Subscribe, Unsubscribe, Disconnect, Request, SendHeader, SendData, Abort,
         Pause, SessionExpires, Sending, Staying, runsVars
<1>t. /\ download = [x \in DOMAIN NoDownload |-> download[x]]
      /\ download.count \in Nat /\ download.requested \in Nat
  BY DEF TransferInv, PlaceInv, RunsInv, RunsTypeOK
<1>2. CASE Connect \/ SessionExpires \/ UNCHANGED runsVars
  <2>1. download' = download /\ session' \in {session, NoSession}
    BY <1>2 DEF Connect, SessionExpires, runsVars, clientVars
  <2>2. QED
    BY <1>1, <2>1, GoesOnTransfers
<1>3. CASE Subscribe
  <2>1. session' = session
    BY <1>3 DEF Subscribe
  <2>2. CASE clearing = "inactive"
    <3>1. Start(download.requested)
      BY <1>3, <2>2 DEF Subscribe
    <3>2. QED
      BY <1>1, <1>t, <2>1, <3>1, StartTransfers
  <2>3. CASE clearing # "inactive"
    <3>1. download' = download
      BY <1>3, <2>3 DEF Subscribe
    <3>2. QED
      BY <1>1, <2>1, <3>1, GoesOnTransfers
  <2>4. QED
    BY <2>2, <2>3
<1>4. CASE Unsubscribe \/ Disconnect \/ Abort
  <2>1. download' = NoDownload /\ session' = session
    BY <1>4 DEF Unsubscribe, Disconnect, Abort
  <2>2. QED
    BY <1>1, <2>1, ResetTransfers
<1>5. CASE \E n \in Requests : Request(n)
  <2>1. PICK n \in Requests : Request(n)
    BY <1>5
  <2>2. session' = session /\ n \in Nat
    BY <2>1, RunsAssumption DEF Request
  <2>3. CASE Start(n)
    BY <1>1, <2>2, <2>3, StartTransfers
  <2>4. CASE download' = [download EXCEPT !.requested = n]
    <3>1. /\ \A x \in {"ordinal", "count", "start", "newest", "stale", "moved", "crossed"} :
                download'[x] = download[x]
          /\ download'.phase = download.phase /\ download'.sent = download.sent
      BY <1>t, <2>4 DEF NoDownload
    <3>2. QED
      BY <1>1, <2>2, <3>1, GoesOnTransfers
  <2>5. QED
    BY <2>1, <2>3, <2>4 DEF Request
<1>6. CASE SendHeader
  <2>1. download.phase # "inactive"
    BY <1>6 DEF SendHeader
  <2>2. CASE download.count = 0
    <3>1. Completed(download)
      BY <1>6, <2>2 DEF SendHeader
    <3>2. QED
      BY <1>1, <2>1, <3>1, CompletedTransfers
  <2>3. CASE download.count # 0
    <3>1. download' = [download EXCEPT !.phase = "data", !.idle = 0] /\ session' = session
      BY <1>6, <2>3 DEF SendHeader
    <3>2. /\ \A x \in {"ordinal", "count", "start", "newest", "stale", "moved", "crossed"} :
                download'[x] = download[x]
          /\ download'.sent = download.sent
      BY <1>t, <3>1 DEF NoDownload
    <3>3. QED
      BY <1>1, <2>1, <3>1, <3>2, GoesOnTransfers
  <2>4. QED
    BY <2>2, <2>3
<1>7. CASE SendData
  <2> DEFINE sent == MinOf(download.sent + 2, download.count)
  <2>1. download.phase # "inactive"
    BY <1>7 DEF SendData
  <2>2. CASE Completed(download)
    BY <1>1, <2>1, <2>2, CompletedTransfers
  <2>3. CASE download' = [download EXCEPT !.sent = sent, !.idle = 0] /\ session' = session
    <3>1. /\ \A x \in {"ordinal", "count", "start", "newest", "stale", "moved", "crossed"} :
                download'[x] = download[x]
          /\ download'.sent = sent
      BY <1>t, <2>3 DEF NoDownload
    <3>2. download.sent \in Nat => sent \in Nat
      BY <1>t DEF MinOf
    <3>3. QED
      BY <1>1, <2>1, <2>3, <3>1, <3>2, GoesOnTransfers
  <2>4. CASE download' = NoDownload /\ session' = session
    BY <1>1, <2>4, ResetTransfers
  <2>5. QED
    BY <1>7, <2>2, <2>3, <2>4 DEF SendData
<1>8. CASE Pause
  <2>1. /\ session' = session
        /\ download' = [download EXCEPT !.idle = MinOf(@ + 1, NoProgress),
                                        !.total = MinOf(@ + 1, MaxTransfer)]
    BY <1>8 DEF Pause
  <2>2. /\ \A x \in {"ordinal", "count", "start", "newest", "stale", "moved", "crossed"} :
              download'[x] = download[x]
        /\ download'.phase = download.phase /\ download'.sent = download.sent
    BY <1>t, <2>1 DEF NoDownload
  <2>3. QED
    BY <1>1, <2>1, <2>2, GoesOnTransfers
<1>9. QED
  BY <1>2, <1>3, <1>4, <1>5, <1>6, <1>7, <1>8

LEMMA InitTransfers == RunsInit => TransferInv
<1> SUFFICES ASSUME RunsInit PROVE TransferInv
  OBVIOUS
<1>1. PlaceInv
  BY InitPlaces
<1>2. download.ordinal = 0 /\ download.sent = 0 /\ download.phase = "inactive" /\ session.told = 0 /\ ~session.active
  BY DEF RunsInit, NoDownload, NoSession
<1>3. QED
  BY <1>1, <1>2 DEF TransferInv, Down, Sess

LEMMA NextTransfers == TransferInv /\ [RunsNext]_runsVars => TransferInv'
<1> SUFFICES ASSUME TransferInv, [RunsNext]_runsVars PROVE TransferInv'
  OBVIOUS
<1>1. PlaceInv'
  BY NextPlaces DEF TransferInv
<1>2. Down' /\ Sess'
  <2>1. CASE FirstSample \/ NextSample
    BY <2>1, SampleTransfers
  <2>2. CASE FlushTick \/ ClearPrepare \/ ClearErase \/ Tick \/ ClockArrives
    BY <2>2, BridgeTransfers
  <2>3. CASE Restart \/ \E i \in Intervals : SetInterval(i)
    BY <2>3, EmptiedTransfers DEF Restart, SetInterval
  <2>4. CASE \/ Connect \/ Subscribe \/ Unsubscribe \/ Disconnect
             \/ \E n \in Requests : Request(n)
             \/ SendHeader \/ SendData \/ Abort \/ Pause \/ SessionExpires
             \/ UNCHANGED runsVars
    BY <2>4, ClientTransfers
  <2>5. QED
    BY <2>1, <2>2, <2>3, <2>4 DEF RunsNext
<1>3. QED
  BY <1>1, <1>2 DEF TransferInv

LEMMA TransfersInvariant == RunsSpec => []TransferInv
BY InitTransfers, NextTransfers, PTL DEF RunsSpec

\* Between two samples of a run there is a sample for each moment, but for what was
\* dropped.
LEMMA SpacedCounts ==
    ASSUME NEW s \in Seq(Moments), NEW gone \in SUBSET Nat, NEW a \in Int, NEW b \in Int,
           1 <= a, a <= b, b <= Len(s),
           \A i, j \in 1 .. Len(s) : i < j => s[i] < s[j],
           Spaced(s, a, b, gone)
    PROVE  LET M == {x \in gone : s[a] < x /\ x < s[b]} IN
           /\ Cardinality(M) \in Nat
           /\ s[b] - s[a] = (b - a) + Cardinality(M)
<1> DEFINE I == s[a] + 1 .. s[b]
           D == a + 1 .. b
           K == {s[k] : k \in D}
           M == {x \in gone : s[a] < x /\ x < s[b]}
           f == [k \in D |-> s[k]]
<1>1. Len(s) \in Nat /\ (\A k \in 1 .. Len(s) : s[k] \in Nat) /\ a \in 1 .. Len(s) /\ b \in 1 .. Len(s)
  <2>1. Len(s) \in Nat
    OBVIOUS
  <2>2. \A k \in 1 .. Len(s) : s[k] \in Nat
    BY DEF Moments
  <2>3. QED
    BY <2>1, <2>2
<1>2. \A k \in D : k \in 1 .. Len(s) /\ s[k] \in Nat /\ s[a] < s[k]
  BY <1>1
<1>3. \A k \in D : s[k] <= s[b]
  <2>1. SUFFICES ASSUME NEW k \in D PROVE s[k] <= s[b]
    OBVIOUS
  <2>2. k = b \/ k < b
    BY <1>1
  <2>3. QED
    BY <1>1, <1>2, <2>2
<1>4. s[a] \in Nat /\ s[b] \in Nat /\ s[a] <= s[b]
  <2>1. a = b \/ a < b
    BY <1>1
  <2>2. QED
    BY <1>1, <2>1
<1>5. \A m \in I : m \in gone <=> \A k \in a .. b : s[k] # m
  BY DEF Spaced
<1>6. K \subseteq I
  <2>1. SUFFICES ASSUME NEW k \in D PROVE s[k] \in I
    OBVIOUS
  <2>2. QED
    BY <1>2, <1>3, <1>4
<1>7. M \subseteq I
  <2>1. SUFFICES ASSUME NEW x \in gone, s[a] < x, x < s[b] PROVE x \in I
    OBVIOUS
  <2>2. x \in Nat
    OBVIOUS
  <2>3. QED
    BY <1>4, <2>1, <2>2
<1>8. I \subseteq K \cup M
  <2>1. SUFFICES ASSUME NEW m \in I, m \notin K PROVE m \in M
    OBVIOUS
  <2>2. m \in Int /\ s[a] < m /\ m <= s[b]
    BY <1>4
  <2>3. \A k \in D : s[k] # m
    BY <2>1
  <2>4. \A k \in a .. b : s[k] # m
    <3>1. \A k \in a .. b : k = a \/ k \in D
      OBVIOUS
    <3>2. s[a] # m
      BY <1>4, <2>2
    <3>3. QED
      BY <2>3, <3>1, <3>2
  <2>5. m \in gone
    BY <1>5, <2>4
  <2>6. b \in a .. b
    OBVIOUS
  <2>7. m # s[b]
    BY <2>4, <2>6
  <2>8. QED
    BY <1>4, <2>2, <2>5, <2>7
<1>9. K \cap M = {}
  <2>1. SUFFICES ASSUME NEW k \in D, s[k] \in M PROVE FALSE
    OBVIOUS
  <2>2. s[k] \in I /\ s[k] \in gone
    BY <1>7, <2>1
  <2>3. k \in a .. b
    OBVIOUS
  <2>4. QED
    BY <1>5, <2>2, <2>3
<1>10. IsFiniteSet(D) /\ Cardinality(D) = b - a
  <2>1. a + 1 \in Int /\ b \in Int
    OBVIOUS
  <2>2. IsFiniteSet(a + 1 .. b) /\ Cardinality(a + 1 .. b) = IF a + 1 > b THEN 0 ELSE b - (a + 1) + 1
    BY <2>1, FS_Interval
  <2>3. (IF a + 1 > b THEN 0 ELSE b - (a + 1) + 1) = b - a
    OBVIOUS
  <2>4. QED
    BY <2>2, <2>3
<1>11. IsFiniteSet(I) /\ Cardinality(I) = s[b] - s[a]
  <2>1. \A x, y \in Nat : x <= y => (IF x + 1 > y THEN 0 ELSE y - (x + 1) + 1) = y - x
    OBVIOUS
  <2>2. s[a] + 1 \in Int /\ s[b] \in Int
    BY <1>4
  <2>3. /\ IsFiniteSet(s[a] + 1 .. s[b])
        /\ Cardinality(s[a] + 1 .. s[b])
              = IF s[a] + 1 > s[b] THEN 0 ELSE s[b] - (s[a] + 1) + 1
    BY <2>2, FS_Interval
  <2>4. QED
    BY <1>4, <2>1, <2>3
<1>12. f \in Bijection(D, K)
  <2>1. f \in [D -> K]
    OBVIOUS
  <2>2. \A x, y \in D : f[x] = f[y] => x = y
    <3>1. SUFFICES ASSUME NEW x \in D, NEW y \in D, s[x] = s[y] PROVE x = y
      OBVIOUS
    <3>2. x \in 1 .. Len(s) /\ y \in 1 .. Len(s) /\ s[x] \in Nat /\ s[y] \in Nat
      BY <1>2
    <3>3. x = y \/ x < y \/ y < x
      OBVIOUS
    <3>4. QED
      BY <3>1, <3>2, <3>3
  <2>3. \A t \in K : \E x \in D : f[x] = t
    OBVIOUS
  <2>4. QED
    BY <2>1, <2>2, <2>3 DEF Bijection, Injection, IsInjective, Surjection
<1>13. IsFiniteSet(K) /\ Cardinality(K) = b - a
  <2>1. ExistsBijection(D, K)
    BY <1>12 DEF ExistsBijection
  <2> HIDE DEF D, K
  <2>2. QED
    BY <1>10, <2>1, FS_Bijection
<1>14. I = K \cup M
  BY <1>6, <1>7, <1>8
<1> HIDE DEF I, K, M
<1>15. IsFiniteSet(M) /\ Cardinality(M) \in Nat
  <2>1. M \in SUBSET I
    BY <1>7
  <2>2. IsFiniteSet(M)
    BY <1>11, <2>1, FS_Subset
  <2>3. QED
    BY <2>2, FS_CardinalityType
<1>16. Cardinality(I) = Cardinality(K) + Cardinality(M) - Cardinality(K \cap M)
  BY <1>13, <1>14, <1>15, FS_Union
<1>17. Cardinality(K \cap M) = 0
  BY <1>9, FS_EmptySet
<1>18. s[b] - s[a] = (b - a) + Cardinality(M)
  BY <1>4, <1>11, <1>13, <1>15, <1>16, <1>17
<1>19. QED
  BY <1>15, <1>18 DEF M

\* No sample is delivered twice by the transfers of a session: the run it offers next
\* lies before all it has told (RunsOnce).
THEOREM RunsComeOnce == RunsSpec => []RunsOnce
<1>1. TransferInv => RunsOnce
  <2> DEFINE k == NextOrdinal
             run == SelectDownloadRun(k)
  <2>1. SUFFICES ASSUME TransferInv, session.told # 0, ~session.crossed, run.count > 0, ~run.stale
                 PROVE  log[run.start + run.count] < session.told
    BY DEF RunsOnce
  <2>2. /\ k = session.next /\ k \in Nat /\ k > 0
        /\ Before(k, session.told)
    BY <2>1 DEF TransferInv, Sess, NextOrdinal
  <2>3. PlaceInv
    BY <2>1 DEF TransferInv
  <2>4. /\ log[run.start + run.count] = run.newest
        /\ \E i \in 1 .. Others : k = Rank(i) /\ First(Live) <= runs[i].start /\ runs[i].newest = run.newest
    BY <2>1, <2>2, <2>3, SelectedRun
  <2> HIDE DEF k, run
  <2>5. PICK i \in 1 .. Others : k = Rank(i) /\ First(Live) <= runs[i].start /\ runs[i].newest = run.newest
    BY <2>4
  <2>6. k <= Others - i + 1
    BY <2>2, <2>5 DEF Rank
  <2>7. runs[i].newest < session.told
    BY <2>2, <2>5, <2>6 DEF Before, EndBefore
  <2>8. QED
    BY <2>4, <2>5, <2>7
<1>2. QED
  BY <1>1, TransfersInvariant, PTL

\* A packet brings each sample with the time at which it was taken, as the header and
\* its place in the run tell it (DeliversTheRun).
THEOREM RunsAreDelivered == RunsSpec => DeliversTheRun
<1> DEFINE d == download
           packet == d.sent + 1 .. MinOf(d.sent + 2, d.count)
           missing(t) == Cardinality({x \in lost : t < x /\ x < d.due})
<1>1. ASSUME TransferInv, SendData, ~(d.moved \/ d.stale), NEW i \in packet
      PROVE  d.due - log[d.start + i] = (d.count - i) + missing(log[d.start + i])
  <2>1. d.count \in Nat /\ d.sent \in Nat /\ d.phase # "inactive" /\ HeaderTrue /\ lost \in SUBSET Nat
    BY <1>1 DEF TransferInv, Down, PlaceInv, RunsInv, RunsTypeOK, Timely, SendData
  <2>2. /\ log \in Seq(Moments) /\ Len(log) \in Nat
        /\ \A h, j \in 1 .. Len(log) : h < j => log[h] < log[j]
    BY <1>1, WindowNumbers DEF TransferInv
  <2>3. d.count > 0
    <3>1. i \in d.sent + 1 .. MinOf(d.sent + 2, d.count)
      BY <1>1
    <3>2. QED
      BY <2>1, <3>1 DEF MinOf
  <2>4. /\ d.start \in Nat /\ d.start + d.count <= Len(log)
        /\ log[d.start + d.count] = d.newest
        /\ Spaced(log, d.start + 1, d.start + d.count, lost)
    BY <1>1, <2>1, <2>3 DEF TransferInv, Down
  <2>5. d.due = log[d.start + d.count]
    BY <2>1, <2>3, <2>4 DEF HeaderTrue
  <2>6. i \in 1 .. d.count
    BY <1>1, <2>1, <2>4 DEF MinOf
  <2>7. /\ d.start + 1 \in Int /\ d.start + i \in Int /\ d.start + d.count \in Int
        /\ 1 <= d.start + 1 /\ d.start + 1 <= d.start + i /\ d.start + i <= d.start + d.count
        /\ 1 <= d.start + i /\ (d.start + d.count) - (d.start + i) = d.count - i
    <3>1. d.start \in Nat /\ d.count \in Nat /\ i \in 1 .. d.count
      BY <2>1, <2>4, <2>6
    <3>2. QED
      BY <3>1
  <2>8. Spaced(log, d.start + i, d.start + d.count, lost)
    BY <2>2, <2>4, <2>7, SpacedSuffix
  <2>9. log[d.start + d.count] - log[d.start + i]
           = ((d.start + d.count) - (d.start + i))
             + Cardinality({x \in lost : log[d.start + i] < x /\ x < log[d.start + d.count]})
    BY <2>1, <2>2, <2>4, <2>7, <2>8, SpacedCounts
  <2>10. QED
    BY <2>5, <2>7, <2>9
<1>2. TransferInv => [SendData /\ ~(d.moved \/ d.stale) =>
                         \A i \in packet :
                            LET sample == log[d.start + i]
                            IN d.due - sample = (d.count - i) + missing(sample)]_runsVars
  BY <1>1
<1>3. QED
  BY <1>2, TransfersInvariant, PTL DEF DeliversTheRun

=============================================================================
