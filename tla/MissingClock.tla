---------------------------- MODULE MissingClock ----------------------------
(***************************************************************************)
(* The two repairs of i2c_sniffer.cpp for a capture whose edge interrupt   *)
(* came too late for some SCL edges: the intervals in which SCL stayed     *)
(* longer than a clock and the pulses that may be missing in them, and the *)
(* comparison with the SCL edges the RMT peripheral recorded.  Pure        *)
(* operators; CaptureRecovery is the search that uses them.                *)
(*                                                                         *)
(* Times are those of the 32-bit microsecond clock, ClockMod standing for  *)
(* 2^32; a comparison is made the way the code makes it, on the difference *)
(* as a signed number (Before) or on the numbers themselves (<).           *)
(***************************************************************************)
EXTENDS FrameDecoder, SequencesExt

CONSTANTS
    ClockMod,
    MAX_SAMPLES,
    RecoveryCandidates,  \* MAX_RECOVERY_PULSE_CANDIDATES
    RecoverySdaEvents,   \* MAX_RECOVERY_SDA_EVENTS
    RmtMaxRepairEdges    \* RMT_MAX_REPAIR_EDGES

RecoveryMinLevel == 55
RecoveryMaxLevel == 300
RmtAlignTolerance == 12

Since(t, start) == (t - start) % ClockMod
Before(a, b) == Since(a, b) >= ClockMod \div 2

\* How many of the samples come before the first one that P holds of.
CountBefore(data, P(_)) ==
    LET Hits == {k \in DOMAIN data : P(data[k])} IN IF Hits = {} THEN Len(data) ELSE Min(Hits) - 1
LevelAt(data, n, initial) == IF n = 0 THEN initial ELSE data[n]
FlipScl(s) == [s EXCEPT !.scl = 1 - @]

-----------------------------------------------------------------------------
(* The intervals of constant SCL, each with the times SDA changed in it; the *)
(* last one, which no SCL edge closes, is "tail".                            *)

\* The members of seq at the places in K.
Chosen(seq, K) ==
    LET upto[n \in 0 .. Len(seq)] ==
            IF n = 0 THEN <<>> ELSE IF n \in K THEN Append(upto[n - 1], seq[n]) ELSE upto[n - 1]
    IN upto[Len(seq)]

SclIntervals(data, initial) ==
    LET Earlier(n) == LevelAt(data, n - 1, initial)
        edges == Chosen([n \in DOMAIN data |-> n], {n \in DOMAIN data : Earlier(n).scl # data[n].scl})
        from == <<0>> \o edges
        SdaTimes(first, last) ==
            Chosen([n \in 1 .. last - first - 1 |-> data[first + n].t],
                   {n \in 1 .. last - first - 1 : Earlier(first + n).sda # data[first + n].sda})
        Closed(i) ==
            [level |-> Earlier(edges[i]).scl, start |-> data[Max({1, from[i]})].t, end |-> data[edges[i]].t,
             sda |-> SdaTimes(from[i], edges[i])]
    IN [closed |-> Chosen([i \in DOMAIN edges |-> Closed(i)], DOMAIN edges),
        tail |-> SdaTimes(from[Len(from)], Len(data) + 1)]

median_duration(durations) == SortSeq(durations, LAMBDA a, b : a < b)[Len(durations) \div 2 + 1]

\* The usual widths of SCL low and high; <<>> when too few clocks tell.
estimate_scl_level_timing(intervals) ==
    LET Widths(level) ==
            LET usual == SelectSeq(intervals, LAMBDA v : v.level = level /\ Since(v.end, v.start) \in 10 .. 60)
            IN SubSeq([k \in DOMAIN usual |-> Since(usual[k].end, usual[k].start)], 1,
                      Min({96, Len(usual)}))
    IN IF Len(Widths(0)) < 8 \/ Len(Widths(1)) < 8 THEN <<>>
       ELSE <<median_duration(Widths(0)), median_duration(Widths(1))>>

\* A missing pulse is as wide as the opposite level usually is, roughly.
PlausiblePulse(t1, t2, opposite) ==
    t2 > t1 /\ t2 - t1 \in Max({opposite \div 2, 4}) .. 2 * opposite + 5

\* Where in an interval the pulse can lie: one place for each way of ordering its
\* two edges among the SDA changes.
IntervalPulses(v, id, opposite) ==
    LET bounds == <<v.start>> \o v.sda \o <<v.end>>
        Width(g) == Since(bounds[g + 1], bounds[g])
        At(g, k, n) == (bounds[g] + (Width(g) * k) \div n) % ClockMod
        Slots(first) ==
            [second \in 1 .. Len(bounds) - first |->
               IF second = 1 THEN <<At(first, 1, 3), At(first, 2, 3)>>
               ELSE <<At(first, 1, 2), At(first + second - 1, 1, 2)>>]
        Tried(first) ==
            {second \in 1 .. Len(bounds) - first :
               /\ second = 1 \/ Width(first + second - 1) >= 5
               /\ PlausiblePulse(Slots(first)[second][1], Slots(first)[second][2], opposite)}
        PulsesFrom(first) == IF Width(first) < 9 THEN <<>> ELSE Chosen(Slots(first), Tried(first))
        all == FlattenSeq([first \in 1 .. Len(bounds) - 1 |-> PulsesFrom(first)])
    IN [n \in DOMAIN all |-> [t1 |-> all[n][1], t2 |-> all[n][2], id |-> id,
                              interval |-> Since(v.end, v.start)]]

\* An interval is long when a whole pulse of the other level fits into it.
TooLong(v, timing) ==
    Since(v.end, v.start) \in Max({2 * timing[v.level + 1] - 5, RecoveryMinLevel}) .. RecoveryMaxLevel

\* collect_pulse_candidates: <<>> also when the candidates cannot be told completely,
\* and no repair is tried then.
Candidates(data, initial) ==
    LET all == SclIntervals(data, initial)
        timing == estimate_scl_level_timing(all.closed)
        long == Chosen(all.closed, {n \in DOMAIN all.closed : TooLong(all.closed[n], timing)})
        pulses == FlattenSeq([n \in DOMAIN long |-> IntervalPulses(long[n], n, timing[2 - long[n].level])])
    IN IF \/ Len(data) < 4 \/ Len(data) > MAX_SAMPLES - 4 \/ timing = <<>>
          \/ \E n \in DOMAIN all.closed : Len(all.closed[n].sda) > RecoverySdaEvents
          \/ Len(all.tail) > RecoverySdaEvents
          \/ Len(pulses) > RecoveryCandidates
       THEN <<>> ELSE pulses

-----------------------------------------------------------------------------
(* The pulse is tried in the sample buffer itself. *)

find_insert_position(data, t) == CountBefore(data, LAMBDA s : ~Before(s.t, t))
WithEdge(data, n, initial, t) ==
    LET before == LevelAt(data, n, initial)
    IN InsertAt(data, n + 1, [t |-> t, scl |-> 1 - before.scl, sda |-> before.sda])
SclFlipped(data, from, t) ==
    LET stop == Min({k \in from .. Len(data) : k = Len(data) \/ data[k + 1].t >= t})
    IN [k \in DOMAIN data |-> IF k \in from + 1 .. stop THEN FlipScl(data[k]) ELSE data[k]]

apply_pulse(data, initial, p) ==
    LET pos1 == find_insert_position(data, p.t1)
        pos2 == find_insert_position(data, p.t2)
        once == WithEdge(SclFlipped(data, pos1, p.t2), pos1, initial, p.t1)
    IN IF \/ Len(data) > MAX_SAMPLES - 2 \/ p.t2 <= p.t1
          \/ pos1 < Len(data) /\ data[pos1 + 1].t = p.t1
          \/ pos2 < Len(data) /\ data[pos2 + 1].t = p.t2
       THEN [ok |-> FALSE, data |-> data]
       ELSE [ok |-> TRUE, data |-> WithEdge(once, find_insert_position(once, p.t2), initial, p.t2)]

\* The edges go, and the samples between them get their level back.  (LeavesFlipped:
\* they keep the level of the pulse.)
LeavesFlipped(s, p) == s
Unflipped(s, p) == IF s.t > p.t1 /\ s.t < p.t2 THEN FlipScl(s) ELSE s
undo_pulse(data, p) ==
    LET Of(t) == {k \in DOMAIN data : data[k].t = t}
        edges == {Max(Of(p.t1)), Max(Of(p.t2))}
        kept == RemoveAt(RemoveAt(data, Max(edges)), Min(edges))
    IN IF Of(p.t1) = {} \/ Of(p.t2) = {} THEN data
       ELSE [k \in DOMAIN kept |-> Unflipped(kept[k], p)]

-----------------------------------------------------------------------------
(* The RMT peripheral's record of SCL: levels with their durations in ticks of *)
(* 0.2 us, from the first edge on.                                             *)

RmtMicroseconds(ticks) == (2 * ticks + 5) \div 10

build_rmt_scl_edges(halves) ==
    Scan(LAMBDA a, h :
            IF h.ticks = 0 THEN a
            ELSE [t |-> a.t + h.ticks,
                  edges |-> IF a.edges # <<>> /\ Last(a.edges).level = h.level THEN a.edges
                            ELSE Append(a.edges, [us |-> RmtMicroseconds(a.t), level |-> h.level])],
         [t |-> 0, edges |-> <<>>], halves).edges

GpioSclEdges(data, initial) ==
    LET changes == Chosen([k \in DOMAIN data |-> k],
                          {k \in DOMAIN data : LevelAt(data, k - 1, initial).scl # data[k].scl})
    IN [n \in DOMAIN changes |-> [t |-> data[changes[n]].t, level |-> data[changes[n]].scl]]

Distance(a, b) == IF a < b THEN b - a ELSE a - b

\* How many GPIO edges have the nearest RMT edge close by, with the same level.
AlignmentScore(gpio, rmt, offset) ==
    LET Nearer(from, t) ==
            LET near[k \in from .. Len(rmt)] ==
                    IF k < Len(rmt) /\ Distance(offset + rmt[k + 1].us, t) < Distance(offset + rmt[k].us, t)
                    THEN near[k + 1] ELSE k
            IN near[from]
        Next(a, g) ==
            LET k == Nearer(a.k, g.t)
            IN [k |-> k, score |-> IF rmt[k].level = g.level /\ Distance(offset + rmt[k].us, g.t) <= RmtAlignTolerance
                                   THEN a.score + 1 ELSE a.score]
    IN Scan(Next, [k |-> 1, score |-> 0], gpio).score

\* The first edges of both give the epochs to choose from; the best score wins,
\* the later of equal ones only with one of the first two RMT edges.
RmtAlignment(gpio, rmt) ==
    LET Seed(n) == n.g \in DOMAIN gpio /\ n.r \in DOMAIN rmt /\ gpio[n.g].level = rmt[n.r].level
        Next(best, n) ==
            LET offset == gpio[n.g].t - rmt[n.r].us
                score == AlignmentScore(gpio, rmt, offset)
            IN IF Seed(n) /\ (score > best.score \/ (score = best.score /\ n.r <= 2))
               THEN [score |-> score, offset |-> offset] ELSE best
    IN Scan(Next, [score |-> 0, offset |-> 0],
            [n \in 1 .. 36 |-> [g |-> (n + 5) \div 6, r |-> ((n - 1) % 6) + 1]])

\* One RMT edge into the buffer, behind the samples that are not later, with the SDA
\* known there.  "in" is where the edges put in so far are now, in the order in which
\* they were.  An edge that was observed, or changes no level, is passed over; one
\* there is no room for makes the attempt fail.
PositionBehind(data, t) == CountBefore(data, LAMBDA s : Before(t, s.t))
Shifted(in, place) == [i \in DOMAIN in |-> IF in[i] >= place THEN in[i] + 1 ELSE in[i]]
InsertRmtEdge(s, initial, gpio, t, level) ==
    LET pos == PositionBehind(s.data, t)
        bus == LevelAt(s.data, pos, initial)
        observed == \E n \in DOMAIN gpio :
                        gpio[n].level = level /\ Distance(gpio[n].t, t) <= RmtAlignTolerance
    IN IF ~s.ok \/ t \notin 0 .. ClockMod - 1 \/ observed THEN s
       ELSE IF Len(s.in) >= RmtMaxRepairEdges THEN [s EXCEPT !.ok = FALSE]
       ELSE IF bus.scl = level THEN s
       ELSE IF Len(s.data) >= MAX_SAMPLES THEN [s EXCEPT !.ok = FALSE]
       ELSE [ok |-> s.ok, data |-> InsertAt(s.data, pos + 1, [t |-> t, scl |-> level, sda |-> bus.sda]),
             in |-> Append(Shifted(s.in, pos + 1), pos + 1)]

\* All of them, when enough of the edges of both agree; the buffer as it is otherwise.
RmtInserted(data, initial, halves) ==
    LET rmt == build_rmt_scl_edges(halves)
        gpio == GpioSclEdges(data, initial)
        best == RmtAlignment(gpio, rmt)
        untouched == [ok |-> TRUE, data |-> data, in |-> <<>>]
    IN IF Len(rmt) < 16 \/ Len(gpio) < 12 \/ 100 * best.score < 80 * Len(gpio) THEN untouched
       ELSE Scan(LAMBDA s, e : InsertRmtEdge(s, initial, gpio, best.offset + e.us, e.level), untouched, rmt)

\* The edges are taken out again: when the attempt failed, the last one put in first;
\* when the buffer has been decoded, the last one in it first.
GreatestRemoved(s) == [data |-> RemoveAt(s.data, Max(s.left)), left |-> s.left \ {Max(s.left)}]
RmtTakenOut(s) ==
    IF s.ok THEN Scan(LAMBDA a, p : GreatestRemoved(a), [data |-> s.data, left |-> Range(s.in)], s.in).data
    ELSE Scan(RemoveAt, s.data, Reverse(s.in))
=============================================================================
