----------------------- MODULE CaptureRecovery_proofs -----------------------
(* Two theorems about poll() and the repair of a capture.                     *)
(*                                                                            *)
(* WaveformIsKept: for every wire, every set of losses and every search for   *)
(* missing clocks, with the RMT record of SCL and without it, while the clock *)
(* does not wrap, the waveform is left as it was.                             *)
(* Trace: samples in the order of their times, inside a span of the clock.    *)
(* Shape: a trace with one pulse put into it.                                 *)
(* RmtState: a trace with edges of the RMT record in it, at places that are   *)
(* taken out again from the last to the first.                                *)
(* RecoveryInv: the buffer is what was captured, and the pulses that are      *)
(* still to be tried lie between its first and its last sample.               *)
(*                                                                            *)
(* SetupsAreResolved: for every measurement on the wire, every moment it      *)
(* begins and every loss of data changes, the first decoding gives the frames *)
(* that were sent.                                                            *)
(* Heard: what the decoder knows when it has seen a part of the wire, level   *)
(* by level, then bit by bit, byte by byte and transfer by transfer.          *)
(* SetupInv: the capture is what was seen of the wire, until it is decoded.   *)
EXTENDS CaptureRecovery, WellFoundedInduction, SequenceTheorems, TLAPS

\* A set of naturals that is not empty has a least member.
LEMMA LeastOf ==
    ASSUME NEW T, T \subseteq Nat, T # {}
    PROVE  \E x \in T : \A y \in T : x <= y
<1> DEFINE R == OpToRel(<, Nat)
<1>1. IsWellFoundedOn(R, Nat)
  BY NatLessThanWellFounded
<1>2. \A x, y \in Nat : x < y => <<x, y>> \in R
  BY DEF OpToRel
<1> HIDE DEF R
<1>3. PICK x \in T : \A y \in T : ~ (<<y, x>> \in R)
  BY <1>1, WFMin
<1>4. \A y \in T : x \in Nat /\ y \in Nat /\ ~ (y < x)
  BY <1>2, <1>3
<1>5. \A y \in T : x <= y
  BY <1>4
<1>6. QED
  BY <1>5

\* Induction up to a bound: what S holds for 0 and passes on, it holds for all.
LEMMA UpTo ==
    ASSUME NEW S, NEW L \in Nat, 0 \in S,
           \A n \in 1 .. L : n - 1 \in S => n \in S
    PROVE  0 .. L \subseteq S
<1>1. SUFFICES ASSUME NEW z \in 0 .. L, z \notin S PROVE FALSE
  OBVIOUS
<1> DEFINE T == {n \in 0 .. L : n \notin S}
<1>2. T \subseteq Nat /\ T # {}
  BY <1>1
<1>3. PICK x \in T : \A y \in T : x <= y
  BY <1>2, LeastOf
<1>4. x \in 1 .. L /\ x \notin S
  BY <1>3
<1>5. x - 1 \notin T
  BY <1>3, <1>4
<1>6. QED
  BY <1>4, <1>5

-----------------------------------------------------------------------------

(* Folds: the states a fold passes through, from the first to its result.      *)

DecodeRun(f, base, seq) ==
    /\ DOMAIN f = 0 .. Len(seq)
    /\ f[0] = base
    /\ \A n \in 1 .. Len(seq) : f[n] = DecodeSample(f[n - 1], seq[n])

LEMMA DecodeRunExists ==
    ASSUME NEW base, NEW seq, Len(seq) \in Nat
    PROVE  \E f : DecodeRun(f, base, seq) /\ Scan(DecodeSample, base, seq) = f[Len(seq)]
<1> DEFINE P(f, m) == /\ DOMAIN f = 0 .. m /\ f[0] = base
                      /\ \A n \in 1 .. m : f[n] = DecodeSample(f[n - 1], seq[n])
           S == {m \in 0 .. Len(seq) : \E f : P(f, m)}
<1>1. 0 \in S
  <2>1. P([n \in 0 .. 0 |-> base], 0)
    OBVIOUS
  <2> HIDE DEF P
  <2>2. QED
    BY <2>1
<1>2. ASSUME NEW m \in 1 .. Len(seq), m - 1 \in S PROVE m \in S
  <2>1. PICK f : P(f, m - 1)
    BY <1>2
  <2> DEFINE g == [n \in 0 .. m |-> IF n < m THEN f[n] ELSE DecodeSample(f[m - 1], seq[m])]
  <2>2. P(g, m)
    BY <2>1
  <2> HIDE DEF P, g
  <2>3. QED
    BY <2>2
<1>3. Len(seq) \in S
  <2> HIDE DEF S
  <2>1. 0 .. Len(seq) \subseteq S
    BY <1>1, <1>2, UpTo
  <2>2. QED
    BY <2>1
<1>4. PICK f : P(f, Len(seq))
  BY <1>3
<1> DEFINE E(g) == g = [n \in 0 .. Len(seq) |->
                          IF n = 0 THEN {base} ELSE {DecodeSample(a, seq[n]) : a \in g[n - 1]}]
           acc == CHOOSE g : E(g)
<1>5. E([n \in 0 .. Len(seq) |-> {f[n]}])
  BY <1>4
<1>6. E(acc)
  BY <1>5
<1>7. Scan(DecodeSample, base, seq) = CHOOSE last \in acc[Len(seq)] : TRUE
  BY DEF Scan
<1> HIDE DEF acc, S
<1> DEFINE T == {n \in 0 .. Len(seq) : acc[n] = {f[n]}}
<1>8. 0 \in T
  BY <1>4, <1>6
<1>9. ASSUME NEW n \in 1 .. Len(seq), n - 1 \in T PROVE n \in T
  <2> n \in 0 .. Len(seq) /\ n # 0
    OBVIOUS
  <2>1. acc[n] = {DecodeSample(a, seq[n]) : a \in acc[n - 1]}
    BY <1>6, Zenon
  <2>2. acc[n - 1] = {f[n - 1]} /\ f[n] = DecodeSample(f[n - 1], seq[n])
    BY <1>4, <1>9
  <2> HIDE DEF E, P
  <2>3. acc[n] = {f[n]}
    BY <2>1, <2>2
  <2>4. QED
    BY <2>3
<1>10. acc[Len(seq)] = {f[Len(seq)]}
  <2> HIDE DEF T
  <2>1. 0 .. Len(seq) \subseteq T
    BY <1>8, <1>9, UpTo
  <2>2. QED
    BY <2>1 DEF T
<1>11. QED
  BY <1>4, <1>7, <1>10 DEF DecodeRun

\* The same for the interrupt: what is stored after each level of the bus.
SeenStep(s, all, lost, i) ==
    LET last == IF s = <<>> THEN [scl |-> 1, sda |-> 1] ELSE s[Len(s)]
    IN IF i \in lost \/ (last.scl = all[i].scl /\ last.sda = all[i].sda) THEN s ELSE Append(s, all[i])

SeenRun(f, all, lost) ==
    /\ DOMAIN f = 0 .. Len(all)
    /\ f[0] = <<>>
    /\ \A n \in 1 .. Len(all) : f[n] = SeenStep(f[n - 1], all, lost, n)

LEMMA SeenRunExists ==
    ASSUME NEW A, NEW all \in Seq(A), NEW lost
    PROVE  \E f : SeenRun(f, all, lost) /\ Seen(all, lost) = f[Len(all)]
<1> DEFINE L == Len(all)
           idx == [i \in DOMAIN all |-> i]
           P(f, m) == /\ DOMAIN f = 0 .. m /\ f[0] = <<>>
                      /\ \A n \in 1 .. m : f[n] = SeenStep(f[n - 1], all, lost, n)
           S == {m \in 0 .. L : \E f : P(f, m)}
<1>0. L \in Nat /\ Len(idx) = L /\ \A n \in 1 .. L : idx[n] = n
  OBVIOUS
<1>1. 0 \in S
  <2>1. P([n \in 0 .. 0 |-> <<>>], 0)
    OBVIOUS
  <2> HIDE DEF P
  <2>2. QED
    BY <2>1
<1>2. ASSUME NEW m \in 1 .. L, m - 1 \in S PROVE m \in S
  <2>1. PICK f : P(f, m - 1)
    BY <1>2
  <2> DEFINE g == [n \in 0 .. m |-> IF n < m THEN f[n] ELSE SeenStep(f[m - 1], all, lost, m)]
  <2>2. P(g, m)
    BY <2>1
  <2> HIDE DEF P, g
  <2>3. QED
    BY <2>2
<1>3. L \in S
  <2> HIDE DEF S
  <2>1. 0 .. L \subseteq S
    BY <1>0, <1>1, <1>2, UpTo
  <2>2. QED
    BY <2>1
<1>4. PICK f : P(f, L)
  BY <1>3
<1> DEFINE E(g) == g = [n \in 0 .. Len(idx) |->
                          IF n = 0 THEN {<<>>} ELSE {SeenStep(a, all, lost, idx[n]) : a \in g[n - 1]}]
           acc == CHOOSE g : E(g)
<1>5. E([n \in 0 .. L |-> {f[n]}])
  <2> DEFINE h == [n \in 0 .. L |-> {f[n]}]
  <2> HIDE DEF idx, L
  <2>1. h[0] = {<<>>}
    BY <1>0, <1>4
  <2>2. ASSUME NEW n \in 1 .. L PROVE h[n] = {SeenStep(a, all, lost, idx[n]) : a \in h[n - 1]}
    <3>1. h[n] = {f[n]} /\ h[n - 1] = {f[n - 1]} /\ idx[n] = n
      BY <1>0
    <3>2. f[n] = SeenStep(f[n - 1], all, lost, n)
      BY <1>4
    <3> HIDE DEF h
    <3>3. QED
      BY <3>1, <3>2
  <2>3. DOMAIN h = 0 .. Len(idx) /\ h = [n \in DOMAIN h |-> h[n]]
    BY <1>0
  <2> HIDE DEF h
  <2>4. h = [n \in 0 .. Len(idx) |->
               IF n = 0 THEN {<<>>} ELSE {SeenStep(a, all, lost, idx[n]) : a \in h[n - 1]}]
    BY <1>0, <2>1, <2>2, <2>3
  <2>5. QED
    BY <2>4 DEF h
<1>6. E(acc)
  BY <1>5
<1>7. Seen(all, lost) = CHOOSE last \in acc[Len(idx)] : TRUE
  BY DEF Seen, Scan, SeenStep
<1> HIDE DEF acc, S, idx
<1> DEFINE T == {n \in 0 .. L : acc[n] = {f[n]}}
<1>8. 0 \in T
  BY <1>0, <1>4, <1>6
<1>9. ASSUME NEW n \in 1 .. L, n - 1 \in T PROVE n \in T
  <2> n \in 0 .. Len(idx) /\ n # 0
    BY <1>0
  <2>1. acc[n] = {SeenStep(a, all, lost, idx[n]) : a \in acc[n - 1]}
    BY <1>6, Zenon
  <2>2. acc[n - 1] = {f[n - 1]} /\ f[n] = SeenStep(f[n - 1], all, lost, n) /\ idx[n] = n
    BY <1>0, <1>4, <1>9
  <2> HIDE DEF E, P
  <2>3. acc[n] = {f[n]}
    BY <2>1, <2>2
  <2>4. QED
    BY <2>3
<1>10. acc[Len(idx)] = {f[L]}
  <2> HIDE DEF T
  <2>1. 0 .. L \subseteq T
    BY <1>0, <1>8, <1>9, UpTo
  <2>2. QED
    BY <1>0, <2>1 DEF T
<1>11. QED
  BY <1>4, <1>7, <1>10 DEF SeenRun

-----------------------------------------------------------------------------

(* Times: the clock does not wrap inside a capture, so that a difference with  *)
(* its sign and a comparison of the numbers say the same.                      *)

Sample == [t : Int, scl : {0, 1}, sda : {0, 1}]
Span(lo, hi) == /\ lo \in 0 .. ClockMod - 1 /\ hi \in 0 .. ClockMod - 1
                /\ lo <= hi /\ 2 * (hi - lo) < ClockMod
InSpan(d, lo, hi) == \A n \in 1 .. Len(d) : d[n].t >= lo /\ d[n].t <= hi
Timed(d) == \A m, n \in 1 .. Len(d) : m <= n => d[m].t <= d[n].t
Trace(d, lo, hi) == d \in Seq(Sample) /\ InSpan(d, lo, hi) /\ Timed(d)
Pulse(p, lo, hi) == p.t1 \in lo .. hi /\ p.t2 \in lo .. hi

\* The remainder of a number less than one modulus away from zero.
LEMMA ModNear ==
    ASSUME NEW m \in Nat \ {0}, NEW x \in Int, x < m, x >= 0 - m
    PROVE  x % m = IF x >= 0 THEN x ELSE x + m
<1> DEFINE q == x \div m  r == x % m
<1>1. q \in Int /\ r \in 0 .. m - 1 /\ x = m * q + r
  OBVIOUS
<1> HIDE DEF q, r
<1>2. CASE q <= 0 - 2
  <2>1. m * q <= 0 - 2 * m
    BY <1>1, <1>2
  <2>2. QED
    BY <1>1, <2>1
<1>3. CASE q >= 1
  <2>1. m * q >= m
    BY <1>1, <1>3
  <2>2. QED
    BY <1>1, <2>1
<1>4. CASE q = 0
  BY <1>1, <1>4 DEF r
<1>5. CASE q = 0 - 1
  BY <1>1, <1>5 DEF r
<1>6. QED
  BY <1>1, <1>2, <1>3, <1>4, <1>5

\* The signed difference of two times of a span is their difference.
LEMMA SinceInSpan ==
    ASSUME NEW lo, NEW hi, Span(lo, hi), NEW a \in lo .. hi, NEW b \in lo .. hi, b <= a
    PROVE  Since(a, b) = a - b
<1>1. ClockMod \in Nat \ {0}
  BY RecoveryAssumption
<1>2. a - b \in Int /\ a - b >= 0 /\ a - b < ClockMod /\ a - b >= 0 - ClockMod
  BY <1>1 DEF Span
<1>3. (a - b) % ClockMod = a - b
  BY <1>1, <1>2, ModNear
<1>4. QED
  BY <1>3 DEF Since

\* Before another of the same span by the signed difference is before it as a number.
LEMMA BeforeInSpan ==
    ASSUME NEW lo, NEW hi, Span(lo, hi), NEW a \in lo .. hi, NEW b \in lo .. hi
    PROVE  Before(a, b) <=> a < b
<1>1. ClockMod \in Nat \ {0} /\ ClockMod % 2 = 0
  BY RecoveryAssumption
<1> DEFINE half == ClockMod \div 2
<1>2. half \in Int /\ ClockMod = 2 * half
  BY <1>1
<1>3. /\ a - b \in Int /\ a - b < ClockMod /\ a - b >= 0 - ClockMod
      /\ 2 * (a - b) < ClockMod /\ 0 - ClockMod < 2 * (a - b)
  BY <1>1 DEF Span
<1>4. Since(a, b) = IF a - b >= 0 THEN a - b ELSE a - b + ClockMod
  BY <1>1, <1>3, ModNear DEF Since
<1>5. Before(a, b) <=> Since(a, b) >= half
  BY DEF Before
<1> HIDE DEF half
<1>6. QED
  BY <1>2, <1>3, <1>4, <1>5 DEF Span

-----------------------------------------------------------------------------

(* Sequences.                                                                  *)

\* The least number of a set of naturals.
LEMMA MinOfPlaces ==
    ASSUME NEW T, T \subseteq Nat, T # {}
    PROVE  Min(T) \in T /\ \A y \in T : Min(T) <= y
BY LeastOf DEF Min

\* The maximum of one number.
LEMMA MaxOfOne ==
    ASSUME NEW x \in Int
    PROVE  Max({x}) = x
BY DEF Max

\* The greater and the lesser of two.
LEMMA EndsOfTwo ==
    ASSUME NEW x \in Int, NEW y \in Int, x <= y
    PROVE  Max({x, y}) = y /\ Min({x, y}) = x
<1>1. \A z \in {x, y} : y >= z /\ x <= z
  OBVIOUS
<1>2. PICK u \in {x, y} : u = Max({x, y}) /\ \A z \in {x, y} : u >= z
  BY <1>1 DEF Max
<1>3. PICK v \in {x, y} : v = Min({x, y}) /\ \A z \in {x, y} : v <= z
  BY <1>1 DEF Min
<1>4. QED
  BY <1>2, <1>3

\* The members of a concatenation, each place computed from the lengths.
LEMMA JoinedPlaces ==
    ASSUME NEW A, NEW s \in Seq(A), NEW u \in Seq(A), NEW m, NEW n, Len(s) = m, Len(u) = n
    PROVE  /\ s \o u \in Seq(A) /\ Len(s \o u) = m + n
           /\ \A k \in 1 .. m + n : k <= m => (s \o u)[k] = s[k]
           /\ \A k \in 1 .. m + n : k > m => (s \o u)[k] = u[k - m]
<1>1. m \in Nat /\ n \in Nat
  OBVIOUS
<1>2. s \o u \in Seq(A) /\ Len(s \o u) = m + n
      /\ \A k \in 1 .. m + n : (s \o u)[k] = IF k <= m THEN s[k] ELSE u[k - m]
  <2>1. /\ s \o u \in Seq(A) /\ Len(s \o u) = Len(s) + Len(u)
        /\ \A k \in 1 .. Len(s) + Len(u) : (s \o u)[k] = IF k <= Len(s) THEN s[k] ELSE u[k - Len(s)]
    BY ConcatProperties
  <2>2. QED
    BY <2>1
<1>3. QED
  BY <1>1, <1>2

\* What is at each place when one sample has been put in.
LEMMA InsertPlaces ==
    ASSUME NEW A, NEW d \in Seq(A), NEW n \in 0 .. Len(d), NEW e \in A
    PROVE  /\ InsertAt(d, n + 1, e) \in Seq(A)
           /\ Len(InsertAt(d, n + 1, e)) = Len(d) + 1
           /\ \A k \in 1 .. n : InsertAt(d, n + 1, e)[k] = d[k]
           /\ InsertAt(d, n + 1, e)[n + 1] = e
           /\ \A k \in n + 1 .. Len(d) : InsertAt(d, n + 1, e)[k + 1] = d[k]
<1> DEFINE L == Len(d)  head == SubSeq(d, 1, n)  tail == SubSeq(d, n + 1, L)  r == InsertAt(d, n + 1, e)
<1>0. L \in Nat /\ n \in 0 .. L /\ n \in Int
  OBVIOUS
<1>1. head \in Seq(A) /\ Len(head) = n /\ \A k \in 1 .. n : head[k] = d[k]
  OBVIOUS
<1>2. tail \in Seq(A) /\ Len(tail) = L - n /\ \A k \in 1 .. L - n : tail[k] = d[n + k]
  OBVIOUS
<1>3. r = (head \o <<e>>) \o tail
  <2>1. (n + 1) - 1 = n
    OBVIOUS
  <2>2. QED
    BY <2>1 DEF InsertAt
<1> HIDE DEF head, tail, r, L
<1> DEFINE front == head \o <<e>>
<1>4. front \in Seq(A) /\ Len(front) = n + 1 /\ front[n + 1] = e
      /\ \A k \in 1 .. n : front[k] = d[k]
  BY <1>0, <1>1
<1>b. r = front \o tail
  BY <1>3
<1> HIDE DEF front
<1>5. /\ r \in Seq(A) /\ Len(r) = (n + 1) + (L - n)
      /\ \A k \in 1 .. (n + 1) + (L - n) : k <= n + 1 => r[k] = front[k]
      /\ \A k \in 1 .. (n + 1) + (L - n) : k > n + 1 => r[k] = tail[k - (n + 1)]
  <2>1. Len(front) = n + 1 /\ Len(tail) = L - n /\ front \in Seq(A) /\ tail \in Seq(A)
    BY <1>2, <1>4
  <2> DEFINE m == n + 1  l == L - n
  <2> HIDE DEF m, l
  <2>2. Len(front) = m /\ Len(tail) = l
    BY <2>1 DEF m, l
  <2>3. /\ r \in Seq(A) /\ Len(r) = m + l
        /\ \A k \in 1 .. m + l : k <= m => r[k] = front[k]
        /\ \A k \in 1 .. m + l : k > m => r[k] = tail[k - m]
    BY <1>b, <2>1, <2>2, JoinedPlaces
  <2>4. QED
    BY <2>3 DEF m, l
<1>6. (n + 1) + (L - n) = L + 1
  BY <1>0
<1>7. ASSUME NEW k \in n + 1 .. L PROVE r[k + 1] = d[k]
  <2>1. /\ k + 1 \in 1 .. (n + 1) + (L - n) /\ k + 1 > n + 1 /\ (k + 1) - (n + 1) = k - n
        /\ k - n \in 1 .. L - n /\ n + (k - n) = k
    BY <1>0
  <2>2. r[k + 1] = tail[k - n]
    BY <1>5, <2>1
  <2>3. QED
    BY <1>2, <2>1, <2>2
<1>8. r[n + 1] = e /\ \A k \in 1 .. n : r[k] = d[k]
  BY <1>0, <1>4, <1>5, <1>6
<1>9. QED
  BY <1>5, <1>6, <1>7, <1>8 DEF r, L

\* What is at each place when one sample has been taken out.
LEMMA RemovePlaces ==
    ASSUME NEW A, NEW d \in Seq(A), NEW n \in 1 .. Len(d)
    PROVE  /\ RemoveAt(d, n) \in Seq(A)
           /\ Len(RemoveAt(d, n)) = Len(d) - 1
           /\ \A k \in 1 .. Len(d) - 1 : RemoveAt(d, n)[k] = IF k < n THEN d[k] ELSE d[k + 1]
<1> DEFINE L == Len(d)  head == SubSeq(d, 1, n - 1)  tail == SubSeq(d, n + 1, L)  r == RemoveAt(d, n)
<1>0. L \in Nat /\ n \in 1 .. L /\ n \in Int
  OBVIOUS
<1>1. head \in Seq(A) /\ Len(head) = n - 1 /\ \A k \in 1 .. n - 1 : head[k] = d[k]
  OBVIOUS
<1>2. tail \in Seq(A) /\ Len(tail) = L - n /\ \A k \in 1 .. L - n : tail[k] = d[n + k]
  OBVIOUS
<1>3. r = head \o tail
  BY DEF RemoveAt
<1> HIDE DEF head, tail, r, L
<1>4. /\ r \in Seq(A) /\ Len(r) = (n - 1) + (L - n)
      /\ \A k \in 1 .. (n - 1) + (L - n) : k <= n - 1 => r[k] = head[k]
      /\ \A k \in 1 .. (n - 1) + (L - n) : k > n - 1 => r[k] = tail[k - (n - 1)]
  BY <1>1, <1>2, <1>3, JoinedPlaces
<1>5. (n - 1) + (L - n) = L - 1
  BY <1>0
<1>6. \A k \in 1 .. L - 1 : r[k] = IF k < n THEN d[k] ELSE d[k + 1]
  <2>1. TAKE k \in 1 .. L - 1
  <2>2. CASE k < n
    BY <1>0, <1>1, <1>4, <1>5, <2>2
  <2>3. CASE k >= n
    <3>1. k - (n - 1) \in 1 .. L - n /\ n + (k - (n - 1)) = k + 1
      BY <1>0, <2>3
    <3>2. r[k] = tail[k - (n - 1)]
      BY <1>0, <1>4, <1>5, <2>3
    <3>3. r[k] = d[k + 1]
      BY <1>2, <3>1, <3>2
    <3>4. QED
      BY <1>0, <2>3, <3>3
  <2>4. QED
    BY <1>0, <2>2, <2>3
<1>7. QED
  BY <1>4, <1>5, <1>6 DEF r, L

-----------------------------------------------------------------------------

(* A pulse put into the buffer and taken out again.                            *)

\* Inverting SCL twice changes nothing.
LEMMA Flipped ==
    ASSUME NEW s \in Sample
    PROVE  FlipScl(s) \in Sample /\ FlipScl(s).t = s.t /\ FlipScl(FlipScl(s)) = s
<1>1. s = [t |-> s.t, scl |-> s.scl, sda |-> s.sda] /\ s.t \in Int /\ s.scl \in {0, 1} /\ s.sda \in {0, 1}
  BY DEF Sample
<1>2. FlipScl(s) = [t |-> s.t, scl |-> 1 - s.scl, sda |-> s.sda]
  BY <1>1 DEF FlipScl
<1> DEFINE f == [t |-> s.t, scl |-> 1 - s.scl, sda |-> s.sda]
<1>3. f \in Sample /\ f.t = s.t
  BY <1>1 DEF Sample
<1>4. FlipScl(f) = [t |-> s.t, scl |-> 1 - (1 - s.scl), sda |-> s.sda]
  BY DEF FlipScl
<1>5. 1 - (1 - s.scl) = s.scl
  BY <1>1
<1>6. QED
  BY <1>1, <1>2, <1>3, <1>4, <1>5

\* Times that grow from each sample to the next grow over any distance.
LEMMA TimedBySteps ==
    ASSUME NEW r, Len(r) \in Nat, \A k \in 1 .. Len(r) : r[k].t \in Int,
           \A k \in 1 .. Len(r) - 1 : r[k].t <= r[k + 1].t
    PROVE  Timed(r)
<1> DEFINE L == Len(r)
<1>0. L \in Nat
  OBVIOUS
<1> HIDE DEF L
<1>1. ASSUME NEW m \in 1 .. L PROVE \A n \in 1 .. L : m <= n => r[m].t <= r[n].t
  <2> DEFINE S == {n \in 0 .. L : m <= n => r[m].t <= r[n].t}
  <2>1. 0 \in S
    BY <1>0
  <2>2. ASSUME NEW n \in 1 .. L, n - 1 \in S PROVE n \in S
    <3>1. CASE n <= m
      BY <1>0, <3>1 DEF L
    <3>2. CASE n > m
      <4>1. n - 1 \in 1 .. L - 1 /\ (n - 1) + 1 = n /\ m <= n - 1 /\ n - 1 \in 1 .. L
        BY <1>0, <3>2
      <4>2. r[m].t <= r[n - 1].t
        BY <2>2, <4>1
      <4>3. r[n - 1].t <= r[n].t
        BY <4>1 DEF L
      <4>4. r[m].t \in Int /\ r[n - 1].t \in Int /\ r[n].t \in Int
        BY <4>1 DEF L
      <4>5. QED
        BY <4>2, <4>3, <4>4
    <3>3. QED
      BY <1>0, <3>1, <3>2
  <2> HIDE DEF S
  <2>3. 0 .. L \subseteq S
    BY <1>0, <2>1, <2>2, UpTo
  <2>4. QED
    BY <1>0, <2>3 DEF S
<1>2. QED
  BY <1>1 DEF Timed, L

\* The fields of the samples of a trace.
LEMMA TraceTypes ==
    ASSUME NEW lo, NEW hi, Span(lo, hi), NEW d, Trace(d, lo, hi)
    PROVE  /\ Len(d) \in Nat /\ DOMAIN d = 1 .. Len(d) /\ d \in Seq(Sample)
           /\ lo \in Int /\ hi \in Int
           /\ \A k \in 1 .. Len(d) : d[k] \in Sample /\ d[k].t \in lo .. hi /\ d[k].t \in Int
<1>1. d \in Seq(Sample) /\ lo \in Int /\ hi \in Int
  BY RecoveryAssumption DEF Trace, Span
<1>2. \A k \in 1 .. Len(d) : d[k] \in Sample
  BY <1>1
<1>3. \A k \in 1 .. Len(d) : d[k].t \in Int
  BY <1>2 DEF Sample
<1>4. QED
  BY <1>1, <1>2, <1>3 DEF Trace, InSpan

\* find_insert_position within a span: behind the samples that are earlier.
LEMMA InsertPosition ==
    ASSUME NEW lo, NEW hi, Span(lo, hi), NEW d, Trace(d, lo, hi), NEW t \in lo .. hi
    PROVE  /\ find_insert_position(d, t) \in 0 .. Len(d)
           /\ \A k \in 1 .. Len(d) : k <= find_insert_position(d, t) => d[k].t < t
           /\ \A k \in 1 .. Len(d) : k > find_insert_position(d, t) => d[k].t >= t
<1> DEFINE Hits == {k \in DOMAIN d : ~Before(d[k].t, t)}
<1>0. Len(d) \in Nat /\ DOMAIN d = 1 .. Len(d) /\ \A k \in 1 .. Len(d) : d[k].t \in lo .. hi /\ d[k].t \in Int
  BY TraceTypes
<1>1. \A k \in 1 .. Len(d) : k \in Hits <=> d[k].t >= t
  <2>1. TAKE k \in 1 .. Len(d)
  <2>2. Before(d[k].t, t) <=> d[k].t < t
    BY <1>0, BeforeInSpan
  <2>3. t \in Int
    BY RecoveryAssumption DEF Span
  <2>4. QED
    BY <1>0, <2>2, <2>3
<1>2. find_insert_position(d, t) = IF Hits = {} THEN Len(d) ELSE Min(Hits) - 1
  BY DEF find_insert_position, CountBefore
<1>3. Hits \subseteq 1 .. Len(d)
  BY <1>0
<1> HIDE DEF Hits
<1>4. CASE Hits = {}
  BY <1>0, <1>1, <1>2, <1>4 DEF Span
<1>5. CASE Hits # {}
  <2>0. Hits \subseteq Nat
    BY <1>0, <1>3
  <2>1. Min(Hits) \in Hits /\ \A y \in Hits : Min(Hits) <= y
    BY <2>0, <1>5, MinOfPlaces
  <2> DEFINE h == Min(Hits)
  <2>2. h \in 1 .. Len(d) /\ d[h].t >= t /\ find_insert_position(d, t) = h - 1
    BY <1>1, <1>2, <1>3, <1>5, <2>1
  <2>3. \A k \in 1 .. Len(d) : k >= h => d[h].t <= d[k].t
    BY <2>2 DEF Trace, Timed
  <2>4. \A k \in 1 .. Len(d) : k < h => ~(k \in Hits)
    BY <2>1, <2>2
  <2> HIDE DEF h
  <2>5. \A k \in 1 .. Len(d) : k > h - 1 => d[k].t >= t
    BY <1>0, <2>2, <2>3 DEF Span
  <2>6. \A k \in 1 .. Len(d) : k <= h - 1 => d[k].t < t
    BY <1>0, <1>1, <2>2, <2>4 DEF Span
  <2>7. QED
    BY <1>0, <2>2, <2>5, <2>6
<1>6. QED
  BY <1>4, <1>5

\* r is d with a pulse put in behind its first a samples, ending behind its first b.
Shape(d, r, a, b, p) ==
    /\ a \in 0 .. Len(d) /\ b \in a .. Len(d) /\ p.t1 < p.t2
    /\ r \in Seq(Sample) /\ Len(r) = Len(d) + 2
    /\ \A k \in 1 .. a : r[k] = d[k]
    /\ \A k \in a + 1 .. b : r[k + 1] = FlipScl(d[k])
    /\ \A k \in b + 1 .. Len(d) : r[k + 2] = d[k]
    /\ r[a + 1].t = p.t1 /\ r[b + 2].t = p.t2
    /\ \A k \in 1 .. a : d[k].t < p.t1
    /\ \A k \in a + 1 .. Len(d) : d[k].t > p.t1
    /\ \A k \in 1 .. b : d[k].t < p.t2
    /\ \A k \in b + 1 .. Len(d) : d[k].t > p.t2

\* apply_pulse, edge by edge.
LEMMA ApplySteps ==
    ASSUME NEW d, NEW p, NEW pos1, NEW pos2, NEW once,
           pos1 = find_insert_position(d, p.t1), pos2 = find_insert_position(d, p.t2),
           once = WithEdge(SclFlipped(d, pos1, p.t2), pos1, Idle, p.t1)
    PROVE  apply_pulse(d, Idle, p) =
             IF \/ Len(d) > MAX_SAMPLES - 2 \/ p.t2 <= p.t1
                \/ pos1 < Len(d) /\ d[pos1 + 1].t = p.t1
                \/ pos2 < Len(d) /\ d[pos2 + 1].t = p.t2
             THEN [ok |-> FALSE, data |-> d]
             ELSE [ok |-> TRUE, data |-> WithEdge(once, find_insert_position(once, p.t2), Idle, p.t2)]
BY DEF apply_pulse

\* WithEdge puts one sample in behind the first n.
LEMMA EdgePlaces ==
    ASSUME NEW d \in Seq(Sample), NEW n \in 0 .. Len(d), NEW t \in Int
    PROVE  /\ WithEdge(d, n, Idle, t) \in Seq(Sample) /\ Len(WithEdge(d, n, Idle, t)) = Len(d) + 1
           /\ \A k \in 1 .. n : WithEdge(d, n, Idle, t)[k] = d[k]
           /\ WithEdge(d, n, Idle, t)[n + 1].t = t
           /\ \A k \in n + 1 .. Len(d) : WithEdge(d, n, Idle, t)[k + 1] = d[k]
<1> DEFINE before == LevelAt(d, n, Idle)
           e == [t |-> t, scl |-> 1 - before.scl, sda |-> before.sda]
<1>1. before.scl \in {0, 1} /\ before.sda \in {0, 1}
  <2>1. CASE n = 0
    BY <2>1 DEF LevelAt, Idle
  <2>2. CASE n # 0
    <3>1. d[n] \in Sample
      BY <2>2
    <3>2. QED
      BY <2>2, <3>1 DEF LevelAt, Sample
  <2>3. QED
    BY <2>1, <2>2
<1>2. e \in Sample /\ e.t = t
  BY <1>1 DEF Sample
<1>3. WithEdge(d, n, Idle, t) = InsertAt(d, n + 1, e)
  BY DEF WithEdge
<1> HIDE DEF e, before
<1>4. e \in Sample /\ d \in Seq(Sample) /\ n \in 0 .. Len(d)
  BY <1>2
<1> DEFINE r == InsertAt(d, n + 1, e)
<1>5. r \in Seq(Sample) /\ Len(r) = Len(d) + 1
  BY <1>4, InsertPlaces
<1>6. r[n + 1] = e
  BY <1>4, InsertPlaces
<1>7. \A k \in 1 .. n : r[k] = d[k]
  BY <1>4, InsertPlaces
<1>8. \A k \in n + 1 .. Len(d) : r[k + 1] = d[k]
  <2>1. ASSUME NEW x \in Sample
        PROVE  \A k \in n + 1 .. Len(d) : InsertAt(d, n + 1, x)[k + 1] = d[k]
    BY InsertPlaces
  <2>2. QED
    BY <1>4, <2>1
<1> HIDE DEF r
<1>9. QED
  BY <1>2, <1>3, <1>5, <1>6, <1>7, <1>8 DEF r

\* Which samples SclFlipped inverts: those between the two edges.
LEMMA FlippedUntil ==
    ASSUME NEW lo, NEW hi, Span(lo, hi), NEW d, Trace(d, lo, hi), NEW t2 \in lo .. hi,
           NEW a \in 0 .. Len(d), a <= find_insert_position(d, t2)
    PROVE  /\ SclFlipped(d, a, t2) \in Seq(Sample) /\ Len(SclFlipped(d, a, t2)) = Len(d)
           /\ \A k \in 1 .. Len(d) : SclFlipped(d, a, t2)[k] =
                IF k \in a + 1 .. find_insert_position(d, t2) THEN FlipScl(d[k]) ELSE d[k]
<1> DEFINE b == find_insert_position(d, t2)
           C == {k \in a .. Len(d) : k = Len(d) \/ d[k + 1].t >= t2}
           f == SclFlipped(d, a, t2)
<1>0. Len(d) \in Nat /\ DOMAIN d = 1 .. Len(d) /\ d \in Seq(Sample) /\ t2 \in Int
      /\ \A k \in 1 .. Len(d) : d[k].t \in Int /\ d[k] \in Sample
  BY TraceTypes
<1>1. /\ b \in 0 .. Len(d)
      /\ \A k \in 1 .. Len(d) : k <= b => d[k].t < t2
      /\ \A k \in 1 .. Len(d) : k > b => d[k].t >= t2
  BY InsertPosition
<1>2. f = [k \in DOMAIN d |-> IF k \in a + 1 .. Min(C) THEN FlipScl(d[k]) ELSE d[k]]
  BY DEF SclFlipped
<1>3. b \in C /\ \A k \in C : b <= k
  <2>1. b \in C
    BY <1>0, <1>1
  <2>2. ASSUME NEW k \in C, k < b PROVE FALSE
    <3>0. k \in a .. Len(d) /\ (k = Len(d) \/ d[k + 1].t >= t2) /\ b \in 0 .. Len(d)
      BY <1>1
    <3> HIDE DEF b, C
    <3>1. k + 1 \in 1 .. Len(d) /\ k + 1 <= b /\ k # Len(d)
      BY <1>0, <2>2, <3>0
    <3>2. d[k + 1].t >= t2 /\ d[k + 1].t < t2
      BY <1>1, <3>0, <3>1
    <3>3. QED
      BY <1>0, <3>1, <3>2
  <2>3. \A k \in C : k \in Int
    <3>1. \A k \in C : k \in a .. Len(d)
      OBVIOUS
    <3> HIDE DEF C
    <3>2. QED
      BY <1>0, <3>1
  <2>4. b \in Int
    BY <1>1
  <2> HIDE DEF b, C
  <2>5. QED
    BY <2>1, <2>2, <2>3, <2>4
<1>4. Min(C) = b
  <2>0. C \subseteq Nat
    BY <1>0
  <2> HIDE DEF C
  <2>1. Min(C) \in C /\ \A y \in C : Min(C) <= y
    BY <1>3, <2>0, MinOfPlaces
  <2>2. Min(C) <= b /\ b <= Min(C)
    BY <1>3, <2>1
  <2>3. Min(C) \in Nat /\ b \in Nat
    BY <1>3, <2>0, <2>1, Zenon
  <2>4. QED
    BY <2>2, <2>3
<1> HIDE DEF C, b
<1>5. \A k \in 1 .. Len(d) : f[k] = IF k \in a + 1 .. b THEN FlipScl(d[k]) ELSE d[k]
  BY <1>0, <1>2, <1>4
<1>6. \A k \in 1 .. Len(d) : f[k] \in Sample
  BY <1>0, <1>5, Flipped
<1>7. f \in Seq(Sample) /\ Len(f) = Len(d)
  <2>1. DOMAIN f = 1 .. Len(d) /\ f = [k \in 1 .. Len(d) |-> f[k]]
    BY <1>0, <1>2
  <2> HIDE DEF f
  <2>2. QED
    BY <1>0, <1>6, <2>1
<1>8. QED
  BY <1>5, <1>7 DEF b

\* A pulse that could be put in gives its Shape.
LEMMA ApplyShape ==
    ASSUME NEW lo, NEW hi, Span(lo, hi), NEW d, Trace(d, lo, hi), NEW p, Pulse(p, lo, hi),
           apply_pulse(d, Idle, p).ok
    PROVE  \E a, b : Shape(d, apply_pulse(d, Idle, p).data, a, b, p)
<1> DEFINE L == Len(d)
           a == find_insert_position(d, p.t1)
           b == find_insert_position(d, p.t2)
           f == SclFlipped(d, a, p.t2)
           once == WithEdge(f, a, Idle, p.t1)
           c == find_insert_position(once, p.t2)
           r == WithEdge(once, c, Idle, p.t2)
<1>0. /\ L \in Nat /\ DOMAIN d = 1 .. L /\ d \in Seq(Sample) /\ p.t1 \in Int /\ p.t2 \in Int
      /\ lo \in Int /\ hi \in Int /\ p.t1 \in lo .. hi /\ p.t2 \in lo .. hi
      /\ \A k \in 1 .. L : d[k].t \in Int /\ d[k] \in Sample
  BY TraceTypes DEF Pulse
<1>1. p.t1 < p.t2
      /\ (a < L => d[a + 1].t # p.t1) /\ (b < L => d[b + 1].t # p.t2)
      /\ apply_pulse(d, Idle, p).data = r
  <2>1. apply_pulse(d, Idle, p) =
             IF \/ Len(d) > MAX_SAMPLES - 2 \/ p.t2 <= p.t1
                \/ a < L /\ d[a + 1].t = p.t1
                \/ b < L /\ d[b + 1].t = p.t2
             THEN [ok |-> FALSE, data |-> d]
             ELSE [ok |-> TRUE, data |-> r]
    BY ApplySteps
  <2> HIDE DEF a, b, r, L
  <2>2. ~(p.t2 <= p.t1) /\ ~(a < L /\ d[a + 1].t = p.t1) /\ ~(b < L /\ d[b + 1].t = p.t2)
        /\ apply_pulse(d, Idle, p).data = r
    BY <2>1
  <2>3. QED
    BY <1>0, <2>2
<1>2. /\ a \in 0 .. L
      /\ \A k \in 1 .. L : k <= a => d[k].t < p.t1
      /\ \A k \in 1 .. L : k > a => d[k].t >= p.t1
  BY <1>0, InsertPosition
<1>3. /\ b \in 0 .. L
      /\ \A k \in 1 .. L : k <= b => d[k].t < p.t2
      /\ \A k \in 1 .. L : k > b => d[k].t >= p.t2
  BY <1>0, InsertPosition
<1> HIDE DEF a, b
<1>a. \A m, n \in 1 .. L : m <= n => d[m].t <= d[n].t
  BY DEF Trace, Timed
<1> HIDE DEF L
<1>4. \A k \in 1 .. L : k > a => d[k].t > p.t1
  <2>1. TAKE k \in 1 .. L
  <2>2. HAVE k > a
  <2>3. a + 1 \in 1 .. L /\ a < L /\ a + 1 <= k
    BY <1>0, <1>2, <2>2
  <2>4. d[a + 1].t >= p.t1 /\ d[a + 1].t # p.t1 /\ d[a + 1].t <= d[k].t
    BY <1>1, <1>2, <1>a, <2>2, <2>3
  <2>5. QED
    BY <1>0, <2>3, <2>4
<1>5. \A k \in 1 .. L : k > b => d[k].t > p.t2
  <2>1. TAKE k \in 1 .. L
  <2>2. HAVE k > b
  <2>3. b + 1 \in 1 .. L /\ b < L /\ b + 1 <= k
    BY <1>0, <1>3, <2>2
  <2>4. d[b + 1].t >= p.t2 /\ d[b + 1].t # p.t2 /\ d[b + 1].t <= d[k].t
    BY <1>1, <1>3, <1>a, <2>2, <2>3
  <2>5. QED
    BY <1>0, <2>3, <2>4
<1>6. a <= b
  <2>1. SUFFICES ASSUME b < a PROVE FALSE
    BY <1>2, <1>3
  <2>2. b + 1 \in 1 .. L /\ b + 1 <= a /\ b + 1 > b
    BY <1>0, <1>2, <1>3, <2>1
  <2>3. d[b + 1].t < p.t1 /\ d[b + 1].t >= p.t2
    BY <1>2, <1>3, <2>2
  <2>4. QED
    BY <1>0, <1>1, <2>2, <2>3
<1>7. /\ f \in Seq(Sample) /\ Len(f) = L
      /\ \A k \in 1 .. L : f[k] = IF k \in a + 1 .. b THEN FlipScl(d[k]) ELSE d[k]
  BY <1>0, <1>2, <1>6, FlippedUntil DEF b, L
<1> HIDE DEF f
<1>8. /\ once \in Seq(Sample) /\ Len(once) = L + 1
      /\ \A k \in 1 .. a : once[k] = f[k]
      /\ once[a + 1].t = p.t1
      /\ \A k \in a + 1 .. L : once[k + 1] = f[k]
  <2>1. f \in Seq(Sample) /\ a \in 0 .. Len(f) /\ p.t1 \in Int
    BY <1>0, <1>2, <1>7
  <2>2. /\ once \in Seq(Sample) /\ Len(once) = Len(f) + 1
        /\ \A k \in 1 .. a : once[k] = f[k]
        /\ once[a + 1].t = p.t1
        /\ \A k \in a + 1 .. Len(f) : once[k + 1] = f[k]
    BY <2>1, EdgePlaces, Zenon
  <2>3. QED
    BY <1>7, <2>2
<1> HIDE DEF once
<1>9. \A k \in 1 .. L : f[k].t = d[k].t
  BY <1>0, <1>7, Flipped
\* The times of once: those of d with t1 behind the first a.
<1>10. /\ \A k \in 1 .. a : once[k].t = d[k].t
       /\ \A k \in a + 2 .. L + 1 : once[k].t = d[k - 1].t
  <2>1. \A k \in 1 .. a : once[k].t = d[k].t
    BY <1>0, <1>2, <1>8, <1>9, SMTT(30)
  <2>2. ASSUME NEW k \in a + 2 .. L + 1 PROVE once[k].t = d[k - 1].t
    <3>1. k - 1 \in a + 1 .. L /\ k - 1 \in 1 .. L /\ (k - 1) + 1 = k
      BY <1>0, <1>2
    <3>2. once[k] = f[k - 1]
      BY <1>8, <3>1
    <3>3. QED
      BY <1>9, <3>1, <3>2
  <2>3. QED
    BY <2>1, <2>2
<1>11. Trace(once, lo, hi)
  <2>1. InSpan(once, lo, hi)
    <3>1. \A k \in 1 .. L : d[k].t >= lo /\ d[k].t <= hi
      BY DEF Trace, InSpan, L
    <3>2. ASSUME NEW k \in 1 .. L + 1 PROVE once[k].t >= lo /\ once[k].t <= hi
      <4>1. CASE k <= a
        BY <1>0, <1>2, <1>10, <3>1, <4>1
      <4>2. CASE k = a + 1
        BY <1>0, <1>8, <4>2
      <4>3. CASE k > a + 1
        <5>1. k - 1 \in 1 .. L /\ k \in a + 2 .. L + 1
          BY <1>0, <1>2, <4>3
        <5>2. QED
          BY <1>10, <3>1, <5>1
      <4>4. QED
        BY <1>2, <4>1, <4>2, <4>3
    <3>3. QED
      BY <1>8, <3>2 DEF InSpan
  <2>2. Timed(once)
    <3>1. ASSUME NEW m \in 1 .. L + 1, NEW n \in 1 .. L + 1, m <= n PROVE once[m].t <= once[n].t
      <4>0. m \in Int /\ n \in Int /\ a \in Int
        BY <1>2
      <4>1. CASE m <= a /\ n <= a
        BY <1>0, <1>2, <1>10, <1>a, <3>1, <4>0, <4>1
      <4>2. CASE m <= a /\ n = a + 1
        <5>1. m \in 1 .. a /\ m \in 1 .. L
          BY <1>0, <1>2, <4>2
        <5>2. once[m].t = d[m].t /\ d[m].t < p.t1 /\ once[n].t = p.t1
          BY <1>2, <1>8, <1>10, <4>2, <5>1
        <5>3. QED
          BY <1>0, <5>1, <5>2
      <4>3. CASE m <= a /\ n > a + 1
        <5>1. m \in 1 .. a /\ m \in 1 .. L /\ n - 1 \in 1 .. L /\ n \in a + 2 .. L + 1 /\ m <= n - 1
          BY <1>0, <1>2, <4>0, <4>3
        <5>2. QED
          BY <1>10, <1>a, <5>1
      <4>4. CASE m = a + 1 /\ n = a + 1
        BY <1>0, <1>8, <4>4
      <4>5. CASE m = a + 1 /\ n > a + 1
        <5>1. n - 1 \in 1 .. L /\ n \in a + 2 .. L + 1 /\ n - 1 > a
          BY <1>0, <1>2, <4>0, <4>5
        <5>2. once[n].t = d[n - 1].t /\ d[n - 1].t > p.t1 /\ once[m].t = p.t1
          BY <1>4, <1>8, <1>10, <4>5, <5>1
        <5>3. QED
          BY <1>0, <5>1, <5>2
      <4>6. CASE m > a + 1 /\ n > a + 1
        <5>1. /\ n - 1 \in 1 .. L /\ n \in a + 2 .. L + 1 /\ m - 1 \in 1 .. L /\ m \in a + 2 .. L + 1
              /\ m - 1 <= n - 1
          BY <1>0, <1>2, <3>1, <4>0, <4>6
        <5>2. QED
          BY <1>10, <1>a, <5>1
      <4>7. QED
        BY <3>1, <4>0, <4>1, <4>2, <4>3, <4>4, <4>5, <4>6
    <3>2. QED
      BY <1>8, <3>1 DEF Timed
  <2>3. QED
    BY <1>8, <2>1, <2>2 DEF Trace
<1>12. c = b + 1
  <2>1. /\ c \in 0 .. L + 1
        /\ \A k \in 1 .. L + 1 : k <= c => once[k].t < p.t2
        /\ \A k \in 1 .. L + 1 : k > c => once[k].t >= p.t2
    <3>1. /\ c \in 0 .. Len(once)
          /\ \A k \in 1 .. Len(once) : k <= c => once[k].t < p.t2
          /\ \A k \in 1 .. Len(once) : k > c => once[k].t >= p.t2
      BY <1>0, <1>11, InsertPosition
    <3>2. QED
      BY <1>8, <3>1
  <2> HIDE DEF c
  <2>2. CASE c < b + 1
    <3>1. b + 1 \in 1 .. L + 1 /\ b + 1 > c
      BY <1>0, <1>3, <2>1, <2>2
    <3>2. once[b + 1].t >= p.t2
      BY <2>1, <3>1
    <3>3. CASE a = b
      BY <1>0, <1>1, <1>8, <3>2, <3>3
    <3>4. CASE a < b
      <4>1. b + 1 \in a + 2 .. L + 1 /\ (b + 1) - 1 = b /\ b \in 1 .. L /\ b <= b
        BY <1>0, <1>2, <1>3, <3>4
      <4>2. once[b + 1].t = d[b].t /\ d[b].t < p.t2
        BY <1>3, <1>10, <4>1
      <4>3. QED
        BY <1>0, <3>2, <4>1, <4>2
    <3>5. QED
      BY <1>2, <1>3, <1>6, <3>3, <3>4
  <2>3. CASE c > b + 1
    <3>1. /\ b + 2 \in 1 .. L + 1 /\ b + 2 <= c /\ b + 2 \in a + 2 .. L + 1 /\ (b + 2) - 1 = b + 1
          /\ b + 1 \in 1 .. L /\ b + 1 > b
      BY <1>0, <1>2, <1>3, <1>6, <2>1, <2>3
    <3>2. once[b + 2].t < p.t2 /\ once[b + 2].t = d[b + 1].t /\ d[b + 1].t >= p.t2
      BY <1>3, <1>10, <2>1, <3>1
    <3>3. QED
      BY <1>0, <3>1, <3>2
  <2>4. QED
    BY <1>3, <2>1, <2>2, <2>3
<1>13. /\ r \in Seq(Sample) /\ Len(r) = (L + 1) + 1
       /\ \A k \in 1 .. c : r[k] = once[k]
       /\ r[c + 1].t = p.t2
       /\ \A k \in c + 1 .. L + 1 : r[k + 1] = once[k]
  <2>1. c \in 0 .. Len(once)
    BY <1>0, <1>3, <1>8, <1>12
  <2> HIDE DEF c
  <2>2. QED
    <3>1. once \in Seq(Sample) /\ p.t2 \in Int
      BY <1>0, <1>8
    <3>2. /\ r \in Seq(Sample) /\ Len(r) = Len(once) + 1
          /\ \A k \in 1 .. c : r[k] = once[k]
          /\ r[c + 1].t = p.t2
          /\ \A k \in c + 1 .. Len(once) : r[k + 1] = once[k]
      BY <2>1, <3>1, EdgePlaces, Zenon
    <3>3. QED
      BY <1>8, <3>2
<1> HIDE DEF c, r
<1>14. \A k \in 1 .. a : r[k] = d[k]
  <2>1. TAKE k \in 1 .. a
  <2>2. k \in 1 .. c /\ k \in 1 .. L /\ k \notin a + 1 .. b
    BY <1>0, <1>2, <1>3, <1>6, <1>12
  <2>3. QED
    BY <1>7, <1>8, <1>13, <2>2
<1>15. \A k \in a + 1 .. b : r[k + 1] = FlipScl(d[k])
  <2>1. TAKE k \in a + 1 .. b
  <2>2. k + 1 \in 1 .. c /\ k \in a + 1 .. L /\ k \in 1 .. L
    BY <1>0, <1>2, <1>3, <1>6, <1>12
  <2>3. QED
    BY <1>7, <1>8, <1>13, <2>2
<1>16. \A k \in b + 1 .. L : r[k + 2] = d[k]
  <2>1. TAKE k \in b + 1 .. L
  <2>2. /\ k + 1 \in c + 1 .. L + 1 /\ (k + 1) + 1 = k + 2 /\ k \in a + 1 .. L /\ k \in 1 .. L
        /\ k \notin a + 1 .. b
    BY <1>0, <1>2, <1>3, <1>6, <1>12
  <2>3. r[k + 2] = once[k + 1] /\ once[k + 1] = f[k] /\ f[k] = d[k]
    BY <1>7, <1>8, <1>13, <2>2
  <2>4. QED
    BY <2>3
<1>17. r[a + 1].t = p.t1 /\ r[b + 2].t = p.t2
  <2>1. a + 1 \in 1 .. c /\ c + 1 = b + 2
    BY <1>2, <1>3, <1>6, <1>12
  <2>2. QED
    BY <1>8, <1>13, <2>1
<1>18. /\ \A k \in 1 .. a : d[k].t < p.t1
       /\ \A k \in a + 1 .. L : d[k].t > p.t1
       /\ \A k \in 1 .. b : d[k].t < p.t2
       /\ \A k \in b + 1 .. L : d[k].t > p.t2
  BY <1>0, <1>2, <1>3, <1>4, <1>5
<1>19. a \in 0 .. L /\ b \in a .. L /\ (L + 1) + 1 = L + 2
  BY <1>0, <1>2, <1>3, <1>6
<1>20. Shape(d, r, a, b, p)
  BY <1>1, <1>13, <1>14, <1>15, <1>16, <1>17, <1>18, <1>19 DEF Shape, L
<1>21. QED
  BY <1>1, <1>20

\* With the pulse in it the buffer is still a trace.
LEMMA ShapeIsTrace ==
    ASSUME NEW lo, NEW hi, Span(lo, hi), NEW d, Trace(d, lo, hi), NEW p, Pulse(p, lo, hi),
           NEW r, NEW a, NEW b, Shape(d, r, a, b, p)
    PROVE  Trace(r, lo, hi)
<1> DEFINE L == Len(d)
<1>0. /\ L \in Nat /\ lo \in Int /\ hi \in Int /\ p.t1 \in lo .. hi /\ p.t2 \in lo .. hi
      /\ p.t1 \in Int /\ p.t2 \in Int /\ p.t1 < p.t2
      /\ \A k \in 1 .. L : d[k] \in Sample /\ d[k].t \in lo .. hi /\ d[k].t \in Int
      /\ \A m, n \in 1 .. L : m <= n => d[m].t <= d[n].t
      /\ a \in 0 .. L /\ b \in a .. L /\ r \in Seq(Sample) /\ Len(r) = L + 2
  BY TraceTypes DEF Pulse, Shape, Trace, Timed
<1>1. /\ \A k \in 1 .. a : r[k].t = d[k].t /\ d[k].t < p.t1 /\ d[k].t < p.t2
      /\ r[a + 1].t = p.t1
      /\ \A k \in a + 1 .. b : r[k + 1].t = d[k].t /\ p.t1 < d[k].t /\ d[k].t < p.t2
      /\ r[b + 2].t = p.t2
      /\ \A k \in b + 1 .. L : r[k + 2].t = d[k].t /\ p.t1 < d[k].t /\ p.t2 < d[k].t
  <2>1. \A k \in a + 1 .. b : k \in 1 .. L /\ k \in 1 .. b /\ k \in a + 1 .. L
    BY <1>0
  <2>2. \A k \in 1 .. a : k \in 1 .. b
    BY <1>0
  <2>3. \A k \in b + 1 .. L : k \in a + 1 .. L
    BY <1>0
  <2>4. \A k \in a + 1 .. b : FlipScl(d[k]).t = d[k].t
    BY <1>0, <2>1, Flipped
  <2>5. QED
    BY <2>1, <2>2, <2>3, <2>4 DEF Shape
\* Which sample of d is at a place of r.
<1>2. ASSUME NEW k \in 1 .. L + 2
      PROVE  \/ k \in 1 .. a /\ k \in 1 .. L
             \/ k = a + 1
             \/ k - 1 \in a + 1 .. b /\ k - 1 \in 1 .. L /\ (k - 1) + 1 = k
             \/ k = b + 2
             \/ k - 2 \in b + 1 .. L /\ k - 2 \in 1 .. L /\ (k - 2) + 2 = k
  BY <1>0
<1> HIDE DEF L
<1>3. ASSUME NEW k \in 1 .. L + 2 PROVE r[k].t \in lo .. hi
  <2>1. CASE k \in 1 .. a /\ k \in 1 .. L
    BY <1>0, <1>1, <2>1
  <2>2. CASE k = a + 1 \/ k = b + 2
    BY <1>0, <1>1, <2>2
  <2>3. CASE k - 1 \in a + 1 .. b /\ k - 1 \in 1 .. L /\ (k - 1) + 1 = k
    <3>1. r[k].t = d[k - 1].t
      BY <1>1, <2>3
    <3>2. QED
      BY <1>0, <2>3, <3>1
  <2>4. CASE k - 2 \in b + 1 .. L /\ k - 2 \in 1 .. L /\ (k - 2) + 2 = k
    <3>1. r[k].t = d[k - 2].t
      BY <1>1, <2>4
    <3>2. QED
      BY <1>0, <2>4, <3>1
  <2>5. QED
    BY <1>2, <2>1, <2>2, <2>3, <2>4
<1>4. ASSUME NEW k \in 1 .. L + 1 PROVE r[k].t <= r[k + 1].t
  <2>0. k + 1 \in 1 .. L + 2 /\ k \in 1 .. L + 2 /\ k \in Int
    BY <1>0
  <2>1. CASE k < a
    <3>1. k \in 1 .. a /\ k + 1 \in 1 .. a /\ k \in 1 .. L /\ k + 1 \in 1 .. L /\ k <= k + 1
      BY <1>0, <2>0, <2>1
    <3>2. QED
      BY <1>0, <1>1, <3>1
  <2>2. CASE k = a
    <3>1. k \in 1 .. a
      BY <1>0, <2>0, <2>2
    <3>2. r[k].t < p.t1 /\ r[k + 1].t = p.t1 /\ r[k].t = d[k].t /\ k \in 1 .. L
      BY <1>0, <1>1, <2>2, <3>1
    <3>3. QED
      BY <1>0, <3>2
  <2>3. CASE k = a + 1 /\ a = b
    <3>1. k + 1 = b + 2
      BY <1>0, <2>3
    <3>2. QED
      BY <1>0, <1>1, <2>3, <3>1
  <2>4. CASE k = a + 1 /\ a < b
    <3>1. a + 1 \in a + 1 .. b /\ a + 1 \in 1 .. L
      BY <1>0, <2>4
    <3>2. r[k + 1].t = d[a + 1].t /\ p.t1 < d[a + 1].t
      BY <1>1, <2>4, <3>1
    <3>3. QED
      BY <1>0, <1>1, <2>4, <3>1, <3>2
  <2>5. CASE k > a + 1 /\ k < b + 1
    <3>1. /\ k - 1 \in a + 1 .. b /\ k \in a + 1 .. b /\ (k - 1) + 1 = k /\ k - 1 \in 1 .. L /\ k \in 1 .. L
          /\ k - 1 <= k
      BY <1>0, <2>0, <2>5
    <3>2. r[k].t = d[k - 1].t /\ r[k + 1].t = d[k].t
      BY <1>1, <3>1
    <3>3. QED
      BY <1>0, <3>1, <3>2
  <2>6. CASE k > a + 1 /\ k = b + 1
    <3>1. k - 1 \in a + 1 .. b /\ (k - 1) + 1 = k /\ k - 1 \in 1 .. L /\ k + 1 = b + 2
      BY <1>0, <2>0, <2>6
    <3>2. r[k].t = d[k - 1].t /\ d[k - 1].t < p.t2 /\ r[k + 1].t = p.t2
      BY <1>1, <3>1
    <3>3. QED
      BY <1>0, <3>1, <3>2
  <2>7. CASE k = b + 2
    <3>1. b + 1 \in b + 1 .. L /\ b + 1 \in 1 .. L /\ (b + 1) + 2 = k + 1
      BY <1>0, <2>0, <2>7, SMTT(30)
    <3>2. r[k + 1].t = d[b + 1].t /\ p.t2 < d[b + 1].t
      BY <1>1, <3>1
    <3>3. QED
      BY <1>0, <1>1, <2>7, <3>1, <3>2
  <2>8. CASE k > b + 2
    <3>1. /\ k - 2 \in b + 1 .. L /\ k - 1 \in b + 1 .. L /\ (k - 2) + 2 = k /\ (k - 1) + 2 = k + 1
          /\ k - 2 \in 1 .. L /\ k - 1 \in 1 .. L /\ k - 2 <= k - 1
      BY <1>0, <2>0, <2>8
    <3>2. r[k].t = d[k - 2].t /\ r[k + 1].t = d[k - 1].t
      BY <1>1, <3>1
    <3>3. QED
      BY <1>0, <3>1, <3>2
  <2>9. QED
    BY <1>0, <2>0, <2>1, <2>2, <2>3, <2>4, <2>5, <2>6, <2>7, <2>8
<1>5. Timed(r)
  <2>1. \A k \in 1 .. L + 2 : r[k].t \in Int
    BY <1>0, <1>3
  <2>2. Len(r) \in Nat /\ Len(r) = L + 2 /\ Len(r) - 1 = L + 1
    BY <1>0 DEF L
  <2>3. \A k \in 1 .. Len(r) - 1 : r[k].t <= r[k + 1].t
    BY <1>4, <2>2
  <2>4. \A k \in 1 .. Len(r) : r[k].t \in Int
    BY <2>1, <2>2
  <2>5. QED
    BY <2>2, <2>3, <2>4, TimedBySteps
<1>6. QED
  BY <1>0, <1>3, <1>5 DEF Trace, InSpan

\* Taking the pulse out again gives the samples back as they were.
LEMMA UndoExact ==
    ASSUME NEW lo, NEW hi, Span(lo, hi), NEW d, Trace(d, lo, hi), NEW p, Pulse(p, lo, hi),
           NEW r, NEW a, NEW b, Shape(d, r, a, b, p)
    PROVE  undo_pulse(r, p) = d
<1> DEFINE L == Len(d)
           Of(t) == {k \in DOMAIN r : r[k].t = t}
           once == RemoveAt(r, b + 2)
           kept == RemoveAt(once, a + 1)
<1>0. /\ L \in Nat /\ d \in Seq(Sample)
      /\ p.t1 \in Int /\ p.t2 \in Int /\ p.t1 < p.t2
      /\ \A k \in 1 .. L : d[k] \in Sample /\ d[k].t \in Int
      /\ a \in 0 .. L /\ b \in a .. L /\ r \in Seq(Sample) /\ Len(r) = L + 2 /\ DOMAIN r = 1 .. L + 2
  BY TraceTypes DEF Pulse, Shape
<1>1. /\ \A k \in 1 .. a : r[k] = d[k] /\ d[k].t < p.t1 /\ d[k].t < p.t2
      /\ r[a + 1].t = p.t1
      /\ \A k \in a + 1 .. b : r[k + 1] = FlipScl(d[k]) /\ p.t1 < d[k].t /\ d[k].t < p.t2
      /\ r[b + 2].t = p.t2
      /\ \A k \in b + 1 .. L : r[k + 2] = d[k] /\ p.t1 < d[k].t /\ p.t2 < d[k].t
  <2>1. \A k \in a + 1 .. b : k \in 1 .. b /\ k \in a + 1 .. L
    BY <1>0
  <2>2. \A k \in 1 .. a : k \in 1 .. b
    BY <1>0
  <2>3. \A k \in b + 1 .. L : k \in a + 1 .. L
    BY <1>0
  <2>4. QED
    BY <2>1, <2>2, <2>3 DEF Shape
<1>2. \A k \in a + 1 .. b : k \in 1 .. L /\ FlipScl(d[k]).t = d[k].t /\ FlipScl(FlipScl(d[k])) = d[k]
  BY <1>0, Flipped
<1> HIDE DEF L
<1>3. Of(p.t1) = {a + 1} /\ Of(p.t2) = {b + 2}
  <2>1. ASSUME NEW k \in 1 .. L + 2
        PROVE  (r[k].t = p.t1 <=> k = a + 1) /\ (r[k].t = p.t2 <=> k = b + 2)
    <3>1. CASE k \in 1 .. a
      <4>1. k # a + 1 /\ k # b + 2 /\ k \in 1 .. L
        BY <1>0, <3>1
      <4>2. r[k].t = d[k].t /\ d[k].t < p.t1 /\ d[k].t < p.t2
        BY <1>1, <3>1
      <4>3. QED
        BY <1>0, <4>1, <4>2
    <3>2. CASE k = a + 1
      BY <1>0, <1>1, <3>2
    <3>3. CASE k - 1 \in a + 1 .. b
      <4>1. (k - 1) + 1 = k /\ k # a + 1 /\ k # b + 2 /\ k - 1 \in 1 .. L
        BY <1>0, <3>3
      <4>2. r[k] = FlipScl(d[k - 1])
        BY <1>1, <3>3, <4>1
      <4>3. r[k].t = d[k - 1].t
        BY <1>2, <3>3, <4>2
      <4>4. QED
        BY <1>0, <1>1, <3>3, <4>1, <4>3
    <3>4. CASE k = b + 2
      BY <1>0, <1>1, <3>4
    <3>5. CASE k - 2 \in b + 1 .. L
      <4>1. (k - 2) + 2 = k /\ k # a + 1 /\ k # b + 2 /\ k - 2 \in 1 .. L
        BY <1>0, <3>5
      <4>2. r[k] = d[k - 2]
        BY <1>1, <3>5, <4>1
      <4>3. QED
        BY <1>0, <1>1, <3>5, <4>1, <4>2
    <3>6. QED
      BY <1>0, <3>1, <3>2, <3>3, <3>4, <3>5
  <2>2. a + 1 \in 1 .. L + 2 /\ b + 2 \in 1 .. L + 2
    BY <1>0
  <2>3. QED
    BY <1>0, <2>1, <2>2
<1>4. Max(Of(p.t1)) = a + 1 /\ Max(Of(p.t2)) = b + 2
  <2>1. a + 1 \in Int /\ b + 2 \in Int
    BY <1>0
  <2> HIDE DEF Of
  <2>2. QED
    BY <1>3, <2>1, MaxOfOne
<1>5. Max({a + 1, b + 2}) = b + 2 /\ Min({a + 1, b + 2}) = a + 1
  <2>1. a + 1 \in Int /\ b + 2 \in Int /\ a + 1 <= b + 2
    BY <1>0
  <2>2. QED
    BY <2>1, EndsOfTwo
<1>6. undo_pulse(r, p) = [k \in DOMAIN kept |-> Unflipped(kept[k], p)]
  <2>1. Of(p.t1) # {} /\ Of(p.t2) # {}
    BY <1>3
  <2>2. undo_pulse(r, p) =
          LET edges == {Max(Of(p.t1)), Max(Of(p.t2))}
              left == RemoveAt(RemoveAt(r, Max(edges)), Min(edges))
          IN IF Of(p.t1) = {} \/ Of(p.t2) = {} THEN r ELSE [k \in DOMAIN left |-> Unflipped(left[k], p)]
    BY DEF undo_pulse
  <2> HIDE DEF Of
  <2>3. QED
    BY <1>4, <1>5, <2>1, <2>2
<1>7. /\ once \in Seq(Sample) /\ Len(once) = L + 1
      /\ \A k \in 1 .. L + 1 : once[k] = IF k < b + 2 THEN r[k] ELSE r[k + 1]
  <2>1. b + 2 \in 1 .. Len(r) /\ Len(r) - 1 = L + 1
    BY <1>0
  <2>2. /\ once \in Seq(Sample) /\ Len(once) = Len(r) - 1
        /\ \A k \in 1 .. Len(r) - 1 : once[k] = IF k < b + 2 THEN r[k] ELSE r[k + 1]
    BY <1>0, <2>1, RemovePlaces
  <2>3. QED
    BY <2>1, <2>2
<1> HIDE DEF once
<1>8. /\ kept \in Seq(Sample) /\ Len(kept) = L
      /\ \A k \in 1 .. L : kept[k] = IF k < a + 1 THEN once[k] ELSE once[k + 1]
  <2>1. a + 1 \in 1 .. Len(once) /\ Len(once) - 1 = L
    BY <1>0, <1>7
  <2>2. /\ kept \in Seq(Sample) /\ Len(kept) = Len(once) - 1
        /\ \A k \in 1 .. Len(once) - 1 : kept[k] = IF k < a + 1 THEN once[k] ELSE once[k + 1]
    BY <1>7, <2>1, RemovePlaces
  <2>3. QED
    BY <2>1, <2>2
<1> HIDE DEF kept
<1>9. ASSUME NEW k \in 1 .. L PROVE Unflipped(kept[k], p) = d[k]
  <2>1. CASE k \in 1 .. a
    <3>1. k < a + 1 /\ k < b + 2 /\ k \in 1 .. L + 1
      BY <1>0, <2>1
    <3>2. kept[k] = d[k]
      BY <1>1, <1>7, <1>8, <2>1, <3>1
    <3>3. QED
      BY <1>0, <1>1, <2>1, <3>2 DEF Unflipped
  <2>2. CASE k \in a + 1 .. b
    <3>1. ~(k < a + 1) /\ k + 1 < b + 2 /\ k + 1 \in 1 .. L + 1
      BY <1>0, <2>2
    <3>2. kept[k] = FlipScl(d[k])
      BY <1>1, <1>7, <1>8, <2>2, <3>1
    <3>3. kept[k].t > p.t1 /\ kept[k].t < p.t2
      BY <1>0, <1>1, <1>2, <2>2, <3>2
    <3>4. QED
      BY <1>2, <2>2, <3>2, <3>3 DEF Unflipped
  <2>3. CASE k \in b + 1 .. L
    <3>1. ~(k < a + 1) /\ ~(k + 1 < b + 2) /\ k + 1 \in 1 .. L + 1 /\ (k + 1) + 1 = k + 2
      BY <1>0, <2>3
    <3>2. kept[k] = r[k + 2] /\ r[k + 2] = d[k]
      BY <1>1, <1>7, <1>8, <2>3, <3>1
    <3>3. QED
      BY <1>0, <1>1, <2>3, <3>2 DEF Unflipped
  <2>4. QED
    BY <1>0, <2>1, <2>2, <2>3
<1>10. d = [k \in 1 .. L |-> d[k]] /\ DOMAIN kept = 1 .. L
  BY <1>0, <1>8 DEF L
<1> DEFINE u == [k \in DOMAIN kept |-> Unflipped(kept[k], p)]
<1>11. DOMAIN u = 1 .. L /\ \A k \in 1 .. L : u[k] = d[k]
  BY <1>9, <1>10
<1>12. u = [k \in 1 .. L |-> u[k]]
  BY <1>10
<1> HIDE DEF u
<1>13. u = d
  BY <1>10, <1>11, <1>12
<1>14. QED
  BY <1>6, <1>13 DEF u

-----------------------------------------------------------------------------

(* The pulses to be tried lie between the samples of the capture.              *)

\* c is a choice of members of seq up to its n-th, at the places pl.
PlacesOf(pl, c, seq, n) ==
    /\ pl \in [1 .. Len(c) -> 1 .. n]
    /\ \A k \in 1 .. Len(c) : c[k] = seq[pl[k]]
    /\ \A k, l \in 1 .. Len(c) : k < l => pl[k] < pl[l]

\* A choice goes on with the next member.
LEMMA PlacesExtended ==
    ASSUME NEW A, NEW seq \in Seq(A), NEW n \in 1 .. Len(seq), NEW c \in Seq(A), NEW pl,
           PlacesOf(pl, c, seq, n - 1)
    PROVE  \E q : PlacesOf(q, Append(c, seq[n]), seq, n)
<1> DEFINE L == Len(c)
           d == Append(c, seq[n])
           q == [k \in 1 .. L + 1 |-> IF k = L + 1 THEN n ELSE pl[k]]
<1>0. L \in Nat /\ n \in Nat /\ n >= 1 /\ seq[n] \in A
  OBVIOUS
<1>1. Len(d) = L + 1 /\ d[L + 1] = seq[n] /\ \A k \in 1 .. L : d[k] = c[k]
  BY <1>0
<1> HIDE DEF d
<1>2. /\ pl \in [1 .. L -> 1 .. n - 1]
      /\ \A k \in 1 .. L : c[k] = seq[pl[k]]
      /\ \A k, l \in 1 .. L : k < l => pl[k] < pl[l]
  BY DEF PlacesOf
<1> HIDE DEF L
<1>3. q \in [1 .. L + 1 -> 1 .. n]
  BY <1>0, <1>2
<1>4. ASSUME NEW k \in 1 .. L + 1 PROVE d[k] = seq[q[k]]
  BY <1>0, <1>1, <1>2
<1>5. ASSUME NEW k \in 1 .. L + 1, NEW l \in 1 .. L + 1, k < l PROVE q[k] < q[l]
  BY <1>0, <1>2, <1>5
<1> HIDE DEF q
<1>6. PlacesOf(q, d, seq, n)
  BY <1>1, <1>3, <1>4, <1>5 DEF PlacesOf
<1>7. QED
  BY <1>6 DEF d

\* What is chosen of a sequence comes from places of it that grow.
LEMMA ChosenPlaces ==
    ASSUME NEW A, NEW seq \in Seq(A), NEW K
    PROVE  Chosen(seq, K) \in Seq(A) /\ \E pl : PlacesOf(pl, Chosen(seq, K), seq, Len(seq))
<1> DEFINE L == Len(seq)
           Step(c, n) == IF n \in K THEN Append(c, seq[n]) ELSE c
           P(f, m) == /\ DOMAIN f = 0 .. m /\ f[0] = <<>>
                      /\ \A n \in 1 .. m : f[n] = Step(f[n - 1], n)
           S == {m \in 0 .. L : \E f : P(f, m)}
<1>0. L \in Nat
  OBVIOUS
<1>1. 0 \in S
  <2>1. P([n \in 0 .. 0 |-> <<>>], 0)
    OBVIOUS
  <2> HIDE DEF P
  <2>2. QED
    BY <1>0, <2>1
<1>2. ASSUME NEW m \in 1 .. L, m - 1 \in S PROVE m \in S
  <2>1. PICK f : P(f, m - 1)
    BY <1>2
  <2> HIDE DEF Step
  <2> DEFINE g == [n \in 0 .. m |-> IF n < m THEN f[n] ELSE Step(f[m - 1], m)]
  <2>2. P(g, m)
    BY <2>1
  <2> HIDE DEF P, g
  <2>3. QED
    BY <2>2
<1>3. L \in S
  <2> HIDE DEF S
  <2>1. 0 .. L \subseteq S
    BY <1>0, <1>1, <1>2, UpTo
  <2>2. QED
    BY <1>0, <2>1
<1>4. PICK f : P(f, L)
  BY <1>3
<1> DEFINE E(g) == g = [n \in 0 .. L |->
                          IF n = 0 THEN <<>> ELSE IF n \in K THEN Append(g[n - 1], seq[n]) ELSE g[n - 1]]
           upto == CHOOSE g : E(g)
<1>5. \E g : E(g)
  <2> DEFINE h == [n \in 0 .. L |-> f[n]]
             g == [n \in 0 .. L |-> IF n = 0 THEN <<>> ELSE Step(h[n - 1], n)]
  <2>1. \A n \in 0 .. L : n = 0 \/ (n \in 1 .. L /\ n - 1 \in 0 .. L)
    BY <1>0
  <2>2. \A n \in 0 .. L : h[n] = IF n = 0 THEN <<>> ELSE Step(h[n - 1], n)
    <3> HIDE DEF Step
    <3>1. \A n \in 1 .. L : h[n] = f[n] /\ h[n - 1] = f[n - 1] /\ f[n] = Step(f[n - 1], n)
      BY <1>4, <2>1
    <3>2. \A n \in 1 .. L : h[n] = Step(h[n - 1], n)
      BY <3>1
    <3>3. h[0] = <<>>
      BY <1>0, <1>4
    <3> HIDE DEF h
    <3>4. QED
      BY <2>1, <3>2, <3>3
  <2>3. h = [n \in 0 .. L |-> h[n]]
    OBVIOUS
  <2> HIDE DEF h, Step
  <2>4. h = g
    BY <2>2, <2>3
  <2>5. E(h)
    BY <2>4 DEF Step
  <2> HIDE DEF E
  <2>6. QED
    BY <2>5
<1>6. E(upto)
  BY <1>5
<1>7. Chosen(seq, K) = upto[L]
  BY DEF Chosen
<1> HIDE DEF upto, S, P
<1> DEFINE T == {n \in 0 .. L : upto[n] \in Seq(A) /\ \E pl : PlacesOf(pl, upto[n], seq, n)}
<1>8. 0 \in T
  <2>1. upto[0] = <<>>
    BY <1>0, <1>6
  <2>2. PlacesOf([k \in 1 .. 0 |-> 0], upto[0], seq, 0)
    BY <2>1 DEF PlacesOf
  <2>3. upto[0] \in Seq(A)
    BY <2>1
  <2> HIDE DEF E
  <2>4. \E pl : PlacesOf(pl, upto[0], seq, 0)
    BY <2>2
  <2>5. QED
    BY <1>0, <2>3, <2>4
<1>9. ASSUME NEW n \in 1 .. L, n - 1 \in T PROVE n \in T
  <2> n \in 0 .. L /\ n # 0
    BY <1>0
  <2>1. upto[n] = IF n \in K THEN Append(upto[n - 1], seq[n]) ELSE upto[n - 1]
    BY <1>6, Zenon
  <2>2. PICK pl : upto[n - 1] \in Seq(A) /\ PlacesOf(pl, upto[n - 1], seq, n - 1)
    BY <1>9
  <2> HIDE DEF E
  <2>3. CASE n \in K
    <3>1. \E q : PlacesOf(q, Append(upto[n - 1], seq[n]), seq, n)
      BY <2>2, PlacesExtended
    <3>2. seq[n] \in A /\ Append(upto[n - 1], seq[n]) \in Seq(A)
      BY <2>2
    <3>3. QED
      BY <2>1, <2>3, <3>1, <3>2
  <2>4. CASE n \notin K
    <3>1. PlacesOf(pl, upto[n - 1], seq, n)
      <4>1. 1 .. n - 1 \subseteq 1 .. n
        BY <1>0
      <4>2. QED
        BY <2>2, <4>1 DEF PlacesOf
    <3>2. QED
      BY <2>1, <2>2, <2>4, <3>1
  <2>5. QED
    BY <2>3, <2>4
<1>10. L \in T
  <2> HIDE DEF T
  <2>1. 0 .. L \subseteq T
    BY <1>0, <1>8, <1>9, UpTo
  <2>2. QED
    BY <1>0, <2>1
<1>11. QED
  BY <1>7, <1>10

\* Joining sequences over a set gives a sequence over it.
LEMMA FlattenMembers ==
    ASSUME NEW A, NEW seqs \in Seq(Seq(A))
    PROVE  FlattenSeq(seqs) \in Seq(A)
<1> DEFINE L == Len(seqs)
           Step(c, n) == IF n = 1 THEN seqs[n] ELSE c \o seqs[n]
           P(f, m) == /\ DOMAIN f = 1 .. m
                      /\ \A n \in 1 .. m : f[n] = Step(f[n - 1], n)
           S == {m \in 0 .. L : \E f : P(f, m)}
<1>0. L \in Nat /\ \A n \in 1 .. L : seqs[n] \in Seq(A)
  OBVIOUS
<1>1. CASE L = 0
  <2>1. FlattenSeq(seqs) = seqs /\ seqs = <<>>
    BY <1>1 DEF FlattenSeq
  <2>2. QED
    BY <2>1
<1>2. CASE L # 0
  <2>1. 0 \in S
    <3>1. P([n \in 1 .. 0 |-> <<>>], 0)
      OBVIOUS
    <3> HIDE DEF P
    <3>2. QED
      BY <1>0, <3>1
  <2>2. ASSUME NEW m \in 1 .. L, m - 1 \in S PROVE m \in S
    <3>1. PICK f : P(f, m - 1)
      BY <2>2
    <3> DEFINE g == [n \in 1 .. m |-> IF n < m THEN f[n] ELSE Step(f[m - 1], m)]
    <3>2. P(g, m)
      <4>1. CASE m = 1
        BY <4>1
      <4>2. CASE m # 1
        <5>1. \A n \in 1 .. m - 1 : n = 1 \/ n - 1 \in 1 .. m - 1
          BY <1>0
        <5>2. \A n \in 1 .. m - 1 : g[n] = f[n]
          BY <1>0
        <5>3. g[m] = Step(g[m - 1], m)
          <6>1. m \in 1 .. m /\ ~(m < m) /\ m - 1 \in 1 .. m - 1
            BY <1>0, <4>2
          <6> HIDE DEF Step
          <6>2. g[m] = Step(f[m - 1], m)
            BY <6>1
          <6>3. QED
            BY <5>2, <6>1, <6>2
        <5>4. ASSUME NEW n \in 1 .. m - 1 PROVE g[n] = Step(g[n - 1], n)
          BY <3>1, <5>1, <5>2
        <5>5. DOMAIN g = 1 .. m /\ \A n \in 1 .. m : n = m \/ n \in 1 .. m - 1
          BY <1>0
        <5> HIDE DEF g, Step
        <5>6. QED
          BY <5>3, <5>4, <5>5
      <4>3. QED
        BY <4>1, <4>2
    <3> HIDE DEF P, g
    <3>3. QED
      BY <3>2
  <2>3. L \in S
    <3> HIDE DEF S
    <3>1. 0 .. L \subseteq S
      BY <1>0, <2>1, <2>2, UpTo
    <3>2. QED
      BY <1>0, <3>1
  <2>4. PICK f : P(f, L)
    BY <2>3
  <2> DEFINE E(g) == g = [n \in 1 .. L |-> IF n = 1 THEN seqs[n] ELSE g[n - 1] \o seqs[n]]
             flatten == CHOOSE g : E(g)
  <2>5. \E g : E(g)
    <3> DEFINE h == [n \in 1 .. L |-> f[n]]
    <3>1. \A n \in 1 .. L : n # 1 => n - 1 \in 1 .. L
      BY <1>0
    <3>2. \A n \in 1 .. L : h[n] = IF n = 1 THEN seqs[n] ELSE h[n - 1] \o seqs[n]
      BY <2>4, <3>1
    <3>a. h = [n \in 1 .. L |-> h[n]]
      OBVIOUS
    <3> HIDE DEF h
    <3>3. h = [n \in 1 .. L |-> IF n = 1 THEN seqs[n] ELSE h[n - 1] \o seqs[n]]
      BY <3>2, <3>a
    <3>4. E(h)
      BY <3>3
    <3> HIDE DEF E
    <3>5. QED
      BY <3>4
  <2>6. E(flatten)
    BY <2>5
  <2>7. FlattenSeq(seqs) = flatten[L]
    BY <1>2 DEF FlattenSeq
  <2> HIDE DEF flatten, S, P
  <2> DEFINE T == {n \in 0 .. L : n = 0 \/ flatten[n] \in Seq(A)}
  <2>8. 0 \in T
    BY <1>0
  <2>9. ASSUME NEW n \in 1 .. L, n - 1 \in T PROVE n \in T
    <3>1. flatten[n] = IF n = 1 THEN seqs[n] ELSE flatten[n - 1] \o seqs[n]
      BY <2>6, Zenon
    <3>2. seqs[n] \in Seq(A) /\ n \in 0 .. L
      BY <1>0
    <3> HIDE DEF E
    <3>3. CASE n = 1
      BY <3>1, <3>2, <3>3
    <3>4. CASE n # 1
      <4>1. flatten[n - 1] \in Seq(A)
        BY <1>0, <2>9, <3>4
      <4>2. flatten[n - 1] \o seqs[n] \in Seq(A)
        BY <3>2, <4>1
      <4>3. QED
        BY <3>1, <3>2, <3>4, <4>2
    <3>5. QED
      BY <3>3, <3>4
  <2>10. flatten[L] \in Seq(A)
    <3> HIDE DEF T
    <3>1. 0 .. L \subseteq T
      BY <1>0, <2>8, <2>9, UpTo
    <3>2. QED
      BY <1>0, <1>2, <3>1 DEF T
  <2>11. QED
    BY <2>7, <2>10
<1>3. QED
  BY <1>1, <1>2

BoundsOf(v) == <<v.start>> \o v.sda \o <<v.end>>
Grows(q) == \A g \in 1 .. Len(q) - 1 : q[g] <= q[g + 1]
Intervals(lo, hi) ==
    {v \in [level : {0, 1}, start : lo .. hi, end : lo .. hi, sda : Seq(lo .. hi)] : Grows(BoundsOf(v))}
Pulses(lo, hi) == [t1 : lo .. hi, t2 : lo .. hi, id : Nat, interval : Int]

\* The times of d at places that grow, between two others.
LEMMA BoundsGrow ==
    ASSUME NEW d, Timed(d), Len(d) \in Nat, \A n \in 1 .. Len(d) : d[n].t \in Int,
           NEW first \in 1 .. Len(d), NEW last \in first .. Len(d), NEW q \in Seq(Int), NEW pl,
           pl \in [1 .. Len(q) -> first .. last],
           \A k \in 1 .. Len(q) : q[k] = d[pl[k]].t,
           \A k, l \in 1 .. Len(q) : k < l => pl[k] <= pl[l]
    PROVE  LET b == <<d[first].t>> \o q \o <<d[last].t>>
           IN b \in Seq(Int) /\ Len(b) = Len(q) + 2 /\ Grows(b)
<1> DEFINE L == Len(q)
           b == <<d[first].t>> \o q \o <<d[last].t>>
           at == [k \in 1 .. L + 2 |-> IF k = 1 THEN first ELSE IF k = L + 2 THEN last ELSE pl[k - 1]]
<1>0. L \in Nat /\ Len(d) \in Nat /\ first \in 1 .. Len(d) /\ last \in 1 .. Len(d) /\ first <= last
      /\ d[first].t \in Int /\ d[last].t \in Int
  OBVIOUS
<1>1. b \in Seq(Int) /\ Len(b) = L + 2 /\ b[1] = d[first].t /\ b[L + 2] = d[last].t
      /\ \A k \in 1 .. L : b[k + 1] = q[k]
  <2> HIDE DEF L
  <2> DEFINE x == d[first].t  y == d[last].t
  <2>1. x \in Int /\ y \in Int /\ q \in Seq(Int) /\ Len(q) = L
    BY <1>0 DEF L
  <2> HIDE DEF x, y
  <2>2. <<x>> \o q \in Seq(Int) /\ Len(<<x>> \o q) = L + 1 /\ (<<x>> \o q)[1] = x
        /\ \A k \in 1 .. L : (<<x>> \o q)[k + 1] = q[k]
    BY <1>0, <2>1
  <2> DEFINE f == <<x>> \o q
  <2> HIDE DEF f
  <2>3. f \in Seq(Int) /\ Len(f) = L + 1 /\ f[1] = x /\ \A k \in 1 .. L : f[k + 1] = q[k]
    BY <2>2 DEF f
  <2>4. f \o <<y>> \in Seq(Int) /\ Len(f \o <<y>>) = L + 2 /\ (f \o <<y>>)[L + 2] = y
        /\ \A k \in 1 .. L + 1 : (f \o <<y>>)[k] = f[k]
    BY <1>0, <2>1, <2>3
  <2>5. b = f \o <<y>>
    BY DEF f, x, y
  <2>6. 1 \in 1 .. L + 1 /\ \A k \in 1 .. L : k + 1 \in 1 .. L + 1
    BY <1>0
  <2> HIDE DEF b
  <2>7. QED
    BY <2>3, <2>4, <2>5, <2>6 DEF x, y
<1> HIDE DEF b
<1>2. ASSUME NEW k \in 1 .. L + 2 PROVE at[k] \in first .. last /\ b[k] = d[at[k]].t
  <2>1. CASE k = 1 \/ k = L + 2
    BY <1>0, <1>1, <2>1
  <2>2. CASE k # 1 /\ k # L + 2
    <3>1. k - 1 \in 1 .. L /\ (k - 1) + 1 = k
      BY <1>0, <2>2
    <3>2. at[k] = pl[k - 1] /\ b[k] = q[k - 1]
      BY <1>1, <2>2, <3>1
    <3>3. QED
      BY <3>1, <3>2
  <2>3. QED
    BY <2>1, <2>2
<1>3. ASSUME NEW k \in 1 .. L + 1 PROVE at[k] <= at[k + 1]
  <2>0. k \in 1 .. L + 2 /\ k + 1 \in 1 .. L + 2 /\ (k + 1) - 1 = k /\ k + 1 # 1 /\ k # L + 2
    BY <1>0
  <2>1. CASE k = 1 \/ k + 1 = L + 2
    BY <1>0, <1>2, <2>0, <2>1
  <2>2. CASE k # 1 /\ k + 1 # L + 2
    <3>1. k - 1 \in 1 .. L /\ k \in 1 .. L /\ k - 1 < k
      <4>1. L \in Nat /\ k \in 1 .. L + 1 /\ k # 1 /\ k + 1 # L + 2
        BY <1>0, <2>2
      <4> HIDE DEF L
      <4>2. QED
        BY <4>1
    <3>2. at[k] = pl[k - 1] /\ at[k + 1] = pl[k]
      BY <2>0, <2>2
    <3>3. QED
      BY <3>1, <3>2
  <2>3. QED
    BY <2>1, <2>2
<1> HIDE DEF at
<1>4. ASSUME NEW k \in 1 .. L + 1 PROVE b[k] <= b[k + 1]
  <2>1. k \in 1 .. L + 2 /\ k + 1 \in 1 .. L + 2
    BY <1>0
  <2>2. at[k] \in 1 .. Len(d) /\ at[k + 1] \in 1 .. Len(d) /\ at[k] <= at[k + 1]
    BY <1>0, <1>2, <1>3, <2>1
  <2>3. b[k] = d[at[k]].t /\ b[k + 1] = d[at[k + 1]].t
    BY <1>2, <2>1
  <2>4. QED
    BY <2>2, <2>3 DEF Timed
<1>5. Len(b) - 1 = L + 1
  BY <1>0, <1>1
<1>6. Grows(b)
  BY <1>4, <1>5 DEF Grows
<1>7. QED
  BY <1>1, <1>6 DEF b

\* The intervals without clock that are found lie in the span.
LEMMA IntervalsInSpan ==
    ASSUME NEW lo, NEW hi, Span(lo, hi), NEW d, Trace(d, lo, hi)
    PROVE  SclIntervals(d, Idle).closed \in Seq(Intervals(lo, hi))
<1> DEFINE L == Len(d)
           Earlier(n) == LevelAt(d, n - 1, Idle)
           idx == [n \in DOMAIN d |-> n]
           edges == Chosen(idx, {n \in DOMAIN d : Earlier(n).scl # d[n].scl})
           from == <<0>> \o edges
           Times(first, last) == [n \in 1 .. last - first - 1 |-> d[first + n].t]
           SdaTimes(first, last) ==
             Chosen(Times(first, last),
                    {n \in 1 .. last - first - 1 : Earlier(first + n).sda # d[first + n].sda})
           Closed(i) ==
             [level |-> Earlier(edges[i]).scl, start |-> d[Max({1, from[i]})].t, end |-> d[edges[i]].t,
              sda |-> SdaTimes(from[i], edges[i])]
           all == [i \in DOMAIN edges |-> Closed(i)]
<1>0. /\ L \in Nat /\ DOMAIN d = 1 .. L /\ d \in Seq(Sample) /\ lo \in Int /\ hi \in Int
      /\ \A n \in 1 .. L : d[n] \in Sample /\ d[n].t \in lo .. hi /\ d[n].t \in Int
      /\ Timed(d)
  BY TraceTypes DEF Trace
<1>1. SclIntervals(d, Idle).closed = Chosen(all, DOMAIN edges)
  BY DEF SclIntervals
<1>2. /\ edges \in Seq(1 .. L)
      /\ \A k, l \in 1 .. Len(edges) : k < l => edges[k] < edges[l]
  <2>1. idx \in Seq(1 .. L) /\ Len(idx) = L /\ \A n \in 1 .. L : idx[n] = n
    BY <1>0
  <2> HIDE DEF idx
  <2>2. edges \in Seq(1 .. L) /\ \E pl : PlacesOf(pl, edges, idx, Len(idx))
    BY <2>1, ChosenPlaces
  <2> HIDE DEF edges
  <2>3. PICK pl : PlacesOf(pl, edges, idx, L)
    BY <2>1, <2>2
  <2>4. \A k \in 1 .. Len(edges) : edges[k] = pl[k]
    BY <2>1, <2>3 DEF PlacesOf
  <2>5. QED
    BY <2>2, <2>3, <2>4 DEF PlacesOf
<1> HIDE DEF edges, idx
<1>3. \A i \in 1 .. Len(edges) : from[i] \in 0 .. L /\ from[i] < edges[i]
  <2>1. TAKE i \in 1 .. Len(edges)
  <2>2. CASE i = 1
    BY <1>0, <1>2, <2>2
  <2>3. CASE i # 1
    <3>1. i - 1 \in 1 .. Len(edges) /\ i - 1 < i
      BY <1>2, <2>3
    <3>2. from[i] = edges[i - 1]
      BY <1>2, <2>3, <3>1
    <3>3. edges[i - 1] \in 1 .. L /\ edges[i] \in 1 .. L /\ edges[i - 1] < edges[i]
      BY <1>2, <3>1, SMTT(30)
    <3> HIDE DEF from
    <3>4. QED
      BY <1>0, <3>2, <3>3
  <2>4. QED
    BY <2>2, <2>3
<1> HIDE DEF from
<1>4. ASSUME NEW i \in 1 .. Len(edges) PROVE Closed(i) \in Intervals(lo, hi)
  <2> DEFINE f == from[i]  e == edges[i]  s == Max({1, from[i]})  q == SdaTimes(f, e)
  <2>1. f \in 0 .. L /\ e \in 1 .. L /\ f < e
    BY <1>2, <1>3
  <2>2. s \in 1 .. e /\ s >= 1 /\ (f >= 1 => s = f) /\ (f = 0 => s = 1)
    <3>1. CASE f >= 1
      BY <2>1, <3>1, EndsOfTwo
    <3>2. CASE f = 0
      <4>1. {1, f} = {0, 1} /\ Max({0, 1}) = 1
        BY <3>2, EndsOfTwo
      <4>2. s = 1
        BY <4>1
      <4> HIDE DEF s
      <4>3. QED
        BY <2>1, <3>2, <4>2
    <3>3. QED
      BY <2>1, <3>1, <3>2
  <2>3. \A n \in 1 .. e - f - 1 : f + n \in s .. e /\ f + n \in 1 .. L
    BY <2>1, <2>2
  <2>4. Times(f, e) \in Seq(lo .. hi) /\ Len(Times(f, e)) = (IF e - f - 1 >= 0 THEN e - f - 1 ELSE 0)
        /\ \A n \in 1 .. Len(Times(f, e)) : n \in 1 .. e - f - 1 /\ Times(f, e)[n] = d[f + n].t
    <3>1. e - f - 1 \in Nat
      BY <2>1
    <3>2. \A n \in 1 .. e - f - 1 : d[f + n].t \in lo .. hi
      BY <1>0, <2>3
    <3> DEFINE m == e - f - 1
    <3>3. m \in Nat /\ Times(f, e) = [n \in 1 .. m |-> d[f + n].t]
      BY <3>1
    <3>4. \A n \in 1 .. m : d[f + n].t \in lo .. hi
      BY <3>2
    <3> HIDE DEF e, f, m, Times
    <3> DEFINE times == [n \in 1 .. m |-> d[f + n].t]  S == lo .. hi
    <3>a. \A n \in 1 .. m : times[n] \in S
      BY <3>4
    <3>b. times = [n \in 1 .. m |-> times[n]]
      OBVIOUS
    <3>c. Times(f, e) = times
      BY <3>3
    <3> HIDE DEF times, S
    <3>d. times \in Seq(S) /\ Len(times) = m
      BY <3>3, <3>a, <3>b
    <3>5. Times(f, e) \in Seq(lo .. hi) /\ Len(Times(f, e)) = m
      BY <3>c, <3>d DEF S
    <3>6. \A n \in 1 .. m : Times(f, e)[n] = d[f + n].t
      BY <3>3
    <3>7. m = e - f - 1
      BY DEF m
    <3>8. QED
      BY <3>3, <3>5, <3>6, <3>7
  <2> HIDE DEF Times
  <2>5. q \in Seq(lo .. hi) /\ \E pl : PlacesOf(pl, q, Times(f, e), Len(Times(f, e)))
    BY <2>4, ChosenPlaces
  <2> HIDE DEF q
  <2>6. PICK pl : PlacesOf(pl, q, Times(f, e), Len(Times(f, e)))
    BY <2>5
  <2> DEFINE at == [k \in 1 .. Len(q) |-> f + pl[k]]
  <2>7. \A k \in 1 .. Len(q) : pl[k] \in 1 .. e - f - 1 /\ q[k] = d[f + pl[k]].t
    BY <2>4, <2>6 DEF PlacesOf
  <2>8. at \in [1 .. Len(q) -> s .. e]
    BY <2>3, <2>7
  <2>9. \A k \in 1 .. Len(q) : q[k] = d[at[k]].t
    BY <2>7
  <2>10. \A k, l \in 1 .. Len(q) : k < l => at[k] <= at[l]
    BY <2>1, <2>6, <2>7 DEF PlacesOf
  <2>11. q \in Seq(Int) /\ s \in 1 .. Len(d) /\ e \in s .. Len(d)
    <3>1. lo .. hi \subseteq Int
      BY <1>0
    <3>2. q \in Seq(Int)
      BY <2>5, <3>1, SeqMonotonic
    <3>3. QED
      BY <2>1, <2>2, <3>2
  <2> HIDE DEF at, s, e
  <2>12. Grows(<<d[s].t>> \o q \o <<d[e].t>>)
    BY <1>0, <2>8, <2>9, <2>10, <2>11, BoundsGrow
  <2>13. Earlier(e).scl \in {0, 1}
    <3>1. CASE e = 1
      BY <3>1 DEF LevelAt, Idle
    <3>2. CASE e # 1
      <4>1. e - 1 \in 1 .. L /\ e - 1 # 0
        BY <1>0, <2>1, <3>2 DEF e
      <4>2. QED
        BY <1>0, <4>1 DEF LevelAt, Sample
    <3>3. QED
      BY <3>1, <3>2
  <2>14. d[s].t \in lo .. hi /\ d[e].t \in lo .. hi
    BY <1>0, <2>11
  <2> DEFINE v == [level |-> Earlier(e).scl, start |-> d[s].t, end |-> d[e].t, sda |-> q]
  <2>15. Closed(i) = v
    BY DEF s, e, q
  <2> HIDE DEF Earlier
  <2>16. BoundsOf(v) = <<d[s].t>> \o q \o <<d[e].t>>
    BY DEF BoundsOf
  <2>17. v \in [level : {0, 1}, start : lo .. hi, end : lo .. hi, sda : Seq(lo .. hi)]
    BY <2>5, <2>13, <2>14
  <2> HIDE DEF v
  <2>18. v \in Intervals(lo, hi)
    BY <2>12, <2>16, <2>17 DEF Intervals
  <2>19. QED
    BY <2>15, <2>18
<1>5. all \in Seq(Intervals(lo, hi))
  <2>1. Len(edges) \in Nat /\ DOMAIN edges = 1 .. Len(edges)
    BY <1>2
  <2> HIDE DEF Closed
  <2>2. QED
    BY <1>4, <2>1
<1> HIDE DEF all
<1>6. QED
  BY <1>1, <1>5, ChosenPlaces

\* A place between two times of the span that are not before each other.
LEMMA BetweenBounds ==
    ASSUME NEW lo, NEW hi, Span(lo, hi), NEW x \in lo .. hi, NEW y \in lo .. hi, x <= y,
           NEW k, NEW n, <<k, n>> \in {<<1, 2>>, <<1, 3>>, <<2, 3>>}
    PROVE  (x + (Since(y, x) * k) \div n) % ClockMod \in lo .. hi
<1> DEFINE w == y - x  q == (w * k) \div n
<1>0. lo \in Int /\ hi \in Int /\ ClockMod \in Nat \ {0} /\ lo >= 0 /\ hi < ClockMod
      /\ x \in Int /\ y \in Int
  BY RecoveryAssumption DEF Span
<1>1. Since(y, x) = w
  BY SinceInSpan
<1>2. w \in Nat
  BY <1>0
<1> HIDE DEF w
<1>3. q \in 0 .. w
  <2>1. CASE k = 1 /\ n = 2
    BY <1>2, <2>1
  <2>2. CASE k = 1 /\ n = 3
    BY <1>2, <2>2
  <2>3. CASE k = 2 /\ n = 3
    BY <1>2, <2>3
  <2>4. QED
    BY <2>1, <2>2, <2>3
<1> HIDE DEF q
<1>4. x + q \in Int /\ x + q >= x /\ x + q <= y
  BY <1>0, <1>2, <1>3 DEF w
<1>5. x + q < ClockMod /\ x + q >= 0 /\ x + q >= 0 - ClockMod
  BY <1>0, <1>4
<1>6. (x + q) % ClockMod = x + q
  BY <1>0, <1>4, <1>5, ModNear
<1>7. x + q \in lo .. hi
  BY <1>0, <1>4
<1>8. QED
  BY <1>1, <1>6, <1>7 DEF q

\* The pulses of one interval lie in the span.
LEMMA PulsesInSpan ==
    ASSUME NEW lo, NEW hi, Span(lo, hi), NEW v \in Intervals(lo, hi), NEW id \in Nat, NEW opposite
    PROVE  IntervalPulses(v, id, opposite) \in Seq(Pulses(lo, hi))
<1> DEFINE bounds == BoundsOf(v)
           Width(g) == Since(bounds[g + 1], bounds[g])
           Between(g, k, n) == (bounds[g] + (Width(g) * k) \div n) % ClockMod
           Slots(first) ==
             [second \in 1 .. Len(bounds) - first |->
                IF second = 1 THEN <<Between(first, 1, 3), Between(first, 2, 3)>>
                ELSE <<Between(first, 1, 2), Between(first + second - 1, 1, 2)>>]
           Tried(first) ==
             {second \in 1 .. Len(bounds) - first :
                /\ second = 1 \/ Width(first + second - 1) >= 5
                /\ PlausiblePulse(Slots(first)[second][1], Slots(first)[second][2], opposite)}
           PulsesFrom(first) == IF Width(first) < 9 THEN <<>> ELSE Chosen(Slots(first), Tried(first))
           firsts == [first \in 1 .. Len(bounds) - 1 |-> PulsesFrom(first)]
           all == FlattenSeq(firsts)
           T == lo .. hi
<1>1. IntervalPulses(v, id, opposite) =
        [n \in DOMAIN all |-> [t1 |-> all[n][1], t2 |-> all[n][2], id |-> id,
                               interval |-> Since(v.end, v.start)]]
  BY DEF IntervalPulses, BoundsOf
<1>2. /\ v.start \in T /\ v.end \in T /\ v.sda \in Seq(T)
      /\ Grows(bounds)
  BY DEF Intervals
<1>3. bounds \in Seq(T) /\ Len(bounds) \in Nat /\ \A g \in 1 .. Len(bounds) : bounds[g] \in T
  <2>1. <<v.start>> \o v.sda \in Seq(T)
    BY <1>2
  <2>2. bounds \in Seq(T)
    BY <1>2, <2>1 DEF BoundsOf
  <2> HIDE DEF bounds, T
  <2>3. QED
    BY <2>2
<1> HIDE DEF bounds
<1>4. ASSUME NEW g \in 1 .. Len(bounds) - 1, NEW k, NEW n, <<k, n>> \in {<<1, 2>>, <<1, 3>>, <<2, 3>>}
      PROVE  Between(g, k, n) \in T
  <2>1. g \in 1 .. Len(bounds) /\ g + 1 \in 1 .. Len(bounds)
    BY <1>3
  <2>2. bounds[g] \in lo .. hi /\ bounds[g + 1] \in lo .. hi /\ bounds[g] <= bounds[g + 1]
    BY <1>2, <1>3, <2>1 DEF Grows
  <2>3. QED
    BY <1>4, <2>2, BetweenBounds
<1> HIDE DEF Between
<1>5. ASSUME NEW first \in 1 .. Len(bounds) - 1 PROVE Slots(first) \in Seq(T \X T)
  <2>1. ASSUME NEW second \in 1 .. Len(bounds) - first
        PROVE  Slots(first)[second] \in T \X T
    <3>1. first + second - 1 \in 1 .. Len(bounds) - 1
      BY <1>3
    <3>2. Between(first, 1, 3) \in T /\ Between(first, 2, 3) \in T /\ Between(first, 1, 2) \in T
          /\ Between(first + second - 1, 1, 2) \in T
      BY <1>4, <3>1
    <3> HIDE DEF T
    <3>3. QED
      BY <3>2
  <2>2. Len(bounds) - first \in Nat
    BY <1>3
  <2> DEFINE m == Len(bounds) - first
  <2>3. m \in Nat /\ DOMAIN Slots(first) = 1 .. m /\ Slots(first) = [second \in 1 .. m |-> Slots(first)[second]]
        /\ \A second \in 1 .. m : Slots(first)[second] \in T \X T
    BY <2>1, <2>2
  <2> HIDE DEF m, Slots, T
  <2>4. QED
    BY <2>3
<1> HIDE DEF Slots, Tried
<1>6. ASSUME NEW first \in 1 .. Len(bounds) - 1 PROVE PulsesFrom(first) \in Seq(T \X T)
  <2>1. Chosen(Slots(first), Tried(first)) \in Seq(T \X T)
    BY <1>5, ChosenPlaces
  <2>2. QED
    BY <2>1
<1> HIDE DEF PulsesFrom
<1>7. firsts \in Seq(Seq(T \X T))
  <2>1. Len(bounds) - 1 \in Nat \/ Len(bounds) - 1 = 0 - 1
    BY <1>3
  <2>2. CASE Len(bounds) - 1 \in Nat
    <3> DEFINE m == Len(bounds) - 1
    <3>1. m \in Nat /\ firsts = [first \in 1 .. m |-> PulsesFrom(first)]
          /\ \A first \in 1 .. m : PulsesFrom(first) \in Seq(T \X T)
      BY <1>6, <2>2
    <3> HIDE DEF m, firsts, T
    <3>2. QED
      BY <3>1
  <2>3. CASE Len(bounds) - 1 = 0 - 1
    <3>1. firsts = [first \in 1 .. 0 |-> PulsesFrom(first)]
      <4>1. 1 .. Len(bounds) - 1 = {} /\ 1 .. 0 = {}
        BY <2>3
      <4>2. QED
        BY <4>1
    <3>2. firsts = <<>>
      BY <3>1
    <3> HIDE DEF firsts
    <3>3. QED
      BY <3>2
  <2>4. QED
    BY <2>1, <2>2, <2>3
<1> HIDE DEF firsts
<1>8. all \in Seq(T \X T)
  BY <1>7, FlattenMembers
<1> HIDE DEF all
<1>9. Since(v.end, v.start) \in Int
  <2>1. ClockMod \in Nat \ {0} /\ v.end \in Int /\ v.start \in Int
    BY <1>2, RecoveryAssumption DEF Span
  <2>2. \A x \in Int, m \in Nat \ {0} : x % m \in Int
    OBVIOUS
  <2>3. v.end - v.start \in Int
    BY <2>1
  <2>4. QED
    BY <2>1, <2>2, <2>3 DEF Since
<1>10. ASSUME NEW n \in 1 .. Len(all)
       PROVE  [t1 |-> all[n][1], t2 |-> all[n][2], id |-> id, interval |-> Since(v.end, v.start)]
                \in Pulses(lo, hi)
  <2>1. all[n] \in T \X T
    BY <1>8
  <2>2. all[n][1] \in lo .. hi /\ all[n][2] \in lo .. hi
    BY <2>1
  <2>3. QED
    BY <1>9, <2>2 DEF Pulses
<1>11. Len(all) \in Nat /\ DOMAIN all = 1 .. Len(all)
  BY <1>8
<1>12. QED
  BY <1>1, <1>10, <1>11

\* The candidates lie in the span.
LEMMA CandidatesInSpan ==
    ASSUME NEW lo, NEW hi, Span(lo, hi), NEW d, Trace(d, lo, hi)
    PROVE  Candidates(d, Idle) \in Seq(Pulses(lo, hi))
<1> DEFINE closed == SclIntervals(d, Idle).closed
           timing == estimate_scl_level_timing(closed)
           long == Chosen(closed, {n \in DOMAIN closed : TooLong(closed[n], timing)})
           each == [n \in DOMAIN long |-> IntervalPulses(long[n], n, timing[2 - long[n].level])]
           pulses == FlattenSeq(each)
<1>1. Candidates(d, Idle) = <<>> \/ Candidates(d, Idle) = pulses
  BY DEF Candidates
<1>2. closed \in Seq(Intervals(lo, hi))
  BY IntervalsInSpan
<1> HIDE DEF closed, timing
<1>3. long \in Seq(Intervals(lo, hi))
  BY <1>2, ChosenPlaces
<1> HIDE DEF long
<1>4. Len(long) \in Nat /\ DOMAIN long = 1 .. Len(long) /\ \A n \in 1 .. Len(long) : long[n] \in Intervals(lo, hi)
  BY <1>3
<1>5. \A n \in 1 .. Len(long) :
         IntervalPulses(long[n], n, timing[2 - long[n].level]) \in Seq(Pulses(lo, hi))
  <2>1. TAKE n \in 1 .. Len(long)
  <2>2. n \in Nat /\ long[n] \in Intervals(lo, hi)
    BY <1>4
  <2>3. QED
    BY <2>2, PulsesInSpan
<1>6. each \in Seq(Seq(Pulses(lo, hi)))
  BY <1>4, <1>5
<1> HIDE DEF each
<1>7. pulses \in Seq(Pulses(lo, hi))
  BY <1>6, FlattenMembers
<1> HIDE DEF pulses
<1>8. <<>> \in Seq(Pulses(lo, hi))
  OBVIOUS
<1>9. QED
  BY <1>1, <1>7, <1>8

-----------------------------------------------------------------------------

(* What the interrupt stores is a trace.                                       *)

\* A trace goes on with a sample that is not earlier.
LEMMA TraceExtended ==
    ASSUME NEW lo \in Int, NEW hi \in Int, NEW s, Trace(s, lo, hi), NEW e \in Sample, e.t \in lo .. hi,
           \A k \in 1 .. Len(s) : s[k].t <= e.t
    PROVE  Trace(Append(s, e), lo, hi)
<1> DEFINE L == Len(s)  r == Append(s, e)
<1>0. L \in Nat /\ s \in Seq(Sample) /\ e.t \in Int
  BY DEF Trace, Sample
<1>1. r \in Seq(Sample) /\ Len(r) = L + 1 /\ r[L + 1] = e /\ \A k \in 1 .. L : r[k] = s[k]
  BY <1>0
<1> HIDE DEF r
<1>2. \A k \in 1 .. L + 1 : k = L + 1 \/ k \in 1 .. L
  BY <1>0
<1>3. \A k \in 1 .. L : s[k].t >= lo /\ s[k].t <= hi
  BY DEF Trace, InSpan
<1>4. InSpan(r, lo, hi)
  BY <1>1, <1>2, <1>3 DEF InSpan
<1>5. ASSUME NEW m \in 1 .. L + 1, NEW n \in 1 .. L + 1, m <= n PROVE r[m].t <= r[n].t
  <2>1. CASE n \in 1 .. L
    <3>1. m \in 1 .. L
      BY <1>0, <1>5, <2>1
    <3>2. QED
      BY <1>1, <1>5, <2>1, <3>1 DEF Trace, Timed
  <2>2. CASE n = L + 1 /\ m \in 1 .. L
    BY <1>1, <2>2
  <2>3. CASE n = L + 1 /\ m = L + 1
    BY <1>0, <1>1, <2>3
  <2>4. QED
    BY <1>2, <2>1, <2>2, <2>3
<1>6. Timed(r)
  BY <1>1, <1>5 DEF Timed
<1>7. QED
  BY <1>1, <1>4, <1>6 DEF Trace, r

\* What the interrupt stores of a trace is a trace.
LEMMA SeenIsTrace ==
    ASSUME NEW lo \in Int, NEW hi \in Int, NEW all, Trace(all, lo, hi), NEW lost
    PROVE  Trace(Seen(all, lost), lo, hi)
<1> DEFINE L == Len(all)
<1>0. /\ L \in Nat /\ all \in Seq(Sample)
      /\ \A n \in 1 .. L : all[n] \in Sample /\ all[n].t \in Int /\ all[n].t \in lo .. hi
  <2>1. all \in Seq(Sample)
    BY DEF Trace
  <2>2. \A n \in 1 .. L : all[n] \in Sample
    BY <2>1
  <2>3. \A n \in 1 .. L : all[n].t \in Int
    BY <2>2 DEF Sample
  <2>4. QED
    BY <2>1, <2>2, <2>3 DEF Trace, InSpan
<1>1. PICK f : SeenRun(f, all, lost) /\ Seen(all, lost) = f[L]
  BY <1>0, SeenRunExists
<1> DEFINE S == {n \in 0 .. L : /\ Trace(f[n], lo, hi)
                                /\ \A k \in 1 .. Len(f[n]) : \A m \in n + 1 .. L : f[n][k].t <= all[m].t}
<1> HIDE DEF L
<1>2. 0 \in S
  <2>1. f[0] = <<>>
    BY <1>1 DEF SeenRun
  <2>2. Trace(<<>>, lo, hi) /\ Len(<<>>) = 0
    BY DEF Trace, InSpan, Timed
  <2>3. QED
    BY <1>0, <2>1, <2>2
<1>3. ASSUME NEW n \in 1 .. L, n - 1 \in S PROVE n \in S
  <2>1. f[n] = f[n - 1] \/ f[n] = Append(f[n - 1], all[n])
    BY <1>1 DEF SeenRun, SeenStep, L
  <2> DEFINE s == f[n - 1]
  <2>2. /\ Trace(s, lo, hi)
        /\ \A k \in 1 .. Len(s) : \A m \in n .. L : s[k].t <= all[m].t
    <3>1. (n - 1) + 1 = n
      OBVIOUS
    <3>2. QED
      BY <1>3, <3>1
  <2> HIDE DEF s
  <2>3. n \in n .. L /\ n + 1 .. L \subseteq n .. L /\ n \in 0 .. L
    BY <1>0
  <2>4. CASE f[n] = s
    BY <2>2, <2>3, <2>4
  <2>5. CASE f[n] = Append(s, all[n])
    <3>1. Trace(Append(s, all[n]), lo, hi)
      BY <1>0, <2>2, <2>3, TraceExtended
    <3>2. ASSUME NEW k \in 1 .. Len(s) + 1, NEW m \in n + 1 .. L
          PROVE  Append(s, all[n])[k].t <= all[m].t
      <4>0. s \in Seq(Sample) /\ Len(s) \in Nat
        BY <2>2 DEF Trace
      <4>1. CASE k \in 1 .. Len(s)
        BY <2>2, <2>3, <4>0, <4>1
      <4>2. CASE k = Len(s) + 1
        <5>1. all[n].t <= all[m].t
          <6>1. m \in 1 .. L /\ n <= m
            BY <1>0
          <6>2. QED
            BY <6>1 DEF Trace, Timed, L
        <5>2. Append(s, all[n])[k] = all[n]
          BY <4>0, <4>2
        <5>3. QED
          BY <5>1, <5>2
      <4>3. QED
        BY <4>0, <4>1, <4>2
    <3>3. Len(Append(s, all[n])) = Len(s) + 1
      BY <2>2 DEF Trace
    <3>4. QED
      BY <2>3, <2>5, <3>1, <3>2, <3>3
  <2>6. QED
    BY <2>1, <2>4, <2>5 DEF s
<1>4. L \in S
  <2> HIDE DEF S
  <2>1. 0 .. L \subseteq S
    BY <1>0, <1>2, <1>3, UpTo
  <2>2. QED
    BY <1>0, <2>1
<1>5. QED
  BY <1>1, <1>4 DEF L

\* What a wire records: samples in the order of their times.
LEMMA StampedIsTrace ==
    ASSUME NEW w, w.t \in Nat, 2 * w.t < ClockMod,
           w.samples \in Seq([t : 0 .. w.t, scl : {0, 1}, sda : {0, 1}]), Timed(w.samples),
           NEW epoch \in 0 .. ClockMod - 1, epoch + w.t < ClockMod
    PROVE  Span(epoch, epoch + w.t) /\ Trace(At(w.samples, epoch), epoch, epoch + w.t)
<1> DEFINE L == Len(w.samples)  r == At(w.samples, epoch)  x(n) == w.samples[n]
<1>0. L \in Nat /\ ClockMod \in Nat \ {0} /\ epoch \in Int
      /\ \A n \in 1 .. L : x(n) \in [t : 0 .. w.t, scl : {0, 1}, sda : {0, 1}]
  <2> DEFINE R == [t : 0 .. w.t, scl : {0, 1}, sda : {0, 1}]
  <2>1. w.samples \in Seq(R)
    OBVIOUS
  <2> HIDE DEF R
  <2>2. L \in Nat /\ \A n \in 1 .. L : x(n) \in R
    BY <2>1
  <2>3. ClockMod \in Nat \ {0}
    BY RecoveryAssumption
  <2>4. QED
    BY <2>2, <2>3 DEF R
<1>1. ASSUME NEW n \in 1 .. L
      PROVE  /\ [x(n) EXCEPT !.t = (@ + epoch) % ClockMod] \in Sample
             /\ [x(n) EXCEPT !.t = (@ + epoch) % ClockMod].t = x(n).t + epoch
             /\ x(n).t \in 0 .. w.t
  <2>1. x(n).t \in 0 .. w.t /\ x(n).scl \in {0, 1} /\ x(n).sda \in {0, 1}
        /\ x(n) = [t |-> x(n).t, scl |-> x(n).scl, sda |-> x(n).sda]
    BY <1>0
  <2> DEFINE y == x(n)
  <2> HIDE DEF y
  <2>a. y.t \in 0 .. w.t /\ y.scl \in {0, 1} /\ y.sda \in {0, 1}
        /\ y = [t |-> y.t, scl |-> y.scl, sda |-> y.sda]
    BY <2>1 DEF y
  <2>2. y.t + epoch \in Int /\ y.t + epoch >= 0 /\ y.t + epoch < ClockMod /\ y.t + epoch >= 0 - ClockMod
    BY <1>0, <2>a, SMTT(30)
  <2>3. (y.t + epoch) % ClockMod = y.t + epoch
    BY <1>0, <2>2, ModNear
  <2>4. [y EXCEPT !.t = (@ + epoch) % ClockMod] = [t |-> y.t + epoch, scl |-> y.scl, sda |-> y.sda]
    BY <2>3, <2>a, SMTT(30)
  <2>5. [t |-> y.t + epoch, scl |-> y.scl, sda |-> y.sda] \in Sample
    BY <2>1, <2>2 DEF Sample, y
  <2>6. QED
    BY <2>1, <2>4, <2>5 DEF y
<1>2. r = [n \in 1 .. L |-> [x(n) EXCEPT !.t = (@ + epoch) % ClockMod]]
  BY DEF At
<1>3. r \in Seq(Sample) /\ Len(r) = L
  <2>1. DOMAIN r = 1 .. L /\ \A n \in 1 .. L : r[n] \in Sample
    BY <1>1, <1>2
  <2>2. r = [n \in 1 .. L |-> r[n]]
    BY <1>2
  <2> HIDE DEF r, L
  <2>3. r \in Seq(Sample) /\ Len(r) = L
    BY <1>0, <2>1, <2>2, SMTT(30)
  <2>4. QED
    BY <2>3
<1>4. \A n \in 1 .. L : r[n].t = x(n).t + epoch
  BY <1>1, <1>2
<1> HIDE DEF r
<1>5. InSpan(r, epoch, epoch + w.t)
  BY <1>0, <1>1, <1>3, <1>4, SMTT(30) DEF InSpan
<1>6. Timed(r)
  BY <1>0, <1>1, <1>3, <1>4, SMTT(30) DEF Timed
<1>7. Span(epoch, epoch + w.t)
  BY <1>0 DEF Span
<1>8. QED
  BY <1>3, <1>5, <1>6, <1>7 DEF Trace, r

-----------------------------------------------------------------------------

(* The edges of the RMT record, put into the buffer and taken out again.       *)

\* Places that grow.
Growing(in) == \A i, j \in 1 .. Len(in) : i < j => in[i] < in[j]

\* The states the buffer passes through when the places in "in" are taken out of d from
\* the last to the first, down to what it was.
UndoRun(r, d, in, kept) ==
    /\ DOMAIN r = 0 .. Len(in)
    /\ r[0] = d
    /\ \A n \in 1 .. Len(in) : r[n] = RemoveAt(r[n - 1], in[Len(in) + 1 - n])
    /\ r[Len(in)] = kept

\* One more sample has been put in, at p.
LEMMA UndoNext ==
    ASSUME NEW in \in Seq(Int), NEW p \in Int, NEW r, NEW d, NEW u, NEW kept,
           UndoRun(r, d, in, kept), RemoveAt(u, p) = d
    PROVE  \E q : UndoRun(q, u, Append(in, p), kept)
<1> DEFINE L == Len(in)
           i2 == Append(in, p)
           q == [n \in 0 .. L + 1 |-> IF n = 0 THEN u ELSE r[n - 1]]
<1>0. L \in Nat /\ Len(i2) = L + 1 /\ i2[L + 1] = p /\ \A k \in 1 .. L : i2[k] = in[k]
  OBVIOUS
<1> HIDE DEF i2
<1>1. /\ DOMAIN r = 0 .. L /\ r[0] = d /\ r[L] = kept
      /\ \A n \in 1 .. L : r[n] = RemoveAt(r[n - 1], in[L + 1 - n])
  BY DEF UndoRun
<1> HIDE DEF L
<1>2. q[0] = u /\ q[L + 1] = kept /\ q[1] = d
  BY <1>0, <1>1
<1>3. ASSUME NEW n \in 1 .. L + 1 PROVE q[n] = RemoveAt(q[n - 1], i2[(L + 1) + 1 - n])
  <2>1. CASE n = 1
    <3>1. (L + 1) + 1 - n = L + 1 /\ n - 1 = 0
      BY <1>0, <2>1
    <3>2. QED
      BY <1>0, <1>2, <2>1, <3>1
  <2>2. CASE n # 1
    <3>1. n - 1 \in 1 .. L /\ (L + 1) + 1 - n = L + 1 - (n - 1) /\ L + 1 - (n - 1) \in 1 .. L
          /\ n \in 0 .. L + 1 /\ n - 1 \in 0 .. L + 1 /\ n # 0 /\ n - 1 # 0
      BY <1>0, <2>2
    <3>2. q[n] = r[n - 1] /\ q[n - 1] = r[(n - 1) - 1]
      BY <3>1
    <3>3. r[n - 1] = RemoveAt(r[(n - 1) - 1], in[L + 1 - (n - 1)])
      BY <1>1, <3>1
    <3>4. in[L + 1 - (n - 1)] = i2[(L + 1) + 1 - n]
      BY <1>0, <3>1
    <3> HIDE DEF q
    <3>5. QED
      BY <3>2, <3>3, <3>4
  <2>3. QED
    BY <2>1, <2>2
<1>4. DOMAIN q = 0 .. L + 1
  OBVIOUS
<1> HIDE DEF q
<1>5. UndoRun(q, u, i2, kept)
  BY <1>0, <1>2, <1>3, <1>4 DEF UndoRun
<1>6. QED
  BY <1>5 DEF i2

\* Taking out in the reverse of the order of insertion.
LEMMA UndoneBackwards ==
    ASSUME NEW in \in Seq(Int), NEW r, NEW d, NEW kept, UndoRun(r, d, in, kept)
    PROVE  Scan(RemoveAt, d, Reverse(in)) = kept
<1> DEFINE L == Len(in)  s == Reverse(in)
           E(g) == g = [n \in 0 .. Len(s) |-> IF n = 0 THEN {d} ELSE {RemoveAt(a, s[n]) : a \in g[n - 1]}]
           acc == CHOOSE g : E(g)
<1>0. L \in Nat /\ Len(s) = L /\ \A n \in 1 .. L : s[n] = in[L + 1 - n]
  <2>1. s = [i \in 1 .. L |-> in[(L - i) + 1]]
    BY DEF Reverse
  <2>2. L \in Nat
    OBVIOUS
  <2> HIDE DEF s, L
  <2>3. \A n \in 1 .. L : (L - n) + 1 = L + 1 - n
    BY <2>2
  <2>4. Len(s) = L
    BY <2>1, <2>2
  <2>5. \A n \in 1 .. L : s[n] = in[(L - n) + 1]
    BY <2>1
  <2>6. QED
    BY <2>2, <2>3, <2>4, <2>5
<1>1. /\ r[0] = d /\ r[L] = kept
      /\ \A n \in 1 .. L : r[n] = RemoveAt(r[n - 1], s[n])
  BY <1>0 DEF UndoRun
<1> HIDE DEF s, L
<1>2. E([n \in 0 .. L |-> {r[n]}])
  <2> DEFINE h == [n \in 0 .. L |-> {r[n]}]
  <2>1. h[0] = {d}
    BY <1>0, <1>1
  <2>2. ASSUME NEW n \in 1 .. L PROVE h[n] = {RemoveAt(a, s[n]) : a \in h[n - 1]}
    <3>1. h[n] = {r[n]} /\ h[n - 1] = {r[n - 1]}
      BY <1>0
    <3>2. r[n] = RemoveAt(r[n - 1], s[n])
      BY <1>1
    <3> HIDE DEF h
    <3>3. QED
      BY <3>1, <3>2
  <2>3. DOMAIN h = 0 .. Len(s) /\ h = [n \in DOMAIN h |-> h[n]]
    BY <1>0
  <2> HIDE DEF h
  <2>4. h = [n \in 0 .. Len(s) |-> IF n = 0 THEN {d} ELSE {RemoveAt(a, s[n]) : a \in h[n - 1]}]
    BY <1>0, <2>1, <2>2, <2>3
  <2>5. QED
    BY <2>4 DEF h
<1>3. E(acc)
  BY <1>2
<1>4. Scan(RemoveAt, d, s) = CHOOSE last \in acc[Len(s)] : TRUE
  BY DEF Scan
<1> HIDE DEF acc
<1> DEFINE T == {n \in 0 .. L : acc[n] = {r[n]}}
<1>5. 0 \in T
  BY <1>0, <1>1, <1>3
<1>6. ASSUME NEW n \in 1 .. L, n - 1 \in T PROVE n \in T
  <2> n \in 0 .. Len(s) /\ n # 0
    BY <1>0
  <2>1. acc[n] = {RemoveAt(a, s[n]) : a \in acc[n - 1]}
    BY <1>3, Zenon
  <2>2. acc[n - 1] = {r[n - 1]} /\ r[n] = RemoveAt(r[n - 1], s[n])
    BY <1>1, <1>6
  <2> HIDE DEF E
  <2>3. acc[n] = {r[n]}
    BY <2>1, <2>2
  <2>4. QED
    BY <1>0, <2>3
<1>7. acc[Len(s)] = {r[L]}
  <2> HIDE DEF T
  <2>1. 0 .. L \subseteq T
    BY <1>0, <1>5, <1>6, UpTo
  <2>2. QED
    BY <1>0, <2>1 DEF T
<1>8. QED
  BY <1>1, <1>4, <1>7 DEF s

\* Taking out the greatest place first.
LEMMA UndoneSorted ==
    ASSUME NEW in \in Seq(Int), Growing(in), NEW r, NEW d, NEW kept, UndoRun(r, d, in, kept)
    PROVE  Scan(LAMBDA a, p : GreatestRemoved(a), [data |-> d, left |-> Range(in)], in).data = kept
<1> DEFINE L == Len(in)
           Left(n) == {in[i] : i \in 1 .. L - n}
           base == [data |-> d, left |-> Range(in)]
           f == [n \in 0 .. L |-> [data |-> r[n], left |-> Left(n)]]
           E(g) == g = [n \in 0 .. L |-> IF n = 0 THEN {base} ELSE {GreatestRemoved(a) : a \in g[n - 1]}]
           acc == CHOOSE g : E(g)
<1>0. L \in Nat /\ DOMAIN in = 1 .. L /\ \A i \in 1 .. L : in[i] \in Int
  OBVIOUS
<1>1. /\ r[0] = d /\ r[L] = kept
      /\ \A n \in 1 .. L : r[n] = RemoveAt(r[n - 1], in[L + 1 - n])
  BY DEF UndoRun
<1>2. \A i, j \in 1 .. L : i < j => in[i] < in[j]
  BY DEF Growing
<1> HIDE DEF L
<1>3. f[0] = base
  <2>1. Left(0) = Range(in)
    <3>1. L - 0 = L
      BY <1>0
    <3>2. QED
      BY <1>0, <3>1 DEF Range
  <2> HIDE DEF Left
  <2>2. f[0] = [data |-> r[0], left |-> Left(0)]
    BY <1>0
  <2> HIDE DEF f
  <2>3. QED
    BY <1>1, <2>1, <2>2
<1>4. ASSUME NEW n \in 1 .. L PROVE f[n] = GreatestRemoved(f[n - 1])
  <2> DEFINE k == L + 1 - n
  <2>0. k \in 1 .. L /\ k \in Int /\ L - (n - 1) = k /\ L - n = k - 1 /\ n \in 0 .. L /\ n - 1 \in 0 .. L
    BY <1>0
  <2>1. f[n] = [data |-> r[n], left |-> Left(n)] /\ f[n - 1] = [data |-> r[n - 1], left |-> Left(n - 1)]
    BY <2>0
  <2>2. Left(n - 1) = {in[i] : i \in 1 .. k} /\ Left(n) = {in[i] : i \in 1 .. k - 1}
    BY <2>0
  <2>3. Max(Left(n - 1)) = in[k]
    <3>1. in[k] \in Left(n - 1)
      BY <2>0, <2>2
    <3>2. ASSUME NEW y \in Left(n - 1) PROVE in[k] >= y
      <4>1. PICK i \in 1 .. k : y = in[i]
        BY <2>2
      <4>2. i \in 1 .. L /\ (i < k \/ i = k)
        BY <1>0, <2>0
      <4>3. in[i] \in Int /\ in[k] \in Int
        BY <1>0, <2>0, <4>2
      <4>4. i < k => in[i] < in[k]
        BY <1>2, <2>0, <4>2
      <4>5. QED
        BY <4>1, <4>2, <4>3, <4>4
    <3>3. \A y \in Left(n - 1) : y \in Int
      BY <1>0, <2>0, <2>2
    <3> HIDE DEF Left, k
    <3>4. PICK x \in Left(n - 1) : x = Max(Left(n - 1)) /\ \A y \in Left(n - 1) : x >= y
      BY <3>1, <3>2 DEF Max
    <3>5. x >= in[k] /\ in[k] >= x /\ x \in Int /\ in[k] \in Int
      BY <3>1, <3>2, <3>3, <3>4
    <3>6. QED
      BY <3>4, <3>5
  <2>4. Left(n - 1) \ {in[k]} = Left(n)
    <3>1. ASSUME NEW i \in 1 .. k - 1 PROVE in[i] # in[k] /\ i \in 1 .. k
      <4>1. i \in 1 .. L /\ i < k
        BY <1>0, <2>0
      <4>2. in[i] < in[k] /\ in[i] \in Int /\ in[k] \in Int
        BY <1>0, <1>2, <2>0, <4>1
      <4>3. QED
        BY <2>0, <4>1, <4>2
    <3>2. \A i \in 1 .. k : i = k \/ i \in 1 .. k - 1
      BY <2>0
    <3>3. QED
      BY <2>2, <3>1, <3>2
  <2>5. r[n] = RemoveAt(r[n - 1], in[k])
    BY <1>1
  <2> HIDE DEF k, Left, f
  <2> DEFINE s == f[n - 1]
  <2>6. s.data = r[n - 1] /\ s.left = Left(n - 1)
    BY <2>1
  <2> HIDE DEF s
  <2>7. GreatestRemoved(s) = [data |-> RemoveAt(r[n - 1], in[k]), left |-> Left(n - 1) \ {in[k]}]
    BY <2>3, <2>6 DEF GreatestRemoved
  <2>8. QED
    BY <2>1, <2>4, <2>5, <2>7 DEF s
<1>5. f[L].data = kept
  BY <1>0, <1>1
<1> HIDE DEF f, base
<1>6. E([n \in 0 .. L |-> {f[n]}])
  <2> DEFINE h == [n \in 0 .. L |-> {f[n]}]
  <2>1. h[0] = {base}
    BY <1>0, <1>3
  <2>2. ASSUME NEW n \in 1 .. L PROVE h[n] = {GreatestRemoved(a) : a \in h[n - 1]}
    <3>1. h[n] = {f[n]} /\ h[n - 1] = {f[n - 1]}
      BY <1>0
    <3>2. f[n] = GreatestRemoved(f[n - 1])
      BY <1>4
    <3> HIDE DEF h
    <3>3. QED
      BY <3>1, <3>2
  <2>3. DOMAIN h = 0 .. L /\ h = [n \in DOMAIN h |-> h[n]]
    BY <1>0
  <2> HIDE DEF h
  <2>4. h = [n \in 0 .. L |-> IF n = 0 THEN {base} ELSE {GreatestRemoved(a) : a \in h[n - 1]}]
    BY <1>0, <2>1, <2>2, <2>3
  <2>5. QED
    BY <2>4 DEF h
<1>7. E(acc)
  BY <1>6
<1>8. Scan(LAMBDA a, p : GreatestRemoved(a), base, in) = CHOOSE last \in acc[L] : TRUE
  BY DEF Scan, L
<1> HIDE DEF acc
<1> DEFINE T == {n \in 0 .. L : acc[n] = {f[n]}}
<1>9. 0 \in T
  BY <1>0, <1>3, <1>7
<1>10. ASSUME NEW n \in 1 .. L, n - 1 \in T PROVE n \in T
  <2> n \in 0 .. L /\ n # 0
    BY <1>0
  <2>1. acc[n] = {GreatestRemoved(a) : a \in acc[n - 1]}
    BY <1>7, Zenon
  <2>2. acc[n - 1] = {f[n - 1]} /\ f[n] = GreatestRemoved(f[n - 1])
    BY <1>4, <1>10
  <2> HIDE DEF E
  <2>3. acc[n] = {f[n]}
    BY <2>1, <2>2
  <2>4. QED
    BY <2>3
<1>11. acc[L] = {f[L]}
  <2> HIDE DEF T
  <2>1. 0 .. L \subseteq T
    BY <1>0, <1>9, <1>10, UpTo
  <2>2. QED
    BY <1>0, <2>1 DEF T
<1> DEFINE end == Scan(LAMBDA a, p : GreatestRemoved(a), base, in)
<1>12. end = f[L]
  BY <1>8, <1>11
<1> HIDE DEF end
<1>13. end.data = kept
  BY <1>5, <1>12
<1>14. QED
  BY <1>13 DEF end, base

-----------------------------------------------------------------------------

\* The position for an RMT edge: behind the samples that are not later.
LEMMA PositionFound ==
    ASSUME NEW lo, NEW hi, Span(lo, hi), NEW d, Trace(d, lo, hi), NEW t \in lo .. hi
    PROVE  /\ PositionBehind(d, t) \in 0 .. Len(d)
           /\ \A k \in 1 .. Len(d) : k <= PositionBehind(d, t) => d[k].t <= t
           /\ \A k \in 1 .. Len(d) : k > PositionBehind(d, t) => d[k].t > t
<1> DEFINE Hits == {k \in DOMAIN d : Before(t, d[k].t)}
<1>0. Len(d) \in Nat /\ DOMAIN d = 1 .. Len(d) /\ \A k \in 1 .. Len(d) : d[k].t \in lo .. hi /\ d[k].t \in Int
  BY TraceTypes
<1>t. t \in Int
  BY RecoveryAssumption DEF Span
<1>1. \A k \in 1 .. Len(d) : k \in Hits <=> d[k].t > t
  <2>1. TAKE k \in 1 .. Len(d)
  <2>2. Before(t, d[k].t) <=> t < d[k].t
    BY <1>0, BeforeInSpan
  <2>3. QED
    BY <1>0, <1>t, <2>2
<1>2. PositionBehind(d, t) = IF Hits = {} THEN Len(d) ELSE Min(Hits) - 1
  BY DEF PositionBehind, CountBefore
<1>3. Hits \subseteq 1 .. Len(d)
  BY <1>0
<1> HIDE DEF Hits
<1>4. CASE Hits = {}
  BY <1>0, <1>t, <1>1, <1>2, <1>4
<1>5. CASE Hits # {}
  <2>0. Hits \subseteq Nat
    BY <1>0, <1>3
  <2>1. Min(Hits) \in Hits /\ \A y \in Hits : Min(Hits) <= y
    BY <2>0, <1>5, MinOfPlaces
  <2> DEFINE h == Min(Hits)
  <2>2. h \in 1 .. Len(d) /\ d[h].t > t /\ PositionBehind(d, t) = h - 1
    BY <1>1, <1>2, <1>3, <1>5, <2>1
  <2>3. \A k \in 1 .. Len(d) : k >= h => d[h].t <= d[k].t
    BY <2>2 DEF Trace, Timed
  <2>4. \A k \in 1 .. Len(d) : k < h => ~(k \in Hits)
    BY <2>1, <2>2
  <2> HIDE DEF h
  <2>5. \A k \in 1 .. Len(d) : k > h - 1 => d[k].t > t
    BY <1>0, <1>t, <2>2, <2>3
  <2>6. \A k \in 1 .. Len(d) : k <= h - 1 => d[k].t <= t
    BY <1>0, <1>t, <1>1, <2>2, <2>4
  <2>7. QED
    BY <1>0, <2>2, <2>5, <2>6
<1>6. QED
  BY <1>4, <1>5

\* A sample put in there keeps the order, and taken out again leaves what was.
LEMMA PutInAndOut ==
    ASSUME NEW lo, NEW hi, Span(lo, hi), NEW d, Trace(d, lo, hi), NEW n \in 0 .. Len(d),
           NEW e \in Sample, e.t \in lo .. hi,
           \A k \in 1 .. Len(d) : k <= n => d[k].t <= e.t,
           \A k \in 1 .. Len(d) : k > n => d[k].t > e.t
    PROVE  /\ Trace(InsertAt(d, n + 1, e), lo, hi)
           /\ RemoveAt(InsertAt(d, n + 1, e), n + 1) = d
<1> DEFINE L == Len(d)  u == InsertAt(d, n + 1, e)  w == RemoveAt(u, n + 1)
<1>0. /\ L \in Nat /\ d \in Seq(Sample) /\ lo \in Int /\ hi \in Int /\ e.t \in Int
      /\ \A k \in 1 .. L : d[k].t \in lo .. hi /\ d[k].t \in Int
  BY TraceTypes DEF Sample
<1>1. /\ u \in Seq(Sample) /\ Len(u) = L + 1 /\ u[n + 1] = e
      /\ \A k \in 1 .. n : u[k] = d[k]
      /\ \A k \in n + 1 .. L : u[k + 1] = d[k]
  <2>1. /\ u \in Seq(Sample) /\ Len(u) = L + 1
        /\ \A k \in 1 .. n : u[k] = d[k]
        /\ u[n + 1] = e
    BY <1>0, InsertPlaces
  <2>2. \A k \in n + 1 .. L : u[k + 1] = d[k]
    <3>1. ASSUME NEW x \in Sample
          PROVE  \A k \in n + 1 .. Len(d) : InsertAt(d, n + 1, x)[k + 1] = d[k]
      BY <1>0, InsertPlaces
    <3>2. QED
      BY <3>1
  <2>3. QED
    BY <2>1, <2>2
<1>2. n + 1 \in 1 .. Len(u)
  BY <1>0, <1>1
<1> HIDE DEF u
<1>3. /\ w \in Seq(Sample) /\ Len(w) = L
      /\ \A k \in 1 .. L : w[k] = IF k < n + 1 THEN u[k] ELSE u[k + 1]
  <2>1. /\ w \in Seq(Sample) /\ Len(w) = Len(u) - 1
        /\ \A k \in 1 .. Len(u) - 1 : w[k] = IF k < n + 1 THEN u[k] ELSE u[k + 1]
    BY <1>1, <1>2, RemovePlaces
  <2>2. Len(u) - 1 = L
    BY <1>0, <1>1
  <2>3. QED
    BY <2>1, <2>2
<1> HIDE DEF w
<1>4. w = d
  <2>1. \A k \in 1 .. L : w[k] = d[k]
    <3>1. \A k \in 1 .. L : k \in 1 .. n \/ (k \in n + 1 .. L /\ ~(k < n + 1))
      BY <1>0
    <3>2. \A k \in 1 .. n : k < n + 1
      BY <1>0
    <3> HIDE DEF L
    <3>3. QED
      BY <1>1, <1>3, <3>1, <3>2
  <2>2. w = [k \in 1 .. L |-> w[k]] /\ d = [k \in 1 .. L |-> d[k]]
    BY <1>0, <1>3
  <2>3. QED
    BY <2>1, <2>2
<1>5. \A k \in 1 .. L + 1 : k \in 1 .. n \/ k = n + 1 \/ (k - 1 \in n + 1 .. L /\ k = (k - 1) + 1)
  BY <1>0
<1>6. InSpan(u, lo, hi)
  <2>1. ASSUME NEW k \in 1 .. L + 1 PROVE u[k].t >= lo /\ u[k].t <= hi
    <3>1. CASE k \in 1 .. n
      <4>1. u[k] = d[k] /\ k \in 1 .. L
        BY <1>0, <1>1, <3>1
      <4>2. QED
        BY <1>0, <4>1
    <3>2. CASE k = n + 1
      BY <1>0, <1>1, <3>2
    <3>3. CASE k - 1 \in n + 1 .. L /\ k = (k - 1) + 1
      <4>1. u[k] = d[k - 1] /\ k - 1 \in 1 .. L
        BY <1>0, <1>1, <3>3
      <4>2. QED
        BY <1>0, <4>1
    <3>4. QED
      BY <1>5, <3>1, <3>2, <3>3
  <2>2. QED
    BY <1>1, <2>1 DEF InSpan
<1>7. \A k \in 1 .. L : u[k].t <= u[k + 1].t /\ u[k].t \in Int /\ u[k + 1].t \in Int
  <2>0. \A a, b \in 1 .. L : a <= b => d[a].t <= d[b].t
    BY DEF Trace, Timed
  <2>1. TAKE k \in 1 .. L
  <2>2. CASE k \in 1 .. n /\ k + 1 \in 1 .. n
    <3>1. u[k] = d[k] /\ u[k + 1] = d[k + 1] /\ k \in 1 .. L /\ k + 1 \in 1 .. L /\ k <= k + 1
      BY <1>0, <1>1, <2>2
    <3>2. d[k].t <= d[k + 1].t
      BY <2>0, <3>1
    <3>3. d[k].t \in Int /\ d[k + 1].t \in Int
      BY <1>0, <3>1
    <3>4. QED
      BY <3>1, <3>2, <3>3
  <2>3. CASE k = n
    <3>1. u[k] = d[k] /\ u[k + 1] = e /\ k \in 1 .. L
      BY <1>0, <1>1, <2>3
    <3>2. QED
      BY <1>0, <2>3, <3>1
  <2>4. CASE k = n + 1
    <3>1. u[k] = e /\ u[k + 1] = d[k] /\ k \in 1 .. L /\ k > n
      BY <1>0, <1>1, <2>4
    <3>2. QED
      BY <1>0, <3>1
  <2>5. CASE k > n + 1
    <3>1. u[k] = d[k - 1] /\ u[k + 1] = d[k] /\ k - 1 \in 1 .. L /\ k - 1 <= k
      <4>1. k - 1 \in n + 1 .. L /\ k \in n + 1 .. L /\ (k - 1) + 1 = k
        BY <1>0, <2>5
      <4>2. QED
        BY <1>0, <1>1, <4>1
    <3>2. d[k - 1].t <= d[k].t
      BY <2>0, <3>1
    <3>3. d[k - 1].t \in Int /\ d[k].t \in Int
      BY <1>0, <3>1
    <3>4. QED
      BY <3>1, <3>2, <3>3
  <2>6. QED
    BY <1>0, <2>2, <2>3, <2>4, <2>5
<1>8. Timed(u)
  <2>1. Len(u) \in Nat /\ Len(u) - 1 = L
    BY <1>0, <1>1
  <2>2. \A k \in 1 .. Len(u) : u[k].t \in Int
    <3>1. \A k \in 1 .. Len(u) : u[k] \in Sample
      BY <1>1
    <3>2. QED
      BY <3>1 DEF Sample
  <2>3. QED
    BY <1>7, <2>1, <2>2, TimedBySteps
<1>9. QED
  BY <1>1, <1>4, <1>6, <1>8 DEF Trace, u, w

\* The loop over the RMT edges: the places grow with the times, the latest of which is
\* now, and taking them out from the last to the first gives what was there before.
RmtState(s, kept, lo, hi, now) ==
    /\ s = [ok |-> s.ok, data |-> s.data, in |-> s.in]
    /\ Trace(s.data, lo, hi)
    /\ s.in \in Seq(Int) /\ Growing(s.in)
    /\ \A i \in 1 .. Len(s.in) : s.in[i] \in 1 .. Len(s.data) /\ s.data[s.in[i]].t <= now
    /\ \E r : UndoRun(r, s.data, s.in, kept)

\* A place behind all others: nothing is shifted and the places still grow.
LEMMA PlaceAdded ==
    ASSUME NEW in \in Seq(Int), Growing(in), NEW n \in Int, \A i \in 1 .. Len(in) : in[i] < n
    PROVE  /\ Shifted(in, n) = in
           /\ Append(in, n) \in Seq(Int) /\ Growing(Append(in, n))
<1> DEFINE L == Len(in)  u == Append(in, n)
<1>0. L \in Nat /\ DOMAIN in = 1 .. L /\ in = [i \in 1 .. L |-> in[i]] /\ \A i \in 1 .. L : in[i] \in Int
  OBVIOUS
<1>1. Shifted(in, n) = in
  <2>1. \A i \in 1 .. L : ~(in[i] >= n)
    BY <1>0
  <2>2. Shifted(in, n) = [i \in 1 .. L |-> IF in[i] >= n THEN in[i] + 1 ELSE in[i]]
    BY <1>0 DEF Shifted
  <2>3. QED
    BY <1>0, <2>1, <2>2
<1>2. u \in Seq(Int) /\ Len(u) = L + 1 /\ u[L + 1] = n /\ \A i \in 1 .. L : u[i] = in[i]
  BY <1>0
<1> HIDE DEF u
<1>3. ASSUME NEW i \in 1 .. L + 1, NEW j \in 1 .. L + 1, i < j PROVE u[i] < u[j]
  <2>1. i \in 1 .. L /\ (j = L + 1 \/ j \in 1 .. L)
    BY <1>0, <1>3
  <2>2. QED
    BY <1>2, <1>3, <2>1 DEF Growing
<1>4. QED
  BY <1>1, <1>2, <1>3 DEF Growing, u

\* An edge put in behind all that were put in before.
LEMMA EdgePutIn ==
    ASSUME NEW lo, NEW hi, Span(lo, hi), NEW s, NEW kept, NEW now \in Int, RmtState(s, kept, lo, hi, now),
           NEW e \in Sample, e.t \in lo .. hi, now <= e.t,
           NEW n \in 0 .. Len(s.data),
           \A k \in 1 .. Len(s.data) : k <= n => s.data[k].t <= e.t,
           \A k \in 1 .. Len(s.data) : k > n => s.data[k].t > e.t
    PROVE  RmtState([ok |-> s.ok, data |-> InsertAt(s.data, n + 1, e),
                     in |-> Append(Shifted(s.in, n + 1), n + 1)], kept, lo, hi, e.t)
<1> DEFINE d == s.data  in == s.in  L == Len(d)  u == InsertAt(d, n + 1, e)  i2 == Append(in, n + 1)
           next == [ok |-> s.ok, data |-> u, in |-> Append(Shifted(in, n + 1), n + 1)]
<1>0. /\ Trace(d, lo, hi) /\ in \in Seq(Int) /\ Growing(in)
      /\ \A i \in 1 .. Len(in) : in[i] \in 1 .. L /\ d[in[i]].t <= now
  BY DEF RmtState
<1>1. PICK r : UndoRun(r, d, in, kept)
  BY DEF RmtState
<1>2. /\ L \in Nat /\ d \in Seq(Sample) /\ lo \in Int /\ hi \in Int /\ e.t \in Int
      /\ \A k \in 1 .. L : d[k].t \in Int
  BY <1>0, TraceTypes
<1>3. /\ n \in 0 .. L
      /\ \A k \in 1 .. L : k <= n => d[k].t <= e.t
      /\ \A k \in 1 .. L : k > n => d[k].t > e.t
  OBVIOUS
<1> HIDE DEF d, in
<1>4. Trace(u, lo, hi) /\ RemoveAt(u, n + 1) = d
  BY <1>0, <1>3, PutInAndOut
<1>5. /\ Len(u) = L + 1 /\ u[n + 1] = e
      /\ \A k \in 1 .. n : u[k] = d[k]
  <2>1. Len(u) = L + 1
    BY <1>2, <1>3, InsertPlaces
  <2>2. u[n + 1] = e
    BY <1>2, <1>3, InsertPlaces
  <2>3. \A k \in 1 .. n : u[k] = d[k]
    BY <1>2, <1>3, InsertPlaces
  <2>4. QED
    BY <2>1, <2>2, <2>3
<1> HIDE DEF u, L
<1>6. \A i \in 1 .. Len(in) : in[i] \in 1 .. n /\ in[i] < n + 1
  <2>1. TAKE i \in 1 .. Len(in)
  <2>2. in[i] \in 1 .. L /\ d[in[i]].t <= now
    BY <1>0
  <2> DEFINE k == in[i]
  <2> HIDE DEF k
  <2>3. k \in 1 .. L /\ d[k].t <= now /\ d[k].t \in Int
    BY <1>2, <2>2 DEF k
  <2>4. ~(d[k].t > e.t)
    BY <1>2, <2>3
  <2>5. ~(k > n)
    BY <1>3, <2>3, <2>4
  <2>6. k \in 1 .. n /\ k < n + 1
    BY <1>2, <1>3, <2>3, <2>5
  <2>7. QED
    BY <2>6 DEF k
<1>7. n + 1 \in Int
  BY <1>2, <1>3
<1>8. Shifted(in, n + 1) = in /\ i2 \in Seq(Int) /\ Growing(i2)
  <2> DEFINE m == n + 1
  <2>1. m \in Int /\ \A i \in 1 .. Len(in) : in[i] < m
    BY <1>6, <1>7
  <2> HIDE DEF m
  <2>2. Shifted(in, m) = in /\ Append(in, m) \in Seq(Int) /\ Growing(Append(in, m))
    BY <1>0, <2>1, PlaceAdded
  <2>3. QED
    BY <2>2 DEF m
<1>9. next = [ok |-> s.ok, data |-> u, in |-> i2]
  BY <1>8
<1>10. \A i \in 1 .. Len(i2) : i2[i] \in 1 .. Len(u) /\ u[i2[i]].t <= e.t
  <2>1. TAKE i \in 1 .. Len(i2)
  <2>2. Len(in) \in Nat /\ Len(i2) = Len(in) + 1 /\ i2[Len(in) + 1] = n + 1 /\ \A k \in 1 .. Len(in) : i2[k] = in[k]
    BY <1>0, <1>7
  <2> HIDE DEF i2
  <2>3. CASE i = Len(in) + 1
    <3>1. i2[i] = n + 1 /\ n + 1 \in 1 .. Len(u)
      BY <1>2, <1>3, <1>5, <2>2, <2>3
    <3>2. u[i2[i]] = e
      BY <1>5, <3>1
    <3>3. QED
      BY <1>2, <3>1, <3>2
  <2>4. CASE i # Len(in) + 1
    <3>1. i \in 1 .. Len(in)
      BY <2>1, <2>2, <2>4
    <3> DEFINE k == in[i]
    <3>2. k \in 1 .. n /\ k \in 1 .. Len(u) /\ k \in 1 .. L
      BY <1>2, <1>3, <1>5, <1>6, <3>1
    <3>3. d[k].t <= now
      BY <1>0, <3>1 DEF L
    <3>4. i2[i] = k
      BY <2>2, <3>1
    <3> HIDE DEF k
    <3>5. u[k] = d[k] /\ d[k].t \in Int
      BY <1>2, <1>5, <3>2
    <3>6. u[k].t <= e.t
      BY <1>2, <3>3, <3>5
    <3>7. QED
      BY <3>2, <3>4, <3>6
  <2>5. QED
    BY <2>3, <2>4
<1>11. \E q : UndoRun(q, u, i2, kept)
  BY <1>0, <1>1, <1>4, <1>7, UndoNext
<1> HIDE DEF i2, next
<1>12. next.ok = s.ok /\ next.data = u /\ next.in = i2 /\ next = [ok |-> next.ok, data |-> next.data, in |-> next.in]
  BY <1>9
<1>13. RmtState(next, kept, lo, hi, e.t)
  BY <1>4, <1>8, <1>10, <1>11, <1>12 DEF RmtState
<1>14. QED
  BY <1>13 DEF next, d, in, u

\* Nothing put in.
LEMMA NoEdgePutIn ==
    ASSUME NEW lo, NEW hi, Span(lo, hi), NEW s, NEW kept, NEW now \in Int, RmtState(s, kept, lo, hi, now),
           NEW t \in Int, now <= t
    PROVE  /\ RmtState(s, kept, lo, hi, t)
           /\ \A b : RmtState([s EXCEPT !.ok = b], kept, lo, hi, t)
<1> DEFINE d == s.data  in == s.in
<1>0. /\ s = [ok |-> s.ok, data |-> d, in |-> in]
      /\ Trace(d, lo, hi) /\ in \in Seq(Int) /\ Growing(in)
      /\ \A i \in 1 .. Len(in) : in[i] \in 1 .. Len(d) /\ d[in[i]].t <= now
      /\ \E r : UndoRun(r, d, in, kept)
  BY DEF RmtState
<1>1. \A k \in 1 .. Len(d) : d[k].t \in Int
  BY <1>0, TraceTypes
<1> HIDE DEF d, in
<1>2. \A i \in 1 .. Len(in) : in[i] \in 1 .. Len(d) /\ d[in[i]].t <= t
  <2>1. TAKE i \in 1 .. Len(in)
  <2> DEFINE k == in[i]
  <2>2. k \in 1 .. Len(d) /\ d[k].t <= now
    BY <1>0
  <2> HIDE DEF k
  <2>3. d[k].t \in Int
    BY <1>1, <2>2
  <2>4. k \in 1 .. Len(d) /\ d[k].t <= t
    BY <2>2, <2>3
  <2>5. QED
    BY <2>4 DEF k
<1>3. ASSUME NEW x, x = [ok |-> x.ok, data |-> d, in |-> in] PROVE RmtState(x, kept, lo, hi, t)
  <2>1. x.data = d /\ x.in = in /\ x = [ok |-> x.ok, data |-> x.data, in |-> x.in]
    BY <1>3
  <2>2. QED
    BY <1>0, <1>2, <2>1 DEF RmtState
<1>4. ASSUME NEW b PROVE RmtState([s EXCEPT !.ok = b], kept, lo, hi, t)
  <2> DEFINE x == [s EXCEPT !.ok = b]
  <2>1. x = [ok |-> b, data |-> d, in |-> in]
    BY <1>0
  <2> HIDE DEF x
  <2>2. x = [ok |-> x.ok, data |-> d, in |-> in]
    BY <2>1
  <2>3. RmtState(x, kept, lo, hi, t)
    BY <1>3, <2>2
  <2>4. QED
    BY <2>3 DEF x
<1>5. RmtState(s, kept, lo, hi, t)
  BY <1>0, <1>3
<1>6. QED
  BY <1>4, <1>5

\* One RMT edge.
LEMMA RmtEdgeKeeps ==
    ASSUME NEW lo, NEW hi, Span(lo, hi), NEW s, NEW kept, NEW now \in Int, RmtState(s, kept, lo, hi, now),
           NEW gpio, NEW t \in Int, now <= t, t \in 0 .. ClockMod - 1 => t \in lo .. hi, NEW level \in {0, 1}
    PROVE  RmtState(InsertRmtEdge(s, Idle, gpio, t, level), kept, lo, hi, t)
<1> DEFINE pos == PositionBehind(s.data, t)
           bus == LevelAt(s.data, pos, Idle)
           e == [t |-> t, scl |-> level, sda |-> bus.sda]
           u == [ok |-> s.ok, data |-> InsertAt(s.data, pos + 1, e), in |-> Append(Shifted(s.in, pos + 1), pos + 1)]
           observed == \E n \in DOMAIN gpio :
                         gpio[n].level = level /\ Distance(gpio[n].t, t) <= RmtAlignTolerance
           failed == [s EXCEPT !.ok = FALSE]
           next == InsertRmtEdge(s, Idle, gpio, t, level)
<1>1. next = IF ~s.ok \/ t \notin 0 .. ClockMod - 1 \/ observed THEN s
             ELSE IF Len(s.in) >= RmtMaxRepairEdges THEN failed
             ELSE IF bus.scl = level THEN s
             ELSE IF Len(s.data) >= MAX_SAMPLES THEN failed
             ELSE u
  BY DEF InsertRmtEdge
<1>2. RmtState(s, kept, lo, hi, t) /\ RmtState(failed, kept, lo, hi, t)
  BY NoEdgePutIn
<1>3. ASSUME t \in 0 .. ClockMod - 1 PROVE RmtState(u, kept, lo, hi, t)
  <2>1. t \in lo .. hi /\ Trace(s.data, lo, hi)
    BY <1>3 DEF RmtState
  <2>2. /\ pos \in 0 .. Len(s.data)
        /\ \A k \in 1 .. Len(s.data) : k <= pos => s.data[k].t <= t
        /\ \A k \in 1 .. Len(s.data) : k > pos => s.data[k].t > t
    BY <2>1, PositionFound
  <2>3. bus.sda \in {0, 1}
    <3>1. CASE pos = 0
      BY <3>1 DEF LevelAt, Idle
    <3>2. CASE pos # 0
      <4>1. s.data \in Seq(Sample)
        BY <2>1 DEF Trace
      <4> HIDE DEF pos
      <4>2. s.data[pos] \in Sample
        BY <2>2, <3>2, <4>1
      <4>3. QED
        BY <3>2, <4>2 DEF LevelAt, Sample
    <3>3. QED
      BY <3>1, <3>2
  <2> HIDE DEF bus, pos
  <2>4. e \in Sample /\ e.t = t
    BY <2>3 DEF Sample
  <2> HIDE DEF e
  <2>5. e.t \in lo .. hi /\ now <= e.t
    BY <2>1, <2>4
  <2>6. /\ \A k \in 1 .. Len(s.data) : k <= pos => s.data[k].t <= e.t
        /\ \A k \in 1 .. Len(s.data) : k > pos => s.data[k].t > e.t
    BY <2>2, <2>4
  <2>7. RmtState(u, kept, lo, hi, e.t)
    BY <2>2, <2>4, <2>5, <2>6, EdgePutIn
  <2>8. QED
    BY <2>4, <2>7
<1> HIDE DEF next, failed, u, observed, bus
<1>4. next = s \/ next = failed \/ (t \in 0 .. ClockMod - 1 /\ next = u)
  BY <1>1
<1>5. RmtState(next, kept, lo, hi, t)
  BY <1>2, <1>3, <1>4
<1>6. QED
  BY <1>5 DEF next

-----------------------------------------------------------------------------

InsertStep(s, e, gpio, offset) == InsertRmtEdge(s, Idle, gpio, offset + e.us, e.level)
Inserted(base, heard, gpio, offset) ==
    Scan(LAMBDA s, e : InsertRmtEdge(s, Idle, gpio, offset + e.us, e.level), base, heard)
InsertRun(f, base, heard, gpio, offset) ==
    /\ DOMAIN f = 0 .. Len(heard)
    /\ f[0] = base
    /\ \A n \in 1 .. Len(heard) : f[n] = InsertStep(f[n - 1], heard[n], gpio, offset)

\* The states of the loop over the RMT edges.
LEMMA InsertRunExists ==
    ASSUME NEW base, NEW heard, Len(heard) \in Nat, NEW gpio, NEW offset
    PROVE  \E f : InsertRun(f, base, heard, gpio, offset) /\ Inserted(base, heard, gpio, offset) = f[Len(heard)]
<1> DEFINE L == Len(heard)
           Step(s, e) == InsertStep(s, e, gpio, offset)
           P(f, m) == /\ DOMAIN f = 0 .. m /\ f[0] = base
                      /\ \A n \in 1 .. m : f[n] = Step(f[n - 1], heard[n])
           S == {m \in 0 .. L : \E f : P(f, m)}
<1>1. 0 \in S
  <2>1. P([n \in 0 .. 0 |-> base], 0)
    OBVIOUS
  <2> HIDE DEF P
  <2>2. QED
    BY <2>1
<1>2. ASSUME NEW m \in 1 .. L, m - 1 \in S PROVE m \in S
  <2>1. PICK f : P(f, m - 1)
    BY <1>2
  <2> HIDE DEF Step
  <2> DEFINE g == [n \in 0 .. m |-> IF n < m THEN f[n] ELSE Step(f[m - 1], heard[m])]
  <2>2. P(g, m)
    BY <2>1
  <2> HIDE DEF P, g
  <2>3. QED
    BY <2>2
<1>3. L \in S
  <2> HIDE DEF S
  <2>1. 0 .. L \subseteq S
    BY <1>1, <1>2, UpTo
  <2>2. QED
    BY <2>1
<1>4. PICK f : P(f, L)
  BY <1>3
<1> HIDE DEF Step
<1> DEFINE E(g) == g = [n \in 0 .. L |-> IF n = 0 THEN {base} ELSE {Step(a, heard[n]) : a \in g[n - 1]}]
           acc == CHOOSE g : E(g)
<1>5. E([n \in 0 .. L |-> {f[n]}])
  <2> DEFINE h == [n \in 0 .. L |-> {f[n]}]
  <2>1. h[0] = {base}
    BY <1>4
  <2>2. ASSUME NEW n \in 1 .. L PROVE h[n] = {Step(a, heard[n]) : a \in h[n - 1]}
    <3>1. h[n] = {f[n]} /\ h[n - 1] = {f[n - 1]}
      OBVIOUS
    <3>2. f[n] = Step(f[n - 1], heard[n])
      BY <1>4
    <3> HIDE DEF h
    <3>3. QED
      BY <3>1, <3>2
  <2>3. DOMAIN h = 0 .. L /\ h = [n \in DOMAIN h |-> h[n]]
    OBVIOUS
  <2> HIDE DEF h
  <2>4. h = [n \in 0 .. L |-> IF n = 0 THEN {base} ELSE {Step(a, heard[n]) : a \in h[n - 1]}]
    BY <2>1, <2>2, <2>3
  <2>5. QED
    BY <2>4 DEF h
<1>6. E(acc)
  BY <1>5
<1>7. Inserted(base, heard, gpio, offset) = CHOOSE last \in acc[L] : TRUE
  BY DEF Inserted, Scan, Step, InsertStep
<1> HIDE DEF acc, S
<1> DEFINE T == {n \in 0 .. L : acc[n] = {f[n]}}
<1>8. 0 \in T
  BY <1>4, <1>6
<1>9. ASSUME NEW n \in 1 .. L, n - 1 \in T PROVE n \in T
  <2> n \in 0 .. L /\ n # 0
    OBVIOUS
  <2>1. acc[n] = {Step(a, heard[n]) : a \in acc[n - 1]}
    BY <1>6, Zenon
  <2>2. acc[n - 1] = {f[n - 1]} /\ f[n] = Step(f[n - 1], heard[n])
    BY <1>4, <1>9
  <2> HIDE DEF E, P
  <2>3. acc[n] = {f[n]}
    BY <2>1, <2>2
  <2>4. QED
    BY <2>3
<1>10. acc[L] = {f[L]}
  <2> HIDE DEF T
  <2>1. 0 .. L \subseteq T
    BY <1>8, <1>9, UpTo
  <2>2. QED
    BY <2>1 DEF T
<1>11. QED
  BY <1>4, <1>7, <1>10 DEF InsertRun, Step

\* What there is to put in: levels of SCL at times that grow, up to span.
RmtEdges(heard, span) ==
    /\ Len(heard) \in Nat /\ DOMAIN heard = 1 .. Len(heard)
    /\ \A n \in 1 .. Len(heard) : heard[n].us \in 0 .. span /\ heard[n].level \in {0, 1}
    /\ \A m, n \in 1 .. Len(heard) : m <= n => heard[m].us <= heard[n].us

\* The buffer as it is.
LEMMA NothingPutIn ==
    ASSUME NEW b, NEW d, NEW lo, NEW hi, Trace(d, lo, hi), NEW now
    PROVE  RmtState([ok |-> b, data |-> d, in |-> <<>>], d, lo, hi, now)
<1> DEFINE e == <<>>  s == [ok |-> b, data |-> d, in |-> e]  r == [n \in 0 .. 0 |-> d]
<1>1. e \in Seq(Int) /\ Len(e) = 0
  OBVIOUS
<1>2. UndoRun(r, d, e, d)
  BY <1>1 DEF UndoRun
<1>3. Growing(e)
  BY <1>1 DEF Growing
<1> HIDE DEF e, r
<1>4. s = [ok |-> s.ok, data |-> s.data, in |-> s.in] /\ s.data = d /\ s.in = e
  OBVIOUS
<1> HIDE DEF s
<1>5. RmtState(s, d, lo, hi, now)
  BY <1>1, <1>2, <1>3, <1>4 DEF RmtState
<1>6. QED
  BY <1>5 DEF s, e

\* Whatever was put in is taken out again.
LEMMA TakenOutExact ==
    ASSUME NEW s, NEW kept, NEW lo, NEW hi, NEW now, RmtState(s, kept, lo, hi, now)
    PROVE  RmtTakenOut(s) = kept
<1>1. PICK r : UndoRun(r, s.data, s.in, kept)
  BY DEF RmtState
<1>2. s.in \in Seq(Int) /\ Growing(s.in)
  BY DEF RmtState
<1>3. Scan(RemoveAt, s.data, Reverse(s.in)) = kept
  BY <1>1, <1>2, UndoneBackwards
<1>4. Scan(LAMBDA a, p : GreatestRemoved(a), [data |-> s.data, left |-> Range(s.in)], s.in).data = kept
  BY <1>1, <1>2, UndoneSorted
<1> DEFINE back == Scan(RemoveAt, s.data, Reverse(s.in))
           sorted == Scan(LAMBDA a, p : GreatestRemoved(a), [data |-> s.data, left |-> Range(s.in)], s.in).data
<1>5. RmtTakenOut(s) = IF s.ok THEN sorted ELSE back
  BY DEF RmtTakenOut
<1> HIDE DEF back, sorted
<1>6. back = kept /\ sorted = kept
  BY <1>3, <1>4 DEF back, sorted
<1>7. QED
  BY <1>5, <1>6

\* The whole loop.
LEMMA InsertedAndTakenOut ==
    ASSUME NEW lo, NEW hi, Span(lo, hi), NEW d, Trace(d, lo, hi), NEW b, NEW gpio,
           NEW heard, NEW span \in Nat, RmtEdges(heard, span), NEW offset \in Int,
           \A n \in 1 .. Len(heard) : offset + heard[n].us \in 0 .. ClockMod - 1 => offset + heard[n].us \in lo .. hi
    PROVE  RmtTakenOut(Inserted([ok |-> b, data |-> d, in |-> <<>>], heard, gpio, offset)) = d
<1> DEFINE L == Len(heard)  base == [ok |-> b, data |-> d, in |-> <<>>]
           Now(n) == offset + heard[n].us
           end == Inserted(base, heard, gpio, offset)
<1>1. L \in Nat /\ \A n \in 1 .. L : heard[n].us \in Int /\ heard[n].level \in {0, 1} /\ Now(n) \in Int
  BY DEF RmtEdges
<1>2. PICK f : InsertRun(f, base, heard, gpio, offset) /\ end = f[L]
  <2> HIDE DEF base
  <2>1. Len(heard) \in Nat
    BY <1>1
  <2>2. QED
    BY <2>1, InsertRunExists
<1>3. f[0] = base /\ \A n \in 1 .. L : f[n] = InsertRmtEdge(f[n - 1], Idle, gpio, Now(n), heard[n].level)
  BY <1>2 DEF InsertRun, InsertStep
<1> HIDE DEF end
<1>4. \A now : RmtState(base, d, lo, hi, now)
  BY NothingPutIn
<1> HIDE DEF base
<1>5. \A m, n \in 1 .. L : m <= n => Now(m) <= Now(n)
  <2>1. \A m, n \in 1 .. L : m <= n => heard[m].us <= heard[n].us
    BY DEF RmtEdges
  <2>2. ASSUME NEW m \in 1 .. L, NEW n \in 1 .. L, m <= n PROVE Now(m) <= Now(n)
    <3>1. heard[m].us \in Int /\ heard[n].us \in Int /\ heard[m].us <= heard[n].us
      BY <1>1, <2>1, <2>2
    <3>2. QED
      BY <3>1
  <2>3. QED
    BY <2>2
<1>6. \A n \in 1 .. L : Now(n) \in 0 .. ClockMod - 1 => Now(n) \in lo .. hi
  OBVIOUS
<1> HIDE DEF Now, L
<1> DEFINE S == {n \in 0 .. L : \A m \in 1 .. L : n = 0 \/ m = n => RmtState(f[n], d, lo, hi, Now(m))}
<1>7. 0 \in S
  BY <1>1, <1>3, <1>4
<1>8. ASSUME NEW n \in 1 .. L, n - 1 \in S PROVE n \in S
  <2> DEFINE k == IF n = 1 THEN 1 ELSE n - 1
  <2>1. k \in 1 .. L /\ k <= n /\ (n - 1 = 0 \/ k = n - 1)
    BY <1>1
  <2>2. RmtState(f[n - 1], d, lo, hi, Now(k))
    BY <1>8, <2>1
  <2>3. /\ Now(k) \in Int /\ Now(n) \in Int /\ Now(k) <= Now(n)
        /\ heard[n].level \in {0, 1} /\ (Now(n) \in 0 .. ClockMod - 1 => Now(n) \in lo .. hi)
    BY <1>1, <1>5, <1>6, <2>1
  <2> HIDE DEF k, S
  <2>4. RmtState(InsertRmtEdge(f[n - 1], Idle, gpio, Now(n), heard[n].level), d, lo, hi, Now(n))
    BY <2>2, <2>3, RmtEdgeKeeps
  <2>5. RmtState(f[n], d, lo, hi, Now(n))
    BY <1>3, <2>4
  <2>6. n # 0 /\ n \in 0 .. L
    BY <1>1
  <2>7. QED
    BY <2>5, <2>6 DEF S
<1>9. L \in S
  <2> HIDE DEF S
  <2>1. 0 .. L \subseteq S
    BY <1>1, <1>7, <1>8, UpTo
  <2>2. QED
    BY <1>1, <2>1
<1>10. \E now : RmtState(f[L], d, lo, hi, now)
  <2>1. CASE L = 0
    BY <1>3, <1>4, <2>1
  <2>2. CASE L # 0
    <3>1. L \in 1 .. L
      BY <1>1, <2>2
    <3>2. QED
      BY <1>9, <3>1
  <2>3. QED
    BY <2>1, <2>2
<1>11. RmtTakenOut(f[L]) = d
  BY <1>10, TakenOutExact
<1>12. QED
  BY <1>2, <1>11 DEF end, base

-----------------------------------------------------------------------------

\* The edges of SCL in a trace: levels at times that grow.
LEMMA SclEdges ==
    ASSUME NEW lo \in Int, NEW hi \in Int, NEW d, Trace(d, lo, hi)
    PROVE  LET edges == GpioSclEdges(d, Idle)
           IN /\ Len(edges) \in Nat /\ DOMAIN edges = 1 .. Len(edges)
              /\ \A n \in 1 .. Len(edges) : edges[n].t \in lo .. hi /\ edges[n].level \in {0, 1}
              /\ \A m, n \in 1 .. Len(edges) : m <= n => edges[m].t <= edges[n].t
<1> DEFINE places == [k \in DOMAIN d |-> k]
           changes == Chosen(places, {k \in DOMAIN d : LevelAt(d, k - 1, Idle).scl # d[k].scl})
           edges == GpioSclEdges(d, Idle)
<1>0. /\ Len(d) \in Nat /\ DOMAIN d = 1 .. Len(d)
      /\ \A k \in 1 .. Len(d) : d[k] \in Sample /\ d[k].t >= lo /\ d[k].t <= hi
      /\ \A m, n \in 1 .. Len(d) : m <= n => d[m].t <= d[n].t
  <2>1. d \in Seq(Sample)
    BY DEF Trace
  <2>2. QED
    BY <2>1 DEF Trace, InSpan, Timed
<1>1. edges = [n \in DOMAIN changes |-> [t |-> d[changes[n]].t, level |-> d[changes[n]].scl]]
  BY DEF GpioSclEdges
<1>2. places \in Seq(1 .. Len(d)) /\ Len(places) = Len(d) /\ \A k \in 1 .. Len(d) : places[k] = k
  BY <1>0
<1> HIDE DEF edges, places
<1>3. changes \in Seq(1 .. Len(d)) /\ \E pl : PlacesOf(pl, changes, places, Len(places))
  BY <1>2, ChosenPlaces
<1> HIDE DEF changes
<1>4. PICK pl : PlacesOf(pl, changes, places, Len(places))
  BY <1>3
<1> DEFINE L == Len(changes)
<1>5. /\ L \in Nat /\ DOMAIN changes = 1 .. L
      /\ \A n \in 1 .. L : changes[n] \in 1 .. Len(d)
      /\ \A m, n \in 1 .. L : m < n => changes[m] < changes[n]
  <2>1. L \in Nat /\ DOMAIN changes = 1 .. L
    BY <1>3
  <2>2. /\ \A n \in 1 .. L : pl[n] \in 1 .. Len(d) /\ changes[n] = places[pl[n]]
        /\ \A m, n \in 1 .. L : m < n => pl[m] < pl[n]
    BY <1>2, <1>4 DEF PlacesOf
  <2>3. \A n \in 1 .. L : changes[n] = pl[n]
    BY <1>2, <2>2
  <2>4. QED
    BY <2>1, <2>2, <2>3
<1> HIDE DEF L
<1>6. Len(edges) = L /\ DOMAIN edges = 1 .. L
      /\ \A n \in 1 .. L : edges[n].t = d[changes[n]].t /\ edges[n].level = d[changes[n]].scl
  BY <1>1, <1>5
<1>7. \A n \in 1 .. L : edges[n].t \in lo .. hi /\ edges[n].level \in {0, 1}
  <2>1. TAKE n \in 1 .. L
  <2> DEFINE k == changes[n]
  <2>2. k \in 1 .. Len(d)
    BY <1>5
  <2>3. edges[n].t = d[k].t /\ edges[n].level = d[k].scl
    BY <1>6
  <2> HIDE DEF k
  <2>4. d[k].t \in Int /\ d[k].scl \in {0, 1} /\ d[k].t >= lo /\ d[k].t <= hi
    BY <1>0, <2>2 DEF Sample
  <2>5. QED
    BY <2>3, <2>4
<1>8. \A m, n \in 1 .. L : m <= n => edges[m].t <= edges[n].t
  <2>1. TAKE m, n \in 1 .. L
  <2>2. HAVE m <= n
  <2>3. changes[m] \in 1 .. Len(d) /\ changes[n] \in 1 .. Len(d) /\ changes[m] <= changes[n]
    BY <1>5, <2>2
  <2>4. d[changes[m]].t <= d[changes[n]].t
    BY <1>0, <2>3
  <2>5. QED
    BY <1>6, <2>4
<1>9. QED
  BY <1>5, <1>6, <1>7, <1>8 DEF edges

\* The durations the receiver has of them.
LEMMA HalvesOf ==
    ASSUME NEW w, NEW lo \in Int, NEW hi \in Int, Trace(w, lo, hi)
    PROVE  LET edges == GpioSclEdges(w, Idle)
               halves == RmtHalves(w)
           IN /\ Len(halves) = Len(edges)
              /\ \A n \in 1 .. Len(edges) :
                   /\ halves[n].level = edges[n].level
                   /\ halves[n].ticks = IF n = Len(edges) THEN 0 ELSE 5 * (edges[n + 1].t - edges[n].t)
<1> DEFINE edges == GpioSclEdges(w, Idle)  L == Len(edges)  halves == RmtHalves(w)
<1>1. L \in Nat /\ DOMAIN edges = 1 .. L
  BY SclEdges
<1>2. halves = [n \in DOMAIN edges |->
                  [level |-> edges[n].level,
                   ticks |-> IF n = Len(edges) THEN 0 ELSE 5 * (edges[n + 1].t - edges[n].t)]]
  BY DEF RmtHalves
<1> HIDE DEF halves, edges
<1>3. Len(halves) = L /\ \A n \in 1 .. L : /\ halves[n].level = edges[n].level
                   /\ halves[n].ticks = IF n = Len(edges) THEN 0 ELSE 5 * (edges[n + 1].t - edges[n].t)
  <2> DEFINE ticks(n) == IF n = Len(edges) THEN 0 ELSE 5 * (edges[n + 1].t - edges[n].t)
  <2>1. halves = [n \in 1 .. L |-> [level |-> edges[n].level, ticks |-> ticks(n)]]
    BY <1>1, <1>2
  <2> HIDE DEF ticks, L
  <2>2. Len(halves) = L /\ \A n \in 1 .. L : halves[n].level = edges[n].level /\ halves[n].ticks = ticks(n)
    BY <1>1, <2>1
  <2>3. QED
    BY <2>2 DEF ticks
<1>4. QED
  BY <1>3 DEF halves, edges

BuildStep(a, h) ==
    IF h.ticks = 0 THEN a
    ELSE [t |-> a.t + h.ticks,
          edges |-> IF a.edges # <<>> /\ Last(a.edges).level = h.level THEN a.edges
                    ELSE Append(a.edges, [us |-> RmtMicroseconds(a.t), level |-> h.level])]
BuildRun(f, halves) ==
    /\ f[0] = [t |-> 0, edges |-> <<>>]
    /\ \A n \in 1 .. Len(halves) : f[n] = BuildStep(f[n - 1], halves[n])

\* The states of the loop over the receiver's durations.
LEMMA BuildRunExists ==
    ASSUME NEW halves, Len(halves) \in Nat
    PROVE  \E f : BuildRun(f, halves) /\ build_rmt_scl_edges(halves) = f[Len(halves)].edges
<1> DEFINE L == Len(halves)
           base == [t |-> 0, edges |-> <<>>]
           P(f, m) == /\ DOMAIN f = 0 .. m /\ f[0] = base
                      /\ \A n \in 1 .. m : f[n] = BuildStep(f[n - 1], halves[n])
           S == {m \in 0 .. L : \E f : P(f, m)}
<1>1. 0 \in S
  <2> HIDE DEF base
  <2>1. P([n \in 0 .. 0 |-> base], 0)
    OBVIOUS
  <2> HIDE DEF P
  <2>2. QED
    BY <2>1
<1>2. ASSUME NEW m \in 1 .. L, m - 1 \in S PROVE m \in S
  <2>1. PICK f : P(f, m - 1)
    BY <1>2
  <2> HIDE DEF base
  <2> DEFINE g == [n \in 0 .. m |-> IF n < m THEN f[n] ELSE BuildStep(f[m - 1], halves[m])]
  <2>2. P(g, m)
    BY <2>1
  <2> HIDE DEF P, g
  <2>3. QED
    BY <2>2
<1>3. L \in S
  <2> HIDE DEF S
  <2>1. 0 .. L \subseteq S
    BY <1>1, <1>2, UpTo
  <2>2. QED
    BY <2>1
<1>4. PICK f : P(f, L)
  BY <1>3
<1> DEFINE E(g) == g = [n \in 0 .. L |-> IF n = 0 THEN {base} ELSE {BuildStep(a, halves[n]) : a \in g[n - 1]}]
           acc == CHOOSE g : E(g)
           end == CHOOSE last \in acc[L] : TRUE
<1>a. build_rmt_scl_edges(halves) = end.edges
  BY DEF build_rmt_scl_edges, Scan, BuildStep
<1> HIDE DEF base, end
<1>5. E([n \in 0 .. L |-> {f[n]}])
  <2> DEFINE h == [n \in 0 .. L |-> {f[n]}]
  <2>1. h[0] = {base}
    BY <1>4
  <2>2. ASSUME NEW n \in 1 .. L PROVE h[n] = {BuildStep(a, halves[n]) : a \in h[n - 1]}
    <3>1. h[n] = {f[n]} /\ h[n - 1] = {f[n - 1]}
      OBVIOUS
    <3>2. f[n] = BuildStep(f[n - 1], halves[n])
      BY <1>4
    <3> HIDE DEF h
    <3>3. QED
      BY <3>1, <3>2
  <2>3. DOMAIN h = 0 .. L /\ h = [n \in DOMAIN h |-> h[n]]
    OBVIOUS
  <2> HIDE DEF h
  <2>4. h = [n \in 0 .. L |-> IF n = 0 THEN {base} ELSE {BuildStep(a, halves[n]) : a \in h[n - 1]}]
    <3>1. \A n \in 0 .. L : n = 0 \/ n \in 1 .. L
      OBVIOUS
    <3> HIDE DEF L
    <3>2. QED
      BY <2>1, <2>2, <2>3, <3>1
  <2>5. QED
    BY <2>4 DEF h
<1>6. E(acc)
  BY <1>5
<1> HIDE DEF acc, S
<1> DEFINE T == {n \in 0 .. L : acc[n] = {f[n]}}
<1>8. 0 \in T
  BY <1>4, <1>6
<1>9. ASSUME NEW n \in 1 .. L, n - 1 \in T PROVE n \in T
  <2> n \in 0 .. L /\ n # 0
    OBVIOUS
  <2>1. acc[n] = {BuildStep(a, halves[n]) : a \in acc[n - 1]}
    BY <1>6, Zenon
  <2>2. acc[n - 1] = {f[n - 1]} /\ f[n] = BuildStep(f[n - 1], halves[n])
    BY <1>4, <1>9
  <2> HIDE DEF E, P
  <2>3. acc[n] = {f[n]}
    BY <2>1, <2>2
  <2>4. QED
    BY <2>3
<1>10. acc[L] = {f[L]}
  <2> HIDE DEF T
  <2>1. 0 .. L \subseteq T
    BY <1>8, <1>9, UpTo
  <2>2. QED
    BY <2>1 DEF T
<1>11. end = f[L]
  BY <1>10 DEF end
<1>12. BuildRun(f, halves)
  BY <1>4 DEF BuildRun, base
<1>13. QED
  BY <1>a, <1>11, <1>12

\* Ticks of a fifth of a microsecond, rounded.
LEMMA WholeMicroseconds ==
    ASSUME NEW x \in Nat
    PROVE  RmtMicroseconds(5 * x) = x
<1>1. (2 * (5 * x) + 5) \div 10 = x
  OBVIOUS
<1>2. QED
  BY <1>1 DEF RmtMicroseconds

\* One more edge, at the end.
LEMMA EdgeListed ==
    ASSUME NEW x \in Nat, NEW y \in Nat, x <= y, NEW s \in Seq([us : Int, level : {0, 1}]), RmtEdges(s, x),
           NEW level \in {0, 1}
    PROVE  /\ RmtEdges(s, y)
           /\ Append(s, [us |-> x, level |-> level]) \in Seq([us : Int, level : {0, 1}])
           /\ RmtEdges(Append(s, [us |-> x, level |-> level]), y)
<1> DEFINE A == [us : Int, level : {0, 1}]
           e == [us |-> x, level |-> level]
           L == Len(s)  u == Append(s, e)
<1>1. e \in A /\ e.us = x /\ e.level = level
  OBVIOUS
<1>2. /\ L \in Nat /\ DOMAIN s = 1 .. L
      /\ \A n \in 1 .. L : s[n].us \in Int /\ s[n].us >= 0 /\ s[n].us <= x /\ s[n].level \in {0, 1}
      /\ \A m, n \in 1 .. L : m <= n => s[m].us <= s[n].us
  BY DEF RmtEdges
<1> HIDE DEF e, A
<1>3. u \in Seq(A) /\ Len(u) = L + 1 /\ DOMAIN u = 1 .. L + 1 /\ u[L + 1] = e /\ \A n \in 1 .. L : u[n] = s[n]
  BY <1>1 DEF A
<1> HIDE DEF u, L
<1>4. RmtEdges(s, y)
  BY <1>2 DEF RmtEdges, L
<1>5. \A n \in 1 .. L + 1 : u[n].us \in 0 .. y /\ u[n].level \in {0, 1}
  <2>1. TAKE n \in 1 .. L + 1
  <2>2. CASE n \in 1 .. L
    <3>1. u[n] = s[n]
      BY <1>3, <2>2
    <3>2. s[n].us \in Int /\ s[n].us >= 0 /\ s[n].us <= x /\ s[n].level \in {0, 1}
      BY <1>2, <2>2
    <3> DEFINE z == s[n]
    <3> HIDE DEF z
    <3>3. z.us \in 0 .. y /\ z.level \in {0, 1}
      BY <3>2 DEF z
    <3>4. QED
      BY <3>1, <3>3 DEF z
  <2>3. CASE n = L + 1
    BY <1>1, <1>3, <2>3
  <2>4. QED
    BY <1>2, <2>2, <2>3
<1>6. \A m, n \in 1 .. L + 1 : m <= n => u[m].us <= u[n].us
  <2>1. TAKE m, n \in 1 .. L + 1
  <2>2. HAVE m <= n
  <2>3. CASE n \in 1 .. L
    <3>1. m \in 1 .. L
      BY <1>2, <2>2, <2>3
    <3>2. QED
      BY <1>2, <1>3, <2>2, <2>3, <3>1
  <2>4. CASE n = L + 1 /\ m \in 1 .. L
    BY <1>1, <1>2, <1>3, <2>4
  <2>5. CASE n = L + 1 /\ m = L + 1
    BY <1>1, <1>3, <2>5
  <2>6. QED
    BY <1>2, <2>3, <2>4, <2>5
<1>7. RmtEdges(u, y)
  BY <1>2, <1>3, <1>5, <1>6 DEF RmtEdges
<1>8. QED
  BY <1>3, <1>4, <1>7 DEF u, e, A

\* What is built of the durations of a trace's edges.
LEMMA EdgesBuilt ==
    ASSUME NEW w, NEW lo \in Int, NEW hi \in Int, lo <= hi, Trace(w, lo, hi)
    PROVE  RmtEdges(build_rmt_scl_edges(RmtHalves(w)), hi - lo)
<1> DEFINE edges == GpioSclEdges(w, Idle)  halves == RmtHalves(w)  L == Len(edges)
           A == [us : Int, level : {0, 1}]
           Span0 == hi - lo
           \* how far the receiver is after n of them, and what it has listed
           Reached(n, x) == x \in 0 .. Span0 /\ (n < L => x = edges[n + 1].t - edges[1].t)
           State(s, n) == \E x : /\ Reached(n, x) /\ s.t = 5 * x
                                 /\ s.edges \in Seq(A) /\ RmtEdges(s.edges, x)
<1>0. Span0 \in Nat
  OBVIOUS
<1>1. /\ L \in Nat
      /\ \A n \in 1 .. L : edges[n].t \in Int /\ edges[n].t >= lo /\ edges[n].t <= hi /\ edges[n].level \in {0, 1}
      /\ \A m, n \in 1 .. L : m <= n => edges[m].t <= edges[n].t
  <2>1. /\ L \in Nat
        /\ \A n \in 1 .. L : edges[n].t \in lo .. hi /\ edges[n].level \in {0, 1}
        /\ \A m, n \in 1 .. L : m <= n => edges[m].t <= edges[n].t
    BY SclEdges
  <2> HIDE DEF edges, L
  <2>2. \A n \in 1 .. L : edges[n].t \in Int /\ edges[n].t >= lo /\ edges[n].t <= hi /\ edges[n].level \in {0, 1}
    BY <2>1
  <2>3. QED
    BY <2>1, <2>2
<1>2. /\ Len(halves) = L
      /\ \A n \in 1 .. L : /\ halves[n].level = edges[n].level
                           /\ halves[n].ticks = IF n = L THEN 0 ELSE 5 * (edges[n + 1].t - edges[n].t)
  BY HalvesOf
<1> HIDE DEF edges, halves, L
<1>3. PICK f : BuildRun(f, halves) /\ build_rmt_scl_edges(halves) = f[L].edges
  <2>1. Len(halves) \in Nat
    BY <1>1, <1>2
  <2>2. QED
    BY <1>2, <2>1, BuildRunExists
<1>4. f[0] = [t |-> 0, edges |-> <<>>] /\ \A n \in 1 .. L : f[n] = BuildStep(f[n - 1], halves[n])
  BY <1>2, <1>3 DEF BuildRun
<1> DEFINE S == {n \in 0 .. L : State(f[n], n)}
<1>5. 0 \in S
  <2> DEFINE e == <<>>
  <2>1. f[0].t = 0 /\ f[0].edges = e
    BY <1>4
  <2>2. e \in Seq(A) /\ Len(e) = 0 /\ DOMAIN e = 1 .. 0
    OBVIOUS
  <2> HIDE DEF e, A
  <2>3. RmtEdges(e, 0)
    BY <2>2 DEF RmtEdges
  <2>4. Reached(0, 0)
    <3>1. 0 < L => edges[0 + 1].t - edges[1].t = 0
      <4>1. 0 < L => edges[1].t \in Int
        BY <1>1
      <4>2. QED
        BY <4>1
    <3>2. QED
      BY <1>0, <3>1
  <2> HIDE DEF Reached
  <2>5. State(f[0], 0)
    <3>1. f[0].t = 5 * 0
      BY <2>1
    <3>2. QED
      BY <2>1, <2>2, <2>3, <2>4, <3>1
  <2> HIDE DEF State
  <2>6. QED
    BY <1>1, <2>5
<1>6. ASSUME NEW n \in 1 .. L, n - 1 \in S PROVE n \in S
  <2> DEFINE a == f[n - 1]  h == halves[n]
  <2>1. PICK x : /\ Reached(n - 1, x) /\ a.t = 5 * x
                 /\ a.edges \in Seq(A) /\ RmtEdges(a.edges, x)
    BY <1>6
  <2>2. f[n] = BuildStep(a, h) /\ h.level \in {0, 1}
    BY <1>1, <1>2, <1>4
  <2>3. x \in Nat /\ x \in 0 .. Span0 /\ x = edges[n].t - edges[1].t
    BY <1>0, <1>1, <2>1
  <2>n. n \in 0 .. L /\ n \in Int
    BY <1>1
  <2> HIDE DEF A, Span0
  <2>4. CASE n = L
    <3>1. h.ticks = 0
      BY <1>2, <2>4
    <3>2. f[n] = a
      BY <2>2, <3>1 DEF BuildStep
    <3>3. Reached(n, x)
      BY <2>3, <2>4
    <3> HIDE DEF Reached
    <3>4. State(f[n], n)
      BY <2>1, <3>2, <3>3
    <3> HIDE DEF State
    <3>5. QED
      BY <2>n, <3>4
  <2>5. CASE n # L
    <3> DEFINE y == edges[n + 1].t - edges[1].t
    <3>1. /\ n + 1 \in 1 .. L /\ n \in 1 .. L /\ 1 \in 1 .. L /\ n <= n + 1
          /\ edges[n + 1].t \in Int /\ edges[n].t \in Int /\ edges[1].t \in Int
          /\ edges[n].t <= edges[n + 1].t /\ edges[1].t >= lo /\ edges[n + 1].t <= hi
      <4>1. n + 1 \in 1 .. L /\ 1 \in 1 .. L /\ n <= n + 1
        BY <1>1, <2>5, <2>n
      <4>2. QED
        BY <1>1, <4>1
    <3>2. h.ticks = 5 * (edges[n + 1].t - edges[n].t)
      BY <1>2, <2>5
    <3>3. y \in Nat /\ x <= y /\ y <= hi - lo /\ h.ticks = 5 * y - 5 * x
      BY <2>3, <3>1, <3>2
    <3>4. Reached(n, y)
      <4>1. y \in 0 .. Span0
        BY <1>0, <3>3 DEF Span0
      <4>2. QED
        BY <4>1
    <3> HIDE DEF y, Reached
    <3>5. CASE h.ticks = 0
      <4>1. f[n] = a /\ y = x
        BY <2>2, <2>3, <3>3, <3>5 DEF BuildStep
      <4>2. State(f[n], n)
        BY <2>1, <3>4, <4>1
      <4> HIDE DEF State
      <4>3. QED
        BY <2>n, <4>2
    <3>6. CASE h.ticks # 0
      <4> DEFINE e == [us |-> x, level |-> h.level]
                 listed == IF a.edges # <<>> /\ Last(a.edges).level = h.level THEN a.edges
                           ELSE Append(a.edges, [us |-> RmtMicroseconds(a.t), level |-> h.level])
      <4>1. f[n] = [t |-> a.t + h.ticks, edges |-> listed]
        BY <2>2, <3>6 DEF BuildStep
      <4>2. RmtMicroseconds(a.t) = x
        BY <2>1, <2>3, WholeMicroseconds
      <4>3. listed = a.edges \/ listed = Append(a.edges, e)
        BY <4>2
      <4>4. /\ RmtEdges(a.edges, y)
            /\ Append(a.edges, e) \in Seq(A) /\ RmtEdges(Append(a.edges, e), y)
        <5>1. a.edges \in Seq([us : Int, level : {0, 1}])
          BY <2>1 DEF A
        <5> HIDE DEF a, h
        <5>2. QED
          BY <2>1, <2>2, <2>3, <3>3, <5>1, EdgeListed DEF A
      <4> HIDE DEF listed, e
      <4>5. f[n].edges \in Seq(A) /\ RmtEdges(f[n].edges, y)
        <5>1. f[n].edges = listed
          BY <4>1
        <5>2. listed \in Seq(A) /\ RmtEdges(listed, y)
          <6> HIDE DEF a
          <6>1. QED
            BY <2>1, <4>3, <4>4
        <5>3. QED
          BY <5>1, <5>2
      <4>6. f[n].t = 5 * y
        <5>1. f[n].t = a.t + h.ticks
          BY <4>1
        <5>2. QED
          BY <2>1, <2>3, <3>3, <5>1
      <4>7. State(f[n], n)
        BY <3>4, <4>5, <4>6
      <4> HIDE DEF State
      <4>8. QED
        BY <2>n, <4>7
    <3>7. QED
      BY <3>5, <3>6
  <2>6. QED
    BY <2>4, <2>5
<1>7. L \in S
  <2> HIDE DEF S
  <2>1. 0 .. L \subseteq S
    BY <1>1, <1>5, <1>6, UpTo
  <2>2. QED
    BY <1>1, <2>1
<1>8. RmtEdges(f[L].edges, Span0)
  <2>1. PICK x : x \in 0 .. Span0 /\ RmtEdges(f[L].edges, x) /\ f[L].edges \in Seq(A)
    BY <1>7
  <2>2. x \in Nat /\ x <= Span0
    BY <1>0, <2>1
  <2> HIDE DEF Span0
  <2>3. 0 \in {0, 1}
    OBVIOUS
  <2>4. QED
    BY <1>0, <2>1, <2>2, <2>3, EdgeListed DEF A
<1>9. QED
  BY <1>3, <1>8 DEF halves

-----------------------------------------------------------------------------

\* The alignment comes from an edge of each list, unless no edge agrees.
Aligned(best, gpio, heard) ==
    best.score = 0 \/ \E g \in DOMAIN gpio, r \in DOMAIN heard : best.offset = gpio[g].t - heard[r].us
AlignStep(best, n, gpio, heard) ==
    IF (n.g \in DOMAIN gpio /\ n.r \in DOMAIN heard /\ gpio[n.g].level = heard[n.r].level)
       /\ (AlignmentScore(gpio, heard, gpio[n.g].t - heard[n.r].us) > best.score
           \/ (AlignmentScore(gpio, heard, gpio[n.g].t - heard[n.r].us) = best.score /\ n.r <= 2))
    THEN [score |-> AlignmentScore(gpio, heard, gpio[n.g].t - heard[n.r].us), offset |-> gpio[n.g].t - heard[n.r].us]
    ELSE best

\* Each pair of first edges keeps it so.
LEMMA StepAligns ==
    ASSUME NEW gpio, NEW heard, NEW best, NEW n, Aligned(best, gpio, heard)
    PROVE  Aligned(AlignStep(best, n, gpio, heard), gpio, heard)
<1> DEFINE score == AlignmentScore(gpio, heard, gpio[n.g].t - heard[n.r].us)
           offset == gpio[n.g].t - heard[n.r].us
           new == [score |-> score, offset |-> offset]
           next == AlignStep(best, n, gpio, heard)
<1>1. next = best \/ (n.g \in DOMAIN gpio /\ n.r \in DOMAIN heard /\ next = new)
  BY DEF AlignStep
<1>2. new.offset = gpio[n.g].t - heard[n.r].us
  <2> HIDE DEF score
  <2>1. new.offset = offset
    OBVIOUS
  <2>2. QED
    BY <2>1
<1> HIDE DEF new, next
<1>3. Aligned(next, gpio, heard)
  BY <1>1, <1>2 DEF Aligned
<1>4. QED
  BY <1>3 DEF next

\* Whatever edges the two lists hold.
LEMMA AlignmentFound ==
    ASSUME NEW gpio, NEW heard
    PROVE  Aligned(RmtAlignment(gpio, heard), gpio, heard)
<1> DEFINE seeds == [n \in 1 .. 36 |-> [g |-> (n + 5) \div 6, r |-> ((n - 1) % 6) + 1]]
           L == Len(seeds)
           base == [score |-> 0, offset |-> 0]
           Step(a, n) == AlignStep(a, n, gpio, heard)
           P(f, m) == /\ DOMAIN f = 0 .. m /\ f[0] = base
                      /\ \A n \in 1 .. m : f[n] = Step(f[n - 1], seeds[n])
           S == {m \in 0 .. L : \E f : P(f, m)}
           E(g) == g = [n \in 0 .. L |-> IF n = 0 THEN {base} ELSE {Step(a, seeds[n]) : a \in g[n - 1]}]
           acc == CHOOSE g : E(g)
<1>0. L \in Nat
  BY DEF seeds
<1>1. RmtAlignment(gpio, heard) = CHOOSE last \in acc[L] : TRUE
  BY DEF RmtAlignment, Scan, AlignStep
<1>2. Aligned(base, gpio, heard)
  <2>1. base.score = 0
    OBVIOUS
  <2>2. QED
    BY <2>1 DEF Aligned
<1> HIDE DEF seeds, base, Step, L
<1>3. 0 \in S
  <2>1. P([n \in 0 .. 0 |-> base], 0)
    OBVIOUS
  <2> HIDE DEF P
  <2>2. QED
    BY <1>0, <2>1
<1>4. ASSUME NEW m \in 1 .. L, m - 1 \in S PROVE m \in S
  <2>1. PICK f : P(f, m - 1)
    BY <1>4
  <2> DEFINE g == [n \in 0 .. m |-> IF n < m THEN f[n] ELSE Step(f[m - 1], seeds[m])]
  <2>2. P(g, m)
    BY <2>1
  <2> HIDE DEF P, g
  <2>3. QED
    BY <1>0, <2>2
<1>5. L \in S
  <2> HIDE DEF S
  <2>1. 0 .. L \subseteq S
    BY <1>0, <1>3, <1>4, UpTo
  <2>2. QED
    BY <1>0, <2>1
<1>6. PICK f : P(f, L)
  BY <1>5
<1>7. E([n \in 0 .. L |-> {f[n]}])
  <2> DEFINE h == [n \in 0 .. L |-> {f[n]}]
  <2>1. h[0] = {base}
    BY <1>0, <1>6
  <2>2. ASSUME NEW n \in 1 .. L PROVE h[n] = {Step(a, seeds[n]) : a \in h[n - 1]}
    <3>1. h[n] = {f[n]} /\ h[n - 1] = {f[n - 1]}
      BY <1>0
    <3>2. f[n] = Step(f[n - 1], seeds[n])
      BY <1>6
    <3> HIDE DEF h
    <3>3. QED
      BY <3>1, <3>2
  <2>3. DOMAIN h = 0 .. L /\ h = [n \in DOMAIN h |-> h[n]]
    OBVIOUS
  <2>4. \A n \in 0 .. L : n = 0 \/ n \in 1 .. L
    BY <1>0
  <2> HIDE DEF h
  <2>5. h = [n \in 0 .. L |-> IF n = 0 THEN {base} ELSE {Step(a, seeds[n]) : a \in h[n - 1]}]
    BY <2>1, <2>2, <2>3, <2>4
  <2>6. QED
    BY <2>5 DEF h
<1>8. E(acc)
  BY <1>7
<1> HIDE DEF acc, S
<1> DEFINE T == {n \in 0 .. L : acc[n] = {f[n]} /\ Aligned(f[n], gpio, heard)}
<1>9. 0 \in T
  BY <1>0, <1>2, <1>6, <1>8
<1>10. ASSUME NEW n \in 1 .. L, n - 1 \in T PROVE n \in T
  <2>n. n \in 0 .. L /\ n # 0
    BY <1>0
  <2>1. acc[n] = {Step(a, seeds[n]) : a \in acc[n - 1]}
    BY <1>8, <2>n, Zenon
  <2>2. acc[n - 1] = {f[n - 1]} /\ f[n] = Step(f[n - 1], seeds[n]) /\ Aligned(f[n - 1], gpio, heard)
    BY <1>6, <1>10
  <2> HIDE DEF E, P
  <2>3. acc[n] = {f[n]}
    BY <2>1, <2>2
  <2>4. Aligned(f[n], gpio, heard)
    BY <2>2, StepAligns DEF Step
  <2>5. QED
    BY <2>n, <2>3, <2>4
<1>11. acc[L] = {f[L]} /\ Aligned(f[L], gpio, heard)
  <2> HIDE DEF T
  <2>1. 0 .. L \subseteq T
    BY <1>0, <1>9, <1>10, UpTo
  <2>2. QED
    BY <1>0, <2>1 DEF T
<1>12. QED
  BY <1>1, <1>11

\* What poll() does with the RMT edges leaves the buffer as it was.
LEMMA RmtLeavesData ==
    ASSUME NEW lo, NEW hi, Span(lo, hi), 6 * (hi - lo) < ClockMod, NEW d, Trace(d, lo, hi),
           NEW w, NEW from \in Int, NEW to \in Int, from <= to, to - from <= hi - lo, Trace(w, from, to)
    PROVE  RmtTakenOut(RmtInserted(d, Idle, RmtHalves(w))) = d
<1> DEFINE b == TRUE
           untouched == [ok |-> b, data |-> d, in |-> <<>>]
           heard == build_rmt_scl_edges(RmtHalves(w))
           gpio == GpioSclEdges(d, Idle)
           best == RmtAlignment(gpio, heard)
           wide == to - from
           low == IF lo < wide THEN 0 ELSE lo - wide
           high == IF hi + wide >= ClockMod THEN ClockMod - 1 ELSE hi + wide
           s == RmtInserted(d, Idle, RmtHalves(w))
<1>0. lo \in Int /\ hi \in Int /\ ClockMod \in Int /\ lo >= 0 /\ lo <= hi /\ hi < ClockMod
  BY RecoveryAssumption DEF Span
<1>1. RmtEdges(heard, wide)
  BY EdgesBuilt
<1>2. /\ DOMAIN gpio = 1 .. Len(gpio) /\ Len(gpio) \in Nat
      /\ \A n \in 1 .. Len(gpio) : gpio[n].t \in lo .. hi
  BY <1>0, SclEdges
<1>3. s = IF Len(heard) < 16 \/ Len(gpio) < 12 \/ 100 * best.score < 80 * Len(gpio) THEN untouched
          ELSE Inserted(untouched, heard, gpio, best.offset)
  BY DEF RmtInserted, Inserted
<1>4. Aligned(best, gpio, heard)
  BY AlignmentFound
<1> HIDE DEF s, best, heard, gpio, untouched, b
<1>5. CASE s = untouched
  <2>1. RmtState(untouched, d, lo, hi, 0)
    BY NothingPutIn DEF untouched
  <2>2. RmtTakenOut(s) = d
    BY <1>5, <2>1, TakenOutExact
  <2>3. QED
    BY <2>2 DEF s
<1>6. CASE s = Inserted(untouched, heard, gpio, best.offset) /\ Len(gpio) >= 12 /\ ~(100 * best.score < 80 * Len(gpio))
  <2>1. PICK g \in DOMAIN gpio, r \in DOMAIN heard : best.offset = gpio[g].t - heard[r].us
    <3>1. best.score # 0
      BY <1>2, <1>6
    <3>2. QED
      BY <1>4, <3>1 DEF Aligned
  <2>2. gpio[g].t \in lo .. hi
    BY <1>2
  <2>3. heard[r].us \in 0 .. wide
    BY <1>1 DEF RmtEdges
  <2>4. best.offset \in Int
    BY <1>0, <2>1, <2>2, <2>3
  <2>5. Span(low, high) /\ low <= lo /\ hi <= high /\ low \in Int /\ high \in Int
    BY <1>0 DEF Span
  <2>6. ASSUME NEW n \in 1 .. Len(heard), best.offset + heard[n].us \in 0 .. ClockMod - 1
        PROVE  best.offset + heard[n].us \in low .. high
    <3>1. heard[n].us \in 0 .. wide
      BY <1>1 DEF RmtEdges
    <3> DEFINE t == gpio[g].t  u == heard[r].us  v == heard[n].us
    <3>2. best.offset = t - u /\ t \in Int /\ t >= lo /\ t <= hi /\ wide \in Nat
          /\ u \in Int /\ u >= 0 /\ u <= wide /\ v \in Int /\ v >= 0 /\ v <= wide
      BY <1>0, <2>1, <2>2, <2>3, <3>1
    <3>3. (t - u) + v >= lo - wide /\ (t - u) + v <= hi + wide
      <4> HIDE DEF t, u, v, wide
      <4>1. QED
        BY <1>0, <3>2
    <3>4. (t - u) + v \in 0 .. ClockMod - 1
      BY <2>6, <3>2
    <3> HIDE DEF t, u, wide
    <3>5. (t - u) + v \in low .. high
      <4> HIDE DEF v
      <4>1. QED
        BY <1>0, <3>2, <3>3, <3>4
    <3>6. QED
      BY <3>2, <3>5
  <2>7. Trace(d, low, high)
    <3>1. \A k \in 1 .. Len(d) : d[k].t \in Int /\ d[k].t >= lo /\ d[k].t <= hi
      BY TraceTypes
    <3>2. \A k \in 1 .. Len(d) : d[k].t >= low /\ d[k].t <= high
      BY <1>0, <2>5, <3>1
    <3>3. QED
      BY <3>2 DEF Trace, InSpan
  <2>8. wide \in Nat
    OBVIOUS
  <2> HIDE DEF low, high, wide
  <2> DEFINE offset == best.offset
  <2>9. offset \in Int /\ \A n \in 1 .. Len(heard) :
                            offset + heard[n].us \in 0 .. ClockMod - 1 => offset + heard[n].us \in low .. high
    BY <2>4, <2>6
  <2> HIDE DEF offset
  <2>10. ASSUME NEW x PROVE RmtTakenOut(Inserted([ok |-> x, data |-> d, in |-> <<>>], heard, gpio, offset)) = d
    BY <1>1, <2>5, <2>7, <2>8, <2>9, InsertedAndTakenOut
  <2>11. RmtTakenOut(Inserted(untouched, heard, gpio, offset)) = d
    BY <2>10 DEF untouched
  <2>12. QED
    BY <1>6, <2>11 DEF s, offset
<1>7. QED
  BY <1>2, <1>3, <1>5, <1>6

-----------------------------------------------------------------------------

(* The steps.                                                                  *)

Hypotheses(lo, hi) == {h \in Seq(Pulses(lo, hi)) : Len(h) = 1 \/ Len(h) = 2}

\* Pairs of pulses of the span are hypotheses of it.
LEMMA PairsInSpan ==
    ASSUME NEW lo, NEW hi, NEW pulses \in Seq(Pulses(lo, hi))
    PROVE  Pairs(pulses) \in Seq(Hypotheses(lo, hi))
<1> DEFINE H == Hypotheses(lo, hi)
           Ordered(m, n) ==
             IF pulses[n].t1 < pulses[m].t1 THEN <<pulses[n], pulses[m]>> ELSE <<pulses[m], pulses[n]>>
           Later(m) == [k \in 1 .. Len(pulses) - m |-> Ordered(m, m + k)]
           With(m) == Chosen(Later(m), {k \in 1 .. Len(pulses) - m :
                                          Combinable(Ordered(m, m + k)[1], Ordered(m, m + k)[2])})
           each == [m \in DOMAIN pulses |-> With(m)]
<1>0. Len(pulses) \in Nat /\ DOMAIN pulses = 1 .. Len(pulses)
      /\ \A m \in 1 .. Len(pulses) : pulses[m] \in Pulses(lo, hi)
  OBVIOUS
<1>1. Pairs(pulses) = FlattenSeq(each)
  BY DEF Pairs
<1>2. ASSUME NEW m \in 1 .. Len(pulses), NEW n \in 1 .. Len(pulses) PROVE Ordered(m, n) \in H
  <2>1. \A p, q \in Pulses(lo, hi) : <<p, q>> \in H
    BY DEF Hypotheses
  <2> HIDE DEF H
  <2>2. QED
    BY <1>0, <2>1
<1> HIDE DEF Ordered, H
<1>3. ASSUME NEW m \in 1 .. Len(pulses) PROVE With(m) \in Seq(H)
  <2> DEFINE l == Len(pulses) - m  f == Later(m)
  <2>1. l \in Nat /\ f = [k \in 1 .. l |-> f[k]] /\ DOMAIN f = 1 .. l
    BY <1>0
  <2>2. \A k \in 1 .. l : f[k] \in H
    BY <1>0, <1>2
  <2>3. f \in Seq(H)
    <3> HIDE DEF f, l
    <3>1. QED
      BY <2>1, <2>2
  <2> HIDE DEF f
  <2>4. With(m) = Chosen(f, {k \in 1 .. Len(pulses) - m :
                               Combinable(Ordered(m, m + k)[1], Ordered(m, m + k)[2])})
    BY DEF f
  <2> HIDE DEF With
  <2>5. QED
    BY <2>3, <2>4, ChosenPlaces
<1> HIDE DEF With
<1>4. each \in Seq(Seq(H))
  BY <1>0, <1>3
<1> HIDE DEF each
<1>5. QED
  BY <1>1, <1>4, FlattenMembers DEF H

\* One pulse put in: the buffer is still a trace, and taking it out restores it.
LEMMA OnePulse ==
    ASSUME NEW lo, NEW hi, Span(lo, hi), NEW d, Trace(d, lo, hi), NEW p \in Pulses(lo, hi)
    PROVE  LET once == apply_pulse(d, Idle, p)
           IN IF once.ok THEN Trace(once.data, lo, hi) /\ undo_pulse(once.data, p) = d
              ELSE once.data = d
<1> DEFINE once == apply_pulse(d, Idle, p)
<1>1. Pulse(p, lo, hi)
  BY DEF Pulses, Pulse
<1>2. CASE once.ok
  <2>1. PICK a, b : Shape(d, once.data, a, b, p)
    BY <1>1, <1>2, ApplyShape
  <2>2. Trace(once.data, lo, hi) /\ undo_pulse(once.data, p) = d
    BY <1>1, <2>1, ShapeIsTrace, UndoExact
  <2>3. QED
    BY <1>2, <2>2
<1>3. CASE ~once.ok
  <2> DEFINE pos1 == find_insert_position(d, p.t1)
             pos2 == find_insert_position(d, p.t2)
             put == WithEdge(SclFlipped(d, pos1, p.t2), pos1, Idle, p.t1)
             r == WithEdge(put, find_insert_position(put, p.t2), Idle, p.t2)
  <2>1. once = [ok |-> FALSE, data |-> d] \/ once = [ok |-> TRUE, data |-> r]
    BY ApplySteps
  <2> HIDE DEF once, r
  <2>2. once.data = d
    BY <1>3, <2>1
  <2>3. QED
    BY <1>3, <2>2 DEF once
<1>4. QED
  BY <1>2, <1>3

\* What is tried with the pulses of a hypothesis is taken back whole.
LEMMA TriedAndUndone ==
    ASSUME NEW lo, NEW hi, Span(lo, hi), Trace(data, lo, hi), NEW h \in Hypotheses(lo, hi)
    PROVE  TakenOut(Applied(h).data, Applied(h).in) = data
<1> DEFINE first == apply_pulse(data, Idle, h[1])
           second == apply_pulse(first.data, Idle, h[2])
           applied == Applied(h)
<1>1. h \in Seq(Pulses(lo, hi)) /\ (Len(h) = 1 \/ Len(h) = 2)
  BY DEF Hypotheses
<1>2. h[1] \in Pulses(lo, hi) /\ (Len(h) = 2 => h[2] \in Pulses(lo, hi))
  BY <1>1
<1>3. IF first.ok THEN Trace(first.data, lo, hi) /\ undo_pulse(first.data, h[1]) = data ELSE first.data = data
  BY <1>2, OnePulse
<1>4. applied =
        IF ~first.ok THEN [ok |-> FALSE, data |-> data, in |-> <<>>]
        ELSE IF Len(h) = 1 THEN [ok |-> TRUE, data |-> first.data, in |-> h]
        ELSE [ok |-> second.ok, data |-> second.data,
              in |-> IF second.ok THEN <<h[2], h[1]>> ELSE <<h[1]>>]
  BY DEF Applied
<1>5. first.ok /\ Len(h) = 2 =>
        IF second.ok THEN undo_pulse(second.data, h[2]) = first.data ELSE second.data = first.data
  BY <1>2, <1>3, OnePulse
<1> HIDE DEF first, second, applied
<1>6. CASE ~first.ok
  <2>1. applied.data = data /\ applied.in = <<>>
    BY <1>4, <1>6
  <2>2. QED
    BY <2>1 DEF TakenOut, applied
<1>7. CASE first.ok /\ Len(h) = 1
  <2>1. applied.data = first.data /\ applied.in = h /\ h # <<>>
    <3>1. applied = [ok |-> TRUE, data |-> first.data, in |-> h]
      BY <1>4, <1>7
    <3>2. h # <<>>
      BY <1>1, <1>7
    <3>3. QED
      BY <3>1, <3>2
  <2>2. TakenOut(applied.data, applied.in) = undo_pulse(first.data, h[1])
    BY <1>7, <2>1 DEF TakenOut
  <2>3. QED
    BY <1>3, <1>7, <2>2 DEF applied
<1>8. CASE first.ok /\ Len(h) = 2 /\ second.ok
  <2>1. applied.data = second.data /\ applied.in = <<h[2], h[1]>>
    BY <1>4, <1>8
  <2>2. TakenOut(applied.data, applied.in) = undo_pulse(undo_pulse(second.data, h[2]), h[1])
    BY <2>1 DEF TakenOut
  <2>3. QED
    BY <1>3, <1>5, <1>8, <2>2 DEF applied
<1>9. CASE first.ok /\ Len(h) = 2 /\ ~second.ok
  <2>1. applied.data = second.data /\ applied.in = <<h[1]>>
    BY <1>4, <1>9
  <2>2. TakenOut(applied.data, applied.in) = undo_pulse(second.data, h[1])
    BY <2>1 DEF TakenOut
  <2>3. QED
    BY <1>3, <1>5, <1>9, <2>2 DEF applied
<1>10. QED
  BY <1>1, <1>6, <1>7, <1>8, <1>9

\* The buffer is what was captured, in a span as wide as the wire, and every pulse that
\* is still to be tried lies in it.
KeptWith(lo, hi) ==
    /\ wire \in Wires /\ hi - lo = wire.t
    /\ Span(lo, hi) /\ Trace(captured, lo, hi)
    /\ tries \in Seq(Hypotheses(lo, hi))
RecoveryInv == WaveformKept /\ \E lo, hi \in Int : KeptWith(lo, hi)

\* The levels on a wire are a trace themselves.
LEMMA RecordingIsTrace ==
    ASSUME NEW w, Recording(w)
    PROVE  w.t \in Nat /\ Trace(w.samples, 0, w.t)
<1> DEFINE s == w.samples  to == w.t  R == [t : 0 .. to, scl : {0, 1}, sda : {0, 1}]
<1>1. to \in Nat /\ s \in Seq(R) /\ Timed(s)
  BY DEF Recording, Timed
<1>2. \A e \in R : e \in Sample /\ e.t >= 0 /\ e.t <= to
  BY <1>1 DEF Sample
<1> HIDE DEF s, to, R
<1>3. \A n \in 1 .. Len(s) : s[n] \in R
  BY <1>1
<1>4. s \in Seq(Sample)
  BY <1>1, <1>2
<1>5. InSpan(s, 0, to)
  BY <1>2, <1>3 DEF InSpan
<1>6. QED
  BY <1>1, <1>4, <1>5 DEF Trace, s, to

\* A capture that has only been stored.
LEMMA RecoveryInitially == NoWrap /\ RecoveryInit => RecoveryInv
<1> SUFFICES ASSUME NoWrap, RecoveryInit PROVE RecoveryInv
  OBVIOUS
<1>1. PICK epoch \in Epochs : captured = Seen(At(wire.samples, epoch), missed)
  BY DEF RecoveryInit
<1>2. wire \in Wires /\ data = captured /\ tries = <<>>
  BY DEF RecoveryInit
<1> DEFINE hi == epoch + wire.t
<1>3. epoch \in 0 .. ClockMod - 1 /\ hi < ClockMod /\ 2 * wire.t < ClockMod /\ Recording(wire)
  <2>1. epoch \in 0 .. ClockMod - 1 /\ hi < ClockMod /\ 6 * wire.t < ClockMod /\ Recording(wire)
    BY <1>1, <1>2, RecoveryAssumption DEF NoWrap
  <2>2. wire.t \in Nat /\ ClockMod \in Nat
    BY <2>1, RecoveryAssumption DEF Recording
  <2>3. 2 * wire.t < ClockMod
    BY <2>1, <2>2
  <2>4. QED
    BY <2>1, <2>3
<1>4. /\ wire.t \in Nat /\ wire.samples \in Seq([t : 0 .. wire.t, scl : {0, 1}, sda : {0, 1}])
      /\ Timed(wire.samples)
  BY <1>3 DEF Recording, Timed
<1>5. Span(epoch, hi) /\ Trace(At(wire.samples, epoch), epoch, hi)
  BY <1>3, <1>4, StampedIsTrace
<1>6. epoch \in Int /\ hi \in Int /\ hi - epoch = wire.t
  BY <1>3, <1>4, RecoveryAssumption
<1> HIDE DEF hi
<1>7. Trace(captured, epoch, hi)
  BY <1>1, <1>5, <1>6, SeenIsTrace
<1>8. KeptWith(epoch, hi)
  BY <1>2, <1>5, <1>6, <1>7 DEF KeptWith
<1>9. QED
  BY <1>2, <1>6, <1>8 DEF RecoveryInv, WaveformKept

\* Each step of poll() keeps the waveform.
LEMMA RecoverySteps == RecoveryInv /\ [RecoveryNext]_recoveryVars => RecoveryInv'
<1> SUFFICES ASSUME RecoveryInv, [RecoveryNext]_recoveryVars PROVE RecoveryInv'
  OBVIOUS
<1>0. PICK lo \in Int, hi \in Int : KeptWith(lo, hi)
  BY DEF RecoveryInv
<1>1. data = captured /\ Trace(data, lo, hi) /\ Span(lo, hi) /\ tries \in Seq(Hypotheses(lo, hi))
  BY <1>0 DEF RecoveryInv, WaveformKept, KeptWith
<1>w. wire' = wire
  BY DEF RecoveryNext, Decode, RmtRepair, Collect, Try, NextRound, recoveryVars
<1> SUFFICES data' = data /\ captured' = captured /\ tries' \in Seq(Hypotheses(lo, hi))
  BY <1>0, <1>1, <1>w DEF RecoveryInv, WaveformKept, KeptWith
<1>2. CASE Decode \/ UNCHANGED recoveryVars
  BY <1>1, <1>2 DEF Decode, recoveryVars
<1>7. CASE RmtRepair
  <2>1. captured' = captured /\ tries' = tries
        /\ data' = RmtTakenOut(RmtInserted(data, Idle, RmtHalves(wire.samples)))
    BY <1>7 DEF RmtRepair
  <2>2. wire \in Wires /\ hi - lo = wire.t
    BY <1>0 DEF KeptWith
  <2>3. Recording(wire) /\ 6 * (hi - lo) < ClockMod
    BY <2>2, RecoveryAssumption
  <2>4. Trace(wire.samples, 0, wire.t) /\ wire.t \in Nat
    BY <2>3, RecordingIsTrace
  <2>5. RmtTakenOut(RmtInserted(data, Idle, RmtHalves(wire.samples))) = data
    <3> DEFINE w == wire.samples  to == wire.t
    <3>1. Trace(w, 0, to) /\ to \in Int /\ 0 <= to /\ to - 0 <= hi - lo
      BY <2>2, <2>4
    <3> HIDE DEF w, to
    <3>2. RmtTakenOut(RmtInserted(data, Idle, RmtHalves(w))) = data
      BY <1>1, <2>3, <3>1, RmtLeavesData
    <3>3. QED
      BY <3>2 DEF w
  <2>6. QED
    BY <1>1, <2>1, <2>5
<1>3. CASE Collect
  <2> DEFINE pulses == Candidates(data, Idle)
  <2>1. pulses \in Seq(Pulses(lo, hi))
    BY <1>1, CandidatesInSpan
  <2>2. tries' = [n \in DOMAIN pulses |-> <<pulses[n]>>] /\ data' = data /\ captured' = captured
    BY <1>3 DEF Collect
  <2> HIDE DEF pulses
  <2>3. \A p \in Pulses(lo, hi) : <<p>> \in Hypotheses(lo, hi)
    BY DEF Hypotheses
  <2>4. Len(pulses) \in Nat /\ DOMAIN pulses = 1 .. Len(pulses)
        /\ \A n \in 1 .. Len(pulses) : pulses[n] \in Pulses(lo, hi)
    BY <2>1
  <2>5. QED
    BY <2>2, <2>3, <2>4
<1>4. CASE Try
  <2> DEFINE h == Head(tries)
             undone == TakenOut(Applied(h).data, Applied(h).in)
  <2>1. tries # <<>> /\ data' = undone /\ captured' = captured /\ (tries' = tries \/ tries' = Tail(tries))
    BY <1>4 DEF Try
  <2>2. h \in Hypotheses(lo, hi) /\ Tail(tries) \in Seq(Hypotheses(lo, hi))
    BY <1>1, <2>1
  <2>3. undone = data
    BY <1>1, <2>2, TriedAndUndone
  <2>4. QED
    BY <1>1, <2>1, <2>2, <2>3
<1>5. CASE NextRound
  <2>1. data' = data /\ captured' = captured /\ (tries' = tries \/ tries' = Pairs(Candidates(data, Idle)))
    BY <1>5 DEF NextRound
  <2>2. Pairs(Candidates(data, Idle)) \in Seq(Hypotheses(lo, hi))
    BY <1>1, CandidatesInSpan, PairsInSpan
  <2>3. QED
    BY <1>1, <2>1, <2>2
<1>6. QED
  BY <1>2, <1>3, <1>4, <1>5, <1>7 DEF RecoveryNext

\* However many pulses are tried, and whether they fit or not: the samples that are
\* exported are those the interrupt stored (try_missing_clock_recovery).
THEOREM WaveformIsKept == ASSUME NoWrap PROVE RecoverySpec => []WaveformKept
<1>1. RecoveryInit => RecoveryInv
  BY RecoveryInitially
<1>2. RecoveryInv /\ [RecoveryNext]_recoveryVars => RecoveryInv'
  BY RecoverySteps
<1>3. RecoveryInv => WaveformKept
  BY DEF RecoveryInv
<1>4. QED
  BY <1>1, <1>2, <1>3, PTL DEF RecoverySpec

-----------------------------------------------------------------------------

(* The decoder, one sample at a time.                                          *)

CaptureOf(frames, coalesced) == [frames |-> frames, errors |-> 0, coalesced |-> coalesced]
\* (Active is TRUE under a name, which the provers take better in a record.)
Active == TRUE
InFrame(byte, bits, raw, previous, frames, coalesced) ==
    [active |-> Active, byte |-> byte, bits |-> bits, raw |-> raw, previous |-> previous,
     capture |-> CaptureOf(frames, coalesced)]
Outside(previous, frames, coalesced) ==
    [active |-> FALSE, byte |-> 0, bits |-> 0, raw |-> EmptyRaw, previous |-> previous,
     capture |-> CaptureOf(frames, coalesced)]

\* A sample with SCL low is only remembered.
LEMMA LowIsRemembered ==
    ASSUME NEW b, NEW k, NEW r, NEW p, NEW F, NEW c, NEW s, s.scl = 0
    PROVE  DecodeSample(InFrame(b, k, r, p, F, c), s) = InFrame(b, k, r, s, F, c)
<1> DEFINE d == InFrame(b, k, r, p, F, c)
<1>1. [d EXCEPT !.previous = s] = InFrame(b, k, r, s, F, c)
  BY DEF InFrame
<1> HIDE DEF d
<1>2. ~ CoalescedDataEdge(d, s)
  BY DEF CoalescedDataEdge
<1>3. DecodeSample(d, s) = [d EXCEPT !.previous = s]
  BY <1>2 DEF DecodeSample
<1>4. QED
  BY <1>1, <1>3 DEF d

\* The decoder takes a rise of SCL for a bit, and the ninth for an acknowledge.
IsBit(b, k, r, p, F, c, s) ==
    \E n, next :
        /\ n \in Nat /\ next = (2 * b + s.sda) % 256
        /\ k < 8 => DecodeSample(InFrame(b, k, r, p, F, c), s) = InFrame(next, k + 1, r, s, F, n)
        /\ ~ (k < 8) => DecodeSample(InFrame(b, k, r, p, F, c), s) = InFrame(0, 0, AddByte(r, b, s.sda), s, F, n)

\* A rise of SCL is a bit, also when a change of SDA within the byte came with it.
LEMMA RiseIsBit ==
    ASSUME NEW b, NEW k, NEW r, NEW p, NEW F, NEW c \in Nat, NEW s,
           p.scl = 0, s.scl = 1, p.sda \in {0, 1}, s.sda \in {0, 1}, p.sda = s.sda \/ k # 0
    PROVE  IsBit(b, k, r, p, F, c, s)
<1> DEFINE d == InFrame(b, k, r, p, F, c)
           e == IF p.sda = s.sda THEN c ELSE c + 1
           next == (2 * b + s.sda) % 256
           heard == IF CoalescedDataEdge(d, s) THEN [d EXCEPT !.capture.coalesced = @ + 1] ELSE d
<1>1. d.active = TRUE /\ d.previous = p /\ d.bits = k /\ d.byte = b
  BY DEF InFrame, Active
<1>2. CoalescedDataEdge(d, s) <=> p.sda # s.sda
  BY <1>1 DEF CoalescedDataEdge
<1>3. heard = InFrame(b, k, r, p, F, e)
  BY <1>2 DEF InFrame, CaptureOf
<1>4. e \in Nat /\ next = (2 * b + s.sda) % 256
  OBVIOUS
<1> HIDE DEF d
<1> DEFINE taken == IF ~(d.active /\ d.previous.scl = 0 /\ s.scl = 1) THEN [heard EXCEPT !.previous = s]
                    ELSE IF d.bits < 8
                    THEN [heard EXCEPT !.byte = (2 * @ + s.sda) % 256, !.bits = @ + 1, !.previous = s]
                    ELSE [heard EXCEPT !.raw = AddByte(@, d.byte, s.sda), !.byte = 0, !.bits = 0, !.previous = s]
           start == ~CoalescedDataEdge(d, s) /\ d.previous.sda = 1 /\ s.sda = 0 /\ s.scl = 1
           stop == ~CoalescedDataEdge(d, s) /\ d.active /\ d.previous.sda = 0 /\ s.sda = 1 /\ s.scl = 1
<1>5. DecodeSample(d, s) = CASE start -> Boundary(d, "RepeatedStart", TRUE, s)
                             [] stop -> Boundary(d, "Stop", FALSE, s)
                             [] OTHER -> taken
  BY DEF DecodeSample
<1>6. ~ start /\ ~ stop
  BY <1>1, <1>2
<1> HIDE DEF taken, start, stop
<1>7. DecodeSample(d, s) = taken
  BY <1>5, <1>6
<1> HIDE DEF heard
<1>8. taken = IF k < 8
              THEN [heard EXCEPT !.byte = (2 * @ + s.sda) % 256, !.bits = @ + 1, !.previous = s]
              ELSE [heard EXCEPT !.raw = AddByte(@, d.byte, s.sda), !.byte = 0, !.bits = 0, !.previous = s]
  BY <1>1 DEF taken
<1> HIDE DEF e
<1>9. ASSUME k < 8 PROVE taken = InFrame(next, k + 1, r, s, F, e)
  <2>1. heard.byte = b /\ heard.bits = k
    BY <1>3 DEF InFrame
  <2>2. (2 * heard.byte + s.sda) % 256 = next
    BY <2>1
  <2>3. taken = [heard EXCEPT !.byte = (2 * heard.byte + s.sda) % 256, !.bits = k + 1, !.previous = s]
    BY <1>8, <1>9, <2>1
  <2> HIDE DEF next
  <2>4. taken = [heard EXCEPT !.byte = next, !.bits = k + 1, !.previous = s]
    BY <2>2, <2>3
  <2> DEFINE k2 == k + 1  cap == CaptureOf(F, e)  y == [heard EXCEPT !.byte = next]  z == [y EXCEPT !.bits = k2]
  <2>5. heard = [active |-> Active, byte |-> b, bits |-> k, raw |-> r, previous |-> p, capture |-> cap]
    BY <1>3 DEF InFrame
  <2>6. taken = [z EXCEPT !.previous = s]
    BY <2>4
  <2> HIDE DEF k2, cap
  <2>7. y = [active |-> Active, byte |-> next, bits |-> k, raw |-> r, previous |-> p, capture |-> cap]
    BY <2>5
  <2> HIDE DEF y
  <2>8. z = [active |-> Active, byte |-> next, bits |-> k2, raw |-> r, previous |-> p, capture |-> cap]
    BY <2>7
  <2> HIDE DEF z
  <2>9. taken = [active |-> Active, byte |-> next, bits |-> k2, raw |-> r, previous |-> s, capture |-> cap]
    BY <2>6, <2>8
  <2>10. QED
    BY <2>9 DEF InFrame, k2, cap
<1>10. ASSUME ~ (k < 8) PROVE taken = InFrame(0, 0, AddByte(r, b, s.sda), s, F, e)
  BY <1>1, <1>3, <1>8, <1>10 DEF InFrame
<1> HIDE DEF next
<1>11. QED
  BY <1>4, <1>7, <1>9, <1>10 DEF d, IsBit

\* SDA falls while SCL is high: a START.
LEMMA FallIsStart ==
    ASSUME NEW p, NEW F, NEW c, NEW s, p.scl = 1, p.sda = 1, s.scl = 1, s.sda = 0
    PROVE  DecodeSample(Outside(p, F, c), s) = InFrame(0, 0, EmptyRaw, s, F, c)
<1> DEFINE d == Outside(p, F, c)
<1>1. d.active = FALSE /\ d.previous = p /\ d.capture = CaptureOf(F, c)
  BY DEF Outside
<1> HIDE DEF d
<1>2. ~ CoalescedDataEdge(d, s)
  BY <1>1 DEF CoalescedDataEdge
<1>3. DecodeSample(d, s) = Boundary(d, "RepeatedStart", TRUE, s)
  BY <1>1, <1>2 DEF DecodeSample
<1>4. Boundary(d, "RepeatedStart", TRUE, s) =
        [d EXCEPT !.capture = CaptureOf(F, c), !.raw = EmptyRaw, !.byte = 0, !.bits = 0, !.active = Active,
                  !.previous = s]
  BY <1>1 DEF Boundary, Active
<1>5. QED
  BY <1>3, <1>4 DEF d, Outside, InFrame

\* The same within a frame: a repeated START.
LEMMA FallIsRestart ==
    ASSUME NEW b, NEW k, NEW r, NEW p, NEW F, NEW c, NEW s, NEW G,
           p.scl = 1, p.sda = 1, s.scl = 1, s.sda = 0,
           finish_active_frame(CaptureOf(F, c), r, "RepeatedStart", RolledBack(k)) = CaptureOf(G, c)
    PROVE  DecodeSample(InFrame(b, k, r, p, F, c), s) = InFrame(0, 0, EmptyRaw, s, G, c)
<1> DEFINE d == InFrame(b, k, r, p, F, c)
<1>1. d.active = TRUE /\ d.previous = p /\ d.bits = k /\ d.raw = r /\ d.capture = CaptureOf(F, c)
      /\ DOMAIN d = {"active", "byte", "bits", "raw", "previous", "capture"}
  BY DEF InFrame, Active
<1> HIDE DEF d
<1>2. ~ CoalescedDataEdge(d, s)
  BY <1>1 DEF CoalescedDataEdge
<1>3. DecodeSample(d, s) = Boundary(d, "RepeatedStart", TRUE, s)
  BY <1>1, <1>2 DEF DecodeSample
<1> DEFINE after == IF d.active THEN finish_active_frame(d.capture, d.raw, "RepeatedStart", RolledBack(d.bits))
                    ELSE d.capture
<1>4. Boundary(d, "RepeatedStart", TRUE, s) =
        [d EXCEPT !.capture = after, !.raw = EmptyRaw, !.byte = 0, !.bits = 0, !.active = Active, !.previous = s]
  BY DEF Boundary, Active
<1>5. after = CaptureOf(G, c)
  BY <1>1
<1> HIDE DEF after
<1>6. Boundary(d, "RepeatedStart", TRUE, s) =
        [active |-> Active, byte |-> 0, bits |-> 0, raw |-> EmptyRaw, previous |-> s, capture |-> after]
  BY <1>4 DEF d, InFrame
<1>7. QED
  BY <1>3, <1>5, <1>6 DEF d, InFrame, Outside

\* SDA rises while SCL is high: a STOP.
LEMMA RiseIsStop ==
    ASSUME NEW b, NEW k, NEW r, NEW p, NEW F, NEW c, NEW s, NEW G,
           p.scl = 1, p.sda = 0, s.scl = 1, s.sda = 1,
           finish_active_frame(CaptureOf(F, c), r, "Stop", RolledBack(k)) = CaptureOf(G, c)
    PROVE  DecodeSample(InFrame(b, k, r, p, F, c), s) = Outside(s, G, c)
<1> DEFINE d == InFrame(b, k, r, p, F, c)
<1>1. d.active = TRUE /\ d.previous = p /\ d.bits = k /\ d.raw = r /\ d.capture = CaptureOf(F, c)
      /\ DOMAIN d = {"active", "byte", "bits", "raw", "previous", "capture"}
  BY DEF InFrame, Active
<1> HIDE DEF d
<1>2. ~ CoalescedDataEdge(d, s)
  BY <1>1 DEF CoalescedDataEdge
<1>3. DecodeSample(d, s) = Boundary(d, "Stop", FALSE, s)
  BY <1>1, <1>2 DEF DecodeSample
<1> DEFINE after == IF d.active THEN finish_active_frame(d.capture, d.raw, "Stop", RolledBack(d.bits)) ELSE d.capture
<1>4. Boundary(d, "Stop", FALSE, s) =
        [d EXCEPT !.capture = after, !.raw = EmptyRaw, !.byte = 0, !.bits = 0, !.active = FALSE, !.previous = s]
  BY DEF Boundary, Active
<1>5. after = CaptureOf(G, c)
  BY <1>1
<1> HIDE DEF after
<1>6. Boundary(d, "Stop", FALSE, s) =
        [active |-> FALSE, byte |-> 0, bits |-> 0, raw |-> EmptyRaw, previous |-> s, capture |-> after]
  BY <1>4 DEF d, InFrame
<1>7. QED
  BY <1>3, <1>5, <1>6 DEF d, InFrame, Outside

\* The frame of a whole transfer.
RawOf(bytes, acks) == [bytes |-> bytes, acks |-> acks, truncated |-> FALSE]

\* A whole frame joins the capture, as a valid one.
LEMMA FrameIsAppended ==
    ASSUME NEW bytes, bytes # <<>>, NEW acks, NEW F, NEW c, Len(F) < MAX_FRAMES,
           NEW end \in {"Stop", "RepeatedStart"}
    PROVE  finish_active_frame(CaptureOf(F, c), RawOf(bytes, acks), end, RolledBack(1)) =
             CaptureOf(Append(F, FrameOf(RawOf(bytes, acks), end, 0)), c)
<1>1. RolledBack(1) = 0
  BY DEF RolledBack
<1>2. classify_frame(RawOf(bytes, acks), end, 0) = "Valid"
  BY DEF classify_frame, RawOf
<1>3. frame_valid(FrameOf(RawOf(bytes, acks), end, 0))
  BY <1>2 DEF frame_valid, FrameOf
<1> DEFINE before == CaptureOf(F, c)
           frame == FrameOf(RawOf(bytes, acks), end, 0)
<1>4. RoomForFrame(before) /\ RawOf(bytes, acks).bytes # <<>>
  BY DEF RoomForFrame, RawOf, CaptureOf
<1> HIDE DEF frame
<1>5. finish_active_frame(before, RawOf(bytes, acks), end, 0) =
        [before EXCEPT !.frames = Append(@, frame), !.errors = IF frame_valid(frame) THEN @ ELSE @ + 1]
  BY <1>4 DEF finish_active_frame, frame
<1>6. QED
  BY <1>1, <1>3, <1>5 DEF frame, CaptureOf

-----------------------------------------------------------------------------

(* What has been heard of the bus so far, one level more at a time.            *)

Fresh == Outside(Idle, <<>>, 0)
Decoded(s) == Scan(DecodeSample, Fresh, s)

\* Decoding one sample more.
LEMMA DecodedNext ==
    ASSUME NEW A, NEW s \in Seq(A), NEW e \in A
    PROVE  Decoded(Append(s, e)) = DecodeSample(Decoded(s), e) /\ Decoded(<<>>) = Fresh
<1> DEFINE L == Len(s)  r == Append(s, e)
<1>1. L \in Nat /\ Len(r) = L + 1 /\ r[L + 1] = e /\ \A n \in 1 .. L : r[n] = s[n]
  OBVIOUS
<1> HIDE DEF r
<1>2. PICK f : DecodeRun(f, Fresh, r) /\ Scan(DecodeSample, Fresh, r) = f[Len(r)]
  BY <1>1, DecodeRunExists
<1>3. PICK g : DecodeRun(g, Fresh, s) /\ Scan(DecodeSample, Fresh, s) = g[Len(s)]
  BY <1>1, DecodeRunExists
<1>4. PICK h : DecodeRun(h, Fresh, <<>>) /\ Scan(DecodeSample, Fresh, <<>>) = h[Len(<<>>)]
  BY DecodeRunExists
<1> DEFINE S == {n \in 0 .. L : f[n] = g[n]}
<1> HIDE DEF L
<1>5. 0 \in S
  BY <1>1, <1>2, <1>3 DEF DecodeRun
<1>6. ASSUME NEW n \in 1 .. L, n - 1 \in S PROVE n \in S
  <2>1. f[n] = DecodeSample(f[n - 1], r[n])
    BY <1>1, <1>2 DEF DecodeRun
  <2>2. g[n] = DecodeSample(g[n - 1], s[n])
    BY <1>3 DEF DecodeRun, L
  <2>3. f[n - 1] = g[n - 1] /\ r[n] = s[n] /\ n \in 0 .. L
    BY <1>1, <1>6
  <2>4. QED
    BY <2>1, <2>2, <2>3
<1>7. f[L] = g[L]
  <2> HIDE DEF S
  <2>1. 0 .. L \subseteq S
    BY <1>1, <1>5, <1>6, UpTo
  <2>2. QED
    BY <1>1, <2>1 DEF S
<1>8. f[L + 1] = DecodeSample(f[(L + 1) - 1], r[L + 1])
  BY <1>1, <1>2 DEF DecodeRun
<1>9. (L + 1) - 1 = L
  BY <1>1
<1>10. Decoded(r) = f[L + 1] /\ Decoded(s) = g[L]
  BY <1>1, <1>2, <1>3 DEF Decoded, L
<1>11. Decoded(<<>>) = Fresh
  BY <1>4 DEF Decoded, DecodeRun
<1>12. QED
  BY <1>1, <1>7, <1>8, <1>9, <1>10, <1>11 DEF r

\* What is stored after one level more.
LEMMA SeenNext ==
    ASSUME NEW A, NEW all \in Seq(A), NEW e \in A, NEW lost
    PROVE  /\ Seen(Append(all, e), lost) = SeenStep(Seen(all, lost), Append(all, e), lost, Len(all) + 1)
           /\ Seen(<<>>, lost) = <<>>
<1> DEFINE L == Len(all)  r == Append(all, e)
<1>1. L \in Nat /\ r \in Seq(A) /\ Len(r) = L + 1 /\ r[L + 1] = e /\ \A n \in 1 .. L : r[n] = all[n]
  OBVIOUS
<1> HIDE DEF r
<1>2. PICK f : SeenRun(f, r, lost) /\ Seen(r, lost) = f[Len(r)]
  BY <1>1, SeenRunExists
<1>3. PICK g : SeenRun(g, all, lost) /\ Seen(all, lost) = g[Len(all)]
  BY <1>1, SeenRunExists
<1>4. PICK h : SeenRun(h, <<>>, lost) /\ Seen(<<>>, lost) = h[Len(<<>>)]
  <2>1. <<>> \in Seq(A)
    OBVIOUS
  <2>2. QED
    BY <2>1, SeenRunExists
<1> DEFINE S == {n \in 0 .. L : f[n] = g[n]}
<1> HIDE DEF L
<1>5. 0 \in S
  BY <1>1, <1>2, <1>3 DEF SeenRun
<1>6. ASSUME NEW n \in 1 .. L, n - 1 \in S PROVE n \in S
  <2>1. f[n] = SeenStep(f[n - 1], r, lost, n)
    BY <1>1, <1>2 DEF SeenRun
  <2>2. g[n] = SeenStep(g[n - 1], all, lost, n)
    BY <1>3 DEF SeenRun, L
  <2>3. f[n - 1] = g[n - 1] /\ r[n] = all[n] /\ n \in 0 .. L
    BY <1>1, <1>6
  <2>4. QED
    BY <2>1, <2>2, <2>3 DEF SeenStep
<1>7. f[L] = g[L]
  <2> HIDE DEF S
  <2>1. 0 .. L \subseteq S
    BY <1>1, <1>5, <1>6, UpTo
  <2>2. QED
    BY <1>1, <2>1 DEF S
<1>8. f[L + 1] = SeenStep(f[(L + 1) - 1], r, lost, L + 1)
  BY <1>1, <1>2 DEF SeenRun
<1>9. (L + 1) - 1 = L
  BY <1>1
<1>10. Seen(r, lost) = f[L + 1] /\ Seen(all, lost) = g[L]
  BY <1>1, <1>2, <1>3 DEF L
<1>11. Seen(<<>>, lost) = <<>>
  BY <1>4 DEF SeenRun
<1>12. QED
  BY <1>1, <1>7, <1>8, <1>9, <1>10, <1>11 DEF r, L

Stamp(e, epoch) == [e EXCEPT !.t = (@ + epoch) % ClockMod]

\* The clock value of a level when the capture began at epoch.
LEMMA StampIsSample ==
    ASSUME NEW e \in Sample, NEW epoch \in Int
    PROVE  Stamp(e, epoch) \in Sample /\ Stamp(e, epoch).scl = e.scl /\ Stamp(e, epoch).sda = e.sda
<1>1. (e.t + epoch) % ClockMod \in Int
  BY RecoveryAssumption DEF Sample
<1> DEFINE t == (e.t + epoch) % ClockMod
<1>2. Stamp(e, epoch) = [e EXCEPT !.t = t]
  BY DEF Stamp
<1> HIDE DEF t
<1>3. QED
  BY <1>1, <1>2 DEF Sample, t

\* At, one level more.
LEMMA AtNext ==
    ASSUME NEW s \in Seq(Sample), NEW e \in Sample, NEW epoch \in Int
    PROVE  /\ At(s, epoch) \in Seq(Sample) /\ Len(At(s, epoch)) = Len(s)
           /\ At(Append(s, e), epoch) = Append(At(s, epoch), Stamp(e, epoch))
           /\ At(<<>>, epoch) = <<>>
<1> DEFINE L == Len(s)  r == Append(s, e)  a == At(s, epoch)  b == At(r, epoch)
<1>1. /\ L \in Nat /\ r \in Seq(Sample) /\ Len(r) = L + 1 /\ r[L + 1] = e
      /\ \A n \in 1 .. L : r[n] = s[n] /\ s[n] \in Sample
  OBVIOUS
<1>2. a = [n \in 1 .. L |-> Stamp(s[n], epoch)] /\ b = [n \in 1 .. Len(r) |-> Stamp(r[n], epoch)]
  BY <1>1 DEF At, Stamp
<1>3. \A n \in 1 .. L : Stamp(s[n], epoch) \in Sample
  BY <1>1, StampIsSample
<1>4. Stamp(e, epoch) \in Sample
  BY StampIsSample
<1> HIDE DEF r, L, a, b
<1>5. a \in Seq(Sample) /\ Len(a) = L
  BY <1>1, <1>2, <1>3
<1>6. DOMAIN b = 1 .. L + 1 /\ \A n \in 1 .. L + 1 : b[n] = Append(a, Stamp(e, epoch))[n]
  <2>1. DOMAIN b = 1 .. L + 1 /\ b[L + 1] = Stamp(e, epoch)
    BY <1>1, <1>2
  <2>2. Append(a, Stamp(e, epoch))[L + 1] = Stamp(e, epoch)
    BY <1>1, <1>4, <1>5
  <2>3. ASSUME NEW n \in 1 .. L PROVE b[n] = Append(a, Stamp(e, epoch))[n]
    BY <1>1, <1>2, <1>4, <1>5
  <2>4. \A n \in 1 .. L + 1 : n \in 1 .. L \/ n = L + 1
    BY <1>1
  <2>5. QED
    BY <2>1, <2>2, <2>3, <2>4
<1>7. b = Append(a, Stamp(e, epoch))
  <2>1. Append(a, Stamp(e, epoch)) \in Seq(Sample) /\ Len(Append(a, Stamp(e, epoch))) = L + 1
    BY <1>4, <1>5
  <2>2. b = [n \in 1 .. L + 1 |-> b[n]]
    BY <1>1, <1>2
  <2> DEFINE c == Append(a, Stamp(e, epoch))
  <2> HIDE DEF c
  <2>3. c \in Seq(Sample) /\ Len(c) = L + 1 /\ \A n \in 1 .. L + 1 : b[n] = c[n]
    BY <1>6, <2>1 DEF c
  <2>4. c = [n \in 1 .. L + 1 |-> c[n]]
    BY <2>3
  <2>5. b = c
    BY <2>2, <2>3, <2>4
  <2>6. QED
    BY <2>5 DEF c
<1>8. At(<<>>, epoch) = <<>>
  BY DEF At
<1>9. QED
  BY <1>5, <1>7, <1>8 DEF a, b, r, L

\* The decoder has heard the samples and is in state d.
Heard(samples, epoch, lost, d) ==
    LET s == Seen(At(samples, epoch), lost)
    IN /\ s \in Seq(Sample) /\ Decoded(s) = d
       /\ d.previous = IF s = <<>> THEN Idle ELSE s[Len(s)]

\* Before the first level.
LEMMA HeardNothing ==
    ASSUME NEW epoch \in Int, NEW lost
    PROVE  Heard(<<>>, epoch, lost, Fresh)
<1>1. At(<<>>, epoch) = <<>>
  BY DEF At
<1>2. [t |-> 0, scl |-> 0, sda |-> 0] \in Sample
  BY DEF Sample
<1>3. Seen(<<>>, lost) = <<>> /\ Decoded(<<>>) = Fresh
  <2>1. <<>> \in Seq(Sample)
    OBVIOUS
  <2>2. QED
    BY <1>2, <2>1, SeenNext, DecodedNext
<1>4. Fresh.previous = Idle
  BY DEF Fresh, Outside
<1>5. <<>> \in Seq(Sample)
  OBVIOUS
<1>6. QED
  BY <1>1, <1>3, <1>4, <1>5 DEF Heard

\* One level more: it is lost or no change, or the decoder hears it.
LEMMA HeardNext ==
    ASSUME NEW samples \in Seq(Sample), NEW epoch \in Int, NEW lost, NEW d, Heard(samples, epoch, lost, d),
           NEW e \in Sample
    PROVE  /\ Len(samples) + 1 \in lost \/ (d.previous.scl = e.scl /\ d.previous.sda = e.sda)
                => Heard(Append(samples, e), epoch, lost, d)
           /\ Len(samples) + 1 \notin lost /\ DecodeSample(d, Stamp(e, epoch)).previous = Stamp(e, epoch)
              /\ ~ (d.previous.scl = e.scl /\ d.previous.sda = e.sda)
                => Heard(Append(samples, e), epoch, lost, DecodeSample(d, Stamp(e, epoch)))
<1> DEFINE a == At(samples, epoch)  s == Seen(a, lost)  x == Stamp(e, epoch)  L == Len(samples)
<1>1. /\ a \in Seq(Sample) /\ Len(a) = L /\ L \in Nat
      /\ At(Append(samples, e), epoch) = Append(a, x)
      /\ x \in Sample /\ x.scl = e.scl /\ x.sda = e.sda
  BY AtNext, StampIsSample, SMTT(30)
<1> HIDE DEF a, x
<1>2. Seen(Append(a, x), lost) = SeenStep(s, Append(a, x), lost, Len(a) + 1)
  BY <1>1, SeenNext
<1>3. Append(a, x)[Len(a) + 1] = x
  BY <1>1
<1>4. s \in Seq(Sample) /\ Decoded(s) = d /\ d.previous = IF s = <<>> THEN Idle ELSE s[Len(s)]
  BY DEF Heard, a
<1> HIDE DEF s
<1> DEFINE same == d.previous.scl = e.scl /\ d.previous.sda = e.sda
<1>5. Seen(Append(a, x), lost) = IF L + 1 \in lost \/ same THEN s ELSE Append(s, x)
  <2>1. SeenStep(s, Append(a, x), lost, L + 1) =
          LET last == IF s = <<>> THEN [scl |-> 1, sda |-> 1] ELSE s[Len(s)]
          IN IF L + 1 \in lost \/ (last.scl = x.scl /\ last.sda = x.sda) THEN s ELSE Append(s, x)
    BY <1>1, <1>3 DEF SeenStep
  <2>2. QED
    BY <1>1, <1>2, <1>4, <2>1 DEF Idle
<1>6. Decoded(Append(s, x)) = DecodeSample(d, x)
  BY <1>1, <1>4, DecodedNext
<1>7. Append(s, x) \in Seq(Sample) /\ Append(s, x) # <<>> /\ Append(s, x)[Len(Append(s, x))] = x
  BY <1>1, <1>4
<1> HIDE DEF same
<1>8. L + 1 \in lost \/ same => Heard(Append(samples, e), epoch, lost, d)
  BY <1>1, <1>4, <1>5 DEF Heard
<1>9. L + 1 \notin lost /\ ~ same /\ DecodeSample(d, x).previous = x
        => Heard(Append(samples, e), epoch, lost, DecodeSample(d, x))
  BY <1>1, <1>5, <1>6, <1>7 DEF Heard
<1>10. QED
  BY <1>8, <1>9 DEF same, x, L

-----------------------------------------------------------------------------

(* The wire while it is being driven.                                          *)

WireType(v) ==
    /\ v \in [transfers : {v.transfers}, samples : Seq(Sample), t : Int,
              clocks : Seq(SUBSET Nat), setups : SUBSET Nat]
    /\ \A n \in v.setups : n <= Len(v.samples)

\* Of the levels so far only setups have been lost.
Heeded(v, lost) == lost \subseteq Nat /\ \A n \in lost : n <= Len(v.samples) => n \in v.setups

\* The decoder has heard the wire v and is within a frame, or outside.
Decoding(v, epoch, lost, b, k, r, F, scl, sda) ==
    \E p, c : /\ c \in Nat /\ p.scl = scl /\ p.sda = sda
              /\ Heard(v.samples, epoch, lost, InFrame(b, k, r, p, F, c))
Waiting(v, epoch, lost, F) ==
    \E p, c : /\ c \in Nat /\ p.scl = 1 /\ p.sda = 1
              /\ Heard(v.samples, epoch, lost, Outside(p, F, c))

\* What Drive makes of the wire.
LEMMA DriveWire ==
    ASSUME NEW v, WireType(v), NEW dt \in Int, NEW scl \in {0, 1}, NEW sda \in {0, 1},
           NEW e, e = [t |-> v.t + dt, scl |-> scl, sda |-> sda], NEW u, u = Drive(v, dt, scl, sda)
    PROVE  /\ WireType(u) /\ u.t = v.t + dt /\ u.setups = v.setups /\ u.clocks = v.clocks
           /\ u.samples = Append(v.samples, e) /\ e \in Sample
           /\ Len(u.samples) = Len(v.samples) + 1 /\ Len(v.samples) \in Nat
           /\ Sda(u) = sda /\ Sda(v) \in {0, 1}
           /\ \A lost : Heeded(u, lost) => Heeded(v, lost) /\ Len(v.samples) + 1 \notin lost
<1>1. /\ v.samples \in Seq(Sample) /\ v.t \in Int /\ v.clocks \in Seq(SUBSET Nat) /\ v.setups \in SUBSET Nat
      /\ v = [transfers |-> v.transfers, samples |-> v.samples, t |-> v.t, clocks |-> v.clocks, setups |-> v.setups]
      /\ \A n \in v.setups : n <= Len(v.samples)
  BY DEF WireType
<1>2. u = [transfers |-> v.transfers, samples |-> Append(v.samples, e), t |-> v.t + dt, clocks |-> v.clocks,
           setups |-> v.setups]
  <2>1. u = [v EXCEPT !.t = v.t + dt, !.samples = Append(v.samples, e)]
    BY DEF Drive
  <2>2. QED
    BY <1>1, <2>1
<1>3. e \in Sample
  BY <1>1 DEF Sample
<1>4. e.sda = sda
  OBVIOUS
<1>5. /\ Append(v.samples, e) \in Seq(Sample) /\ Len(Append(v.samples, e)) = Len(v.samples) + 1
      /\ Append(v.samples, e)[Len(v.samples) + 1] = e /\ Append(v.samples, e) # <<>>
      /\ Len(v.samples) \in Nat
  BY <1>1, <1>3
<1>6. /\ u.samples = Append(v.samples, e) /\ u.t = v.t + dt /\ u.setups = v.setups /\ u.clocks = v.clocks
      /\ u.transfers = v.transfers
  BY <1>2
<1>7. Sda(u) = sda
  BY <1>4, <1>5, <1>6 DEF Sda
<1>8. Sda(v) \in {0, 1}
  <2>1. v.samples # <<>> => v.samples[Len(v.samples)] \in Sample
    BY <1>1
  <2>2. QED
    BY <2>1 DEF Sda, Sample
<1>9. WireType(u)
  <2>1. u \in [transfers : {u.transfers}, samples : Seq(Sample), t : Int, clocks : Seq(SUBSET Nat), setups : SUBSET Nat]
    BY <1>1, <1>2, <1>5, <1>6
  <2>2. \A n \in u.setups : n <= Len(u.samples)
    BY <1>1, <1>5, <1>6
  <2>3. QED
    BY <2>1, <2>2 DEF WireType
<1>10. ASSUME NEW lost, Heeded(u, lost) PROVE Heeded(v, lost) /\ Len(v.samples) + 1 \notin lost
  BY <1>1, <1>5, <1>6, <1>10 DEF Heeded
<1>11. QED
  BY <1>3, <1>5, <1>6, <1>7, <1>8, <1>9, <1>10

\* SCL falls, or SDA changes while it is low.
LEMMA HeardLow ==
    ASSUME NEW v, WireType(v), NEW dt \in Int, NEW y \in {0, 1}, NEW epoch \in Int, NEW lost,
           NEW b, NEW k, NEW r, NEW F, NEW scl, NEW sda, Decoding(v, epoch, lost, b, k, r, F, scl, sda)
    PROVE  /\ Len(v.samples) + 1 \notin lost
                => Decoding(Drive(v, dt, 0, y), epoch, lost, b, k, r, F, 0, y)
           /\ Len(v.samples) + 1 \in lost
                => Decoding(Drive(v, dt, 0, y), epoch, lost, b, k, r, F, scl, sda)
<1> DEFINE e == [t |-> v.t + dt, scl |-> 0, sda |-> y]  u == Drive(v, dt, 0, y)
<1>1. u.samples = Append(v.samples, e) /\ e \in Sample /\ v.samples \in Seq(Sample)
  <2>1. v.samples \in Seq(Sample)
    BY DEF WireType
  <2>2. 0 \in {0, 1}
    OBVIOUS
  <2>3. u.samples = Append(v.samples, e) /\ e \in Sample
    BY <2>2, DriveWire
  <2>4. QED
    BY <2>1, <2>3
<1>2. PICK p, c : /\ c \in Nat /\ p.scl = scl /\ p.sda = sda
                  /\ Heard(v.samples, epoch, lost, InFrame(b, k, r, p, F, c))
  BY DEF Decoding
<1>3. e.scl = 0 /\ e.sda = y
  OBVIOUS
<1> DEFINE x == Stamp(e, epoch)  d == InFrame(b, k, r, p, F, c)
<1> HIDE DEF e
<1>4. x.scl = 0 /\ x.sda = y
  BY <1>1, <1>3, StampIsSample
<1>5. DecodeSample(d, x) = InFrame(b, k, r, x, F, c)
  BY <1>4, LowIsRemembered
<1>6. d.previous = p /\ DecodeSample(d, x).previous = x
  BY <1>5 DEF InFrame
<1>7. /\ Len(v.samples) + 1 \in lost \/ (d.previous.scl = e.scl /\ d.previous.sda = e.sda)
           => Heard(u.samples, epoch, lost, d)
      /\ Len(v.samples) + 1 \notin lost /\ DecodeSample(d, x).previous = x
         /\ ~ (d.previous.scl = e.scl /\ d.previous.sda = e.sda)
           => Heard(u.samples, epoch, lost, DecodeSample(d, x))
  BY <1>1, <1>2, HeardNext
<1> HIDE DEF d, x, u
<1>8. ASSUME Len(v.samples) + 1 \notin lost PROVE Decoding(u, epoch, lost, b, k, r, F, 0, y)
  <2>1. CASE p.scl = 0 /\ p.sda = y
    BY <1>2, <1>3, <1>6, <1>7, <2>1 DEF Decoding, d
  <2>2. CASE ~ (p.scl = 0 /\ p.sda = y)
    <3>1. Heard(u.samples, epoch, lost, InFrame(b, k, r, x, F, c))
      BY <1>3, <1>5, <1>6, <1>7, <1>8, <2>2
    <3>2. QED
      BY <1>2, <1>4, <3>1 DEF Decoding
  <2>3. QED
    BY <2>1, <2>2
<1>9. ASSUME Len(v.samples) + 1 \in lost PROVE Decoding(u, epoch, lost, b, k, r, F, scl, sda)
  BY <1>2, <1>7, <1>9 DEF Decoding, d
<1>10. QED
  BY <1>8, <1>9 DEF u

\* A level that is new to the decoder.
LEMMA HeardNew ==
    ASSUME NEW samples \in Seq(Sample), NEW e \in Sample, NEW epoch \in Int, NEW lost,
           Len(samples) + 1 \notin lost, NEW d, Heard(samples, epoch, lost, d),
           ~ (d.previous.scl = e.scl /\ d.previous.sda = e.sda)
    PROVE  \E x : /\ x.scl = e.scl /\ x.sda = e.sda
                  /\ DecodeSample(d, x).previous = x
                       => Heard(Append(samples, e), epoch, lost, DecodeSample(d, x))
<1> DEFINE x == Stamp(e, epoch)
<1>1. x.scl = e.scl /\ x.sda = e.sda
  BY StampIsSample
<1>2. DecodeSample(d, x).previous = x => Heard(Append(samples, e), epoch, lost, DecodeSample(d, x))
  BY HeardNext
<1> HIDE DEF x
<1>3. QED
  BY <1>1, <1>2

\* The level that is driven.
LEMMA DriveNew ==
    ASSUME NEW v, WireType(v), NEW dt \in Int, NEW scl \in {0, 1}, NEW sda \in {0, 1}
    PROVE  \E e \in Sample : /\ e.scl = scl /\ e.sda = sda /\ v.samples \in Seq(Sample)
                             /\ Drive(v, dt, scl, sda).samples = Append(v.samples, e)
<1> DEFINE e == [t |-> v.t + dt, scl |-> scl, sda |-> sda]  u == Drive(v, dt, scl, sda)
<1>1. e.scl = scl /\ e.sda = sda
  OBVIOUS
<1>2. u.samples = Append(v.samples, e) /\ e \in Sample
  BY DriveWire
<1>3. v.samples \in Seq(Sample)
  BY DEF WireType
<1> HIDE DEF e
<1>4. QED
  BY <1>1, <1>2, <1>3 DEF u

\* The same with SCL high.
LEMMA RiseNew ==
    ASSUME NEW v, WireType(v), NEW dt \in Int, NEW y \in {0, 1}
    PROVE  \E e \in Sample : /\ e.scl = 1 /\ e.sda = y /\ Drive(v, dt, 1, y).samples = Append(v.samples, e)
                             /\ v.samples \in Seq(Sample)
<1>1. 1 \in {0, 1}
  OBVIOUS
<1>2. QED
  BY <1>1, DriveNew

\* The decoder has heard one bit more, y, and with the ninth the byte is whole.
BitTaken(v, epoch, lost, b, k, r, F, scl, y) ==
    /\ k < 8 => Decoding(v, epoch, lost, (2 * b + y) % 256, k + 1, r, F, scl, y)
    /\ ~ (k < 8) => Decoding(v, epoch, lost, 0, 0, AddByte(r, b, y), F, scl, y)

\* SCL rises: a bit.
LEMMA HeardRise ==
    ASSUME NEW v, WireType(v), NEW dt \in Int, NEW y \in {0, 1}, NEW epoch \in Int, NEW lost,
           Len(v.samples) + 1 \notin lost,
           NEW b, NEW k \in 0 .. 8, NEW r, NEW F, NEW sda \in {0, 1}, k = 0 => sda = y,
           Decoding(v, epoch, lost, b, k, r, F, 0, sda)
    PROVE  BitTaken(Drive(v, dt, 1, y), epoch, lost, b, k, r, F, 1, y)
<1> DEFINE u == Drive(v, dt, 1, y)
<1>1. PICK p, c : /\ c \in Nat /\ p.scl = 0 /\ p.sda = sda
                  /\ Heard(v.samples, epoch, lost, InFrame(b, k, r, p, F, c))
  BY DEF Decoding
<1> DEFINE d == InFrame(b, k, r, p, F, c)
<1>2. d.previous = p /\ Heard(v.samples, epoch, lost, d)
  BY <1>1 DEF InFrame
<1> HIDE DEF d
<1>3. ~ (d.previous.scl = 1 /\ d.previous.sda = y) /\ Heard(v.samples, epoch, lost, d)
  BY <1>1, <1>2
<1>4. PICK e \in Sample : e.scl = 1 /\ e.sda = y /\ u.samples = Append(v.samples, e) /\ v.samples \in Seq(Sample)
  BY RiseNew
<1> HIDE DEF u
<1>4a. PICK x : /\ x.scl = e.scl /\ x.sda = e.sda
                /\ DecodeSample(d, x).previous = x => Heard(Append(v.samples, e), epoch, lost, DecodeSample(d, x))
  <2>1. ~ (d.previous.scl = e.scl /\ d.previous.sda = e.sda)
    BY <1>3, <1>4
  <2>2. QED
    BY <1>2, <1>4, <2>1, HeardNew
<1>4b. /\ x.scl = 1 /\ x.sda = y
       /\ DecodeSample(d, x).previous = x => Heard(u.samples, epoch, lost, DecodeSample(d, x))
  BY <1>4, <1>4a
<1>5. PICK n, next :
        /\ n \in Nat
        /\ next = (2 * b + y) % 256
        /\ k < 8 => DecodeSample(d, x) = InFrame(next, k + 1, r, x, F, n)
        /\ ~ (k < 8) => DecodeSample(d, x) = InFrame(0, 0, AddByte(r, b, y), x, F, n)
  <2>1. x.scl = 1 /\ x.sda = y /\ c \in Nat /\ p.scl = 0 /\ p.sda = sda
    BY <1>1, <1>4b
  <2>2. p.sda \in {0, 1} /\ x.sda \in {0, 1} /\ (p.sda = x.sda \/ k # 0)
    BY <2>1
  <2>3. IsBit(b, k, r, p, F, c, x)
    BY <2>1, <2>2, RiseIsBit
  <2>4. QED
    BY <2>1, <2>3 DEF d, IsBit
<1>6. n \in Nat
  BY <1>5
<1> HIDE DEF u
<1>7. DecodeSample(d, x).previous = x
  BY <1>5 DEF InFrame
<1>8. Heard(u.samples, epoch, lost, DecodeSample(d, x))
  BY <1>4b, <1>7
<1>9. ASSUME k < 8 PROVE Decoding(u, epoch, lost, next, k + 1, r, F, 1, y)
  <2>1. Heard(u.samples, epoch, lost, InFrame(next, k + 1, r, x, F, n))
    BY <1>5, <1>8, <1>9
  <2>2. QED
    BY <1>4b, <1>6, <2>1 DEF Decoding
<1>10. ASSUME ~ (k < 8) PROVE Decoding(u, epoch, lost, 0, 0, AddByte(r, b, y), F, 1, y)
  <2>1. Heard(u.samples, epoch, lost, InFrame(0, 0, AddByte(r, b, y), x, F, n))
    BY <1>5, <1>8, <1>10
  <2>2. QED
    BY <1>4b, <1>6, <2>1 DEF Decoding
<1>11. QED
  BY <1>5, <1>9, <1>10 DEF u, BitTaken

\* SDA falls while SCL is high.
LEMMA HeardStart ==
    ASSUME NEW v, WireType(v), NEW dt \in Int, NEW epoch \in Int, NEW lost,
           Len(v.samples) + 1 \notin lost, NEW F,
           Waiting(v, epoch, lost, F)
    PROVE  Decoding(Drive(v, dt, 1, 0), epoch, lost, 0, 0, EmptyRaw, F, 1, 0)
<1> DEFINE u == Drive(v, dt, 1, 0)
<1>1. PICK p, c : /\ c \in Nat /\ p.scl = 1 /\ p.sda = 1
                  /\ Heard(v.samples, epoch, lost, Outside(p, F, c))
  BY DEF Decoding, Waiting
<1> DEFINE d == Outside(p, F, c)
<1>2. d.previous = p /\ Heard(v.samples, epoch, lost, d)
  BY <1>1 DEF InFrame, Outside
<1> HIDE DEF d
<1>3. ~ (d.previous.scl = 1 /\ d.previous.sda = 0) /\ 1 \in {0, 1} /\ 0 \in {0, 1}
  BY <1>1, <1>2
<1>4. PICK e \in Sample : e.scl = 1 /\ e.sda = 0 /\ u.samples = Append(v.samples, e) /\ v.samples \in Seq(Sample)
  <2>1. 1 \in {0, 1} /\ 0 \in {0, 1}
    OBVIOUS
  <2>2. QED
    BY <2>1, DriveNew
<1> HIDE DEF u
<1>4a. PICK x : /\ x.scl = e.scl /\ x.sda = e.sda
                /\ DecodeSample(d, x).previous = x => Heard(Append(v.samples, e), epoch, lost, DecodeSample(d, x))
  <2>1. ~ (d.previous.scl = e.scl /\ d.previous.sda = e.sda)
    BY <1>3, <1>4
  <2>2. QED
    BY <1>2, <1>4, <2>1, HeardNew
<1>4b. /\ x.scl = 1 /\ x.sda = 0
       /\ DecodeSample(d, x).previous = x => Heard(u.samples, epoch, lost, DecodeSample(d, x))
  BY <1>4, <1>4a
<1>5. DecodeSample(d, x) = InFrame(0, 0, EmptyRaw, x, F, c)
  BY <1>1, <1>4b, FallIsStart DEF d
<1>6. DecodeSample(d, x).previous = x
  BY <1>5 DEF InFrame
<1>7. QED
  BY <1>1, <1>4b, <1>5, <1>6 DEF Decoding, u

\* The same within a frame.
LEMMA HeardRestart ==
    ASSUME NEW v, WireType(v), NEW dt \in Int, NEW epoch \in Int, NEW lost,
           Len(v.samples) + 1 \notin lost, NEW b, NEW k, NEW r, NEW F, NEW G,
           Decoding(v, epoch, lost, b, k, r, F, 1, 1),
           \A c \in Nat : finish_active_frame(CaptureOf(F, c), r, "RepeatedStart", RolledBack(k)) = CaptureOf(G, c)
    PROVE  Decoding(Drive(v, dt, 1, 0), epoch, lost, 0, 0, EmptyRaw, G, 1, 0)
<1> DEFINE u == Drive(v, dt, 1, 0)
<1>1. PICK p, c : /\ c \in Nat /\ p.scl = 1 /\ p.sda = 1
                  /\ Heard(v.samples, epoch, lost, InFrame(b, k, r, p, F, c))
  BY DEF Decoding, Waiting
<1> DEFINE d == InFrame(b, k, r, p, F, c)
<1>2. d.previous = p /\ Heard(v.samples, epoch, lost, d)
  BY <1>1 DEF InFrame, Outside
<1> HIDE DEF d
<1>3. ~ (d.previous.scl = 1 /\ d.previous.sda = 0) /\ 1 \in {0, 1} /\ 0 \in {0, 1}
  BY <1>1, <1>2
<1>4. PICK e \in Sample : e.scl = 1 /\ e.sda = 0 /\ u.samples = Append(v.samples, e) /\ v.samples \in Seq(Sample)
  <2>1. 1 \in {0, 1} /\ 0 \in {0, 1}
    OBVIOUS
  <2>2. QED
    BY <2>1, DriveNew
<1> HIDE DEF u
<1>4a. PICK x : /\ x.scl = e.scl /\ x.sda = e.sda
                /\ DecodeSample(d, x).previous = x => Heard(Append(v.samples, e), epoch, lost, DecodeSample(d, x))
  <2>1. ~ (d.previous.scl = e.scl /\ d.previous.sda = e.sda)
    BY <1>3, <1>4
  <2>2. QED
    BY <1>2, <1>4, <2>1, HeardNew
<1>4b. /\ x.scl = 1 /\ x.sda = 0
       /\ DecodeSample(d, x).previous = x => Heard(u.samples, epoch, lost, DecodeSample(d, x))
  BY <1>4, <1>4a
<1>5. DecodeSample(d, x) = InFrame(0, 0, EmptyRaw, x, G, c)
  <2>1. finish_active_frame(CaptureOf(F, c), r, "RepeatedStart", RolledBack(k)) = CaptureOf(G, c)
    BY <1>1
  <2>2. p.scl = 1 /\ p.sda = 1 /\ x.scl = 1 /\ x.sda = 0
    BY <1>1, <1>4b
  <2>3. QED
    BY <2>1, <2>2, FallIsRestart DEF d
<1>6. DecodeSample(d, x).previous = x
  BY <1>5 DEF InFrame, Outside
<1>7. QED
  BY <1>1, <1>4b, <1>5, <1>6 DEF Decoding, Waiting, u

\* SDA rises while SCL is high.
LEMMA HeardStop ==
    ASSUME NEW v, WireType(v), NEW dt \in Int, NEW epoch \in Int, NEW lost,
           Len(v.samples) + 1 \notin lost, NEW b, NEW k, NEW r, NEW F, NEW G,
           Decoding(v, epoch, lost, b, k, r, F, 1, 0),
           \A c \in Nat : finish_active_frame(CaptureOf(F, c), r, "Stop", RolledBack(k)) = CaptureOf(G, c)
    PROVE  Waiting(Drive(v, dt, 1, 1), epoch, lost, G)
<1> DEFINE u == Drive(v, dt, 1, 1)
<1>1. PICK p, c : /\ c \in Nat /\ p.scl = 1 /\ p.sda = 0
                  /\ Heard(v.samples, epoch, lost, InFrame(b, k, r, p, F, c))
  BY DEF Decoding, Waiting
<1> DEFINE d == InFrame(b, k, r, p, F, c)
<1>2. d.previous = p /\ Heard(v.samples, epoch, lost, d)
  BY <1>1 DEF InFrame, Outside
<1> HIDE DEF d
<1>3. ~ (d.previous.scl = 1 /\ d.previous.sda = 1) /\ 1 \in {0, 1} /\ 0 \in {0, 1}
  BY <1>1, <1>2
<1>4. PICK e \in Sample : e.scl = 1 /\ e.sda = 1 /\ u.samples = Append(v.samples, e) /\ v.samples \in Seq(Sample)
  <2>1. 1 \in {0, 1} /\ 1 \in {0, 1}
    OBVIOUS
  <2>2. QED
    BY <2>1, DriveNew
<1> HIDE DEF u
<1>4a. PICK x : /\ x.scl = e.scl /\ x.sda = e.sda
                /\ DecodeSample(d, x).previous = x => Heard(Append(v.samples, e), epoch, lost, DecodeSample(d, x))
  <2>1. ~ (d.previous.scl = e.scl /\ d.previous.sda = e.sda)
    BY <1>3, <1>4
  <2>2. QED
    BY <1>2, <1>4, <2>1, HeardNew
<1>4b. /\ x.scl = 1 /\ x.sda = 1
       /\ DecodeSample(d, x).previous = x => Heard(u.samples, epoch, lost, DecodeSample(d, x))
  BY <1>4, <1>4a
<1>5. DecodeSample(d, x) = Outside(x, G, c)
  <2>1. finish_active_frame(CaptureOf(F, c), r, "Stop", RolledBack(k)) = CaptureOf(G, c)
    BY <1>1
  <2>2. p.scl = 1 /\ p.sda = 0 /\ x.scl = 1 /\ x.sda = 1
    BY <1>1, <1>4b
  <2>3. QED
    BY <2>1, <2>2, RiseIsStop DEF d
<1>6. DecodeSample(d, x).previous = x
  BY <1>5 DEF InFrame, Outside
<1>7. QED
  BY <1>1, <1>4b, <1>5, <1>6 DEF Decoding, Waiting, u

-----------------------------------------------------------------------------

(* Bits, bytes and transfers.                                                  *)

SetUp(w, bit, low) == IF Sda(w) # bit THEN Drive(w, low \div 2, 0, bit) ELSE w
Clocked(v, dt, bit) == Drive(Drive(v, dt, 1, bit), HalfBit, 0, bit)

\* What Drive keeps, and that the new level may not be lost.
LEMMA DriveKeeps ==
    ASSUME NEW v, WireType(v), NEW dt \in Int, NEW scl \in {0, 1}, NEW sda \in {0, 1}
    PROVE  /\ WireType(Drive(v, dt, scl, sda)) /\ Drive(v, dt, scl, sda).setups = v.setups
           /\ Drive(v, dt, scl, sda).clocks = v.clocks /\ Sda(Drive(v, dt, scl, sda)) = sda
           /\ Len(Drive(v, dt, scl, sda).samples) = Len(v.samples) + 1 /\ Len(v.samples) \in Nat
           /\ Sda(v) \in {0, 1}
           /\ \A lost : Heeded(Drive(v, dt, scl, sda), lost) => Heeded(v, lost) /\ Len(v.samples) + 1 \notin lost
<1> DEFINE e == [t |-> v.t + dt, scl |-> scl, sda |-> sda]  u == Drive(v, dt, scl, sda)
<1>1. e = [t |-> v.t + dt, scl |-> scl, sda |-> sda] /\ u = Drive(v, dt, scl, sda)
  OBVIOUS
<1> HIDE DEF e, u
<1>2. /\ WireType(u) /\ u.setups = v.setups /\ u.clocks = v.clocks /\ Sda(u) = sda
      /\ Len(u.samples) = Len(v.samples) + 1 /\ Len(v.samples) \in Nat /\ Sda(v) \in {0, 1}
      /\ \A lost : Heeded(u, lost) => Heeded(v, lost) /\ Len(v.samples) + 1 \notin lost
  BY <1>1, DriveWire
<1>3. QED
  BY <1>2 DEF u

\* The wire after the setup of a bit.
LEMMA SetUpWire ==
    ASSUME NEW w, WireType(w), NEW bit \in {0, 1}, NEW low \in Nat, NEW v, v = SetUp(w, bit, low)
    PROVE  /\ WireType(v) /\ v.setups = w.setups /\ Len(w.samples) \in Nat /\ Sda(w) \in {0, 1}
           /\ Len(v.samples) = IF Sda(w) # bit THEN Len(w.samples) + 1 ELSE Len(w.samples)
<1>1. 0 \in {0, 1} /\ low \div 2 \in Int /\ 0 \in Int
  OBVIOUS
<1>2. /\ WireType(Drive(w, low \div 2, 0, bit)) /\ Drive(w, low \div 2, 0, bit).setups = w.setups
      /\ Len(Drive(w, low \div 2, 0, bit).samples) = Len(w.samples) + 1
      /\ Len(w.samples) \in Nat /\ Sda(w) \in {0, 1}
  BY <1>1, DriveKeeps
<1>3. QED
  BY <1>2 DEF SetUp

\* The wire after its clock.
LEMMA ClockedWire ==
    ASSUME NEW v, WireType(v), NEW dt \in Int, NEW bit \in {0, 1}, NEW c, c = Clocked(v, dt, bit)
    PROVE  /\ WireType(c) /\ c.setups = v.setups /\ c.clocks = v.clocks /\ Sda(c) = bit
           /\ Len(c.samples) = Len(v.samples) + 2 /\ Len(v.samples) \in Nat
<1>1. 0 \in {0, 1} /\ 1 \in {0, 1} /\ HalfBit \in Int
  BY WireAssumption
<1> DEFINE y == Drive(v, dt, 1, bit)
<1>2. /\ WireType(y) /\ y.setups = v.setups /\ y.clocks = v.clocks /\ Len(y.samples) = Len(v.samples) + 1
      /\ Len(v.samples) \in Nat
  BY <1>1, DriveKeeps
<1>3. c = Drive(y, HalfBit, 0, bit)
  BY DEF Clocked
<1> HIDE DEF y
<1>4. /\ WireType(c) /\ c.setups = y.setups /\ c.clocks = y.clocks /\ Len(c.samples) = Len(y.samples) + 1
      /\ Sda(c) = bit
  BY <1>1, <1>2, <1>3, DriveKeeps
<1>5. QED
  BY <1>2, <1>4

BitSent(w, bit, low, within, u) ==
    /\ WireType(u) /\ Sda(u) = bit
    /\ \E v : \E dt \in Int :
         /\ v = SetUp(w, bit, low) /\ WireType(v) /\ u.samples = Clocked(v, dt, bit).samples
         /\ \A lost : Heeded(u, lost) =>
              /\ Heeded(w, lost)
              /\ Len(w.samples) + 1 \in lost => Sda(w) # bit /\ within
              /\ Len(v.samples) + 1 \notin lost /\ Len(v.samples) + 2 \notin lost

\* What one bit adds to the wire, and which of its levels may be lost.
LEMMA BitWire ==
    ASSUME NEW w, WireType(w), NEW bit \in {0, 1}, NEW low \in Nat, NEW within \in BOOLEAN
    PROVE  BitSent(w, bit, low, within, SendBit(w, bit, low, within))
<1> DEFINE u == SendBit(w, bit, low, within)
           v == SetUp(w, bit, low)
           dt == low - (v.t - w.t)
           c == Clocked(v, dt, bit)
           rise == Len(v.samples) + 1
           kept == IF Sda(w) # bit /\ within THEN c.setups \cup {rise - 1} ELSE c.setups
           more == Append(c.clocks, {rise, rise + 1})
<1>1. u = [c EXCEPT !.clocks = Append(@, {rise, rise + 1}),
                    !.setups = IF Sda(w) # bit /\ within THEN @ \cup {rise - 1} ELSE @]
  BY DEF SendBit, SetUp, Clocked
<1> HIDE DEF u
<1>2. u = [c EXCEPT !.clocks = more, !.setups = kept]
  BY <1>1
<1>3. /\ WireType(v) /\ v.setups = w.setups /\ Len(w.samples) \in Nat
      /\ Len(v.samples) = IF Sda(w) # bit THEN Len(w.samples) + 1 ELSE Len(w.samples)
  BY SetUpWire
<1>4. dt \in Int
  <2>1. v.t \in Int /\ w.t \in Int
    BY <1>3 DEF WireType
  <2>2. QED
    BY <2>1
<1> HIDE DEF v, dt
<1>5. /\ WireType(c) /\ c.setups = v.setups /\ c.clocks = v.clocks /\ Sda(c) = bit
      /\ Len(c.samples) = Len(v.samples) + 2 /\ Len(v.samples) \in Nat
  BY <1>3, <1>4, ClockedWire, SMTT(30)
<1>6. /\ c.samples \in Seq(Sample) /\ c.t \in Int /\ c.clocks \in Seq(SUBSET Nat) /\ c.setups \in SUBSET Nat
      /\ c = [transfers |-> c.transfers, samples |-> c.samples, t |-> c.t, clocks |-> c.clocks, setups |-> c.setups]
      /\ w.setups \in SUBSET Nat /\ \A n \in w.setups : n <= Len(w.samples)
  BY <1>3, <1>5 DEF WireType
<1>7. more \in Seq(SUBSET Nat) /\ kept \in SUBSET Nat
  <2>1. rise \in Nat /\ rise + 1 \in Nat /\ rise - 1 \in Nat
    BY <1>5
  <2>2. {rise, rise + 1} \in SUBSET Nat
    BY <2>1
  <2> HIDE DEF rise, c
  <2>3. QED
    BY <1>6, <2>1, <2>2
<1> HIDE DEF c, more
<1>8. u = [transfers |-> c.transfers, samples |-> c.samples, t |-> c.t, clocks |-> more, setups |-> kept]
  <2> HIDE DEF kept
  <2>1. QED
    BY <1>2, <1>6
<1>9. /\ u.samples = c.samples /\ u.transfers = c.transfers /\ u.t = c.t /\ u.clocks = more /\ u.setups = kept
  <2> HIDE DEF kept
  <2>1. QED
    BY <1>8
<1>10. kept \subseteq w.setups \cup {Len(w.samples) + 1} /\ (Len(w.samples) + 1 \in kept => Sda(w) # bit /\ within)
  BY <1>3, <1>5, <1>6
<1>11. \A n \in kept : n <= Len(u.samples)
  BY <1>3, <1>5, <1>6, <1>9, <1>10
<1> HIDE DEF kept
<1>12. WireType(u)
  <2>1. u \in [transfers : {u.transfers}, samples : Seq(Sample), t : Int, clocks : Seq(SUBSET Nat), setups : SUBSET Nat]
    BY <1>6, <1>7, <1>8, <1>9
  <2>2. QED
    BY <1>9, <1>11, <2>1 DEF WireType
<1>13. Sda(u) = bit
  BY <1>5, <1>9 DEF Sda
<1>14. ASSUME NEW lost, Heeded(u, lost)
       PROVE  /\ Heeded(w, lost)
              /\ Len(w.samples) + 1 \in lost => Sda(w) # bit /\ within
              /\ Len(v.samples) + 1 \notin lost /\ Len(v.samples) + 2 \notin lost
  <2>1. lost \subseteq Nat /\ \A n \in lost : n <= Len(v.samples) + 2 => n \in kept
    BY <1>5, <1>9, <1>14 DEF Heeded
  <2>2. \A n \in lost : n <= Len(w.samples) => n \in w.setups
    BY <1>3, <1>10, <2>1
  <2>3. Len(w.samples) + 1 \in lost => Sda(w) # bit /\ within
    BY <1>3, <1>10, <2>1
  <2>4. Len(v.samples) + 1 \notin lost /\ Len(v.samples) + 2 \notin lost
    <3>1. CASE Sda(w) # bit
      <4>1. Len(v.samples) = Len(w.samples) + 1 /\ Len(w.samples) \in Nat
        BY <1>3, <3>1
      <4>2. \A n \in kept : n <= Len(w.samples) + 1
        BY <1>3, <1>6, <1>10
      <4>3. \A n \in lost : n <= Len(w.samples) + 3 => n <= Len(w.samples) + 1
        BY <2>1, <4>1, <4>2
      <4>4. QED
        BY <4>1, <4>3
    <3>2. CASE Sda(w) = bit
      <4>1. Len(v.samples) = Len(w.samples) /\ Len(w.samples) \in Nat
        BY <1>3, <3>2
      <4>2. \A n \in kept : n <= Len(w.samples)
        BY <1>3, <1>6, <1>10, <3>2
      <4>3. \A n \in lost : n <= Len(w.samples) + 2 => n <= Len(w.samples)
        BY <2>1, <4>1, <4>2
      <4>4. QED
        BY <4>1, <4>3
    <3>3. QED
      BY <3>1, <3>2
  <2>5. QED
    BY <2>1, <2>2, <2>3, <2>4 DEF Heeded
<1>15. v = SetUp(w, bit, low) /\ u.samples = Clocked(v, dt, bit).samples
  BY <1>9 DEF v, c
<1>16. QED
  BY <1>3, <1>4, <1>5, <1>12, <1>13, <1>14, <1>15 DEF u, BitSent

\* The setup of a bit, lost or not: the level before it is the bit, except within a byte.
LEMMA BitIsSetUp ==
    ASSUME NEW w, WireType(w), NEW bit \in {0, 1}, NEW low \in Nat, NEW epoch \in Int, NEW lost,
           NEW b, NEW k, NEW r, NEW F, Decoding(w, epoch, lost, b, k, r, F, 0, Sda(w)),
           Len(w.samples) + 1 \in lost => Sda(w) # bit /\ k # 0
    PROVE  \E sda \in {0, 1} : /\ k = 0 => sda = bit
                              /\ Decoding(SetUp(w, bit, low), epoch, lost, b, k, r, F, 0, sda)
<1>1. Sda(w) \in {0, 1}
  BY SetUpWire
<1>2. CASE Sda(w) = bit
  <2>1. SetUp(w, bit, low) = w
    BY <1>2 DEF SetUp
  <2>2. QED
    BY <1>2, <2>1
<1>3. CASE Sda(w) # bit
  <2>1. SetUp(w, bit, low) = Drive(w, low \div 2, 0, bit)
    BY <1>3 DEF SetUp
  <2>2. low \div 2 \in Int
    OBVIOUS
  <2>3. CASE Len(w.samples) + 1 \notin lost
    BY <2>1, <2>2, <2>3, HeardLow
  <2>4. CASE Len(w.samples) + 1 \in lost
    BY <1>1, <2>1, <2>2, <2>4, HeardLow
  <2>5. QED
    BY <2>3, <2>4
<1>4. QED
  BY <1>2, <1>3

\* The two edges of its clock are heard.
LEMMA ClockIsHeard ==
    ASSUME NEW v, WireType(v), NEW dt \in Int, NEW bit \in {0, 1}, NEW epoch \in Int, NEW lost,
           Len(v.samples) + 1 \notin lost, Len(v.samples) + 2 \notin lost,
           NEW b, NEW k \in 0 .. 8, NEW r, NEW F, NEW sda \in {0, 1}, k = 0 => sda = bit,
           Decoding(v, epoch, lost, b, k, r, F, 0, sda)
    PROVE  BitTaken(Clocked(v, dt, bit), epoch, lost, b, k, r, F, 0, bit)
<1> DEFINE y == Drive(v, dt, 1, bit)
<1>1. WireType(y) /\ Len(y.samples) = Len(v.samples) + 1 /\ Len(v.samples) \in Nat
  <2>1. 1 \in {0, 1}
    OBVIOUS
  <2>2. QED
    BY <2>1, DriveKeeps
<1>2. BitTaken(y, epoch, lost, b, k, r, F, 1, bit)
  BY HeardRise
<1>3. Clocked(v, dt, bit) = Drive(y, HalfBit, 0, bit)
  BY DEF Clocked
<1>4. HalfBit \in Int /\ Len(y.samples) + 1 \notin lost
  <2>1. Len(y.samples) + 1 = Len(v.samples) + 2
    BY <1>1
  <2>2. QED
    BY <2>1, WireAssumption
<1> HIDE DEF y
<1>5. ASSUME NEW b2, NEW k2, NEW r2, Decoding(y, epoch, lost, b2, k2, r2, F, 1, bit)
      PROVE  Decoding(Clocked(v, dt, bit), epoch, lost, b2, k2, r2, F, 0, bit)
  BY <1>1, <1>3, <1>4, <1>5, HeardLow
<1>6. QED
  BY <1>2, <1>5 DEF BitTaken

\* One bit more.
LEMMA BitIsHeard ==
    ASSUME NEW w, WireType(w), NEW bit \in {0, 1}, NEW low \in Nat, NEW within \in BOOLEAN, NEW epoch \in Int,
           NEW lost, Heeded(SendBit(w, bit, low, within), lost),
           NEW b, NEW k \in 0 .. 8, NEW r, NEW F, within => k # 0,
           Decoding(w, epoch, lost, b, k, r, F, 0, Sda(w))
    PROVE  BitTaken(SendBit(w, bit, low, within), epoch, lost, b, k, r, F, 0, bit)
<1> DEFINE u == SendBit(w, bit, low, within)
<1>1. PICK v : \E dt \in Int :
         /\ v = SetUp(w, bit, low) /\ u.samples = Clocked(v, dt, bit).samples
         /\ WireType(v) /\ Sda(u) = bit
         /\ Len(w.samples) + 1 \in lost => Sda(w) # bit /\ within
         /\ Len(v.samples) + 1 \notin lost /\ Len(v.samples) + 2 \notin lost
  <2>1. BitSent(w, bit, low, within, u)
    BY BitWire
  <2>2. Heeded(u, lost)
    OBVIOUS
  <2> HIDE DEF u
  <2>3. QED
    BY <2>1, <2>2 DEF BitSent
<1> HIDE DEF u
<1>2. PICK dt \in Int : u.samples = Clocked(v, dt, bit).samples
  BY <1>1
<1>3. PICK sda \in {0, 1} : (k = 0 => sda = bit) /\ Decoding(v, epoch, lost, b, k, r, F, 0, sda)
  BY <1>1, BitIsSetUp
<1>4. BitTaken(Clocked(v, dt, bit), epoch, lost, b, k, r, F, 0, bit)
  BY <1>1, <1>3, ClockIsHeard
<1>5. ASSUME NEW b2, NEW k2, NEW r2, Decoding(Clocked(v, dt, bit), epoch, lost, b2, k2, r2, F, 0, bit)
      PROVE  Decoding(u, epoch, lost, b2, k2, r2, F, 0, bit)
  BY <1>1, <1>2, <1>5 DEF Decoding
<1>6. QED
  BY <1>4, <1>5 DEF u, BitTaken

\* The folds of the sender.
ByteStep(v, byte, ack, i) ==
    SendBit(v, Append(BitsOf(byte), IF ack THEN 0 ELSE 1)[i], IF i = 1 THEN HalfBit + ByteGap ELSE HalfBit, i > 1)
ByteRun(f, w, byte, ack) ==
    /\ DOMAIN f = 0 .. 9 /\ f[0] = w
    /\ \A n \in 1 .. 9 : f[n] = ByteStep(f[n - 1], byte, ack, n)

\* The states SendByte passes through.
LEMMA ByteRunExists ==
    ASSUME NEW w, NEW byte, NEW ack
    PROVE  \E f : ByteRun(f, w, byte, ack) /\ SendByte(w, byte, ack) = f[9]
<1> DEFINE L == 9
           idx == [i \in 1 .. 9 |-> i]
           P(f, m) == /\ DOMAIN f = 0 .. m /\ f[0] = w
                      /\ \A n \in 1 .. m : f[n] = ByteStep(f[n - 1], byte, ack, n)
           S == {m \in 0 .. L : \E f : P(f, m)}
<1>0. L \in Nat /\ Len(idx) = L /\ \A n \in 1 .. L : idx[n] = n
  OBVIOUS
<1>1. 0 \in S
  <2>1. P([n \in 0 .. 0 |-> w], 0)
    OBVIOUS
  <2> HIDE DEF P
  <2>2. QED
    BY <1>0, <2>1
<1>2. ASSUME NEW m \in 1 .. L, m - 1 \in S PROVE m \in S
  <2>1. PICK f : P(f, m - 1)
    BY <1>2
  <2> DEFINE g == [n \in 0 .. m |-> IF n < m THEN f[n] ELSE ByteStep(f[m - 1], byte, ack, m)]
  <2> HIDE DEF idx
  <2>2. P(g, m)
    BY <1>0, <2>1
  <2> HIDE DEF P, g
  <2>3. QED
    BY <2>2
<1>3. L \in S
  <2> HIDE DEF S, L
  <2>1. 0 .. L \subseteq S
    BY <1>0, <1>1, <1>2, UpTo
  <2>2. QED
    BY <1>0, <2>1
<1>4. PICK f : P(f, L)
  BY <1>3
<1> DEFINE E(g) == g = [n \in 0 .. Len(idx) |->
                          IF n = 0 THEN {w} ELSE {ByteStep(a, byte, ack, idx[n]) : a \in g[n - 1]}]
           acc == CHOOSE g : E(g)
<1>5. E([n \in 0 .. L |-> {f[n]}])
  <2> DEFINE h == [n \in 0 .. L |-> {f[n]}]
  <2> HIDE DEF idx, L
  <2>1. h[0] = {w}
    BY <1>0, <1>4
  <2>2. ASSUME NEW n \in 1 .. L PROVE h[n] = {ByteStep(a, byte, ack, idx[n]) : a \in h[n - 1]}
    <3>1. h[n] = {f[n]} /\ h[n - 1] = {f[n - 1]} /\ idx[n] = n
      BY <1>0
    <3>2. f[n] = ByteStep(f[n - 1], byte, ack, n)
      BY <1>4
    <3> HIDE DEF h
    <3>3. QED
      BY <3>1, <3>2
  <2>3. DOMAIN h = 0 .. Len(idx) /\ h = [n \in DOMAIN h |-> h[n]]
    BY <1>0
  <2> HIDE DEF h
  <2>4. h = [n \in 0 .. Len(idx) |->
               IF n = 0 THEN {w} ELSE {ByteStep(a, byte, ack, idx[n]) : a \in h[n - 1]}]
    BY <1>0, <2>1, <2>2, <2>3
  <2>5. QED
    BY <2>4 DEF h
<1>6. E(acc)
  BY <1>5
<1>7. SendByte(w, byte, ack) = CHOOSE last \in acc[Len(idx)] : TRUE
  BY DEF SendByte, ByteStep, Scan
<1> HIDE DEF acc, S, idx, L
<1> DEFINE T == {n \in 0 .. L : acc[n] = {f[n]}}
<1>8. 0 \in T
  BY <1>0, <1>4, <1>6
<1>9. ASSUME NEW n \in 1 .. L, n - 1 \in T PROVE n \in T
  <2> n \in 0 .. Len(idx) /\ n # 0
    BY <1>0
  <2>1. acc[n] = {ByteStep(a, byte, ack, idx[n]) : a \in acc[n - 1]}
    BY <1>6, Zenon
  <2>2. acc[n - 1] = {f[n - 1]} /\ f[n] = ByteStep(f[n - 1], byte, ack, n) /\ idx[n] = n
    BY <1>0, <1>4, <1>9
  <2> HIDE DEF E, P
  <2>3. acc[n] = {f[n]}
    BY <2>1, <2>2
  <2>4. QED
    BY <2>3
<1>10. acc[Len(idx)] = {f[L]}
  <2> HIDE DEF T
  <2>1. 0 .. L \subseteq T
    BY <1>0, <1>8, <1>9, UpTo
  <2>2. QED
    BY <1>0, <2>1 DEF T
<1>11. QED
  BY <1>4, <1>7, <1>10 DEF ByteRun, L

BodyStep(v, transfer, i) == SendByte(v, transfer.bytes[i], transfer.acks[i])
BodyRun(f, w, transfer) ==
    /\ DOMAIN f = 0 .. Len(transfer.bytes) /\ f[0] = w
    /\ \A n \in 1 .. Len(transfer.bytes) : f[n] = BodyStep(f[n - 1], transfer, n)
Body(w, transfer) ==
    Scan(LAMBDA v, i : SendByte(v, transfer.bytes[i], transfer.acks[i]), w, [i \in DOMAIN transfer.bytes |-> i])

\* The states the bytes of a transfer pass through.
LEMMA BodyRunExists ==
    ASSUME NEW w, NEW A, NEW transfer, transfer.bytes \in Seq(A)
    PROVE  \E f : BodyRun(f, w, transfer) /\ Body(w, transfer) = f[Len(transfer.bytes)]
<1> DEFINE L == Len(transfer.bytes)
           idx == [i \in DOMAIN transfer.bytes |-> i]
           P(f, m) == /\ DOMAIN f = 0 .. m /\ f[0] = w
                      /\ \A n \in 1 .. m : f[n] = BodyStep(f[n - 1], transfer, n)
           S == {m \in 0 .. L : \E f : P(f, m)}
<1>0. L \in Nat /\ Len(idx) = L /\ \A n \in 1 .. L : idx[n] = n
  OBVIOUS
<1>1. 0 \in S
  <2>1. P([n \in 0 .. 0 |-> w], 0)
    OBVIOUS
  <2> HIDE DEF P
  <2>2. QED
    BY <1>0, <2>1
<1>2. ASSUME NEW m \in 1 .. L, m - 1 \in S PROVE m \in S
  <2>1. PICK f : P(f, m - 1)
    BY <1>2
  <2> DEFINE g == [n \in 0 .. m |-> IF n < m THEN f[n] ELSE BodyStep(f[m - 1], transfer, m)]
  <2> HIDE DEF idx
  <2>2. P(g, m)
    BY <1>0, <2>1
  <2> HIDE DEF P, g
  <2>3. QED
    BY <2>2
<1>3. L \in S
  <2> HIDE DEF S, L
  <2>1. 0 .. L \subseteq S
    BY <1>0, <1>1, <1>2, UpTo
  <2>2. QED
    BY <1>0, <2>1
<1>4. PICK f : P(f, L)
  BY <1>3
<1> DEFINE E(g) == g = [n \in 0 .. Len(idx) |->
                          IF n = 0 THEN {w} ELSE {BodyStep(a, transfer, idx[n]) : a \in g[n - 1]}]
           acc == CHOOSE g : E(g)
<1>5. E([n \in 0 .. L |-> {f[n]}])
  <2> DEFINE h == [n \in 0 .. L |-> {f[n]}]
  <2> HIDE DEF idx, L
  <2>1. h[0] = {w}
    BY <1>0, <1>4
  <2>2. ASSUME NEW n \in 1 .. L PROVE h[n] = {BodyStep(a, transfer, idx[n]) : a \in h[n - 1]}
    <3>1. h[n] = {f[n]} /\ h[n - 1] = {f[n - 1]} /\ idx[n] = n
      BY <1>0
    <3>2. f[n] = BodyStep(f[n - 1], transfer, n)
      BY <1>4
    <3> HIDE DEF h
    <3>3. QED
      BY <3>1, <3>2
  <2>3. DOMAIN h = 0 .. Len(idx) /\ h = [n \in DOMAIN h |-> h[n]]
    BY <1>0
  <2> HIDE DEF h
  <2>4. h = [n \in 0 .. Len(idx) |->
               IF n = 0 THEN {w} ELSE {BodyStep(a, transfer, idx[n]) : a \in h[n - 1]}]
    BY <1>0, <2>1, <2>2, <2>3
  <2>5. QED
    BY <2>4 DEF h
<1>6. E(acc)
  BY <1>5
<1>7. Body(w, transfer) = CHOOSE last \in acc[Len(idx)] : TRUE
  BY DEF Body, BodyStep, Scan
<1> HIDE DEF acc, S, idx, L
<1> DEFINE T == {n \in 0 .. L : acc[n] = {f[n]}}
<1>8. 0 \in T
  BY <1>0, <1>4, <1>6
<1>9. ASSUME NEW n \in 1 .. L, n - 1 \in T PROVE n \in T
  <2> n \in 0 .. Len(idx) /\ n # 0
    BY <1>0
  <2>1. acc[n] = {BodyStep(a, transfer, idx[n]) : a \in acc[n - 1]}
    BY <1>6, Zenon
  <2>2. acc[n - 1] = {f[n - 1]} /\ f[n] = BodyStep(f[n - 1], transfer, n) /\ idx[n] = n
    BY <1>0, <1>4, <1>9
  <2> HIDE DEF E, P
  <2>3. acc[n] = {f[n]}
    BY <2>1, <2>2
  <2>4. QED
    BY <2>3
<1>10. acc[Len(idx)] = {f[L]}
  <2> HIDE DEF T
  <2>1. 0 .. L \subseteq T
    BY <1>0, <1>8, <1>9, UpTo
  <2>2. QED
    BY <1>0, <2>1 DEF T
<1>11. QED
  BY <1>4, <1>7, <1>10 DEF BodyRun, L

LineStep(w, transfers, i) == SendTransfer(w, i > 1 /\ transfers[i - 1].end = "RepeatedStart", transfers[i])
Undriven(transfers) == [IdleWire EXCEPT !.transfers = transfers]
LineRun(f, transfers) ==
    /\ DOMAIN f = 0 .. Len(transfers) /\ f[0] = Undriven(transfers)
    /\ \A n \in 1 .. Len(transfers) : f[n] = LineStep(f[n - 1], transfers, n)

\* The states Transmit passes through.
LEMMA LineRunExists ==
    ASSUME NEW A, NEW transfers \in Seq(A)
    PROVE  \E f : LineRun(f, transfers) /\ Transmit(transfers) = f[Len(transfers)]
<1> DEFINE L == Len(transfers)
           idx == [i \in DOMAIN transfers |-> i]
           P(f, m) == /\ DOMAIN f = 0 .. m /\ f[0] = Undriven(transfers)
                      /\ \A n \in 1 .. m : f[n] = LineStep(f[n - 1], transfers, n)
           S == {m \in 0 .. L : \E f : P(f, m)}
<1>0. L \in Nat /\ Len(idx) = L /\ \A n \in 1 .. L : idx[n] = n
  OBVIOUS
<1>1. 0 \in S
  <2>1. P([n \in 0 .. 0 |-> Undriven(transfers)], 0)
    OBVIOUS
  <2> HIDE DEF P
  <2>2. QED
    BY <1>0, <2>1
<1>2. ASSUME NEW m \in 1 .. L, m - 1 \in S PROVE m \in S
  <2>1. PICK f : P(f, m - 1)
    BY <1>2
  <2> DEFINE g == [n \in 0 .. m |-> IF n < m THEN f[n] ELSE LineStep(f[m - 1], transfers, m)]
  <2> HIDE DEF idx
  <2>2. P(g, m)
    BY <1>0, <2>1
  <2> HIDE DEF P, g
  <2>3. QED
    BY <2>2
<1>3. L \in S
  <2> HIDE DEF S, L
  <2>1. 0 .. L \subseteq S
    BY <1>0, <1>1, <1>2, UpTo
  <2>2. QED
    BY <1>0, <2>1
<1>4. PICK f : P(f, L)
  BY <1>3
<1> DEFINE E(g) == g = [n \in 0 .. Len(idx) |->
                          IF n = 0 THEN {Undriven(transfers)} ELSE {LineStep(a, transfers, idx[n]) : a \in g[n - 1]}]
           acc == CHOOSE g : E(g)
<1>5. E([n \in 0 .. L |-> {f[n]}])
  <2> DEFINE h == [n \in 0 .. L |-> {f[n]}]
  <2> HIDE DEF idx, L
  <2>1. h[0] = {Undriven(transfers)}
    BY <1>0, <1>4
  <2>2. ASSUME NEW n \in 1 .. L PROVE h[n] = {LineStep(a, transfers, idx[n]) : a \in h[n - 1]}
    <3>1. h[n] = {f[n]} /\ h[n - 1] = {f[n - 1]} /\ idx[n] = n
      BY <1>0
    <3>2. f[n] = LineStep(f[n - 1], transfers, n)
      BY <1>4
    <3> HIDE DEF h
    <3>3. QED
      BY <3>1, <3>2
  <2>3. DOMAIN h = 0 .. Len(idx) /\ h = [n \in DOMAIN h |-> h[n]]
    BY <1>0
  <2> HIDE DEF h
  <2>4. h = [n \in 0 .. Len(idx) |->
               IF n = 0 THEN {Undriven(transfers)} ELSE {LineStep(a, transfers, idx[n]) : a \in h[n - 1]}]
    BY <1>0, <2>1, <2>2, <2>3
  <2>5. QED
    BY <2>4 DEF h
<1>6. E(acc)
  BY <1>5
<1>7. Transmit(transfers) = CHOOSE last \in acc[Len(idx)] : TRUE
  BY DEF Transmit, LineStep, Undriven, Scan
<1> HIDE DEF acc, S, idx, L
<1> DEFINE T == {n \in 0 .. L : acc[n] = {f[n]}}
<1>8. 0 \in T
  BY <1>0, <1>4, <1>6
<1>9. ASSUME NEW n \in 1 .. L, n - 1 \in T PROVE n \in T
  <2> n \in 0 .. Len(idx) /\ n # 0
    BY <1>0
  <2>1. acc[n] = {LineStep(a, transfers, idx[n]) : a \in acc[n - 1]}
    BY <1>6, Zenon
  <2>2. acc[n - 1] = {f[n - 1]} /\ f[n] = LineStep(f[n - 1], transfers, n) /\ idx[n] = n
    BY <1>0, <1>4, <1>9
  <2> HIDE DEF E, P
  <2>3. acc[n] = {f[n]}
    BY <2>1, <2>2
  <2>4. QED
    BY <2>3
<1>10. acc[Len(idx)] = {f[L]}
  <2> HIDE DEF T
  <2>1. 0 .. L \subseteq T
    BY <1>0, <1>8, <1>9, UpTo
  <2>2. QED
    BY <1>0, <2>1 DEF T
<1>11. QED
  BY <1>4, <1>7, <1>10 DEF LineRun, L

\* The i-th bit of a byte and its acknowledge, and the first n bits as a number.
AckBit(ack) == IF ack THEN 0 ELSE 1
BitAt(byte, ack, i) == Append(BitsOf(byte), AckBit(ack))[i]
Weight == <<128, 64, 32, 16, 8, 4, 2, 1>>
FirstBits(byte, n) == IF n = 0 THEN 0 ELSE byte \div Weight[n]

\* Halving a byte.
LEMMA HalvedOnce ==
    ASSUME NEW x \in 0 .. 255, NEW w \in Nat, w > 0
    PROVE  /\ x \div w = 2 * (x \div (2 * w)) \/ x \div w = 2 * (x \div (2 * w)) + 1
           /\ x \div w \in 0 .. 255 /\ x \div (2 * w) \in Int
OBVIOUS

\* A number from its half and its last bit.
LEMMA HalvedTwice ==
    ASSUME NEW q \in 0 .. 255, NEW h \in Int, q = 2 * h \/ q = 2 * h + 1, NEW m, m = q % 2
    PROVE  (2 * h + m) % 256 = q /\ m \in {0, 1}
<1>1. q = 2 * h \/ q = 2 * h + 1
  OBVIOUS
<1>2. q \in 0 .. 255 /\ h \in Int
  OBVIOUS
<1>3. q = 2 * h + m /\ m \in {0, 1}
  <2>1. CASE q = 2 * h
    <3>1. m = 0
      BY <1>2, <2>1
    <3>2. QED
      BY <1>2, <2>1, <3>1
  <2>2. CASE q = 2 * h + 1
    <3>1. m = 1
      BY <1>2, <2>2
    <3>2. QED
      BY <1>2, <2>2, <3>1
  <2>3. QED
    BY <1>1, <2>1, <2>2
<1>4. q % 256 = q
  BY <1>2
<1>5. (2 * h + m) % 256 = q
  BY <1>3, <1>4
<1>6. QED
  BY <1>3, <1>5

\* What is at each place of a sequence that has got one member more.
LEMMA AppendedPlaces ==
    ASSUME NEW A, NEW s \in Seq(A), NEW e \in A
    PROVE  /\ \A i \in 1 .. Len(s) : Append(s, e)[i] = s[i]
           /\ Append(s, e)[Len(s) + 1] = e
OBVIOUS

\* The nine bits of a byte.
LEMMA BitsOfByte ==
    ASSUME NEW byte \in 0 .. 255, NEW ack
    PROVE  /\ \A i \in 1 .. 8 : BitAt(byte, ack, i) = (byte \div Weight[i]) % 2
           /\ BitAt(byte, ack, 9) = AckBit(ack)
           /\ \A i \in 1 .. 9 : BitAt(byte, ack, i) \in {0, 1}
<1> DEFINE bits == BitsOf(byte)
<1>1. bits = [i \in 1 .. 8 |-> (byte \div Weight[i]) % 2]
  BY DEF BitsOf, Weight
<1>2. \A i \in 1 .. 8 : Weight[i] \in {1, 2, 4, 8, 16, 32, 64, 128}
  BY DEF Weight
<1>3. \A i \in 1 .. 8 : (byte \div Weight[i]) % 2 \in {0, 1}
  <2>1. ASSUME NEW i \in 1 .. 8 PROVE (byte \div Weight[i]) % 2 \in {0, 1}
    <3> DEFINE q == byte \div Weight[i]
    <3>1. q \in Int
      BY <1>2
    <3> HIDE DEF q
    <3>2. q % 2 \in {0, 1}
      BY <3>1
    <3>3. QED
      BY <3>2 DEF q
  <2>2. QED
    BY <2>1
<1> HIDE DEF bits
<1>4. bits \in Seq({0, 1}) /\ Len(bits) = 8 /\ AckBit(ack) \in {0, 1}
  BY <1>1, <1>3 DEF AckBit
<1>5. /\ \A i \in 1 .. 8 : Append(bits, AckBit(ack))[i] = bits[i]
      /\ Append(bits, AckBit(ack))[9] = AckBit(ack)
  <2> DEFINE a == AckBit(ack)
  <2>1. a \in Int /\ bits \in Seq(Int) /\ Len(bits) = 8
    BY <1>4
  <2> HIDE DEF a
  <2>2. /\ \A i \in 1 .. Len(bits) : Append(bits, a)[i] = bits[i]
        /\ Append(bits, a)[Len(bits) + 1] = a
    BY <2>1, AppendedPlaces, ZenonT(30)
  <2>3. \A i \in 1 .. 8 : Append(bits, a)[i] = bits[i]
    BY <2>1, <2>2
  <2>4. Append(bits, a)[9] = a
    <3>1. Len(bits) + 1 = 9
      BY <2>1
    <3>2. QED
      BY <2>2, <3>1
  <2>5. QED
    BY <2>3, <2>4 DEF a
<1>6. \A i \in 1 .. 9 : i \in 1 .. 8 \/ i = 9
  OBVIOUS
<1>7. QED
  BY <1>1, <1>3, <1>4, <1>5, <1>6 DEF BitAt, bits

\* Shifting in the next bit gives the longer prefix (decode_capture).
LEMMA NextBit ==
    ASSUME NEW byte \in 0 .. 255, NEW ack, NEW n \in 1 .. 8
    PROVE  (2 * FirstBits(byte, n - 1) + BitAt(byte, ack, n)) % 256 = FirstBits(byte, n)
<1>1. BitAt(byte, ack, n) = (byte \div Weight[n]) % 2
  BY BitsOfByte
<1>2. CASE n = 1
  <2>1. Weight[1] = 128 /\ FirstBits(byte, n - 1) = 0 /\ FirstBits(byte, n) = byte \div 128
    BY <1>2 DEF Weight, FirstBits
  <2>2. byte \div 256 = 0
    OBVIOUS
  <2>3. QED
    BY <1>1, <1>2, <2>1
<1>3. CASE n # 1
  <2>1. n \in 2 .. 8 /\ n - 1 \in 1 .. 7
    BY <1>3
  <2>2. Weight[n] \in {1, 2, 4, 8, 16, 32, 64, 128} /\ Weight[n - 1] = 2 * Weight[n]
    BY <2>1 DEF Weight
  <2>3. FirstBits(byte, n - 1) = byte \div (2 * Weight[n]) /\ FirstBits(byte, n) = byte \div Weight[n]
    BY <2>1, <2>2 DEF FirstBits
  <2> DEFINE w == Weight[n]  q == byte \div w  h == byte \div (2 * w)
  <2>4. w \in Nat /\ w > 0
    BY <2>2
  <2>5. FirstBits(byte, n - 1) = h /\ FirstBits(byte, n) = q /\ BitAt(byte, ack, n) = q % 2
    BY <1>1, <2>3
  <2> HIDE DEF w
  <2> HIDE DEF q, h
  <2> DEFINE m == BitAt(byte, ack, n)
  <2>7. m = q % 2
    BY <2>5
  <2> HIDE DEF m
  <2>8. (q = 2 * h \/ q = 2 * h + 1) /\ q \in 0 .. 255 /\ h \in Int
    BY <2>4, HalvedOnce DEF q, h
  <2>9. (2 * h + m) % 256 = q
    BY <2>7, <2>8, HalvedTwice
  <2>10. QED
    BY <2>5, <2>9 DEF m
<1>4. QED
  BY <1>2, <1>3

BitLow(i) == IF i = 1 THEN HalfBit + ByteGap ELSE HalfBit

\* One of the nine bits of a byte: what it adds, and that it is heard.
LEMMA BitOfByte ==
    ASSUME NEW v, WireType(v), NEW byte \in 0 .. 255, NEW ack, NEW i \in 1 .. 9
    PROVE  /\ WireType(ByteStep(v, byte, ack, i)) /\ Sda(ByteStep(v, byte, ack, i)) = BitAt(byte, ack, i)
           /\ \A lost : Heeded(ByteStep(v, byte, ack, i), lost) => Heeded(v, lost)
<1> DEFINE bit == BitAt(byte, ack, i)  low == BitLow(i)  within == i > 1  k == i - 1  u == ByteStep(v, byte, ack, i)
<1>1. u = SendBit(v, bit, low, within)
  BY DEF ByteStep, BitAt, AckBit, BitLow
<1>2. bit \in {0, 1}
  BY BitsOfByte
<1>3. low \in Nat
  BY WireAssumption DEF BitLow
<1>4. within \in BOOLEAN /\ k \in 0 .. 8 /\ (within => k # 0)
  OBVIOUS
<1> HIDE DEF bit, low, within, k, u
<1>5. BitSent(v, bit, low, within, SendBit(v, bit, low, within))
  BY <1>2, <1>3, <1>4, BitWire
<1>6. WireType(u) /\ Sda(u) = bit /\ \A lost : Heeded(u, lost) => Heeded(v, lost)
  BY <1>1, <1>5 DEF BitSent
<1>7. QED
  BY <1>6 DEF u, bit

\* One of the nine bits is heard.
LEMMA BitOfByteIsHeard ==
    ASSUME NEW v, WireType(v), NEW byte \in 0 .. 255, NEW ack, NEW i \in 1 .. 9, NEW epoch \in Int, NEW lost,
           NEW b, NEW r, NEW F, Heeded(ByteStep(v, byte, ack, i), lost),
           Decoding(v, epoch, lost, b, i - 1, r, F, 0, Sda(v))
    PROVE  BitTaken(ByteStep(v, byte, ack, i), epoch, lost, b, i - 1, r, F, 0, BitAt(byte, ack, i))
<1> DEFINE bit == BitAt(byte, ack, i)  low == BitLow(i)  within == i > 1  k == i - 1  u == ByteStep(v, byte, ack, i)
<1>1. u = SendBit(v, bit, low, within)
  BY DEF ByteStep, BitAt, AckBit, BitLow
<1>2. bit \in {0, 1}
  BY BitsOfByte
<1>3. low \in Nat
  BY WireAssumption DEF BitLow
<1>4. within \in BOOLEAN /\ k \in 0 .. 8 /\ (within => k # 0)
  OBVIOUS
<1>5. Heeded(u, lost) /\ Decoding(v, epoch, lost, b, k, r, F, 0, Sda(v))
  OBVIOUS
<1> HIDE DEF bit, low, within, k, u
<1>6. BitTaken(u, epoch, lost, b, k, r, F, 0, bit)
  BY <1>1, <1>2, <1>3, <1>4, <1>5, BitIsHeard
<1>7. QED
  BY <1>6 DEF u, k, bit

\* A byte: the wire it leaves.
LEMMA ByteWire ==
    ASSUME NEW w, WireType(w), NEW byte \in 0 .. 255, NEW ack, NEW f, ByteRun(f, w, byte, ack)
    PROVE  \A n \in 0 .. 9 : /\ WireType(f[n]) /\ (n > 0 => Sda(f[n]) = BitAt(byte, ack, n))
                             /\ \A lost : Heeded(f[9], lost) => Heeded(f[n], lost)
<1>1. f[0] = w /\ \A n \in 1 .. 9 : f[n] = ByteStep(f[n - 1], byte, ack, n)
  BY DEF ByteRun
<1> DEFINE S == {n \in 0 .. 9 : WireType(f[n]) /\ (n > 0 => Sda(f[n]) = BitAt(byte, ack, n))}
<1>2. 0 \in S
  BY <1>1
<1>3. ASSUME NEW n \in 1 .. 9, n - 1 \in S PROVE n \in S
  <2>1. f[n] = ByteStep(f[n - 1], byte, ack, n) /\ WireType(f[n - 1]) /\ n \in 0 .. 9
    BY <1>1, <1>3
  <2>2. WireType(f[n]) /\ Sda(f[n]) = BitAt(byte, ack, n)
    BY <2>1, BitOfByte, SMTT(30)
  <2>3. QED
    BY <2>1, <2>2
<1>4. 0 .. 9 \subseteq S
  <2> HIDE DEF S
  <2>1. QED
    BY <1>2, <1>3, UpTo
<1> DEFINE T == {m \in 0 .. 9 : \A lost : Heeded(f[9], lost) => Heeded(f[9 - m], lost)}
<1>5. 0 \in T
  OBVIOUS
<1>6. ASSUME NEW m \in 1 .. 9, m - 1 \in T PROVE m \in T
  <2> DEFINE n == 10 - m
  <2>1. n \in 1 .. 9 /\ n - 1 = 9 - m /\ n = 9 - (m - 1) /\ m \in 0 .. 9
    OBVIOUS
  <2>2. \A lost : Heeded(f[9], lost) => Heeded(f[n], lost)
    BY <1>6, <2>1
  <2> HIDE DEF n, T
  <2>3. f[n] = ByteStep(f[n - 1], byte, ack, n) /\ WireType(f[n - 1])
    <3>1. n - 1 \in 0 .. 9
      BY <2>1
    <3>2. QED
      BY <1>1, <1>4, <2>1, <3>1
  <2>4. \A lost : Heeded(f[n], lost) => Heeded(f[n - 1], lost)
    <3> DEFINE v == f[n - 1]
    <3>1. f[n] = ByteStep(v, byte, ack, n) /\ WireType(v)
      BY <2>3
    <3> HIDE DEF v
    <3>2. \A lost : Heeded(ByteStep(v, byte, ack, n), lost) => Heeded(v, lost)
      BY <2>1, <3>1, BitOfByte
    <3>3. QED
      BY <3>1, <3>2 DEF v
  <2>5. \A lost : Heeded(f[9], lost) => Heeded(f[9 - m], lost)
    BY <2>1, <2>2, <2>4
  <2>6. QED
    BY <2>1, <2>5 DEF T
<1>7. 0 .. 9 \subseteq T
  <2> HIDE DEF T
  <2>1. QED
    BY <1>5, <1>6, UpTo
<1>8. ASSUME NEW n \in 0 .. 9 PROVE /\ WireType(f[n]) /\ (n > 0 => Sda(f[n]) = BitAt(byte, ack, n))
                                    /\ \A lost : Heeded(f[9], lost) => Heeded(f[n], lost)
  <2>1. 9 - n \in T /\ 9 - (9 - n) = n /\ n \in S
    BY <1>4, <1>7
  <2>2. QED
    BY <2>1
<1>9. QED
  BY <1>8

\* A byte: the wire, its last level, and what may be lost.
LEMMA ByteSent ==
    ASSUME NEW w, WireType(w), NEW byte \in 0 .. 255, NEW ack
    PROVE  /\ WireType(SendByte(w, byte, ack)) /\ Sda(SendByte(w, byte, ack)) = AckBit(ack)
           /\ \A lost : Heeded(SendByte(w, byte, ack), lost) => Heeded(w, lost)
<1>1. PICK f : ByteRun(f, w, byte, ack) /\ SendByte(w, byte, ack) = f[9]
  BY ByteRunExists
<1>2. /\ WireType(f[9]) /\ Sda(f[9]) = BitAt(byte, ack, 9)
      /\ \A lost : Heeded(f[9], lost) => Heeded(f[0], lost)
  <2>1. 9 \in 0 .. 9 /\ 0 \in 0 .. 9 /\ 9 > 0
    OBVIOUS
  <2>2. \A n \in 0 .. 9 : /\ WireType(f[n]) /\ (n > 0 => Sda(f[n]) = BitAt(byte, ack, n))
                          /\ \A lost : Heeded(f[9], lost) => Heeded(f[n], lost)
    BY <1>1, ByteWire
  <2>3. QED
    BY <2>1, <2>2
<1>3. f[0] = w /\ BitAt(byte, ack, 9) = AckBit(ack)
  BY <1>1, BitsOfByte DEF ByteRun
<1>4. QED
  BY <1>1, <1>2, <1>3

\* A whole byte with its acknowledge joins the frame.
LEMMA ByteIsHeard ==
    ASSUME NEW w, WireType(w), NEW byte \in 0 .. 255, NEW ack, NEW epoch \in Int, NEW lost, NEW r, NEW F,
           Heeded(SendByte(w, byte, ack), lost), Decoding(w, epoch, lost, 0, 0, r, F, 0, Sda(w))
    PROVE  Decoding(SendByte(w, byte, ack), epoch, lost, 0, 0, AddByte(r, byte, AckBit(ack)), F, 0,
                    Sda(SendByte(w, byte, ack)))
<1>1. PICK f : ByteRun(f, w, byte, ack) /\ SendByte(w, byte, ack) = f[9]
  BY ByteRunExists
<1>2. f[0] = w /\ \A n \in 1 .. 9 : f[n] = ByteStep(f[n - 1], byte, ack, n)
  BY <1>1 DEF ByteRun
<1>3. \A n \in 0 .. 9 : /\ WireType(f[n]) /\ (n > 0 => Sda(f[n]) = BitAt(byte, ack, n))
                        /\ \A l : Heeded(f[9], l) => Heeded(f[n], l)
  BY <1>1, ByteWire
<1>4. Heeded(f[9], lost)
  BY <1>1
<1>5. ASSUME NEW n \in 1 .. 9, NEW b, Decoding(f[n - 1], epoch, lost, b, n - 1, r, F, 0, Sda(f[n - 1]))
      PROVE  BitTaken(f[n], epoch, lost, b, n - 1, r, F, 0, Sda(f[n])) /\ Sda(f[n]) = BitAt(byte, ack, n)
  <2> DEFINE v == f[n - 1]
  <2>1. n - 1 \in 0 .. 9 /\ n \in 0 .. 9 /\ n > 0
    OBVIOUS
  <2>2. f[n] = ByteStep(v, byte, ack, n) /\ WireType(v) /\ Sda(f[n]) = BitAt(byte, ack, n) /\ Heeded(f[n], lost)
    BY <1>2, <1>3, <1>4, <2>1
  <2>3. Decoding(v, epoch, lost, b, n - 1, r, F, 0, Sda(v))
    BY <1>5
  <2> HIDE DEF v
  <2>4. BitTaken(ByteStep(v, byte, ack, n), epoch, lost, b, n - 1, r, F, 0, BitAt(byte, ack, n))
    BY <2>2, <2>3, BitOfByteIsHeard
  <2>5. QED
    BY <2>2, <2>4
<1> DEFINE S == {n \in 0 .. 8 : Decoding(f[n], epoch, lost, FirstBits(byte, n), n, r, F, 0, Sda(f[n]))}
<1>6. 0 \in S
  BY <1>2 DEF FirstBits
<1>7. ASSUME NEW n \in 1 .. 8, n - 1 \in S PROVE n \in S
  <2> DEFINE b == FirstBits(byte, n - 1)
  <2>1. n \in 1 .. 9 /\ n \in 0 .. 8 /\ n - 1 < 8 /\ (n - 1) + 1 = n
    OBVIOUS
  <2>2. Decoding(f[n - 1], epoch, lost, b, n - 1, r, F, 0, Sda(f[n - 1]))
    BY <1>7
  <2>3. (2 * b + BitAt(byte, ack, n)) % 256 = FirstBits(byte, n)
    BY NextBit
  <2> HIDE DEF b
  <2>4. BitTaken(f[n], epoch, lost, b, n - 1, r, F, 0, Sda(f[n])) /\ Sda(f[n]) = BitAt(byte, ack, n)
    BY <1>5, <2>1, <2>2
  <2>5. Decoding(f[n], epoch, lost, (2 * b + Sda(f[n])) % 256, (n - 1) + 1, r, F, 0, Sda(f[n]))
    BY <2>1, <2>4 DEF BitTaken
  <2>6. Decoding(f[n], epoch, lost, FirstBits(byte, n), n, r, F, 0, Sda(f[n]))
    BY <2>1, <2>3, <2>4, <2>5
  <2>7. QED
    BY <2>1, <2>6
<1>8. Decoding(f[8], epoch, lost, FirstBits(byte, 8), 8, r, F, 0, Sda(f[8]))
  <2> HIDE DEF S
  <2>1. 0 .. 8 \subseteq S
    BY <1>6, <1>7, UpTo
  <2>2. 8 \in S
    BY <2>1
  <2>3. QED
    BY <2>2 DEF S
<1>9. FirstBits(byte, 8) = byte
  <2>1. Weight[8] = 1 /\ byte \div 1 = byte
    BY DEF Weight
  <2>2. QED
    BY <2>1 DEF FirstBits
<1>10. BitTaken(f[9], epoch, lost, byte, 8, r, F, 0, Sda(f[9])) /\ Sda(f[9]) = BitAt(byte, ack, 9)
  <2>1. 9 \in 1 .. 9 /\ 9 - 1 = 8
    OBVIOUS
  <2>2. QED
    BY <1>5, <1>8, <1>9, <2>1
<1>11. BitAt(byte, ack, 9) = AckBit(ack)
  BY BitsOfByte
<1>12. Decoding(f[9], epoch, lost, 0, 0, AddByte(r, byte, Sda(f[9])), F, 0, Sda(f[9]))
  BY <1>10 DEF BitTaken
<1>13. QED
  BY <1>1, <1>10, <1>11, <1>12

\* A frame that has not filled up takes the byte in.
LEMMA ByteIsAdded ==
    ASSUME NEW bytes, NEW acks, Len(bytes) < MAX_DATA_BYTES + 1, NEW byte, NEW ack \in BOOLEAN
    PROVE  AddByte(RawOf(bytes, acks), byte, AckBit(ack)) = RawOf(Append(bytes, byte), Append(acks, ack))
<1>1. (AckBit(ack) = 0) = ack
  <2>1. CASE ack = TRUE
    BY <2>1 DEF AckBit
  <2>2. CASE ack = FALSE
    BY <2>2 DEF AckBit
  <2>3. QED
    BY <2>1, <2>2
<1> DEFINE raw == RawOf(bytes, acks)  more == Append(acks, ack)
<1>2. raw.bytes = bytes /\ raw.acks = acks
  BY DEF RawOf
<1>3. AddByte(raw, byte, AckBit(ack)) =
        [raw EXCEPT !.bytes = Append(@, byte), !.acks = Append(@, AckBit(ack) = 0)]
  BY <1>2 DEF AddByte
<1>4. Append(acks, AckBit(ack) = 0) = more
  BY <1>1, Zenon
<1> HIDE DEF more
<1>5. [raw EXCEPT !.bytes = Append(@, byte), !.acks = Append(@, AckBit(ack) = 0)] =
        [raw EXCEPT !.bytes = Append(bytes, byte), !.acks = more]
  BY <1>2, <1>4
<1>6. [raw EXCEPT !.bytes = Append(bytes, byte), !.acks = more] = RawOf(Append(bytes, byte), more)
  <2> DEFINE t == FALSE  longer == Append(bytes, byte)
  <2>1. raw = [bytes |-> bytes, acks |-> acks, truncated |-> t]
    BY DEF RawOf
  <2>2. RawOf(longer, more) = [bytes |-> longer, acks |-> more, truncated |-> t]
    BY DEF RawOf
  <2> HIDE DEF t, raw, longer
  <2> DEFINE y == [raw EXCEPT !.bytes = longer]
  <2>3. [raw EXCEPT !.bytes = longer, !.acks = more] = [y EXCEPT !.acks = more]
    OBVIOUS
  <2>4. y = [bytes |-> longer, acks |-> acks, truncated |-> t]
    BY <2>1
  <2> HIDE DEF y
  <2>5. [y EXCEPT !.acks = more] = [bytes |-> longer, acks |-> more, truncated |-> t]
    BY <2>4
  <2>6. QED
    BY <2>2, <2>3, <2>5 DEF longer
<1>7. QED
  BY <1>3, <1>5, <1>6 DEF more

\* One level more that has not been lost.
LEMMA LevelIsHeard ==
    ASSUME NEW v, WireType(v), NEW dt \in Int, NEW y \in {0, 1}, NEW epoch \in Int, NEW lost,
           Heeded(Drive(v, dt, 0, y), lost),
           NEW b, NEW k, NEW r, NEW F, NEW scl, NEW sda, Decoding(v, epoch, lost, b, k, r, F, scl, sda)
    PROVE  Decoding(Drive(v, dt, 0, y), epoch, lost, b, k, r, F, 0, y)
<1>1. Len(v.samples) + 1 \notin lost
  <2>1. 0 \in {0, 1}
    OBVIOUS
  <2>2. QED
    BY <2>1, DriveKeeps
<1>2. QED
  BY <1>1, HeardLow

\* A START.
LEMMA StartSent ==
    ASSUME NEW w, WireType(w)
    PROVE  /\ WireType(SendStart(w)) /\ Sda(SendStart(w)) = 0
           /\ \A lost : Heeded(SendStart(w), lost) => Heeded(w, lost)
           /\ \A epoch \in Int : \A lost, F :
                Heeded(SendStart(w), lost) /\ Waiting(w, epoch, lost, F)
                  => Decoding(SendStart(w), epoch, lost, 0, 0, EmptyRaw, F, 0, 0)
<1> DEFINE x == Drive(w, IdleTime, 1, 0)  u == Drive(x, HalfBit, 0, 0)
<1>1. 0 \in {0, 1} /\ 1 \in {0, 1} /\ IdleTime \in Int /\ HalfBit \in Int
  BY WireAssumption
<1>2. WireType(x) /\ \A lost : Heeded(x, lost) => Heeded(w, lost) /\ Len(w.samples) + 1 \notin lost
  BY <1>1, DriveKeeps
<1>3. ASSUME NEW epoch \in Int, NEW lost, NEW F, Heeded(x, lost), Waiting(w, epoch, lost, F)
      PROVE  Decoding(x, epoch, lost, 0, 0, EmptyRaw, F, 1, 0)
  BY <1>1, <1>2, <1>3, HeardStart
<1> HIDE DEF x
<1>4. WireType(u) /\ Sda(u) = 0 /\ \A lost : Heeded(u, lost) => Heeded(x, lost)
  BY <1>1, <1>2, DriveKeeps
<1>5. ASSUME NEW epoch \in Int, NEW lost, NEW F, Heeded(u, lost), Decoding(x, epoch, lost, 0, 0, EmptyRaw, F, 1, 0)
      PROVE  Decoding(u, epoch, lost, 0, 0, EmptyRaw, F, 0, 0)
  BY <1>1, <1>2, <1>5, LevelIsHeard
<1>6. SendStart(w) = u
  BY DEF SendStart, x
<1> HIDE DEF u
<1>7. QED
  BY <1>2, <1>3, <1>4, <1>5, <1>6

\* SDA is brought to the level from which the boundary condition starts.
Prepared(w, y) == IF Sda(w) = 1 - y THEN Drive(w, HalfBit, 0, y) ELSE w
Raised(w, y) == Drive(Prepared(w, y), HalfBit, 1, y)

\* SCL is raised before a boundary: the decoder takes it for a first bit.
LEMMA RaisedKeeps ==
    ASSUME NEW w, WireType(w), NEW y \in {0, 1}
    PROVE  /\ WireType(Raised(w, y)) /\ \A lost : Heeded(Raised(w, y), lost) => Heeded(w, lost)
           /\ \A epoch \in Int : \A lost, r, F :
                Heeded(Raised(w, y), lost) /\ Decoding(w, epoch, lost, 0, 0, r, F, 0, Sda(w))
                  => \E b : Decoding(Raised(w, y), epoch, lost, b, 1, r, F, 1, y)
<1> DEFINE v == Prepared(w, y)  u == Drive(v, HalfBit, 1, y)
<1>1. 0 \in {0, 1} /\ 1 \in {0, 1} /\ HalfBit \in Int /\ Sda(w) \in {0, 1}
  <2>1. 0 \in {0, 1} /\ 1 \in {0, 1} /\ HalfBit \in Int
    BY WireAssumption
  <2>2. QED
    BY <2>1, DriveKeeps
<1>2. /\ WireType(v) /\ \A lost : Heeded(v, lost) => Heeded(w, lost)
      /\ \A epoch \in Int : \A lost, r, F :
           Heeded(v, lost) /\ Decoding(w, epoch, lost, 0, 0, r, F, 0, Sda(w))
             => Decoding(v, epoch, lost, 0, 0, r, F, 0, y)
  <2>1. CASE Sda(w) = 1 - y
    <3> DEFINE d == Drive(w, HalfBit, 0, y)
    <3>1. v = d
      BY <2>1 DEF Prepared
    <3>2. WireType(d) /\ \A lost : Heeded(d, lost) => Heeded(w, lost)
      BY <1>1, DriveKeeps
    <3>3. ASSUME NEW epoch \in Int, NEW lost, NEW r, NEW F, Heeded(d, lost),
                 Decoding(w, epoch, lost, 0, 0, r, F, 0, Sda(w))
          PROVE  Decoding(d, epoch, lost, 0, 0, r, F, 0, y)
      BY <1>1, <3>3, LevelIsHeard
    <3> HIDE DEF d, v
    <3>4. QED
      BY <3>1, <3>2, <3>3
  <2>2. CASE Sda(w) # 1 - y
    <3>1. v = w /\ Sda(w) = y
      BY <1>1, <2>2 DEF Prepared
    <3> HIDE DEF v
    <3>2. QED
      BY <3>1
  <2>3. QED
    BY <2>1, <2>2
<1> HIDE DEF v
<1>3. WireType(u) /\ \A lost : Heeded(u, lost) => Heeded(v, lost) /\ Len(v.samples) + 1 \notin lost
  BY <1>1, <1>2, DriveKeeps
<1>4. ASSUME NEW epoch \in Int, NEW lost, NEW r, NEW F, Heeded(u, lost), Decoding(v, epoch, lost, 0, 0, r, F, 0, y)
      PROVE  \E b : Decoding(u, epoch, lost, b, 1, r, F, 1, y)
  <2>1. 0 \in 0 .. 8 /\ Len(v.samples) + 1 \notin lost
    BY <1>3, <1>4
  <2>2. BitTaken(u, epoch, lost, 0, 0, r, F, 1, y)
    BY <1>1, <1>2, <1>4, <2>1, HeardRise
  <2>3. 0 < 8 /\ 0 + 1 = 1
    OBVIOUS
  <2> HIDE DEF u
  <2>4. QED
    BY <2>2, <2>3 DEF BitTaken
<1>5. Raised(w, y) = u
  BY DEF Raised, v
<1> HIDE DEF u
<1>6. QED
  BY <1>2, <1>3, <1>4, <1>5

\* The frame r that ends in end joins the frames F.
Joins(F, r, end, G) ==
    \A c \in Nat : finish_active_frame(CaptureOf(F, c), r, end, RolledBack(1)) = CaptureOf(G, c)

\* A STOP, which takes that bit back.
LEMMA StopSent ==
    ASSUME NEW w, WireType(w)
    PROVE  /\ WireType(SendStop(w))
           /\ \A lost : Heeded(SendStop(w), lost) => Heeded(w, lost)
           /\ \A epoch \in Int : \A lost, r, F, G :
                Heeded(SendStop(w), lost) /\ Decoding(w, epoch, lost, 0, 0, r, F, 0, Sda(w)) /\ Joins(F, r, "Stop", G)
                  => Waiting(SendStop(w), epoch, lost, G)
<1> DEFINE x == Raised(w, 0)  u == Drive(x, HalfBit, 1, 1)
<1>1. 0 \in {0, 1} /\ 1 \in {0, 1} /\ HalfBit \in Int
  BY WireAssumption
<1>2. /\ WireType(x) /\ \A lost : Heeded(x, lost) => Heeded(w, lost)
      /\ \A epoch \in Int : \A lost, r, F :
           Heeded(x, lost) /\ Decoding(w, epoch, lost, 0, 0, r, F, 0, Sda(w))
             => \E b : Decoding(x, epoch, lost, b, 1, r, F, 1, 0)
  BY <1>1, RaisedKeeps
<1> HIDE DEF x
<1>3. WireType(u) /\ \A lost : Heeded(u, lost) => Heeded(x, lost) /\ Len(x.samples) + 1 \notin lost
  BY <1>1, <1>2, DriveKeeps
<1>4. ASSUME NEW epoch \in Int, NEW lost, NEW b, NEW r, NEW F, NEW G, Heeded(u, lost),
             Decoding(x, epoch, lost, b, 1, r, F, 1, 0), Joins(F, r, "Stop", G)
      PROVE  Waiting(u, epoch, lost, G)
  <2>1. Len(x.samples) + 1 \notin lost
    BY <1>3, <1>4
  <2>2. \A c \in Nat : finish_active_frame(CaptureOf(F, c), r, "Stop", RolledBack(1)) = CaptureOf(G, c)
    BY <1>4 DEF Joins
  <2>3. QED
    BY <1>1, <1>2, <1>4, <2>1, <2>2, HeardStop
<1>5. SendStop(w) = u
  <2>1. 1 - 0 = 1
    OBVIOUS
  <2>2. QED
    BY <2>1 DEF SendStop, x, Raised, Prepared
<1> HIDE DEF u
<1>6. QED
  BY <1>2, <1>3, <1>4, <1>5

\* The same for a repeated START.
LEMMA RepeatedStartSent ==
    ASSUME NEW w, WireType(w)
    PROVE  /\ WireType(SendRepeatedStart(w)) /\ Sda(SendRepeatedStart(w)) = 0
           /\ \A lost : Heeded(SendRepeatedStart(w), lost) => Heeded(w, lost)
           /\ \A epoch \in Int : \A lost, r, F, G :
                Heeded(SendRepeatedStart(w), lost) /\ Decoding(w, epoch, lost, 0, 0, r, F, 0, Sda(w))
                /\ Joins(F, r, "RepeatedStart", G)
                  => Decoding(SendRepeatedStart(w), epoch, lost, 0, 0, EmptyRaw, G, 0, 0)
<1> DEFINE x == Raised(w, 1)  v == Drive(x, HalfBit, 1, 0)  u == Drive(v, HalfBit, 0, 0)
<1>1. 0 \in {0, 1} /\ 1 \in {0, 1} /\ HalfBit \in Int
  BY WireAssumption
<1>2. /\ WireType(x) /\ \A lost : Heeded(x, lost) => Heeded(w, lost)
      /\ \A epoch \in Int : \A lost, r, F :
           Heeded(x, lost) /\ Decoding(w, epoch, lost, 0, 0, r, F, 0, Sda(w))
             => \E b : Decoding(x, epoch, lost, b, 1, r, F, 1, 1)
  BY <1>1, RaisedKeeps
<1> HIDE DEF x
<1>3. WireType(v) /\ \A lost : Heeded(v, lost) => Heeded(x, lost) /\ Len(x.samples) + 1 \notin lost
  BY <1>1, <1>2, DriveKeeps
<1>4. ASSUME NEW epoch \in Int, NEW lost, NEW b, NEW r, NEW F, NEW G, Heeded(v, lost),
             Decoding(x, epoch, lost, b, 1, r, F, 1, 1), Joins(F, r, "RepeatedStart", G)
      PROVE  Decoding(v, epoch, lost, 0, 0, EmptyRaw, G, 1, 0)
  <2>1. Len(x.samples) + 1 \notin lost
    BY <1>3, <1>4
  <2>2. \A c \in Nat : finish_active_frame(CaptureOf(F, c), r, "RepeatedStart", RolledBack(1)) = CaptureOf(G, c)
    BY <1>4 DEF Joins
  <2>3. QED
    BY <1>1, <1>2, <1>4, <2>1, <2>2, HeardRestart
<1> HIDE DEF v
<1>5. WireType(u) /\ Sda(u) = 0 /\ \A lost : Heeded(u, lost) => Heeded(v, lost)
  BY <1>1, <1>3, DriveKeeps
<1>6. ASSUME NEW epoch \in Int, NEW lost, NEW G, Heeded(u, lost), Decoding(v, epoch, lost, 0, 0, EmptyRaw, G, 1, 0)
      PROVE  Decoding(u, epoch, lost, 0, 0, EmptyRaw, G, 0, 0)
  BY <1>1, <1>3, <1>6, LevelIsHeard
<1>7. SendRepeatedStart(w) = u
  <2>1. 1 - 1 = 0
    OBVIOUS
  <2>2. QED
    BY <2>1 DEF SendRepeatedStart, x, v, Raised, Prepared
<1> HIDE DEF u
<1>8. QED
  BY <1>2, <1>3, <1>4, <1>5, <1>6, <1>7

\* The first n bytes of a transfer.
RawFirst(t, n) == RawOf(SubSeq(t.bytes, 1, n), SubSeq(t.acks, 1, n))

\* The first n of a sequence are the first n - 1 and its n-th.
LEMMA FirstOfSequence ==
    ASSUME NEW A, NEW s \in Seq(A), NEW n \in 1 .. Len(s)
    PROVE  SubSeq(s, 1, n) = Append(SubSeq(s, 1, n - 1), s[n]) /\ Len(SubSeq(s, 1, n - 1)) = n - 1
<1>1. 1 \in 1 .. Len(s) /\ n \in 1 .. Len(s) /\ n - 1 \in Int /\ \A i \in 1 .. n - 1 : s[i] \in A
  OBVIOUS
<1>2. SubSeq(s, 1, n) = SubSeq(s, 1, n - 1) \o <<s[n]>>
  BY <1>1, SubSeqRecursiveSecond
<1>3. SubSeq(s, 1, n - 1) \in Seq(A) /\ Len(SubSeq(s, 1, n - 1)) = IF 1 <= n - 1 THEN (n - 1) - 1 + 1 ELSE 0
  BY <1>1, SubSeqProperties
<1>4. s[n] \in A
  OBVIOUS
<1>5. SubSeq(s, 1, n - 1) \o <<s[n]>> = Append(SubSeq(s, 1, n - 1), s[n])
  BY <1>3, <1>4, AppendIsConcat
<1>6. QED
  BY <1>2, <1>3, <1>5

\* The raw frame grows byte by byte to that of the transfer.
LEMMA RawSteps ==
    ASSUME NEW t, GoodTransfer(t)
    PROVE  /\ RawFirst(t, 0) = EmptyRaw /\ RawFirst(t, Len(t.bytes)) = RawOf(t.bytes, t.acks)
           /\ \A n \in 1 .. Len(t.bytes) :
                AddByte(RawFirst(t, n - 1), t.bytes[n], AckBit(t.acks[n])) = RawFirst(t, n)
<1>1. /\ t.bytes \in Seq(0 .. 255) /\ t.acks \in Seq(BOOLEAN) /\ Len(t.acks) = Len(t.bytes)
      /\ Len(t.bytes) \in 1 .. MAX_DATA_BYTES + 1 /\ MAX_DATA_BYTES \in Nat
  BY DecoderAssumption DEF GoodTransfer
<1>2. SubSeq(t.bytes, 1, 0) = <<>> /\ SubSeq(t.acks, 1, 0) = <<>>
  <2>1. 0 < 1 /\ 1 \in Int /\ 0 \in Int
    OBVIOUS
  <2>2. QED
    BY <2>1, SubSeqEmpty
<1>3. SubSeq(t.bytes, 1, Len(t.bytes)) = t.bytes /\ SubSeq(t.acks, 1, Len(t.bytes)) = t.acks
  <2>1. SubSeq(t.bytes, 1, Len(t.bytes)) = t.bytes
    BY <1>1, SubSeqFull
  <2>2. SubSeq(t.acks, 1, Len(t.acks)) = t.acks
    BY <1>1, SubSeqFull
  <2>3. QED
    BY <1>1, <2>1, <2>2
<1>4. ASSUME NEW n \in 1 .. Len(t.bytes)
      PROVE  AddByte(RawFirst(t, n - 1), t.bytes[n], AckBit(t.acks[n])) = RawFirst(t, n)
  <2>1. /\ SubSeq(t.bytes, 1, n) = Append(SubSeq(t.bytes, 1, n - 1), t.bytes[n])
        /\ Len(SubSeq(t.bytes, 1, n - 1)) = n - 1
    BY <1>1, FirstOfSequence
  <2>2. SubSeq(t.acks, 1, n) = Append(SubSeq(t.acks, 1, n - 1), t.acks[n])
    <3>1. n \in 1 .. Len(t.acks)
      BY <1>1
    <3>2. QED
      BY <1>1, <3>1, FirstOfSequence
  <2>3. Len(SubSeq(t.bytes, 1, n - 1)) < MAX_DATA_BYTES + 1
    BY <1>1, <2>1
  <2>4. t.acks[n] \in BOOLEAN
    <3>1. n \in 1 .. Len(t.acks)
      BY <1>1
    <3>2. QED
      BY <1>1, <3>1, ElementOfSeq
  <2> DEFINE bs == SubSeq(t.bytes, 1, n - 1)  as == SubSeq(t.acks, 1, n - 1)  ack == t.acks[n]  byte == t.bytes[n]
  <2>5. ack \in BOOLEAN /\ Len(bs) < MAX_DATA_BYTES + 1
    BY <2>3, <2>4
  <2>6. RawFirst(t, n - 1) = RawOf(bs, as) /\ RawFirst(t, n) = RawOf(Append(bs, byte), Append(as, ack))
    BY <2>1, <2>2 DEF RawFirst
  <2> HIDE DEF bs, as, ack, byte
  <2>7. AddByte(RawOf(bs, as), byte, AckBit(ack)) = RawOf(Append(bs, byte), Append(as, ack))
    BY <2>5, ByteIsAdded
  <2>8. QED
    BY <2>6, <2>7 DEF ack, byte
<1>5. RawFirst(t, 0) = EmptyRaw /\ RawFirst(t, Len(t.bytes)) = RawOf(t.bytes, t.acks)
  BY <1>2, <1>3 DEF RawFirst, RawOf, EmptyRaw
<1>6. QED
  BY <1>4, <1>5

\* The bytes of a transfer.
LEMMA BodySent ==
    ASSUME NEW w, WireType(w), NEW t, GoodTransfer(t)
    PROVE  /\ WireType(Body(w, t))
           /\ \A lost : Heeded(Body(w, t), lost) => Heeded(w, lost)
           /\ \A epoch \in Int : \A lost, F :
                Heeded(Body(w, t), lost) /\ Decoding(w, epoch, lost, 0, 0, EmptyRaw, F, 0, Sda(w))
                  => Decoding(Body(w, t), epoch, lost, 0, 0, RawOf(t.bytes, t.acks), F, 0, Sda(Body(w, t)))
<1> DEFINE L == Len(t.bytes)
<1>1. t.bytes \in Seq(0 .. 255) /\ L \in Nat /\ \A n \in 1 .. L : t.bytes[n] \in 0 .. 255
  <2>1. t.bytes \in Seq(0 .. 255) /\ L \in Nat
    BY DEF GoodTransfer
  <2>2. ASSUME NEW n \in 1 .. L PROVE t.bytes[n] \in 0 .. 255
    BY <2>1, ElementOfSeq
  <2>3. QED
    BY <2>1, <2>2
<1>2. PICK f : BodyRun(f, w, t) /\ Body(w, t) = f[L]
  BY <1>1, BodyRunExists
<1>3. f[0] = w /\ \A n \in 1 .. L : f[n] = SendByte(f[n - 1], t.bytes[n], t.acks[n])
  BY <1>2 DEF BodyRun, BodyStep
<1> HIDE DEF L
<1> DEFINE Sent(n) ==
             /\ WireType(f[n])
             /\ \A lost : Heeded(f[n], lost) => Heeded(w, lost)
             /\ \A epoch \in Int : \A lost, F :
                  Heeded(f[n], lost) /\ Decoding(w, epoch, lost, 0, 0, EmptyRaw, F, 0, Sda(w))
                    => Decoding(f[n], epoch, lost, 0, 0, RawFirst(t, n), F, 0, Sda(f[n]))
           S == {n \in 0 .. L : Sent(n)}
<1>4. 0 \in S
  <2>1. RawFirst(t, 0) = EmptyRaw
    BY RawSteps
  <2>2. QED
    BY <1>1, <1>3, <2>1
<1>5. ASSUME NEW n \in 1 .. L, n - 1 \in S PROVE n \in S
  <2> DEFINE v == f[n - 1]  u == f[n]  byte == t.bytes[n]  ack == t.acks[n]  r == RawFirst(t, n - 1)
  <2>1. u = SendByte(v, byte, ack) /\ byte \in 0 .. 255 /\ n \in 0 .. L
    <3>1. f[n] = SendByte(f[n - 1], t.bytes[n], t.acks[n])
      BY <1>3
    <3>2. t.bytes[n] \in 0 .. 255
      BY <1>1
    <3>3. n \in 0 .. L
      BY <1>1
    <3>4. QED
      BY <3>1, <3>2, <3>3
  <2>2. /\ WireType(v)
        /\ \A lost : Heeded(v, lost) => Heeded(w, lost)
        /\ \A epoch \in Int : \A lost, F :
              Heeded(v, lost) /\ Decoding(w, epoch, lost, 0, 0, EmptyRaw, F, 0, Sda(w))
                  => Decoding(v, epoch, lost, 0, 0, r, F, 0, Sda(v))
    BY <1>5
  <2>3. AddByte(r, byte, AckBit(ack)) = RawFirst(t, n)
    BY RawSteps DEF L
  <2> HIDE DEF v, u, byte, ack, r, S
  <2>4. WireType(u) /\ \A lost : Heeded(u, lost) => Heeded(v, lost)
    BY <2>1, <2>2, ByteSent
  <2>5. ASSUME NEW epoch \in Int, NEW lost, NEW F, Heeded(u, lost), Decoding(v, epoch, lost, 0, 0, r, F, 0, Sda(v))
        PROVE  Decoding(u, epoch, lost, 0, 0, RawFirst(t, n), F, 0, Sda(u))
    BY <2>1, <2>2, <2>3, <2>5, ByteIsHeard
  <2>6. /\ WireType(u)
        /\ \A lost : Heeded(u, lost) => Heeded(w, lost)
        /\ \A epoch \in Int : \A lost, F :
              Heeded(u, lost) /\ Decoding(w, epoch, lost, 0, 0, EmptyRaw, F, 0, Sda(w))
                  => Decoding(u, epoch, lost, 0, 0, RawFirst(t, n), F, 0, Sda(u))
    BY <2>2, <2>4, <2>5
  <2>7. QED
    BY <2>1, <2>6 DEF u, S
<1>6. L \in S
  <2> HIDE DEF S
  <2>1. 0 .. L \subseteq S
    BY <1>1, <1>4, <1>5, UpTo
  <2>2. QED
    BY <1>1, <2>1
<1>7. RawFirst(t, L) = RawOf(t.bytes, t.acks)
  BY RawSteps DEF L
<1>8. QED
  BY <1>2, <1>6, <1>7

\* Where the decoder is between two transfers: within the next one after a repeated START.
Between(w, started, epoch, lost, F) ==
    IF started THEN Decoding(w, epoch, lost, 0, 0, EmptyRaw, F, 0, Sda(w)) ELSE Waiting(w, epoch, lost, F)

\* The START of a transfer, if it is not started yet.
LEMMA BeginSent ==
    ASSUME NEW w, WireType(w), NEW started, NEW v, v = IF started THEN w ELSE SendStart(w)
    PROVE  /\ WireType(v)
           /\ \A lost : Heeded(v, lost) => Heeded(w, lost)
           /\ \A epoch \in Int : \A lost, F :
                Heeded(v, lost) /\ Between(w, started, epoch, lost, F)
                  => Decoding(v, epoch, lost, 0, 0, EmptyRaw, F, 0, Sda(v))
<1>1. CASE started
  BY <1>1 DEF Between
<1>2. CASE ~ started
  <2>1. v = SendStart(w)
    BY <1>2
  <2>2. WireType(v) /\ Sda(v) = 0 /\ \A lost : Heeded(v, lost) => Heeded(w, lost)
    BY <2>1, StartSent
  <2>3. ASSUME NEW epoch \in Int, NEW lost, NEW F, Heeded(v, lost), Between(w, started, epoch, lost, F)
        PROVE  Decoding(v, epoch, lost, 0, 0, EmptyRaw, F, 0, Sda(v))
    BY <1>2, <2>1, <2>2, <2>3, StartSent DEF Between
  <2>4. QED
    BY <2>2, <2>3
<1>3. QED
  BY <1>1, <1>2

\* A transfer: its frame joins those before it.
LEMMA TransferSent ==
    ASSUME NEW w, WireType(w), NEW started, NEW t, GoodTransfer(t), NEW next, next = (t.end = "RepeatedStart")
    PROVE  /\ WireType(SendTransfer(w, started, t))
           /\ \A lost : Heeded(SendTransfer(w, started, t), lost) => Heeded(w, lost)
           /\ \A epoch \in Int : \A lost, F, G :
                /\ Heeded(SendTransfer(w, started, t), lost) /\ Between(w, started, epoch, lost, F)
                /\ Joins(F, RawOf(t.bytes, t.acks), t.end, G)
                => Between(SendTransfer(w, started, t), next, epoch, lost, G)
<1> DEFINE v == IF started THEN w ELSE SendStart(w)
           body == Body(v, t)
           u == IF t.end = "Stop" THEN SendStop(body) ELSE SendRepeatedStart(body)
<1>1. SendTransfer(w, started, t) = u
  BY DEF SendTransfer, Body
<1>2. /\ WireType(v)
      /\ \A lost : Heeded(v, lost) => Heeded(w, lost)
      /\ \A epoch \in Int : \A lost, F :
           Heeded(v, lost) /\ Between(w, started, epoch, lost, F)
             => Decoding(v, epoch, lost, 0, 0, EmptyRaw, F, 0, Sda(v))
  BY BeginSent
<1> HIDE DEF v
<1>3. /\ WireType(body)
      /\ \A lost : Heeded(body, lost) => Heeded(v, lost)
      /\ \A epoch \in Int : \A lost, F :
           Heeded(body, lost) /\ Decoding(v, epoch, lost, 0, 0, EmptyRaw, F, 0, Sda(v))
             => Decoding(body, epoch, lost, 0, 0, RawOf(t.bytes, t.acks), F, 0, Sda(body))
  BY <1>2, BodySent
<1> HIDE DEF body
<1>4. CASE t.end = "Stop"
  <2>1. u = SendStop(body) /\ ~ next
    BY <1>4
  <2> HIDE DEF u
  <2>2. /\ WireType(u)
        /\ \A lost : Heeded(u, lost) => Heeded(body, lost)
        /\ \A epoch \in Int : \A lost, r, F, G :
             Heeded(u, lost) /\ Decoding(body, epoch, lost, 0, 0, r, F, 0, Sda(body)) /\ Joins(F, r, "Stop", G)
               => Waiting(u, epoch, lost, G)
    BY <1>3, <2>1, StopSent
  <2>3. QED
    BY <1>1, <1>2, <1>3, <1>4, <2>1, <2>2 DEF Between
<1>5. CASE t.end = "RepeatedStart"
  <2>1. u = SendRepeatedStart(body) /\ next
    BY <1>5
  <2> HIDE DEF u
  <2>2. /\ WireType(u) /\ Sda(u) = 0
        /\ \A lost : Heeded(u, lost) => Heeded(body, lost)
        /\ \A epoch \in Int : \A lost, r, F, G :
             Heeded(u, lost) /\ Decoding(body, epoch, lost, 0, 0, r, F, 0, Sda(body))
             /\ Joins(F, r, "RepeatedStart", G)
               => Decoding(u, epoch, lost, 0, 0, EmptyRaw, G, 0, 0)
    BY <1>3, <2>1, RepeatedStartSent
  <2>3. QED
    BY <1>1, <1>2, <1>3, <1>5, <2>1, <2>2 DEF Between
<1>6. QED
  BY <1>4, <1>5 DEF GoodTransfer

\* The frames of the first n transfers.
FrameSent(t) == FrameOf(RawOf(t.bytes, t.acks), t.end, 0)
Frames(ts, n) == [i \in 1 .. n |-> FrameSent(ts[i])]
StartedAfter(ts, n) == n > 0 /\ ts[n].end = "RepeatedStart"

\* The frames of one transfer more.
LEMMA FramesNext ==
    ASSUME NEW ts, NEW n \in Nat \ {0}
    PROVE  /\ Frames(ts, 0) = <<>> /\ Frames(ts, n) = Append(Frames(ts, n - 1), FrameSent(ts[n]))
           /\ Len(Frames(ts, n - 1)) = n - 1
<1> DEFINE A == {FrameSent(ts[i]) : i \in 1 .. n}  s == Frames(ts, n - 1)  e == FrameSent(ts[n])
<1>1. s \in Seq(A) /\ Len(s) = n - 1 /\ e \in A /\ \A i \in 1 .. n - 1 : s[i] = FrameSent(ts[i])
  BY DEF Frames
<1>2. Frames(ts, 0) = <<>>
  BY DEF Frames
<1>3. Frames(ts, n) = Append(s, e)
  <2> HIDE DEF A, s
  <2> DEFINE r == Append(s, e)
  <2>1. r \in Seq(A) /\ Len(r) = n /\ r[n] = e /\ \A i \in 1 .. n - 1 : r[i] = FrameSent(ts[i])
    <3> HIDE DEF e
    <3>1. r \in Seq(A) /\ Len(r) = Len(s) + 1 /\ r[Len(s) + 1] = e /\ \A i \in 1 .. Len(s) : r[i] = s[i]
      BY <1>1, AppendProperties
    <3> HIDE DEF r
    <3>2. QED
      BY <1>1, <3>1
  <2> HIDE DEF r
  <2>2. \A i \in 1 .. n : r[i] = FrameSent(ts[i])
    <3>1. \A i \in 1 .. n : i \in 1 .. n - 1 \/ i = n
      OBVIOUS
    <3>2. QED
      BY <2>1, <3>1
  <2>3. r = [i \in 1 .. n |-> r[i]]
    BY <2>1
  <2>4. r = Frames(ts, n)
    BY <2>2, <2>3 DEF Frames
  <2>5. QED
    BY <2>4 DEF r
<1>4. QED
  BY <1>1, <1>2, <1>3

\* The frame of a transfer finds room.
LEMMA FrameJoins ==
    ASSUME NEW t, GoodTransfer(t), NEW F, Len(F) < MAX_FRAMES
    PROVE  Joins(F, RawOf(t.bytes, t.acks), t.end, Append(F, FrameSent(t)))
<1>1. t.bytes # <<>> /\ t.end \in {"Stop", "RepeatedStart"}
  BY DEF GoodTransfer
<1>2. QED
  BY <1>1, FrameIsAppended DEF Joins, FrameSent

\* Before the first transfer.
LEMMA NothingSent ==
    ASSUME NEW ts
    PROVE  /\ WireType(Undriven(ts))
           /\ \A epoch \in Int : \A lost : Waiting(Undriven(ts), epoch, lost, <<>>)
<1> DEFINE w == Undriven(ts)
<1>1. w = [transfers |-> ts, samples |-> <<>>, t |-> 0, clocks |-> <<>>, setups |-> {}]
  <2> DEFINE e == <<>>  z == {}
  <2>1. IdleWire = [transfers |-> e, samples |-> e, t |-> 0, clocks |-> e, setups |-> z]
    BY DEF IdleWire
  <2>2. w = [IdleWire EXCEPT !.transfers = ts]
    BY DEF Undriven
  <2> HIDE DEF e, z, w
  <2>3. w = [transfers |-> ts, samples |-> e, t |-> 0, clocks |-> e, setups |-> z]
    BY <2>1, <2>2
  <2>4. QED
    BY <2>3 DEF e, z
<1> HIDE DEF w
<1>2. w.transfers = ts /\ w.samples = <<>> /\ w.t = 0 /\ w.clocks = <<>> /\ w.setups = {}
  BY <1>1
<1>3. <<>> \in Seq(Sample) /\ <<>> \in Seq(SUBSET Nat) /\ {} \in SUBSET Nat /\ 0 \in Int
  OBVIOUS
<1>4. w \in [transfers : {w.transfers}, samples : Seq(Sample), t : Int, clocks : Seq(SUBSET Nat), setups : SUBSET Nat]
  BY <1>1, <1>2, <1>3
<1>5. WireType(w)
  BY <1>2, <1>4 DEF WireType
<1>6. ASSUME NEW epoch \in Int, NEW lost PROVE Waiting(w, epoch, lost, <<>>)
  <2>1. Heard(w.samples, epoch, lost, Outside(Idle, <<>>, 0))
    BY <1>2, HeardNothing DEF Fresh
  <2>2. 0 \in Nat /\ Idle.scl = 1 /\ Idle.sda = 1
    BY DEF Idle
  <2>3. QED
    BY <2>1, <2>2 DEF Waiting
<1>7. QED
  BY <1>5, <1>6 DEF w

\* A step of Transmit is a transfer.
LEMMA LineStepped ==
    ASSUME NEW w, NEW ts, NEW n \in Nat \ {0}
    PROVE  LineStep(w, ts, n) = SendTransfer(w, StartedAfter(ts, n - 1), ts[n])
<1>1. (n > 1 /\ ts[n - 1].end = "RepeatedStart") = StartedAfter(ts, n - 1)
  <2>1. n > 1 <=> n - 1 > 0
    OBVIOUS
  <2>2. QED
    BY <2>1 DEF StartedAfter
<1>2. LineStep(w, ts, n) = SendTransfer(w, n > 1 /\ ts[n - 1].end = "RepeatedStart", ts[n])
  BY DEF LineStep
<1>3. QED
  BY <1>1, <1>2, Zenon

\* The transmission: the decoder has heard all its frames.
LEMMA LineSent ==
    ASSUME NEW ts, GoodTransfers(ts)
    PROVE  /\ WireType(Transmit(ts))
           /\ \A epoch \in Int : \A lost :
                Heeded(Transmit(ts), lost) => Waiting(Transmit(ts), epoch, lost, Frames(ts, Len(ts)))
<1> DEFINE L == Len(ts)
<1>1. L \in Nat /\ L <= MAX_FRAMES /\ MAX_FRAMES \in Nat /\ \A n \in 1 .. L : GoodTransfer(ts[n])
  BY DecoderAssumption DEF GoodTransfers
<1>2. PICK f : LineRun(f, ts) /\ Transmit(ts) = f[L]
  <2>1. ts \in Seq({ts[n] : n \in 1 .. Len(ts)})
    BY DEF GoodTransfers
  <2>2. QED
    BY <2>1, LineRunExists
<1>3. f[0] = Undriven(ts) /\ \A n \in 1 .. L : f[n] = SendTransfer(f[n - 1], StartedAfter(ts, n - 1), ts[n])
  <2>1. f[0] = Undriven(ts) /\ \A n \in 1 .. L : f[n] = LineStep(f[n - 1], ts, n)
    BY <1>2 DEF LineRun
  <2>2. ASSUME NEW n \in 1 .. L PROVE f[n] = SendTransfer(f[n - 1], StartedAfter(ts, n - 1), ts[n])
    <3>1. n \in Nat \ {0}
      OBVIOUS
    <3>2. LineStep(f[n - 1], ts, n) = SendTransfer(f[n - 1], StartedAfter(ts, n - 1), ts[n])
      BY <3>1, LineStepped
    <3>3. QED
      BY <2>1, <3>2
  <2>3. QED
    BY <2>1, <2>2
<1> HIDE DEF L
<1> DEFINE Sent(n) ==
             /\ WireType(f[n])
             /\ \A epoch \in Int : \A lost :
                  Heeded(f[n], lost) => Between(f[n], StartedAfter(ts, n), epoch, lost, Frames(ts, n))
           S == {n \in 0 .. L : Sent(n)}
<1>4. 0 \in S
  <2>1. WireType(f[0]) /\ \A epoch \in Int : \A lost : Waiting(f[0], epoch, lost, <<>>)
    BY <1>3, NothingSent
  <2>2. Frames(ts, 0) = <<>> /\ ~ StartedAfter(ts, 0)
    BY DEF Frames, StartedAfter
  <2>3. QED
    BY <1>1, <2>1, <2>2 DEF Between
<1>5. ASSUME NEW n \in 1 .. L, n - 1 \in S PROVE n \in S
  <2> DEFINE v == f[n - 1]  u == f[n]  t == ts[n]  started == StartedAfter(ts, n - 1)  next == StartedAfter(ts, n)
             F == Frames(ts, n - 1)  G == Frames(ts, n)
  <2>1. u = SendTransfer(v, started, t)
    BY <1>3
  <2>2. GoodTransfer(t)
    BY <1>1
  <2>3. n \in 0 .. L /\ n > 0 /\ n \in Nat \ {0}
    BY <1>1
  <2>4. G = Append(F, FrameSent(t)) /\ Len(F) < MAX_FRAMES
    <3>1. G = Append(F, FrameSent(t)) /\ Len(F) = n - 1
      BY <2>3, FramesNext
    <3>2. n - 1 < MAX_FRAMES
      BY <1>1
    <3>3. QED
      BY <3>1, <3>2
  <2>5. next = (t.end = "RepeatedStart")
    BY <2>3 DEF StartedAfter
  <2>6. /\ WireType(v)
        /\ \A epoch \in Int : \A lost : Heeded(v, lost) => Between(v, started, epoch, lost, F)
    BY <1>5
  <2> HIDE DEF v, u, t, started, next, F, G, S
  <2>7. Joins(F, RawOf(t.bytes, t.acks), t.end, G)
    BY <2>2, <2>4, FrameJoins
  <2>8. /\ WireType(u)
        /\ \A lost : Heeded(u, lost) => Heeded(v, lost)
        /\ \A epoch \in Int : \A lost :
             Heeded(u, lost) /\ Between(v, started, epoch, lost, F) => Between(u, next, epoch, lost, G)
    BY <2>1, <2>2, <2>5, <2>6, <2>7, TransferSent
  <2>9. /\ WireType(u)
        /\ \A epoch \in Int : \A lost : Heeded(u, lost) => Between(u, next, epoch, lost, G)
    BY <2>6, <2>8
  <2>10. QED
    BY <2>3, <2>9 DEF u, next, G, S
<1>6. L \in S
  <2> HIDE DEF S
  <2>1. 0 .. L \subseteq S
    BY <1>1, <1>4, <1>5, UpTo
  <2>2. QED
    BY <1>1, <2>1
<1>7. ~ StartedAfter(ts, L)
  <2>1. L > 0 => ts[L].end = "Stop"
    BY DEF GoodTransfers, L
  <2>2. QED
    BY <2>1 DEF StartedAfter
<1>8. QED
  BY <1>2, <1>6, <1>7 DEF Between, L

\* The whole way: what is stored of a transmission decodes to its frames.
LEMMA TransmissionDecoded ==
    ASSUME NEW ts, GoodTransfers(ts), NEW epoch \in Int, NEW lost, lost \subseteq Transmit(ts).setups
    PROVE  \E c \in Nat : decode_capture(Seen(At(Transmit(ts).samples, epoch), lost), Idle) =
                            CaptureOf(Frames(ts, Len(ts)), c)
<1> DEFINE w == Transmit(ts)  F == Frames(ts, Len(ts))  s == Seen(At(w.samples, epoch), lost)
<1>1. WireType(w)
  BY LineSent
<1>2. Heeded(w, lost)
  <2>1. w.setups \subseteq Nat
    BY <1>1 DEF WireType
  <2>2. QED
    BY <2>1 DEF Heeded
<1>3. Waiting(w, epoch, lost, F)
  BY <1>2, LineSent
<1>4. PICK p, c : c \in Nat /\ Decoded(s) = Outside(p, F, c)
  <2> HIDE DEF w, F
  <2>1. PICK p, c : c \in Nat /\ Heard(w.samples, epoch, lost, Outside(p, F, c))
    BY <1>3 DEF Waiting
  <2>2. QED
    BY <2>1 DEF Heard
<1> DEFINE d == Outside(p, F, c)
<1>5. Decoded(s) = d
  BY <1>4
<1> HIDE DEF F, s
<1>6. d.active = FALSE /\ d.capture = CaptureOf(F, c)
  BY DEF Outside
<1> HIDE DEF d
<1> DEFINE start == [active |-> FALSE, byte |-> 0, bits |-> 0, raw |-> EmptyRaw,
                     previous |-> Idle, capture |-> EmptyCapture]
           end == Scan(DecodeSample, start, s)
<1>7. decode_capture(s, Idle) =
        IF end.active THEN finish_active_frame(end.capture, end.raw, "CaptureEnd", end.bits) ELSE end.capture
  BY DEF decode_capture
<1>8. start = Fresh
  BY DEF Fresh, Outside, CaptureOf, EmptyCapture
<1> HIDE DEF start
<1>9. end = d
  BY <1>5, <1>8 DEF Decoded
<1> HIDE DEF end
<1>10. decode_capture(s, Idle) = CaptureOf(F, c)
  BY <1>6, <1>7, <1>9
<1>11. QED
  BY <1>4, <1>10 DEF s, F

\* The validator looks at the frames and the errors only.
LEMMA SameFramesValid ==
    ASSUME NEW x, NEW y, x.errors = y.errors, x.frames = y.frames, validate_measurement_capture(y)
    PROVE  validate_measurement_capture(x)
BY DEF validate_measurement_capture

-----------------------------------------------------------------------------

SetupInv ==
    /\ wire \in Wires
    /\ stage = "decode" => data = captured /\ \E epoch \in Epochs : captured = Seen(At(wire.samples, epoch), missed)
    /\ stage # "decode" /\ missed \subseteq wire.setups =>
         stage = "done" /\ capture.frames = SentFrames /\ capture.errors = 0

\* Each step of poll() keeps SetupInv.
LEMMA SetupSteps == Measurements /\ SetupInv /\ [RecoveryNext]_recoveryVars => SetupInv'
<1> SUFFICES ASSUME Measurements, SetupInv, [RecoveryNext]_recoveryVars PROVE SetupInv'
  OBVIOUS
<1> DEFINE F == Frames(wire.transfers, Len(wire.transfers))
<1>1. CASE Decode
  <2>1. /\ stage = "decode" /\ wire' = wire /\ missed' = missed /\ captured' = captured /\ data' = data
        /\ IF validate_measurement_capture(decode_capture(data, Idle))
           THEN stage' = "done" /\ capture' = decode_capture(data, Idle)
           ELSE stage' \in {"rmt", "collect"}
    BY <1>1 DEF Decode, Finish
  <2>2. wire \in Wires /\ data = captured
    BY <2>1 DEF SetupInv
  <2>3. PICK epoch \in Epochs : captured = Seen(At(wire.samples, epoch), missed)
    BY <2>1 DEF SetupInv
  <2>4. ASSUME missed \subseteq wire.setups
        PROVE  stage' = "done" /\ capture'.frames = SentFrames /\ capture'.errors = 0
    <3>1. wire = Transmit(wire.transfers) /\ GoodTransfers(wire.transfers)
      BY <2>2 DEF Measurements
    <3>0. F = FramesOf(wire.transfers)
      BY <3>1 DEF FramesOf, Frames, FrameSent, RawOf, GoodTransfers
    <3>2. epoch \in Int
      BY RecoveryAssumption
    <3>3. PICK c \in Nat : decode_capture(data, Idle) = CaptureOf(F, c)
      <4> DEFINE ts == wire.transfers
      <4>1. wire = Transmit(ts) /\ GoodTransfers(ts)
        BY <3>1
      <4> HIDE DEF ts
      <4>2. \E c \in Nat : decode_capture(Seen(At(Transmit(ts).samples, epoch), missed), Idle) =
                             CaptureOf(Frames(ts, Len(ts)), c)
        BY <2>4, <3>2, <4>1, TransmissionDecoded
      <4>3. QED
        BY <2>2, <2>3, <4>1, <4>2 DEF ts
    <3>4. validate_measurement_capture(CaptureOf(F, c))
      <4>1. validate_measurement_capture(CaptureOf(F, 0))
        <5>1. validate_measurement_capture(CaptureOf(FramesOf(wire.transfers), 0))
          BY <2>2 DEF Measurements, CaptureOf
        <5>2. QED
          BY <3>0, <5>1
      <4>2. CaptureOf(F, c).errors = CaptureOf(F, 0).errors /\ CaptureOf(F, c).frames = CaptureOf(F, 0).frames
        BY DEF CaptureOf
      <4>3. QED
        BY <4>1, <4>2, SameFramesValid
    <3>5. F = SentFrames
      BY <3>0 DEF SentFrames
    <3> HIDE DEF F
    <3>6. stage' = "done" /\ capture' = CaptureOf(F, c)
      BY <2>1, <3>3, <3>4
    <3>7. QED
      BY <3>5, <3>6 DEF CaptureOf
  <2>5. SentFrames' = SentFrames /\ stage' # "decode"
    BY <2>1 DEF SentFrames
  <2>6. QED
    BY <2>1, <2>2, <2>4, <2>5 DEF SetupInv
<1>2. ASSUME RmtRepair \/ Collect \/ Try \/ NextRound PROVE SetupInv'
  <2>1. stage \notin {"decode", "done"} /\ wire' = wire /\ missed' = missed
    BY <1>2 DEF RmtRepair, Collect, Try, NextRound
  <2>2. stage' # "decode"
    BY <1>2, <2>1 DEF RmtRepair, Collect, Try, NextRound, Finish
  <2>3. QED
    BY <2>1, <2>2 DEF SetupInv
<1>3. CASE UNCHANGED recoveryVars
  <2>1. UNCHANGED <<wire, missed, captured, data, stage, capture>>
    BY <1>3 DEF recoveryVars
  <2>2. QED
    BY <2>1 DEF SetupInv, SentFrames
<1>4. QED
  BY <1>1, <1>2, <1>3 DEF RecoveryNext

\* Wherever interrupts merge data changes with the clock edges after them, and whenever
\* the capture begins, also across the wrap of the clock: the first decoding gives the
\* frames that were sent, and nothing is repaired (decode_capture).
THEOREM SetupsAreResolved == ASSUME Measurements PROVE RecoverySpec => []SetupsResolved
<1>1. RecoveryInit => SetupInv
  BY DEF RecoveryInit, SetupInv
<1>2. SetupInv /\ [RecoveryNext]_recoveryVars => SetupInv'
  BY SetupSteps
<1>3. SetupInv => SetupsResolved
  BY DEF SetupInv, SetupsResolved
<1>4. QED
  BY <1>1, <1>2, <1>3, PTL DEF RecoverySpec
=============================================================================
