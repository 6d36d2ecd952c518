------------------------ MODULE HistoryStore_proofs ------------------------
(* Proofs about HistoryStore, for every size of the flash, the window, the    *)
(* pending ring, a journal sector and the generation counter, every choice of *)
(* flash calls that may fail, and any number of restarts.                     *)
(*                                                                            *)
(* What a restart makes of the journal rests on the order of its records.  A  *)
(* place in the journal has a distance to the head, counted back through the  *)
(* sector in use and then through the other one.  Torn records take places    *)
(* but no generations, so going back to an older record the generation falls, *)
(* and by no more than the distance grows (Ordered).  A journal has           *)
(* 2 * RECORDS_PER_SECTOR places, less than half the generations, so that the *)
(* serial-number comparison never confuses two of its records.                *)
(*                                                                            *)
(* What the ring makes of the samples rests on room: from the window of the   *)
(* newest record to the cells that a flush may erase (Room), and on what the  *)
(* cells hold that a flush under way has passed or opened (Batch).            *)
EXTENDS HistoryStore, TLAPS, SequenceTheorems, WellFoundedInduction

(***************************************************************************)
(* The journal.                                                            *)
(***************************************************************************)

EntriesOf(j) == {e \in Metas \X Records : valid_meta(j[e[1]][e[2]])}
BestOf(j) ==
    CHOOSE e \in EntriesOf(j) :
        \A f \in Metas \X Records :
            generation_newer(j[f[1]][f[2]].gen, j[e[1]][e[2]].gen) => ~valid_meta(j[f[1]][f[2]])

\* How many generations gen is behind g, and how far e is behind a head at n in sector.
Age(g, gen) == IF gen <= g THEN g - gen ELSE g - gen + GenMod
Place(sector, n, e) == IF e[1] = sector THEN n - 1 - e[2] ELSE RECORDS_PER_SECTOR - 1 - e[2] + n

AgeIn(j, g, e) == Age(g, j[e[1]][e[2]].gen)
Ordered(j, g, sector, n) ==
    /\ \A e \in EntriesOf(j) :
          0 <= Place(sector, n, e) /\ AgeIn(j, g, e) <= Place(sector, n, e)
    /\ \A e, f \in EntriesOf(j) :
          Place(sector, n, f) < Place(sector, n, e) =>
              /\ AgeIn(j, g, f) < AgeIn(j, g, e)
              /\ AgeIn(j, g, e) - AgeIn(j, g, f) <= Place(sector, n, e) - Place(sector, n, f)

OrderedFrom(j) ==
    \E g \in 0 .. GenMod - 1, sector \in Metas : Ordered(j, g, sector, RECORDS_PER_SECTOR)

JournalOrdered ==
    IF pc = "boot" THEN OrderedFrom(journal)
    ELSE Ordered(journal, generation, meta_sector, next_meta_slot)

\* What RAM knows of the journal.
BestRecord(j) == j[BestOf(j)[1]][BestOf(j)[2]]

HeadKnown ==
    pc # "boot" =>
        /\ EntriesOf(journal) # {} => BestRecord(journal).gen = generation
        /\ next_meta_slot > 0 => \E e \in EntriesOf(journal) : e[1] = meta_sector
        /\ ready => \A k \in Records : k >= next_meta_slot => journal[meta_sector][k] = Blank

(***************************************************************************)
(* Who is doing what.                                                      *)
(***************************************************************************)

AtBoot ==
    pc = "boot" =>
        /\ ready /\ ~metadata_dirty /\ phase = "inactive" /\ caller = "none" /\ done = 0
        /\ write_slot = 0 /\ persisted = 0 /\ pending = <<>> /\ count = 0 /\ run_count = 0
        /\ generation = 0 /\ meta_sector = "primary" /\ next_meta_slot = 0

Calls ==
    /\ pc \in {"erase", "program"} =>
          /\ ready /\ phase = "inactive" /\ done < Len(pending)
          /\ caller \in {"tick", "full", "run"}
          /\ caller = "run" => Len(pending) < PENDING_CAPACITY
    /\ pc \in {"switch", "record"} =>
          /\ ready /\ pending = <<>> /\ metadata_dirty /\ done = 0 /\ caller \in {"tick", "full", "run", "clear", "init"}
          /\ phase = IF caller = "clear" THEN "prepare" ELSE "inactive"
          /\ caller = "clear" => meta_sector = preserved_meta_sector
          /\ caller = "init" => EntriesOf(journal) = {}
    /\ pc = "switch" => next_meta_slot = RECORDS_PER_SECTOR /\ caller \notin {"clear", "init"}
    /\ pc = "record" => next_meta_slot < RECORDS_PER_SECTOR
    /\ pc = "commit" =>
          /\ ready /\ phase = "inactive" /\ done = 0 /\ Len(pending) < PENDING_CAPACITY
          /\ caller \in {"full", "run"}
    /\ pc = "idle" => done = 0 /\ caller = "none"

Clearing ==
    phase # "inactive" =>
        /\ ready /\ pc \in {"idle", "record"}
        /\ write_slot = 0 /\ persisted = 0 /\ pending = <<>> /\ count = 0 /\ run_count = 0
        /\ IF phase = "prepare" THEN meta_sector = preserved_meta_sector => next_meta_slot = 0
           ELSE meta_sector = preserved_meta_sector /\ next_meta_slot > 0 /\ ~metadata_dirty

\* CleanIsDurable, also while the old sectors are erased.
Clean ==
    pc # "boot" /\ ready /\ phase # "prepare" /\ ~metadata_dirty =>
        /\ EntriesOf(journal) # {}
        /\ BestRecord(journal).slot = write_slot /\ BestRecord(journal).count = persisted
        /\ BestRecord(journal).gen = generation

(***************************************************************************)
(* The ring.                                                               *)
(***************************************************************************)

\* Whatever the next flush erases or programs lies beyond the window of the record.
LagAt(j, slot) == IF EntriesOf(j) = {} THEN 0 ELSE Back(slot, BestRecord(j).slot)
Room ==
    pc \notin {"boot", "switch", "record"} /\ ready /\ phase = "inactive" =>
        LagAt(journal, write_slot) + PENDING_CAPACITY + SAMPLES_PER_SECTOR <= FLASH_CAPACITY - HISTORY_CAPACITY + 1

\* The cells from slot to the end of its sector; how many of them there are when
\* the sector has been opened before; and what Spoiled says of them.
RestOf(slot) == 0 .. SAMPLES_PER_SECTOR - 1 - (slot % SAMPLES_PER_SECTOR)
TailOf(slot) == IF OpensSector(slot) THEN 0 ELSE SAMPLES_PER_SECTOR - (slot % SAMPLES_PER_SECTOR)
BlankRest(d, slot) == \A k \in RestOf(slot) : d[slot + k] = "blank"
SpoiledAt(d, slot, p) ==
    ~OpensSector(slot) /\ \E k \in RestOf(slot) :
        d[slot + k] # "blank" /\ ~(k < Len(p) /\ d[slot + k] = p[k + 1])

\* A flush under way: what it has programmed, and the sector it is in.
Programmed(d, slot, p, n) ==
    \A k \in 0 .. n - 1 :
        d[Ahead(slot, k)] = p[k + 1] \/ (d[Ahead(slot, k)] = "corrupt" /\ SpoiledAt(d, slot, p))
Opened(d, slot, n) == n >= TailOf(slot) => BlankRest(d, Ahead(slot, n))

Batch ==
    /\ pc \in {"erase", "program"} => Programmed(data, write_slot, pending, done)
    /\ pc = "erase" => OpensSector(Target)
    /\ pc = "program" => Opened(data, write_slot, done)

HistoryInv ==
    /\ HistoryTypeOK /\ CountsAgree
    /\ JournalOrdered /\ HeadKnown
    /\ AtBoot /\ Calls /\ Clearing /\ Clean
    /\ Room /\ Batch

(***************************************************************************)
(* Arithmetic.                                                             *)
(***************************************************************************)

\* A set of naturals has a least member.
LEMMA LeastOf ==
    ASSUME NEW T, T \subseteq Nat, T # {}
    PROVE  \E x \in T : \A y \in T : x <= y
<1> DEFINE R == OpToRel(<, Nat)
<1>1. IsWellFoundedOn(R, Nat)
  BY NatLessThanWellFounded
<1>2. \A x, y \in Nat : x < y => <<x, y>> \in R
  BY DEF OpToRel
<1> HIDE DEF R
<1>3. PICK x \in T : \A y \in T : ~ (<<y, x>> \in R)
  BY <1>1, WFMin
<1>4. \A y \in T : x \in Nat /\ y \in Nat /\ ~ (y < x)
  BY <1>2, <1>3
<1>5. \A y \in T : x <= y
  BY <1>4
<1>6. QED
  BY <1>5

\* The remainder of a number below twice the modulus.
LEMMA ModTwice ==
    ASSUME NEW m \in Nat \ {0}, NEW x \in Nat, x < 2 * m
    PROVE  x % m = IF x < m THEN x ELSE x - m
<1> DEFINE q == x \div m  r == x % m
<1>1. q \in Int /\ r \in 0 .. m - 1 /\ x = m * q + r
  OBVIOUS
<1> HIDE DEF q, r
<1>2. CASE q <= 0 - 1
  <2>1. m * q <= 0 - m
    BY <1>1, <1>2
  <2>2. QED
    BY <1>1, <2>1
<1>3. CASE q >= 2
  <2>1. m * q >= 2 * m
    BY <1>1, <1>3
  <2>2. QED
    BY <1>1, <2>1
<1>4. CASE q = 0 \/ q = 1
  BY <1>1, <1>4 DEF r
<1>5. QED
  BY <1>1, <1>2, <1>3, <1>4

\* A quotient and a remainder are determined by what they make up.
LEMMA DivModUnique ==
    ASSUME NEW m \in Nat \ {0}, NEW q \in Int, NEW r \in 0 .. m - 1
    PROVE  (m * q + r) \div m = q /\ (m * q + r) % m = r
<1> DEFINE x == m * q + r  p == x \div m  s == x % m
<1>1. m * q \in Int /\ x \in Int
  OBVIOUS
<1>2. p \in Int /\ s \in 0 .. m - 1 /\ x = m * p + s
  BY <1>1
<1>a. m \in Int /\ q \in Int /\ p \in Int /\ m * p \in Int
  BY <1>2
<1>b. m * q + r = m * p + s
  BY <1>2
<1> HIDE DEF p, s, x
<1>3. m * p \in Int /\ m * p - m * q = r - s
  BY <1>1, <1>2, <1>a, <1>b
<1>4. CASE p < q
  <2>1. m * p <= m * q - m
    BY <1>2, <1>4
  <2>2. QED
    BY <1>1, <1>2, <1>3, <2>1
<1>5. CASE p > q
  <2>1. m * p >= m * q + m
    BY <1>2, <1>5
  <2>2. QED
    BY <1>1, <1>2, <1>3, <2>1
<1>6. CASE p = q
  BY <1>1, <1>2, <1>3, <1>6 DEF p, s, x
<1>7. QED
  BY <1>2, <1>4, <1>5, <1>6 DEF x

\* The sizes, as the proofs use them.
LEMMA Sizes ==
    /\ FLASH_DATA_SECTORS \in Nat \ {0} /\ SAMPLES_PER_SECTOR \in Nat \ {0}
    /\ HISTORY_CAPACITY \in Nat \ {0} /\ PENDING_CAPACITY \in Nat \ {0}
    /\ RECORDS_PER_SECTOR \in Nat \ {0} /\ GenMod \in Nat \ {0}
    /\ FLASH_CAPACITY \in Nat \ {0}
    /\ PENDING_CAPACITY <= HISTORY_CAPACITY
    /\ HISTORY_CAPACITY + PENDING_CAPACITY + SAMPLES_PER_SECTOR <= FLASH_CAPACITY
    /\ PENDING_CAPACITY < FLASH_CAPACITY
    /\ GenMod >= 4 * RECORDS_PER_SECTOR
    /\ GenMod \div 2 \in Nat /\ 2 * RECORDS_PER_SECTOR <= GenMod \div 2
    /\ 2 * (GenMod \div 2) <= GenMod
    /\ Slots = 0 .. FLASH_CAPACITY - 1
<1>1. /\ FLASH_DATA_SECTORS \in Nat \ {0} /\ SAMPLES_PER_SECTOR \in Nat \ {0}
      /\ HISTORY_CAPACITY \in Nat \ {0} /\ PENDING_CAPACITY \in Nat \ {0}
      /\ RECORDS_PER_SECTOR \in Nat \ {0} /\ GenMod \in Nat \ {0}
  BY HistoryAssumption
<1>2. FLASH_CAPACITY \in Int
  BY <1>1 DEF FLASH_CAPACITY
<1>3. /\ PENDING_CAPACITY <= HISTORY_CAPACITY
      /\ HISTORY_CAPACITY + PENDING_CAPACITY + SAMPLES_PER_SECTOR <= FLASH_CAPACITY
      /\ GenMod >= 4 * RECORDS_PER_SECTOR
  BY HistoryAssumption
<1>4. FLASH_CAPACITY \in Nat \ {0} /\ PENDING_CAPACITY < FLASH_CAPACITY
  BY <1>1, <1>2, <1>3
<1>5. /\ GenMod \div 2 \in Nat /\ 2 * RECORDS_PER_SECTOR <= GenMod \div 2
      /\ 2 * (GenMod \div 2) <= GenMod
  BY <1>1, <1>3
<1>6. QED
  BY <1>1, <1>3, <1>4, <1>5 DEF Slots

\* A generation is newer than another one less than half the generations behind it.
LEMMA NewerByAge ==
    ASSUME NEW a \in 0 .. GenMod - 1, NEW b \in 0 .. GenMod - 1
    PROVE  generation_newer(a, b) <=> a # b /\ Age(a, b) < GenMod \div 2
<1>1. GenMod \in Nat \ {0} /\ a - b + GenMod \in Nat /\ a - b + GenMod < 2 * GenMod
  BY Sizes
<1> DEFINE x == a - b + GenMod
<1> HIDE DEF x
<1>m. x % GenMod = IF x < GenMod THEN x ELSE x - GenMod
  BY <1>1, ModTwice DEF x
<1>i. x \in Int /\ GenMod \in Int /\ x - GenMod = a - b
  BY <1>1 DEF x
<1>2. (a - b + GenMod) % GenMod = IF a - b + GenMod < GenMod THEN a - b + GenMod ELSE a - b
  BY <1>1, <1>m, <1>i DEF x
<1>3. (a - b + GenMod) % GenMod = Age(a, b)
  BY <1>1, <1>2 DEF Age
<1>4. QED
  BY <1>3 DEF generation_newer

(***************************************************************************)
(* The order of the journal.                                               *)
(***************************************************************************)

Journals == [Metas -> [Records -> FlashMeta]]

LEMMA EntriesAre == Entries = EntriesOf(journal) /\ Best = BestOf(journal)
BY DEF Entries, EntriesOf, Best, BestOf, Record

LEMMA EntryTypes ==
    ASSUME NEW j \in Journals, NEW e \in EntriesOf(j)
    PROVE  /\ e \in Metas \X Records /\ e[1] \in Metas /\ e[2] \in Records /\ e[2] \in Int
           /\ 0 <= e[2] /\ e[2] <= RECORDS_PER_SECTOR - 1
           /\ e = <<e[1], e[2]>>
           /\ j[e[1]][e[2]].gen \in 0 .. GenMod - 1 /\ j[e[1]][e[2]].gen \in Int
           /\ j[e[1]][e[2]].count \in 0 .. HISTORY_CAPACITY
           /\ j[e[1]][e[2]].slot \in Slots
           /\ j[e[1]][e[2]].run \in 0 .. HISTORY_CAPACITY
           /\ j[e[1]][e[2]].run <= j[e[1]][e[2]].count
<1>1. e \in Metas \X Records /\ valid_meta(j[e[1]][e[2]])
  BY DEF EntriesOf
<1>2. e[1] \in Metas /\ e[2] \in Records /\ e = <<e[1], e[2]>>
  BY <1>1
<1>3. j[e[1]] \in [Records -> FlashMeta]
  BY <1>2 DEF Journals
<1>4. j[e[1]][e[2]] \in FlashMeta
  BY <1>2, <1>3
<1>5. j[e[1]][e[2]].state = "written" /\ j[e[1]][e[2]].run <= j[e[1]][e[2]].count
  BY <1>1 DEF valid_meta
<1>6. j[e[1]][e[2]] # Blank /\ j[e[1]][e[2]] # Torn
  BY <1>5 DEF Blank, Torn, Unwritten
<1>7. j[e[1]][e[2]] \in [state : {"written"}, gen : 0 .. GenMod - 1, count : 0 .. HISTORY_CAPACITY,
                         slot : Slots, run : 0 .. HISTORY_CAPACITY]
  BY <1>4, <1>6 DEF FlashMeta
<1>8. e[2] \in Int /\ 0 <= e[2] /\ e[2] <= RECORDS_PER_SECTOR - 1
  BY <1>2, Sizes DEF Records
<1>9. GenMod \in Nat
  BY Sizes
<1>10. QED
  BY <1>1, <1>2, <1>5, <1>7, <1>8, <1>9

\* An entry is told by its place.
LEMMA PlaceTypes ==
    ASSUME NEW j \in Journals, NEW e \in EntriesOf(j), NEW sector \in Metas, NEW n \in Int
    PROVE  /\ Place(sector, n, e) \in Int
           /\ (n >= 0 => Place(sector, n, e) <= RECORDS_PER_SECTOR - 1 + n)
<1>1. e[2] \in Int /\ 0 <= e[2]
  BY EntryTypes
<1>2. RECORDS_PER_SECTOR \in Nat \ {0}
  BY Sizes
<1>3. QED
  BY <1>1, <1>2 DEF Place

LEMMA PlaceTells ==
    ASSUME NEW j \in Journals, NEW e \in EntriesOf(j), NEW f \in EntriesOf(j),
           NEW sector \in Metas, NEW n \in Int,
           0 <= Place(sector, n, e), 0 <= Place(sector, n, f),
           Place(sector, n, e) = Place(sector, n, f)
    PROVE  e = f
<1>1. /\ e[2] \in Int /\ f[2] \in Int /\ RECORDS_PER_SECTOR \in Int
      /\ 0 <= e[2] /\ e[2] <= RECORDS_PER_SECTOR - 1 /\ 0 <= f[2] /\ f[2] <= RECORDS_PER_SECTOR - 1
  BY EntryTypes, Sizes
<1>2. e = <<e[1], e[2]>> /\ f = <<f[1], f[2]>> /\ e[1] \in Metas /\ f[1] \in Metas
  BY EntryTypes
<1>3. CASE e[1] = sector /\ f[1] # sector
  BY <1>1, <1>3 DEF Place
<1>4. CASE e[1] # sector /\ f[1] = sector
  BY <1>1, <1>4 DEF Place
<1>5. CASE (e[1] = sector) = (f[1] = sector)
  <2>1. e[2] = f[2]
    BY <1>1, <1>5 DEF Place
  <2>2. e[1] = f[1]
    BY <1>2, <1>5 DEF Metas
  <2>3. QED
    BY <1>2, <2>1, <2>2
<1>6. QED
  BY <1>3, <1>4, <1>5

LEMMA AgeTypes ==
    ASSUME NEW j \in Journals, NEW e \in EntriesOf(j), NEW g \in 0 .. GenMod - 1
    PROVE  AgeIn(j, g, e) \in Int /\ 0 <= AgeIn(j, g, e) /\ AgeIn(j, g, e) < GenMod
<1>1. j[e[1]][e[2]].gen \in 0 .. GenMod - 1 /\ GenMod \in Nat
  BY EntryTypes, Sizes
<1>2. QED
  BY <1>1 DEF AgeIn, Age

\* The nearer of two entries is the newer one.
LEMMA NearerIsNewer ==
    ASSUME NEW j \in Journals, NEW g \in 0 .. GenMod - 1, NEW sector \in Metas,
           NEW n \in 0 .. RECORDS_PER_SECTOR, Ordered(j, g, sector, n),
           NEW e \in EntriesOf(j), NEW f \in EntriesOf(j),
           Place(sector, n, f) < Place(sector, n, e)
    PROVE  /\ generation_newer(j[f[1]][f[2]].gen, j[e[1]][e[2]].gen)
           /\ ~generation_newer(j[e[1]][e[2]].gen, j[f[1]][f[2]].gen)
           /\ Age(j[f[1]][f[2]].gen, j[e[1]][e[2]].gen) = AgeIn(j, g, e) - AgeIn(j, g, f)
<1> DEFINE a == j[e[1]][e[2]].gen  b == j[f[1]][f[2]].gen
           p == Place(sector, n, e)  q == Place(sector, n, f)
<1>1. /\ a \in 0 .. GenMod - 1 /\ b \in 0 .. GenMod - 1 /\ a \in Int /\ b \in Int
      /\ p \in Int /\ q \in Int /\ p <= RECORDS_PER_SECTOR - 1 + n
  BY EntryTypes, PlaceTypes
<1>2. /\ 0 <= q /\ Age(g, a) <= p
      /\ Age(g, b) < Age(g, a) /\ Age(g, a) - Age(g, b) <= p - q
  BY DEF Ordered, AgeIn
<1>3. n \in Int /\ RECORDS_PER_SECTOR \in Int /\ GenMod \in Int /\ g \in Int /\ GenMod \div 2 \in Int
  BY Sizes
<1>4. AgeIn(j, g, e) = Age(g, a) /\ AgeIn(j, g, f) = Age(g, b)
  BY DEF AgeIn
<1> HIDE DEF a, b, p, q
<1>5. p - q <= 2 * RECORDS_PER_SECTOR - 1
  BY <1>1, <1>2, <1>3
<1>6. Age(b, a) = Age(g, a) - Age(g, b)
  BY <1>1, <1>2, <1>3 DEF Age
<1>7. Age(b, a) < GenMod \div 2 /\ a # b
  BY <1>1, <1>2, <1>3, <1>5, <1>6, Sizes DEF Age
<1>8. ~(Age(a, b) < GenMod \div 2)
  BY <1>1, <1>3, <1>7, Sizes DEF Age
<1>9. generation_newer(b, a) /\ ~generation_newer(a, b)
  BY <1>1, <1>7, <1>8, NewerByAge
<1>10. QED
  BY <1>4, <1>6, <1>9 DEF a, b

\* Nearest(j, sector, n, e): no entry is nearer to the head.
Nearest(j, sector, n, e) ==
    e \in EntriesOf(j) /\ \A f \in EntriesOf(j) : Place(sector, n, e) <= Place(sector, n, f)

LEMMA NearestIsBest ==
    ASSUME NEW j \in Journals, NEW g \in 0 .. GenMod - 1, NEW sector \in Metas,
           NEW n \in 0 .. RECORDS_PER_SECTOR, Ordered(j, g, sector, n),
           NEW e, Nearest(j, sector, n, e)
    PROVE  BestOf(j) = e
<1> DEFINE Wins(x) == \A f \in Metas \X Records :
               generation_newer(j[f[1]][f[2]].gen, j[x[1]][x[2]].gen) => ~valid_meta(j[f[1]][f[2]])
<1>1. e \in EntriesOf(j) /\ \A f \in EntriesOf(j) : Place(sector, n, e) <= Place(sector, n, f)
  BY DEF Nearest
<1>2. n \in Int
  BY Sizes
<1>3. \A f \in Metas \X Records : valid_meta(j[f[1]][f[2]]) => f \in EntriesOf(j)
  BY DEF EntriesOf
<1>4. Wins(e)
  <2> SUFFICES ASSUME NEW f \in EntriesOf(j),
                      generation_newer(j[f[1]][f[2]].gen, j[e[1]][e[2]].gen)
               PROVE  FALSE
    BY <1>3
  <2>1. 0 <= Place(sector, n, e) /\ 0 <= Place(sector, n, f)
    BY <1>1 DEF Ordered
  <2>2. CASE Place(sector, n, e) = Place(sector, n, f)
    <3>1. e = f
      BY <1>1, <1>2, <2>1, <2>2, PlaceTells
    <3>2. QED
      BY <3>1 DEF generation_newer
  <2>3. CASE Place(sector, n, e) # Place(sector, n, f)
    <3>1. Place(sector, n, e) < Place(sector, n, f)
      BY <1>1, <1>2, <2>3, PlaceTypes
    <3>2. QED
      BY <1>1, <3>1, NearerIsNewer
  <2>4. QED
    BY <2>2, <2>3
<1>5. ASSUME NEW x \in EntriesOf(j), Wins(x) PROVE x = e
  <2>1. 0 <= Place(sector, n, e) /\ 0 <= Place(sector, n, x)
    BY <1>1 DEF Ordered
  <2>2. ~(Place(sector, n, e) < Place(sector, n, x))
    <3> SUFFICES ASSUME Place(sector, n, e) < Place(sector, n, x) PROVE FALSE
      OBVIOUS
    <3>1. generation_newer(j[e[1]][e[2]].gen, j[x[1]][x[2]].gen)
      BY <1>1, NearerIsNewer
    <3>2. e \in Metas \X Records /\ valid_meta(j[e[1]][e[2]])
      BY <1>1 DEF EntriesOf
    <3>3. QED
      BY <1>5, <3>1, <3>2
  <2>3. Place(sector, n, e) = Place(sector, n, x)
    BY <1>1, <1>2, <2>2, PlaceTypes
  <2>4. QED
    BY <1>1, <1>2, <2>1, <2>3, PlaceTells
<1>6. BestOf(j) = CHOOSE x \in EntriesOf(j) : Wins(x)
  BY DEF BestOf
<1> HIDE DEF Wins
<1>7. QED
  BY <1>1, <1>4, <1>5, <1>6

\* A journal with a valid record has a nearest one, and that is what a boot finds.
LEMMA BestIsNearest ==
    ASSUME NEW j \in Journals, NEW g \in 0 .. GenMod - 1, NEW sector \in Metas,
           NEW n \in 0 .. RECORDS_PER_SECTOR, Ordered(j, g, sector, n), EntriesOf(j) # {}
    PROVE  Nearest(j, sector, n, BestOf(j))
<1> DEFINE T == {Place(sector, n, e) : e \in EntriesOf(j)}
<1>1. n \in Int
  BY Sizes
<1>2. T \subseteq Nat /\ T # {}
  BY <1>1, PlaceTypes DEF Ordered
<1>3. PICK x \in T : \A y \in T : x <= y
  BY <1>2, LeastOf
<1>4. PICK e \in EntriesOf(j) : x = Place(sector, n, e)
  BY <1>3
<1>5. Nearest(j, sector, n, e)
  BY <1>3, <1>4 DEF Nearest
<1>6. QED
  BY <1>5, NearestIsBest

LEMMA BestTypes ==
    ASSUME NEW j \in Journals, NEW g \in 0 .. GenMod - 1, NEW sector \in Metas,
           NEW n \in 0 .. RECORDS_PER_SECTOR, Ordered(j, g, sector, n), EntriesOf(j) # {}
    PROVE  BestOf(j) \in EntriesOf(j)
BY BestIsNearest DEF Nearest

\* Records may be lost: the order of the others stays, and as long as the best one
\* is among them it stays the best.
LostFrom(j, jj) ==
    \A e \in EntriesOf(jj) : e \in EntriesOf(j) /\ jj[e[1]][e[2]] = j[e[1]][e[2]]

LEMMA OrderedWhenLost ==
    ASSUME NEW j \in Journals, NEW jj \in Journals, NEW g, NEW sector, NEW n,
           Ordered(j, g, sector, n), LostFrom(j, jj)
    PROVE  Ordered(jj, g, sector, n)
BY DEF Ordered, LostFrom, AgeIn

LEMMA BestWhenLost ==
    ASSUME NEW j \in Journals, NEW jj \in Journals, NEW g \in 0 .. GenMod - 1,
           NEW sector \in Metas, NEW n \in 0 .. RECORDS_PER_SECTOR,
           Ordered(j, g, sector, n), LostFrom(j, jj), BestOf(j) \in EntriesOf(jj)
    PROVE  BestOf(jj) = BestOf(j)
<1>1. BestOf(j) \in EntriesOf(j)
  BY DEF LostFrom
<1>2. Nearest(j, sector, n, BestOf(j))
  BY <1>1, BestIsNearest
<1>3. Nearest(jj, sector, n, BestOf(j)) /\ Ordered(jj, g, sector, n)
  BY <1>2, OrderedWhenLost DEF Nearest, LostFrom
<1>4. QED
  BY <1>3, NearestIsBest

\* The head may be taken as further away.
LEMMA OrderedStretch ==
    ASSUME NEW j \in Journals, NEW g \in 0 .. GenMod - 1, NEW sector \in Metas,
           NEW n \in 0 .. RECORDS_PER_SECTOR, Ordered(j, g, sector, n)
    PROVE  Ordered(j, g, sector, RECORDS_PER_SECTOR)
<1> DEFINE R == RECORDS_PER_SECTOR
<1>1. n \in Int /\ R \in Int /\ n <= R
  BY Sizes
<1>2. ASSUME NEW e \in EntriesOf(j)
      PROVE  /\ Place(sector, n, e) \in Int /\ Place(sector, R, e) \in Int
             /\ Place(sector, R, e) = Place(sector, n, e) + (R - n)
             /\ AgeIn(j, g, e) \in Int
  <2>1. Place(sector, n, e) \in Int /\ Place(sector, R, e) \in Int /\ e[2] \in Int
    BY <1>1, PlaceTypes, EntryTypes
  <2>2. Place(sector, R, e) = Place(sector, n, e) + (R - n)
    BY <1>1, <2>1 DEF Place
  <2>3. QED
    BY <2>1, <2>2, AgeTypes
<1>3. ASSUME NEW e \in EntriesOf(j)
      PROVE  0 <= Place(sector, R, e) /\ AgeIn(j, g, e) <= Place(sector, R, e)
  <2>1. 0 <= Place(sector, n, e) /\ AgeIn(j, g, e) <= Place(sector, n, e)
    BY DEF Ordered
  <2>2. QED
    BY <1>1, <1>2, <2>1
<1>4. ASSUME NEW e \in EntriesOf(j), NEW f \in EntriesOf(j),
             Place(sector, R, f) < Place(sector, R, e)
      PROVE  /\ AgeIn(j, g, f) < AgeIn(j, g, e)
             /\ AgeIn(j, g, e) - AgeIn(j, g, f) <= Place(sector, R, e) - Place(sector, R, f)
  <2>1. Place(sector, n, f) < Place(sector, n, e)
    BY <1>1, <1>2, <1>4
  <2>2. /\ AgeIn(j, g, f) < AgeIn(j, g, e)
        /\ AgeIn(j, g, e) - AgeIn(j, g, f) <= Place(sector, n, e) - Place(sector, n, f)
    BY <2>1 DEF Ordered
  <2>3. QED
    BY <1>1, <1>2, <2>2
<1>5. QED
  BY <1>3, <1>4 DEF Ordered

\* A boot goes on from the best record: its generation, its sector, and a place for
\* the next record that lies behind it.
LEMMA OrderedFromBest ==
    ASSUME NEW j \in Journals, OrderedFrom(j), EntriesOf(j) # {},
           NEW n \in 0 .. RECORDS_PER_SECTOR, BestOf(j)[2] < n
    PROVE  /\ BestOf(j) \in EntriesOf(j)
           /\ Ordered(j, j[BestOf(j)[1]][BestOf(j)[2]].gen, BestOf(j)[1], n)
<1> DEFINE R == RECORDS_PER_SECTOR  b == BestOf(j)  G == j[b[1]][b[2]].gen
<1>1. PICK g \in 0 .. GenMod - 1, sector \in Metas : Ordered(j, g, sector, R)
  BY DEF OrderedFrom
<1>2. R \in 0 .. R /\ R \in Int /\ n \in Int /\ 0 <= n /\ n <= R
  BY Sizes
<1>3. Nearest(j, sector, R, b)
  BY <1>1, <1>2, BestIsNearest
<1>4. b \in EntriesOf(j) /\ \A f \in EntriesOf(j) : Place(sector, R, b) <= Place(sector, R, f)
  BY <1>3 DEF Nearest
<1>5. G \in 0 .. GenMod - 1 /\ b[1] \in Metas /\ b[2] \in Int /\ 0 <= b[2] /\ b[2] <= R - 1
  BY <1>4, EntryTypes
<1>6. ASSUME NEW e \in EntriesOf(j)
      PROVE  /\ Place(sector, R, e) \in Int /\ Place(b[1], n, e) \in Int
             /\ AgeIn(j, g, e) \in Int /\ 0 <= Place(sector, R, e)
             /\ e[1] \in Metas /\ e[2] \in Int /\ 0 <= e[2] /\ e[2] <= R - 1
  BY <1>1, <1>2, <1>5, PlaceTypes, AgeTypes, EntryTypes DEF Ordered
<1>7. ASSUME NEW e \in EntriesOf(j)
      PROVE  /\ AgeIn(j, G, e) = AgeIn(j, g, e) - AgeIn(j, g, b)
             /\ AgeIn(j, g, e) - AgeIn(j, g, b) <= Place(sector, R, e) - Place(sector, R, b)
  <2>1. CASE e = b
    <3>1. AgeIn(j, G, e) = 0
      BY <1>5, <2>1, Sizes DEF AgeIn, Age
    <3>2. QED
      BY <1>4, <1>6, <2>1, <3>1
  <2>2. CASE e # b
    <3>1. Place(sector, R, b) # Place(sector, R, e)
      BY <1>2, <1>4, <1>6, <2>2, PlaceTells
    <3>2. Place(sector, R, b) < Place(sector, R, e)
      BY <1>4, <1>6, <3>1
    <3>3. Age(G, j[e[1]][e[2]].gen) = AgeIn(j, g, e) - AgeIn(j, g, b)
      BY <1>1, <1>2, <1>4, <3>2, NearerIsNewer
    <3>4. AgeIn(j, g, e) - AgeIn(j, g, b) <= Place(sector, R, e) - Place(sector, R, b)
      BY <1>1, <1>4, <3>2 DEF Ordered
    <3>5. QED
      BY <3>3, <3>4 DEF AgeIn
  <2>3. QED
    BY <2>1, <2>2
<1>8. ASSUME NEW e \in EntriesOf(j)
      PROVE  /\ Place(sector, R, e) - Place(sector, R, b) <= Place(b[1], n, e)
             /\ 0 <= Place(b[1], n, e)
             /\ e[1] # sector => b[1] = sector \/ b[1] = e[1]
             /\ e[1] = sector => b[1] = sector
  <2>1. Place(sector, R, b) <= Place(sector, R, e)
    BY <1>4
  <2>2. CASE b[1] = sector
    BY <1>2, <1>4, <1>5, <1>6, <2>1, <2>2 DEF Place
  <2>3. CASE b[1] # sector
    <3>1. e[1] = b[1]
      BY <1>2, <1>4, <1>5, <1>6, <2>1, <2>3 DEF Place, Metas
    <3>2. QED
      BY <1>2, <1>4, <1>5, <1>6, <2>1, <2>3, <3>1 DEF Place
  <2>4. QED
    BY <2>2, <2>3
<1>9. ASSUME NEW e \in EntriesOf(j), NEW f \in EntriesOf(j)
      PROVE  Place(b[1], n, e) - Place(b[1], n, f) = Place(sector, R, e) - Place(sector, R, f)
  <2>1. /\ e[1] # sector => b[1] = sector \/ b[1] = e[1]
        /\ e[1] = sector => b[1] = sector
        /\ f[1] # sector => b[1] = sector \/ b[1] = f[1]
        /\ f[1] = sector => b[1] = sector
    BY <1>8
  <2>2. QED
    BY <1>2, <1>6, <2>1 DEF Place
<1>10. ASSUME NEW e \in EntriesOf(j)
       PROVE  0 <= Place(b[1], n, e) /\ AgeIn(j, G, e) <= Place(b[1], n, e)
  BY <1>4, <1>6, <1>7, <1>8
<1>11. ASSUME NEW e \in EntriesOf(j), NEW f \in EntriesOf(j),
              Place(b[1], n, f) < Place(b[1], n, e)
       PROVE  /\ AgeIn(j, G, f) < AgeIn(j, G, e)
              /\ AgeIn(j, G, e) - AgeIn(j, G, f) <= Place(b[1], n, e) - Place(b[1], n, f)
  <2>1. /\ AgeIn(j, G, e) = AgeIn(j, g, e) - AgeIn(j, g, b)
        /\ AgeIn(j, G, f) = AgeIn(j, g, f) - AgeIn(j, g, b)
    BY <1>7
  <2>2. Place(b[1], n, e) - Place(b[1], n, f) = Place(sector, R, e) - Place(sector, R, f)
    BY <1>9
  <2>3. Place(sector, R, f) < Place(sector, R, e)
    BY <1>6, <1>11, <2>2
  <2>4. /\ AgeIn(j, g, f) < AgeIn(j, g, e)
        /\ AgeIn(j, g, e) - AgeIn(j, g, f) <= Place(sector, R, e) - Place(sector, R, f)
    BY <1>1, <2>3 DEF Ordered
  <2>5. AgeIn(j, g, b) \in Int
    BY <1>4, <1>6
  <2>6. QED
    BY <1>6, <2>1, <2>2, <2>4, <2>5
<1>12. QED
  BY <1>4, <1>10, <1>11 DEF Ordered

\* A record with the next generation, programmed at the head, is the best one.
NextOf(g) == IF g = GenMod - 1 THEN 0 ELSE g + 1
AddedTo(j, jj, h) ==
    /\ EntriesOf(jj) = EntriesOf(j) \cup {h} /\ h \notin EntriesOf(j)
    /\ \A e \in EntriesOf(j) : jj[e[1]][e[2]] = j[e[1]][e[2]]

LEMMA OrderedWhenWritten ==
    ASSUME NEW j \in Journals, NEW jj \in Journals, NEW g \in 0 .. GenMod - 1,
           NEW sector \in Metas, NEW n \in Records, Ordered(j, g, sector, n),
           AddedTo(j, jj, <<sector, n>>), jj[sector][n].gen = NextOf(g)
    PROVE  Ordered(jj, NextOf(g), sector, n + 1) /\ Nearest(jj, sector, n + 1, <<sector, n>>)
<1> DEFINE h == <<sector, n>>  G == NextOf(g)
<1>0. /\ EntriesOf(jj) = EntriesOf(j) \cup {h} /\ h \notin EntriesOf(j)
      /\ \A e \in EntriesOf(j) : jj[e[1]][e[2]] = j[e[1]][e[2]]
  BY DEF AddedTo
<1>1. /\ n \in Int /\ 0 <= n /\ n <= RECORDS_PER_SECTOR - 1 /\ RECORDS_PER_SECTOR \in Int
      /\ GenMod \in Int /\ GenMod >= 4 * RECORDS_PER_SECTOR /\ g \in Int
      /\ G \in 0 .. GenMod - 1 /\ n + 1 \in 0 .. RECORDS_PER_SECTOR /\ n \in 0 .. RECORDS_PER_SECTOR
  BY Sizes DEF Records, NextOf
<1>2. h \in EntriesOf(jj) /\ h[1] = sector /\ h[2] = n
  BY <1>0
<1>3. Place(sector, n + 1, h) = 0 /\ AgeIn(jj, G, h) = 0
  BY <1>1, <1>2 DEF Place, AgeIn, Age
<1>4. ASSUME NEW e \in EntriesOf(j)
      PROVE  /\ Place(sector, n, e) \in Int /\ AgeIn(j, g, e) \in Int
             /\ Place(sector, n + 1, e) = Place(sector, n, e) + 1
             /\ AgeIn(jj, G, e) = AgeIn(j, g, e) + 1
             /\ 0 <= Place(sector, n, e) /\ AgeIn(j, g, e) <= Place(sector, n, e)
             /\ 0 <= AgeIn(j, g, e)
  <2>1. /\ Place(sector, n, e) \in Int /\ AgeIn(j, g, e) \in Int /\ 0 <= AgeIn(j, g, e)
        /\ 0 <= Place(sector, n, e) /\ AgeIn(j, g, e) <= Place(sector, n, e)
        /\ Place(sector, n, e) <= RECORDS_PER_SECTOR - 1 + n
    BY <1>1, PlaceTypes, AgeTypes DEF Ordered
  <2>2. Place(sector, n + 1, e) = Place(sector, n, e) + 1
    <3>1. e[2] \in Int
      BY EntryTypes
    <3>2. QED
      BY <1>1, <3>1 DEF Place
  <2>3. AgeIn(jj, G, e) = AgeIn(j, g, e) + 1
    <3>1. jj[e[1]][e[2]].gen = j[e[1]][e[2]].gen /\ j[e[1]][e[2]].gen \in 0 .. GenMod - 1
      BY <1>0, EntryTypes
    <3> DEFINE a == j[e[1]][e[2]].gen
    <3>2. Age(g, a) = AgeIn(j, g, e) /\ AgeIn(jj, G, e) = Age(G, a) /\ a \in 0 .. GenMod - 1
      BY <3>1 DEF AgeIn
    <3> HIDE DEF a
    <3>3. Age(g, a) < GenMod - 1
      BY <1>1, <2>1, <3>2
    <3>4. Age(G, a) = Age(g, a) + 1
      BY <1>1, <3>2, <3>3 DEF Age, NextOf
    <3>5. QED
      BY <3>2, <3>4
  <2>4. QED
    BY <2>1, <2>2, <2>3
<1>5. ASSUME NEW e \in EntriesOf(jj)
      PROVE  0 <= Place(sector, n + 1, e) /\ AgeIn(jj, G, e) <= Place(sector, n + 1, e)
  BY <1>0, <1>3, <1>4
<1>6. ASSUME NEW e \in EntriesOf(jj), NEW f \in EntriesOf(jj),
             Place(sector, n + 1, f) < Place(sector, n + 1, e)
      PROVE  /\ AgeIn(jj, G, f) < AgeIn(jj, G, e)
             /\ AgeIn(jj, G, e) - AgeIn(jj, G, f) <=
                   Place(sector, n + 1, e) - Place(sector, n + 1, f)
  <2>1. e # h
    BY <1>0, <1>3, <1>4, <1>5, <1>6
  <2>2. e \in EntriesOf(j)
    BY <1>0, <2>1
  <2>3. CASE f = h
    BY <1>3, <1>4, <2>2, <2>3
  <2>4. CASE f # h
    <3>1. f \in EntriesOf(j)
      BY <1>0, <2>4
    <3>2. Place(sector, n, f) < Place(sector, n, e)
      BY <1>4, <1>6, <2>2, <3>1
    <3>3. /\ AgeIn(j, g, f) < AgeIn(j, g, e)
          /\ AgeIn(j, g, e) - AgeIn(j, g, f) <= Place(sector, n, e) - Place(sector, n, f)
      BY <2>2, <3>1, <3>2 DEF Ordered
    <3>4. QED
      BY <1>4, <2>2, <3>1, <3>3
  <2>5. QED
    BY <2>3, <2>4
<1>7. Ordered(jj, G, sector, n + 1)
  BY <1>5, <1>6 DEF Ordered
<1>8. Nearest(jj, sector, n + 1, h)
  BY <1>2, <1>3, <1>5 DEF Nearest
<1>9. QED
  BY <1>7, <1>8

\* The head moves to the other sector, which has been erased.
LEMMA OrderedWhenSwitched ==
    ASSUME NEW j \in Journals, NEW jj \in Journals, NEW g \in 0 .. GenMod - 1,
           NEW sector \in Metas, NEW n \in 0 .. RECORDS_PER_SECTOR, Ordered(j, g, sector, n),
           LostFrom(j, jj), \A e \in EntriesOf(jj) : e[1] = sector
    PROVE  Ordered(jj, g, Other(sector), 0)
<1>1. n \in Int /\ 0 <= n /\ n <= RECORDS_PER_SECTOR /\ RECORDS_PER_SECTOR \in Int
  BY Sizes
<1>2. Other(sector) # sector
  BY DEF Other, Metas
<1>3. Ordered(jj, g, sector, n)
  BY OrderedWhenLost
<1>4. ASSUME NEW e \in EntriesOf(jj)
      PROVE  /\ Place(sector, n, e) \in Int /\ AgeIn(jj, g, e) \in Int
             /\ Place(Other(sector), 0, e) = Place(sector, n, e) + (RECORDS_PER_SECTOR - n)
             /\ 0 <= Place(sector, n, e) /\ AgeIn(jj, g, e) <= Place(sector, n, e)
  <2>1. e[2] \in Int /\ e[1] = sector /\ Place(sector, n, e) \in Int /\ AgeIn(jj, g, e) \in Int
    BY <1>1, EntryTypes, PlaceTypes, AgeTypes
  <2>2. 0 <= Place(sector, n, e) /\ AgeIn(jj, g, e) <= Place(sector, n, e)
    BY <1>3 DEF Ordered
  <2>3. QED
    BY <1>1, <1>2, <2>1, <2>2 DEF Place
<1>5. ASSUME NEW e \in EntriesOf(jj), NEW f \in EntriesOf(jj),
             Place(Other(sector), 0, f) < Place(Other(sector), 0, e)
      PROVE  /\ AgeIn(jj, g, f) < AgeIn(jj, g, e)
             /\ AgeIn(jj, g, e) - AgeIn(jj, g, f) <=
                   Place(Other(sector), 0, e) - Place(Other(sector), 0, f)
  <2>1. Place(sector, n, f) < Place(sector, n, e)
    BY <1>1, <1>4, <1>5
  <2>2. /\ AgeIn(jj, g, f) < AgeIn(jj, g, e)
        /\ AgeIn(jj, g, e) - AgeIn(jj, g, f) <= Place(sector, n, e) - Place(sector, n, f)
    BY <1>3, <2>1 DEF Ordered
  <2>3. QED
    BY <1>1, <1>4, <2>2
<1>6. ASSUME NEW e \in EntriesOf(jj)
      PROVE  0 <= Place(Other(sector), 0, e) /\ AgeIn(jj, g, e) <= Place(Other(sector), 0, e)
  BY <1>1, <1>4
<1>7. QED
  BY <1>5, <1>6 DEF Ordered

(***************************************************************************)
(* Sectors and slots.                                                      *)
(***************************************************************************)

LEMMA SlotParts ==
    ASSUME NEW slot \in Slots
    PROVE  /\ (slot % SAMPLES_PER_SECTOR) \in 0 .. SAMPLES_PER_SECTOR - 1
           /\ SectorOf(slot) \in 0 .. FLASH_DATA_SECTORS - 1
           /\ slot = SAMPLES_PER_SECTOR * SectorOf(slot) + (slot % SAMPLES_PER_SECTOR)
           /\ slot \in Int /\ 0 <= slot /\ slot < FLASH_CAPACITY
<1> DEFINE m == SAMPLES_PER_SECTOR  n == FLASH_DATA_SECTORS  q == slot \div m  r == (slot % m)
<1>1. slot \in Int /\ 0 <= slot /\ slot < FLASH_CAPACITY /\ m \in Nat \ {0} /\ n \in Nat \ {0}
  BY Sizes
<1>2. q \in Int /\ r \in 0 .. m - 1 /\ slot = m * q + r
  BY <1>1
<1>3. FLASH_CAPACITY = m * n
  BY <1>1 DEF FLASH_CAPACITY
<1>4. SectorOf(slot) = q
  BY DEF SectorOf
<1> HIDE DEF q, r, m, n
<1>5. ~(q <= 0 - 1)
  <2> SUFFICES ASSUME q <= 0 - 1 PROVE FALSE
    OBVIOUS
  <2>1. m * q <= 0 - m
    BY <1>1, <1>2
  <2>2. QED
    BY <1>1, <1>2, <2>1
<1>6. ~(q >= n)
  <2> SUFFICES ASSUME q >= n PROVE FALSE
    OBVIOUS
  <2>1. m * q >= m * n
    BY <1>1, <1>2
  <2>2. QED
    BY <1>1, <1>2, <1>3, <2>1
<1>7. q \in 0 .. n - 1
  BY <1>1, <1>2, <1>5, <1>6
<1>8. (slot % SAMPLES_PER_SECTOR) \in 0 .. SAMPLES_PER_SECTOR - 1
  BY <1>2 DEF m, r
<1>9. SectorOf(slot) \in 0 .. FLASH_DATA_SECTORS - 1
  BY <1>4, <1>7 DEF n
<1>10. slot = m * SectorOf(slot) + r
  BY <1>2, <1>4
<1>11. slot = SAMPLES_PER_SECTOR * SectorOf(slot) + (slot % SAMPLES_PER_SECTOR)
  BY ONLY <1>10 DEF m, r
<1>12. QED
  BY <1>1, <1>8, <1>9, <1>11

LEMMA SameSector ==
    ASSUME NEW slot \in Slots, NEW k \in Nat,
           (slot % SAMPLES_PER_SECTOR) + k < SAMPLES_PER_SECTOR
    PROVE  /\ slot + k \in Slots /\ SectorOf(slot + k) = SectorOf(slot)
           /\ (slot + k) % SAMPLES_PER_SECTOR = (slot % SAMPLES_PER_SECTOR) + k
<1> DEFINE m == SAMPLES_PER_SECTOR  n == FLASH_DATA_SECTORS  q == SectorOf(slot)  r == (slot % m)
<1>a. m \in Nat \ {0} /\ n \in Nat \ {0}
  BY Sizes
<1>b. q \in 0 .. n - 1 /\ r \in 0 .. m - 1 /\ slot \in Int /\ 0 <= slot
  BY SlotParts
<1>c. slot = m * q + r
  BY SlotParts
<1>1. /\ m \in Nat \ {0} /\ n \in Nat \ {0} /\ q \in 0 .. n - 1 /\ r \in 0 .. m - 1
      /\ slot = m * q + r /\ slot \in Int /\ 0 <= slot
  BY <1>a, <1>b, <1>c
<1>2. r + k \in 0 .. m - 1
  BY <1>1
<1>3. slot + k = m * q + (r + k) /\ m * q \in Int
  BY <1>1
<1>4. FLASH_CAPACITY = m * n
  BY <1>1 DEF FLASH_CAPACITY
<1> HIDE DEF m, n, q, r
<1>d. q \in Int
  BY <1>1
<1>5. (m * q + (r + k)) \div m = q /\ (m * q + (r + k)) % m = r + k
  BY <1>1, <1>2, <1>d, DivModUnique
<1>6. m * q + m <= m * n
  <2>1. q + 1 <= n /\ q + 1 \in Int /\ n \in Int /\ m \in Int /\ 0 <= m
    BY <1>1
  <2>2. m * (q + 1) <= m * n
    BY <2>1
  <2>3. m * (q + 1) = m * q + m
    BY <1>1
  <2>4. QED
    BY <2>2, <2>3
<1>7. slot + k < FLASH_CAPACITY
  BY <1>1, <1>2, <1>3, <1>4, <1>6
<1>8. slot + k \in Slots
  BY <1>1, <1>7, Sizes
<1>9. SectorOf(slot + k) = SectorOf(slot) /\ (slot + k) % m = r + k
  BY <1>3, <1>5 DEF SectorOf, q, m
<1>10. QED
  BY <1>8, <1>9 DEF m, r

\* A sector is as long as its first slot says.
LEMMA SectorSpan ==
    ASSUME NEW t \in Slots, NEW c \in Slots, OpensSector(t), SectorOf(c) = SectorOf(t)
    PROVE  t <= c /\ c <= t + SAMPLES_PER_SECTOR - 1
<1> DEFINE a == SAMPLES_PER_SECTOR * SectorOf(t)
<1>1. /\ t = a + (t % SAMPLES_PER_SECTOR) /\ c = a + (c % SAMPLES_PER_SECTOR)
      /\ (c % SAMPLES_PER_SECTOR) \in 0 .. SAMPLES_PER_SECTOR - 1
  BY SlotParts
<1>2. (t % SAMPLES_PER_SECTOR) = 0 /\ t \in Int /\ c \in Int /\ SAMPLES_PER_SECTOR \in Nat \ {0}
  BY SlotParts, Sizes DEF OpensSector
<1>3. a \in Int
  BY SlotParts, <1>2
<1> HIDE DEF a
<1>4. QED
  BY <1>1, <1>2, <1>3

\* The next slot is in the same sector or opens the next one.
LEMMA NextSlot ==
    ASSUME NEW slot \in Slots
    PROVE  \/ /\ (slot % SAMPLES_PER_SECTOR) + 1 < SAMPLES_PER_SECTOR
              /\ Ahead(slot, 1) = slot + 1 /\ slot + 1 \in Slots
              /\ (slot + 1) % SAMPLES_PER_SECTOR = (slot % SAMPLES_PER_SECTOR) + 1
              /\ ~OpensSector(slot + 1)
           \/ /\ (slot % SAMPLES_PER_SECTOR) + 1 = SAMPLES_PER_SECTOR
              /\ Ahead(slot, 1) \in Slots /\ OpensSector(Ahead(slot, 1))
<1> DEFINE m == SAMPLES_PER_SECTOR
<1>1. /\ (slot % m) \in 0 .. m - 1 /\ m \in Nat \ {0} /\ slot \in Int /\ 0 <= slot
      /\ FLASH_CAPACITY \in Nat \ {0} /\ slot < FLASH_CAPACITY
  BY SlotParts, Sizes
<1>2. CASE (slot % m) + 1 < m
  <2>1. /\ slot + 1 \in Slots /\ (slot + 1) % m = (slot % m) + 1
    BY <1>2, SameSector
  <2>2. Ahead(slot, 1) = slot + 1
    BY <2>1, Sizes DEF Ahead
  <2>3. (slot + 1) % m # 0
    BY <1>1, <2>1
  <2>4. QED
    BY <1>2, <2>1, <2>2, <2>3 DEF OpensSector
<1>3. CASE (slot % m) + 1 = m
  <2>1. Ahead(slot, 1) \in Slots
    BY <1>1, Sizes DEF Ahead
  <2>2. CASE slot + 1 = FLASH_CAPACITY
    <3>1. Ahead(slot, 1) = 0
      BY <1>1, <2>2 DEF Ahead
    <3>2. 0 % m = 0
      BY <1>1
    <3>3. QED
      BY <1>3, <2>1, <3>1, <3>2 DEF OpensSector
  <2>3. CASE slot + 1 # FLASH_CAPACITY
    <3>1. Ahead(slot, 1) = slot + 1
      BY <1>1, <2>3 DEF Ahead
    <3> DEFINE q == SectorOf(slot)
    <3>2. q \in Int /\ slot = m * q + (slot % m)
      BY SlotParts
    <3> HIDE DEF q
    <3>a. m * q \in Int /\ (slot % m) \in Int /\ m \in Int
      BY <1>1, <3>2
    <3>b. slot = m * q + (slot % m)
      BY <3>2
    <3> DEFINE a == m * q  r == (slot % m)
    <3>c. a \in Int /\ r \in Int /\ m \in Int /\ slot = a + r /\ r + 1 = m
      BY <1>3, <3>a, <3>b
    <3> HIDE DEF a, r
    <3>d. slot + 1 = a + m
      BY <3>c
    <3>3. slot + 1 = m * q + m /\ m * q \in Int
      BY <3>a, <3>d DEF a
    <3>4. m * (q + 1) + 0 = m * q + m
      BY <1>1, <3>2
    <3>5. q + 1 \in Int /\ 0 \in 0 .. m - 1
      BY <1>1, <3>2
    <3>6. (m * (q + 1) + 0) % m = 0
      BY <1>1, <3>5, DivModUnique
    <3>7. (slot + 1) % m = 0
      BY <3>3, <3>4, <3>6
    <3>8. QED
      BY <1>3, <2>1, <3>1, <3>7 DEF OpensSector
  <2>4. QED
    BY <2>2, <2>3
<1>4. QED
  BY <1>1, <1>2, <1>3

\* Steps around the ring.
LEMMA RingSteps ==
    ASSUME NEW slot \in Slots
    PROVE  /\ \A n \in 0 .. FLASH_CAPACITY : Ahead(slot, n) \in Slots /\ Back(slot, n) \in Slots
           /\ Ahead(slot, 0) = slot
           /\ \A n \in 0 .. FLASH_CAPACITY - 1 : Ahead(Ahead(slot, n), 1) = Ahead(slot, n + 1)
           /\ \A n, k \in 0 .. FLASH_CAPACITY - 1 : Ahead(slot, n) = Ahead(slot, k) => n = k
<1>1. slot \in Int /\ 0 <= slot /\ slot < FLASH_CAPACITY /\ FLASH_CAPACITY \in Nat \ {0}
  BY SlotParts, Sizes
<1>2. QED
  BY <1>1, Sizes DEF Ahead, Back

(***************************************************************************)
(* A flush, cell by cell.                                                  *)
(***************************************************************************)

Cells == Samples \cup {"blank", "corrupt"}
Rings == [Slots -> Cells]

LEMMA PendingTypes ==
    ASSUME NEW p \in Seq(Samples), NEW k \in Nat, k < Len(p)
    PROVE  p[k + 1] \in Samples /\ p[k + 1] # "blank" /\ p[k + 1] # "corrupt"
<1>1. p[k + 1] \in Samples
  OBVIOUS
<1>2. QED
  BY <1>1, HistoryAssumption

\* The cells from a slot to the end of its sector.
LEMMA RestTypes ==
    ASSUME NEW slot \in Slots, NEW k \in RestOf(slot)
    PROVE  /\ k \in Nat /\ k < SAMPLES_PER_SECTOR /\ k < FLASH_CAPACITY
           /\ slot + k \in Slots /\ Ahead(slot, k) = slot + k
           /\ SectorOf(slot + k) = SectorOf(slot)
           /\ (~OpensSector(slot) => k < TailOf(slot))
<1>1. /\ (slot % SAMPLES_PER_SECTOR) \in 0 .. SAMPLES_PER_SECTOR - 1
      /\ SAMPLES_PER_SECTOR \in Nat \ {0} /\ SAMPLES_PER_SECTOR <= FLASH_CAPACITY
      /\ FLASH_CAPACITY \in Nat
  BY SlotParts, Sizes
<1>2. /\ k \in Nat /\ k < SAMPLES_PER_SECTOR
      /\ (slot % SAMPLES_PER_SECTOR) + k < SAMPLES_PER_SECTOR
  BY <1>1 DEF RestOf
<1>3. slot + k \in Slots /\ SectorOf(slot + k) = SectorOf(slot)
  BY <1>2, SameSector
<1>4. slot + k < FLASH_CAPACITY
  BY <1>3, Sizes
<1>5. Ahead(slot, k) = slot + k
  BY <1>4 DEF Ahead
<1>6. ~OpensSector(slot) => k < TailOf(slot)
  BY <1>1, <1>2 DEF TailOf
<1>7. QED
  BY <1>1, <1>2, <1>3, <1>5, <1>6

\* A place of the batch is in the tail of the first sector, or behind it.
LEMMA BatchPlace ==
    ASSUME NEW slot \in Slots, NEW n \in 0 .. FLASH_CAPACITY - 1
    PROVE  /\ TailOf(slot) \in 0 .. SAMPLES_PER_SECTOR - 1
           /\ n < TailOf(slot) =>
                 /\ ~OpensSector(slot) /\ n \in RestOf(slot)
                 /\ Ahead(slot, n) = slot + n /\ slot + n \in Slots
                 /\ ((slot + n) % SAMPLES_PER_SECTOR) = (slot % SAMPLES_PER_SECTOR) + n
                 /\ (n > 0 => ~OpensSector(slot + n))
           /\ n >= TailOf(slot) => \A k \in RestOf(slot) : ~OpensSector(slot) => slot + k # Ahead(slot, n)
<1>1. /\ (slot % SAMPLES_PER_SECTOR) \in 0 .. SAMPLES_PER_SECTOR - 1
      /\ SAMPLES_PER_SECTOR \in Nat \ {0}
      /\ (OpensSector(slot) <=> (slot % SAMPLES_PER_SECTOR) = 0)
      /\ FLASH_CAPACITY \in Nat /\ n \in Nat
  <2>1. (slot % SAMPLES_PER_SECTOR) \in 0 .. SAMPLES_PER_SECTOR - 1
    BY SlotParts
  <2>2. SAMPLES_PER_SECTOR \in Nat \ {0} /\ FLASH_CAPACITY \in Nat
    BY Sizes
  <2>3. QED
    BY <2>1, <2>2 DEF OpensSector
<1>2. TailOf(slot) \in 0 .. SAMPLES_PER_SECTOR - 1
  BY <1>1 DEF TailOf
<1>3. ASSUME n < TailOf(slot)
      PROVE  /\ ~OpensSector(slot) /\ n \in RestOf(slot)
             /\ Ahead(slot, n) = slot + n /\ slot + n \in Slots
             /\ ((slot + n) % SAMPLES_PER_SECTOR) = (slot % SAMPLES_PER_SECTOR) + n
             /\ (n > 0 => ~OpensSector(slot + n))
  <2>1. ~OpensSector(slot) /\ (slot % SAMPLES_PER_SECTOR) + n < SAMPLES_PER_SECTOR
    BY <1>1, <1>3 DEF TailOf
  <2>2. n \in RestOf(slot)
    BY <1>1, <2>1 DEF RestOf
  <2>3. /\ slot + n \in Slots
        /\ ((slot + n) % SAMPLES_PER_SECTOR) = (slot % SAMPLES_PER_SECTOR) + n
    BY <1>1, <2>1, SameSector
  <2>4. n > 0 => ((slot + n) % SAMPLES_PER_SECTOR) # 0
    BY <1>1, <2>3
  <2>5. QED
    BY <2>1, <2>2, <2>3, <2>4, RestTypes DEF OpensSector
<1>4. ASSUME n >= TailOf(slot), NEW k \in RestOf(slot), ~OpensSector(slot)
      PROVE  slot + k # Ahead(slot, n)
  <2>1. k \in Nat /\ k < FLASH_CAPACITY /\ Ahead(slot, k) = slot + k /\ k < TailOf(slot)
    BY <1>4, RestTypes
  <2>2. k # n /\ k \in 0 .. FLASH_CAPACITY - 1
    BY <1>1, <1>2, <1>4, <2>1
  <2>3. QED
    BY <2>1, <2>2, RingSteps
<1>5. QED
  BY <1>2, <1>3, <1>4

\* The next sample is programmed.
LEMMA ProgramStep ==
    ASSUME NEW d \in Rings, NEW slot \in Slots, NEW p \in Seq(Samples), NEW n \in Nat,
           n < Len(p), Len(p) <= PENDING_CAPACITY,
           Programmed(d, slot, p, n), Opened(d, slot, n),
           NEW dd, dd = [d EXCEPT ![Ahead(slot, n)] = ProgramSample(@, p[n + 1])]
    PROVE  /\ dd \in Rings
           /\ SpoiledAt(dd, slot, p) = SpoiledAt(d, slot, p)
           /\ Programmed(dd, slot, p, n + 1)
           /\ ~OpensSector(Ahead(slot, n + 1)) => Opened(dd, slot, n + 1)
           /\ n + 1 = Len(p) /\ SpoiledAt(dd, Ahead(slot, n + 1), <<>>) => SpoiledAt(d, slot, p)
<1> DEFINE t == Ahead(slot, n)  s == p[n + 1]  m == SAMPLES_PER_SECTOR
<1>a. Len(p) \in Nat /\ FLASH_CAPACITY \in Nat /\ m \in Nat \ {0} /\ PENDING_CAPACITY \in Nat
  BY Sizes
<1>b. PENDING_CAPACITY < FLASH_CAPACITY
  BY Sizes
<1>1. /\ n \in 0 .. FLASH_CAPACITY - 1 /\ n + 1 \in 0 .. FLASH_CAPACITY - 1 /\ FLASH_CAPACITY \in Nat
      /\ m \in Nat \ {0} /\ Len(p) \in Nat
  BY <1>a, <1>b
<1>2. t \in Slots /\ slot \in Int
  BY <1>1, RingSteps, SlotParts
<1>3. s \in Samples /\ s # "blank" /\ s # "corrupt"
  BY PendingTypes
<1>4. /\ d[t] \in Cells
      /\ dd[t] = IF d[t] = "blank" \/ d[t] = s THEN s ELSE "corrupt"
      /\ dd[t] \in Cells
      /\ \A c \in Slots : c # t => dd[c] = d[c]
  BY <1>2, <1>3 DEF Rings, Cells, ProgramSample
<1>5. dd \in Rings
  BY <1>2, <1>4 DEF Rings
<1>6. ASSUME NEW k \in RestOf(slot), ~OpensSector(slot)
      PROVE  /\ slot + k \in Slots
             /\ (d[slot + k] # "blank" /\ ~(k < Len(p) /\ d[slot + k] = p[k + 1])) <=>
                (dd[slot + k] # "blank" /\ ~(k < Len(p) /\ dd[slot + k] = p[k + 1]))
  <2>1. k \in Nat /\ k \in 0 .. FLASH_CAPACITY - 1 /\ slot + k \in Slots /\ Ahead(slot, k) = slot + k
    BY <1>1, RestTypes
  <2>2. CASE slot + k # t
    BY <1>4, <2>1, <2>2
  <2>3. CASE slot + k = t
    <3>1. k = n
      BY <1>1, <2>1, <2>3, RingSteps
    <3>2. QED
      BY <1>3, <1>4, <2>1, <2>3, <3>1
  <2>4. QED
    BY <2>2, <2>3
<1>7. SpoiledAt(dd, slot, p) = SpoiledAt(d, slot, p)
  BY <1>6 DEF SpoiledAt
<1>8. ASSUME NEW k \in 0 .. n
      PROVE  dd[Ahead(slot, k)] = p[k + 1] \/ (dd[Ahead(slot, k)] = "corrupt" /\ SpoiledAt(d, slot, p))
  <2>1. k \in 0 .. FLASH_CAPACITY - 1 /\ Ahead(slot, k) \in Slots
    BY <1>1, RingSteps
  <2>2. CASE k # n
    <3>1. Ahead(slot, k) # t /\ k \in 0 .. n - 1
      BY <1>1, <2>1, <2>2, RingSteps
    <3>2. dd[Ahead(slot, k)] = d[Ahead(slot, k)]
      BY <1>4, <2>1, <3>1
    <3>3. QED
      BY <3>1, <3>2 DEF Programmed
  <2>3. CASE k = n
    <3>1. CASE d[t] = "blank" \/ d[t] = s
      BY <1>4, <2>3, <3>1
    <3>2. CASE ~(d[t] = "blank" \/ d[t] = s)
      <4>1. n < TailOf(slot)
        <5> SUFFICES ASSUME ~(n < TailOf(slot)) PROVE FALSE
          OBVIOUS
        <5>1. n >= TailOf(slot)
          BY <1>1, BatchPlace
        <5>2. BlankRest(d, t)
          BY <5>1 DEF Opened
        <5>3. 0 \in RestOf(t) /\ t + 0 = t
          <6>1. (t % m) \in 0 .. m - 1 /\ t \in Int
            BY <1>2, SlotParts
          <6>2. QED
            BY <1>1, <6>1 DEF RestOf
        <5>4. QED
          BY <3>2, <5>2, <5>3 DEF BlankRest
      <4>2. ~OpensSector(slot) /\ n \in RestOf(slot) /\ t = slot + n
        BY <1>1, <4>1, BatchPlace
      <4>3. SpoiledAt(d, slot, p)
        BY <3>2, <4>2 DEF SpoiledAt
      <4>4. QED
        BY <1>4, <2>3, <3>2, <4>3
    <3>3. QED
      BY <3>1, <3>2
  <2>4. QED
    BY <2>2, <2>3
<1>9. Programmed(dd, slot, p, n + 1)
  <2>1. \A k \in 0 .. (n + 1) - 1 : k \in 0 .. n
    OBVIOUS
  <2>2. QED
    BY <1>7, <1>8, <2>1 DEF Programmed
<1>10. Ahead(t, 1) = Ahead(slot, n + 1)
  BY <1>1, RingSteps
\* Behind the tail the rest of the sector is blank, one cell less with each sample.
<1>11. ASSUME ~OpensSector(Ahead(t, 1)), BlankRest(d, t)
       PROVE  BlankRest(dd, Ahead(t, 1))
  <2>1. /\ (t % m) + 1 < m /\ Ahead(t, 1) = t + 1 /\ t + 1 \in Slots
        /\ ((t + 1) % m) = (t % m) + 1
    BY <1>2, <1>11, NextSlot
  <2>2. SUFFICES ASSUME NEW k \in RestOf(t + 1) PROVE dd[(t + 1) + k] = "blank"
    BY <2>1 DEF BlankRest
  <2>3. k \in Nat /\ (t + 1) + k \in Slots /\ t \in Int /\ (t % m) \in Int
    BY <1>2, <2>1, RestTypes, SlotParts
  <2>4. k + 1 \in RestOf(t)
    BY <1>1, <2>1, <2>2, <2>3, SMTT(30) DEF RestOf
  <2>5. t + (k + 1) = (t + 1) + k /\ (t + 1) + k # t
    BY <2>3
  <2>6. d[(t + 1) + k] = "blank"
    BY <1>11, <2>4, <2>5 DEF BlankRest
  <2>7. QED
    BY <1>4, <2>3, <2>5, <2>6
<1>12. ASSUME ~OpensSector(Ahead(t, 1)), n + 1 >= TailOf(slot) PROVE BlankRest(d, t)
  <2>1. CASE n >= TailOf(slot)
    BY <2>1 DEF Opened
  <2>2. CASE ~(n >= TailOf(slot))
    <3>1. n < TailOf(slot) /\ n + 1 = TailOf(slot)
      BY <1>1, <1>12, <2>2, BatchPlace
    <3>2. /\ ~OpensSector(slot) /\ t = slot + n
          /\ ((slot + n) % m) = (slot % m) + n
      BY <1>1, <3>1, BatchPlace
    <3>3. (slot % m) \in Int /\ n + 1 = m - (slot % m)
      BY <1>1, <3>1, <3>2, SlotParts DEF TailOf
    <3>4. (t % m) + 1 = m
      BY <1>1, <3>2, <3>3
    <3>5. QED
      BY <1>2, <1>1, <1>12, <3>4, NextSlot
  <2>3. QED
    BY <2>1, <2>2
<1>13. ~OpensSector(Ahead(slot, n + 1)) => Opened(dd, slot, n + 1)
  BY <1>10, <1>11, <1>12 DEF Opened
<1>14. ASSUME n + 1 = Len(p), SpoiledAt(dd, Ahead(slot, n + 1), <<>>)
       PROVE  SpoiledAt(d, slot, p)
  <2>1. ~OpensSector(Ahead(t, 1))
    BY <1>10, <1>14 DEF SpoiledAt
  <2>2. PICK k \in RestOf(Ahead(t, 1)) : dd[Ahead(t, 1) + k] # "blank"
    BY <1>10, <1>14 DEF SpoiledAt
  <2>3. ~BlankRest(dd, Ahead(t, 1))
    BY <2>2 DEF BlankRest
  <2>4. ~(n + 1 >= TailOf(slot))
    BY <1>11, <1>12, <2>1, <2>3
  <2>5. n + 1 < TailOf(slot) /\ n < TailOf(slot) /\ TailOf(slot) \in Int
    BY <1>1, <2>4, BatchPlace
  <2>6. /\ ~OpensSector(slot) /\ Ahead(t, 1) = slot + (n + 1) /\ slot + (n + 1) \in Slots
        /\ ((slot + (n + 1)) % m) = (slot % m) + (n + 1)
    BY <1>1, <1>10, <2>5, BatchPlace
  <2>7. k \in Nat /\ (slot + (n + 1)) + k \in Slots /\ (slot % m) \in Int
    BY <2>2, <2>6, RestTypes, SlotParts
  <2>8. (n + 1) + k \in RestOf(slot)
    BY <1>1, <2>2, <2>6, <2>7, SMTT(30) DEF RestOf
  <2>9. slot + ((n + 1) + k) = (slot + (n + 1)) + k
    BY <1>2, <2>7
  <2>10. ~((n + 1) + k < Len(p))
    BY <1>1, <1>14, <2>7
  <2>11. dd[slot + ((n + 1) + k)] # "blank"
    BY <2>2, <2>6, <2>9
  <2>12. SpoiledAt(dd, slot, p)
    BY <2>6, <2>8, <2>10, <2>11 DEF SpoiledAt
  <2>13. QED
    BY <1>7, <2>12
<1>15. QED
  BY <1>5, <1>7, <1>9, <1>13, <1>14

\* A sector that the batch opens is erased, or torn by a restart in the middle.
LEMMA EraseStep ==
    ASSUME NEW d \in Rings, NEW slot \in Slots, NEW p \in Seq(Samples), NEW n \in Nat,
           n < Len(p), Len(p) <= PENDING_CAPACITY, OpensSector(Ahead(slot, n)),
           Programmed(d, slot, p, n), NEW x \in Cells,
           NEW dd, dd = [c \in Slots |-> IF SectorOf(c) = SectorOf(Ahead(slot, n)) THEN x ELSE d[c]]
    PROVE  /\ dd \in Rings
           /\ SpoiledAt(dd, slot, p) = SpoiledAt(d, slot, p)
           /\ Programmed(dd, slot, p, n)
           /\ x = "blank" => Opened(dd, slot, n)
<1> DEFINE t == Ahead(slot, n)  m == SAMPLES_PER_SECTOR
<1>1. /\ Len(p) \in Nat /\ FLASH_CAPACITY \in Nat /\ m \in Nat \ {0} /\ PENDING_CAPACITY \in Nat
      /\ PENDING_CAPACITY < FLASH_CAPACITY /\ HISTORY_CAPACITY \in Nat \ {0}
      /\ HISTORY_CAPACITY + PENDING_CAPACITY + m <= FLASH_CAPACITY
  BY Sizes
<1>2. n \in 0 .. FLASH_CAPACITY - 1
  BY <1>1
<1>3. t \in Slots /\ t \in Int
  <2>1. n \in 0 .. FLASH_CAPACITY
    BY <1>1, <1>2
  <2>2. t \in Slots
    BY <2>1, RingSteps
  <2>3. QED
    BY <2>2, SlotParts
<1>4. dd \in Rings
  BY <1>3 DEF Rings
<1>5. ASSUME NEW k \in 0 .. n - 1
      PROVE  Ahead(slot, k) \in Slots /\ dd[Ahead(slot, k)] = d[Ahead(slot, k)]
  <2>1. k \in 0 .. FLASH_CAPACITY - 1 /\ Ahead(slot, k) \in Slots
    BY <1>1, <1>2, RingSteps
  <2>2. SectorOf(Ahead(slot, k)) # SectorOf(t)
    <3> SUFFICES ASSUME SectorOf(Ahead(slot, k)) = SectorOf(t) PROVE FALSE
      OBVIOUS
    <3>1. t <= Ahead(slot, k) /\ Ahead(slot, k) <= t + m - 1
      BY <1>3, <2>1, SectorSpan
    <3>2. slot \in Int /\ 0 <= slot /\ slot < FLASH_CAPACITY
      BY SlotParts
    <3>3. QED
      BY <1>1, <1>2, <2>1, <3>1, <3>2 DEF Ahead
  <2>3. QED
    BY <2>1, <2>2
<1>6. n >= TailOf(slot)
  <2> SUFFICES ASSUME ~(n >= TailOf(slot)) PROVE FALSE
    OBVIOUS
  <2>1. n < TailOf(slot)
    BY <1>2, BatchPlace
  <2>2. ~OpensSector(slot) /\ t = slot + n /\ (n > 0 => ~OpensSector(slot + n))
    BY <1>2, <2>1, BatchPlace
  <2>3. n = 0 => t = slot
    BY <1>1, SlotParts, <2>2
  <2>4. QED
    BY <2>2, <2>3
<1>7. ASSUME NEW k \in RestOf(slot), ~OpensSector(slot)
      PROVE  dd[slot + k] = d[slot + k]
  <2>1. k \in Nat /\ Ahead(slot, k) = slot + k /\ k < TailOf(slot)
    BY <1>7, RestTypes
  <2>2. k \in 0 .. n - 1
    BY <1>2, <1>6, <2>1, BatchPlace
  <2>3. QED
    BY <1>5, <2>1, <2>2
<1>8. SpoiledAt(dd, slot, p) = SpoiledAt(d, slot, p)
  BY <1>7 DEF SpoiledAt
<1>9. Programmed(dd, slot, p, n)
  BY <1>5, <1>8 DEF Programmed
<1>10. ASSUME x = "blank" PROVE Opened(dd, slot, n)
  <2>1. SUFFICES ASSUME NEW k \in RestOf(t) PROVE dd[t + k] = "blank"
    BY DEF Opened, BlankRest
  <2>2. t + k \in Slots /\ SectorOf(t + k) = SectorOf(t)
    BY <1>3, RestTypes
  <2>3. QED
    BY <1>10, <2>2
<1>11. QED
  BY <1>4, <1>8, <1>9, <1>10

\* What a flush touches lies ahead of write_slot, at most this far.
Touched(t, c) == c = t \/ (OpensSector(t) /\ SectorOf(c) = SectorOf(t))

LEMMA TouchedAhead ==
    ASSUME NEW slot \in Slots, NEW n \in Nat, n < PENDING_CAPACITY,
           NEW c \in Slots, Touched(Ahead(slot, n), c)
    PROVE  \E x \in Nat : x <= PENDING_CAPACITY + SAMPLES_PER_SECTOR - 2 /\ c = Ahead(slot, x)
<1> DEFINE t == Ahead(slot, n)  m == SAMPLES_PER_SECTOR
<1>1. /\ FLASH_CAPACITY \in Nat /\ m \in Nat \ {0} /\ PENDING_CAPACITY \in Nat
      /\ HISTORY_CAPACITY \in Nat \ {0}
      /\ HISTORY_CAPACITY + PENDING_CAPACITY + m <= FLASH_CAPACITY
  BY Sizes
<1>2. /\ slot \in Int /\ 0 <= slot /\ slot < FLASH_CAPACITY
      /\ c \in Int /\ 0 <= c /\ c < FLASH_CAPACITY
  BY SlotParts
<1>3. CASE c = t
  BY <1>1, <1>3
<1>4. CASE c # t
  <2>1. t \in Slots /\ t \in Int
    <3>1. n \in 0 .. FLASH_CAPACITY
      BY <1>1
    <3>2. QED
      BY <3>1, RingSteps, SlotParts
  <2>2. t <= c /\ c <= t + m - 1
    BY <1>4, <2>1, SectorSpan DEF Touched
  <2> DEFINE x == n + (c - t)
  <2>3. x \in Nat /\ x <= PENDING_CAPACITY + m - 2
    BY <1>1, <1>2, <2>1, <2>2
  <2>4. c = Ahead(slot, x)
    BY <1>1, <1>2, <2>1, <2>2 DEF Ahead
  <2>5. QED
    BY <2>3, <2>4
<1>5. QED
  BY <1>3, <1>4

\* A window survives what happens far enough ahead of it.
WindowOf(d, slot, n) == [i \in 1 .. n |-> d[Back(slot, n - i + 1)]]

LEMMA WindowStays ==
    ASSUME NEW d, NEW dd, NEW slot \in Slots, NEW n \in 0 .. HISTORY_CAPACITY,
           \A c \in Slots : dd[c] = d[c] \/
               \E x \in Nat : x <= FLASH_CAPACITY - HISTORY_CAPACITY - 1 /\ c = Ahead(slot, x)
    PROVE  WindowOf(dd, slot, n) = WindowOf(d, slot, n)
<1>1. /\ FLASH_CAPACITY \in Nat /\ HISTORY_CAPACITY \in Nat \ {0} /\ PENDING_CAPACITY \in Nat
      /\ HISTORY_CAPACITY <= FLASH_CAPACITY
  BY Sizes
<1>2. slot \in Int /\ 0 <= slot /\ slot < FLASH_CAPACITY
  BY SlotParts
<1>3. ASSUME NEW i \in 1 .. n
      PROVE  dd[Back(slot, n - i + 1)] = d[Back(slot, n - i + 1)]
  <2> DEFINE k == n - i + 1
  <2>1. k \in 1 .. HISTORY_CAPACITY /\ k \in 0 .. FLASH_CAPACITY
    BY <1>1
  <2> HIDE DEF k
  <2>2. Back(slot, k) \in Slots
    BY <2>1, RingSteps
  <2>3. ASSUME NEW x \in Nat, x <= FLASH_CAPACITY - HISTORY_CAPACITY - 1
        PROVE  Back(slot, k) # Ahead(slot, x)
    BY <1>1, <1>2, <2>1, <2>3 DEF Ahead, Back
  <2>4. dd[Back(slot, k)] = d[Back(slot, k)]
    BY <2>2, <2>3
  <2>5. QED
    BY <2>4 DEF k
<1>4. QED
  BY <1>3 DEF WindowOf

\* Distances around the ring add up.
LEMMA RingDistance ==
    ASSUME NEW slot \in Slots, NEW to \in Slots
    PROVE  /\ Back(to, slot) \in Nat /\ Back(to, slot) < FLASH_CAPACITY
           /\ \A x \in Nat : Back(to, slot) + x < FLASH_CAPACITY =>
                 Ahead(to, x) = Ahead(slot, Back(to, slot) + x)
           /\ Back(slot, slot) = 0
<1>1. /\ slot \in Int /\ 0 <= slot /\ slot < FLASH_CAPACITY
      /\ to \in Int /\ 0 <= to /\ to < FLASH_CAPACITY /\ FLASH_CAPACITY \in Nat
  BY SlotParts, Sizes
<1>2. QED
  BY <1>1 DEF Ahead, Back

(***************************************************************************)
(* The model's terms, as functions of the journal and the data.            *)
(***************************************************************************)

LEMMA ModelTerms ==
    /\ Entries = EntriesOf(journal) /\ Best = BestOf(journal)
    /\ Record(Best) = BestRecord(journal) /\ Lag = LagAt(journal, write_slot)
<1>1. Entries = EntriesOf(journal) /\ Best = BestOf(journal)
  BY EntriesAre
<1>2. Record(Best) = BestRecord(journal)
  BY <1>1 DEF Record, BestRecord
<1>3. QED
  BY <1>1, <1>2 DEF Lag, LagAt

LEMMA TypeFacts ==
    ASSUME HistoryTypeOK
    PROVE  /\ journal \in Journals /\ data \in Rings
           /\ generation \in 0 .. GenMod - 1 /\ meta_sector \in Metas
           /\ next_meta_slot \in 0 .. RECORDS_PER_SECTOR
           /\ write_slot \in Slots /\ pending \in Seq(Samples) /\ Len(pending) \in Nat
           /\ Len(pending) <= PENDING_CAPACITY /\ done \in Nat
BY DEF HistoryTypeOK, Journals, Rings, Cells

\* The place that a boot goes on at.
LEMMA OccupiedFacts ==
    ASSUME HistoryTypeOK, NEW sector \in Metas
    PROVE  /\ Occupied(sector) \in 0 .. RECORDS_PER_SECTOR
           /\ \A k \in Records : k >= Occupied(sector) => journal[sector][k] = Blank
<1> DEFINE R == RECORDS_PER_SECTOR
           Free(n) == \A k \in Records : k >= n => journal[sector][k] = Blank
           Fits(n) == (n > 0 => journal[sector][n - 1] # Blank) /\ Free(n)
           T == {n \in 0 .. R : Free(n)}
<1>1. R \in Nat \ {0} /\ Records = 0 .. R - 1
  BY Sizes DEF Records
<1>2. R \in T /\ T \subseteq Nat
  BY <1>1
<1>3. PICK n \in T : \A k \in T : n <= k
  BY <1>2, LeastOf
<1>4. Fits(n)
  <2> SUFFICES ASSUME n > 0, journal[sector][n - 1] = Blank PROVE FALSE
    BY <1>3
  <2>1. n \in Nat /\ n - 1 \in 0 .. R /\ Free(n)
    BY <1>1, <1>3
  <2>2. ASSUME NEW k \in Records, k >= n - 1 PROVE journal[sector][k] = Blank
    <3>1. k \in Int /\ (k = n - 1 \/ k >= n)
      BY <1>1, <2>1, <2>2
    <3>2. QED
      BY <2>1, <3>1
  <2>3. n - 1 \in T
    BY <2>1, <2>2
  <2>4. QED
    BY <1>3, <2>1, <2>3
<1>5. n \in 0 .. R
  BY <1>3
<1>6. Occupied(sector) = CHOOSE m \in 0 .. R : Fits(m)
  BY DEF Occupied
<1> HIDE DEF Fits, T
<1>7. Occupied(sector) \in 0 .. R /\ Fits(Occupied(sector))
  BY <1>4, <1>5, <1>6
<1>8. QED
  BY <1>7 DEF Fits

\* Programming, erasing and tearing leave a journal and a ring.
LEMMA FlashTypes ==
    ASSUME HistoryTypeOK
    PROVE  /\ Blank \in FlashMeta /\ Torn \in FlashMeta
           /\ \A sector \in Metas, r \in FlashMeta : JournalFilled(sector, r) \in Journals
           /\ \A sector \in Metas, k \in Records, r \in FlashMeta :
                 [journal EXCEPT ![sector][k] = r] \in Journals
           /\ \A sector \in Int, x \in Cells : DataFilled(sector, x) \in Rings
           /\ \A slot \in Slots, x \in Cells : [data EXCEPT ![slot] = x] \in Rings
<1>1. journal \in Journals /\ data \in Rings
  BY TypeFacts
<1>2. Blank \in FlashMeta /\ Torn \in FlashMeta
  BY DEF FlashMeta
<1>3. ASSUME NEW sector \in Metas, NEW r \in FlashMeta PROVE JournalFilled(sector, r) \in Journals
  BY <1>1 DEF JournalFilled, Journals
<1>4. ASSUME NEW sector \in Metas, NEW k \in Records, NEW r \in FlashMeta
      PROVE  [journal EXCEPT ![sector][k] = r] \in Journals
  BY <1>1 DEF Journals
<1>5. \A sector \in Int, x \in Cells : DataFilled(sector, x) \in Rings
  BY <1>1 DEF DataFilled, Rings
<1>6. \A slot \in Slots, x \in Cells : [data EXCEPT ![slot] = x] \in Rings
  BY <1>1 DEF Rings
<1>7. QED
  BY <1>2, <1>3, <1>4, <1>5, <1>6

\* A blank or torn record is no entry.
LEMMA Unentered ==
    /\ ~valid_meta(Blank) /\ ~valid_meta(Torn)
BY DEF valid_meta, Blank, Torn, Unwritten

\* A sector filled with either loses its entries and no others.
LEMMA FilledEntries ==
    ASSUME HistoryTypeOK, NEW sector \in Metas, NEW r \in {Blank, Torn}
    PROVE  /\ EntriesOf(JournalFilled(sector, r)) = {e \in EntriesOf(journal) : e[1] # sector}
           /\ LostFrom(journal, JournalFilled(sector, r))
<1> DEFINE jj == JournalFilled(sector, r)
<1>1. journal \in Journals
  BY TypeFacts
<1>2. \A e \in Metas \X Records : jj[e[1]][e[2]] = IF e[1] = sector THEN r ELSE journal[e[1]][e[2]]
  BY <1>1 DEF JournalFilled, Journals
<1>3. ~valid_meta(r)
  BY Unentered
<1> HIDE DEF jj
<1>4. EntriesOf(jj) = {e \in EntriesOf(journal) : e[1] # sector}
  BY <1>2, <1>3 DEF EntriesOf
<1>5. LostFrom(journal, jj)
  BY <1>2, <1>4 DEF LostFrom, EntriesOf
<1>6. QED
  BY <1>4, <1>5 DEF jj

\* While the sector in use has entries, the best record is one of them.
LEMMA BestInUse ==
    ASSUME HistoryInv, pc # "boot", NEW e \in EntriesOf(journal), e[1] = meta_sector
    PROVE  BestOf(journal) \in EntriesOf(journal) /\ BestOf(journal)[1] = meta_sector
<1>1. /\ journal \in Journals /\ generation \in 0 .. GenMod - 1 /\ meta_sector \in Metas
      /\ next_meta_slot \in 0 .. RECORDS_PER_SECTOR
      /\ Ordered(journal, generation, meta_sector, next_meta_slot)
  BY TypeFacts DEF HistoryInv, JournalOrdered
<1> DEFINE b == BestOf(journal)
<1>2. Nearest(journal, meta_sector, next_meta_slot, b)
  BY <1>1, BestIsNearest
<1>3. /\ b \in EntriesOf(journal)
      /\ Place(meta_sector, next_meta_slot, b) <= Place(meta_sector, next_meta_slot, e)
  BY <1>2 DEF Nearest
<1>4. /\ b[2] \in Int /\ e[2] \in Int /\ next_meta_slot \in Int /\ RECORDS_PER_SECTOR \in Int
      /\ b[2] <= RECORDS_PER_SECTOR - 1 /\ 0 <= e[2]
  BY <1>1, <1>3, EntryTypes, Sizes
<1>5. b[1] = meta_sector
  BY <1>3, <1>4 DEF Place
<1>6. QED
  BY <1>3, <1>5

(***************************************************************************)
(* The invariant, action by action.                                        *)
(***************************************************************************)

\* Steps that leave the journal and the head alone.
LEMMA JournalQuiet ==
    ASSUME HistoryInv, pc # "boot", pc' # "boot", journal' = journal, generation' = generation,
           meta_sector' = meta_sector, next_meta_slot' = next_meta_slot, ready' = ready
    PROVE  JournalOrdered' /\ HeadKnown'
BY DEF HistoryInv, JournalOrdered, HeadKnown

LEMMA RoomQuiet ==
    ASSUME HistoryInv, journal' = journal, write_slot' = write_slot,
           ready' = ready, phase' = phase,
           pc \notin {"boot", "switch", "record"}
    PROVE  Room'
BY DEF HistoryInv, Room

LEMMA CleanQuiet ==
    ASSUME HistoryInv, pc # "boot", journal' = journal, write_slot' = write_slot,
           persisted' = persisted, generation' = generation, ready' = ready, phase' = phase,
           metadata_dirty => metadata_dirty'
    PROVE  Clean'
BY DEF HistoryInv, Clean

LEMMA BeginFlushKeeps ==
    ASSUME HistoryInv, NEW who \in {"tick", "full", "run"}, BeginFlush(who),
           who = "run" => Len(pending) < PENDING_CAPACITY
    PROVE  HistoryInv'
<1>1. /\ pc = "idle" /\ ready /\ phase = "inactive" /\ done = 0
      /\ pending # <<>> \/ metadata_dirty
      /\ pc' = FirstStep /\ caller' = who
      /\ UNCHANGED <<flashVars, ready, indexVars, metaVars, pending, runVars, clearVars, done>>
  BY DEF BeginFlush, HistoryInv, Calls
<1>2. CASE pending = <<>>
  <2>1. pc' = (IF next_meta_slot = RECORDS_PER_SECTOR THEN "switch" ELSE "record") /\ metadata_dirty
    BY <1>1, <1>2 DEF FirstStep, MetaStep
  <2>2. next_meta_slot \in 0 .. RECORDS_PER_SECTOR
    BY DEF HistoryInv, HistoryTypeOK
  <2>3. pc' \in {"switch", "record"}
        /\ (pc' = "switch" => next_meta_slot = RECORDS_PER_SECTOR)
        /\ (pc' = "record" => next_meta_slot < RECORDS_PER_SECTOR)
    BY <2>1, <2>2, Sizes
  <2>4. Calls' /\ AtBoot' /\ Clearing'
    BY <1>1, <1>2, <2>1, <2>3 DEF Calls, AtBoot, Clearing, flashVars, indexVars, metaVars, runVars, clearVars
  <2>5. Batch' /\ Room'
    BY <2>3 DEF Batch, Room
  <2>6. HistoryTypeOK' /\ CountsAgree'
    BY <1>1, <2>3 DEF HistoryInv, HistoryTypeOK, CountsAgree, flashVars, indexVars, metaVars, runVars, clearVars
  <2>7. JournalOrdered' /\ HeadKnown' /\ Clean'
    BY <1>1, <2>3, JournalQuiet, CleanQuiet DEF flashVars, indexVars, metaVars, runVars, clearVars
  <2>8. QED
    BY <2>4, <2>5, <2>6, <2>7 DEF HistoryInv
<1>3. CASE pending # <<>>
  <2>1. pc' = IF OpensSector(write_slot) THEN "erase" ELSE "program"
    BY <1>1, <1>3 DEF FirstStep, DataStep
  <2>2. pc' \in {"erase", "program"} /\ write_slot \in Slots /\ Ahead(write_slot, 0) = write_slot
        /\ Len(pending) > 0
    <3>1. write_slot \in Slots /\ pending \in Seq(Samples)
      BY TypeFacts DEF HistoryInv
    <3>2. QED
      BY <1>3, <2>1, <3>1, RingSteps
  <2>3. Calls' /\ AtBoot' /\ Clearing'
    BY <1>1, <2>2 DEF Calls, AtBoot, Clearing, flashVars, indexVars, metaVars, runVars, clearVars
  <2>4. Programmed(data, write_slot, pending, 0)
    BY DEF Programmed
  <2>5. pc' = "program" => Opened(data, write_slot, 0)
    <3>1. ~OpensSector(write_slot) => TailOf(write_slot) > 0
      <4>1. (write_slot % SAMPLES_PER_SECTOR) \in 0 .. SAMPLES_PER_SECTOR - 1
        BY <2>2, SlotParts
      <4>2. QED
        BY <4>1, Sizes DEF TailOf
    <3>2. TailOf(write_slot) \in Int
      <4>1. 0 \in 0 .. FLASH_CAPACITY - 1
        BY Sizes
      <4>2. QED
        BY <2>2, <4>1, BatchPlace
    <3>3. QED
      BY <2>1, <3>1, <3>2 DEF Opened
  <2>6. Batch'
    BY <1>1, <2>1, <2>2, <2>4, <2>5
       DEF Batch, Target, flashVars, indexVars, metaVars, runVars, clearVars
  <2>7. HistoryTypeOK' /\ CountsAgree'
    BY <1>1, <2>2 DEF HistoryInv, HistoryTypeOK, CountsAgree, flashVars, indexVars, metaVars, runVars, clearVars
  <2>8. JournalOrdered' /\ HeadKnown' /\ Clean' /\ Room'
    BY <1>1, <2>2, JournalQuiet, CleanQuiet, RoomQuiet DEF flashVars, indexVars, metaVars, runVars, clearVars
  <2>9. QED
    BY <2>3, <2>6, <2>7, <2>8 DEF HistoryInv
<1>4. QED
  BY <1>2, <1>3

LEMMA FlushTickKeeps == ASSUME HistoryInv, FlushTick PROVE HistoryInv'
BY BeginFlushKeeps DEF FlushTick

LEMMA CommitToFullRingKeeps == ASSUME HistoryInv, CommitToFullRing PROVE HistoryInv'
BY BeginFlushKeeps DEF CommitToFullRing

LEMMA CommitEndsRunKeeps == ASSUME HistoryInv, CommitEndsRun PROVE HistoryInv'
BY BeginFlushKeeps DEF CommitEndsRun

\* A flush that has failed leaves the index, the ring and the record for a retry.
LEMMA ReturnKeeps ==
    ASSUME HistoryInv, Return(FALSE), pc \in {"erase", "program", "switch", "record"},
           caller = "run" => Len(pending) < PENDING_CAPACITY,
           UNCHANGED <<flashVars, ready, indexVars, metaVars, pending, runVars,
                       preserved_meta_sector, next_sector>>,
           pc \in {"switch", "record"} /\ phase = "inactive" =>
               LagAt(journal, write_slot) + PENDING_CAPACITY + SAMPLES_PER_SECTOR
                   <= FLASH_CAPACITY - HISTORY_CAPACITY + 1
    PROVE  HistoryInv'
<1>1. /\ pc' = (IF caller = "run" THEN "commit" ELSE "idle")
      /\ caller' = (IF caller = "run" THEN caller ELSE "none")
      /\ done' = 0 /\ phase' = phase
  BY DEF Return
<1>2. ready /\ caller # "none" /\ (phase # "inactive" => caller = "clear")
  BY DEF HistoryInv, Calls
<1>3. Calls' /\ AtBoot' /\ Batch'
  BY <1>1, <1>2 DEF HistoryInv, Calls, AtBoot, Batch, flashVars, indexVars, metaVars, runVars
<1>4. Clearing'
  BY <1>1, <1>2 DEF HistoryInv, Clearing, flashVars, indexVars, metaVars, runVars
<1>5. HistoryTypeOK'
  BY <1>1, Sizes DEF HistoryInv, HistoryTypeOK, flashVars, indexVars, metaVars, runVars
<1>6. CountsAgree'
  BY <1>1 DEF HistoryInv, CountsAgree, flashVars, indexVars, metaVars, runVars
<1>7. JournalOrdered' /\ HeadKnown' /\ Clean'
  BY <1>1, JournalQuiet, CleanQuiet DEF flashVars, indexVars, metaVars, runVars
<1>8. Room'
  BY <1>1 DEF HistoryInv, Room, flashVars, indexVars, metaVars, runVars
<1>9. QED
  BY <1>3, <1>4, <1>5, <1>6, <1>7, <1>8 DEF HistoryInv

LEMMA EraseSectorKeeps == ASSUME HistoryInv, EraseSector PROVE HistoryInv'
<1>1. /\ pc = "erase" /\ ready /\ phase = "inactive" /\ done < Len(pending)
      /\ caller \in {"tick", "full", "run"} /\ (caller = "run" => Len(pending) < PENDING_CAPACITY)
      /\ UNCHANGED <<journal, ready, indexVars, metaVars, pending, runVars,
                     preserved_meta_sector, next_sector>>
  BY DEF EraseSector, HistoryInv, Calls
<1>2. CASE Return(FALSE) /\ UNCHANGED data
  <2>1. UNCHANGED flashVars
    BY <1>1, <1>2 DEF flashVars
  <2>2. QED
    BY <1>1, <1>2, <2>1, ReturnKeeps
<1>3. CASE /\ data' = DataFilled(SectorOf(Target), "blank")
           /\ pc' = "program"
           /\ UNCHANGED <<phase, caller, done>>
  <2>1. /\ data \in Rings /\ write_slot \in Slots /\ pending \in Seq(Samples) /\ done \in Nat
        /\ Len(pending) <= PENDING_CAPACITY
    BY TypeFacts DEF HistoryInv
  <2>2. Programmed(data, write_slot, pending, done) /\ OpensSector(Ahead(write_slot, done))
    BY <1>1 DEF HistoryInv, Batch, Target
  <2>3. data' = [c \in Slots |-> IF SectorOf(c) = SectorOf(Ahead(write_slot, done)) THEN "blank" ELSE data[c]]
    BY <1>3 DEF DataFilled, Target
  <2>4. "blank" \in Cells
    BY DEF Cells
  <2>5. data' \in Rings /\ Programmed(data', write_slot, pending, done) /\ Opened(data', write_slot, done)
    BY <1>1, <2>1, <2>2, <2>3, <2>4, EraseStep
  <2>6. Batch'
    BY <1>1, <1>3, <2>5 DEF Batch, indexVars
  <2>7. HistoryTypeOK' /\ CountsAgree'
    BY <1>1, <1>3, <2>5 DEF HistoryInv, HistoryTypeOK, CountsAgree, indexVars, metaVars, runVars, Rings, Cells
  <2>8. Calls' /\ AtBoot' /\ Clearing'
    BY <1>1, <1>3 DEF HistoryInv, Calls, AtBoot, Clearing, indexVars, metaVars, runVars
  <2>9. JournalOrdered' /\ HeadKnown' /\ Clean' /\ Room'
    BY <1>1, <1>3, JournalQuiet, CleanQuiet, RoomQuiet DEF indexVars, metaVars, runVars
  <2>10. QED
    BY <2>6, <2>7, <2>8, <2>9 DEF HistoryInv
<1>4. QED
  BY <1>2, <1>3 DEF EraseSector

\* The step of a sample, for the invariant and the refinement.
LEMMA WriteSampleFacts ==
    ASSUME HistoryInv, pc = "program",
           data' = [data EXCEPT ![Target] = ProgramSample(@, pending[done + 1])]
    PROVE  /\ data \in Rings /\ write_slot \in Slots /\ pending \in Seq(Samples) /\ done \in Nat
           /\ done < Len(pending) /\ Len(pending) \in Nat /\ Len(pending) <= PENDING_CAPACITY
           /\ PENDING_CAPACITY < FLASH_CAPACITY
           /\ Target = Ahead(write_slot, done) /\ Ahead(Target, 1) = Ahead(write_slot, done + 1)
           /\ Ahead(write_slot, done + 1) \in Slots
           /\ data' \in Rings
           /\ SpoiledAt(data', write_slot, pending) = SpoiledAt(data, write_slot, pending)
           /\ Programmed(data', write_slot, pending, done + 1)
           /\ ~OpensSector(Ahead(write_slot, done + 1)) => Opened(data', write_slot, done + 1)
           /\ done + 1 = Len(pending) /\ SpoiledAt(data', Ahead(write_slot, done + 1), <<>>)
                 => SpoiledAt(data, write_slot, pending)
<1>1. /\ data \in Rings /\ write_slot \in Slots /\ pending \in Seq(Samples) /\ done \in Nat
      /\ Len(pending) <= PENDING_CAPACITY /\ Len(pending) \in Nat
  BY TypeFacts DEF HistoryInv
<1>2. /\ done < Len(pending) /\ Programmed(data, write_slot, pending, done)
      /\ Opened(data, write_slot, done)
  BY DEF HistoryInv, Calls, Batch
<1>3. PENDING_CAPACITY < FLASH_CAPACITY /\ PENDING_CAPACITY \in Nat /\ FLASH_CAPACITY \in Nat
  BY Sizes
<1>4. done \in 0 .. FLASH_CAPACITY - 1 /\ done + 1 \in 0 .. FLASH_CAPACITY
  BY <1>1, <1>2, <1>3
<1>5. Target = Ahead(write_slot, done)
  BY DEF Target
<1>6. Ahead(Target, 1) = Ahead(write_slot, done + 1) /\ Ahead(write_slot, done + 1) \in Slots
  BY <1>1, <1>4, <1>5, RingSteps
<1>7. data' = [data EXCEPT ![Ahead(write_slot, done)] = ProgramSample(@, pending[done + 1])]
  BY <1>5
<1>8. /\ data' \in Rings
      /\ SpoiledAt(data', write_slot, pending) = SpoiledAt(data, write_slot, pending)
      /\ Programmed(data', write_slot, pending, done + 1)
      /\ ~OpensSector(Ahead(write_slot, done + 1)) => Opened(data', write_slot, done + 1)
      /\ done + 1 = Len(pending) /\ SpoiledAt(data', Ahead(write_slot, done + 1), <<>>)
            => SpoiledAt(data, write_slot, pending)
  BY <1>1, <1>2, <1>7, ProgramStep
<1>9. QED
  BY <1>1, <1>2, <1>3, <1>5, <1>6, <1>8

LEMMA WriteSampleKeeps == ASSUME HistoryInv, WriteSample PROVE HistoryInv'
<1>1. /\ pc = "program" /\ ready /\ phase = "inactive" /\ done < Len(pending)
      /\ caller \in {"tick", "full", "run"} /\ (caller = "run" => Len(pending) < PENDING_CAPACITY)
      /\ UNCHANGED <<journal, ready, generation, meta_sector, next_meta_slot, runVars,
                     preserved_meta_sector, next_sector>>
  BY DEF WriteSample, HistoryInv, Calls
<1>2. CASE Return(FALSE) /\ UNCHANGED <<data, indexVars, metadata_dirty, pending>>
  <2>1. UNCHANGED <<flashVars, ready, indexVars, metaVars, pending, runVars,
                    preserved_meta_sector, next_sector>>
    BY <1>1, <1>2 DEF flashVars, metaVars
  <2>2. QED
    BY <1>1, <1>2, <2>1, ReturnKeeps
<1>3. CASE /\ data' = [data EXCEPT ![Target] = ProgramSample(@, pending[done + 1])]
           /\ done + 1 < Len(pending)
           /\ done' = done + 1
           /\ pc' = DataStep(Ahead(Target, 1))
           /\ UNCHANGED <<indexVars, metadata_dirty, pending, caller, phase>>
  <2>1. /\ data' \in Rings /\ Programmed(data', write_slot, pending, done + 1)
        /\ ~OpensSector(Ahead(write_slot, done + 1)) => Opened(data', write_slot, done + 1)
        /\ Ahead(Target, 1) = Ahead(write_slot, done + 1)
        /\ done \in Nat /\ Len(pending) \in Nat /\ Len(pending) <= PENDING_CAPACITY
    BY <1>1, <1>3, WriteSampleFacts
  <2>2. pc' = IF OpensSector(Ahead(write_slot, done + 1)) THEN "erase" ELSE "program"
    BY <1>3, <2>1 DEF DataStep
  <2>3. Batch'
    BY <1>1, <1>3, <2>1, <2>2 DEF Batch, Target, indexVars
  <2>4. pc' \in {"erase", "program"} /\ done' \in 0 .. PENDING_CAPACITY
    BY <1>3, <2>1, <2>2, Sizes
  <2>5. HistoryTypeOK' /\ CountsAgree'
    BY <1>1, <1>3, <2>1, <2>4
       DEF HistoryInv, HistoryTypeOK, CountsAgree, indexVars, runVars, Rings, Cells
  <2>6. Calls' /\ AtBoot' /\ Clearing'
    BY <1>1, <1>3, <2>4 DEF Calls, AtBoot, Clearing, indexVars, runVars
  <2>7. JournalOrdered' /\ HeadKnown' /\ Clean' /\ Room'
    BY <1>1, <1>3, <2>4, JournalQuiet, CleanQuiet, RoomQuiet DEF indexVars, runVars
  <2>8. QED
    BY <2>3, <2>5, <2>6, <2>7 DEF HistoryInv
<1>4. CASE /\ data' = [data EXCEPT ![Target] = ProgramSample(@, pending[done + 1])]
           /\ done + 1 = Len(pending)
           /\ write_slot' = Ahead(Target, 1)
           /\ persisted' = PersistedAfter(Len(pending))
           /\ metadata_dirty' = TRUE
           /\ pending' = <<>> /\ done' = 0
           /\ pc' = MetaStep
           /\ UNCHANGED <<caller, phase>>
  <2>1. /\ data' \in Rings /\ Ahead(Target, 1) \in Slots
        /\ Len(pending) \in Nat /\ Len(pending) <= PENDING_CAPACITY
    BY <1>1, <1>4, WriteSampleFacts
  <2>2. /\ pc' \in {"switch", "record"}
        /\ pc' = "switch" => next_meta_slot = RECORDS_PER_SECTOR
        /\ pc' = "record" => next_meta_slot < RECORDS_PER_SECTOR
    <3>1. next_meta_slot \in 0 .. RECORDS_PER_SECTOR
      BY DEF HistoryInv, HistoryTypeOK
    <3>2. QED
      BY <1>4, <3>1, Sizes DEF MetaStep
  <2>3. /\ persisted' = (IF persisted + Len(pending) < HISTORY_CAPACITY THEN persisted + Len(pending)
                                                                       ELSE HISTORY_CAPACITY)
        /\ persisted' \in 0 .. HISTORY_CAPACITY /\ Len(pending') = 0 /\ pending' \in Seq(Samples)
    <3>1. persisted \in 0 .. HISTORY_CAPACITY /\ HISTORY_CAPACITY \in Nat
      BY Sizes DEF HistoryInv, HistoryTypeOK
    <3>2. QED
      BY <1>4, <2>1, <3>1 DEF PersistedAfter, MinOf
  <2>4. HistoryTypeOK'
    <3>1. /\ data' \in [Slots -> Samples \cup {"blank", "corrupt"}] /\ write_slot' \in Slots
          /\ Len(pending') <= PENDING_CAPACITY /\ done' \in 0 .. PENDING_CAPACITY
      BY <1>4, <2>1, <2>3, Sizes DEF Rings, Cells
    <3>2. pc' \in {"boot", "idle", "erase", "program", "switch", "record", "commit"}
      BY <2>2
    <3>3. QED
      BY <1>1, <1>4, <2>3, <3>1, <3>2 DEF HistoryInv, HistoryTypeOK, runVars
  <2>5. CountsAgree'
    <3>1. /\ count = MinOf(persisted + Len(pending), HISTORY_CAPACITY) /\ run_count <= count
          /\ count' = count /\ run_count' = run_count
      BY <1>1 DEF HistoryInv, CountsAgree, runVars
    <3>2. persisted \in 0 .. HISTORY_CAPACITY /\ HISTORY_CAPACITY \in Nat
      BY Sizes DEF HistoryInv, HistoryTypeOK
    <3>3. QED
      BY <2>1, <2>3, <3>1, <3>2 DEF CountsAgree, MinOf
  <2>6. Calls' /\ AtBoot' /\ Clearing' /\ Batch' /\ Room' /\ Clean'
    BY <1>1, <1>4, <2>2 DEF Calls, AtBoot, Clearing, Batch, Room, Clean
  <2>7. JournalOrdered' /\ HeadKnown'
    BY <1>1, <1>4, <2>2, JournalQuiet
  <2>8. QED
    BY <2>4, <2>5, <2>6, <2>7 DEF HistoryInv
<1>5. QED
  BY <1>2, <1>3, <1>4 DEF WriteSample

\* A checkpoint may fail only while there is room for the next flush.
LEMMA CheckpointRoom ==
    ASSUME HistoryInv, pc \in {"switch", "record"}, phase = "inactive", NEW error,
           CheckpointMayFail(error)
    PROVE  LagAt(journal, write_slot) + PENDING_CAPACITY + SAMPLES_PER_SECTOR
               <= FLASH_CAPACITY - HISTORY_CAPACITY + 1
<1>1. caller # "clear" /\ (caller = "init" => EntriesOf(journal) = {})
  BY DEF HistoryInv, Calls
<1>2. CASE caller = "init"
  <2>1. LagAt(journal, write_slot) = 0
    BY <1>1, <1>2 DEF LagAt
  <2>2. QED
    BY <2>1, Sizes
<1>3. CASE caller # "init"
  BY <1>1, <1>3, ModelTerms DEF CheckpointMayFail
<1>4. QED
  BY <1>2, <1>3

\* The other sector is erased, and the records of the one in use stay.
LEMMA SwitchFacts ==
    ASSUME HistoryInv, pc = "switch", NEW r \in {Blank, Torn},
           NEW jj, jj = JournalFilled(Other(meta_sector), r)
    PROVE  /\ jj \in Journals /\ Other(meta_sector) \in Metas
           /\ EntriesOf(jj) # {}
           /\ BestOf(jj) = BestOf(journal) /\ BestRecord(jj) = BestRecord(journal)
           /\ Ordered(jj, generation, Other(meta_sector), 0)
           /\ LostFrom(journal, jj)
<1>1. /\ journal \in Journals /\ generation \in 0 .. GenMod - 1 /\ meta_sector \in Metas
      /\ next_meta_slot \in 0 .. RECORDS_PER_SECTOR
      /\ Ordered(journal, generation, meta_sector, next_meta_slot)
  BY TypeFacts DEF HistoryInv, JournalOrdered
<1>2. next_meta_slot > 0
  BY Sizes DEF HistoryInv, Calls
<1>3. PICK e \in EntriesOf(journal) : e[1] = meta_sector
  BY <1>2 DEF HistoryInv, HeadKnown
<1>4. BestOf(journal) \in EntriesOf(journal) /\ BestOf(journal)[1] = meta_sector
  BY <1>3, BestInUse
<1>5. Other(meta_sector) \in Metas /\ Other(meta_sector) # meta_sector
  BY <1>1 DEF Other, Metas
<1>6. jj \in Journals
  BY <1>5, FlashTypes DEF HistoryInv
<1>7. /\ EntriesOf(jj) = {f \in EntriesOf(journal) : f[1] # Other(meta_sector)}
      /\ LostFrom(journal, jj)
  BY <1>5, FilledEntries DEF HistoryInv
<1>8. BestOf(journal) \in EntriesOf(jj)
  BY <1>4, <1>5, <1>7
<1>9. BestOf(jj) = BestOf(journal)
  BY <1>1, <1>6, <1>7, <1>8, BestWhenLost
<1>10. BestRecord(jj) = BestRecord(journal)
  BY <1>7, <1>8, <1>9 DEF BestRecord, LostFrom
<1>11. \A f \in EntriesOf(jj) : f[1] = meta_sector
  BY <1>1, <1>7, EntryTypes DEF Other, Metas
<1>12. Ordered(jj, generation, Other(meta_sector), 0)
  BY <1>1, <1>6, <1>7, <1>11, OrderedWhenSwitched
<1>13. QED
  BY <1>5, <1>6, <1>7, <1>8, <1>9, <1>10, <1>12

LEMMA SwitchSectorKeeps == ASSUME HistoryInv, SwitchSector PROVE HistoryInv'
<1>1. /\ pc = "switch" /\ ready /\ pending = <<>> /\ metadata_dirty /\ done = 0
      /\ phase = "inactive" /\ caller \in {"tick", "full", "run"}
      /\ UNCHANGED <<data, ready, indexVars, generation, metadata_dirty, pending, runVars,
                     preserved_meta_sector, next_sector>>
  BY DEF SwitchSector, HistoryInv, Calls
<1>2. Len(pending) = 0 /\ PENDING_CAPACITY > 0
  BY <1>1, Sizes
<1>3. CASE /\ CheckpointMayFail("erase") /\ Return(FALSE)
           /\ UNCHANGED <<journal, meta_sector, next_meta_slot>>
  <2>1. UNCHANGED <<flashVars, ready, indexVars, metaVars, pending, runVars,
                    preserved_meta_sector, next_sector>>
    BY <1>1, <1>3 DEF flashVars, metaVars
  <2>2. QED
    BY <1>1, <1>2, <1>3, <2>1, ReturnKeeps, CheckpointRoom
<1>4. CASE /\ journal' = JournalFilled(Other(meta_sector), Blank)
           /\ meta_sector' = Other(meta_sector) /\ next_meta_slot' = 0
           /\ pc' = "record"
           /\ UNCHANGED <<phase, caller, done>>
  <2>1. /\ journal' \in Journals /\ meta_sector' \in Metas
        /\ BestRecord(journal') = BestRecord(journal)
        /\ Ordered(journal', generation, meta_sector', 0)
        /\ EntriesOf(journal') # {}
    BY <1>1, <1>4, SwitchFacts
  <2>2. JournalOrdered'
    BY <1>1, <1>4, <2>1 DEF JournalOrdered
  <2>3. \A k \in Records : journal'[meta_sector'][k] = Blank
    BY <1>4, <2>1 DEF JournalFilled, Journals
  <2>4. EntriesOf(journal) # {}
    BY <1>1, Sizes DEF HistoryInv, HeadKnown, Calls
  <2>5. HeadKnown'
    BY <1>1, <1>4, <2>1, <2>3, <2>4 DEF HistoryInv, HeadKnown
  <2>6. HistoryTypeOK'
    BY <1>1, <1>4, <2>1, Sizes DEF HistoryInv, HistoryTypeOK, indexVars, runVars, Journals
  <2>7. CountsAgree' /\ AtBoot' /\ Clearing' /\ Batch' /\ Room' /\ Clean'
    BY <1>1, <1>4 DEF HistoryInv, CountsAgree, AtBoot, Clearing, Batch, Room, Clean, indexVars, runVars
  <2>8. Calls'
    BY <1>1, <1>4, Sizes DEF Calls
  <2>9. QED
    BY <2>2, <2>5, <2>6, <2>7, <2>8 DEF HistoryInv
<1>5. QED
  BY <1>3, <1>4 DEF SwitchSector

\* The record goes into a blank place and is the best one from then on.
LEMMA WriteRecordFacts ==
    ASSUME HistoryInv, pc = "record", NEW jj,
           jj = [journal EXCEPT ![meta_sector][next_meta_slot] = ProgramRecord(@, Checkpointed)]
    PROVE  /\ jj \in Journals /\ NextGen \in 0 .. GenMod - 1
           /\ next_meta_slot \in Records /\ meta_sector \in Metas
           /\ Ordered(jj, NextGen, meta_sector, next_meta_slot + 1)
           /\ <<meta_sector, next_meta_slot>> \in EntriesOf(jj)
           /\ BestOf(jj) = <<meta_sector, next_meta_slot>>
           /\ BestRecord(jj) = Checkpointed
           /\ \A k \in Records : k >= next_meta_slot + 1 => jj[meta_sector][k] = Blank
<1> DEFINE h == <<meta_sector, next_meta_slot>>
<1>1. /\ journal \in Journals /\ generation \in 0 .. GenMod - 1 /\ meta_sector \in Metas
      /\ next_meta_slot \in 0 .. RECORDS_PER_SECTOR /\ next_meta_slot < RECORDS_PER_SECTOR
      /\ Ordered(journal, generation, meta_sector, next_meta_slot)
      /\ ready /\ pending = <<>>
  BY TypeFacts DEF HistoryInv, JournalOrdered, Calls
<1>2. next_meta_slot \in Records /\ next_meta_slot \in Int /\ \A k \in Records : k \in Int
  BY <1>1, Sizes DEF Records
<1>3. NextGen \in 0 .. GenMod - 1 /\ NextGen = NextOf(generation)
  <2>1. NextGen = NextOf(generation)
    BY DEF NextGen, NextOf
  <2>2. GenMod \in Nat \ {0} /\ generation \in Int
    BY <1>1, Sizes
  <2>3. QED
    BY <1>1, <2>1, <2>2 DEF NextOf
<1>4. \A k \in Records : k >= next_meta_slot => journal[meta_sector][k] = Blank
  BY <1>1 DEF HistoryInv, HeadKnown
<1>5. journal[meta_sector][next_meta_slot] = Blank
  BY <1>2, <1>4
<1>6. jj = [journal EXCEPT ![meta_sector][next_meta_slot] = Checkpointed]
  BY <1>1, <1>2, <1>5 DEF ProgramRecord, Journals
<1>7. /\ persisted \in 0 .. HISTORY_CAPACITY /\ run_count \in 0 .. HISTORY_CAPACITY
      /\ write_slot \in Slots
  BY DEF HistoryInv, HistoryTypeOK
<1>8. run_count <= persisted
  <2>1. count = MinOf(persisted + Len(pending), HISTORY_CAPACITY) /\ run_count <= count
    BY DEF HistoryInv, CountsAgree
  <2>2. Len(pending) = 0 /\ HISTORY_CAPACITY \in Nat
    BY <1>1, Sizes
  <2>3. QED
    BY <1>7, <2>1, <2>2 DEF MinOf
<1>9. Checkpointed \in FlashMeta /\ valid_meta(Checkpointed) /\ Checkpointed.gen = NextGen
  BY <1>3, <1>7, <1>8 DEF Checkpointed, FlashMeta, valid_meta
<1>10. jj \in Journals
  <2> DEFINE r == Checkpointed
  <2>1. jj = [journal EXCEPT ![meta_sector][next_meta_slot] = r] /\ r \in FlashMeta
    BY <1>6, <1>9
  <2> HIDE DEF r
  <2>2. QED
    BY <1>1, <1>2, <2>1 DEF Journals
<1>11. \A e \in Metas \X Records :
          jj[e[1]][e[2]] = IF e = h THEN Checkpointed ELSE journal[e[1]][e[2]]
  BY <1>1, <1>2, <1>6 DEF Journals
<1>12. h \in Metas \X Records /\ h[1] = meta_sector /\ h[2] = next_meta_slot
  BY <1>1, <1>2
<1>13. h \notin EntriesOf(journal)
  BY <1>5, <1>12, Unentered DEF EntriesOf
<1>14. EntriesOf(jj) = EntriesOf(journal) \cup {h}
  BY <1>9, <1>11, <1>12 DEF EntriesOf
<1>15. jj[meta_sector][next_meta_slot] = Checkpointed
  BY <1>11, <1>12
<1>16. \A e \in EntriesOf(journal) : jj[e[1]][e[2]] = journal[e[1]][e[2]]
  BY <1>11, <1>13 DEF EntriesOf
<1>17. Ordered(jj, NextGen, meta_sector, next_meta_slot + 1) /\ BestOf(jj) = h
  <2>1. jj[meta_sector][next_meta_slot].gen = NextOf(generation)
    BY <1>3, <1>9, <1>15
  <2>2. journal \in Journals /\ generation \in 0 .. GenMod - 1 /\ meta_sector \in Metas
    BY <1>1
  <2>3. next_meta_slot \in Records /\ Ordered(journal, generation, meta_sector, next_meta_slot)
    BY <1>1, <1>2
  <2>4. AddedTo(journal, jj, <<meta_sector, next_meta_slot>>)
    BY <1>13, <1>14, <1>16 DEF AddedTo
  <2> HIDE DEF h
  <2>5. ASSUME NEW n \in Records, Ordered(journal, generation, meta_sector, n),
               AddedTo(journal, jj, <<meta_sector, n>>), jj[meta_sector][n].gen = NextOf(generation)
        PROVE  /\ Ordered(jj, NextOf(generation), meta_sector, n + 1)
               /\ Nearest(jj, meta_sector, n + 1, <<meta_sector, n>>)
    BY <1>10, <2>2, <2>5, OrderedWhenWritten
  <2>6. /\ Ordered(jj, NextGen, meta_sector, next_meta_slot + 1)
        /\ Nearest(jj, meta_sector, next_meta_slot + 1, h)
    BY <1>3, <2>1, <2>3, <2>4, <2>5 DEF h
  <2>7. next_meta_slot + 1 \in 0 .. RECORDS_PER_SECTOR
    <3>1. next_meta_slot \in 0 .. RECORDS_PER_SECTOR - 1 /\ RECORDS_PER_SECTOR \in Nat
      BY <1>2, Sizes DEF Records
    <3>2. QED
      BY <3>1
  <2>8. BestOf(jj) = h
    BY <1>3, <1>10, <2>2, <2>6, <2>7, NearestIsBest
  <2>9. QED
    BY <2>6, <2>8
<1>18. BestRecord(jj) = Checkpointed
  BY <1>12, <1>15, <1>17 DEF BestRecord
<1>19. ASSUME NEW k \in Records, k >= next_meta_slot + 1 PROVE jj[meta_sector][k] = Blank
  <2>1. k # next_meta_slot /\ k >= next_meta_slot
    BY <1>2, <1>19
  <2>2. <<meta_sector, k>> \in Metas \X Records /\ <<meta_sector, k>> # h
    BY <1>1, <2>1
  <2>3. QED
    BY <1>4, <1>11, <2>1, <2>2
<1>20. QED
  BY <1>1, <1>2, <1>3, <1>10, <1>14, <1>17, <1>18, <1>19

LEMMA WriteRecordKeeps == ASSUME HistoryInv, WriteRecord PROVE HistoryInv'
<1>1. /\ pc = "record" /\ ready /\ pending = <<>> /\ metadata_dirty /\ done = 0
      /\ caller \in {"tick", "full", "run", "clear", "init"}
      /\ phase = (IF caller = "clear" THEN "prepare" ELSE "inactive")
      /\ (caller = "clear" => meta_sector = preserved_meta_sector)
      /\ UNCHANGED <<data, ready, indexVars, meta_sector, pending, runVars,
                     preserved_meta_sector, next_sector>>
  BY DEF WriteRecord, HistoryInv, Calls
<1>2. Len(pending) = 0 /\ PENDING_CAPACITY > 0
  BY <1>1, Sizes
<1>3. CASE /\ CheckpointMayFail("record") /\ Return(FALSE)
           /\ UNCHANGED <<journal, generation, next_meta_slot, metadata_dirty>>
  <2>1. UNCHANGED <<flashVars, ready, indexVars, metaVars, pending, runVars,
                    preserved_meta_sector, next_sector>>
    BY <1>1, <1>3 DEF flashVars, metaVars
  <2>2. QED
    BY <1>1, <1>2, <1>3, <2>1, ReturnKeeps, CheckpointRoom
<1>4. CASE /\ journal' = [journal EXCEPT ![meta_sector][next_meta_slot] =
                             ProgramRecord(@, Checkpointed)]
           /\ generation' = NextGen
           /\ next_meta_slot' = next_meta_slot + 1
           /\ metadata_dirty' = FALSE
           /\ Return(TRUE)
  <2>1. /\ journal' \in Journals /\ NextGen \in 0 .. GenMod - 1
        /\ next_meta_slot \in Records /\ meta_sector \in Metas
        /\ Ordered(journal', NextGen, meta_sector, next_meta_slot + 1)
        /\ <<meta_sector, next_meta_slot>> \in EntriesOf(journal')
        /\ BestRecord(journal') = Checkpointed
        /\ \A k \in Records : k >= next_meta_slot + 1 => journal'[meta_sector][k] = Blank
    BY <1>1, <1>4, WriteRecordFacts
  <2>2. next_meta_slot + 1 \in 0 .. RECORDS_PER_SECTOR /\ next_meta_slot + 1 > 0
    BY <2>1, Sizes DEF Records
  <2>3. /\ pc' = (IF caller \in {"run", "full"} THEN "commit" ELSE "idle")
        /\ caller' = (IF caller \in {"run", "full"} THEN caller ELSE "none")
        /\ done' = 0
        /\ phase' = (IF caller = "clear" THEN "erase" ELSE phase)
    BY <1>4 DEF Return
  <2>4. /\ Checkpointed.slot = write_slot /\ Checkpointed.count = persisted
        /\ Checkpointed.gen = NextGen
    BY DEF Checkpointed
  <2>5. JournalOrdered'
    BY <1>1, <1>4, <2>1, <2>3 DEF JournalOrdered
  <2>6. HeadKnown'
    <3>1. <<meta_sector, next_meta_slot>>[1] = meta_sector
      OBVIOUS
    <3>2. QED
      BY <1>1, <1>4, <2>1, <2>4, <3>1 DEF HeadKnown
  <2>7. HistoryTypeOK'
    BY <1>1, <1>4, <2>1, <2>2, <2>3, Sizes
       DEF HistoryInv, HistoryTypeOK, indexVars, runVars, Journals
  <2>8. CountsAgree' /\ AtBoot' /\ Batch'
    BY <1>1, <1>4, <2>3 DEF HistoryInv, CountsAgree, AtBoot, Batch, indexVars, runVars
  <2>9. Calls'
    BY <1>1, <1>2, <2>3 DEF Calls
  <2>10. Clearing'
    BY <1>1, <1>4, <2>2, <2>3 DEF HistoryInv, Clearing, indexVars, runVars
  <2>11. Clean'
    BY <1>1, <1>4, <2>1, <2>4 DEF Clean, indexVars
  <2>12. LagAt(journal', write_slot) = 0
    <3>1. write_slot \in Slots
      BY DEF HistoryInv, HistoryTypeOK
    <3>2. QED
      BY <2>1, <2>4, <3>1, RingDistance DEF LagAt
  <2>13. Room'
    <3>1. 0 + PENDING_CAPACITY + SAMPLES_PER_SECTOR <= FLASH_CAPACITY - HISTORY_CAPACITY + 1
      BY Sizes
    <3>2. write_slot' = write_slot
      BY <1>1 DEF indexVars
    <3>3. QED
      BY <2>12, <3>1, <3>2 DEF Room
  <2>14. QED
    BY <2>5, <2>6, <2>7, <2>8, <2>9, <2>10, <2>11, <2>13 DEF HistoryInv
<1>5. QED
  BY <1>3, <1>4 DEF WriteRecord

LEMMA CommitSampleKeeps ==
    ASSUME HistoryInv, NEW s \in Samples, CommitSample(s)
    PROVE  HistoryInv'
<1>1. /\ pc \in {"idle", "commit"} /\ phase = "inactive" /\ done = 0
      /\ Len(pending) < PENDING_CAPACITY
  BY DEF CommitSample, HistoryInv, Calls
<1>2. /\ pending' = Append(pending, s)
      /\ count' = MinOf(count + 1, HISTORY_CAPACITY)
      /\ force_new_run' = FALSE
      /\ pc' = "idle" /\ caller' = "none"
      /\ UNCHANGED <<flashVars, ready, indexVars, generation, meta_sector, next_meta_slot,
                     clearVars, done>>
  BY DEF CommitSample
<1>3. PICK new_run \in BOOLEAN :
          /\ run_count' = IF new_run THEN 1 ELSE MinOf(run_count + 1, HISTORY_CAPACITY)
          /\ metadata_dirty' \in IF new_run THEN {TRUE} ELSE {metadata_dirty, TRUE}
  BY DEF CommitSample
<1>4. metadata_dirty' \in BOOLEAN /\ (metadata_dirty => metadata_dirty')
  BY <1>3 DEF HistoryInv, HistoryTypeOK
<1>5. /\ pending \in Seq(Samples) /\ Len(pending) \in Nat
      /\ pending' \in Seq(Samples) /\ Len(pending') = Len(pending) + 1
  <2>1. pending \in Seq(Samples) /\ Len(pending) \in Nat
    BY TypeFacts DEF HistoryInv
  <2>2. QED
    BY <1>2, <2>1
<1>6. HISTORY_CAPACITY \in Nat \ {0} /\ PENDING_CAPACITY \in Nat
  BY Sizes
<1>7. /\ count \in 0 .. HISTORY_CAPACITY /\ run_count \in 0 .. HISTORY_CAPACITY
      /\ persisted \in 0 .. HISTORY_CAPACITY
      /\ count = MinOf(persisted + Len(pending), HISTORY_CAPACITY) /\ run_count <= count
  BY <1>1 DEF HistoryInv, HistoryTypeOK, CountsAgree
<1>8. /\ count' \in 0 .. HISTORY_CAPACITY /\ run_count' \in 0 .. HISTORY_CAPACITY
      /\ count' = MinOf(persisted + (Len(pending) + 1), HISTORY_CAPACITY) /\ run_count' <= count'
  BY <1>2, <1>3, <1>5, <1>6, <1>7 DEF MinOf
<1>9. CountsAgree'
  BY <1>2, <1>5, <1>8 DEF CountsAgree, indexVars
<1>10. HistoryTypeOK'
  <2>1. Len(pending') <= PENDING_CAPACITY
    BY <1>1, <1>5, <1>6
  <2>2. QED
    BY <1>2, <1>4, <1>5, <1>8, <2>1
       DEF HistoryInv, HistoryTypeOK, flashVars, indexVars, clearVars
<1>11. JournalOrdered' /\ HeadKnown' /\ Clean' /\ Room'
  BY <1>1, <1>2, <1>4, JournalQuiet, CleanQuiet, RoomQuiet DEF flashVars, indexVars, clearVars
<1>12. AtBoot' /\ Calls' /\ Clearing' /\ Batch'
  BY <1>1, <1>2 DEF AtBoot, Calls, Clearing, Batch, clearVars
<1>13. QED
  BY <1>9, <1>10, <1>11, <1>12 DEF HistoryInv

LEMMA OtherIsOther ==
    ASSUME NEW sector \in Metas
    PROVE  Other(sector) \in Metas /\ Other(sector) # sector
BY DEF Other, Metas

LEMMA RequestClearKeeps == ASSUME HistoryInv, RequestClear PROVE HistoryInv'
<1>1. /\ pc = "idle" /\ done = 0 /\ caller = "none"
      /\ write_slot' = 0 /\ persisted' = 0
      /\ pending' = <<>> /\ count' = 0 /\ run_count' = 0 /\ force_new_run' = FALSE
      /\ next_sector' = 0
      /\ UNCHANGED <<flashVars, ready, metaVars, callVars>>
  BY DEF RequestClear, HistoryInv, Calls
<1>2. \/ ready /\ phase' = "prepare" /\ preserved_meta_sector' = Other(meta_sector)
      \/ ~ready /\ phase' = "inactive" /\ preserved_meta_sector' = "primary"
  BY DEF RequestClear, SpareSector
<1>3. meta_sector \in Metas /\ Other(meta_sector) \in Metas /\ Other(meta_sector) # meta_sector
  BY TypeFacts, OtherIsOther DEF HistoryInv
<1>4. HistoryTypeOK'
  <2>1. /\ 0 \in Slots /\ 0 \in 0 .. HISTORY_CAPACITY /\ 0 \in 0 .. FLASH_DATA_SECTORS + 2
        /\ <<>> \in Seq(Samples) /\ Len(<<>>) = 0 /\ 0 <= PENDING_CAPACITY
    BY Sizes
  <2>2. preserved_meta_sector' \in Metas /\ phase' \in {"inactive", "prepare", "erase"}
    BY <1>2, <1>3 DEF Metas
  <2>3. QED
    BY <1>1, <2>1, <2>2 DEF HistoryInv, HistoryTypeOK, flashVars, metaVars, callVars
<1>5. CountsAgree'
  <2>1. Len(<<>>) = 0 /\ HISTORY_CAPACITY \in Nat
    BY Sizes
  <2>2. QED
    BY <1>1, <2>1 DEF CountsAgree, MinOf
<1>6. JournalOrdered' /\ HeadKnown'
  BY <1>1, JournalQuiet DEF flashVars, metaVars, callVars
<1>7. AtBoot' /\ Calls' /\ Batch' /\ Clean' /\ Room'
  BY <1>1, <1>2 DEF AtBoot, Calls, Batch, Clean, Room, metaVars, callVars
<1>8. Clearing'
  BY <1>1, <1>2, <1>3 DEF Clearing, metaVars, callVars
<1>9. QED
  BY <1>4, <1>5, <1>6, <1>7, <1>8 DEF HistoryInv

\* The sector that a clear keeps is emptied: a record of the other one, if there
\* is any, stays the best one.
LEMMA PrepareFacts ==
    ASSUME HistoryInv, pc = "idle", phase = "prepare", NEW r \in {Blank, Torn},
           NEW jj, jj = JournalFilled(preserved_meta_sector, r)
    PROVE  /\ jj \in Journals /\ preserved_meta_sector \in Metas
           /\ Ordered(jj, generation, preserved_meta_sector, 0)
           /\ LostFrom(journal, jj)
           /\ EntriesOf(jj) # {} => /\ EntriesOf(journal) # {}
                                    /\ BestOf(jj) \in EntriesOf(jj) /\ BestOf(jj) = BestOf(journal)
                                    /\ BestRecord(jj) = BestRecord(journal)
<1>1. /\ journal \in Journals /\ generation \in 0 .. GenMod - 1 /\ meta_sector \in Metas
      /\ next_meta_slot \in 0 .. RECORDS_PER_SECTOR
      /\ Ordered(journal, generation, meta_sector, next_meta_slot)
  BY TypeFacts DEF HistoryInv, JournalOrdered
<1>2. preserved_meta_sector \in Metas
  BY DEF HistoryInv, HistoryTypeOK
<1>3. jj \in Journals
  BY <1>2, FlashTypes DEF HistoryInv
<1>4. /\ EntriesOf(jj) = {e \in EntriesOf(journal) : e[1] # preserved_meta_sector}
      /\ LostFrom(journal, jj)
  BY <1>2, FilledEntries DEF HistoryInv
<1>5. ASSUME preserved_meta_sector = meta_sector
      PROVE  /\ Ordered(jj, generation, preserved_meta_sector, 0)
             /\ EntriesOf(jj) # {} => BestOf(journal) \in EntriesOf(jj)
  <2>1. next_meta_slot = 0
    BY <1>5 DEF HistoryInv, Clearing
  <2>2. ASSUME NEW e \in EntriesOf(journal) PROVE e[1] # meta_sector
    <3> SUFFICES ASSUME e[1] = meta_sector PROVE FALSE
      OBVIOUS
    <3>1. e[2] \in Int /\ 0 <= e[2]
      BY <1>1, EntryTypes
    <3>2. 0 <= Place(meta_sector, 0, e)
      BY <1>1, <2>1 DEF Ordered
    <3>3. QED
      BY <3>1, <3>2 DEF Place
  <2>3. Ordered(jj, generation, preserved_meta_sector, 0)
    BY <1>1, <1>3, <1>4, <1>5, <2>1, OrderedWhenLost
  <2>4. ASSUME EntriesOf(jj) # {} PROVE BestOf(journal) \in EntriesOf(jj)
    <3>1. EntriesOf(journal) # {}
      BY <1>4, <2>4
    <3>2. BestOf(journal) \in EntriesOf(journal)
      BY <1>1, <3>1, BestTypes
    <3>3. QED
      BY <1>4, <1>5, <2>2, <3>2
  <2>5. QED
    BY <2>3, <2>4
<1>6. ASSUME preserved_meta_sector # meta_sector
      PROVE  /\ Ordered(jj, generation, preserved_meta_sector, 0)
             /\ EntriesOf(jj) # {} => BestOf(journal) \in EntriesOf(jj)
  <2>1. preserved_meta_sector = Other(meta_sector)
    BY <1>1, <1>2, <1>6 DEF Other, Metas
  <2>2. \A e \in EntriesOf(jj) : e[1] = meta_sector
    BY <1>1, <1>2, <1>4, <1>6, EntryTypes DEF Metas
  <2>3. Ordered(jj, generation, preserved_meta_sector, 0)
    BY <1>1, <1>3, <1>4, <2>1, <2>2, OrderedWhenSwitched
  <2>4. ASSUME EntriesOf(jj) # {} PROVE BestOf(journal) \in EntriesOf(jj)
    <3>1. PICK e \in EntriesOf(jj) : TRUE
      BY <2>4
    <3>2. e \in EntriesOf(journal) /\ e[1] = meta_sector
      BY <1>4, <2>2
    <3>3. BestOf(journal) \in EntriesOf(journal) /\ BestOf(journal)[1] = meta_sector
      BY <3>2, BestInUse
    <3>4. QED
      BY <1>4, <1>6, <3>3
  <2>5. QED
    BY <2>3, <2>4
<1>7. Ordered(jj, generation, preserved_meta_sector, 0)
  BY <1>5, <1>6
<1>8. ASSUME EntriesOf(jj) # {}
      PROVE  /\ EntriesOf(journal) # {}
             /\ BestOf(jj) \in EntriesOf(jj) /\ BestOf(jj) = BestOf(journal)
             /\ BestRecord(jj) = BestRecord(journal)
  <2>1. BestOf(journal) \in EntriesOf(jj)
    BY <1>5, <1>6, <1>8
  <2>2. BestOf(jj) = BestOf(journal)
    BY <1>1, <1>3, <1>4, <2>1, BestWhenLost
  <2>3. BestRecord(jj) = BestRecord(journal)
    BY <1>4, <2>1, <2>2 DEF BestRecord, LostFrom
  <2>4. QED
    BY <1>4, <1>8, <2>1, <2>2, <2>3
<1>9. QED
  BY <1>2, <1>3, <1>4, <1>7, <1>8

LEMMA ClearPrepareKeeps == ASSUME HistoryInv, ClearPrepare PROVE HistoryInv'
<1>1. /\ pc = "idle" /\ ready /\ phase = "prepare" /\ done = 0
      /\ journal' = JournalFilled(preserved_meta_sector, Blank)
      /\ meta_sector' = preserved_meta_sector /\ next_meta_slot' = 0
      /\ metadata_dirty' = TRUE
      /\ pc' = "record" /\ caller' = "clear"
      /\ UNCHANGED <<data, ready, indexVars, generation, pending, runVars, clearVars, done>>
  BY DEF ClearPrepare, HistoryInv, Calls
<1>2. /\ journal' \in Journals /\ preserved_meta_sector \in Metas
      /\ Ordered(journal', generation, preserved_meta_sector, 0)
      /\ EntriesOf(journal') # {} => EntriesOf(journal) # {} /\ BestRecord(journal') = BestRecord(journal)
  BY <1>1, PrepareFacts
<1>3. /\ write_slot = 0 /\ persisted = 0 /\ pending = <<>> /\ count = 0 /\ run_count = 0
  BY <1>1 DEF HistoryInv, Clearing
<1>4. JournalOrdered'
  BY <1>1, <1>2 DEF JournalOrdered
<1>5. HeadKnown'
  <2>1. EntriesOf(journal) # {} => BestRecord(journal).gen = generation
    BY <1>1 DEF HistoryInv, HeadKnown
  <2>2. \A k \in Records : journal'[meta_sector'][k] = Blank
    BY <1>1, <1>2 DEF JournalFilled, Journals
  <2>3. QED
    BY <1>1, <1>2, <2>1, <2>2 DEF HeadKnown
<1>6. HistoryTypeOK'
  <2>1. 0 \in 0 .. RECORDS_PER_SECTOR
    BY Sizes
  <2>2. QED
    BY <1>1, <1>2, <2>1 DEF HistoryInv, HistoryTypeOK, indexVars, runVars, clearVars, Journals
<1>7. CountsAgree' /\ AtBoot' /\ Batch' /\ Clean' /\ Room'
  BY <1>1 DEF HistoryInv, CountsAgree, AtBoot, Batch, Clean, Room, indexVars, runVars, clearVars
<1>8. Calls'
  BY <1>1, <1>3, Sizes DEF Calls, clearVars
<1>9. Clearing'
  BY <1>1, <1>3 DEF Clearing, indexVars, runVars, clearVars
<1>10. QED
  BY <1>4, <1>5, <1>6, <1>7, <1>8, <1>9 DEF HistoryInv

\* The next sector that a clear erases is not the one it keeps.
LEMMA EraseOrder ==
    ASSUME HistoryInv
    PROVE  /\ NextToErase \in 0 .. FLASH_DATA_SECTORS + 2
           /\ IsMeta(NextToErase) => /\ MetaOf(NextToErase) \in Metas
                                     /\ MetaOf(NextToErase) # preserved_meta_sector
<1>1. next_sector \in 0 .. FLASH_DATA_SECTORS + 2 /\ FLASH_DATA_SECTORS \in Nat \ {0}
  BY Sizes DEF HistoryInv, HistoryTypeOK
<1>2. CASE IsMeta(next_sector) /\ MetaOf(next_sector) = preserved_meta_sector
  <2>1. NextToErase = next_sector + 1 /\ next_sector \in {0, FLASH_DATA_SECTORS + 1}
    BY <1>2 DEF NextToErase, IsMeta
  <2>2. NextToErase \in 0 .. FLASH_DATA_SECTORS + 2 /\ NextToErase \notin {0, FLASH_DATA_SECTORS + 1}
    BY <1>1, <2>1
  <2>3. QED
    BY <2>2 DEF IsMeta
<1>3. CASE ~(IsMeta(next_sector) /\ MetaOf(next_sector) = preserved_meta_sector)
  <2>1. NextToErase = next_sector
    BY <1>3 DEF NextToErase
  <2>2. MetaOf(next_sector) \in Metas
    BY DEF MetaOf, Metas
  <2>3. QED
    BY <1>1, <1>3, <2>1, <2>2
<1>4. QED
  BY <1>2, <1>3

\* It is the other journal sector at most, and the record of the empty history stays.
LEMMA EraseFacts ==
    ASSUME HistoryInv, pc = "idle", phase = "erase", IsMeta(NextToErase), NEW r \in {Blank, Torn},
           NEW jj, jj = JournalFilled(MetaOf(NextToErase), r)
    PROVE  /\ jj \in Journals
           /\ Ordered(jj, generation, meta_sector, next_meta_slot)
           /\ LostFrom(journal, jj)
           /\ BestOf(jj) \in EntriesOf(jj) /\ BestOf(jj)[1] = meta_sector
           /\ BestRecord(jj) = BestRecord(journal)
           /\ jj[meta_sector] = journal[meta_sector]
<1> DEFINE m == MetaOf(NextToErase)
<1>1. /\ journal \in Journals /\ generation \in 0 .. GenMod - 1 /\ meta_sector \in Metas
      /\ next_meta_slot \in 0 .. RECORDS_PER_SECTOR
      /\ Ordered(journal, generation, meta_sector, next_meta_slot)
  BY TypeFacts DEF HistoryInv, JournalOrdered
<1>2. meta_sector = preserved_meta_sector /\ next_meta_slot > 0
  BY DEF HistoryInv, Clearing
<1>3. m \in Metas /\ m # meta_sector
  BY <1>2, EraseOrder
<1> HIDE DEF m
<1>4. jj \in Journals /\ jj = JournalFilled(m, r)
  BY <1>3, FlashTypes DEF HistoryInv, m
<1>5. /\ EntriesOf(jj) = {e \in EntriesOf(journal) : e[1] # m}
      /\ LostFrom(journal, jj)
  BY <1>3, <1>4, FilledEntries DEF HistoryInv
<1>6. PICK e \in EntriesOf(journal) : e[1] = meta_sector
  BY <1>2 DEF HistoryInv, HeadKnown
<1>7. BestOf(journal) \in EntriesOf(journal) /\ BestOf(journal)[1] = meta_sector
  BY <1>6, BestInUse
<1>8. BestOf(journal) \in EntriesOf(jj)
  BY <1>3, <1>5, <1>7
<1>9. BestOf(jj) = BestOf(journal)
  BY <1>1, <1>4, <1>5, <1>8, BestWhenLost
<1>10. BestRecord(jj) = BestRecord(journal)
  BY <1>5, <1>8, <1>9 DEF BestRecord, LostFrom
<1>11. Ordered(jj, generation, meta_sector, next_meta_slot)
  BY <1>1, <1>4, <1>5, OrderedWhenLost
<1>12. jj[meta_sector] = journal[meta_sector]
  BY <1>1, <1>3, <1>4 DEF JournalFilled, Journals
<1>13. QED
  BY <1>4, <1>5, <1>7, <1>8, <1>9, <1>10, <1>11, <1>12

LEMMA ClearEraseKeeps == ASSUME HistoryInv, ClearErase PROVE HistoryInv'
<1>1. /\ pc = "idle" /\ ready /\ phase = "erase" /\ done = 0 /\ caller = "none"
      /\ write_slot = 0 /\ persisted = 0 /\ pending = <<>> /\ count = 0 /\ run_count = 0
      /\ meta_sector = preserved_meta_sector /\ next_meta_slot > 0 /\ ~metadata_dirty
      /\ UNCHANGED <<ready, indexVars, metaVars, pending, runVars, callVars>>
  BY DEF ClearErase, HistoryInv, Calls, Clearing
<1>2. /\ EntriesOf(journal) # {}
      /\ BestRecord(journal).slot = write_slot /\ BestRecord(journal).count = persisted
      /\ BestRecord(journal).gen = generation
  BY <1>1 DEF HistoryInv, Clean
<1>3. CountsAgree' /\ AtBoot' /\ Calls' /\ Batch'
  BY <1>1 DEF HistoryInv, CountsAgree, AtBoot, Calls, Batch, indexVars, metaVars, runVars, callVars
<1>4. CASE /\ phase' = "inactive" /\ preserved_meta_sector' = "primary" /\ next_sector' = 0
           /\ UNCHANGED flashVars
  <2>1. HistoryTypeOK'
    BY <1>1, <1>4, Sizes
       DEF HistoryInv, HistoryTypeOK, Metas, flashVars, indexVars, metaVars, runVars, callVars
  <2>2. JournalOrdered' /\ HeadKnown'
    BY <1>1, <1>4, JournalQuiet DEF flashVars, metaVars, callVars
  <2>3. Clearing' /\ Clean'
    BY <1>1, <1>2, <1>4 DEF Clearing, Clean, flashVars, indexVars, metaVars, callVars
  <2>4. Room'
    <3>1. 0 \in Slots
      BY Sizes
    <3>2. LagAt(journal, write_slot) = 0
      BY <1>1, <1>2, <3>1, RingDistance DEF LagAt
    <3>3. 0 + PENDING_CAPACITY + SAMPLES_PER_SECTOR <= FLASH_CAPACITY - HISTORY_CAPACITY + 1
      BY Sizes
    <3>4. QED
      BY <1>1, <1>4, <3>2, <3>3 DEF Room, flashVars, indexVars
  <2>5. QED
    BY <1>3, <2>1, <2>2, <2>3, <2>4 DEF HistoryInv
<1>5. ASSUME /\ NextToErase <= FLASH_DATA_SECTORS + 1
             /\ next_sector' = NextToErase + 1
             /\ UNCHANGED <<phase, preserved_meta_sector>>,
             data' \in Rings, journal' \in Journals
      PROVE  HistoryTypeOK' /\ Clearing' /\ Room'
  <2>1. NextToErase + 1 \in 0 .. FLASH_DATA_SECTORS + 2
    BY <1>5, EraseOrder, Sizes
  <2>2. HistoryTypeOK'
    BY <1>1, <1>5, <2>1
       DEF HistoryInv, HistoryTypeOK, Rings, Cells, Journals, indexVars, metaVars, runVars, callVars
  <2>3. Clearing' /\ Room'
    BY <1>1, <1>5 DEF Clearing, Room, indexVars, metaVars, runVars, callVars
  <2>4. QED
    BY <2>2, <2>3
<1>6. CASE /\ NextToErase <= FLASH_DATA_SECTORS + 1 /\ IsMeta(NextToErase)
           /\ journal' = JournalFilled(MetaOf(NextToErase), Blank) /\ UNCHANGED data
           /\ next_sector' = NextToErase + 1
           /\ UNCHANGED <<phase, preserved_meta_sector>>
  <2>1. /\ journal' \in Journals
        /\ Ordered(journal', generation, meta_sector, next_meta_slot)
        /\ BestOf(journal') \in EntriesOf(journal') /\ BestOf(journal')[1] = meta_sector
        /\ BestRecord(journal') = BestRecord(journal)
        /\ journal'[meta_sector] = journal[meta_sector]
    BY <1>1, <1>6, EraseFacts
  <2>2. data \in Rings
    BY TypeFacts DEF HistoryInv
  <2>3. HistoryTypeOK' /\ Clearing' /\ Room'
    BY <1>5, <1>6, <2>1, <2>2
  <2>4. JournalOrdered'
    BY <1>1, <2>1 DEF JournalOrdered, metaVars, callVars
  <2>5. HeadKnown'
    BY <1>1, <1>2, <2>1 DEF HistoryInv, HeadKnown, metaVars, callVars
  <2>6. Clean'
    BY <1>1, <1>2, <2>1 DEF Clean, indexVars, metaVars
  <2>7. QED
    BY <1>3, <2>3, <2>4, <2>5, <2>6 DEF HistoryInv
<1>7. CASE /\ NextToErase <= FLASH_DATA_SECTORS + 1
           /\ data' = DataFilled(NextToErase - 1, "blank") /\ UNCHANGED journal
           /\ next_sector' = NextToErase + 1
           /\ UNCHANGED <<phase, preserved_meta_sector>>
  <2>1. data' \in Rings /\ journal' \in Journals
    <3>1. NextToErase - 1 \in Int /\ "blank" \in Cells /\ journal \in Journals
      BY EraseOrder, TypeFacts, Sizes DEF HistoryInv, Cells
    <3>2. QED
      BY <1>7, <3>1, FlashTypes DEF HistoryInv
  <2>2. HistoryTypeOK' /\ Clearing' /\ Room'
    BY <1>5, <1>7, <2>1
  <2>3. JournalOrdered' /\ HeadKnown' /\ Clean'
    BY <1>1, <1>7, JournalQuiet, CleanQuiet DEF indexVars, metaVars, callVars
  <2>4. QED
    BY <1>3, <2>2, <2>3 DEF HistoryInv
<1>8. QED
  BY <1>4, <1>6, <1>7 DEF ClearErase

LEMMA BootRestoresKeeps == ASSUME HistoryInv, BootRestores PROVE HistoryInv'
<1> DEFINE b == BestOf(journal)  best == BestRecord(journal)
<1>1. /\ pc = "boot" /\ EntriesOf(journal) # {}
      /\ write_slot' = best.slot /\ persisted' = best.count
      /\ generation' = best.gen
      /\ meta_sector' = b[1] /\ next_meta_slot' = NextRecord(b)
      /\ count' = best.count /\ run_count' = best.run
      /\ force_new_run' = (best.count # 0)
      /\ pc' = "idle"
      /\ UNCHANGED <<flashVars, ready, metadata_dirty, pending, clearVars, caller, done>>
  BY ModelTerms DEF BootRestores
<1>2. /\ ready /\ ~metadata_dirty /\ phase = "inactive" /\ caller = "none" /\ done = 0
      /\ pending = <<>>
  BY <1>1 DEF HistoryInv, AtBoot
<1>3. journal \in Journals /\ OrderedFrom(journal)
  BY <1>1, TypeFacts DEF HistoryInv, JournalOrdered
<1>4. b \in EntriesOf(journal)
  <2>1. PICK g \in 0 .. GenMod - 1, sector \in Metas : Ordered(journal, g, sector, RECORDS_PER_SECTOR)
    BY <1>3 DEF OrderedFrom
  <2>2. RECORDS_PER_SECTOR \in 0 .. RECORDS_PER_SECTOR
    BY Sizes
  <2>3. QED
    BY <1>1, <1>3, <2>1, <2>2, BestTypes
<1>5. /\ b[1] \in Metas /\ b[2] \in Int /\ 0 <= b[2] /\ b[2] <= RECORDS_PER_SECTOR - 1
      /\ best.gen \in 0 .. GenMod - 1 /\ best.slot \in Slots
      /\ best.count \in 0 .. HISTORY_CAPACITY /\ best.run \in 0 .. HISTORY_CAPACITY
      /\ best.run <= best.count
  BY <1>3, <1>4, EntryTypes DEF BestRecord
<1>6. /\ Occupied(b[1]) \in 0 .. RECORDS_PER_SECTOR
      /\ \A k \in Records : k >= Occupied(b[1]) => journal[b[1]][k] = Blank
  BY <1>5, OccupiedFacts DEF HistoryInv
<1>7. /\ NextRecord(b) \in 0 .. RECORDS_PER_SECTOR /\ b[2] < NextRecord(b)
      /\ Occupied(b[1]) <= NextRecord(b)
  BY <1>5, <1>6, Sizes DEF NextRecord, MaxOf
<1>8. Ordered(journal, best.gen, b[1], NextRecord(b))
  BY <1>1, <1>3, <1>7, OrderedFromBest DEF BestRecord
<1>9. JournalOrdered'
  BY <1>1, <1>8 DEF JournalOrdered, flashVars
<1>10. HeadKnown'
  <2>1. \A k \in Records : k >= NextRecord(b) => journal[b[1]][k] = Blank
    <3> SUFFICES ASSUME NEW k \in Records, k >= NextRecord(b) PROVE journal[b[1]][k] = Blank
      OBVIOUS
    <3>1. k \in Int /\ Occupied(b[1]) \in Int /\ NextRecord(b) \in Int
      BY <1>6, <1>7 DEF Records
    <3>2. k >= Occupied(b[1])
      BY <1>7, <3>1
    <3>3. QED
      BY <1>6, <3>2
  <2>2. QED
    BY <1>1, <1>4, <2>1 DEF HeadKnown, flashVars
<1>11. HistoryTypeOK'
  <2>1. <<>> \in Seq(Samples) /\ Len(<<>>) = 0 /\ 0 <= PENDING_CAPACITY /\ (best.count # 0) \in BOOLEAN
    BY Sizes
  <2>2. QED
    BY <1>1, <1>2, <1>5, <1>7, <2>1 DEF HistoryInv, HistoryTypeOK, flashVars, clearVars
<1>12. CountsAgree'
  <2>1. Len(<<>>) = 0 /\ HISTORY_CAPACITY \in Nat
    BY Sizes
  <2>2. QED
    BY <1>1, <1>2, <1>5, <2>1 DEF CountsAgree, MinOf
<1>13. AtBoot' /\ Calls' /\ Clearing' /\ Batch'
  BY <1>1, <1>2 DEF AtBoot, Calls, Clearing, Batch, clearVars
<1>14. Clean'
  BY <1>1 DEF Clean, flashVars
<1>15. Room'
  <2>1. LagAt(journal, best.slot) = 0
    BY <1>5, RingDistance DEF LagAt
  <2>2. 0 + PENDING_CAPACITY + SAMPLES_PER_SECTOR <= FLASH_CAPACITY - HISTORY_CAPACITY + 1
    BY Sizes
  <2>3. QED
    BY <1>1, <2>1, <2>2 DEF Room, flashVars
<1>16. QED
  BY <1>9, <1>10, <1>11, <1>12, <1>13, <1>14, <1>15 DEF HistoryInv

LEMMA BootFreshKeeps == ASSUME HistoryInv, BootFresh PROVE HistoryInv'
<1>1. /\ pc = "boot" /\ EntriesOf(journal) = {}
      /\ UNCHANGED <<data, indexVars, generation, meta_sector, next_meta_slot, pending,
                     runVars, clearVars, done>>
  BY ModelTerms DEF BootFresh
<1>2. /\ ready /\ ~metadata_dirty /\ phase = "inactive" /\ caller = "none" /\ done = 0
      /\ write_slot = 0 /\ persisted = 0 /\ pending = <<>> /\ count = 0 /\ run_count = 0
      /\ generation = 0 /\ meta_sector = "primary" /\ next_meta_slot = 0
  BY <1>1 DEF HistoryInv, AtBoot
<1>3. CountsAgree'
  <2>1. Len(<<>>) = 0 /\ HISTORY_CAPACITY \in Nat
    BY Sizes
  <2>2. QED
    BY <1>1, <1>2, <2>1 DEF CountsAgree, MinOf, indexVars, runVars
<1>4. CASE /\ journal' = JournalFilled("primary", Blank)
           /\ metadata_dirty' = TRUE
           /\ pc' = "record" /\ caller' = "init"
           /\ UNCHANGED ready
  <2>1. journal' \in Journals /\ "primary" \in Metas
    BY <1>4, FlashTypes DEF HistoryInv, Metas
  <2>2. EntriesOf(journal') = {}
    BY <1>1, <1>4, <2>1, FilledEntries DEF HistoryInv
  <2>3. \A k \in Records : journal'["primary"][k] = Blank
    BY <1>4, <2>1 DEF JournalFilled, Journals
  <2>4. JournalOrdered' /\ HeadKnown'
    BY <1>1, <1>2, <1>4, <2>2, <2>3 DEF JournalOrdered, Ordered, HeadKnown
  <2>5. HistoryTypeOK'
    BY <1>1, <1>4, <2>1
       DEF HistoryInv, HistoryTypeOK, Journals, indexVars, runVars, clearVars
  <2>6. AtBoot' /\ Clearing' /\ Clean' /\ Room' /\ Batch'
    BY <1>1, <1>2, <1>4 DEF AtBoot, Clearing, Clean, Room, Batch, clearVars
  <2>7. Calls'
    BY <1>1, <1>2, <1>4, <2>2, Sizes DEF Calls, clearVars
  <2>8. QED
    BY <1>3, <2>4, <2>5, <2>6, <2>7 DEF HistoryInv
<1>5. CASE /\ ready' = FALSE
           /\ pc' = "idle"
           /\ UNCHANGED <<journal, metadata_dirty, caller>>
  <2>1. JournalOrdered' /\ HeadKnown'
    BY <1>1, <1>2, <1>5 DEF JournalOrdered, Ordered, HeadKnown
  <2>2. HistoryTypeOK'
    BY <1>1, <1>5
       DEF HistoryInv, HistoryTypeOK, Journals, indexVars, runVars, clearVars
  <2>3. AtBoot' /\ Calls' /\ Clearing' /\ Clean' /\ Room' /\ Batch'
    BY <1>1, <1>2, <1>5 DEF AtBoot, Calls, Clearing, Clean, Room, Batch, clearVars
  <2>4. QED
    BY <1>3, <2>1, <2>2, <2>3 DEF HistoryInv
<1>6. QED
  BY <1>4, <1>5 DEF BootFresh

\* Whatever a restart interrupts, the journal only loses records.
LEMMA InterruptedFacts ==
    ASSUME HistoryInv, pc # "boot", Interrupted
    PROVE  /\ journal' \in Journals /\ data' \in Rings
           /\ \E sector \in Metas, n \in 0 .. RECORDS_PER_SECTOR : Ordered(journal', generation, sector, n)
<1>1. /\ journal \in Journals /\ data \in Rings
      /\ generation \in 0 .. GenMod - 1 /\ meta_sector \in Metas
      /\ next_meta_slot \in 0 .. RECORDS_PER_SECTOR
      /\ Ordered(journal, generation, meta_sector, next_meta_slot)
      /\ write_slot \in Slots /\ pending \in Seq(Samples) /\ done \in Nat
  BY TypeFacts DEF HistoryInv, JournalOrdered
<1>2. Blank \in FlashMeta /\ Torn \in FlashMeta /\ "corrupt" \in Cells /\ 0 \in 0 .. RECORDS_PER_SECTOR
  BY FlashTypes, Sizes DEF HistoryInv, Cells
<1>3. pc \in {"erase", "program"} => Target \in Slots /\ SectorOf(Target) \in Int
  <2> SUFFICES ASSUME pc \in {"erase", "program"} PROVE Target \in Slots
    BY SlotParts
  <2>1. done < Len(pending) /\ Len(pending) <= PENDING_CAPACITY
    BY TypeFacts DEF HistoryInv, Calls
  <2>2. Len(pending) \in Nat
    BY <1>1
  <2>3. done \in 0 .. FLASH_CAPACITY
    BY <1>1, <2>1, <2>2, Sizes
  <2>4. QED
    BY <1>1, <2>3, RingSteps DEF Target
<1>4. CASE UNCHANGED flashVars
  BY <1>1, <1>4 DEF flashVars
<1>5. CASE pc = "erase" /\ data' = DataFilled(SectorOf(Target), "corrupt") /\ UNCHANGED journal
  BY <1>1, <1>2, <1>3, <1>5, FlashTypes DEF HistoryInv
<1>6. CASE pc = "program" /\ data' = [data EXCEPT ![Target] = "corrupt"] /\ UNCHANGED journal
  BY <1>1, <1>2, <1>3, <1>6, FlashTypes DEF HistoryInv
<1>7. CASE /\ pc = "switch" /\ UNCHANGED data
           /\ journal' = JournalFilled(Other(meta_sector), Torn)
  <2>1. journal' \in Journals /\ Other(meta_sector) \in Metas /\ Ordered(journal', generation, Other(meta_sector), 0)
    BY <1>7, SwitchFacts
  <2>2. QED
    BY <1>1, <1>2, <1>7, <2>1
<1>8. CASE /\ pc = "record" /\ UNCHANGED data
           /\ journal' = [journal EXCEPT ![meta_sector][next_meta_slot] = Torn]
  <2>1. next_meta_slot \in Records
    BY <1>1, <1>8, Sizes DEF HistoryInv, Calls, Records
  <2>2. journal' \in Journals
    BY <1>1, <1>2, <1>8, <2>1, FlashTypes DEF HistoryInv
  <2>3. \A e \in Metas \X Records :
            journal'[e[1]][e[2]] = IF e = <<meta_sector, next_meta_slot>> THEN Torn ELSE journal[e[1]][e[2]]
    BY <1>1, <1>8, <2>1 DEF Journals
  <2>4. LostFrom(journal, journal')
    BY <2>3, Unentered DEF LostFrom, EntriesOf
  <2>5. Ordered(journal', generation, meta_sector, next_meta_slot)
    BY <1>1, <2>2, <2>4, OrderedWhenLost
  <2>6. QED
    BY <1>1, <1>8, <2>2, <2>5
<1>9. CASE /\ pc = "idle" /\ phase = "prepare" /\ UNCHANGED data
           /\ journal' = JournalFilled(preserved_meta_sector, Torn)
  <2>1. /\ journal' \in Journals /\ preserved_meta_sector \in Metas
        /\ Ordered(journal', generation, preserved_meta_sector, 0)
    BY <1>9, PrepareFacts
  <2>2. QED
    BY <1>1, <1>2, <1>9, <2>1
<1>10. CASE /\ pc = "idle" /\ phase = "erase" /\ IsMeta(NextToErase)
            /\ journal' = JournalFilled(MetaOf(NextToErase), Torn) /\ UNCHANGED data
  <2>1. journal' \in Journals /\ Ordered(journal', generation, meta_sector, next_meta_slot)
    BY <1>10, EraseFacts
  <2>2. QED
    BY <1>1, <1>10, <2>1
<1>11. CASE data' = DataFilled(NextToErase - 1, "corrupt") /\ UNCHANGED journal
  <2>1. NextToErase - 1 \in Int
    BY EraseOrder, Sizes
  <2>2. QED
    BY <1>1, <1>2, <1>11, <2>1, FlashTypes DEF HistoryInv
<1>12. QED
  BY <1>4, <1>5, <1>6, <1>7, <1>8, <1>9, <1>10, <1>11 DEF Interrupted

LEMMA RestartKeeps == ASSUME HistoryInv, Restart PROVE HistoryInv'
<1>1. /\ pc # "boot" /\ Interrupted
      /\ ready' = TRUE
      /\ write_slot' = 0 /\ persisted' = 0
      /\ generation' = 0 /\ meta_sector' = "primary" /\ next_meta_slot' = 0
      /\ metadata_dirty' = FALSE
      /\ pending' = <<>> /\ count' = 0 /\ run_count' = 0 /\ force_new_run' = FALSE
      /\ phase' = "inactive" /\ preserved_meta_sector' = "primary" /\ next_sector' = 0
      /\ pc' = "boot" /\ caller' = "none" /\ done' = 0
  BY DEF Restart
<1>2. journal' \in Journals /\ data' \in Rings
  BY <1>1, InterruptedFacts
<1>3. PICK sector \in Metas, n \in 0 .. RECORDS_PER_SECTOR : Ordered(journal', generation, sector, n)
  BY <1>1, InterruptedFacts
<1>4. generation \in 0 .. GenMod - 1
  BY TypeFacts DEF HistoryInv
<1>5. Ordered(journal', generation, sector, RECORDS_PER_SECTOR)
  BY <1>2, <1>3, <1>4, OrderedStretch
<1>6. JournalOrdered'
  BY <1>1, <1>4, <1>5 DEF JournalOrdered, OrderedFrom
<1>7. HistoryTypeOK'
  <2>1. /\ 0 \in Slots /\ 0 \in 0 .. HISTORY_CAPACITY /\ 0 \in 0 .. FLASH_DATA_SECTORS + 2
        /\ 0 \in 0 .. GenMod - 1 /\ 0 \in 0 .. RECORDS_PER_SECTOR /\ 0 \in 0 .. PENDING_CAPACITY
        /\ <<>> \in Seq(Samples) /\ Len(<<>>) = 0 /\ 0 <= PENDING_CAPACITY
    BY Sizes
  <2>2. QED
    BY <1>1, <1>2, <2>1 DEF HistoryTypeOK, Metas, Rings, Cells, Journals
<1>8. CountsAgree' /\ HeadKnown' /\ AtBoot' /\ Calls' /\ Clearing' /\ Clean' /\ Room' /\ Batch'
  BY <1>1 DEF CountsAgree, HeadKnown, AtBoot, Calls, Clearing, Clean, Room, Batch
<1>9. QED
  BY <1>6, <1>7, <1>8 DEF HistoryInv

(***************************************************************************)
(* The beginning: nothing, or one record of a full history.                *)
(***************************************************************************)

\* What a used device holds: one record, its window full of s.
UsedDevice(slot, gen, s) ==
    /\ data = UsedData(slot, s)
    /\ journal = [m \in Metas |-> [k \in Records |->
           IF m = "primary" /\ k = 0 THEN FirstRecord(slot, gen) ELSE Blank]]
BlankDevice ==
    /\ data = [slot \in Slots |-> "blank"]
    /\ journal = [m \in Metas |-> [k \in Records |-> Blank]]

LEMMA BlankFacts ==
    ASSUME BlankDevice
    PROVE  data \in Rings /\ journal \in Journals /\ EntriesOf(journal) = {}
<1>1. Blank \in FlashMeta /\ "blank" \in Cells
  BY DEF FlashMeta, Cells
<1>2. data \in Rings /\ journal \in Journals
  BY <1>1 DEF BlankDevice, Rings, Journals
<1>3. \A e \in Metas \X Records : journal[e[1]][e[2]] = Blank
  BY DEF BlankDevice
<1>4. EntriesOf(journal) = {}
  BY <1>3, Unentered DEF EntriesOf
<1>5. QED
  BY <1>2, <1>4

LEMMA UsedFacts ==
    ASSUME NEW slot \in Slots, NEW gen \in 0 .. GenMod - 1, NEW s \in Samples,
           UsedDevice(slot, gen, s)
    PROVE  /\ data \in Rings /\ journal \in Journals
           /\ EntriesOf(journal) = {<<"primary", 0>>} /\ BestOf(journal) = <<"primary", 0>>
           /\ BestRecord(journal) = FirstRecord(slot, gen)
           /\ Ordered(journal, gen, "primary", RECORDS_PER_SECTOR)
<1> DEFINE h == <<"primary", 0>>  r == FirstRecord(slot, gen)
<1>1. Blank \in FlashMeta
  BY DEF FlashMeta
<1>2. r \in FlashMeta /\ valid_meta(r) /\ r.gen = gen
  <2>1. HISTORY_CAPACITY \in 0 .. HISTORY_CAPACITY
    BY Sizes
  <2>2. QED
    BY <2>1 DEF FirstRecord, FlashMeta, valid_meta
<1>3. 0 \in Records /\ "primary" \in Metas /\ RECORDS_PER_SECTOR \in Nat \ {0}
  BY Sizes DEF Records, Metas
<1>4. data \in Rings
  BY DEF UsedDevice, UsedData, Rings, Cells
<1>5. journal = [m \in Metas |-> [k \in Records |-> IF m = "primary" /\ k = 0 THEN r ELSE Blank]]
  BY DEF UsedDevice
<1> HIDE DEF r
<1>6. journal \in Journals
  BY <1>1, <1>2, <1>5 DEF Journals
<1>7. \A e \in Metas \X Records : journal[e[1]][e[2]] = IF e = h THEN r ELSE Blank
  BY <1>5
<1>8. h \in Metas \X Records
  BY <1>3
<1>9. EntriesOf(journal) = {h} /\ journal[h[1]][h[2]] = r
  BY <1>2, <1>7, <1>8, Unentered DEF EntriesOf
<1>10. Place("primary", RECORDS_PER_SECTOR, h) = RECORDS_PER_SECTOR - 1 - 0
  BY DEF Place
<1>11. AgeIn(journal, gen, h) = 0
  <2>1. gen \in Int /\ gen <= gen
    BY Sizes
  <2>2. QED
    BY <1>2, <1>9, <2>1 DEF AgeIn, Age
<1>12. Ordered(journal, gen, "primary", RECORDS_PER_SECTOR)
  <2>1. 0 <= Place("primary", RECORDS_PER_SECTOR, h) /\ 0 <= Place("primary", RECORDS_PER_SECTOR, h)
    BY <1>3, <1>10
  <2>2. ~(Place("primary", RECORDS_PER_SECTOR, h) < Place("primary", RECORDS_PER_SECTOR, h))
    BY <1>3, <1>10
  <2>3. QED
    BY <1>9, <1>11, <2>1, <2>2 DEF Ordered
<1>13. BestOf(journal) = h
  <2>1. RECORDS_PER_SECTOR \in 0 .. RECORDS_PER_SECTOR
    BY <1>3
  <2>2. BestOf(journal) \in EntriesOf(journal)
    BY <1>3, <1>6, <1>9, <1>12, <2>1, BestTypes
  <2>3. QED
    BY <1>9, <2>2
<1>14. BestRecord(journal) = r
  BY <1>9, <1>13 DEF BestRecord
<1>15. QED
  BY <1>4, <1>6, <1>9, <1>12, <1>13, <1>14 DEF r

LEMMA InitKeeps == ASSUME HistoryInit PROVE HistoryInv
<1>1. /\ ready = TRUE
      /\ write_slot = 0 /\ persisted = 0
      /\ generation = 0 /\ meta_sector = "primary" /\ next_meta_slot = 0
      /\ metadata_dirty = FALSE
      /\ pending = <<>> /\ count = 0 /\ run_count = 0 /\ force_new_run = FALSE
      /\ phase = "inactive" /\ preserved_meta_sector = "primary" /\ next_sector = 0
      /\ pc = "boot" /\ caller = "none" /\ done = 0
  BY DEF HistoryInit
<1>2. BlankDevice \/ \E slot \in Slots, gen \in 0 .. GenMod - 1, s \in Samples : UsedDevice(slot, gen, s)
  BY DEF HistoryInit, BlankDevice, UsedDevice
<1>3. data \in Rings /\ journal \in Journals /\ OrderedFrom(journal)
  <2>1. CASE BlankDevice
    <3>1. 0 \in 0 .. GenMod - 1 /\ "primary" \in Metas
      BY Sizes DEF Metas
    <3>2. QED
      BY <2>1, <3>1, BlankFacts DEF OrderedFrom, Ordered
  <2>2. CASE \E slot \in Slots, gen \in 0 .. GenMod - 1, s \in Samples : UsedDevice(slot, gen, s)
    BY <2>2, UsedFacts DEF OrderedFrom, Metas
  <2>3. QED
    BY <1>2, <2>1, <2>2
<1>4. HistoryTypeOK
  <2>1. /\ 0 \in Slots /\ 0 \in 0 .. HISTORY_CAPACITY /\ 0 \in 0 .. FLASH_DATA_SECTORS + 2
        /\ 0 \in 0 .. GenMod - 1 /\ 0 \in 0 .. RECORDS_PER_SECTOR /\ 0 \in 0 .. PENDING_CAPACITY
        /\ <<>> \in Seq(Samples) /\ Len(<<>>) = 0 /\ 0 <= PENDING_CAPACITY
    BY Sizes
  <2>2. QED
    BY <1>1, <1>3, <2>1 DEF HistoryTypeOK, Metas, Rings, Cells, Journals
<1>5. JournalOrdered
  BY <1>1, <1>3 DEF JournalOrdered
<1>6. CountsAgree /\ HeadKnown /\ AtBoot /\ Calls /\ Clearing /\ Clean /\ Room /\ Batch
  BY <1>1 DEF CountsAgree, HeadKnown, AtBoot, Calls, Clearing, Clean, Room, Batch
<1>7. QED
  BY <1>3, <1>4, <1>5, <1>6 DEF HistoryInv

LEMMA StutterKeeps == ASSUME HistoryInv, UNCHANGED histVars PROVE HistoryInv'
BY DEF HistoryInv, HistoryTypeOK, CountsAgree, JournalOrdered, HeadKnown, AtBoot, Calls,
       Clearing, Clean, Room, Batch, Target, histVars, flashVars, indexVars, metaVars, runVars,
       clearVars, callVars

LEMMA NextKeeps == ASSUME HistoryInv, [HistoryNext]_histVars PROVE HistoryInv'
BY StutterKeeps, BootRestoresKeeps, BootFreshKeeps, FlushTickKeeps, EraseSectorKeeps,
   WriteSampleKeeps, SwitchSectorKeeps, WriteRecordKeeps, CommitToFullRingKeeps,
   CommitEndsRunKeeps, CommitSampleKeeps, RequestClearKeeps, ClearPrepareKeeps,
   ClearEraseKeeps, RestartKeeps DEF HistoryNext

LEMMA Inductive == HistorySpec => []HistoryInv
BY InitKeeps, NextKeeps, PTL DEF HistorySpec

(***************************************************************************)
(* The results.                                                            *)
(***************************************************************************)

\* Every variable stays within its type: the ring and the journal hold what the
\* flash can hold, and no index leaves its array.
THEOREM HistoryTypeCorrect == HistorySpec => []HistoryTypeOK
<1>1. HistoryInv => HistoryTypeOK
  BY DEF HistoryInv
<1>2. QED
  BY <1>1, Inductive, PTL

\* The count of the window, the count in flash and the samples in RAM agree, and
\* the newest run lies within the window: the subtractions of logical_sample never
\* go below zero.
THEOREM CountsAlwaysAgree == HistorySpec => []CountsAgree
<1>1. HistoryInv => CountsAgree
  BY DEF HistoryInv
<1>2. QED
  BY <1>1, Inductive, PTL

\* When nothing is marked dirty, the next boot finds a record of exactly the ring
\* in use, across torn records, failed checkpoints, sector changes, clears and the
\* wrap of the generation counter.
THEOREM CleanIsAlwaysDurable == HistorySpec => []CleanIsDurable
<1>1. HistoryInv => CleanIsDurable
  BY ModelTerms DEF HistoryInv, Clean, CleanIsDurable
<1>2. QED
  BY <1>1, Inductive, PTL

(***************************************************************************)
(* The store implements the log.  What HistoryLog sees, as functions of the *)
(* journal, the data and the index.                                        *)
(***************************************************************************)

StartOf(j) == IF EntriesOf(j) = {} THEN 0 ELSE BestRecord(j).slot
RestoredOf(j, d) == IF EntriesOf(j) = {} THEN <<>>
                    ELSE WindowOf(d, BestRecord(j).slot, BestRecord(j).count)
VisibleOf(d, slot, p, n) ==
    [i \in 1 .. n |-> IF i <= n - Len(p) THEN d[Back(slot, n - Len(p) - i + 1)]
                      ELSE p[i - (n - Len(p))]]

LogNow == IF pc = "boot" THEN RestoredOf(journal, data)
          ELSE VisibleOf(data, write_slot, pending, count)
DurableNow == RestoredOf(journal, data)
SpoiledNow == SpoiledAt(data, IF pc = "boot" THEN StartOf(journal) ELSE write_slot, pending)

\* The record that a boot finds is one that the flash can hold.
LEMMA BestStored ==
    ASSUME HistoryInv, EntriesOf(journal) # {}
    PROVE  BestRecord(journal) \in FlashMeta
<1>1. journal \in Journals
  BY TypeFacts DEF HistoryInv
<1>2. PICK g \in 0 .. GenMod - 1, sector \in Metas, n \in 0 .. RECORDS_PER_SECTOR :
         Ordered(journal, g, sector, n)
  <2>1. /\ generation \in 0 .. GenMod - 1 /\ meta_sector \in Metas
        /\ next_meta_slot \in 0 .. RECORDS_PER_SECTOR
    BY TypeFacts DEF HistoryInv
  <2>2. RECORDS_PER_SECTOR \in 0 .. RECORDS_PER_SECTOR
    BY Sizes
  <2>3. QED
    BY <2>1, <2>2 DEF HistoryInv, JournalOrdered, OrderedFrom
<1> DEFINE b == BestOf(journal)
<1>3. b \in EntriesOf(journal)
  BY <1>1, <1>2, BestTypes
<1>4. b[1] \in Metas /\ b[2] \in Records
  BY <1>3 DEF EntriesOf
<1>5. QED
  BY <1>1, <1>4 DEF Journals, BestRecord

LEMMA Views ==
    ASSUME HistoryInv
    PROVE  /\ (IF pc = "boot" THEN Restored ELSE Visible) = LogNow
           /\ Restored = DurableNow
           /\ Spoiled <=> SpoiledNow
<1>1. Restored = RestoredOf(journal, data)
  <2>1. CASE EntriesOf(journal) = {}
    BY <2>1, ModelTerms DEF Restored, RestoredOf
  <2>2. CASE EntriesOf(journal) # {}
    <3>1. PICK r \in FlashMeta : r = BestRecord(journal)
      BY <2>2, BestStored
    <3>2. Window[r] = WindowOf(data, r.slot, r.count)
      BY DEF Window, WindowOf
    <3>3. QED
      BY <2>2, <3>1, <3>2, ModelTerms DEF Restored, RestoredOf
  <2>3. QED
    BY <2>1, <2>2
<1>2. Visible = VisibleOf(data, write_slot, pending, count)
  BY DEF Visible, VisiblePersisted, VisibleOf
<1>3. ASSUME NEW slot
      PROVE  (/\ (slot % SAMPLES_PER_SECTOR) # 0
              /\ \E k \in 0 .. SAMPLES_PER_SECTOR - 1 - (slot % SAMPLES_PER_SECTOR) :
                    data[slot + k] \notin {"blank"} \cup IF k < Len(pending) THEN {pending[k + 1]} ELSE {})
             <=> SpoiledAt(data, slot, pending)
  BY DEF SpoiledAt, OpensSector, RestOf
<1>4. (IF pc # "boot" THEN write_slot ELSE IF Entries = {} THEN 0 ELSE Record(Best).slot)
          = (IF pc = "boot" THEN StartOf(journal) ELSE write_slot)
  BY ModelTerms DEF StartOf
<1>5. Spoiled <=> SpoiledNow
  BY <1>3, <1>4 DEF Spoiled, SpoiledNow
<1>6. QED
  BY <1>1, <1>2, <1>5 DEF LogNow, DurableNow

\* Nothing is spoiled where a sector begins, and an empty window is empty.
LEMMA FromZero ==
    ASSUME NEW d
    PROVE  /\ ~SpoiledAt(d, 0, <<>>)
           /\ VisibleOf(d, 0, <<>>, 0) = <<>>
           /\ \A slot : WindowOf(d, slot, 0) = <<>>
<1>1. OpensSector(0)
  BY Sizes DEF OpensSector
<1>2. QED
  BY <1>1 DEF SpoiledAt, VisibleOf, WindowOf

\* The record in use has a window.
LEMMA BestRecordTypes ==
    ASSUME HistoryInv, EntriesOf(journal) # {}
    PROVE  /\ BestOf(journal) \in EntriesOf(journal)
           /\ BestRecord(journal).slot \in Slots
           /\ BestRecord(journal).count \in 0 .. HISTORY_CAPACITY
<1>1. journal \in Journals
  BY TypeFacts DEF HistoryInv
<1>2. PICK g \in 0 .. GenMod - 1, sector \in Metas, n \in 0 .. RECORDS_PER_SECTOR :
          Ordered(journal, g, sector, n)
  <2>1. RECORDS_PER_SECTOR \in 0 .. RECORDS_PER_SECTOR
    BY Sizes
  <2>2. QED
    BY <2>1, TypeFacts DEF HistoryInv, JournalOrdered, OrderedFrom
<1>3. BestOf(journal) \in EntriesOf(journal)
  BY <1>1, <1>2, BestTypes
<1>4. QED
  BY <1>1, <1>3, EntryTypes DEF BestRecord

\* What a restart comes back with depends on the entries and the best record only.
LEMMA RestoredFromBest ==
    ASSUME NEW j, NEW jj, NEW d, EntriesOf(j) # {}, EntriesOf(jj) # {},
           BestRecord(jj) = BestRecord(j)
    PROVE  RestoredOf(jj, d) = RestoredOf(j, d)
BY DEF RestoredOf

LEMMA VisibleParts ==
    ASSUME HistoryInv, pc # "boot"
    PROVE  /\ count - Len(pending) \in 0 .. HISTORY_CAPACITY
           /\ count \in 0 .. HISTORY_CAPACITY /\ Len(pending) \in 0 .. PENDING_CAPACITY
<1>1. /\ count = MinOf(persisted + Len(pending), HISTORY_CAPACITY)
      /\ persisted \in 0 .. HISTORY_CAPACITY /\ Len(pending) <= PENDING_CAPACITY
  BY DEF HistoryInv, CountsAgree, HistoryTypeOK
<1>2. Len(pending) \in Nat
  BY TypeFacts DEF HistoryInv
<1>3. /\ HISTORY_CAPACITY \in Nat /\ PENDING_CAPACITY \in Nat
      /\ PENDING_CAPACITY <= HISTORY_CAPACITY
  BY Sizes
<1>4. QED
  BY <1>1, <1>2, <1>3 DEF MinOf

\* A flush under way touches neither the window of the record nor the one in use.
LEMMA FlushSpares ==
    ASSUME HistoryInv, pc \in {"erase", "program"}, NEW dd,
           \A c \in Slots : dd[c] = data[c] \/ Touched(Target, c)
    PROVE  /\ RestoredOf(journal, dd) = RestoredOf(journal, data)
           /\ VisibleOf(dd, write_slot, pending, count) = VisibleOf(data, write_slot, pending, count)
           /\ WindowOf(dd, write_slot, count - Len(pending)) = WindowOf(data, write_slot, count - Len(pending))
<1> DEFINE reach == PENDING_CAPACITY + SAMPLES_PER_SECTOR - 2
<1>1. /\ FLASH_CAPACITY \in Nat /\ SAMPLES_PER_SECTOR \in Nat \ {0} /\ PENDING_CAPACITY \in Nat \ {0}
      /\ HISTORY_CAPACITY \in Nat \ {0}
      /\ HISTORY_CAPACITY + PENDING_CAPACITY + SAMPLES_PER_SECTOR <= FLASH_CAPACITY
  BY Sizes
<1>2. /\ write_slot \in Slots /\ done \in Nat /\ done < PENDING_CAPACITY
  <2>1. write_slot \in Slots /\ done \in Nat /\ Len(pending) \in Nat /\ Len(pending) <= PENDING_CAPACITY
    BY TypeFacts DEF HistoryInv
  <2>2. done < Len(pending)
    BY DEF HistoryInv, Calls
  <2>3. QED
    BY <1>1, <2>1, <2>2
<1>3. ASSUME NEW c \in Slots, dd[c] # data[c]
      PROVE  \E x \in Nat : x <= reach /\ c = Ahead(write_slot, x)
  <2>1. Touched(Ahead(write_slot, done), c)
    BY <1>3 DEF Target
  <2>2. QED
    BY <1>2, <2>1, TouchedAhead
<1>4. ready /\ phase = "inactive"
  BY DEF HistoryInv, Calls
<1>5. LagAt(journal, write_slot) + PENDING_CAPACITY + SAMPLES_PER_SECTOR <= FLASH_CAPACITY - HISTORY_CAPACITY + 1
  BY <1>4 DEF HistoryInv, Room
<1>6. ASSUME EntriesOf(journal) # {}
      PROVE  WindowOf(dd, BestRecord(journal).slot, BestRecord(journal).count)
                 = WindowOf(data, BestRecord(journal).slot, BestRecord(journal).count)
  <2> DEFINE slot == BestRecord(journal).slot  lag == Back(write_slot, slot)
  <2>1. slot \in Slots /\ BestRecord(journal).count \in 0 .. HISTORY_CAPACITY
    BY <1>6, BestRecordTypes
  <2>2. lag = LagAt(journal, write_slot)
    BY <1>6 DEF LagAt
  <2>3. /\ lag \in Nat
        /\ \A x \in Nat : lag + x < FLASH_CAPACITY => Ahead(write_slot, x) = Ahead(slot, lag + x)
    BY <1>2, <2>1, RingDistance
  <2>4. lag + PENDING_CAPACITY + SAMPLES_PER_SECTOR <= FLASH_CAPACITY - HISTORY_CAPACITY + 1
    BY <1>5, <2>2
  <2> HIDE DEF lag, slot
  <2>5. ASSUME NEW c \in Slots, dd[c] # data[c]
        PROVE  \E x \in Nat : x <= FLASH_CAPACITY - HISTORY_CAPACITY - 1 /\ c = Ahead(slot, x)
    <3>1. PICK x \in Nat : x <= reach /\ c = Ahead(write_slot, x)
      BY <1>3, <2>5
    <3>2. lag + x \in Nat /\ lag + x <= FLASH_CAPACITY - HISTORY_CAPACITY - 1 /\ lag + x < FLASH_CAPACITY
      BY <1>1, <2>3, <2>4, <3>1
    <3>3. c = Ahead(slot, lag + x)
      BY <2>3, <3>1, <3>2
    <3>4. QED
      BY <3>2, <3>3
  <2>6. QED
    BY <2>1, <2>5, WindowStays DEF slot
<1>7. RestoredOf(journal, dd) = RestoredOf(journal, data)
  BY <1>6 DEF RestoredOf
<1>8. count - Len(pending) \in 0 .. HISTORY_CAPACITY /\ count \in Nat /\ Len(pending) \in Nat
  BY VisibleParts
<1> DEFINE v == count - Len(pending)
<1>9. WindowOf(dd, write_slot, v) = WindowOf(data, write_slot, v)
  <2>1. ASSUME NEW c \in Slots, dd[c] # data[c]
        PROVE  \E x \in Nat : x <= FLASH_CAPACITY - HISTORY_CAPACITY - 1 /\ c = Ahead(write_slot, x)
    <3>1. PICK x \in Nat : x <= reach /\ c = Ahead(write_slot, x)
      BY <1>3, <2>1
    <3>2. x <= FLASH_CAPACITY - HISTORY_CAPACITY - 1
      BY <1>1, <3>1
    <3>3. QED
      BY <3>1, <3>2
  <2>2. v \in 0 .. HISTORY_CAPACITY
    BY <1>8
  <2> HIDE DEF v
  <2>3. QED
    BY <1>2, <2>1, <2>2, WindowStays
<1>10. ASSUME NEW i \in 1 .. count, i <= v
       PROVE  dd[Back(write_slot, v - i + 1)] = data[Back(write_slot, v - i + 1)]
  <2>1. i \in 1 .. v
    BY <1>8, <1>10
  <2>2. WindowOf(dd, write_slot, v)[i] = WindowOf(data, write_slot, v)[i]
    BY <1>9
  <2> HIDE DEF v
  <2>3. QED
    BY <2>1, <2>2 DEF WindowOf
<1>11. VisibleOf(dd, write_slot, pending, count) = VisibleOf(data, write_slot, pending, count)
  BY <1>10 DEF VisibleOf
<1>12. QED
  BY <1>7, <1>9, <1>11

\* Back over the ring from a place ahead.
LEMMA BackOfAhead ==
    ASSUME NEW slot \in Slots, NEW n \in Nat, NEW k \in Nat, n < FLASH_CAPACITY, k < FLASH_CAPACITY
    PROVE  /\ k > n => Back(Ahead(slot, n), k) = Back(slot, k - n)
           /\ k <= n => Back(Ahead(slot, n), k) = Ahead(slot, n - k)
<1>1. slot \in Int /\ 0 <= slot /\ slot < FLASH_CAPACITY /\ FLASH_CAPACITY \in Nat
  BY SlotParts, Sizes
<1>2. QED
  BY <1>1 DEF Ahead, Back

\* Steps that the log does not see, and steps that only a checkpoint makes visible.
Unseen ==
    LogNow' = LogNow /\ DurableNow' = DurableNow /\ Len(pending') = Len(pending)
    /\ (SpoiledNow' <=> SpoiledNow)
Checkpoints ==
    /\ Len(pending) = 0 /\ Len(pending') = 0
    /\ DurableNow' = LogNow /\ LogNow' = LogNow /\ (SpoiledNow' <=> SpoiledNow)

LEMMA QuietIsUnseen ==
    ASSUME pc # "boot", pc' # "boot",
           UNCHANGED <<flashVars, pending, write_slot, count>>
    PROVE  Unseen
BY DEF Unseen, LogNow, DurableNow, SpoiledNow, flashVars

LEMMA BootRestoresUnseen == ASSUME HistoryInv, BootRestores PROVE Unseen
<1> DEFINE best == BestRecord(journal)
<1>1. /\ pc = "boot" /\ EntriesOf(journal) # {} /\ pc' = "idle"
      /\ write_slot' = best.slot /\ count' = best.count
      /\ UNCHANGED <<flashVars, pending>>
  BY ModelTerms DEF BootRestores
<1>2. pending = <<>> /\ Len(<<>>) = 0
  BY <1>1 DEF HistoryInv, AtBoot
<1>3. best.count \in 0 .. HISTORY_CAPACITY /\ best.count \in Int
  BY <1>1, BestRecordTypes, Sizes
<1>4. LogNow = WindowOf(data, best.slot, best.count)
  BY <1>1 DEF LogNow, RestoredOf
<1>5. LogNow' = VisibleOf(data, best.slot, <<>>, best.count)
  BY <1>1, <1>2 DEF LogNow, flashVars
<1> HIDE DEF best
<1>6. VisibleOf(data, best.slot, <<>>, best.count) = WindowOf(data, best.slot, best.count)
  <2>1. \A i \in 1 .. best.count : i <= best.count - Len(<<>>) /\ best.count - Len(<<>>) - i + 1 = best.count - i + 1
    BY <1>2, <1>3
  <2>2. QED
    BY <2>1 DEF VisibleOf, WindowOf
<1>7. LogNow' = LogNow /\ Len(pending') = Len(pending)
  BY <1>1, <1>4, <1>5, <1>6
<1>8. DurableNow' = DurableNow
  BY <1>1 DEF DurableNow, flashVars
<1>9. SpoiledNow' <=> SpoiledNow
  BY <1>1 DEF SpoiledNow, StartOf, flashVars, best
<1>10. QED
  BY <1>7, <1>8, <1>9 DEF Unseen

LEMMA BootFreshUnseen == ASSUME HistoryInv, BootFresh PROVE Unseen
<1>1. /\ pc = "boot" /\ EntriesOf(journal) = {} /\ pc' # "boot"
      /\ UNCHANGED <<data, indexVars, pending, runVars>>
      /\ journal' = JournalFilled("primary", Blank) \/ journal' = journal
  BY ModelTerms DEF BootFresh
<1>2. pending = <<>> /\ write_slot = 0 /\ count = 0
  BY <1>1 DEF HistoryInv, AtBoot
<1>3. EntriesOf(journal') = {}
  BY <1>1, FilledEntries DEF HistoryInv, Metas
<1>4. LogNow = <<>> /\ DurableNow = <<>> /\ ~SpoiledNow
  BY <1>1, <1>2, FromZero DEF LogNow, DurableNow, SpoiledNow, RestoredOf, StartOf
<1>5. LogNow' = <<>> /\ DurableNow' = <<>> /\ ~SpoiledNow'
  BY <1>1, <1>2, <1>3, FromZero DEF LogNow, DurableNow, SpoiledNow, RestoredOf, indexVars, runVars
<1>6. QED
  BY <1>1, <1>4, <1>5 DEF Unseen

LEMMA BeginFlushUnseen ==
    ASSUME HistoryInv, NEW who, BeginFlush(who)
    PROVE  Unseen
<1>1. pc # "boot" /\ pc' # "boot" /\ UNCHANGED <<flashVars, pending, write_slot, count>>
  BY DEF BeginFlush, FirstStep, MetaStep, DataStep, indexVars, runVars
<1>2. QED
  BY <1>1, QuietIsUnseen

LEMMA FailureUnseen ==
    ASSUME HistoryInv, pc # "boot", Return(FALSE), UNCHANGED <<flashVars, pending, write_slot, count>>
    PROVE  Unseen
<1>1. pc' # "boot"
  BY DEF Return
<1>2. QED
  BY <1>1, QuietIsUnseen

\* What an erase under way makes of the log, done or torn.
LEMMA EraseSectorViews ==
    ASSUME HistoryInv, pc = "erase", NEW x \in Cells,
           NEW dd, dd = DataFilled(SectorOf(Target), x)
    PROVE  /\ RestoredOf(journal, dd) = RestoredOf(journal, data)
           /\ VisibleOf(dd, write_slot, pending, count) = VisibleOf(data, write_slot, pending, count)
           /\ SpoiledAt(dd, write_slot, pending) <=> SpoiledAt(data, write_slot, pending)
<1>1. OpensSector(Target)
  BY DEF HistoryInv, Batch
<1>2. dd = [c \in Slots |-> IF SectorOf(c) = SectorOf(Target) THEN x ELSE data[c]]
  BY DEF DataFilled
<1>3. \A c \in Slots : dd[c] = data[c] \/ Touched(Target, c)
  BY <1>1, <1>2 DEF Touched
<1>4. /\ RestoredOf(journal, dd) = RestoredOf(journal, data)
      /\ VisibleOf(dd, write_slot, pending, count) = VisibleOf(data, write_slot, pending, count)
  BY <1>3, FlushSpares
<1>5. /\ data \in Rings /\ write_slot \in Slots /\ pending \in Seq(Samples) /\ done \in Nat
      /\ Len(pending) <= PENDING_CAPACITY
  BY TypeFacts DEF HistoryInv
<1>6. Programmed(data, write_slot, pending, done) /\ done < Len(pending)
  BY DEF HistoryInv, Batch, Calls
<1>7. OpensSector(Ahead(write_slot, done))
      /\ dd = [c \in Slots |-> IF SectorOf(c) = SectorOf(Ahead(write_slot, done)) THEN x ELSE data[c]]
  BY <1>1, <1>2 DEF Target
<1>8. SpoiledAt(dd, write_slot, pending) = SpoiledAt(data, write_slot, pending)
  BY <1>5, <1>6, <1>7, EraseStep
<1>9. QED
  BY <1>4, <1>8

LEMMA EraseSectorUnseen == ASSUME HistoryInv, EraseSector PROVE Unseen
<1>1. pc = "erase" /\ UNCHANGED <<journal, indexVars, pending, runVars>>
  BY DEF EraseSector
<1>2. CASE Return(FALSE) /\ UNCHANGED data
  BY <1>1, <1>2, FailureUnseen DEF flashVars, indexVars, runVars
<1>3. CASE data' = DataFilled(SectorOf(Target), "blank") /\ pc' = "program"
  <2>1. /\ RestoredOf(journal, data') = RestoredOf(journal, data)
        /\ VisibleOf(data', write_slot, pending, count) = VisibleOf(data, write_slot, pending, count)
        /\ SpoiledAt(data', write_slot, pending) <=> SpoiledAt(data, write_slot, pending)
    BY <1>1, <1>3, EraseSectorViews DEF Cells
  <2>2. QED
    BY <1>1, <1>3, <2>1 DEF Unseen, LogNow, DurableNow, SpoiledNow, indexVars, runVars
<1>4. QED
  BY <1>2, <1>3 DEF EraseSector

LEMMA SwitchSectorUnseen == ASSUME HistoryInv, SwitchSector PROVE Unseen
<1>1. pc = "switch" /\ UNCHANGED <<data, indexVars, pending, runVars>>
  BY DEF SwitchSector
<1>2. CASE Return(FALSE) /\ UNCHANGED journal
  BY <1>1, <1>2, FailureUnseen DEF flashVars, indexVars, runVars
<1>3. CASE journal' = JournalFilled(Other(meta_sector), Blank) /\ pc' = "record"
  <2>1. EntriesOf(journal') # {} /\ BestRecord(journal') = BestRecord(journal) /\ LostFrom(journal, journal')
    BY <1>1, <1>3, SwitchFacts
  <2>2. EntriesOf(journal) # {}
    BY <2>1 DEF LostFrom
  <2>3. RestoredOf(journal', data) = RestoredOf(journal, data)
    BY <2>1, <2>2, RestoredFromBest
  <2>4. QED
    BY <1>1, <1>3, <2>3 DEF Unseen, LogNow, DurableNow, SpoiledNow, indexVars, runVars
<1>4. QED
  BY <1>2, <1>3 DEF SwitchSector

LEMMA WriteRecordCheckpoints == ASSUME HistoryInv, WriteRecord PROVE Unseen \/ Checkpoints
<1>1. /\ pc = "record" /\ pending = <<>> /\ UNCHANGED <<data, indexVars, pending, runVars>>
  BY DEF WriteRecord, HistoryInv, Calls
<1>2. CASE Return(FALSE) /\ UNCHANGED journal
  BY <1>1, <1>2, FailureUnseen DEF flashVars, indexVars, runVars
<1>3. CASE /\ journal' = [journal EXCEPT ![meta_sector][next_meta_slot] =
                              ProgramRecord(@, Checkpointed)]
           /\ Return(TRUE)
  <2>1. EntriesOf(journal') # {} /\ BestRecord(journal') = Checkpointed
    BY <1>1, <1>3, WriteRecordFacts
  <2>2. Checkpointed.slot = write_slot /\ Checkpointed.count = persisted
    BY DEF Checkpointed
  <2>3. Len(pending) = 0 /\ Len(pending') = 0 /\ pc' # "boot"
    BY <1>1, <1>3 DEF Return
  <2>4. count = persisted /\ count \in Int
    <3>1. count = MinOf(persisted + Len(pending), HISTORY_CAPACITY) /\ persisted \in 0 .. HISTORY_CAPACITY
      BY <1>1 DEF HistoryInv, CountsAgree, HistoryTypeOK
    <3>2. HISTORY_CAPACITY \in Nat
      BY Sizes
    <3>3. QED
      BY <2>3, <3>1, <3>2 DEF MinOf
  <2>5. DurableNow' = WindowOf(data, write_slot, count)
    BY <1>1, <2>1, <2>2, <2>4 DEF DurableNow, RestoredOf
  <2>6. VisibleOf(data, write_slot, pending, count) = WindowOf(data, write_slot, count)
    <3>1. \A i \in 1 .. count : i <= count - Len(pending) /\ count - Len(pending) - i + 1 = count - i + 1
      BY <2>3, <2>4
    <3>2. QED
      BY <3>1 DEF VisibleOf, WindowOf
  <2>7. LogNow' = LogNow /\ LogNow = VisibleOf(data, write_slot, pending, count)
    BY <1>1, <2>3 DEF LogNow, indexVars, runVars
  <2>8. SpoiledNow' <=> SpoiledNow
    BY <1>1, <2>3 DEF SpoiledNow, indexVars
  <2>9. Checkpoints
    BY <2>3, <2>5, <2>6, <2>7, <2>8 DEF Checkpoints
  <2>10. QED
    BY <2>9
<1>4. QED
  BY <1>2, <1>3 DEF WriteRecord

\* A clear has emptied the log; what it erases after that was in no checkpoint.
LEMMA ClearedViews ==
    ASSUME HistoryInv, pc = "idle", phase # "inactive"
    PROVE  /\ LogNow = <<>> /\ ~SpoiledNow /\ Len(pending) = 0
           /\ write_slot = 0 /\ count = 0 /\ pending = <<>>
           /\ phase = "erase" => \A d : RestoredOf(journal, d) = <<>>
<1>1. write_slot = 0 /\ persisted = 0 /\ pending = <<>> /\ count = 0 /\ ready
  BY DEF HistoryInv, Clearing
<1>2. LogNow = <<>> /\ ~SpoiledNow /\ Len(pending) = 0
  BY <1>1, FromZero DEF LogNow, SpoiledNow
<1>3. ASSUME phase = "erase" PROVE \A d : RestoredOf(journal, d) = <<>>
  <2>1. ~metadata_dirty
    BY <1>3 DEF HistoryInv, Clearing
  <2>2. BestRecord(journal).count = 0
    BY <1>1, <1>3, <2>1 DEF HistoryInv, Clean
  <2>3. QED
    BY <2>2, FromZero DEF RestoredOf
<1>4. QED
  BY <1>1, <1>2, <1>3

LEMMA ClearPrepareCheckpoints == ASSUME HistoryInv, ClearPrepare PROVE Unseen \/ Checkpoints
<1>1. /\ pc = "idle" /\ phase = "prepare" /\ pc' = "record"
      /\ journal' = JournalFilled(preserved_meta_sector, Blank)
      /\ UNCHANGED <<data, indexVars, pending, runVars>>
  BY DEF ClearPrepare
<1>2. /\ LogNow = <<>> /\ ~SpoiledNow /\ Len(pending) = 0
      /\ write_slot = 0 /\ count = 0 /\ pending = <<>>
  BY <1>1, ClearedViews
<1>3. LogNow' = <<>> /\ ~SpoiledNow' /\ Len(pending') = 0
  BY <1>1, <1>2, FromZero DEF LogNow, SpoiledNow, indexVars, runVars
<1>4. EntriesOf(journal') # {} => EntriesOf(journal) # {} /\ BestRecord(journal') = BestRecord(journal)
  BY <1>1, PrepareFacts
<1>5. DurableNow' = DurableNow \/ DurableNow' = <<>>
  BY <1>1, <1>4, RestoredFromBest DEF DurableNow, RestoredOf
<1>6. QED
  BY <1>2, <1>3, <1>5 DEF Unseen, Checkpoints

LEMMA ClearEraseUnseen == ASSUME HistoryInv, ClearErase PROVE Unseen
<1>1. /\ pc = "idle" /\ phase = "erase" /\ ready
      /\ UNCHANGED <<indexVars, pending, runVars, pc>>
  BY DEF ClearErase, callVars
<1>2. /\ LogNow = <<>> /\ ~SpoiledNow /\ Len(pending) = 0
      /\ write_slot = 0 /\ count = 0 /\ pending = <<>>
      /\ \A d : RestoredOf(journal, d) = <<>>
  BY <1>1, ClearedViews
<1>3. LogNow' = <<>> /\ ~SpoiledNow' /\ Len(pending') = 0
  BY <1>1, <1>2, FromZero DEF LogNow, SpoiledNow, indexVars, runVars
<1>4. RestoredOf(journal', data') = <<>>
  <2>1. CASE journal' = journal
    BY <1>2, <2>1
  <2>2. CASE IsMeta(NextToErase) /\ journal' = JournalFilled(MetaOf(NextToErase), Blank)
    <3>1. /\ BestRecord(journal') = BestRecord(journal) /\ EntriesOf(journal') # {}
          /\ LostFrom(journal, journal')
      BY <1>1, <2>2, EraseFacts
    <3>2. EntriesOf(journal) # {}
      BY <3>1 DEF LostFrom
    <3>3. RestoredOf(journal', data') = RestoredOf(journal, data')
      BY <3>1, <3>2, RestoredFromBest
    <3>4. QED
      BY <1>2, <3>3
  <2>3. QED
    BY <2>1, <2>2 DEF ClearErase, flashVars
<1>5. DurableNow = <<>> /\ DurableNow' = <<>>
  BY <1>2, <1>4 DEF DurableNow
<1>6. QED
  BY <1>2, <1>3, <1>5 DEF Unseen

\* The last sample of a batch: the samples that were in RAM are read from flash.
Flushes ==
    /\ Len(pending) > 0 /\ Len(pending') = 0
    /\ Abstract!SparesAllBut(IF SpoiledNow THEN Len(pending) ELSE 0, LogNow, LogNow')
    /\ SpoiledNow' => SpoiledNow
    /\ DurableNow' = DurableNow

LEMMA WriteSampleFlushes == ASSUME HistoryInv, WriteSample PROVE Unseen \/ Flushes
<1> DEFINE L == Len(pending)  v == count - L
<1>1. pc = "program" /\ UNCHANGED <<journal, runVars>>
  BY DEF WriteSample
<1>2. CASE Return(FALSE) /\ UNCHANGED <<data, indexVars, metadata_dirty, pending>>
  BY <1>1, <1>2, FailureUnseen DEF flashVars, indexVars, runVars
<1>3. ASSUME data' = [data EXCEPT ![Target] = ProgramSample(@, pending[done + 1])]
      PROVE  /\ RestoredOf(journal, data') = RestoredOf(journal, data)
             /\ VisibleOf(data', write_slot, pending, count) = VisibleOf(data, write_slot, pending, count)
             /\ WindowOf(data', write_slot, v) = WindowOf(data, write_slot, v)
  <2>1. data \in Rings
    BY TypeFacts DEF HistoryInv
  <2>2. \A c \in Slots : data'[c] = data[c] \/ Touched(Target, c)
    BY <1>3, <2>1 DEF Touched, Rings
  <2>3. QED
    BY <1>1, <2>2, FlushSpares
<1>4. CASE /\ data' = [data EXCEPT ![Target] = ProgramSample(@, pending[done + 1])]
           /\ pc' = DataStep(Ahead(Target, 1))
           /\ UNCHANGED <<indexVars, pending>>
  <2>1. SpoiledAt(data', write_slot, pending) = SpoiledAt(data, write_slot, pending)
    BY <1>1, <1>4, WriteSampleFacts
  <2>2. pc' # "boot"
    BY <1>4 DEF DataStep
  <2>3. QED
    BY <1>1, <1>3, <1>4, <2>1, <2>2 DEF Unseen, LogNow, DurableNow, SpoiledNow, indexVars, runVars
<1>5. CASE /\ data' = [data EXCEPT ![Target] = ProgramSample(@, pending[done + 1])]
           /\ done + 1 = Len(pending)
           /\ write_slot' = Ahead(Target, 1)
           /\ pending' = <<>>
           /\ pc' = MetaStep
  <2>1. /\ write_slot \in Slots /\ L \in Nat /\ L > 0 /\ L <= PENDING_CAPACITY /\ L < FLASH_CAPACITY
        /\ write_slot' = Ahead(write_slot, L)
        /\ Programmed(data', write_slot, pending, L)
        /\ SpoiledAt(data', Ahead(write_slot, L), <<>>) => SpoiledAt(data, write_slot, pending)
        /\ SpoiledAt(data', write_slot, pending) = SpoiledAt(data, write_slot, pending)
    <3>1. /\ write_slot \in Slots /\ L \in Nat /\ L <= PENDING_CAPACITY /\ PENDING_CAPACITY < FLASH_CAPACITY
          /\ Programmed(data', write_slot, pending, done + 1)
          /\ Ahead(Target, 1) = Ahead(write_slot, done + 1)
          /\ SpoiledAt(data', write_slot, pending) = SpoiledAt(data, write_slot, pending)
          /\ done + 1 = L /\ SpoiledAt(data', Ahead(write_slot, done + 1), <<>>)
                => SpoiledAt(data, write_slot, pending)
          /\ done \in Nat
      BY <1>1, <1>5, WriteSampleFacts
    <3>2. L > 0 /\ L < FLASH_CAPACITY
      BY <1>5, <3>1, Sizes
    <3>3. QED
      BY <1>5, <3>1, <3>2
  <2>2. /\ v \in 0 .. HISTORY_CAPACITY /\ count \in 0 .. HISTORY_CAPACITY
        /\ HISTORY_CAPACITY \in Nat /\ HISTORY_CAPACITY < FLASH_CAPACITY /\ FLASH_CAPACITY \in Nat
        /\ count \in Nat /\ v \in Nat
    <3>1. HISTORY_CAPACITY \in Nat /\ HISTORY_CAPACITY < FLASH_CAPACITY /\ FLASH_CAPACITY \in Nat
      BY Sizes
    <3>2. v \in 0 .. HISTORY_CAPACITY /\ count \in 0 .. HISTORY_CAPACITY
      BY <1>1, VisibleParts
    <3>3. QED
      BY <3>1, <3>2
  <2>3. pc' # "boot" /\ Len(pending') = 0
    BY <1>5 DEF MetaStep
  <2>4. LogNow = VisibleOf(data, write_slot, pending, count)
    BY <1>1 DEF LogNow
  <2>5. LogNow' = VisibleOf(data', Ahead(write_slot, L), <<>>, count)
    BY <1>1, <1>5, <2>1, <2>3 DEF LogNow, runVars
  <2>6. ASSUME NEW i \in 1 .. count
        PROVE  \/ LogNow'[i] = LogNow[i]
               \/ LogNow'[i] = "corrupt" /\ i > v /\ SpoiledNow
    <3>0. i \in Nat /\ i >= 1 /\ i <= count
      BY <2>2
    <3>1. LogNow[i] = IF i <= v THEN data[Back(write_slot, v - i + 1)] ELSE pending[i - v]
      BY <2>4 DEF VisibleOf
    <3>2. LogNow'[i] = data'[Back(Ahead(write_slot, L), count - i + 1)]
      <4>1. Len(<<>>) = 0 /\ i <= count - 0 /\ count - 0 - i + 1 = count - i + 1
        BY <2>2, <3>0
      <4>2. QED
        BY <2>5, <4>1 DEF VisibleOf
    <3> DEFINE k == count - i + 1
    <3>3. k \in Nat /\ k < FLASH_CAPACITY
      BY <2>2, <3>0
    <3>4. /\ k > L => Back(Ahead(write_slot, L), k) = Back(write_slot, k - L)
          /\ k <= L => Back(Ahead(write_slot, L), k) = Ahead(write_slot, L - k)
      <4> HIDE DEF k, L
      <4>1. QED
        BY <2>1, <3>3, BackOfAhead
    <3>5. CASE i <= v
      <4>1. k > L /\ k - L = v - i + 1
        BY <2>1, <2>2, <3>0, <3>5
      <4>2. LogNow'[i] = data'[Back(write_slot, v - i + 1)]
        BY <3>2, <3>4, <4>1
      <4>3. i \in 1 .. v
        BY <2>2, <3>0, <3>5
      <4>4. WindowOf(data', write_slot, v)[i] = WindowOf(data, write_slot, v)[i]
        BY <1>3, <1>5
      <4>5. data'[Back(write_slot, v - i + 1)] = data[Back(write_slot, v - i + 1)]
        <5> HIDE DEF v
        <5>1. QED
          BY <4>3, <4>4 DEF WindowOf
      <4>6. QED
        BY <3>1, <3>5, <4>2, <4>5
    <3>6. CASE ~(i <= v)
      <4>1. k <= L /\ L - k \in 0 .. L - 1 /\ (L - k) + 1 = i - v /\ i > v
        BY <2>1, <2>2, <3>0, <3>3, <3>6
      <4>2. LogNow'[i] = data'[Ahead(write_slot, L - k)]
        BY <3>2, <3>4, <4>1
      <4>3. \/ data'[Ahead(write_slot, L - k)] = pending[(L - k) + 1]
            \/ /\ data'[Ahead(write_slot, L - k)] = "corrupt"
               /\ SpoiledAt(data', write_slot, pending)
        <5> HIDE DEF k, L
        <5>1. QED
          BY <2>1, <4>1 DEF Programmed
      <4>4. LogNow[i] = pending[i - v]
        BY <3>1, <3>6
      <4>5. SpoiledAt(data', write_slot, pending) => SpoiledNow
        BY <1>1, <2>1 DEF SpoiledNow
      <4>6. QED
        BY <4>1, <4>2, <4>3, <4>4, <4>5
    <3>7. QED
      BY <3>5, <3>6
  <2>7. Len(LogNow) = count /\ Len(LogNow') = count
    BY <2>2, <2>4, <2>5 DEF VisibleOf
  <2>8. Abstract!SparesAllBut(IF SpoiledNow THEN L ELSE 0, LogNow, LogNow')
    <3>1. ASSUME NEW i \in 1 .. Len(LogNow)
          PROVE  \/ LogNow'[i] = LogNow[i]
                 \/ /\ LogNow'[i] = "corrupt"
                    /\ i > Len(LogNow) - (IF SpoiledNow THEN L ELSE 0)
      <4>1. i \in 1 .. count
        BY <2>7
      <4>2. CASE LogNow'[i] = LogNow[i]
        BY <4>2
      <4>3. CASE LogNow'[i] = "corrupt" /\ i > v /\ SpoiledNow
        BY <2>7, <4>3
      <4>4. QED
        BY <2>6, <4>1, <4>2, <4>3
    <3>2. QED
      BY <2>7, <3>1 DEF Abstract!SparesAllBut
  <2>9. SpoiledNow' => SpoiledNow
    BY <1>1, <1>5, <2>1, <2>3 DEF SpoiledNow
  <2>10. DurableNow' = DurableNow
    BY <1>1, <1>3, <1>5 DEF DurableNow
  <2>11. Flushes
    BY <2>1, <2>3, <2>8, <2>9, <2>10 DEF Flushes
  <2>12. QED
    BY <2>11
<1>6. QED
  BY <1>2, <1>4, <1>5 DEF WriteSample

\* The log is a sequence of cells.
LEMMA VisibleTypes ==
    ASSUME HistoryInv, pc # "boot"
    PROVE  /\ VisibleOf(data, write_slot, pending, count) \in Seq(Cells)
           /\ Len(VisibleOf(data, write_slot, pending, count)) = count
<1> DEFINE v == count - Len(pending)
           cell(i) == IF i <= v THEN data[Back(write_slot, v - i + 1)] ELSE pending[i - v]
<1>1. /\ data \in Rings /\ write_slot \in Slots /\ pending \in Seq(Samples)
  BY TypeFacts DEF HistoryInv
<1>2. /\ v \in 0 .. HISTORY_CAPACITY /\ count \in 0 .. HISTORY_CAPACITY
      /\ Len(pending) \in 0 .. PENDING_CAPACITY
  BY VisibleParts
<1>3. /\ HISTORY_CAPACITY \in Nat /\ HISTORY_CAPACITY < FLASH_CAPACITY /\ FLASH_CAPACITY \in Nat
      /\ PENDING_CAPACITY \in Nat
  BY Sizes
<1>4. count \in Nat /\ v \in Nat /\ Len(pending) \in Nat
  BY <1>2, <1>3
<1>5. ASSUME NEW i \in 1 .. count PROVE cell(i) \in Cells
  <2>1. CASE i <= v
    <3> DEFINE k == v - i + 1
    <3>1. k \in 0 .. FLASH_CAPACITY
      BY <1>2, <1>3, <1>4, <2>1
    <3> HIDE DEF k
    <3>2. Back(write_slot, k) \in Slots
      BY <1>1, <3>1, RingSteps
    <3>3. data[Back(write_slot, k)] \in Cells
      BY <1>1, <3>2 DEF Rings
    <3>4. QED
      BY <2>1, <3>3 DEF k
  <2>2. CASE ~(i <= v)
    <3> DEFINE k == i - v
    <3>1. k \in 1 .. Len(pending)
      BY <1>4, <2>2
    <3> HIDE DEF k
    <3>2. pending[k] \in Samples
      BY <1>1, <3>1, ElementOfSeq
    <3>3. QED
      BY <2>2, <3>2 DEF Cells, k
  <2>3. QED
    BY <2>1, <2>2
<1>6. VisibleOf(data, write_slot, pending, count) = [i \in 1 .. count |-> cell(i)]
  BY DEF VisibleOf
<1> HIDE DEF cell
<1>7. QED
  BY <1>4, <1>5, <1>6

\* A sample that is committed is appended, and the oldest one leaves a full window.
Appends(s) ==
    /\ Len(pending') = Len(pending) + 1
    /\ LogNow' = Abstract!Newest(HISTORY_CAPACITY, Append(LogNow, s))
    /\ SpoiledNow' => SpoiledNow
    /\ DurableNow' = DurableNow

LEMMA CommitSampleAppends ==
    ASSUME HistoryInv, HistoryInv', NEW s \in Samples, CommitSample(s)
    PROVE  Appends(s)
<1> DEFINE L == Len(pending)  n == count  v == n - L  nn == count'
           log == VisibleOf(data, write_slot, pending, count)
           new == VisibleOf(data, write_slot, Append(pending, s), nn)
<1>1. /\ pc # "boot" /\ pc' = "idle"
      /\ pending' = Append(pending, s)
      /\ nn = MinOf(n + 1, HISTORY_CAPACITY)
      /\ UNCHANGED <<flashVars, indexVars>>
  BY DEF CommitSample
<1>2. /\ data \in Rings /\ write_slot \in Slots /\ pending \in Seq(Samples)
  BY TypeFacts DEF HistoryInv
<1>3. /\ v \in 0 .. HISTORY_CAPACITY /\ n \in 0 .. HISTORY_CAPACITY
      /\ L \in 0 .. PENDING_CAPACITY
      /\ HISTORY_CAPACITY \in Nat \ {0} /\ PENDING_CAPACITY \in Nat
  BY <1>1, VisibleParts, Sizes
<1>4. n \in Nat /\ v \in Nat /\ L \in Nat
  BY <1>3
<1>5. /\ Append(pending, s) \in Seq(Samples) /\ Len(Append(pending, s)) = L + 1
      /\ \A i \in 1 .. L : Append(pending, s)[i] = pending[i]
      /\ Append(pending, s)[L + 1] = s
  BY <1>2, AppendProperties
<1>6. LogNow = log /\ LogNow' = new
  BY <1>1 DEF LogNow, flashVars, indexVars
<1>7. log \in Seq(Cells) /\ Len(log) = n
  BY <1>1, VisibleTypes
<1>8. s \in Cells
  BY DEF Cells
<1> DEFINE app == Append(log, s)
<1>9. /\ app \in Seq(Cells) /\ Len(app) = n + 1
      /\ \A i \in 1 .. n : app[i] = log[i]
      /\ app[n + 1] = s
  <2> HIDE DEF log
  <2>1. QED
    BY <1>7, <1>8, AppendProperties
<1>10. new \in Seq(Cells) /\ Len(new) = nn
  <2>1. (VisibleOf(data, write_slot, pending, count) \in Seq(Cells)
         /\ Len(VisibleOf(data, write_slot, pending, count)) = count)'
    <3>1. HistoryInv /\ pc # "boot" => /\ VisibleOf(data, write_slot, pending, count) \in Seq(Cells)
                                       /\ Len(VisibleOf(data, write_slot, pending, count)) = count
      BY VisibleTypes
    <3>2. (HistoryInv /\ pc # "boot" => /\ VisibleOf(data, write_slot, pending, count) \in Seq(Cells)
                                        /\ Len(VisibleOf(data, write_slot, pending, count)) = count)'
      BY VisibleTypes, PTL
    <3>3. QED
      BY <1>1, <3>2
  <2>2. QED
    BY <1>1, <2>1 DEF flashVars, indexVars
\* The old samples, from flash and from RAM, by their distance to the newest one.
<1>11. \A i \in 1 .. n : log[i] = IF i <= v THEN data[Back(write_slot, v - i + 1)] ELSE pending[i - v]
  BY DEF VisibleOf
<1>12. \A i \in 1 .. nn : new[i] = IF i <= nn - (L + 1) THEN data[Back(write_slot, nn - (L + 1) - i + 1)]
                                   ELSE Append(pending, s)[i - (nn - (L + 1))]
  BY <1>5 DEF VisibleOf
<1>13. ASSUME n < HISTORY_CAPACITY PROVE new = Abstract!Newest(HISTORY_CAPACITY, app)
  <2>1. nn = n + 1 /\ nn - (L + 1) = v /\ Len(app) <= HISTORY_CAPACITY
    BY <1>1, <1>3, <1>4, <1>9, <1>13 DEF MinOf
  <2>2. ASSUME NEW i \in 1 .. n + 1 PROVE new[i] = app[i]
    <3>1. CASE i <= v
      <4>1. i \in 1 .. n /\ i \in 1 .. nn
        BY <1>4, <2>1, <3>1
      <4>2. new[i] = data[Back(write_slot, v - i + 1)] /\ app[i] = data[Back(write_slot, v - i + 1)]
        BY <1>9, <1>11, <1>12, <2>1, <3>1, <4>1
      <4>3. QED
        BY <4>2
    <3>2. CASE ~(i <= v) /\ i <= n
      <4>1. i \in 1 .. n /\ i \in 1 .. nn /\ i - v \in 1 .. L
        BY <1>4, <2>1, <3>2
      <4>2. new[i] = Append(pending, s)[i - v] /\ app[i] = pending[i - v]
        BY <1>9, <1>11, <1>12, <2>1, <3>2, <4>1
      <4>3. QED
        BY <1>5, <4>1, <4>2
    <3>3. CASE i = n + 1
      <4>1. i \in 1 .. nn /\ ~(i <= v) /\ i - v = L + 1
        BY <1>4, <2>1, <3>3
      <4>2. new[i] = Append(pending, s)[L + 1]
        BY <1>12, <2>1, <4>1
      <4>3. QED
        BY <1>5, <1>9, <3>3, <4>2
    <3>4. i <= v \/ (~(i <= v) /\ i <= n) \/ i = n + 1
      BY <1>4
    <3>5. QED
      BY <3>1, <3>2, <3>3, <3>4
  <2>3. new = app
    <3> HIDE DEF new, app
    <3>1. QED
      BY <1>9, <1>10, <2>1, <2>2, SeqEqual
  <2>4. QED
    BY <2>1, <2>3 DEF Abstract!Newest
<1>14. ASSUME ~(n < HISTORY_CAPACITY) PROVE new = Abstract!Newest(HISTORY_CAPACITY, app)
  <2>1. /\ n = HISTORY_CAPACITY /\ nn = n /\ nn - (L + 1) = v - 1
        /\ ~(Len(app) <= HISTORY_CAPACITY)
        /\ Len(app) - HISTORY_CAPACITY + 1 = 2 /\ Len(app) = n + 1
    BY <1>1, <1>3, <1>4, <1>9, <1>14 DEF MinOf
  <2> DEFINE sub == SubSeq(app, 2, n + 1)
  <2>2. sub \in Seq(Cells) /\ Len(sub) = n /\ \A i \in 1 .. n : sub[i] = app[i + 1]
    <3>1. \A i \in 2 .. n + 1 : app[i] \in Cells
      <4> SUFFICES ASSUME NEW i \in 2 .. n + 1 PROVE app[i] \in Cells
        OBVIOUS
      <4>1. i \in 1 .. Len(app)
        BY <1>4, <1>9
      <4> HIDE DEF app
      <4>2. QED
        BY <1>9, <4>1, ElementOfSeq
    <3> HIDE DEF app
    <3>2. /\ sub \in Seq(Cells)
          /\ Len(sub) = IF 2 <= n + 1 THEN (n + 1) - 2 + 1 ELSE 0
          /\ \A i \in 1 .. (n + 1) - 2 + 1 : sub[i] = app[2 + i - 1]
      <4>1. 2 \in Int /\ n + 1 \in Int
        BY <1>4
      <4>2. QED
        BY <3>1, <4>1, SubSeqProperties
    <3>3. n >= 1
      BY <1>3, <2>1
    <3>4. (n + 1) - 2 + 1 = n /\ 2 <= n + 1 /\ \A i \in 1 .. n : 2 + i - 1 = i + 1
      BY <1>4, <3>3
    <3>5. QED
      BY <3>2, <3>4
  <2>3. ASSUME NEW i \in 1 .. n PROVE new[i] = app[i + 1]
    <3>1. CASE i + 1 <= v
      <4>1. i + 1 \in 1 .. n /\ i \in 1 .. nn /\ i <= nn - (L + 1)
            /\ nn - (L + 1) - i + 1 = v - (i + 1) + 1
        BY <1>4, <2>1, <3>1
      <4>2. new[i] = data[Back(write_slot, v - (i + 1) + 1)]
        BY <1>12, <4>1
      <4>3. app[i + 1] = data[Back(write_slot, v - (i + 1) + 1)]
        BY <1>9, <1>11, <3>1, <4>1
      <4>4. QED
        BY <4>2, <4>3
    <3>2. CASE ~(i + 1 <= v) /\ i + 1 <= n
      <4>1. i + 1 \in 1 .. n /\ i \in 1 .. nn /\ (i + 1) - v \in 1 .. L
            /\ ~(i <= nn - (L + 1)) /\ i - (nn - (L + 1)) = (i + 1) - v
        BY <1>4, <2>1, <3>2
      <4>2. new[i] = Append(pending, s)[(i + 1) - v]
        BY <1>12, <4>1
      <4>3. app[i + 1] = pending[(i + 1) - v]
        BY <1>9, <1>11, <3>2, <4>1
      <4>4. QED
        BY <1>5, <4>1, <4>2, <4>3
    <3>3. CASE i = n
      <4>1. i \in 1 .. nn /\ ~(i <= nn - (L + 1)) /\ i - (nn - (L + 1)) = L + 1
        BY <1>4, <2>1, <3>3
      <4>2. new[i] = Append(pending, s)[L + 1]
        BY <1>12, <4>1
      <4>3. QED
        BY <1>5, <1>9, <3>3, <4>2
    <3>4. i + 1 <= v \/ (~(i + 1 <= v) /\ i + 1 <= n) \/ i = n
      BY <1>4
    <3>5. QED
      BY <3>1, <3>2, <3>3, <3>4
  <2>4. new = sub
    <3> HIDE DEF new, app, sub
    <3>1. QED
      BY <1>10, <2>1, <2>2, <2>3, SeqEqual
  <2>5. QED
    BY <2>1, <2>4 DEF Abstract!Newest
<1>15. SpoiledNow' => SpoiledNow
  <2>1. ASSUME NEW k \in RestOf(write_slot), k < L, data[write_slot + k] = pending[k + 1]
        PROVE  k < L + 1 /\ data[write_slot + k] = Append(pending, s)[k + 1]
    <3>1. k \in Nat /\ k + 1 \in 1 .. L
      BY <1>2, <1>4, <2>1, RestTypes
    <3>2. QED
      BY <1>4, <1>5, <2>1, <3>1
  <2>2. SpoiledAt(data, write_slot, Append(pending, s)) => SpoiledAt(data, write_slot, pending)
    BY <1>5, <2>1 DEF SpoiledAt
  <2>3. QED
    BY <1>1, <2>2 DEF SpoiledNow, flashVars, indexVars
<1>16. DurableNow' = DurableNow
  BY <1>1 DEF DurableNow, flashVars
<1>17. LogNow' = Abstract!Newest(HISTORY_CAPACITY, Append(LogNow, s))
  BY <1>6, <1>13, <1>14
<1>18. QED
  BY <1>1, <1>5, <1>15, <1>16, <1>17 DEF Appends

\* A clear empties the log at once and leaves the checkpoint.
Clears ==
    Len(pending') = 0 /\ LogNow' = <<>> /\ ~SpoiledNow' /\ DurableNow' = DurableNow

LEMMA RequestClearClears == ASSUME HistoryInv, RequestClear PROVE Clears
<1>1. /\ pc = "idle" /\ write_slot' = 0 /\ pending' = <<>> /\ count' = 0
      /\ UNCHANGED <<flashVars, pc>>
  BY DEF RequestClear, callVars
<1>2. QED
  BY <1>1, FromZero DEF Clears, LogNow, SpoiledNow, DurableNow, flashVars

\* A restart goes back to the checkpoint, whatever it interrupts.
Restarts ==
    Len(pending') = 0 /\ LogNow' = DurableNow /\ DurableNow' = DurableNow

LEMMA RestartRestarts == ASSUME HistoryInv, Restart PROVE Restarts \/ Checkpoints
<1>1. pc # "boot" /\ Interrupted /\ pc' = "boot" /\ pending' = <<>>
  BY DEF Restart
<1>2. Len(pending') = 0 /\ LogNow' = DurableNow'
  BY <1>1 DEF LogNow, DurableNow
<1>3. ASSUME RestoredOf(journal', data') = RestoredOf(journal, data) PROVE Restarts
  BY <1>2, <1>3 DEF Restarts, DurableNow
<1>4. CASE UNCHANGED flashVars
  BY <1>3, <1>4 DEF flashVars
<1>5. CASE pc = "erase" /\ data' = DataFilled(SectorOf(Target), "corrupt") /\ UNCHANGED journal
  <2>1. RestoredOf(journal, data') = RestoredOf(journal, data)
    BY <1>5, EraseSectorViews DEF Cells
  <2>2. QED
    BY <1>3, <1>5, <2>1
<1>6. CASE pc = "program" /\ data' = [data EXCEPT ![Target] = "corrupt"] /\ UNCHANGED journal
  <2>1. data \in Rings
    BY TypeFacts DEF HistoryInv
  <2>2. \A c \in Slots : data'[c] = data[c] \/ Touched(Target, c)
    BY <1>6, <2>1 DEF Touched, Rings
  <2>3. RestoredOf(journal, data') = RestoredOf(journal, data)
    BY <1>6, <2>2, FlushSpares
  <2>4. QED
    BY <1>3, <1>6, <2>3
<1>7. CASE /\ pc = "switch" /\ UNCHANGED data
           /\ journal' = JournalFilled(Other(meta_sector), Torn)
  <2>1. EntriesOf(journal') # {} /\ BestRecord(journal') = BestRecord(journal) /\ LostFrom(journal, journal')
    BY <1>7, SwitchFacts
  <2>2. EntriesOf(journal) # {}
    BY <2>1 DEF LostFrom
  <2>3. RestoredOf(journal', data') = RestoredOf(journal, data)
    BY <1>7, <2>1, <2>2, RestoredFromBest
  <2>4. QED
    BY <1>3, <2>3
\* The place of a record is blank before it is written.
<1>8. CASE /\ pc = "record" /\ UNCHANGED data
           /\ journal' = [journal EXCEPT ![meta_sector][next_meta_slot] = Torn]
  <2>1. /\ journal \in Journals /\ generation \in 0 .. GenMod - 1 /\ meta_sector \in Metas
        /\ next_meta_slot \in 0 .. RECORDS_PER_SECTOR
        /\ Ordered(journal, generation, meta_sector, next_meta_slot)
    BY <1>1, TypeFacts DEF HistoryInv, JournalOrdered
  <2>2. next_meta_slot \in Records /\ next_meta_slot \in Int
    BY <1>8, <2>1, Sizes DEF HistoryInv, Calls, Records
  <2>3. journal[meta_sector][next_meta_slot] = Blank
    BY <1>8, <2>2 DEF HistoryInv, HeadKnown, Calls
  <2>4. \A e \in Metas \X Records :
            journal'[e[1]][e[2]] = IF e = <<meta_sector, next_meta_slot>> THEN Torn ELSE journal[e[1]][e[2]]
    BY <1>8, <2>1, <2>2 DEF Journals
  <2>5. EntriesOf(journal') = EntriesOf(journal) /\ LostFrom(journal, journal')
    BY <2>1, <2>3, <2>4, Unentered DEF EntriesOf, LostFrom
  <2>6. journal' \in Journals
    BY <1>1, InterruptedFacts
  <2>7. ASSUME EntriesOf(journal) # {} PROVE BestRecord(journal') = BestRecord(journal)
    <3>1. BestOf(journal) \in EntriesOf(journal')
      BY <2>5, <2>7, BestRecordTypes
    <3>2. BestOf(journal') = BestOf(journal)
      BY <2>1, <2>5, <2>6, <3>1, BestWhenLost
    <3>3. QED
      BY <2>5, <3>1, <3>2 DEF BestRecord, LostFrom
  <2>8. RestoredOf(journal', data') = RestoredOf(journal, data)
    BY <1>8, <2>5, <2>7 DEF RestoredOf
  <2>9. QED
    BY <1>3, <2>8
\* The last record of a history that has been cleared may go with its sector.
<1>9. CASE /\ pc = "idle" /\ phase = "prepare" /\ UNCHANGED data
           /\ journal' = JournalFilled(preserved_meta_sector, Torn)
  <2>1. EntriesOf(journal') # {} => EntriesOf(journal) # {} /\ BestRecord(journal') = BestRecord(journal)
    BY <1>9, PrepareFacts
  <2>2. CASE EntriesOf(journal') # {}
    <3>1. RestoredOf(journal', data') = RestoredOf(journal, data)
      BY <1>9, <2>1, <2>2, RestoredFromBest
    <3>2. QED
      BY <1>3, <3>1
  <2>3. CASE EntriesOf(journal') = {}
    <3>1. LogNow = <<>> /\ ~SpoiledNow /\ Len(pending) = 0
      BY <1>9, ClearedViews
    <3>2. DurableNow' = <<>> /\ ~SpoiledNow'
      BY <1>1, <2>3, FromZero DEF DurableNow, SpoiledNow, RestoredOf, StartOf
    <3>3. QED
      BY <1>2, <3>1, <3>2 DEF Checkpoints
  <2>4. QED
    BY <2>2, <2>3
<1>10. CASE /\ pc = "idle" /\ phase = "erase" /\ IsMeta(NextToErase) /\ UNCHANGED data
            /\ journal' = JournalFilled(MetaOf(NextToErase), Torn)
  <2>1. EntriesOf(journal') # {} /\ BestRecord(journal') = BestRecord(journal) /\ LostFrom(journal, journal')
    BY <1>10, EraseFacts
  <2>2. EntriesOf(journal) # {}
    BY <2>1 DEF LostFrom
  <2>3. RestoredOf(journal', data') = RestoredOf(journal, data)
    BY <1>10, <2>1, <2>2, RestoredFromBest
  <2>4. QED
    BY <1>3, <2>3
<1>11. CASE pc = "idle" /\ phase = "erase" /\ UNCHANGED journal
  <2>1. RestoredOf(journal', data') = RestoredOf(journal, data)
    BY <1>11, ClearedViews
  <2>2. QED
    BY <1>3, <2>1
<1>12. QED
  BY <1>1, <1>4, <1>5, <1>6, <1>7, <1>8, <1>9, <1>10, <1>11 DEF Interrupted

\* The window of a used device is full, and the cells behind it are blank.
LEMMA UsedWindow ==
    ASSUME NEW slot \in Slots, NEW s \in Samples, data = UsedData(slot, s)
    PROVE  /\ WindowOf(data, slot, HISTORY_CAPACITY) = [i \in 1 .. HISTORY_CAPACITY |-> s]
           /\ ~SpoiledAt(data, slot, <<>>)
<1>1. /\ HISTORY_CAPACITY \in Nat \ {0} /\ SAMPLES_PER_SECTOR \in Nat \ {0} /\ PENDING_CAPACITY \in Nat
      /\ FLASH_CAPACITY \in Nat \ {0}
      /\ HISTORY_CAPACITY + PENDING_CAPACITY + SAMPLES_PER_SECTOR <= FLASH_CAPACITY
  BY Sizes
<1>2. /\ slot \in Int /\ 0 <= slot /\ slot < FLASH_CAPACITY
      /\ slot = SAMPLES_PER_SECTOR * SectorOf(slot) + (slot % SAMPLES_PER_SECTOR)
      /\ (slot % SAMPLES_PER_SECTOR) \in 0 .. SAMPLES_PER_SECTOR - 1
      /\ SectorOf(slot) \in Int
  BY SlotParts, Sizes
<1>3. ASSUME NEW k \in 1 .. HISTORY_CAPACITY
      PROVE  Back(slot, k) \in Slots /\ data[Back(slot, k)] = s
  <2> DEFINE c == Back(slot, k)
  <2>1. k \in 0 .. FLASH_CAPACITY /\ k \in Nat
    BY <1>1
  <2>2. c \in Slots
    BY <2>1, RingSteps
  <2>3. c < slot \/ c >= slot + SAMPLES_PER_SECTOR
    BY <1>1, <1>2, <2>1 DEF Back
  <2> HIDE DEF c
  <2>4. SectorOf(c) = SectorOf(slot) => c < slot + SAMPLES_PER_SECTOR
    <3> SUFFICES ASSUME SectorOf(c) = SectorOf(slot) PROVE c < slot + SAMPLES_PER_SECTOR
      OBVIOUS
    <3>1. /\ c \in Int /\ c = SAMPLES_PER_SECTOR * SectorOf(c) + (c % SAMPLES_PER_SECTOR)
          /\ (c % SAMPLES_PER_SECTOR) \in 0 .. SAMPLES_PER_SECTOR - 1
      BY <2>2, SlotParts
    <3> DEFINE a == SAMPLES_PER_SECTOR * SectorOf(slot)
               q == (c % SAMPLES_PER_SECTOR)  r == (slot % SAMPLES_PER_SECTOR)
    <3>2. /\ c = a + q /\ slot = a + r /\ a \in Int
          /\ q \in 0 .. SAMPLES_PER_SECTOR - 1 /\ r \in 0 .. SAMPLES_PER_SECTOR - 1
      BY <1>1, <1>2, <3>1
    <3> HIDE DEF a, q, r
    <3>3. QED
      BY <1>1, <3>2
  <2>5. ~(SectorOf(c) = SectorOf(slot) /\ c >= slot)
    <3>1. c \in Int
      BY <2>2, SlotParts
    <3>2. QED
      BY <1>1, <1>2, <2>3, <2>4, <3>1
  <2>6. data[c] = s
    BY <2>2, <2>5 DEF UsedData
  <2>7. QED
    BY <2>2, <2>6 DEF c
<1>4. WindowOf(data, slot, HISTORY_CAPACITY) = [i \in 1 .. HISTORY_CAPACITY |-> s]
  <2>1. \A i \in 1 .. HISTORY_CAPACITY : HISTORY_CAPACITY - i + 1 \in 1 .. HISTORY_CAPACITY
    BY <1>1
  <2>2. QED
    BY <1>3, <2>1 DEF WindowOf
<1>5. ASSUME ~OpensSector(slot), NEW k \in RestOf(slot) PROVE data[slot + k] = "blank"
  <2>1. k \in Nat /\ slot + k \in Slots /\ SectorOf(slot + k) = SectorOf(slot)
    BY RestTypes
  <2>2. slot + k >= slot
    BY <1>2, <2>1
  <2>3. QED
    BY <1>5, <2>1, <2>2 DEF UsedData
<1>6. ~SpoiledAt(data, slot, <<>>)
  BY <1>5 DEF SpoiledAt
<1>7. QED
  BY <1>4, <1>6

LEMMA InitViews ==
    ASSUME HistoryInit
    PROVE  /\ DurableNow \in Seq(Samples) /\ Len(DurableNow) <= HISTORY_CAPACITY
           /\ LogNow = DurableNow /\ Len(pending) = 0 /\ ~SpoiledNow
<1>1. pending = <<>> /\ pc = "boot" /\ HISTORY_CAPACITY \in Nat
  BY Sizes DEF HistoryInit
<1>2. LogNow = DurableNow /\ Len(pending) = 0
  BY <1>1 DEF LogNow, DurableNow
<1>3. CASE BlankDevice
  <2>1. DurableNow = <<>> /\ ~SpoiledNow
    BY <1>1, <1>3, BlankFacts, FromZero DEF DurableNow, SpoiledNow, RestoredOf, StartOf
  <2>2. QED
    BY <1>1, <1>2, <2>1
<1>4. CASE \E slot \in Slots, gen \in 0 .. GenMod - 1, s \in Samples : UsedDevice(slot, gen, s)
  <2>1. PICK slot \in Slots, gen \in 0 .. GenMod - 1, s \in Samples : UsedDevice(slot, gen, s)
    BY <1>4
  <2>2. EntriesOf(journal) # {} /\ BestRecord(journal) = FirstRecord(slot, gen)
    BY <2>1, UsedFacts
  <2>3. BestRecord(journal).slot = slot /\ BestRecord(journal).count = HISTORY_CAPACITY
    BY <2>2 DEF FirstRecord
  <2>4. /\ WindowOf(data, slot, HISTORY_CAPACITY) = [i \in 1 .. HISTORY_CAPACITY |-> s]
        /\ ~SpoiledAt(data, slot, <<>>)
    BY <2>1, UsedWindow DEF UsedDevice
  <2>5. DurableNow = [i \in 1 .. HISTORY_CAPACITY |-> s]
    BY <2>2, <2>3, <2>4 DEF DurableNow, RestoredOf
  <2>6. DurableNow \in Seq(Samples) /\ Len(DurableNow) = HISTORY_CAPACITY
    BY <1>1, <2>5
  <2>7. ~SpoiledNow
    BY <1>1, <2>2, <2>3, <2>4 DEF SpoiledNow, StartOf
  <2>8. QED
    BY <1>1, <1>2, <2>6, <2>7
<1>5. QED
  BY <1>3, <1>4 DEF HistoryInit, BlankDevice, UsedDevice

(***************************************************************************)
(* The refinement, step by step.                                           *)
(***************************************************************************)

LEMMA NextViews ==
    ASSUME HistoryInv, HistoryInv', [HistoryNext]_histVars
    PROVE  \/ Unseen \/ Checkpoints \/ Flushes \/ Clears \/ Restarts
           \/ \E s \in Samples : Appends(s)
<1>1. CASE UNCHANGED histVars
  <2>1. UNCHANGED <<flashVars, pending, write_slot, count, pc>>
    BY <1>1 DEF histVars, indexVars, runVars, callVars
  <2>2. QED
    BY <2>1 DEF Unseen, LogNow, DurableNow, SpoiledNow, flashVars
<1>2. ASSUME NEW s \in Samples, CommitSample(s) PROVE Appends(s)
  BY <1>2, CommitSampleAppends
<1>3. CASE FlushTick \/ CommitToFullRing \/ CommitEndsRun
  BY <1>3, BeginFlushUnseen DEF FlushTick, CommitToFullRing, CommitEndsRun
<1>4. QED
  BY <1>1, <1>2, <1>3, BootRestoresUnseen, BootFreshUnseen, EraseSectorUnseen,
     WriteSampleFlushes, SwitchSectorUnseen, WriteRecordCheckpoints, RequestClearClears,
     ClearPrepareCheckpoints, ClearEraseUnseen, RestartRestarts DEF HistoryNext

LEMMA ViewsHold ==
    HistoryInv => /\ (IF pc = "boot" THEN Restored ELSE Visible) = LogNow
                  /\ Restored = DurableNow
                  /\ Spoiled <=> SpoiledNow
BY Views

LEMMA NextIsLogNext ==
    ASSUME HistoryInv, HistoryInv', [HistoryNext]_histVars
    PROVE  [Abstract!LogNext]_(Abstract!logVars)
<1>1. /\ (IF pc = "boot" THEN Restored ELSE Visible) = LogNow
      /\ Restored = DurableNow
      /\ Spoiled <=> SpoiledNow
  BY Views
<1>2. (/\ (IF pc = "boot" THEN Restored ELSE Visible) = LogNow
       /\ Restored = DurableNow
       /\ Spoiled <=> SpoiledNow)'
  BY ViewsHold, PTL
<1>3. CASE Unseen
  BY <1>1, <1>2, <1>3 DEF Unseen, Abstract!logVars
<1>4. CASE Checkpoints
  BY <1>1, <1>2, <1>4 DEF Checkpoints, Abstract!LogNext, Abstract!Checkpoint
<1>5. CASE Flushes
  BY <1>1, <1>2, <1>5 DEF Flushes, Abstract!LogNext, Abstract!Flush, Abstract!NotSpoiledAnew
<1>6. CASE Clears
  BY <1>1, <1>2, <1>6 DEF Clears, Abstract!LogNext, Abstract!Clear
<1>7. CASE Restarts
  <2>1. Spoiled' \in BOOLEAN
    BY DEF Spoiled
  <2>2. QED
    BY <1>1, <1>2, <1>7, <2>1 DEF Restarts, Abstract!LogNext, Abstract!Restart
<1>8. CASE \E s \in Samples : Appends(s)
  BY <1>1, <1>2, <1>8 DEF Appends, Abstract!LogNext, Abstract!AppendSample, Abstract!NotSpoiledAnew
<1>9. QED
  BY <1>3, <1>4, <1>5, <1>6, <1>7, <1>8, NextViews

\* The ring, the journal, the pending samples and the restarts implement the bounded
\* log of HistoryLog: whatever is interrupted, torn, retried, cleared or wrapped
\* around, a restart comes back with the log of the last checkpoint, undamaged.
THEOREM StoreImplementsLog == HistorySpec => ImplementsLog
<1>1. HistoryInit => Abstract!LogInit
  <2> SUFFICES ASSUME HistoryInit PROVE Abstract!LogInit
    OBVIOUS
  <2>1. /\ (IF pc = "boot" THEN Restored ELSE Visible) = LogNow
        /\ Restored = DurableNow
        /\ Spoiled <=> SpoiledNow
    BY InitKeeps, Views
  <2>2. QED
    BY <2>1, InitViews DEF Abstract!LogInit
<1>2. HistoryInv /\ HistoryInv' /\ [HistoryNext]_histVars => [Abstract!LogNext]_(Abstract!logVars)
  BY NextIsLogNext
<1>3. QED
  BY <1>1, <1>2, Inductive, PTL DEF HistorySpec, ImplementsLog, Abstract!LogSpec

=============================================================================
