---------------------------- MODULE HistoryStore ----------------------------
(***************************************************************************)
(* sensirion_history.cpp: the sample ring in the senshist flash partition, *)
(* its redundant metadata journal, the clearing of the history, and what a *)
(* restart makes of them.                                                  *)
(*                                                                         *)
(* All of it runs in the main task.  What can come between two steps is a  *)
(* restart, so every flash operation is a step of its own.  Flash is NOR:  *)
(* programming only clears bits, so a sample or record programmed over     *)
(* another one becomes neither.  A restart in the middle of an operation   *)
(* leaves it undone, done or garbled; an interrupted erase garbles the     *)
(* sector.  The clock is left out: what a timer decides is a free choice.  *)
(***************************************************************************)
EXTENDS Integers, Sequences

CONSTANTS
    Samples,             \* the encoded samples
    FLASH_DATA_SECTORS,
    SAMPLES_PER_SECTOR,
    HISTORY_CAPACITY,
    PENDING_CAPACITY,
    RECORDS_PER_SECTOR,
    GenMod,              \* the generation counter wraps at this value (2^32)
    Errors               \* the flash calls that may fail

FLASH_CAPACITY == FLASH_DATA_SECTORS * SAMPLES_PER_SECTOR

ASSUME HistoryAssumption ==
    /\ {FLASH_DATA_SECTORS, SAMPLES_PER_SECTOR, HISTORY_CAPACITY, PENDING_CAPACITY,
        RECORDS_PER_SECTOR, GenMod} \subseteq Nat \ {0}
    /\ PENDING_CAPACITY <= HISTORY_CAPACITY
    /\ HISTORY_CAPACITY + PENDING_CAPACITY + SAMPLES_PER_SECTOR <= FLASH_CAPACITY
    /\ GenMod >= 4 * RECORDS_PER_SECTOR
    /\ Errors \subseteq {"erase", "program", "record"}
    /\ Samples \cap {"blank", "corrupt"} = {}

VARIABLES
    data,             \* the sample slots of the data sectors
    journal,          \* the records of the two metadata sectors
    ready,            \* flash.ready
    write_slot, persisted, generation, meta_sector, next_meta_slot, metadata_dirty,
    pending,          \* the pending ring, oldest sample first
    count, run_count, force_new_run,
    phase, preserved_meta_sector, next_sector,    \* clearing
    pc, caller, done  \* the flash operation to come, for whom, samples programmed

flashVars == <<data, journal>>
indexVars == <<write_slot, persisted>>
metaVars  == <<generation, meta_sector, next_meta_slot, metadata_dirty>>
runVars   == <<count, run_count, force_new_run>>
clearVars == <<phase, preserved_meta_sector, next_sector>>
callVars  == <<pc, caller, done>>
histVars  == <<flashVars, ready, indexVars, metaVars, pending, runVars, clearVars, callVars>>

-----------------------------------------------------------------------------
(* Flash. *)

Slots   == 0 .. FLASH_CAPACITY - 1
Records == 0 .. RECORDS_PER_SECTOR - 1
Metas   == {"primary", "secondary"}
Other(sector) == IF sector = "primary" THEN "secondary" ELSE "primary"

Ahead(slot, n) == IF slot + n < FLASH_CAPACITY THEN slot + n ELSE slot + n - FLASH_CAPACITY
Back(slot, n)  == IF slot >= n THEN slot - n ELSE slot + FLASH_CAPACITY - n
SectorOf(slot) == slot \div SAMPLES_PER_SECTOR
OpensSector(slot) == slot % SAMPLES_PER_SECTOR = 0

Unwritten(state) == [state |-> state, gen |-> 0, count |-> 0, slot |-> 0, run |-> 0]
Blank == Unwritten("blank")
Torn  == Unwritten("torn")

FlashMeta == {Blank, Torn} \cup
    [state : {"written"}, gen : 0 .. GenMod - 1, count : 0 .. HISTORY_CAPACITY,
     slot : Slots, run : 0 .. HISTORY_CAPACITY]

\* Programming over cells that are not blank.
ProgramSample(old, s) == IF old \in {"blank", s} THEN s ELSE "corrupt"
ProgramRecord(old, r) == IF old \in {Blank, r} THEN r ELSE Torn

DataFilled(sector, x) == [slot \in Slots |-> IF SectorOf(slot) = sector THEN x ELSE data[slot]]
JournalFilled(sector, r) == [journal EXCEPT ![sector] = [k \in Records |-> r]]

-----------------------------------------------------------------------------
(* What a restart reads from the journal. *)

valid_meta(r) == r.state = "written" /\ r.run <= r.count

\* Serial-number comparison of 32-bit generations.
generation_newer(a, b) == a # b /\ (a - b + GenMod) % GenMod < GenMod \div 2

Entries == {e \in Metas \X Records : valid_meta(journal[e[1]][e[2]])}
Record(e) == journal[e[1]][e[2]]
Best ==
    CHOOSE e \in Entries :
        \A f \in Metas \X Records :
            generation_newer(Record(f).gen, Record(e).gen) => ~valid_meta(Record(f))

\* One past the last record of a sector that is not blank.
Occupied(sector) ==
    CHOOSE n \in 0 .. RECORDS_PER_SECTOR :
        /\ n > 0 => journal[sector][n - 1] # Blank
        /\ \A k \in Records : k >= n => journal[sector][k] = Blank

Window[r \in FlashMeta] == [i \in 1 .. r.count |-> data[Back(r.slot, r.count - i + 1)]]

Restored == IF Entries = {} THEN <<>>
            ELSE Window[Record(Best)]

-----------------------------------------------------------------------------
HistoryTypeOK ==
    /\ data \in [Slots -> Samples \cup {"blank", "corrupt"}]
    /\ journal \in [Metas -> [Records -> FlashMeta]]
    /\ ready \in BOOLEAN /\ metadata_dirty \in BOOLEAN /\ force_new_run \in BOOLEAN
    /\ write_slot \in Slots /\ persisted \in 0 .. HISTORY_CAPACITY
    /\ generation \in 0 .. GenMod - 1 /\ meta_sector \in Metas
    /\ next_meta_slot \in 0 .. RECORDS_PER_SECTOR
    /\ pending \in Seq(Samples) /\ Len(pending) <= PENDING_CAPACITY
    /\ count \in 0 .. HISTORY_CAPACITY /\ run_count \in 0 .. HISTORY_CAPACITY
    /\ phase \in {"inactive", "prepare", "erase"}
    /\ preserved_meta_sector \in Metas /\ next_sector \in 0 .. FLASH_DATA_SECTORS + 2
    /\ pc \in {"boot", "idle", "erase", "program", "switch", "record", "commit"}
    /\ caller \in {"none", "tick", "full", "run", "clear", "init"}
    /\ done \in 0 .. PENDING_CAPACITY

\* A flash that is blank, or one with a full history of s, written up to slot.
UsedData(slot, s) ==
    [k \in Slots |-> IF ~OpensSector(slot) /\ SectorOf(k) = SectorOf(slot) /\ k >= slot
                     THEN "blank" ELSE s]
FirstRecord(slot, gen) ==
    [state |-> "written", gen |-> gen, count |-> HISTORY_CAPACITY, slot |-> slot,
     run |-> HISTORY_CAPACITY]

\* And the static initialisers.
HistoryInit ==
    /\ \/ /\ data = [slot \in Slots |-> "blank"]
          /\ journal = [m \in Metas |-> [k \in Records |-> Blank]]
       \/ \E slot \in Slots, gen \in 0 .. GenMod - 1, s \in Samples :
             /\ data = UsedData(slot, s)
             /\ journal = [m \in Metas |-> [k \in Records |->
                    IF m = "primary" /\ k = 0 THEN FirstRecord(slot, gen) ELSE Blank]]
    /\ ready = TRUE
    /\ write_slot = 0 /\ persisted = 0
    /\ generation = 0 /\ meta_sector = "primary" /\ next_meta_slot = 0
    /\ metadata_dirty = FALSE
    /\ pending = <<>> /\ count = 0 /\ run_count = 0 /\ force_new_run = FALSE
    /\ phase = "inactive" /\ preserved_meta_sector = "primary" /\ next_sector = 0
    /\ pc = "boot" /\ caller = "none" /\ done = 0

-----------------------------------------------------------------------------
(* init_flash. *)

MaxOf(a, b) == IF a > b THEN a ELSE b
MinOf(a, b) == IF a < b THEN a ELSE b

\* The newest valid record wins.  The next one goes behind everything in its
\* sector that is not blank, torn records included.  (BehindBest: torn records
\* are written over.)
BehindBest(e) == e[2] + 1
NextRecord(e) == MaxOf(e[2] + 1, Occupied(e[1]))

BootRestores ==
    LET best == Record(Best) IN
    /\ pc = "boot" /\ Entries # {}
    /\ write_slot' = best.slot /\ persisted' = best.count
    /\ generation' = best.gen
    /\ meta_sector' = Best[1] /\ next_meta_slot' = NextRecord(Best)
    /\ count' = best.count /\ run_count' = best.run
    /\ force_new_run' = (best.count # 0)
    /\ pc' = "idle"
    /\ UNCHANGED <<flashVars, ready, metadata_dirty, pending, clearVars, caller, done>>

\* No valid record: an empty history, with a first record for it.
BootFresh ==
    /\ pc = "boot" /\ Entries = {}
    /\ \/ /\ journal' = JournalFilled("primary", Blank)
          /\ metadata_dirty' = TRUE
          /\ pc' = "record" /\ caller' = "init"
          /\ UNCHANGED ready
       \/ /\ "erase" \in Errors
          /\ ready' = FALSE
          /\ pc' = "idle"
          /\ UNCHANGED <<journal, metadata_dirty, caller>>
    /\ UNCHANGED <<data, indexVars, generation, meta_sector, next_meta_slot, pending,
                   runVars, clearVars, done>>

-----------------------------------------------------------------------------
(* flush_flash and write_meta, one flash operation at a time. *)

Target == Ahead(write_slot, done)
DataStep(slot) == IF OpensSector(slot) THEN "erase" ELSE "program"
MetaStep == IF next_meta_slot = RECORDS_PER_SECTOR THEN "switch" ELSE "record"

\* (RecordFirst: a record that is due does not wait for the samples.)
RecordFirst == IF metadata_dirty THEN MetaStep ELSE DataStep(write_slot)
FirstStep == IF pending = <<>> THEN MetaStep ELSE DataStep(write_slot)

\* flush_flash up to its first flash operation.
BeginFlush(who) ==
    /\ pc = "idle" /\ ready /\ phase = "inactive"
    /\ pending # <<>> \/ metadata_dirty
    /\ pc' = FirstStep
    /\ caller' = who
    /\ UNCHANGED <<flashVars, ready, indexVars, metaVars, pending, runVars, clearVars, done>>

\* Back to the caller: a commit goes on unless the full ring could not be
\* flushed, a clear goes on once its record is written.
Return(ok) ==
    LET committing == caller = "run" \/ (caller = "full" /\ ok) IN
    /\ pc' = IF committing THEN "commit" ELSE "idle"
    /\ caller' = IF committing THEN caller ELSE "none"
    /\ done' = 0
    /\ phase' = IF caller = "clear" /\ ok THEN "erase" ELSE phase

EraseSector ==
    /\ pc = "erase"
    /\ \/ /\ data' = DataFilled(SectorOf(Target), "blank")
          /\ pc' = "program"
          /\ UNCHANGED <<phase, caller, done>>
       \/ /\ "erase" \in Errors
          /\ Return(FALSE)
          /\ UNCHANGED data
    /\ UNCHANGED <<journal, ready, indexVars, metaVars, pending, runVars,
                   preserved_meta_sector, next_sector>>

\* (PersistedTooFew: the samples flushed before are forgotten.)
PersistedTooFew(n) == MinOf(n, HISTORY_CAPACITY)
PersistedAfter(n) == MinOf(persisted + n, HISTORY_CAPACITY)

\* The last sample of the batch also moves the index and empties the ring.
WriteSample ==
    /\ pc = "program"
    /\ UNCHANGED <<journal, ready, generation, meta_sector, next_meta_slot, runVars,
                   preserved_meta_sector, next_sector>>
    /\ \/ /\ data' = [data EXCEPT ![Target] = ProgramSample(@, pending[done + 1])]
          /\ \/ /\ done + 1 < Len(pending)
                /\ done' = done + 1
                /\ pc' = DataStep(Ahead(Target, 1))
                /\ UNCHANGED <<indexVars, metadata_dirty, pending, caller, phase>>
             \/ /\ done + 1 = Len(pending)
                /\ write_slot' = Ahead(Target, 1)
                /\ persisted' = PersistedAfter(Len(pending))
                /\ metadata_dirty' = TRUE
                /\ pending' = <<>> /\ done' = 0
                /\ pc' = MetaStep
                /\ UNCHANGED <<caller, phase>>
       \/ /\ "program" \in Errors
          /\ Return(FALSE)
          /\ UNCHANGED <<data, indexVars, metadata_dirty, pending>>

\* How far the sample ring has run ahead of the newest record.  Failed checkpoints
\* are bounded: enough of them in a row would let the ring overtake the window of
\* the last record (after 2496 samples with the real sizes).
Lag == IF Entries = {} THEN 0 ELSE Back(write_slot, Record(Best).slot)
CheckpointMayFail(error) ==
    /\ error \in Errors
    /\ \/ caller \in {"clear", "init"}
       \/ Lag + PENDING_CAPACITY + SAMPLES_PER_SECTOR <= FLASH_CAPACITY - HISTORY_CAPACITY + 1

\* The journal sector is full: go on in the other one, erased first.
SwitchSector ==
    /\ pc = "switch"
    /\ \/ /\ journal' = JournalFilled(Other(meta_sector), Blank)
          /\ meta_sector' = Other(meta_sector) /\ next_meta_slot' = 0
          /\ pc' = "record"
          /\ UNCHANGED <<phase, caller, done>>
       \/ /\ CheckpointMayFail("erase")
          /\ Return(FALSE)
          /\ UNCHANGED <<journal, meta_sector, next_meta_slot>>
    /\ UNCHANGED <<data, ready, indexVars, generation, metadata_dirty, pending, runVars,
                   preserved_meta_sector, next_sector>>

NextGen == IF generation = GenMod - 1 THEN 0 ELSE generation + 1
Checkpointed == [state |-> "written", gen |-> NextGen, count |-> persisted,
                 slot |-> write_slot, run |-> run_count]

WriteRecord ==
    /\ pc = "record"
    /\ \/ /\ journal' = [journal EXCEPT ![meta_sector][next_meta_slot] =
                             ProgramRecord(@, Checkpointed)]
          /\ generation' = NextGen
          /\ next_meta_slot' = next_meta_slot + 1
          /\ metadata_dirty' = FALSE
          /\ Return(TRUE)
       \/ /\ CheckpointMayFail("record")
          /\ Return(FALSE)
          /\ UNCHANGED <<journal, generation, next_meta_slot, metadata_dirty>>
    /\ UNCHANGED <<data, ready, indexVars, meta_sector, pending, runVars,
                   preserved_meta_sector, next_sector>>

-----------------------------------------------------------------------------
(* sampling_tick and commit_sample. *)

\* A flush is due, by its own timer or by the retry of a record.
FlushTick == BeginFlush("tick")

\* The pending ring is full: flush it early, or drop the sample.
CommitToFullRing == Len(pending) = PENDING_CAPACITY /\ BeginFlush("full")

\* A new run begins: the anchored old one is flushed for its index.
CommitEndsRun ==
    /\ Len(pending) < PENDING_CAPACITY /\ run_count > 0
    /\ BeginFlush("run")

\* The sample goes into the ring.  A gap in the cadence or in the wall clock
\* starts a new run, and so does the first sample after a restart.
CommitSample(s) ==
    /\ \/ pc = "idle" /\ phase = "inactive" /\ Len(pending) < PENDING_CAPACITY
       \/ pc = "commit"
    /\ pending' = Append(pending, s)
    /\ count' = MinOf(count + 1, HISTORY_CAPACITY)
    /\ \E new_run \in BOOLEAN :
          /\ force_new_run \/ run_count = 0 \/ caller = "run" => new_run
          /\ run_count' = IF new_run THEN 1 ELSE MinOf(run_count + 1, HISTORY_CAPACITY)
          /\ metadata_dirty' \in IF new_run THEN {TRUE} ELSE {metadata_dirty, TRUE}
    /\ force_new_run' = FALSE
    /\ pc' = "idle" /\ caller' = "none"
    /\ UNCHANGED <<flashVars, ready, indexVars, generation, meta_sector, next_meta_slot,
                   clearVars, done>>

-----------------------------------------------------------------------------
(* request_clear and clear_tick. *)

\* The journal sector that is cleared first and kept: the one not in use.
SpareSector == Other(meta_sector)

RequestClear ==
    /\ pc = "idle"
    /\ write_slot' = 0 /\ persisted' = 0
    /\ pending' = <<>> /\ count' = 0 /\ run_count' = 0 /\ force_new_run' = FALSE
    /\ next_sector' = 0
    /\ \/ /\ ready
          /\ phase' = "prepare" /\ preserved_meta_sector' = SpareSector
       \/ /\ ~ready
          /\ phase' = "inactive" /\ preserved_meta_sector' = "primary"
    /\ UNCHANGED <<flashVars, ready, metaVars, callVars>>

\* A record of the empty history goes to a fresh sector before anything else is
\* erased.  A failed erase is tried again by the next loop().
ClearPrepare ==
    /\ pc = "idle" /\ ready /\ phase = "prepare"
    /\ journal' = JournalFilled(preserved_meta_sector, Blank)
    /\ meta_sector' = preserved_meta_sector /\ next_meta_slot' = 0
    /\ metadata_dirty' = TRUE
    /\ pc' = "record" /\ caller' = "clear"
    /\ UNCHANGED <<data, ready, indexVars, generation, pending, runVars, clearVars, done>>

\* Sectors 0 and FLASH_DATA_SECTORS + 1 are the journal's.
MetaOf(sector) == IF sector = 0 THEN "primary" ELSE "secondary"
IsMeta(sector) == sector \in {0, FLASH_DATA_SECTORS + 1}
NextToErase ==
    IF IsMeta(next_sector) /\ MetaOf(next_sector) = preserved_meta_sector
    THEN next_sector + 1 ELSE next_sector

ClearErase ==
    /\ pc = "idle" /\ ready /\ phase = "erase"
    /\ \/ /\ NextToErase > FLASH_DATA_SECTORS + 1
          /\ phase' = "inactive" /\ preserved_meta_sector' = "primary" /\ next_sector' = 0
          /\ UNCHANGED flashVars
       \/ /\ NextToErase <= FLASH_DATA_SECTORS + 1
          /\ IF IsMeta(NextToErase)
             THEN journal' = JournalFilled(MetaOf(NextToErase), Blank) /\ UNCHANGED data
             ELSE data' = DataFilled(NextToErase - 1, "blank") /\ UNCHANGED journal
          /\ next_sector' = NextToErase + 1
          /\ UNCHANGED <<phase, preserved_meta_sector>>
    /\ UNCHANGED <<ready, indexVars, metaVars, pending, runVars, callVars>>

-----------------------------------------------------------------------------
(* A restart, at any moment: the flash operation under way is undone, done or   *)
(* garbled.  RAM is as at power-on.                                             *)

Interrupted ==
    \/ UNCHANGED flashVars
    \/ pc = "erase" /\ data' = DataFilled(SectorOf(Target), "corrupt") /\ UNCHANGED journal
    \/ pc = "program" /\ data' = [data EXCEPT ![Target] = "corrupt"] /\ UNCHANGED journal
    \/ /\ pc = "switch" /\ UNCHANGED data
       /\ journal' = JournalFilled(Other(meta_sector), Torn)
    \/ /\ pc = "record" /\ UNCHANGED data
       /\ journal' = [journal EXCEPT ![meta_sector][next_meta_slot] = Torn]
    \/ /\ pc = "idle" /\ phase = "prepare" /\ UNCHANGED data
       /\ journal' = JournalFilled(preserved_meta_sector, Torn)
    \/ /\ pc = "idle" /\ phase = "erase" /\ NextToErase <= FLASH_DATA_SECTORS + 1
       /\ IF IsMeta(NextToErase)
          THEN journal' = JournalFilled(MetaOf(NextToErase), Torn) /\ UNCHANGED data
          ELSE data' = DataFilled(NextToErase - 1, "corrupt") /\ UNCHANGED journal

Restart ==
    /\ pc # "boot"
    /\ Interrupted
    /\ ready' = TRUE
    /\ write_slot' = 0 /\ persisted' = 0
    /\ generation' = 0 /\ meta_sector' = "primary" /\ next_meta_slot' = 0
    /\ metadata_dirty' = FALSE
    /\ pending' = <<>> /\ count' = 0 /\ run_count' = 0 /\ force_new_run' = FALSE
    /\ phase' = "inactive" /\ preserved_meta_sector' = "primary" /\ next_sector' = 0
    /\ pc' = "boot" /\ caller' = "none" /\ done' = 0

HistoryNext ==
    \/ BootRestores
    \/ BootFresh
    \/ FlushTick
    \/ EraseSector
    \/ WriteSample
    \/ SwitchSector
    \/ WriteRecord
    \/ CommitToFullRing
    \/ CommitEndsRun
    \/ \E s \in Samples : CommitSample(s)
    \/ RequestClear
    \/ ClearPrepare
    \/ ClearErase
    \/ Restart

HistorySpec == HistoryInit /\ [][HistoryNext]_histVars

-----------------------------------------------------------------------------
(* What the store promises. *)

\* logical_sample for the whole window.
VisiblePersisted == count - Len(pending)
Visible == [i \in 1 .. count |->
               IF i <= VisiblePersisted
               THEN data[Back(write_slot, VisiblePersisted - i + 1)]
               ELSE pending[i - VisiblePersisted]]

\* The cells that the next flush will program without erasing them first hold
\* something else than it will program.
Spoiled ==
    LET slot  == IF pc # "boot" THEN write_slot
                 ELSE IF Entries = {} THEN 0 ELSE Record(Best).slot
        first == slot % SAMPLES_PER_SECTOR
    IN  /\ first # 0
        /\ \E k \in 0 .. SAMPLES_PER_SECTOR - 1 - first :
              data[slot + k] \notin {"blank"} \cup IF k < Len(pending) THEN {pending[k + 1]} ELSE {}

\* The ring, the journal and the restart implement HistoryLog.
Abstract == INSTANCE HistoryLog WITH
    Capacity <- HISTORY_CAPACITY,
    log      <- IF pc = "boot" THEN Restored ELSE Visible,
    durable  <- Restored,
    ram      <- Len(pending),
    spoiled  <- Spoiled

ImplementsLog == Abstract!LogSpec

\* The two counts are advanced at different times, count when a sample is
\* committed and persisted when it is flushed; logical_sample subtracts one
\* from the other.  They agree through failed flushes, drops, clears and
\* restarts, and the newest run lies within the window.
CountsAgree ==
    pc # "boot" =>
        /\ count = MinOf(persisted + Len(pending), HISTORY_CAPACITY)
        /\ run_count <= count

\* metadata_dirty and the generation stay in RAM, the records in flash.  When
\* nothing is marked dirty, the next boot finds a record of exactly the ring that
\* is in use: no write_meta that reported success is refused, shadowed by another
\* record or lost in cells that were not blank.
CleanIsDurable ==
    pc # "boot" /\ ready /\ phase = "inactive" /\ ~metadata_dirty =>
        /\ Entries # {}
        /\ Record(Best).slot = write_slot /\ Record(Best).count = persisted
        /\ Record(Best).gen = generation

=============================================================================
