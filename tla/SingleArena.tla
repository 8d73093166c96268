----------------------------- MODULE SingleArena -----------------------------
(***************************************************************************)
(* lockfree_single_arena_resource: blocks grow up from the bottom of one   *)
(* region, their metadata records grow down from its top, and neither side *)
(* takes a lock.  Freed blocks wait on a pending list, and maintenance     *)
(* windows move them to free bins, roll the frontier back over the last    *)
(* ones and give back idle metadata.                                       *)
(*                                                                         *)
(* The lists are intrusive tagged stacks, used through what TaggedStack is *)
(* shown to implement (push, pop and steal_all happen at one moment each). *)
(* A step is one access to the words other threads read and write, with    *)
(* the work on what its thread owns that goes with it.                     *)
(***************************************************************************)
EXTENDS Integers, Sequences, SequencesExt, FiniteSets, FiniteSetsExt, Functions

CONSTANTS
    Alignment,              \* DEFAULT_ALIGNMENT, 64: also the header's size
    MaxWastePercent,        \* MAX_WASTE_PERCENT
    MaxBinBytes,            \* MAX_BIN_BYTES
    SmallBinLookupUnits,    \* SMALL_BIN_LOOKUP_UNITS, 1024
    Threads,
    NumShards,              \* cpu_shards_
    NumAddressBins,         \* NUM_ADDRESS_BINS, 8
    AddressBinSize,         \* address_bin_size_
    RecordsPerManager,      \* METADATA_RECORDS_PER_BLOCK, 4096
    NumManagers,            \* metadata_block_manager_capacity_
    BatchSize,              \* MAINTENANCE_WINDOW_THRESHOLD and _BATCH_SIZE
    VersionLimit,           \* 2^VERSION_BITS
    RequestSizes,           \* bound: the sizes callers ask for, in bytes
    Scenarios               \* bound: [start, calls], how big the caller's region
                            \* is and how many calls each thread makes

-----------------------------------------------------------------------------
\* The size classes: how many bins there are, how big each is, and which one serves a
\* request.  The code computes them with constexpr loops; here they are functions of the
\* constants.

BinShape ==
    /\ Alignment \in Nat \ {0}
    /\ MaxWastePercent \in 1 .. 25
    /\ MaxBinBytes \in Nat /\ MaxBinBytes > Alignment
    /\ SmallBinLookupUnits \in Nat

CeilDiv(a, b) == (a + b - 1) \div b
AlignUp(size) == CeilDiv(size, Alignment) * Alignment
LargestBin == AlignUp(MaxBinBytes)

NextBinSize(current) ==
    LET grown     == AlignUp(CeilDiv(current * (100 + MaxWastePercent), 100))
        candidate == IF grown <= current THEN current + Alignment ELSE grown
    IN  IF candidate > LargestBin THEN LargestBin ELSE candidate

\* The bins from the smallest to the largest, and the sentinel no block is in.
BinSizes ==
    LET build[sizes \in Seq(Nat)] ==
            IF Last(sizes) = LargestBin THEN sizes
            ELSE build[Append(sizes, NextBinSize(Last(sizes)))]
    IN  Append(build[<<Alignment>>], LargestBin + 1)

NumFreeBlockBins == Len(BinSizes)
BinSize(bin) == BinSizes[bin + 1]

\* The binary search for the first bin of at least that many bytes.
SearchFreeBlockBin(bytes, from) ==
    LET search[lo, hi \in 0 .. NumFreeBlockBins] ==
            LET mid == lo + (hi - lo) \div 2
            IN  IF lo >= hi THEN lo
                ELSE IF BinSize(mid) < bytes THEN search[mid + 1, hi]
                                             ELSE search[lo, mid]
    IN  search[from, NumFreeBlockBins - 1]

SmallBinLookup(units) == SearchFreeBlockBin(units * Alignment, 0)

FreeBlockBinIndex(bytes) ==
    LET units == CeilDiv(bytes, Alignment)
    IN  IF bytes > LargestBin THEN NumFreeBlockBins - 1
        ELSE IF units <= SmallBinLookupUnits THEN SmallBinLookup(units)
        ELSE SearchFreeBlockBin(bytes, SmallBinLookup(SmallBinLookupUnits))

\* The block a request needs, its header included; 0 when it is refused.
TotalSize(bytes, alignment) ==
    LET total == AlignUp(bytes + Alignment)
    IN  IF \/ bytes = 0 \/ bytes > LargestBin - Alignment
           \/ alignment \notin {2^k : k \in 0 .. 30} \/ alignment > Alignment
           \/ total > LargestBin
        THEN 0 ELSE total

-----------------------------------------------------------------------------
\* The calls threads may still make, one by one.
Upcoming(calls) == UNION {{t} \X (1 .. calls[t]) : t \in Threads}

ArenaAssumption ==
    /\ BinShape
    /\ NumShards \in Nat \ {0} /\ NumAddressBins \in Nat \ {0}
    /\ AddressBinSize \in Nat \ {0}
    /\ RecordsPerManager \in Nat \ {0} /\ NumManagers \in Nat \ {0}
    /\ BatchSize \in Nat \ {0} /\ VersionLimit \in Nat /\ IsFiniteSet(Threads)
    /\ Scenarios \subseteq [start : Nat, calls : [Threads -> Nat]]
    /\ \A c \in Scenarios :
          /\ c.start % Alignment = 0
          /\ VersionLimit > Cardinality(Upcoming(c.calls))
    /\ \E c \in Scenarios : \A d \in Scenarios : d.start <= c.start

None == -1
Shards == 0 .. NumShards - 1
Managers == 0 .. NumManagers - 1
Records == 0 .. NumManagers * RecordsPerManager - 1
LastStart == Max({c.start : c \in Scenarios})
Blocks == {b \in 0 .. LastStart : b % Alignment = 0}
Bins == 0 .. NumFreeBlockBins - 1

\* What the size classes must be for a block to have a bin.
SizeClasses ==
    /\ 0 \in Bins
    /\ \A b \in Bins : BinSize(b) \in Nat \ {0} /\ FreeBlockBinIndex(AlignUp(BinSize(b))) \in Bins
    /\ \A bytes \in RequestSizes :
          TotalSize(bytes, Alignment) # 0 => FreeBlockBinIndex(TotalSize(bytes, Alignment)) \in Bins

Slots == 0 .. NumAddressBins * NumShards - 1

\* The stacks of one bin in the order a search that starts at a shard looks.
SlotAt(k, shard) == (k \div NumShards) * NumShards + ((shard + k) % NumShards)

AddressBinFor(b) == Min({b \div AddressBinSize, NumAddressBins - 1})
SlotOf(b, shard) == AddressBinFor(b) * NumShards + shard

ManagerFor(r) == r \div RecordsPerManager

VARIABLES
    frontier,               \* next_empty_memory_block_: [at, pred]
    count,                  \* current_metadata_record_count_
    managers,               \* [free, active, trimming]
    header,                 \* block_header: [index, size, previous]
    record,                 \* block_metadata: [state, block, version, size, shard]
    pending,                \* pending_shards_: [list, count, open]
    bins,                   \* free_block_bins_: a stack for each bin and slot
    reclaiming,             \* frontier_reclaim_in_progress_
    call,                   \* what each thread is doing
    held,                   \* history: the blocks callers hold
    late,                   \* history: threads whose block was freed meanwhile
    arena                   \* [start, calls]: metadata_start_ as an offset from
                            \* allocation_base_; the calls threads may still make

RecordAt(r) == arena.start - r * Alignment

shared == <<frontier, count, managers, header, record, pending, bins, reclaiming>>
vars == <<frontier, count, managers, header, record, pending, bins, reclaiming,
          call, held, late, arena>>

States == {"invalid", "inUse", "pending", "available", "metadataAvailable",
           "locked", "reclaimInProgress", "reclaimed"}

Idle == [pc |-> "idle",
         stage |-> "first",     \* how far do_allocate has gone for a free block
         bin |-> 0, shard |-> 0, slot |-> 0,
         block |-> None,        \* the block at hand
         md |-> None,           \* the record at hand, which this thread owns
         reserved |-> None,     \* the record kept for a block at the frontier
         after |-> "idle",      \* where recycle_metadata or a release returns to
         back |-> "idle",       \* where the maintenance window returns to
         force |-> FALSE, window |-> 0, flush |-> FALSE,
         list |-> <<>>, batch |-> <<>>, stolen |-> 0,
         word |-> [at |-> 0, pred |-> None],    \* the frontier word it read
         seen |-> 0,            \* the count of records it read
         manager |-> 0,
         walk |-> None,         \* the record the frontier walk looks at
         expected |-> <<>>]     \* the state word a CAS expects

\* The three fields one compare-and-swap covers.
Word(r) == <<record[r].state, record[r].block, record[r].version>>
WithState(r, state) == [record EXCEPT ![r].state = state]

\* frontier_overlaps_metadata
OverlapsMetadata(next) == next >= RecordAt(count + 1)

(***************************************************************************)
(* The memory of the arena is zero at first: neither the constructor nor   *)
(* the growth of the records clears it, and a record counts as invalid     *)
(* because its word is zero.                                               *)
(***************************************************************************)
Init ==
    /\ frontier = [at |-> 0, pred |-> None]
    /\ count = 0
    /\ managers = [m \in Managers |-> [free |-> <<>>, active |-> 0, trimming |-> FALSE]]
    /\ header = [b \in Blocks |-> [index |-> 0, size |-> 0, previous |-> None]]
    /\ record = [r \in Records |-> [state |-> "invalid", block |-> None, version |-> 0,
                                    size |-> 0, shard |-> 0]]
    /\ pending = [s \in Shards |-> [list |-> <<>>, count |-> 0, open |-> FALSE]]
    /\ bins = [b \in Bins |-> [k \in Slots |-> <<>>]]
    /\ reclaiming = FALSE
    /\ call = [t \in Threads |-> Idle]
    /\ held = {}
    /\ late = {}
    /\ arena \in Scenarios

(***************************************************************************)
(* maybe_open_maintenance_window: its look at how many blocks are waiting. *)
(***************************************************************************)
Returned(c) == IF c.back = "idle" THEN Idle
               ELSE [c EXCEPT !.pc = "search", !.back = "idle", !.slot = 0, !.window = 0,
                              !.force = FALSE, !.flush = FALSE]

Opening(c) ==
    LET waiting == pending[c.window].count
    IN  IF waiting > 0 /\ (c.force \/ waiting >= BatchSize)
        THEN [c EXCEPT !.pc = "openWindow"] ELSE Returned(c)

(***************************************************************************)
(* do_allocate.  The shard is the one of the CPU the caller runs on.       *)
(***************************************************************************)
Allocate(t, bytes, shard) ==
    /\ call[t].pc = "idle"
    /\ TotalSize(bytes, Alignment) # 0
    /\ call' = [call EXCEPT ![t] =
          Opening([Idle EXCEPT !.back = "search", !.shard = shard, !.window = shard,
                               !.bin = FreeBlockBinIndex(TotalSize(bytes, Alignment))])]
    /\ UNCHANGED <<shared, held, late>>

\* The next stack of the bin, or none is left: try the frontier, then a
\* forced window, then the windows of all shards.
NextSlot(c) ==
    IF c.slot + 1 \in Slots THEN [c EXCEPT !.pc = "search", !.slot = @ + 1]
    ELSE CASE c.stage = "first" ->
                [c EXCEPT !.pc = "reserve", !.slot = 0, !.manager = 0]
           [] c.stage = "forced" ->
                [c EXCEPT !.pc = "steal", !.slot = 0, !.stage = "flushed",
                          !.back = "search", !.flush = TRUE, !.window = 0]
           [] c.stage = "flushed" ->
                [c EXCEPT !.pc = "recycle", !.slot = 0, !.after = "idle"]

\* search_for_deallocated_block: one stack of the bin.
SearchPop(t) ==
    LET c == call[t]
        k == SlotAt(c.slot, c.shard)
        stack == bins[c.bin][k]
    IN  /\ c.pc = "search"
        /\ IF stack = <<>>
             THEN /\ call' = [call EXCEPT ![t] = NextSlot(c)]
                  /\ UNCHANGED bins
             ELSE /\ bins' = [bins EXCEPT ![c.bin][k] = Tail(stack)]
                  /\ call' = [call EXCEPT ![t].pc = "claim", ![t].md = Head(stack)]
        /\ UNCHANGED <<frontier, count, managers, header, record, pending, reclaiming,
                       held, late, arena>>

\* A bug: a block the frontier walk is busy with is not pushed back.
ClaimDroppingBusy(t) ==
    LET c == call[t]
        k == SlotAt(c.slot, c.shard)
        state == record[c.md].state
    IN  /\ c.pc = "claim"
        /\ \/ /\ state = "available"
              /\ record' = WithState(c.md, "locked")
              /\ call' = [call EXCEPT ![t].pc = IF c.stage = "first" THEN "finish" ELSE "recycle",
                                      ![t].after = IF c.stage = "first" THEN "idle" ELSE "finish",
                                      ![t].block = record[c.md].block, ![t].slot = 0]
              /\ UNCHANGED bins
           \/ /\ state = "reclaimInProgress"
              /\ UNCHANGED bins
              /\ call' = [call EXCEPT ![t] = NextSlot([c EXCEPT !.md = None])]
              /\ UNCHANGED record
           \/ /\ state = "reclaimed"        \* the frontier has gone back over it
              /\ call' = [call EXCEPT ![t].pc = "recycle", ![t].after = "search",
                                      ![t].slot = 0]
              /\ UNCHANGED <<record, bins>>
           \/ /\ state \notin {"available", "reclaimInProgress", "reclaimed"}
              /\ call' = [call EXCEPT ![t] = NextSlot([c EXCEPT !.md = None])]
              /\ UNCHANGED <<record, bins>>
        /\ UNCHANGED <<frontier, count, managers, header, pending, reclaiming, held, late, arena>>

\* unguarded_try_claim_popped_block
Claim(t) ==
    LET c == call[t]
        k == SlotAt(c.slot, c.shard)
        state == record[c.md].state
    IN  /\ c.pc = "claim"
        /\ \/ /\ state = "available"
              /\ record' = WithState(c.md, "locked")
              /\ call' = [call EXCEPT ![t].pc = IF c.stage = "first" THEN "finish" ELSE "recycle",
                                      ![t].after = IF c.stage = "first" THEN "idle" ELSE "finish",
                                      ![t].block = record[c.md].block, ![t].slot = 0]
              /\ UNCHANGED bins
           \/ /\ state = "reclaimInProgress"
              /\ bins' = [bins EXCEPT ![c.bin][k] = <<c.md>> \o @]
              /\ call' = [call EXCEPT ![t] = NextSlot([c EXCEPT !.md = None])]
              /\ UNCHANGED record
           \/ /\ state = "reclaimed"        \* the frontier has gone back over it
              /\ call' = [call EXCEPT ![t].pc = "recycle", ![t].after = "search",
                                      ![t].slot = 0]
              /\ UNCHANGED <<record, bins>>
           \/ /\ state \notin {"available", "reclaimInProgress", "reclaimed"}
              /\ call' = [call EXCEPT ![t] = NextSlot([c EXCEPT !.md = None])]
              /\ UNCHANGED <<record, bins>>
        /\ UNCHANGED <<frontier, count, managers, header, pending, reclaiming, held, late, arena>>

\* The block is this thread's: its header and its record are filled in and
\* the pointer goes to the caller.
Finish(t) ==
    LET c == call[t]
        r == IF c.md = None THEN c.reserved ELSE c.md
    IN  /\ c.pc = "finish"
        /\ header' = [header EXCEPT ![c.block].index = r]
        /\ record' = [record EXCEPT ![r] = [state |-> "inUse", block |-> c.block,
                                            version |-> @.version,
                                            size |-> header[c.block].size,
                                            shard |-> c.shard]]
        /\ held' = held \cup {c.block}
        /\ call' = [call EXCEPT ![t] = Idle]
        /\ UNCHANGED <<frontier, count, managers, pending, bins, reclaiming, late, arena>>

(***************************************************************************)
(* recycle_metadata: the record at hand (the reserved one once a block has *)
(* been found elsewhere or nowhere) goes back to its manager's stack, and  *)
(* only then gives up its place in the manager's count.                    *)
(***************************************************************************)
Recycled(c) == IF c.after \in {"finish", "idle"} THEN c.reserved ELSE c.md

Recycle(t) ==
    LET c == call[t]
        r == Recycled(c)
    IN  /\ c.pc = "recycle"
        /\ record' = [record EXCEPT ![r].state = "metadataAvailable", ![r].block = None]
        /\ managers' = [managers EXCEPT ![ManagerFor(r)].free = <<r>> \o @]
        /\ call' = [call EXCEPT ![t].pc = "release", ![t].manager = ManagerFor(r),
                                ![t].md = IF r = c.md THEN None ELSE @,
                                ![t].reserved = IF r = @ THEN None ELSE @]
        /\ UNCHANGED <<frontier, count, header, pending, bins, reclaiming, held, late, arena>>

\* release_active_slot, wherever it is called from.
Release(t) ==
    LET c == call[t]
    IN  /\ c.pc = "release"
        /\ managers' = [managers EXCEPT ![c.manager].active = @ - 1]
        /\ call' = [call EXCEPT ![t] =
              IF c.after = "idle" THEN Idle
              ELSE IF c.after = "reserve" THEN [c EXCEPT !.pc = "reserve", !.manager = @ + 1]
              ELSE [c EXCEPT !.pc = c.after, !.manager = 0]]
        /\ UNCHANGED <<frontier, count, header, record, pending, bins, reclaiming, held, late, arena>>

(***************************************************************************)
(* get_next_metadata_record_index: a free record of some manager that has  *)
(* records, else one more record below the last.                           *)
(***************************************************************************)
Reserve(t) ==
    LET c == IF call[t].manager = 0 THEN [call[t] EXCEPT !.seen = count] ELSE call[t]
        usable == c.seen > 0 /\ c.manager <= ManagerFor(c.seen - 1)
    IN  /\ c.pc = "reserve"
        /\ IF ~usable
             THEN /\ call' = [call EXCEPT ![t] = [c EXCEPT !.pc = "growReserve"]]
                  /\ UNCHANGED managers
             ELSE IF managers[c.manager].trimming
             THEN /\ call' = [call EXCEPT ![t] = [c EXCEPT !.manager = @ + 1]]
                  /\ UNCHANGED managers
             ELSE /\ managers' = [managers EXCEPT ![c.manager].active = @ + 1]
                  /\ call' = [call EXCEPT ![t] = [c EXCEPT !.pc = "popRecord"]]
        /\ UNCHANGED <<frontier, count, header, record, pending, bins, reclaiming, held, late, arena>>

PopRecord(t) ==
    LET c == call[t]
        free == managers[c.manager].free
    IN  /\ c.pc = "popRecord"
        /\ IF free = <<>>
             THEN /\ call' = [call EXCEPT ![t].pc = "release", ![t].after = "reserve"]
                  /\ UNCHANGED managers
             ELSE /\ managers' = [managers EXCEPT ![c.manager].free = Tail(free)]
                  /\ call' = [call EXCEPT ![t].pc = "front", ![t].reserved = Head(free),
                                          ![t].manager = 0, ![t].seen = 0]
        /\ UNCHANGED <<frontier, count, header, record, pending, bins, reclaiming, held, late, arena>>

\* No manager is left, or this one is being trimmed, or the slot is ours.
GrowReserve(t) ==
    LET c == call[t]
        m == ManagerFor(c.seen)
    IN  /\ c.pc = "growReserve"
        /\ IF m \notin Managers
             THEN /\ call' = [call EXCEPT ![t] = Idle]
                  /\ UNCHANGED managers
             ELSE IF managers[m].trimming
             THEN /\ call' = [call EXCEPT ![t].seen = count]
                  /\ UNCHANGED managers
             ELSE /\ managers' = [managers EXCEPT ![m].active = @ + 1]
                  /\ call' = [call EXCEPT ![t].pc = "growCheck", ![t].manager = m]
        /\ UNCHANGED <<frontier, count, header, record, pending, bins, reclaiming, held, late, arena>>

\* grow_metadata_region: the check, the growth, the check again, the undoing.
NoRoomFor(r) == RecordAt(r + 1) <= frontier.at

GrowCheck(t) ==
    /\ call[t].pc = "growCheck"
    /\ call' = [call EXCEPT ![t].pc = IF NoRoomFor(call[t].seen) THEN "release" ELSE "grow",
                            ![t].after = "idle"]
    /\ UNCHANGED <<shared, held, late, arena>>

Grow(t) ==
    LET c == call[t]
    IN  /\ c.pc = "grow"
        /\ IF count = c.seen
             THEN /\ count' = count + 1
                  /\ call' = [call EXCEPT ![t].pc = "growRecheck"]
             ELSE /\ call' = [call EXCEPT ![t].pc = "release", ![t].after = "growReserve",
                                          ![t].seen = count]
                  /\ UNCHANGED count
        /\ UNCHANGED <<frontier, managers, header, record, pending, bins, reclaiming, held, late, arena>>

GrowRecheck(t) ==
    LET c == call[t]
    IN  /\ c.pc = "growRecheck"
        /\ call' = [call EXCEPT ![t] =
              IF NoRoomFor(c.seen) THEN [c EXCEPT !.pc = "growUndo"]
              ELSE [c EXCEPT !.pc = "front", !.reserved = c.seen, !.manager = 0, !.seen = 0]]
        /\ UNCHANGED <<shared, held, late, arena>>

GrowUndo(t) ==
    LET c == call[t]
    IN  /\ c.pc = "growUndo"
        /\ IF count = c.seen + 1
             THEN /\ count' = c.seen
                  /\ call' = [call EXCEPT ![t].pc = "release", ![t].after = "idle"]
             ELSE /\ call' = [call EXCEPT ![t].pc = "growRecheck"]
                  /\ UNCHANGED count
        /\ UNCHANGED <<frontier, managers, header, record, pending, bins, reclaiming, held, late, arena>>

(***************************************************************************)
(* get_next_empty_memory_block: the same dance on the frontier's side.     *)
(***************************************************************************)
NextFrontier(c) == AlignUp(c.word.at + BinSize(c.bin))

NoFrontierBlock(c) ==
    Opening([c EXCEPT !.back = "search", !.stage = "forced", !.force = TRUE,
                      !.window = c.shard, !.word = Idle.word])

FrontLook(t) ==
    LET c == [call[t] EXCEPT !.word = frontier]
    IN  /\ c.pc = "front"
        /\ call' = [call EXCEPT ![t] = IF OverlapsMetadata(NextFrontier(c)) THEN NoFrontierBlock(c)
                                       ELSE [c EXCEPT !.pc = "frontAdvance"]]
        /\ UNCHANGED <<shared, held, late, arena>>

\* The new block's header still holds what its memory held before.
FrontAdvance(t) ==
    LET c == call[t]
    IN  /\ c.pc = "frontAdvance"
        /\ IF frontier = c.word
             THEN /\ frontier' = [at |-> NextFrontier(c), pred |-> c.word.at]
                  /\ call' = [call EXCEPT ![t].pc = "frontRecheck", ![t].block = c.word.at]
             ELSE /\ call' = [call EXCEPT ![t].pc = "front"]
                  /\ UNCHANGED frontier
        /\ UNCHANGED <<count, managers, header, record, pending, bins, reclaiming, held, late, arena>>

Kept(t) ==
    LET c == call[t]
    IN  /\ header' = [header EXCEPT ![c.block].size = NextFrontier(c) - c.block,
                                    ![c.block].previous = c.word.pred]
        /\ call' = [call EXCEPT ![t].pc = "finish", ![t].word = Idle.word]

FrontRecheck(t) ==
    LET c == call[t]
    IN  /\ c.pc = "frontRecheck"
        /\ IF OverlapsMetadata(NextFrontier(c))
             THEN /\ call' = [call EXCEPT ![t].pc = "frontUndo"]
                  /\ UNCHANGED header
             ELSE Kept(t)
        /\ UNCHANGED <<frontier, count, managers, record, pending, bins, reclaiming, held, late, arena>>

FrontUndo(t) ==
    LET c == call[t]
    IN  /\ c.pc = "frontUndo"
        /\ IF frontier = [at |-> NextFrontier(c), pred |-> c.word.at]
             THEN /\ frontier' = c.word
                  /\ call' = [call EXCEPT ![t] = [NoFrontierBlock(c) EXCEPT !.block = None]]
             ELSE /\ call' = [call EXCEPT ![t].pc = "frontRecheck"]
                  /\ UNCHANGED frontier
        /\ UNCHANGED <<count, managers, header, record, pending, bins, reclaiming, held, late, arena>>

(***************************************************************************)
(* do_try_deallocate.  A block may be freed twice: the second call starts  *)
(* before the first has won, and loses.  One that starts later, when the   *)
(* header may be another block's, is not made.  The header and the record  *)
(* are read in one step: while the block is held neither changes.          *)
(***************************************************************************)
Deallocate(t, b) ==
    LET r == header[b].index
    IN  /\ call[t].pc = "idle" /\ b \in held
        /\ r < count /\ record[r].state = "inUse" /\ record[r].block = b
        /\ call' = [call EXCEPT ![t] =
                      [Idle EXCEPT !.pc = "lock", !.block = b, !.walk = r, !.expected = Word(r)]]
        /\ UNCHANGED <<shared, held, late>>

\* A bug: a deallocation that leaves the version as it is.
LockSameVersion(t) ==
    LET c == call[t]
        others == {u \in Threads \ {t} : call[u].pc = "lock" /\ call[u].block = c.block}
    IN  /\ c.pc = "lock"
        /\ IF Word(c.walk) = c.expected
             THEN /\ record' = [record EXCEPT ![c.walk].state = "pending",
                                              ![c.walk].version = @]
                  /\ held' = held \ {c.block}
                  /\ late' = late \cup others
                  /\ call' = [call EXCEPT ![t] =
                        [c EXCEPT !.pc = "countPending", !.md = c.walk,
                                  !.block = None, !.walk = None, !.expected = <<>>]]
             ELSE /\ call' = [call EXCEPT ![t] = Idle]
                  /\ late' = late \ {t}
                  /\ UNCHANGED <<record, held>>
        /\ UNCHANGED <<frontier, count, managers, header, pending, bins, reclaiming, arena>>

\* Winning the block, and marking it as waiting for a window: LOCKED and
\* DEALLOCATED_PENDING are one state here.  What is written in between only the
\* winner can write, and others treat the two alike, as not in use.
Lock(t) ==
    LET c == call[t]
        others == {u \in Threads \ {t} : call[u].pc = "lock" /\ call[u].block = c.block}
    IN  /\ c.pc = "lock"
        /\ IF Word(c.walk) = c.expected
             THEN /\ record' = [record EXCEPT ![c.walk].state = "pending",
                                              ![c.walk].version = (@ + 1) % VersionLimit]
                  /\ held' = held \ {c.block}
                  /\ late' = late \cup others
                  /\ call' = [call EXCEPT ![t] =
                        [c EXCEPT !.pc = "countPending", !.md = c.walk,
                                  !.block = None, !.walk = None, !.expected = <<>>]]
             ELSE /\ call' = [call EXCEPT ![t] = Idle]
                  /\ late' = late \ {t}
                  /\ UNCHANGED <<record, held>>
        /\ UNCHANGED <<frontier, count, managers, header, pending, bins, reclaiming, arena>>

CountPending(t) ==
    LET s == record[call[t].md].shard % NumShards
    IN  /\ call[t].pc = "countPending"
        /\ pending' = [pending EXCEPT ![s].count = @ + 1]
        /\ call' = [call EXCEPT ![t].pc = "pushPending"]
        /\ UNCHANGED <<frontier, count, managers, header, record, bins, reclaiming, held, late, arena>>

PushPending(t) ==
    LET r == call[t].md
        s == record[r].shard % NumShards
    IN  /\ call[t].pc = "pushPending"
        /\ pending' = [pending EXCEPT ![s].list = <<r>> \o @]
        /\ call' = [call EXCEPT ![t] = Opening([@ EXCEPT !.window = s, !.md = None])]
        /\ UNCHANGED <<frontier, count, managers, header, record, bins, reclaiming, held, late, arena>>

(***************************************************************************)
(* The winner runs run_maintenance_window.  A flush runs the window of     *)
(* every shard without asking whether one is open.                         *)
(***************************************************************************)
OpenWindow(t) ==
    LET c == call[t]
    IN  /\ c.pc = "openWindow"
        /\ pending' = [pending EXCEPT ![c.window].open = TRUE]
        /\ call' = [call EXCEPT ![t] = IF pending[c.window].open THEN Returned(c)
                                       ELSE [c EXCEPT !.pc = "steal"]]
        /\ UNCHANGED <<frontier, count, managers, header, record, bins, reclaiming, held, late, arena>>

\* The first batch of what is left of a stolen list.
NextBatch(c, list) ==
    LET n == Min({BatchSize, Len(list)})
    IN  [c EXCEPT !.pc = "reclaimBatch", !.batch = SubSeq(list, 1, n),
                  !.list = SubSeq(list, n + 1, Len(list))]

\* What is left of a batch goes to the bins; then comes the next batch.
Publishing(c) ==
    IF c.batch # <<>> THEN [c EXCEPT !.pc = "publish"]
    ELSE IF c.list # <<>> THEN NextBatch(c, c.list)
    ELSE [c EXCEPT !.pc = "reducePending"]

Steal(t) ==
    LET c == call[t]
        list == pending[c.window].list
    IN  /\ c.pc = "steal"
        /\ pending' = [pending EXCEPT ![c.window].list = <<>>]
        /\ call' = [call EXCEPT ![t] =
              IF list = <<>> THEN [c EXCEPT !.pc = "reclaim"]
              ELSE [NextBatch(c, list) EXCEPT !.stolen = Len(list)]]
        /\ UNCHANGED <<frontier, count, managers, header, record, bins, reclaiming, held, late, arena>>

\* reclaim_pending_frontier_batch: busy means the blocks go to the bins.
ReclaimBatch(t) ==
    /\ call[t].pc = "reclaimBatch"
    /\ reclaiming' = TRUE
    /\ call' = [call EXCEPT ![t].pc = IF reclaiming THEN "publish" ELSE "batchScan"]
    /\ UNCHANGED <<frontier, count, managers, header, record, pending, bins, held, late, arena>>

EndsAt(r, at) == record[r].block + record[r].size = at

BatchScan(t) ==
    LET c == call[t]
        last == {i \in DOMAIN c.batch : /\ record[c.batch[i]].state = "pending"
                                        /\ EndsAt(c.batch[i], frontier.at)}
    IN  /\ c.pc = "batchScan"
        /\ IF last = {}
             THEN /\ reclaiming' = FALSE
                  /\ call' = [call EXCEPT ![t] = Publishing(c)]
                  /\ UNCHANGED record
             ELSE \E i \in last :
                     /\ \A j \in last : i <= j
                     /\ record' = WithState(c.batch[i], "reclaimInProgress")
                     /\ call' = [call EXCEPT ![t].pc = "batchRoll", ![t].md = c.batch[i],
                                             ![t].word = frontier]
                     /\ UNCHANGED reclaiming
        /\ UNCHANGED <<frontier, count, managers, header, pending, bins, held, late, arena>>

\* A bug: the frontier goes back and its predecessor stays.
RolledBackAlone(b) == [at |-> b, pred |-> frontier.pred]

RolledBack(b) == [at |-> b, pred |-> header[b].previous]

BatchRoll(t) ==
    LET c == call[t]
    IN  /\ c.pc = "batchRoll"
        /\ IF frontier = c.word
             THEN \E i \in DOMAIN c.batch :
                     /\ c.batch[i] = c.md
                     /\ frontier' = RolledBack(record[c.md].block)
                     /\ call' = [call EXCEPT ![t].pc = "recycle", ![t].after = "batchScan",
                                             ![t].word = Idle.word,
                                             ![t].batch = RemoveAt(@, i)]
                     /\ UNCHANGED record
             ELSE /\ record' = WithState(c.md, "pending")
                  /\ call' = [call EXCEPT ![t].pc = "batchScan", ![t].md = None,
                                          ![t].word = Idle.word]
                  /\ UNCHANGED frontier
        /\ UNCHANGED <<count, managers, header, pending, bins, reclaiming, held, late, arena>>

\* process_pending_batch: what was not reclaimed becomes available, then
\* goes to the bin of its size, its shard and its address.
Publish(t) ==
    LET c == call[t]
    IN  /\ c.pc = "publish"
        /\ record' = WithState(Head(c.batch), "available")
        /\ call' = [call EXCEPT ![t].pc = "pushFree"]
        /\ UNCHANGED <<frontier, count, managers, header, pending, bins, reclaiming, held, late, arena>>

PushFree(t) ==
    LET c == call[t]
        r == Head(c.batch)
        bin == FreeBlockBinIndex(record[r].size)
        slot == SlotOf(record[r].block, record[r].shard % NumShards)
    IN  /\ c.pc = "pushFree"
        /\ bins' = [bins EXCEPT ![bin][slot] = <<r>> \o @]
        /\ call' = [call EXCEPT ![t] = Publishing([c EXCEPT !.batch = Tail(c.batch)])]
        /\ UNCHANGED <<frontier, count, managers, header, record, pending, reclaiming, held, late, arena>>

\* reduce_pending_deallocation_count, which asserts what it can subtract.
ReducePending(t) ==
    LET c == call[t]
    IN  /\ c.pc = "reducePending"
        /\ pending' = [pending EXCEPT ![c.window].count = IF @ > c.stolen THEN @ - c.stolen ELSE 0]
        /\ call' = [call EXCEPT ![t].pc = "steal", ![t].stolen = 0]
        /\ UNCHANGED <<frontier, count, managers, header, record, bins, reclaiming, held, late, arena>>

\* The end of run_maintenance_window, and trim_metadata_records' look at the
\* last manager that has records.
WindowEnds(c) ==
    IF ~c.flush THEN [c EXCEPT !.pc = "close", !.seen = 0]
    ELSE IF c.window < NumShards - 1 THEN [c EXCEPT !.pc = "steal", !.window = @ + 1, !.seen = 0]
    ELSE Returned([c EXCEPT !.seen = 0])

Trimming(c) ==
    IF count = 0 \/ ManagerFor(count - 1) \notin Managers THEN WindowEnds(c)
    ELSE [c EXCEPT !.pc = "trimClaim", !.seen = count]

(***************************************************************************)
(* try_reclaim_frontier_blocks: from the frontier downwards, as long as    *)
(* the block that ends there is available.  Its record stays in its bin,   *)
(* and the search that pops it recycles it.                                *)
(***************************************************************************)
Reclaim(t) ==
    /\ call[t].pc = "reclaim"
    /\ reclaiming' = TRUE
    /\ call' = [call EXCEPT ![t] = IF reclaiming THEN Trimming(@) ELSE [@ EXCEPT !.pc = "walk"]]
    /\ UNCHANGED <<frontier, count, managers, header, record, pending, bins, held, late, arena>>

Walk(t) ==
    /\ call[t].pc = "walk"
    /\ call' = [call EXCEPT ![t].pc = IF frontier.pred = None THEN "walkEnd" ELSE "walkLook",
                            ![t].word = frontier]
    /\ UNCHANGED <<shared, held, late, arena>>

WalkLook(t) ==
    LET c == call[t]
        r == header[c.word.pred].index
    IN  /\ c.pc = "walkLook"
        /\ call' = [call EXCEPT ![t] =
              IF r < count /\ record[r].state = "available" /\ record[r].block = c.word.pred
                THEN [c EXCEPT !.pc = "walkClaim", !.walk = r, !.expected = Word(r)]
                ELSE [c EXCEPT !.pc = "walkEnd"]]
        /\ UNCHANGED <<shared, held, late, arena>>

\* A bug: the walk claims with a store, not with a compare-and-swap.
WalkClaimBlind(t) ==
    LET c == call[t]
    IN  /\ c.pc = "walkClaim"
        /\ IF c.expected # <<>>
             THEN /\ record' = WithState(c.walk, "reclaimInProgress")
                  /\ call' = [call EXCEPT ![t].pc = "walkRoll", ![t].expected = <<>>]
             ELSE /\ call' = [call EXCEPT ![t].pc = "walkEnd"]
                  /\ UNCHANGED record
        /\ UNCHANGED <<frontier, count, managers, header, pending, bins, reclaiming, held, late, arena>>

WalkClaim(t) ==
    LET c == call[t]
    IN  /\ c.pc = "walkClaim"
        /\ IF Word(c.walk) = c.expected
             THEN /\ record' = WithState(c.walk, "reclaimInProgress")
                  /\ call' = [call EXCEPT ![t].pc = "walkRoll", ![t].expected = <<>>]
             ELSE /\ call' = [call EXCEPT ![t].pc = "walkEnd"]
                  /\ UNCHANGED record
        /\ UNCHANGED <<frontier, count, managers, header, pending, bins, reclaiming, held, late, arena>>

WalkRoll(t) ==
    LET c == call[t]
    IN  /\ c.pc = "walkRoll"
        /\ IF frontier = c.word
             THEN /\ frontier' = RolledBack(c.word.pred)
                  /\ call' = [call EXCEPT ![t].pc = "walkMark"]
                  /\ UNCHANGED record
             ELSE /\ record' = WithState(c.walk, "available")
                  /\ call' = [call EXCEPT ![t].pc = "walkEnd"]
                  /\ UNCHANGED frontier
        /\ UNCHANGED <<count, managers, header, pending, bins, reclaiming, held, late, arena>>

WalkMark(t) ==
    LET c == call[t]
    IN  /\ c.pc = "walkMark"
        /\ record' = WithState(c.walk, "reclaimed")
        /\ call' = [call EXCEPT ![t].pc = "walk", ![t].walk = None, ![t].word = Idle.word]
        /\ UNCHANGED <<frontier, count, managers, header, pending, bins, reclaiming, held, late, arena>>

WalkEnd(t) ==
    /\ call[t].pc = "walkEnd"
    /\ reclaiming' = FALSE
    /\ call' = [call EXCEPT ![t] = Trimming([@ EXCEPT !.walk = None, !.word = Idle.word,
                                                      !.expected = <<>>])]
    /\ UNCHANGED <<frontier, count, managers, header, record, pending, bins, held, late, arena>>

TrimClaim(t) ==
    LET c == call[t]
        m == ManagerFor(c.seen - 1)
        idle == managers[m].active = 0 /\ ~managers[m].trimming
    IN  /\ c.pc = "trimClaim"
        /\ managers' = IF idle THEN [managers EXCEPT ![m].trimming = TRUE] ELSE managers
        /\ call' = [call EXCEPT ![t] = IF idle THEN [c EXCEPT !.pc = "trimShrink"]
                                               ELSE WindowEnds(c)]
        /\ UNCHANGED <<frontier, count, header, record, pending, bins, reclaiming, held, late, arena>>

TrimShrink(t) ==
    LET c == call[t]
        m == ManagerFor(c.seen - 1)
    IN  /\ c.pc = "trimShrink"
        /\ IF count = c.seen
             THEN /\ count' = m * RecordsPerManager
                  /\ call' = [call EXCEPT ![t].pc = "trimClear", ![t].manager = m]
                  /\ UNCHANGED managers
             ELSE /\ managers' = [managers EXCEPT ![m].trimming = FALSE]
                  /\ call' = [call EXCEPT ![t] = Trimming(c)]
                  /\ UNCHANGED count
        /\ UNCHANGED <<frontier, header, record, pending, bins, reclaiming, held, late, arena>>

\* A bug: the manager stays marked as being trimmed.
TrimClearOnly(t) ==
    LET m == call[t].manager
    IN  /\ call[t].pc = "trimClear"
        /\ managers' = [managers EXCEPT ![m].free = <<>>]
        /\ call' = [call EXCEPT ![t] = Trimming([@ EXCEPT !.manager = 0])]
        /\ UNCHANGED <<frontier, count, header, record, pending, bins, reclaiming, held, late, arena>>

TrimClear(t) ==
    LET m == call[t].manager
    IN  /\ call[t].pc = "trimClear"
        /\ managers' = [managers EXCEPT ![m].free = <<>>, ![m].trimming = FALSE]
        /\ call' = [call EXCEPT ![t] = Trimming([@ EXCEPT !.manager = 0])]
        /\ UNCHANGED <<frontier, count, header, record, pending, bins, reclaiming, held, late, arena>>

Close(t) ==
    LET c == call[t]
    IN  /\ c.pc = "close"
        /\ pending' = [pending EXCEPT ![c.window].open = FALSE]
        /\ call' = [call EXCEPT ![t] = Returned(c)]
        /\ UNCHANGED <<frontier, count, managers, header, record, bins, reclaiming, held, late, arena>>

-----------------------------------------------------------------------------
Step(t) ==
    \/ SearchPop(t) \/ Claim(t) \/ Finish(t) \/ Recycle(t) \/ Release(t)
    \/ Reserve(t) \/ PopRecord(t) \/ GrowReserve(t) \/ GrowCheck(t) \/ Grow(t)
    \/ GrowRecheck(t) \/ GrowUndo(t) \/ FrontLook(t) \/ FrontAdvance(t) \/ FrontRecheck(t)
    \/ FrontUndo(t) \/ Lock(t) \/ CountPending(t) \/ PushPending(t)
    \/ OpenWindow(t) \/ Steal(t) \/ ReclaimBatch(t) \/ BatchScan(t) \/ BatchRoll(t)
    \/ Publish(t) \/ PushFree(t) \/ ReducePending(t) \/ Reclaim(t) \/ Walk(t)
    \/ WalkLook(t) \/ WalkClaim(t) \/ WalkRoll(t) \/ WalkMark(t) \/ WalkEnd(t)
    \/ TrimClaim(t) \/ TrimShrink(t) \/ TrimClear(t) \/ Close(t)

Begin(t) ==
    /\ arena.calls[t] > 0 /\ arena' = [arena EXCEPT !.calls[t] = @ - 1]
    /\ \/ \E bytes \in RequestSizes, s \in Shards : Allocate(t, bytes, s)
       \/ \E b \in held : Deallocate(t, b)

Next == \E t \in Threads : Step(t) \/ Begin(t)

\* A thread inside a call keeps running; nobody has to make a call.
Spec == Init /\ [][Next]_vars /\ \A t \in Threads : WF_vars(Step(t))

-----------------------------------------------------------------------------
\* Types.
TypeOK ==
    /\ frontier \in [at : Blocks, pred : Blocks \cup {None}]
    /\ count \in 0 .. Cardinality(Records)
    /\ \A m \in Managers : /\ IsInjective(managers[m].free)
                           /\ managers[m].active \in Nat
                           /\ managers[m].trimming => managers[m].active = 0
    /\ \A r \in Records : /\ record[r].state \in States
                          /\ record[r].block \in Blocks \cup {None}
                          /\ record[r].version \in 0 .. VersionLimit - 1
    /\ \A s \in Shards : pending[s].count \in Nat /\ pending[s].open \in BOOLEAN
    /\ reclaiming \in BOOLEAN
    /\ DOMAIN call = Threads
    /\ held \subseteq Blocks

\* A block or a record whose thread has not yet looked again may still have
\* to go back; every other one is settled.
Unsettled(pcs) == {t \in Threads : call[t].pc \in pcs}
UnsettledRecords == {call[t].seen : t \in Unsettled({"growRecheck", "growUndo"})}

\* Records that describe a block under the frontier: rolling the frontier
\* back over the block is what takes the last state off the list.
RolledOver == {call[t].walk : t \in Unsettled({"walkMark"})}
                 \cup {call[t].md : t \in {u \in Threads : call[u].pc = "recycle"
                                                 /\ call[u].after = "batchScan"}}
Describing == {r \in Records :
                 /\ record[r].state \in {"inUse", "pending", "available", "locked",
                                         "reclaimInProgress"}
                 /\ r \notin RolledOver}

\* The tiles below the frontier: the block each of those records describes, and
\* the block each thread took from the frontier and has not written a record for.
Tile(by, b, end, pred, settled) ==
    [by |-> by, at |-> b, end |-> end, pred |-> pred, settled |-> settled]
Written(by, b) == Tile(by, b, b + header[b].size, header[b].previous, TRUE)
Tiles ==
    {Written(<<"record", r>>, record[r].block) : r \in Describing}
    \cup {Written(<<"thread", t>>, call[t].block) :
             t \in {u \in Unsettled({"finish"}) : call[u].md = None}}
    \cup {Tile(<<"thread", t>>, call[t].block, NextFrontier(call[t]), call[t].word.pred, FALSE) :
             t \in Unsettled({"frontRecheck", "frontUndo"})}

\* The block that a link names ends where the link is.
Links(b, at) == IF b = None THEN at = 0 ELSE \E q \in Tiles : q.at = b /\ q.end = at

\* The memory below the frontier is cut into tiles, each in the hands of one
\* record or thread, that the links from the frontier down to the bottom
\* thread one by one; no settled block reaches a settled record, however the
\* two sides raced for the middle; and what callers hold is among the tiles.
Partition ==
    /\ \A p \in Tiles : p.at < p.end /\ p.end <= frontier.at
    /\ \A p, q \in Tiles : p # q => p.end <= q.at \/ q.end <= p.at
    /\ Links(frontier.pred, frontier.at)
    /\ \A p \in Tiles : Links(p.pred, p.at)
    /\ \A p \in Tiles, r \in (0 .. count - 1) \ UnsettledRecords :
          p.settled => p.end <= RecordAt(r)
    /\ held \subseteq {record[r].block : r \in Describing}

(***************************************************************************)
(* Where each record is, and the counts that go with the places.           *)
(***************************************************************************)
ListOf(place) ==
    CASE place[1] = "free"    -> managers[place[2]].free
      [] place[1] = "pending" -> pending[place[2]].list
      [] place[1] = "bin"     -> bins[place[2]][place[3]]
      [] place[1] = "list"    -> call[place[2]].list
      [] place[1] = "batch"   -> call[place[2]].batch
ListPlaces == ({"free"} \X Managers) \cup ({"pending"} \X Shards)
                 \cup ({"bin"} \X Bins \X Slots) \cup ({"list", "batch"} \X Threads)
Listed == UNION {Range(ListOf(p)) : p \in ListPlaces}

\* Records outside the lists: in a thread's hands, or with a held block.
\* The one a batch tries to roll back over is still in the batch.
InHand == [t \in Threads |-> ({call[t].md, call[t].reserved} \ {None})
                              \ (IF call[t].pc = "batchRoll" THEN {call[t].md} ELSE {})]
WithBlocks == {header[b].index : b \in held}

\* Threads that count in a manager without holding one of its records.
Transient(m) == {t \in Threads :
                    \/ call[t].pc \in {"popRecord", "release"} /\ call[t].manager = m
                    \/ call[t].pc \in {"growCheck", "grow"} /\ call[t].manager = m}

\* The blocks windows of the shard stole and have not counted off, one by one.
Stolen(s) == UNION {{t} \X (1 .. call[t].stolen) : t \in {u \in Threads : call[u].window = s}}

\* Each record is in one place, so none is lost or given out twice; a
\* manager's count is the records out of its stack; a pending count covers
\* its list, so that what a window subtracts is always there.
Accounted ==
    /\ TypeOK
    /\ LET inHand == UNION Range(InHand)
           clearing == {r \in Records : r >= count /\ \E t \in Unsettled({"trimClear"}) :
                                           call[t].manager = ManagerFor(r)}
       IN  /\ Listed \cup inHand \cup WithBlocks \cup clearing \cup UnsettledRecords
                 = (0 .. count - 1) \cup clearing
           /\ \A p \in ListPlaces : IsInjective(ListOf(p))
           /\ \A p, q \in ListPlaces : p # q => Range(ListOf(p)) \cap Range(ListOf(q)) = {}
           /\ \A t, u \in Threads : t # u => InHand[t] \cap InHand[u] = {}
           /\ \A b, d \in held : b # d => header[b].index # header[d].index
           /\ Listed \cap (inHand \cup WithBlocks \cup UnsettledRecords) = {}
           /\ inHand \cap (WithBlocks \cup UnsettledRecords) = {}
           /\ WithBlocks \cap UnsettledRecords = {}
    /\ \A m \in Managers :
          managers[m].active = Cardinality(Transient(m))
              + Cardinality({r \in 0 .. count - 1 :
                     ManagerFor(r) = m /\ r \notin Range(managers[m].free)})
    /\ \A s \in Shards :
          pending[s].count = Len(pending[s].list)
             + Cardinality(Stolen(s))
             + Cardinality({t \in Unsettled({"pushPending"}) :
                               record[call[t].md].shard % NumShards = s})

\* A second deallocation of a block that was freed, and handed out again,
\* while it was under way does not free it from its new owner.
LateFreeIsRefused == \A t \in Threads : call[t].pc = "countPending" => t \notin late

\* Callers hold pieces that never overlap each other, and a record in use
\* is a piece too: the allocator never hands out memory it needs itself.
PiecesOut == {[at |-> b, size |-> header[b].size] : b \in held}
                \cup {[at |-> RecordAt(header[b].index), size |-> Alignment] : b \in held}
Heap == INSTANCE AbstractHeap WITH Base <- 0, Limit <- LastStart + Alignment,
                                   held <- PiecesOut
ImplementsHeap == Heap!Spec

\* Every call returns: threads that give way to each other at the boundary
\* between blocks and records, or wait for a trim, do not wait for ever.
EveryCallReturns == []<>(\A t \in Threads : call[t].pc = "idle")
=============================================================================
