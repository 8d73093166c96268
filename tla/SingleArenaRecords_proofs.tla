---------------------- MODULE SingleArenaRecords_proofs ----------------------
(***************************************************************************)
(* The inductive invariant of the single arena, and the steps that move    *)
(* records between their places: do_allocate's search of the bins, the     *)
(* metadata records of the managers, and do_try_deallocate.                *)
(*                                                                         *)
(* The invariant names a place for each record: in which list it is, or in *)
(* whose hands.  kind[r] is what it is in and of[r] whose; a step either   *)
(* leaves every record where it is, or puts some elsewhere.  The blocks    *)
(* below the frontier are tiles, each with a record or a thread, an end    *)
(* and a predecessor.  SingleArena_proofs has the steps at the frontier,   *)
(* the maintenance windows, and the theorems.                              *)
(***************************************************************************)
EXTENDS MCSingleArena, SequenceTheorems, FiniteSetTheorems, WellFoundedInduction, TLAPS

-----------------------------------------------------------------------------
(* Types.                                                                  *)

NumRecords == NumManagers * RecordsPerManager
MaybeBlock == Blocks \cup {None}
MaybeRecord == Records \cup {None}

WindowPcs == {"openWindow", "steal", "reclaimBatch", "batchScan", "batchRoll", "publish",
              "pushFree", "reducePending", "reclaim", "walk", "walkLook", "walkClaim",
              "walkRoll", "walkMark", "walkEnd", "trimClaim", "trimShrink", "trimClear", "close"}
FirstPcs == {"reserve", "popRecord", "growReserve", "growCheck", "grow", "growRecheck",
             "growUndo", "front", "frontAdvance", "frontRecheck", "frontUndo",
             "lock", "countPending", "pushPending"}
Pcs == {"idle", "search", "claim", "finish", "recycle", "release"} \cup FirstPcs \cup WindowPcs

Words == [at : Blocks, pred : MaybeBlock]
Expectations == {<<>>} \cup (States \X MaybeBlock \X Nat)

CallType ==
    [pc : Pcs, stage : {"first", "forced", "flushed"}, bin : Bins, shard : Shards,
     slot : Slots, block : MaybeBlock, md : MaybeRecord, reserved : MaybeRecord,
     after : {"idle", "reserve", "growReserve", "search", "finish", "batchScan"},
     back : {"idle", "search"}, force : BOOLEAN, window : Shards, flush : BOOLEAN,
     list : Seq(Records), batch : Seq(Records), stolen : Nat, word : Words,
     seen : 0 .. NumRecords, manager : Nat, walk : MaybeRecord,
     expected : Expectations]

HeaderType == [index : Records, size : Int, previous : MaybeBlock]
RecordType == [state : States, block : MaybeBlock, version : 0 .. VersionLimit - 1,
               size : Int, shard : Shards]

TypeInv ==
    /\ frontier \in Words /\ frontier.at <= arena.start
    /\ count \in 0 .. NumRecords
    /\ managers \in [Managers -> [free : Seq(Records), active : Nat, trimming : BOOLEAN]]
    /\ header \in [Blocks -> HeaderType]
    /\ record \in [Records -> RecordType]
    /\ pending \in [Shards -> [list : Seq(Records), count : Nat, open : BOOLEAN]]
    /\ bins \in [Bins -> [Slots -> Seq(Records)]]
    /\ reclaiming \in BOOLEAN
    /\ call \in [Threads -> CallType]
    /\ held \subseteq Blocks
    /\ arena \in [start : Blocks, calls : [Threads -> Nat]]

-----------------------------------------------------------------------------
(* What a thread has in hand at each place of its call.                    *)

Batching(c) == \/ c.pc \in {"reclaimBatch", "batchScan", "batchRoll", "publish", "pushFree"}
               \/ c.pc \in {"recycle", "release"} /\ c.after = "batchScan"
Windowed(c) == c.pc \in WindowPcs \/ Batching(c)

HasMd(c) ==
    \/ c.pc \in {"claim", "countPending", "pushPending", "batchRoll"}
    \/ c.pc = "recycle" /\ c.after \in {"search", "finish", "batchScan"}
    \/ c.pc = "release" /\ c.after = "finish"
    \/ c.pc = "finish" /\ c.md # None

HasReserved(c) ==
    \/ c.pc \in {"front", "frontAdvance", "frontRecheck", "frontUndo"}
    \/ c.pc = "finish" /\ c.md = None
    \/ /\ c.stage # "first" /\ c.pc # "finish"
       /\ ~(c.pc = "release" /\ c.after \in {"idle", "finish"})

\* The record of a block it has won from a bin.
HasLocked(c) ==
    \/ c.pc \in {"recycle", "release"} /\ c.after = "finish"
    \/ c.pc = "finish" /\ c.md # None

ShapeOf(c) ==
    /\ c.pc = "idle" => c = Idle
    /\ (c.md # None) <=> HasMd(c)
    /\ (c.reserved # None) <=> HasReserved(c)
    /\ c.pc \in FirstPcs => c.stage = "first"
    /\ c.pc = "recycle" => c.after \in {"search", "finish", "idle", "batchScan"}
    /\ c.pc = "recycle" /\ c.after \in {"finish", "idle"} => c.stage # "first"
    /\ c.pc = "release" /\ c.after \in {"reserve", "growReserve"} => c.stage = "first"
    /\ Windowed(c) /\ c.back = "idle" => c.stage = "first"
    /\ c.list # <<>> \/ c.batch # <<>> => Batching(c)
    /\ c.stolen # 0 => Batching(c) \/ c.pc = "reducePending"
    /\ c.pc \in {"reclaimBatch", "publish", "pushFree"} => c.batch # <<>>
    /\ c.pc = "batchRoll" => c.md \in Range(c.batch)

PlaceOf(c) ==
    /\ c.pc \in {"release", "popRecord", "trimClear"} => c.manager \in Managers
    /\ c.pc \in {"growCheck", "grow", "growRecheck", "growUndo"} =>
          c.seen \in Records /\ c.manager = ManagerFor(c.seen)
    /\ c.pc \in {"trimClaim", "trimShrink"} => c.seen > 0
    /\ c.pc \in {"frontRecheck", "frontUndo"} => c.block = c.word.at
    /\ c.pc \in {"walkLook", "walkClaim", "walkRoll"} => c.word.pred # None
    /\ c.pc \in {"walkClaim", "walkRoll", "walkMark", "lock"} => c.walk # None
    /\ c.pc = "walkClaim" => c.expected # <<>> /\ c.expected[1] = "available"
                                 /\ c.expected[2] = c.word.pred
    /\ c.pc = "lock" => c.expected # <<>> /\ c.block # None /\ c.expected[1] = "inUse"
                                 /\ c.expected[2] = c.block

Room == \A t \in Threads : call[t].pc \in {"frontAdvance", "frontRecheck", "frontUndo"} =>
                              NextFrontier(call[t]) <= arena.start

Control == (\A t \in Threads : ShapeOf(call[t]) /\ PlaceOf(call[t])) /\ Room

-----------------------------------------------------------------------------
(* The place of each record: what it is in, and whose.                     *)

ListKinds == {"free", "pending", "bin", "list", "batch"}
Kinds == ListKinds \cup {"md", "reserved", "seen", "held", "out"}

MdOf(c) == IF c.pc = "batchRoll" THEN None ELSE c.md
SeenOf(c) == IF c.pc \in {"growRecheck", "growUndo"} THEN c.seen ELSE None
ClearOf(c) == IF c.pc = "trimClear" THEN c.manager ELSE None

In(kind, of, r, k, o) == kind[r] = k /\ of[r] = o

FreePlaces(kind, of) ==
    /\ \A m \in Managers : IsInjective(managers[m].free)
    /\ \A m \in Managers, r \in Records : r \in Range(managers[m].free) <=> In(kind, of, r, "free", m)
    /\ \A r \in Records : kind[r] = "free" => of[r] = ManagerFor(r)
    /\ \A r \in Records : r < count => kind[r] # "out"
    /\ \A r \in Records : ~(r < count) => kind[r] \in {"out", "free"}
    /\ \A r \in Records : ~(r < count) /\ kind[r] = "free" =>
          \E t \in Threads : ClearOf(call[t]) = ManagerFor(r)

SharedPlaces(kind, of) ==
    /\ \A s \in Shards : IsInjective(pending[s].list)
    /\ \A s \in Shards, r \in Records : r \in Range(pending[s].list) <=> In(kind, of, r, "pending", s)
    /\ \A r \in Records : kind[r] = "pending" => of[r] \in Shards
    /\ \A b \in Bins, k \in Slots : IsInjective(bins[b][k])
    /\ \A b \in Bins, k \in Slots, r \in Records :
          r \in Range(bins[b][k]) <=> In(kind, of, r, "bin", <<b, k>>)
    /\ \A r \in Records : kind[r] = "bin" => of[r] \in Bins \X Slots
    /\ \A b \in held : In(kind, of, header[b].index, "held", b)
    /\ \A r \in Records : kind[r] = "held" => of[r] \in held /\ header[of[r]].index = r

ThreadPlaces(kind, of) ==
    /\ \A t \in Threads, r \in Records : r = MdOf(call[t]) <=> In(kind, of, r, "md", t)
    /\ \A t \in Threads, r \in Records : r = call[t].reserved <=> In(kind, of, r, "reserved", t)
    /\ \A t \in Threads, r \in Records : r = SeenOf(call[t]) <=> In(kind, of, r, "seen", t)
    /\ \A t \in Threads : IsInjective(call[t].list) /\ IsInjective(call[t].batch)
    /\ \A t \in Threads, r \in Records : r \in Range(call[t].list) <=> In(kind, of, r, "list", t)
    /\ \A t \in Threads, r \in Records : r \in Range(call[t].batch) <=> In(kind, of, r, "batch", t)
    /\ \A r \in Records : kind[r] \in {"md", "reserved", "seen", "list", "batch"} => of[r] \in Threads

Places(kind, of) ==
    kind \in [Records -> Kinds] /\ FreePlaces(kind, of) /\ SharedPlaces(kind, of) /\ ThreadPlaces(kind, of)

-----------------------------------------------------------------------------
(* The state of a record, by its place.                                    *)

Unused == {"invalid", "metadataAvailable"}
Offered == {"available", "reclaimInProgress", "reclaimed"}
Sizes == {AlignUp(BinSize(b)) : b \in Bins}

\* The record whose block a thread is rolling the frontier back over.
RollOf(c) == IF c.pc \in {"walkRoll", "walkMark"} THEN c.walk
             ELSE IF c.pc = "batchRoll" \/ (c.pc = "recycle" /\ c.after = "batchScan") THEN c.md
             ELSE None

\* The record a thread hands on to a bin after it has made it available.
OfferOf(c) == IF c.pc = "pushFree" THEN Head(c.batch) ELSE None

MdStates(c) == IF c.pc = "claim" THEN Offered
               ELSE IF c.pc \in {"countPending", "pushPending"} THEN {"pending"}
               ELSE IF c.pc = "recycle" /\ c.after = "search" THEN {"reclaimed"}
               ELSE IF c.pc = "recycle" /\ c.after = "batchScan" THEN {"reclaimInProgress"}
               ELSE {"locked"}
BatchStates(c, r) == IF r = RollOf(c) THEN {"reclaimInProgress"}
                     ELSE IF r = OfferOf(c) THEN Offered ELSE {"pending"}

StatesAt(kind, of) ==
    \A r \in Records :
       /\ kind[r] \in {"free", "reserved", "seen", "out"} => record[r].state \in Unused
       /\ kind[r] \in {"pending", "list"} => record[r].state = "pending"
       /\ kind[r] = "bin" => record[r].state \in Offered
       /\ kind[r] = "held" => record[r].state = "inUse" /\ record[r].block = of[r]
       /\ kind[r] = "md" => record[r].state \in MdStates(call[of[r]])
       /\ kind[r] = "batch" => record[r].state \in BatchStates(call[of[r]], r)

Described ==
    /\ \A r \in Records : record[r].state \notin Unused => record[r].block # None /\ record[r].size \in Sizes
    /\ \A t \in Threads : HasLocked(call[t]) =>
          call[t].block # None /\ record[call[t].md].block = call[t].block

Rolling ==
    /\ \A t \in Threads : RollOf(call[t]) # None => record[RollOf(call[t])].state = "reclaimInProgress"
    /\ \A t, u \in Threads : t # u /\ RollOf(call[t]) # None => RollOf(call[t]) # RollOf(call[u])
    /\ \A t \in Threads : call[t].pc = "walkRoll" => record[call[t].walk].block = call[t].word.pred
    /\ \A t \in Threads : call[t].pc = "batchRoll" =>
          record[call[t].md].block + record[call[t].md].size = call[t].word.at

LateFrees ==
    /\ \A t \in Threads : t \in late => call[t].pc = "lock"
    /\ \A t \in Threads : call[t].pc = "lock" =>
          /\ call[t].expected[3] <= record[call[t].walk].version
          /\ t \in late => call[t].expected[3] < record[call[t].walk].version
          /\ t \notin late => /\ call[t].block \in held /\ header[call[t].block].index = call[t].walk
                             /\ Word(call[t].walk) = call[t].expected

-----------------------------------------------------------------------------
(* The tiles: the blocks that records describe, those threads have in hand, *)
(* and where each block ends.                                              *)

Fresh(c) == c.pc = "finish" /\ c.md = None
Advanced(c) == c.pc \in {"frontRecheck", "frontUndo"}

Active == {"inUse", "pending", "available", "locked", "reclaimInProgress"}

\* Rolled back, and still marked as being rolled back.
GoneOf(c) == IF c.pc = "walkMark" \/ (c.pc = "recycle" /\ c.after = "batchScan")
             THEN RollOf(c) ELSE None
Describes(r) == record[r].state \in Active /\ \A t \in Threads : GoneOf(call[t]) # r

\* By records: W, w[b] the record; by threads: H, h[b] the thread.
Owners(W, w, H, h) ==
    /\ W \subseteq Blocks /\ H \subseteq Blocks /\ W \cap H = {}
    /\ \A b \in W : w[b] \in Records /\ Describes(w[b]) /\ record[w[b]].block = b
    /\ \A r \in Records : Describes(r) => record[r].block \in W /\ w[record[r].block] = r
    /\ \A b \in H : /\ h[b] \in Threads /\ call[h[b]].block = b
                    /\ Fresh(call[h[b]]) \/ Advanced(call[h[b]])
    /\ \A t \in Threads : Fresh(call[t]) \/ Advanced(call[t]) => call[t].block \in H /\ h[call[t].block] = t

Extents(W, w, H, h, End, Pred) ==
    /\ End \in [Blocks -> Int] /\ Pred \in [Blocks -> MaybeBlock]
    /\ \A b \in W : /\ End[b] = b + header[b].size /\ Pred[b] = header[b].previous
                    /\ record[w[b]].size = header[b].size
    /\ \A b \in H : IF Advanced(call[h[b]])
                    THEN End[b] = NextFrontier(call[h[b]]) /\ Pred[b] = call[h[b]].word.pred
                    ELSE End[b] = b + header[b].size /\ Pred[b] = header[b].previous
                            /\ header[b].size \in Sizes

Settled(W, H, h, b) == b \in W \/ (b \in H /\ ~Advanced(call[h[b]]))

Ends(B, End, b, at) == IF b = None THEN at = 0 ELSE b \in B /\ End[b] = at

Cut(B, End, Pred) ==
    /\ \A b \in B : b < End[b] /\ End[b] <= frontier.at
    /\ \A b, d \in B : b < d => End[b] <= d
    /\ \A b \in B : Ends(B, End, Pred[b], b)
    /\ Ends(B, End, frontier.pred, frontier.at)

Middle(kind, W, H, h, End) ==
    \A b \in W \cup H, r \in Records :
       Settled(W, H, h, b) /\ r < count /\ kind[r] # "seen" => End[b] <= RecordAt(r)

-----------------------------------------------------------------------------
(* The counts.                                                             *)

TransientOf(c) == IF c.pc \in {"popRecord", "release", "growCheck", "grow"} THEN c.manager ELSE None
TrimOf(c) == IF c.pc = "trimShrink" THEN ManagerFor(c.seen - 1) ELSE ClearOf(c)

Waiting(m) == {t \in Threads : TransientOf(call[t]) = m}
Taken(m) == {r \in 0 .. count - 1 : ManagerFor(r) = m /\ r \notin Range(managers[m].free)}

ManagerCounts ==
    \A m \in Managers : managers[m].active = Cardinality(Waiting(m)) + Cardinality(Taken(m))

Trims ==
    /\ \A m \in Managers : managers[m].trimming => managers[m].active = 0
    /\ \A t \in Threads : TrimOf(call[t]) # None => managers[TrimOf(call[t])].trimming
    /\ \A t, u \in Threads : t # u /\ TrimOf(call[t]) # None => TrimOf(call[t]) # TrimOf(call[u])
    /\ \A t \in Threads : ClearOf(call[t]) # None => count <= ClearOf(call[t]) * RecordsPerManager

Pushing(s) == {t \in Threads : call[t].pc = "pushPending" /\ record[call[t].md].shard = s}

PendingCounts ==
    \A s \in Shards : pending[s].count = Len(pending[s].list) + Cardinality(Stolen(s))
                                            + Cardinality(Pushing(s))

Locking == {t \in Threads : call[t].pc = "lock"}

Versions == \A r \in Records : record[r].version + Cardinality(Upcoming(arena.calls))
                                  + Cardinality(Locking) < VersionLimit

-----------------------------------------------------------------------------
(* The constants, and arithmetic.                                          *)

LEMMA Constants ==
    /\ Alignment \in Nat /\ Alignment > 0 /\ NumShards \in Nat /\ NumShards > 0
    /\ NumAddressBins \in Nat /\ NumAddressBins > 0
    /\ AddressBinSize \in Nat /\ AddressBinSize > 0
    /\ RecordsPerManager \in Nat /\ RecordsPerManager > 0
    /\ NumManagers \in Nat /\ NumManagers > 0
    /\ BatchSize \in Nat /\ BatchSize > 0 /\ VersionLimit \in Nat
    /\ IsFiniteSet(Threads)
    /\ Scenarios \subseteq [start : Nat, calls : [Threads -> Nat]]
    /\ \A c \in Scenarios : c.start % Alignment = 0 /\ VersionLimit > Cardinality(Upcoming(c.calls))
BY ArenaAssumed DEF ArenaAssumption, BinShape

LEMMA Division ==
    ASSUME NEW a \in Nat, NEW n \in Nat, n > 0
    PROVE  /\ a \div n \in Nat /\ a % n \in Nat /\ a % n < n
           /\ a = n * (a \div n) + (a % n)
<1>1. a = n * (a \div n) + (a % n) /\ a % n < n /\ a % n \in Nat /\ a \div n \in Int
  OBVIOUS
<1>2. ASSUME a \div n <= -1 PROVE FALSE
  <2>1. n * (a \div n) <= -n
    BY <1>2, <1>1
  <2> QED
    BY <2>1, <1>1
<1> QED
  BY <1>1, <1>2

LEMMA Monotone ==
    ASSUME NEW a \in Int, NEW b \in Int, NEW n \in Nat, a <= b
    PROVE  a * n <= b * n
OBVIOUS

LEMMA Multiple ==
    ASSUME NEW k \in Nat, NEW n \in Nat, n > 0
    PROVE  n * k \in Nat /\ (n * k) % n = 0 /\ (n * k) \div n = k
<1>1. n * k \in Nat
  OBVIOUS
<1> DEFINE q == (n * k) \div n
           s == (n * k) % n
<1>2. q \in Nat /\ s \in Nat /\ s < n /\ n * k = n * q + s
  BY <1>1, Division
<1> HIDE DEF q, s
<1>3. n * (k - q) = s
  BY <1>2
<1>4. ~(k - q >= 1)
  BY <1>2, <1>3
<1>5. ~(k - q <= -1)
  BY <1>2, <1>3
<1>6. k = q /\ s = 0
  BY <1>2, <1>3, <1>4, <1>5
<1> QED
  BY <1>1, <1>6 DEF q, s

LEMMA Quotient ==
    ASSUME NEW n \in Nat, n > 0, NEW q \in Nat, NEW s \in 0 .. n - 1
    PROVE  (n * q + s) \div n = q /\ (n * q + s) % n = s
<1> DEFINE a == n * q + s
           p == a \div n
           v == a % n
<1>1. a \in Nat
  OBVIOUS
<1>2. p \in Nat /\ v \in Nat /\ v < n /\ a = n * p + v
  BY <1>1, Division
<1> HIDE DEF p, v
<1>3. n * (p - q) = s - v /\ a = n * q + s
  BY <1>2
<1>4. ~(p - q >= 1)
  BY <1>2, <1>3
<1>5. ~(p - q <= -1)
  BY <1>2, <1>3
<1>6. p = q /\ v = s
  BY <1>2, <1>3, <1>4, <1>5
<1> QED
  BY <1>6 DEF p, v

LEMMA Largest ==
    /\ LastStart \in Nat /\ LastStart % Alignment = 0
    /\ \A c \in Scenarios : c.start <= LastStart
<1> DEFINE S == {c.start : c \in Scenarios}
<1>1. \E x \in S : \A y \in S : x >= y
  BY ArenaAssumed DEF ArenaAssumption
<1>2. LastStart \in S /\ \A y \in S : LastStart >= y
  BY <1>1 DEF LastStart, Max
<1> QED
  BY <1>2, Constants

LEMMA BlockFacts ==
    /\ Blocks \subseteq Nat /\ 0 \in Blocks /\ None \notin Blocks
    /\ \A c \in Scenarios : c.start \in Blocks
    /\ \A b \in Nat, d \in Blocks : b % Alignment = 0 /\ b <= d => b \in Blocks
    /\ \A b \in Blocks : b % Alignment = 0
<1>1. 0 % Alignment = 0
  BY Constants
<1> QED
  BY <1>1, Constants, Largest DEF Blocks, None

\* A block's size: a bin's, rounded up.
LEMMA SizeFacts ==
    ASSUME NEW bin \in Bins, NEW at \in Blocks
    PROVE  /\ AlignUp(BinSize(bin)) \in Sizes /\ AlignUp(BinSize(bin)) \in Nat
           /\ AlignUp(BinSize(bin)) > 0
           /\ AlignUp(at + BinSize(bin)) = at + AlignUp(BinSize(bin))
           /\ AlignUp(at + BinSize(bin)) % Alignment = 0
<1> DEFINE s == BinSize(bin) + Alignment - 1
           k == at \div Alignment
           q == s \div Alignment
           v == s % Alignment
<1>1. BinSize(bin) \in Nat /\ BinSize(bin) > 0
  BY SizesAssumed DEF SizeClasses
<1>2. s \in Nat /\ s >= Alignment
  BY <1>1, Constants
<1>3. k \in Nat /\ at = Alignment * k
  BY BlockFacts, Constants, Division
<1>4. q \in Nat /\ v \in 0 .. Alignment - 1 /\ s = Alignment * q + v
  <2>1. Alignment \in Nat /\ Alignment > 0
    BY Constants
  <2> HIDE DEF s
  <2>2. s \in Nat
    BY <1>2
  <2>3. q \in Nat /\ v \in Nat /\ v < Alignment /\ s = Alignment * q + v
    BY <2>1, <2>2, Division
  <2> QED
    BY <2>1, <2>3
<1>5. q >= 1
  BY <1>2, <1>4, Constants
<1> HIDE DEF q, v, k
<1>6. at + s = Alignment * (k + q) + v
  BY <1>3, <1>4, Constants
<1>7. (at + s) \div Alignment = k + q
  <2>1. k + q \in Nat
    BY <1>3, <1>4
  <2> QED
    BY <2>1, <1>4, <1>6, Constants, Quotient
<1>8. AlignUp(BinSize(bin)) = Alignment * q
  BY <1>1, <1>4, Constants DEF AlignUp, CeilDiv, q
<1>9. AlignUp(at + BinSize(bin)) = Alignment * (k + q)
  <2>1. at + BinSize(bin) + Alignment - 1 = at + s
    BY <1>1, BlockFacts, Constants
  <2> QED
    BY <2>1, <1>7, <1>3, <1>4, Constants DEF AlignUp, CeilDiv
<1>10. Alignment * q \in Nat /\ Alignment * q > 0
  BY <1>4, <1>5, Constants
<1>11. Alignment * (k + q) = at + Alignment * q
  BY <1>3, <1>4, Constants
<1>12. (Alignment * (k + q)) % Alignment = 0
  BY <1>3, <1>4, Constants, Multiple
<1> QED
  BY <1>8, <1>9, <1>10, <1>11, <1>12 DEF Sizes

LEMMA SizesPositive == \A s \in Sizes : s \in Nat /\ s > 0 /\ FreeBlockBinIndex(s) \in Bins
BY SizeFacts, BlockFacts, SizesAssumed DEF Sizes, SizeClasses

LEMMA RecordFacts ==
    /\ NumRecords \in Nat /\ NumRecords > 0 /\ Records = 0 .. NumRecords - 1
    /\ 0 \in Records /\ None \notin Records
    /\ IsFiniteSet(Records) /\ Cardinality(Records) = NumRecords
<1>1. NumRecords \in Nat /\ NumRecords > 0
  BY Constants DEF NumRecords
<1>2. Records = 0 .. NumRecords - 1
  BY DEF Records, NumRecords
<1>3. IsFiniteSet(Records) /\ Cardinality(Records) = NumRecords
  BY <1>1, <1>2, FS_Interval
<1> QED
  BY <1>1, <1>2, <1>3 DEF None

LEMMA ManagerFacts ==
    /\ \A r \in Records : ManagerFor(r) \in Managers
    /\ \A r \in Nat : /\ ManagerFor(r) \in Nat
                      /\ ManagerFor(r) * RecordsPerManager <= r
                      /\ r < (ManagerFor(r) + 1) * RecordsPerManager
    /\ \A r \in Nat : ManagerFor(r) \in Managers => r \in Records
    /\ \A r, q \in Nat : r <= q => ManagerFor(r) <= ManagerFor(q)
    /\ \A m \in Managers : m * RecordsPerManager \in 0 .. NumRecords
    /\ \A m \in Managers, r \in Nat :
          m * RecordsPerManager <= r /\ r < (m + 1) * RecordsPerManager => ManagerFor(r) = m
<1>1. \A r \in Nat : /\ ManagerFor(r) \in Nat
                     /\ ManagerFor(r) * RecordsPerManager <= r
                     /\ r < (ManagerFor(r) + 1) * RecordsPerManager
  <2> TAKE r \in Nat
  <2> DEFINE m == ManagerFor(r)
  <2>1. m \in Nat /\ r % RecordsPerManager \in Nat /\ r % RecordsPerManager < RecordsPerManager
        /\ r = RecordsPerManager * m + (r % RecordsPerManager)
    BY Constants, Division DEF ManagerFor
  <2> HIDE DEF m
  <2>2. m * RecordsPerManager = RecordsPerManager * m
        /\ (m + 1) * RecordsPerManager = RecordsPerManager * m + RecordsPerManager
    BY <2>1, Constants
  <2>3. m \in Nat /\ m * RecordsPerManager <= r /\ r < (m + 1) * RecordsPerManager
    BY <2>1, <2>2, Constants
  <2> QED
    BY <2>3 DEF m
<1>2. ASSUME NEW a \in Nat, NEW b \in Nat, a * RecordsPerManager < b * RecordsPerManager
      PROVE  a < b
  BY <1>2, Constants, Monotone
<1>3. ASSUME NEW r \in Records PROVE ManagerFor(r) \in Managers
  <2>1. r \in Nat /\ r < NumManagers * RecordsPerManager
    BY RecordFacts, Constants DEF NumRecords
  <2>2. ManagerFor(r) * RecordsPerManager < NumManagers * RecordsPerManager
    <3>1. ManagerFor(r) * RecordsPerManager \in Int /\ NumManagers * RecordsPerManager \in Int
      BY <1>1, <2>1, Constants
    <3> QED
      BY <1>1, <2>1, <3>1
  <2> QED
    BY <2>1, <2>2, <1>1, <1>2, Constants DEF Managers
<1>4. ASSUME NEW r \in Nat, ManagerFor(r) \in Managers PROVE r \in Records
  <2>1. ManagerFor(r) + 1 <= NumManagers
    BY <1>4, Constants DEF Managers
  <2>2. (ManagerFor(r) + 1) * RecordsPerManager <= NumManagers * RecordsPerManager
    <3>1. ManagerFor(r) + 1 \in Int /\ NumManagers \in Int /\ RecordsPerManager \in Nat
      BY <1>1, Constants
    <3> QED
      BY <2>1, <3>1, Monotone
  <2> QED
    <3>1. r \in Nat /\ ManagerFor(r) \in Nat /\ RecordsPerManager \in Nat
      BY <1>1, Constants
    <3>2. (ManagerFor(r) + 1) * RecordsPerManager \in Nat
      BY <3>1
    <3>3. r < NumRecords
      BY <2>2, <3>1, <3>2, <1>1, RecordFacts DEF NumRecords
    <3> QED
      BY <3>3, RecordFacts
<1>5. ASSUME NEW r \in Nat, NEW q \in Nat, r <= q PROVE ManagerFor(r) <= ManagerFor(q)
  <2>1. ManagerFor(r) * RecordsPerManager < (ManagerFor(q) + 1) * RecordsPerManager
    <3>1. ManagerFor(r) * RecordsPerManager \in Int /\ (ManagerFor(q) + 1) * RecordsPerManager \in Int
      BY <1>1, Constants
    <3> QED
      BY <1>5, <1>1, <3>1
  <2>2. ManagerFor(r) < ManagerFor(q) + 1
    BY <2>1, <1>1, <1>2
  <2> QED
    BY <2>2, <1>1
<1>6. ASSUME NEW m \in Managers PROVE m * RecordsPerManager \in 0 .. NumRecords
  <2>1. m \in Nat /\ m <= NumManagers
    BY Constants DEF Managers
  <2>2. m * RecordsPerManager \in Nat /\ m * RecordsPerManager <= NumManagers * RecordsPerManager
    BY <2>1, Constants, Monotone
  <2> QED
    BY <2>2, RecordFacts DEF NumRecords
<1>7. ASSUME NEW m \in Managers, NEW r \in Nat, m * RecordsPerManager <= r,
             r < (m + 1) * RecordsPerManager
      PROVE  ManagerFor(r) = m
  <2>1. m \in Nat
    BY DEF Managers
  <2>2. r - RecordsPerManager * m \in 0 .. RecordsPerManager - 1
        /\ r = RecordsPerManager * m + (r - RecordsPerManager * m)
    BY <1>7, <2>1, Constants
  <2>3. r \div RecordsPerManager = m
    BY <2>1, <2>2, Constants, Quotient
  <2> QED
    BY <2>3 DEF ManagerFor
<1> QED
  BY <1>1, <1>3, <1>4, <1>5, <1>6, <1>7

LEMMA RecordAtFacts ==
    ASSUME NEW start \in Nat, NEW r \in Nat, NEW q \in Nat, r <= q
    PROVE  start - q * Alignment <= start - r * Alignment
<1>1. r * Alignment <= q * Alignment
  BY Constants, Monotone
<1> QED
  BY <1>1, Constants

LEMMA SlotFacts ==
    /\ Shards \subseteq Nat /\ \A s \in Shards : s % NumShards = s
    /\ 0 \in Slots /\ 0 \in Shards
    /\ \A k \in Slots, s \in Shards : SlotAt(k, s) \in Slots
    /\ \A b \in Blocks, s \in Shards : SlotOf(b, s) \in Slots
<1>1. ASSUME NEW a \in 0 .. NumAddressBins - 1, NEW s \in Shards PROVE a * NumShards + s \in Slots
  <2>1. a * NumShards <= (NumAddressBins - 1) * NumShards
    BY Constants, Monotone
  <2>2. (NumAddressBins - 1) * NumShards = NumAddressBins * NumShards - NumShards
    BY Constants
  <2> QED
    BY <2>1, <2>2, Constants DEF Shards, Slots
<1>2. ASSUME NEW k \in Slots, NEW s \in Shards PROVE SlotAt(k, s) \in Slots
  <2>1. k \in Nat /\ k < NumAddressBins * NumShards /\ s + k \in Nat
    BY Constants DEF Slots, Shards
  <2>2. k \div NumShards \in Nat /\ k % NumShards \in Nat /\ k = NumShards * (k \div NumShards) + (k % NumShards)
    BY <2>1, Constants, Division
  <2>3. ~(k \div NumShards >= NumAddressBins)
    BY <2>1, <2>2, Constants
  <2>4. (s + k) % NumShards \in Shards
    BY <2>1, Constants, Division DEF Shards
  <2>5. k \div NumShards \in 0 .. NumAddressBins - 1
    BY <2>2, <2>3, Constants
  <2> QED
    BY <2>4, <2>5, <1>1 DEF SlotAt
<1>3. ASSUME NEW b \in Blocks, NEW s \in Shards PROVE SlotOf(b, s) \in Slots
  <2>1. b \div AddressBinSize \in Nat
    BY BlockFacts, Constants, Division
  <2>2. \E x \in {b \div AddressBinSize, NumAddressBins - 1} :
           \A y \in {b \div AddressBinSize, NumAddressBins - 1} : x <= y
    BY <2>1, Constants
  <2>3. AddressBinFor(b) \in 0 .. NumAddressBins - 1
    BY <2>1, <2>2, Constants DEF AddressBinFor, Min
  <2> QED
    BY <2>3, <1>1 DEF SlotOf
<1>4. \A s \in Shards : s % NumShards = s
  <2> TAKE s \in Shards
  <2>1. s \in 0 .. NumShards - 1 /\ NumShards * 0 + s = s /\ 0 \in Nat
    BY Constants DEF Shards
  <2>2. (NumShards * 0 + s) % NumShards = s
    BY <2>1, Constants, Quotient
  <2> QED
    BY <2>1, <2>2
<1>5. 0 \in Slots /\ 0 \in Shards
  <2>1. 0 \in Shards
    BY Constants DEF Shards
  <2>2. 0 * NumShards + 0 \in Slots
    <3>1. 0 \in 0 .. NumAddressBins - 1
      BY Constants
    <3> QED
      BY <3>1, <2>1, <1>1
  <2> QED
    BY <2>1, <2>2, Constants
<1> QED
  BY <1>2, <1>3, <1>4, <1>5 DEF Shards

-----------------------------------------------------------------------------
(* Sequences without repetition, and counting.                             *)

LEMMA Pushed ==
    ASSUME NEW S, NEW s \in Seq(S), NEW r \in S, IsInjective(s), r \notin Range(s)
    PROVE  /\ <<r>> \o s \in Seq(S) /\ IsInjective(<<r>> \o s) /\ Len(<<r>> \o s) = Len(s) + 1
           /\ \A x : x \in Range(<<r>> \o s) <=> x = r \/ x \in Range(s)
<1> DEFINE p == <<r>> \o s
<1>1. p \in Seq(S) /\ Len(p) = Len(s) + 1 /\ p[1] = r
      /\ \A i \in 1 .. Len(s) : p[i + 1] = s[i]
  OBVIOUS
<1>2. DOMAIN p = 1 .. Len(s) + 1 /\ DOMAIN s = 1 .. Len(s) /\ Len(s) \in Nat
  BY <1>1
<1> HIDE DEF p
<1>3. \A i \in DOMAIN p : i = 1 \/ (i - 1 \in DOMAIN s /\ p[i] = s[i - 1])
  BY <1>1, <1>2
<1>4. \A x : x \in Range(p) <=> x = r \/ x \in Range(s)
  <2>1. ASSUME NEW i \in DOMAIN p PROVE p[i] = r \/ p[i] \in Range(s)
    BY <1>1, <1>3 DEF Range
  <2>2. r \in Range(p)
    BY <1>1, <1>2 DEF Range
  <2>3. ASSUME NEW i \in DOMAIN s PROVE s[i] \in Range(p)
    <3>1. i + 1 \in DOMAIN p /\ p[i + 1] = s[i]
      BY <1>1, <1>2
    <3> QED
      BY <3>1 DEF Range
  <2> QED
    BY <2>1, <2>2, <2>3 DEF Range
<1>5. IsInjective(p)
  <2> SUFFICES ASSUME NEW i \in DOMAIN p, NEW j \in DOMAIN p, p[i] = p[j] PROVE i = j
    BY DEF IsInjective
  <2>1. \A k \in DOMAIN p : k # 1 => p[k] # r
    BY <1>3 DEF Range
  <2>2. i = 1 <=> j = 1
    BY <2>1, <1>1
  <2>3. CASE i # 1
    <3>1. i - 1 \in DOMAIN s /\ j - 1 \in DOMAIN s /\ s[i - 1] = s[j - 1]
      BY <2>2, <2>3, <1>3
    <3>2. i - 1 = j - 1
      BY <3>1 DEF IsInjective
    <3> QED
      BY <3>2, <1>2
  <2> QED
    BY <2>2, <2>3
<1> QED
  BY <1>1, <1>4, <1>5 DEF p

LEMMA Popped ==
    ASSUME NEW S, NEW s \in Seq(S), s # <<>>, IsInjective(s)
    PROVE  /\ Head(s) \in S /\ Head(s) \in Range(s) /\ Tail(s) \in Seq(S) /\ IsInjective(Tail(s))
           /\ Len(Tail(s)) = Len(s) - 1
           /\ \A x : x \in Range(Tail(s)) <=> x \in Range(s) /\ x # Head(s)
<1> DEFINE p == Tail(s)
<1>1. p \in Seq(S) /\ Len(p) = Len(s) - 1 /\ Head(s) = s[1] /\ Len(s) \in Nat /\ Len(s) > 0
      /\ \A i \in 1 .. Len(s) - 1 : p[i] = s[i + 1]
  OBVIOUS
<1>2. DOMAIN p = 1 .. Len(s) - 1 /\ DOMAIN s = 1 .. Len(s)
  BY <1>1
<1> HIDE DEF p
<1>3. Head(s) \in S /\ Head(s) \in Range(s)
  BY <1>1, <1>2 DEF Range
<1>4. IsInjective(p)
  <2> SUFFICES ASSUME NEW i \in DOMAIN p, NEW j \in DOMAIN p, p[i] = p[j] PROVE i = j
    BY DEF IsInjective
  <2>1. i + 1 \in DOMAIN s /\ j + 1 \in DOMAIN s /\ s[i + 1] = s[j + 1]
    BY <1>1, <1>2
  <2>2. i + 1 = j + 1
    BY <2>1 DEF IsInjective
  <2> QED
    BY <2>2, <1>2
<1>5. \A x : x \in Range(p) <=> x \in Range(s) /\ x # Head(s)
  <2>1. ASSUME NEW i \in DOMAIN p PROVE p[i] \in Range(s) /\ p[i] # Head(s)
    <3>1. i + 1 \in DOMAIN s /\ 1 \in DOMAIN s /\ p[i] = s[i + 1] /\ i + 1 # 1
      BY <1>1, <1>2
    <3> QED
      BY <3>1, <1>1 DEF Range, IsInjective
  <2>2. ASSUME NEW i \in DOMAIN s, s[i] # Head(s) PROVE s[i] \in Range(p)
    <3>1. i - 1 \in DOMAIN p /\ p[i - 1] = s[i]
      BY <2>2, <1>1, <1>2
    <3> QED
      BY <3>1 DEF Range
  <2> QED
    BY <2>1, <2>2 DEF Range
<1> QED
  BY <1>1, <1>3, <1>4, <1>5 DEF p

LEMMA Split ==
    ASSUME NEW S, NEW s \in Seq(S), IsInjective(s), NEW n \in 0 .. Len(s)
    PROVE  LET a == SubSeq(s, 1, n)
               b == SubSeq(s, n + 1, Len(s))
           IN  /\ a \in Seq(S) /\ b \in Seq(S) /\ IsInjective(a) /\ IsInjective(b)
               /\ Len(a) = n
               /\ \A x : x \in Range(s) <=> x \in Range(a) \/ x \in Range(b)
               /\ \A x : ~(x \in Range(a) /\ x \in Range(b))
<1> DEFINE a == SubSeq(s, 1, n)
           b == SubSeq(s, n + 1, Len(s))
<1>1. /\ a \in Seq(S) /\ Len(a) = n /\ Len(s) \in Nat /\ n \in Nat /\ n <= Len(s)
      /\ DOMAIN a = 1 .. n /\ \A i \in 1 .. n : a[i] = s[i]
  OBVIOUS
<1>2. /\ b \in Seq(S) /\ Len(b) = Len(s) - n
      /\ \A i \in 1 .. Len(s) - n : b[i] = s[n + i]
  OBVIOUS
<1>3. DOMAIN b = 1 .. Len(s) - n /\ DOMAIN s = 1 .. Len(s)
  BY <1>2
<1> HIDE DEF a, b
<1>4. IsInjective(a)
  BY <1>1, <1>3 DEF IsInjective
<1>5. IsInjective(b)
  <2> SUFFICES ASSUME NEW i \in DOMAIN b, NEW j \in DOMAIN b, b[i] = b[j] PROVE i = j
    BY DEF IsInjective
  <2>1. n + i \in DOMAIN s /\ n + j \in DOMAIN s /\ s[n + i] = s[n + j]
    BY <1>1, <1>2, <1>3
  <2>2. n + i = n + j
    BY <2>1 DEF IsInjective
  <2> QED
    BY <2>2, <1>1, <1>3
<1>6. ASSUME NEW i \in DOMAIN s PROVE s[i] \in Range(a) \/ s[i] \in Range(b)
  <2>1. CASE i <= n
    <3>1. i \in DOMAIN a /\ a[i] = s[i]
      BY <2>1, <1>1, <1>3
    <3> QED
      BY <3>1 DEF Range
  <2>2. CASE i > n
    <3>1. i - n \in DOMAIN b /\ n + (i - n) = i
      BY <2>2, <1>1, <1>3
    <3>2. b[i - n] = s[i]
      BY <3>1, <1>2, <1>3
    <3> QED
      BY <3>1, <3>2 DEF Range
  <2> QED
    BY <2>1, <2>2, <1>1, <1>3
<1>7. ASSUME NEW i \in DOMAIN a, NEW j \in DOMAIN b PROVE a[i] # b[j] /\ a[i] \in Range(s) /\ b[j] \in Range(s)
  <2>1. i \in DOMAIN s /\ n + j \in DOMAIN s /\ i # n + j /\ a[i] = s[i] /\ b[j] = s[n + j]
    BY <1>1, <1>2, <1>3
  <2> QED
    BY <2>1 DEF IsInjective, Range
<1>8. ASSUME NEW i \in DOMAIN a PROVE a[i] \in Range(s)
  BY <1>1, <1>3 DEF Range
<1>9. ASSUME NEW j \in DOMAIN b PROVE b[j] \in Range(s)
  <2>1. n + j \in DOMAIN s /\ b[j] = s[n + j]
    BY <1>1, <1>2, <1>3
  <2> QED
    BY <2>1 DEF Range
<1> QED
  BY <1>1, <1>2, <1>4, <1>5, <1>6, <1>7, <1>8, <1>9 DEF Range, a, b

LEMMA Concatenated ==
    ASSUME NEW S, NEW a \in Seq(S), NEW b \in Seq(S)
    PROVE  /\ a \o b \in Seq(S) /\ Len(a \o b) = Len(a) + Len(b)
           /\ \A j \in 1 .. Len(a) + Len(b) :
                 (a \o b)[j] = IF j <= Len(a) THEN a[j] ELSE b[j - Len(a)]
OBVIOUS

LEMMA Removed ==
    ASSUME NEW S, NEW s \in Seq(S), IsInjective(s), NEW i \in DOMAIN s
    PROVE  /\ RemoveAt(s, i) \in Seq(S) /\ IsInjective(RemoveAt(s, i))
           /\ \A x : x \in Range(RemoveAt(s, i)) <=> x \in Range(s) /\ x # s[i]
<1> DEFINE a == SubSeq(s, 1, i - 1)
           b == SubSeq(s, i + 1, Len(s))
           p == a \o b
<1>1. i \in Nat /\ i >= 1 /\ i <= Len(s) /\ Len(s) \in Nat /\ DOMAIN s = 1 .. Len(s)
  OBVIOUS
<1>2. a \in Seq(S) /\ Len(a) = i - 1 /\ \A j \in 1 .. i - 1 : a[j] = s[j]
  BY <1>1
<1>3. b \in Seq(S) /\ Len(b) = Len(s) - i /\ \A j \in 1 .. Len(s) - i : b[j] = s[i + j]
  BY <1>1
<1> HIDE DEF a, b
<1>4. /\ p \in Seq(S) /\ Len(p) = Len(s) - 1
      /\ \A j \in 1 .. Len(s) - 1 : p[j] = IF j <= Len(a) THEN a[j] ELSE b[j - Len(a)]
  <2>1. Len(a) + Len(b) = Len(s) - 1
    BY <1>1, <1>2, <1>3
  <2>2. a \in Seq(S) /\ b \in Seq(S)
    BY <1>2, <1>3
  <2> QED
    BY <2>1, <2>2, Concatenated
<1>5. DOMAIN p = 1 .. Len(s) - 1
  BY <1>4
<1> HIDE DEF p
<1>6. \A j \in DOMAIN p : p[j] = IF j < i THEN s[j] ELSE s[j + 1]
  <2> TAKE j \in DOMAIN p
  <2>1. CASE j < i
    BY <2>1, <1>1, <1>2, <1>4, <1>5
  <2>2. CASE ~(j < i)
    <3>1. j - Len(a) \in 1 .. Len(s) - i /\ i + (j - Len(a)) = j + 1
      BY <2>2, <1>1, <1>2, <1>5
    <3>2. p[j] = b[j - Len(a)]
      <4>1. ~(j <= Len(a))
        BY <2>2, <1>1, <1>2, <1>5
      <4> QED
        BY <4>1, <1>4, <1>5
    <3>3. b[j - Len(a)] = s[i + (j - Len(a))]
      BY <3>1, <1>3
    <3> QED
      BY <3>1, <3>2, <3>3, <2>2
  <2> QED
    BY <2>1, <2>2
<1>7. IsInjective(p)
  <2> SUFFICES ASSUME NEW j \in DOMAIN p, NEW k \in DOMAIN p, p[j] = p[k] PROVE j = k
    BY DEF IsInjective
  <2> DEFINE f(x) == IF x < i THEN x ELSE x + 1
  <2>1. f(j) \in DOMAIN s /\ f(k) \in DOMAIN s /\ s[f(j)] = s[f(k)]
    BY <1>1, <1>5, <1>6
  <2>2. f(j) = f(k)
    BY <2>1 DEF IsInjective
  <2> QED
    BY <2>2, <1>1, <1>5
<1>8. ASSUME NEW j \in DOMAIN p PROVE p[j] \in Range(s) /\ p[j] # s[i]
  <2> DEFINE k == IF j < i THEN j ELSE j + 1
  <2>1. k \in DOMAIN s /\ k # i /\ p[j] = s[k]
    BY <1>1, <1>5, <1>6
  <2> HIDE DEF k
  <2> QED
    BY <2>1 DEF Range, IsInjective
<1>9. ASSUME NEW k \in DOMAIN s, s[k] # s[i] PROVE s[k] \in Range(p)
  <2> DEFINE j == IF k < i THEN k ELSE k - 1
  <2>1. j \in DOMAIN p /\ p[j] = s[k]
    <3>1. k # i /\ k \in 1 .. Len(s)
      BY <1>9, <1>1
    <3>2. CASE k < i
      BY <3>1, <3>2, <1>1, <1>5, <1>6
    <3>3. CASE k > i
      <4>1. k - 1 \in DOMAIN p /\ ~(k - 1 < i) /\ k - 1 + 1 = k
        BY <3>1, <3>3, <1>1, <1>5
      <4>2. p[k - 1] = s[k]
        BY <4>1, <1>6
      <4> QED
        BY <4>1, <4>2, <3>3, <3>1, <1>1
    <3> QED
      BY <3>1, <3>2, <3>3, <1>1
  <2> HIDE DEF j
  <2> QED
    BY <2>1 DEF Range
<1> QED
  BY <1>4, <1>7, <1>8, <1>9 DEF Range, RemoveAt, p, a, b

LEMMA EmptyRange ==
    Range(<<>>) = {} /\ IsInjective(<<>>) /\ Len(<<>>) = 0
BY DEF Range, IsInjective

LEMMA OneMore ==
    ASSUME NEW S, NEW T, NEW x, IsFiniteSet(S), x \notin S, T = S \cup {x}
    PROVE  IsFiniteSet(T) /\ Cardinality(T) = Cardinality(S) + 1 /\ Cardinality(S) \in Nat
BY FS_AddElement, FS_CardinalityType

LEMMA OneLess ==
    ASSUME NEW S, NEW T, NEW x, IsFiniteSet(S), x \in S, T = S \ {x}
    PROVE  /\ IsFiniteSet(T) /\ Cardinality(T) = Cardinality(S) - 1 /\ Cardinality(S) \in Nat
           /\ Cardinality(S) > 0 /\ Cardinality(T) \in Nat
<1>1. IsFiniteSet(T) /\ x \notin T /\ S = T \cup {x}
  BY FS_Subset
<1>2. Cardinality(S) = Cardinality(T) + 1 /\ Cardinality(T) \in Nat
  BY <1>1, OneMore
<1> QED
  BY <1>1, <1>2

LEMMA Paired ==
    ASSUME NEW n \in [Threads -> Nat]
    PROVE  IsFiniteSet(UNION {{t} \X (1 .. n[t]) : t \in Threads})
<1> DEFINE T == {{t} \X (1 .. n[t]) : t \in Threads}
           f == [t \in Threads |-> {t} \X (1 .. n[t])]
<1>1. f \in Surjection(Threads, T)
  BY DEF Surjection
<1>2. IsFiniteSet(T)
  BY <1>1, Constants, FS_Surjection
<1>3. ASSUME NEW t \in Threads PROVE IsFiniteSet({t} \X (1 .. n[t]))
  <2>1. IsFiniteSet({t})
    BY FS_Singleton
  <2>2. IsFiniteSet(1 .. n[t])
    BY FS_Interval
  <2> QED
    BY <2>1, <2>2, FS_Product
<1> QED
  BY <1>2, <1>3, FS_UNION

\* Pairs of a thread and a number up to a count of the thread's.
Pairs(n) == UNION {{t} \X (1 .. n[t]) : t \in Threads}

LEMMA PairsFewer ==
    ASSUME NEW n \in [Threads -> Nat], NEW t \in Threads, NEW k \in Nat, n[t] = k + 1
    PROVE  /\ Cardinality(Pairs([n EXCEPT ![t] = k])) = Cardinality(Pairs(n)) - 1
           /\ Cardinality(Pairs(n)) \in Nat
<1> DEFINE m == [n EXCEPT ![t] = k]
<1>1. IsFiniteSet(Pairs(n))
  BY Paired DEF Pairs
<1>2. \A p : p \in Pairs(n) <=> \E u \in Threads : \E i \in 1 .. n[u] : p = <<u, i>>
  BY DEF Pairs
<1>3. \A p : p \in Pairs(m) <=> \E u \in Threads : \E i \in 1 .. m[u] : p = <<u, i>>
  BY DEF Pairs
<1>4. <<t, k + 1>> \in Pairs(n)
  BY <1>2
<1>5. Pairs(m) = Pairs(n) \ {<<t, k + 1>>}
  <2>1. ASSUME NEW u \in Threads, NEW i \in 1 .. m[u]
        PROVE  <<u, i>> \in Pairs(n) /\ <<u, i>> # <<t, k + 1>>
    <3>1. i \in 1 .. n[u] /\ (u = t => i # k + 1)
      OBVIOUS
    <3> QED
      BY <3>1, <1>2
  <2>2. ASSUME NEW u \in Threads, NEW i \in 1 .. n[u], <<u, i>> # <<t, k + 1>>
        PROVE  <<u, i>> \in Pairs(m)
    <3>1. i \in 1 .. m[u]
      BY <2>2
    <3> QED
      BY <3>1, <1>3
  <2>3. Pairs(m) \subseteq Pairs(n) \ {<<t, k + 1>>}
    <3> HIDE DEF m
    <3> QED
      BY <2>1, <1>3
  <2>4. Pairs(n) \ {<<t, k + 1>>} \subseteq Pairs(m)
    <3> HIDE DEF m
    <3> QED
      BY <2>2, <1>2
  <2> QED
    BY <2>3, <2>4
<1> QED
  BY <1>1, <1>4, <1>5, OneLess

-----------------------------------------------------------------------------
(* What a step leaves alone.  Each lemma says which values a part of the   *)
(* invariant reads: where they stay as they are, so does the part.         *)

\* Thread t goes from one place of its call to another.
Moves(t, d) == \A u \in Threads : call'[u] = IF u = t THEN d ELSE call[u]

LEMMA FreePlacesSame ==
    ASSUME NEW kind, NEW of, FreePlaces(kind, of), NEW t \in Threads, NEW d, Moves(t, d),
           \A m \in Managers : managers'[m].free = managers[m].free, count' = count,
           ClearOf(d) = ClearOf(call[t])
    PROVE  FreePlaces(kind, of)'
<1>1. \A u \in Threads : ClearOf(call'[u]) = ClearOf(call[u])
  BY DEF Moves
<1> QED
  BY <1>1 DEF FreePlaces, In

LEMMA SharedPlacesSame ==
    ASSUME NEW kind, NEW of, SharedPlaces(kind, of),
           \A s \in Shards : pending'[s].list = pending[s].list, bins' = bins, held' = held,
           \A b \in held : header'[b].index = header[b].index
    PROVE  SharedPlaces(kind, of)'
BY DEF SharedPlaces, In

LEMMA ThreadPlacesSame ==
    ASSUME NEW kind, NEW of, ThreadPlaces(kind, of), NEW t \in Threads, NEW d, Moves(t, d),
           MdOf(d) = MdOf(call[t]), d.reserved = call[t].reserved, SeenOf(d) = SeenOf(call[t]),
           d.list = call[t].list, d.batch = call[t].batch
    PROVE  ThreadPlaces(kind, of)'
<1>1. \A u \in Threads :
         /\ MdOf(call'[u]) = MdOf(call[u]) /\ call'[u].reserved = call[u].reserved
         /\ SeenOf(call'[u]) = SeenOf(call[u])
         /\ call'[u].list = call[u].list /\ call'[u].batch = call[u].batch
  BY DEF Moves
<1> QED
  BY <1>1 DEF ThreadPlaces, In

LEMMA StatesSame ==
    ASSUME NEW kind, NEW of, StatesAt(kind, of), NEW t \in Threads, NEW d, Moves(t, d),
           \A r \in Records : kind[r] \in {"md", "batch"} => of[r] \in Threads,
           \A r \in Records : /\ record'[r].state = record[r].state
                              /\ record'[r].block = record[r].block,
           \A r \in Records : In(kind, of, r, "md", t) => MdStates(d) = MdStates(call[t]),
           \A r \in Records : In(kind, of, r, "batch", t) => BatchStates(d, r) = BatchStates(call[t], r)
    PROVE  StatesAt(kind, of)'
<1> SUFFICES ASSUME NEW r \in Records
             PROVE  /\ kind[r] \in {"free", "reserved", "seen", "out"} => record'[r].state \in Unused
                    /\ kind[r] \in {"pending", "list"} => record'[r].state = "pending"
                    /\ kind[r] = "bin" => record'[r].state \in Offered
                    /\ kind[r] = "held" => record'[r].state = "inUse" /\ record'[r].block = of[r]
                    /\ kind[r] = "md" => record'[r].state \in MdStates(call'[of[r]])
                    /\ kind[r] = "batch" => record'[r].state \in BatchStates(call'[of[r]], r)
  BY DEF StatesAt
<1>1. kind[r] = "md" => MdStates(call'[of[r]]) = MdStates(call[of[r]])
  BY DEF Moves, In
<1>2. kind[r] = "batch" => BatchStates(call'[of[r]], r) = BatchStates(call[of[r]], r)
  BY DEF Moves, In
<1> QED
  BY <1>1, <1>2 DEF StatesAt

LEMMA DescribedSame ==
    ASSUME Described, NEW t \in Threads, NEW d, Moves(t, d),
           \A u \in Threads : call[u].md # None => call[u].md \in Records,
           \A u \in Threads : HasLocked(call[u]) => call[u].md # None,
           \A r \in Records : /\ record'[r].state = record[r].state
                              /\ record'[r].block = record[r].block
                              /\ record'[r].size = record[r].size,
           HasLocked(d) => HasLocked(call[t]) /\ d.block = call[t].block /\ d.md = call[t].md
    PROVE  Described'
<1>1. ASSUME NEW u \in Threads, HasLocked(call'[u])
      PROVE  call'[u].block # None /\ record'[call'[u].md].block = call'[u].block
  <2>1. HasLocked(call[u]) /\ call'[u].block = call[u].block /\ call'[u].md = call[u].md
    BY <1>1 DEF Moves
  <2> QED
    BY <2>1 DEF Described
<1>2. \A r \in Records : record'[r].state \notin Unused =>
                            record'[r].block # None /\ record'[r].size \in Sizes
  BY DEF Described
<1> QED
  BY <1>1, <1>2 DEF Described

\* A thread that rolls nothing back, or stops doing so.
Rolls(c) == c.pc \in {"walkRoll", "walkMark", "batchRoll"} \/ (c.pc = "recycle" /\ c.after = "batchScan")

LEMMA RollsFacts ==
    ASSUME NEW c, c.pc \in {"walkRoll", "walkMark"} => c.walk # None,
           ShapeOf(c)
    PROVE  Rolls(c) <=> RollOf(c) # None
BY DEF Rolls, RollOf, ShapeOf, HasMd

LEMMA RollingSame ==
    ASSUME Rolling, Control, NEW t \in Threads, NEW d, Moves(t, d), ~Rolls(d),
           \A u \in Threads : u # t /\ RollOf(call[u]) # None =>
              LET r == RollOf(call[u])
              IN  /\ record'[r].state = record[r].state
                  /\ record'[r].block = record[r].block
                  /\ record'[r].size = record[r].size
    PROVE  Rolling'
<1>1. \A u \in Threads : u # t => call'[u] = call[u]
  BY DEF Moves
<1>2. call'[t] = d /\ RollOf(d) = None /\ d.pc \notin {"walkRoll", "batchRoll"}
  BY DEF Moves, Rolls, RollOf
<1>3. \A u \in Threads : Rolls(call[u]) <=> RollOf(call[u]) # None
  BY RollsFacts DEF Control, PlaceOf
<1>4. ASSUME NEW u \in Threads
      PROVE  /\ RollOf(call'[u]) # None => record'[RollOf(call'[u])].state = "reclaimInProgress"
             /\ call'[u].pc = "walkRoll" => record'[call'[u].walk].block = call'[u].word.pred
             /\ call'[u].pc = "batchRoll" =>
                   record'[call'[u].md].block + record'[call'[u].md].size = call'[u].word.at
  <2>1. CASE u = t
    BY <2>1, <1>2
  <2>2. CASE u # t
    <3>1. call'[u] = call[u]
      BY <2>2, <1>1
    <3>2. call[u].pc = "walkRoll" => RollOf(call[u]) # None /\ RollOf(call[u]) = call[u].walk
      BY <1>3 DEF Rolls, RollOf
    <3>3. call[u].pc = "batchRoll" => RollOf(call[u]) # None /\ RollOf(call[u]) = call[u].md
      BY <1>3 DEF Rolls, RollOf
    <3> QED
      BY <2>2, <3>1, <3>2, <3>3 DEF Rolling
  <2> QED
    BY <2>1, <2>2
<1>5. \A u, v \in Threads : u # v /\ RollOf(call'[u]) # None => RollOf(call'[u]) # RollOf(call'[v])
  BY <1>1, <1>2 DEF Rolling
<1> QED
  BY <1>4, <1>5 DEF Rolling

\* Versions only grow, what is in use stays as it is, and what is held stays held.
LEMMA LateFreesSame ==
    ASSUME LateFrees, NEW t \in Threads, NEW d, Moves(t, d), d.pc # "lock", call[t].pc # "lock",
           late' = late,
           \A u \in Threads : call[u].pc = "lock" =>
              /\ call[u].walk \in Records /\ call[u].expected[1] = "inUse"
              /\ call[u].expected[3] \in Nat,
           \A r \in Records : record[r].version \in Nat,
           held \subseteq held', \A b \in held : header'[b].index = header[b].index,
           \A r \in Records : record'[r].version = record[r].version,
           \A r \in Records : record[r].state = "inUse" =>
              record'[r].state = record[r].state /\ record'[r].block = record[r].block
    PROVE  LateFrees'
<1> SUFFICES ASSUME NEW u \in Threads, call'[u].pc = "lock"
             PROVE  /\ call'[u].expected[3] <= record'[call'[u].walk].version
                    /\ u \in late' => call'[u].expected[3] < record'[call'[u].walk].version
                    /\ u \notin late' => /\ call'[u].block \in held'
                                          /\ header'[call'[u].block].index = call'[u].walk
                                          /\ Word(call[u].walk)' = call'[u].expected
  <2>1. \A u \in Threads : u \in late' => call'[u].pc = "lock"
    BY DEF LateFrees, Moves
  <2> QED
    BY <2>1 DEF LateFrees
<1>1. u # t /\ call'[u] = call[u] /\ call[u].pc = "lock"
  BY DEF Moves
<1>2. record'[call[u].walk].version = record[call[u].walk].version
  BY <1>1
<1>3. u \notin late => Word(call[u].walk)' = call[u].expected
  <2> SUFFICES ASSUME u \notin late PROVE Word(call[u].walk)' = call[u].expected
    OBVIOUS
  <2>1. Word(call[u].walk) = call[u].expected /\ call[u].walk \in Records
    BY <1>1 DEF LateFrees
  <2>2. record[call[u].walk].state = "inUse"
    BY <2>1, <1>1 DEF Word
  <2> QED
    BY <1>1, <2>1, <2>2 DEF Word
<1> QED
  BY <1>1, <1>2, <1>3 DEF LateFrees


LEMMA DescribesSame ==
    ASSUME NEW t \in Threads, NEW d, Moves(t, d), GoneOf(d) = GoneOf(call[t]),
           NEW r \in Records,
           record'[r].state \in Active <=> record[r].state \in Active
    PROVE  Describes(r)' <=> Describes(r)
<1>1. \A u \in Threads : GoneOf(call'[u]) = GoneOf(call[u])
  BY DEF Moves
<1> QED
  BY <1>1 DEF Describes

\* A thread that has a block from the frontier keeps it, or has none.
InFlight(c) == Fresh(c) \/ Advanced(c)
SameFlight(c, d) ==
    /\ (Fresh(d) <=> Fresh(c)) /\ (Advanced(d) <=> Advanced(c))
    /\ InFlight(c) => d.block = c.block /\ d.word = c.word /\ d.bin = c.bin

LEMMA OwnersSame ==
    ASSUME NEW W, NEW w, NEW H, NEW h, Owners(W, w, H, h), NEW t \in Threads, NEW d, Moves(t, d),
           SameFlight(call[t], d),
           \A r \in Records : /\ Describes(r)' <=> Describes(r)
                              /\ Describes(r) => record'[r].block = record[r].block
    PROVE  Owners(W, w, H, h)'
<1>1. \A u \in Threads : /\ Fresh(call'[u]) <=> Fresh(call[u])
                         /\ Advanced(call'[u]) <=> Advanced(call[u])
                         /\ Fresh(call[u]) \/ Advanced(call[u]) => call'[u].block = call[u].block
  BY DEF Moves, SameFlight, InFlight
<1>2. W \subseteq Blocks /\ H \subseteq Blocks /\ W \cap H = {}
  BY DEF Owners
<1>3. \A b \in W : w[b] \in Records /\ Describes(w[b])' /\ record'[w[b]].block = b
  BY DEF Owners
<1>4. \A r \in Records : Describes(r)' => record'[r].block \in W /\ w[record'[r].block] = r
  BY DEF Owners
<1>5. \A b \in H : /\ h[b] \in Threads /\ call'[h[b]].block = b
                   /\ Fresh(call'[h[b]]) \/ Advanced(call'[h[b]])
  BY <1>1 DEF Owners
<1>6. \A u \in Threads : Fresh(call'[u]) \/ Advanced(call'[u]) =>
                            call'[u].block \in H /\ h[call'[u].block] = u
  BY <1>1 DEF Owners
<1> QED
  BY <1>2, <1>3, <1>4, <1>5, <1>6 DEF Owners

LEMMA ExtentsSame ==
    ASSUME NEW W, NEW w, NEW H, NEW h, NEW End, NEW Pred, Extents(W, w, H, h, End, Pred),
           Owners(W, w, H, h), NEW t \in Threads, NEW d, Moves(t, d),
           SameFlight(call[t], d),
           \A r \in Records : Describes(r) => record'[r].size = record[r].size,
           \A b \in Blocks : /\ header'[b].size = header[b].size
                             /\ header'[b].previous = header[b].previous
    PROVE  Extents(W, w, H, h, End, Pred)'
<1>1. \A b \in H : /\ Advanced(call'[h[b]]) <=> Advanced(call[h[b]])
                   /\ call'[h[b]].word = call[h[b]].word /\ call'[h[b]].bin = call[h[b]].bin
  BY DEF Moves, SameFlight, InFlight, Owners
<1>2. \A b \in H : NextFrontier(call'[h[b]]) = NextFrontier(call[h[b]])
  BY <1>1 DEF NextFrontier
<1>3. W \subseteq Blocks /\ H \subseteq Blocks /\ \A b \in W : w[b] \in Records /\ Describes(w[b])
  BY DEF Owners
<1>4. \A b \in W : /\ End[b] = b + header'[b].size /\ Pred[b] = header'[b].previous
                   /\ record'[w[b]].size = header'[b].size
  BY <1>3 DEF Extents
<1>5. \A b \in H : IF Advanced(call'[h[b]])
                   THEN End[b] = NextFrontier(call'[h[b]]) /\ Pred[b] = call'[h[b]].word.pred
                   ELSE End[b] = b + header'[b].size /\ Pred[b] = header'[b].previous
                            /\ header'[b].size \in Sizes
  BY <1>1, <1>2, <1>3 DEF Extents
<1> QED
  BY <1>4, <1>5 DEF Extents

LEMMA CutSame ==
    ASSUME NEW B, NEW End, NEW Pred, Cut(B, End, Pred), frontier' = frontier
    PROVE  Cut(B, End, Pred)'
BY DEF Cut, Ends

LEMMA MiddleSame ==
    ASSUME NEW kind, NEW new, NEW W, NEW H, NEW h, NEW End, Middle(kind, W, H, h, End),
           NEW t \in Threads, NEW d, Moves(t, d), Advanced(call[t]) => Advanced(d),
           \A b \in H : h[b] \in Threads, arena'.start = arena.start,
           \A r \in Records : r < count' /\ new[r] # "seen" => r < count /\ kind[r] # "seen"
    PROVE  Middle(new, W, H, h, End)'
<1>1. \A b \in H : ~Advanced(call'[h[b]]) => ~Advanced(call[h[b]])
  BY DEF Moves
<1>2. \A b : Settled(W, H, h, b)' => Settled(W, H, h, b)
  BY <1>1 DEF Settled
<1>3. \A r \in Records : RecordAt(r)' = RecordAt(r)
  BY DEF RecordAt
<1> QED
  BY <1>2, <1>3 DEF Middle

Tiled(kind, W, w, H, h, End, Pred) ==
    /\ Owners(W, w, H, h) /\ Extents(W, w, H, h, End, Pred) /\ Cut(W \cup H, End, Pred)
    /\ Middle(kind, W, H, h, End)

LEMMA TiledSame ==
    ASSUME NEW kind, NEW new, NEW W, NEW w, NEW H, NEW h, NEW End, NEW Pred,
           Tiled(kind, W, w, H, h, End, Pred),
           NEW t \in Threads, NEW d, Moves(t, d), SameFlight(call[t], d),
           \A r \in Records : Describes(r)' <=> Describes(r),
           \A r \in Records : Describes(r) => /\ record'[r].block = record[r].block
                                             /\ record'[r].size = record[r].size,
           \A b \in Blocks : /\ header'[b].size = header[b].size
                             /\ header'[b].previous = header[b].previous,
           frontier' = frontier, arena'.start = arena.start,
           \A r \in Records : r < count' /\ new[r] # "seen" => r < count /\ kind[r] # "seen"
    PROVE  Tiled(new, W, w, H, h, End, Pred)'
<1>1. Owners(W, w, H, h)'
  BY OwnersSame DEF Tiled
<1>2. Extents(W, w, H, h, End, Pred)'
  BY ExtentsSame DEF Tiled
<1>3. Cut(W \cup H, End, Pred)'
  BY CutSame DEF Tiled
<1>4. Middle(new, W, H, h, End)'
  <2>1. \A b \in H : h[b] \in Threads
    BY DEF Tiled, Owners
  <2> QED
    BY <2>1, MiddleSame DEF Tiled, SameFlight
<1> QED
  BY <1>1, <1>2, <1>3, <1>4 DEF Tiled

LEMMA ManagerCountsSame ==
    ASSUME ManagerCounts, NEW t \in Threads, NEW d, Moves(t, d),
           TransientOf(d) = TransientOf(call[t]), count' = count,
           \A m \in Managers : /\ managers'[m].free = managers[m].free
                               /\ managers'[m].active = managers[m].active
    PROVE  ManagerCounts'
<1>1. \A m \in Managers : Waiting(m)' = Waiting(m)
  BY DEF Waiting, Moves
<1>2. \A m \in Managers : Taken(m)' = Taken(m)
  BY DEF Taken
<1> QED
  BY <1>1, <1>2 DEF ManagerCounts

LEMMA TrimsSame ==
    ASSUME Trims, NEW t \in Threads, NEW d, Moves(t, d),
           TrimOf(d) = TrimOf(call[t]), ClearOf(d) = ClearOf(call[t]), count' = count,
           \A m \in Managers : /\ managers'[m].trimming = managers[m].trimming
                               /\ managers[m].trimming => managers'[m].active = managers[m].active,
           \A u \in Threads : TrimOf(call[u]) # None => TrimOf(call[u]) \in Managers
    PROVE  Trims'
<1>1. \A u \in Threads : TrimOf(call'[u]) = TrimOf(call[u]) /\ ClearOf(call'[u]) = ClearOf(call[u])
  BY DEF Moves
<1> QED
  BY <1>1 DEF Trims

LEMMA PendingCountsSame ==
    ASSUME PendingCounts, NEW t \in Threads, NEW d, Moves(t, d),
           d.stolen = call[t].stolen, d.stolen = 0 \/ d.window = call[t].window,
           d.stolen \in Nat,
           \A s \in Shards : pending'[s].list = pending[s].list /\ pending'[s].count = pending[s].count,
           (d.pc = "pushPending") <=> (call[t].pc = "pushPending"),
           d.pc = "pushPending" => d.md = call[t].md,
           \A u \in Threads : call[u].pc = "pushPending" =>
              record'[call[u].md].shard = record[call[u].md].shard
    PROVE  PendingCounts'
<1>1. \A s \in Shards : Stolen(s)' = Stolen(s)
  <2> TAKE s \in Shards
  <2>1. ASSUME NEW x PROVE x \in Stolen(s) <=> \E u \in Threads : call[u].window = s /\ x \in {u} \X (1 .. call[u].stolen)
    BY DEF Stolen
  <2>2. ASSUME NEW x PROVE x \in Stolen(s)' <=> \E u \in Threads : call'[u].window = s /\ x \in {u} \X (1 .. call'[u].stolen)
    BY DEF Stolen
  <2>3. ASSUME NEW u \in Threads, NEW x
        PROVE  (call'[u].window = s /\ x \in {u} \X (1 .. call'[u].stolen))
                  <=> (call[u].window = s /\ x \in {u} \X (1 .. call[u].stolen))
    <3>1. CASE u = t /\ d.stolen = 0
      <4>1. 1 .. call'[u].stolen = {} /\ 1 .. call[u].stolen = {}
        BY <3>1 DEF Moves
      <4> QED
        BY <4>1
    <3>2. CASE ~(u = t /\ d.stolen = 0)
      <4>1. call'[u].window = call[u].window /\ call'[u].stolen = call[u].stolen
        BY <3>2 DEF Moves
      <4> QED
        BY <4>1
    <3> QED
      BY <3>1, <3>2
  <2>4. ASSUME NEW x PROVE x \in Stolen(s)' <=> x \in Stolen(s)
    BY <2>1, <2>2, <2>3
  <2> QED
    BY <2>4
<1>2. \A s \in Shards : Pushing(s)' = Pushing(s)
  <2>1. \A u \in Threads : /\ (call'[u].pc = "pushPending") <=> (call[u].pc = "pushPending")
                           /\ call[u].pc = "pushPending" => call'[u].md = call[u].md
    BY DEF Moves
  <2> QED
    BY <2>1 DEF Pushing
<1> QED
  BY <1>1, <1>2 DEF PendingCounts

\* The calls still to come never grow.
Fewer == /\ arena'.start = arena.start /\ arena' \in [start : Blocks, calls : [Threads -> Nat]]
         /\ Cardinality(Upcoming(arena'.calls)) <= Cardinality(Upcoming(arena.calls))

LEMMA UpcomingFacts ==
    ASSUME NEW n \in [Threads -> Nat]
    PROVE  Cardinality(Upcoming(n)) \in Nat
BY Paired, FS_CardinalityType DEF Upcoming

LEMMA FewerSame == ASSUME TypeInv, arena' = arena PROVE Fewer
<1>1. arena.calls \in [Threads -> Nat]
  BY DEF TypeInv
<1> QED
  BY <1>1, UpcomingFacts DEF Fewer, TypeInv

LEMMA FewerOne ==
    ASSUME TypeInv, NEW t \in Threads, arena.calls[t] > 0,
           arena' = [arena EXCEPT !.calls[t] = @ - 1]
    PROVE  /\ Fewer /\ Cardinality(Upcoming(arena'.calls)) = Cardinality(Upcoming(arena.calls)) - 1
           /\ Cardinality(Upcoming(arena.calls)) \in Nat
<1> DEFINE n == arena.calls
           k == n[t] - 1
<1>1. n \in [Threads -> Nat] /\ k \in Nat /\ n[t] = k + 1
  BY DEF TypeInv
<1>2. /\ arena'.calls = [n EXCEPT ![t] = k] /\ arena'.start = arena.start
      /\ arena' \in [start : Blocks, calls : [Threads -> Nat]]
  BY <1>1 DEF TypeInv
<1> HIDE DEF n, k
<1>3. /\ Cardinality(Pairs([n EXCEPT ![t] = k])) = Cardinality(Pairs(n)) - 1
      /\ Cardinality(Pairs(n)) \in Nat
  BY <1>1, PairsFewer
<1>4. Upcoming(n) = Pairs(n) /\ Upcoming(arena'.calls) = Pairs([n EXCEPT ![t] = k])
  BY <1>2 DEF Upcoming, Pairs
<1> QED
  BY <1>2, <1>3, <1>4 DEF Fewer, n

LEMMA LockingFacts == IsFiniteSet(Locking) /\ Cardinality(Locking) \in Nat
BY Constants, FS_Subset, FS_CardinalityType DEF Locking

LEMMA VersionsSame ==
    ASSUME Versions, TypeInv, NEW t \in Threads, NEW d, Moves(t, d),
           d.pc # "lock", Fewer,
           \A r \in Records : record'[r].version = record[r].version
    PROVE  Versions'
<1>1. Locking' = Locking \ {t}
  BY DEF Locking, Moves
<1>2. /\ Cardinality(Locking') <= Cardinality(Locking) /\ Cardinality(Locking) \in Nat
      /\ Cardinality(Locking') \in Nat
  BY <1>1, LockingFacts, FS_Subset, FS_CardinalityType
<1>3. /\ Cardinality(Upcoming(arena'.calls)) \in Nat /\ Cardinality(Upcoming(arena.calls)) \in Nat
      /\ VersionLimit \in Nat /\ \A r \in Records : record[r].version \in Nat
  BY UpcomingFacts, Constants DEF Fewer, TypeInv, RecordType
<1>4. Cardinality(Upcoming(arena'.calls)) <= Cardinality(Upcoming(arena.calls))
  BY DEF Fewer
<1> QED
  BY <1>2, <1>3, <1>4 DEF Versions

-----------------------------------------------------------------------------
(* How a thread goes on: where the helpers of the handlers lead.           *)

QuietPcs == {"idle", "search", "openWindow", "steal", "reclaimBatch", "batchScan", "publish",
             "reducePending", "reclaim", "walk", "walkLook", "walkClaim", "walkEnd", "trimClaim",
             "close", "reserve", "growReserve", "front", "frontAdvance"}

\* A place where a thread has no record at hand and counts nowhere.
Quiet(c) == c.pc \in QuietPcs \/ (c.pc = "recycle" /\ c.after = "idle")

Keeps(c, d) == /\ d.reserved = c.reserved /\ d.list = c.list /\ d.batch = c.batch
               /\ d.stolen = c.stolen /\ (d.stolen = 0 \/ d.window = c.window)

Well(c) == c \in CallType /\ ShapeOf(c) /\ PlaceOf(c)

Resting(c) == /\ c \in CallType /\ c.md = None /\ c.list = <<>> /\ c.batch = <<>>
              /\ c.stolen = 0 /\ (c.reserved # None <=> c.stage # "first")
Rested(c) == Resting(c) /\ (c.back = "idle" => c.stage = "first")

LEMMA IdleFacts == Idle \in CallType /\ Well(Idle) /\ Quiet(Idle) /\ Resting(Idle)
<1>1. <<>> \in Seq(Records) /\ 0 \in 0 .. NumRecords /\ 0 \in Bins /\ 0 \in Nat
  BY RecordFacts, SizesAssumed DEF SizeClasses
<1>2. Idle \in CallType
  BY <1>1, SlotFacts, BlockFacts
     DEF Idle, CallType, Pcs, MaybeBlock, MaybeRecord, Words, Expectations
<1>3. ShapeOf(Idle) /\ PlaceOf(Idle)
  BY DEF Idle, ShapeOf, PlaceOf, HasMd, HasReserved, Batching, Windowed, FirstPcs, WindowPcs, None
<1> QED
  BY <1>2, <1>3 DEF Well, Quiet, QuietPcs, Resting, Idle, None

LEMMA ReturnedFacts ==
    ASSUME NEW c, Rested(c)
    PROVE  Well(Returned(c)) /\ Quiet(Returned(c)) /\ Keeps(c, Returned(c)) /\ Returned(c).pc # "frontAdvance"
<1> DEFINE d == [c EXCEPT !.pc = "search", !.back = "idle", !.slot = 0, !.window = 0,
                          !.force = FALSE, !.flush = FALSE]
<1>1. CASE c.back = "idle"
  <2>1. Returned(c) = Idle /\ c.reserved = None
    BY <1>1 DEF Returned, Rested, Resting
  <2> QED
    BY <2>1, IdleFacts DEF Keeps, Rested, Resting, Idle
<1>2. CASE c.back # "idle"
  <2>1. Returned(c) = d
    BY <1>2 DEF Returned
  <2>2. d \in CallType
    BY SlotFacts DEF Rested, Resting, CallType, Pcs
  <2>3. /\ d.pc = "search" /\ d.md = None /\ d.list = <<>> /\ d.batch = <<>> /\ d.stolen = 0
        /\ d.reserved = c.reserved /\ d.stage = c.stage
    BY DEF Rested, Resting, CallType
  <2> HIDE DEF d
  <2>4. ShapeOf(d) /\ PlaceOf(d)
    BY <2>3 DEF Rested, Resting, ShapeOf, PlaceOf, HasMd, HasReserved, Batching, Windowed,
                FirstPcs, WindowPcs
  <2> QED
    BY <2>1, <2>2, <2>3, <2>4 DEF Well, Quiet, QuietPcs, Keeps, Rested, Resting
<1> QED
  BY <1>1, <1>2


LEMMA Zeros == 0 \in 0 .. NumRecords /\ 0 \in Slots /\ 0 \in Shards /\ 0 \in Nat
BY SlotFacts, RecordFacts

\* A thread with nothing but a record it reserved, on its way.
LEMMA RestedGoes ==
    ASSUME NEW d, Resting(d), d.pc \in QuietPcs,
           d.pc \in WindowPcs => (d.back = "idle" => d.stage = "first"),
           d.pc \notin {"idle", "reclaimBatch", "publish", "walkLook", "walkClaim"},
           d.pc \in {"front", "frontAdvance"} => FALSE,
           d.pc \in {"reserve", "growReserve"} => d.stage = "first",
           d.pc = "trimClaim" => d.seen > 0
    PROVE  Well(d) /\ Quiet(d)
<1>1. ShapeOf(d)
  BY DEF Resting, ShapeOf, HasMd, HasReserved, Batching, Windowed, FirstPcs, WindowPcs, QuietPcs
<1>2. PlaceOf(d)
  BY DEF Resting, PlaceOf, QuietPcs
<1> QED
  BY <1>1, <1>2 DEF Well, Quiet, Resting

LEMMA OpeningFacts ==
    ASSUME NEW c, Rested(c)
    PROVE  Well(Opening(c)) /\ Quiet(Opening(c)) /\ Keeps(c, Opening(c)) /\ Opening(c).pc # "frontAdvance"
<1> DEFINE d == [c EXCEPT !.pc = "openWindow"]
<1>1. CASE Opening(c) = Returned(c)
  BY <1>1, ReturnedFacts
<1>2. CASE Opening(c) # Returned(c)
  <2>1. Opening(c) = d
    BY <1>2 DEF Opening
  <2>2. d \in CallType /\ d.pc = "openWindow" /\ d.stage = c.stage /\ d.back = c.back /\ d.md = c.md
        /\ d.reserved = c.reserved /\ d.list = c.list /\ d.batch = c.batch
        /\ d.stolen = c.stolen
    <3>1. d \in CallType
      BY DEF Rested, Resting, CallType, Pcs, WindowPcs
    <3>2. d.pc = "openWindow" /\ d.stage = c.stage /\ d.back = c.back /\ d.md = c.md
          /\ d.reserved = c.reserved /\ d.list = c.list /\ d.batch = c.batch
          /\ d.stolen = c.stolen
      BY DEF Rested, Resting, CallType
    <3> QED
      BY <3>1, <3>2
  <2> HIDE DEF d
  <2> QED
    BY <2>1, <2>2, RestedGoes DEF Rested, Resting, QuietPcs, Keeps
<1> QED
  BY <1>1, <1>2

LEMMA WindowEndsFacts ==
    ASSUME NEW c, Rested(c)
    PROVE  Well(WindowEnds(c)) /\ Quiet(WindowEnds(c)) /\ Keeps(c, WindowEnds(c)) /\ WindowEnds(c).pc # "frontAdvance"
<1> DEFINE d == [c EXCEPT !.pc = "close", !.seen = 0]
           e == [c EXCEPT !.pc = "steal", !.window = @ + 1, !.seen = 0]
           f == [c EXCEPT !.seen = 0]
<1>1. CASE WindowEnds(c) = d
  <2>2. d \in CallType /\ d.pc = "close" /\ d.stage = c.stage /\ d.back = c.back /\ d.md = c.md
        /\ d.reserved = c.reserved /\ d.list = c.list /\ d.batch = c.batch
        /\ d.stolen = c.stolen
    <3>0. c \in CallType /\ 0 \in 0 .. NumRecords /\ "close" \in Pcs
      BY Zeros DEF Rested, Resting, Pcs, WindowPcs
    <3>1. d \in CallType
      BY <3>0 DEF CallType
    <3>2. d.pc = "close" /\ d.stage = c.stage /\ d.back = c.back /\ d.md = c.md
          /\ d.reserved = c.reserved /\ d.list = c.list /\ d.batch = c.batch
          /\ d.stolen = c.stolen
      BY DEF Rested, Resting, CallType
    <3> QED
      BY <3>1, <3>2
  <2> HIDE DEF d
  <2> QED
    BY <1>1, <2>2, RestedGoes DEF Rested, Resting, QuietPcs, Keeps
<1>2. CASE WindowEnds(c) = e /\ c.window < NumShards - 1
  <2>1. c.window + 1 \in Shards /\ 0 \in 0 .. NumRecords
    BY <1>2, Constants, RecordFacts DEF Rested, Resting, CallType, Shards
  <2>2. e \in CallType /\ e.pc = "steal" /\ e.stage = c.stage /\ e.back = c.back /\ e.md = c.md
        /\ e.reserved = c.reserved /\ e.list = c.list /\ e.batch = c.batch
        /\ e.stolen = c.stolen
    <3>0. c \in CallType /\ "steal" \in Pcs
      BY DEF Rested, Resting, Pcs, WindowPcs
    <3>1. e \in CallType
      BY <3>0, <2>1 DEF CallType
    <3>2. e.pc = "steal" /\ e.stage = c.stage /\ e.back = c.back /\ e.md = c.md
          /\ e.reserved = c.reserved /\ e.list = c.list /\ e.batch = c.batch
          /\ e.stolen = c.stolen
      BY DEF Rested, Resting, CallType
    <3> QED
      BY <3>1, <3>2
  <2> HIDE DEF e
  <2> QED
    BY <1>2, <2>2, RestedGoes DEF Rested, Resting, QuietPcs, Keeps
<1>3. CASE WindowEnds(c) = Returned(f)
  <2>2. f \in CallType /\ f.stage = c.stage /\ f.back = c.back /\ f.md = c.md
        /\ f.reserved = c.reserved /\ f.list = c.list /\ f.batch = c.batch
        /\ f.stolen = c.stolen
    <3>1. f \in CallType
      BY Zeros DEF Rested, Resting, CallType
    <3>2. f.stage = c.stage /\ f.back = c.back /\ f.md = c.md
          /\ f.reserved = c.reserved /\ f.list = c.list /\ f.batch = c.batch
          /\ f.stolen = c.stolen
      BY DEF Rested, Resting, CallType
    <3> QED
      BY <3>1, <3>2
  <2> HIDE DEF f
  <2>3. Rested(f)
    BY <2>2 DEF Rested, Resting
  <2> QED
    BY <1>3, <2>2, <2>3, ReturnedFacts DEF Keeps, Rested, Resting
<1> QED
  BY <1>1, <1>2, <1>3 DEF WindowEnds

LEMMA TrimmingFacts ==
    ASSUME NEW c, Rested(c), count \in 0 .. NumRecords
    PROVE  Well(Trimming(c)) /\ Quiet(Trimming(c)) /\ Keeps(c, Trimming(c)) /\ Trimming(c).pc # "frontAdvance"
<1> DEFINE d == [c EXCEPT !.pc = "trimClaim", !.seen = count]
<1>1. CASE Trimming(c) = WindowEnds(c)
  BY <1>1, WindowEndsFacts
<1>2. CASE Trimming(c) # WindowEnds(c)
  <2>1. Trimming(c) = d /\ count # 0
    BY <1>2 DEF Trimming
  <2>2. d \in CallType /\ d.pc = "trimClaim" /\ d.stage = c.stage /\ d.back = c.back /\ d.md = c.md
        /\ d.reserved = c.reserved /\ d.list = c.list /\ d.batch = c.batch
        /\ d.stolen = c.stolen /\ d.seen = count
    <3>1. d \in CallType
      BY DEF Rested, Resting, CallType, Pcs, WindowPcs
    <3>2. d.pc = "trimClaim" /\ d.stage = c.stage /\ d.back = c.back /\ d.md = c.md
          /\ d.reserved = c.reserved /\ d.list = c.list /\ d.batch = c.batch
          /\ d.stolen = c.stolen /\ d.seen = count
      BY DEF Rested, Resting, CallType
    <3> QED
      BY <3>1, <3>2
  <2> HIDE DEF d
  <2>3. count > 0
    BY <2>1, RecordFacts
  <2> QED
    BY <2>1, <2>2, <2>3, RestedGoes DEF Rested, Resting, QuietPcs, Keeps
<1> QED
  BY <1>1, <1>2

LEMMA NextSlotFacts ==
    ASSUME NEW c, Resting(c), c.pc \in {"search", "claim"}
    PROVE  Well(NextSlot(c)) /\ Quiet(NextSlot(c)) /\ Keeps(c, NextSlot(c)) /\ NextSlot(c).pc # "frontAdvance"
<1> DEFINE d == [c EXCEPT !.pc = "search", !.slot = @ + 1]
           e == [c EXCEPT !.pc = "reserve", !.slot = 0, !.manager = 0]
           f == [c EXCEPT !.pc = "steal", !.slot = 0, !.stage = "flushed",
                          !.back = "search", !.flush = TRUE, !.window = 0]
           g == [c EXCEPT !.pc = "recycle", !.slot = 0, !.after = "idle"]
<1>0. c.stage \in {"first", "forced", "flushed"}
  BY DEF Resting, CallType
<1>1. CASE NextSlot(c) = d /\ c.slot + 1 \in Slots
  <2>2. d \in CallType /\ d.pc = "search" /\ d.stage = c.stage /\ d.back = c.back /\ d.md = c.md
        /\ d.reserved = c.reserved /\ d.list = c.list /\ d.batch = c.batch
        /\ d.stolen = c.stolen
    <3>1. d \in CallType
      BY <1>1 DEF Resting, CallType, Pcs
    <3>2. d.pc = "search" /\ d.stage = c.stage /\ d.back = c.back /\ d.md = c.md
          /\ d.reserved = c.reserved /\ d.list = c.list /\ d.batch = c.batch
          /\ d.stolen = c.stolen
      BY DEF Rested, Resting, CallType
    <3> QED
      BY <3>1, <3>2
  <2> HIDE DEF d
  <2> QED
    BY <1>1, <2>2, RestedGoes DEF Resting, QuietPcs, Keeps, WindowPcs
<1>2. CASE NextSlot(c) = e /\ c.stage = "first"
  <2>2. e \in CallType /\ e.pc = "reserve" /\ e.stage = c.stage /\ e.back = c.back /\ e.md = c.md
        /\ e.reserved = c.reserved /\ e.list = c.list /\ e.batch = c.batch
        /\ e.stolen = c.stolen
    <3>0. c \in CallType /\ 0 \in Slots /\ 0 \in Nat /\ "reserve" \in Pcs
      BY Zeros DEF Resting, Pcs, FirstPcs
    <3>1. e \in CallType
      BY <3>0 DEF CallType
    <3>2. e.pc = "reserve" /\ e.stage = c.stage /\ e.back = c.back /\ e.md = c.md
          /\ e.reserved = c.reserved /\ e.list = c.list /\ e.batch = c.batch
          /\ e.stolen = c.stolen
      BY DEF Rested, Resting, CallType
    <3> QED
      BY <3>1, <3>2
  <2> HIDE DEF e
  <2> QED
    BY <1>2, <2>2, RestedGoes DEF Resting, QuietPcs, Keeps, WindowPcs
<1>3. CASE NextSlot(c) = f /\ c.stage = "forced"
  <2>2. f \in CallType /\ f.pc = "steal" /\ f.stage = "flushed" /\ f.back = "search" /\ f.md = c.md
        /\ f.reserved = c.reserved /\ f.list = c.list /\ f.batch = c.batch
        /\ f.stolen = c.stolen
    <3>0. c \in CallType /\ 0 \in Slots /\ 0 \in Shards /\ "steal" \in Pcs
      BY Zeros DEF Resting, Pcs, WindowPcs
    <3>1. f \in CallType
      BY <3>0 DEF CallType
    <3>2. f.pc = "steal" /\ f.stage = "flushed" /\ f.back = "search" /\ f.md = c.md
          /\ f.reserved = c.reserved /\ f.list = c.list /\ f.batch = c.batch
          /\ f.stolen = c.stolen
      BY DEF Rested, Resting, CallType
    <3> QED
      BY <3>1, <3>2
  <2> HIDE DEF f
  <2> QED
    BY <1>3, <2>2, RestedGoes DEF Resting, QuietPcs, Keeps, WindowPcs
<1>4. CASE NextSlot(c) = g /\ c.stage = "flushed"
  <2>2. g \in CallType /\ g.pc = "recycle" /\ g.after = "idle" /\ g.stage = c.stage /\ g.back = c.back
        /\ g.md = c.md /\ g.reserved = c.reserved /\ g.list = c.list
        /\ g.batch = c.batch /\ g.stolen = c.stolen
    <3>1. g \in CallType
      BY Zeros DEF Resting, CallType, Pcs
    <3>2. g.pc = "recycle" /\ g.after = "idle" /\ g.stage = c.stage /\ g.back = c.back
          /\ g.md = c.md /\ g.reserved = c.reserved /\ g.list = c.list
          /\ g.batch = c.batch /\ g.stolen = c.stolen
      BY DEF Rested, Resting, CallType
    <3> QED
      BY <3>1, <3>2
  <2> HIDE DEF g
  <2>3. ShapeOf(g) /\ PlaceOf(g)
    BY <1>4, <2>2 DEF Resting, ShapeOf, PlaceOf, HasMd, HasReserved, Batching, Windowed, FirstPcs, WindowPcs
  <2> QED
    BY <1>4, <2>2, <2>3 DEF Resting, Quiet, Well, Keeps
<1> QED
  BY <1>0, <1>1, <1>2, <1>3, <1>4 DEF NextSlot

LEMMA NoFrontierBlockFacts ==
    ASSUME NEW c, c \in CallType, c.md = None, c.list = <<>>, c.batch = <<>>, c.stolen = 0, c.reserved # None
    PROVE  Well(NoFrontierBlock(c)) /\ Quiet(NoFrontierBlock(c)) /\ Keeps(c, NoFrontierBlock(c)) /\ NoFrontierBlock(c).pc # "frontAdvance"
<1> DEFINE d == [c EXCEPT !.back = "search", !.stage = "forced", !.force = TRUE,
                          !.window = c.shard, !.word = Idle.word]
<1>1. Idle.word \in Words
  BY BlockFacts DEF Idle, Words, MaybeBlock
<1>2. d \in CallType /\ d.stage = "forced" /\ d.back = "search" /\ d.md = c.md
      /\ d.reserved = c.reserved /\ d.list = c.list /\ d.batch = c.batch
      /\ d.stolen = c.stolen
  BY <1>1 DEF CallType
<1>3. NoFrontierBlock(c) = Opening(d)
  BY DEF NoFrontierBlock
<1> HIDE DEF d
<1>4. Rested(d)
  BY <1>2 DEF Rested, Resting
<1> QED
  BY <1>2, <1>3, <1>4, OpeningFacts DEF Keeps

-----------------------------------------------------------------------------
(* The inductive invariant, and what most steps leave of it as it is.      *)

Tiling(kind) == \E W, w, H, h, End, Pred : Tiled(kind, W, w, H, h, End, Pred)

IInv(kind, of) ==
    /\ TypeInv /\ Control /\ Places(kind, of) /\ StatesAt(kind, of) /\ Described /\ Rolling
    /\ LateFrees /\ Tiling(kind) /\ ManagerCounts /\ Trims /\ PendingCounts /\ Versions

Inv == \E kind, of : IInv(kind, of)

LEMMA CallFacts ==
    ASSUME TypeInv, Control, NEW u \in Threads
    PROVE  /\ call[u] \in CallType /\ ShapeOf(call[u]) /\ PlaceOf(call[u])
           /\ call[u].md # None => call[u].md \in Records
           /\ call[u].reserved # None => call[u].reserved \in Records
           /\ HasLocked(call[u]) => call[u].md # None
           /\ RollOf(call[u]) # None => RollOf(call[u]) \in Records
           /\ TrimOf(call[u]) # None => TrimOf(call[u]) \in Managers
           /\ TransientOf(call[u]) # None => TransientOf(call[u]) \in Managers
           /\ call[u].pc = "lock" =>
                 /\ call[u].walk \in Records /\ call[u].block \in Blocks
                 /\ call[u].expected \in States \X MaybeBlock \X Nat
                 /\ call[u].expected[1] = "inUse" /\ call[u].expected[2] = call[u].block
                 /\ call[u].expected[3] \in Nat
<1>1. call[u] \in CallType /\ ShapeOf(call[u]) /\ PlaceOf(call[u])
  BY DEF TypeInv, Control
<1>2. /\ call[u].md \in MaybeRecord /\ call[u].walk \in MaybeRecord /\ call[u].block \in MaybeBlock
      /\ call[u].reserved \in MaybeRecord
      /\ call[u].expected \in Expectations /\ call[u].seen \in 0 .. NumRecords
  BY <1>1 DEF CallType
<1>3. HasLocked(call[u]) => call[u].md # None
  BY <1>1 DEF HasLocked, ShapeOf, HasMd
<1>4. RollOf(call[u]) # None => RollOf(call[u]) \in Records
  BY <1>2 DEF RollOf, MaybeRecord
<1>5. TrimOf(call[u]) # None => TrimOf(call[u]) \in Managers
  <2>1. call[u].pc = "trimShrink" => call[u].seen - 1 \in Records
    BY <1>1, <1>2, RecordFacts DEF PlaceOf
  <2> QED
    BY <2>1, <1>1, ManagerFacts DEF TrimOf, ClearOf, PlaceOf
<1>6. TransientOf(call[u]) # None => TransientOf(call[u]) \in Managers
  BY <1>1, ManagerFacts DEF TransientOf, PlaceOf
<1>7. call[u].pc = "lock" => /\ call[u].walk \in Records /\ call[u].block \in Blocks
                             /\ call[u].expected \in States \X MaybeBlock \X Nat
                             /\ call[u].expected[1] = "inUse" /\ call[u].expected[2] = call[u].block
  BY <1>1, <1>2 DEF PlaceOf, MaybeRecord, MaybeBlock, Expectations
<1>8. call[u].pc = "lock" => call[u].expected[3] \in Nat
  BY <1>7
<1> QED
  BY <1>1, <1>2, <1>3, <1>4, <1>5, <1>6, <1>7, <1>8 DEF MaybeRecord

LEMMA MovesTo ==
    ASSUME TypeInv, NEW t \in Threads, NEW d \in CallType, call' = [call EXCEPT ![t] = d]
    PROVE  Moves(t, d) /\ call' \in [Threads -> CallType]
BY DEF TypeInv, Moves

LEMMA ControlSame ==
    ASSUME Control, NEW t \in Threads, NEW d, Moves(t, d), Well(d), arena'.start = arena.start,
           SameFlight(call[t], d), d.pc = "frontAdvance" => NextFrontier(d) <= arena.start
    PROVE  Control'
<1>1. \A u \in Threads : ShapeOf(call'[u]) /\ PlaceOf(call'[u])
  BY DEF Control, Well, Moves
<1>2. ASSUME NEW u \in Threads, call'[u].pc \in {"frontAdvance", "frontRecheck", "frontUndo"}
      PROVE  NextFrontier(call'[u]) <= arena'.start
  <2>1. CASE u # t
    BY <2>1, <1>2 DEF Control, Room, Moves
  <2>2. CASE u = t /\ d.pc # "frontAdvance"
    <3>1. Advanced(d) /\ call'[u] = d
      BY <2>2, <1>2 DEF Moves, Advanced
    <3>2. Advanced(call[t]) /\ d.word = call[t].word /\ d.bin = call[t].bin
      BY <3>1 DEF SameFlight, InFlight
    <3> QED
      BY <3>1, <3>2, <2>2 DEF NextFrontier, Control, Room, Advanced
  <2> QED
    BY <2>1, <2>2, <1>2 DEF Moves
<1> QED
  BY <1>1, <1>2 DEF Control, Room

LEMMA TilingSame ==
    ASSUME NEW kind, NEW new, Tiling(kind),
           NEW t \in Threads, NEW d, Moves(t, d), SameFlight(call[t], d),
           \A r \in Records : Describes(r)' <=> Describes(r),
           \A r \in Records : Describes(r) => /\ record'[r].block = record[r].block
                                             /\ record'[r].size = record[r].size,
           \A b \in Blocks : /\ header'[b].size = header[b].size
                             /\ header'[b].previous = header[b].previous,
           frontier' = frontier, arena'.start = arena.start,
           \A r \in Records : r < count' /\ new[r] # "seen" => r < count /\ kind[r] # "seen"
    PROVE  Tiling(new)'
<1> PICK W, w, H, h, End, Pred : Tiled(kind, W, w, H, h, End, Pred)
  BY DEF Tiling
<1>1. Tiled(new, W, w, H, h, End, Pred)'
  BY TiledSame
<1> QED
  BY <1>1 DEF Tiling

\* A step that touches no state of a record but from and to a block's states.
LEMMA Still ==
    ASSUME NEW kind, NEW of, IInv(kind, of), NEW new, NEW t \in Threads, NEW d, Moves(t, d), Well(d),
           frontier' = frontier, header' = header, held' = held, late' = late, Fewer,
           \A r \in Records : /\ Describes(r) => record'[r].block = record[r].block
                              /\ record'[r].size = record[r].size
                              /\ record'[r].version = record[r].version,
           \A r \in Records : record[r].state = "inUse" => /\ record'[r].state = "inUse"
                                                           /\ record'[r].block = record[r].block,
           \A r \in Records : Describes(r)' <=> Describes(r),
           call[t].pc # "lock", d.pc # "lock", SameFlight(call[t], d),
           d.pc = "frontAdvance" => NextFrontier(d) <= arena.start,
           \A r \in Records : r < count' /\ new[r] # "seen" => r < count /\ kind[r] # "seen"
    PROVE  Control' /\ LateFrees' /\ Tiling(new)' /\ Versions'
<1>1. Control'
  BY ControlSame DEF IInv, Fewer
<1>2. LateFrees'
  <2>1. \A u \in Threads : call[u].pc = "lock" =>
           /\ call[u].walk \in Records /\ call[u].expected[1] = "inUse"
           /\ call[u].expected[3] \in Nat
    BY CallFacts DEF IInv
  <2>2. \A r \in Records : record[r].version \in Nat
    BY DEF IInv, TypeInv, RecordType
  <2> QED
    BY <2>1, <2>2, LateFreesSame DEF IInv
<1>3. Tiling(new)'
  BY TilingSame DEF IInv, Fewer
<1>4. Versions'
  BY VersionsSame DEF IInv
<1> QED
  BY <1>1, <1>2, <1>3, <1>4

LEMMA DescribesStay ==
    ASSUME NEW t \in Threads, NEW d, Moves(t, d), GoneOf(d) = GoneOf(call[t]),
           \A r \in Records : record'[r].state \in Active <=> record[r].state \in Active
    PROVE  \A r \in Records : Describes(r)' <=> Describes(r)
<1> TAKE r \in Records
<1> QED
  BY DescribesSame

\* A step that writes no record and rolls nothing back.
LEMMA Quieter ==
    ASSUME NEW kind, NEW of, IInv(kind, of), NEW new, NEW t \in Threads, NEW d, Moves(t, d), Well(d),
           frontier' = frontier, header' = header, record' = record, held' = held, late' = late,
           Fewer,
           ~Rolls(d), GoneOf(call[t]) = None, call[t].pc # "lock", d.pc # "lock",
           SameFlight(call[t], d), d.pc = "frontAdvance" => NextFrontier(d) <= arena.start,
           HasLocked(d) => HasLocked(call[t]) /\ d.block = call[t].block /\ d.md = call[t].md,
           \A r \in Records : r < count' /\ new[r] # "seen" => r < count /\ kind[r] # "seen"
    PROVE  Control' /\ Described' /\ Rolling' /\ LateFrees' /\ Tiling(new)' /\ Versions'
<1>1. GoneOf(d) = None
  BY DEF Rolls, GoneOf
<1>2. \A r \in Records : Describes(r)' <=> Describes(r)
  BY <1>1, DescribesStay
<1>3. Control' /\ LateFrees' /\ Tiling(new)' /\ Versions'
  BY <1>2, Still
<1>4. Described'
  <2>1. \A u \in Threads : /\ call[u].md # None => call[u].md \in Records
                           /\ HasLocked(call[u]) => call[u].md # None
    BY CallFacts DEF IInv
  <2> QED
    BY <2>1, DescribedSame DEF IInv
<1>5. Rolling'
  BY RollingSame DEF IInv
<1> QED
  BY <1>3, <1>4, <1>5

-----------------------------------------------------------------------------
(* One record changes its place, and every other one stays.                *)

Put(f, r, x) == [q \in Records |-> IF q = r THEN x ELSE f[q]]
Elsewhere(kind, of, new, nof, r) == \A q \in Records : q # r => new[q] = kind[q] /\ nof[q] = of[q]

LEMMA PutFacts ==
    ASSUME NEW kind, NEW of, kind \in [Records -> Kinds], NEW r \in Records, NEW k \in Kinds, NEW o
    PROVE  /\ Put(kind, r, k) \in [Records -> Kinds]
           /\ Elsewhere(kind, of, Put(kind, r, k), Put(of, r, o), r)
           /\ Put(kind, r, k)[r] = k /\ Put(of, r, o)[r] = o
BY DEF Put, Elsewhere

ThreadKinds == {"md", "reserved", "seen", "list", "batch"}

FreeMoved(new, nof, r) ==
    /\ \A m \in Managers : IsInjective(managers'[m].free)
    /\ \A m \in Managers, q \in Records :
          q \in Range(managers'[m].free) <=> IF q = r THEN In(new, nof, r, "free", m)
                                             ELSE q \in Range(managers[m].free)
    /\ new[r] = "free" => nof[r] = ManagerFor(r)
    /\ \A q \in Records : q < count' <=> IF q = r THEN new[r] # "out" ELSE q < count

LEMMA FreePlacesPut ==
    ASSUME NEW kind, NEW of, NEW new, NEW nof, FreePlaces(kind, of),
           NEW r \in Records, Elsewhere(kind, of, new, nof, r),
           NEW t \in Threads, NEW d, Moves(t, d), ClearOf(d) = ClearOf(call[t]),
           FreeMoved(new, nof, r)
    PROVE  FreePlaces(new, nof)'
<1>1. \A u \in Threads : ClearOf(call'[u]) = ClearOf(call[u])
  BY DEF Moves
<1>2. \A q \in Records : \A x, y : q # r => (In(new, nof, q, x, y) <=> In(kind, of, q, x, y))
  BY DEF In, Elsewhere
<1>3. \A m \in Managers, q \in Records : q \in Range(managers'[m].free) <=> In(new, nof, q, "free", m)
  BY <1>2 DEF FreePlaces, FreeMoved
<1>4. /\ \A q \in Records : new[q] = "free" => nof[q] = ManagerFor(q)
      /\ \A q \in Records : q < count' => new[q] # "out"
      /\ \A q \in Records : ~(q < count') => new[q] \in {"out", "free"}
  BY DEF FreePlaces, Elsewhere, FreeMoved
<1>5. ASSUME NEW q \in Records, ~(q < count'), new[q] = "free"
      PROVE  \E u \in Threads : ClearOf(call'[u]) = ManagerFor(q)
  <2>1. q # r /\ ~(q < count) /\ kind[q] = "free"
    BY <1>5 DEF Elsewhere, FreeMoved
  <2>2. PICK u \in Threads : ClearOf(call[u]) = ManagerFor(q)
    BY <2>1 DEF FreePlaces
  <2> QED
    BY <1>1, <2>2
<1> QED
  BY <1>3, <1>4, <1>5 DEF FreePlaces, FreeMoved, In

PendingMoved(new, nof, r) ==
    /\ \A s \in Shards : IsInjective(pending'[s].list)
    /\ \A s \in Shards, q \in Records :
          q \in Range(pending'[s].list) <=> IF q = r THEN In(new, nof, r, "pending", s)
                                            ELSE q \in Range(pending[s].list)
    /\ new[r] = "pending" => nof[r] \in Shards

BinsMoved(new, nof, r) ==
    /\ \A b \in Bins, k \in Slots : IsInjective(bins'[b][k])
    /\ \A b \in Bins, k \in Slots, q \in Records :
          q \in Range(bins'[b][k]) <=> IF q = r THEN In(new, nof, r, "bin", <<b, k>>)
                                       ELSE q \in Range(bins[b][k])
    /\ new[r] = "bin" => nof[r] \in Bins \X Slots

HeldMoved(new, nof, r) ==
    /\ new[r] = "held" => nof[r] \in held' /\ header'[nof[r]].index = r
    /\ \A b \in held' : IF header'[b].index = r THEN In(new, nof, r, "held", b)
                        ELSE b \in held /\ header'[b].index = header[b].index
    /\ \A b \in held : header[b].index # r =>
          b \in held' /\ header'[b].index = header[b].index

LEMMA SharedPlacesPut ==
    ASSUME NEW kind, NEW of, NEW new, NEW nof, SharedPlaces(kind, of),
           NEW r \in Records, Elsewhere(kind, of, new, nof, r),
           \A b \in held : header[b].index \in Records,
           PendingMoved(new, nof, r), BinsMoved(new, nof, r), HeldMoved(new, nof, r)
    PROVE  SharedPlaces(new, nof)'
<1>1. \A q \in Records : \A x, y : q # r => (In(new, nof, q, x, y) <=> In(kind, of, q, x, y))
  BY DEF In, Elsewhere
<1>2. \A s \in Shards, q \in Records : q \in Range(pending'[s].list) <=> In(new, nof, q, "pending", s)
  BY <1>1 DEF SharedPlaces, PendingMoved
<1>3. \A b \in Bins, k \in Slots, q \in Records :
         q \in Range(bins'[b][k]) <=> In(new, nof, q, "bin", <<b, k>>)
  <2> TAKE b \in Bins, k \in Slots, q \in Records
  <2>1. q \in Range(bins[b][k]) <=> In(kind, of, q, "bin", <<b, k>>)
    BY DEF SharedPlaces
  <2>2. q # r => (In(new, nof, q, "bin", <<b, k>>) <=> In(kind, of, q, "bin", <<b, k>>))
    BY <1>1
  <2> QED
    BY <2>1, <2>2 DEF BinsMoved
<1>4. \A q \in Records : /\ new[q] = "pending" => nof[q] \in Shards
                         /\ new[q] = "bin" => nof[q] \in Bins \X Slots
  BY DEF SharedPlaces, Elsewhere, PendingMoved, BinsMoved
<1>5. \A b \in held' : In(new, nof, header'[b].index, "held", b)
  <2> TAKE b \in held'
  <2>1. CASE header'[b].index = r
    BY <2>1 DEF HeldMoved
  <2>2. CASE header'[b].index # r
    <3>1. b \in held /\ header'[b].index = header[b].index /\ header[b].index \in Records
      BY <2>2 DEF HeldMoved
    <3>2. In(kind, of, header[b].index, "held", b)
      BY <3>1 DEF SharedPlaces
    <3> QED
      BY <2>2, <3>1, <3>2, <1>1
  <2> QED
    BY <2>1, <2>2
<1>6. \A q \in Records : new[q] = "held" => nof[q] \in held' /\ header'[nof[q]].index = q
  BY DEF SharedPlaces, Elsewhere, HeldMoved
<1>7. /\ \A s \in Shards : IsInjective(pending'[s].list)
      /\ \A b \in Bins, k \in Slots : IsInjective(bins'[b][k])
  BY DEF PendingMoved, BinsMoved
<1> QED
  BY <1>2, <1>3, <1>4, <1>5, <1>6, <1>7 DEF SharedPlaces, In

ThreadMoved(new, r, t, d) ==
    /\ \A q \in Records : q = MdOf(d) <=> IF q = r THEN new[r] = "md" ELSE q = MdOf(call[t])
    /\ \A q \in Records : q = d.reserved <=> IF q = r THEN new[r] = "reserved"
                                             ELSE q = call[t].reserved
    /\ \A q \in Records : q = SeenOf(d) <=> IF q = r THEN new[r] = "seen" ELSE q = SeenOf(call[t])
    /\ IsInjective(d.list) /\ IsInjective(d.batch)
    /\ \A q \in Records : q \in Range(d.list) <=> IF q = r THEN new[r] = "list"
                                                  ELSE q \in Range(call[t].list)
    /\ \A q \in Records : q \in Range(d.batch) <=> IF q = r THEN new[r] = "batch"
                                                   ELSE q \in Range(call[t].batch)

LEMMA ThreadPlacesPut ==
    ASSUME NEW kind, NEW of, NEW new, NEW nof, ThreadPlaces(kind, of),
           NEW r \in Records, Elsewhere(kind, of, new, nof, r),
           NEW t \in Threads, NEW d, Moves(t, d),
           kind[r] \in ThreadKinds => of[r] = t, new[r] \in ThreadKinds => nof[r] = t,
           ThreadMoved(new, r, t, d)
    PROVE  ThreadPlaces(new, nof)'
<1>1. \A q \in Records : \A x, y : q # r => (In(new, nof, q, x, y) <=> In(kind, of, q, x, y))
  BY DEF In, Elsewhere
<1>2. ASSUME NEW u \in Threads, NEW q \in Records
      PROVE  /\ q = MdOf(call'[u]) <=> In(new, nof, q, "md", u)
             /\ q = call'[u].reserved <=> In(new, nof, q, "reserved", u)
             /\ q = SeenOf(call'[u]) <=> In(new, nof, q, "seen", u)
             /\ q \in Range(call'[u].list) <=> In(new, nof, q, "list", u)
             /\ q \in Range(call'[u].batch) <=> In(new, nof, q, "batch", u)
  <2>1. CASE u = t /\ q = r
    BY <2>1 DEF Moves, In, ThreadKinds, ThreadMoved
  <2>2. CASE u = t /\ q # r
    BY <2>2, <1>1 DEF Moves, ThreadPlaces, ThreadMoved
  <2>3. CASE u # t /\ q = r
    <3>1. \A x \in ThreadKinds : ~In(new, nof, q, x, u) /\ ~In(kind, of, q, x, u)
      BY <2>3 DEF In
    <3>2. call'[u] = call[u]
      BY <2>3 DEF Moves
    <3> QED
      BY <3>1, <3>2 DEF ThreadPlaces, ThreadKinds
  <2>4. CASE u # t /\ q # r
    BY <2>4, <1>1 DEF Moves, ThreadPlaces
  <2> QED
    BY <2>1, <2>2, <2>3, <2>4
<1>3. \A u \in Threads : IsInjective(call'[u].list) /\ IsInjective(call'[u].batch)
  BY DEF Moves, ThreadPlaces, ThreadMoved
<1>4. \A q \in Records : new[q] \in {"md", "reserved", "seen", "list", "batch"} => nof[q] \in Threads
  BY DEF ThreadPlaces, Elsewhere, ThreadKinds
<1> QED
  BY <1>2, <1>3, <1>4 DEF ThreadPlaces, In

\* The states at the places, when a step writes the state of one record only.
LEMMA StatesPut ==
    ASSUME NEW kind, NEW of, NEW new, NEW nof, StatesAt(kind, of),
           NEW r \in Records, Elsewhere(kind, of, new, nof, r),
           NEW t \in Threads, NEW d, Moves(t, d),
           \A q \in Records : q # r => /\ record'[q].state = record[q].state
                                      /\ record'[q].block = record[q].block,
           \A q \in Records : kind[q] \in {"md", "batch"} => of[q] \in Threads,
           \A q \in Records : q # r /\ In(kind, of, q, "md", t) =>
              record[q].state \in MdStates(d),
           \A q \in Records : q # r /\ In(kind, of, q, "batch", t) =>
              record[q].state \in BatchStates(d, q),
           new[r] \in {"free", "reserved", "seen", "out"} => record'[r].state \in Unused,
           new[r] \in {"pending", "list"} => record'[r].state = "pending",
           new[r] = "bin" => record'[r].state \in Offered,
           new[r] = "held" => record'[r].state = "inUse" /\ record'[r].block = nof[r],
           new[r] = "md" => record'[r].state \in MdStates(call'[nof[r]]),
           new[r] = "batch" => record'[r].state \in BatchStates(call'[nof[r]], r)
    PROVE  StatesAt(new, nof)'
<1> SUFFICES ASSUME NEW q \in Records
             PROVE  /\ new[q] \in {"free", "reserved", "seen", "out"} => record'[q].state \in Unused
                    /\ new[q] \in {"pending", "list"} => record'[q].state = "pending"
                    /\ new[q] = "bin" => record'[q].state \in Offered
                    /\ new[q] = "held" => record'[q].state = "inUse" /\ record'[q].block = nof[q]
                    /\ new[q] = "md" => record'[q].state \in MdStates(call'[nof[q]])
                    /\ new[q] = "batch" => record'[q].state \in BatchStates(call'[nof[q]], q)
  BY DEF StatesAt
<1>1. CASE q = r
  BY <1>1
<1>2. CASE q # r
  <2>1. new[q] = kind[q] /\ nof[q] = of[q]
    BY <1>2 DEF Elsewhere
  <2>2. record'[q].state = record[q].state /\ record'[q].block = record[q].block
    BY <1>2
  <2>3. kind[q] = "md" => record[q].state \in MdStates(call'[of[q]])
    <3>1. CASE of[q] = t
      BY <3>1, <1>2 DEF Moves, In
    <3>2. CASE of[q] # t
      BY <3>2 DEF Moves, StatesAt
    <3> QED
      BY <3>1, <3>2
  <2>4. kind[q] = "batch" => record[q].state \in BatchStates(call'[of[q]], q)
    <3>1. CASE of[q] = t
      BY <3>1, <1>2 DEF Moves, In
    <3>2. CASE of[q] # t
      BY <3>2 DEF Moves, StatesAt
    <3> QED
      BY <3>1, <3>2
  <2> QED
    BY <2>1, <2>2, <2>3, <2>4 DEF StatesAt
<1> QED
  BY <1>1, <1>2

-----------------------------------------------------------------------------
(* Steps between places where a thread has no record at hand.              *)

LEMMA QuietFacts ==
    ASSUME NEW c, c \in CallType, ShapeOf(c), Quiet(c)
    PROVE  /\ c.md = None /\ MdOf(c) = None /\ SeenOf(c) = None /\ ClearOf(c) = None
           /\ TransientOf(c) = None /\ TrimOf(c) = None /\ GoneOf(c) = None /\ RollOf(c) = None
           /\ ~Rolls(c) /\ ~Fresh(c) /\ ~Advanced(c) /\ ~HasLocked(c)
           /\ c.pc \notin {"lock", "pushPending"}
           /\ \A r \in Records : BatchStates(c, r) = {"pending"}
<1>1. c.pc \in QuietPcs \/ (c.pc = "recycle" /\ c.after = "idle")
  BY DEF Quiet
<1>2. c.pc \notin {"claim", "finish", "countPending", "pushPending", "batchRoll", "release", "lock",
                   "growRecheck", "growUndo", "trimClear", "trimShrink", "popRecord", "growCheck",
                   "grow", "walkRoll", "walkMark", "frontRecheck", "frontUndo", "pushFree"}
      /\ ~(c.pc = "recycle" /\ c.after \in {"search", "finish", "batchScan"})
  BY <1>1 DEF QuietPcs
<1>3. c.md = None
  BY <1>2 DEF ShapeOf, HasMd
<1>4. MdOf(c) = None /\ SeenOf(c) = None /\ ClearOf(c) = None
  BY <1>2, <1>3 DEF MdOf, SeenOf, ClearOf
<1>5. TransientOf(c) = None /\ TrimOf(c) = None /\ RollOf(c) = None /\ OfferOf(c) = None
  BY <1>2, <1>4 DEF TransientOf, TrimOf, RollOf, OfferOf
<1>6. GoneOf(c) = None /\ ~Rolls(c) /\ ~Fresh(c) /\ ~Advanced(c) /\ ~HasLocked(c)
  BY <1>2 DEF GoneOf, Rolls, Fresh, Advanced, HasLocked
<1>7. \A r \in Records : BatchStates(c, r) = {"pending"}
  BY <1>5, RecordFacts DEF BatchStates
<1> QED
  BY <1>2, <1>3, <1>4, <1>5, <1>6, <1>7

LEMMA PlacesTyped ==
    ASSUME NEW kind, NEW of, IInv(kind, of)
    PROVE  /\ kind \in [Records -> Kinds]
           /\ FreePlaces(kind, of) /\ SharedPlaces(kind, of) /\ ThreadPlaces(kind, of)
           /\ \A r \in Records : kind[r] \in ThreadKinds => of[r] \in Threads
           /\ \A r \in Records : kind[r] \notin {"free", "out"} => r < count
           /\ \A b \in held : b \in Blocks /\ header[b].index \in Records
BY DEF IInv, Places, ThreadPlaces, FreePlaces, ThreadKinds, TypeInv, HeaderType

LEMMA QuietStep ==
    ASSUME NEW kind, NEW of, IInv(kind, of), NEW t \in Threads, NEW d,
           Quiet(call[t]), Quiet(d), Well(d), Keeps(call[t], d), call' = [call EXCEPT ![t] = d],
           UNCHANGED <<frontier, count, managers, header, record, bins, held, late>>, Fewer,
           pending' \in [Shards -> [list : Seq(Records), count : Nat, open : BOOLEAN]],
           \A s \in Shards : pending'[s].list = pending[s].list /\ pending'[s].count = pending[s].count,
           reclaiming' \in BOOLEAN,
           d.pc = "frontAdvance" => NextFrontier(d) <= arena.start
    PROVE  IInv(kind, of)'
<1>1. TypeInv /\ Control /\ call[t] \in CallType /\ ShapeOf(call[t]) /\ d \in CallType /\ ShapeOf(d)
  BY CallFacts DEF IInv, Well
<1>2. Moves(t, d) /\ call' \in [Threads -> CallType]
  BY <1>1, MovesTo
<1>3. /\ call[t].md = None /\ MdOf(call[t]) = None /\ SeenOf(call[t]) = None
      /\ ClearOf(call[t]) = None /\ TransientOf(call[t]) = None /\ TrimOf(call[t]) = None
      /\ GoneOf(call[t]) = None /\ ~Fresh(call[t]) /\ ~Advanced(call[t])
      /\ call[t].pc \notin {"lock", "pushPending"}
      /\ \A r \in Records : BatchStates(call[t], r) = {"pending"}
  BY <1>1, QuietFacts
<1>4. /\ d.md = None /\ MdOf(d) = None /\ SeenOf(d) = None
      /\ ClearOf(d) = None /\ TransientOf(d) = None /\ TrimOf(d) = None
      /\ GoneOf(d) = None /\ ~Rolls(d) /\ ~Fresh(d) /\ ~Advanced(d) /\ ~HasLocked(d)
      /\ d.pc \notin {"lock", "pushPending"}
      /\ \A r \in Records : BatchStates(d, r) = {"pending"}
  BY <1>1, QuietFacts
<1>5. TypeInv'
  BY <1>1, <1>2 DEF TypeInv, Fewer
<1>6. SameFlight(call[t], d)
  BY <1>3, <1>4 DEF SameFlight, InFlight
<1>7. Control' /\ Described' /\ Rolling' /\ LateFrees' /\ Tiling(kind)' /\ Versions'
  BY <1>2, <1>3, <1>4, <1>6, Quieter
<1>8. Places(kind, of)'
  <2>1. FreePlaces(kind, of)'
    BY <1>2, <1>3, <1>4, FreePlacesSame, PlacesTyped
  <2>2. SharedPlaces(kind, of)'
    BY SharedPlacesSame, PlacesTyped
  <2>3. ThreadPlaces(kind, of)'
    BY <1>2, <1>3, <1>4, ThreadPlacesSame, PlacesTyped DEF Keeps
  <2> QED
    BY <2>1, <2>2, <2>3, PlacesTyped DEF Places
<1>9. StatesAt(kind, of)'
  <2>1. \A r \in Records : ~In(kind, of, r, "md", t)
    BY <1>3, RecordFacts, PlacesTyped DEF ThreadPlaces
  <2>2. \A r \in Records : kind[r] \in {"md", "batch"} => of[r] \in Threads
    BY PlacesTyped DEF ThreadKinds
  <2>3. \A r \in Records : BatchStates(d, r) = BatchStates(call[t], r)
    BY <1>3, <1>4
  <2>4. StatesAt(kind, of) /\ record' = record
    BY DEF IInv
  <2> QED
    BY <1>2, <2>1, <2>2, <2>3, <2>4, StatesSame
<1>10. ManagerCounts'
  BY <1>2, <1>3, <1>4, ManagerCountsSame DEF IInv
<1>11. Trims'
  BY <1>2, <1>3, <1>4, TrimsSame, CallFacts DEF IInv
<1>12. PendingCounts'
  <2>1. d.stolen \in Nat
    BY <1>1 DEF CallType
  <2> QED
    BY <1>2, <1>3, <1>4, <2>1, PendingCountsSame DEF IInv, Keeps
<1> QED
  BY <1>5, <1>7, <1>8, <1>9, <1>10, <1>11, <1>12 DEF IInv

-----------------------------------------------------------------------------
(* The steps that leave every record and every block where it is.          *)

LEMMA RestingFrom ==
    ASSUME NEW c, c \in CallType, ShapeOf(c), Quiet(c), ~Batching(c),
           c.pc \notin {"front", "frontAdvance", "reducePending"}
    PROVE  Resting(c) /\ (c.pc \in WindowPcs => Rested(c))
<1>1. c.md = None
  BY QuietFacts
<1>2. c.list = <<>> /\ c.batch = <<>> /\ c.stolen = 0
  BY DEF ShapeOf
<1>3. c.stage # "first" => c.reserved # None
  <2>1. c.stage # "first" => HasReserved(c)
    BY DEF Quiet, QuietPcs, HasReserved
  <2> QED
    BY <2>1 DEF ShapeOf
<1>4. c.reserved # None => c.stage # "first"
  <2>1. HasReserved(c) => c.stage # "first"
    BY DEF Quiet, QuietPcs, HasReserved
  <2> QED
    BY <2>1 DEF ShapeOf
<1>5. c.pc \in WindowPcs => (c.back = "idle" => c.stage = "first")
  BY DEF ShapeOf, Windowed
<1> QED
  BY <1>1, <1>2, <1>3, <1>4, <1>5 DEF Resting, Rested

\* What every quiet step has in common: it starts from the invariant.
LEMMA QuietStart ==
    ASSUME NEW kind, NEW of, IInv(kind, of), NEW t \in Threads
    PROVE  /\ TypeInv /\ Control /\ call[t] \in CallType /\ ShapeOf(call[t]) /\ PlaceOf(call[t])
           /\ (arena' = arena => Fewer)
           /\ pending \in [Shards -> [list : Seq(Records), count : Nat, open : BOOLEAN]]
           /\ reclaiming \in BOOLEAN /\ count \in 0 .. NumRecords /\ frontier \in Words
BY CallFacts, FewerSame DEF IInv, TypeInv

LEMMA SharedSame ==
    ASSUME NEW kind, NEW of, IInv(kind, of), pending' = pending
    PROVE  /\ pending' \in [Shards -> [list : Seq(Records), count : Nat, open : BOOLEAN]]
           /\ \A s \in Shards : pending'[s].list = pending[s].list /\ pending'[s].count = pending[s].count
BY DEF IInv, TypeInv

LEMMA AllocateStep ==
    ASSUME NEW kind, NEW of, IInv(kind, of), NEW t \in Threads, NEW bytes \in RequestSizes,
           NEW s \in Shards, Allocate(t, bytes, s), Fewer
    PROVE  IInv(kind, of)'
<1> DEFINE bin == FreeBlockBinIndex(TotalSize(bytes, Alignment))
           c == [Idle EXCEPT !.back = "search", !.shard = s, !.window = s, !.bin = bin]
<1>1. bin \in Bins
  BY SizesAssumed DEF SizeClasses, Allocate
<1>2. Idle = call[t]
  BY QuietStart DEF Allocate, ShapeOf
<1>3. call' = [call EXCEPT ![t] = Opening(c)]
  BY DEF Allocate
<1>4. c \in CallType /\ c.md = None /\ c.list = <<>> /\ c.batch = <<>> /\ c.stolen = 0
      /\ c.reserved = None /\ c.stage = "first"
  <2>1. Idle \in CallType
    BY IdleFacts
  <2> HIDE DEF bin
  <2>2. c \in CallType
    BY <1>1, <2>1 DEF CallType
  <2> QED
    BY <2>2 DEF Idle
<1> HIDE DEF c, bin
<1>5. Rested(c)
  BY <1>4 DEF Rested, Resting
<1>6. Well(Opening(c)) /\ Quiet(Opening(c)) /\ Keeps(c, Opening(c)) /\ Opening(c).pc # "frontAdvance"
  BY <1>5, OpeningFacts
<1>7. Keeps(call[t], Opening(c))
  <2>1. /\ Idle.reserved = None /\ Idle.list = <<>> /\ Idle.batch = <<>> /\ Idle.stolen = 0
    BY DEF Idle
  <2> QED
    BY <1>2, <1>4, <1>6, <2>1 DEF Keeps
<1>8. Quiet(call[t])
  BY <1>2, IdleFacts
<1> QED
  BY <1>3, <1>6, <1>7, <1>8, QuietStep, QuietStart, SharedSame DEF Allocate, shared

LEMMA SearchMisses ==
    ASSUME NEW kind, NEW of, IInv(kind, of), NEW t \in Threads, SearchPop(t), arena' = arena,
           bins[call[t].bin][SlotAt(call[t].slot, call[t].shard)] = <<>>
    PROVE  IInv(kind, of)'
<1>1. call[t].pc = "search" /\ call' = [call EXCEPT ![t] = NextSlot(call[t])] /\ UNCHANGED <<shared, held, late>>
  BY DEF SearchPop, shared
<1>2. Quiet(call[t]) /\ Resting(call[t])
  BY <1>1, QuietStart, RestingFrom DEF Quiet, QuietPcs, Batching
<1>3. /\ Well(NextSlot(call[t])) /\ Quiet(NextSlot(call[t])) /\ Keeps(call[t], NextSlot(call[t]))
      /\ NextSlot(call[t]).pc # "frontAdvance"
  BY <1>1, <1>2, NextSlotFacts
<1> QED
  BY <1>1, <1>2, <1>3, QuietStep, QuietStart, SharedSame DEF shared

\* A thread goes on at a place of the same kind, with what it has.
LEMMA QuietGoes ==
    ASSUME NEW kind, NEW of, IInv(kind, of), NEW t \in Threads, NEW d,
           call' = [call EXCEPT ![t] = d], Quiet(call[t]), Well(d), Quiet(d), Keeps(call[t], d),
           d.pc # "frontAdvance",
           UNCHANGED <<frontier, count, managers, header, record, pending, bins, held, late, arena>>,
           reclaiming' \in BOOLEAN
    PROVE  IInv(kind, of)'
BY QuietStep, QuietStart, SharedSame

LEMMA OpenWindowStep ==
    ASSUME NEW kind, NEW of, IInv(kind, of), NEW t \in Threads, OpenWindow(t)
    PROVE  IInv(kind, of)'
<1> DEFINE c == call[t]
           e == [c EXCEPT !.pc = "steal"]
           d == IF pending[c.window].open THEN Returned(c) ELSE e
<1>1. c.pc = "openWindow" /\ call' = [call EXCEPT ![t] = d] /\ c \in CallType /\ ShapeOf(c)
  BY QuietStart DEF OpenWindow
<1>2. Quiet(c) /\ Rested(c)
  BY <1>1, QuietStart, RestingFrom DEF Quiet, QuietPcs, Batching, WindowPcs
<1>3. /\ Well(Returned(c)) /\ Quiet(Returned(c)) /\ Keeps(c, Returned(c))
      /\ Returned(c).pc # "frontAdvance"
  BY <1>2, ReturnedFacts
<1>4. Well(e) /\ Quiet(e) /\ Keeps(c, e) /\ e.pc # "frontAdvance"
  <2>1. e \in CallType
    BY <1>1 DEF CallType, Pcs, WindowPcs
  <2>2. /\ e.pc = "steal" /\ e.md = c.md /\ e.reserved = c.reserved /\ e.list = c.list
        /\ e.batch = c.batch /\ e.stolen = c.stolen /\ e.stage = c.stage /\ e.back = c.back
    BY <1>1 DEF CallType
  <2> HIDE DEF e
  <2> QED
    BY <1>2, <2>1, <2>2, RestedGoes DEF Rested, Resting, QuietPcs, Keeps
<1>5. Well(d) /\ Quiet(d) /\ Keeps(c, d) /\ d.pc # "frontAdvance"
  BY <1>3, <1>4
<1>6. /\ pending' \in [Shards -> [list : Seq(Records), count : Nat, open : BOOLEAN]]
      /\ \A s \in Shards : pending'[s].list = pending[s].list /\ pending'[s].count = pending[s].count
  <2>1. c.window \in Shards /\ pending' = [pending EXCEPT ![c.window].open = TRUE]
        /\ pending \in [Shards -> [list : Seq(Records), count : Nat, open : BOOLEAN]]
    BY <1>1, QuietStart DEF OpenWindow, CallType
  <2> HIDE DEF c, d
  <2> QED
    BY <2>1
<1> HIDE DEF d
<1> QED
  BY <1>1, <1>2, <1>5, <1>6, QuietStep, QuietStart DEF OpenWindow

LEMMA ReclaimBatchStep ==
    ASSUME NEW kind, NEW of, IInv(kind, of), NEW t \in Threads, ReclaimBatch(t)
    PROVE  IInv(kind, of)'
<1> DEFINE c == call[t]
           d == [c EXCEPT !.pc = IF reclaiming THEN "publish" ELSE "batchScan"]
<1>1. c.pc = "reclaimBatch" /\ c \in CallType /\ ShapeOf(c) /\ call' = [call EXCEPT ![t] = d]
  BY QuietStart DEF ReclaimBatch
<1>2. Quiet(c) /\ c.md = None
  BY <1>1, QuietFacts DEF Quiet, QuietPcs
<1>3. d \in CallType
  BY <1>1 DEF CallType, Pcs, WindowPcs
<1>4. /\ d.pc \in {"publish", "batchScan"} /\ d.md = c.md /\ d.reserved = c.reserved /\ d.list = c.list
      /\ d.batch = c.batch /\ d.stolen = c.stolen /\ d.stage = c.stage /\ d.back = c.back
      /\ d.window = c.window
  BY <1>1 DEF CallType
<1> HIDE DEF d
<1>5. ShapeOf(d) /\ PlaceOf(d)
  BY <1>1, <1>2, <1>4 DEF ShapeOf, PlaceOf, HasMd, HasReserved, Batching, Windowed, FirstPcs, WindowPcs
<1>6. Well(d) /\ Quiet(d) /\ Keeps(c, d) /\ d.pc # "frontAdvance"
  BY <1>3, <1>4, <1>5 DEF Well, Quiet, QuietPcs, Keeps
<1> QED
  BY <1>1, <1>2, <1>6, QuietGoes DEF ReclaimBatch


LEMMA FrontierFacts ==
    ASSUME NEW c \in CallType
    PROVE  /\ NextFrontier(c) = c.word.at + AlignUp(BinSize(c.bin))
           /\ NextFrontier(c) \in Nat /\ NextFrontier(c) > c.word.at /\ NextFrontier(c) % Alignment = 0
           /\ AlignUp(BinSize(c.bin)) \in Sizes /\ c.word.at \in Blocks /\ c.word.at \in Nat
<1>1. c.word.at \in Blocks /\ c.bin \in Bins
  BY DEF CallType, Words
<1>2. c.word.at \in Nat
  BY <1>1, BlockFacts
<1> QED
  BY <1>1, <1>2, SizeFacts DEF NextFrontier

LEMMA RecordAtBounds ==
    ASSUME TypeInv, NEW r \in Nat
    PROVE  /\ RecordAt(r) \in Int /\ RecordAt(r) <= arena.start /\ arena.start \in Nat
           /\ RecordAt(r + 1) < RecordAt(r)
<1>1. arena.start \in Nat /\ Alignment \in Nat /\ Alignment > 0
  BY BlockFacts, Constants DEF TypeInv
<1>2. RecordAt(r) = arena.start - r * Alignment /\ RecordAt(r + 1) = arena.start - (r + 1) * Alignment
  BY DEF RecordAt
<1>3. r * Alignment \in Nat /\ (r + 1) * Alignment = r * Alignment + Alignment
  BY <1>1
<1> QED
  BY <1>1, <1>2, <1>3

LEMMA FrontLookStep ==
    ASSUME NEW kind, NEW of, IInv(kind, of), NEW t \in Threads, FrontLook(t)
    PROVE  IInv(kind, of)'
<1> DEFINE c == [call[t] EXCEPT !.word = frontier]
           e == [c EXCEPT !.pc = "frontAdvance"]
           d == IF OverlapsMetadata(NextFrontier(c)) THEN NoFrontierBlock(c) ELSE e
<1>1. call[t].pc = "front" /\ call' = [call EXCEPT ![t] = d] /\ call[t] \in CallType /\ ShapeOf(call[t])
  <2>1. c.pc = "front" /\ call' = [call EXCEPT ![t] = d]
    BY DEF FrontLook
  <2> QED
    BY <2>1, QuietStart DEF CallType
<1>2. c \in CallType
  BY <1>1, QuietStart DEF CallType
<1>3. /\ c.pc = "front" /\ c.md = call[t].md /\ c.reserved = call[t].reserved /\ c.list = call[t].list
      /\ c.batch = call[t].batch /\ c.stolen = call[t].stolen /\ c.stage = call[t].stage
      /\ c.window = call[t].window /\ c.word = frontier
  BY <1>1 DEF CallType
<1>4. e \in CallType
  BY <1>2 DEF CallType, Pcs, FirstPcs
<1>5. /\ e.pc = "frontAdvance" /\ e.md = c.md /\ e.reserved = c.reserved /\ e.list = c.list
      /\ e.batch = c.batch /\ e.stolen = c.stolen /\ e.stage = c.stage
      /\ e.window = c.window /\ e.word = c.word /\ e.bin = c.bin
  BY <1>2 DEF CallType
<1>6. UNCHANGED <<shared, held, late, arena>>
  BY DEF FrontLook
<1> HIDE DEF c, e
<1>7. /\ Quiet(call[t]) /\ c.md = None /\ c.reserved # None /\ c.list = <<>> /\ c.batch = <<>>
      /\ c.stolen = 0 /\ c.stage = "first"
  <2>1. Quiet(call[t]) /\ HasReserved(call[t]) /\ ~Batching(call[t]) /\ ~HasMd(call[t])
    BY <1>1 DEF Quiet, QuietPcs, HasReserved, Batching, HasMd
  <2>2. call[t].stage = "first"
    BY <1>1 DEF ShapeOf, FirstPcs
  <2> QED
    BY <1>1, <1>3, <2>1, <2>2 DEF ShapeOf
<1>8. CASE OverlapsMetadata(NextFrontier(c))
  <2>1. d = NoFrontierBlock(c)
    BY <1>8
  <2>2. Well(d) /\ Quiet(d) /\ Keeps(c, d) /\ d.pc # "frontAdvance"
    BY <1>2, <1>7, <2>1, NoFrontierBlockFacts
  <2>3. Keeps(call[t], d)
    BY <2>2, <1>3, <1>7 DEF Keeps
  <2> HIDE DEF d
  <2> QED
    BY <1>1, <1>6, <1>7, <2>2, <2>3, QuietGoes, QuietStart DEF shared
<1>9. CASE ~OverlapsMetadata(NextFrontier(c))
  <2>1. d = e
    BY <1>9
  <2>2. ShapeOf(e) /\ PlaceOf(e)
    BY <1>5, <1>7 DEF ShapeOf, PlaceOf, HasMd, HasReserved, Batching, Windowed, FirstPcs, WindowPcs
  <2>3. Well(e) /\ Quiet(e) /\ Keeps(call[t], e)
    BY <1>3, <1>4, <1>5, <1>7, <2>2 DEF Well, Quiet, QuietPcs, Keeps
  <2>4. NextFrontier(e) <= arena.start
    <3>1. NextFrontier(e) = NextFrontier(c)
      BY <1>5 DEF NextFrontier
    <3>2. NextFrontier(c) < RecordAt(count + 1)
      <4>1. count + 1 \in Nat
        BY QuietStart
      <4>2. ~(NextFrontier(c) >= RecordAt(count + 1)) /\ RecordAt(count + 1) \in Int
        BY <1>9, <4>1, QuietStart, RecordAtBounds DEF OverlapsMetadata
      <4>3. NextFrontier(c) \in Nat
        BY <1>2, FrontierFacts
      <4> QED
        BY <4>2, <4>3
    <3>3. count + 1 \in Nat
      BY QuietStart
    <3>4. RecordAt(count + 1) \in Int /\ RecordAt(count + 1) <= arena.start /\ arena.start \in Nat
      BY <3>3, QuietStart, RecordAtBounds
    <3>5. NextFrontier(c) \in Nat
      BY <1>2, FrontierFacts
    <3> QED
      BY <3>1, <3>2, <3>4, <3>5
  <2> HIDE DEF d
  <2> QED
    BY <1>1, <1>6, <1>7, <2>1, <2>3, <2>4, QuietStep, QuietStart, SharedSame DEF shared
<1> QED
  BY <1>8, <1>9

LEMMA FrontMisses ==
    ASSUME NEW kind, NEW of, IInv(kind, of), NEW t \in Threads, FrontAdvance(t),
           frontier # call[t].word
    PROVE  IInv(kind, of)'
<1> DEFINE c == call[t]
           d == [c EXCEPT !.pc = "front"]
<1>1. c.pc = "frontAdvance" /\ call' = [call EXCEPT ![t] = d] /\ c \in CallType /\ ShapeOf(c)
      /\ UNCHANGED <<frontier, count, managers, header, record, pending, bins, reclaiming, held, late, arena>>
  BY QuietStart DEF FrontAdvance
<1>2. d \in CallType
  BY <1>1 DEF CallType, Pcs, FirstPcs
<1>3. /\ d.pc = "front" /\ d.md = c.md /\ d.reserved = c.reserved /\ d.list = c.list
      /\ d.batch = c.batch /\ d.stolen = c.stolen /\ d.stage = c.stage /\ d.window = c.window
  BY <1>1 DEF CallType
<1> HIDE DEF d
<1>4. ShapeOf(d) /\ PlaceOf(d)
  BY <1>1, <1>3 DEF ShapeOf, PlaceOf, HasMd, HasReserved, Batching, Windowed, FirstPcs, WindowPcs
<1>5. Well(d) /\ Quiet(d) /\ Keeps(c, d) /\ d.pc # "frontAdvance" /\ Quiet(c)
  BY <1>1, <1>2, <1>3, <1>4 DEF Well, Quiet, QuietPcs, Keeps
<1> QED
  BY <1>1, <1>5, QuietGoes, QuietStart

\* In a window, with no batch: on to a place of its own.
LEMMA WindowGoes ==
    ASSUME NEW kind, NEW of, IInv(kind, of), NEW t \in Threads, NEW d, call' = [call EXCEPT ![t] = d],
           call[t].pc \in WindowPcs, Rested(call[t]), Quiet(call[t]),
           d \in CallType, d.pc \in WindowPcs \cap QuietPcs,
           d.pc \notin {"reclaimBatch", "batchScan", "publish"}, PlaceOf(d),
           d.md = call[t].md, d.reserved = call[t].reserved, d.list = call[t].list,
           d.batch = call[t].batch, d.stolen = call[t].stolen, d.stage = call[t].stage,
           d.back = call[t].back,
           UNCHANGED <<frontier, count, managers, header, record, pending, bins, held, late, arena>>,
           reclaiming' \in BOOLEAN
    PROVE  IInv(kind, of)'
<1>1. ShapeOf(d)
  BY DEF Rested, Resting, ShapeOf, HasMd, HasReserved, Batching, Windowed, FirstPcs, WindowPcs, QuietPcs
<1>2. Well(d) /\ Quiet(d) /\ Keeps(call[t], d) /\ d.pc # "frontAdvance"
  BY <1>1 DEF Well, Quiet, Keeps, Rested, Resting, WindowPcs
<1> QED
  BY <1>2, QuietGoes

LEMMA WindowRests ==
    ASSUME NEW kind, NEW of, IInv(kind, of), NEW t \in Threads,
           call[t].pc \in {"steal", "reclaim", "walk", "walkLook", "walkClaim", "walkEnd", "trimClaim", "close"}
    PROVE  call[t].pc \in WindowPcs /\ Quiet(call[t]) /\ Rested(call[t]) /\ call[t] \in CallType
<1>1. call[t] \in CallType /\ ShapeOf(call[t])
  BY QuietStart
<1>2. call[t].pc \in WindowPcs /\ call[t].pc \in QuietPcs /\ ~Batching(call[t])
  BY DEF WindowPcs, QuietPcs, Batching
<1> QED
  BY <1>1, <1>2, RestingFrom DEF Quiet


LEMMA StealMisses ==
    ASSUME NEW kind, NEW of, IInv(kind, of), NEW t \in Threads, Steal(t),
           pending[call[t].window].list = <<>>
    PROVE  IInv(kind, of)'
<1> DEFINE c == call[t]
           d == [c EXCEPT !.pc = "reclaim"]
<1>1. c.pc = "steal" /\ call' = [call EXCEPT ![t] = d] /\ pending' = [pending EXCEPT ![c.window].list = <<>>]
      /\ UNCHANGED <<frontier, count, managers, header, record, bins, reclaiming, held, late, arena>>
  BY DEF Steal
<1>2. c.pc \in WindowPcs /\ Quiet(c) /\ Rested(c) /\ c \in CallType
  BY <1>1, WindowRests
<1>3. d \in CallType
  BY <1>2 DEF CallType, Pcs, WindowPcs
<1>4. /\ d.pc = "reclaim" /\ d.md = c.md /\ d.reserved = c.reserved /\ d.list = c.list
      /\ d.batch = c.batch /\ d.stolen = c.stolen /\ d.stage = c.stage /\ d.back = c.back
  BY <1>2 DEF CallType
<1>5. pending' = pending
  <2>1. c.window \in Shards /\ pending \in [Shards -> [list : Seq(Records), count : Nat, open : BOOLEAN]]
    BY <1>2, QuietStart DEF CallType
  <2> QED
    BY <1>1, <2>1
<1> HIDE DEF d
<1>6. PlaceOf(d)
  BY <1>4 DEF PlaceOf
<1>7. reclaiming' \in BOOLEAN
  BY <1>1, QuietStart
<1> QED
  BY <1>1, <1>2, <1>3, <1>4, <1>5, <1>6, <1>7, WindowGoes DEF WindowPcs, QuietPcs

LEMMA ReclaimStep ==
    ASSUME NEW kind, NEW of, IInv(kind, of), NEW t \in Threads, Reclaim(t)
    PROVE  IInv(kind, of)'
<1> DEFINE c == call[t]
           d == [c EXCEPT !.pc = "walk"]
<1>1. c.pc = "reclaim" /\ call' = [call EXCEPT ![t] = IF reclaiming THEN Trimming(c) ELSE d]
      /\ UNCHANGED <<frontier, count, managers, header, record, pending, bins, held, late, arena>>
      /\ reclaiming' \in BOOLEAN
  BY DEF Reclaim
<1>2. c.pc \in WindowPcs /\ Quiet(c) /\ Rested(c) /\ c \in CallType
  BY <1>1, WindowRests
<1>3. d \in CallType
  BY <1>2 DEF CallType, Pcs, WindowPcs
<1>4. /\ d.pc = "walk" /\ d.md = c.md /\ d.reserved = c.reserved /\ d.list = c.list
      /\ d.batch = c.batch /\ d.stolen = c.stolen /\ d.stage = c.stage /\ d.back = c.back
  BY <1>2 DEF CallType
<1> HIDE DEF d
<1>5. CASE reclaiming
  <2>1. /\ Well(Trimming(c)) /\ Quiet(Trimming(c)) /\ Keeps(c, Trimming(c))
        /\ Trimming(c).pc # "frontAdvance"
    BY <1>2, QuietStart, TrimmingFacts
  <2> QED
    BY <1>1, <1>2, <1>5, <2>1, QuietGoes
<1>6. CASE ~reclaiming
  <2>1. PlaceOf(d)
    BY <1>4 DEF PlaceOf
  <2> QED
    BY <1>1, <1>2, <1>3, <1>4, <1>6, <2>1, WindowGoes DEF WindowPcs, QuietPcs
<1> QED
  BY <1>5, <1>6

LEMMA WalkStep ==
    ASSUME NEW kind, NEW of, IInv(kind, of), NEW t \in Threads, Walk(t)
    PROVE  IInv(kind, of)'
<1> DEFINE c == call[t]
           d == [c EXCEPT !.pc = IF frontier.pred = None THEN "walkEnd" ELSE "walkLook",
                          !.word = frontier]
<1>1. c.pc = "walk" /\ UNCHANGED <<shared, held, late, arena>>
      /\ call' = [call EXCEPT ![t].pc = IF frontier.pred = None THEN "walkEnd" ELSE "walkLook",
                              ![t].word = frontier]
  BY DEF Walk
<1>2. c.pc \in WindowPcs /\ Quiet(c) /\ Rested(c) /\ c \in CallType
  BY <1>1, WindowRests
<1>3. call' = [call EXCEPT ![t] = d]
  BY <1>1, QuietStart DEF TypeInv, CallType
<1>4. d \in CallType
  <2>1. frontier \in Words /\ "walkEnd" \in Pcs /\ "walkLook" \in Pcs
    BY QuietStart DEF Pcs, WindowPcs
  <2> QED
    BY <1>2, <2>1 DEF CallType
<1>5. /\ d.pc \in {"walkEnd", "walkLook"} /\ d.md = c.md /\ d.reserved = c.reserved /\ d.list = c.list
      /\ d.batch = c.batch /\ d.stolen = c.stolen /\ d.stage = c.stage /\ d.back = c.back
      /\ d.word = frontier /\ (d.pc = "walkLook" => frontier.pred # None)
  BY <1>2 DEF CallType
<1> HIDE DEF d
<1>6. PlaceOf(d)
  BY <1>5 DEF PlaceOf
<1>7. reclaiming' \in BOOLEAN
  BY <1>1, QuietStart DEF shared
<1> QED
  BY <1>1, <1>2, <1>3, <1>4, <1>5, <1>6, <1>7, WindowGoes DEF WindowPcs, QuietPcs, shared

LEMMA WalkLookStep ==
    ASSUME NEW kind, NEW of, IInv(kind, of), NEW t \in Threads, WalkLook(t)
    PROVE  IInv(kind, of)'
<1> DEFINE c == call[t]
           r == header[c.word.pred].index
           d == [c EXCEPT !.pc = "walkClaim", !.walk = r, !.expected = Word(r)]
           e == [c EXCEPT !.pc = "walkEnd"]
           met == r < count /\ record[r].state = "available" /\ record[r].block = c.word.pred
<1>1. c.pc = "walkLook" /\ UNCHANGED <<shared, held, late, arena>>
      /\ call' = [call EXCEPT ![t] = IF met THEN d ELSE e]
  BY DEF WalkLook
<1>2. c.pc \in WindowPcs /\ Quiet(c) /\ Rested(c) /\ c \in CallType /\ PlaceOf(c)
  BY <1>1, WindowRests, QuietStart
<1>3. r \in Records /\ record[r] \in RecordType
  <2>1. c.word.pred \in Blocks
    BY <1>1, <1>2 DEF PlaceOf, CallType, Words, MaybeBlock
  <2> QED
    BY <2>1 DEF IInv, TypeInv, HeaderType
<1>4. Word(r) \in States \X MaybeBlock \X Nat
  BY <1>3 DEF Word, RecordType
<1>5. reclaiming' \in BOOLEAN
  BY <1>1, QuietStart DEF shared
<1>6. CASE met
  <2>1. Word(r)[1] = "available" /\ Word(r)[2] = c.word.pred
    BY <1>6 DEF Word
  <2> HIDE DEF r
  <2>2. d \in CallType
    <3>1. r \in MaybeRecord /\ Word(r) \in Expectations /\ "walkClaim" \in Pcs
      BY <1>3, <1>4 DEF MaybeRecord, Expectations, Pcs, WindowPcs
    <3> QED
      BY <1>2, <3>1 DEF CallType
  <2>3. /\ d.pc = "walkClaim" /\ d.md = c.md /\ d.reserved = c.reserved /\ d.list = c.list
        /\ d.batch = c.batch /\ d.stolen = c.stolen /\ d.stage = c.stage /\ d.back = c.back
        /\ d.word = c.word /\ d.walk = r /\ d.expected = Word(r)
    BY <1>2 DEF CallType
  <2> HIDE DEF d, met
  <2>4. PlaceOf(d)
    <3>1. r # None /\ c.word.pred # None /\ Word(r) # <<>>
      BY <1>1, <1>2, <1>3, <1>4, RecordFacts DEF PlaceOf, Word
    <3> QED
      BY <2>1, <2>3, <3>1 DEF PlaceOf
  <2>5. call' = [call EXCEPT ![t] = d]
    BY <1>1, <1>6
  <2> QED
    BY <1>1, <1>2, <1>5, <2>2, <2>3, <2>4, <2>5, WindowGoes DEF WindowPcs, QuietPcs, shared
<1>7. CASE ~met
  <2>1. e \in CallType
    BY <1>2 DEF CallType, Pcs, WindowPcs
  <2>2. /\ e.pc = "walkEnd" /\ e.md = c.md /\ e.reserved = c.reserved /\ e.list = c.list
        /\ e.batch = c.batch /\ e.stolen = c.stolen /\ e.stage = c.stage /\ e.back = c.back
    BY <1>2 DEF CallType
  <2>3. call' = [call EXCEPT ![t] = e]
    BY <1>1, <1>7
  <2> HIDE DEF e, d, met, r
  <2>4. PlaceOf(e)
    BY <2>2 DEF PlaceOf
  <2> QED
    BY <1>1, <1>2, <1>5, <2>1, <2>2, <2>3, <2>4, WindowGoes DEF WindowPcs, QuietPcs, shared
<1> QED
  BY <1>6, <1>7

LEMMA WalkClaimMisses ==
    ASSUME NEW kind, NEW of, IInv(kind, of), NEW t \in Threads, WalkClaim(t),
           Word(call[t].walk) # call[t].expected
    PROVE  IInv(kind, of)'
<1> DEFINE c == call[t]
           e == [c EXCEPT !.pc = "walkEnd"]
<1>1. c.pc = "walkClaim" /\ call' = [call EXCEPT ![t] = e]
      /\ UNCHANGED <<frontier, count, managers, header, record, pending, bins, reclaiming, held, late, arena>>
  BY DEF WalkClaim
<1>2. c.pc \in WindowPcs /\ Quiet(c) /\ Rested(c) /\ c \in CallType
  BY <1>1, WindowRests
<1>3. e \in CallType
  BY <1>2 DEF CallType, Pcs, WindowPcs
<1>4. /\ e.pc = "walkEnd" /\ e.md = c.md /\ e.reserved = c.reserved /\ e.list = c.list
      /\ e.batch = c.batch /\ e.stolen = c.stolen /\ e.stage = c.stage /\ e.back = c.back
  BY <1>2 DEF CallType
<1> HIDE DEF e
<1>5. PlaceOf(e)
  BY <1>4 DEF PlaceOf
<1>6. reclaiming' \in BOOLEAN
  BY <1>1, QuietStart
<1> QED
  BY <1>1, <1>2, <1>3, <1>4, <1>5, <1>6, WindowGoes DEF WindowPcs, QuietPcs

LEMMA WalkEndStep ==
    ASSUME NEW kind, NEW of, IInv(kind, of), NEW t \in Threads, WalkEnd(t)
    PROVE  IInv(kind, of)'
<1> DEFINE c == call[t]
           e == [c EXCEPT !.walk = None, !.word = Idle.word, !.expected = <<>>]
<1>1. c.pc = "walkEnd" /\ call' = [call EXCEPT ![t] = Trimming(e)] /\ reclaiming' \in BOOLEAN
      /\ UNCHANGED <<frontier, count, managers, header, record, pending, bins, held, late, arena>>
  BY DEF WalkEnd
<1>2. c.pc \in WindowPcs /\ Quiet(c) /\ Rested(c) /\ c \in CallType
  BY <1>1, WindowRests
<1>3. e \in CallType
  <2>1. Idle.word \in Words /\ None \in MaybeRecord /\ <<>> \in Expectations
    BY BlockFacts DEF Idle, Words, MaybeBlock, MaybeRecord, Expectations
  <2> QED
    BY <1>2, <2>1 DEF CallType
<1>4. /\ e.md = c.md /\ e.reserved = c.reserved /\ e.list = c.list
      /\ e.batch = c.batch /\ e.stolen = c.stolen /\ e.stage = c.stage /\ e.back = c.back
  BY <1>2 DEF CallType
<1> HIDE DEF e
<1>5. Rested(e)
  BY <1>2, <1>3, <1>4 DEF Rested, Resting
<1>6. /\ Well(Trimming(e)) /\ Quiet(Trimming(e)) /\ Keeps(e, Trimming(e))
      /\ Trimming(e).pc # "frontAdvance"
  BY <1>5, QuietStart, TrimmingFacts
<1>7. Keeps(c, Trimming(e))
  BY <1>2, <1>4, <1>6 DEF Keeps, Rested, Resting
<1> QED
  BY <1>1, <1>2, <1>6, <1>7, QuietGoes

LEMMA TrimClaimMisses ==
    ASSUME NEW kind, NEW of, IInv(kind, of), NEW t \in Threads, TrimClaim(t), managers' = managers,
           call' = [call EXCEPT ![t] = WindowEnds(call[t])]
    PROVE  IInv(kind, of)'
<1>1. call[t].pc = "trimClaim"
      /\ UNCHANGED <<frontier, count, header, record, pending, bins, reclaiming, held, late, arena>>
  BY DEF TrimClaim
<1>2. Quiet(call[t]) /\ Rested(call[t])
  BY <1>1, WindowRests
<1>3. /\ Well(WindowEnds(call[t])) /\ Quiet(WindowEnds(call[t])) /\ Keeps(call[t], WindowEnds(call[t]))
      /\ WindowEnds(call[t]).pc # "frontAdvance"
  BY <1>2, WindowEndsFacts
<1>4. reclaiming' \in BOOLEAN
  BY <1>1, QuietStart
<1> QED
  BY <1>1, <1>2, <1>3, <1>4, QuietGoes

LEMMA CloseStep ==
    ASSUME NEW kind, NEW of, IInv(kind, of), NEW t \in Threads, Close(t)
    PROVE  IInv(kind, of)'
<1> DEFINE c == call[t]
<1>1. c.pc = "close" /\ call' = [call EXCEPT ![t] = Returned(c)]
      /\ pending' = [pending EXCEPT ![c.window].open = FALSE]
      /\ UNCHANGED <<frontier, count, managers, header, record, bins, reclaiming, held, late, arena>>
  BY DEF Close
<1>2. Quiet(c) /\ Rested(c) /\ c \in CallType
  BY <1>1, WindowRests
<1>3. /\ Well(Returned(c)) /\ Quiet(Returned(c)) /\ Keeps(c, Returned(c))
      /\ Returned(c).pc # "frontAdvance"
  BY <1>2, ReturnedFacts
<1>4. /\ pending' \in [Shards -> [list : Seq(Records), count : Nat, open : BOOLEAN]]
      /\ \A s \in Shards : pending'[s].list = pending[s].list /\ pending'[s].count = pending[s].count
  <2>1. c.window \in Shards /\ pending \in [Shards -> [list : Seq(Records), count : Nat, open : BOOLEAN]]
    BY <1>2, QuietStart DEF CallType
  <2> HIDE DEF c
  <2> QED
    BY <1>1, <2>1
<1> QED
  BY <1>1, <1>2, <1>3, <1>4, QuietStep, QuietStart

\* A thread that looks for a record to reserve: it has nothing yet.
Reserving(c) == c.pc \in {"reserve", "growReserve"}

LEMMA ReservesGoes ==
    ASSUME NEW kind, NEW of, IInv(kind, of), NEW t \in Threads, NEW d,
           Reserving(call[t]), call' = [call EXCEPT ![t] = d],
           d = Idle \/ /\ d \in CallType /\ Reserving(d) /\ d.md = call[t].md
                       /\ d.reserved = call[t].reserved /\ d.list = call[t].list
                       /\ d.batch = call[t].batch /\ d.stolen = call[t].stolen
                       /\ d.stage = call[t].stage,
           UNCHANGED <<frontier, count, managers, header, record, pending, bins, reclaiming, held, late, arena>>
    PROVE  IInv(kind, of)'
<1>1. call[t] \in CallType /\ ShapeOf(call[t]) /\ Quiet(call[t]) /\ reclaiming' \in BOOLEAN
  BY QuietStart DEF Quiet, QuietPcs, Reserving
<1>2. Resting(call[t]) /\ call[t].stage = "first" /\ call[t].reserved = None
  BY <1>1, RestingFrom DEF Batching, ShapeOf, FirstPcs, Resting, Reserving
<1>3. Well(d) /\ Quiet(d) /\ Keeps(call[t], d) /\ d.pc # "frontAdvance"
  <2>1. CASE d = Idle
    BY <2>1, <1>2, IdleFacts DEF Keeps, Resting, Idle
  <2>2. CASE d # Idle
    BY <2>2, <1>2, RestedGoes DEF Resting, QuietPcs, WindowPcs, Keeps, Reserving
  <2> QED
    BY <2>1, <2>2
<1> QED
  BY <1>1, <1>3, QuietGoes

LEMMA ReserveMisses ==
    ASSUME NEW kind, NEW of, IInv(kind, of), NEW t \in Threads, Reserve(t), managers' = managers,
           call'[t].pc # "popRecord"
    PROVE  IInv(kind, of)'
<1> DEFINE c == IF call[t].manager = 0 THEN [call[t] EXCEPT !.seen = count] ELSE call[t]
           d == [c EXCEPT !.pc = "growReserve"]
           e == [c EXCEPT !.manager = @ + 1]
<1>1. call[t] \in CallType /\ count \in 0 .. NumRecords /\ call \in [Threads -> CallType]
  BY QuietStart DEF TypeInv
<1>2. c \in CallType /\ c.pc = call[t].pc /\ c.md = call[t].md /\ c.reserved = call[t].reserved
      /\ c.list = call[t].list /\ c.batch = call[t].batch /\ c.stolen = call[t].stolen
      /\ c.stage = call[t].stage
  BY <1>1 DEF CallType
<1>3. c.pc = "reserve"
      /\ UNCHANGED <<frontier, count, managers, header, record, pending, bins, reclaiming, held, late, arena>>
      /\ \/ call' = [call EXCEPT ![t] = d] \/ call' = [call EXCEPT ![t] = e]
         \/ call' = [call EXCEPT ![t] = [c EXCEPT !.pc = "popRecord"]]
  BY DEF Reserve
<1> HIDE DEF c
<1>4. call' = [call EXCEPT ![t] = d] \/ call' = [call EXCEPT ![t] = e]
  <2>1. [c EXCEPT !.pc = "popRecord"].pc = "popRecord"
    BY <1>2 DEF CallType
  <2> QED
    BY <1>1, <1>3, <2>1
<1>5. d \in CallType /\ e \in CallType
  <2>1. "growReserve" \in Pcs /\ c.manager + 1 \in Nat
    BY <1>2 DEF Pcs, FirstPcs, CallType
  <2> QED
    BY <1>2, <2>1 DEF CallType
<1>6. /\ d.pc = "growReserve" /\ d.md = c.md /\ d.reserved = c.reserved /\ d.list = c.list
      /\ d.batch = c.batch /\ d.stolen = c.stolen /\ d.stage = c.stage
      /\ e.pc = c.pc /\ e.md = c.md /\ e.reserved = c.reserved /\ e.list = c.list
      /\ e.batch = c.batch /\ e.stolen = c.stolen /\ e.stage = c.stage
  BY <1>2 DEF CallType
<1> HIDE DEF d, e
<1>7. Reserving(call[t]) /\ Reserving(d) /\ Reserving(e)
  BY <1>2, <1>3, <1>6 DEF Reserving
<1> QED
  BY <1>2, <1>3, <1>4, <1>5, <1>6, <1>7, ReservesGoes

LEMMA GrowReserveMisses ==
    ASSUME NEW kind, NEW of, IInv(kind, of), NEW t \in Threads, GrowReserve(t), managers' = managers,
           call'[t].pc # "growCheck"
    PROVE  IInv(kind, of)'
<1> DEFINE c == call[t]
           e == [c EXCEPT !.seen = count]
<1>1. c \in CallType /\ count \in 0 .. NumRecords /\ call \in [Threads -> CallType]
  BY QuietStart DEF TypeInv
<1>2. c.pc = "growReserve"
      /\ UNCHANGED <<frontier, count, managers, header, record, pending, bins, reclaiming, held, late, arena>>
      /\ \/ call' = [call EXCEPT ![t] = Idle] \/ call' = [call EXCEPT ![t] = e]
         \/ call' = [call EXCEPT ![t].pc = "growCheck", ![t].manager = ManagerFor(c.seen)]
  BY DEF GrowReserve
<1>3. call' = [call EXCEPT ![t] = Idle] \/ call' = [call EXCEPT ![t] = e]
  BY <1>1, <1>2 DEF CallType
<1>4. e \in CallType /\ e.pc = c.pc /\ e.md = c.md /\ e.reserved = c.reserved /\ e.list = c.list
      /\ e.batch = c.batch /\ e.stolen = c.stolen /\ e.stage = c.stage
  BY <1>1 DEF CallType
<1> HIDE DEF e
<1>5. Reserving(c) /\ Reserving(e)
  BY <1>2, <1>4 DEF Reserving
<1> QED
  BY <1>2, <1>3, <1>4, <1>5, ReservesGoes

-----------------------------------------------------------------------------
(* Parts of the places that a record which moves elsewhere does not touch. *)

\* A record may go to any place.
Moved(kind, of, new, nof, r, k, o) ==
    new \in [Records -> Kinds] /\ Elsewhere(kind, of, new, nof, r) /\ new[r] = k /\ nof[r] = o

LEMMA CanMove ==
    ASSUME NEW kind, NEW of, kind \in [Records -> Kinds], NEW r \in Records, NEW k \in Kinds, NEW o
    PROVE  \E new, nof : Moved(kind, of, new, nof, r, k, o)
<1>1. Moved(kind, of, Put(kind, r, k), Put(of, r, o), r, k, o)
  BY DEF Moved, Put, Elsewhere
<1> QED
  BY <1>1

LEMMA FreePlacesAway ==
    ASSUME NEW kind, NEW of, NEW new, NEW nof, FreePlaces(kind, of),
           NEW r \in Records, Elsewhere(kind, of, new, nof, r),
           kind[r] \notin {"free", "out"}, new[r] \notin {"free", "out"},
           NEW t \in Threads, NEW d, Moves(t, d), ClearOf(d) = ClearOf(call[t]),
           \A m \in Managers : managers'[m].free = managers[m].free, count' = count
    PROVE  FreePlaces(new, nof)'
<1>1. FreeMoved(new, nof, r)
  BY DEF FreePlaces, In, FreeMoved
<1> QED
  BY <1>1, FreePlacesPut

LEMMA PendingAway ==
    ASSUME NEW kind, NEW of, NEW new, NEW nof, SharedPlaces(kind, of), NEW r \in Records,
           kind[r] # "pending", new[r] # "pending",
           \A s \in Shards : pending'[s].list = pending[s].list
    PROVE  PendingMoved(new, nof, r)
BY DEF SharedPlaces, In, PendingMoved

LEMMA BinsAway ==
    ASSUME NEW kind, NEW of, NEW new, NEW nof, SharedPlaces(kind, of), NEW r \in Records,
           kind[r] # "bin", new[r] # "bin", bins' = bins
    PROVE  BinsMoved(new, nof, r)
<1>1. \A b \in Bins, k \in Slots : r \notin Range(bins[b][k])
  BY DEF SharedPlaces, In
<1>2. \A b \in Bins, k \in Slots : ~In(new, nof, r, "bin", <<b, k>>)
  BY DEF In
<1>3. \A b \in Bins, k \in Slots : IsInjective(bins[b][k])
  BY DEF SharedPlaces
<1> QED
  BY <1>1, <1>2, <1>3 DEF BinsMoved

LEMMA HeldAway ==
    ASSUME NEW kind, NEW of, NEW new, NEW nof, SharedPlaces(kind, of), NEW r \in Records,
           kind[r] # "held", new[r] # "held", held' = held,
           \A b \in held : header'[b].index = header[b].index
    PROVE  HeldMoved(new, nof, r)
<1>1. \A b \in held : header[b].index # r
  BY DEF SharedPlaces, In
<1> QED
  BY <1>1 DEF HeldMoved

LEMMA SharedPlacesAway ==
    ASSUME NEW kind, NEW of, NEW new, NEW nof, SharedPlaces(kind, of), NEW r \in Records,
           Elsewhere(kind, of, new, nof, r),
           kind[r] \notin {"pending", "bin", "held"}, new[r] \notin {"pending", "bin", "held"},
           \A s \in Shards : pending'[s].list = pending[s].list, bins' = bins, held' = held,
           \A b \in held : header[b].index \in Records,
           \A b \in held : header'[b].index = header[b].index
    PROVE  SharedPlaces(new, nof)'
<1>1. kind[r] # "pending" /\ new[r] # "pending" /\ kind[r] # "bin" /\ new[r] # "bin"
      /\ kind[r] # "held" /\ new[r] # "held"
  OBVIOUS
<1>2. PendingMoved(new, nof, r)
  BY <1>1, PendingAway
<1>3. BinsMoved(new, nof, r)
  BY <1>1, BinsAway
<1>4. HeldMoved(new, nof, r)
  BY <1>1, HeldAway
<1> QED
  BY <1>2, <1>3, <1>4, SharedPlacesPut

\* A record outside the hands of a thread is in none of its places.
LEMMA NotInHand ==
    ASSUME NEW kind, NEW of, ThreadPlaces(kind, of), NEW r \in Records, NEW t \in Threads,
           kind[r] \notin ThreadKinds
    PROVE  /\ r # MdOf(call[t]) /\ r # call[t].reserved /\ r # SeenOf(call[t])
           /\ r \notin Range(call[t].list) /\ r \notin Range(call[t].batch)
           /\ IsInjective(call[t].list) /\ IsInjective(call[t].batch)
BY DEF ThreadPlaces, In, ThreadKinds

LEMMA ThreadPlacesAway ==
    ASSUME NEW kind, NEW of, NEW new, NEW nof, ThreadPlaces(kind, of), NEW r \in Records,
           Elsewhere(kind, of, new, nof, r), NEW t \in Threads, NEW d, Moves(t, d),
           kind[r] \notin ThreadKinds, new[r] \notin ThreadKinds,
           MdOf(d) = MdOf(call[t]), d.reserved = call[t].reserved, SeenOf(d) = SeenOf(call[t]),
           d.list = call[t].list, d.batch = call[t].batch
    PROVE  ThreadPlaces(new, nof)'
<1>1. ThreadMoved(new, r, t, d)
  BY NotInHand DEF ThreadMoved, ThreadKinds
<1> QED
  BY <1>1, ThreadPlacesPut

\* The counts of managers, and of shards, when a step leaves them alone.
LEMMA CountsSame ==
    ASSUME NEW kind, NEW of, IInv(kind, of), NEW t \in Threads, NEW d, Moves(t, d),
           TransientOf(d) = TransientOf(call[t]), TrimOf(d) = TrimOf(call[t]),
           ClearOf(d) = ClearOf(call[t]), count' = count, managers' = managers
    PROVE  ManagerCounts' /\ Trims'
<1>1. ManagerCounts'
  BY ManagerCountsSame DEF IInv
<1>2. Trims'
  BY TrimsSame, CallFacts DEF IInv
<1> QED
  BY <1>1, <1>2

LEMMA PendingSame ==
    ASSUME NEW kind, NEW of, IInv(kind, of), NEW t \in Threads, NEW d, Moves(t, d),
           d.stolen = call[t].stolen, d.stolen = 0 \/ d.window = call[t].window,
           \A s \in Shards : pending'[s].list = pending[s].list /\ pending'[s].count = pending[s].count,
           d.pc # "pushPending", call[t].pc # "pushPending",
           \A u \in Threads : call[u].pc = "pushPending" =>
              record'[call[u].md].shard = record[call[u].md].shard
    PROVE  PendingCounts'
<1>1. d.stolen \in Nat
  BY QuietStart DEF CallType
<1> QED
  BY <1>1, PendingCountsSame DEF IInv

-----------------------------------------------------------------------------
(* Records that come from a bin, and go back.                              *)

LEMMA SearchTakes ==
    ASSUME NEW kind, NEW of, IInv(kind, of), NEW t \in Threads, SearchPop(t),
           bins[call[t].bin][SlotAt(call[t].slot, call[t].shard)] # <<>>
    PROVE  Inv'
<1> DEFINE c == call[t]
           k == SlotAt(c.slot, c.shard)
           stack == bins[c.bin][k]
<1>1. c.pc = "search" /\ bins' = [bins EXCEPT ![c.bin][k] = Tail(stack)]
      /\ UNCHANGED <<frontier, count, managers, header, record, pending, reclaiming, held, late, arena>>
      /\ call' = [call EXCEPT ![t].pc = "claim", ![t].md = Head(stack)]
  BY DEF SearchPop
<1>2. Quiet(c) /\ Resting(c) /\ c \in CallType /\ ShapeOf(c) /\ TypeInv
  BY <1>1, QuietStart, RestingFrom DEF Quiet, QuietPcs, Batching
<1>3. c.bin \in Bins /\ k \in Slots /\ stack \in Seq(Records) /\ IsInjective(stack)
  <2>1. c.bin \in Bins /\ k \in Slots
    BY <1>2, SlotFacts DEF CallType
  <2> QED
    BY <2>1, <1>2, PlacesTyped DEF TypeInv, SharedPlaces
<1>a. PICK r \in Records : r = Head(stack)
  BY <1>3, Popped
<1> DEFINE d == [c EXCEPT !.pc = "claim", !.md = r]
<1>4. /\ r \in Range(stack) /\ Tail(stack) \in Seq(Records)
      /\ IsInjective(Tail(stack)) /\ \A q : q \in Range(Tail(stack)) <=> q \in Range(stack) /\ q # r
  BY <1>3, <1>a, Popped
<1>5. In(kind, of, r, "bin", <<c.bin, k>>)
  BY <1>3, <1>4, PlacesTyped DEF SharedPlaces
<1>6. d \in CallType
  <2>1. r \in MaybeRecord /\ "claim" \in Pcs
    BY DEF MaybeRecord, Pcs
  <2> QED
    BY <1>2, <2>1 DEF CallType
<1>7. call' = [call EXCEPT ![t] = d]
  BY <1>1, <1>2, <1>a DEF TypeInv, CallType
<1>8. /\ d.pc = "claim" /\ d.md = r /\ d.reserved = c.reserved /\ d.list = c.list
      /\ d.batch = c.batch /\ d.stolen = c.stolen /\ d.stage = c.stage /\ d.window = c.window
  BY <1>2 DEF CallType
<1> HIDE DEF d
<1>9. ShapeOf(d) /\ PlaceOf(d)
  <2>1. r # None
    BY RecordFacts
  <2> QED
    BY <1>1, <1>2, <1>8, <2>1 DEF Resting, ShapeOf, PlaceOf, HasMd, HasReserved, Batching, Windowed, FirstPcs, WindowPcs
<1>10. Well(d) /\ Moves(t, d) /\ call' \in [Threads -> CallType]
  BY <1>2, <1>6, <1>7, <1>9, MovesTo DEF Well
<1>11. /\ MdOf(c) = None /\ SeenOf(c) = None /\ ClearOf(c) = None /\ TransientOf(c) = None
       /\ TrimOf(c) = None /\ GoneOf(c) = None /\ ~Fresh(c) /\ ~Advanced(c)
  BY <1>2, QuietFacts
<1>12. /\ MdOf(d) = r /\ SeenOf(d) = None /\ ClearOf(d) = None /\ TransientOf(d) = None
       /\ TrimOf(d) = None /\ ~Rolls(d) /\ ~Fresh(d) /\ ~Advanced(d) /\ ~HasLocked(d)
       /\ MdStates(d) = Offered
  BY <1>8 DEF MdOf, SeenOf, ClearOf, TransientOf, TrimOf, Rolls, Fresh, Advanced, HasLocked, MdStates
<1>13. kind \in [Records -> Kinds] /\ kind[r] = "bin" /\ of[r] = <<c.bin, k>>
  BY <1>5, PlacesTyped DEF In
<1> PICK new, nof : Moved(kind, of, new, nof, r, "md", t)
  BY <1>13, CanMove DEF Kinds
<1>14. /\ new \in [Records -> Kinds] /\ Elsewhere(kind, of, new, nof, r)
       /\ new[r] = "md" /\ nof[r] = t
  BY DEF Moved
<1>15. TypeInv'
  <2>1. bins' \in [Bins -> [Slots -> Seq(Records)]]
    BY <1>1, <1>2, <1>3, <1>4 DEF TypeInv
  <2> QED
    BY <1>1, <1>2, <1>10, <2>1 DEF TypeInv
<1>16. SameFlight(c, d)
  BY <1>11, <1>12 DEF SameFlight, InFlight
<1>17. Control' /\ Described' /\ Rolling' /\ LateFrees' /\ Tiling(new)' /\ Versions'
  <2>1. \A q \in Records : q < count' /\ new[q] # "seen" => q < count /\ kind[q] # "seen"
    BY <1>1, <1>13, <1>14 DEF Elsewhere
  <2>2. d.pc # "frontAdvance" /\ d.pc # "lock" /\ c.pc # "lock" /\ Fewer
    BY <1>1, <1>8, QuietStart
  <2> QED
    BY <1>1, <1>10, <1>11, <1>12, <1>16, <2>1, <2>2, Quieter
<1>18. Places(new, nof)'
  <2>1. FreePlaces(new, nof)'
    BY <1>1, <1>10, <1>11, <1>12, <1>13, <1>14, PlacesTyped, FreePlacesAway
  <2>2. SharedPlaces(new, nof)'
    <3>1. \A b \in Bins, j \in Slots : IsInjective(bins'[b][j])
      BY <1>1, <1>2, <1>3, <1>4, PlacesTyped DEF TypeInv, SharedPlaces
    <3>2. ASSUME NEW b \in Bins, NEW j \in Slots, NEW q \in Records
          PROVE  q \in Range(bins'[b][j]) <=> IF q = r THEN In(new, nof, r, "bin", <<b, j>>)
                                              ELSE q \in Range(bins[b][j])
      <4>1. ~In(new, nof, r, "bin", <<b, j>>)
        BY <1>14 DEF In
      <4>2. CASE b = c.bin /\ j = k
        <5>1. bins'[b][j] = Tail(stack)
          BY <1>1, <1>2, <1>3, <4>2 DEF TypeInv
        <5> QED
          BY <1>4, <4>1, <4>2, <5>1
      <4>3. CASE ~(b = c.bin /\ j = k)
        <5>1. bins'[b][j] = bins[b][j]
          BY <1>1, <1>2, <1>3, <4>3 DEF TypeInv
        <5>2. r \notin Range(bins[b][j])
          <6>1. r \in Range(bins[b][j]) => In(kind, of, r, "bin", <<b, j>>)
            BY <1>4, PlacesTyped DEF SharedPlaces
          <6> QED
            BY <6>1, <1>13, <4>3 DEF In
        <5> QED
          BY <4>1, <5>1, <5>2
      <4> QED
        BY <4>2, <4>3
    <3>3. SharedPlaces(kind, of) /\ kind[r] # "pending" /\ new[r] # "pending" /\ kind[r] # "held"
          /\ new[r] # "held" /\ new[r] # "bin"
      BY <1>13, <1>14, PlacesTyped
    <3>4. BinsMoved(new, nof, r)
      BY <3>1, <3>2, <3>3 DEF BinsMoved
    <3>5. PendingMoved(new, nof, r)
      BY <1>1, <3>3, PendingAway
    <3>6. HeldMoved(new, nof, r)
      BY <1>1, <3>3, HeldAway
    <3> QED
      BY <1>14, <3>3, <3>4, <3>5, <3>6, PlacesTyped, SharedPlacesPut
  <2>3. ThreadPlaces(new, nof)'
    <3>1. kind[r] \notin ThreadKinds /\ ThreadPlaces(kind, of)
      BY <1>13, PlacesTyped DEF ThreadKinds
    <3>2. \A q \in Records : q # MdOf(c)
      BY <1>11, RecordFacts
    <3>3. ThreadMoved(new, r, t, d)
      BY <1>8, <1>11, <1>12, <1>14, <3>1, <3>2, NotInHand DEF ThreadMoved
    <3> QED
      BY <1>10, <1>14, <3>1, <3>3, ThreadPlacesPut
  <2>4. new \in [Records -> Kinds]
    BY <1>14
  <2> QED
    BY <2>1, <2>2, <2>3, <2>4 DEF Places
<1>19. StatesAt(new, nof)'
  <2>1. record[r].state \in Offered /\ record' = record /\ StatesAt(kind, of)
    BY <1>1, <1>4, <1>13 DEF IInv, StatesAt
  <2>2. \A q \in Records : kind[q] \in {"md", "batch"} => of[q] \in Threads
    BY PlacesTyped DEF ThreadKinds
  <2>3. \A q \in Records : ~In(kind, of, q, "md", t)
    BY <1>11, RecordFacts, PlacesTyped DEF ThreadPlaces
  <2>4. \A q \in Records : ~In(kind, of, q, "batch", t)
    BY <1>2, EmptyRange, PlacesTyped DEF ThreadPlaces, Resting
  <2>5. call'[t] = d
    BY <1>10 DEF Moves
  <2> QED
    BY <1>4, <1>10, <1>12, <1>14, <2>1, <2>2, <2>3, <2>4, <2>5, StatesPut
<1>20. ManagerCounts' /\ Trims'
  BY <1>1, <1>10, <1>11, <1>12, CountsSame
<1>21. PendingCounts'
  BY <1>1, <1>8, <1>10, PendingSame
<1>22. IInv(new, nof)'
  BY <1>15, <1>17, <1>18, <1>19, <1>20, <1>21 DEF IInv
<1> QED
  BY <1>22 DEF Inv

-----------------------------------------------------------------------------
(* Steps that write the state of one record.                               *)

LEMMA RecordTyped ==
    ASSUME NEW kind, NEW of, IInv(kind, of), NEW r \in Records
    PROVE  /\ record[r] \in RecordType /\ record \in [Records -> RecordType]
           /\ record[r].state \in States /\ record[r].version \in Nat
           /\ record[r].block \in MaybeBlock /\ record[r].shard \in Shards
BY DEF IInv, TypeInv, RecordType

\* A block's record goes from one state to another, and no one holds the block.
LEMMA Restated ==
    ASSUME NEW kind, NEW of, IInv(kind, of), NEW new, NEW t \in Threads, NEW d, Moves(t, d), Well(d),
           NEW r \in Records, NEW s \in Active \ {"inUse"}, record[r].state \in Active \ {"inUse"},
           record' = WithState(r, s), UNCHANGED <<frontier, count, header, held, late, arena>>,
           call[t].pc # "lock", d.pc \notin {"lock", "frontAdvance"}, SameFlight(call[t], d),
           GoneOf(d) = GoneOf(call[t]),
           \A q \in Records : kind[q] = "seen" => new[q] = "seen"
    PROVE  /\ Control' /\ LateFrees' /\ Tiling(new)' /\ Versions'
           /\ record' \in [Records -> RecordType] /\ record'[r].state = s
           /\ \A q \in Records : /\ q # r => record'[q].state = record[q].state
                                 /\ record'[q].block = record[q].block
                                 /\ record'[q].size = record[q].size
                                 /\ record'[q].version = record[q].version
                                 /\ record'[q].shard = record[q].shard
<1>1. record \in [Records -> RecordType] /\ s \in States
  BY RecordTyped DEF Active, States
<1>2. /\ record' \in [Records -> RecordType] /\ record'[r].state = s
      /\ \A q \in Records : /\ q # r => record'[q].state = record[q].state
                            /\ record'[q].block = record[q].block
                            /\ record'[q].size = record[q].size
                            /\ record'[q].version = record[q].version
                            /\ record'[q].shard = record[q].shard
  BY <1>1 DEF WithState, RecordType
<1>3. \A q \in Records : record'[q].state \in Active <=> record[q].state \in Active
  BY <1>2
<1>4. \A q \in Records : Describes(q)' <=> Describes(q)
  BY <1>3, DescribesStay
<1>5. \A q \in Records : record[q].state = "inUse" =>
         record'[q].state = "inUse" /\ record'[q].block = record[q].block
  BY <1>2
<1>6. \A q \in Records : /\ Describes(q) => record'[q].block = record[q].block
                         /\ record'[q].size = record[q].size
                         /\ record'[q].version = record[q].version
  BY <1>2
<1>7. Fewer
  BY QuietStart
<1>8. \A q \in Records : q < count' /\ new[q] # "seen" => q < count /\ kind[q] # "seen"
  OBVIOUS
<1>9. Control' /\ LateFrees' /\ Tiling(new)' /\ Versions'
  BY <1>4, <1>5, <1>6, <1>7, <1>8, Still
<1> QED
  BY <1>2, <1>9

\* The block each record describes, when the state of one is written.
LEMMA DescribedPut ==
    ASSUME NEW kind, NEW of, IInv(kind, of), NEW t \in Threads, NEW d, Moves(t, d),
           NEW r \in Records, record[r].state \notin Unused,
           \A q \in Records : /\ q # r => record'[q].state = record[q].state
                              /\ record'[q].block = record[q].block
                              /\ record'[q].size = record[q].size,
           HasLocked(d) => d.md \in Records /\ d.block # None /\ record[d.md].block = d.block
    PROVE  Described'
<1>1. ASSUME NEW u \in Threads, HasLocked(call'[u])
      PROVE  call'[u].block # None /\ record'[call'[u].md].block = call'[u].block
  <2>1. CASE u = t
    BY <2>1, <1>1 DEF Moves
  <2>2. CASE u # t
    <3>1. HasLocked(call[u]) /\ call'[u] = call[u] /\ call[u].md \in Records
      BY <2>2, <1>1, CallFacts DEF Moves, IInv
    <3> QED
      BY <3>1 DEF IInv, Described
  <2> QED
    BY <2>1, <2>2
<1>2. \A q \in Records : record'[q].state \notin Unused =>
                            record'[q].block # None /\ record'[q].size \in Sizes
  BY DEF IInv, Described
<1> QED
  BY <1>1, <1>2 DEF Described

\* Nobody rolls back a record that is in another state.
LEMMA RollsNot ==
    ASSUME NEW kind, NEW of, IInv(kind, of), NEW r \in Records,
           record[r].state # "reclaimInProgress", NEW u \in Threads
    PROVE  RollOf(call[u]) # r
BY RecordFacts DEF IInv, Rolling

LEMMA RollingEnds ==
    ASSUME NEW kind, NEW of, IInv(kind, of), NEW t \in Threads, NEW d, Moves(t, d), ~Rolls(d),
           NEW r \in Records, \A u \in Threads \ {t} : RollOf(call[u]) # r,
           \A q \in Records : q # r => /\ record'[q].state = record[q].state
                                      /\ record'[q].block = record[q].block
                                      /\ record'[q].size = record[q].size
    PROVE  Rolling'
<1>1. \A u \in Threads : u # t /\ RollOf(call[u]) # None =>
         RollOf(call[u]) \in Records /\ RollOf(call[u]) # r
  BY CallFacts DEF IInv
<1> QED
  BY <1>1, RollingSame DEF IInv

LEMMA RollingStarts ==
    ASSUME NEW kind, NEW of, IInv(kind, of), NEW t \in Threads, NEW d, Moves(t, d),
           NEW r \in Records, RollOf(d) = r, \A u \in Threads \ {t} : RollOf(call[u]) # r,
           \A q \in Records : q # r => /\ record'[q].state = record[q].state
                                      /\ record'[q].block = record[q].block
                                      /\ record'[q].size = record[q].size,
           record'[r].state = "reclaimInProgress",
           d.pc = "walkRoll" => record'[d.walk].block = d.word.pred,
           d.pc = "batchRoll" => record'[d.md].block + record'[d.md].size = d.word.at
    PROVE  Rolling'
<1>1. \A u \in Threads : u # t => call'[u] = call[u]
  BY DEF Moves
<1>2. call'[t] = d
  BY DEF Moves
<1>3. \A u \in Threads : Rolls(call[u]) <=> RollOf(call[u]) # None
  BY CallFacts, RollsFacts DEF IInv, PlaceOf
<1>4. \A u \in Threads : u # t /\ RollOf(call[u]) # None =>
         RollOf(call[u]) \in Records /\ RollOf(call[u]) # r
  BY CallFacts DEF IInv
<1>5. ASSUME NEW u \in Threads
      PROVE  /\ RollOf(call'[u]) # None => record'[RollOf(call'[u])].state = "reclaimInProgress"
             /\ call'[u].pc = "walkRoll" => record'[call'[u].walk].block = call'[u].word.pred
             /\ call'[u].pc = "batchRoll" =>
                   record'[call'[u].md].block + record'[call'[u].md].size = call'[u].word.at
  <2>1. CASE u = t
    BY <2>1, <1>2
  <2>2. CASE u # t
    <3>1. call'[u] = call[u]
      BY <2>2, <1>1
    <3>2. call[u].pc = "walkRoll" => RollOf(call[u]) # None /\ RollOf(call[u]) = call[u].walk
      BY <1>3 DEF Rolls, RollOf
    <3>3. call[u].pc = "batchRoll" => RollOf(call[u]) # None /\ RollOf(call[u]) = call[u].md
      BY <1>3 DEF Rolls, RollOf
    <3> QED
      BY <2>2, <3>1, <3>2, <3>3, <1>4 DEF Rolling, IInv
  <2> QED
    BY <2>1, <2>2
<1>6. \A u, v \in Threads : u # v /\ RollOf(call'[u]) # None => RollOf(call'[u]) # RollOf(call'[v])
  BY <1>1, <1>2, <1>4 DEF Rolling, IInv
<1> QED
  BY <1>5, <1>6 DEF Rolling

\* The places when no record goes anywhere.
LEMMA PlacesStay ==
    ASSUME NEW kind, NEW of, IInv(kind, of), NEW t \in Threads, NEW d, Moves(t, d),
           \A m \in Managers : managers'[m].free = managers[m].free, count' = count,
           \A s \in Shards : pending'[s].list = pending[s].list, bins' = bins, held' = held,
           \A b \in held : header'[b].index = header[b].index,
           ClearOf(d) = ClearOf(call[t]), MdOf(d) = MdOf(call[t]), SeenOf(d) = SeenOf(call[t]),
           d.reserved = call[t].reserved, d.list = call[t].list, d.batch = call[t].batch
    PROVE  Places(kind, of)'
<1>1. FreePlaces(kind, of)'
  BY PlacesTyped, FreePlacesSame
<1>2. SharedPlaces(kind, of)'
  BY PlacesTyped, SharedPlacesSame
<1>3. ThreadPlaces(kind, of)'
  BY PlacesTyped, ThreadPlacesSame
<1> QED
  BY <1>1, <1>2, <1>3, PlacesTyped DEF Places

\* Of each place of a thread: the record there, and its state.
LEMMA InHandFacts ==
    ASSUME NEW kind, NEW of, IInv(kind, of), NEW t \in Threads
    PROVE  /\ \A r \in Records : r = MdOf(call[t]) => In(kind, of, r, "md", t)
                                    /\ record[r].state \in MdStates(call[t])
           /\ \A r \in Records : r = call[t].reserved => In(kind, of, r, "reserved", t)
                                    /\ record[r].state \in Unused
           /\ \A r \in Records : r = SeenOf(call[t]) => In(kind, of, r, "seen", t)
                                    /\ record[r].state \in Unused
           /\ \A r \in Records : r \in Range(call[t].batch) => In(kind, of, r, "batch", t)
                                    /\ record[r].state \in BatchStates(call[t], r)
           /\ \A r \in Records : r \in Range(call[t].list) => In(kind, of, r, "list", t)
                                    /\ record[r].state = "pending"
           /\ \A r \in Records : In(kind, of, r, "md", t) => r = MdOf(call[t])
           /\ \A r \in Records : In(kind, of, r, "batch", t) => r \in Range(call[t].batch)
<1>1. ThreadPlaces(kind, of) /\ StatesAt(kind, of)
  BY PlacesTyped DEF IInv
<1> QED
  BY <1>1 DEF ThreadPlaces, StatesAt, In

\* The states when one thread moves on and no record but r gets another.
LEMMA StatesStay ==
    ASSUME NEW kind, NEW of, IInv(kind, of), NEW t \in Threads, NEW d, Moves(t, d),
           NEW r \in Records,
           \A q \in Records : q # r => /\ record'[q].state = record[q].state
                                      /\ record'[q].block = record[q].block,
           \A q \in Records : q # r /\ q = MdOf(call[t]) => record[q].state \in MdStates(d),
           \A q \in Records : q # r /\ q \in Range(call[t].batch) =>
              record[q].state \in BatchStates(d, q),
           kind[r] \in {"free", "reserved", "seen", "out"} => record'[r].state \in Unused,
           kind[r] \in {"pending", "list"} => record'[r].state = "pending",
           kind[r] = "bin" => record'[r].state \in Offered,
           kind[r] = "held" => record'[r].state = "inUse" /\ record'[r].block = of[r],
           kind[r] = "md" => record'[r].state \in MdStates(call'[of[r]]),
           kind[r] = "batch" => record'[r].state \in BatchStates(call'[of[r]], r)
    PROVE  StatesAt(kind, of)'
<1>1. Elsewhere(kind, of, kind, of, r)
  BY DEF Elsewhere
<1>2. \A q \in Records : kind[q] \in {"md", "batch"} => of[q] \in Threads
  BY PlacesTyped DEF ThreadKinds
<1>3. \A q \in Records : q # r /\ In(kind, of, q, "md", t) => record[q].state \in MdStates(d)
  BY InHandFacts
<1>4. \A q \in Records : q # r /\ In(kind, of, q, "batch", t) => record[q].state \in BatchStates(d, q)
  BY InHandFacts
<1>5. StatesAt(kind, of)
  BY DEF IInv
<1> QED
  BY <1>1, <1>2, <1>3, <1>4, <1>5, StatesPut

-----------------------------------------------------------------------------
(* The claim of a record that came from a bin.                             *)

LEMMA ClaimStart ==
    ASSUME NEW kind, NEW of, IInv(kind, of), NEW t \in Threads, call[t].pc = "claim"
    PROVE  /\ call[t].md \in Records /\ In(kind, of, call[t].md, "md", t)
           /\ record[call[t].md].state \in Offered
           /\ call[t].list = <<>> /\ call[t].batch = <<>> /\ call[t].stolen = 0
           /\ (call[t].reserved # None <=> call[t].stage # "first")
           /\ MdOf(call[t]) = call[t].md /\ SeenOf(call[t]) = None /\ ClearOf(call[t]) = None
           /\ TransientOf(call[t]) = None /\ TrimOf(call[t]) = None /\ GoneOf(call[t]) = None
           /\ ~Fresh(call[t]) /\ ~Advanced(call[t]) /\ ~HasLocked(call[t])
<1>1. ShapeOf(call[t]) /\ call[t] \in CallType
  BY QuietStart
<1>2. call[t].md # None /\ (call[t].reserved # None <=> call[t].stage # "first")
      /\ call[t].list = <<>> /\ call[t].batch = <<>> /\ call[t].stolen = 0
  BY <1>1 DEF ShapeOf, HasMd, HasReserved, Batching
<1>3. call[t].md \in Records
  BY <1>1, <1>2 DEF CallType, MaybeRecord
<1>4. /\ MdOf(call[t]) = call[t].md /\ SeenOf(call[t]) = None /\ ClearOf(call[t]) = None
      /\ TransientOf(call[t]) = None /\ TrimOf(call[t]) = None /\ GoneOf(call[t]) = None
      /\ ~Fresh(call[t]) /\ ~Advanced(call[t]) /\ ~HasLocked(call[t])
  BY DEF MdOf, SeenOf, ClearOf, TransientOf, TrimOf, GoneOf, Fresh, Advanced, HasLocked
<1>5. MdStates(call[t]) = Offered
  BY DEF MdStates
<1> QED
  BY <1>2, <1>3, <1>4, <1>5, InHandFacts

LEMMA ClaimTakes ==
    ASSUME NEW kind, NEW of, IInv(kind, of), NEW t \in Threads, Claim(t),
           record[call[t].md].state = "available"
    PROVE  IInv(kind, of)'
<1> DEFINE c == call[t]
           r == c.md
           d == [c EXCEPT !.pc = IF c.stage = "first" THEN "finish" ELSE "recycle",
                          !.after = IF c.stage = "first" THEN "idle" ELSE "finish",
                          !.block = record[r].block, !.slot = 0]
<1>1. c.pc = "claim" /\ record' = WithState(r, "locked")
      /\ call' = [call EXCEPT ![t].pc = IF c.stage = "first" THEN "finish" ELSE "recycle",
                              ![t].after = IF c.stage = "first" THEN "idle" ELSE "finish",
                              ![t].block = record[c.md].block, ![t].slot = 0]
      /\ UNCHANGED <<frontier, count, managers, header, pending, bins, reclaiming, held, late, arena>>
  BY DEF Claim
<1>2. c \in CallType /\ ShapeOf(c) /\ TypeInv /\ call \in [Threads -> CallType]
  BY QuietStart DEF TypeInv
<1>3. /\ r \in Records /\ In(kind, of, r, "md", t)
      /\ c.list = <<>> /\ c.batch = <<>> /\ c.stolen = 0 /\ (c.reserved # None <=> c.stage # "first")
      /\ MdOf(c) = r /\ SeenOf(c) = None /\ ClearOf(c) = None
      /\ TransientOf(c) = None /\ TrimOf(c) = None /\ GoneOf(c) = None
      /\ ~Fresh(c) /\ ~Advanced(c) /\ ~HasLocked(c)
  BY <1>1, ClaimStart
<1>4. call' = [call EXCEPT ![t] = d]
  BY <1>1, <1>2 DEF CallType
<1>5. record[r].block \in MaybeBlock /\ record[r].block # None
  BY <1>3, RecordTyped DEF IInv, Described, Unused
<1>6. d \in CallType
  <2>1. {"finish", "recycle"} \subseteq Pcs /\ 0 \in Slots
    BY Zeros DEF Pcs
  <2> HIDE DEF r
  <2> QED
    BY <1>2, <1>5, <2>1 DEF CallType
<1>7. /\ d.pc = (IF c.stage = "first" THEN "finish" ELSE "recycle")
      /\ d.after = (IF c.stage = "first" THEN "idle" ELSE "finish")
      /\ d.block = record[r].block /\ d.md = r /\ d.reserved = c.reserved /\ d.list = c.list
      /\ d.batch = c.batch /\ d.stolen = c.stolen /\ d.stage = c.stage /\ d.back = c.back
  BY <1>2 DEF CallType
<1> HIDE DEF d
<1>8. r # None
  BY <1>3, RecordFacts
<1> HIDE DEF r
<1>9. ShapeOf(d) /\ PlaceOf(d)
  BY <1>3, <1>7, <1>8 DEF ShapeOf, PlaceOf, HasMd, HasReserved, Batching, Windowed, FirstPcs, WindowPcs
<1>10. Well(d) /\ Moves(t, d) /\ call' \in [Threads -> CallType]
  BY <1>2, <1>4, <1>6, <1>9, MovesTo DEF Well
<1>11. /\ MdOf(d) = r /\ SeenOf(d) = None /\ ClearOf(d) = None /\ TransientOf(d) = None
       /\ TrimOf(d) = None /\ GoneOf(d) = None /\ ~Rolls(d) /\ ~Fresh(d) /\ ~Advanced(d)
       /\ HasLocked(d) /\ MdStates(d) = {"locked"} /\ d.pc \notin {"lock", "frontAdvance", "pushPending"}
  BY <1>7, <1>8 DEF MdOf, SeenOf, ClearOf, TransientOf, TrimOf, GoneOf, RollOf, Rolls, Fresh, Advanced, HasLocked, MdStates
<1>12. SameFlight(c, d)
  BY <1>3, <1>11 DEF SameFlight, InFlight
<1>13. record[r].state = "available"
  BY DEF r
<1>14. /\ Control' /\ LateFrees' /\ Tiling(kind)' /\ Versions'
       /\ record' \in [Records -> RecordType] /\ record'[r].state = "locked"
       /\ \A q \in Records : /\ q # r => record'[q].state = record[q].state
                             /\ record'[q].block = record[q].block
                             /\ record'[q].size = record[q].size
                             /\ record'[q].version = record[q].version
                             /\ record'[q].shard = record[q].shard
  BY <1>1, <1>3, <1>10, <1>11, <1>12, <1>13, Restated DEF Active
<1>15. TypeInv'
  BY <1>1, <1>2, <1>10, <1>14 DEF TypeInv
<1>16. Described'
  BY <1>3, <1>5, <1>7, <1>10, <1>13, <1>14, DescribedPut DEF Unused
<1>17. Rolling'
  <2>1. \A u \in Threads \ {t} : RollOf(call[u]) # r
    BY <1>3, <1>13, RollsNot
  <2> QED
    BY <2>1, <1>3, <1>10, <1>11, <1>14, RollingEnds
<1>18. Places(kind, of)'
  BY <1>1, <1>3, <1>7, <1>10, <1>11, PlacesStay
<1>19. StatesAt(kind, of)'
  <2>1. kind[r] = "md" /\ call'[of[r]] = d
    BY <1>3, <1>10 DEF In, Moves
  <2>2. \A q \in Records : q \notin Range(c.batch)
    BY <1>3, EmptyRange
  <2> QED
    BY <2>1, <2>2, <1>3, <1>10, <1>11, <1>14, StatesStay
<1>20. ManagerCounts' /\ Trims'
  BY <1>1, <1>3, <1>10, <1>11, CountsSame
<1>21. PendingCounts'
  <2>1. \A u \in Threads : call[u].pc = "pushPending" => record'[call[u].md].shard = record[call[u].md].shard
    <3>1. \A u \in Threads : call[u].pc = "pushPending" => call[u].md \in Records
      BY CallFacts DEF IInv, ShapeOf, HasMd
    <3> QED
      BY <3>1, <1>14
  <2> QED
    BY <2>1, <1>1, <1>3, <1>7, <1>10, <1>11, PendingSame
<1> QED
  BY <1>14, <1>15, <1>16, <1>17, <1>18, <1>19, <1>20, <1>21 DEF IInv

LEMMA ClaimFinds ==
    ASSUME NEW kind, NEW of, IInv(kind, of), NEW t \in Threads, Claim(t),
           record[call[t].md].state = "reclaimed"
    PROVE  IInv(kind, of)'
<1> DEFINE c == call[t]
           r == c.md
           d == [c EXCEPT !.pc = "recycle", !.after = "search", !.slot = 0]
<1>1. c.pc = "claim"
      /\ call' = [call EXCEPT ![t].pc = "recycle", ![t].after = "search", ![t].slot = 0]
      /\ UNCHANGED <<frontier, count, managers, header, record, pending, bins, reclaiming, held, late, arena>>
  BY DEF Claim
<1>2. c \in CallType /\ ShapeOf(c) /\ TypeInv /\ call \in [Threads -> CallType]
  BY QuietStart DEF TypeInv
<1>3. /\ r \in Records /\ In(kind, of, r, "md", t)
      /\ c.list = <<>> /\ c.batch = <<>> /\ c.stolen = 0 /\ (c.reserved # None <=> c.stage # "first")
      /\ MdOf(c) = r /\ SeenOf(c) = None /\ ClearOf(c) = None
      /\ TransientOf(c) = None /\ TrimOf(c) = None /\ GoneOf(c) = None
      /\ ~Fresh(c) /\ ~Advanced(c) /\ ~HasLocked(c)
  BY <1>1, ClaimStart
<1>4. call' = [call EXCEPT ![t] = d]
  BY <1>1, <1>2 DEF CallType
<1>6. d \in CallType
  <2>1. "recycle" \in Pcs /\ 0 \in Slots
    BY Zeros DEF Pcs
  <2> QED
    BY <1>2, <2>1 DEF CallType
<1>7. /\ d.pc = "recycle" /\ d.after = "search"
      /\ d.md = r /\ d.reserved = c.reserved /\ d.list = c.list
      /\ d.batch = c.batch /\ d.stolen = c.stolen /\ d.stage = c.stage /\ d.back = c.back
  BY <1>2 DEF CallType
<1> HIDE DEF d
<1>8. r # None
  BY <1>3, RecordFacts
<1>13. record[r].state = "reclaimed"
  OBVIOUS
<1> HIDE DEF r
<1>9. ShapeOf(d) /\ PlaceOf(d)
  BY <1>3, <1>7, <1>8 DEF ShapeOf, PlaceOf, HasMd, HasReserved, Batching, Windowed, FirstPcs, WindowPcs
<1>10. Well(d) /\ Moves(t, d) /\ call' \in [Threads -> CallType]
  BY <1>2, <1>4, <1>6, <1>9, MovesTo DEF Well
<1>11. /\ MdOf(d) = r /\ SeenOf(d) = None /\ ClearOf(d) = None /\ TransientOf(d) = None
       /\ TrimOf(d) = None /\ ~Rolls(d) /\ ~Fresh(d) /\ ~Advanced(d) /\ ~HasLocked(d)
       /\ MdStates(d) = {"reclaimed"} /\ d.pc \notin {"lock", "frontAdvance", "pushPending"}
  BY <1>7, <1>8 DEF MdOf, SeenOf, ClearOf, TransientOf, TrimOf, Rolls, Fresh, Advanced, HasLocked, MdStates
<1>12. SameFlight(c, d)
  BY <1>3, <1>11 DEF SameFlight, InFlight
<1>14. Control' /\ Described' /\ Rolling' /\ LateFrees' /\ Tiling(kind)' /\ Versions'
  <2>1. Fewer /\ c.pc # "lock"
    BY <1>1, QuietStart
  <2>2. \A q \in Records : q < count' /\ kind[q] # "seen" => q < count /\ kind[q] # "seen"
    BY <1>1
  <2> QED
    BY <2>1, <2>2, <1>1, <1>3, <1>10, <1>11, <1>12, Quieter
<1>15. TypeInv'
  BY <1>1, <1>2, <1>10 DEF TypeInv
<1>18. Places(kind, of)'
  BY <1>1, <1>3, <1>7, <1>10, <1>11, PlacesStay
<1>19. StatesAt(kind, of)'
  <2>1. kind[r] = "md" /\ call'[of[r]] = d
    BY <1>3, <1>10 DEF In, Moves
  <2>2. \A q \in Records : q \notin Range(c.batch)
    BY <1>3, EmptyRange
  <2>3. \A q \in Records : /\ record'[q].state = record[q].state
                            /\ record'[q].block = record[q].block
    BY <1>1
  <2>4. \A q \in Records : q # r => q # MdOf(c)
    BY <1>3
  <2>5. record'[r].state \in MdStates(call'[of[r]])
    BY <2>1, <2>3, <1>3, <1>11, <1>13
  <2> QED
    BY <2>1, <2>2, <2>3, <2>4, <2>5, <1>3, <1>10, StatesStay
<1>20. ManagerCounts' /\ Trims'
  BY <1>1, <1>3, <1>10, <1>11, CountsSame
<1>21. PendingCounts'
  BY <1>1, <1>3, <1>7, <1>10, <1>11, PendingSame
<1> QED
  BY <1>14, <1>15, <1>18, <1>19, <1>20, <1>21 DEF IInv

LEMMA ClaimBusy ==
    ASSUME NEW kind, NEW of, IInv(kind, of), NEW t \in Threads, Claim(t),
           record[call[t].md].state = "reclaimInProgress"
    PROVE  Inv'
<1> DEFINE c == call[t]
           k == SlotAt(c.slot, c.shard)
           stack == bins[c.bin][k]
           e == [c EXCEPT !.md = None]
<1>1. c.pc = "claim" /\ bins' = [bins EXCEPT ![c.bin][k] = <<c.md>> \o @]
      /\ call' = [call EXCEPT ![t] = NextSlot(e)]
      /\ UNCHANGED <<frontier, count, managers, header, record, pending, reclaiming, held, late, arena>>
  BY DEF Claim
<1>2. c \in CallType /\ ShapeOf(c) /\ TypeInv /\ call \in [Threads -> CallType]
  BY QuietStart DEF TypeInv
<1>3. /\ c.md \in Records /\ In(kind, of, c.md, "md", t)
      /\ c.list = <<>> /\ c.batch = <<>> /\ c.stolen = 0 /\ (c.reserved # None <=> c.stage # "first")
      /\ MdOf(c) = c.md /\ SeenOf(c) = None /\ ClearOf(c) = None
      /\ TransientOf(c) = None /\ TrimOf(c) = None /\ GoneOf(c) = None
      /\ ~Fresh(c) /\ ~Advanced(c) /\ ~HasLocked(c)
  BY <1>1, ClaimStart
<1>a. PICK r \in Records : r = c.md
  BY <1>3
<1>b. PICK d : d = NextSlot(e)
  OBVIOUS
<1>4. c.bin \in Bins /\ k \in Slots /\ stack \in Seq(Records) /\ IsInjective(stack)
  <2>1. c.bin \in Bins /\ k \in Slots
    BY <1>2, SlotFacts DEF CallType
  <2> QED
    BY <2>1, <1>2, PlacesTyped DEF TypeInv, SharedPlaces
<1>5. kind \in [Records -> Kinds] /\ kind[r] = "md" /\ of[r] = t
  BY <1>3, <1>a, PlacesTyped DEF In
<1>6. \A b \in Bins, j \in Slots : r \notin Range(bins[b][j])
  BY <1>5, PlacesTyped DEF SharedPlaces, In
<1>7. /\ <<r>> \o stack \in Seq(Records) /\ IsInjective(<<r>> \o stack)
      /\ \A q : q \in Range(<<r>> \o stack) <=> q = r \/ q \in Range(stack)
  BY <1>4, <1>6, Pushed
<1>8. Resting(e) /\ e.pc = "claim" /\ Keeps(c, e)
  <2>1. e \in CallType
    BY <1>2 DEF CallType, MaybeRecord
  <2>2. /\ e.pc = "claim" /\ e.md = None /\ e.reserved = c.reserved /\ e.list = c.list
        /\ e.batch = c.batch /\ e.stolen = c.stolen /\ e.stage = c.stage /\ e.window = c.window
    BY <1>1, <1>2 DEF CallType
  <2> HIDE DEF e
  <2> QED
    BY <1>3, <2>1, <2>2 DEF Resting, Keeps
<1> HIDE DEF e
<1>9. Well(d) /\ Quiet(d) /\ Keeps(e, d) /\ d.pc # "frontAdvance"
  BY <1>8, <1>b, NextSlotFacts
<1>10. Moves(t, d) /\ call' \in [Threads -> CallType]
  BY <1>1, <1>2, <1>9, <1>b, MovesTo DEF Well
<1>11. /\ d.md = None /\ MdOf(d) = None /\ SeenOf(d) = None /\ ClearOf(d) = None /\ TransientOf(d) = None
       /\ TrimOf(d) = None /\ ~Rolls(d) /\ ~Fresh(d) /\ ~Advanced(d) /\ ~HasLocked(d)
       /\ d.pc \notin {"lock", "pushPending"}
  BY <1>9, QuietFacts DEF Well
<1>12. /\ d.reserved = c.reserved /\ d.list = c.list /\ d.batch = c.batch /\ d.stolen = c.stolen
  BY <1>8, <1>9 DEF Keeps
<1> PICK new, nof : Moved(kind, of, new, nof, r, "bin", <<c.bin, k>>)
  BY <1>5, CanMove DEF Kinds, ListKinds
<1>13. /\ new \in [Records -> Kinds] /\ Elsewhere(kind, of, new, nof, r)
       /\ new[r] = "bin" /\ nof[r] = <<c.bin, k>>
  BY DEF Moved
<1>14. TypeInv'
  <2>1. bins' \in [Bins -> [Slots -> Seq(Records)]]
    BY <1>1, <1>2, <1>4, <1>7, <1>a DEF TypeInv
  <2> QED
    BY <1>1, <1>2, <1>10, <2>1 DEF TypeInv
<1>15. SameFlight(c, d)
  BY <1>3, <1>11 DEF SameFlight, InFlight
<1>16. Control' /\ Described' /\ Rolling' /\ LateFrees' /\ Tiling(new)' /\ Versions'
  <2>1. \A q \in Records : q < count' /\ new[q] # "seen" => q < count /\ kind[q] # "seen"
    BY <1>1, <1>5, <1>13 DEF Elsewhere
  <2>2. c.pc # "lock" /\ Fewer
    BY <1>1, QuietStart
  <2> QED
    BY <1>1, <1>3, <1>9, <1>10, <1>11, <1>15, <2>1, <2>2, Quieter
<1>17. Places(new, nof)'
  <2>1. FreePlaces(new, nof)'
    BY <1>1, <1>3, <1>5, <1>10, <1>11, <1>13, PlacesTyped, FreePlacesAway
  <2>2. SharedPlaces(new, nof)'
    <3>1. \A b \in Bins, j \in Slots : IsInjective(bins'[b][j])
      BY <1>1, <1>2, <1>4, <1>7, <1>a, PlacesTyped DEF TypeInv, SharedPlaces
    <3>2. ASSUME NEW b \in Bins, NEW j \in Slots, NEW q \in Records
          PROVE  q \in Range(bins'[b][j]) <=> IF q = r THEN In(new, nof, r, "bin", <<b, j>>)
                                              ELSE q \in Range(bins[b][j])
      <4>2. CASE b = c.bin /\ j = k
        <5>1. bins'[b][j] = <<r>> \o stack
          BY <1>1, <1>2, <1>4, <1>a, <4>2 DEF TypeInv
        <5> QED
          BY <1>7, <1>13, <4>2, <5>1 DEF In
      <4>3. CASE ~(b = c.bin /\ j = k)
        <5>1. bins'[b][j] = bins[b][j]
          BY <1>1, <1>2, <1>4, <4>3 DEF TypeInv
        <5>2. ~In(new, nof, r, "bin", <<b, j>>)
          BY <1>13, <4>3 DEF In
        <5> QED
          BY <1>6, <5>1, <5>2
      <4> QED
        BY <4>2, <4>3
    <3>3. SharedPlaces(kind, of) /\ kind[r] # "pending" /\ new[r] # "pending" /\ kind[r] # "held"
          /\ new[r] # "held"
      BY <1>5, <1>13, PlacesTyped
    <3>4. BinsMoved(new, nof, r)
      BY <1>4, <1>13, <3>1, <3>2 DEF BinsMoved
    <3>5. PendingMoved(new, nof, r)
      BY <1>1, <3>3, PendingAway
    <3>6. HeldMoved(new, nof, r)
      BY <1>1, <3>3, HeldAway
    <3> QED
      BY <1>13, <3>3, <3>4, <3>5, <3>6, PlacesTyped, SharedPlacesPut
  <2>3. ThreadPlaces(new, nof)'
    <3>1. ThreadPlaces(kind, of) /\ ~In(kind, of, r, "reserved", t)
      BY <1>5, PlacesTyped DEF In
    <3>2. r # c.reserved
      BY <3>1 DEF ThreadPlaces
    <3>3. \A q \in Records : (q = MdOf(d) <=> FALSE) /\ (q = SeenOf(d) <=> FALSE) /\ (q = MdOf(c) <=> q = r)
      BY <1>3, <1>11, <1>a, RecordFacts
    <3>4. ThreadMoved(new, r, t, d)
      BY <1>3, <1>11, <1>12, <1>13, <3>2, <3>3, EmptyRange DEF ThreadMoved
    <3>5. kind[r] \in ThreadKinds => of[r] = t
      BY <1>5
    <3>6. new[r] \notin ThreadKinds
      BY <1>13 DEF ThreadKinds
    <3> QED
      BY <1>10, <1>13, <3>1, <3>4, <3>5, <3>6, ThreadPlacesPut
  <2>4. new \in [Records -> Kinds]
    BY <1>13
  <2> QED
    BY <2>1, <2>2, <2>3, <2>4 DEF Places
<1>18. StatesAt(new, nof)'
  <2>1. record[r].state \in Offered /\ record' = record /\ StatesAt(kind, of)
    BY <1>1, <1>a DEF IInv, Offered
  <2>2. \A q \in Records : kind[q] \in {"md", "batch"} => of[q] \in Threads
    BY PlacesTyped DEF ThreadKinds
  <2>3. \A q \in Records : In(kind, of, q, "md", t) => q = r
    BY <1>3, <1>a, InHandFacts
  <2>4. \A q \in Records : ~In(kind, of, q, "batch", t)
    BY <1>3, EmptyRange, InHandFacts
  <2> QED
    BY <1>10, <1>13, <2>1, <2>2, <2>3, <2>4, StatesPut
<1>19. ManagerCounts' /\ Trims'
  BY <1>1, <1>3, <1>10, <1>11, CountsSame
<1>20. PendingCounts'
  BY <1>1, <1>3, <1>10, <1>11, <1>12, PendingSame
<1>21. IInv(new, nof)'
  BY <1>14, <1>16, <1>17, <1>18, <1>19, <1>20 DEF IInv
<1> QED
  BY <1>21 DEF Inv

LEMMA ClaimStep ==
    ASSUME NEW kind, NEW of, IInv(kind, of), NEW t \in Threads, Claim(t)
    PROVE  Inv'
<1>1. call[t].pc = "claim"
  BY DEF Claim
<1>2. record[call[t].md].state \in {"available", "reclaimInProgress", "reclaimed"}
  BY <1>1, ClaimStart DEF Offered
<1> QED
  BY <1>2, ClaimTakes, ClaimFinds, ClaimBusy DEF Inv

-----------------------------------------------------------------------------
(* The counts of the managers.                                             *)

Bit(b) == IF b THEN 1 ELSE 0

LEMMA WaitingFacts ==
    ASSUME NEW m
    PROVE  IsFiniteSet(Waiting(m)) /\ Cardinality(Waiting(m)) \in Nat
BY Constants, FS_Subset, FS_CardinalityType DEF Waiting

LEMMA TakenFacts ==
    ASSUME TypeInv, NEW m
    PROVE  IsFiniteSet(Taken(m)) /\ Cardinality(Taken(m)) \in Nat /\ Taken(m) \subseteq Records
<1>1. Taken(m) \subseteq Records
  BY RecordFacts DEF Taken, TypeInv
<1> QED
  BY <1>1, RecordFacts, FS_Subset, FS_CardinalityType

LEMMA WaitingMoves ==
    ASSUME NEW t \in Threads, NEW d, Moves(t, d), NEW m \in Managers
    PROVE  Cardinality(Waiting(m)') = Cardinality(Waiting(m)) + Bit(TransientOf(d) = m)
                                                              - Bit(TransientOf(call[t]) = m)
<1>1. \A u : u \in Waiting(m)' <=> u \in Threads /\ TransientOf(call'[u]) = m
  BY DEF Waiting
<1>2. \A u : u \in Waiting(m) <=> u \in Threads /\ TransientOf(call[u]) = m
  BY DEF Waiting
<1>3. \A u \in Threads : TransientOf(call'[u]) = IF u = t THEN TransientOf(d) ELSE TransientOf(call[u])
  BY DEF Moves
<1>4. IsFiniteSet(Waiting(m)) /\ Cardinality(Waiting(m)) \in Nat
  BY WaitingFacts
<1>5. CASE TransientOf(d) = m /\ TransientOf(call[t]) = m
  <2>1. Waiting(m)' = Waiting(m)
    BY <1>1, <1>2, <1>3, <1>5
  <2> QED
    BY <2>1, <1>4, <1>5 DEF Bit
<1>6. CASE TransientOf(d) = m /\ TransientOf(call[t]) # m
  <2>1. Waiting(m)' = Waiting(m) \cup {t} /\ t \notin Waiting(m)
    BY <1>1, <1>2, <1>3, <1>6
  <2>2. Cardinality(Waiting(m)') = Cardinality(Waiting(m)) + 1
    BY <2>1, <1>4, OneMore
  <2> QED
    BY <2>2, <1>4, <1>6 DEF Bit
<1>7. CASE TransientOf(d) # m /\ TransientOf(call[t]) = m
  <2>1. Waiting(m)' = Waiting(m) \ {t} /\ t \in Waiting(m)
    BY <1>1, <1>2, <1>3, <1>7
  <2> QED
    BY <2>1, <1>4, <1>7, OneLess DEF Bit
<1>8. CASE TransientOf(d) # m /\ TransientOf(call[t]) # m
  <2>1. Waiting(m)' = Waiting(m)
    BY <1>1, <1>2, <1>3, <1>8
  <2> QED
    BY <2>1, <1>4, <1>8 DEF Bit
<1> QED
  BY <1>5, <1>6, <1>7, <1>8

LEMMA TakenMoves ==
    ASSUME TypeInv, TypeInv', NEW r \in Records, NEW m \in Managers,
           \A q \in Records : q # r => (q \in Taken(m)' <=> q \in Taken(m))
    PROVE  Cardinality(Taken(m)') = Cardinality(Taken(m)) + Bit(r \in Taken(m)') - Bit(r \in Taken(m))
<1>1. Taken(m) \subseteq Records /\ IsFiniteSet(Taken(m)) /\ Cardinality(Taken(m)) \in Nat
  BY TakenFacts
<1>2. Taken(m)' \subseteq Records
  BY RecordFacts DEF Taken, TypeInv
<1>3. PICK S : S = Taken(m)'
  OBVIOUS
<1>4. S \subseteq Records /\ \A q \in Records : q # r => (q \in S <=> q \in Taken(m))
  BY <1>2, <1>3
<1>5. Cardinality(S) = Cardinality(Taken(m)) + Bit(r \in S) - Bit(r \in Taken(m))
  <2>1. CASE r \in S /\ r \in Taken(m)
    <3>1. S = Taken(m)
      BY <2>1, <1>1, <1>4
    <3> QED
      BY <2>1, <3>1, <1>1 DEF Bit
  <2>2. CASE r \in S /\ r \notin Taken(m)
    <3>1. S = Taken(m) \cup {r}
      BY <2>2, <1>1, <1>4
    <3> QED
      BY <2>2, <3>1, <1>1, OneMore DEF Bit
  <2>3. CASE r \notin S /\ r \in Taken(m)
    <3>1. S = Taken(m) \ {r}
      BY <2>3, <1>1, <1>4
    <3> QED
      BY <2>3, <3>1, <1>1, OneLess DEF Bit
  <2>4. CASE r \notin S /\ r \notin Taken(m)
    <3>1. S = Taken(m)
      BY <2>4, <1>1, <1>4
    <3> QED
      BY <2>4, <3>1, <1>1 DEF Bit
  <2> QED
    BY <2>1, <2>2, <2>3, <2>4
<1> QED
  BY <1>3, <1>5

LEMMA ManagerCountsPut ==
    ASSUME NEW kind, NEW of, IInv(kind, of), TypeInv', NEW t \in Threads, NEW d, Moves(t, d),
           NEW r \in Records,
           \A m \in Managers, q \in Records : q # r => (q \in Taken(m)' <=> q \in Taken(m)),
           \A m \in Managers : managers'[m].active =
              managers[m].active + Bit(TransientOf(d) = m) - Bit(TransientOf(call[t]) = m)
                                 + Bit(r \in Taken(m)') - Bit(r \in Taken(m))
    PROVE  ManagerCounts'
<1> SUFFICES ASSUME NEW m \in Managers
             PROVE  managers'[m].active = Cardinality(Waiting(m)') + Cardinality(Taken(m)')
  BY DEF ManagerCounts
<1>1. Cardinality(Waiting(m)') = Cardinality(Waiting(m)) + Bit(TransientOf(d) = m)
                                                         - Bit(TransientOf(call[t]) = m)
  BY WaitingMoves
<1>2. TypeInv /\ \A q \in Records : q # r => (q \in Taken(m)' <=> q \in Taken(m))
  BY DEF IInv
<1>3. Cardinality(Taken(m)') = Cardinality(Taken(m)) + Bit(r \in Taken(m)') - Bit(r \in Taken(m))
  BY <1>2, TakenMoves
<1>4. managers[m].active = Cardinality(Waiting(m)) + Cardinality(Taken(m))
  BY DEF IInv, ManagerCounts
<1>5. Cardinality(Waiting(m)) \in Nat /\ Cardinality(Taken(m)) \in Nat
  BY <1>2, WaitingFacts, TakenFacts
<1>6. /\ Bit(TransientOf(d) = m) \in Int /\ Bit(TransientOf(call[t]) = m) \in Int
      /\ Bit(r \in Taken(m)') \in Int /\ Bit(r \in Taken(m)) \in Int
  BY DEF Bit
<1>7. managers'[m].active = managers[m].active + Bit(TransientOf(d) = m) - Bit(TransientOf(call[t]) = m)
                                 + Bit(r \in Taken(m)') - Bit(r \in Taken(m))
  OBVIOUS
<1> QED
  BY <1>1, <1>3, <1>4, <1>5, <1>6, <1>7

\* A manager that a thread waits on, or one of whose records is out, is busy.
LEMMA Busy ==
    ASSUME NEW kind, NEW of, IInv(kind, of), NEW m \in Managers,
           (\E t \in Threads : TransientOf(call[t]) = m) \/ (\E r \in Records : r \in Taken(m))
    PROVE  /\ managers[m].active \in Nat /\ managers[m].active > 0 /\ ~managers[m].trimming
           /\ \A u \in Threads : TrimOf(call[u]) # m /\ ClearOf(call[u]) # m
<1>1. IsFiniteSet(Waiting(m)) /\ Cardinality(Waiting(m)) \in Nat
      /\ IsFiniteSet(Taken(m)) /\ Cardinality(Taken(m)) \in Nat
  BY WaitingFacts, TakenFacts DEF IInv
<1>2. Waiting(m) # {} \/ Taken(m) # {}
  BY DEF Waiting
<1>3. Cardinality(Waiting(m)) > 0 \/ Cardinality(Taken(m)) > 0
  BY <1>1, <1>2, FS_EmptySet
<1>4. managers[m].active \in Nat /\ managers[m].active > 0
  BY <1>1, <1>3 DEF IInv, ManagerCounts
<1>5. ~managers[m].trimming
  BY <1>4 DEF IInv, Trims
<1>6. m # None
  BY ManagerFacts DEF Managers, None
<1>7. \A u \in Threads : TrimOf(call[u]) # m
  BY <1>5, <1>6 DEF IInv, Trims
<1>8. \A u \in Threads : ClearOf(call[u]) = m => TrimOf(call[u]) = m
  <2>1. \A u \in Threads : call[u].pc = "trimClear" => call[u].pc # "trimShrink"
    OBVIOUS
  <2> QED
    BY <2>1, <1>6 DEF TrimOf, ClearOf
<1> QED
  BY <1>4, <1>5, <1>7, <1>8

LEMMA TrimsPut ==
    ASSUME NEW kind, NEW of, IInv(kind, of), NEW t \in Threads, NEW d, Moves(t, d),
           TrimOf(d) = TrimOf(call[t]), ClearOf(d) = ClearOf(call[t]),
           \A m \in Managers : /\ managers'[m].trimming = managers[m].trimming
                               /\ managers[m].trimming => managers'[m].active = managers[m].active,
           \A u \in Threads : ClearOf(call[u]) # None => count' <= ClearOf(call[u]) * RecordsPerManager
    PROVE  Trims'
<1>1. \A u \in Threads : TrimOf(call'[u]) = TrimOf(call[u]) /\ ClearOf(call'[u]) = ClearOf(call[u])
  BY DEF Moves
<1>2. \A u \in Threads : TrimOf(call[u]) # None => TrimOf(call[u]) \in Managers
  BY CallFacts DEF IInv
<1> QED
  BY <1>1, <1>2 DEF Trims, IInv

\* A step that moves no record and writes none: its thread waits on, or stops
\* waiting on, a manager.
LEMMA PlainStep ==
    ASSUME NEW kind, NEW of, IInv(kind, of), NEW t \in Threads, NEW d, Well(d),
           call' = [call EXCEPT ![t] = d],
           UNCHANGED <<frontier, count, header, record, pending, bins, reclaiming, held, late, arena>>,
           managers' \in [Managers -> [free : Seq(Records), active : Nat, trimming : BOOLEAN]],
           \A m \in Managers : managers'[m].free = managers[m].free,
           ~Rolls(d), GoneOf(call[t]) = None, call[t].pc # "lock",
           d.pc \notin {"lock", "frontAdvance"}, SameFlight(call[t], d),
           HasLocked(d) => HasLocked(call[t]) /\ d.block = call[t].block /\ d.md = call[t].md,
           MdOf(d) = MdOf(call[t]), SeenOf(d) = SeenOf(call[t]), ClearOf(d) = ClearOf(call[t]),
           d.reserved = call[t].reserved, d.list = call[t].list, d.batch = call[t].batch,
           \A q \in Records : q = MdOf(call[t]) => record[q].state \in MdStates(d),
           \A q \in Records : q \in Range(call[t].batch) => record[q].state \in BatchStates(d, q)
    PROVE  /\ Moves(t, d) /\ TypeInv' /\ Control' /\ Places(kind, of)' /\ StatesAt(kind, of)'
           /\ Described' /\ Rolling' /\ LateFrees' /\ Tiling(kind)' /\ Versions'
<1>1. TypeInv /\ d \in CallType
  BY QuietStart DEF Well
<1>2. Moves(t, d) /\ call' \in [Threads -> CallType]
  BY <1>1, MovesTo
<1>3. TypeInv'
  BY <1>1, <1>2 DEF TypeInv
<1>4. Control' /\ Described' /\ Rolling' /\ LateFrees' /\ Tiling(kind)' /\ Versions'
  <2>1. Fewer
    BY QuietStart
  <2>2. \A q \in Records : q < count' /\ kind[q] # "seen" => q < count /\ kind[q] # "seen"
    OBVIOUS
  <2> QED
    BY <2>1, <2>2, <1>2, Quieter
<1>5. Places(kind, of)'
  BY <1>2, PlacesStay
<1>6. StatesAt(kind, of)'
  <2>1. /\ \A q \in Records : In(kind, of, q, "md", t) => record[q].state \in MdStates(d)
        /\ \A q \in Records : In(kind, of, q, "batch", t) => record[q].state \in BatchStates(d, q)
    BY InHandFacts
  <2>2. \A q \in Records : kind[q] \in {"md", "batch"} => of[q] \in Threads
    BY PlacesTyped DEF ThreadKinds
  <2>3. ASSUME NEW q \in Records, kind[q] = "md" PROVE record[q].state \in MdStates(call'[of[q]])
    BY <2>1, <2>2, <2>3, <1>2 DEF In, Moves, IInv, StatesAt
  <2>4. ASSUME NEW q \in Records, kind[q] = "batch" PROVE record[q].state \in BatchStates(call'[of[q]], q)
    BY <2>1, <2>2, <2>4, <1>2 DEF In, Moves, IInv, StatesAt
  <2>5. StatesAt(kind, of) /\ record' = record
    BY DEF IInv
  <2> QED
    BY <2>3, <2>4, <2>5 DEF StatesAt
<1> QED
  BY <1>2, <1>3, <1>4, <1>5, <1>6

-----------------------------------------------------------------------------
(* Threads that come to a manager, and leave it.                           *)

\* The counts when a thread waits on another manager, or on none, and no record moves.
LEMMA WaitsElsewhere ==
    ASSUME NEW kind, NEW of, IInv(kind, of), TypeInv', NEW t \in Threads, NEW d, Moves(t, d),
           TrimOf(d) = TrimOf(call[t]), ClearOf(d) = ClearOf(call[t]), count' = count,
           \A m \in Managers :
              /\ managers'[m].free = managers[m].free
              /\ managers'[m].trimming = managers[m].trimming
              /\ managers'[m].active = managers[m].active + Bit(TransientOf(d) = m)
                                                          - Bit(TransientOf(call[t]) = m),
           TransientOf(d) \in Managers => ~managers[TransientOf(d)].trimming
    PROVE  ManagerCounts' /\ Trims'
<1>1. \A m \in Managers : Taken(m)' = Taken(m)
  BY DEF Taken
<1>2. \A m \in Managers : managers[m].active \in Nat
  BY DEF IInv, TypeInv
<1>3. ManagerCounts'
  <2>1. \A m \in Managers, q \in Records : q # 0 => (q \in Taken(m)' <=> q \in Taken(m))
    BY <1>1
  <2>2. \A m \in Managers : managers'[m].active =
           managers[m].active + Bit(TransientOf(d) = m) - Bit(TransientOf(call[t]) = m)
                              + Bit(0 \in Taken(m)') - Bit(0 \in Taken(m))
    <3> TAKE m \in Managers
    <3>1. Bit(0 \in Taken(m)') = Bit(0 \in Taken(m)) /\ Bit(0 \in Taken(m)) \in Int
      BY <1>1 DEF Bit
    <3>2. Bit(TransientOf(d) = m) \in Int /\ Bit(TransientOf(call[t]) = m) \in Int
      BY DEF Bit
    <3> QED
      BY <1>2, <3>1, <3>2
  <2> QED
    BY <2>1, <2>2, RecordFacts, ManagerCountsPut
<1>4. ASSUME NEW m \in Managers, managers[m].trimming
      PROVE  managers'[m].active = managers[m].active
  <2>1. TransientOf(call[t]) # m
    BY <1>4, Busy
  <2>2. TransientOf(d) # m
    BY <1>4
  <2> QED
    BY <2>1, <2>2, <1>2 DEF Bit
<1>5. \A u \in Threads : ClearOf(call[u]) # None => count' <= ClearOf(call[u]) * RecordsPerManager
  BY DEF IInv, Trims
<1>6. Trims'
  BY <1>4, <1>5, TrimsPut
<1> QED
  BY <1>3, <1>6

LEMMA ManagersTyped ==
    ASSUME NEW kind, NEW of, IInv(kind, of)
    PROVE  /\ managers \in [Managers -> [free : Seq(Records), active : Nat, trimming : BOOLEAN]]
           /\ \A m \in Managers : m \in Nat /\ m # None /\ managers[m].active \in Nat
BY DEF IInv, TypeInv, Managers, None

LEMMA ReleaseStep ==
    ASSUME NEW kind, NEW of, IInv(kind, of), NEW t \in Threads, Release(t)
    PROVE  IInv(kind, of)'
<1> DEFINE c == call[t]
           m == c.manager
           e == [c EXCEPT !.pc = "reserve", !.manager = @ + 1]
           f == [c EXCEPT !.pc = c.after, !.manager = 0]
<1>1. c.pc = "release" /\ managers' = [managers EXCEPT ![m].active = @ - 1]
      /\ UNCHANGED <<frontier, count, header, record, pending, bins, reclaiming, held, late, arena>>
      /\ call' = [call EXCEPT ![t] = IF c.after = "idle" THEN Idle
                                     ELSE IF c.after = "reserve" THEN e ELSE f]
  BY DEF Release
<1>2. c \in CallType /\ ShapeOf(c) /\ PlaceOf(c) /\ m \in Managers /\ m # None
  BY <1>1, QuietStart, ManagersTyped DEF PlaceOf
<1>a. PICK d : d = IF c.after = "idle" THEN Idle ELSE IF c.after = "reserve" THEN e ELSE f
  OBVIOUS
<1>3. /\ MdOf(c) = c.md /\ SeenOf(c) = None /\ ClearOf(c) = None /\ TransientOf(c) = m
      /\ TrimOf(c) = None /\ GoneOf(c) = None /\ ~Fresh(c) /\ ~Advanced(c)
      /\ RollOf(c) = None /\ OfferOf(c) = None
      /\ (HasLocked(c) <=> c.after = "finish") /\ (c.md # None <=> c.after = "finish")
  BY <1>1, <1>2 DEF MdOf, SeenOf, ClearOf, TransientOf, TrimOf, GoneOf, RollOf, OfferOf, Fresh, Advanced,
     HasLocked, ShapeOf, HasMd
<1>4. /\ c.after \in {"idle", "reserve", "growReserve", "search", "finish", "batchScan"}
      /\ c.after # "batchScan" => c.list = <<>> /\ c.batch = <<>> /\ c.stolen = 0
      /\ (c.reserved # None <=> c.stage # "first" /\ c.after \notin {"idle", "finish"})
      /\ (c.after \in {"reserve", "growReserve"} => c.stage = "first")
      /\ (c.after = "batchScan" => (c.back = "idle" => c.stage = "first"))
  <2>1. c.after \in {"idle", "reserve", "growReserve", "search", "finish", "batchScan"}
    BY <1>2 DEF CallType
  <2>2. c.after # "batchScan" => c.list = <<>> /\ c.batch = <<>> /\ c.stolen = 0
    BY <1>1, <1>2 DEF ShapeOf, Batching
  <2>3. (c.reserved # None <=> c.stage # "first" /\ c.after \notin {"idle", "finish"})
    BY <1>1, <1>2 DEF ShapeOf, HasReserved
  <2>4. (c.after \in {"reserve", "growReserve"} => c.stage = "first")
        /\ (c.after = "batchScan" => (c.back = "idle" => c.stage = "first"))
    BY <1>1, <1>2 DEF ShapeOf, Windowed, Batching
  <2> QED
    BY <2>1, <2>2, <2>3, <2>4
<1>5. e \in CallType /\ f \in CallType
  <2>1. c.after \in Pcs /\ "reserve" \in Pcs /\ 0 \in Nat /\ m + 1 \in Nat
    BY <1>2, <1>4, ManagersTyped DEF Pcs, FirstPcs, WindowPcs
  <2> QED
    BY <1>2, <2>1 DEF CallType
<1>6. /\ e.pc = "reserve" /\ e.md = c.md /\ e.reserved = c.reserved /\ e.list = c.list
      /\ e.batch = c.batch /\ e.stolen = c.stolen /\ e.stage = c.stage /\ e.back = c.back
      /\ e.window = c.window /\ e.block = c.block
      /\ f.pc = c.after /\ f.md = c.md /\ f.reserved = c.reserved /\ f.list = c.list
      /\ f.batch = c.batch /\ f.stolen = c.stolen /\ f.stage = c.stage /\ f.back = c.back
      /\ f.window = c.window /\ f.block = c.block
  BY <1>2 DEF CallType
<1>7. /\ Idle.pc = "idle" /\ Idle.md = None /\ Idle.reserved = None /\ Idle.list = <<>>
      /\ Idle.batch = <<>> /\ Idle.stolen = 0
  BY DEF Idle
<1> HIDE DEF e, f, m
<1>8. /\ d \in CallType
      /\ d.pc = IF c.after = "idle" THEN "idle" ELSE c.after
      /\ d.md = c.md /\ d.reserved = c.reserved /\ d.list = c.list
      /\ d.batch = c.batch /\ d.stolen = c.stolen
      /\ (d.pc # "idle" => d.stage = c.stage /\ d.back = c.back /\ d.block = c.block /\ d.window = c.window)
  BY <1>3, <1>4, <1>5, <1>6, <1>7, <1>a, IdleFacts
<1>9. ShapeOf(d) /\ PlaceOf(d)
  <2>1. CASE d.pc = "idle"
    BY <2>1, <1>8, <1>4, <1>6, <1>a, IdleFacts DEF Well
  <2>2. CASE d.pc # "idle"
    <3>1. d.pc \in {"reserve", "growReserve", "search", "finish", "batchScan"}
      BY <2>2, <1>4, <1>8
    <3>2. (d.md # None <=> HasMd(d)) /\ (d.reserved # None <=> HasReserved(d))
      BY <3>1, <1>3, <1>4, <1>8 DEF HasMd, HasReserved
    <3> QED
      BY <3>1, <3>2, <1>4, <1>8 DEF ShapeOf, PlaceOf, Batching, Windowed, FirstPcs, WindowPcs
  <2> QED
    BY <2>1, <2>2
<1>10. /\ MdOf(d) = c.md /\ SeenOf(d) = None /\ ClearOf(d) = None /\ TransientOf(d) = None
       /\ TrimOf(d) = None /\ ~Rolls(d) /\ ~Fresh(d) /\ ~Advanced(d)
       /\ RollOf(d) = None /\ OfferOf(d) = None
       /\ d.pc \notin {"lock", "frontAdvance", "pushPending"}
       /\ (HasLocked(d) => HasLocked(c) /\ d.block = c.block)
  <2>1. d.pc \in {"idle", "reserve", "growReserve", "search", "finish", "batchScan"}
    BY <1>4, <1>8
  <2>2. d.pc = "finish" <=> c.after = "finish"
    BY <1>8
  <2> QED
    BY <2>1, <2>2, <1>3, <1>8 DEF MdOf, SeenOf, ClearOf, TransientOf, TrimOf, Rolls, Fresh, Advanced,
       RollOf, OfferOf, HasLocked
<1>11. SameFlight(c, d)
  BY <1>3, <1>10 DEF SameFlight, InFlight
<1>12. /\ managers' \in [Managers -> [free : Seq(Records), active : Nat, trimming : BOOLEAN]]
       /\ \A k \in Managers : /\ managers'[k].free = managers[k].free
                              /\ managers'[k].trimming = managers[k].trimming
                              /\ managers'[k].active = IF k = m THEN managers[k].active - 1
                                                       ELSE managers[k].active
  <2>1. managers[m].active > 0
    BY <1>2, <1>3, Busy
  <2>2. managers[m].active - 1 \in Nat
    BY <2>1, <1>2, ManagersTyped
  <2> QED
    BY <2>2, <1>1, <1>2, ManagersTyped
<1>13. \A q \in Records : q = MdOf(c) => record[q].state \in MdStates(d)
  <2>1. \A q \in Records : q = MdOf(c) => record[q].state \in MdStates(c) /\ q # None
    BY InHandFacts, RecordFacts
  <2>2. c.after = "finish" => MdStates(c) = {"locked"} /\ MdStates(d) = {"locked"}
    BY <1>1, <1>8 DEF MdStates
  <2> QED
    BY <2>1, <2>2, <1>3
<1>14. \A q \in Records : q \in Range(c.batch) => record[q].state \in BatchStates(d, q)
  <2>1. \A q \in Records : BatchStates(c, q) = {"pending"} /\ BatchStates(d, q) = {"pending"}
    BY <1>3, <1>10, RecordFacts DEF BatchStates
  <2> QED
    BY <2>1, InHandFacts
<1>15. Well(d) /\ call' = [call EXCEPT ![t] = d]
  BY <1>1, <1>8, <1>9, <1>a DEF Well
<1>16. /\ Moves(t, d) /\ TypeInv' /\ Control' /\ Places(kind, of)' /\ StatesAt(kind, of)'
       /\ Described' /\ Rolling' /\ LateFrees' /\ Tiling(kind)' /\ Versions'
  BY <1>1, <1>3, <1>8, <1>10, <1>11, <1>12, <1>13, <1>14, <1>15, PlainStep
<1>17. ManagerCounts' /\ Trims'
  <2>1. \A k \in Managers : managers'[k].active = managers[k].active + Bit(TransientOf(d) = k)
                                                          - Bit(TransientOf(c) = k)
    BY <1>2, <1>3, <1>10, <1>12, ManagersTyped DEF Bit
  <2>2. TransientOf(d) \notin Managers
    BY <1>10, ManagersTyped
  <2> QED
    BY <2>1, <2>2, <1>1, <1>3, <1>10, <1>12, <1>16, WaitsElsewhere
<1>18. PendingCounts'
  <2>1. d.stolen = 0 \/ d.window = c.window
    BY <1>4, <1>8
  <2> QED
    BY <2>1, <1>1, <1>8, <1>10, <1>16, PendingSame
<1> QED
  BY <1>16, <1>17, <1>18 DEF IInv

\* A thread takes its place in a manager's count.
Joins(c) == c.pc = "reserve" \/ c.pc = "growReserve"

LEMMA JoinsManager ==
    ASSUME NEW kind, NEW of, IInv(kind, of), NEW t \in Threads, NEW d, Joins(call[t]),
           NEW m \in Managers, ~managers[m].trimming, TransientOf(d) = m,
           managers' = [managers EXCEPT ![m].active = @ + 1],
           call' = [call EXCEPT ![t] = d], d \in CallType, d.pc \in {"popRecord", "growCheck"},
           d.manager = m, d.pc = "growCheck" => d.seen \in Records /\ m = ManagerFor(d.seen),
           d.md = call[t].md, d.reserved = call[t].reserved, d.list = call[t].list,
           d.batch = call[t].batch, d.stolen = call[t].stolen, d.stage = call[t].stage,
           UNCHANGED <<frontier, count, header, record, pending, bins, reclaiming, held, late, arena>>
    PROVE  IInv(kind, of)'
<1> DEFINE c == call[t]
<1>1. c \in CallType /\ ShapeOf(c) /\ PlaceOf(c) /\ Quiet(c)
  BY QuietStart DEF Quiet, QuietPcs, Joins
<1>2. c.list = <<>> /\ c.batch = <<>> /\ c.stolen = 0 /\ c.md = None /\ c.reserved = None
      /\ c.stage = "first"
  BY <1>1 DEF ShapeOf, HasMd, HasReserved, Batching, FirstPcs, Joins
<1>3. /\ MdOf(c) = None /\ SeenOf(c) = None /\ ClearOf(c) = None
      /\ TransientOf(c) = None /\ TrimOf(c) = None /\ GoneOf(c) = None
      /\ ~Fresh(c) /\ ~Advanced(c) /\ c.pc \notin {"lock", "pushPending"}
  BY <1>1, QuietFacts
<1>4. ShapeOf(d) /\ PlaceOf(d)
  BY <1>2 DEF ShapeOf, PlaceOf, HasMd, HasReserved, Batching, Windowed, FirstPcs, WindowPcs
<1>5. /\ MdOf(d) = None /\ SeenOf(d) = None /\ ClearOf(d) = None /\ TrimOf(d) = None
      /\ ~Rolls(d) /\ ~Fresh(d) /\ ~Advanced(d) /\ ~HasLocked(d)
      /\ d.pc \notin {"lock", "frontAdvance", "pushPending"}
  BY <1>2 DEF MdOf, SeenOf, ClearOf, TrimOf, Rolls, Fresh, Advanced, HasLocked
<1>6. SameFlight(c, d)
  BY <1>3, <1>5 DEF SameFlight, InFlight
<1>7. /\ managers' \in [Managers -> [free : Seq(Records), active : Nat, trimming : BOOLEAN]]
      /\ \A k \in Managers : /\ managers'[k].free = managers[k].free
                             /\ managers'[k].trimming = managers[k].trimming
                             /\ managers'[k].active = IF k = m THEN managers[k].active + 1
                                                      ELSE managers[k].active
  <2>1. managers[m].active + 1 \in Nat
    BY ManagersTyped
  <2> QED
    BY <2>1, ManagersTyped
<1>8. Well(d)
  BY <1>4 DEF Well
<1>9. /\ \A q \in Records : q # MdOf(c)
      /\ \A q \in Records : q \notin Range(c.batch)
  BY <1>2, <1>3, RecordFacts, EmptyRange
<1>10. /\ Moves(t, d) /\ TypeInv' /\ Control' /\ Places(kind, of)' /\ StatesAt(kind, of)'
       /\ Described' /\ Rolling' /\ LateFrees' /\ Tiling(kind)' /\ Versions'
  BY <1>3, <1>5, <1>6, <1>7, <1>8, <1>9, PlainStep
<1>11. ManagerCounts' /\ Trims'
  <2>1. \A k \in Managers : managers'[k].active = managers[k].active + Bit(TransientOf(d) = k)
                                                          - Bit(TransientOf(c) = k)
    BY <1>3, <1>7, ManagersTyped DEF Bit
  <2> QED
    BY <2>1, <1>3, <1>5, <1>7, <1>10, WaitsElsewhere
<1>12. PendingCounts'
  BY <1>2, <1>3, <1>5, <1>10, PendingSame
<1> QED
  BY <1>10, <1>11, <1>12 DEF IInv

LEMMA ReserveStep ==
    ASSUME NEW kind, NEW of, IInv(kind, of), NEW t \in Threads, Reserve(t)
    PROVE  IInv(kind, of)'
<1> DEFINE c == IF call[t].manager = 0 THEN [call[t] EXCEPT !.seen = count] ELSE call[t]
           d == [c EXCEPT !.pc = "popRecord"]
           g == [c EXCEPT !.pc = "growReserve"]
           e == [c EXCEPT !.manager = @ + 1]
<1>1. call[t] \in CallType /\ count \in 0 .. NumRecords /\ call \in [Threads -> CallType]
  BY QuietStart DEF TypeInv
<1>2. c \in CallType /\ c.pc = call[t].pc /\ c.md = call[t].md /\ c.reserved = call[t].reserved
      /\ c.list = call[t].list /\ c.batch = call[t].batch /\ c.stolen = call[t].stolen
      /\ c.stage = call[t].stage
  BY <1>1 DEF CallType
<1>3. c.pc = "reserve"
      /\ UNCHANGED <<frontier, count, header, record, pending, bins, reclaiming, held, late, arena>>
      /\ \/ call' = [call EXCEPT ![t] = g] /\ managers' = managers
         \/ call' = [call EXCEPT ![t] = e] /\ managers' = managers
         \/ /\ call' = [call EXCEPT ![t] = d] /\ managers' = [managers EXCEPT ![c.manager].active = @ + 1]
            /\ c.seen > 0 /\ c.manager <= ManagerFor(c.seen - 1) /\ ~managers[c.manager].trimming
  BY DEF Reserve
<1> HIDE DEF c
<1>4. /\ d.pc = "popRecord" /\ d.md = c.md /\ d.reserved = c.reserved /\ d.list = c.list
      /\ d.batch = c.batch /\ d.stolen = c.stolen /\ d.stage = c.stage /\ d.manager = c.manager
      /\ g.pc = "growReserve" /\ e.pc = "reserve"
  BY <1>2, <1>3 DEF CallType
<1>5. d \in CallType
  <2>1. "popRecord" \in Pcs
    BY DEF Pcs, FirstPcs
  <2> QED
    BY <1>2, <2>1 DEF CallType
<1> HIDE DEF d, e, g
<1>6. CASE managers' = managers /\ (call' = [call EXCEPT ![t] = g] \/ call' = [call EXCEPT ![t] = e])
  <2>1. call'[t].pc # "popRecord"
    BY <1>1, <1>4, <1>6
  <2> QED
    BY <2>1, <1>6, ReserveMisses
<1>7. CASE /\ call' = [call EXCEPT ![t] = d] /\ managers' = [managers EXCEPT ![c.manager].active = @ + 1]
           /\ c.seen > 0 /\ c.manager <= ManagerFor(c.seen - 1) /\ ~managers[c.manager].trimming
  <2>1. c.seen - 1 \in Records /\ c.manager \in Nat
    BY <1>2, <1>7, RecordFacts DEF CallType
  <2>2. ManagerFor(c.seen - 1) \in Managers
    BY <2>1, ManagerFacts
  <2>3. c.manager \in Managers
    BY <2>1, <2>2, <1>7, Constants DEF Managers
  <2>4. Joins(call[t]) /\ TransientOf(d) = c.manager
    BY <1>2, <1>3, <1>4 DEF Joins, TransientOf
  <2>5. PICK m \in Managers : m = c.manager
    BY <2>3
  <2> QED
    BY <2>4, <2>5, <1>2, <1>3, <1>4, <1>5, <1>7, JoinsManager
<1> QED
  BY <1>3, <1>6, <1>7

LEMMA GrowReserveStep ==
    ASSUME NEW kind, NEW of, IInv(kind, of), NEW t \in Threads, GrowReserve(t)
    PROVE  IInv(kind, of)'
<1> DEFINE c == call[t]
           m == ManagerFor(c.seen)
           d == [c EXCEPT !.pc = "growCheck", !.manager = m]
           e == [c EXCEPT !.seen = count]
<1>1. c \in CallType /\ count \in 0 .. NumRecords /\ call \in [Threads -> CallType]
  BY QuietStart DEF TypeInv
<1>2. c.pc = "growReserve"
      /\ UNCHANGED <<frontier, count, header, record, pending, bins, reclaiming, held, late, arena>>
      /\ \/ call' = [call EXCEPT ![t] = Idle] /\ managers' = managers
         \/ call' = [call EXCEPT ![t].seen = count] /\ managers' = managers
         \/ /\ call' = [call EXCEPT ![t].pc = "growCheck", ![t].manager = m]
            /\ managers' = [managers EXCEPT ![m].active = @ + 1]
            /\ m \in Managers /\ ~managers[m].trimming
  BY DEF GrowReserve
<1>3. CASE managers' = managers /\ (call' = [call EXCEPT ![t] = Idle] \/ call' = [call EXCEPT ![t].seen = count])
  <2>1. call'[t].pc # "growCheck"
    BY <1>1, <1>2, <1>3 DEF Idle, CallType
  <2> QED
    BY <2>1, <1>3, GrowReserveMisses
<1>4. CASE /\ call' = [call EXCEPT ![t].pc = "growCheck", ![t].manager = m]
           /\ managers' = [managers EXCEPT ![m].active = @ + 1]
           /\ m \in Managers /\ ~managers[m].trimming
  <2>1. c.seen \in Records
    <3>1. c.seen \in Nat
      BY <1>1, RecordFacts DEF CallType
    <3> QED
      BY <3>1, <1>4, ManagerFacts
  <2>2. call' = [call EXCEPT ![t] = d]
    BY <1>1, <1>4 DEF CallType
  <2>3. d \in CallType
    <3>1. "growCheck" \in Pcs /\ m \in Nat
      BY <1>4, ManagersTyped DEF Pcs, FirstPcs
    <3> HIDE DEF m
    <3> QED
      BY <1>1, <3>1 DEF CallType
  <2>4. /\ d.pc = "growCheck" /\ d.md = c.md /\ d.reserved = c.reserved /\ d.list = c.list
        /\ d.batch = c.batch /\ d.stolen = c.stolen /\ d.stage = c.stage /\ d.manager = m
        /\ d.seen = c.seen
    BY <1>1 DEF CallType
  <2> HIDE DEF d
  <2>5. Joins(c) /\ TransientOf(d) = m
    BY <1>2, <2>4 DEF Joins, TransientOf
  <2> QED
    BY <2>1, <2>2, <2>3, <2>4, <2>5, <1>2, <1>4, JoinsManager
<1> QED
  BY <1>2, <1>3, <1>4

-----------------------------------------------------------------------------
(* Threads that wait on a manager, and the record they get.                *)

AtManager(c) == c.pc \in {"popRecord", "growCheck", "grow"}

LEMMA AtManagerFacts ==
    ASSUME NEW kind, NEW of, IInv(kind, of), NEW t \in Threads, AtManager(call[t])
    PROVE  /\ call[t] \in CallType /\ call[t].manager \in Managers
           /\ call[t].list = <<>> /\ call[t].batch = <<>> /\ call[t].stolen = 0 /\ call[t].md = None
           /\ call[t].reserved = None /\ call[t].stage = "first"
           /\ MdOf(call[t]) = None /\ SeenOf(call[t]) = None /\ ClearOf(call[t]) = None
           /\ TransientOf(call[t]) = call[t].manager /\ TrimOf(call[t]) = None
           /\ GoneOf(call[t]) = None /\ ~Fresh(call[t]) /\ ~Advanced(call[t])
           /\ call[t].pc \notin {"lock", "pushPending"}
           /\ call[t].pc # "popRecord" => /\ call[t].seen \in Records
                                          /\ call[t].manager = ManagerFor(call[t].seen)
<1>1. call[t] \in CallType /\ ShapeOf(call[t]) /\ PlaceOf(call[t])
  BY QuietStart
<1>2. call[t].list = <<>> /\ call[t].batch = <<>> /\ call[t].stolen = 0 /\ call[t].md = None
      /\ call[t].reserved = None /\ call[t].stage = "first"
  BY <1>1 DEF ShapeOf, HasMd, HasReserved, Batching, FirstPcs, AtManager
<1>3. /\ call[t].pc # "popRecord" => /\ call[t].seen \in Records
                                     /\ call[t].manager = ManagerFor(call[t].seen)
      /\ call[t].manager \in Managers
  BY <1>1, ManagerFacts DEF PlaceOf, AtManager
<1> QED
  BY <1>1, <1>2, <1>3 DEF AtManager, MdOf, SeenOf, ClearOf, TransientOf, TrimOf, GoneOf, Fresh, Advanced

LEMMA WaitsStill ==
    ASSUME NEW kind, NEW of, IInv(kind, of), NEW t \in Threads, NEW d, AtManager(call[t]),
           call' = [call EXCEPT ![t] = d], d \in CallType,
           d.pc = "grow" \/ (d.pc = "release" /\ d.after \in {"idle", "reserve", "growReserve"}),
           d.manager = call[t].manager, d.pc = "grow" => d.seen = call[t].seen /\ call[t].pc # "popRecord",
           d.md = call[t].md, d.reserved = call[t].reserved, d.list = call[t].list,
           d.batch = call[t].batch, d.stolen = call[t].stolen, d.stage = call[t].stage,
           UNCHANGED <<frontier, count, managers, header, record, pending, bins, reclaiming, held, late, arena>>
    PROVE  IInv(kind, of)'
<1> DEFINE c == call[t]
<1>1. c \in CallType /\ c.manager \in Managers
      /\ c.list = <<>> /\ c.batch = <<>> /\ c.stolen = 0 /\ c.md = None
      /\ c.reserved = None /\ c.stage = "first"
      /\ (c.pc # "popRecord" => c.seen \in Records /\ c.manager = ManagerFor(c.seen))
  BY AtManagerFacts
<1>2. /\ MdOf(c) = None /\ SeenOf(c) = None /\ ClearOf(c) = None /\ TransientOf(c) = c.manager
      /\ TrimOf(c) = None /\ GoneOf(c) = None /\ ~Fresh(c) /\ ~Advanced(c)
      /\ c.pc \notin {"lock", "pushPending"}
  BY AtManagerFacts
<1>3. ShapeOf(d) /\ PlaceOf(d)
  BY <1>1 DEF ShapeOf, PlaceOf, HasMd, HasReserved, Batching, Windowed, FirstPcs, WindowPcs
<1>4. /\ MdOf(d) = None /\ SeenOf(d) = None /\ ClearOf(d) = None /\ TransientOf(d) = c.manager
      /\ TrimOf(d) = None /\ ~Rolls(d) /\ ~Fresh(d) /\ ~Advanced(d) /\ ~HasLocked(d)
      /\ d.pc \notin {"lock", "frontAdvance", "pushPending"}
  BY <1>1 DEF MdOf, SeenOf, ClearOf, TransientOf, TrimOf, Rolls, Fresh, Advanced, HasLocked
<1>5. SameFlight(c, d)
  BY <1>2, <1>4 DEF SameFlight, InFlight
<1>6. Well(d)
  BY <1>3 DEF Well
<1>7. /\ \A q \in Records : q # MdOf(c)
      /\ \A q \in Records : q \notin Range(c.batch)
  BY <1>1, <1>2, RecordFacts, EmptyRange
<1>8. /\ managers' \in [Managers -> [free : Seq(Records), active : Nat, trimming : BOOLEAN]]
      /\ \A m \in Managers : managers'[m].free = managers[m].free
  BY ManagersTyped
<1>9. /\ Moves(t, d) /\ TypeInv' /\ Control' /\ Places(kind, of)' /\ StatesAt(kind, of)'
      /\ Described' /\ Rolling' /\ LateFrees' /\ Tiling(kind)' /\ Versions'
  BY <1>2, <1>4, <1>5, <1>6, <1>7, <1>8, PlainStep
<1>10. ManagerCounts' /\ Trims'
  BY <1>2, <1>4, <1>9, CountsSame
<1>11. PendingCounts'
  BY <1>1, <1>2, <1>4, <1>9, PendingSame
<1> QED
  BY <1>9, <1>10, <1>11 DEF IInv

LEMMA PopMisses ==
    ASSUME NEW kind, NEW of, IInv(kind, of), NEW t \in Threads, PopRecord(t),
           managers[call[t].manager].free = <<>>
    PROVE  IInv(kind, of)'
<1> DEFINE c == call[t]
           d == [c EXCEPT !.pc = "release", !.after = "reserve"]
<1>1. c.pc = "popRecord" /\ call' = [call EXCEPT ![t].pc = "release", ![t].after = "reserve"]
      /\ UNCHANGED <<frontier, count, managers, header, record, pending, bins, reclaiming, held, late, arena>>
  BY DEF PopRecord
<1>2. AtManager(c) /\ c \in CallType /\ call \in [Threads -> CallType]
  BY <1>1, QuietStart DEF AtManager, TypeInv
<1>3. call' = [call EXCEPT ![t] = d]
  BY <1>1, <1>2 DEF CallType
<1>4. d \in CallType
  BY <1>2 DEF CallType, Pcs
<1>5. /\ d.pc = "release" /\ d.after = "reserve" /\ d.md = c.md /\ d.reserved = c.reserved
      /\ d.list = c.list /\ d.batch = c.batch /\ d.stolen = c.stolen /\ d.stage = c.stage
      /\ d.manager = c.manager
  BY <1>2 DEF CallType
<1> HIDE DEF d
<1> QED
  BY <1>1, <1>2, <1>3, <1>4, <1>5, WaitsStill

LEMMA GrowCheckStep ==
    ASSUME NEW kind, NEW of, IInv(kind, of), NEW t \in Threads, GrowCheck(t)
    PROVE  IInv(kind, of)'
<1> DEFINE c == call[t]
           p == IF NoRoomFor(c.seen) THEN "release" ELSE "grow"
           d == [c EXCEPT !.pc = p, !.after = "idle"]
<1>1. c.pc = "growCheck" /\ call' = [call EXCEPT ![t].pc = p, ![t].after = "idle"]
      /\ UNCHANGED <<frontier, count, managers, header, record, pending, bins, reclaiming, held, late, arena>>
  BY DEF GrowCheck, shared
<1>2. AtManager(c) /\ c \in CallType /\ call \in [Threads -> CallType]
  BY <1>1, QuietStart DEF AtManager, TypeInv
<1>3. p \in {"release", "grow"}
  OBVIOUS
<1> HIDE DEF p
<1>4. call' = [call EXCEPT ![t] = d]
  BY <1>1, <1>2 DEF CallType
<1>5. d \in CallType
  BY <1>2, <1>3 DEF CallType, Pcs, FirstPcs
<1>6. /\ d.pc = p /\ d.after = "idle" /\ d.md = c.md /\ d.reserved = c.reserved
      /\ d.list = c.list /\ d.batch = c.batch /\ d.stolen = c.stolen /\ d.stage = c.stage
      /\ d.manager = c.manager /\ d.seen = c.seen
  BY <1>2 DEF CallType
<1> HIDE DEF d
<1> QED
  BY <1>1, <1>2, <1>3, <1>4, <1>5, <1>6, WaitsStill

LEMMA GrowMisses ==
    ASSUME NEW kind, NEW of, IInv(kind, of), NEW t \in Threads, Grow(t), count # call[t].seen
    PROVE  IInv(kind, of)'
<1> DEFINE c == call[t]
           d == [c EXCEPT !.pc = "release", !.after = "growReserve", !.seen = count]
<1>1. c.pc = "grow"
      /\ call' = [call EXCEPT ![t].pc = "release", ![t].after = "growReserve", ![t].seen = count]
      /\ UNCHANGED <<frontier, count, managers, header, record, pending, bins, reclaiming, held, late, arena>>
  BY DEF Grow
<1>2. AtManager(c) /\ c \in CallType /\ call \in [Threads -> CallType] /\ count \in 0 .. NumRecords
  BY <1>1, QuietStart DEF AtManager, TypeInv
<1>3. call' = [call EXCEPT ![t] = d]
  BY <1>1, <1>2 DEF CallType
<1>4. d \in CallType
  BY <1>2 DEF CallType, Pcs
<1>5. /\ d.pc = "release" /\ d.after = "growReserve" /\ d.md = c.md /\ d.reserved = c.reserved
      /\ d.list = c.list /\ d.batch = c.batch /\ d.stolen = c.stolen /\ d.stage = c.stage
      /\ d.manager = c.manager
  BY <1>2 DEF CallType
<1> HIDE DEF d
<1> QED
  BY <1>1, <1>2, <1>3, <1>4, <1>5, WaitsStill

\* A record whose place is not its manager's stack is among those out of it.
LEMMA TakenIs ==
    ASSUME NEW kind, NEW of, FreePlaces(kind, of), TypeInv, NEW m \in Managers, NEW r \in Records
    PROVE  r \in Taken(m) <=> r < count /\ ManagerFor(r) = m /\ kind[r] # "free"
<1>1. r \in Range(managers[m].free) <=> In(kind, of, r, "free", m)
  BY DEF FreePlaces
<1>2. kind[r] = "free" => of[r] = ManagerFor(r)
  BY DEF FreePlaces
<1>3. r \in 0 .. count - 1 <=> r < count
  BY RecordFacts DEF TypeInv
<1> QED
  BY <1>1, <1>2, <1>3 DEF Taken, In

LEMMA TakenThen ==
    ASSUME NEW new, NEW nof, FreePlaces(new, nof)', TypeInv', NEW m \in Managers, NEW r \in Records
    PROVE  r \in Taken(m)' <=> r < count' /\ ManagerFor(r) = m /\ new[r] # "free"
<1>1. r \in Range(managers'[m].free) <=> In(new, nof, r, "free", m)
  BY DEF FreePlaces, In
<1>2. new[r] = "free" => nof[r] = ManagerFor(r)
  BY DEF FreePlaces
<1>3. r \in 0 .. count' - 1 <=> r < count'
  <2>1. PICK n \in Int : n = count'
    BY DEF TypeInv
  <2>2. r \in 0 .. n - 1 <=> r < n
    BY RecordFacts
  <2> QED
    BY <2>1, <2>2
<1> QED
  BY <1>1, <1>2, <1>3 DEF Taken, In

LEMMA PopTakes ==
    ASSUME NEW kind, NEW of, IInv(kind, of), NEW t \in Threads, PopRecord(t),
           managers[call[t].manager].free # <<>>
    PROVE  Inv'
<1> DEFINE c == call[t]
<1>1. c.pc = "popRecord" /\ managers' = [managers EXCEPT ![c.manager].free = Tail(managers[c.manager].free)]
      /\ call' = [call EXCEPT ![t].pc = "front", ![t].reserved = Head(managers[c.manager].free),
                              ![t].manager = 0, ![t].seen = 0]
      /\ UNCHANGED <<frontier, count, header, record, pending, bins, reclaiming, held, late, arena>>
  BY DEF PopRecord
<1>2. AtManager(c) /\ c \in CallType /\ TypeInv /\ call \in [Threads -> CallType]
  BY <1>1, QuietStart DEF AtManager, TypeInv
<1>3. /\ c.list = <<>> /\ c.batch = <<>> /\ c.stolen = 0 /\ c.md = None
      /\ c.reserved = None /\ c.stage = "first" /\ c.manager \in Managers
      /\ MdOf(c) = None /\ SeenOf(c) = None /\ ClearOf(c) = None
      /\ TransientOf(c) = c.manager /\ TrimOf(c) = None
      /\ GoneOf(c) = None /\ ~Fresh(c) /\ ~Advanced(c)
  BY <1>2, AtManagerFacts
<1>a. PICK m \in Managers : m = c.manager
  BY <1>3
<1>b. PICK stack : stack = managers[m].free
  OBVIOUS
<1>4. stack \in Seq(Records) /\ IsInjective(stack) /\ stack # <<>>
  BY <1>a, <1>b, ManagersTyped, PlacesTyped DEF FreePlaces
<1>c. PICK r \in Records : r = Head(stack)
  BY <1>4, Popped
<1> DEFINE d == [c EXCEPT !.pc = "front", !.reserved = r, !.manager = 0, !.seen = 0]
<1>5. /\ r \in Range(stack) /\ Tail(stack) \in Seq(Records)
      /\ IsInjective(Tail(stack)) /\ \A q : q \in Range(Tail(stack)) <=> q \in Range(stack) /\ q # r
  BY <1>4, <1>c, Popped
<1>6. kind \in [Records -> Kinds] /\ kind[r] = "free" /\ of[r] = m /\ ManagerFor(r) = m
  BY <1>5, <1>b, PlacesTyped DEF FreePlaces, In
<1>7. r < count
  <2>1. SUFFICES ASSUME ~(r < count) PROVE FALSE
    OBVIOUS
  <2>2. PICK u \in Threads : ClearOf(call[u]) = m
    BY <2>1, <1>6, PlacesTyped DEF FreePlaces
  <2> QED
    BY <2>2, <1>3, <1>a, Busy
<1>8. d \in CallType
  <2>1. r \in MaybeRecord /\ "front" \in Pcs /\ 0 \in Nat /\ 0 \in 0 .. NumRecords
    BY Zeros DEF MaybeRecord, Pcs, FirstPcs
  <2> QED
    BY <1>2, <2>1 DEF CallType
<1>9. call' = [call EXCEPT ![t] = d]
  BY <1>1, <1>2, <1>a, <1>b, <1>c DEF CallType
<1>10. /\ d.pc = "front" /\ d.md = c.md /\ d.reserved = r /\ d.list = c.list
       /\ d.batch = c.batch /\ d.stolen = c.stolen /\ d.stage = c.stage /\ d.window = c.window
  BY <1>2 DEF CallType
<1> HIDE DEF d
<1>11. ShapeOf(d) /\ PlaceOf(d)
  <2>1. r # None
    BY RecordFacts
  <2> QED
    BY <1>3, <1>10, <2>1 DEF ShapeOf, PlaceOf, HasMd, HasReserved, Batching, Windowed, FirstPcs, WindowPcs
<1>12. Well(d) /\ Moves(t, d) /\ call' \in [Threads -> CallType]
  BY <1>2, <1>8, <1>9, <1>11, MovesTo DEF Well
<1>13. /\ MdOf(d) = None /\ SeenOf(d) = None /\ ClearOf(d) = None /\ TransientOf(d) = None
       /\ TrimOf(d) = None /\ ~Rolls(d) /\ ~Fresh(d) /\ ~Advanced(d) /\ ~HasLocked(d)
  BY <1>3, <1>10 DEF MdOf, SeenOf, ClearOf, TransientOf, TrimOf, Rolls, Fresh, Advanced, HasLocked
<1> PICK new, nof : Moved(kind, of, new, nof, r, "reserved", t)
  BY <1>6, CanMove DEF Kinds
<1>14. /\ new \in [Records -> Kinds] /\ Elsewhere(kind, of, new, nof, r)
       /\ new[r] = "reserved" /\ nof[r] = t
  BY DEF Moved
<1>15. /\ managers' \in [Managers -> [free : Seq(Records), active : Nat, trimming : BOOLEAN]]
       /\ \A k \in Managers : /\ managers'[k].free = IF k = m THEN Tail(stack) ELSE managers[k].free
                              /\ managers'[k].trimming = managers[k].trimming
                              /\ managers'[k].active = managers[k].active
  BY <1>1, <1>5, <1>a, <1>b, ManagersTyped
<1>16. TypeInv'
  BY <1>1, <1>2, <1>12, <1>15 DEF TypeInv
<1>17. SameFlight(c, d)
  BY <1>3, <1>13 DEF SameFlight, InFlight
<1>18. Control' /\ Described' /\ Rolling' /\ LateFrees' /\ Tiling(new)' /\ Versions'
  <2>1. \A q \in Records : q < count' /\ new[q] # "seen" => q < count /\ kind[q] # "seen"
    BY <1>1, <1>6, <1>14 DEF Elsewhere
  <2>2. d.pc # "frontAdvance" /\ d.pc # "lock" /\ c.pc # "lock" /\ Fewer
    BY <1>1, <1>10, QuietStart
  <2> QED
    BY <1>1, <1>3, <1>12, <1>13, <1>17, <2>1, <2>2, Quieter
<1>19. Places(new, nof)'
  <2>1. FreePlaces(new, nof)'
    <3>1. \A k \in Managers : IsInjective(managers'[k].free)
      BY <1>5, <1>15, PlacesTyped DEF FreePlaces
    <3>2. ASSUME NEW k \in Managers, NEW q \in Records
          PROVE  q \in Range(managers'[k].free) <=> IF q = r THEN In(new, nof, r, "free", k)
                                                    ELSE q \in Range(managers[k].free)
      <4>1. ~In(new, nof, r, "free", k)
        BY <1>14 DEF In
      <4>2. CASE k = m
        BY <4>1, <4>2, <1>5, <1>15, <1>b
      <4>3. CASE k # m
        <5>1. r \notin Range(managers[k].free)
          BY <4>3, <1>6, PlacesTyped DEF FreePlaces, In
        <5> QED
          BY <4>1, <4>3, <5>1, <1>15
      <4> QED
        BY <4>2, <4>3
    <3>3. FreeMoved(new, nof, r)
      BY <3>1, <3>2, <1>1, <1>7, <1>14 DEF FreeMoved
    <3> QED
      BY <3>3, <1>3, <1>12, <1>13, <1>14, PlacesTyped, FreePlacesPut
  <2>2. SharedPlaces(new, nof)'
    BY <1>1, <1>6, <1>14, PlacesTyped, SharedPlacesAway
  <2>3. ThreadPlaces(new, nof)'
    <3>1. kind[r] \notin ThreadKinds /\ ThreadPlaces(kind, of)
      BY <1>6, PlacesTyped DEF ThreadKinds
    <3>2. \A q \in Records : q # c.reserved
      BY <1>3, RecordFacts
    <3>3. ThreadMoved(new, r, t, d)
      BY <1>3, <1>10, <1>13, <1>14, <3>1, <3>2, NotInHand DEF ThreadMoved
    <3> QED
      BY <1>12, <1>14, <3>1, <3>3, ThreadPlacesPut
  <2>4. new \in [Records -> Kinds]
    BY <1>14
  <2> QED
    BY <2>1, <2>2, <2>3, <2>4 DEF Places
<1>20. StatesAt(new, nof)'
  <2>1. record[r].state \in Unused /\ record' = record /\ StatesAt(kind, of)
    BY <1>1, <1>6 DEF IInv, StatesAt
  <2>2. \A q \in Records : kind[q] \in {"md", "batch"} => of[q] \in Threads
    BY PlacesTyped DEF ThreadKinds
  <2>3. \A q \in Records : ~In(kind, of, q, "md", t) /\ ~In(kind, of, q, "batch", t)
    BY <1>3, RecordFacts, EmptyRange, InHandFacts
  <2> QED
    BY <1>12, <1>14, <2>1, <2>2, <2>3, StatesPut
<1>21. ManagerCounts'
  <2>1. \A k \in Managers, q \in Records : q # r => (q \in Taken(k)' <=> q \in Taken(k))
    <3> TAKE k \in Managers, q \in Records
    <3>1. q \in Taken(k) <=> q < count /\ ManagerFor(q) = k /\ kind[q] # "free"
      BY <1>2, PlacesTyped, TakenIs
    <3>2. q \in Taken(k)' <=> q < count' /\ ManagerFor(q) = k /\ new[q] # "free"
      BY <1>16, <1>19, TakenThen DEF Places
    <3> QED
      BY <3>1, <3>2, <1>1, <1>14 DEF Elsewhere
  <2>2. \A k \in Managers : r \notin Taken(k) /\ (r \in Taken(k)' <=> k = m)
    <3> TAKE k \in Managers
    <3>1. r \notin Taken(k)
      BY <1>2, <1>6, PlacesTyped, TakenIs
    <3>2. r \in 0 .. count' - 1
      BY <1>1, <1>2, <1>7, RecordFacts DEF TypeInv
    <3>3. r \notin Range(managers'[m].free)
      BY <1>5, <1>15
    <3> QED
      BY <3>1, <3>2, <3>3, <1>6 DEF Taken
  <2>3. \A k \in Managers : managers'[k].active =
           managers[k].active + Bit(TransientOf(d) = k) - Bit(TransientOf(c) = k)
                              + Bit(r \in Taken(k)') - Bit(r \in Taken(k))
    <3> TAKE k \in Managers
    <3>1. r \notin Taken(k) /\ (r \in Taken(k)' <=> k = m)
      BY <2>2
    <3>2. Bit(r \in Taken(k)) = 0 /\ Bit(r \in Taken(k)') = Bit(k = m)
      BY <3>1 DEF Bit
    <3>3. Bit(TransientOf(d) = k) = 0 /\ Bit(TransientOf(c) = k) = Bit(k = m)
      BY <1>3, <1>13, <1>a, ManagersTyped DEF Bit
    <3>4. Bit(k = m) \in Int /\ managers[k].active \in Nat
      BY ManagersTyped DEF Bit
    <3> QED
      BY <3>2, <3>3, <3>4, <1>15
  <2> QED
    BY <2>1, <2>3, <1>12, <1>16, ManagerCountsPut
<1>22. Trims'
  <2>1. \A u \in Threads : ClearOf(call[u]) # None => count' <= ClearOf(call[u]) * RecordsPerManager
    BY <1>1 DEF IInv, Trims
  <2> QED
    BY <2>1, <1>3, <1>12, <1>13, <1>15, TrimsPut
<1>23. PendingCounts'
  BY <1>1, <1>3, <1>10, <1>12, PendingSame
<1>24. IInv(new, nof)'
  BY <1>16, <1>18, <1>19, <1>20, <1>21, <1>22, <1>23 DEF IInv
<1> QED
  BY <1>24 DEF Inv

-----------------------------------------------------------------------------
(* The growth of the records, and its undoing.                             *)

LEMMA TakenElse ==
    ASSUME NEW kind, NEW of, IInv(kind, of), NEW new, NEW nof, FreePlaces(new, nof)', TypeInv',
           NEW r \in Records, Elsewhere(kind, of, new, nof, r),
           \A q \in Records : q # r => (q < count' <=> q < count)
    PROVE  \A m \in Managers, q \in Records : q # r => (q \in Taken(m)' <=> q \in Taken(m))
<1> TAKE m \in Managers, q \in Records
<1>1. q \in Taken(m) <=> q < count /\ ManagerFor(q) = m /\ kind[q] # "free"
  BY QuietStart, PlacesTyped, TakenIs DEF IInv
<1>2. q \in Taken(m)' <=> q < count' /\ ManagerFor(q) = m /\ new[q] # "free"
  BY TakenThen
<1> QED
  BY <1>1, <1>2 DEF Elsewhere

\* The tiles, when a record joins those they may not reach: nothing reaches
\* over the frontier.
LEMMA TilingGrown ==
    ASSUME NEW kind, NEW new, Tiling(kind), TypeInv,
           NEW t \in Threads, NEW d, Moves(t, d), SameFlight(call[t], d),
           \A r \in Records : Describes(r)' <=> Describes(r),
           record' = record, header' = header, frontier' = frontier, arena' = arena,
           \A r \in Records : r < count' /\ new[r] # "seen" =>
              (r < count /\ kind[r] # "seen") \/ frontier.at <= RecordAt(r)
    PROVE  Tiling(new)'
<1> PICK W, w, H, h, End, Pred : Tiled(kind, W, w, H, h, End, Pred)
  BY DEF Tiling
<1>1. Owners(W, w, H, h)'
  BY OwnersSame DEF Tiled
<1>2. Extents(W, w, H, h, End, Pred)'
  BY ExtentsSame DEF Tiled
<1>3. Cut(W \cup H, End, Pred)'
  BY CutSame DEF Tiled
<1>4. Middle(new, W, H, h, End)'
  <2> SUFFICES ASSUME NEW b \in W \cup H, NEW r \in Records, Settled(W, H, h, b)', r < count', new[r] # "seen"
               PROVE  End[b] <= RecordAt(r)'
    BY DEF Middle
  <2>1. RecordAt(r)' = RecordAt(r)
    BY DEF RecordAt
  <2>2. Settled(W, H, h, b)
    <3>1. \A u \in H : h[u] \in Threads
      BY DEF Tiled, Owners
    <3>2. \A u \in H : ~Advanced(call'[h[u]]) => ~Advanced(call[h[u]])
      BY <3>1 DEF Moves, SameFlight
    <3> QED
      BY <3>2 DEF Settled
  <2>3. CASE r < count /\ kind[r] # "seen"
    BY <2>1, <2>2, <2>3 DEF Tiled, Middle
  <2>4. CASE frontier.at <= RecordAt(r)
    <3>1. End[b] <= frontier.at
      BY DEF Tiled, Cut
    <3>2. End[b] \in Int
      BY DEF Tiled, Extents, Owners
    <3>3. frontier.at \in Int /\ RecordAt(r) \in Int
      <4>1. r \in Nat
        BY RecordFacts
      <4>2. frontier.at \in Int
        <5>1. frontier.at \in Blocks
          BY DEF TypeInv, Words
        <5>2. PICK n \in Blocks : n = frontier.at
          BY <5>1
        <5>3. n \in Nat
          BY BlockFacts
        <5> QED
          BY <5>2, <5>3
      <4> QED
        BY <4>1, <4>2, RecordAtBounds
    <3> QED
      BY <2>1, <2>4, <3>1, <3>2, <3>3
  <2> QED
    BY <2>3, <2>4
<1>5. Tiled(new, W, w, H, h, End, Pred)'
  BY <1>1, <1>2, <1>3, <1>4 DEF Tiled
<1> QED
  BY <1>5 DEF Tiling

LEMMA GrowTakes ==
    ASSUME NEW kind, NEW of, IInv(kind, of), NEW t \in Threads, Grow(t), count = call[t].seen
    PROVE  Inv'
<1> DEFINE c == call[t]
           d == [c EXCEPT !.pc = "growRecheck"]
<1>1. c.pc = "grow" /\ count' = count + 1 /\ call' = [call EXCEPT ![t].pc = "growRecheck"]
      /\ UNCHANGED <<frontier, managers, header, record, pending, bins, reclaiming, held, late, arena>>
  BY DEF Grow
<1>2. AtManager(c) /\ c \in CallType /\ TypeInv /\ call \in [Threads -> CallType]
  BY <1>1, QuietStart DEF AtManager, TypeInv
<1>3. /\ c.list = <<>> /\ c.batch = <<>> /\ c.stolen = 0 /\ c.md = None
      /\ c.reserved = None /\ c.stage = "first" /\ c.manager \in Managers
      /\ MdOf(c) = None /\ SeenOf(c) = None /\ ClearOf(c) = None
      /\ TransientOf(c) = c.manager /\ TrimOf(c) = None
      /\ GoneOf(c) = None /\ ~Fresh(c) /\ ~Advanced(c)
      /\ c.seen \in Records /\ c.manager = ManagerFor(c.seen)
  BY <1>1, <1>2, AtManagerFacts
<1>a. PICK m \in Managers : m = c.manager
  BY <1>3
<1>b. PICK r \in Records : r = c.seen
  BY <1>3
<1>4. r = count /\ ManagerFor(r) = m /\ r \in Nat /\ ~(r < count)
  BY <1>3, <1>a, <1>b, RecordFacts
<1>5. kind \in [Records -> Kinds] /\ kind[r] = "out"
  <2>1. kind[r] \in {"out", "free"}
    BY <1>4, PlacesTyped DEF FreePlaces
  <2>2. kind[r] # "free"
    <3>1. SUFFICES ASSUME kind[r] = "free" PROVE FALSE
      OBVIOUS
    <3>2. PICK u \in Threads : ClearOf(call[u]) = m
      BY <3>1, <1>4, PlacesTyped DEF FreePlaces
    <3> QED
      BY <3>2, <1>3, <1>a, Busy
  <2> QED
    BY <2>1, <2>2, PlacesTyped
<1>6. call' = [call EXCEPT ![t] = d]
  BY <1>1, <1>2 DEF CallType
<1>7. d \in CallType
  BY <1>2 DEF CallType, Pcs, FirstPcs
<1>8. /\ d.pc = "growRecheck" /\ d.md = c.md /\ d.reserved = c.reserved /\ d.list = c.list
      /\ d.batch = c.batch /\ d.stolen = c.stolen /\ d.stage = c.stage /\ d.window = c.window
      /\ d.seen = r /\ d.manager = m
  BY <1>2, <1>a, <1>b DEF CallType
<1> HIDE DEF d
<1>9. ShapeOf(d) /\ PlaceOf(d)
  BY <1>3, <1>4, <1>8 DEF ShapeOf, PlaceOf, HasMd, HasReserved, Batching, Windowed, FirstPcs, WindowPcs
<1>10. Well(d) /\ Moves(t, d) /\ call' \in [Threads -> CallType]
  BY <1>2, <1>6, <1>7, <1>9, MovesTo DEF Well
<1>11. /\ MdOf(d) = None /\ SeenOf(d) = r /\ ClearOf(d) = None /\ TransientOf(d) = None
       /\ TrimOf(d) = None /\ ~Rolls(d) /\ ~Fresh(d) /\ ~Advanced(d) /\ ~HasLocked(d)
  BY <1>3, <1>8 DEF MdOf, SeenOf, ClearOf, TransientOf, TrimOf, Rolls, Fresh, Advanced, HasLocked
<1> PICK new, nof : Moved(kind, of, new, nof, r, "seen", t)
  BY <1>5, CanMove DEF Kinds
<1>12. /\ new \in [Records -> Kinds] /\ Elsewhere(kind, of, new, nof, r)
       /\ new[r] = "seen" /\ nof[r] = t
  BY DEF Moved
<1>13. TypeInv'
  <2>1. count' \in 0 .. NumRecords
    BY <1>1, <1>4, RecordFacts
  <2> QED
    BY <2>1, <1>1, <1>2, <1>10 DEF TypeInv
<1>14. SameFlight(c, d)
  BY <1>3, <1>11 DEF SameFlight, InFlight
<1>15. \A q \in Records : q < count' <=> IF q = r THEN TRUE ELSE q < count
  BY <1>1, <1>4, RecordFacts
<1>16. Control' /\ Described' /\ Rolling' /\ LateFrees' /\ Tiling(new)' /\ Versions'
  <2>1. \A q \in Records : q < count' /\ new[q] # "seen" => q < count /\ kind[q] # "seen"
    BY <1>12, <1>15 DEF Elsewhere
  <2>2. d.pc # "frontAdvance" /\ d.pc # "lock" /\ c.pc # "lock" /\ Fewer
    BY <1>1, <1>8, QuietStart
  <2> QED
    BY <1>1, <1>3, <1>10, <1>11, <1>14, <2>1, <2>2, Quieter
<1>17. Places(new, nof)'
  <2>1. FreePlaces(new, nof)'
    <3>1. \A k \in Managers : r \notin Range(managers[k].free)
      BY <1>5, PlacesTyped DEF FreePlaces, In
    <3>2. \A k \in Managers : IsInjective(managers[k].free) /\ managers'[k].free = managers[k].free
      BY <1>1, PlacesTyped DEF FreePlaces
    <3>3. FreeMoved(new, nof, r)
      BY <3>1, <3>2, <1>12, <1>15 DEF FreeMoved, In
    <3> QED
      BY <3>3, <1>3, <1>10, <1>11, <1>12, PlacesTyped, FreePlacesPut
  <2>2. SharedPlaces(new, nof)'
    BY <1>1, <1>5, <1>12, PlacesTyped, SharedPlacesAway
  <2>3. ThreadPlaces(new, nof)'
    <3>1. kind[r] \notin ThreadKinds /\ ThreadPlaces(kind, of)
      BY <1>5, PlacesTyped DEF ThreadKinds
    <3>2. \A q \in Records : q # SeenOf(c)
      BY <1>3, RecordFacts
    <3>3. ThreadMoved(new, r, t, d)
      BY <1>3, <1>8, <1>11, <1>12, <3>1, <3>2, NotInHand DEF ThreadMoved
    <3> QED
      BY <1>10, <1>12, <3>1, <3>3, ThreadPlacesPut
  <2>4. new \in [Records -> Kinds]
    BY <1>12
  <2> QED
    BY <2>1, <2>2, <2>3, <2>4 DEF Places
<1>18. StatesAt(new, nof)'
  <2>1. record[r].state \in Unused /\ record' = record /\ StatesAt(kind, of)
    BY <1>1, <1>5 DEF IInv, StatesAt
  <2>2. \A q \in Records : kind[q] \in {"md", "batch"} => of[q] \in Threads
    BY PlacesTyped DEF ThreadKinds
  <2>3. \A q \in Records : ~In(kind, of, q, "md", t) /\ ~In(kind, of, q, "batch", t)
    BY <1>3, RecordFacts, EmptyRange, InHandFacts
  <2> QED
    BY <1>10, <1>12, <2>1, <2>2, <2>3, StatesPut
<1>19. ManagerCounts'
  <2>0. FreePlaces(new, nof)'
    BY <1>17 DEF Places
  <2>1. \A k \in Managers, q \in Records : q # r => (q \in Taken(k)' <=> q \in Taken(k))
    BY <2>0, <1>12, <1>13, <1>15, TakenElse
  <2>2. \A k \in Managers : r \notin Taken(k) /\ (r \in Taken(k)' <=> k = m)
    <3> TAKE k \in Managers
    <3>1. r \notin Taken(k)
      BY <1>2, <1>4, PlacesTyped, TakenIs
    <3> QED
      BY <3>1, <2>0, <1>4, <1>12, <1>13, <1>15, TakenThen
  <2>3. \A k \in Managers : managers'[k].active =
           managers[k].active + Bit(TransientOf(d) = k) - Bit(TransientOf(c) = k)
                              + Bit(r \in Taken(k)') - Bit(r \in Taken(k))
    <3> TAKE k \in Managers
    <3>2. Bit(r \in Taken(k)) = 0 /\ Bit(r \in Taken(k)') = Bit(k = m)
      BY <2>2 DEF Bit
    <3>3. Bit(TransientOf(d) = k) = 0 /\ Bit(TransientOf(c) = k) = Bit(k = m)
      BY <1>3, <1>11, <1>a, ManagersTyped DEF Bit
    <3>4. Bit(k = m) \in Int /\ managers[k].active \in Nat /\ managers'[k].active = managers[k].active
      BY <1>1, ManagersTyped DEF Bit
    <3> QED
      BY <3>2, <3>3, <3>4
  <2> QED
    BY <2>1, <2>3, <1>10, <1>13, ManagerCountsPut
<1>20. Trims'
  <2>1. ASSUME NEW u \in Threads, ClearOf(call[u]) # None
        PROVE  count' <= ClearOf(call[u]) * RecordsPerManager
    <3>1. PICK k \in Managers : k = ClearOf(call[u])
      <4>1. TrimOf(call[u]) = ClearOf(call[u])
        BY <2>1 DEF TrimOf, ClearOf
      <4> QED
        BY <4>1, <2>1, CallFacts DEF IInv
    <3>2. k # m
      BY <3>1, <1>3, <1>a, Busy
    <3>3. count <= k * RecordsPerManager
      BY <2>1, <3>1 DEF IInv, Trims
    <3>4. count # k * RecordsPerManager
      <4>1. k * RecordsPerManager \in Nat /\ k * RecordsPerManager < (k + 1) * RecordsPerManager
        BY Constants, ManagersTyped
      <4>2. ManagerFor(k * RecordsPerManager) = k
        BY <4>1, ManagerFacts
      <4> QED
        BY <3>2, <4>2, <1>4
    <3>5. count \in Nat /\ k * RecordsPerManager \in Nat
      BY <1>4, Constants, ManagersTyped
    <3> QED
      BY <3>1, <3>3, <3>4, <3>5, <1>1
  <2>2. \A k \in Managers : /\ managers'[k].trimming = managers[k].trimming
                            /\ managers[k].trimming => managers'[k].active = managers[k].active
    BY <1>1
  <2> QED
    BY <2>1, <2>2, <1>3, <1>10, <1>11, TrimsPut
<1>21. PendingCounts'
  BY <1>1, <1>3, <1>8, <1>10, PendingSame
<1>22. IInv(new, nof)'
  BY <1>13, <1>16, <1>17, <1>18, <1>19, <1>20, <1>21 DEF IInv
<1> QED
  BY <1>22 DEF Inv

-----------------------------------------------------------------------------
(* The second look at the growth.                                          *)

AtGrowth(c) == c.pc \in {"growRecheck", "growUndo"}

LEMMA AtGrowthFacts ==
    ASSUME NEW kind, NEW of, IInv(kind, of), NEW t \in Threads, AtGrowth(call[t])
    PROVE  /\ call[t] \in CallType /\ call[t].manager \in Managers /\ call[t].seen \in Records
           /\ call[t].manager = ManagerFor(call[t].seen)
           /\ In(kind, of, call[t].seen, "seen", t) /\ record[call[t].seen].state \in Unused
           /\ call[t].list = <<>> /\ call[t].batch = <<>> /\ call[t].stolen = 0 /\ call[t].md = None
           /\ call[t].reserved = None /\ call[t].stage = "first"
           /\ MdOf(call[t]) = None /\ SeenOf(call[t]) = call[t].seen /\ ClearOf(call[t]) = None
           /\ TransientOf(call[t]) = None /\ TrimOf(call[t]) = None
           /\ GoneOf(call[t]) = None /\ ~Fresh(call[t]) /\ ~Advanced(call[t])
           /\ call[t].pc \notin {"lock", "pushPending"}
<1>1. call[t] \in CallType /\ ShapeOf(call[t]) /\ PlaceOf(call[t])
  BY QuietStart
<1>2. call[t].list = <<>> /\ call[t].batch = <<>> /\ call[t].stolen = 0 /\ call[t].md = None
      /\ call[t].reserved = None /\ call[t].stage = "first"
  BY <1>1 DEF ShapeOf, HasMd, HasReserved, Batching, FirstPcs, AtGrowth
<1>3. /\ call[t].seen \in Records /\ call[t].manager = ManagerFor(call[t].seen)
      /\ call[t].manager \in Managers
  BY <1>1, ManagerFacts DEF PlaceOf, AtGrowth
<1>4. /\ MdOf(call[t]) = None /\ SeenOf(call[t]) = call[t].seen /\ ClearOf(call[t]) = None
      /\ TransientOf(call[t]) = None /\ TrimOf(call[t]) = None
      /\ GoneOf(call[t]) = None /\ ~Fresh(call[t]) /\ ~Advanced(call[t])
      /\ call[t].pc \notin {"lock", "pushPending"}
  BY <1>2 DEF AtGrowth, MdOf, SeenOf, ClearOf, TransientOf, TrimOf, GoneOf, Fresh, Advanced
<1> QED
  BY <1>1, <1>2, <1>3, <1>4, InHandFacts

\* To and fro between the two places, with the record still in doubt.
LEMMA GrowthDoubts ==
    ASSUME NEW kind, NEW of, IInv(kind, of), NEW t \in Threads, NEW d, AtGrowth(call[t]), AtGrowth(d),
           call' = [call EXCEPT ![t] = d], d \in CallType,
           d.manager = call[t].manager, d.seen = call[t].seen,
           d.md = call[t].md, d.reserved = call[t].reserved, d.list = call[t].list,
           d.batch = call[t].batch, d.stolen = call[t].stolen, d.stage = call[t].stage,
           UNCHANGED <<frontier, count, managers, header, record, pending, bins, reclaiming, held, late, arena>>
    PROVE  IInv(kind, of)'
<1> DEFINE c == call[t]
<1>1. c \in CallType /\ c.manager \in Managers /\ c.seen \in Records /\ c.manager = ManagerFor(c.seen)
      /\ c.list = <<>> /\ c.batch = <<>> /\ c.stolen = 0 /\ c.md = None
      /\ c.reserved = None /\ c.stage = "first"
  BY AtGrowthFacts
<1>2. /\ MdOf(c) = None /\ SeenOf(c) = c.seen /\ ClearOf(c) = None /\ TransientOf(c) = None
      /\ TrimOf(c) = None /\ GoneOf(c) = None /\ ~Fresh(c) /\ ~Advanced(c)
      /\ c.pc \notin {"lock", "pushPending"}
  BY AtGrowthFacts
<1>3. ShapeOf(d) /\ PlaceOf(d)
  BY <1>1 DEF AtGrowth, ShapeOf, PlaceOf, HasMd, HasReserved, Batching, Windowed, FirstPcs, WindowPcs
<1>4. /\ MdOf(d) = None /\ SeenOf(d) = c.seen /\ ClearOf(d) = None /\ TransientOf(d) = None
      /\ TrimOf(d) = None /\ ~Rolls(d) /\ ~Fresh(d) /\ ~Advanced(d) /\ ~HasLocked(d)
      /\ d.pc \notin {"lock", "frontAdvance", "pushPending"}
  BY <1>1 DEF AtGrowth, MdOf, SeenOf, ClearOf, TransientOf, TrimOf, Rolls, Fresh, Advanced, HasLocked
<1>5. SameFlight(c, d)
  BY <1>2, <1>4 DEF SameFlight, InFlight
<1>6. Well(d)
  BY <1>3 DEF Well
<1>7. /\ \A q \in Records : q # MdOf(c)
      /\ \A q \in Records : q \notin Range(c.batch)
  BY <1>1, <1>2, RecordFacts, EmptyRange
<1>8. /\ managers' \in [Managers -> [free : Seq(Records), active : Nat, trimming : BOOLEAN]]
      /\ \A m \in Managers : managers'[m].free = managers[m].free
  BY ManagersTyped
<1>9. /\ Moves(t, d) /\ TypeInv' /\ Control' /\ Places(kind, of)' /\ StatesAt(kind, of)'
      /\ Described' /\ Rolling' /\ LateFrees' /\ Tiling(kind)' /\ Versions'
  BY <1>2, <1>4, <1>5, <1>6, <1>7, <1>8, PlainStep
<1>10. ManagerCounts' /\ Trims'
  BY <1>2, <1>4, <1>9, CountsSame
<1>11. PendingCounts'
  BY <1>1, <1>2, <1>4, <1>9, PendingSame
<1> QED
  BY <1>9, <1>10, <1>11 DEF IInv

LEMMA GrowRecheckFails ==
    ASSUME NEW kind, NEW of, IInv(kind, of), NEW t \in Threads, GrowRecheck(t), NoRoomFor(call[t].seen)
    PROVE  IInv(kind, of)'
<1> DEFINE c == call[t]
           d == [c EXCEPT !.pc = "growUndo"]
<1>1. c.pc = "growRecheck" /\ call' = [call EXCEPT ![t] = d]
      /\ UNCHANGED <<frontier, count, managers, header, record, pending, bins, reclaiming, held, late, arena>>
  BY DEF GrowRecheck, shared
<1>2. AtGrowth(c) /\ c \in CallType
  BY <1>1, QuietStart DEF AtGrowth
<1>3. d \in CallType
  BY <1>2 DEF CallType, Pcs, FirstPcs
<1>4. /\ d.pc = "growUndo" /\ d.md = c.md /\ d.reserved = c.reserved
      /\ d.list = c.list /\ d.batch = c.batch /\ d.stolen = c.stolen /\ d.stage = c.stage
      /\ d.manager = c.manager /\ d.seen = c.seen
  BY <1>2 DEF CallType
<1> HIDE DEF d
<1>5. AtGrowth(d)
  BY <1>4 DEF AtGrowth
<1> QED
  BY <1>1, <1>2, <1>3, <1>4, <1>5, GrowthDoubts

LEMMA GrowUndoFails ==
    ASSUME NEW kind, NEW of, IInv(kind, of), NEW t \in Threads, GrowUndo(t), count # call[t].seen + 1
    PROVE  IInv(kind, of)'
<1> DEFINE c == call[t]
           d == [c EXCEPT !.pc = "growRecheck"]
<1>1. c.pc = "growUndo" /\ call' = [call EXCEPT ![t].pc = "growRecheck"]
      /\ UNCHANGED <<frontier, count, managers, header, record, pending, bins, reclaiming, held, late, arena>>
  BY DEF GrowUndo
<1>2. AtGrowth(c) /\ c \in CallType
  BY <1>1, QuietStart DEF AtGrowth
<1>3. d \in CallType
  BY <1>2 DEF CallType, Pcs, FirstPcs
<1>4. /\ d.pc = "growRecheck" /\ d.md = c.md /\ d.reserved = c.reserved
      /\ d.list = c.list /\ d.batch = c.batch /\ d.stolen = c.stolen /\ d.stage = c.stage
      /\ d.manager = c.manager /\ d.seen = c.seen
  BY <1>2 DEF CallType
<1>5. call' = [call EXCEPT ![t] = d]
  BY <1>1
<1> HIDE DEF d
<1>6. AtGrowth(d)
  BY <1>4 DEF AtGrowth
<1> QED
  BY <1>1, <1>2, <1>3, <1>4, <1>5, <1>6, GrowthDoubts

LEMMA GrowRecheckTakes ==
    ASSUME NEW kind, NEW of, IInv(kind, of), NEW t \in Threads, GrowRecheck(t), ~NoRoomFor(call[t].seen)
    PROVE  Inv'
<1> DEFINE c == call[t]
           d == [c EXCEPT !.pc = "front", !.reserved = c.seen, !.manager = 0, !.seen = 0]
<1>1. c.pc = "growRecheck" /\ call' = [call EXCEPT ![t] = d]
      /\ UNCHANGED <<frontier, count, managers, header, record, pending, bins, reclaiming, held, late, arena>>
  BY DEF GrowRecheck, shared
<1>2. AtGrowth(c) /\ c \in CallType /\ TypeInv
  BY <1>1, QuietStart DEF AtGrowth
<1>3. /\ c.list = <<>> /\ c.batch = <<>> /\ c.stolen = 0 /\ c.md = None
      /\ c.reserved = None /\ c.stage = "first" /\ c.seen \in Records
      /\ In(kind, of, c.seen, "seen", t) /\ record[c.seen].state \in Unused
      /\ MdOf(c) = None /\ SeenOf(c) = c.seen /\ ClearOf(c) = None
      /\ TransientOf(c) = None /\ TrimOf(c) = None
      /\ GoneOf(c) = None /\ ~Fresh(c) /\ ~Advanced(c)
  BY <1>2, AtGrowthFacts
<1>b. PICK r \in Records : r = c.seen
  BY <1>3
<1>4. d \in CallType
  <2>1. c.seen \in MaybeRecord /\ "front" \in Pcs /\ 0 \in Nat /\ 0 \in 0 .. NumRecords
    BY <1>3, Zeros DEF MaybeRecord, Pcs, FirstPcs
  <2> QED
    BY <1>2, <2>1 DEF CallType
<1>5. kind \in [Records -> Kinds] /\ kind[r] = "seen" /\ of[r] = t /\ r < count
  BY <1>3, <1>b, PlacesTyped DEF In
<1>8. /\ d.pc = "front" /\ d.md = c.md /\ d.reserved = r /\ d.list = c.list
      /\ d.batch = c.batch /\ d.stolen = c.stolen /\ d.stage = c.stage /\ d.window = c.window
  BY <1>2, <1>b DEF CallType
<1> HIDE DEF d
<1>9. ShapeOf(d) /\ PlaceOf(d)
  <2>1. r # None
    BY RecordFacts
  <2> QED
    BY <1>3, <1>8, <2>1 DEF ShapeOf, PlaceOf, HasMd, HasReserved, Batching, Windowed, FirstPcs, WindowPcs
<1>10. Well(d) /\ Moves(t, d) /\ call' \in [Threads -> CallType]
  BY <1>1, <1>2, <1>4, <1>9, MovesTo DEF Well
<1>11. /\ MdOf(d) = None /\ SeenOf(d) = None /\ ClearOf(d) = None /\ TransientOf(d) = None
       /\ TrimOf(d) = None /\ GoneOf(d) = None /\ ~Rolls(d) /\ ~Fresh(d) /\ ~Advanced(d) /\ ~HasLocked(d)
  BY <1>3, <1>8 DEF MdOf, SeenOf, ClearOf, TransientOf, TrimOf, GoneOf, Rolls, Fresh, Advanced, HasLocked
<1> PICK new, nof : Moved(kind, of, new, nof, r, "reserved", t)
  BY <1>5, CanMove DEF Kinds
<1>12. /\ new \in [Records -> Kinds] /\ Elsewhere(kind, of, new, nof, r)
       /\ new[r] = "reserved" /\ nof[r] = t
  BY DEF Moved
<1>13. TypeInv'
  BY <1>1, <1>2, <1>10 DEF TypeInv
<1>14. SameFlight(c, d)
  BY <1>3, <1>11 DEF SameFlight, InFlight
<1>15. Control' /\ Described' /\ Rolling' /\ LateFrees' /\ Versions'
  <2>1. \A q \in Records : q < count' /\ kind[q] # "seen" => q < count /\ kind[q] # "seen"
    BY <1>1
  <2>2. d.pc # "frontAdvance" /\ d.pc # "lock" /\ c.pc # "lock" /\ Fewer
    BY <1>1, <1>8, QuietStart
  <2> QED
    BY <1>1, <1>3, <1>10, <1>11, <1>14, <2>1, <2>2, Quieter
<1>16. Tiling(new)'
  <2>1. \A q \in Records : Describes(q)' <=> Describes(q)
    BY <1>1, <1>3, <1>10, <1>11, DescribesStay
  <2>2. frontier.at <= RecordAt(r)
    <3>1. r \in Nat
      BY RecordFacts
    <3>2. RecordAt(r + 1) < RecordAt(r) /\ RecordAt(r) \in Int
      BY <1>2, <3>1, RecordAtBounds
    <3>3. RecordAt(r + 1) \in Int
      <4>1. r + 1 \in Nat
        BY <3>1
      <4> QED
        BY <1>2, <4>1, RecordAtBounds
    <3>4. ~(RecordAt(r + 1) <= frontier.at)
      BY <1>b DEF NoRoomFor
    <3>5. frontier.at \in Int
      <4>1. frontier.at \in Blocks
        BY <1>2 DEF TypeInv, Words
      <4>2. PICK n \in Blocks : n = frontier.at
        BY <4>1
      <4>3. n \in Nat
        BY BlockFacts
      <4> QED
        BY <4>2, <4>3
    <3> QED
      BY <3>2, <3>3, <3>4, <3>5
  <2>3. \A q \in Records : q < count' /\ new[q] # "seen" =>
           (q < count /\ kind[q] # "seen") \/ frontier.at <= RecordAt(q)
    BY <2>2, <1>1, <1>12 DEF Elsewhere
  <2>4. Tiling(kind)
    BY DEF IInv
  <2> QED
    BY <2>1, <2>3, <2>4, <1>1, <1>2, <1>10, <1>14, TilingGrown
<1>17. Places(new, nof)'
  <2>1. FreePlaces(new, nof)'
    BY <1>1, <1>3, <1>5, <1>10, <1>11, <1>12, PlacesTyped, FreePlacesAway
  <2>2. SharedPlaces(new, nof)'
    BY <1>1, <1>5, <1>12, PlacesTyped, SharedPlacesAway
  <2>3. ThreadPlaces(new, nof)'
    <3>1. \A q \in Records : q # c.reserved /\ q # MdOf(c) /\ q # MdOf(d) /\ q # SeenOf(d)
      BY <1>3, <1>11, RecordFacts
    <3>2. ThreadMoved(new, r, t, d)
      BY <1>3, <1>8, <1>12, <1>b, <3>1, EmptyRange DEF ThreadMoved
    <3>3. ThreadPlaces(kind, of) /\ of[r] = t /\ nof[r] = t
      BY <1>5, <1>12, PlacesTyped
    <3> QED
      BY <1>10, <1>12, <3>2, <3>3, ThreadPlacesPut
  <2>4. new \in [Records -> Kinds]
    BY <1>12
  <2> QED
    BY <2>1, <2>2, <2>3, <2>4 DEF Places
<1>18. StatesAt(new, nof)'
  <2>1. record[r].state \in Unused /\ record' = record /\ StatesAt(kind, of)
    BY <1>1, <1>3, <1>b DEF IInv
  <2>2. \A q \in Records : kind[q] \in {"md", "batch"} => of[q] \in Threads
    BY PlacesTyped DEF ThreadKinds
  <2>3. \A q \in Records : ~In(kind, of, q, "md", t) /\ ~In(kind, of, q, "batch", t)
    BY <1>3, RecordFacts, EmptyRange, InHandFacts
  <2> QED
    BY <1>10, <1>12, <2>1, <2>2, <2>3, StatesPut
<1>19. ManagerCounts' /\ Trims'
  BY <1>1, <1>3, <1>10, <1>11, CountsSame
<1>20. PendingCounts'
  BY <1>1, <1>3, <1>8, <1>10, PendingSame
<1>21. IInv(new, nof)'
  BY <1>13, <1>15, <1>16, <1>17, <1>18, <1>19, <1>20 DEF IInv
<1> QED
  BY <1>21 DEF Inv

LEMMA GrowUndoTakes ==
    ASSUME NEW kind, NEW of, IInv(kind, of), NEW t \in Threads, GrowUndo(t), count = call[t].seen + 1
    PROVE  Inv'
<1> DEFINE c == call[t]
           d == [c EXCEPT !.pc = "release", !.after = "idle"]
<1>1. c.pc = "growUndo" /\ count' = c.seen
      /\ call' = [call EXCEPT ![t].pc = "release", ![t].after = "idle"]
      /\ UNCHANGED <<frontier, managers, header, record, pending, bins, reclaiming, held, late, arena>>
  BY DEF GrowUndo
<1>2. AtGrowth(c) /\ c \in CallType /\ TypeInv /\ call \in [Threads -> CallType]
  BY <1>1, QuietStart DEF AtGrowth, TypeInv
<1>3. /\ c.list = <<>> /\ c.batch = <<>> /\ c.stolen = 0 /\ c.md = None
      /\ c.reserved = None /\ c.stage = "first" /\ c.seen \in Records
      /\ c.manager \in Managers /\ c.manager = ManagerFor(c.seen)
      /\ In(kind, of, c.seen, "seen", t) /\ record[c.seen].state \in Unused
      /\ MdOf(c) = None /\ SeenOf(c) = c.seen /\ ClearOf(c) = None
      /\ TransientOf(c) = None /\ TrimOf(c) = None
      /\ GoneOf(c) = None /\ ~Fresh(c) /\ ~Advanced(c)
  BY <1>2, AtGrowthFacts
<1>a. PICK m \in Managers : m = c.manager
  BY <1>3
<1>b. PICK r \in Records : r = c.seen
  BY <1>3
<1>4. count = r + 1 /\ count' = r /\ ManagerFor(r) = m /\ r \in Nat
  BY <1>1, <1>3, <1>a, <1>b, RecordFacts
<1>5. kind \in [Records -> Kinds] /\ kind[r] = "seen" /\ of[r] = t
  BY <1>3, <1>b, PlacesTyped DEF In
<1>6. call' = [call EXCEPT ![t] = d]
  BY <1>1, <1>2 DEF CallType
<1>7. d \in CallType
  BY <1>2 DEF CallType, Pcs
<1>8. /\ d.pc = "release" /\ d.after = "idle" /\ d.md = c.md /\ d.reserved = c.reserved /\ d.list = c.list
      /\ d.batch = c.batch /\ d.stolen = c.stolen /\ d.stage = c.stage /\ d.window = c.window
      /\ d.manager = m
  BY <1>2, <1>a DEF CallType
<1> HIDE DEF d
<1>9. ShapeOf(d) /\ PlaceOf(d)
  BY <1>3, <1>8 DEF ShapeOf, PlaceOf, HasMd, HasReserved, Batching, Windowed, FirstPcs, WindowPcs
<1>10. Well(d) /\ Moves(t, d) /\ call' \in [Threads -> CallType]
  BY <1>2, <1>6, <1>7, <1>9, MovesTo DEF Well
<1>11. /\ MdOf(d) = None /\ SeenOf(d) = None /\ ClearOf(d) = None /\ TransientOf(d) = m
       /\ TrimOf(d) = None /\ ~Rolls(d) /\ ~Fresh(d) /\ ~Advanced(d) /\ ~HasLocked(d)
  BY <1>3, <1>8 DEF MdOf, SeenOf, ClearOf, TransientOf, TrimOf, Rolls, Fresh, Advanced, HasLocked
<1> PICK new, nof : Moved(kind, of, new, nof, r, "out", t)
  BY <1>5, CanMove DEF Kinds
<1>12. /\ new \in [Records -> Kinds] /\ Elsewhere(kind, of, new, nof, r)
       /\ new[r] = "out" /\ nof[r] = t
  BY DEF Moved
<1>13. TypeInv'
  <2>1. count' \in 0 .. NumRecords
    BY <1>4, RecordFacts
  <2> QED
    BY <2>1, <1>1, <1>2, <1>10 DEF TypeInv
<1>14. SameFlight(c, d)
  BY <1>3, <1>11 DEF SameFlight, InFlight
<1>15. \A q \in Records : q < count' <=> IF q = r THEN FALSE ELSE q < count
  BY <1>4, RecordFacts
<1>16. Control' /\ Described' /\ Rolling' /\ LateFrees' /\ Tiling(new)' /\ Versions'
  <2>1. \A q \in Records : q < count' /\ new[q] # "seen" => q < count /\ kind[q] # "seen"
    BY <1>12, <1>15 DEF Elsewhere
  <2>2. d.pc # "frontAdvance" /\ d.pc # "lock" /\ c.pc # "lock" /\ Fewer
    BY <1>1, <1>8, QuietStart
  <2> QED
    BY <1>1, <1>3, <1>10, <1>11, <1>14, <2>1, <2>2, Quieter
<1>17. Places(new, nof)'
  <2>1. FreePlaces(new, nof)'
    <3>1. \A k \in Managers : r \notin Range(managers[k].free)
      BY <1>5, PlacesTyped DEF FreePlaces, In
    <3>2. \A k \in Managers : IsInjective(managers[k].free) /\ managers'[k].free = managers[k].free
      BY <1>1, PlacesTyped DEF FreePlaces
    <3>3. FreeMoved(new, nof, r)
      BY <3>1, <3>2, <1>12, <1>15 DEF FreeMoved, In
    <3> QED
      BY <3>3, <1>3, <1>10, <1>11, <1>12, PlacesTyped, FreePlacesPut
  <2>2. SharedPlaces(new, nof)'
    BY <1>1, <1>5, <1>12, PlacesTyped, SharedPlacesAway
  <2>3. ThreadPlaces(new, nof)'
    <3>1. \A q \in Records : q # c.reserved /\ q # MdOf(c) /\ q # MdOf(d) /\ q # SeenOf(d)
      BY <1>3, <1>11, RecordFacts
    <3>2. ThreadMoved(new, r, t, d)
      BY <1>3, <1>8, <1>12, <1>b, <3>1, EmptyRange DEF ThreadMoved
    <3>3. ThreadPlaces(kind, of) /\ of[r] = t /\ new[r] \notin ThreadKinds
      BY <1>5, <1>12, PlacesTyped DEF ThreadKinds
    <3> QED
      BY <1>10, <1>12, <3>2, <3>3, ThreadPlacesPut
  <2>4. new \in [Records -> Kinds]
    BY <1>12
  <2> QED
    BY <2>1, <2>2, <2>3, <2>4 DEF Places
<1>18. StatesAt(new, nof)'
  <2>1. record[r].state \in Unused /\ record' = record /\ StatesAt(kind, of)
    BY <1>1, <1>3, <1>b DEF IInv
  <2>2. \A q \in Records : kind[q] \in {"md", "batch"} => of[q] \in Threads
    BY PlacesTyped DEF ThreadKinds
  <2>3. \A q \in Records : ~In(kind, of, q, "md", t) /\ ~In(kind, of, q, "batch", t)
    BY <1>3, RecordFacts, EmptyRange, InHandFacts
  <2> QED
    BY <1>10, <1>12, <2>1, <2>2, <2>3, StatesPut
<1>19. \A k \in Managers : (r \in Taken(k) <=> k = m) /\ r \notin Taken(k)'
  <2> TAKE k \in Managers
  <2>0. FreePlaces(new, nof)'
    BY <1>17 DEF Places
  <2>1. r \in Taken(k) <=> k = m
    <3>1. r < count
      BY <1>4
    <3> QED
      BY <3>1, <1>2, <1>4, <1>5, PlacesTyped, TakenIs
  <2>2. r \notin Taken(k)'
    BY <2>0, <1>13, <1>15, TakenThen
  <2> QED
    BY <2>1, <2>2
<1>20. ManagerCounts'
  <2>0. FreePlaces(new, nof)'
    BY <1>17 DEF Places
  <2>1. \A k \in Managers, q \in Records : q # r => (q \in Taken(k)' <=> q \in Taken(k))
    BY <2>0, <1>12, <1>13, <1>15, TakenElse
  <2>3. \A k \in Managers : managers'[k].active =
           managers[k].active + Bit(TransientOf(d) = k) - Bit(TransientOf(c) = k)
                              + Bit(r \in Taken(k)') - Bit(r \in Taken(k))
    <3> TAKE k \in Managers
    <3>2. Bit(r \in Taken(k)') = 0 /\ Bit(r \in Taken(k)) = Bit(k = m)
      BY <1>19 DEF Bit
    <3>3. Bit(TransientOf(c) = k) = 0 /\ Bit(TransientOf(d) = k) = Bit(k = m)
      BY <1>3, <1>11, ManagersTyped DEF Bit
    <3>4. Bit(k = m) \in Int /\ managers[k].active \in Nat /\ managers'[k].active = managers[k].active
      BY <1>1, ManagersTyped DEF Bit
    <3> QED
      BY <3>2, <3>3, <3>4
  <2> QED
    BY <2>1, <2>3, <1>10, <1>13, ManagerCountsPut
<1>21. Trims'
  <2>1. ASSUME NEW u \in Threads, ClearOf(call[u]) # None
        PROVE  count' <= ClearOf(call[u]) * RecordsPerManager
    <3>1. PICK k \in Managers : k = ClearOf(call[u])
      <4>1. TrimOf(call[u]) = ClearOf(call[u])
        BY <2>1 DEF TrimOf, ClearOf
      <4> QED
        BY <4>1, <2>1, CallFacts DEF IInv
    <3>3. count <= k * RecordsPerManager
      BY <2>1, <3>1 DEF IInv, Trims
    <3>5. k * RecordsPerManager \in Nat
      BY Constants, ManagersTyped
    <3> QED
      BY <3>1, <3>3, <3>5, <1>4
  <2>2. \A k \in Managers : /\ managers'[k].trimming = managers[k].trimming
                            /\ managers[k].trimming => managers'[k].active = managers[k].active
    BY <1>1
  <2> QED
    BY <2>1, <2>2, <1>3, <1>10, <1>11, TrimsPut
<1>22. PendingCounts'
  BY <1>1, <1>3, <1>8, <1>10, PendingSame
<1>23. IInv(new, nof)'
  BY <1>13, <1>16, <1>17, <1>18, <1>20, <1>21, <1>22 DEF IInv
<1> QED
  BY <1>23 DEF Inv

-----------------------------------------------------------------------------
(* A record goes back to its manager.                                      *)

\* What recycle_metadata finds: the record is this thread's, it describes no block, and
\* no other thread is rolling the frontier back over it.
LEMMA RecycleStart ==
    ASSUME NEW kind, NEW of, IInv(kind, of), NEW t \in Threads, call[t].pc = "recycle",
           NEW r, r = Recycled(call[t])
    PROVE  /\ r \in Records /\ r # None /\ of[r] = t /\ kind[r] \in {"md", "reserved"} /\ r < count
           /\ call[t].after \in {"search", "finish", "idle", "batchScan"}
           /\ call[t].after \in {"search", "batchScan"} => r = call[t].md /\ kind[r] = "md"
           /\ call[t].after \in {"finish", "idle"} => r = call[t].reserved /\ kind[r] = "reserved"
           /\ record[r].state # "inUse" /\ ~Describes(r)
           /\ GoneOf(call[t]) \in {None, r} /\ RollOf(call[t]) \in {None, r}
           /\ \A u \in Threads \ {t} : RollOf(call[u]) # r
           /\ \A u \in Threads \ {t} : MdOf(call[u]) # r
<1> DEFINE c == call[t]
<1>1. c \in CallType /\ ShapeOf(c) /\ PlaceOf(c) /\ TypeInv
  BY QuietStart
<1>2. c.after \in {"search", "finish", "idle", "batchScan"}
  BY <1>1 DEF ShapeOf
<1>3. MdOf(c) = c.md /\ (c.md # None => c.md \in Records) /\ (c.reserved # None => c.reserved \in Records)
  BY CallFacts DEF IInv, MdOf
<1>4. CASE c.after \in {"search", "batchScan"}
  <2>1. r = c.md /\ r # None
    BY <1>1, <1>4 DEF Recycled, ShapeOf, HasMd
  <2>2. r \in Records /\ In(kind, of, r, "md", t) /\ record[r].state \in MdStates(c)
    BY <2>1, <1>3, InHandFacts
  <2>3. kind[r] = "md" /\ of[r] = t /\ r < count
    BY <2>2, PlacesTyped DEF In
  <2>4. record[r].state = (IF c.after = "search" THEN "reclaimed" ELSE "reclaimInProgress")
    BY <1>4, <2>2 DEF MdStates
  <2>5. /\ GoneOf(c) = (IF c.after = "search" THEN None ELSE r)
        /\ RollOf(c) = (IF c.after = "search" THEN None ELSE r)
    BY <1>4, <2>1 DEF GoneOf, RollOf
  <2>6. ~Describes(r)
    BY <1>4, <2>4, <2>5 DEF Describes, Active
  <2>7. \A u \in Threads \ {t} : RollOf(call[u]) # r
    <3>1. CASE c.after = "search"
      BY <3>1, <2>2, <2>4, RollsNot
    <3>2. CASE c.after = "batchScan"
      BY <3>2, <2>1, <2>5 DEF IInv, Rolling
    <3> QED
      BY <1>4, <3>1, <3>2
  <2>8. \A u \in Threads \ {t} : MdOf(call[u]) # r
    BY <2>2, <2>3, InHandFacts DEF In
  <2> QED
    BY <1>4, <2>1, <2>2, <2>3, <2>4, <2>5, <2>6, <2>7, <2>8
<1>5. CASE c.after \in {"finish", "idle"}
  <2>1. r = c.reserved /\ r # None
    BY <1>1, <1>5 DEF Recycled, ShapeOf, HasReserved
  <2>2. r \in Records /\ In(kind, of, r, "reserved", t) /\ record[r].state \in Unused
    BY <2>1, <1>3, InHandFacts
  <2>3. kind[r] = "reserved" /\ of[r] = t /\ r < count
    BY <2>2, PlacesTyped DEF In
  <2>4. record[r].state # "inUse" /\ record[r].state # "reclaimInProgress"  /\ ~Describes(r)
    BY <2>2 DEF Unused, Describes, Active
  <2>5. GoneOf(c) = None /\ RollOf(c) = None
    BY <1>5 DEF GoneOf, RollOf
  <2>6. \A u \in Threads \ {t} : RollOf(call[u]) # r
    BY <2>2, <2>4, RollsNot
  <2>7. \A u \in Threads \ {t} : MdOf(call[u]) # r
    BY <2>2, <2>3, InHandFacts DEF In
  <2> QED
    BY <1>5, <2>1, <2>2, <2>3, <2>4, <2>5, <2>6, <2>7
<1> QED
  BY <1>2, <1>4, <1>5

LEMMA RecycleStep ==
    ASSUME NEW kind, NEW of, IInv(kind, of), NEW t \in Threads, Recycle(t)
    PROVE  Inv'
<1> DEFINE c == call[t]
<1>1. PICK r : r = Recycled(c)
  OBVIOUS
<1>2. /\ c.pc = "recycle"
      /\ record' = [record EXCEPT ![r].state = "metadataAvailable", ![r].block = None]
      /\ managers' = [managers EXCEPT ![ManagerFor(r)].free = <<r>> \o @]
      /\ call' = [call EXCEPT ![t].pc = "release", ![t].manager = ManagerFor(r),
                              ![t].md = IF r = c.md THEN None ELSE @,
                              ![t].reserved = IF r = @ THEN None ELSE @]
      /\ UNCHANGED <<frontier, count, header, pending, bins, reclaiming, held, late, arena>>
  BY <1>1 DEF Recycle
<1>3. c \in CallType /\ ShapeOf(c) /\ TypeInv /\ call \in [Threads -> CallType]
  BY QuietStart DEF TypeInv
<1>4. /\ r \in Records /\ r # None /\ of[r] = t /\ kind[r] \in {"md", "reserved"} /\ r < count
      /\ c.after \in {"search", "finish", "idle", "batchScan"}
      /\ c.after \in {"search", "batchScan"} => r = c.md /\ kind[r] = "md"
      /\ c.after \in {"finish", "idle"} => r = c.reserved /\ kind[r] = "reserved"
      /\ record[r].state # "inUse" /\ ~Describes(r)
      /\ GoneOf(c) \in {None, r} /\ RollOf(c) \in {None, r}
      /\ \A u \in Threads \ {t} : RollOf(call[u]) # r
      /\ \A u \in Threads \ {t} : MdOf(call[u]) # r
  BY <1>1, <1>2, RecycleStart
<1>5. /\ \A q \in Records : q = c.md => kind[q] = "md"
      /\ \A q \in Records : q = c.reserved => kind[q] = "reserved"
  <2>1. MdOf(c) = c.md
    BY <1>2 DEF MdOf
  <2> QED
    BY <2>1, InHandFacts DEF In
<1>6. (r = c.md <=> kind[r] = "md") /\ (r = c.reserved <=> kind[r] = "reserved")
  BY <1>4, <1>5
<1>a. PICK m \in Managers : m = ManagerFor(r)
  BY <1>4, ManagerFacts
<1>b. PICK stack : stack = managers[m].free
  OBVIOUS
<1> DEFINE d == [c EXCEPT !.pc = "release", !.manager = m,
                          !.md = IF r = c.md THEN None ELSE c.md,
                          !.reserved = IF r = c.reserved THEN None ELSE c.reserved]
<1>7. stack \in Seq(Records) /\ IsInjective(stack) /\ r \notin Range(stack)
  <2>1. r \notin Range(stack)
    BY <1>4, <1>b, PlacesTyped DEF FreePlaces, In
  <2> QED
    BY <2>1, <1>b, ManagersTyped, PlacesTyped DEF FreePlaces
<1>8. /\ <<r>> \o stack \in Seq(Records) /\ IsInjective(<<r>> \o stack)
      /\ \A q : q \in Range(<<r>> \o stack) <=> q = r \/ q \in Range(stack)
  BY <1>4, <1>7, Pushed
<1>9. d \in CallType
  <2>1. "release" \in Pcs /\ m \in Nat /\ None \in MaybeRecord
    BY ManagersTyped DEF MaybeRecord, Pcs
  <2> QED
    BY <1>3, <2>1 DEF CallType
<1>10. call' = [call EXCEPT ![t] = d]
  BY <1>2, <1>3, <1>a DEF CallType
<1>11. /\ d.pc = "release" /\ d.manager = m /\ d.after = c.after
       /\ d.md = (IF r = c.md THEN None ELSE c.md)
       /\ d.reserved = (IF r = c.reserved THEN None ELSE c.reserved)
       /\ d.list = c.list /\ d.batch = c.batch /\ d.stolen = c.stolen /\ d.stage = c.stage
       /\ d.back = c.back /\ d.window = c.window /\ d.block = c.block
  BY <1>3 DEF CallType
<1> HIDE DEF d
<1>12. ShapeOf(d) /\ PlaceOf(d)
  <2>1. (d.md # None) <=> HasMd(d)
    BY <1>2, <1>3, <1>4, <1>6, <1>11 DEF ShapeOf, HasMd
  <2>2. (d.reserved # None) <=> HasReserved(d)
    BY <1>2, <1>3, <1>4, <1>6, <1>11 DEF ShapeOf, HasReserved
  <2>3. Batching(d) <=> Batching(c)
    BY <1>2, <1>11 DEF Batching
  <2>4. d.pc = "release" /\ c.pc = "recycle"
    BY <1>2, <1>11
  <2>5. Windowed(d) <=> Windowed(c)
    BY <2>3, <2>4 DEF Windowed, WindowPcs
  <2> QED
    BY <1>3, <1>4, <1>11, <2>1, <2>2, <2>3, <2>4, <2>5 DEF ShapeOf, PlaceOf, FirstPcs, WindowPcs
<1>13. Well(d) /\ Moves(t, d) /\ call' \in [Threads -> CallType]
  BY <1>3, <1>9, <1>10, <1>12, MovesTo DEF Well
<1>14. /\ MdOf(d) = d.md /\ SeenOf(d) = None /\ ClearOf(d) = None /\ TransientOf(d) = m
       /\ TrimOf(d) = None /\ GoneOf(d) = None /\ RollOf(d) = None /\ OfferOf(d) = None
       /\ ~Rolls(d) /\ ~Fresh(d) /\ ~Advanced(d)
       /\ (HasLocked(d) <=> c.after = "finish") /\ d.pc \notin {"lock", "frontAdvance", "pushPending"}
  BY <1>11 DEF MdOf, SeenOf, ClearOf, TransientOf, TrimOf, GoneOf, RollOf, OfferOf, Rolls, Fresh, Advanced, HasLocked
<1>15. /\ MdOf(c) = c.md /\ SeenOf(c) = None /\ ClearOf(c) = None /\ TransientOf(c) = None
       /\ TrimOf(c) = None /\ OfferOf(c) = None /\ ~Fresh(c) /\ ~Advanced(c)
       /\ (HasLocked(c) <=> c.after = "finish") /\ c.pc \notin {"lock", "frontAdvance", "pushPending"}
  BY <1>2 DEF MdOf, SeenOf, ClearOf, TransientOf, TrimOf, OfferOf, Fresh, Advanced, HasLocked
<1> PICK new, nof : Moved(kind, of, new, nof, r, "free", m)
  BY <1>4, PlacesTyped, CanMove DEF Kinds, ListKinds
<1>16. /\ new \in [Records -> Kinds] /\ Elsewhere(kind, of, new, nof, r)
       /\ new[r] = "free" /\ nof[r] = m
  BY DEF Moved
<1>17. /\ managers' \in [Managers -> [free : Seq(Records), active : Nat, trimming : BOOLEAN]]
       /\ \A k \in Managers : /\ managers'[k].free = IF k = m THEN <<r>> \o stack ELSE managers[k].free
                              /\ managers'[k].trimming = managers[k].trimming
                              /\ managers'[k].active = managers[k].active
  BY <1>2, <1>8, <1>a, <1>b, ManagersTyped
<1>18. /\ record' \in [Records -> RecordType] /\ record'[r].state = "metadataAvailable"
       /\ record'[r].block = None
       /\ \A q \in Records : /\ q # r => record'[q] = record[q]
                             /\ record'[q].size = record[q].size
                             /\ record'[q].version = record[q].version
                             /\ record'[q].shard = record[q].shard
  <2>1. record \in [Records -> RecordType] /\ "metadataAvailable" \in States /\ None \in MaybeBlock
    BY <1>4, RecordTyped DEF States, MaybeBlock
  <2> QED
    BY <1>2, <1>4, <2>1 DEF RecordType
<1>19. TypeInv'
  BY <1>2, <1>3, <1>13, <1>17, <1>18 DEF TypeInv
<1>20. SameFlight(c, d)
  BY <1>14, <1>15 DEF SameFlight, InFlight
<1>21. \A q \in Records : Describes(q)' <=> Describes(q)
  <2> TAKE q \in Records
  <2>1. CASE q = r
    <3>1. ~Describes(r)'
      BY <1>18 DEF Describes, Active
    <3> QED
      BY <2>1, <3>1, <1>4
  <2>2. CASE q # r
    <3>1. q # None
      BY RecordFacts
    <3>2. GoneOf(c) # q /\ GoneOf(d) # q
      BY <2>2, <3>1, <1>4, <1>14
    <3>3. (\A u \in Threads : GoneOf(call'[u]) # q) <=> (\A u \in Threads : GoneOf(call[u]) # q)
      BY <3>2, <1>13 DEF Moves
    <3>4. record'[q].state = record[q].state
      BY <2>2, <1>18
    <3> QED
      BY <3>3, <3>4 DEF Describes
  <2> QED
    BY <2>1, <2>2
<1>22. Control' /\ LateFrees' /\ Tiling(new)' /\ Versions'
  <2>1. \A q \in Records : q < count' /\ new[q] # "seen" => q < count /\ kind[q] # "seen"
    BY <1>2, <1>4, <1>16 DEF Elsewhere
  <2>2. \A q \in Records : /\ Describes(q) => record'[q].block = record[q].block
                           /\ record'[q].size = record[q].size
                           /\ record'[q].version = record[q].version
    BY <1>4, <1>18
  <2>3. \A q \in Records : record[q].state = "inUse" => /\ record'[q].state = "inUse"
                                                        /\ record'[q].block = record[q].block
    BY <1>4, <1>18
  <2>4. Fewer
    BY <1>2, QuietStart
  <2> QED
    BY <1>2, <1>13, <1>14, <1>15, <1>20, <1>21, <2>1, <2>2, <2>3, <2>4, Still
<1>23. Described'
  <2>1. \A q \in Records : record'[q].state \notin Unused => record'[q].block # None /\ record'[q].size \in Sizes
    BY <1>18 DEF IInv, Described, Unused
  <2>2. ASSUME NEW u \in Threads, HasLocked(call'[u])
        PROVE  call'[u].block # None /\ record'[call'[u].md].block = call'[u].block
    <3>1. HasLocked(call[u]) /\ call'[u].md = call[u].md /\ call'[u].block = call[u].block /\ call[u].md # r
      <4>1. CASE u = t
        <5>1. call'[u] = d /\ c.after = "finish"
          BY <4>1, <2>2, <1>13, <1>14 DEF Moves
        <5>2. r # c.md
          BY <5>1, <1>4, <1>6
        <5> QED
          BY <4>1, <5>1, <5>2, <1>11, <1>15
      <4>2. CASE u # t
        <5>1. call'[u] = call[u]
          BY <4>2, <1>13 DEF Moves
        <5>2. MdOf(call[u]) = call[u].md
          BY <2>2, <5>1 DEF HasLocked, MdOf
        <5> QED
          BY <4>2, <2>2, <5>1, <5>2, <1>4
      <4> QED
        BY <4>1, <4>2
    <3>2. call[u].md \in Records
      BY <3>1, CallFacts DEF IInv
    <3> QED
      BY <3>1, <3>2, <1>18 DEF IInv, Described
  <2> QED
    BY <2>1, <2>2 DEF Described
<1>24. Rolling'
  BY <1>4, <1>13, <1>14, <1>18, RollingEnds
<1>25. Places(new, nof)'
  <2>1. FreePlaces(new, nof)'
    <3>1. \A k \in Managers : IsInjective(managers'[k].free)
      BY <1>8, <1>17, PlacesTyped DEF FreePlaces
    <3>2. ASSUME NEW k \in Managers, NEW q \in Records
          PROVE  q \in Range(managers'[k].free) <=> IF q = r THEN In(new, nof, r, "free", k)
                                                    ELSE q \in Range(managers[k].free)
      <4>1. In(new, nof, r, "free", k) <=> k = m
        BY <1>16 DEF In
      <4>2. CASE k = m
        BY <4>1, <4>2, <1>8, <1>17, <1>b
      <4>3. CASE k # m
        <5>1. r \notin Range(managers[k].free)
          BY <1>4, PlacesTyped DEF FreePlaces, In
        <5> QED
          BY <4>1, <4>3, <5>1, <1>17
      <4> QED
        BY <4>2, <4>3
    <3>3. FreeMoved(new, nof, r)
      BY <3>1, <3>2, <1>2, <1>4, <1>16, <1>a DEF FreeMoved
    <3> QED
      BY <3>3, <1>4, <1>13, <1>14, <1>15, <1>16, PlacesTyped, FreePlacesPut
  <2>2. SharedPlaces(new, nof)'
    BY <1>2, <1>4, <1>16, PlacesTyped, SharedPlacesAway
  <2>3. ThreadPlaces(new, nof)'
    <3>1. r \notin Range(c.list) /\ r \notin Range(c.batch) /\ IsInjective(c.list) /\ IsInjective(c.batch)
          /\ ThreadPlaces(kind, of)
      BY <1>4, PlacesTyped, InHandFacts DEF In, ThreadPlaces
    <3>2. \A q \in Records : q # None
      BY RecordFacts
    <3>3. ThreadMoved(new, r, t, d)
      BY <1>11, <1>14, <1>15, <1>16, <3>1, <3>2 DEF ThreadMoved
    <3> QED
      BY <1>4, <1>13, <1>16, <3>1, <3>3, ThreadPlacesPut DEF ThreadKinds
  <2>4. new \in [Records -> Kinds]
    BY <1>16
  <2> QED
    BY <2>1, <2>2, <2>3, <2>4 DEF Places
<1>26. StatesAt(new, nof)'
  <2>1. StatesAt(kind, of) /\ record'[r].state \in Unused
    BY <1>18 DEF IInv, Unused
  <2>2. \A q \in Records : kind[q] \in {"md", "batch"} => of[q] \in Threads
    BY PlacesTyped DEF ThreadKinds
  <2>3. \A q \in Records : q # r /\ In(kind, of, q, "md", t) => record[q].state \in MdStates(d)
    <3> SUFFICES ASSUME NEW q \in Records, q # r, In(kind, of, q, "md", t) PROVE record[q].state \in MdStates(d)
      OBVIOUS
    <3>1. q = c.md /\ record[q].state \in MdStates(c) /\ q # None
      BY <1>15, InHandFacts, RecordFacts
    <3>2. c.after = "finish"
      BY <3>1, <1>2, <1>3, <1>4 DEF ShapeOf, HasMd
    <3> QED
      BY <3>1, <3>2, <1>2, <1>11 DEF MdStates
  <2>4. \A q \in Records : q # r /\ In(kind, of, q, "batch", t) => record[q].state \in BatchStates(d, q)
    <3> SUFFICES ASSUME NEW q \in Records, q # r, In(kind, of, q, "batch", t) PROVE record[q].state \in BatchStates(d, q)
      OBVIOUS
    <3>1. record[q].state \in BatchStates(c, q) /\ q # None
      BY InHandFacts, RecordFacts
    <3> QED
      BY <3>1, <1>4, <1>14, <1>15 DEF BatchStates
  <2> QED
    BY <1>4, <1>13, <1>16, <1>18, <2>1, <2>2, <2>3, <2>4, StatesPut
<1>27. ManagerCounts'
  <2>1. \A k \in Managers, q \in Records : q # r => (q \in Taken(k)' <=> q \in Taken(k))
    <3> TAKE k \in Managers, q \in Records
    <3>1. q \in Taken(k) <=> q < count /\ ManagerFor(q) = k /\ kind[q] # "free"
      BY <1>3, PlacesTyped, TakenIs
    <3>2. q \in Taken(k)' <=> q < count' /\ ManagerFor(q) = k /\ new[q] # "free"
      BY <1>19, <1>25, TakenThen DEF Places
    <3> QED
      BY <3>1, <3>2, <1>2, <1>16 DEF Elsewhere
  <2>2. \A k \in Managers : r \notin Taken(k)' /\ (r \in Taken(k) <=> k = m)
    <3> TAKE k \in Managers
    <3>1. r \in Taken(k) <=> r < count /\ ManagerFor(r) = k /\ kind[r] # "free"
      BY <1>3, <1>4, PlacesTyped, TakenIs
    <3>2. r \in Taken(k)' <=> r < count' /\ ManagerFor(r) = k /\ new[r] # "free"
      BY <1>4, <1>19, <1>25, TakenThen DEF Places
    <3> QED
      BY <3>1, <3>2, <1>4, <1>16, <1>a
  <2>3. \A k \in Managers : managers'[k].active =
           managers[k].active + Bit(TransientOf(d) = k) - Bit(TransientOf(c) = k)
                              + Bit(r \in Taken(k)') - Bit(r \in Taken(k))
    <3> TAKE k \in Managers
    <3>1. r \notin Taken(k)' /\ (r \in Taken(k) <=> k = m)
      BY <2>2
    <3>2. Bit(r \in Taken(k)') = 0 /\ Bit(r \in Taken(k)) = Bit(k = m)
      BY <3>1 DEF Bit
    <3>3. Bit(TransientOf(c) = k) = 0 /\ Bit(TransientOf(d) = k) = Bit(k = m)
      BY <1>14, <1>15, ManagersTyped DEF Bit
    <3>4. Bit(k = m) \in Int /\ managers[k].active \in Nat
      BY ManagersTyped DEF Bit
    <3> QED
      BY <3>2, <3>3, <3>4, <1>17
  <2> QED
    BY <1>4, <2>1, <2>3, <1>13, <1>19, ManagerCountsPut
<1>28. Trims'
  <2>1. \A u \in Threads : ClearOf(call[u]) # None => count' <= ClearOf(call[u]) * RecordsPerManager
    BY <1>2 DEF IInv, Trims
  <2> QED
    BY <2>1, <1>13, <1>14, <1>15, <1>17, TrimsPut
<1>29. PendingCounts'
  <2>1. \A u \in Threads : call[u].pc = "pushPending" => record'[call[u].md].shard = record[call[u].md].shard
    <3>1. \A u \in Threads : call[u].pc = "pushPending" => call[u].md \in Records
      BY CallFacts DEF IInv, ShapeOf, HasMd
    <3> QED
      BY <3>1, <1>18
  <2> QED
    BY <2>1, <1>2, <1>11, <1>13, <1>14, <1>15, PendingSame
<1>30. IInv(new, nof)'
  BY <1>19, <1>22, <1>23, <1>24, <1>25, <1>26, <1>27, <1>28, <1>29 DEF IInv
<1> QED
  BY <1>30 DEF Inv

-----------------------------------------------------------------------------
(* The pending counts.                                                     *)

Loot(win, n, s) == UNION {{u} \X (1 .. n[u]) : u \in {v \in Threads : win[v] = s}}
Share(w, k, s) == IF w = s THEN k ELSE 0
Portion(t, w, k, s) == IF w = s THEN {t} \X (1 .. k) ELSE {}

LEMMA PortionFacts ==
    ASSUME NEW t, NEW w, NEW k \in Nat, NEW s
    PROVE  IsFiniteSet(Portion(t, w, k, s)) /\ Cardinality(Portion(t, w, k, s)) = Share(w, k, s)
<1>1. CASE w = s
  <2> DEFINE f == [i \in 1 .. k |-> <<t, i>>]
  <2>1. IsFiniteSet(1 .. k) /\ Cardinality(1 .. k) = k
    <3>1. 1 .. k = {} \/ 1 <= k
      OBVIOUS
    <3>2. CASE k = 0
      BY <3>2, FS_EmptySet
    <3>3. CASE k > 0
      BY <3>3, FS_Interval
    <3> QED
      BY <3>2, <3>3
  <2>2. f \in Bijection(1 .. k, {t} \X (1 .. k))
    <3>1. f \in [1 .. k -> {t} \X (1 .. k)]
      OBVIOUS
    <3>2. \A a, b \in 1 .. k : f[a] = f[b] => a = b
      OBVIOUS
    <3>3. \A p \in {t} \X (1 .. k) : \E a \in 1 .. k : f[a] = p
      OBVIOUS
    <3> HIDE DEF f
    <3>4. DOMAIN f = 1 .. k
      BY <3>1
    <3>5. f \in Injection(1 .. k, {t} \X (1 .. k))
      <4>1. IsInjective(f)
        BY <3>2, <3>4 DEF IsInjective
      <4> QED
        BY <3>1, <4>1 DEF Injection
    <3>6. f \in Surjection(1 .. k, {t} \X (1 .. k))
      BY <3>1, <3>3 DEF Surjection
    <3> QED
      BY <3>5, <3>6 DEF Bijection
  <2>3. ExistsBijection(1 .. k, {t} \X (1 .. k))
    BY <2>2 DEF ExistsBijection
  <2>4. IsFiniteSet({t} \X (1 .. k)) /\ Cardinality({t} \X (1 .. k)) = k
    BY <2>1, <2>3, FS_Bijection
  <2> QED
    BY <1>1, <2>4 DEF Portion, Share
<1>2. CASE w # s
  BY <1>2, FS_EmptySet DEF Portion, Share
<1> QED
  BY <1>1, <1>2

LEMMA LootParts ==
    ASSUME NEW win, NEW n \in [Threads -> Nat], NEW s, NEW t \in Threads,
           NEW rest, rest = UNION {{u} \X (1 .. n[u]) : u \in {v \in Threads \ {t} : win[v] = s}}
    PROVE  /\ IsFiniteSet(rest) /\ Cardinality(rest) \in Nat
           /\ Cardinality(Loot(win, n, s)) = Cardinality(rest) + Share(win[t], n[t], s)
<1>1. \A p : p \in Loot(win, n, s) <=> \E u \in Threads : win[u] = s /\ \E i \in 1 .. n[u] : p = <<u, i>>
  BY DEF Loot
<1>2. \A p : p \in rest <=> \E u \in Threads : u # t /\ win[u] = s /\ \E i \in 1 .. n[u] : p = <<u, i>>
  OBVIOUS
<1>3. \A p : p \in Pairs(n) <=> \E u \in Threads : \E i \in 1 .. n[u] : p = <<u, i>>
  BY DEF Pairs
<1>4. rest \subseteq Pairs(n) /\ IsFiniteSet(Pairs(n))
  BY <1>2, <1>3, Paired DEF Pairs
<1>5. IsFiniteSet(rest) /\ Cardinality(rest) \in Nat
  BY <1>4, FS_Subset, FS_CardinalityType
<1>6. PICK part : part = Portion(t, win[t], n[t], s)
  OBVIOUS
<1>7. \A p : p \in part <=> win[t] = s /\ \E i \in 1 .. n[t] : p = <<t, i>>
  BY <1>6 DEF Portion
<1>8. Loot(win, n, s) = rest \cup part
  BY <1>1, <1>2, <1>7
<1>9. rest \cap part = {}
  BY <1>2, <1>7
<1>10. IsFiniteSet(part) /\ Cardinality(part) = Share(win[t], n[t], s)
  BY <1>6, PortionFacts
<1>11. Cardinality(rest \cup part) = Cardinality(rest) + Cardinality(part) - Cardinality(rest \cap part)
  BY <1>5, <1>10, FS_Union
<1>12. Cardinality(rest \cap part) = 0
  BY <1>9, FS_EmptySet
<1>13. Cardinality(part) \in Nat
  BY <1>10, FS_CardinalityType
<1> QED
  BY <1>5, <1>8, <1>10, <1>11, <1>12, <1>13

\* What a window stole from a shard and has not counted off changes by what one thread has.
LEMMA StolenMoves ==
    ASSUME TypeInv, NEW t \in Threads, NEW d \in CallType, Moves(t, d), NEW s \in Shards
    PROVE  /\ Cardinality(Stolen(s)) \in Nat
           /\ Cardinality(Stolen(s)') = Cardinality(Stolen(s)) + Share(d.window, d.stolen, s)
                                           - Share(call[t].window, call[t].stolen, s)
<1> DEFINE n == [u \in Threads |-> call[u].stolen]
           m == [u \in Threads |-> IF u = t THEN d.stolen ELSE call[u].stolen]
           win == [u \in Threads |-> call[u].window]
           wim == [u \in Threads |-> IF u = t THEN d.window ELSE call[u].window]
           rest == UNION {{u} \X (1 .. n[u]) : u \in {v \in Threads \ {t} : win[v] = s}}
<1>1. n \in [Threads -> Nat] /\ m \in [Threads -> Nat]
  BY DEF TypeInv, CallType
<1>2. Stolen(s) = Loot(win, n, s)
  BY DEF Stolen, Loot
<1>3. Stolen(s)' = Loot(wim, m, s)
  BY DEF Stolen, Loot, Moves
<1>4. rest = UNION {{u} \X (1 .. m[u]) : u \in {v \in Threads \ {t} : wim[v] = s}}
  OBVIOUS
<1>5. win[t] = call[t].window /\ n[t] = call[t].stolen /\ wim[t] = d.window /\ m[t] = d.stolen
  OBVIOUS
<1>6. Share(win[t], n[t], s) \in Nat /\ Share(wim[t], m[t], s) \in Nat
  BY <1>1 DEF Share
<1> HIDE DEF n, m, win, wim, rest
<1>7. /\ Cardinality(rest) \in Nat
      /\ Cardinality(Loot(win, n, s)) = Cardinality(rest) + Share(win[t], n[t], s)
  BY <1>1, LootParts DEF rest
<1>8. Cardinality(Loot(wim, m, s)) = Cardinality(rest) + Share(wim[t], m[t], s)
  BY <1>1, <1>4, LootParts
<1> QED
  BY <1>2, <1>3, <1>5, <1>6, <1>7, <1>8

PushesIn(c, rec, s) == c.pc = "pushPending" /\ rec[c.md].shard = s

LEMMA PushingMoves ==
    ASSUME NEW t \in Threads, NEW d, Moves(t, d), NEW s \in Shards,
           \A u \in Threads : u # t /\ call[u].pc = "pushPending" =>
              record'[call[u].md].shard = record[call[u].md].shard
    PROVE  /\ Cardinality(Pushing(s)) \in Nat
           /\ Cardinality(Pushing(s)') = Cardinality(Pushing(s)) + Bit(PushesIn(d, record', s))
                                            - Bit(PushesIn(call[t], record, s))
<1>1. \A u : u \in Pushing(s)' <=> u \in Threads /\ IF u = t THEN PushesIn(d, record', s) ELSE PushesIn(call[u], record, s)
  BY DEF Pushing, Moves, PushesIn
<1>2. \A u : u \in Pushing(s) <=> u \in Threads /\ PushesIn(call[u], record, s)
  BY DEF Pushing, PushesIn
<1>3. IsFiniteSet(Pushing(s)) /\ Cardinality(Pushing(s)) \in Nat
  <2>1. Pushing(s) \subseteq Threads
    BY <1>2
  <2> QED
    BY <2>1, Constants, FS_Subset, FS_CardinalityType
<1>4. CASE PushesIn(d, record', s) <=> PushesIn(call[t], record, s)
  <2>1. Pushing(s)' = Pushing(s)
    BY <1>1, <1>2, <1>4
  <2>2. Bit(PushesIn(d, record', s)) = Bit(PushesIn(call[t], record, s)) /\ Bit(PushesIn(d, record', s)) \in Int
    BY <1>4 DEF Bit
  <2> QED
    BY <2>1, <2>2, <1>3
<1>5. CASE PushesIn(d, record', s) /\ ~PushesIn(call[t], record, s)
  <2>1. Pushing(s)' = Pushing(s) \cup {t} /\ t \notin Pushing(s)
    BY <1>1, <1>2, <1>5
  <2>2. Cardinality(Pushing(s)') = Cardinality(Pushing(s)) + 1
    BY <2>1, <1>3, OneMore
  <2> QED
    BY <2>2, <1>3, <1>5 DEF Bit
<1>6. CASE ~PushesIn(d, record', s) /\ PushesIn(call[t], record, s)
  <2>1. Pushing(s)' = Pushing(s) \ {t} /\ t \in Pushing(s)
    BY <1>1, <1>2, <1>6
  <2>2. Cardinality(Pushing(s)') = Cardinality(Pushing(s)) - 1
    BY <2>1, <1>3, OneLess
  <2> QED
    BY <2>2, <1>3, <1>6 DEF Bit
<1> QED
  BY <1>4, <1>5, <1>6

LEMMA Sums ==
    ASSUME NEW p0 \in Int, NEW l0 \in Int, NEW l1 \in Int, NEW x0 \in Int, NEW y0 \in Int,
           NEW sd \in Int, NEW sc \in Int, NEW bd \in Int, NEW bc \in Int,
           p0 = l0 + x0 + y0
    PROVE  p0 + (l1 - l0) + (sd - sc) + (bd - bc) = l1 + (x0 + sd - sc) + (y0 + bd - bc)
OBVIOUS

LEMMA PendingPut ==
    ASSUME NEW kind, NEW of, IInv(kind, of), NEW t \in Threads, NEW d \in CallType, Moves(t, d),
           \A u \in Threads : u # t /\ call[u].pc = "pushPending" =>
              record'[call[u].md].shard = record[call[u].md].shard,
           \A s \in Shards : pending'[s].list \in Seq(Records),
           \A s \in Shards : pending'[s].count =
              pending[s].count + (Len(pending'[s].list) - Len(pending[s].list))
                 + (Share(d.window, d.stolen, s) - Share(call[t].window, call[t].stolen, s))
                 + (Bit(PushesIn(d, record', s)) - Bit(PushesIn(call[t], record, s)))
    PROVE  PendingCounts'
<1> SUFFICES ASSUME NEW s \in Shards
             PROVE  pending'[s].count = Len(pending'[s].list) + Cardinality(Stolen(s)')
                                           + Cardinality(Pushing(s)')
  BY DEF PendingCounts
<1>1. pending[s].count = Len(pending[s].list) + Cardinality(Stolen(s)) + Cardinality(Pushing(s))
  BY DEF IInv, PendingCounts
<1>2. /\ Cardinality(Stolen(s)) \in Nat
      /\ Cardinality(Stolen(s)') = Cardinality(Stolen(s)) + Share(d.window, d.stolen, s)
                                           - Share(call[t].window, call[t].stolen, s)
  BY StolenMoves DEF IInv
<1>3. /\ Cardinality(Pushing(s)) \in Nat
      /\ Cardinality(Pushing(s)') = Cardinality(Pushing(s)) + Bit(PushesIn(d, record', s))
                                            - Bit(PushesIn(call[t], record, s))
  BY PushingMoves
<1>4. /\ Share(d.window, d.stolen, s) \in Int /\ Share(call[t].window, call[t].stolen, s) \in Int
      /\ Bit(PushesIn(d, record', s)) \in Int /\ Bit(PushesIn(call[t], record, s)) \in Int
  BY DEF Share, Bit, IInv, TypeInv, CallType
<1>5. Len(pending[s].list) \in Int /\ Len(pending'[s].list) \in Int /\ pending[s].count \in Int
  BY DEF IInv, TypeInv
<1>6. PICK bd \in Int, bc \in Int : bd = Bit(PushesIn(d, record', s)) /\ bc = Bit(PushesIn(call[t], record, s))
  BY <1>4
<1>7. PICK sd \in Int, sc \in Int : sd = Share(d.window, d.stolen, s) /\ sc = Share(call[t].window, call[t].stolen, s)
  BY <1>4
<1>8. pending'[s].count = pending[s].count + (Len(pending'[s].list) - Len(pending[s].list))
                             + (sd - sc) + (bd - bc)
  BY <1>6, <1>7
<1>9. Cardinality(Stolen(s)') = Cardinality(Stolen(s)) + sd - sc
  BY <1>2, <1>7
<1>10. Cardinality(Pushing(s)') = Cardinality(Pushing(s)) + bd - bc
  BY <1>3, <1>6
<1>a. PICK p0 \in Int : p0 = pending[s].count
  BY <1>5
<1>b. PICK l0 \in Int : l0 = Len(pending[s].list)
  BY <1>5
<1>c. PICK l1 \in Int : l1 = Len(pending'[s].list)
  BY <1>5
<1>d. PICK x0 \in Int : x0 = Cardinality(Stolen(s))
  BY <1>2
<1>e. PICK y0 \in Int : y0 = Cardinality(Pushing(s))
  BY <1>3
<1>12. p0 = l0 + x0 + y0
  BY <1>1, <1>a, <1>b, <1>d, <1>e
<1>13. p0 + (l1 - l0) + (sd - sc) + (bd - bc) = l1 + (x0 + sd - sc) + (y0 + bd - bc)
  BY <1>12, Sums
<1> QED
  BY <1>8, <1>9, <1>10, <1>a, <1>b, <1>c, <1>d, <1>e, <1>13

-----------------------------------------------------------------------------
(* A freed block waits for a window.                                       *)

LEMMA PendingCounted ==
    ASSUME TypeInv, NEW s \in Shards, NEW n \in Nat, pending' = [pending EXCEPT ![s].count = n]
    PROVE  /\ pending' \in [Shards -> [list : Seq(Records), count : Nat, open : BOOLEAN]]
           /\ \A k \in Shards : /\ pending'[k].list = pending[k].list
                                /\ pending'[k].count = IF k = s THEN n ELSE pending[k].count
<1>1. pending \in [Shards -> [list : Seq(Records), count : Nat, open : BOOLEAN]]
  BY DEF TypeInv
<1> QED
  BY <1>1

LEMMA PendingListed ==
    ASSUME TypeInv, NEW s \in Shards, NEW l \in Seq(Records), pending' = [pending EXCEPT ![s].list = l]
    PROVE  /\ pending' \in [Shards -> [list : Seq(Records), count : Nat, open : BOOLEAN]]
           /\ \A k \in Shards : /\ pending'[k].list = IF k = s THEN l ELSE pending[k].list
                                /\ pending'[k].count = pending[k].count
<1>1. pending \in [Shards -> [list : Seq(Records), count : Nat, open : BOOLEAN]]
  BY DEF TypeInv
<1> QED
  BY <1>1

Waits(c) == c.pc = "countPending" \/ c.pc = "pushPending"

LEMMA WaitsFacts ==
    ASSUME NEW kind, NEW of, IInv(kind, of), NEW t \in Threads, Waits(call[t])
    PROVE  /\ call[t] \in CallType /\ call[t].md \in Records /\ In(kind, of, call[t].md, "md", t)
           /\ record[call[t].md].state = "pending" /\ call[t].reserved = None
           /\ call[t].list = <<>> /\ call[t].batch = <<>> /\ call[t].stolen = 0
           /\ call[t].stage = "first"
           /\ MdOf(call[t]) = call[t].md /\ SeenOf(call[t]) = None /\ ClearOf(call[t]) = None
           /\ TransientOf(call[t]) = None /\ TrimOf(call[t]) = None /\ GoneOf(call[t]) = None
           /\ ~Fresh(call[t]) /\ ~Advanced(call[t]) /\ ~HasLocked(call[t])
           /\ record[call[t].md].shard \in Shards
           /\ record[call[t].md].shard % NumShards = record[call[t].md].shard
<1> DEFINE c == call[t]
<1>1. c \in CallType /\ ShapeOf(c)
  BY QuietStart
<1>2. c.md # None /\ c.stage = "first"
  BY <1>1 DEF ShapeOf, HasMd, FirstPcs, Waits
<1>3. c.md \in Records
  BY <1>2, CallFacts DEF IInv
<1>4. /\ MdOf(c) = c.md /\ SeenOf(c) = None /\ ClearOf(c) = None
      /\ TransientOf(c) = None /\ TrimOf(c) = None /\ GoneOf(c) = None
      /\ ~Fresh(c) /\ ~Advanced(c) /\ ~HasLocked(c) /\ MdStates(c) = {"pending"}
  BY DEF Waits, MdOf, SeenOf, ClearOf, TransientOf, TrimOf, GoneOf, Fresh, Advanced, HasLocked, MdStates
<1>5. In(kind, of, c.md, "md", t) /\ record[c.md].state = "pending"
  BY <1>3, <1>4, InHandFacts
<1>6. ~Batching(c) /\ ~HasReserved(c) /\ c.pc # "reducePending"
  BY <1>2 DEF Waits, Batching, HasReserved
<1>7. c.list = <<>> /\ c.batch = <<>> /\ c.stolen = 0 /\ c.reserved = None
  BY <1>1, <1>6 DEF ShapeOf
<1>8. record[c.md].shard \in Shards /\ record[c.md].shard % NumShards = record[c.md].shard
  BY <1>3, RecordTyped, SlotFacts
<1> QED
  BY <1>1, <1>2, <1>3, <1>4, <1>5, <1>7, <1>8

LEMMA CountPendingStep ==
    ASSUME NEW kind, NEW of, IInv(kind, of), NEW t \in Threads, CountPending(t)
    PROVE  IInv(kind, of)'
<1> DEFINE c == call[t]
           d == [c EXCEPT !.pc = "pushPending"]
<1>a. c.pc = "countPending"
  BY DEF CountPending
<1>1. PICK s \in Shards : s = record[c.md].shard % NumShards
  BY <1>a, WaitsFacts DEF Waits
<1>2. /\ c.pc = "countPending" /\ pending' = [pending EXCEPT ![s].count = @ + 1]
      /\ call' = [call EXCEPT ![t] = d]
      /\ UNCHANGED <<frontier, count, managers, header, record, bins, reclaiming, held, late, arena>>
  BY <1>1 DEF CountPending
<1>3. /\ c \in CallType /\ c.md \in Records /\ In(kind, of, c.md, "md", t)
      /\ record[c.md].state = "pending" /\ c.reserved = None
      /\ c.list = <<>> /\ c.batch = <<>> /\ c.stolen = 0
      /\ c.stage = "first"
      /\ MdOf(c) = c.md /\ SeenOf(c) = None /\ ClearOf(c) = None
      /\ TransientOf(c) = None /\ TrimOf(c) = None /\ GoneOf(c) = None
      /\ ~Fresh(c) /\ ~Advanced(c) /\ ~HasLocked(c)
      /\ record[c.md].shard \in Shards
      /\ record[c.md].shard % NumShards = record[c.md].shard
  BY <1>2, WaitsFacts DEF Waits
<1>4. s \in Shards /\ s = record[c.md].shard
  BY <1>1, <1>3
<1>5. d \in CallType
  <2>1. "pushPending" \in Pcs
    BY DEF Pcs, FirstPcs
  <2> QED
    BY <1>3, <2>1 DEF CallType
<1>6. /\ d.pc = "pushPending" /\ d.md = c.md /\ d.reserved = c.reserved /\ d.list = c.list
      /\ d.batch = c.batch /\ d.stolen = c.stolen /\ d.stage = c.stage /\ d.window = c.window
  BY <1>3 DEF CallType
<1> HIDE DEF d
<1>7. ShapeOf(d) /\ PlaceOf(d)
  <2>1. c.md # None
    BY <1>3, RecordFacts
  <2> QED
    BY <1>3, <1>6, <2>1 DEF ShapeOf, PlaceOf, HasMd, HasReserved, Batching, Windowed, FirstPcs, WindowPcs
<1>8. TypeInv
  BY DEF IInv
<1>9. Well(d) /\ Moves(t, d) /\ call' \in [Threads -> CallType]
  BY <1>2, <1>5, <1>7, <1>8, MovesTo DEF Well
<1>10. /\ MdOf(d) = c.md /\ SeenOf(d) = None /\ ClearOf(d) = None /\ TransientOf(d) = None
       /\ TrimOf(d) = None /\ ~Rolls(d) /\ ~Fresh(d) /\ ~Advanced(d) /\ ~HasLocked(d)
       /\ MdStates(d) = {"pending"}
  BY <1>6 DEF MdOf, SeenOf, ClearOf, TransientOf, TrimOf, Rolls, Fresh, Advanced, HasLocked, MdStates
<1>11. SameFlight(c, d)
  BY <1>3, <1>10 DEF SameFlight, InFlight
<1>12. /\ pending' \in [Shards -> [list : Seq(Records), count : Nat, open : BOOLEAN]]
       /\ \A k \in Shards : /\ pending'[k].list = pending[k].list
                            /\ pending'[k].count = IF k = s THEN pending[k].count + 1 ELSE pending[k].count
  <2>1. PICK n : n = pending[s].count + 1
    OBVIOUS
  <2>2. n \in Nat
    BY <1>8, <2>1 DEF TypeInv
  <2>3. pending' = [pending EXCEPT ![s].count = n]
    BY <1>2, <2>1
  <2> QED
    BY <1>8, <2>1, <2>2, <2>3, PendingCounted
<1>13. TypeInv'
  BY <1>2, <1>8, <1>9, <1>12 DEF TypeInv
<1>14. Control' /\ Described' /\ Rolling' /\ LateFrees' /\ Tiling(kind)' /\ Versions'
  <2>1. \A q \in Records : q < count' /\ kind[q] # "seen" => q < count /\ kind[q] # "seen"
    BY <1>2
  <2>2. d.pc # "frontAdvance" /\ d.pc # "lock" /\ c.pc # "lock" /\ Fewer
    BY <1>2, <1>6, QuietStart
  <2> QED
    BY <1>2, <1>3, <1>9, <1>10, <1>11, <2>1, <2>2, Quieter
<1>15. Places(kind, of)'
  BY <1>2, <1>3, <1>6, <1>9, <1>10, <1>12, PlacesStay
<1>16. StatesAt(kind, of)'
  <2>1. \A q \in Records : q \notin Range(c.batch)
    BY <1>3, EmptyRange
  <2>2. kind[c.md] = "md" /\ call'[of[c.md]] = d /\ record'[c.md].state \in MdStates(d)
    BY <1>2, <1>3, <1>9, <1>10 DEF In, Moves
  <2> QED
    BY <2>1, <2>2, <1>2, <1>3, <1>9, StatesStay
<1>17. ManagerCounts' /\ Trims'
  BY <1>2, <1>3, <1>9, <1>10, CountsSame
<1>18. PendingCounts'
  <2>1. ASSUME NEW k \in Shards
        PROVE  pending'[k].count =
              pending[k].count + (Len(pending'[k].list) - Len(pending[k].list))
                 + (Share(d.window, d.stolen, k) - Share(c.window, c.stolen, k))
                 + (Bit(PushesIn(d, record', k)) - Bit(PushesIn(c, record, k)))
    <3>1. Share(d.window, d.stolen, k) = 0 /\ Share(c.window, c.stolen, k) = 0
      BY <1>3, <1>6 DEF Share
    <3>2. Bit(PushesIn(c, record, k)) = 0 /\ Bit(PushesIn(d, record', k)) = Bit(k = s)
      BY <1>2, <1>4, <1>6 DEF Bit, PushesIn
    <3>3. Len(pending[k].list) \in Int /\ pending[k].count \in Int
      BY <1>8 DEF TypeInv
    <3>4. pending'[k].count = pending[k].count + Bit(k = s) /\ Bit(k = s) \in Int
      BY <3>3, <1>12 DEF Bit
    <3>5. Len(pending'[k].list) = Len(pending[k].list)
      BY <1>12
    <3> QED
      BY <3>1, <3>2, <3>3, <3>4, <3>5
  <2>2. \A k \in Shards : pending'[k].list \in Seq(Records)
    BY <1>12
  <2> QED
    BY <2>1, <2>2, <1>2, <1>5, <1>9, PendingPut
<1> QED
  BY <1>13, <1>14, <1>15, <1>16, <1>17, <1>18 DEF IInv

LEMMA PushPendingStep ==
    ASSUME NEW kind, NEW of, IInv(kind, of), NEW t \in Threads, PushPending(t)
    PROVE  Inv'
<1> DEFINE c == call[t]
<1>a. c.pc = "pushPending"
  BY DEF PushPending
<1>d. PICK r \in Records : r = c.md
  BY <1>a, WaitsFacts DEF Waits
<1>1. PICK s \in Shards : s = record[r].shard % NumShards
  BY <1>a, <1>d, WaitsFacts DEF Waits
<1> DEFINE e == [c EXCEPT !.window = s, !.md = None]
<1>b. PICK d : d = Opening(e)
  OBVIOUS
<1>2. /\ c.pc = "pushPending" /\ pending' = [pending EXCEPT ![s].list = <<r>> \o @]
      /\ call' = [call EXCEPT ![t] = d]
      /\ UNCHANGED <<frontier, count, managers, header, record, bins, reclaiming, held, late, arena>>
  BY <1>1, <1>b, <1>d DEF PushPending
<1>3. /\ c \in CallType /\ r \in Records /\ In(kind, of, r, "md", t)
      /\ record[r].state = "pending" /\ c.reserved = None
      /\ c.list = <<>> /\ c.batch = <<>> /\ c.stolen = 0
      /\ c.stage = "first"
      /\ MdOf(c) = r /\ SeenOf(c) = None /\ ClearOf(c) = None
      /\ TransientOf(c) = None /\ TrimOf(c) = None /\ GoneOf(c) = None
      /\ ~Fresh(c) /\ ~Advanced(c) /\ ~HasLocked(c)
      /\ s \in Shards /\ s = record[r].shard
  BY <1>1, <1>d, <1>2, WaitsFacts DEF Waits
<1>4. TypeInv /\ kind \in [Records -> Kinds] /\ kind[r] = "md" /\ of[r] = t /\ r < count
  BY <1>3, PlacesTyped DEF IInv, In
<1>5. e \in CallType
  <2>1. None \in MaybeRecord
    BY DEF MaybeRecord
  <2> QED
    BY <1>3, <2>1 DEF CallType
<1>6. /\ e.md = None /\ e.reserved = c.reserved /\ e.list = c.list
      /\ e.batch = c.batch /\ e.stolen = c.stolen /\ e.stage = c.stage
  BY <1>3 DEF CallType
<1> HIDE DEF e
<1>7. Rested(e)
  BY <1>3, <1>5, <1>6 DEF Rested, Resting
<1>8. Well(d) /\ Quiet(d) /\ Keeps(e, d) /\ d.pc # "frontAdvance"
  BY <1>7, <1>b, OpeningFacts
<1>9. Moves(t, d) /\ call' \in [Threads -> CallType] /\ d \in CallType /\ ShapeOf(d)
  BY <1>2, <1>4, <1>8, MovesTo DEF Well
<1>10. /\ MdOf(d) = None /\ SeenOf(d) = None /\ ClearOf(d) = None /\ TransientOf(d) = None
       /\ TrimOf(d) = None /\ ~Rolls(d) /\ ~Fresh(d) /\ ~Advanced(d) /\ ~HasLocked(d)
       /\ d.pc \notin {"lock", "pushPending"}
  BY <1>8, <1>9, QuietFacts
<1>11. /\ d.reserved = c.reserved /\ d.list = c.list /\ d.batch = c.batch /\ d.stolen = 0
  BY <1>3, <1>6, <1>8 DEF Keeps
<1>12. SameFlight(c, d)
  BY <1>3, <1>10 DEF SameFlight, InFlight
<1>c. PICK stack : stack = pending[s].list
  OBVIOUS
<1>13. stack \in Seq(Records) /\ IsInjective(stack) /\ r \notin Range(stack)
  <2>1. r \notin Range(stack) /\ IsInjective(stack)
    BY <1>3, <1>4, <1>c, PlacesTyped DEF SharedPlaces, In
  <2> QED
    BY <2>1, <1>3, <1>4, <1>c DEF TypeInv
<1>14. /\ <<r>> \o stack \in Seq(Records) /\ IsInjective(<<r>> \o stack)
       /\ Len(<<r>> \o stack) = Len(stack) + 1
       /\ \A q : q \in Range(<<r>> \o stack) <=> q = r \/ q \in Range(stack)
  BY <1>3, <1>13, Pushed
<1> PICK new, nof : Moved(kind, of, new, nof, r, "pending", s)
  BY <1>3, <1>4, CanMove DEF Kinds, ListKinds
<1>15. /\ new \in [Records -> Kinds] /\ Elsewhere(kind, of, new, nof, r)
       /\ new[r] = "pending" /\ nof[r] = s
  BY DEF Moved
<1>16. /\ pending' \in [Shards -> [list : Seq(Records), count : Nat, open : BOOLEAN]]
       /\ \A k \in Shards : /\ pending'[k].list = IF k = s THEN <<r>> \o stack ELSE pending[k].list
                            /\ pending'[k].count = pending[k].count
  <2>1. PICK l : l = <<r>> \o stack
    OBVIOUS
  <2>2. pending' = [pending EXCEPT ![s].list = l]
    BY <1>2, <1>c, <2>1
  <2>3. l \in Seq(Records)
    BY <2>1, <1>14
  <2> QED
    BY <1>4, <2>1, <2>2, <2>3, PendingListed
<1>17. TypeInv'
  BY <1>2, <1>4, <1>9, <1>16 DEF TypeInv
<1>18. Control' /\ Described' /\ Rolling' /\ LateFrees' /\ Tiling(new)' /\ Versions'
  <2>1. \A q \in Records : q < count' /\ new[q] # "seen" => q < count /\ kind[q] # "seen"
    BY <1>2, <1>4, <1>15 DEF Elsewhere
  <2>2. c.pc # "lock" /\ Fewer
    BY <1>2, QuietStart
  <2> QED
    BY <1>2, <1>3, <1>8, <1>9, <1>10, <1>12, <2>1, <2>2, Quieter
<1>19. Places(new, nof)'
  <2>1. FreePlaces(new, nof)'
    BY <1>2, <1>3, <1>4, <1>9, <1>10, <1>15, PlacesTyped, FreePlacesAway
  <2>2. SharedPlaces(new, nof)'
    <3>1. PendingMoved(new, nof, r)
      <4>1. \A k \in Shards : IsInjective(pending'[k].list)
        BY <1>14, <1>16, PlacesTyped DEF SharedPlaces
      <4>2. ASSUME NEW k \in Shards, NEW q \in Records
            PROVE  q \in Range(pending'[k].list) <=> IF q = r THEN In(new, nof, r, "pending", k)
                                                     ELSE q \in Range(pending[k].list)
        <5>1. In(new, nof, r, "pending", k) <=> k = s
          BY <1>15 DEF In
        <5>2. CASE k = s
          BY <5>1, <5>2, <1>14, <1>16, <1>c
        <5>3. CASE k # s
          <6>1. r \notin Range(pending[k].list)
            BY <1>3, <1>4, PlacesTyped DEF SharedPlaces, In
          <6> QED
            BY <5>1, <5>3, <6>1, <1>16
        <5> QED
          BY <5>2, <5>3
      <4> QED
        BY <4>1, <4>2, <1>3, <1>15 DEF PendingMoved
    <3>2. BinsMoved(new, nof, r)
      BY <1>2, <1>4, <1>15, PlacesTyped, BinsAway
    <3>3. HeldMoved(new, nof, r)
      BY <1>2, <1>4, <1>15, PlacesTyped, HeldAway
    <3> QED
      BY <3>1, <3>2, <3>3, <1>15, PlacesTyped, SharedPlacesPut
  <2>3. ThreadPlaces(new, nof)'
    <3>1. \A q \in Records : q # None /\ q \notin Range(c.list) /\ q \notin Range(c.batch)
      BY <1>3, RecordFacts, EmptyRange
    <3>2. ThreadMoved(new, r, t, d)
      BY <1>3, <1>10, <1>11, <1>15, <3>1, EmptyRange DEF ThreadMoved
    <3> QED
      BY <1>4, <1>9, <1>15, <3>2, PlacesTyped, ThreadPlacesPut DEF ThreadKinds
  <2>4. new \in [Records -> Kinds]
    BY <1>15
  <2> QED
    BY <2>1, <2>2, <2>3, <2>4 DEF Places
<1>20. StatesAt(new, nof)'
  <2>1. record[r].state = "pending" /\ record' = record /\ StatesAt(kind, of)
    BY <1>2, <1>3 DEF IInv
  <2>2. \A q \in Records : kind[q] \in {"md", "batch"} => of[q] \in Threads
    BY PlacesTyped DEF ThreadKinds
  <2>3. \A q \in Records : (In(kind, of, q, "md", t) => q = r) /\ ~In(kind, of, q, "batch", t)
    BY <1>3, EmptyRange, InHandFacts
  <2> QED
    BY <1>9, <1>15, <2>1, <2>2, <2>3, StatesPut
<1>21. ManagerCounts' /\ Trims'
  BY <1>2, <1>3, <1>9, <1>10, CountsSame
<1>22. PendingCounts'
  <2>1. ASSUME NEW k \in Shards
        PROVE  pending'[k].count =
              pending[k].count + (Len(pending'[k].list) - Len(pending[k].list))
                 + (Share(d.window, d.stolen, k) - Share(c.window, c.stolen, k))
                 + (Bit(PushesIn(d, record', k)) - Bit(PushesIn(c, record, k)))
    <3>1. Share(d.window, d.stolen, k) = 0 /\ Share(c.window, c.stolen, k) = 0
      BY <1>3, <1>11 DEF Share
    <3>2. Bit(PushesIn(c, record, k)) = Bit(k = s) /\ Bit(PushesIn(d, record', k)) = 0
      BY <1>1, <1>d, <1>2, <1>3, <1>10 DEF Bit, PushesIn
    <3>3. Len(pending[k].list) \in Int /\ pending[k].count \in Int /\ Bit(k = s) \in Int
      BY <1>4 DEF TypeInv, Bit
    <3>4. Len(pending'[k].list) = Len(pending[k].list) + Bit(k = s)
      <4>1. CASE k = s
        <5>1. Len(pending'[k].list) = Len(pending[k].list) + 1
          BY <4>1, <1>14, <1>16, <1>c
        <5> QED
          BY <4>1, <5>1 DEF Bit
      <4>2. CASE k # s
        <5>1. pending'[k].list = pending[k].list
          BY <4>2, <1>16
        <5>2. Bit(k = s) = 0
          BY <4>2 DEF Bit
        <5> QED
          BY <5>1, <5>2, <3>3
      <4> QED
        BY <4>1, <4>2
    <3> QED
      BY <3>1, <3>2, <3>3, <3>4, <1>16
  <2>2. \A k \in Shards : pending'[k].list \in Seq(Records)
    BY <1>16
  <2> QED
    BY <2>1, <2>2, <1>2, <1>9, PendingPut
<1>23. IInv(new, nof)'
  BY <1>17, <1>18, <1>19, <1>20, <1>21, <1>22 DEF IInv
<1> QED
  BY <1>23 DEF Inv

-----------------------------------------------------------------------------
(* Freeing a block: the look at its record, and winning or losing it.      *)

LEMMA LockingMoves ==
    ASSUME NEW t \in Threads, NEW d, Moves(t, d)
    PROVE  /\ Cardinality(Locking) \in Nat
           /\ Cardinality(Locking') = Cardinality(Locking) + Bit(d.pc = "lock") - Bit(call[t].pc = "lock")
           /\ call[t].pc = "lock" => Cardinality(Locking) > 0
<1>1. \A u : u \in Locking' <=> u \in Threads /\ IF u = t THEN d.pc = "lock" ELSE call[u].pc = "lock"
  BY DEF Locking, Moves
<1>2. \A u : u \in Locking <=> u \in Threads /\ call[u].pc = "lock"
  BY DEF Locking
<1>3. IsFiniteSet(Locking) /\ Cardinality(Locking) \in Nat
  BY LockingFacts
<1>4. CASE d.pc = "lock" <=> call[t].pc = "lock"
  <2>1. Locking' = Locking
    BY <1>1, <1>2, <1>4
  <2>2. Bit(d.pc = "lock") = Bit(call[t].pc = "lock") /\ Bit(d.pc = "lock") \in Int
    BY <1>4 DEF Bit
  <2>3. call[t].pc = "lock" => Cardinality(Locking) > 0
    <3> SUFFICES ASSUME call[t].pc = "lock" PROVE Cardinality(Locking) > 0
      OBVIOUS
    <3>1. PICK rest : rest = Locking \ {t}
      OBVIOUS
    <3>2. t \in Locking
      BY <1>2
    <3> QED
      BY <3>1, <3>2, <1>3, OneLess
  <2> QED
    BY <2>1, <2>2, <2>3, <1>3
<1>5. CASE d.pc = "lock" /\ call[t].pc # "lock"
  <2>1. Locking' = Locking \cup {t} /\ t \notin Locking
    BY <1>1, <1>2, <1>5
  <2>2. Cardinality(Locking') = Cardinality(Locking) + 1
    BY <2>1, <1>3, OneMore
  <2> QED
    BY <2>2, <1>3, <1>5 DEF Bit
<1>6. CASE d.pc # "lock" /\ call[t].pc = "lock"
  <2>1. Locking' = Locking \ {t} /\ t \in Locking
    BY <1>1, <1>2, <1>6
  <2>2. Cardinality(Locking') = Cardinality(Locking) - 1 /\ Cardinality(Locking) > 0
    BY <2>1, <1>3, OneLess
  <2> QED
    BY <2>2, <1>3, <1>6 DEF Bit
<1> QED
  BY <1>4, <1>5, <1>6

\* do_try_deallocate's look at the record of the block.
LEMMA DeallocateStep ==
    ASSUME NEW kind, NEW of, IInv(kind, of), NEW t \in Threads, NEW b \in held, Deallocate(t, b),
           arena.calls[t] > 0, arena' = [arena EXCEPT !.calls[t] = @ - 1]
    PROVE  IInv(kind, of)'
<1> DEFINE c == call[t]
<1>a. PICK r \in Records : r = header[b].index
  BY PlacesTyped
<1>b. PICK x : x = Word(r)
  OBVIOUS
<1> DEFINE d == [Idle EXCEPT !.pc = "lock", !.block = b, !.walk = r, !.expected = x]
<1>1. /\ c.pc = "idle" /\ record[r].state = "inUse" /\ record[r].block = b
      /\ call' = [call EXCEPT ![t] = d]
      /\ UNCHANGED <<frontier, count, managers, header, record, pending, bins, reclaiming, held, late>>
  BY <1>a, <1>b DEF Deallocate, shared
<1>2. c = Idle /\ TypeInv /\ Control /\ c \in CallType
  BY <1>1, QuietStart DEF ShapeOf
<1>3. b \in Blocks /\ b # None /\ r # None
  BY PlacesTyped, RecordFacts, BlockFacts
<1>4. x = <<"inUse", b, record[r].version>> /\ record[r].version \in Nat /\ x \in Expectations /\ x # <<>>
  <2>1. x = <<"inUse", b, record[r].version>> /\ record[r].version \in Nat
    BY <1>1, <1>b, RecordTyped DEF Word
  <2>2. "inUse" \in States /\ b \in MaybeBlock
    BY <1>3 DEF States, MaybeBlock
  <2> QED
    BY <2>1, <2>2 DEF Expectations
<1>5. d \in CallType
  <2>1. Idle \in CallType
    BY IdleFacts
  <2>2. "lock" \in Pcs /\ b \in MaybeBlock /\ r \in MaybeRecord
    BY <1>3 DEF Pcs, FirstPcs, MaybeBlock, MaybeRecord
  <2> HIDE DEF Idle
  <2> QED
    BY <1>4, <2>1, <2>2 DEF CallType
<1>6. /\ d.pc = "lock" /\ d.block = b /\ d.walk = r /\ d.expected = x /\ d.md = None
      /\ d.reserved = None /\ d.list = <<>> /\ d.batch = <<>> /\ d.stolen = 0 /\ d.stage = "first"
  BY DEF Idle
<1>7. /\ c.pc = "idle" /\ c.md = None /\ c.reserved = None /\ c.list = <<>> /\ c.batch = <<>> /\ c.stolen = 0
  BY <1>2 DEF Idle
<1> HIDE DEF d
<1>8. ShapeOf(d) /\ PlaceOf(d)
  BY <1>3, <1>4, <1>6 DEF ShapeOf, PlaceOf, HasMd, HasReserved, Batching, Windowed, FirstPcs, WindowPcs
<1>9. Well(d) /\ Moves(t, d) /\ call' \in [Threads -> CallType]
  BY <1>1, <1>2, <1>5, <1>8, MovesTo DEF Well
<1>10. /\ MdOf(d) = None /\ SeenOf(d) = None /\ ClearOf(d) = None /\ TransientOf(d) = None
       /\ TrimOf(d) = None /\ GoneOf(d) = None /\ ~Rolls(d) /\ ~Fresh(d) /\ ~Advanced(d) /\ ~HasLocked(d)
  BY <1>6 DEF MdOf, SeenOf, ClearOf, TransientOf, TrimOf, GoneOf, Rolls, Fresh, Advanced, HasLocked
<1>11. /\ MdOf(c) = None /\ SeenOf(c) = None /\ ClearOf(c) = None /\ TransientOf(c) = None
       /\ TrimOf(c) = None /\ GoneOf(c) = None /\ ~Fresh(c) /\ ~Advanced(c) /\ ~HasLocked(c)
  BY <1>7 DEF MdOf, SeenOf, ClearOf, TransientOf, TrimOf, GoneOf, Fresh, Advanced, HasLocked
<1>12. SameFlight(c, d)
  BY <1>10, <1>11 DEF SameFlight, InFlight
<1>13. Fewer /\ Cardinality(Upcoming(arena'.calls)) = Cardinality(Upcoming(arena.calls)) - 1
       /\ Cardinality(Upcoming(arena.calls)) \in Nat
  BY <1>2, FewerOne
<1>14. TypeInv'
  BY <1>1, <1>2, <1>9, <1>13 DEF TypeInv, Fewer
<1>15. Control'
  BY <1>2, <1>6, <1>9, <1>12, <1>13, ControlSame DEF Fewer
<1>16. Described'
  <2>1. \A u \in Threads : call[u].md # None => call[u].md \in Records
    BY CallFacts DEF IInv
  <2>2. \A u \in Threads : HasLocked(call[u]) => call[u].md # None
    BY CallFacts DEF IInv
  <2>3. Described
    BY DEF IInv
  <2> QED
    BY <1>1, <1>9, <1>10, <2>1, <2>2, <2>3, DescribedSame
<1>17. Rolling'
  BY <1>1, <1>2, <1>9, <1>10, RollingSame DEF IInv
<1>18. LateFrees'
  <2>1. \A u \in Threads : call'[u] = IF u = t THEN d ELSE call[u]
    BY <1>9 DEF Moves
  <2>2. t \notin late /\ LateFrees
    BY <1>1 DEF IInv, LateFrees
  <2>3. \A u \in Threads : u \in late' => call'[u].pc = "lock"
    BY <1>1, <2>1, <2>2 DEF LateFrees
  <2>4. ASSUME NEW u \in Threads, call'[u].pc = "lock"
        PROVE  /\ call'[u].expected[3] <= record'[call'[u].walk].version
               /\ u \in late' => call'[u].expected[3] < record'[call'[u].walk].version
               /\ u \notin late' => /\ call'[u].block \in held'
                                    /\ header'[call'[u].block].index = call'[u].walk
                                    /\ <<record'[call'[u].walk].state, record'[call'[u].walk].block,
                                         record'[call'[u].walk].version>> = call'[u].expected
    <3>1. CASE u = t
      <4>1. call'[u] = d /\ u \notin late'
        BY <3>1, <1>1, <2>1, <2>2
      <4>2. d.expected[3] = record'[d.walk].version /\ record[r].version \in Nat
        BY <1>1, <1>4, <1>6
      <4>3. <<record'[r].state, record'[r].block, record'[r].version>> = d.expected
        BY <1>1, <1>4, <1>6
      <4> QED
        BY <4>1, <4>2, <4>3, <1>1, <1>6, <1>a
    <3>2. CASE u # t
      <4>1. call'[u] = call[u] /\ call[u].pc = "lock"
        BY <3>2, <2>1, <2>4
      <4> QED
        BY <4>1, <2>2, <1>1 DEF LateFrees, Word
    <3> QED
      BY <3>1, <3>2
  <2> QED
    BY <2>3, <2>4 DEF LateFrees, Word
<1>19. Tiling(kind)'
  <2>1. \A q \in Records : Describes(q)' <=> Describes(q)
    BY <1>1, <1>9, <1>10, <1>11, DescribesStay
  <2>2. \A q \in Records : q < count' /\ kind[q] # "seen" => q < count /\ kind[q] # "seen"
    BY <1>1
  <2>3. Tiling(kind) /\ arena'.start = arena.start
    BY <1>13 DEF IInv, Fewer
  <2> QED
    BY <1>1, <1>9, <1>12, <2>1, <2>2, <2>3, TilingSame
<1>20. Versions'
  <2> SUFFICES ASSUME NEW q \in Records
               PROVE  record'[q].version + Cardinality(Upcoming(arena'.calls)) + Cardinality(Locking') < VersionLimit
    BY DEF Versions
  <2>1. record[q].version + Cardinality(Upcoming(arena.calls)) + Cardinality(Locking) < VersionLimit
    BY DEF IInv, Versions
  <2>2. Cardinality(Locking') = Cardinality(Locking) + Bit(d.pc = "lock") - Bit(c.pc = "lock")
        /\ Cardinality(Locking) \in Nat
    BY <1>9, LockingMoves
  <2>3. Cardinality(Locking') = Cardinality(Locking) + 1
    BY <2>2, <1>1, <1>6 DEF Bit
  <2>4. record[q].version \in Nat /\ VersionLimit \in Nat /\ record'[q].version = record[q].version
    BY <1>1, RecordTyped, Constants
  <2> QED
    BY <1>13, <2>1, <2>2, <2>3, <2>4
<1>21. Places(kind, of)'
  BY <1>1, <1>6, <1>7, <1>9, <1>10, <1>11, PlacesStay
<1>22. StatesAt(kind, of)'
  <2>1. StatesAt(kind, of) /\ \A q \in Records : kind[q] \in {"md", "batch"} => of[q] \in Threads
    BY PlacesTyped DEF IInv, ThreadKinds
  <2>2. \A q \in Records : ~In(kind, of, q, "md", t) /\ ~In(kind, of, q, "batch", t)
    BY <1>7, <1>11, RecordFacts, EmptyRange, InHandFacts
  <2> QED
    BY <1>1, <1>9, <2>1, <2>2, StatesSame
<1>23. ManagerCounts' /\ Trims'
  BY <1>1, <1>9, <1>10, <1>11, CountsSame
<1>24. PendingCounts'
  BY <1>1, <1>6, <1>7, <1>9, PendingSame
<1> QED
  BY <1>14, <1>15, <1>16, <1>17, <1>18, <1>19, <1>20, <1>21, <1>22, <1>23, <1>24 DEF IInv

LEMMA LockFacts ==
    ASSUME NEW kind, NEW of, IInv(kind, of), NEW t \in Threads, call[t].pc = "lock"
    PROVE  /\ call[t] \in CallType /\ call[t].md = None /\ call[t].reserved = None
           /\ call[t].list = <<>> /\ call[t].batch = <<>> /\ call[t].stolen = 0
           /\ call[t].stage = "first"
           /\ MdOf(call[t]) = None /\ SeenOf(call[t]) = None /\ ClearOf(call[t]) = None
           /\ TransientOf(call[t]) = None /\ TrimOf(call[t]) = None /\ GoneOf(call[t]) = None
           /\ ~Fresh(call[t]) /\ ~Advanced(call[t]) /\ ~HasLocked(call[t])
           /\ call[t].walk \in Records /\ call[t].block \in Blocks
           /\ call[t].expected[1] = "inUse" /\ call[t].expected[2] = call[t].block
<1> DEFINE c == call[t]
<1>1. c \in CallType /\ ShapeOf(c)
  BY QuietStart
<1>2. c.walk \in Records /\ c.block \in Blocks /\ c.expected[1] = "inUse" /\ c.expected[2] = c.block
  BY CallFacts DEF IInv
<1>3. ~HasMd(c) /\ c.stage = "first"
  BY <1>1 DEF HasMd, ShapeOf, FirstPcs
<1>4. ~HasReserved(c) /\ ~Batching(c) /\ c.pc # "reducePending"
  BY <1>3 DEF HasReserved, Batching
<1>5. c.md = None /\ c.reserved = None /\ c.list = <<>> /\ c.batch = <<>> /\ c.stolen = 0
  BY <1>1, <1>3, <1>4 DEF ShapeOf
<1>6. /\ MdOf(c) = None /\ SeenOf(c) = None /\ ClearOf(c) = None /\ TransientOf(c) = None
      /\ TrimOf(c) = None /\ GoneOf(c) = None /\ ~Fresh(c) /\ ~Advanced(c) /\ ~HasLocked(c)
  BY <1>5 DEF MdOf, SeenOf, ClearOf, TransientOf, TrimOf, GoneOf, Fresh, Advanced, HasLocked
<1> QED
  BY <1>1, <1>2, <1>3, <1>5, <1>6

\* Another thread has freed the block first.
LEMMA LockLoses ==
    ASSUME NEW kind, NEW of, IInv(kind, of), NEW t \in Threads, Lock(t),
           Word(call[t].walk) # call[t].expected
    PROVE  IInv(kind, of)'
<1> DEFINE c == call[t]
<1>1. /\ c.pc = "lock" /\ late' = late \ {t} /\ call' = [call EXCEPT ![t] = Idle]
      /\ UNCHANGED <<frontier, count, managers, header, record, pending, bins, reclaiming, held, arena>>
  BY DEF Lock
<1>a. PICK d : d = Idle
  OBVIOUS
<1>2. TypeInv /\ Control
  BY QuietStart
<1>3. /\ c \in CallType /\ c.md = None /\ c.reserved = None
      /\ c.list = <<>> /\ c.batch = <<>> /\ c.stolen = 0
      /\ MdOf(c) = None /\ SeenOf(c) = None /\ ClearOf(c) = None
      /\ TransientOf(c) = None /\ TrimOf(c) = None /\ GoneOf(c) = None
      /\ ~Fresh(c) /\ ~Advanced(c) /\ ~HasLocked(c)
  BY <1>1, LockFacts
<1>4. /\ d.pc = "idle" /\ d.md = None /\ d.reserved = None /\ d.list = <<>> /\ d.batch = <<>> /\ d.stolen = 0
  BY <1>a DEF Idle
<1>5. Well(d) /\ Quiet(d) /\ d \in CallType /\ ShapeOf(d)
  BY <1>a, IdleFacts DEF Well
<1>6. Moves(t, d) /\ call' \in [Threads -> CallType]
  BY <1>a, <1>1, <1>2, <1>5, MovesTo
<1>7. /\ MdOf(d) = None /\ SeenOf(d) = None /\ ClearOf(d) = None /\ TransientOf(d) = None
      /\ TrimOf(d) = None /\ GoneOf(d) = None /\ ~Rolls(d) /\ ~Fresh(d) /\ ~Advanced(d) /\ ~HasLocked(d)
  BY <1>5, QuietFacts
<1>8. SameFlight(c, d)
  BY <1>3, <1>7 DEF SameFlight, InFlight
<1>9. TypeInv'
  BY <1>1, <1>2, <1>6 DEF TypeInv
<1>10. Control'
  BY <1>1, <1>2, <1>4, <1>5, <1>6, <1>8, ControlSame
<1>11. Described'
  <2>1. \A u \in Threads : call[u].md # None => call[u].md \in Records
    BY CallFacts DEF IInv
  <2>2. \A u \in Threads : HasLocked(call[u]) => call[u].md # None
    BY CallFacts DEF IInv
  <2>3. Described
    BY DEF IInv
  <2> QED
    BY <1>1, <1>6, <1>7, <2>1, <2>2, <2>3, DescribedSame
<1>12. Rolling'
  BY <1>1, <1>2, <1>6, <1>7, RollingSame DEF IInv
<1>13. LateFrees'
  <2>1. \A u \in Threads : call'[u] = IF u = t THEN d ELSE call[u]
    BY <1>6 DEF Moves
  <2>2. LateFrees
    BY DEF IInv
  <2>3. \A u \in Threads : u \in late' => call'[u].pc = "lock"
    BY <1>1, <2>1, <2>2 DEF LateFrees
  <2>4. ASSUME NEW u \in Threads, call'[u].pc = "lock"
        PROVE  u # t /\ call'[u] = call[u] /\ call[u].pc = "lock" /\ (u \in late' <=> u \in late)
    BY <1>1, <1>4, <2>1, <2>4
  <2> QED
    BY <1>1, <2>2, <2>3, <2>4 DEF LateFrees, Word
<1>14. Tiling(kind)'
  <2>1. \A q \in Records : Describes(q)' <=> Describes(q)
    BY <1>1, <1>3, <1>6, <1>7, DescribesStay
  <2>2. \A q \in Records : q < count' /\ kind[q] # "seen" => q < count /\ kind[q] # "seen"
    BY <1>1
  <2>3. Tiling(kind)
    BY DEF IInv
  <2> QED
    BY <1>1, <1>6, <1>8, <2>1, <2>2, <2>3, TilingSame
<1>15. Versions'
  <2>1. Fewer /\ \A q \in Records : record'[q].version = record[q].version
    BY <1>1, QuietStart
  <2> QED
    BY <1>2, <1>4, <1>6, <2>1, VersionsSame DEF IInv
<1>16. Places(kind, of)'
  BY <1>1, <1>3, <1>4, <1>6, <1>7, PlacesStay
<1>17. StatesAt(kind, of)'
  <2>1. StatesAt(kind, of) /\ \A q \in Records : kind[q] \in {"md", "batch"} => of[q] \in Threads
    BY PlacesTyped DEF IInv, ThreadKinds
  <2>2. \A q \in Records : ~In(kind, of, q, "md", t) /\ ~In(kind, of, q, "batch", t)
    BY <1>3, RecordFacts, EmptyRange, InHandFacts
  <2> QED
    BY <1>1, <1>6, <2>1, <2>2, StatesSame
<1>18. ManagerCounts' /\ Trims'
  BY <1>1, <1>3, <1>6, <1>7, CountsSame
<1>19. PendingCounts'
  BY <1>1, <1>3, <1>4, <1>6, PendingSame
<1> QED
  BY <1>9, <1>10, <1>11, <1>12, <1>13, <1>14, <1>15, <1>16, <1>17, <1>18, <1>19 DEF IInv

\* What a thread that wins a block knows: nobody has freed the block since it looked.
LEMMA WinsFacts ==
    ASSUME NEW kind, NEW of, IInv(kind, of), NEW t \in Threads, call[t].pc = "lock",
           Word(call[t].walk) = call[t].expected, NEW r, r = call[t].walk
    PROVE  /\ t \notin late /\ call[t].block \in held /\ header[call[t].block].index = r
           /\ r \in Records /\ record[r].state = "inUse" /\ record[r].block = call[t].block
           /\ kind[r] = "held" /\ of[r] = call[t].block
           /\ \A b \in held : header[b].index = r => b = call[t].block
<1>1. r \in Records /\ call[t].expected[1] = "inUse" /\ call[t].expected[2] = call[t].block
  BY LockFacts
<1>2. record[r].version \in Nat
  BY <1>1, RecordTyped
<1>3. <<record[r].state, record[r].block, record[r].version>> = call[t].expected
  BY DEF Word
<1>4. t \notin late
  BY <1>2, <1>3 DEF IInv, LateFrees
<1>5. call[t].block \in held /\ header[call[t].block].index = r
  BY <1>4 DEF IInv, LateFrees
<1>6. \A b \in held : header[b].index = r => kind[r] = "held" /\ of[r] = b
  BY <1>1, PlacesTyped DEF SharedPlaces, In
<1> QED
  BY <1>1, <1>3, <1>4, <1>5, <1>6

LEMMA LockWins ==
    ASSUME NEW kind, NEW of, IInv(kind, of), NEW t \in Threads, Lock(t),
           Word(call[t].walk) = call[t].expected
    PROVE  Inv'
<1> DEFINE c == call[t]
<1>a. PICK b : b = c.block
  OBVIOUS
<1>b. c.pc = "lock"
  BY DEF Lock
<1>c. PICK r \in Records : r = c.walk
  BY <1>b, LockFacts
<1>d. PICK others : others = {u \in Threads \ {t} : call[u].pc = "lock" /\ call[u].block = b}
  OBVIOUS
<1>e. PICK v : v = (record[r].version + 1) % VersionLimit
  OBVIOUS
<1> DEFINE d == [c EXCEPT !.pc = "countPending", !.md = r,
                          !.block = None, !.walk = None, !.expected = <<>>]
<1>1. /\ record' = [record EXCEPT ![r].state = "pending", ![r].version = v]
      /\ held' = held \ {b} /\ late' = late \cup others
      /\ call' = [call EXCEPT ![t] = d]
      /\ UNCHANGED <<frontier, count, managers, header, pending, bins, reclaiming, arena>>
  BY <1>a, <1>c, <1>d, <1>e DEF Lock
<1>2. TypeInv /\ Control /\ LateFrees /\ Versions
  BY DEF IInv
<1>3. /\ c \in CallType /\ c.md = None /\ c.reserved = None
      /\ c.list = <<>> /\ c.batch = <<>> /\ c.stolen = 0 /\ c.stage = "first"
      /\ MdOf(c) = None /\ SeenOf(c) = None /\ ClearOf(c) = None
      /\ TransientOf(c) = None /\ TrimOf(c) = None /\ GoneOf(c) = None
      /\ ~Fresh(c) /\ ~Advanced(c) /\ ~HasLocked(c)
  BY <1>b, LockFacts
<1>4. /\ t \notin late /\ b \in held /\ header[b].index = r
      /\ record[r].state = "inUse" /\ record[r].block = b
      /\ kind[r] = "held" /\ of[r] = b
      /\ \A q \in held : header[q].index = r => q = b
  BY <1>a, <1>b, <1>c, WinsFacts
<1>5. r # None /\ kind \in [Records -> Kinds] /\ r < count /\ b \in Blocks
  BY <1>4, RecordFacts, PlacesTyped
<1>6. d \in CallType
  <2>1. "countPending" \in Pcs /\ r \in MaybeRecord /\ None \in MaybeBlock /\ None \in MaybeRecord
        /\ <<>> \in Expectations
    BY DEF Pcs, FirstPcs, MaybeRecord, MaybeBlock, Expectations
  <2> QED
    BY <1>3, <2>1 DEF CallType
<1>7. /\ d.pc = "countPending" /\ d.md = r /\ d.reserved = c.reserved /\ d.list = c.list
      /\ d.batch = c.batch /\ d.stolen = c.stolen /\ d.stage = c.stage /\ d.window = c.window
  BY <1>3 DEF CallType
<1> HIDE DEF d
<1>8. ShapeOf(d) /\ PlaceOf(d)
  BY <1>3, <1>5, <1>7 DEF ShapeOf, PlaceOf, HasMd, HasReserved, Batching, Windowed, FirstPcs, WindowPcs
<1>9. Well(d) /\ Moves(t, d) /\ call' \in [Threads -> CallType]
  BY <1>1, <1>2, <1>6, <1>8, MovesTo DEF Well
<1>10. /\ MdOf(d) = r /\ SeenOf(d) = None /\ ClearOf(d) = None /\ TransientOf(d) = None
       /\ TrimOf(d) = None /\ GoneOf(d) = None /\ ~Rolls(d) /\ ~Fresh(d) /\ ~Advanced(d) /\ ~HasLocked(d)
       /\ MdStates(d) = {"pending"}
  BY <1>7 DEF MdOf, SeenOf, ClearOf, TransientOf, TrimOf, GoneOf, Rolls, Fresh, Advanced, HasLocked, MdStates
<1>11. SameFlight(c, d)
  BY <1>3, <1>10 DEF SameFlight, InFlight
<1>12. /\ v = record[r].version + 1 /\ v \in 0 .. VersionLimit - 1
       /\ Cardinality(Locking) \in Nat /\ Cardinality(Locking') = Cardinality(Locking) - 1
  <2>1. record[r].version + Cardinality(Upcoming(arena.calls)) + Cardinality(Locking) < VersionLimit
    BY <1>2 DEF Versions
  <2>2. Cardinality(Upcoming(arena.calls)) \in Nat
    BY <1>2, UpcomingFacts DEF TypeInv
  <2>3. Cardinality(Locking) \in Nat /\ Cardinality(Locking) > 0
        /\ Cardinality(Locking') = Cardinality(Locking) + Bit(d.pc = "lock") - Bit(c.pc = "lock")
    BY <1>b, <1>9, LockingMoves
  <2>4. Cardinality(Locking') = Cardinality(Locking) - 1
    BY <2>3, <1>b, <1>7 DEF Bit
  <2>5. record[r].version \in Nat /\ VersionLimit \in Nat
    BY RecordTyped, Constants
  <2>6. record[r].version + 1 < VersionLimit
    BY <2>1, <2>2, <2>3, <2>5
  <2>7. v = record[r].version + 1
    BY <1>e, <2>5, <2>6
  <2> QED
    BY <2>3, <2>4, <2>5, <2>6, <2>7
<1>13. /\ record' \in [Records -> RecordType] /\ record'[r].state = "pending"
       /\ record'[r].version = record[r].version + 1
       /\ \A q \in Records : /\ q # r => record'[q] = record[q]
                             /\ record'[q].block = record[q].block
                             /\ record'[q].size = record[q].size
                             /\ record'[q].shard = record[q].shard
  <2>1. record \in [Records -> RecordType] /\ "pending" \in States
    BY RecordTyped DEF States
  <2> QED
    BY <1>1, <1>12, <2>1 DEF RecordType
<1>14. TypeInv'
  BY <1>1, <1>2, <1>9, <1>13 DEF TypeInv
<1>15. Control'
  BY <1>1, <1>2, <1>7, <1>9, <1>11, ControlSame
<1>16. Described'
  BY <1>4, <1>9, <1>10, <1>13, DescribedPut DEF Unused
<1>17. Rolling'
  <2>1. \A u \in Threads \ {t} : RollOf(call[u]) # r
    BY <1>4, RollsNot
  <2> QED
    BY <2>1, <1>9, <1>10, <1>13, RollingEnds
<1>18. LateFrees'
  <2>1. \A u \in Threads : call'[u] = IF u = t THEN d ELSE call[u]
    BY <1>9 DEF Moves
  <2>2. \A u \in Threads : u \in late' => call'[u].pc = "lock"
    BY <1>1, <1>2, <1>4, <1>d, <2>1 DEF LateFrees
  <2>3. ASSUME NEW u \in Threads, call'[u].pc = "lock"
        PROVE  /\ call'[u].expected[3] <= record'[call'[u].walk].version
               /\ u \in late' => call'[u].expected[3] < record'[call'[u].walk].version
               /\ u \notin late' => /\ call'[u].block \in held'
                                    /\ header'[call'[u].block].index = call'[u].walk
                                    /\ <<record'[call'[u].walk].state, record'[call'[u].walk].block,
                                         record'[call'[u].walk].version>> = call'[u].expected
    <3>1. u # t /\ call'[u] = call[u] /\ call[u].pc = "lock"
      BY <1>7, <2>1, <2>3
    <3>2. PICK w \in Records : w = call[u].walk
      BY <3>1, LockFacts
    <3>3. PICK x : x = call[u].expected[3]
      OBVIOUS
    <3>4. x \in Nat /\ record[w].version \in Nat
      <4>1. call[u].expected[3] \in Nat
        BY <3>1, <1>2, CallFacts
      <4> QED
        BY <4>1, <3>3, RecordTyped
    <3>5. /\ x <= record[w].version
          /\ u \in late => x < record[w].version
          /\ u \notin late => /\ call[u].block \in held /\ header[call[u].block].index = w
                              /\ <<record[w].state, record[w].block, record[w].version>> = call[u].expected
      BY <3>1, <3>2, <3>3, <1>2 DEF LateFrees, Word
    <3>6. record'[w].version = (IF w = r THEN record[w].version + 1 ELSE record[w].version)
      BY <1>13
    <3>7. CASE u \in late
      BY <3>1, <3>2, <3>3, <3>4, <3>5, <3>6, <3>7, <1>1
    <3>8. CASE u \notin late /\ call[u].block = b
      <4>1. w = r /\ u \in late'
        BY <3>1, <3>5, <3>8, <1>1, <1>4, <1>d
      <4>2. x < record'[w].version /\ x <= record'[w].version
        BY <4>1, <3>4, <3>5, <3>6
      <4> QED
        BY <4>1, <4>2, <3>1, <3>2, <3>3
    <3>9. CASE u \notin late /\ call[u].block # b
      <4>1. w # r
        BY <3>5, <3>9, <1>4
      <4>2. u \notin late' /\ call[u].block \in held'
        BY <3>5, <3>9, <1>1, <1>d
      <4>3. record'[w] = record[w]
        BY <4>1, <1>13
      <4> QED
        BY <4>2, <4>3, <3>1, <3>2, <3>3, <3>5, <1>1
    <3> QED
      BY <3>7, <3>8, <3>9
  <2> QED
    BY <2>2, <2>3 DEF LateFrees, Word
<1> PICK new, nof : Moved(kind, of, new, nof, r, "md", t)
  BY <1>5, CanMove DEF Kinds, ListKinds
<1>19. /\ new \in [Records -> Kinds] /\ Elsewhere(kind, of, new, nof, r)
       /\ new[r] = "md" /\ nof[r] = t
  BY DEF Moved
<1>20. Tiling(new)'
  <2>1. \A q \in Records : Describes(q)' <=> Describes(q)
    <3>1. \A q \in Records : record'[q].state \in Active <=> record[q].state \in Active
      BY <1>4, <1>13 DEF Active
    <3> QED
      BY <3>1, <1>3, <1>9, <1>10, DescribesStay
  <2>2. \A q \in Records : q < count' /\ new[q] # "seen" => q < count /\ kind[q] # "seen"
    BY <1>1, <1>4, <1>19 DEF Elsewhere
  <2>3. Tiling(kind)
    BY DEF IInv
  <2> QED
    BY <1>1, <1>9, <1>11, <1>13, <2>1, <2>2, <2>3, TilingSame
<1>21. Versions'
  <2> SUFFICES ASSUME NEW q \in Records
               PROVE  record'[q].version + Cardinality(Upcoming(arena'.calls)) + Cardinality(Locking') < VersionLimit
    BY DEF Versions
  <2>1. record[q].version + Cardinality(Upcoming(arena.calls)) + Cardinality(Locking) < VersionLimit
    BY <1>2 DEF Versions
  <2>2. Cardinality(Upcoming(arena.calls)) \in Nat /\ arena' = arena
    BY <1>1, <1>2, UpcomingFacts DEF TypeInv
  <2>3. record[q].version \in Nat /\ VersionLimit \in Nat
    BY RecordTyped, Constants
  <2>4. record'[q].version = (IF q = r THEN record[q].version + 1 ELSE record[q].version)
    BY <1>13
  <2> QED
    BY <1>12, <2>1, <2>2, <2>3, <2>4
<1>22. Places(new, nof)'
  <2>1. FreePlaces(new, nof)'
    BY <1>1, <1>3, <1>4, <1>9, <1>10, <1>19, PlacesTyped, FreePlacesAway
  <2>2. SharedPlaces(new, nof)'
    <3>1. PendingMoved(new, nof, r)
      BY <1>1, <1>4, <1>19, PlacesTyped, PendingAway
    <3>2. BinsMoved(new, nof, r)
      BY <1>1, <1>4, <1>19, PlacesTyped, BinsAway
    <3>3. HeldMoved(new, nof, r)
      BY <1>1, <1>4, <1>19 DEF HeldMoved
    <3> QED
      BY <3>1, <3>2, <3>3, <1>19, PlacesTyped, SharedPlacesPut
  <2>3. ThreadPlaces(new, nof)'
    <3>1. \A q \in Records : q # None /\ q \notin Range(c.list) /\ q \notin Range(c.batch)
      BY <1>3, RecordFacts, EmptyRange
    <3>2. ThreadMoved(new, r, t, d)
      BY <1>3, <1>7, <1>10, <1>19, <3>1, EmptyRange DEF ThreadMoved
    <3>3. kind[r] \notin ThreadKinds
      BY <1>4 DEF ThreadKinds
    <3> QED
      BY <1>9, <1>19, <3>2, <3>3, PlacesTyped, ThreadPlacesPut
  <2>4. new \in [Records -> Kinds]
    BY <1>19
  <2> QED
    BY <2>1, <2>2, <2>3, <2>4 DEF Places
<1>23. StatesAt(new, nof)'
  <2>1. StatesAt(kind, of) /\ record'[r].state \in MdStates(call'[nof[r]])
    BY <1>9, <1>10, <1>13, <1>19 DEF IInv, Moves
  <2>2. \A q \in Records : kind[q] \in {"md", "batch"} => of[q] \in Threads
    BY PlacesTyped DEF ThreadKinds
  <2>3. \A q \in Records : ~In(kind, of, q, "md", t) /\ ~In(kind, of, q, "batch", t)
    BY <1>3, RecordFacts, EmptyRange, InHandFacts
  <2> QED
    BY <1>9, <1>13, <1>19, <2>1, <2>2, <2>3, StatesPut
<1>24. ManagerCounts' /\ Trims'
  BY <1>1, <1>3, <1>9, <1>10, CountsSame
<1>25. PendingCounts'
  <2>1. \A u \in Threads : call[u].pc = "pushPending" => record'[call[u].md].shard = record[call[u].md].shard
    <3>1. \A u \in Threads : call[u].pc = "pushPending" => call[u].md \in Records
      BY CallFacts DEF IInv, ShapeOf, HasMd
    <3> QED
      BY <3>1, <1>13
  <2> QED
    BY <2>1, <1>1, <1>b, <1>7, <1>9, PendingSame
<1>26. IInv(new, nof)'
  BY <1>14, <1>15, <1>16, <1>17, <1>18, <1>20, <1>21, <1>22, <1>23, <1>24, <1>25 DEF IInv
<1> QED
  BY <1>26 DEF Inv
==============================================================================
