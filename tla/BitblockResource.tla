-------------------------- MODULE BitblockResource --------------------------
(***************************************************************************)
(* lockfree_bitblock_resource: arenas, each a list of blocks that only     *)
(* grows at its front, each block a bitmap of elements and a count of free *)
(* ones.  An allocation tries the block its core used last, the block its  *)
(* arena used last, every block of its arena and a new one, and then the   *)
(* blocks of the other arenas.                                             *)
(*                                                                         *)
(* The bitmap of a block is one step to search and one to release here;    *)
(* BitblockSet takes those steps apart.  A search takes any free run: where *)
(* it starts is a hint.  block_count_ is written and never read.           *)
(***************************************************************************)
EXTENDS Integers, FiniteSets, FiniteSetsExt

CONSTANTS
    Threads,
    NumArenas,              \* number_of_arenas_, clamped
    MaxArenas,              \* MAX_NUMBER_OF_ARENAS: also the slots of core_hints_
    Cores,                  \* the ids get_cpu_id() returns
    MaxBlocks,              \* MAX_NUMBER_OF_BLOCKS
    UpstreamBlocks,         \* bound: the blocks the upstream resource has memory for
    Elements,               \* ELEMENTS_PER_BLOCK
    RunLengths,             \* bound: the elements an allocation asks for; what is
                            \* refused unread, over 16 or aligned to more, is left out
    CountModulus            \* 2^32: free_count_ is a uint32_t

SizesAssumption ==
    /\ IsFiniteSet(Threads) /\ Threads # {}
    /\ MaxArenas \in Nat /\ MaxBlocks \in Nat /\ CountModulus \in Nat
    /\ NumArenas \in 1 .. MaxArenas /\ NumArenas <= MaxBlocks
    /\ Cores \subseteq Nat
    /\ UpstreamBlocks \in Nat /\ Elements \in Nat \ {0}
    /\ RunLengths \subseteq 1 .. Elements
    /\ CountModulus > Elements

Arenas == 0 .. NumArenas - 1
HintSlots == 0 .. MaxArenas - 1
Null == 0
Blocks == 1 .. UpstreamBlocks
Paths == {"core", "arena", "walk", "other"}

VARIABLES
    first,                  \* first_block_ of each arena
    next,                   \* next_block_ of each block
    home,                   \* arena_index_ of each block
    used,                   \* element_allocations_: the elements of a block that are set
    freeCount,              \* free_count_ of each block
    upstream,               \* the blocks that came from upstream and did not return
    totalBlocks,            \* total_blocks_
    arenaHint,              \* allocation_hint_
    coreHint,               \* core_hints_
    live,                   \* [block, at, n]: what callers hold, with its header
    pc, core, want,         \* per thread: where it is, its core, the elements it wants
    path, cur,              \* the way it found the block it tries, that block
    offset,                 \* the arenas it is past in the fallback
    mine,                   \* the run it took and has not returned, or is freeing
    alone                   \* history: no other thread moved during the call

blockVars == <<next, home, used, freeCount, upstream>>
hintVars == <<arenaHint, coreHint>>
callVars == <<core, want, offset>>
vars == <<first, blockVars, totalBlocks, hintVars, live, pc, callVars, path, cur, mine, alone>>

NoRun == [block |-> Null, at |-> 0, n |-> 0]

\* The constructor gives an arena a first block unless upstream has none to give
\* just then; the arena stays empty and grows later.
Init == \E given \in 0 .. Min({NumArenas, UpstreamBlocks}) :
    /\ first = [a \in Arenas |-> IF a < given THEN a + 1 ELSE Null]
    /\ next = [b \in Blocks |-> Null]
    /\ home = [b \in Blocks |-> IF b <= given THEN b - 1 ELSE 0]
    /\ used = [b \in Blocks |-> {}]
    /\ freeCount = [b \in Blocks |-> Elements]
    /\ upstream = 1 .. given
    /\ totalBlocks = given
    /\ arenaHint = [a \in Arenas |-> Null]
    /\ coreHint = [h \in HintSlots |-> Null]
    /\ live = {}
    /\ pc = [t \in Threads |-> "idle"]
    /\ core = [t \in Threads |-> 0]
    /\ want = [t \in Threads |-> 0]
    /\ path = [t \in Threads |-> "core"]
    /\ cur = [t \in Threads |-> Null]
    /\ offset = [t \in Threads |-> 0]
    /\ mine = [t \in Threads |-> NoRun]
    /\ alone = [t \in Threads |-> TRUE]

Arena(t) == core[t] % NumArenas
HintSlot(t) == core[t] % MaxArenas
OtherArena(t) == (Arena(t) + offset[t]) % NumArenas

Goto(t, from, to) == pc[t] = from /\ pc' = [pc EXCEPT ![t] = to]

Moves(t) == alone' = [u \in Threads |-> IF u = t THEN alone[t] ELSE pc[u] = "idle"]

\* t goes on to try block b, found on path p.
Try(t, p, b) ==
    /\ pc' = [pc EXCEPT ![t] = "check"]
    /\ path' = [path EXCEPT ![t] = p]
    /\ cur' = [cur EXCEPT ![t] = b]

GoOn(t, to) == pc' = [pc EXCEPT ![t] = to] /\ UNCHANGED <<path, cur>>

\* The call of t is over.
Return(t) ==
    /\ pc' = [pc EXCEPT ![t] = "idle"]
    /\ core' = [core EXCEPT ![t] = 0]
    /\ want' = [want EXCEPT ![t] = 0]
    /\ offset' = [offset EXCEPT ![t] = 0]
    /\ path' = [path EXCEPT ![t] = "core"]
    /\ cur' = [cur EXCEPT ![t] = Null]
    /\ mine' = [mine EXCEPT ![t] = NoRun]

-----------------------------------------------------------------------------
\* do_allocate: where to look

AllocBegin(t) ==
    /\ Goto(t, "idle", "core")
    /\ \E c \in Cores, n \in RunLengths :
          core' = [core EXCEPT ![t] = c] /\ want' = [want EXCEPT ![t] = n]
    /\ alone' = [u \in Threads |->
                    IF u = t THEN \A v \in Threads \ {t} : pc[v] = "idle"
                             ELSE pc[u] = "idle"]
    /\ UNCHANGED <<first, blockVars, totalBlocks, hintVars, live, offset, path, cur, mine>>

\* A core hint may name a block of another arena: cores share slots and free
\* blocks of every arena.
Usable(t, b) == b # Null /\ home[b] = Arena(t)

TryCoreHint(t) ==
    /\ pc[t] = "core"
    /\ LET b == coreHint[HintSlot(t)]
       IN  IF Usable(t, b) THEN Try(t, "core", b) ELSE GoOn(t, "arena")
    /\ Moves(t)
    /\ UNCHANGED <<first, blockVars, totalBlocks, hintVars, live, callVars, mine>>

TryArenaHint(t) ==
    /\ pc[t] = "arena"
    /\ LET b == arenaHint[Arena(t)]
       IN  IF b # Null THEN Try(t, "arena", b) ELSE GoOn(t, "walk")
    /\ Moves(t)
    /\ UNCHANGED <<first, blockVars, totalBlocks, hintVars, live, callVars, mine>>

WalkBegin(t) ==
    /\ pc[t] = "walk"
    /\ LET b == first[Arena(t)]
       IN  IF b # Null THEN Try(t, "walk", b) ELSE GoOn(t, "reserve")
    /\ Moves(t)
    /\ UNCHANGED <<first, blockVars, totalBlocks, hintVars, live, callVars, mine>>

\* try_allocate_existing on the arenas after its own.
ArenasToTryLess(t) == offset[t] < NumArenas - 1

ArenasToTry(t) == offset[t] < NumArenas

TryOther(t) ==
    /\ pc[t] = "other" /\ ArenasToTry(t)
    /\ LET b == first[OtherArena(t)]
       IN  IF b # Null
              THEN Try(t, "other", b) /\ UNCHANGED offset
              ELSE GoOn(t, "other") /\ offset' = [offset EXCEPT ![t] = @ + 1]
    /\ Moves(t)
    /\ UNCHANGED <<first, blockVars, totalBlocks, hintVars, live, core, want, mine>>

\* do_allocate returns nullptr.
Refuse(t) ==
    /\ pc[t] = "other" /\ ~ArenasToTry(t)
    /\ Return(t) /\ Moves(t)
    /\ UNCHANGED <<first, blockVars, totalBlocks, hintVars, live>>

\* The block has no room: on to whatever comes next on this path.
NextPlace(t) ==
    \/ /\ path[t] = "core" /\ GoOn(t, "arena") /\ UNCHANGED offset
    \/ /\ path[t] = "arena" /\ GoOn(t, "walk") /\ UNCHANGED offset
    \/ /\ path[t] \in {"walk", "other"} /\ next[cur[t]] # Null
       /\ Try(t, path[t], next[cur[t]]) /\ UNCHANGED offset
    \/ /\ path[t] = "walk" /\ next[cur[t]] = Null
       /\ GoOn(t, "reserve") /\ UNCHANGED offset
    \/ /\ path[t] = "other" /\ next[cur[t]] = Null
       /\ GoOn(t, "other") /\ offset' = [offset EXCEPT ![t] = @ + 1]

-----------------------------------------------------------------------------
\* acquire_next_empty_block: the count, the bitmap, the count again

Run(at, n) == at .. at + n - 1

FreeRuns(b, n) == {at \in 0 .. Elements - n : Run(at, n) \cap used[b] = {}}

Skip(t) ==
    /\ pc[t] = "check" /\ freeCount[cur[t]] < want[t]
    /\ NextPlace(t) /\ Moves(t)
    /\ UNCHANGED <<first, blockVars, totalBlocks, hintVars, live, core, want, mine>>

Check(t) ==
    /\ Goto(t, "check", "take")
    /\ freeCount[cur[t]] >= want[t]
    /\ Moves(t)
    /\ UNCHANGED <<first, blockVars, totalBlocks, hintVars, live, callVars, path, cur, mine>>

Take(t) ==
    /\ Goto(t, "take", "count")
    /\ \E at \in FreeRuns(cur[t], want[t]) :
          /\ used' = [used EXCEPT ![cur[t]] = @ \cup Run(at, want[t])]
          /\ mine' = [mine EXCEPT ![t] = [block |-> cur[t], at |-> at, n |-> want[t]]]
    /\ Moves(t)
    /\ UNCHANGED <<first, next, home, freeCount, upstream, totalBlocks, hintVars, live,
                   callVars, path, cur>>

NoRunThere(t) ==
    /\ pc[t] = "take" /\ FreeRuns(cur[t], want[t]) = {}
    /\ NextPlace(t) /\ Moves(t)
    /\ UNCHANGED <<first, blockVars, totalBlocks, hintVars, live, core, want, mine>>

\* The subtraction can come before the addition of whoever freed the elements:
\* the count then wraps until that addition.
CountLessSaturating(c, n) == IF c < n THEN 0 ELSE c - n

CountLess(c, n) == (c - n) % CountModulus

CountDown(t) ==
    /\ Goto(t, "count", "finalize")
    /\ freeCount' = [freeCount EXCEPT ![cur[t]] = CountLess(@, want[t])]
    /\ Moves(t)
    /\ UNCHANGED <<first, next, home, used, upstream, totalBlocks, hintVars, live,
                   callVars, path, cur, mine>>

\* The hints that remember the block, and finalize_allocation.  No step depends on
\* two hints at once, so their stores are one step.
Finalize(t) ==
    /\ pc[t] = "finalize"
    /\ arenaHint' = CASE path[t] \in {"core", "walk"} -> [arenaHint EXCEPT ![Arena(t)] = cur[t]]
                      [] path[t] = "other" -> [arenaHint EXCEPT ![OtherArena(t)] = cur[t]]
                      [] OTHER -> arenaHint
    /\ coreHint' = IF path[t] = "core" THEN coreHint
                                       ELSE [coreHint EXCEPT ![HintSlot(t)] = cur[t]]
    /\ live' = live \cup {mine[t]}
    /\ Return(t) /\ Moves(t)
    /\ UNCHANGED <<first, blockVars, totalBlocks>>

-----------------------------------------------------------------------------
\* add_new_block

CanReserve == totalBlocks < MaxBlocks

Reserve(t) ==
    /\ pc[t] = "reserve"
    /\ IF CanReserve
          THEN totalBlocks' = totalBlocks + 1 /\ GoOn(t, "upstream") /\ UNCHANGED offset
          ELSE GoOn(t, "other") /\ offset' = [offset EXCEPT ![t] = 1] /\ UNCHANGED totalBlocks
    /\ Moves(t)
    /\ UNCHANGED <<first, blockVars, hintVars, live, core, want, mine>>

NewBlock(t) ==
    /\ pc[t] = "upstream" /\ Blocks \ upstream # {}
    /\ LET b == Min(Blocks \ upstream) IN
       /\ upstream' = upstream \cup {b}
       /\ home' = [home EXCEPT ![b] = Arena(t)]
       /\ next' = [next EXCEPT ![b] = first[Arena(t)]]
       /\ cur' = [cur EXCEPT ![t] = b]
    /\ pc' = [pc EXCEPT ![t] = "link"]
    /\ Moves(t)
    /\ UNCHANGED <<first, used, freeCount, totalBlocks, hintVars, live, callVars, path, mine>>

UpstreamEmpty(t) ==
    /\ Goto(t, "upstream", "unreserve")
    /\ Blocks \ upstream = {}
    /\ Moves(t)
    /\ UNCHANGED <<first, blockVars, totalBlocks, hintVars, live, callVars, path, cur, mine>>

Unreserve(t) ==
    /\ pc[t] = "unreserve"
    /\ totalBlocks' = totalBlocks - 1
    /\ GoOn(t, "other") /\ offset' = [offset EXCEPT ![t] = 1]
    /\ Moves(t)
    /\ UNCHANGED <<first, blockVars, hintVars, live, core, want, mine>>

\* The compare-exchange of first_block_ against the next_block_ just written.
FrontUnchangedNever(t) == TRUE

FrontUnchanged(t) == first[Arena(t)] = next[cur[t]]

Link(t) ==
    /\ Goto(t, "link", "walk")
    /\ FrontUnchanged(t)
    /\ first' = [first EXCEPT ![Arena(t)] = cur[t]]
    /\ Moves(t)
    /\ UNCHANGED <<blockVars, totalBlocks, hintVars, live, callVars, path, cur, mine>>

Relink(t) ==
    /\ pc[t] = "link" /\ ~FrontUnchanged(t)
    /\ next' = [next EXCEPT ![cur[t]] = first[Arena(t)]]
    /\ Moves(t)
    /\ UNCHANGED <<first, home, used, freeCount, upstream, totalBlocks, hintVars, live, pc,
                   callVars, path, cur, mine>>

-----------------------------------------------------------------------------
\* do_deallocate, by any thread on any core

FreeBegin(t) ==
    /\ Goto(t, "idle", "freeCount")
    /\ \E c \in Cores : core' = [core EXCEPT ![t] = c]
    /\ \E r \in live :
          /\ live' = live \ {r}
          /\ mine' = [mine EXCEPT ![t] = r]
          /\ used' = [used EXCEPT ![r.block] = @ \ Run(r.at, r.n)]
    /\ Moves(t)
    /\ UNCHANGED <<first, next, home, freeCount, upstream, totalBlocks, hintVars, want,
                   offset, path, cur>>

CountUp(t) ==
    /\ Goto(t, "freeCount", "freeHints")
    /\ freeCount' = [freeCount EXCEPT ![mine[t].block] = (@ + mine[t].n) % CountModulus]
    /\ Moves(t)
    /\ UNCHANGED <<first, next, home, used, upstream, totalBlocks, hintVars, live,
                   callVars, path, cur, mine>>

FreeEnd(t) ==
    /\ pc[t] = "freeHints"
    /\ coreHint' = [coreHint EXCEPT ![HintSlot(t)] = mine[t].block]
    /\ arenaHint' = [arenaHint EXCEPT ![home[mine[t].block]] = mine[t].block]
    /\ Return(t) /\ Moves(t)
    /\ UNCHANGED <<first, blockVars, totalBlocks, live>>

-----------------------------------------------------------------------------
\* The blocks of arena a: its front and, with a block, the next.
Chain(a) ==
    {b \in Blocks : \A S \in SUBSET Blocks :
        first[a] \in S \cup {Null} /\ (\A c \in S : next[c] \in S \cup {Null}) => b \in S}

Linked == UNION {Chain(a) : a \in Arenas}

\* The destructor, when no call is in progress; nothing follows it.
Destroy ==
    /\ \A t \in Threads : pc[t] = "idle"
    /\ upstream' = upstream \ Linked
    /\ pc' = [t \in Threads |-> "destroyed"]
    /\ UNCHANGED <<first, next, home, used, freeCount, totalBlocks, hintVars, live, callVars,
                   path, cur, mine, alone>>

Step(t) ==
    \/ AllocBegin(t) \/ TryCoreHint(t) \/ TryArenaHint(t) \/ WalkBegin(t) \/ TryOther(t)
    \/ Refuse(t) \/ Skip(t) \/ Check(t) \/ Take(t) \/ NoRunThere(t) \/ CountDown(t)
    \/ Finalize(t) \/ Reserve(t) \/ NewBlock(t) \/ UpstreamEmpty(t) \/ Unreserve(t)
    \/ Link(t) \/ Relink(t) \/ FreeBegin(t) \/ CountUp(t) \/ FreeEnd(t)

Next == (\E t \in Threads : Step(t)) \/ Destroy

Spec == Init /\ [][Next]_vars

-----------------------------------------------------------------------------
Places == {"idle", "core", "arena", "walk", "other", "reserve", "upstream", "unreserve", "link",
           "check", "take", "count", "finalize", "freeCount", "freeHints", "destroyed"}

Runs == {r \in [block : Blocks, at : 0 .. Elements - 1, n : 1 .. Elements] : r.at + r.n <= Elements}

TypeOK ==
    /\ first \in [Arenas -> Blocks \cup {Null}] /\ next \in [Blocks -> Blocks \cup {Null}]
    /\ home \in [Blocks -> Arenas] /\ used \in [Blocks -> SUBSET (0 .. Elements - 1)]
    /\ freeCount \in [Blocks -> 0 .. CountModulus - 1]
    /\ upstream \in SUBSET Blocks /\ totalBlocks \in 0 .. MaxBlocks
    /\ arenaHint \in [Arenas -> Blocks \cup {Null}]
    /\ coreHint \in [HintSlots -> Blocks \cup {Null}]
    /\ live \in SUBSET Runs
    /\ pc \in [Threads -> Places] /\ core \in [Threads -> Nat]
    /\ want \in [Threads -> 0 .. Elements]
    /\ path \in [Threads -> Paths] /\ cur \in [Threads -> Blocks \cup {Null}]
    /\ offset \in [Threads -> 0 .. NumArenas]
    /\ mine \in [Threads -> Runs \cup {NoRun}]

\* The elements of block b in the hands of the threads at a place of the code.
InHand(b, place) ==
    Cardinality({x \in Threads \X (1 .. Elements) :
                    pc[x[1]] = place /\ mine[x[1]].block = b /\ x[2] <= mine[x[1]].n})

\* free_count_ misses exactly what is counted later: the elements taken and not yet
\* subtracted, the elements released and not yet added, even while it is wrapped.
CountBalances ==
    \A b \in Blocks :
        freeCount[b] = (Elements - Cardinality(used[b]) + InHand(b, "count") - InHand(b, "freeCount"))
                            % CountModulus

Linking == {cur[t] : t \in {u \in Threads : pc[u] = "link"}}
Reserving == {t \in Threads : pc[t] \in {"upstream", "unreserve"}}

\* The blocks in the lists and those on their way there are the ones reserved: the
\* cap is never passed, a failed growth gives its reservation back, no block is lost
\* or linked twice, what is lent lies in linked ones, and the destructor returns them all.
BlocksAccounted ==
    LET linked == Linked IN
    IF \E t \in Threads : pc[t] = "destroyed"
       THEN upstream = {}
       ELSE /\ upstream = linked \cup Linking /\ linked \cap Linking = {}
            /\ totalBlocks = Cardinality(upstream) + Cardinality(Reserving)
            /\ totalBlocks <= MaxBlocks
            /\ \A a \in Arenas : \A b \in Chain(a) : home[b] = a
            /\ \A r \in live : r.block \in linked

\* A hint is null or a linked block, and an arena's hint a block of that arena, so
\* the fast paths never hand out memory another arena counts as its own.
HintsAreLinked ==
    LET linked == Linked IN
    /\ \A a \in Arenas : LET b == arenaHint[a] IN b # Null => b \in linked /\ home[b] = a
    /\ \A h \in HintSlots : coreHint[h] # Null => coreHint[h] \in linked

\* No element is lent twice, and none that is lent is free for the next search.
RunsAreApart ==
    /\ \A r \in live : Run(r.at, r.n) \subseteq used[r.block]
    /\ \A r, q \in live :
          r # q /\ r.block = q.block => Run(r.at, r.n) \cap Run(q.at, q.n) = {}

\* An allocation nobody interferes with is refused only when no linked block has a
\* free run and no block can be added.
RefusalIsDue ==
    \A t \in Threads : Refuse(t) /\ alone[t] =>
        /\ \A b \in Linked : FreeRuns(b, want[t]) = {}
        /\ totalBlocks = MaxBlocks \/ upstream = Blocks
=============================================================================
