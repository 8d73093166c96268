----------------------------- MODULE MpScQueue -----------------------------
(***************************************************************************)
(* mp_sc_growable_ring_queue: a ring of segments, each a buffer of slots   *)
(* with an enqueue word (capacity and position in one 64-bit word) that    *)
(* producers fetch_add and a plain drain cursor that only the consumer     *)
(* uses.  Any number of producers push; one consumer pops, regrows a       *)
(* drained segment in place and may close an underloaded one early.        *)
(*                                                                         *)
(* One action is one access to memory another thread can see, together     *)
(* with the private computation around it.                                 *)
(***************************************************************************)
EXTENDS Naturals, FiniteSets, TLC

CONSTANTS
    Producers,              \* threads that call push_back
    SegmentCount,           \* template parameter
    InitialCapacity,        \* constructor arguments ...
    GrowthNumerator,
    GrowthDenominator,
    IdleRotationInterval,   \* 0 disables early close
    MaxCapacity,
    ClampDistance,          \* POSITION_CLAMP_DISTANCE, 2^30 in the code
    PosModulus,             \* 2^32: where the position field carries over
    AllocMayFail,           \* may the allocator return nullptr on a regrow
    MaxPushes               \* bound: pushes per producer that are not refused

Larger(a, b) == IF a > b THEN a ELSE b

\* No segment is ever larger than this.
CapacityCeiling == Larger(InitialCapacity, MaxCapacity)

ASSUME SizesAssumption ==
    /\ SegmentCount \in Nat /\ SegmentCount >= 2
    /\ InitialCapacity \in Nat \ {0}
    /\ MaxCapacity \in Nat \ {0}
    /\ GrowthNumerator \in Nat \ {0}
    /\ GrowthDenominator \in Nat \ {0}
    /\ GrowthDenominator <= GrowthNumerator
    /\ IdleRotationInterval \in Nat
    /\ MaxPushes \in Nat
    /\ AllocMayFail \in BOOLEAN

\* The headroom the comment on POSITION_CLAMP_DISTANCE relies on.
ASSUME HeadroomAssumption ==
    /\ ClampDistance \in Nat \ {0}
    /\ PosModulus \in Nat
    /\ IsFiniteSet(Producers)
    /\ CapacityCeiling + ClampDistance + Cardinality(Producers) < PosModulus

Segments == 0 .. SegmentCount - 1

Items == Producers \X (1 .. MaxPushes)

NoItem == <<>>

VARIABLES
    \* shared, per segment
    enqueuePos,             \* [cap, pos]: the packed word
    buffer,                 \* buffer_: the slots, [ready, item] each
    originalCapacity,       \* original_capacity_: how many slots are allocated
    capacity,               \* capacity_, plain, the consumer's
    dequeueState,           \* dequeue_state_, plain, the consumer's
    \* shared, of the queue
    producerTarget,
    consumerTarget,
    popCount,               \* pop_count_ modulo the rotation interval
    \* locals of push_back, per producer
    ppc, pseg, ptry, pidx, pcap,
    pnum,                   \* how many calls it has begun, refused ones not counted
    \* locals of pop_front
    cpc, cseg, ctry,
    rseg, rret,             \* segment retire_and_grow works on, where it returns
    cword,                  \* the word maybe_shrink_active_segment loaded
    \* history
    delivered, discarded

segmentVars == <<enqueuePos, buffer, originalCapacity, capacity, dequeueState>>
targetVars == <<consumerTarget, popCount>>
producerVars == <<ppc, pseg, ptry, pidx, pcap, pnum>>
consumerVars == <<cpc, cseg, ctry, rseg, rret, cword>>
historyVars == <<delivered, discarded>>
vars == <<segmentVars, producerTarget, targetVars, producerVars,
          consumerVars, historyVars>>

-----------------------------------------------------------------------------
\* The packed word, the growth policy and the slots.

Word(c, i) == [cap |-> c, pos |-> i]

\* fetch_add(1): a position at its last value carries into the capacity field.
FetchAdd(w) ==
    IF w.pos + 1 = PosModulus THEN Word(w.cap + 1, 0) ELSE Word(w.cap, w.pos + 1)

IsFull(w) == w.pos >= w.cap

\* Far enough past its capacity for a failing producer to pull it back.
IsFar(w) == IsFull(w) /\ w.pos - w.cap >= ClampDistance

\* What it is pulled back to.
Clamped(c) == Word(c, c)

NextSegment(s) == IF s + 1 = SegmentCount THEN 0 ELSE s + 1

EmptySlot == [ready |-> FALSE, item |-> NoItem]

\* The slots beyond original_capacity_ stand for memory that is not the buffer's.
SlotIndexes == 0 .. CapacityCeiling - 1

FreshBuffer == [i \in SlotIndexes |-> EmptySlot]

HasReadyButLast(s) ==
    /\ dequeueState[s] + 1 < capacity[s]
    /\ buffer[s][dequeueState[s]].ready

HasReadyIgnoringFlag(s) == dequeueState[s] < capacity[s]

HasReady(s) ==
    /\ dequeueState[s] < capacity[s]
    /\ buffer[s][dequeueState[s]].ready

ComputeNewCapacityUnclamped(reference) == reference + 1

ComputeNewCapacity(reference) ==
    LET scaled == (reference * GrowthNumerator + GrowthDenominator - 1)
                     \div GrowthDenominator
        grown  == Larger(scaled, reference + 1)
    IN  IF grown > MaxCapacity THEN MaxCapacity ELSE grown

ComputeShrunkCapacity(current) ==
    Larger((current * GrowthDenominator) \div GrowthNumerator, 1)

-----------------------------------------------------------------------------
\* The constructor got a buffer for every segment; what open_segment does without
\* one (an empty segment, closed at once) is left out.
Init ==
    /\ enqueuePos = [s \in Segments |-> Word(InitialCapacity, 0)]
    /\ buffer = [s \in Segments |-> FreshBuffer]
    /\ originalCapacity = [s \in Segments |-> InitialCapacity]
    /\ capacity = [s \in Segments |-> InitialCapacity]
    /\ dequeueState = [s \in Segments |-> 0]
    /\ producerTarget = 0
    /\ consumerTarget = 0
    /\ popCount = 0
    /\ ppc = [p \in Producers |-> "idle"]
    /\ pseg = [p \in Producers |-> 0]
    /\ ptry = [p \in Producers |-> 0]
    /\ pidx = [p \in Producers |-> 0]
    /\ pcap = [p \in Producers |-> 0]
    /\ pnum = [p \in Producers |-> 0]
    /\ cpc = "idle" /\ cseg = 0 /\ ctry = 0
    /\ rseg = 0 /\ rret = "idle" /\ cword = Word(0, 0)
    /\ delivered = {} /\ discarded = {}

-----------------------------------------------------------------------------
\* push_back, by producer p.

Item(p) == <<p, pnum[p]>>

PushBegin(p) ==
    /\ ppc[p] = "idle" /\ pnum[p] < MaxPushes
    /\ cpc # "destroyed"
    /\ pnum' = [pnum EXCEPT ![p] = @ + 1]
    /\ pseg' = [pseg EXCEPT ![p] = producerTarget]
    /\ ptry' = [ptry EXCEPT ![p] = 0]
    /\ ppc' = [ppc EXCEPT ![p] = "claim"]
    /\ UNCHANGED <<segmentVars, producerTarget, targetVars, pidx, pcap,
                   consumerVars, historyVars>>

\* The fetch_add of try_claim_and_publish finds room: the slot is p's.
ClaimSlot(p) ==
    LET before == enqueuePos[pseg[p]] IN
    /\ ppc[p] = "claim"
    /\ ~IsFull(before)
    /\ enqueuePos' = [enqueuePos EXCEPT ![pseg[p]] = FetchAdd(before)]
    /\ pidx' = [pidx EXCEPT ![p] = before.pos]
    /\ ppc' = [ppc EXCEPT ![p] = "construct"]
    /\ UNCHANGED <<buffer, originalCapacity, capacity, dequeueState,
                   producerTarget, targetVars, pseg, ptry, pcap, pnum, consumerVars, historyVars>>

\* The fetch_add finds a full segment: the increment is wasted.
ClaimFails(p) ==
    LET before == enqueuePos[pseg[p]] IN
    /\ ppc[p] = "claim"
    /\ IsFull(before)
    /\ enqueuePos' = [enqueuePos EXCEPT ![pseg[p]] = FetchAdd(before)]
    /\ pcap' = [pcap EXCEPT ![p] = before.cap]
    /\ ppc' = [ppc EXCEPT ![p] = IF IsFar(before) THEN "clamp" ELSE "full"]
    /\ UNCHANGED <<buffer, originalCapacity, capacity, dequeueState,
                   producerTarget, targetVars, pseg, ptry, pidx, pnum, consumerVars, historyVars>>

\* Mutant: a producer that wasted an increment goes on without pulling it back.
ClampSkipped(p) ==
    /\ ppc[p] = "clamp"
    /\ ppc' = [ppc EXCEPT ![p] = "full"]
    /\ UNCHANGED <<segmentVars, producerTarget, targetVars, pseg, ptry, pidx, pcap, pnum,
                   consumerVars, historyVars>>

\* The clamp loop.  It leaves either by the load that finds the word no longer
\* far past the capacity seen at the claim, or by the compare-exchange that
\* succeeds on a word that still is; a failed exchange only loads again.
Clamp(p) ==
    LET current == enqueuePos[pseg[p]] IN
    /\ ppc[p] = "clamp"
    /\ enqueuePos' = IF current.cap = pcap[p] /\ IsFar(current)
                        THEN [enqueuePos EXCEPT ![pseg[p]] = Clamped(pcap[p])]
                        ELSE enqueuePos
    /\ ppc' = [ppc EXCEPT ![p] = "full"]
    /\ UNCHANGED <<buffer, originalCapacity, capacity, dequeueState,
                   producerTarget, targetVars, pseg, ptry, pidx, pcap, pnum, consumerVars, historyVars>>

\* The attempt failed and another segment is left to try.
AdvanceTarget(p) ==
    /\ ppc[p] = "full" /\ ptry[p] + 1 < SegmentCount
    /\ pseg' = [pseg EXCEPT ![p] = NextSegment(@)]
    /\ producerTarget' = NextSegment(pseg[p])
    /\ ptry' = [ptry EXCEPT ![p] = @ + 1]
    /\ ppc' = [ppc EXCEPT ![p] = "claim"]
    /\ UNCHANGED <<segmentVars, targetVars, pidx, pcap, pnum, consumerVars,
                   historyVars>>

\* push_back returns false.  The caller keeps its item and may push it again, as
\* often as it likes, so that nothing but the clamp bounds the wasted increments.
Refuse(p) ==
    /\ ppc[p] = "full" /\ ptry[p] + 1 = SegmentCount
    /\ ppc' = [ppc EXCEPT ![p] = "idle"]
    /\ pnum' = [pnum EXCEPT ![p] = @ - 1]
    /\ UNCHANGED <<segmentVars, producerTarget, targetVars, pseg, ptry, pidx,
                   pcap, consumerVars, historyVars>>

\* The element is built in the claimed slot, a plain write through buffer_.
Construct(p) ==
    /\ ppc[p] = "construct"
    /\ buffer' = [buffer EXCEPT ![pseg[p]][pidx[p]].item = Item(p)]
    /\ ppc' = [ppc EXCEPT ![p] = "publish"]
    /\ UNCHANGED <<enqueuePos, originalCapacity, capacity, dequeueState,
                   producerTarget, targetVars, pseg, ptry, pidx, pcap, pnum, consumerVars, historyVars>>

\* ready_.store(true, release); push_back returns true.
Publish(p) ==
    /\ ppc[p] = "publish"
    /\ buffer' = [buffer EXCEPT ![pseg[p]][pidx[p]].ready = TRUE]
    /\ ppc' = [ppc EXCEPT ![p] = "idle"]
    /\ UNCHANGED <<enqueuePos, originalCapacity, capacity, dequeueState,
                   producerTarget, targetVars, pseg, ptry, pidx, pcap, pnum, consumerVars, historyVars>>

-----------------------------------------------------------------------------
\* pop_front, by the consumer.

PopBegin ==
    /\ cpc = "idle"
    /\ cseg' = consumerTarget
    /\ ctry' = 0
    /\ cpc' = "try"
    /\ UNCHANGED <<segmentVars, producerTarget, targetVars, producerVars, rseg,
                   rret, cword, historyVars>>

TryReady ==
    /\ cpc = "try" /\ HasReady(cseg)
    /\ cpc' = "take"
    /\ UNCHANGED <<segmentVars, producerTarget, targetVars, producerVars, cseg,
                   ctry, rseg, rret, cword, historyVars>>

TryNext ==
    /\ cpc = "try" /\ ~HasReady(cseg)
    /\ cseg' = NextSegment(cseg)
    /\ ctry' = ctry + 1
    /\ cpc' = IF ctry + 1 < SegmentCount THEN "try" ELSE "idle"
    /\ UNCHANGED <<segmentVars, producerTarget, targetVars, producerVars, rseg,
                   rret, cword, historyVars>>

\* Move the element out, destroy it, clear ready_ and step the drain cursor.
Take ==
    LET i == dequeueState[cseg] IN
    /\ cpc = "take"
    /\ buffer' = [buffer EXCEPT ![cseg][i] = EmptySlot]
    /\ dequeueState' = [dequeueState EXCEPT ![cseg] = i + 1]
    /\ delivered' = delivered \cup {buffer[cseg][i].item}
    /\ IF i + 1 = capacity[cseg]
          THEN cpc' = "retire" /\ rseg' = cseg /\ rret' = "popped"
          ELSE cpc' = "popped" /\ UNCHANGED <<rseg, rret>>
    /\ UNCHANGED <<enqueuePos, originalCapacity, capacity, producerTarget, targetVars,
                   producerVars, cseg, ctry, cword, discarded>>

\* retire_and_grow up to the store that reopens the segment.
RebuildTo(n) ==
    /\ buffer' = [buffer EXCEPT ![rseg] = FreshBuffer]
    /\ originalCapacity' = [originalCapacity EXCEPT ![rseg] = n]
    /\ capacity' = [capacity EXCEPT ![rseg] = n]
    /\ dequeueState' = [dequeueState EXCEPT ![rseg] = 0]
    /\ cpc' = "reopen"
    /\ UNCHANGED <<enqueuePos, producerTarget, targetVars, producerVars, cseg,
                   ctry, rseg, rret, cword, historyVars>>

NewCapacity(s) ==
    IF capacity[s] < originalCapacity[s]
       THEN ComputeShrunkCapacity(capacity[s])
       ELSE ComputeNewCapacity(capacity[NextSegment(s)])

Regrow == cpc = "retire" /\ RebuildTo(NewCapacity(rseg))

\* The allocator returned nullptr: the old buffer is used again, whole.
RecycleInPlace == cpc = "retire" /\ AllocMayFail /\ RebuildTo(originalCapacity[rseg])

\* enqueue_pos_.store(pack(capacity, 0), release).
Reopen ==
    /\ cpc = "reopen"
    /\ enqueuePos' = [enqueuePos EXCEPT ![rseg] = Word(capacity[rseg], 0)]
    /\ cpc' = rret
    /\ UNCHANGED <<buffer, originalCapacity, capacity, dequeueState,
                   producerTarget, targetVars, producerVars, cseg, ctry, rseg, rret, cword, historyVars>>

\* The tail of a successful pop_front.
PopEnd ==
    LET rotates == IdleRotationInterval # 0 /\ popCount + 1 = IdleRotationInterval IN
    /\ cpc = "popped"
    /\ consumerTarget' = IF ctry # 0 THEN cseg ELSE consumerTarget
    /\ popCount' = IF rotates \/ IdleRotationInterval = 0 THEN 0 ELSE popCount + 1
    /\ cpc' = IF rotates THEN "shrink" ELSE "idle"
    /\ UNCHANGED <<segmentVars, producerTarget, producerVars, cseg, ctry, rseg,
                   rret, cword, historyVars>>

\* maybe_shrink_active_segment: load the target, load its word, close it.
ShrinkTarget ==
    /\ cpc = "shrink"
    /\ rseg' = producerTarget
    /\ cpc' = "check"
    /\ UNCHANGED <<segmentVars, producerTarget, targetVars, producerVars, cseg,
                   ctry, rret, cword, historyVars>>

ShrinkCheck ==
    LET state == enqueuePos[rseg] IN
    /\ cpc = "check"
    /\ cword' = state
    /\ cpc' = IF state.pos = 0 \/ state.pos >= state.cap \/ state.pos * 2 >= state.cap
                 THEN "idle" ELSE "close"
    /\ UNCHANGED <<segmentVars, producerTarget, targetVars, producerVars, cseg,
                   ctry, rseg, rret, historyVars>>

\* The word of a closed segment, and what follows the close: a segment that is
\* already drained up to its new capacity is retired now, by no other path.
ClosedWordReopened(w) == Word(w.pos, 0)

ClosedWord(w) == Word(w.pos, w.pos)

AfterCloseIdle(s, n) == "idle"

AfterCloseRetire(s, n) == "retire"

AfterClose(s, n) == IF dequeueState[s] >= n THEN "retire" ELSE "idle"

ShrinkClose ==
    /\ cpc = "close" /\ enqueuePos[rseg] = cword
    /\ enqueuePos' = [enqueuePos EXCEPT ![rseg] = ClosedWord(cword)]
    /\ capacity' = [capacity EXCEPT ![rseg] = cword.pos]
    /\ cpc' = AfterClose(rseg, cword.pos)
    /\ rret' = "idle"
    /\ UNCHANGED <<buffer, originalCapacity, dequeueState, producerTarget,
                   targetVars, producerVars, cseg, ctry, rseg, cword, historyVars>>

ShrinkContended ==
    /\ cpc = "close" /\ enqueuePos[rseg] # cword
    /\ cpc' = "idle"
    /\ UNCHANGED <<segmentVars, producerTarget, targetVars, producerVars, cseg,
                   ctry, rseg, rret, cword, historyVars>>

\* The destructor, whose precondition is that no producer is pushing: every
\* published element of every slot of every buffer is destroyed.
PublishedIn(s) == {i \in 0 .. originalCapacity[s] - 1 : buffer[s][i].ready}

Destroy ==
    /\ cpc = "idle"
    /\ \A p \in Producers : ppc[p] = "idle"
    /\ discarded' = UNION {{buffer[s][i].item : i \in PublishedIn(s)} : s \in Segments}
    /\ cpc' = "destroyed"
    /\ buffer' = [s \in Segments |-> FreshBuffer]
    /\ UNCHANGED <<enqueuePos, originalCapacity, capacity, dequeueState,
                   producerTarget, targetVars, producerVars, cseg, ctry, rseg, rret, cword, delivered>>

Destroyed == cpc = "destroyed" /\ UNCHANGED vars

-----------------------------------------------------------------------------
ProducerStep(p) ==
    \/ ClaimSlot(p) \/ ClaimFails(p) \/ Clamp(p)
    \/ AdvanceTarget(p) \/ Refuse(p)
    \/ Construct(p) \/ Publish(p)

ConsumerStep ==
    \/ PopBegin \/ TryReady \/ TryNext \/ Take
    \/ Regrow \/ RecycleInPlace \/ Reopen \/ PopEnd
    \/ ShrinkTarget \/ ShrinkCheck \/ ShrinkClose \/ ShrinkContended

Next ==
    \/ \E p \in Producers : PushBegin(p) \/ ProducerStep(p)
    \/ ConsumerStep
    \/ Destroy
    \/ Destroyed

Spec == Init /\ [][Next]_vars

\* A producer that has begun a push runs on, and the consumer keeps polling.
Fairness ==
    /\ \A p \in Producers : WF_vars(ProducerStep(p))
    /\ WF_vars(ConsumerStep)

FairSpec == Spec /\ Fairness

-----------------------------------------------------------------------------
Slot == [ready : BOOLEAN, item : Items \cup {NoItem}]

Capacities == 0 .. CapacityCeiling

Words == [cap : Nat, pos : Nat]

\* Every variable keeps its type; no segment grows past the ceiling.
TypeOK ==
    /\ enqueuePos \in [Segments -> Words]
    /\ buffer \in [Segments -> [SlotIndexes -> Slot]]
    /\ originalCapacity \in [Segments -> Capacities]
    /\ capacity \in [Segments -> Capacities]
    /\ dequeueState \in [Segments -> Capacities]
    /\ producerTarget \in Segments
    /\ consumerTarget \in Segments
    /\ popCount \in Nat
    /\ ppc \in [Producers -> {"idle", "claim", "clamp", "full", "construct", "publish"}]
    /\ pseg \in [Producers -> Segments]
    /\ ptry \in [Producers -> 0 .. SegmentCount - 1]
    /\ pidx \in [Producers -> Nat]
    /\ pcap \in [Producers -> Nat]
    /\ pnum \in [Producers -> 0 .. MaxPushes]
    /\ cpc \in {"idle", "try", "take", "retire", "reopen", "popped", "shrink",
                "check", "close", "destroyed"}
    /\ cseg \in Segments
    /\ ctry \in 0 .. SegmentCount
    /\ rseg \in Segments
    /\ rret \in {"idle", "popped"}
    /\ cword \in Words
    /\ delivered \subseteq Items
    /\ discarded \subseteq Items

\* p has claimed a slot of segment s and not yet published it.
Owns(p, s) == ppc[p] \in {"construct", "publish"} /\ pseg[p] = s

\* A claim is exclusive and pins the life of its segment: from its fetch_add
\* (line 307) to its ready_ store (335) the slot lies in the current buffer,
\* ahead of the drain cursor, below the closing capacity, unpublished, nobody
\* else's, and the consumer is not rebuilding the segment (so buffer_ may be
\* read without an atomic).
SlotOwnership ==
    \A p \in Producers, s \in Segments : Owns(p, s) =>
        /\ pidx[p] < originalCapacity[s]
        /\ dequeueState[s] <= pidx[p] /\ pidx[p] < capacity[s]
        /\ ~buffer[s][pidx[p]].ready
        /\ ~(cpc \in {"retire", "reopen"} /\ rseg = s)
        /\ \A q \in Producers \ {p} : Owns(q, s) => pidx[q] # pidx[p]

\* Same-producer pushes within one life of a segment keep their order (line 61):
\* published or claimed, a later push of p lies behind every earlier one.
SegmentOrder ==
    \A s \in Segments, p \in Producers :
        LET Mine == {n \in 1 .. MaxPushes :
                       \E i \in PublishedIn(s) : buffer[s][i].item = <<p, n>>}
            At(n) == CHOOSE i \in PublishedIn(s) : buffer[s][i].item = <<p, n>>
        IN  /\ \A m, n \in Mine : m < n => At(m) < At(n)
            /\ Owns(p, s) => \A n \in Mine : At(n) < pidx[p]

\* Wasted increments never reopen a full segment (comment at line 313): the
\* only step that gives a full segment room is the consumer's reopening store.
FullStaysFull ==
    [][\A s \in Segments :
          IsFull(enqueuePos[s]) /\ ~IsFull(enqueuePos'[s])
            => cpc = "reopen" /\ rseg = s]_vars

\* Every accepted element is delivered at most once and never lost, over
\* regrows, failed allocations, early closes and the destructor.
Inside == UNION {{buffer[s][i].item : i \in PublishedIn(s)} : s \in Segments}

H == INSTANCE Handoff WITH inside <- Inside

ImplementsHandoff == H!Spec

\* Once the producers have finished their pushes a polling consumer obtains
\* every element: nothing stays behind in a segment it does not visit.
Drains ==
    \A i \in Items : i \in Inside ~> i \in delivered \cup discarded

\* A segment that is full does not stay full under a polling consumer; an early
\* close of a drained segment must regrow it at once (line 471).
FullSegmentReopens ==
    \A s \in Segments :
        IsFull(enqueuePos[s]) ~> ~IsFull(enqueuePos[s]) \/ cpc = "destroyed"

-----------------------------------------------------------------------------
\* The inductive invariant the proofs rest on, part by part.

Reopening(s) == cpc = "reopen" /\ rseg = s

\* Producers whose wasted increment left the word of s far past its capacity and
\* that have not been through the clamp yet.
Clampers(s) ==
    {p \in Producers : ppc[p] = "clamp" /\ pseg[p] = s /\ pcap[p] = enqueuePos[s].cap}

\* How far past the capacity wasted increments can pile up.
CarryBound ==
    \A s \in Segments :
        /\ enqueuePos[s].cap <= CapacityCeiling
        /\ enqueuePos[s].pos <=
              enqueuePos[s].cap + ClampDistance + Cardinality(Clampers(s))

\* The drain cursor stays between the closing capacity and the claims; a segment
\* about to reopen is empty and still full for producers.
LifeOfSegment ==
    \A s \in Segments :
        /\ 1 <= capacity[s] /\ capacity[s] <= originalCapacity[s]
        /\ dequeueState[s] <= capacity[s]
        /\ IF Reopening(s)
              THEN /\ IsFull(enqueuePos[s])
                   /\ dequeueState[s] = 0
                   /\ \A i \in SlotIndexes : ~buffer[s][i].ready
                   /\ \A p \in Producers : ~Owns(p, s)
              ELSE /\ enqueuePos[s].cap = capacity[s]
                   /\ dequeueState[s] <= enqueuePos[s].pos

\* What is published lies between the cursor and the claims.
PublishedWindow ==
    \A s \in Segments : \A i \in SlotIndexes : buffer[s][i].ready =>
        /\ dequeueState[s] <= i /\ i < enqueuePos[s].pos /\ i < capacity[s]
        /\ buffer[s][i].item \in Items

\* What is claimed lies there too, unpublished, with its element in place.
ClaimedWindow ==
    \A p \in Producers, s \in Segments : Owns(p, s) =>
        /\ dequeueState[s] <= pidx[p]
        /\ pidx[p] < enqueuePos[s].pos /\ pidx[p] < capacity[s]
        /\ ~buffer[s][pidx[p]].ready
        /\ ppc[p] = "publish" => buffer[s][pidx[p]].item = Item(p)
        /\ \A q \in Producers \ {p} : Owns(q, s) => pidx[q] # pidx[p]

\* Where the consumer stands.
ConsumerControl ==
    /\ cpc = "take" => HasReady(cseg)
    /\ cpc = "try" => ctry < SegmentCount
    /\ cpc = "retire" => dequeueState[rseg] = capacity[rseg]
    /\ cpc = "close" => 0 < cword.pos /\ cword.pos < cword.cap
    /\ cpc = "destroyed" => \A p \in Producers : ppc[p] = "idle"

ProducerControl == \A p \in Producers : ppc[p] # "idle" => pnum[p] \in 1 .. MaxPushes

LifeInvariant ==
    /\ CarryBound
    /\ LifeOfSegment
    /\ PublishedWindow
    /\ ClaimedWindow
    /\ ConsumerControl
    /\ ProducerControl

IInv == TypeOK /\ LifeInvariant

\* The element x is published in slot i of segment s.
Held(x, s, i) == buffer[s][i].ready /\ buffer[s][i].item = x

\* The push of x has returned: no later step of its producer publishes it again.
Finished(x) == x[2] <= pnum[x[1]] /\ (ppc[x[1]] # "idle" => x[2] < pnum[x[1]])

\* An element is in one place once its push has returned, and the elements of a producer
\* in one segment lie in the order of their pushes, ahead of the slot it has claimed.
Ledger ==
    /\ \A x \in Items, s \in Segments, i \in SlotIndexes : Held(x, s, i) =>
         /\ Finished(x) /\ x \notin delivered \cup discarded
         /\ \A t \in Segments, j \in SlotIndexes : Held(x, t, j) => t = s /\ j = i
         /\ \A y \in Items, j \in SlotIndexes :
              Held(y, s, j) /\ x[1] = y[1] /\ x[2] < y[2] => i < j
         /\ \A p \in Producers : Owns(p, s) /\ x[1] = p => i < pidx[p]
    /\ \A x \in delivered \cup discarded : Finished(x)
    /\ cpc # "destroyed" => discarded = {}

\* Producers have no order.
Symmetry == Permutations(Producers)
=============================================================================
