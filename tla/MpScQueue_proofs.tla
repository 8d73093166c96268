-------------------------- MODULE MpScQueue_proofs --------------------------
(***************************************************************************)
(* What holds of MpScQueue for any number of producers, segments and       *)
(* pushes and any capacities and growth ratio.                             *)
(***************************************************************************)
EXTENDS MpScQueue, FiniteSetTheorems, TLAPS

USE SizesAssumption, HeadroomAssumption

-----------------------------------------------------------------------------
\* Arithmetic of the growth policy and of the packed word.

LEMMA CeilingFacts ==
    /\ CapacityCeiling \in Nat
    /\ InitialCapacity <= CapacityCeiling /\ MaxCapacity <= CapacityCeiling
BY DEF CapacityCeiling, Larger

\* A regrown segment has room for something and never more than the ceiling.
LEMMA NewCapacityBounded ==
    ASSUME NEW r \in Nat
    PROVE  ComputeNewCapacity(r) \in 1 .. MaxCapacity
<1> DEFINE scaled == (r * GrowthNumerator + GrowthDenominator - 1) \div GrowthDenominator
<1>1. scaled \in Int
  <2>1. r * GrowthNumerator + GrowthDenominator - 1 \in Int
    OBVIOUS
  <2> QED
    BY <2>1
<1>2. Larger(scaled, r + 1) \in Int /\ Larger(scaled, r + 1) >= 1
  BY <1>1 DEF Larger
<1> QED
  BY <1>2 DEF ComputeNewCapacity

\* A shrunk segment is no larger than the closed one and not empty.
LEMMA ShrunkCapacityBounded ==
    ASSUME NEW c \in Nat \ {0}
    PROVE  ComputeShrunkCapacity(c) \in 1 .. c
<1> DEFINE q == (c * GrowthDenominator) \div GrowthNumerator
<1>1. c * GrowthDenominator \in Nat /\ c * GrowthDenominator <= c * GrowthNumerator
  OBVIOUS
<1>2. q \in Int /\ q * GrowthNumerator <= c * GrowthDenominator
  BY <1>1
<1>3. q <= c
  <2>1. q * GrowthNumerator <= c * GrowthNumerator
    BY <1>1, <1>2
  <2> HIDE DEF q
  <2> QED
    BY <1>2, <2>1
<1> QED
  BY <1>2, <1>3 DEF ComputeShrunkCapacity, Larger

LEMMA NextSegmentType ==
    ASSUME NEW s \in Segments
    PROVE  NextSegment(s) \in Segments
BY DEF NextSegment, Segments

\* Away from its last position an increment only adds one to the position.
LEMMA FetchAddNoCarry ==
    ASSUME NEW w \in Words, w.pos + 1 < PosModulus
    PROVE  FetchAdd(w) = [cap |-> w.cap, pos |-> w.pos + 1]
BY DEF FetchAdd, Word, Words

LEMMA FetchAddType ==
    ASSUME NEW w \in Words
    PROVE  FetchAdd(w) \in Words
BY DEF FetchAdd, Word, Words

LEMMA ClampersFinite ==
    ASSUME NEW s \in Segments
    PROVE  /\ IsFiniteSet(Clampers(s))
           /\ Cardinality(Clampers(s)) \in Nat
           /\ Cardinality(Clampers(s)) <= Cardinality(Producers)
           /\ Cardinality(Producers) \in Nat
<1>1. Clampers(s) \subseteq Producers
  BY DEF Clampers
<1> QED
  BY <1>1, FS_Subset, FS_CardinalityType

-----------------------------------------------------------------------------
\* The initial states satisfy the invariant.

LEMMA InitInvariant == Init => IInv
<1> SUFFICES ASSUME Init PROVE IInv
  OBVIOUS
<1> USE CeilingFacts DEF Init
<1>1. 0 \in Segments
  BY DEF Segments
<1>2. EmptySlot \in Slot /\ FreshBuffer \in [SlotIndexes -> Slot]
  BY DEF EmptySlot, Slot, FreshBuffer
<1>3. TypeOK
  BY <1>1, <1>2 DEF TypeOK, Words, Word, Capacities
<1>4. CarryBound
  BY ClampersFinite DEF CarryBound, Word, Clampers
<1>5. LifeOfSegment
  BY DEF LifeOfSegment, Reopening, Word
<1>6. PublishedWindow
  BY DEF PublishedWindow, FreshBuffer, EmptySlot
<1>7. ClaimedWindow
  BY DEF ClaimedWindow, Owns
<1>8. ConsumerControl /\ ProducerControl
  BY DEF ConsumerControl, ProducerControl
<1> QED
  BY <1>3, <1>4, <1>5, <1>6, <1>7, <1>8 DEF IInv, LifeInvariant

-----------------------------------------------------------------------------
\* A step that touches neither a segment nor a producer, and does not end a
\* regrow, keeps every part but the consumer's own.

LEMMA ConsumerPrivateStep ==
    ASSUME LifeInvariant,
           UNCHANGED <<segmentVars, producerVars>>,
           cpc # "reopen", cpc' # "reopen"
    PROVE  /\ CarryBound' /\ LifeOfSegment' /\ PublishedWindow'
           /\ ClaimedWindow' /\ ProducerControl'
<1> USE DEF LifeInvariant, segmentVars, producerVars
<1>1. CarryBound'
  BY DEF CarryBound, Clampers
<1>2. LifeOfSegment'
  BY DEF LifeOfSegment, Reopening, Owns
<1>3. PublishedWindow'
  BY DEF PublishedWindow
<1>4. ClaimedWindow'
  BY DEF ClaimedWindow, Owns, Item
<1>5. ProducerControl'
  BY DEF ProducerControl
<1> QED
  BY <1>1, <1>2, <1>3, <1>4, <1>5

LEMMA PopBeginInvariant == IInv /\ PopBegin => IInv'
<1> SUFFICES ASSUME IInv, PopBegin PROVE IInv'
  OBVIOUS
<1>1. TypeOK'
  BY DEF IInv, TypeOK, PopBegin, segmentVars, targetVars, producerVars, historyVars
<1>2. ConsumerControl'
  BY DEF PopBegin, ConsumerControl
<1> QED
  BY <1>1, <1>2, ConsumerPrivateStep DEF IInv, LifeInvariant, PopBegin

LEMMA TryReadyInvariant == IInv /\ TryReady => IInv'
<1> SUFFICES ASSUME IInv, TryReady PROVE IInv'
  OBVIOUS
<1>1. TypeOK'
  BY DEF IInv, TypeOK, TryReady, segmentVars, targetVars, producerVars, historyVars
<1>2. ConsumerControl'
  BY DEF TryReady, ConsumerControl, HasReady, segmentVars
<1> QED
  BY <1>1, <1>2, ConsumerPrivateStep DEF IInv, LifeInvariant, TryReady

LEMMA TryNextInvariant == IInv /\ TryNext => IInv'
<1> SUFFICES ASSUME IInv, TryNext PROVE IInv'
  OBVIOUS
<1>1. TypeOK'
  BY NextSegmentType DEF IInv, LifeInvariant, ConsumerControl, TypeOK, TryNext,
     segmentVars, targetVars, producerVars, historyVars
<1>2. ConsumerControl'
  BY DEF IInv, TypeOK, TryNext, ConsumerControl
<1> QED
  BY <1>1, <1>2, ConsumerPrivateStep DEF IInv, LifeInvariant, TryNext

LEMMA PopEndInvariant == IInv /\ PopEnd => IInv'
<1> SUFFICES ASSUME IInv, PopEnd PROVE IInv'
  OBVIOUS
<1>1. TypeOK'
  BY DEF IInv, TypeOK, PopEnd, segmentVars, producerVars, historyVars
<1>2. ConsumerControl'
  BY DEF PopEnd, ConsumerControl
<1>3. cpc # "reopen" /\ cpc' # "reopen"
  BY DEF PopEnd
<1> QED
  BY <1>1, <1>2, <1>3, ConsumerPrivateStep DEF IInv, LifeInvariant, PopEnd

LEMMA ShrinkTargetInvariant == IInv /\ ShrinkTarget => IInv'
<1> SUFFICES ASSUME IInv, ShrinkTarget PROVE IInv'
  OBVIOUS
<1>1. TypeOK'
  BY DEF IInv, TypeOK, ShrinkTarget, segmentVars, targetVars, producerVars, historyVars
<1>2. ConsumerControl'
  BY DEF ShrinkTarget, ConsumerControl
<1> QED
  BY <1>1, <1>2, ConsumerPrivateStep DEF IInv, LifeInvariant, ShrinkTarget

LEMMA ShrinkCheckInvariant == IInv /\ ShrinkCheck => IInv'
<1> SUFFICES ASSUME IInv, ShrinkCheck PROVE IInv'
  OBVIOUS
<1>1. TypeOK'
  BY DEF IInv, TypeOK, ShrinkCheck, segmentVars, targetVars, producerVars, historyVars
<1>2. ConsumerControl'
  BY DEF IInv, TypeOK, Words, ShrinkCheck, ConsumerControl
<1>3. cpc # "reopen" /\ cpc' # "reopen"
  BY DEF ShrinkCheck
<1> QED
  BY <1>1, <1>2, <1>3, ConsumerPrivateStep DEF IInv, LifeInvariant, ShrinkCheck

LEMMA ShrinkContendedInvariant == IInv /\ ShrinkContended => IInv'
<1> SUFFICES ASSUME IInv, ShrinkContended PROVE IInv'
  OBVIOUS
<1>1. TypeOK'
  BY DEF IInv, TypeOK, ShrinkContended, segmentVars, targetVars, producerVars, historyVars
<1>2. ConsumerControl'
  BY DEF ShrinkContended, ConsumerControl
<1> QED
  BY <1>1, <1>2, ConsumerPrivateStep DEF IInv, LifeInvariant, ShrinkContended

-----------------------------------------------------------------------------
\* A step of p, outside its claim and its clamp before and after, that touches
\* no segment keeps every part but the producers' control.

LEMMA ProducerPrivateStep ==
    ASSUME TypeOK, LifeInvariant, NEW p \in Producers,
           UNCHANGED <<segmentVars, consumerVars, pidx, pcap>>,
           ppc[p] \notin {"construct", "publish", "clamp"},
           ppc'[p] \notin {"construct", "publish", "clamp"},
           \A q \in Producers \ {p} :
              ppc'[q] = ppc[q] /\ pseg'[q] = pseg[q] /\ pnum'[q] = pnum[q]
    PROVE  /\ CarryBound' /\ LifeOfSegment' /\ PublishedWindow' /\ ClaimedWindow'
<1> USE DEF LifeInvariant, segmentVars, consumerVars
<1>1. \A s \in Segments : Clampers(s)' = Clampers(s)
  BY DEF Clampers
<1>2. CarryBound'
  BY <1>1 DEF CarryBound
<1>3. \A q \in Producers, s \in Segments :
         /\ Owns(q, s)' <=> Owns(q, s)
         /\ Owns(q, s)' => q # p
  BY DEF Owns
<1>4. LifeOfSegment'
  BY <1>3 DEF LifeOfSegment, Reopening
<1>5. PublishedWindow'
  BY DEF PublishedWindow
<1>6. ClaimedWindow'
  BY <1>3 DEF ClaimedWindow, Item
<1> QED
  BY <1>2, <1>4, <1>5, <1>6

LEMMA PushBeginInvariant == ASSUME NEW p \in Producers PROVE IInv /\ PushBegin(p) => IInv'
<1> SUFFICES ASSUME IInv, PushBegin(p) PROVE IInv'
  OBVIOUS
<1>1. TypeOK'
  BY DEF IInv, TypeOK, PushBegin, segmentVars, targetVars, consumerVars, historyVars
<1>2. ConsumerControl'
  BY DEF IInv, LifeInvariant, PushBegin, ConsumerControl, HasReady, segmentVars, consumerVars
<1>3. ProducerControl'
  BY DEF IInv, TypeOK, LifeInvariant, PushBegin, ProducerControl
<1>4. /\ ppc[p] = "idle" /\ ppc'[p] = "claim"
      /\ \A q \in Producers \ {p} :
            ppc'[q] = ppc[q] /\ pseg'[q] = pseg[q] /\ pnum'[q] = pnum[q]
  BY DEF IInv, TypeOK, PushBegin
<1>5. CarryBound' /\ LifeOfSegment' /\ PublishedWindow' /\ ClaimedWindow'
  BY <1>4, ProducerPrivateStep DEF IInv, PushBegin
<1> QED
  BY <1>1, <1>2, <1>3, <1>5 DEF IInv, LifeInvariant

LEMMA AdvanceTargetInvariant ==
    ASSUME NEW p \in Producers PROVE IInv /\ AdvanceTarget(p) => IInv'
<1> SUFFICES ASSUME IInv, AdvanceTarget(p) PROVE IInv'
  OBVIOUS
<1>1. TypeOK'
  <2>1. NextSegment(pseg[p]) \in Segments /\ ptry[p] + 1 \in 0 .. SegmentCount - 1
    BY NextSegmentType DEF IInv, TypeOK, AdvanceTarget
  <2> QED
    BY <2>1 DEF IInv, TypeOK, AdvanceTarget, segmentVars, targetVars, consumerVars, historyVars
<1>2. ConsumerControl'
  BY DEF IInv, TypeOK, LifeInvariant, AdvanceTarget, ConsumerControl, HasReady,
         segmentVars, consumerVars
<1>3. ProducerControl'
  BY DEF IInv, TypeOK, LifeInvariant, AdvanceTarget, ProducerControl
<1>4. /\ ppc[p] = "full" /\ ppc'[p] = "claim"
      /\ \A q \in Producers \ {p} :
            ppc'[q] = ppc[q] /\ pseg'[q] = pseg[q] /\ pnum'[q] = pnum[q]
  BY DEF IInv, TypeOK, AdvanceTarget
<1>5. CarryBound' /\ LifeOfSegment' /\ PublishedWindow' /\ ClaimedWindow'
  BY <1>4, ProducerPrivateStep DEF IInv, AdvanceTarget
<1> QED
  BY <1>1, <1>2, <1>3, <1>5 DEF IInv, LifeInvariant

LEMMA RefuseInvariant == ASSUME NEW p \in Producers PROVE IInv /\ Refuse(p) => IInv'
<1> SUFFICES ASSUME IInv, Refuse(p) PROVE IInv'
  OBVIOUS
<1>1. TypeOK'
  <2>1. pnum[p] - 1 \in 0 .. MaxPushes
    BY SizesAssumption DEF IInv, LifeInvariant, ProducerControl, Refuse
  <2> QED
    BY <2>1 DEF IInv, TypeOK, Refuse, segmentVars, targetVars, consumerVars, historyVars
<1>2. ConsumerControl'
  BY DEF IInv, TypeOK, LifeInvariant, Refuse, ConsumerControl, HasReady, segmentVars, consumerVars
<1>3. ProducerControl'
  BY DEF IInv, TypeOK, LifeInvariant, Refuse, ProducerControl
<1>4. /\ ppc[p] = "full" /\ ppc'[p] = "idle"
      /\ \A q \in Producers \ {p} :
            ppc'[q] = ppc[q] /\ pseg'[q] = pseg[q] /\ pnum'[q] = pnum[q]
  BY DEF IInv, TypeOK, Refuse
<1>5. CarryBound' /\ LifeOfSegment' /\ PublishedWindow' /\ ClaimedWindow'
  BY <1>4, ProducerPrivateStep DEF IInv, Refuse
<1> QED
  BY <1>1, <1>2, <1>3, <1>5 DEF IInv, LifeInvariant

-----------------------------------------------------------------------------
\* What TypeOK says of one segment.

LEMMA SegmentTypes ==
    ASSUME TypeOK, NEW s \in Segments
    PROVE  /\ enqueuePos[s] \in Words
           /\ enqueuePos[s].cap \in Nat /\ enqueuePos[s].pos \in Nat
           /\ capacity[s] \in Nat /\ capacity[s] <= CapacityCeiling
           /\ originalCapacity[s] \in Nat /\ originalCapacity[s] <= CapacityCeiling
           /\ dequeueState[s] \in Nat
           /\ \A i \in SlotIndexes : i \in Nat
           /\ \A i \in Nat : i < CapacityCeiling => i \in SlotIndexes
<1>1. enqueuePos[s] \in Words
  BY DEF TypeOK
<1>2. enqueuePos[s].cap \in Nat /\ enqueuePos[s].pos \in Nat
  BY <1>1 DEF Words
<1>3. capacity[s] \in Capacities /\ originalCapacity[s] \in Capacities
      /\ dequeueState[s] \in Capacities
  BY DEF TypeOK
<1>4. \A n \in Capacities : n \in Nat /\ n <= CapacityCeiling
  BY CeilingFacts DEF Capacities
<1>5. \A i \in SlotIndexes : i \in Nat
  BY CeilingFacts DEF SlotIndexes
<1>6. \A i \in Nat : i < CapacityCeiling => i \in SlotIndexes
  BY CeilingFacts DEF SlotIndexes
<1> QED
  BY <1>1, <1>2, <1>3, <1>4, <1>5, <1>6

-----------------------------------------------------------------------------
\* The claim.

\* A producer outside the clamp always finds a position it can increment without
\* carrying into the capacity field.
LEMMA HeadroomLeft ==
    ASSUME TypeOK, CarryBound, NEW p \in Producers, NEW s \in Segments, ppc[p] # "clamp"
    PROVE  enqueuePos[s].pos + 1 < PosModulus
<1>1. Clampers(s) \subseteq Producers \ {p}
  BY DEF Clampers
<1>2. /\ IsFiniteSet(Producers \ {p})
      /\ Cardinality(Producers \ {p}) = Cardinality(Producers) - 1
  BY FS_RemoveElement
<1>3. Cardinality(Clampers(s)) <= Cardinality(Producers) - 1
  BY <1>1, <1>2, FS_Subset
<1>4. /\ enqueuePos[s].cap \in Nat /\ enqueuePos[s].pos \in Nat
      /\ enqueuePos[s].cap <= CapacityCeiling
      /\ enqueuePos[s].pos <= enqueuePos[s].cap + ClampDistance + Cardinality(Clampers(s))
  BY DEF TypeOK, Words, CarryBound
<1> QED
  BY <1>3, <1>4, ClampersFinite, CeilingFacts

LEMMA ClaimSlotInvariant == ASSUME NEW p \in Producers PROVE IInv /\ ClaimSlot(p) => IInv'
<1> SUFFICES ASSUME IInv, ClaimSlot(p) PROVE IInv'
  OBVIOUS
<1> DEFINE s == pseg[p]
           before == enqueuePos[s]
<1> USE DEF IInv, LifeInvariant
<1>1. s \in Segments /\ before \in Words /\ before.pos \in Nat /\ before.cap \in Nat
  BY DEF TypeOK, Words
<1>2. before.pos < before.cap
  BY <1>1 DEF ClaimSlot, IsFull
<1>3. FetchAdd(before) = [cap |-> before.cap, pos |-> before.pos + 1]
  BY <1>1, HeadroomLeft, FetchAddNoCarry DEF ClaimSlot
<1>4. ~Reopening(s) /\ before.cap = capacity[s] /\ dequeueState[s] <= before.pos
  BY <1>1, <1>2 DEF LifeOfSegment, IsFull
<1>5. TypeOK'
  BY <1>1, FetchAddType DEF TypeOK, ClaimSlot, targetVars, consumerVars, historyVars
<1>6. /\ enqueuePos'[s] = [cap |-> before.cap, pos |-> before.pos + 1]
      /\ \A t \in Segments \ {s} : enqueuePos'[t] = enqueuePos[t]
      /\ \A t \in Segments : enqueuePos'[t].cap = enqueuePos[t].cap
      /\ \A t \in Segments : enqueuePos'[t].pos >= enqueuePos[t].pos
  BY <1>1, <1>3 DEF TypeOK, Words, ClaimSlot
<1>7. CarryBound'
  <2> SUFFICES ASSUME NEW t \in Segments
               PROVE  /\ enqueuePos'[t].cap <= CapacityCeiling
                      /\ enqueuePos'[t].pos <=
                            enqueuePos'[t].cap + ClampDistance + Cardinality(Clampers(t)')
    BY DEF CarryBound
  <2>1. Clampers(t)' = Clampers(t)
    BY <1>6 DEF Clampers, ClaimSlot, TypeOK
  <2> QED
    BY <1>1, <1>2, <1>6, <2>1, ClampersFinite DEF CarryBound
<1>8. /\ ppc[p] = "claim" /\ ppc'[p] = "construct" /\ pidx'[p] = before.pos
      /\ \A q \in Producers \ {p} : ppc'[q] = ppc[q] /\ pidx'[q] = pidx[q]
      /\ UNCHANGED <<buffer, originalCapacity, capacity, dequeueState, pseg, pnum, consumerVars>>
  BY DEF ClaimSlot, TypeOK
<1>9. /\ \A q \in Producers \ {p}, t \in Segments : Owns(q, t)' <=> Owns(q, t)
      /\ \A t \in Segments : ~Owns(p, t)
      /\ \A t \in Segments : Owns(p, t)' <=> t = s
  BY <1>8 DEF Owns
<1>10. LifeOfSegment'
  <2> SUFFICES ASSUME NEW t \in Segments
               PROVE  /\ 1 <= capacity[t] /\ capacity[t] <= originalCapacity[t]
                      /\ dequeueState[t] <= capacity[t]
                      /\ IF Reopening(t)
                            THEN /\ IsFull(enqueuePos'[t])
                                 /\ dequeueState[t] = 0
                                 /\ \A i \in SlotIndexes : ~buffer[t][i].ready
                                 /\ \A q \in Producers : ~Owns(q, t)'
                            ELSE /\ enqueuePos'[t].cap = capacity[t]
                                 /\ dequeueState[t] <= enqueuePos'[t].pos
    BY <1>8 DEF LifeOfSegment, Reopening, consumerVars
  <2>1. CASE t = s
    BY <2>1, <1>1, <1>4, <1>6 DEF LifeOfSegment, TypeOK, Capacities
  <2>2. CASE t # s
    BY <2>2, <1>6, <1>9 DEF LifeOfSegment
  <2> QED
    BY <2>1, <2>2
<1>11. PublishedWindow'
  <2> SUFFICES ASSUME NEW t \in Segments, NEW i \in SlotIndexes, buffer[t][i].ready
               PROVE  i < enqueuePos'[t].pos
    BY <1>8 DEF PublishedWindow
  <2>1. i < enqueuePos[t].pos /\ enqueuePos'[t].pos >= enqueuePos[t].pos
    BY <1>6 DEF PublishedWindow
  <2>2. enqueuePos'[t].pos \in Nat
    BY <1>5 DEF TypeOK, Words
  <2> QED
    BY <2>1, <2>2, SegmentTypes
<1>12. ClaimedWindow'
  <2> SUFFICES ASSUME NEW q \in Producers, NEW t \in Segments, Owns(q, t)'
               PROVE  /\ dequeueState[t] <= pidx'[q]
                      /\ pidx'[q] < enqueuePos'[t].pos /\ pidx'[q] < capacity[t]
                      /\ ~buffer[t][pidx'[q]].ready
                      /\ ppc'[q] = "publish" => buffer[t][pidx'[q]].item = Item(q)
                      /\ \A r \in Producers \ {q} : Owns(r, t)' => pidx'[r] # pidx'[q]
    BY <1>8 DEF ClaimedWindow, Item
  <2>1. \A r \in Producers \ {p} : Owns(r, s) => pidx[r] < before.pos
    BY <1>1 DEF ClaimedWindow
  <2>2. CASE q = p
    <3>1. t = s
      BY <1>9, <2>2
    <3>2. before.pos < capacity[s] /\ before.pos \in SlotIndexes
      BY <1>1, <1>2, <1>4, CeilingFacts, SegmentTypes
    <3>3. ~buffer[s][before.pos].ready
      BY <1>1, <3>2 DEF PublishedWindow
    <3> QED
      BY <1>1, <1>4, <1>6, <1>8, <1>9, <2>1, <2>2, <3>1, <3>2, <3>3 DEF TypeOK
  <2>3. CASE q # p
    <3>1. /\ Owns(q, t) /\ pidx'[q] = pidx[q] /\ ppc'[q] = ppc[q]
          /\ pidx[q] \in Nat /\ enqueuePos[t].pos \in Nat /\ enqueuePos'[t].pos \in Nat
      BY <1>5, <1>8, <1>9, <2>3 DEF TypeOK, Words
    <3>2. \A r \in Producers \ {q} : Owns(r, t)' => pidx'[r] # pidx[q]
      BY <1>1, <1>8, <1>9, <2>1, <2>3, <3>1 DEF ClaimedWindow
    <3> QED
      BY <1>6, <3>1, <3>2 DEF ClaimedWindow
  <2> QED
    BY <2>2, <2>3
<1>13. ConsumerControl'
  BY <1>8 DEF ConsumerControl, HasReady, consumerVars
<1>14. ProducerControl'
  BY <1>8 DEF ProducerControl
<1> QED
  BY <1>5, <1>7, <1>10, <1>11, <1>12, <1>13, <1>14

-----------------------------------------------------------------------------
\* The failed claim and the clamp: the word of a full segment changes its
\* position and stays full.

LEMMA FullWordStep ==
    ASSUME TypeOK, TypeOK', LifeInvariant, NEW p \in Producers, NEW s \in Segments,
           UNCHANGED <<buffer, originalCapacity, capacity, dequeueState, consumerVars,
                       pseg, pidx, pnum>>,
           IsFull(enqueuePos[s]), IsFull(enqueuePos'[s]),
           enqueuePos'[s].cap = enqueuePos[s].cap,
           \A t \in Segments \ {s} : enqueuePos'[t] = enqueuePos[t],
           \A q \in Producers \ {p} : ppc'[q] = ppc[q],
           ppc[p] \in {"claim", "clamp"}, ppc'[p] \in {"clamp", "full"}
    PROVE  /\ LifeOfSegment' /\ PublishedWindow' /\ ClaimedWindow'
           /\ ConsumerControl' /\ ProducerControl'
<1> USE DEF LifeInvariant
<1>1. \A q \in Producers, t \in Segments : (Owns(q, t)' <=> Owns(q, t)) /\ (Owns(q, t) => q # p)
  BY DEF Owns
<1>2. /\ enqueuePos[s].cap \in Nat /\ enqueuePos[s].pos \in Nat /\ enqueuePos'[s].pos \in Nat
      /\ enqueuePos[s].cap <= enqueuePos[s].pos /\ enqueuePos[s].cap <= enqueuePos'[s].pos
  BY SegmentTypes DEF TypeOK, Words, IsFull
<1>3. LifeOfSegment'
  <2> SUFFICES ASSUME NEW t \in Segments
               PROVE  /\ 1 <= capacity[t] /\ capacity[t] <= originalCapacity[t]
                      /\ dequeueState[t] <= capacity[t]
                      /\ IF Reopening(t)
                            THEN /\ IsFull(enqueuePos'[t])
                                 /\ dequeueState[t] = 0
                                 /\ \A i \in SlotIndexes : ~buffer[t][i].ready
                                 /\ \A q \in Producers : ~Owns(q, t)'
                            ELSE /\ enqueuePos'[t].cap = capacity[t]
                                 /\ dequeueState[t] <= enqueuePos'[t].pos
    BY DEF LifeOfSegment, Reopening, consumerVars
  <2>1. CASE t = s
    BY <2>1, <1>1, <1>2, SegmentTypes DEF LifeOfSegment
  <2>2. CASE t # s
    BY <2>2, <1>1 DEF LifeOfSegment
  <2> QED
    BY <2>1, <2>2
<1>4. PublishedWindow'
  <2> SUFFICES ASSUME NEW t \in Segments, NEW i \in SlotIndexes, buffer[t][i].ready
               PROVE  i < enqueuePos'[t].pos
    BY DEF PublishedWindow
  <2>1. CASE t = s
    BY <2>1, <1>2, SegmentTypes DEF PublishedWindow, LifeOfSegment
  <2>2. CASE t # s
    BY <2>2 DEF PublishedWindow
  <2> QED
    BY <2>1, <2>2
<1>5. ClaimedWindow'
  <2> SUFFICES ASSUME NEW q \in Producers, NEW t \in Segments, Owns(q, t)
               PROVE  /\ q # p
                      /\ pidx[q] < enqueuePos'[t].pos
    BY <1>1 DEF ClaimedWindow, Item
  <2>1. pidx[q] \in Nat /\ q # p
    BY <1>1 DEF TypeOK
  <2>2. CASE t = s
    BY <2>1, <2>2, <1>2, SegmentTypes DEF ClaimedWindow, LifeOfSegment
  <2>3. CASE t # s
    BY <2>1, <2>3 DEF ClaimedWindow
  <2> QED
    BY <2>1, <2>2, <2>3
<1>6. ConsumerControl'
  BY DEF ConsumerControl, HasReady, consumerVars
<1>7. ProducerControl'
  BY DEF ProducerControl
<1> QED
  BY <1>3, <1>4, <1>5, <1>6, <1>7

LEMMA ClaimFailsInvariant == ASSUME NEW p \in Producers PROVE IInv /\ ClaimFails(p) => IInv'
<1> SUFFICES ASSUME IInv, ClaimFails(p) PROVE IInv'
  OBVIOUS
<1> DEFINE s == pseg[p]
           before == enqueuePos[s]
<1> USE DEF IInv
<1>1. s \in Segments /\ before \in Words /\ before.pos \in Nat /\ before.cap \in Nat
  BY DEF TypeOK, Words
<1>2. before.cap <= before.pos
  BY <1>1 DEF ClaimFails, IsFull
<1>3. FetchAdd(before) = [cap |-> before.cap, pos |-> before.pos + 1]
  BY <1>1, HeadroomLeft, FetchAddNoCarry DEF ClaimFails, LifeInvariant
<1>4. TypeOK'
  BY <1>1, FetchAddType DEF TypeOK, ClaimFails, targetVars, consumerVars, historyVars
<1>5. /\ enqueuePos'[s] = [cap |-> before.cap, pos |-> before.pos + 1]
      /\ \A t \in Segments \ {s} : enqueuePos'[t] = enqueuePos[t]
  BY <1>1, <1>3 DEF TypeOK, ClaimFails
<1>6. /\ ppc[p] = "claim" /\ ppc'[p] \in {"clamp", "full"} /\ pcap'[p] = before.cap
      /\ ppc'[p] = "clamp" <=> IsFar(before)
      /\ \A q \in Producers \ {p} : ppc'[q] = ppc[q] /\ pcap'[q] = pcap[q]
      /\ UNCHANGED <<buffer, originalCapacity, capacity, dequeueState, consumerVars,
                     pseg, pidx, pnum>>
  BY DEF ClaimFails, TypeOK
<1>7. IsFull(before) /\ IsFull(enqueuePos'[s])
  BY <1>1, <1>2, <1>5 DEF IsFull
<1>9. /\ before.cap <= CapacityCeiling
      /\ before.pos <= before.cap + ClampDistance + Cardinality(Clampers(s))
  BY <1>1 DEF CarryBound, LifeInvariant
<1>8. CarryBound'
  <2> SUFFICES ASSUME NEW t \in Segments
               PROVE  /\ enqueuePos'[t].cap <= CapacityCeiling
                      /\ enqueuePos'[t].pos <=
                            enqueuePos'[t].cap + ClampDistance + Cardinality(Clampers(t)')
    BY DEF CarryBound
  <2>1. CASE t # s
    <3>1. Clampers(t)' = Clampers(t)
      BY <1>5, <1>6, <2>1 DEF Clampers
    <3> QED
      BY <1>5, <2>1, <3>1 DEF CarryBound, LifeInvariant
  <2>2. CASE t = s /\ IsFar(before)
    <3>1. Clampers(t)' = Clampers(s) \cup {p} /\ p \notin Clampers(s)
      BY <1>1, <1>5, <1>6, <2>2 DEF Clampers
    <3>2. Cardinality(Clampers(t)') = Cardinality(Clampers(s)) + 1
      BY <1>1, <3>1, ClampersFinite, FS_AddElement
    <3>3. Cardinality(Clampers(s)) \in Nat
      BY <1>1, ClampersFinite
    <3> HIDE DEF before
    <3>5. before.pos + 1 <= before.cap + ClampDistance + (Cardinality(Clampers(s)) + 1)
      BY <1>1, <1>9, <3>3
    <3> QED
      BY <1>5, <1>9, <2>2, <3>2, <3>5
  <2>3. CASE t = s /\ ~IsFar(before)
    <3>1. Clampers(t)' = Clampers(s)
      BY <1>1, <1>5, <1>6, <2>3 DEF Clampers
    <3>2. before.pos < before.cap + ClampDistance
      BY <1>1, <1>2, <2>3 DEF IsFar, IsFull
    <3>3. Cardinality(Clampers(t)') \in Nat
      BY <1>1, <2>3, <3>1, ClampersFinite
    <3> HIDE DEF before
    <3>4. before.pos + 1 <= before.cap + ClampDistance + Cardinality(Clampers(t)')
      BY <1>1, <3>2, <3>3
    <3> QED
      BY <1>5, <1>9, <2>3, <3>4
  <2> QED
    BY <2>1, <2>2, <2>3
<1> QED
  BY <1>1, <1>4, <1>5, <1>6, <1>7, <1>8, FullWordStep DEF LifeInvariant

LEMMA ClampInvariant == ASSUME NEW p \in Producers PROVE IInv /\ Clamp(p) => IInv'
<1> SUFFICES ASSUME IInv, Clamp(p) PROVE IInv'
  OBVIOUS
<1> DEFINE s == pseg[p]
           current == enqueuePos[s]
<1> USE DEF IInv
<1>1. /\ s \in Segments /\ current \in Words /\ current.pos \in Nat /\ current.cap \in Nat
      /\ pcap[p] \in Nat
  BY DEF TypeOK, Words
<1>2. /\ ppc[p] = "clamp" /\ ppc'[p] = "full"
      /\ \A q \in Producers \ {p} : ppc'[q] = ppc[q]
      /\ UNCHANGED <<buffer, originalCapacity, capacity, dequeueState, consumerVars,
                     pseg, pidx, pcap, pnum>>
  BY DEF Clamp, Clamped, TypeOK
<1>3. Word(pcap[p], pcap[p]) \in Words
  BY <1>1 DEF Word, Words
<1>4. TypeOK'
  BY <1>1, <1>3 DEF TypeOK, Clamp, Clamped, targetVars, consumerVars, historyVars
<1>5. CASE current.cap = pcap[p] /\ IsFar(current)
  <2>1. /\ enqueuePos'[s] = [cap |-> current.cap, pos |-> current.cap]
        /\ \A t \in Segments \ {s} : enqueuePos'[t] = enqueuePos[t]
    BY <1>1, <1>5 DEF TypeOK, Clamp, Clamped, Word
  <2>2. IsFull(current) /\ IsFull(enqueuePos'[s])
    BY <1>1, <1>5, <2>1 DEF IsFull, IsFar
  <2>3. CarryBound'
    <3> SUFFICES ASSUME NEW t \in Segments
                 PROVE  /\ enqueuePos'[t].cap <= CapacityCeiling
                        /\ enqueuePos'[t].pos <=
                              enqueuePos'[t].cap + ClampDistance + Cardinality(Clampers(t)')
      BY DEF CarryBound
    <3>1. CASE t # s
      <4>1. Clampers(t)' = Clampers(t)
        BY <1>2, <2>1, <3>1 DEF Clampers
      <4> QED
        BY <2>1, <3>1, <4>1 DEF CarryBound, LifeInvariant
    <3>2. CASE t = s
      <4>1. Clampers(t)' = Clampers(s) \ {p}
        BY <1>1, <1>2, <2>1, <3>2 DEF Clampers
      <4>2. Cardinality(Clampers(t)') \in Nat
        BY <1>1, <3>2, <4>1, ClampersFinite, FS_Subset, FS_CardinalityType
      <4>3. current.cap <= CapacityCeiling
        BY <1>1 DEF CarryBound, LifeInvariant
      <4> HIDE DEF current
      <4>4. current.cap <= current.cap + ClampDistance + Cardinality(Clampers(t)')
        BY <1>1, <4>2
      <4> QED
        BY <2>1, <3>2, <4>3, <4>4
    <3> QED
      BY <3>1, <3>2
  <2> QED
    BY <1>1, <1>2, <1>4, <2>1, <2>2, <2>3, FullWordStep DEF LifeInvariant
<1>6. CASE ~(current.cap = pcap[p] /\ IsFar(current))
  <2>1. enqueuePos' = enqueuePos
    BY <1>6 DEF Clamp, Clamped
  <2>2. CarryBound'
    <3> SUFFICES ASSUME NEW t \in Segments
                 PROVE  enqueuePos[t].pos <=
                           enqueuePos[t].cap + ClampDistance + Cardinality(Clampers(t)')
      BY <2>1 DEF CarryBound, LifeInvariant
    <3>1. CASE p \notin Clampers(t)
      <4>1. Clampers(t)' = Clampers(t)
        BY <1>2, <2>1, <3>1 DEF Clampers
      <4> QED
        BY <4>1 DEF CarryBound, LifeInvariant
    <3>2. CASE p \in Clampers(t)
      <4>1. t = s /\ ~IsFar(current)
        BY <1>6, <3>2 DEF Clampers
      <4>2. Clampers(t)' = Clampers(s) \ {p}
        BY <1>1, <1>2, <2>1, <4>1 DEF Clampers
      <4>3. Cardinality(Clampers(t)') \in Nat
        BY <1>1, <4>1, <4>2, ClampersFinite, FS_Subset, FS_CardinalityType
      <4>4. current.pos < current.cap + ClampDistance
        BY <1>1, <4>1 DEF IsFar, IsFull
      <4> HIDE DEF current
      <4>5. current.pos <= current.cap + ClampDistance + Cardinality(Clampers(t)')
        BY <1>1, <4>3, <4>4
      <4> QED
        BY <4>1, <4>5 DEF current
    <3> QED
      BY <3>1, <3>2
  <2>3. \A q \in Producers, t \in Segments : Owns(q, t)' <=> Owns(q, t)
    BY <1>2 DEF Owns
  <2>4. LifeOfSegment'
    BY <1>2, <2>1, <2>3 DEF LifeOfSegment, LifeInvariant, Reopening, consumerVars
  <2>5. PublishedWindow'
    BY <1>2, <2>1 DEF PublishedWindow, LifeInvariant
  <2>6. ClaimedWindow'
    <3> SUFFICES ASSUME NEW q \in Producers, NEW t \in Segments, Owns(q, t)
                 PROVE  /\ dequeueState'[t] <= pidx'[q]
                        /\ pidx'[q] < enqueuePos'[t].pos /\ pidx'[q] < capacity'[t]
                        /\ ~buffer'[t][pidx'[q]].ready
                        /\ ppc'[q] = "publish" => buffer'[t][pidx'[q]].item = Item(q)'
                        /\ \A r \in Producers \ {q} : Owns(r, t) => pidx'[r] # pidx'[q]
      BY <2>3 DEF ClaimedWindow
    <3>1. q # p /\ ppc'[q] = ppc[q] /\ Item(q)' = Item(q)
      BY <1>2 DEF Owns, Item
    <3>2. ClaimedWindow
      BY DEF LifeInvariant
    <3> QED
      BY <1>2, <2>1, <3>1, <3>2 DEF ClaimedWindow
  <2>7. ConsumerControl' /\ ProducerControl'
    BY <1>2 DEF ConsumerControl, ProducerControl, LifeInvariant, HasReady, consumerVars
  <2> QED
    BY <1>4, <2>2, <2>4, <2>5, <2>6, <2>7 DEF LifeInvariant
<1> QED
  BY <1>5, <1>6

-----------------------------------------------------------------------------
\* The owner of a slot fills it and publishes it.

LEMMA ItemsType ==
    ASSUME TypeOK, ProducerControl, NEW p \in Producers, ppc[p] # "idle"
    PROVE  Item(p) \in Items
BY DEF TypeOK, ProducerControl, Item, Items

\* A step of owner p confined to the slot it owns: what becomes published is the
\* slot of p, with an element in it.
LEMMA OwnSlotStep ==
    ASSUME TypeOK, LifeInvariant, NEW p \in Producers, NEW s \in Segments, Owns(p, s),
           UNCHANGED <<enqueuePos, originalCapacity, capacity, dequeueState, consumerVars,
                       pseg, pidx, pcap, pnum>>,
           \A q \in Producers \ {p} : ppc'[q] = ppc[q],
           ppc'[p] \in {"publish", "idle"},
           \A t \in Segments, i \in SlotIndexes :
              ~(t = s /\ i = pidx[p]) => buffer'[t][i] = buffer[t][i],
           buffer'[s][pidx[p]].item \in Items,
           ppc'[p] = "publish" => /\ ~buffer'[s][pidx[p]].ready
                                  /\ buffer'[s][pidx[p]].item = Item(p)
    PROVE  LifeInvariant'
<1> USE DEF LifeInvariant
<1>1. /\ ppc[p] \in {"construct", "publish"} /\ pseg[p] = s
      /\ dequeueState[s] <= pidx[p] /\ pidx[p] < enqueuePos[s].pos /\ pidx[p] < capacity[s]
      /\ ~buffer[s][pidx[p]].ready
      /\ pidx[p] \in SlotIndexes
  BY SegmentTypes, CeilingFacts DEF Owns, ClaimedWindow, TypeOK
<1>2. ~Reopening(s)
  BY DEF LifeOfSegment
<1>3. \A q \in Producers, t \in Segments : Owns(q, t)' => Owns(q, t)
  BY <1>1 DEF Owns
<1>4. CarryBound'
  <2>1. \A t \in Segments : Clampers(t)' = Clampers(t)
    BY <1>1 DEF Clampers
  <2> QED
    BY <2>1 DEF CarryBound
<1>5. LifeOfSegment'
  BY <1>2, <1>3 DEF LifeOfSegment, Reopening, consumerVars
<1>6. PublishedWindow'
  BY <1>1 DEF PublishedWindow
<1>7. ClaimedWindow'
  <2> SUFFICES ASSUME NEW q \in Producers, NEW t \in Segments, Owns(q, t)'
               PROVE  /\ ~buffer'[t][pidx[q]].ready
                      /\ ppc'[q] = "publish" => buffer'[t][pidx[q]].item = Item(q)
    BY <1>3 DEF ClaimedWindow, Item
  <2>1. CASE q = p
    <3>1. t = s /\ ppc'[p] = "publish"
      BY <1>1, <2>1 DEF Owns
    <3> QED
      BY <2>1, <3>1
  <2>2. CASE q # p
    <3>1. /\ Owns(q, t) /\ ppc'[q] = ppc[q] /\ pidx[q] \in SlotIndexes
          /\ ~buffer[t][pidx[q]].ready
          /\ ppc[q] = "publish" => buffer[t][pidx[q]].item = Item(q)
      BY <1>3, <2>2, SegmentTypes, CeilingFacts DEF ClaimedWindow, TypeOK
    <3>2. ~(t = s /\ pidx[q] = pidx[p])
      BY <2>2, <3>1 DEF ClaimedWindow
    <3> QED
      BY <3>1, <3>2
  <2> QED
    BY <2>1, <2>2
<1>8. ConsumerControl'
  <2>1. cpc = "take" => HasReady(cseg)'
    <3> SUFFICES ASSUME cpc = "take" PROVE HasReady(cseg)'
      OBVIOUS
    <3>1. /\ HasReady(cseg) /\ cseg \in Segments /\ dequeueState[cseg] \in SlotIndexes
      BY SegmentTypes, CeilingFacts DEF ConsumerControl, HasReady, TypeOK
    <3>2. ~(cseg = s /\ dequeueState[cseg] = pidx[p])
      BY <1>1, <3>1 DEF HasReady
    <3> QED
      BY <3>1, <3>2 DEF HasReady, consumerVars
  <2> QED
    BY <1>1, <2>1 DEF ConsumerControl, consumerVars
<1>9. ProducerControl'
  BY <1>1 DEF ProducerControl
<1> QED
  BY <1>4, <1>5, <1>6, <1>7, <1>8, <1>9

LEMMA ConstructInvariant == ASSUME NEW p \in Producers PROVE IInv /\ Construct(p) => IInv'
<1> SUFFICES ASSUME IInv, Construct(p) PROVE IInv'
  OBVIOUS
<1> DEFINE s == pseg[p]
<1> USE DEF IInv
<1>1. /\ s \in Segments /\ Owns(p, s) /\ Item(p) \in Items
      /\ pidx[p] \in SlotIndexes /\ ~buffer[s][pidx[p]].ready
  <2>1. s \in Segments /\ Owns(p, s) /\ Item(p) \in Items
    BY ItemsType DEF TypeOK, Construct, Owns, LifeInvariant
  <2> QED
    BY <2>1, SegmentTypes, CeilingFacts DEF ClaimedWindow, LifeInvariant, TypeOK
<1>2. buffer[s][pidx[p]] \in Slot
  BY <1>1 DEF TypeOK
<1>3. [buffer[s][pidx[p]] EXCEPT !.item = Item(p)] \in Slot
  BY <1>1, <1>2 DEF Slot
<1>4. /\ buffer' \in [Segments -> [SlotIndexes -> Slot]]
      /\ buffer'[s][pidx[p]] = [buffer[s][pidx[p]] EXCEPT !.item = Item(p)]
      /\ \A t \in Segments, i \in SlotIndexes :
            ~(t = s /\ i = pidx[p]) => buffer'[t][i] = buffer[t][i]
  BY <1>1, <1>3 DEF Construct, TypeOK
<1>5. TypeOK'
  BY <1>4 DEF TypeOK, Construct, targetVars, consumerVars, historyVars
<1>6. ~buffer'[s][pidx[p]].ready /\ buffer'[s][pidx[p]].item = Item(p)
  BY <1>1, <1>2, <1>4 DEF Slot
<1>7. /\ ppc'[p] = "publish" /\ \A q \in Producers \ {p} : ppc'[q] = ppc[q]
      /\ UNCHANGED <<enqueuePos, originalCapacity, capacity, dequeueState, consumerVars,
                     pseg, pidx, pcap, pnum>>
  BY DEF Construct, TypeOK
<1>8. buffer'[s][pidx[p]].item \in Items
  BY <1>1, <1>6
<1>9. LifeInvariant'
  <2> HIDE DEF s
  <2> QED
    BY <1>1, <1>4, <1>6, <1>7, <1>8, OwnSlotStep
<1> QED
  BY <1>5, <1>9

LEMMA PublishInvariant == ASSUME NEW p \in Producers PROVE IInv /\ Publish(p) => IInv'
<1> SUFFICES ASSUME IInv, Publish(p) PROVE IInv'
  OBVIOUS
<1> DEFINE s == pseg[p]
<1> USE DEF IInv
<1>1. /\ s \in Segments /\ Owns(p, s) /\ Item(p) \in Items
      /\ pidx[p] \in SlotIndexes /\ buffer[s][pidx[p]].item = Item(p)
  <2>1. s \in Segments /\ Owns(p, s) /\ Item(p) \in Items
    BY ItemsType DEF TypeOK, Publish, Owns, LifeInvariant
  <2>2. buffer[s][pidx[p]].item = Item(p)
    BY <2>1 DEF ClaimedWindow, LifeInvariant, Publish
  <2> QED
    BY <2>1, <2>2, SegmentTypes, CeilingFacts DEF ClaimedWindow, LifeInvariant, TypeOK
<1>2. buffer[s][pidx[p]] \in Slot
  BY <1>1 DEF TypeOK
<1>3. [buffer[s][pidx[p]] EXCEPT !.ready = TRUE] \in Slot
  BY <1>2 DEF Slot
<1>4. /\ buffer' \in [Segments -> [SlotIndexes -> Slot]]
      /\ buffer'[s][pidx[p]] = [buffer[s][pidx[p]] EXCEPT !.ready = TRUE]
      /\ \A t \in Segments, i \in SlotIndexes :
            ~(t = s /\ i = pidx[p]) => buffer'[t][i] = buffer[t][i]
  BY <1>1, <1>3 DEF Publish, TypeOK
<1>5. TypeOK'
  BY <1>4 DEF TypeOK, Publish, targetVars, consumerVars, historyVars
<1>6. buffer'[s][pidx[p]].item \in Items
  BY <1>1, <1>2, <1>4 DEF Slot
<1>7. /\ ppc'[p] = "idle" /\ \A q \in Producers \ {p} : ppc'[q] = ppc[q]
      /\ UNCHANGED <<enqueuePos, originalCapacity, capacity, dequeueState, consumerVars,
                     pseg, pidx, pcap, pnum>>
  BY DEF Publish, TypeOK
<1> QED
  BY <1>1, <1>4, <1>5, <1>6, <1>7, OwnSlotStep

-----------------------------------------------------------------------------
\* The consumer's steps that change a segment.

LEMMA SlotFacts == EmptySlot \in Slot /\ ~EmptySlot.ready /\ FreshBuffer \in [SlotIndexes -> Slot]
BY DEF EmptySlot, Slot, FreshBuffer

LEMMA TakeInvariant == IInv /\ Take => IInv'
<1> SUFFICES ASSUME IInv, Take PROVE IInv'
  OBVIOUS
<1> DEFINE s == cseg
           i == dequeueState[cseg]
<1> USE DEF IInv, LifeInvariant
<1>1. /\ cpc = "take" /\ HasReady(s) /\ s \in Segments /\ i \in Nat /\ i \in SlotIndexes
      /\ i < capacity[s] /\ i < enqueuePos[s].pos
      /\ buffer[s][i].ready /\ buffer[s][i].item \in Items
  <2>1. cpc = "take" /\ HasReady(s) /\ s \in Segments
    BY DEF Take, ConsumerControl, TypeOK
  <2>2. i \in Nat /\ i \in SlotIndexes /\ i < capacity[s] /\ buffer[s][i].ready
    BY <2>1, SegmentTypes, CeilingFacts DEF HasReady
  <2> QED
    BY <2>1, <2>2 DEF PublishedWindow
<1>2. ~Reopening(s)
  BY <1>1 DEF Reopening
<1>3. i + 1 \in Capacities
  BY <1>1, SegmentTypes, CeilingFacts DEF Capacities
<1>4. /\ buffer' \in [Segments -> [SlotIndexes -> Slot]]
      /\ buffer'[s][i] = EmptySlot
      /\ \A t \in Segments, j \in SlotIndexes :
            ~(t = s /\ j = i) => buffer'[t][j] = buffer[t][j]
  BY <1>1, SlotFacts DEF Take, TypeOK
<1>5. /\ dequeueState' \in [Segments -> Capacities]
      /\ dequeueState'[s] = i + 1
      /\ \A t \in Segments \ {s} : dequeueState'[t] = dequeueState[t]
  BY <1>1, <1>3 DEF Take, TypeOK
<1>6. TypeOK'
  BY <1>1, <1>4, <1>5 DEF TypeOK, Take, targetVars, producerVars
<1>7. /\ cpc' \in {"retire", "popped"}
      /\ cpc' = "retire" => rseg' = s /\ i + 1 = capacity[s]
      /\ UNCHANGED <<enqueuePos, originalCapacity, capacity, producerVars>>
  BY DEF Take
<1>8. \A q \in Producers, t \in Segments : Owns(q, t)' <=> Owns(q, t)
  BY <1>7 DEF Owns, producerVars
<1>9. CarryBound'
  <2>1. \A t \in Segments : Clampers(t)' = Clampers(t)
    BY <1>7 DEF Clampers, producerVars
  <2> QED
    BY <1>7, <2>1 DEF CarryBound
<1>10. LifeOfSegment'
  <2>1. \A t \in Segments : ~Reopening(t) /\ ~Reopening(t)'
    BY <1>1, <1>7 DEF Reopening
  <2>2. i + 1 <= capacity[s] /\ i + 1 <= enqueuePos[s].pos
    BY <1>1, SegmentTypes
  <2> QED
    BY <1>5, <1>7, <2>1, <2>2 DEF LifeOfSegment
<1>11. PublishedWindow'
  <2> SUFFICES ASSUME NEW t \in Segments, NEW j \in SlotIndexes, buffer'[t][j].ready
               PROVE  /\ dequeueState'[t] <= j /\ j < enqueuePos[t].pos /\ j < capacity[t]
                      /\ buffer'[t][j].item \in Items
    BY <1>7 DEF PublishedWindow
  <2>1. ~(t = s /\ j = i)
    BY <1>4, SlotFacts
  <2>2. buffer'[t][j] = buffer[t][j] /\ dequeueState[t] <= j /\ j \in Nat
    BY <1>1, <1>4, <2>1, SegmentTypes DEF PublishedWindow
  <2>3. dequeueState'[t] <= j
    BY <1>1, <1>5, <2>1, <2>2
  <2> QED
    BY <2>2, <2>3 DEF PublishedWindow
<1>12. ClaimedWindow'
  <2> SUFFICES ASSUME NEW q \in Producers, NEW t \in Segments, Owns(q, t)
               PROVE  /\ dequeueState'[t] <= pidx[q]
                      /\ ~buffer'[t][pidx[q]].ready
                      /\ ppc[q] = "publish" => buffer'[t][pidx[q]].item = Item(q)
    BY <1>7, <1>8 DEF ClaimedWindow, Item, producerVars
  <2>1. /\ dequeueState[t] <= pidx[q] /\ pidx[q] \in SlotIndexes /\ pidx[q] \in Nat
        /\ ~buffer[t][pidx[q]].ready
    BY SegmentTypes, CeilingFacts DEF ClaimedWindow, TypeOK
  <2>2. ~(t = s /\ pidx[q] = i)
    BY <1>1, <2>1
  <2>3. buffer'[t][pidx[q]] = buffer[t][pidx[q]]
    BY <1>4, <2>1, <2>2
  <2>4. dequeueState'[t] <= pidx[q]
    BY <1>1, <1>5, <2>1, <2>2
  <2> QED
    BY <2>3, <2>4 DEF ClaimedWindow
<1>13. ConsumerControl'
  BY <1>5, <1>7 DEF ConsumerControl
<1>14. ProducerControl'
  BY <1>7 DEF ProducerControl, producerVars
<1> QED
  BY <1>6, <1>9, <1>10, <1>11, <1>12, <1>13, <1>14

\* Nothing is published or claimed in a segment that is retired.
LEMMA RetiredIsDrained ==
    ASSUME IInv, cpc = "retire"
    PROVE  /\ rseg \in Segments /\ IsFull(enqueuePos[rseg])
           /\ \A p \in Producers : ~Owns(p, rseg)
           /\ \A i \in SlotIndexes : ~buffer[rseg][i].ready
<1> USE DEF IInv, LifeInvariant
<1>1. rseg \in Segments /\ dequeueState[rseg] = capacity[rseg] /\ ~Reopening(rseg)
  BY DEF TypeOK, ConsumerControl, Reopening
<1>2. IsFull(enqueuePos[rseg])
  BY <1>1, SegmentTypes DEF LifeOfSegment, IsFull
<1>3. \A p \in Producers : ~Owns(p, rseg)
  <2> SUFFICES ASSUME NEW p \in Producers, Owns(p, rseg) PROVE FALSE
    OBVIOUS
  <2>1. dequeueState[rseg] <= pidx[p] /\ pidx[p] < capacity[rseg] /\ pidx[p] \in Nat
    BY <1>1 DEF ClaimedWindow, TypeOK
  <2> QED
    BY <1>1, <2>1, SegmentTypes
<1>4. \A i \in SlotIndexes : ~buffer[rseg][i].ready
  <2> SUFFICES ASSUME NEW i \in SlotIndexes, buffer[rseg][i].ready PROVE FALSE
    OBVIOUS
  <2>1. dequeueState[rseg] <= i /\ i < capacity[rseg] /\ i \in Nat
    BY <1>1, SegmentTypes DEF PublishedWindow
  <2> QED
    BY <1>1, <2>1, SegmentTypes
<1> QED
  BY <1>1, <1>2, <1>3, <1>4

LEMMA RebuildInvariant ==
    ASSUME NEW n \in 1 .. CapacityCeiling
    PROVE  IInv /\ cpc = "retire" /\ RebuildTo(n) => IInv'
<1> SUFFICES ASSUME IInv, cpc = "retire", RebuildTo(n) PROVE IInv'
  OBVIOUS
<1> DEFINE s == rseg
<1> USE DEF IInv, LifeInvariant
<1>1. /\ s \in Segments /\ IsFull(enqueuePos[s])
      /\ \A p \in Producers : ~Owns(p, s)
  BY RetiredIsDrained
<1>2. n \in Nat /\ 1 <= n /\ n \in Capacities /\ 0 \in Capacities
  BY CeilingFacts DEF Capacities
<1>3. /\ buffer' \in [Segments -> [SlotIndexes -> Slot]]
      /\ buffer'[s] = FreshBuffer /\ \A t \in Segments \ {s} : buffer'[t] = buffer[t]
  BY <1>1, SlotFacts DEF RebuildTo, TypeOK
<1>4. /\ capacity' \in [Segments -> Capacities]
      /\ capacity'[s] = n /\ \A t \in Segments \ {s} : capacity'[t] = capacity[t]
  BY <1>1, <1>2 DEF RebuildTo, TypeOK
<1>5. /\ originalCapacity' \in [Segments -> Capacities]
      /\ originalCapacity'[s] = n
      /\ \A t \in Segments \ {s} : originalCapacity'[t] = originalCapacity[t]
  BY <1>1, <1>2 DEF RebuildTo, TypeOK
<1>6. /\ dequeueState' \in [Segments -> Capacities]
      /\ dequeueState'[s] = 0
      /\ \A t \in Segments \ {s} : dequeueState'[t] = dequeueState[t]
  BY <1>1, <1>2 DEF RebuildTo, TypeOK
<1>7. /\ cpc' = "reopen" /\ rseg' = s
      /\ UNCHANGED <<enqueuePos, producerVars>>
  BY DEF RebuildTo
<1>8. TypeOK'
  BY <1>3, <1>4, <1>5, <1>6 DEF TypeOK, RebuildTo, targetVars, producerVars, historyVars
<1>9. \A q \in Producers, t \in Segments : Owns(q, t)' <=> Owns(q, t)
  BY <1>7 DEF Owns, producerVars
<1>10. CarryBound'
  <2>1. \A t \in Segments : Clampers(t)' = Clampers(t)
    BY <1>7 DEF Clampers, producerVars
  <2> QED
    BY <1>7, <2>1 DEF CarryBound
<1>11. \A i \in SlotIndexes : ~buffer'[s][i].ready
  BY <1>3, SlotFacts DEF FreshBuffer
<1>12. LifeOfSegment'
  <2> SUFFICES ASSUME NEW t \in Segments
               PROVE  /\ 1 <= capacity'[t] /\ capacity'[t] <= originalCapacity'[t]
                      /\ dequeueState'[t] <= capacity'[t]
                      /\ IF t = s
                            THEN /\ IsFull(enqueuePos[t])
                                 /\ dequeueState'[t] = 0
                                 /\ \A i \in SlotIndexes : ~buffer'[t][i].ready
                                 /\ \A p \in Producers : ~Owns(p, t)'
                            ELSE /\ enqueuePos[t].cap = capacity'[t]
                                 /\ dequeueState'[t] <= enqueuePos[t].pos
    BY <1>7 DEF LifeOfSegment, Reopening
  <2>1. CASE t = s
    BY <1>1, <1>2, <1>4, <1>5, <1>6, <1>9, <1>11, <2>1
  <2>2. CASE t # s
    BY <1>4, <1>5, <1>6, <2>2 DEF LifeOfSegment, Reopening
  <2> QED
    BY <2>1, <2>2
<1>13. PublishedWindow'
  BY <1>3, <1>4, <1>6, <1>7, <1>11 DEF PublishedWindow
<1>14. ClaimedWindow'
  BY <1>1, <1>3, <1>4, <1>6, <1>7, <1>9 DEF ClaimedWindow, Item, producerVars
<1>15. ConsumerControl' /\ ProducerControl'
  BY <1>7 DEF ConsumerControl, ProducerControl, producerVars
<1> QED
  BY <1>8, <1>10, <1>12, <1>13, <1>14, <1>15

LEMMA RegrowInvariant == IInv /\ Regrow => IInv'
<1> SUFFICES ASSUME IInv, Regrow PROVE IInv'
  OBVIOUS
<1>1. /\ rseg \in Segments /\ NextSegment(rseg) \in Segments
      /\ 1 <= capacity[rseg]
  BY NextSegmentType DEF IInv, TypeOK, LifeInvariant, LifeOfSegment
<1>2. ComputeShrunkCapacity(capacity[rseg]) \in 1 .. CapacityCeiling
  <2>1. capacity[rseg] \in Nat \ {0} /\ capacity[rseg] <= CapacityCeiling
    BY <1>1, SegmentTypes DEF IInv
  <2>2. ComputeShrunkCapacity(capacity[rseg]) \in 1 .. capacity[rseg]
    BY <2>1, ShrunkCapacityBounded
  <2> QED
    BY <2>1, <2>2, CeilingFacts
<1>3. ComputeNewCapacity(capacity[NextSegment(rseg)]) \in 1 .. CapacityCeiling
  BY <1>1, SegmentTypes, NewCapacityBounded, CeilingFacts DEF IInv
<1>4. NewCapacity(rseg) \in 1 .. CapacityCeiling
  BY <1>2, <1>3 DEF NewCapacity
<1> QED
  BY <1>4, RebuildInvariant DEF Regrow

LEMMA RecycleInPlaceInvariant == IInv /\ RecycleInPlace => IInv'
<1> SUFFICES ASSUME IInv, RecycleInPlace PROVE IInv'
  OBVIOUS
<1>1. rseg \in Segments /\ 1 <= capacity[rseg] /\ capacity[rseg] <= originalCapacity[rseg]
  BY DEF IInv, TypeOK, LifeInvariant, LifeOfSegment
<1>2. originalCapacity[rseg] \in 1 .. CapacityCeiling
  BY <1>1, SegmentTypes, CeilingFacts DEF IInv
<1> QED
  BY <1>2, RebuildInvariant DEF RecycleInPlace

LEMMA ReopenInvariant == IInv /\ Reopen => IInv'
<1> SUFFICES ASSUME IInv, Reopen PROVE IInv'
  OBVIOUS
<1> DEFINE s == rseg
<1> USE DEF IInv, LifeInvariant
<1>1. /\ s \in Segments /\ Reopening(s) /\ dequeueState[s] = 0
      /\ capacity[s] \in Nat /\ 1 <= capacity[s] /\ capacity[s] <= CapacityCeiling
      /\ \A i \in SlotIndexes : ~buffer[s][i].ready
      /\ \A p \in Producers : ~Owns(p, s)
  <2>1. s \in Segments /\ Reopening(s)
    BY DEF Reopen, Reopening, TypeOK
  <2> QED
    BY <2>1, SegmentTypes DEF LifeOfSegment
<1>2. Word(capacity[s], 0) \in Words
  BY <1>1 DEF Word, Words
<1>3. /\ enqueuePos' \in [Segments -> Words]
      /\ enqueuePos'[s].cap = capacity[s] /\ enqueuePos'[s].pos = 0
      /\ \A t \in Segments \ {s} : enqueuePos'[t] = enqueuePos[t]
  BY <1>1, <1>2 DEF Reopen, TypeOK, Word
<1>4. /\ cpc' \in {"idle", "popped"}
      /\ UNCHANGED <<buffer, originalCapacity, capacity, dequeueState, producerVars>>
  BY DEF Reopen, TypeOK
<1>5. TypeOK'
  BY <1>3, <1>4 DEF TypeOK, Reopen, targetVars, producerVars, historyVars
<1>6. \A q \in Producers, t \in Segments : Owns(q, t)' <=> Owns(q, t)
  BY <1>4 DEF Owns, producerVars
<1>7. CarryBound'
  <2> SUFFICES ASSUME NEW t \in Segments
               PROVE  /\ enqueuePos'[t].cap <= CapacityCeiling
                      /\ enqueuePos'[t].pos <=
                            enqueuePos'[t].cap + ClampDistance + Cardinality(Clampers(t)')
    BY DEF CarryBound
  <2>1. CASE t # s
    <3>1. Clampers(t)' = Clampers(t)
      BY <1>3, <1>4, <2>1 DEF Clampers, producerVars
    <3> QED
      BY <1>3, <2>1, <3>1 DEF CarryBound
  <2>2. CASE t = s
    <3>1. Clampers(t)' \subseteq Producers
      BY DEF Clampers
    <3>2. Cardinality(Clampers(t)') \in Nat
      BY <3>1, FS_Subset, FS_CardinalityType
    <3>3. 0 <= capacity[s] + ClampDistance + Cardinality(Clampers(t)')
      BY <1>1, <3>2
    <3> QED
      BY <1>1, <1>3, <2>2, <3>3
  <2> QED
    BY <2>1, <2>2
<1>8. \A t \in Segments : Reopening(t) <=> t = s
  BY <1>1 DEF Reopening
<1>9. LifeOfSegment'
  <2> SUFFICES ASSUME NEW t \in Segments
               PROVE  /\ enqueuePos'[t].cap = capacity[t]
                      /\ dequeueState[t] <= enqueuePos'[t].pos
    BY <1>4 DEF LifeOfSegment, Reopening
  <2> QED
    BY <1>1, <1>3, <1>8 DEF LifeOfSegment
<1>10. PublishedWindow'
  BY <1>1, <1>3, <1>4 DEF PublishedWindow
<1>11. ClaimedWindow'
  BY <1>1, <1>3, <1>4, <1>6 DEF ClaimedWindow, Item, producerVars
<1>12. ConsumerControl' /\ ProducerControl'
  BY <1>4 DEF ConsumerControl, ProducerControl, producerVars
<1> QED
  BY <1>5, <1>7, <1>9, <1>10, <1>11, <1>12

LEMMA ShrinkCloseInvariant == IInv /\ ShrinkClose => IInv'
<1> SUFFICES ASSUME IInv, ShrinkClose PROVE IInv'
  OBVIOUS
<1> DEFINE s == rseg
           n == cword.pos
<1> USE DEF IInv, LifeInvariant
<1>1. /\ s \in Segments /\ enqueuePos[s] = cword /\ ~Reopening(s)
      /\ n \in Nat /\ 1 <= n /\ n < cword.cap /\ cword.cap = capacity[s]
      /\ dequeueState[s] <= n
  <2>1. s \in Segments /\ enqueuePos[s] = cword /\ ~Reopening(s)
    BY DEF ShrinkClose, Reopening, TypeOK
  <2>2. n \in Nat /\ 1 <= n /\ n < cword.cap
    BY <2>1, SegmentTypes DEF ShrinkClose, ConsumerControl
  <2> QED
    BY <2>1, <2>2 DEF LifeOfSegment
<1>2. /\ n \in Capacities /\ n < capacity[s] /\ n <= originalCapacity[s]
      /\ n <= CapacityCeiling
  BY <1>1, SegmentTypes, CeilingFacts DEF Capacities, LifeOfSegment
<1>3. ClosedWord(cword) = [cap |-> n, pos |-> n] /\ ClosedWord(cword) \in Words
  BY <1>1 DEF ClosedWord, Word, Words
<1>4. /\ enqueuePos' \in [Segments -> Words]
      /\ enqueuePos'[s].cap = n /\ enqueuePos'[s].pos = n
      /\ \A t \in Segments \ {s} : enqueuePos'[t] = enqueuePos[t]
  BY <1>1, <1>3 DEF ShrinkClose, TypeOK
<1>5. /\ capacity' \in [Segments -> Capacities]
      /\ capacity'[s] = n /\ \A t \in Segments \ {s} : capacity'[t] = capacity[t]
  BY <1>1, <1>2 DEF ShrinkClose, TypeOK
<1>6. /\ cpc' \in {"retire", "idle"} /\ rseg' = s
      /\ cpc' = "retire" => dequeueState[s] >= n
      /\ UNCHANGED <<buffer, originalCapacity, dequeueState, producerVars>>
  BY DEF ShrinkClose, AfterClose
<1>7. TypeOK'
  BY <1>4, <1>5, <1>6 DEF TypeOK, ShrinkClose, targetVars, producerVars, historyVars
<1>8. \A q \in Producers, t \in Segments : Owns(q, t)' <=> Owns(q, t)
  BY <1>6 DEF Owns, producerVars
<1>9. CarryBound'
  <2> SUFFICES ASSUME NEW t \in Segments
               PROVE  /\ enqueuePos'[t].cap <= CapacityCeiling
                      /\ enqueuePos'[t].pos <=
                            enqueuePos'[t].cap + ClampDistance + Cardinality(Clampers(t)')
    BY DEF CarryBound
  <2>1. CASE t # s
    <3>1. Clampers(t)' = Clampers(t)
      BY <1>4, <1>6, <2>1 DEF Clampers, producerVars
    <3> QED
      BY <1>4, <2>1, <3>1 DEF CarryBound
  <2>2. CASE t = s
    <3>1. Clampers(t)' \subseteq Producers
      BY DEF Clampers
    <3>2. Cardinality(Clampers(t)') \in Nat
      BY <3>1, FS_Subset, FS_CardinalityType
    <3> HIDE DEF n
    <3>3. n <= n + ClampDistance + Cardinality(Clampers(t)')
      BY <1>1, <3>2
    <3> QED
      BY <1>2, <1>4, <2>2, <3>3
  <2> QED
    BY <2>1, <2>2
<1>10. LifeOfSegment'
  <2> SUFFICES ASSUME NEW t \in Segments
               PROVE  /\ 1 <= capacity'[t] /\ capacity'[t] <= originalCapacity[t]
                      /\ dequeueState[t] <= capacity'[t]
                      /\ enqueuePos'[t].cap = capacity'[t]
                      /\ dequeueState[t] <= enqueuePos'[t].pos
    BY <1>6 DEF LifeOfSegment, Reopening
  <2>1. CASE t = s
    BY <1>1, <1>2, <1>4, <1>5, <2>1
  <2>2. CASE t # s
    BY <1>4, <1>5, <2>2 DEF LifeOfSegment, Reopening, ShrinkClose
  <2> QED
    BY <2>1, <2>2
<1>11. PublishedWindow'
  <2> SUFFICES ASSUME NEW t \in Segments, NEW i \in SlotIndexes, buffer[t][i].ready
               PROVE  i < enqueuePos'[t].pos /\ i < capacity'[t]
    BY <1>6 DEF PublishedWindow
  <2> QED
    BY <1>1, <1>4, <1>5 DEF PublishedWindow
<1>12. ClaimedWindow'
  <2> SUFFICES ASSUME NEW q \in Producers, NEW t \in Segments, Owns(q, t)
               PROVE  pidx[q] < enqueuePos'[t].pos /\ pidx[q] < capacity'[t]
    BY <1>6, <1>8 DEF ClaimedWindow, Item, producerVars
  <2> QED
    BY <1>1, <1>4, <1>5 DEF ClaimedWindow
<1>13. ConsumerControl'
  <2>1. cpc' = "retire" => dequeueState[s] = n
    BY <1>1, <1>6, SegmentTypes
  <2> QED
    BY <1>5, <1>6, <2>1 DEF ConsumerControl
<1>14. ProducerControl'
  BY <1>6 DEF ProducerControl, producerVars
<1> QED
  BY <1>7, <1>9, <1>10, <1>11, <1>12, <1>13, <1>14

LEMMA DestroyInvariant == IInv /\ Destroy => IInv'
<1> SUFFICES ASSUME IInv, Destroy PROVE IInv'
  OBVIOUS
<1> USE DEF IInv, LifeInvariant
<1>1. /\ cpc = "idle" /\ cpc' = "destroyed"
      /\ \A p \in Producers : ppc[p] = "idle"
      /\ buffer' = [s \in Segments |-> FreshBuffer]
      /\ UNCHANGED <<enqueuePos, originalCapacity, capacity, dequeueState, producerVars>>
  BY DEF Destroy
<1>2. discarded' \subseteq Items
  <2> SUFFICES ASSUME NEW s \in Segments, NEW i \in PublishedIn(s)
               PROVE  buffer[s][i].item \in Items
    BY DEF Destroy
  <2>1. i \in Nat /\ i < originalCapacity[s] /\ buffer[s][i].ready
    BY SegmentTypes DEF PublishedIn
  <2>2. i \in SlotIndexes
    BY <2>1, SegmentTypes, CeilingFacts
  <2> QED
    BY <2>1, <2>2 DEF PublishedWindow
<1>3. TypeOK'
  BY <1>1, <1>2, SlotFacts DEF TypeOK, Destroy, targetVars, producerVars
<1>4. \A p \in Producers, s \in Segments : ~Owns(p, s) /\ ~Owns(p, s)'
  BY <1>1 DEF Owns, producerVars
<1>5. \A s \in Segments, i \in SlotIndexes : ~buffer'[s][i].ready
  BY <1>1, SlotFacts DEF FreshBuffer
<1>6. CarryBound'
  <2>1. \A t \in Segments : Clampers(t)' = Clampers(t)
    BY <1>1 DEF Clampers, producerVars
  <2> QED
    BY <1>1, <2>1 DEF CarryBound
<1>7. LifeOfSegment'
  BY <1>1 DEF LifeOfSegment, Reopening
<1>8. PublishedWindow' /\ ClaimedWindow'
  BY <1>4, <1>5 DEF PublishedWindow, ClaimedWindow
<1>9. ConsumerControl' /\ ProducerControl'
  BY <1>1 DEF ConsumerControl, ProducerControl, producerVars
<1> QED
  BY <1>3, <1>6, <1>7, <1>8, <1>9

-----------------------------------------------------------------------------
\* The invariant, and what follows from it.

\* The invariant is inductive: no step of a producer, of the consumer or of the
\* destructor leaves it.
LEMMA NextInvariant == IInv /\ [Next]_vars => IInv'
<1> SUFFICES ASSUME IInv, [Next]_vars PROVE IInv'
  OBVIOUS
<1>1. ASSUME NEW p \in Producers, PushBegin(p) \/ ProducerStep(p)
      PROVE  IInv'
  BY <1>1, PushBeginInvariant, ClaimSlotInvariant, ClaimFailsInvariant, ClampInvariant,
     AdvanceTargetInvariant, RefuseInvariant, ConstructInvariant, PublishInvariant
     DEF ProducerStep
<1>2. CASE ConsumerStep
  BY <1>2, PopBeginInvariant, TryReadyInvariant, TryNextInvariant, TakeInvariant,
     RegrowInvariant, RecycleInPlaceInvariant, ReopenInvariant, PopEndInvariant,
     ShrinkTargetInvariant, ShrinkCheckInvariant, ShrinkCloseInvariant,
     ShrinkContendedInvariant
     DEF ConsumerStep
<1>3. CASE Destroy
  BY <1>3, DestroyInvariant
<1>4. CASE UNCHANGED vars
  <2>1. UNCHANGED <<segmentVars, producerTarget, targetVars, producerVars,
                    consumerVars, historyVars>>
    BY <1>4 DEF vars
  <2>2. TypeOK'
    BY <2>1 DEF IInv, TypeOK, segmentVars, targetVars, producerVars, consumerVars, historyVars
  <2>3. CarryBound'
    BY <2>1 DEF IInv, LifeInvariant, CarryBound, Clampers, segmentVars, producerVars
  <2>4. LifeOfSegment'
    BY <2>1 DEF IInv, LifeInvariant, LifeOfSegment, Reopening, Owns, segmentVars,
            producerVars, consumerVars
  <2>5. PublishedWindow' /\ ClaimedWindow'
    BY <2>1 DEF IInv, LifeInvariant, PublishedWindow, ClaimedWindow, Owns, Item,
            segmentVars, producerVars
  <2>6. ConsumerControl' /\ ProducerControl'
    BY <2>1 DEF IInv, LifeInvariant, ConsumerControl, ProducerControl, HasReady,
            segmentVars, producerVars, consumerVars
  <2> QED
    BY <2>2, <2>3, <2>4, <2>5, <2>6 DEF IInv, LifeInvariant
<1> QED
  BY <1>1, <1>2, <1>3, <1>4 DEF Next, Destroyed

\* The inductive invariant holds in every reachable state.
THEOREM Invariance == Spec => []IInv
<1>1. Init => IInv
  BY InitInvariant
<1>2. IInv /\ [Next]_vars => IInv'
  BY NextInvariant
<1> QED
  BY <1>1, <1>2, PTL DEF Spec

\* Every variable keeps its type: in particular no segment outgrows the larger
\* of the initial and the maximal capacity, whatever the growth ratio (line 379).
THEOREM TypeCorrectness == Spec => []TypeOK
<1>1. IInv => TypeOK
  BY DEF IInv
<1> QED
  BY <1>1, Invariance, PTL

\* A claim is exclusive and pins the life of its segment (lines 302 to 338).
THEOREM OwnershipIsExclusive == Spec => []SlotOwnership
<1>1. IInv => SlotOwnership
  <2> SUFFICES ASSUME IInv, NEW p \in Producers, NEW s \in Segments, Owns(p, s)
               PROVE  /\ pidx[p] < originalCapacity[s]
                      /\ dequeueState[s] <= pidx[p] /\ pidx[p] < capacity[s]
                      /\ ~buffer[s][pidx[p]].ready
                      /\ ~(cpc \in {"retire", "reopen"} /\ rseg = s)
                      /\ \A q \in Producers \ {p} : Owns(q, s) => pidx[q] # pidx[p]
    BY DEF SlotOwnership
  <2>1. /\ dequeueState[s] <= pidx[p] /\ pidx[p] < capacity[s] /\ pidx[p] \in Nat
        /\ ~buffer[s][pidx[p]].ready
        /\ \A q \in Producers \ {p} : Owns(q, s) => pidx[q] # pidx[p]
        /\ capacity[s] <= originalCapacity[s]
    BY DEF IInv, LifeInvariant, ClaimedWindow, LifeOfSegment, TypeOK
  <2>2. pidx[p] < originalCapacity[s]
    BY <2>1, SegmentTypes DEF IInv
  <2>3. ~(cpc = "retire" /\ rseg = s)
    BY RetiredIsDrained
  <2>4. ~(cpc = "reopen" /\ rseg = s)
    BY DEF IInv, LifeInvariant, LifeOfSegment, Reopening
  <2> QED
    BY <2>1, <2>2, <2>3, <2>4
<1> QED
  BY <1>1, Invariance, PTL

\* Wasted increments never reopen a full segment, however many producers fail on
\* it (lines 311 to 332): only the reopening store of the consumer does.
THEOREM FullSegmentsStayFull == Spec => FullStaysFull
<1> DEFINE OnlyReopened ==
             \A s \in Segments : IsFull(enqueuePos[s]) /\ ~IsFull(enqueuePos'[s])
                => cpc = "reopen" /\ rseg = s
<1>1. ASSUME IInv, Next
      PROVE  OnlyReopened
  <2> SUFFICES ASSUME NEW s \in Segments, IsFull(enqueuePos[s]), enqueuePos' # enqueuePos,
                      ~(cpc = "reopen" /\ rseg = s)
               PROVE  IsFull(enqueuePos'[s])
    OBVIOUS
  <2> USE DEF IInv
  <2>1. enqueuePos[s].cap \in Nat /\ enqueuePos[s].pos \in Nat
    BY <1>1, SegmentTypes
  <2>2. ASSUME NEW p \in Producers, ClaimSlot(p) PROVE IsFull(enqueuePos'[s])
    BY <1>1, <2>2 DEF ClaimSlot, TypeOK
  <2>3. ASSUME NEW p \in Producers, ClaimFails(p) PROVE IsFull(enqueuePos'[s])
    <3>1. CASE s = pseg[p]
      <4>1. enqueuePos[s].pos + 1 < PosModulus
        BY <1>1, <2>3, HeadroomLeft DEF LifeInvariant, ClaimFails
      <4>2. FetchAdd(enqueuePos[s]) = [cap |-> enqueuePos[s].cap, pos |-> enqueuePos[s].pos + 1]
        BY <1>1, <4>1, SegmentTypes, FetchAddNoCarry
      <4>3. enqueuePos'[s] = FetchAdd(enqueuePos[s])
        BY <1>1, <2>3, <3>1 DEF ClaimFails, TypeOK
      <4> QED
        BY <2>1, <4>2, <4>3 DEF IsFull
    <3>2. CASE s # pseg[p]
      BY <1>1, <2>3, <3>2 DEF ClaimFails, TypeOK
    <3> QED
      BY <3>1, <3>2
  <2>4. ASSUME NEW p \in Producers, Clamp(p) PROVE IsFull(enqueuePos'[s])
    BY <1>1, <2>1, <2>4 DEF Clamp, Clamped, TypeOK, Word, IsFull
  <2>5. CASE Reopen
    BY <1>1, <2>5 DEF Reopen, TypeOK
  <2>6. CASE ShrinkClose
    BY <1>1, <2>1, <2>6 DEF ShrinkClose, ClosedWord, TypeOK, Word, Words, IsFull
  <2>7. \/ \E p \in Producers : ClaimSlot(p) \/ ClaimFails(p) \/ Clamp(p)
        \/ Reopen \/ ShrinkClose
    BY <1>1 DEF Next, ProducerStep, ConsumerStep, PushBegin, AdvanceTarget, Refuse,
       Construct, Publish, PopBegin, TryReady, TryNext, Take, Regrow, RecycleInPlace,
       RebuildTo, PopEnd, ShrinkTarget, ShrinkCheck, ShrinkContended, Destroy,
       Destroyed, vars, segmentVars
  <2> QED
    BY <2>2, <2>3, <2>4, <2>5, <2>6, <2>7
<1>2. IInv /\ [Next]_vars => [OnlyReopened]_vars
  BY <1>1
<1> QED
  BY <1>2, Invariance, PTL DEF Spec, FullStaysFull

-----------------------------------------------------------------------------
\* Where the elements are.

\* A slot that holds a published element is one of PublishedIn, and the element is an item.
LEMMA HeldFacts ==
    ASSUME IInv, NEW s \in Segments, NEW i \in SlotIndexes, buffer[s][i].ready
    PROVE  /\ buffer[s][i].item \in Items /\ i \in PublishedIn(s)
           /\ dequeueState[s] <= i /\ i < capacity[s] /\ i < enqueuePos[s].pos
<1>1. /\ dequeueState[s] <= i /\ i < enqueuePos[s].pos /\ i < capacity[s]
      /\ buffer[s][i].item \in Items /\ capacity[s] <= originalCapacity[s]
  BY DEF IInv, LifeInvariant, PublishedWindow, LifeOfSegment
<1>2. i \in Nat /\ capacity[s] \in Nat /\ originalCapacity[s] \in Nat
  BY SegmentTypes DEF IInv
<1>3. i \in 0 .. originalCapacity[s] - 1
  BY <1>1, <1>2
<1> QED
  BY <1>1, <1>3 DEF PublishedIn

LEMMA PublishedIsSlot ==
    ASSUME IInv, NEW s \in Segments, NEW i \in PublishedIn(s)
    PROVE  i \in SlotIndexes /\ buffer[s][i].ready
<1>1. i \in 0 .. originalCapacity[s] - 1 /\ buffer[s][i].ready
  BY DEF PublishedIn
<1>2. originalCapacity[s] \in Nat /\ originalCapacity[s] <= CapacityCeiling
  BY SegmentTypes DEF IInv
<1> QED
  BY <1>1, <1>2, CeilingFacts DEF SlotIndexes

LEMMA InsideIsHeld ==
    IInv => Inside = {x \in Items : \E s \in Segments, i \in SlotIndexes : Held(x, s, i)}
<1> SUFFICES ASSUME IInv
             PROVE  Inside = {x \in Items : \E s \in Segments, i \in SlotIndexes : Held(x, s, i)}
  OBVIOUS
<1>1. ASSUME NEW x \in Inside
      PROVE  x \in Items /\ \E s \in Segments, i \in SlotIndexes : Held(x, s, i)
  <2>1. PICK s \in Segments : x \in {buffer[s][i].item : i \in PublishedIn(s)}
    BY DEF Inside
  <2>2. PICK i \in PublishedIn(s) : x = buffer[s][i].item
    BY <2>1
  <2> QED
    BY <2>2, PublishedIsSlot, HeldFacts DEF Held
<1>2. ASSUME NEW x, NEW s \in Segments, NEW i \in SlotIndexes, Held(x, s, i) PROVE x \in Inside
  BY <1>2, HeldFacts DEF Held, Inside
<1> QED
  BY <1>1, <1>2

\* The same in the next state.
LEMMA InsideIsHeldNext ==
    (IInv => Inside = {x \in Items : \E s \in Segments, i \in SlotIndexes : Held(x, s, i)})'
BY InsideIsHeld, PTL

\* A step that publishes, delivers and claims nothing keeps the ledger.
LEMMA LedgerKept ==
    ASSUME Ledger,
           \A x \in Items, s \in Segments, i \in SlotIndexes : Held(x, s, i)' => Held(x, s, i),
           \A x \in Items : Finished(x) => Finished(x)',
           \A p \in Producers, s \in Segments : Owns(p, s)' => Owns(p, s) /\ pidx'[p] = pidx[p],
           delivered \subseteq Items, discarded \subseteq Items,
           UNCHANGED <<delivered, discarded>>, cpc = "destroyed" => cpc' = "destroyed"
    PROVE  Ledger'
BY DEF Ledger

-----------------------------------------------------------------------------
\* What a step does to the elements: nothing, or the step of Handoff it stands for.

LEMMA LedgerInit == Init => Ledger
BY DEF Init, Ledger, Held, FreshBuffer, EmptySlot

\* The elements stay where they are and no producer gets a slot.
Quiet ==
    /\ \A x \in Items, s \in Segments, i \in SlotIndexes : Held(x, s, i)' <=> Held(x, s, i)
    /\ \A x \in Items : Finished(x) => Finished(x)'
    /\ \A p \in Producers, s \in Segments : Owns(p, s)' => Owns(p, s) /\ pidx'[p] = pidx[p]
    /\ UNCHANGED <<delivered, discarded>> /\ (cpc = "destroyed" => cpc' = "destroyed")

LEMMA ConsumerQuiet ==
    ASSUME IInv, ConsumerStep, ~Take
    PROVE  Quiet
<1> USE DEF segmentVars, targetVars, producerVars, consumerVars, historyVars
<1>1. UNCHANGED <<producerVars, historyVars>> /\ cpc # "destroyed"
  BY DEF ConsumerStep, PopBegin, TryReady, TryNext, Regrow, RecycleInPlace, RebuildTo, Reopen,
         PopEnd, ShrinkTarget, ShrinkCheck, ShrinkClose, ShrinkContended
<1>2. CASE Regrow \/ RecycleInPlace
  <2>1. cpc = "retire" /\ buffer' = [buffer EXCEPT ![rseg] = FreshBuffer]
    BY <1>2 DEF Regrow, RecycleInPlace, RebuildTo
  <2>2. \A i \in SlotIndexes : ~buffer[rseg][i].ready
    BY <2>1, RetiredIsDrained
  <2>3. \A s \in Segments, i \in SlotIndexes :
           /\ s # rseg => buffer'[s][i] = buffer[s][i]
           /\ ~buffer'[rseg][i].ready
    BY <2>1 DEF FreshBuffer, EmptySlot, IInv, TypeOK
  <2> QED
    BY <1>1, <2>2, <2>3 DEF Quiet, Held, Finished, Owns
<1>3. CASE ~(Regrow \/ RecycleInPlace)
  <2>1. UNCHANGED buffer
    BY <1>3 DEF ConsumerStep, PopBegin, TryReady, TryNext, Reopen,
         PopEnd, ShrinkTarget, ShrinkCheck, ShrinkClose, ShrinkContended
  <2> QED
    BY <1>1, <2>1 DEF Quiet, Held, Finished, Owns
<1> QED
  BY <1>2, <1>3

LEMMA ProducerQuiet ==
    ASSUME IInv, NEW p \in Producers,
           \/ PushBegin(p) \/ ClaimFails(p) \/ Clamp(p)
           \/ AdvanceTarget(p) \/ Refuse(p) \/ Construct(p)
    PROVE  Quiet
<1> USE DEF segmentVars, targetVars, producerVars, consumerVars, historyVars
<1>1. UNCHANGED <<consumerVars, historyVars>>
  BY DEF PushBegin, ClaimFails, Clamp, AdvanceTarget, Refuse, Construct
<1>2. \A s \in Segments, i \in SlotIndexes :
         /\ buffer'[s][i].ready = buffer[s][i].ready
         /\ buffer[s][i].ready => buffer'[s][i] = buffer[s][i]
  <2>1. CASE Construct(p)
    <3>1. ~buffer[pseg[p]][pidx[p]].ready /\ pseg[p] \in Segments
      BY <2>1 DEF IInv, TypeOK, LifeInvariant, ClaimedWindow, Owns, Construct
    <3>2. \A s \in Segments, i \in SlotIndexes :
             /\ ~(s = pseg[p] /\ i = pidx[p]) => buffer'[s][i] = buffer[s][i]
             /\ buffer'[s][i].ready = buffer[s][i].ready
      BY <2>1 DEF Construct, IInv, TypeOK, Slot
    <3> QED
      BY <3>1, <3>2
  <2>2. CASE ~Construct(p)
    BY <2>2 DEF PushBegin, ClaimFails, Clamp, AdvanceTarget, Refuse
  <2> QED
    BY <2>1, <2>2
<1>3. \A x \in Items, s \in Segments, i \in SlotIndexes : Held(x, s, i)' <=> Held(x, s, i)
  BY <1>2 DEF Held
<1>4. /\ \A q \in Producers : q # p => ppc'[q] = ppc[q] /\ pnum'[q] = pnum[q] /\ pseg'[q] = pseg[q]
      /\ UNCHANGED pidx
  BY DEF PushBegin, ClaimFails, Clamp, AdvanceTarget, Refuse, Construct, IInv, TypeOK
<1>5. /\ ppc'[p] \in {"construct", "publish"} => ppc[p] = "construct" /\ pseg'[p] = pseg[p]
      /\ \/ ppc[p] # "idle" /\ pnum'[p] = pnum[p]
         \/ ppc[p] = "idle" /\ pnum'[p] = pnum[p] + 1
         \/ ppc[p] # "idle" /\ ppc'[p] = "idle" /\ pnum'[p] = pnum[p] - 1
  BY DEF PushBegin, ClaimFails, Clamp, AdvanceTarget, Refuse, Construct, IInv, TypeOK
<1>6. \A x \in Items : Finished(x) => Finished(x)'
  <2> SUFFICES ASSUME NEW x \in Items, Finished(x) PROVE Finished(x)'
    OBVIOUS
  <2>1. x[1] \in Producers /\ x[2] \in Nat /\ pnum[x[1]] \in Nat
    BY DEF Items, IInv, TypeOK
  <2> QED
    BY <1>4, <1>5, <2>1 DEF Finished
<1>7. \A q \in Producers, s \in Segments : Owns(q, s)' => Owns(q, s) /\ pidx'[q] = pidx[q]
  BY <1>4, <1>5 DEF Owns
<1> QED
  BY <1>1, <1>3, <1>6, <1>7 DEF Quiet

LEMMA ClaimSlotLedger ==
    ASSUME IInv, Ledger, NEW p \in Producers, ClaimSlot(p)
    PROVE  Ledger' /\ UNCHANGED <<delivered, discarded>>
           /\ \A x \in Items, s \in Segments, i \in SlotIndexes : Held(x, s, i)' <=> Held(x, s, i)
<1> USE DEF ClaimSlot, historyVars, consumerVars
<1>1. \A x, s, i : Held(x, s, i)' <=> Held(x, s, i)
  BY DEF Held
<1>2. UNCHANGED <<delivered, discarded, cpc>>
  OBVIOUS
<1>3. \A x \in Items : Finished(x) => Finished(x)'
  BY DEF Finished, IInv, TypeOK
<1>4. \A q \in Producers, s \in Segments :
         Owns(q, s)' => \/ Owns(q, s) /\ pidx'[q] = pidx[q]
                        \/ q = p /\ s = pseg[p] /\ pidx'[q] = enqueuePos[s].pos
  BY DEF Owns, IInv, TypeOK
<1>5. \A x \in Items, s \in Segments, i \in SlotIndexes : Held(x, s, i) => i < enqueuePos[s].pos
  BY HeldFacts DEF Held
<1>6. ASSUME NEW x \in Items, NEW s \in Segments, NEW i \in SlotIndexes, Held(x, s, i)
      PROVE  \A q \in Producers : Owns(q, s)' /\ x[1] = q => i < pidx'[q]
  BY <1>4, <1>5, <1>6 DEF Ledger
<1> QED
  BY <1>1, <1>2, <1>3, <1>6 DEF Ledger, IInv, TypeOK

\* ready_.store(true) hands Item(p) in.
LEMMA PublishLedger ==
    ASSUME IInv, Ledger, NEW p \in Producers, Publish(p)
    PROVE  /\ Ledger' /\ UNCHANGED <<delivered, discarded>>
           /\ Item(p) \in Items /\ Item(p) \notin delivered \cup discarded
           /\ \A s \in Segments, i \in SlotIndexes : ~Held(Item(p), s, i)
           /\ \A x \in Items, s \in Segments, i \in SlotIndexes :
                 Held(x, s, i)' <=> Held(x, s, i) \/ (x = Item(p) /\ s = pseg[p] /\ i = pidx[p])
           /\ pseg[p] \in Segments /\ pidx[p] \in SlotIndexes
<1> USE DEF Publish, historyVars, consumerVars
<1>0. PICK z \in Items : z = Item(p)
  BY DEF Item, Items, IInv, LifeInvariant, ProducerControl
<1>1. /\ pseg[p] \in Segments /\ Owns(p, pseg[p]) /\ pidx[p] \in SlotIndexes
      /\ ~buffer[pseg[p]][pidx[p]].ready /\ buffer[pseg[p]][pidx[p]].item = z
  <2>1. pseg[p] \in Segments /\ Owns(p, pseg[p]) /\ pidx[p] \in Nat
    BY DEF Owns, IInv, TypeOK
  <2>2. pidx[p] < capacity[pseg[p]]
        /\ ~buffer[pseg[p]][pidx[p]].ready /\ buffer[pseg[p]][pidx[p]].item = z
    BY <1>0, <2>1 DEF IInv, LifeInvariant, ClaimedWindow
  <2>3. pidx[p] \in SlotIndexes
    BY <2>1, <2>2, SegmentTypes, CeilingFacts DEF IInv
  <2> QED
    BY <2>1, <2>2, <2>3
<1>2. z \in Items /\ z[1] = p /\ z[2] = pnum[p] /\ ~Finished(z) /\ pnum[p] \in Nat
  BY <1>0 DEF Item, Items, Finished, IInv, LifeInvariant, ProducerControl
<1>3. z \notin delivered \cup discarded /\ \A s \in Segments, i \in SlotIndexes : ~Held(z, s, i)
  BY <1>2 DEF Ledger
<1>4. \A x \in Items, s \in Segments, i \in SlotIndexes :
         Held(x, s, i)' <=> Held(x, s, i) \/ (x = z /\ s = pseg[p] /\ i = pidx[p])
  <2>1. \A s \in Segments, i \in SlotIndexes :
           /\ ~(s = pseg[p] /\ i = pidx[p]) => buffer'[s][i] = buffer[s][i]
           /\ buffer'[s][i].item = buffer[s][i].item
           /\ buffer'[pseg[p]][pidx[p]].ready
    BY <1>1 DEF IInv, TypeOK, Slot
  <2> QED
    BY <1>1, <2>1 DEF Held
<1>5. UNCHANGED <<delivered, discarded, cpc>>
  OBVIOUS
<1>6. (\A x \in Items : Finished(x) => Finished(x)') /\ Finished(z)'
  <2>1. /\ \A q \in Producers : q # p => ppc'[q] = ppc[q]
        /\ ppc[p] = "publish" /\ ppc'[p] = "idle" /\ UNCHANGED pnum
        /\ \A x \in Items : x[1] \in Producers /\ x[2] \in Nat /\ pnum[x[1]] \in Nat
    BY DEF IInv, TypeOK, Items
  <2> QED
    BY <1>2, <2>1 DEF Finished
<1>7. \A q \in Producers, s \in Segments : Owns(q, s)' => Owns(q, s) /\ pidx'[q] = pidx[q] /\ q # p
  BY DEF Owns, IInv, TypeOK
<1>8. \A x \in Items, s \in Segments, i \in SlotIndexes :
         Held(x, s, i) /\ x[1] = p => x[2] < z[2] /\ (s = pseg[p] => i < pidx[p])
  BY <1>1, <1>2 DEF Ledger, Finished, Owns
<1>9. ASSUME NEW x \in Items, NEW s \in Segments, NEW i \in SlotIndexes, Held(x, s, i)'
      PROVE  /\ Finished(x)' /\ x \notin delivered' \cup discarded'
             /\ \A t \in Segments, j \in SlotIndexes : Held(x, t, j)' => t = s /\ j = i
             /\ \A q \in Producers : Owns(q, s)' /\ x[1] = q => i < pidx'[q]
  <2>1. CASE Held(x, s, i)
    <3>1. \A t \in Segments, j \in SlotIndexes : Held(x, t, j) => t = s /\ j = i
      BY <2>1 DEF Ledger
    <3>2. \A q \in Producers : Owns(q, s) /\ x[1] = q => i < pidx[q]
      BY <2>1 DEF Ledger
    <3>3. x # z /\ Finished(x) /\ x \notin delivered \cup discarded
      BY <1>3, <2>1 DEF Ledger
    <3> QED
      BY <1>4, <1>5, <1>6, <1>7, <3>1, <3>2, <3>3
  <2>2. CASE x = z /\ s = pseg[p] /\ i = pidx[p]
    BY <1>2, <1>3, <1>4, <1>5, <1>6, <1>7, <2>2
  <2> QED
    BY <1>4, <1>9, <2>1, <2>2
<1>10. ASSUME NEW x \in Items, NEW s \in Segments, NEW i \in SlotIndexes, Held(x, s, i)',
              NEW y \in Items, NEW j \in SlotIndexes, Held(y, s, j)', x[1] = y[1], x[2] < y[2]
       PROVE  i < j
  <2>0. x[2] \in Nat /\ y[2] \in Nat
    BY DEF Items
  <2>1. CASE Held(x, s, i) /\ Held(y, s, j)
    BY <1>10, <2>1 DEF Ledger
  <2>2. CASE Held(x, s, i) /\ ~Held(y, s, j)
    BY <1>2, <1>4, <1>8, <1>10, <2>2
  <2>3. CASE ~Held(x, s, i)
    BY <1>2, <1>4, <1>8, <1>10, <2>0, <2>3
  <2> QED
    BY <2>1, <2>2, <2>3
<1>11. Ledger'
  <2>1. \A x \in delivered' \cup discarded' : Finished(x)'
    BY <1>5, <1>6 DEF Ledger, IInv, TypeOK
  <2>2. cpc' # "destroyed" => discarded' = {}
    BY <1>5 DEF Ledger
  <2> QED
    BY <1>9, <1>10, <2>1, <2>2 DEF Ledger
<1> QED
  BY <1>0, <1>1, <1>2, <1>3, <1>4, <1>5, <1>11

\* pop_front delivers the element at the drain cursor.
LEMMA TakeLedger ==
    ASSUME IInv, Ledger, Take
    PROVE  /\ Ledger'
           /\ \E x \in Items, s \in Segments, i \in SlotIndexes :
                /\ Held(x, s, i) /\ delivered' = delivered \cup {x} /\ UNCHANGED discarded
                /\ \A y \in Items, t \in Segments, j \in SlotIndexes :
                      Held(y, t, j)' <=> Held(y, t, j) /\ y # x
<1> USE DEF Take, producerVars
<1> DEFINE k == dequeueState[cseg]
           x == buffer[cseg][k].item
<1>1. cseg \in Segments /\ k \in SlotIndexes /\ buffer[cseg][k].ready
  <2>1. cseg \in Segments /\ HasReady(cseg)
    BY DEF IInv, TypeOK, LifeInvariant, ConsumerControl
  <2>2. k \in Nat /\ k < capacity[cseg] /\ capacity[cseg] \in Nat /\ capacity[cseg] <= CapacityCeiling
    BY <2>1, SegmentTypes DEF IInv, HasReady
  <2> QED
    BY <2>1, <2>2, CeilingFacts DEF HasReady, SlotIndexes
<1>2. x \in Items /\ Held(x, cseg, k)
  BY <1>1, HeldFacts DEF Held
<1>3. \A t \in Segments, j \in SlotIndexes :
         /\ ~(t = cseg /\ j = k) => buffer'[t][j] = buffer[t][j]
         /\ ~buffer'[cseg][k].ready
  BY <1>1 DEF IInv, TypeOK, EmptySlot
<1>4. UNCHANGED <<discarded, ppc, pseg, pidx, pnum>> /\ cpc # "destroyed" /\ delivered' = delivered \cup {x}
  OBVIOUS
<1> HIDE DEF x, k
<1>5. \A y \in Items, t \in Segments, j \in SlotIndexes : Held(y, t, j)' <=> Held(y, t, j) /\ y # x
  <2>1. \A y \in Items, t \in Segments, j \in SlotIndexes :
           Held(y, t, j)' <=> Held(y, t, j) /\ ~(t = cseg /\ j = k)
    BY <1>3 DEF Held
  <2>2. \A y \in Items, t \in Segments, j \in SlotIndexes : Held(y, t, j) => (t = cseg /\ j = k <=> y = x)
    BY <1>1, <1>2 DEF Ledger, Held
  <2> QED
    BY <2>1, <2>2
<1>6. (\A y : Finished(y)' <=> Finished(y)) /\ \A q, s : Owns(q, s)' <=> Owns(q, s)
  BY <1>4 DEF Finished, Owns
<1>7. Ledger'
  <2>1. \A y \in delivered' \cup discarded' : Finished(y)'
    BY <1>1, <1>2, <1>4, <1>6 DEF Ledger
  <2>2. discarded' = {}
    BY <1>4 DEF Ledger
  <2>3. ASSUME NEW y \in Items, NEW s \in Segments, NEW i \in SlotIndexes, Held(y, s, i)'
        PROVE  /\ Finished(y)' /\ y \notin delivered' \cup discarded'
               /\ \A t \in Segments, j \in SlotIndexes : Held(y, t, j)' => t = s /\ j = i
               /\ \A w \in Items, j \in SlotIndexes :
                    Held(w, s, j)' /\ y[1] = w[1] /\ y[2] < w[2] => i < j
               /\ \A p \in Producers : Owns(p, s)' /\ y[1] = p => i < pidx'[p]
    <3>1. Held(y, s, i) /\ y # x
      BY <1>5, <2>3
    <3> QED
      BY <1>4, <1>5, <1>6, <3>1 DEF Ledger
  <2> QED
    BY <2>1, <2>2, <2>3 DEF Ledger
<1> QED
  BY <1>1, <1>2, <1>4, <1>5, <1>7

\* The destructor destroys what is left.
LEMMA DestroyLedger ==
    ASSUME IInv, Ledger, Destroy
    PROVE  /\ Ledger' /\ discarded = {} /\ discarded' = Inside /\ UNCHANGED delivered
           /\ \A x \in Items, s \in Segments, i \in SlotIndexes : ~Held(x, s, i)'
<1> USE DEF Destroy, producerVars
<1>1. discarded = {} /\ discarded' = Inside /\ UNCHANGED <<delivered, ppc, pnum>> /\ cpc' = "destroyed"
  BY DEF Ledger, Inside
<1>2. \A x \in Items, s \in Segments, i \in SlotIndexes : ~Held(x, s, i)'
  BY DEF Held, FreshBuffer, EmptySlot
<1>3. \A x \in delivered' \cup discarded' : Finished(x)'
  <2>1. \A x \in Inside : Finished(x)
    BY InsideIsHeld DEF Ledger
  <2> QED
    BY <1>1, <2>1 DEF Ledger, Finished
<1> QED
  BY <1>1, <1>2, <1>3 DEF Ledger

-----------------------------------------------------------------------------
\* The step of Handoff that a step of the queue is.
HandoffStep ==
    \/ \E x \in Items : /\ x \notin Inside \cup delivered \cup discarded
                        /\ Inside' = Inside \cup {x} /\ UNCHANGED <<delivered, discarded>>
    \/ \E x \in Items : /\ x \in Inside /\ Inside' = Inside \ {x}
                        /\ delivered' = delivered \cup {x} /\ UNCHANGED discarded
    \/ Inside # {} /\ discarded' = discarded \cup Inside /\ Inside' = {} /\ UNCHANGED delivered
    \/ UNCHANGED <<Inside, delivered, discarded>>

LEMMA StepHandsOff ==
    ASSUME IInv, IInv', Ledger, [Next]_vars
    PROVE  Ledger' /\ HandoffStep
<1>1. /\ Inside = {x \in Items : \E s \in Segments, i \in SlotIndexes : Held(x, s, i)}
      /\ Inside' = {x \in Items : \E s \in Segments, i \in SlotIndexes : Held(x, s, i)'}
  BY InsideIsHeld, InsideIsHeldNext
<1>2. ASSUME Quiet PROVE Ledger' /\ HandoffStep
  <2>1. Inside' = Inside
    BY <1>1, <1>2 DEF Quiet
  <2>2. Ledger'
    BY <1>2, LedgerKept DEF Quiet, IInv, TypeOK
  <2> QED
    BY <1>2, <2>1, <2>2 DEF Quiet, HandoffStep
<1>3. ASSUME NEW p \in Producers, ClaimSlot(p) PROVE Ledger' /\ HandoffStep
  <2>1. Inside' = Inside
    BY <1>1, <1>3, ClaimSlotLedger
  <2> QED
    BY <1>3, <2>1, ClaimSlotLedger DEF HandoffStep
<1>4. ASSUME NEW p \in Producers, Publish(p) PROVE Ledger' /\ HandoffStep
  <2>1. Item(p) \in Items /\ Item(p) \notin Inside \cup delivered \cup discarded
    BY <1>1, <1>4, PublishLedger
  <2>2. Inside' = Inside \cup {Item(p)}
    BY <1>1, <1>4, PublishLedger
  <2> QED
    BY <1>4, <2>1, <2>2, PublishLedger DEF HandoffStep
<1>5. CASE Take
  <2>1. PICK x \in Items, s \in Segments, i \in SlotIndexes :
           /\ Held(x, s, i) /\ delivered' = delivered \cup {x} /\ UNCHANGED discarded
           /\ \A y \in Items, t \in Segments, j \in SlotIndexes :
                 Held(y, t, j)' <=> Held(y, t, j) /\ y # x
    BY <1>5, TakeLedger
  <2>2. x \in Inside /\ Inside' = Inside \ {x}
    BY <1>1, <2>1
  <2> QED
    BY <1>5, <2>1, <2>2, TakeLedger DEF HandoffStep
<1>6. CASE Destroy
  <2>1. Inside' = {}
    BY <1>1, <1>6, DestroyLedger
  <2> QED
    BY <1>6, <2>1, DestroyLedger DEF HandoffStep
<1>7. CASE UNCHANGED vars
  <2>1. Quiet
    BY <1>7 DEF vars, segmentVars, producerVars, consumerVars, historyVars, Quiet, Held, Finished, Owns
  <2> QED
    BY <1>2, <2>1
<1> QED
  BY <1>2, <1>3, <1>4, <1>5, <1>6, <1>7, ConsumerQuiet, ProducerQuiet DEF Next, ProducerStep, Destroyed

\* The books of the queue, in every reachable state: an element whose push has returned is in
\* one place, and those of one producer are in order.
THEOREM LedgerHolds == Spec => [](IInv /\ Ledger)
<1>1. Init => IInv /\ Ledger
  BY InitInvariant, LedgerInit
<1>2. (IInv /\ Ledger) /\ [Next]_vars => (IInv /\ Ledger)'
  BY NextInvariant, StepHandsOff
<1> QED
  BY <1>1, <1>2, PTL DEF Spec

\* Pushes of one producer within one life of a segment keep their order (line 61).
THEOREM SegmentOrderHolds == Spec => []SegmentOrder
<1>1. IInv /\ Ledger => SegmentOrder
  <2> SUFFICES ASSUME IInv, Ledger, NEW s \in Segments, NEW p \in Producers
               PROVE  LET Mine == {n \in 1 .. MaxPushes :
                                     \E i \in PublishedIn(s) : buffer[s][i].item = <<p, n>>}
                          At(n) == CHOOSE i \in PublishedIn(s) : buffer[s][i].item = <<p, n>>
                      IN  /\ \A m, n \in Mine : m < n => At(m) < At(n)
                          /\ Owns(p, s) => \A n \in Mine : At(n) < pidx[p]
    BY DEF SegmentOrder
  <2> DEFINE Mine == {n \in 1 .. MaxPushes :
                        \E i \in PublishedIn(s) : buffer[s][i].item = <<p, n>>}
             At(n) == CHOOSE i \in PublishedIn(s) : buffer[s][i].item = <<p, n>>
  <2>1. ASSUME NEW n \in Mine
        PROVE  /\ At(n) \in SlotIndexes /\ Held(<<p, n>>, s, At(n))
               /\ <<p, n>> \in Items /\ <<p, n>>[1] = p /\ <<p, n>>[2] = n
    <3>1. At(n) \in PublishedIn(s) /\ buffer[s][At(n)].item = <<p, n>>
      OBVIOUS
    <3> HIDE DEF At
    <3> QED
      BY <3>1, PublishedIsSlot DEF Held, Items
  <2> HIDE DEF Mine, At
  <2>2. ASSUME NEW m \in Mine, NEW n \in Mine, m < n PROVE At(m) < At(n)
    BY <2>1, <2>2 DEF Ledger
  <2>3. ASSUME Owns(p, s), NEW n \in Mine PROVE At(n) < pidx[p]
    BY <2>1, <2>3 DEF Ledger
  <2> QED
    BY <2>2, <2>3 DEF Mine, At
<1> QED
  BY <1>1, LedgerHolds, PTL

\* Every accepted element is delivered at most once and never lost, over regrows, failed
\* allocations, early closes and the destructor: the queue implements Handoff.
THEOREM HandoffIsImplemented == Spec => ImplementsHandoff
<1>1. Init => H!Init
  <2> SUFFICES ASSUME Init PROVE H!Init
    OBVIOUS
  <2>1. Inside = {}
    BY InitInvariant, InsideIsHeld DEF Init, Held, FreshBuffer, EmptySlot
  <2> QED
    BY <2>1 DEF H!Init, Init
<1>2. (IInv /\ Ledger) /\ (IInv /\ Ledger)' /\ [Next]_vars => [H!Next]_(H!vars)
  BY StepHandsOff DEF HandoffStep, H!Next, H!vars, H!Accept, H!Deliver, H!Discard
<1> QED
  BY <1>1, <1>2, LedgerHolds, PTL DEF Spec, ImplementsHandoff, H!Spec
=============================================================================
