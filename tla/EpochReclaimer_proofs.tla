----------------------- MODULE EpochReclaimer_proofs -----------------------
(***************************************************************************)
(* What holds of EpochReclaimer for any number of processes, slots, CPUs,  *)
(* nodes and epochs.  The argument is in ProtectedSince: no process in a   *)
(* section is counted in a slot that a scan has passed, unless it has been *)
(* counted late enough not to matter to that scan.                         *)
(***************************************************************************)
EXTENDS EpochReclaimer, FiniteSetTheorems, TLAPS

USE SizesAssumption, ProcsAssumption

-----------------------------------------------------------------------------
\* The processes a slot counts.
Counted(p) == pc[p] \notin {"idle", "count"}
Readers(s) == {p \in Procs : Counted(p) /\ slot[p] = s}

\* The processes that hold the epoch: they read, or are about to.
Protected == InSection \cup {p \in Procs : pc[p] = "record"}

TypeInv ==
    /\ TypeOK
    /\ retired \in [Slots -> SUBSET Nodes] /\ detached \in [Procs -> SUBSET Nodes]
    /\ linked \in SUBSET Nodes /\ unused \in SUBSET Nodes

\* What each place of the code knows of the process's own variables.
Control ==
    \A p \in Procs :
        /\ pc[p] \in {"count", "record"} => seen[p] \in 1 .. epoch
        /\ pc[p] \in {"advDepth", "advEpoch", "advCas"} => seen[p] \in 1 .. MaxEpoch - 1
        /\ pc[p] \in {"advDepth", "advEpoch", "advCas", "recDepth", "recEpoch", "detach", "free"} =>
               seen[p] <= epoch
        /\ node[p] # NoNode <=> pc[p] \in {"stamp", "push"}
        /\ detached[p] # {} => pc[p] \in {"free", "putBack"}
        /\ pc[p] \notin {"advDepth", "advEpoch", "recDepth", "recEpoch"} => at[p] = 0
        /\ since[p] <= epoch

\* reader_depth_ is the number of processes the slot counts, whoever shares it.
DepthCounts == \A s \in Slots : depth[s] = Cardinality(Readers(s))

\* The epoch a slot carries, and the one its first reader is about to record there, are
\* no later than the moment at which any reader of the slot was counted.
SlotHoldsBack ==
    /\ \A s \in Slots : readerEpoch[s] <= epoch
    /\ \A p \in Protected :
        /\ readerEpoch[slot[p]] <= since[p]
        /\ \A w \in Procs : pc[w] = "record" /\ slot[w] = slot[p] => seen[w] <= since[p]

\* The scan of q is past slot s.
AdvancePassed(q, s) == pc[q] = "advCas" \/ (pc[q] \in {"advDepth", "advEpoch"} /\ s < at[q])
ReclaimPassed(q, s) == pc[q] \in {"detach", "free"} \/ (pc[q] \in {"recDepth", "recEpoch"} /\ s < at[q])

\* Whoever holds the epoch in a slot that a scan is past was counted at the epoch of that
\* scan, or for a scan before reclaiming less than Lag before it.
ProtectedSince ==
    \A p \in Protected, q \in Procs :
        /\ AdvancePassed(q, slot[p]) => seen[q] <= since[p]
        /\ ReclaimPassed(q, slot[p]) => seen[q] < since[p] + Lag

\* Nodes that have been stamped and not freed.
Stamped == {n \in Nodes : \/ \E p \in Procs : pc[p] = "push" /\ node[p] = n
                          \/ \E s \in Slots : n \in retired[s]
                          \/ \E p \in Procs : n \in detached[p]}

\* What a process may hold was not retired before the process was counted.
HeldIsRecent ==
    \A p \in InSection :
        /\ reach[p] \cap unused = {}
        /\ \A n \in reach[p] \cap Stamped : since[p] <= stamp[n]

\* Every node is in one place.
Placed ==
    /\ unused \cap linked = {}
    /\ \A p \in Procs :
        /\ node[p] \notin unused \cup linked
        /\ detached[p] \cap (unused \cup linked) = {} /\ node[p] \notin detached[p]
        /\ \A q \in Procs \ {p} :
            /\ node[p] # NoNode => node[p] # node[q]
            /\ node[p] \notin detached[q] /\ detached[p] \cap detached[q] = {}
        /\ \A s \in Slots : node[p] \notin retired[s] /\ detached[p] \cap retired[s] = {}
    /\ \A s \in Slots :
        /\ retired[s] \cap (unused \cup linked) = {}
        /\ \A r \in Slots \ {s} : retired[s] \cap retired[r] = {}
    /\ \A n \in Nodes :
        \/ n \in unused \cup linked
        \/ \E p \in Procs : node[p] = n \/ n \in detached[p]
        \/ \E s \in Slots : n \in retired[s]

IInv ==
    /\ TypeInv /\ Control /\ DepthCounts /\ SlotHoldsBack
    /\ ProtectedSince /\ ReadersHoldTheEpoch /\ HeldIsRecent /\ Placed

-----------------------------------------------------------------------------
\* The processes a slot counts are finitely many; a slot with depth 0 counts none, one with
\* depth 1 a single one.
LEMMA DepthFacts ==
    ASSUME TypeInv, DepthCounts, NEW s \in Slots
    PROVE  /\ IsFiniteSet(Readers(s))
           /\ depth[s] = 0 => Readers(s) = {}
           /\ depth[s] <= 1 => \A p, q \in Readers(s) : p = q
<1>1. IsFiniteSet(Readers(s))
  BY FS_Subset DEF Readers
<1>2. depth[s] = Cardinality(Readers(s)) /\ depth[s] \in Nat
  BY DEF DepthCounts, TypeInv, TypeOK
<1>3. depth[s] = 0 => Readers(s) = {}
  BY <1>1, <1>2, FS_EmptySet
<1>4. ASSUME depth[s] <= 1 PROVE \A p, q \in Readers(s) : p = q
  <2>1. depth[s] = 0 \/ depth[s] = 1
    BY <1>2, <1>4
  <2>2. CASE depth[s] = 0
    BY <1>3, <2>2
  <2>3. CASE depth[s] = 1
    <3>1. \E x : Readers(s) = {x}
      BY <1>1, <1>2, <2>3, FS_Singleton
    <3> QED
      BY <3>1
  <2> QED
    BY <2>1, <2>2, <2>3
<1> QED
  BY <1>1, <1>3, <1>4

\* A nonempty set of naturals has a least member.
LEMMA LeastNatural ==
    ASSUME NEW T, T \subseteq Nat, T # {}
    PROVE  \E m \in T : \A n \in T : m <= n
<1> DEFINE R == OpToRel(<, Nat)
<1>1. \A m, n \in T : n < m => <<n, m>> \in R
  BY DEF OpToRel
<1>2. IsWellFoundedOn(R, Nat)
  BY NatLessThanWellFounded
<1> HIDE DEF R
<1>3. \E m \in T : \A n \in T : ~(<<n, m>> \in R)
  BY <1>2, WFMin
<1>4. \A m, n \in T : m \in Int /\ n \in Int /\ (m <= n \/ n < m)
  OBVIOUS
<1> QED
  BY <1>1, <1>3, <1>4, Zenon

\* acquire_slot returns a slot.
LEMMA AcquiredSlotType ==
    ASSUME NEW cpu \in Cpus
    PROVE  AcquiredSlot(cpu) \in Slots
<1>1. cpu \in Nat /\ cpu % NumSlots \in Slots
  BY DEF Slots
<1>2. CASE SlotsFor(cpu) = {}
  BY <1>1, <1>2 DEF AcquiredSlot
<1>3. CASE SlotsFor(cpu) # {}
  <2> DEFINE T == {Distance(cpu, s) : s \in SlotsFor(cpu)}
  <2>1. \A s \in Slots : Distance(cpu, s) \in Nat
    BY <1>1 DEF Distance, Slots
  <2>2. T \subseteq Nat /\ T # {}
    BY <1>3, <2>1 DEF SlotsFor
  <2>3. PICK m \in T : \A n \in T : m <= n
    BY <2>2, LeastNatural
  <2>4. \E s \in SlotsFor(cpu) : \A r \in SlotsFor(cpu) : Distance(cpu, s) <= Distance(cpu, r)
    BY <2>3
  <2> QED
    BY <1>3, <2>4 DEF AcquiredSlot, SlotsFor
<1> QED
  BY <1>2, <1>3

-----------------------------------------------------------------------------
LEMMA InitInvariant == Init => IInv
<1> SUFFICES ASSUME Init PROVE IInv
  OBVIOUS
<1> USE DEF Init
<1>1. 0 \in Slots /\ 1 \in Epochs
  BY DEF Slots, Epochs
<1>2. Protected = {} /\ InSection = {} /\ \A s \in Slots : Readers(s) = {}
  BY DEF Protected, InSection, Readers, Counted
<1>3. TypeInv
  BY <1>1 DEF TypeInv, TypeOK
<1>4. DepthCounts
  BY <1>2, FS_EmptySet DEF DepthCounts
<1>5. Control /\ Placed
  BY DEF Control, Placed
<1>6. SlotHoldsBack /\ ProtectedSince /\ HeldIsRecent
  BY <1>2 DEF SlotHoldsBack, ProtectedSince, HeldIsRecent
<1>7. ReadersHoldTheEpoch
  BY DEF ReadersHoldTheEpoch, InSection
<1> QED
  BY <1>3, <1>4, <1>5, <1>6, <1>7 DEF IInv

-----------------------------------------------------------------------------
\* Frames: what a step leaves alone keeps the parts of the invariant that speak of it.

\* A step that neither enters nor leaves a section.
LEMMA ReadersKept ==
    ASSUME DepthCounts, UNCHANGED <<depth, slot>>, \A p \in Procs : Counted(p)' = Counted(p)
    PROVE  DepthCounts'
<1>1. \A s \in Slots : Readers(s)' = Readers(s)
  BY DEF Readers
<1> QED
  BY <1>1 DEF DepthCounts

\* A step that moves no epoch and protects no process anew.
LEMMA EpochsKept ==
    ASSUME SlotHoldsBack, ReadersHoldTheEpoch, UNCHANGED <<epoch, readerEpoch>>,
           \A p \in Protected' : p \in Protected /\ slot'[p] = slot[p] /\ since'[p] = since[p],
           \A w \in Procs : pc'[w] = "record" =>
               pc[w] = "record" /\ slot'[w] = slot[w] /\ seen'[w] = seen[w]
    PROVE  SlotHoldsBack' /\ ReadersHoldTheEpoch'
BY DEF SlotHoldsBack, ReadersHoldTheEpoch, Protected

\* A step that takes no scan further and protects no process anew.
LEMMA ScansKept ==
    ASSUME ProtectedSince,
           \A p \in Protected' : p \in Protected /\ slot'[p] = slot[p] /\ since'[p] = since[p],
           \A q \in Procs : pc'[q] \in {"advDepth", "advEpoch", "advCas", "recDepth", "recEpoch", "detach", "free"}
               => pc[q] = pc'[q] /\ at'[q] = at[q] /\ seen'[q] = seen[q]
    PROVE  ProtectedSince'
BY DEF ProtectedSince, AdvancePassed, ReclaimPassed

\* A step that moves no node and lets no process find one.
LEMMA NodesKept ==
    ASSUME HeldIsRecent, Placed, UNCHANGED <<nodeVars, node, detached>>,
           \A p \in InSection' : p \in InSection /\ reach'[p] = reach[p] /\ since'[p] = since[p],
           \A p \in Procs : (pc'[p] = "push") = (pc[p] = "push")
    PROVE  HeldIsRecent' /\ Placed'
<1>1. Stamped' = Stamped
  BY DEF Stamped, nodeVars
<1>2. HeldIsRecent'
  BY <1>1 DEF HeldIsRecent, nodeVars
<1>3. Placed'
  BY DEF Placed, nodeVars
<1> QED
  BY <1>2, <1>3

-----------------------------------------------------------------------------
\* Entering and leaving a section.

LEMMA EnterLoadInvariant == ASSUME IInv, NEW p \in Procs, EnterLoad(p) PROVE IInv'
<1> USE DEF IInv, EnterLoad, Goto, nodeVars
<1>1. PICK cpu \in Cpus : /\ slot' = [slot EXCEPT ![p] = AcquiredSlot(cpu)]
                          /\ assigned' = [assigned EXCEPT ![AcquiredSlot(cpu)] =
                                              IF @ = Unassigned THEN cpu ELSE @]
  OBVIOUS
<1>2. TypeInv'
  BY <1>1, AcquiredSlotType DEF TypeInv, TypeOK
<1>3. Control'
  BY DEF Control, TypeInv, TypeOK, Epochs
<1>4. \A s \in Slots : Readers(s)' = Readers(s)
  BY <1>1 DEF Readers, Counted, TypeInv, TypeOK
<1>5. DepthCounts'
  BY <1>4 DEF DepthCounts
<1>6. \A q \in Protected' : q \in Protected /\ slot'[q] = slot[q] /\ since'[q] = since[q]
  BY <1>1 DEF Protected, InSection, TypeInv, TypeOK
<1>7. SlotHoldsBack' /\ ReadersHoldTheEpoch'
  <2>1. \A w \in Procs : pc'[w] = "record" => pc[w] = "record" /\ slot'[w] = slot[w] /\ seen'[w] = seen[w]
    BY <1>1 DEF TypeInv, TypeOK
  <2> QED
    BY <1>6, <2>1, EpochsKept
<1>8. ProtectedSince'
  <2>1. \A q \in Procs : pc'[q] \in {"advDepth", "advEpoch", "advCas", "recDepth", "recEpoch", "detach", "free"}
               => pc[q] = pc'[q] /\ at'[q] = at[q] /\ seen'[q] = seen[q]
    BY DEF TypeInv, TypeOK
  <2> QED
    BY <1>6, <2>1, ScansKept
<1>9. HeldIsRecent' /\ Placed'
  BY NodesKept DEF InSection, TypeInv, TypeOK
<1> QED
  BY <1>2, <1>3, <1>5, <1>7, <1>8, <1>9

LEMMA EnterCountInvariant == ASSUME IInv, NEW p \in Procs, EnterCount(p) PROVE IInv'
<1> USE DEF IInv, EnterCount, nodeVars
<1> DEFINE s == slot[p]
<1>1. s \in Slots /\ s = slot'[p] /\ slot' = slot /\ since'[p] = epoch /\ epoch' = epoch
  BY DEF TypeInv, TypeOK
<1>2. TypeInv'
  BY DEF TypeInv, TypeOK, StartsReading
<1>3. Control'
  BY DEF Control, TypeInv, TypeOK, Epochs
<1>4. Readers(s)' = Readers(s) \cup {p} /\ p \notin Readers(s)
  BY DEF Readers, Counted, TypeInv, TypeOK
<1>5. \A r \in Slots \ {s} : Readers(r)' = Readers(r)
  BY DEF Readers, Counted, TypeInv, TypeOK
<1>6. DepthCounts'
  <2>1. IsFiniteSet(Readers(s))
    BY <1>1, DepthFacts
  <2>2. Cardinality(Readers(s)') = Cardinality(Readers(s)) + 1
    BY <1>4, <2>1, FS_AddElement
  <2> QED
    BY <1>1, <1>4, <1>5, <2>2 DEF DepthCounts, TypeInv, TypeOK
<1>7. Protected' = Protected \cup {p} /\ \A q \in Procs \ {p} : since'[q] = since[q] /\ seen'[q] = seen[q]
  BY DEF Protected, InSection, TypeInv, TypeOK
<1>8. SlotHoldsBack'
  <2>1. \A r \in Slots : readerEpoch'[r] <= epoch'
    BY DEF SlotHoldsBack
  <2>2. \A q \in Protected' : readerEpoch'[slot'[q]] <= since'[q]
    BY <1>1, <1>7 DEF SlotHoldsBack
  <2>3. ASSUME NEW q \in Protected', NEW w \in Procs, pc'[w] = "record", slot'[w] = slot'[q]
        PROVE  seen'[w] <= since'[q]
    <3>1. CASE w = p
      <4>1. seen'[p] \in 1 .. epoch /\ depth[s] = 0
        BY <2>3, <3>1 DEF Control, TypeInv, TypeOK
      <4>2. Readers(s) = {}
        BY <1>1, <4>1, DepthFacts
      <4>3. q = p
        BY <1>1, <1>7, <2>3, <3>1, <4>2 DEF Protected, InSection, Readers, Counted
      <4> QED
        BY <1>1, <3>1, <4>1, <4>3 DEF TypeInv, TypeOK, Epochs
    <3>2. CASE w # p /\ q = p
      BY <1>1, <1>7, <2>3, <3>2 DEF Control, TypeInv, TypeOK
    <3>3. CASE w # p /\ q # p
      BY <1>1, <1>7, <2>3, <3>3 DEF SlotHoldsBack, TypeInv, TypeOK
    <3> QED
      BY <3>1, <3>2, <3>3
  <2> QED
    BY <2>1, <2>2, <2>3 DEF SlotHoldsBack
<1>9. ProtectedSince'
  <2> SUFFICES ASSUME NEW r \in Protected', NEW q \in Procs
               PROVE  /\ AdvancePassed(q, slot[r])' => seen'[q] <= since'[r]
                      /\ ReclaimPassed(q, slot[r])' => seen'[q] < since'[r] + Lag
    BY DEF ProtectedSince
  <2>1. CASE q = p
    BY <2>1 DEF AdvancePassed, ReclaimPassed, TypeInv, TypeOK
  <2>2. CASE q # p /\ r = p
    BY <1>1, <1>7, <2>2 DEF AdvancePassed, ReclaimPassed, Control, TypeInv, TypeOK, Epochs
  <2>3. CASE q # p /\ r # p
    BY <1>1, <1>7, <2>3 DEF ProtectedSince, AdvancePassed, ReclaimPassed, TypeInv, TypeOK
  <2> QED
    BY <2>1, <2>2, <2>3
<1>10. ReadersHoldTheEpoch'
  BY <1>1, <1>7 DEF ReadersHoldTheEpoch, Protected, InSection, TypeInv, TypeOK, Epochs
<1>11. HeldIsRecent'
  <2>1. Stamped' = Stamped
    BY DEF Stamped, TypeInv, TypeOK
  <2>2. \A q \in InSection' : q # p => q \in InSection /\ reach'[q] = reach[q]
    BY DEF InSection, StartsReading, TypeInv, TypeOK
  <2>3. p \in InSection' => reach'[p] = linked
    BY DEF InSection, StartsReading, TypeInv, TypeOK
  <2>4. linked \cap unused = {} /\ linked \cap Stamped = {}
    BY DEF Placed, Stamped
  <2> QED
    BY <1>7, <2>1, <2>2, <2>3, <2>4 DEF HeldIsRecent
<1>12. Placed'
  BY DEF Placed
<1> QED
  BY <1>2, <1>3, <1>6, <1>8, <1>9, <1>10, <1>11, <1>12

LEMMA EnterRecordInvariant == ASSUME IInv, NEW p \in Procs, EnterRecord(p) PROVE IInv'
<1> USE DEF IInv, EnterRecord, Goto, nodeVars, StartsReading
<1>1. TypeInv'
  BY DEF TypeInv, TypeOK
<1>2. Control'
  BY DEF Control, TypeInv, TypeOK, Epochs
<1>3. DepthCounts'
  BY ReadersKept DEF Counted, TypeInv, TypeOK
<1>4. Protected' = Protected
  BY DEF Protected, InSection, TypeInv, TypeOK
<1>5. SlotHoldsBack'
  <2>1. seen[p] <= epoch /\ p \in Protected
    BY DEF Control, Protected, TypeInv, TypeOK
  <2>2. \A q \in Protected : slot[q] = slot[p] => seen[p] <= since[q]
    BY DEF SlotHoldsBack
  <2>3. \A r \in Slots : readerEpoch'[r] <= epoch'
    BY <2>1 DEF SlotHoldsBack, TypeInv, TypeOK
  <2>4. \A q \in Protected : slot[q] \in Slots /\ readerEpoch'[slot[q]] <= since[q]
    BY <2>2 DEF SlotHoldsBack, Protected, InSection, TypeInv, TypeOK
  <2> QED
    BY <1>4, <2>3, <2>4 DEF SlotHoldsBack, TypeInv, TypeOK
<1>6. ProtectedSince'
  BY <1>4, ScansKept DEF TypeInv, TypeOK
<1>7. ReadersHoldTheEpoch'
  BY DEF ReadersHoldTheEpoch, InSection, TypeInv, TypeOK
<1>8. HeldIsRecent'
  <2>1. Stamped' = Stamped
    BY DEF Stamped, TypeInv, TypeOK
  <2>2. \A q \in InSection' : q # p => q \in InSection /\ reach'[q] = reach[q]
    BY DEF InSection, TypeInv, TypeOK
  <2>3. reach'[p] = linked
    BY DEF TypeInv, TypeOK
  <2>4. linked \cap unused = {} /\ linked \cap Stamped = {}
    BY DEF Placed, Stamped
  <2> QED
    BY <2>1, <2>2, <2>3, <2>4 DEF HeldIsRecent
<1>9. Placed'
  BY DEF Placed
<1> QED
  BY <1>1, <1>2, <1>3, <1>5, <1>6, <1>7, <1>8, <1>9

LEMMA ExitInvariant == ASSUME IInv, NEW p \in Procs, Exit(p) PROVE IInv'
<1> USE DEF IInv, Exit, Goto, nodeVars
<1> PICK s \in Slots : s = slot[p]
  BY DEF TypeInv, TypeOK
<1>1. p \in Readers(s) /\ 0 \in Slots
  BY DEF Readers, Counted, Slots, TypeInv, TypeOK
<1>2. depth[s] \in Nat /\ depth[s] > 0
  BY <1>1, DepthFacts DEF TypeInv, TypeOK
<1>3. TypeInv'
  BY <1>1, <1>2 DEF TypeInv, TypeOK
<1>4. Control'
  BY DEF Control, TypeInv, TypeOK, Epochs
<1>5. DepthCounts'
  <2>1. Readers(s)' = Readers(s) \ {p}
    BY <1>1 DEF Readers, Counted, TypeInv, TypeOK
  <2>2. \A r \in Slots \ {s} : Readers(r)' = Readers(r)
    BY <1>1 DEF Readers, Counted, TypeInv, TypeOK
  <2>3. Cardinality(Readers(s)') = Cardinality(Readers(s)) - 1
    BY <1>1, <2>1, DepthFacts, FS_RemoveElement
  <2>4. depth'[s] = depth[s] - 1 /\ \A r \in Slots \ {s} : depth'[r] = depth[r]
    BY <1>1, <1>2 DEF TypeInv, TypeOK
  <2> QED
    BY <1>1, <2>2, <2>3, <2>4 DEF DepthCounts
<1>10. /\ pc'[p] = "idle" /\ at' = at
       /\ \A q \in Procs \ {p} : pc'[q] = pc[q] /\ slot'[q] = slot[q] /\ seen'[q] = seen[q]
  BY DEF TypeInv, TypeOK
<1>6. \A q \in Protected' : q \in Protected /\ slot'[q] = slot[q] /\ since'[q] = since[q]
  BY DEF Protected, InSection, TypeInv, TypeOK
<1>7. SlotHoldsBack' /\ ReadersHoldTheEpoch'
  <2>1. \A w \in Procs : pc'[w] = "record" => pc[w] = "record" /\ slot'[w] = slot[w] /\ seen'[w] = seen[w]
    BY <1>10
  <2> QED
    BY <1>6, <2>1, EpochsKept
<1>8. ProtectedSince'
  <2>1. \A q \in Procs : pc'[q] \in {"advDepth", "advEpoch", "advCas", "recDepth", "recEpoch", "detach", "free"}
               => pc[q] = pc'[q] /\ at'[q] = at[q] /\ seen'[q] = seen[q]
    BY <1>10
  <2> QED
    BY <1>3, <1>6, <2>1, ScansKept DEF TypeInv, TypeOK
<1>9. HeldIsRecent' /\ Placed'
  BY NodesKept DEF InSection, TypeInv, TypeOK
<1> QED
  BY <1>3, <1>4, <1>5, <1>7, <1>8, <1>9

-----------------------------------------------------------------------------
\* The operations of the structure: epochs, slots and scans stay as they are.

\* What a step of an operation keeps.
LEMMA OperationStep ==
    ASSUME IInv, NEW p \in Procs, p \in InSection, p \in InSection',
           UNCHANGED <<epoch, slotVars, slot, scanVars, since>>,
           \A q \in Procs \ {p} : pc'[q] = pc[q]
    PROVE  /\ InSection' = InSection
           /\ DepthCounts' /\ SlotHoldsBack' /\ ProtectedSince' /\ ReadersHoldTheEpoch'
<1> USE DEF IInv, slotVars, scanVars
<1>1. InSection' = InSection /\ Protected' = Protected
  BY DEF Protected, InSection
<1>2. DepthCounts'
  BY ReadersKept DEF Counted, InSection
<1>3. \A w \in Procs : pc'[w] = "record" => pc[w] = "record"
  BY DEF InSection
<1>4. SlotHoldsBack' /\ ReadersHoldTheEpoch'
  BY <1>1, <1>3, EpochsKept
<1>5. ProtectedSince'
  BY <1>1, ScansKept DEF InSection, TypeInv, TypeOK
<1> QED
  BY <1>1, <1>2, <1>4, <1>5

LEMMA InsertInvariant == ASSUME IInv, NEW p \in Procs, Insert(p) PROVE IInv'
<1> USE DEF IInv, Insert, slotVars, scanVars
<1>1. PICK n \in unused : /\ unused' = unused \ {n} /\ linked' = linked \cup {n}
                          /\ reach' = [q \in Procs |-> IF q \in InSection THEN reach[q] \cup {n} ELSE reach[q]]
  OBVIOUS
<1>2. TypeInv'
  BY <1>1 DEF TypeInv, TypeOK
<1>3. Control'
  BY DEF Control
<1>4. /\ InSection' = InSection
      /\ DepthCounts' /\ SlotHoldsBack' /\ ProtectedSince' /\ ReadersHoldTheEpoch'
  <2>1. p \in InSection /\ pc' = pc
    BY DEF InSection
  <2>2. InSection' = InSection
    BY <2>1 DEF InSection
  <2> QED
    BY <2>1, <2>2, OperationStep
<1>5. HeldIsRecent'
  <2>1. Stamped' = Stamped
    BY DEF Stamped
  <2>2. n \notin Stamped
    BY <1>1 DEF Stamped, Placed
  <2>3. \A q \in InSection : q \in Procs /\ reach'[q] = reach[q] \cup {n}
    BY <1>1 DEF InSection
  <2> QED
    BY <1>1, <1>4, <2>1, <2>2, <2>3 DEF HeldIsRecent
<1>6. Placed'
  <2>1. unused' \cup linked' = unused \cup linked /\ unused' \cap linked' = {}
    BY <1>1 DEF Placed
  <2> QED
    BY <2>1 DEF Placed
<1> QED
  BY <1>2, <1>3, <1>4, <1>5, <1>6

LEMMA UnlinkInvariant == ASSUME IInv, NEW p \in Procs, Unlink(p) PROVE IInv'
<1> USE DEF IInv, Unlink, Goto, slotVars, scanVars
<1>1. PICK n \in linked : linked' = linked \ {n} /\ node' = [node EXCEPT ![p] = n]
  OBVIOUS
<1>2. TypeInv'
  BY <1>1 DEF TypeInv, TypeOK
<1>3. Control'
  BY <1>1 DEF Control, TypeInv, TypeOK
<1>4. /\ InSection' = InSection
      /\ DepthCounts' /\ SlotHoldsBack' /\ ProtectedSince' /\ ReadersHoldTheEpoch'
  BY OperationStep DEF InSection, TypeInv, TypeOK
<1>5. HeldIsRecent'
  <2>1. Stamped' = Stamped
    BY <1>1 DEF Stamped, TypeInv, TypeOK
  <2> QED
    BY <1>4, <2>1 DEF HeldIsRecent
<1>6. Placed'
  BY <1>1 DEF Placed, Control, TypeInv, TypeOK
<1> QED
  BY <1>2, <1>3, <1>4, <1>5, <1>6

LEMMA RetireStampInvariant == ASSUME IInv, NEW p \in Procs, RetireStamp(p) PROVE IInv'
<1> USE DEF IInv, RetireStamp, Goto, slotVars, scanVars
<1>1. node[p] \in Nodes
  BY DEF Control, TypeInv, TypeOK
<1>2. TypeInv'
  BY <1>1 DEF TypeInv, TypeOK
<1>3. Control'
  BY DEF Control, TypeInv, TypeOK
<1>4. /\ InSection' = InSection
      /\ DepthCounts' /\ SlotHoldsBack' /\ ProtectedSince' /\ ReadersHoldTheEpoch'
  BY OperationStep DEF InSection, TypeInv, TypeOK
<1>5. HeldIsRecent'
  <2>1. Stamped' = Stamped \cup {node[p]}
    BY <1>1 DEF Stamped, TypeInv, TypeOK
  <2>2. stamp'[node[p]] = epoch /\ \A n \in Nodes \ {node[p]} : stamp'[n] = stamp[n]
    BY <1>1 DEF TypeInv, TypeOK
  <2>3. \A q \in Procs : since[q] <= epoch
    BY DEF Control
  <2> QED
    BY <1>4, <2>1, <2>2, <2>3 DEF HeldIsRecent, InSection, Stamped
<1>6. Placed'
  BY DEF Placed
<1> QED
  BY <1>2, <1>3, <1>4, <1>5, <1>6

LEMMA RetirePushInvariant == ASSUME IInv, NEW p \in Procs, RetirePush(p) PROVE IInv'
<1> USE DEF IInv, RetirePush, Goto, slotVars, scanVars, Listed
<1>1. node[p] \in Nodes /\ slot[p] \in Slots
  BY DEF Control, TypeInv, TypeOK
<1>2. TypeInv'
  BY <1>1 DEF TypeInv, TypeOK
<1>3. Control'
  BY DEF Control, TypeInv, TypeOK
<1>4. /\ InSection' = InSection
      /\ DepthCounts' /\ SlotHoldsBack' /\ ProtectedSince' /\ ReadersHoldTheEpoch'
  BY OperationStep DEF InSection, TypeInv, TypeOK
<1>5. HeldIsRecent'
  <2>1. Stamped' = Stamped
    BY <1>1 DEF Stamped, TypeInv, TypeOK
  <2> QED
    BY <1>4, <2>1 DEF HeldIsRecent
<1>6. Placed'
  BY <1>1 DEF Placed, TypeInv, TypeOK
<1> QED
  BY <1>2, <1>3, <1>4, <1>5, <1>6

-----------------------------------------------------------------------------
\* The scans: a process that is counted and reads nothing any more.

\* What a step of a scan of q keeps, be it the first, which ends q's reading.
LEMMA ScanStep ==
    ASSUME IInv, NEW q \in Procs, Counted(q), Counted(q)', q \notin Protected',
           pc[q] # "push", pc'[q] # "push",
           UNCHANGED <<epoch, slotVars, nodeVars, slot, node, detached, since>>,
           \A p \in Procs \ {q} :
               pc'[p] = pc[p] /\ seen'[p] = seen[p] /\ at'[p] = at[p] /\ reach'[p] = reach[p]
    PROVE  /\ DepthCounts' /\ SlotHoldsBack' /\ ReadersHoldTheEpoch' /\ HeldIsRecent' /\ Placed'
           /\ Protected' \subseteq Protected \ {q}
<1> USE DEF IInv, slotVars
<1>1. Protected' \subseteq Protected \ {q} /\ InSection' \subseteq InSection \ {q}
  BY DEF Protected, InSection
<1>2. DepthCounts'
  BY ReadersKept DEF Counted
<1>3. SlotHoldsBack' /\ ReadersHoldTheEpoch'
  <2>1. \A w \in Procs : pc'[w] = "record" => pc[w] = "record" /\ slot'[w] = slot[w] /\ seen'[w] = seen[w]
    BY DEF Protected
  <2> QED
    BY <1>1, <2>1, EpochsKept
<1>4. HeldIsRecent' /\ Placed'
  <2>1. \A p \in InSection' : p \in InSection /\ reach'[p] = reach[p] /\ since'[p] = since[p]
    BY <1>1 DEF InSection
  <2> QED
    BY <2>1, NodesKept
<1> QED
  BY <1>1, <1>2, <1>3, <1>4

\* A scan that begins is past no slot, one that gives up is past none it needs, and one
\* that looks closer is where it was.
LEMMA ScanRestarts ==
    ASSUME IInv, NEW q \in Procs, Protected' \subseteq Protected \ {q}, UNCHANGED <<slot, since>>,
           \A p \in Procs \ {q} : pc'[p] = pc[p] /\ seen'[p] = seen[p] /\ at'[p] = at[p],
           \/ pc'[q] \in {"reclaim", "leave", "putBack"}
           \/ pc'[q] \in {"advDepth", "recDepth"} /\ at'[q] = 0
           \/ /\ \/ pc[q] = "advDepth" /\ pc'[q] = "advEpoch"
                 \/ pc[q] = "recDepth" /\ pc'[q] = "recEpoch"
              /\ at'[q] = at[q] /\ seen'[q] = seen[q]
    PROVE  ProtectedSince'
<1> SUFFICES ASSUME NEW p \in Protected', NEW r \in Procs
             PROVE  /\ AdvancePassed(r, slot[p])' => seen'[r] <= since'[p]
                    /\ ReclaimPassed(r, slot[p])' => seen'[r] < since'[p] + Lag
  BY DEF ProtectedSince
<1>1. p \in Protected /\ slot[p] \in Slots
  BY DEF IInv, TypeInv, TypeOK, Protected, InSection
<1>2. CASE r = q
  BY <1>1, <1>2 DEF IInv, ProtectedSince, AdvancePassed, ReclaimPassed, Slots
<1>3. CASE r # q
  BY <1>1, <1>3 DEF IInv, ProtectedSince, AdvancePassed, ReclaimPassed
<1> QED
  BY <1>2, <1>3

\* A scan passes one slot more, when whoever holds the epoch in it was counted late enough.
LEMMA ScanAdvances ==
    ASSUME IInv, NEW q \in Procs, Protected' \subseteq Protected \ {q}, UNCHANGED <<slot, since>>,
           \A p \in Procs \ {q} : pc'[p] = pc[p] /\ seen'[p] = seen[p] /\ at'[p] = at[p],
           seen'[q] = seen[q],
           \/ /\ pc[q] \in {"advDepth", "advEpoch"}
              /\ \/ pc'[q] = "advDepth" /\ at'[q] = at[q] + 1
                 \/ pc'[q] = "advCas" /\ at[q] + 1 >= NumSlots
              /\ \A p \in Protected : slot[p] = at[q] => seen[q] <= since[p]
           \/ /\ pc[q] \in {"recDepth", "recEpoch"}
              /\ \/ pc'[q] = "recDepth" /\ at'[q] = at[q] + 1
                 \/ pc'[q] = "detach" /\ at[q] + 1 >= NumSlots
              /\ \A p \in Protected : slot[p] = at[q] => seen[q] < since[p] + Lag
    PROVE  ProtectedSince'
<1> SUFFICES ASSUME NEW p \in Protected', NEW r \in Procs
             PROVE  /\ AdvancePassed(r, slot[p])' => seen'[r] <= since'[p]
                    /\ ReclaimPassed(r, slot[p])' => seen'[r] < since'[p] + Lag
  BY DEF ProtectedSince
<1>1. p \in Protected \ {q} /\ slot[p] \in Slots /\ at[q] \in Slots
  BY DEF IInv, TypeInv, TypeOK, Protected, InSection
<1>2. CASE r = q
  <2>1. slot[p] < at[q] + 1 => slot[p] < at[q] \/ slot[p] = at[q]
    BY <1>1 DEF Slots
  <2>2. at[q] + 1 >= NumSlots => slot[p] < at[q] + 1
    BY <1>1 DEF Slots
  <2> QED
    BY <1>1, <1>2, <2>1, <2>2 DEF IInv, ProtectedSince, AdvancePassed, ReclaimPassed
<1>3. CASE r # q
  BY <1>1, <1>3 DEF IInv, ProtectedSince, AdvancePassed, ReclaimPassed
<1> QED
  BY <1>2, <1>3

\* A slot that a scan of q passes by holds no process that holds the epoch: it is empty, or
\* q is alone in it.
LEMMA PassedByIsSafe ==
    ASSUME IInv, NEW q \in Procs, Counted(q), q \notin Protected, PassesBy(q),
           NEW p \in Protected
    PROVE  slot[p] # at[q]
<1> USE DEF IInv
<1>1. p \in Procs /\ Counted(p) /\ slot[p] \in Slots /\ p # q
  BY DEF Protected, InSection, Counted, TypeInv, TypeOK
<1>2. ASSUME slot[p] = at[q] PROVE FALSE
  <2>1. p \in Readers(at[q]) /\ at[q] \in Slots
    BY <1>1, <1>2 DEF Readers
  <2>2. depth[at[q]] # 0
    BY <2>1, DepthFacts
  <2>3. Exempt(q, at[q])
    BY <2>2 DEF PassesBy
  <2>4. q \in Readers(at[q]) /\ depth[at[q]] <= 1
    BY <2>3 DEF Exempt, Readers
  <2> QED
    BY <1>1, <2>1, <2>4, DepthFacts
<1> QED
  BY <1>2

LEMMA AdvanceBeginInvariant == ASSUME IInv, NEW q \in Procs, AdvanceBegin(q) PROVE IInv'
<1> USE DEF IInv, AdvanceBegin, Goto, slotVars
<1>1. /\ pc'[q] = "advDepth" /\ at'[q] = 0 /\ seen'[q] = epoch
      /\ \A p \in Procs \ {q} :
             pc'[p] = pc[p] /\ seen'[p] = seen[p] /\ at'[p] = at[p] /\ reach'[p] = reach[p]
  BY DEF TypeInv, TypeOK
<1>2. TypeInv'
  BY DEF TypeInv, TypeOK, Slots, nodeVars
<1>3. Control'
  BY <1>1 DEF Control, TypeInv, TypeOK, Epochs, nodeVars
<1>4. /\ DepthCounts' /\ SlotHoldsBack' /\ ReadersHoldTheEpoch' /\ HeldIsRecent' /\ Placed'
      /\ Protected' \subseteq Protected \ {q}
  <2>1. q \notin Protected' /\ Counted(q) /\ Counted(q)'
    BY <1>1 DEF Protected, InSection, Counted
  <2> QED
    BY <1>1, <2>1, ScanStep
<1>5. ProtectedSince'
  BY <1>1, <1>4, ScanRestarts
<1> QED
  BY <1>2, <1>3, <1>4, <1>5

LEMMA AdvanceDepthInvariant == ASSUME IInv, NEW q \in Procs, AdvanceDepth(q) PROVE IInv'
<1> USE DEF IInv, AdvanceDepth, slotVars
<1>1. /\ pc[q] = "advDepth" /\ pc'[q] \in {"advDepth", "advCas", "advEpoch"} /\ seen' = seen
      /\ pc'[q] = "advCas" => at'[q] = 0
      /\ \A p \in Procs \ {q} :
             pc'[p] = pc[p] /\ seen'[p] = seen[p] /\ at'[p] = at[p] /\ reach'[p] = reach[p]
  BY DEF TypeInv, TypeOK, NextSlot, LooksCloser
<1>2. TypeInv'
  <2>1. at' \in [Procs -> Slots] /\ seen' \in [Procs -> Epochs \cup {0}]
    <3>1. 0 \in Slots /\ (at[q] + 1 < NumSlots => at[q] + 1 \in Slots)
      BY DEF TypeInv, TypeOK, Slots
    <3> QED
      BY <3>1 DEF TypeInv, TypeOK, NextSlot, LooksCloser
  <2>2. pc' = [pc EXCEPT ![q] = pc'[q]]
    BY DEF TypeInv, TypeOK, NextSlot, LooksCloser
  <2> QED
    BY <1>1, <2>1, <2>2 DEF TypeInv, TypeOK, nodeVars
<1>3. Control'
  BY <1>1 DEF Control, nodeVars
<1>4. /\ DepthCounts' /\ SlotHoldsBack' /\ ReadersHoldTheEpoch' /\ HeldIsRecent' /\ Placed'
      /\ Protected' \subseteq Protected \ {q}
  <2>1. q \notin Protected' /\ Counted(q) /\ Counted(q)'
    BY <1>1 DEF Protected, InSection, Counted
  <2> QED
    BY <1>1, <2>1, ScanStep
<1>5. ProtectedSince'
  <2>1. CASE PassesBy(q)
    <3>1. \A p \in Protected : slot[p] # at[q]
      BY <1>1, <2>1, PassedByIsSafe DEF Protected, InSection, Counted
    <3>2. \/ pc'[q] = "advDepth" /\ at'[q] = at[q] + 1
          \/ pc'[q] = "advCas" /\ at[q] + 1 >= NumSlots
      BY <2>1 DEF NextSlot, TypeInv, TypeOK, Slots
    <3> QED
      BY <1>1, <1>4, <3>1, <3>2, ScanAdvances
  <2>2. CASE ~PassesBy(q)
    <3>1. pc'[q] = "advEpoch" /\ at'[q] = at[q]
      BY <2>2 DEF LooksCloser, TypeInv, TypeOK
    <3> QED
      BY <1>1, <1>4, <3>1, ScanRestarts
  <2> QED
    BY <2>1, <2>2
<1> QED
  BY <1>2, <1>3, <1>4, <1>5

LEMMA AdvanceEpochInvariant == ASSUME IInv, NEW q \in Procs, AdvanceEpoch(q) PROVE IInv'
<1> USE DEF IInv, AdvanceEpoch, slotVars
<1>1. /\ pc[q] = "advEpoch" /\ pc'[q] \in {"advDepth", "advCas", "reclaim"}
      /\ pc'[q] # "advDepth" => at'[q] = 0
      /\ \A p \in Procs \ {q} :
             pc'[p] = pc[p] /\ seen'[p] = seen[p] /\ at'[p] = at[p] /\ reach'[p] = reach[p]
  BY DEF TypeInv, TypeOK, NextSlot, GivesUp
<1>2. TypeInv'
  <2>1. at' \in [Procs -> Slots] /\ seen' \in [Procs -> Epochs \cup {0}]
    <3>1. 0 \in Slots /\ (at[q] + 1 < NumSlots => at[q] + 1 \in Slots)
      BY DEF TypeInv, TypeOK, Slots
    <3> QED
      BY <3>1 DEF TypeInv, TypeOK, NextSlot, GivesUp
  <2>2. pc' = [pc EXCEPT ![q] = pc'[q]]
    BY DEF TypeInv, TypeOK, NextSlot, GivesUp
  <2> QED
    BY <1>1, <2>1, <2>2 DEF TypeInv, TypeOK, nodeVars
<1>3. Control'
  <2>1. pc'[q] \in {"advDepth", "advCas"} => seen'[q] = seen[q]
    BY DEF GivesUp, TypeInv, TypeOK
  <2> QED
    BY <1>1, <2>1 DEF Control, nodeVars
<1>4. /\ DepthCounts' /\ SlotHoldsBack' /\ ReadersHoldTheEpoch' /\ HeldIsRecent' /\ Placed'
      /\ Protected' \subseteq Protected \ {q}
  <2>1. q \notin Protected' /\ Counted(q) /\ Counted(q)'
    BY <1>1 DEF Protected, InSection, Counted
  <2> QED
    BY <1>1, <2>1, ScanStep
<1>5. ProtectedSince'
  <2>1. CASE Behind(q)
    <3>1. pc'[q] = "reclaim"
      BY <2>1 DEF GivesUp, TypeInv, TypeOK
    <3> QED
      BY <1>1, <1>4, <3>1, ScanRestarts
  <2>2. CASE ~Behind(q)
    <3>1. \A p \in Protected : slot[p] = at[q] => seen[q] <= since[p]
      <4>1. readerEpoch[at[q]] \in Nat /\ seen[q] \in Nat /\ readerEpoch[at[q]] >= seen[q]
        BY <2>2 DEF Behind, TypeInv, TypeOK, Epochs
      <4>2. \A p \in Protected : slot[p] = at[q] => readerEpoch[at[q]] <= since[p] /\ since[p] \in Nat
        BY DEF SlotHoldsBack, TypeInv, TypeOK, Epochs, Protected, InSection
      <4> QED
        BY <4>1, <4>2
    <3>2. /\ \/ pc'[q] = "advDepth" /\ at'[q] = at[q] + 1
             \/ pc'[q] = "advCas" /\ at[q] + 1 >= NumSlots
          /\ seen'[q] = seen[q]
      BY <2>2 DEF NextSlot, TypeInv, TypeOK, Slots
    <3> QED
      BY <1>1, <1>4, <3>1, <3>2, ScanAdvances
  <2> QED
    BY <2>1, <2>2
<1> QED
  BY <1>2, <1>3, <1>4, <1>5

\* Every process that holds the epoch was counted at the epoch the scan loaded, or later:
\* one more is no more than one ahead of it.
LEMMA AdvanceCasInvariant == ASSUME IInv, NEW q \in Procs, AdvanceCas(q) PROVE IInv'
<1> USE DEF IInv, AdvanceCas, Goto, slotVars, nodeVars
<1>1. /\ pc[q] = "advCas" /\ pc'[q] = "reclaim"
      /\ \A p \in Procs \ {q} : pc'[p] = pc[p] /\ seen'[p] = seen[p] /\ at'[p] = at[p]
  BY DEF TypeInv, TypeOK
<1>2. /\ epoch \in Nat /\ epoch' \in Nat /\ epoch <= epoch' /\ epoch' \in Epochs
      /\ epoch' # epoch => epoch' = seen[q] + 1
  BY <1>1 DEF Control, TypeInv, TypeOK, Epochs
<1>3. TypeInv'
  BY <1>2 DEF TypeInv, TypeOK
<1>4. Control'
  BY <1>1, <1>2 DEF Control, TypeInv, TypeOK, Epochs
<1>5. Protected' = Protected /\ InSection' = InSection /\ q \notin Protected
  BY <1>1 DEF Protected, InSection
<1>6. DepthCounts'
  BY <1>1, ReadersKept DEF Counted
<1>7. SlotHoldsBack'
  <2>1. \A s \in Slots : readerEpoch'[s] <= epoch'
    BY <1>2 DEF SlotHoldsBack, TypeInv, TypeOK, Epochs
  <2>2. \A p \in Procs : pc'[p] = "record" => pc[p] = "record" /\ seen'[p] = seen[p]
    BY <1>1
  <2> QED
    BY <1>5, <2>1, <2>2 DEF SlotHoldsBack
<1>8. ProtectedSince'
  BY <1>1, <1>5, ScanRestarts
<1>9. ReadersHoldTheEpoch'
  <2>1. \A p \in Protected : seen[q] <= since[p] /\ epoch <= since[p] + 1 /\ since[p] \in Nat
    BY <1>1 DEF ProtectedSince, AdvancePassed, ReadersHoldTheEpoch, Protected, InSection,
                TypeInv, TypeOK, Epochs
  <2>2. seen[q] \in Nat
    BY DEF TypeInv, TypeOK, Epochs
  <2>3. \A p \in Protected' : epoch' <= since'[p] + 1
    BY <1>2, <1>5, <2>1, <2>2
  <2> QED
    BY <2>3 DEF ReadersHoldTheEpoch, Protected
<1>10. HeldIsRecent' /\ Placed'
  BY <1>1, <1>5, NodesKept
<1> QED
  BY <1>3, <1>4, <1>6, <1>7, <1>8, <1>9, <1>10
LEMMA ReclaimBeginInvariant == ASSUME IInv, NEW q \in Procs, ReclaimBegin(q) PROVE IInv'
<1> USE DEF IInv, ReclaimBegin, slotVars
<1>1. /\ pc[q] = "reclaim" /\ pc'[q] \in {"leave", "recDepth"}
      /\ pc'[q] = "recDepth" => seen'[q] = epoch
      /\ \A p \in Procs \ {q} :
             pc'[p] = pc[p] /\ seen'[p] = seen[p] /\ at'[p] = at[p] /\ reach'[p] = reach[p]
  BY DEF TypeInv, TypeOK
<1>2. TypeInv'
  BY DEF TypeInv, TypeOK, nodeVars
<1>3. Control'
  BY <1>1 DEF Control, TypeInv, TypeOK, Epochs, nodeVars
<1>4. /\ DepthCounts' /\ SlotHoldsBack' /\ ReadersHoldTheEpoch' /\ HeldIsRecent' /\ Placed'
      /\ Protected' \subseteq Protected \ {q}
  <2>1. q \notin Protected' /\ Counted(q) /\ Counted(q)'
    BY <1>1 DEF Protected, InSection, Counted
  <2> QED
    BY <1>1, <2>1, ScanStep
<1>5. ProtectedSince'
  <2>1. at[q] = 0
    BY <1>1 DEF Control
  <2> QED
    BY <1>1, <1>4, <2>1, ScanRestarts
<1> QED
  BY <1>2, <1>3, <1>4, <1>5

LEMMA ReclaimDepthInvariant == ASSUME IInv, NEW q \in Procs, ReclaimDepth(q) PROVE IInv'
<1> USE DEF IInv, ReclaimDepth, slotVars
<1>1. /\ pc[q] = "recDepth" /\ pc'[q] \in {"recDepth", "detach", "recEpoch"} /\ seen' = seen
      /\ pc'[q] = "detach" => at'[q] = 0
      /\ \A p \in Procs \ {q} :
             pc'[p] = pc[p] /\ seen'[p] = seen[p] /\ at'[p] = at[p] /\ reach'[p] = reach[p]
  BY DEF TypeInv, TypeOK, NextSlot, LooksCloser
<1>2. TypeInv'
  <2>1. at' \in [Procs -> Slots] /\ seen' \in [Procs -> Epochs \cup {0}]
    <3>1. 0 \in Slots /\ (at[q] + 1 < NumSlots => at[q] + 1 \in Slots)
      BY DEF TypeInv, TypeOK, Slots
    <3> QED
      BY <3>1 DEF TypeInv, TypeOK, NextSlot, LooksCloser
  <2>2. pc' = [pc EXCEPT ![q] = pc'[q]]
    BY DEF TypeInv, TypeOK, NextSlot, LooksCloser
  <2> QED
    BY <1>1, <2>1, <2>2 DEF TypeInv, TypeOK, nodeVars
<1>3. Control'
  BY <1>1 DEF Control, nodeVars
<1>4. /\ DepthCounts' /\ SlotHoldsBack' /\ ReadersHoldTheEpoch' /\ HeldIsRecent' /\ Placed'
      /\ Protected' \subseteq Protected \ {q}
  <2>1. q \notin Protected' /\ Counted(q) /\ Counted(q)'
    BY <1>1 DEF Protected, InSection, Counted
  <2> QED
    BY <1>1, <2>1, ScanStep
<1>5. ProtectedSince'
  <2>1. CASE PassesBy(q)
    <3>1. \A p \in Protected : slot[p] # at[q]
      BY <1>1, <2>1, PassedByIsSafe DEF Protected, InSection, Counted
    <3>2. \/ pc'[q] = "recDepth" /\ at'[q] = at[q] + 1
          \/ pc'[q] = "detach" /\ at[q] + 1 >= NumSlots
      BY <2>1 DEF NextSlot, TypeInv, TypeOK, Slots
    <3> QED
      BY <1>1, <1>4, <3>1, <3>2, ScanAdvances
  <2>2. CASE ~PassesBy(q)
    <3>1. pc'[q] = "recEpoch" /\ at'[q] = at[q]
      BY <2>2 DEF LooksCloser, TypeInv, TypeOK
    <3> QED
      BY <1>1, <1>4, <3>1, ScanRestarts
  <2> QED
    BY <2>1, <2>2
<1> QED
  BY <1>2, <1>3, <1>4, <1>5

LEMMA ReclaimEpochInvariant == ASSUME IInv, NEW q \in Procs, ReclaimEpoch(q) PROVE IInv'
<1> USE DEF IInv, ReclaimEpoch, slotVars
<1> DEFINE Holds == readerEpoch[at[q]] <= seen[q] - Lag
<1>1. /\ pc[q] = "recEpoch" /\ pc'[q] \in {"recDepth", "detach", "leave"}
      /\ pc'[q] # "recDepth" => at'[q] = 0
      /\ \A p \in Procs \ {q} :
             pc'[p] = pc[p] /\ seen'[p] = seen[p] /\ at'[p] = at[p] /\ reach'[p] = reach[p]
  BY DEF TypeInv, TypeOK, NextSlot, GivesUp
<1>2. TypeInv'
  <2>1. at' \in [Procs -> Slots] /\ seen' \in [Procs -> Epochs \cup {0}]
    <3>1. 0 \in Slots /\ (at[q] + 1 < NumSlots => at[q] + 1 \in Slots)
      BY DEF TypeInv, TypeOK, Slots
    <3> QED
      BY <3>1 DEF TypeInv, TypeOK, NextSlot, GivesUp
  <2>2. pc' = [pc EXCEPT ![q] = pc'[q]]
    BY DEF TypeInv, TypeOK, NextSlot, GivesUp
  <2> QED
    BY <1>1, <2>1, <2>2 DEF TypeInv, TypeOK, nodeVars
<1>3. Control'
  <2>1. pc'[q] \in {"recDepth", "detach"} => seen'[q] = seen[q]
    BY DEF GivesUp, TypeInv, TypeOK
  <2> QED
    BY <1>1, <2>1 DEF Control, nodeVars
<1>4. /\ DepthCounts' /\ SlotHoldsBack' /\ ReadersHoldTheEpoch' /\ HeldIsRecent' /\ Placed'
      /\ Protected' \subseteq Protected \ {q}
  <2>1. q \notin Protected' /\ Counted(q) /\ Counted(q)'
    BY <1>1 DEF Protected, InSection, Counted
  <2> QED
    BY <1>1, <2>1, ScanStep
<1>5. ProtectedSince'
  <2>1. CASE Holds
    <3>1. pc'[q] = "leave"
      BY <2>1 DEF GivesUp, TypeInv, TypeOK
    <3> QED
      BY <1>1, <1>4, <3>1, ScanRestarts
  <2>2. CASE ~Holds
    <3>1. \A p \in Protected : slot[p] = at[q] => seen[q] < since[p] + Lag
      <4>1. readerEpoch[at[q]] \in Nat /\ seen[q] \in Nat /\ seen[q] < readerEpoch[at[q]] + Lag
        BY <2>2 DEF TypeInv, TypeOK, Epochs
      <4>2. \A p \in Protected : slot[p] = at[q] => readerEpoch[at[q]] <= since[p] /\ since[p] \in Nat
        BY DEF SlotHoldsBack, TypeInv, TypeOK, Epochs, Protected, InSection
      <4> QED
        BY <4>1, <4>2
    <3>2. /\ \/ pc'[q] = "recDepth" /\ at'[q] = at[q] + 1
             \/ pc'[q] = "detach" /\ at[q] + 1 >= NumSlots
          /\ seen'[q] = seen[q]
      BY <2>2 DEF NextSlot, TypeInv, TypeOK, Slots
    <3> QED
      BY <1>1, <1>4, <3>1, <3>2, ScanAdvances
  <2> QED
    BY <2>1, <2>2
<1> QED
  BY <1>2, <1>3, <1>4, <1>5
-----------------------------------------------------------------------------
\* Reclaiming: the nodes of a slot go to the process that took them off, and what is old
\* enough from there to the allocator.

\* What a step of reclaiming keeps, whatever it does with the nodes.
LEMMA ReclaimStep ==
    ASSUME IInv, NEW q \in Procs, Counted(q), Counted(q)', q \notin Protected, q \notin Protected',
           UNCHANGED <<epoch, slotVars, slot, since>>,
           \A p \in Procs \ {q} : pc'[p] = pc[p] /\ seen'[p] = seen[p]
    PROVE  /\ Protected' = Protected /\ InSection' = InSection
           /\ DepthCounts' /\ SlotHoldsBack' /\ ReadersHoldTheEpoch'
<1> USE DEF IInv, slotVars
<1>1. Protected' = Protected /\ InSection' = InSection
  BY DEF Protected, InSection
<1>2. DepthCounts'
  BY ReadersKept DEF Counted
<1>3. SlotHoldsBack' /\ ReadersHoldTheEpoch'
  <2>1. \A w \in Procs : pc'[w] = "record" => pc[w] = "record" /\ slot'[w] = slot[w] /\ seen'[w] = seen[w]
    BY DEF Protected
  <2> QED
    BY <1>1, <2>1, EpochsKept
<1> QED
  BY <1>1, <1>2, <1>3

LEMMA DetachInvariant == ASSUME IInv, NEW q \in Procs, Detach(q) PROVE IInv'
<1> USE DEF IInv, Detach, Goto, slotVars, scanVars
<1>1. /\ pc[q] = "detach" /\ pc'[q] = "free" /\ detached[q] = {} /\ slot[q] \in Slots
      /\ \A p \in Procs \ {q} : pc'[p] = pc[p]
  BY DEF Control, TypeInv, TypeOK
<1>2. /\ detached'[q] = retired[slot[q]] /\ retired'[slot[q]] = {}
      /\ \A p \in Procs \ {q} : detached'[p] = detached[p]
      /\ \A s \in Slots \ {slot[q]} : retired'[s] = retired[s]
  BY <1>1 DEF TypeInv, TypeOK
<1>3. TypeInv'
  BY <1>1 DEF TypeInv, TypeOK
<1>4. Control'
  BY <1>1, <1>2 DEF Control
<1>5. /\ Protected' = Protected /\ InSection' = InSection
      /\ DepthCounts' /\ SlotHoldsBack' /\ ReadersHoldTheEpoch'
  <2>1. Counted(q) /\ Counted(q)' /\ q \notin Protected /\ q \notin Protected'
    BY <1>1 DEF Counted, Protected, InSection
  <2> QED
    BY <1>1, <2>1, ReclaimStep
<1>6. ProtectedSince'
  <2>1. \A r \in Procs, s \in Slots : /\ AdvancePassed(r, s)' => AdvancePassed(r, s)
                                      /\ ReclaimPassed(r, s)' => ReclaimPassed(r, s)
    BY <1>1 DEF AdvancePassed, ReclaimPassed
  <2>2. \A p \in Protected : slot[p] \in Slots
    BY DEF Protected, InSection, TypeInv, TypeOK
  <2> QED
    BY <1>5, <2>1, <2>2 DEF ProtectedSince, AdvancePassed, ReclaimPassed
<1>7. HeldIsRecent'
  <2>1. \A n \in Nodes : /\ (\E s \in Slots : n \in retired'[s]) \/ (\E p \in Procs : n \in detached'[p])
                            <=> (\E s \in Slots : n \in retired[s]) \/ (\E p \in Procs : n \in detached[p])
                         /\ (\E p \in Procs : pc'[p] = "push" /\ node[p] = n)
                            <=> (\E p \in Procs : pc[p] = "push" /\ node[p] = n)
    BY <1>1, <1>2
  <2>2. Stamped' = Stamped
    BY <2>1 DEF Stamped
  <2> QED
    BY <1>5, <2>2 DEF HeldIsRecent
<1>8. Placed'
  BY <1>1, <1>2 DEF Placed
<1> QED
  BY <1>3, <1>4, <1>5, <1>6, <1>7, <1>8

\* The nodes freed were stamped before any process that may read was counted.
LEMMA FreeInvariant == ASSUME IInv, NEW q \in Procs, Free(q) PROVE IInv'
<1> USE DEF IInv, Free, Goto, slotVars, scanVars
<1> DEFINE freed == {n \in detached[q] : OldEnough(q, n)}
<1>1. /\ pc[q] = "free" /\ pc'[q] = "putBack"
      /\ \A p \in Procs \ {q} : pc'[p] = pc[p] /\ detached'[p] = detached[p]
      /\ detached'[q] = detached[q] \ freed /\ unused' = unused \cup freed
      /\ \A n \in Nodes \ freed : stamp'[n] = stamp[n]
      /\ freed \subseteq detached[q] /\ freed \subseteq Nodes
  BY DEF TypeInv, TypeOK
<1>3. TypeInv'
  BY <1>1 DEF TypeInv, TypeOK
<1>4. Control'
  BY <1>1 DEF Control
<1>5. /\ Protected' = Protected /\ InSection' = InSection
      /\ DepthCounts' /\ SlotHoldsBack' /\ ReadersHoldTheEpoch'
  <2>1. Counted(q) /\ Counted(q)' /\ q \notin Protected /\ q \notin Protected'
    BY <1>1 DEF Counted, Protected, InSection
  <2> QED
    BY <1>1, <2>1, ReclaimStep
<1>6. ProtectedSince'
  BY <1>1, <1>5, ScanRestarts DEF Protected, InSection
<1>7. \A p \in InSection : reach[p] \cap freed = {}
  <2> SUFFICES ASSUME NEW p \in InSection, NEW n \in reach[p] \cap freed PROVE FALSE
    OBVIOUS
  <2>1. n \in Stamped
    BY <1>1 DEF Stamped
  <2>2. since[p] <= stamp[n]
    BY <2>1 DEF HeldIsRecent
  <2>3. seen[q] < since[p] + Lag
    BY <1>1 DEF ProtectedSince, Protected, ReclaimPassed
  <2>4. stamp[n] <= seen[q] - Lag
    BY DEF OldEnough
  <2>5. since[p] \in Nat /\ stamp[n] \in Nat /\ seen[q] \in Nat
    BY <1>1 DEF TypeInv, TypeOK, Epochs, InSection
  <2> QED
    BY <2>2, <2>3, <2>4, <2>5
<1>8. HeldIsRecent'
  <2>1. Stamped' \subseteq Stamped \ freed
    <3> SUFFICES ASSUME NEW n \in Stamped' PROVE n \in Stamped /\ n \notin freed
      OBVIOUS
    <3>1. CASE \E p \in Procs : pc'[p] = "push" /\ node'[p] = n
      BY <1>1, <3>1 DEF Stamped, Placed
    <3>2. CASE \E s \in Slots : n \in retired'[s]
      BY <1>1, <3>2 DEF Stamped, Placed
    <3>3. CASE \E p \in Procs : n \in detached'[p]
      BY <1>1, <3>3 DEF Stamped, Placed
    <3> QED
      BY <3>1, <3>2, <3>3 DEF Stamped
  <2> QED
    BY <1>1, <1>5, <1>7, <2>1 DEF HeldIsRecent, Stamped
<1>9. Placed'
  BY <1>1 DEF Placed
<1> QED
  BY <1>3, <1>4, <1>5, <1>6, <1>8, <1>9

LEMMA PutBackInvariant == ASSUME IInv, NEW q \in Procs, PutBack(q) PROVE IInv'
<1> USE DEF IInv, PutBack, Goto, slotVars, scanVars, Listed
<1>1. /\ pc[q] = "putBack" /\ pc'[q] = "leave" /\ slot[q] \in Slots
      /\ \A p \in Procs \ {q} : pc'[p] = pc[p]
  BY DEF TypeInv, TypeOK
<1>2. /\ detached'[q] = {} /\ retired'[slot[q]] = retired[slot[q]] \cup detached[q]
      /\ \A p \in Procs \ {q} : detached'[p] = detached[p]
      /\ \A s \in Slots \ {slot[q]} : retired'[s] = retired[s]
  BY <1>1 DEF TypeInv, TypeOK
<1>3. TypeInv'
  BY <1>1 DEF TypeInv, TypeOK
<1>4. Control'
  BY <1>1, <1>2 DEF Control
<1>5. /\ Protected' = Protected /\ InSection' = InSection
      /\ DepthCounts' /\ SlotHoldsBack' /\ ReadersHoldTheEpoch'
  <2>1. Counted(q) /\ Counted(q)' /\ q \notin Protected /\ q \notin Protected'
    BY <1>1 DEF Counted, Protected, InSection
  <2> QED
    BY <1>1, <2>1, ReclaimStep
<1>6. ProtectedSince'
  BY <1>1, <1>5, ScanRestarts DEF Protected, InSection
<1>7. HeldIsRecent'
  <2>1. \A n \in Nodes : /\ (\E s \in Slots : n \in retired'[s]) \/ (\E p \in Procs : n \in detached'[p])
                            <=> (\E s \in Slots : n \in retired[s]) \/ (\E p \in Procs : n \in detached[p])
                         /\ (\E p \in Procs : pc'[p] = "push" /\ node[p] = n)
                            <=> (\E p \in Procs : pc[p] = "push" /\ node[p] = n)
    BY <1>1, <1>2
  <2>2. Stamped' = Stamped
    BY <2>1 DEF Stamped
  <2> QED
    BY <1>5, <2>2 DEF HeldIsRecent
<1>8. Placed'
  BY <1>1, <1>2 DEF Placed
<1> QED
  BY <1>3, <1>4, <1>5, <1>6, <1>7, <1>8

-----------------------------------------------------------------------------
LEMMA StepInvariant == IInv /\ [Next]_vars => IInv'
<1> SUFFICES ASSUME IInv, [Next]_vars PROVE IInv'
  OBVIOUS
<1>1. ASSUME NEW p \in Procs, Step(p) PROVE IInv'
  BY <1>1, EnterLoadInvariant, EnterCountInvariant, EnterRecordInvariant, ExitInvariant,
     InsertInvariant, UnlinkInvariant, RetireStampInvariant, RetirePushInvariant,
     AdvanceBeginInvariant, AdvanceDepthInvariant, AdvanceEpochInvariant, AdvanceCasInvariant,
     ReclaimBeginInvariant, ReclaimDepthInvariant, ReclaimEpochInvariant,
     DetachInvariant, FreeInvariant, PutBackInvariant
  DEF Step
<1>2. CASE UNCHANGED vars
  <2> USE <1>2 DEF vars, slotVars, nodeVars, scanVars
  <2>1. TypeInv' /\ Control' /\ DepthCounts' /\ Placed'
    BY DEF IInv, TypeInv, TypeOK, Control, DepthCounts, Readers, Counted, Placed
  <2>2. SlotHoldsBack' /\ ProtectedSince' /\ ReadersHoldTheEpoch' /\ HeldIsRecent'
    BY DEF IInv, SlotHoldsBack, ProtectedSince, ReadersHoldTheEpoch, HeldIsRecent, Stamped,
           Protected, InSection, AdvancePassed, ReclaimPassed
  <2> QED
    BY <2>1, <2>2 DEF IInv
<1> QED
  BY <1>1, <1>2 DEF Next

\* The invariant the safety of reclamation rests on: what each slot's depth and epoch and
\* each scan of try_reclaim and try_advance_epoch say of the sections that are open.
THEOREM Invariance == Spec => []IInv
BY InitInvariant, StepInvariant, PTL DEF Spec

\* epoch_reclaimer_core: no node's memory is freed while a process in a read section may
\* hold it, and every node is at every moment in exactly one place.
THEOREM NoUseAfterFreeHolds == Spec => []NoUseAfterFree
<1>1. ASSUME IInv PROVE NoUseAfterFree
  <2> USE <1>1 DEF IInv
  <2>1. TypeOK /\ \A p \in InSection : reach[p] \cap unused = {}
    BY DEF TypeInv, HeldIsRecent
  <2>2. ASSUME NEW n \in Nodes PROVE \E place \in Places(n) : Places(n) = {place}
    <3>1. n # NoNode /\ \A p \in Procs : node[p] = n => node[p] # NoNode
      OBVIOUS
    <3>2. CASE n \in unused
      <4>1. Places(n) = {<<"unused">>}
        BY <3>1, <3>2 DEF Placed, Places
      <4> QED
        BY <4>1
    <3>3. CASE n \in linked
      <4>1. Places(n) = {<<"linked">>}
        BY <3>1, <3>3 DEF Placed, Places
      <4> QED
        BY <4>1
    <3>4. CASE \E p \in Procs : node[p] = n
      <4> PICK p \in Procs : node[p] = n
        BY <3>4
      <4>1. Places(n) = {<<"unlinked", p>>}
        BY <3>1 DEF Placed, Places
      <4> QED
        BY <4>1
    <3>5. CASE \E p \in Procs : n \in detached[p]
      <4> PICK p \in Procs : n \in detached[p]
        BY <3>5
      <4>1. Places(n) = {<<"detached", p>>}
        BY <3>1 DEF Placed, Places
      <4> QED
        BY <4>1
    <3>6. CASE \E s \in Slots : n \in retired[s]
      <4> PICK s \in Slots : n \in retired[s]
        BY <3>6
      <4>1. Places(n) = {<<"retired", s>>}
        BY <3>1 DEF Placed, Places
      <4> QED
        BY <4>1
    <3> QED
      BY <3>2, <3>3, <3>4, <3>5, <3>6 DEF Placed
  <2> QED
    BY <2>1, <2>2 DEF NoUseAfterFree
<1> QED
  BY <1>1, Invariance, PTL

\* try_advance_epoch: the epoch is never more than one ahead of a section, from the
\* moment its slot counted it.
THEOREM ReadersHoldTheEpochHolds == Spec => []ReadersHoldTheEpoch
<1>1. IInv => ReadersHoldTheEpoch
  BY DEF IInv
<1> QED
  BY <1>1, Invariance, PTL
=============================================================================
