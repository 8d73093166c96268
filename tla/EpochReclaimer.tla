--------------------------- MODULE EpochReclaimer ---------------------------
(***************************************************************************)
(* Epoch-based reclamation: epoch_reclaimer_core over the slots of         *)
(* slot_policy, used the way the skip list uses them.  A process enters a  *)
(* read section, follows links, inserts and removes nodes; the process     *)
(* that unlinks a node stamps it with the epoch and puts it on the retired *)
(* list of its slot; after a removal it may, still inside its section, try *)
(* to advance the epoch and free what its slot retired long enough ago.    *)
(*                                                                         *)
(* A process runs on any CPU: there may be more CPUs than slots, threads   *)
(* migrate on a hosted build, and a handler interrupts a section.  So a    *)
(* slot can be shared.  When a removal tries to reclaim (the throttle) is  *)
(* left open.                                                              *)
(***************************************************************************)
EXTENDS Naturals, FiniteSets, TLC

CONSTANTS
    Procs,
    Nodes, NoNode,
    NumSlots,               \* NUM_SLOTS
    Cpus,                   \* the ids get_cpu_id() returns
    Unassigned,             \* INVALID_CPU_ID
    Lag,                    \* EPOCH_RECLAIM_LAG
    MaxEpoch                \* bound: no removal reclaims from this epoch on

ASSUME SizesAssumption ==
    /\ NumSlots \in Nat \ {0} /\ NoNode \notin Nodes
    /\ Cpus \subseteq Nat /\ Unassigned \in Nat \ Cpus
    /\ Lag \in Nat \ {0, 1} /\ MaxEpoch \in Nat \ {0}

ASSUME ProcsAssumption == IsFiniteSet(Procs)

Slots == 0 .. NumSlots - 1
Epochs == 1 .. MaxEpoch

VARIABLES
    epoch,                  \* global_epoch_
    depth, readerEpoch,     \* reader_depth_ and reader_epoch_ of each slot
    assigned,               \* assigned_cpu_id_ of each slot
    retired,                \* the nodes on local_retired_head_ of each slot
    stamp,                  \* retired_epoch_ of each node
    linked,                 \* the nodes a search can find
    unused,                 \* the nodes whose memory is free
    pc, slot,               \* per process: where it is, its slot
    seen,                   \* the epoch it loaded
    at,                     \* the slot its scan is at
    node,                   \* the node it unlinked
    detached,               \* the retired nodes it took off its slot
    reach,                  \* the nodes it may hold a reference to
    since                   \* history: the epoch when its slot counted it

slotVars == <<depth, readerEpoch, assigned>>
nodeVars == <<retired, stamp, linked, unused>>
scanVars == <<seen, at>>
vars == <<epoch, slotVars, nodeVars, pc, slot, scanVars, node, detached, reach, since>>

Init ==
    /\ epoch = 1
    /\ depth = [s \in Slots |-> 0] /\ readerEpoch = [s \in Slots |-> 0]
    /\ assigned = [s \in Slots |-> Unassigned]
    /\ retired = [s \in Slots |-> {}] /\ stamp = [n \in Nodes |-> 0]
    /\ linked = {} /\ unused = Nodes
    /\ pc = [p \in Procs |-> "idle"] /\ slot = [p \in Procs |-> 0]
    /\ seen = [p \in Procs |-> 0] /\ at = [p \in Procs |-> 0]
    /\ node = [p \in Procs |-> NoNode] /\ detached = [p \in Procs |-> {}]
    /\ reach = [p \in Procs |-> {}] /\ since = [p \in Procs |-> 0]

Goto(p, from, to) == pc[p] = from /\ pc' = [pc EXCEPT ![p] = to]

-----------------------------------------------------------------------------
\* enter_read_section

\* acquire_slot: from the slot of its id on, the first that is free or its own, or
\* else the one it started from.
SlotsFor(cpu) == {s \in Slots : assigned[s] \in {Unassigned, cpu}}

Distance(cpu, s) == ((s + NumSlots) - (cpu % NumSlots)) % NumSlots

AcquiredSlot(cpu) ==
    IF SlotsFor(cpu) = {}
       THEN cpu % NumSlots
       ELSE CHOOSE s \in SlotsFor(cpu) : \A r \in SlotsFor(cpu) : Distance(cpu, s) <= Distance(cpu, r)

EnterLoad(p) ==
    /\ Goto(p, "idle", "count")
    /\ \E cpu \in Cpus :
          LET s == AcquiredSlot(cpu) IN
          /\ slot' = [slot EXCEPT ![p] = s]
          /\ assigned' = [assigned EXCEPT ![s] = IF @ = Unassigned THEN cpu ELSE @]
    /\ seen' = [seen EXCEPT ![p] = epoch]
    /\ UNCHANGED <<epoch, depth, readerEpoch, nodeVars, at, node, detached, reach, since>>

\* From here on it may find what is linked; what it reads later it may hold as well.
StartsReading(p) == reach' = [reach EXCEPT ![p] = linked]

\* Only the reader that finds the slot unused records its epoch there.
EnterCount(p) ==
    /\ pc[p] = "count"
    /\ depth' = [depth EXCEPT ![slot[p]] = @ + 1]
    /\ since' = [since EXCEPT ![p] = epoch]
    /\ IF depth[slot[p]] = 0
          THEN pc' = [pc EXCEPT ![p] = "record"] /\ UNCHANGED <<seen, reach>>
          ELSE /\ pc' = [pc EXCEPT ![p] = "reading"]
               /\ seen' = [seen EXCEPT ![p] = 0] /\ StartsReading(p)
    /\ UNCHANGED <<epoch, readerEpoch, assigned, nodeVars, slot, at, node, detached>>

EnterRecord(p) ==
    /\ Goto(p, "record", "reading")
    /\ readerEpoch' = [readerEpoch EXCEPT ![slot[p]] = seen[p]]
    /\ seen' = [seen EXCEPT ![p] = 0] /\ StartsReading(p)
    /\ UNCHANGED <<epoch, depth, assigned, nodeVars, slot, at, node, detached, since>>

-----------------------------------------------------------------------------
\* The operations of the structure, inside a section

InSection == {p \in Procs : pc[p] \in {"reading", "stamp", "push"}}

Insert(p) ==
    /\ pc[p] = "reading"
    /\ \E n \in unused :
          /\ unused' = unused \ {n} /\ linked' = linked \cup {n}
          /\ reach' = [q \in Procs |-> IF q \in InSection THEN reach[q] \cup {n} ELSE reach[q]]
    /\ UNCHANGED <<epoch, slotVars, retired, stamp, pc, slot, scanVars, node, detached, since>>

\* The final unlink of a node; whoever does it retires the node.
Unlink(p) ==
    /\ Goto(p, "reading", "stamp")
    /\ \E n \in linked : linked' = linked \ {n} /\ node' = [node EXCEPT ![p] = n]
    /\ UNCHANGED <<epoch, slotVars, retired, stamp, unused, slot, scanVars, detached, reach, since>>

RetireStamp(p) ==
    /\ Goto(p, "stamp", "push")
    /\ stamp' = [stamp EXCEPT ![node[p]] = epoch]
    /\ UNCHANGED <<epoch, slotVars, retired, linked, unused, slot, scanVars, node, detached,
                   reach, since>>

\* What the list of slot s holds when these nodes have been linked before its head,
\* by a compare-exchange: a process that shares the slot may push as well.
Listed(s, nodes) == retired[s] \cup nodes

RetirePush(p) ==
    /\ Goto(p, "push", "reading")
    /\ retired' = [retired EXCEPT ![slot[p]] = Listed(slot[p], {node[p]})]
    /\ node' = [node EXCEPT ![p] = NoNode]
    /\ UNCHANGED <<epoch, slotVars, stamp, linked, unused, slot, scanVars, detached, reach, since>>

\* exit_read_section: depth 0 stays 0.
Exit(p) ==
    /\ Goto(p, "reading", "idle") \/ Goto(p, "leave", "idle")
    /\ depth' = [depth EXCEPT ![slot[p]] = IF @ = 0 THEN 0 ELSE @ - 1]
    /\ slot' = [slot EXCEPT ![p] = 0] /\ seen' = [seen EXCEPT ![p] = 0]
    /\ reach' = [reach EXCEPT ![p] = {}] /\ since' = [since EXCEPT ![p] = 0]
    /\ UNCHANGED <<epoch, readerEpoch, assigned, nodeVars, at, node, detached>>
-----------------------------------------------------------------------------
\* advance_and_reclaim, at the end of a removal: the process is still counted in its
\* slot and follows no link any more.

AdvanceBegin(p) ==
    /\ Goto(p, "reading", "advDepth")
    /\ epoch < MaxEpoch
    /\ seen' = [seen EXCEPT ![p] = epoch] /\ at' = [at EXCEPT ![p] = 0]
    /\ reach' = [reach EXCEPT ![p] = {}]
    /\ UNCHANGED <<epoch, slotVars, nodeVars, slot, node, detached, since>>

\* Its own slot is exempt while nobody shares it.
ExemptOwn(p, s) == s = slot[p]

Exempt(p, s) == s = slot[p] /\ depth[s] <= 1

\* A slot that the scan passes without a look at its epoch.
PassesBy(p) == Exempt(p, at[p]) \/ depth[at[p]] = 0

\* The scan is past slot at[p].
NextSlot(p, thisOne, done) ==
    IF at[p] + 1 < NumSlots
       THEN at' = [at EXCEPT ![p] = @ + 1] /\ pc' = [pc EXCEPT ![p] = thisOne]
       ELSE at' = [at EXCEPT ![p] = 0] /\ pc' = [pc EXCEPT ![p] = done]

LooksCloser(p, to) == pc' = [pc EXCEPT ![p] = to] /\ UNCHANGED at

GivesUp(p, to) ==
    /\ pc' = [pc EXCEPT ![p] = to]
    /\ at' = [at EXCEPT ![p] = 0] /\ seen' = [seen EXCEPT ![p] = 0]

AdvanceDepth(p) ==
    /\ pc[p] = "advDepth"
    /\ IF PassesBy(p) THEN NextSlot(p, "advDepth", "advCas") ELSE LooksCloser(p, "advEpoch")
    /\ UNCHANGED <<epoch, slotVars, nodeVars, slot, seen, node, detached, reach, since>>

BehindLenient(p) == readerEpoch[at[p]] + 1 < seen[p]

Behind(p) == readerEpoch[at[p]] < seen[p]

AdvanceEpoch(p) ==
    /\ pc[p] = "advEpoch"
    /\ IF Behind(p)
          THEN GivesUp(p, "reclaim")
          ELSE NextSlot(p, "advDepth", "advCas") /\ UNCHANGED seen
    /\ UNCHANGED <<epoch, slotVars, nodeVars, slot, node, detached, reach, since>>

AdvanceCas(p) ==
    /\ Goto(p, "advCas", "reclaim")
    /\ epoch' = IF epoch = seen[p] THEN epoch + 1 ELSE epoch
    /\ seen' = [seen EXCEPT ![p] = 0]
    /\ UNCHANGED <<slotVars, nodeVars, slot, at, node, detached, reach, since>>

\* try_reclaim
ReclaimBegin(p) ==
    /\ pc[p] = "reclaim"
    /\ IF epoch <= Lag
          THEN pc' = [pc EXCEPT ![p] = "leave"] /\ UNCHANGED seen
          ELSE pc' = [pc EXCEPT ![p] = "recDepth"] /\ seen' = [seen EXCEPT ![p] = epoch]
    /\ UNCHANGED <<epoch, slotVars, nodeVars, slot, at, node, detached, reach, since>>

ReclaimDepth(p) ==
    /\ pc[p] = "recDepth"
    /\ IF PassesBy(p) THEN NextSlot(p, "recDepth", "detach") ELSE LooksCloser(p, "recEpoch")
    /\ UNCHANGED <<epoch, slotVars, nodeVars, slot, seen, node, detached, reach, since>>

ReclaimEpoch(p) ==
    /\ pc[p] = "recEpoch"
    /\ IF readerEpoch[at[p]] <= seen[p] - Lag
          THEN GivesUp(p, "leave")
          ELSE NextSlot(p, "recDepth", "detach") /\ UNCHANGED seen
    /\ UNCHANGED <<epoch, slotVars, nodeVars, slot, node, detached, reach, since>>

Detach(p) ==
    /\ Goto(p, "detach", "free")
    /\ detached' = [detached EXCEPT ![p] = retired[slot[p]]]
    /\ retired' = [retired EXCEPT ![slot[p]] = {}]
    /\ UNCHANGED <<epoch, slotVars, stamp, linked, unused, slot, scanVars, node, reach, since>>

OldEnough(p, n) == stamp[n] <= seen[p] - Lag

Free(p) ==
    LET freed == {n \in detached[p] : OldEnough(p, n)} IN
    /\ Goto(p, "free", "putBack")
    /\ unused' = unused \cup freed
    /\ detached' = [detached EXCEPT ![p] = @ \ freed]
    /\ stamp' = [n \in Nodes |-> IF n \in freed THEN 0 ELSE stamp[n]]
    /\ UNCHANGED <<epoch, slotVars, retired, linked, slot, scanVars, node, reach, since>>

PutBack(p) ==
    /\ Goto(p, "putBack", "leave")
    /\ retired' = [retired EXCEPT ![slot[p]] = Listed(slot[p], detached[p])]
    /\ detached' = [detached EXCEPT ![p] = {}]
    /\ UNCHANGED <<epoch, slotVars, stamp, linked, unused, slot, scanVars, node, reach, since>>

-----------------------------------------------------------------------------
Step(p) ==
    \/ EnterLoad(p) \/ EnterCount(p) \/ EnterRecord(p)
    \/ Insert(p) \/ Unlink(p) \/ RetireStamp(p) \/ RetirePush(p) \/ Exit(p)
    \/ AdvanceBegin(p) \/ AdvanceDepth(p) \/ AdvanceEpoch(p) \/ AdvanceCas(p)
    \/ ReclaimBegin(p) \/ ReclaimDepth(p) \/ ReclaimEpoch(p)
    \/ Detach(p) \/ Free(p) \/ PutBack(p)

Next == \E p \in Procs : Step(p)

Spec == Init /\ [][Next]_vars

-----------------------------------------------------------------------------
\* Every node is in one place: unused, linked, with whoever unlinked it, on the list
\* of one slot or with whoever took it off.
Places(n) ==
    {<<"unused">> : x \in {n} \cap unused} \cup {<<"linked">> : x \in {n} \cap linked}
    \cup {<<"unlinked", p>> : p \in {q \in Procs : node[q] = n}}
    \cup {<<"retired", s>> : s \in {r \in Slots : n \in retired[r]}}
    \cup {<<"detached", p>> : p \in {q \in Procs : n \in detached[q]}}

TypeOK ==
    /\ epoch \in Epochs
    /\ depth \in [Slots -> Nat] /\ readerEpoch \in [Slots -> Epochs \cup {0}]
    /\ assigned \in [Slots -> Cpus \cup {Unassigned}]
    /\ stamp \in [Nodes -> Epochs \cup {0}]
    /\ pc \in [Procs -> {"idle", "count", "record", "reading", "stamp", "push", "advDepth",
                         "advEpoch", "advCas", "reclaim", "recDepth", "recEpoch", "detach",
                         "free", "putBack", "leave"}]
    /\ slot \in [Procs -> Slots] /\ seen \in [Procs -> Epochs \cup {0}]
    /\ at \in [Procs -> Slots] /\ node \in [Procs -> Nodes \cup {NoNode}]
    /\ reach \in [Procs -> SUBSET Nodes] /\ since \in [Procs -> Epochs \cup {0}]

\* Every node is in one place, and none is freed while a process in a section may still
\* hold it: whoever shares a slot, however far its enter had come, and whichever epoch
\* the slot carries (retire_node, reclaim_detached_retired_list, try_reclaim).
NoUseAfterFree ==
    /\ TypeOK
    /\ \A n \in Nodes : \E place \in Places(n) : Places(n) = {place}
    /\ \A p \in InSection : reach[p] \cap unused = {}

\* The epoch never runs more than one ahead of a reader, from the moment its slot
\* counts it: the window in which it is counted and has not recorded its epoch, or
\* will never record it because the slot was in use, is safe.
ReadersHoldTheEpoch ==
    \A p \in Procs : p \in InSection \/ pc[p] = "record" => epoch <= since[p] + 1

\* Neither processes nor nodes have an order; CPU ids and slots do.
Symmetry == Permutations(Procs) \cup Permutations(Nodes)
=============================================================================
