---------------------------- MODULE MCContainers ----------------------------
(***************************************************************************)
(* Small instances of the lock-free containers that no other one uses:     *)
(* the single-producer queue, the value stack and the tagged stack.  They  *)
(* share nothing: subject, chosen at the start, says which one the         *)
(* behaviour is about, and the others stay as they were initialised.       *)
(***************************************************************************)
EXTENDS SpscQueue, TLC

CONSTANTS
    Producer, Consumers, StackValues, NoValue,      \* of the value stack
    Capacity, GenModulus,
    Procs, Nodes, Null, InitialHeld,                \* of the tagged stack
    CounterModulus,
    p1, p2, n1, n2, n3                              \* the threads and nodes of the instance

VARIABLES
    subject,
    vState, vSlots, vOut, vPc, vOld, vValue, vPushes,
    tHead, tLink, tPc, tMine, tSeen, tNext, tHeld, tChanges

\* The instance has more values than slots, and a generation that wraps.
V == INSTANCE SpMcValueStack WITH
        Values <- StackValues, state <- vState, slots <- vSlots, out <- vOut, pc <- vPc,
        old <- vOld, value <- vValue, pushes <- vPushes

\* In the instance two threads share three nodes, under a counter that wraps.
T == INSTANCE TaggedStack WITH
        head <- tHead, link <- tLink, pc <- tPc, mine <- tMine, seen <- tSeen,
        next <- tNext, held <- tHeld, changes <- tChanges

MCInitialHeld == (p1 :> {n1, n2}) @@ (p2 :> {n3})

ASSUME ValueStackSizes == V!SizesAssumption

ASSUME TaggedStackSizes == T!OwnersAssumption /\ T!CounterAssumption

vVars == <<vState, vSlots, vOut, vPc, vOld, vValue, vPushes>>
tVars == <<tHead, tLink, tPc, tMine, tSeen, tNext, tHeld, tChanges>>
allVars == <<subject, vars, vVars, tVars>>

AllInit == subject \in {"queue", "values", "nodes"} /\ Init /\ V!Init /\ T!Init

AllNext ==
    /\ UNCHANGED subject
    /\ \/ subject = "queue" /\ Next /\ UNCHANGED <<vVars, tVars>>
       \/ subject = "values" /\ V!Next /\ UNCHANGED <<vars, tVars>>
       \/ subject = "nodes" /\ T!Next /\ UNCHANGED <<vars, vVars>>

\* Only that some thread moves: what a lock-free operation needs.
AllSpec == AllInit /\ [][AllNext]_allVars /\ WF_allVars(AllNext)

TypesOK == TypeOK /\ V!TypeOK /\ T!TypeOK

\* What the three modules state: the queue is a bounded queue, each stack an atomic one
\* (push and pop of spsc_queue, sp_mc_value_stack and intrusive_tagged_stack).
ImplementsContainers == ImplementsQueue /\ V!ImplementsStack /\ T!ImplementsStack

\* Each stack in use is lock-free: its operations keep completing.
StacksLockFree ==
    /\ subject = "values" => V!LockFree
    /\ subject = "nodes" => T!LockFree
=============================================================================
