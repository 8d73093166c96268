--------------------------- MODULE MCCoordination ---------------------------
(***************************************************************************)
(* Small instances of the classes through which threads coordinate: the    *)
(* elimination array, the token dispenser, the latest-value slots and the  *)
(* mutexes, with the platform below them.  They share nothing: subject,    *)
(* chosen at the start, says which one the behaviour is about, and the     *)
(* others stay as they were initialised.                                   *)
(***************************************************************************)
EXTENDS EliminationArray, FiniteSets, TLC

CONSTANTS
    NumberOfTokens, CounterModulus,                                     \* TokenDispenser
    Writers, Readers, NumSlots, WordCount, Stored, Zero, SeqModulus,    \* LatestValueSlotArray
    Lockers, Handles, Kinds, MaxDepth,                                  \* Mutex
    Machines, Topologies, MaxNesting                                    \* Platform

VARIABLES
    subject,
    tokens, counter, tokenPc, index, expected,
    seq, words, current, busy, latest, wpc, stored, target, word,
    rpc, published, copied, at, during, rewrites,
    kind, locked, owner, depth, handle, bare, call,
    machine, topology, enabled, frames, startedEnabled

D == INSTANCE TokenDispenser WITH pc <- tokenPc

L == INSTANCE LatestValueSlotArray WITH
        Values <- Stored, value <- stored, BoundedAt <- {"check", "copy", "recheck"}

M == INSTANCE Mutex WITH Threads <- Lockers

P == INSTANCE Platform

ASSUME TokenSizes == D!SizesAssumption

ASSUME LatestSizes == L!SizesAssumption

ASSUME MutexSizes == M!MutexAssumption

ASSUME PlatformSizes == P!MachinesAssumption

-----------------------------------------------------------------------------
(* The instance                                                            *)

\* Each of the first threads owns the element of its name.
MCHeld == [t \in Threads |-> {v \in Values : v = t}]

\* Cores and clusters of the lowest and highest numbers.
MCMachines == {[multithreaded |-> b, cores |-> {0, 1, 255} \X {0, 1, 255}] : b \in BOOLEAN}

\* Processors that tell their levels, end them early, or tell nothing.
MCTopologies ==
    {[maxLeaf |-> leaf, levels |-> levels, logical |-> n] :
        leaf \in {0, 1, 11}, n \in {0, 4},
        levels \in {<<>>, <<<<1, 2>>, <<2, 8>>, <<0, 0>>>>,
                    <<<<1, 2>>, <<0, 0>>, <<2, 8>>>>, <<<<2, 0>>, <<2, 5>>>>}}

-----------------------------------------------------------------------------
dVars == <<tokens, counter, tokenPc, index, expected>>
lVars == <<seq, words, current, busy, latest, wpc, stored, target, word,
           rpc, published, copied, at, during, rewrites>>
mVars == <<kind, locked, owner, depth, handle, bare, call>>
pVars == <<machine, topology, enabled, frames, startedEnabled>>
allVars == <<subject, vars, dVars, lVars, mVars, pVars>>

\* What is not the subject starts in one way only.
AllInit ==
    /\ subject \in {"elimination", "tokens", "latest", "mutex", "platform"}
    /\ Init /\ D!Init /\ L!Init /\ M!Init /\ P!Init
    /\ subject # "mutex" => kind = CHOOSE k \in Kinds : TRUE
    /\ subject # "platform" =>
          enabled /\ machine = (CHOOSE m \in Machines : TRUE) /\ topology = CHOOSE t \in Topologies : TRUE

AllNext ==
    /\ UNCHANGED subject
    /\ \/ subject = "elimination" /\ Next /\ UNCHANGED <<dVars, lVars, mVars, pVars>>
       \/ subject = "tokens" /\ D!Next /\ UNCHANGED <<vars, lVars, mVars, pVars>>
       \/ subject = "latest" /\ L!Next /\ UNCHANGED <<vars, dVars, mVars, pVars>>
       \/ subject = "mutex" /\ M!Next /\ UNCHANGED <<vars, dVars, lVars, pVars>>
       \/ subject = "platform" /\ P!Next /\ UNCHANGED <<vars, dVars, lVars, mVars>>

\* Each class with the fairness its own module assumes.
AllSpec ==
    /\ AllInit /\ [][AllNext]_allVars
    /\ \A t \in Threads : WF_vars(Operations(t))
    /\ WF_dVars(subject = "tokens" /\ D!Next)
    /\ \A r \in Readers : WF_lVars(L!Loading(r))

-----------------------------------------------------------------------------
\* What TokenDispenser states of get_token and release_token: a token is out once.
TokensHeldOnce == D!TokensHeldOnce

\* What LatestValueSlotArray states of load, with its types.
LoadIsLinearizable == L!TypeOK /\ L!LoadIsLinearizable

\* A mutex has one holder, who can enter again and leave; and on the platform below, CPUs are
\* told apart and counted, and nothing interrupts a guarded section (lock, try_lock, unlock and
\* the operations of unique_lock; get_cpu_id, get_cpu_count, back_off, basic_interrupt_guard).
SectionsExclude ==
    /\ subject = "mutex" => M!LocksExclude
    /\ subject = "platform" => P!CpusAreTold /\ P!GuardsHold

\* What EliminationArray states: an element changes hands at one moment (put, get).
ElementsPassOnce == []TypeOK /\ ImplementsExchange

\* Operations come to an end: tokens keep being taken and returned, every exchange ends, and a
\* writer that stops does not hold up a reader (get_token; put and get; store and load).
OperationsComplete ==
    /\ subject = "tokens" => D!LockFree
    /\ Completes
    /\ L!ReadersNeverStalled
=============================================================================
