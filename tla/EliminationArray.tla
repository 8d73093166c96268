-------------------------- MODULE EliminationArray --------------------------
(***************************************************************************)
(* elimination_array: slots at which a thread that puts an element and one *)
(* that gets one meet.  Whoever comes first waits a while in the slot;     *)
(* the second claims the waiter, and from then on each waits for the       *)
(* other.  A thread tries a few random slots and then gives up.            *)
(***************************************************************************)
EXTENDS Naturals

CONSTANTS
    Threads,
    Slots,                  \* the slots of elimination_array_
    Values,
    Null,                   \* nullptr
    MaxAttempts,            \* 3
    InitialHeld             \* the elements each thread owns at the start

ASSUME ElementsAssumption ==
    /\ Slots # {} /\ Null \notin Values
    /\ InitialHeld \in [Threads -> SUBSET Values]
    /\ MaxAttempts \in Nat \ {0}

SlotStates == {"empty", "putSetup", "waitingPut", "eliminatingPut",
               "waitingGet", "eliminatingGet", "getCleanup", "eliminated"}

VARIABLES
    state, element,         \* state_ and element_ of each slot
    held,                   \* the elements each caller owns
    pc, slot, attempts,     \* per thread: where it is, its slot and its attempts there
    value                   \* new_element, or what it has read for its caller

vars == <<state, element, held, pc, slot, attempts, value>>

Init ==
    /\ state = [s \in Slots |-> "empty"] /\ element = [s \in Slots |-> Null]
    /\ held = InitialHeld
    /\ pc = [t \in Threads |-> "idle"]
    /\ slot = [t \in Threads |-> CHOOSE s \in Slots : TRUE]
    /\ attempts = [t \in Threads |-> 0]
    /\ value = [t \in Threads |-> Null]

\* A compare-exchange that succeeds.
Exchanged(t, from, to) ==
    state[slot[t]] = from /\ state' = [state EXCEPT ![slot[t]] = to]

Goto(t, from, to) == pc[t] = from /\ pc' = [pc EXCEPT ![t] = to]

\* Return to the caller with these elements in its hands.
Return(t, elements) ==
    /\ held' = [held EXCEPT ![t] = elements]
    /\ value' = [value EXCEPT ![t] = Null]
    /\ attempts' = [attempts EXCEPT ![t] = 0]

Begin(t, to) ==
    /\ Goto(t, "idle", to)
    /\ \E s \in Slots : slot' = [slot EXCEPT ![t] = s]
    /\ UNCHANGED <<state, element, held, attempts>>

Spent(t) == attempts[t] + 1 >= MaxAttempts

\* The slot was of no use: another random slot, or the end.
NextAttempt(t, again) ==
    \/ /\ ~Spent(t)
       /\ attempts' = [attempts EXCEPT ![t] = @ + 1]
       /\ \E s \in Slots : slot' = [slot EXCEPT ![t] = s]
       /\ pc' = [pc EXCEPT ![t] = again]
       /\ UNCHANGED <<state, element, held, value>>
    \/ /\ Spent(t)
       /\ pc' = [pc EXCEPT ![t] = "idle"]
       /\ Return(t, held[t])
       /\ UNCHANGED <<state, element, slot>>

-----------------------------------------------------------------------------
\* put_element

PutBegin(t) == Begin(t, "putTry") /\ \E v \in held[t] : value' = [value EXCEPT ![t] = v]

PutClaim(t) ==
    /\ Goto(t, "putTry", "putSet")
    /\ Exchanged(t, "empty", "putSetup")
    /\ UNCHANGED <<element, held, slot, attempts, value>>

PutMiss(t) ==
    /\ Goto(t, "putTry", "putMatch")
    /\ state[slot[t]] # "empty"
    /\ UNCHANGED <<state, element, held, slot, attempts, value>>

PutMatch(t) ==
    /\ Goto(t, "putMatch", "putGive")
    /\ Exchanged(t, "waitingPut", "eliminatingPut")
    /\ UNCHANGED <<element, held, slot, attempts, value>>

PutNext(t) ==
    /\ pc[t] = "putMatch" /\ state[slot[t]] # "waitingPut"
    /\ NextAttempt(t, "putTry")

\* The element is written while the slot is locked, before the partner may look.
PutWrite(t) ==
    /\ Goto(t, "putSet", "putOffer") \/ Goto(t, "putGive", "putGiven")
    /\ element' = [element EXCEPT ![slot[t]] = value[t]]
    /\ UNCHANGED <<state, held, slot, attempts, value>>

PutOffer(t) ==
    /\ Goto(t, "putOffer", "putWait")
    /\ state' = [state EXCEPT ![slot[t]] = "waitingGet"]
    /\ UNCHANGED <<element, held, slot, attempts, value>>

PutGiven(t) ==
    /\ Goto(t, "putGiven", "idle")
    /\ state' = [state EXCEPT ![slot[t]] = "eliminated"]
    /\ Return(t, held[t] \ {value[t]})
    /\ UNCHANGED <<element, slot>>

\* Is the waiter still alone at the end of its wait?
UnmatchedAnyway(t, waiting) == TRUE

Unmatched(t, waiting) == state[slot[t]] = waiting

PutWithdraw(t) ==
    /\ Goto(t, "putWait", "idle")
    /\ Unmatched(t, "waitingGet")
    /\ state' = [state EXCEPT ![slot[t]] = "empty"]
    /\ Return(t, held[t])
    /\ UNCHANGED <<element, slot>>

PutMatched(t) ==
    /\ Goto(t, "putWait", "putSpin")
    /\ ~Unmatched(t, "waitingGet")
    /\ UNCHANGED <<state, element, held, slot, attempts, value>>

\* The end of the loop that waits for the partner.
PutSpin(t) ==
    /\ Goto(t, "putSpin", "idle")
    /\ Exchanged(t, "eliminated", "empty")
    /\ Return(t, held[t] \ {value[t]})
    /\ UNCHANGED <<element, slot>>

-----------------------------------------------------------------------------
\* get_element: its first two exchanges are weak.

GetBegin(t) == Begin(t, "getTry") /\ UNCHANGED value

GetClaim(t) ==
    /\ Goto(t, "getTry", "getWait")
    /\ Exchanged(t, "empty", "waitingPut")
    /\ UNCHANGED <<element, held, slot, attempts, value>>

GetMiss(t) ==
    /\ Goto(t, "getTry", "getMatch")
    /\ UNCHANGED <<state, element, held, slot, attempts, value>>

GetMatch(t) ==
    /\ Goto(t, "getMatch", "getLoad")
    /\ Exchanged(t, "waitingGet", "eliminatingGet")
    /\ UNCHANGED <<element, held, slot, attempts, value>>

GetNext(t) == pc[t] = "getMatch" /\ NextAttempt(t, "getTry")

GetWithdraw(t) ==
    /\ Goto(t, "getWait", "idle")
    /\ Unmatched(t, "waitingPut")
    /\ state' = [state EXCEPT ![slot[t]] = "empty"]
    /\ Return(t, held[t])
    /\ UNCHANGED <<element, slot>>

GetMatched(t) ==
    /\ Goto(t, "getWait", "getSpin")
    /\ ~Unmatched(t, "waitingPut")
    /\ UNCHANGED <<state, element, held, slot, attempts, value>>

GetSpin(t) ==
    /\ Goto(t, "getSpin", "getLoad")
    /\ Exchanged(t, "eliminated", "getCleanup")
    /\ UNCHANGED <<element, held, slot, attempts, value>>

GetLoad(t) ==
    /\ Goto(t, "getLoad", "getClear")
    /\ value' = [value EXCEPT ![t] = element[slot[t]]]
    /\ UNCHANGED <<state, element, held, slot, attempts>>

GetClear(t) ==
    /\ Goto(t, "getClear", "getDone")
    /\ element' = [element EXCEPT ![slot[t]] = Null]
    /\ UNCHANGED <<state, held, slot, attempts, value>>

\* A getter that waited empties the slot; one that met a waiter leaves that to it.
AfterGetEmpty(s) == "empty"

AfterGet(s) == IF state[s] = "getCleanup" THEN "empty" ELSE "eliminated"

GetDone(t) ==
    /\ Goto(t, "getDone", "idle")
    /\ state' = [state EXCEPT ![slot[t]] = AfterGet(slot[t])]
    /\ Return(t, held[t] \cup {value[t]})
    /\ UNCHANGED <<element, slot>>

-----------------------------------------------------------------------------
Operations(t) ==
    \/ PutClaim(t) \/ PutMiss(t) \/ PutMatch(t) \/ PutNext(t) \/ PutWrite(t) \/ PutOffer(t)
    \/ PutGiven(t) \/ PutWithdraw(t) \/ PutMatched(t) \/ PutSpin(t)
    \/ GetClaim(t) \/ GetMiss(t) \/ GetMatch(t) \/ GetNext(t) \/ GetWithdraw(t)
    \/ GetMatched(t) \/ GetSpin(t) \/ GetLoad(t) \/ GetClear(t) \/ GetDone(t)

Next == \E t \in Threads : PutBegin(t) \/ GetBegin(t) \/ Operations(t)

\* Every thread that is in an operation keeps running.
Spec == Init /\ [][Next]_vars /\ \A t \in Threads : WF_vars(Operations(t))

-----------------------------------------------------------------------------
TypeOK ==
    /\ state \in [Slots -> SlotStates] /\ element \in [Slots -> Values \cup {Null}]
    /\ held \in [Threads -> SUBSET Values]
    /\ pc \in [Threads -> {"idle", "putTry", "putSet", "putMatch", "putGive", "putOffer",
                           "putGiven", "putWait", "putSpin", "getTry", "getMatch", "getWait",
                           "getSpin", "getLoad", "getClear", "getDone"}]
    /\ slot \in [Threads -> Slots] /\ attempts \in [Threads -> 0 .. MaxAttempts - 1]
    /\ value \in [Threads -> Values \cup {Null}]

\* The threads at a slot that are past its claim: at most a waiter and its partner.
Waiting(t) == pc[t] \in {"putWait", "putSpin", "getWait", "getSpin"}
Giving(t) == pc[t] \in {"putGive", "putGiven"}
Reading(t) == pc[t] \in {"getLoad", "getClear", "getDone"}
At(s) == {t \in Threads : slot[t] = s /\ (pc[t] \in {"putSet", "putOffer"} \/ Waiting(t)
                                          \/ Giving(t) \/ Reading(t))}

\* The element is with the getter from the exchange that matches the two.
GaveAway(t) ==
    \/ Giving(t)
    \/ pc[t] \in {"putWait", "putSpin"} /\ state[slot[t]] \in {"eliminatingGet", "eliminated"}

Received(t) ==
    CASE pc[t] \in {"getClear", "getDone"} -> {value[t]}
      [] pc[t] = "getLoad" -> {element[slot[t]]}
      [] pc[t] \in {"getWait", "getSpin"} /\ state[slot[t]] = "eliminated" -> {element[slot[t]]}
      [] pc[t] \in {"getWait", "getSpin"} /\ state[slot[t]] = "eliminatingPut" ->
            {value[u] : u \in {w \in At(slot[t]) : Giving(w)}}
      [] OTHER -> {}

Owned(t) == (held[t] \ {v \in {value[t]} : GaveAway(t)}) \cup Received(t)

IsPut(t) == pc[t] \in {"putTry", "putSet", "putMatch", "putGive", "putOffer", "putGiven",
                       "putWait", "putSpin"}

\* An element passes from one caller to another in one moment at which both are in
\* their calls, and what each is told agrees with it: no element is lost, given twice,
\* or kept by a putter that a getter was already serving when its wait ran out.
X == INSTANCE Exchange WITH
        Procs <- Threads, None <- Null,
        held <- [t \in Threads |-> Owned(t)],
        offers <- [t \in Threads |-> IF IsPut(t) THEN value[t] ELSE Null],
        asks <- {t \in Threads : pc[t] # "idle" /\ ~IsPut(t)}

ImplementsExchange == X!ExchangeSpec

\* With every thread running, no operation waits for ever: the two loops that wait
\* for the partner end because nobody else can use the slot meanwhile.
Completes == \A t \in Threads : pc[t] # "idle" ~> pc[t] = "idle"
=============================================================================
