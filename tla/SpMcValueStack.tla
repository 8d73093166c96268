--------------------------- MODULE SpMcValueStack ---------------------------
(***************************************************************************)
(* sp_mc_value_stack: a fixed array of slots under one state word, a       *)
(* generation that every push increments and the number of values.  One    *)
(* producer pushes, any number of consumers pop.  A consumer reads the top *)
(* slot before its compare-exchange, and only the generation tells it that *)
(* the slot was popped and written again meanwhile.                        *)
(***************************************************************************)
EXTENDS Naturals, Sequences

CONSTANTS
    Consumers,
    Producer,
    Values,
    NoValue,                \* of a slot never written, and of a thread with none
    Capacity,
    GenModulus              \* 2^32: the generation wraps

SizesAssumption ==
    /\ Capacity \in Nat \ {0} /\ GenModulus \in Nat /\ GenModulus >= 2
    /\ Producer \notin Consumers /\ NoValue \notin Values

Threads == Consumers \cup {Producer}
States == [gen : 0 .. GenModulus - 1, count : 0 .. Capacity]

VARIABLES
    state,                  \* state_: the generation and the count
    slots,                  \* slots_
    out,                    \* the values outside the stack
    pc,
    old,                    \* per thread: the state as it last read it
    value,                  \* what it pushes, or read from the slot
    pushes                  \* pushes since it read the state: GenModulus bounds them

vars == <<state, slots, out, pc, old, value, pushes>>

EmptyState == [gen |-> 0, count |-> 0]

Init ==
    /\ state = EmptyState
    /\ slots = [i \in 0 .. Capacity - 1 |-> NoValue]
    /\ out = Values
    /\ pc = [t \in Threads |-> "idle"]
    /\ old = [t \in Threads |-> EmptyState]
    /\ value = [t \in Threads |-> NoValue]
    /\ pushes = [t \in Threads |-> 0]

\* The state words that a push and a pop install.
Pushed(s) == [gen |-> (s.gen + 1) % GenModulus, count |-> s.count + 1]

Popped(s) == [gen |-> s.gen, count |-> s.count - 1]

Goto(t, from, to) == pc[t] = from /\ pc' = [pc EXCEPT ![t] = to]

\* The load of the state, or the reload a failed compare-exchange makes.
ReadStateNot(t) == UNCHANGED <<old, pushes>>

ReadState(t) ==
    /\ old' = [old EXCEPT ![t] = state]
    /\ pushes' = [pushes EXCEPT ![t] = 0]

Finish(t) ==
    /\ old' = [old EXCEPT ![t] = EmptyState]
    /\ value' = [value EXCEPT ![t] = NoValue]

-----------------------------------------------------------------------------
\* push

IsFull(s) == s.count >= Capacity

PushBegin ==
    /\ Goto(Producer, "idle", "write")
    /\ \E v \in out : value' = [value EXCEPT ![Producer] = v]
    /\ ReadState(Producer)
    /\ UNCHANGED <<state, slots, out>>

PushFull ==
    /\ Goto(Producer, "write", "idle")
    /\ IsFull(old[Producer])
    /\ Finish(Producer)
    /\ UNCHANGED <<state, slots, out, pushes>>

PushWrite ==
    /\ Goto(Producer, "write", "pushCas")
    /\ ~IsFull(old[Producer])
    /\ slots' = [slots EXCEPT ![old[Producer].count] = value[Producer]]
    /\ UNCHANGED <<state, out, old, value, pushes>>

\* The generation does not go all the way round while a consumer is stalled.
PushCas ==
    /\ Goto(Producer, "pushCas", "idle")
    /\ state = old[Producer]
    /\ \A c \in Consumers : pc[c] # "idle" => pushes[c] + 1 < GenModulus
    /\ state' = Pushed(state)
    /\ pushes' = [t \in Threads |-> IF pc[t] # "idle" /\ t # Producer THEN pushes[t] + 1 ELSE 0]
    /\ out' = out \ {value[Producer]}
    /\ Finish(Producer)
    /\ UNCHANGED slots

\* Another thread moved the state.  A weak exchange that fails for no reason goes
\* round with the same state, and is left out.
PushRetry ==
    /\ Goto(Producer, "pushCas", "write")
    /\ state # old[Producer]
    /\ ReadState(Producer)
    /\ UNCHANGED <<state, slots, out, value>>

-----------------------------------------------------------------------------
\* pop

PopBegin(c) ==
    /\ Goto(c, "idle", "read")
    /\ ReadState(c)
    /\ UNCHANGED <<state, slots, out, value>>

PopEmpty(c) ==
    /\ Goto(c, "read", "idle")
    /\ old[c].count = 0
    /\ Finish(c) /\ pushes' = [pushes EXCEPT ![c] = 0]
    /\ UNCHANGED <<state, slots, out>>

PopRead(c) ==
    /\ Goto(c, "read", "popCas")
    /\ old[c].count # 0
    /\ value' = [value EXCEPT ![c] = slots[old[c].count - 1]]
    /\ UNCHANGED <<state, slots, out, old, pushes>>

PopCas(c) ==
    /\ Goto(c, "popCas", "idle")
    /\ state = old[c]
    /\ state' = Popped(state)
    /\ out' = out \cup {value[c]}
    /\ Finish(c) /\ pushes' = [pushes EXCEPT ![c] = 0]
    /\ UNCHANGED slots

PopRetry(c) ==
    /\ Goto(c, "popCas", "read")
    /\ state # old[c]
    /\ ReadState(c)
    /\ value' = [value EXCEPT ![c] = NoValue]
    /\ UNCHANGED <<state, slots, out>>

-----------------------------------------------------------------------------
Next ==
    \/ PushBegin \/ PushFull \/ PushWrite \/ PushCas \/ PushRetry
    \/ \E c \in Consumers : PopBegin(c) \/ PopEmpty(c) \/ PopRead(c) \/ PopCas(c) \/ PopRetry(c)

\* Only that some thread moves: what a lock-free operation needs.
Spec == Init /\ [][Next]_vars /\ WF_vars(Next)

-----------------------------------------------------------------------------
TypeOK ==
    /\ state \in States /\ slots \in [0 .. Capacity - 1 -> Values \cup {NoValue}]
    /\ out \in SUBSET Values
    /\ pc \in [Threads -> {"idle", "write", "pushCas", "read", "popCas"}]
    /\ old \in [Threads -> States] /\ value \in [Threads -> Values \cup {NoValue}]
    /\ pushes \in [Threads -> 0 .. GenModulus - 1]

\* The values behave as an atomic stack between its callers: a pop returns the value
\* pushed last and not yet popped, never one that was popped and overwritten while
\* the consumer was stalled (lines 24 to 31).
A == INSTANCE AtomicStack WITH
        Procs <- {Producer},
        InitialHeld <- [p \in {Producer} |-> Values],
        stack <- [d \in 1 .. state.count |-> slots[state.count - d]],
        held <- [p \in {Producer} |-> out]

ImplementsStack == A!StackSpec

\* Operations keep completing however the threads are scheduled: a compare-exchange
\* fails only because another one succeeded.
LockFree == []<><<\/ PushFull \/ PushCas
                  \/ \E c \in Consumers : PopEmpty(c) \/ PopCas(c)>>_vars
=============================================================================
