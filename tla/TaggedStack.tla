---------------------------- MODULE TaggedStack ----------------------------
(***************************************************************************)
(* intrusive_tagged_stack: a Treiber stack whose links live in the nodes   *)
(* (or in a side table indexed by them) and whose head word pairs a node   *)
(* with a counter that every change of the head increments.  The counter   *)
(* wraps; what keeps a stale compare-exchange from succeeding is that it   *)
(* does not wrap while one process is stalled (line 45).                   *)
(***************************************************************************)
EXTENDS Naturals, FiniteSets, Sequences, SequencesExt

CONSTANTS
    Procs,              \* threads using the stack
    Nodes,
    Null,               \* the null link
    InitialHeld,        \* [Procs -> SUBSET Nodes]: who owns the nodes at first
    CounterModulus      \* 2^COUNTER_BITS of the head's codec

OwnersAssumption ==
    /\ InitialHeld \in [Procs -> SUBSET Nodes]
    /\ \A p, q \in Procs : p # q => InitialHeld[p] \cap InitialHeld[q] = {}
    /\ IsFiniteSet(Nodes) /\ Null \notin Nodes

CounterAssumption == CounterModulus \in Nat /\ CounterModulus >= 2

Counters == 0 .. CounterModulus - 1
Links == Nodes \cup {Null}

VARIABLES
    head,               \* [node, tag]: the atomic head word
    link,               \* the link of every node
    pc,
    mine,               \* the node p pushes, or has popped
    seen,               \* current_tag: the head as p last read it
    next,               \* the link p read for its compare-exchange
    held,               \* nodes each process owns
    changes             \* head changes since p read it (what the bound is about)

vars == <<head, link, pc, mine, seen, next, held, changes>>

HeadWord(n, t) == [node |-> n, tag |-> t]

Init ==
    /\ head = HeadWord(Null, 0)
    /\ link = [n \in Nodes |-> Null]
    /\ pc = [p \in Procs |-> "idle"]
    /\ mine = [p \in Procs |-> Null]
    /\ seen = [p \in Procs |-> HeadWord(Null, 0)]
    /\ next = [p \in Procs |-> Null]
    /\ held = InitialHeld
    /\ changes = [p \in Procs |-> 0]

\* The counter of the next head word.
Bumped(t) == (t + 1) % CounterModulus

\* The head word that steal_all installs.
StolenWordReset(t) == HeadWord(Null, 0)

StolenWord(t) == HeadWord(Null, Bumped(t))

\* Processes between their read of the head and their compare-exchange.
Stalled == {p \in Procs : pc[p] \in {"pushLink", "pushCas", "popLink", "popCas", "stealCas"}}

\* A successful compare-exchange of p.  The bound on the counter: the head does
\* not change CounterModulus times while another process is stalled.
ChangeHead(p, w) ==
    /\ \A q \in Stalled \ {p} : changes[q] + 1 < CounterModulus
    /\ head' = w
    /\ changes' = [q \in Procs |-> IF q \in Stalled \ {p} THEN changes[q] + 1 ELSE 0]

\* A load of the head, or the reload a failed compare-exchange makes.
ReadHead(p) ==
    /\ seen' = [seen EXCEPT ![p] = head]
    /\ changes' = [changes EXCEPT ![p] = 0]

Goto(p, from, to) == pc[p] = from /\ pc' = [pc EXCEPT ![p] = to]

-----------------------------------------------------------------------------
\* push

PushBegin(p) ==
    /\ Goto(p, "idle", "pushLink")
    /\ \E n \in held[p] : mine' = [mine EXCEPT ![p] = n]
    /\ ReadHead(p)
    /\ UNCHANGED <<head, link, next, held>>

PushLink(p) ==
    /\ Goto(p, "pushLink", "pushCas")
    /\ link' = [link EXCEPT ![mine[p]] = seen[p].node]
    /\ UNCHANGED <<head, mine, seen, next, held, changes>>

PushCas(p) ==
    /\ Goto(p, "pushCas", "idle")
    /\ head = seen[p]
    /\ ChangeHead(p, HeadWord(mine[p], Bumped(seen[p].tag)))
    /\ held' = [held EXCEPT ![p] = @ \ {mine[p]}]
    /\ mine' = [mine EXCEPT ![p] = Null]
    /\ UNCHANGED <<link, seen, next>>

PushRetry(p) ==
    /\ Goto(p, "pushCas", "pushLink")
    /\ head # seen[p]
    /\ ReadHead(p)
    /\ UNCHANGED <<head, link, mine, next, held>>

-----------------------------------------------------------------------------
\* pop

PopBegin(p) ==
    /\ Goto(p, "idle", "popLink")
    /\ ReadHead(p)
    /\ UNCHANGED <<head, link, mine, next, held>>

PopEmpty(p) ==
    /\ Goto(p, "popLink", "idle")
    /\ seen[p].node = Null
    /\ changes' = [changes EXCEPT ![p] = 0]
    /\ UNCHANGED <<head, link, mine, seen, next, held>>

\* The link read here may be stale: the node can be popped and rewritten meanwhile.
PopLink(p) ==
    /\ Goto(p, "popLink", "popCas")
    /\ seen[p].node # Null
    /\ next' = [next EXCEPT ![p] = link[seen[p].node]]
    /\ UNCHANGED <<head, link, mine, seen, held, changes>>

PopCas(p) ==
    /\ Goto(p, "popCas", "popClear")
    /\ head = seen[p]
    /\ ChangeHead(p, HeadWord(next[p], Bumped(seen[p].tag)))
    /\ mine' = [mine EXCEPT ![p] = seen[p].node]
    /\ held' = [held EXCEPT ![p] = @ \cup {seen[p].node}]
    /\ next' = [next EXCEPT ![p] = Null]
    /\ UNCHANGED <<link, seen>>

PopRetry(p) ==
    /\ Goto(p, "popCas", "popLink")
    /\ head # seen[p]
    /\ ReadHead(p)
    /\ next' = [next EXCEPT ![p] = Null]
    /\ UNCHANGED <<head, link, mine, held>>

PopClear(p) ==
    /\ Goto(p, "popClear", "idle")
    /\ link' = [link EXCEPT ![mine[p]] = Null]
    /\ mine' = [mine EXCEPT ![p] = Null]
    /\ UNCHANGED <<head, seen, next, held, changes>>

-----------------------------------------------------------------------------
\* steal_all; the thief then walks the links of the nodes it owns.

\* s lists the nodes that the links reach from n.
Follows(s, n) ==
    /\ n = IF s = <<>> THEN Null ELSE s[1]
    /\ \A i \in DOMAIN s : link[s[i]] = IF i < Len(s) THEN s[i + 1] ELSE Null

Chain(n) == CHOOSE s \in SeqOf(Nodes, Cardinality(Nodes)) : Follows(s, n)

StealBegin(p) ==
    /\ Goto(p, "idle", "stealCas")
    /\ ReadHead(p)
    /\ UNCHANGED <<head, link, mine, next, held>>

StealCas(p) ==
    /\ Goto(p, "stealCas", "idle")
    /\ head = seen[p]
    /\ ChangeHead(p, StolenWord(seen[p].tag))
    /\ held' = [held EXCEPT ![p] = @ \cup ToSet(Chain(seen[p].node))]
    /\ UNCHANGED <<link, mine, seen, next>>

StealRetry(p) ==
    /\ Goto(p, "stealCas", "stealCas")
    /\ head # seen[p]
    /\ ReadHead(p)
    /\ UNCHANGED <<head, link, mine, next, held>>

-----------------------------------------------------------------------------
Step(p) ==
    \/ PushBegin(p) \/ PushLink(p) \/ PushCas(p) \/ PushRetry(p)
    \/ PopBegin(p) \/ PopEmpty(p) \/ PopLink(p) \/ PopCas(p) \/ PopRetry(p) \/ PopClear(p)
    \/ StealBegin(p) \/ StealCas(p) \/ StealRetry(p)

Next == \E p \in Procs : Step(p)

Spec == Init /\ [][Next]_vars

\* Only that some process moves: what a lock-free operation needs.
FairSpec == Spec /\ WF_vars(Next)

-----------------------------------------------------------------------------
TypeOK ==
    /\ head \in [node : Links, tag : Counters]
    /\ link \in [Nodes -> Links]
    /\ pc \in [Procs -> {"idle", "pushLink", "pushCas", "popLink", "popCas",
                         "popClear", "stealCas"}]
    /\ mine \in [Procs -> Links]
    /\ seen \in [Procs -> [node : Links, tag : Counters]]
    /\ next \in [Procs -> Links]
    /\ held \in [Procs -> SUBSET Nodes]
    /\ changes \in [Procs -> Counters]

\* Over stale links and reused nodes the structure behaves as an atomic stack of
\* owned nodes: no compare-exchange that succeeds installs a stale link (the ABA
\* that the counter, and its increment by steal_all, prevent: lines 132 to 134).
Contents == Chain(head.node)

A == INSTANCE AtomicStack WITH stack <- Contents

ImplementsStack == A!StackSpec

\* Lock-freedom: however the processes are scheduled, operations keep completing;
\* a compare-exchange only fails because another one succeeded.
Completes(p) == PushCas(p) \/ PopEmpty(p) \/ PopCas(p) \/ StealCas(p)

LockFree == []<><<\E p \in Procs : Completes(p)>>_vars
=============================================================================
