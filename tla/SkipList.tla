------------------------------ MODULE SkipList ------------------------------
(***************************************************************************)
(* skip_list: insert, remove and find on linked levels.  A node is removed *)
(* by marking its links, highest first; whoever walks past then takes it   *)
(* out.  The bottom level goes last, once no upper level links the node or *)
(* is about to, and whoever takes it out there retires it.                 *)
(*                                                                         *)
(* One step is one load or compare-exchange of a shared word, or what a    *)
(* thread does to a node nobody else can see.  What retire_node does with  *)
(* a node, EpochReclaimer models; here a node is not used again.           *)
(***************************************************************************)
EXTENDS Integers, FiniteSets, FiniteSetsExt, TLC

CONSTANTS
    Threads,
    Keys,
    MaxLevels,          \* MAX_LEVELS: nodes are 1 .. MaxLevels high
    Nodes,              \* memory for nodes, numbers
    MaxRetries,         \* MAX_INSERT_LEVEL0_RETRIES, MAX_INSERT_UPPER_LEVEL_RETRIES, MAX_REMOVE_BOTTOM_RETRIES
    MaxAssists,         \* MAX_INSERT_LOCAL_ASSIST_FAILURES, MAX_REMOVE_LOCAL_ASSIST_FAILURES
    Scenarios           \* [keys, tops, calls]: nodes that are there, calls each thread makes

VARIABLES
    node,               \* [key, top, next, reserved, linked, retired]; reserved: upper_levels_remaining_
    thread,             \* what each call has in its hands
    calls               \* bound: calls each thread still makes

vars == <<node, thread, calls>>

Head == 0
Nil == -1
Levels == 0 .. MaxLevels - 1

Link(to) == [to |-> to, dead |-> FALSE]

Unused == [key |-> 0, top |-> 0, next |-> [l \in Levels |-> Link(Nil)],
           reserved |-> 0, linked |-> FALSE, retired |-> FALSE]

Idle == [pc |-> "idle", op |-> "none", key |-> 0, mine |-> Nil, level |-> 0,
         pred |-> Head, curr |-> Nil, succ |-> Nil, dead |-> FALSE, gone |-> Nil,
         raise |-> 0, preds |-> [l \in Levels |-> Head], succs |-> [l \in Levels |-> Nil],
         walking |-> FALSE, soft |-> FALSE, retries |-> 0, assists |-> 0,
         during |-> {}, result |-> "none"]

-----------------------------------------------------------------------------
(* A member is a node that is linked and whose bottom link is not marked.  *)

Members(nodes) == {n \in Nodes : nodes[n].linked /\ ~nodes[n].next[0].dead}
Present(key, nodes) == \E n \in Members(nodes) : nodes[n].key = key

At(t, pc) == thread[t].pc = pc

\* A step of t on nodes; every call watches whether its key is there.
Change(t, changes, nodes) ==
    LET own == [thread EXCEPT ![t] = changes @@ @]
    IN  /\ node' = nodes
        /\ thread' = [u \in Threads |->
               IF {thread[u].pc, own[u].pc} \subseteq {"idle", "returned"} THEN own[u]
               ELSE [own[u] EXCEPT !.during = @ \cup {Present(own[u].key, nodes)}]]

Move(t, changes) == Change(t, changes, node) /\ UNCHANGED calls
Write(t, changes, nodes) == Change(t, changes, nodes) /\ UNCHANGED calls

\* What a call leaves behind.
Over(me, result) == [Idle EXCEPT !.pc = "returned", !.op = me.op, !.key = me.key,
                                 !.during = me.during, !.result = result]

\* A node that was never linked is given back.
Returns(t, result) ==
    LET me == thread[t]
    IN  Write(t, Over(me, result),
              IF me.op = "insert" /\ me.mine \in Nodes /\ ~node[me.mine].linked
              THEN [node EXCEPT ![me.mine] = Unused] ELSE node)

-----------------------------------------------------------------------------
(* Searching: find_with_nodelists and find; and the walk to the right by   *)
(* which insert and remove catch up, which stays on the bottom level       *)

Search == [pc |-> "load", level |-> MaxLevels - 1, pred |-> Head, walking |-> FALSE]

Call(t, op, key) ==
    /\ thread[t].pc \in {"idle", "returned"} /\ calls[t] > 0
    /\ calls' = [calls EXCEPT ![t] = @ - 1]
    /\ Change(t, Search @@ [Idle EXCEPT !.op = op, !.key = key], node)

Load(t) ==
    /\ At(t, "load")
    /\ Move(t, [pc |-> "look", curr |-> node[thread[t].pred].next[thread[t].level].to])

KeyBefore(n, key) == n # Nil /\ node[n].key < key
KeyMatches(n, key) == n # Nil /\ node[n].key = key

\* Broken: the mark is not compared.
HoldsUnmarked(n, level, to) == node[n].next[level].to = to

\* Nobody changes a link that is marked.
Holds(n, level, to) == node[n].next[level] = Link(to)

Relinked(n, level, to) == [node EXCEPT ![n].next[level] = Link(to)]

Arrives(me, curr) ==
    LET here == [preds |-> [me.preds EXCEPT ![me.level] = me.pred],
                 succs |-> [me.succs EXCEPT ![me.level] = curr], curr |-> curr]
    IN  here @@ (IF me.walking THEN [pc |-> "walked"]
                 ELSE IF me.level > 0 THEN [pc |-> "load", level |-> me.level - 1]
                 ELSE [pc |-> "found"])

\* curr is marked, and to be left behind.
Leaves(me, curr, succ) ==
    [pc |-> "skip", gone |-> curr, curr |-> succ,
     soft |-> me.soft \/ (me.walking /\ KeyMatches(curr, me.key))]

\* Broken: a find takes what is marked for a member.
OnwardPastMarks(me, curr, succ, dead) ==
    IF dead /\ me.op # "find" THEN Leaves(me, curr, succ)
    ELSE IF KeyBefore(curr, me.key) THEN [pc |-> "look", pred |-> curr, curr |-> succ]
    ELSE Arrives(me, curr)

\* On from curr, whose link was read.
Onward(me, curr, succ, dead) ==
    IF dead THEN Leaves(me, curr, succ)
    ELSE IF KeyBefore(curr, me.key) THEN [pc |-> "look", pred |-> curr, curr |-> succ]
    ELSE Arrives(me, curr)

LinkOf(n, level) == IF n = Nil THEN Link(Nil) ELSE node[n].next[level]

Look(t) ==
    LET me == thread[t]
        link == LinkOf(me.curr, me.level)
    IN  At(t, "look") /\ Move(t, Onward(me, me.curr, link.to, link.dead))

Skip(t) ==
    LET me == thread[t]
        link == LinkOf(me.curr, me.level)
    IN  /\ At(t, "skip")
        /\ Move(t, [succ |-> link.to, dead |-> link.dead,
                    pc |-> IF me.level > 0 THEN "take out" ELSE "drained"])

Skipped(me) == Onward(me, me.curr, me.succ, me.dead)

\* No upper level links the node, and no insert is about to link it there.
UpperLevelsDrained(n) == node[n].reserved <= 0

\* A search passes by a node that is not drained; a walk gives up after some.
Drained(t) ==
    LET me == thread[t]
    IN  /\ At(t, "drained")
        /\ IF UpperLevelsDrained(me.gone) THEN Move(t, [pc |-> "take out"])
           ELSE IF ~me.walking THEN Move(t, Skipped(me))
           ELSE IF me.assists + 1 < MaxAssists THEN Move(t, [assists |-> me.assists + 1] @@ Skipped(me))
           ELSE IF me.op = "insert" THEN Move(t, Search)
           ELSE Returns(t, "gave up")

TakeOut(t) ==
    LET me == thread[t]
    IN  /\ At(t, "take out")
        /\ IF Holds(me.pred, me.level, me.gone)
           THEN Write(t, [pc |-> IF me.level > 0 THEN "taken out" ELSE "retire"],
                      Relinked(me.pred, me.level, me.curr))
           ELSE Move(t, Skipped(me))

\* Broken: an upper level that is gone stays counted.
TakenOutUncounted(t) ==
    LET me == thread[t]
    IN  At(t, "taken out") /\ Write(t, Skipped(me), node)

TakenOut(t) ==
    LET me == thread[t]
    IN  At(t, "taken out") /\ Write(t, Skipped(me), [node EXCEPT ![me.gone].reserved = @ - 1])

\* Whoever took the node out of the bottom level retires it, once.
RetireNode(t) ==
    LET me == thread[t]
    IN  At(t, "retire") /\ Write(t, Skipped(me), [node EXCEPT ![me.gone].retired = TRUE])

-----------------------------------------------------------------------------
(* find and insert                                                         *)

Find(t) ==
    /\ At(t, "found") /\ thread[t].op = "find"
    /\ Returns(t, IF KeyMatches(thread[t].curr, thread[t].key) THEN "yes" ELSE "no")

\* The new node as it will be linked; only its own thread sees it.
Aimed(n, key, top, succs) ==
    [node EXCEPT ![n] = [Unused EXCEPT !.key = key, !.top = top,
        !.next = [l \in Levels |-> IF l < top THEN Link(succs[l]) ELSE Link(Nil)]]]

Prepare(t) ==
    LET me == thread[t]
        free == {n \in Nodes : node[n] = Unused}
    IN  /\ At(t, "found") /\ me.op = "insert" /\ me.raise = 0
        /\ \/ KeyMatches(me.curr, me.key) /\ Returns(t, "no")
           \/ /\ ~KeyMatches(me.curr, me.key) /\ me.mine # Nil
              /\ Write(t, [pc |-> "link"], Aimed(me.mine, me.key, node[me.mine].top, me.succs))
           \/ /\ ~KeyMatches(me.curr, me.key) /\ me.mine = Nil /\ free = {}
              /\ Returns(t, "no memory")
           \/ /\ ~KeyMatches(me.curr, me.key) /\ me.mine = Nil /\ free # {}
              /\ \E top \in 1..MaxLevels :
                    Write(t, [pc |-> "link", mine |-> Min(free)], Aimed(Min(free), me.key, top, me.succs))

\* Upwards from a level: the next one, or done.
Raised(me, level) ==
    IF level + 1 < node[me.mine].top THEN [pc |-> "reserve", raise |-> level + 1, retries |-> 0]
    ELSE Over(me, "yes")

\* The node becomes a member.
LinkBottom(t) ==
    LET me == thread[t]
    IN  /\ At(t, "link")
        /\ IF Holds(me.preds[0], 0, me.succs[0])
           THEN Write(t, Raised(me, 0), [Relinked(me.preds[0], 0, me.mine) EXCEPT ![me.mine].linked = TRUE])
           ELSE IF me.retries + 1 < MaxRetries THEN Move(t, [pc |-> "catch up", retries |-> me.retries + 1])
           ELSE Returns(t, "gave up")

CatchUp(t) ==
    /\ At(t, "catch up")
    /\ Move(t, IF node[thread[t].preds[0]].next[0].dead THEN Search ELSE [pc |-> "walk"])

Walk(t) ==
    LET pred == thread[t].preds[0]
    IN  /\ At(t, "walk")
        /\ Move(t, [pc |-> "look", walking |-> TRUE, level |-> 0, pred |-> pred,
                    curr |-> node[pred].next[0].to, soft |-> FALSE, assists |-> 0])

\* A node of this key that is being removed refuses the insert, too.
InsertWalked(t) ==
    LET me == thread[t]
    IN  /\ At(t, "walked") /\ me.op = "insert"
        /\ IF KeyMatches(me.curr, me.key) THEN Returns(t, "no")
           ELSE IF me.soft THEN Returns(t, "being removed")
           ELSE Write(t, [pc |-> "link"], [node EXCEPT ![me.mine].next[0] = Link(me.curr)])

\* Counted before it can be seen.
Reserve(t) ==
    LET me == thread[t]
    IN  \/ At(t, "reserve") /\ Write(t, [pc |-> "aim"], [node EXCEPT ![me.mine].reserved = @ + 1])
        \/ /\ At(t, "found") /\ me.op = "insert" /\ me.raise > 0
           /\ Move(t, [pc |-> "reserve"])

\* The own link follows the search, unless a remove has marked it.
Aim(t) ==
    LET me == thread[t]
    IN  /\ At(t, "aim")
        /\ IF node[me.mine].next[me.raise].dead THEN Move(t, [pc |-> "abandon"])
           ELSE Write(t, [pc |-> "raise"], Relinked(me.mine, me.raise, me.succs[me.raise]))

LinkUpper(t) ==
    LET me == thread[t]
    IN  /\ At(t, "raise")
        /\ IF Holds(me.preds[me.raise], me.raise, me.succs[me.raise])
           THEN Write(t, Raised(me, me.raise), Relinked(me.preds[me.raise], me.raise, me.mine))
           ELSE Move(t, [pc |-> "unreserve"])

\* Not linked after all: given up, tried again, or left to the remove.
Unreserve(t) ==
    LET me == thread[t]
        without == [node EXCEPT ![me.mine].reserved = @ - 1]
    IN  \/ At(t, "abandon") /\ Write(t, Over(me, "yes"), without)
        \/ /\ At(t, "unreserve")
           /\ Write(t, IF me.retries + 1 < MaxRetries THEN [retries |-> me.retries + 1] @@ Search
                       ELSE Raised(me, me.raise), without)

-----------------------------------------------------------------------------
(* remove                                                                  *)

RemoveFound(t) ==
    LET me == thread[t]
    IN  /\ At(t, "found") /\ me.op = "remove"
        /\ IF ~KeyMatches(me.curr, me.key) THEN Returns(t, "no")
           ELSE Move(t, [mine |-> me.curr, raise |-> node[me.curr].top - 1, retries |-> 0,
                         pc |-> IF node[me.curr].top > 1 THEN "mark upper" ELSE "bottom"])

\* soft_delete goes on until the mark is there.
MarkUpper(t) ==
    LET me == thread[t]
    IN  /\ At(t, "mark upper")
        /\ Write(t, [raise |-> me.raise - 1, pc |-> IF me.raise > 1 THEN "mark upper" ELSE "bottom"],
                 [node EXCEPT ![me.mine].next[me.raise].dead = TRUE])

LoadBottom(t) ==
    At(t, "bottom") /\ Move(t, [pc |-> "mark", succ |-> node[thread[t].mine].next[0].to])

\* The node is no member any more.
MarkBottom(t) ==
    LET me == thread[t]
    IN  /\ At(t, "mark")
        /\ \/ /\ Holds(me.mine, 0, me.succ)
              /\ Write(t, [pc |-> "drain mine"], [node EXCEPT ![me.mine].next[0].dead = TRUE])
           \/ node[me.mine].next[0].dead /\ Returns(t, "no")
           \/ /\ ~node[me.mine].next[0].dead /\ node[me.mine].next[0].to # me.succ
              /\ IF me.retries + 1 < MaxRetries THEN Move(t, [pc |-> "walk", retries |-> me.retries + 1])
                 ELSE Returns(t, "gave up")

\* Another node may have the key by now: then all starts again.
RemoveWalked(t) ==
    LET me == thread[t]
    IN  /\ At(t, "walked") /\ me.op = "remove"
        /\ IF me.soft \/ ~KeyMatches(me.curr, me.key) THEN Returns(t, "no")
           ELSE Move(t, IF me.curr # me.mine THEN Search ELSE [pc |-> "bottom"])

DrainMine(t) ==
    /\ At(t, "drain mine")
    /\ IF UpperLevelsDrained(thread[t].mine) THEN Move(t, [pc |-> "unlink mine"]) ELSE Returns(t, "yes")

UnlinkMine(t) ==
    LET me == thread[t]
    IN  /\ At(t, "unlink mine")
        /\ IF Holds(me.preds[0], 0, me.mine)
           THEN Write(t, [pc |-> "retire mine"], Relinked(me.preds[0], 0, node[me.mine].next[0].to))
           ELSE Returns(t, "yes")

RetireMine(t) ==
    LET me == thread[t]
    IN  At(t, "retire mine") /\ Write(t, Over(me, "yes"), [node EXCEPT ![me.mine].retired = TRUE])

-----------------------------------------------------------------------------
\* A list of nodes 1, 2, ... with these keys, in order, and heights; of none: as constructed.
Listed(keys, tops) ==
    LET After(n, level) ==
            LET later == {m \in DOMAIN keys : m > n /\ tops[m] > level}
            IN  Link(IF later = {} THEN Nil ELSE Min(later))
        Links(n, top) == [l \in Levels |-> IF l < top THEN After(n, l) ELSE Link(Nil)]
    IN  [n \in Nodes \cup {Head} |->
            IF n = Head THEN [Unused EXCEPT !.top = MaxLevels, !.next = Links(n, MaxLevels)]
            ELSE IF n \in DOMAIN keys
            THEN [Unused EXCEPT !.key = keys[n], !.top = tops[n], !.next = Links(n, tops[n]),
                                !.reserved = tops[n] - 1, !.linked = TRUE]
            ELSE Unused]

Init ==
    \E s \in Scenarios :
        /\ node = Listed(s.keys, s.tops)
        /\ calls = s.calls
        /\ thread = [t \in Threads |-> Idle]

Next ==
    \E t \in Threads :
        \/ \E op \in {"insert", "remove", "find"}, key \in Keys : Call(t, op, key)
        \/ Load(t) \/ Look(t) \/ Skip(t) \/ Drained(t) \/ TakeOut(t) \/ TakenOut(t) \/ RetireNode(t)
        \/ Find(t)
        \/ Prepare(t) \/ LinkBottom(t) \/ CatchUp(t) \/ Walk(t) \/ InsertWalked(t)
        \/ Reserve(t) \/ Aim(t) \/ LinkUpper(t) \/ Unreserve(t)
        \/ RemoveFound(t) \/ MarkUpper(t) \/ LoadBottom(t) \/ MarkBottom(t) \/ RemoveWalked(t)
        \/ DrainMine(t) \/ UnlinkMine(t) \/ RetireMine(t)

Spec == Init /\ [][Next]_vars

-----------------------------------------------------------------------------
\* Where a search that starts now can come: along the links, and down at nodes that are not marked.
Reach ==
    LET Places(found) ==
            found \cup {<<node[p[1]].next[p[2]].to, p[2]>> : p \in {q \in found : q[1] # Nil}}
                  \cup {<<p[1], p[2] - 1>> : p \in {q \in found : q[1] # Nil /\ q[2] > 0 /\ ~node[q[1]].next[q[2]].dead}}
        after[k \in 0 .. MaxLevels * (Cardinality(Nodes) + 2)] ==
            IF k = 0 THEN {<<Head, MaxLevels - 1>>} ELSE Places(after[k - 1])
    IN  after[MaxLevels * (Cardinality(Nodes) + 2)]

ReachedAt(level) == {p[1] : p \in {q \in Reach : q[2] = level}}

\* No search can come to a retired node on any level, no key is there twice, and every member is
\* found on the bottom level (remove, retire_node, upper_levels_drained against insert's links).
RetiredIsUnreachable ==
    /\ \A n \in Nodes : node[n].retired => \A level \in Levels : n \notin ReachedAt(level)
    /\ \A m, n \in Members(node) : node[m].key = node[n].key => m = n
    /\ Members(node) \subseteq ReachedAt(0)

\* When no call is under way, a node's count is that of the upper levels that link it, and a
\* removed node that nobody retired is still linked, so that the next to come by will.
NothingLeaks ==
    (\A t \in Threads : thread[t].pc \in {"idle", "returned"}) =>
        \A n \in Nodes : node[n].linked =>
            /\ node[n].reserved = Cardinality({level \in Levels \ {0} : n \in ReachedAt(level)})
            /\ node[n].retired \/ n \in ReachedAt(0)

\* A call that answers tells what was so at some moment of it; one that gave up tells nothing.
AnswersAreTrue ==
    \A t \in Threads : At(t, "returned") =>
        LET was == thread[t].during
            answer == <<thread[t].op, thread[t].result>>
        IN  /\ answer \in {<<"insert", "yes">>, <<"remove", "yes">>} => was = BOOLEAN
            /\ answer \in {<<"insert", "no">>, <<"find", "yes">>} => TRUE \in was
            /\ answer \in {<<"remove", "no">>, <<"find", "no">>} => FALSE \in was
=============================================================================
