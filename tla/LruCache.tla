------------------------------ MODULE LruCache ------------------------------
(***************************************************************************)
(* lru_cache: a doubly linked list of entries, the one used last in front, *)
(* and an avl_tree that maps a key to the list node of its entry.  The two *)
(* allocate apart: either may have no memory for a new entry.  A list      *)
(* without memory ends the program.  The counts of hits and misses are     *)
(* left out.                                                               *)
(***************************************************************************)
EXTENDS AvlTree

CONSTANTS
    Capacities,         \* max_cache_size
    CacheKeys,
    Values,
    Cells               \* memory for list nodes, positive numbers

VARIABLES
    capacity,           \* max_cache_size_
    list,               \* cache_entries_: front_, back_ and what each list node holds
    recency             \* history: pairs <<key, value>>, the one used last first

Cut(f, x) == [y \in DOMAIN f \ {x} |-> f[y]]
Linked(cells, c, field, to) == IF c = Null THEN cells ELSE [cells EXCEPT ![c][field] = to]

EmptyList == [front |-> Null, back |-> Null, cells |-> <<>>]

EmplaceFront(l, c, key, value) ==
    [front |-> c,
     back |-> IF l.back = Null THEN c ELSE l.back,
     cells |-> (c :> [key |-> key, value |-> value, next |-> l.front, prev |-> Null])
               @@ Linked(l.cells, l.front, "prev", c)]

\* The cell's neighbours, or the ends of the list, are linked past it.
Unlinked(l, c) ==
    LET next == l.cells[c].next
        prev == l.cells[c].prev
    IN  [front |-> IF prev = Null THEN next ELSE l.front,
         back |-> IF next = Null THEN prev ELSE l.back,
         cells |-> Linked(Linked(l.cells, prev, "next", next), next, "prev", prev)]

EraseCell(l, c) == LET u == Unlinked(l, c) IN [u EXCEPT !.cells = Cut(@, c)]
PopFront(l) == EraseCell(l, l.front)
PopBack(l) == EraseCell(l, l.back)

MoveFront(l, c) ==
    IF l.cells[c].prev = Null THEN l
    ELSE LET u == Unlinked(l, c)
         IN  [u EXCEPT !.front = c, !.cells =
                [@ EXCEPT ![c].next = l.front, ![c].prev = Null, ![l.front].prev = c]]

-----------------------------------------------------------------------------
CacheInit ==
    /\ capacity \in Capacities
    /\ tree = Empty /\ list = EmptyList /\ recency = <<>>
    /\ asked = [call |-> "none", key |-> Null] /\ answer = Null

Size == Cardinality(DOMAIN list.cells)
Drop(key) == SelectSeq(recency, LAMBDA e : e[1] # key)

\* insure_space_exists: the map and the list, and the history, without the last entry.
SpaceLeft ==
    IF Size < capacity THEN [tree |-> tree, list |-> list, recency |-> recency]
    ELSE [tree |-> Erased(tree, list.cells[list.back].key), list |-> PopBack(list), recency |-> Front(recency)]

\* add: what was evicted is gone even if the map then has no room for the entry.
AddTo(kept, key, value, c, room) ==
    /\ c \notin DOMAIN kept.list.cells
    /\ tree' = Inserted(kept.tree, key, c, room)
    /\ LET longer == EmplaceFront(kept.list, c, key, value)
       IN  list' = IF Found(tree', key) # Null THEN longer ELSE PopFront(longer)
    /\ recency' = IF room THEN <<<<key, value>>>> \o kept.recency ELSE kept.recency
    /\ asked' = [call |-> "add", key |-> key]
    /\ answer' = IF Found(tree', key) # Null THEN value ELSE Null
    /\ UNCHANGED capacity

Add(key, value, c, room) ==
    /\ capacity > 0 /\ Found(tree, key) = Null
    /\ \E kept \in {SpaceLeft} : AddTo(kept, key, value, c, room)

\* A cache of no capacity takes nothing, and none takes a key it has.
AddRefused(key) ==
    /\ capacity = 0 \/ Found(tree, key) # Null
    /\ asked' = [call |-> "refused", key |-> key] /\ answer' = Null
    /\ UNCHANGED <<capacity, tree, list, recency>>

CellOf(key) == tree.nodes[Found(tree, key)].value

FindEntry(key) ==
    /\ Found(tree, key) # Null
    /\ list' = MoveFront(list, CellOf(key))
    /\ recency' = SelectSeq(recency, LAMBDA e : e[1] = key) \o Drop(key)
    /\ asked' = [call |-> "find", key |-> key] /\ answer' = list.cells[CellOf(key)].value
    /\ UNCHANGED <<capacity, tree>>

FindNothing(key) ==
    /\ Found(tree, key) = Null
    /\ asked' = [call |-> "find", key |-> key] /\ answer' = Null
    /\ UNCHANGED <<capacity, tree, list, recency>>

RemoveEntry(key) ==
    /\ Found(tree, key) # Null
    /\ list' = EraseCell(list, CellOf(key))
    /\ tree' = Erased(tree, key)
    /\ recency' = Drop(key)
    /\ asked' = [call |-> "remove", key |-> key] /\ answer' = Null
    /\ UNCHANGED capacity

ClearCache ==
    /\ list' = EmptyList /\ tree' = Cleared(tree) /\ recency' = <<>>
    /\ asked' = [call |-> "clear", key |-> Null] /\ answer' = Null
    /\ UNCHANGED capacity

CacheNext ==
    \/ \E key \in CacheKeys :
        \/ \E value \in Values, c \in Cells, room \in BOOLEAN : Add(key, value, c, room)
        \/ AddRefused(key) \/ FindEntry(key) \/ FindNothing(key) \/ RemoveEntry(key)
    \/ ClearCache

-----------------------------------------------------------------------------
\* The entries of the list from one end, going from a cell to the one its field names.
RECURSIVE Walk(_, _, _)
Walk(c, field, steps) ==
    IF c = Null \/ steps = 0 THEN <<>>
    ELSE <<<<list.cells[c].key, list.cells[c].value>>>> \o Walk(list.cells[c][field], field, steps - 1)

\* The list holds what was added and not removed or evicted since, the least recently used last,
\* both ways; the map leads to each of its nodes under its key, and to nothing else; and no more
\* than the capacity is kept (add, find, remove, insure_space_exists, move_front).
CacheIsConsistent ==
    /\ Walk(list.front, "next", Size + 1) = recency
    /\ Walk(list.back, "prev", Size + 1) = Reverse(recency)
    /\ {tree.nodes[n].value : n \in DOMAIN tree.nodes} = DOMAIN list.cells
    /\ \A n \in DOMAIN tree.nodes : list.cells[tree.nodes[n].value].key = n
    /\ Size <= capacity

\* find returns the value its key was added with, or nothing for a key that is not there; add
\* says whether it kept the entry (find, add).
CacheAnswersAreTrue ==
    LET here == {i \in DOMAIN recency : recency[i][1] = asked.key}
    IN  asked.call \in {"find", "add"} =>
            IF here = {} THEN answer = Null ELSE here = {1} /\ answer = recency[1][2]
=============================================================================
