------------------------------ MODULE AvlTree ------------------------------
(***************************************************************************)
(* avl_tree: a balanced search tree whose nodes also know their parent, so *)
(* that iterators can walk it both ways.  Insertion and erasure are        *)
(* recursive and relink nodes on their way back up; no node ever changes   *)
(* its key, so that here a node is named by it.                            *)
(***************************************************************************)
EXTENDS Integers, Sequences, SequencesExt, FiniteSetsExt, TLC

CONSTANTS
    Keys,               \* positive numbers
    Start,              \* keys inserted one after the other before the behaviour starts
    Fewest              \* bound: the tree never gets smaller

VARIABLES
    tree,               \* root_, and what each node holds and points to
    asked, answer       \* history: the last call and the iterator it returned

Null == 0
Empty == [root |-> Null, nodes |-> <<>>]

Depth(t, n) == IF n = Null THEN 0 ELSE t[n].depth
Balance(t, n) == IF n = Null THEN 0 ELSE Depth(t, t[n].left) - Depth(t, t[n].right)

SetLeft(t, n, child) ==
    IF child = Null THEN [t EXCEPT ![n].left = Null]
    ELSE [t EXCEPT ![n].left = child, ![child].leftReverse = n, ![child].rightReverse = Null]

SetRight(t, n, child) ==
    IF child = Null THEN [t EXCEPT ![n].right = Null]
    ELSE [t EXCEPT ![n].right = child, ![child].rightReverse = n, ![child].leftReverse = Null]

WithDepth(t, n) == [t EXCEPT ![n].depth = 1 + Max({Depth(t, t[n].left), Depth(t, t[n].right)})]

\* Parts of the tree come back from below as their nodes, with all others, and their new root.
Part(t, n) == [nodes |-> t, root |-> n]
WithLeft(part, n) == SetLeft(part.nodes, n, part.root)
WithRight(part, n) == SetRight(part.nodes, n, part.root)

RightRotate(t, n) ==
    LET l == t[n].left
        s == SetLeft(SetRight(t, l, n), n, t[l].right)
    IN  Part(WithDepth(WithDepth(s, n), l), l)

LeftRotate(t, n) ==
    LET r == t[n].right
        s == SetRight(SetLeft(t, r, n), n, t[r].left)
    IN  Part(WithDepth(WithDepth(s, n), r), r)

\* leansLeft, leansRight: whether the high child is high on its outer side.
Rebalance(t, n, leansLeft, leansRight) ==
    IF Balance(t, n) > 1
    THEN RightRotate(IF leansLeft THEN t ELSE WithLeft(LeftRotate(t, t[n].left), n), n)
    ELSE IF Balance(t, n) < -1
    THEN LeftRotate(IF leansRight THEN t ELSE WithRight(RightRotate(t, t[n].right), n), n)
    ELSE Part(t, n)

RebalanceAfterInsert(t, n, key) ==
    LET s == WithDepth(t, n)
    IN  Rebalance(s, n, key < s[n].left, key > s[n].right)

RebalanceAfterErase(t, n) ==
    LET s == WithDepth(t, n)
    IN  Rebalance(s, n, Balance(s, s[n].left) >= 0, Balance(s, s[n].right) <= 0)

-----------------------------------------------------------------------------
NewNode(value) ==
    [value |-> value, left |-> Null, right |-> Null, leftReverse |-> Null, rightReverse |-> Null, depth |-> 1]

\* room: the allocator has memory for the node.
RECURSIVE InsertRecursive(_, _, _, _, _)
InsertRecursive(t, n, key, value, room) ==
    IF n = Null
    THEN IF room THEN Part((key :> NewNode(value)) @@ t, key) ELSE Part(t, Null)
    ELSE RebalanceAfterInsert(
            IF key < n THEN WithLeft(InsertRecursive(t, t[n].left, key, value, room), n)
            ELSE WithRight(InsertRecursive(t, t[n].right, key, value, room), n), n, key)

\* What is left of a part without its smallest node.
RECURSIVE UnlinkFront(_, _)
UnlinkFront(t, n) ==
    IF t[n].left = Null THEN Part(t, t[n].right)
    ELSE RebalanceAfterErase(WithLeft(UnlinkFront(t, t[n].left), n), n)

RECURSIVE FindFront(_, _)
FindFront(t, n) == IF n = Null \/ t[n].left = Null THEN n ELSE FindFront(t, t[n].left)

RECURSIVE FindBack(_, _)
FindBack(t, n) == IF n = Null \/ t[n].right = Null THEN n ELSE FindBack(t, t[n].right)

\* What takes the place of an erased node: a child, or the node that follows it.
Successor(t, n) ==
    IF t[n].left = Null THEN Part(t, t[n].right)
    ELSE IF t[n].right = Null THEN Part(t, t[n].left)
    ELSE LET front == FindFront(t, t[n].right)
         IN  Part(SetLeft(WithRight(UnlinkFront(t, t[n].right), front), front, t[n].left), front)

Without(part, n) == [part EXCEPT !.nodes = [m \in DOMAIN @ \ {n} |-> @[m]]]
Rebalanced(part) == IF part.root = Null THEN part ELSE RebalanceAfterErase(part.nodes, part.root)

RECURSIVE EraseRecursive(_, _, _)
EraseRecursive(t, n, key) ==
    IF n = Null THEN Part(t, Null)
    ELSE IF key = n THEN Rebalanced(Without(Successor(t, n), n))
    ELSE RebalanceAfterErase(
            IF key < n THEN WithLeft(EraseRecursive(t, t[n].left, key), n)
            ELSE WithRight(EraseRecursive(t, t[n].right, key), n), n)

\* The root has no parent, whatever it was before.
Rooted(part) ==
    IF part.root = Null THEN part
    ELSE [part EXCEPT !.nodes[part.root].leftReverse = Null, !.nodes[part.root].rightReverse = Null]

RECURSIVE FindNode(_, _, _)
FindNode(t, n, key) ==
    IF n = Null \/ n = key THEN n
    ELSE FindNode(t, IF key > n THEN t[n].right ELSE t[n].left, key)

Found(t, key) == FindNode(t.nodes, t.root, key)

\* insert: a tree that already has the key, or finds no memory, stays as it is.
Inserted(t, key, value, room) ==
    IF Found(t, key) # Null THEN t
    ELSE Rooted(InsertRecursive(t.nodes, t.root, key, value, room))

Erased(t, key) == Rooted(EraseRecursive(t.nodes, t.root, key))

-----------------------------------------------------------------------------
(* Iterators: a node, or Null for end()                                    *)

\* From a node that is a right child, up to the first that is a left one, and to its parent.
RECURSIVE UpFromRight(_, _)
UpFromRight(t, n) ==
    IF n = Null THEN Null
    ELSE IF t[n].leftReverse # Null THEN t[n].leftReverse
    ELSE UpFromRight(t, t[n].rightReverse)

RECURSIVE UpFromLeft(_, _)
UpFromLeft(t, n) == IF t[n].leftReverse # Null THEN UpFromLeft(t, t[n].leftReverse) ELSE t[n].rightReverse

MoveForward(t, n) ==
    IF n = Null THEN Null
    ELSE IF t.nodes[n].right # Null THEN FindFront(t.nodes, t.nodes[n].right)
    ELSE UpFromRight(t.nodes, n)

MoveBackward(t, n) ==
    IF n = Null THEN FindBack(t.nodes, t.root)
    ELSE IF t.nodes[n].left # Null THEN FindBack(t.nodes, t.nodes[n].left)
    ELSE IF t.nodes[n].rightReverse # Null THEN t.nodes[n].rightReverse
    ELSE UpFromLeft(t.nodes, n)

\* clear: the last element goes until none is left.
RECURSIVE Cleared(_)
Cleared(t) == IF t.root = Null THEN t ELSE Cleared(Erased(t, MoveBackward(t, Null)))

-----------------------------------------------------------------------------
TreeInit ==
    /\ tree = FoldLeft(LAMBDA t, key : Inserted(t, key, Null, TRUE), Empty, Start)
    /\ asked = [call |-> "none", key |-> Null] /\ answer = Null

Insert(key, room) ==
    /\ tree' = Inserted(tree, key, Null, room)
    /\ asked' = [call |-> "insert", key |-> key] /\ answer' = Found(tree', key)

Erase(key) ==
    /\ key \in DOMAIN tree.nodes => Cardinality(DOMAIN tree.nodes) > Fewest
    /\ tree' = Erased(tree, key)
    /\ asked' = [call |-> "erase", key |-> key] /\ answer' = Null

\* erase(iterator): the iterator is moved on while its node is still there.
EraseAt(n) ==
    /\ Cardinality(DOMAIN tree.nodes) > Fewest
    /\ tree' = Erased(tree, n)
    /\ asked' = [call |-> "erase at", key |-> n] /\ answer' = MoveForward(tree, n)

Clear ==
    /\ Fewest = 0
    /\ tree' = Cleared(tree)
    /\ asked' = [call |-> "clear", key |-> Null] /\ answer' = Null

TreeNext ==
    \/ \E key \in Keys : Erase(key) \/ \E room \in BOOLEAN : Insert(key, room)
    \/ \E n \in DOMAIN tree.nodes : EraseAt(n)
    \/ Clear

-----------------------------------------------------------------------------
After(key) == LET later == {n \in DOMAIN tree.nodes : n > key} IN IF later = {} THEN Null ELSE Min(later)
Before(key) == LET earlier == {n \in DOMAIN tree.nodes : n < key} IN IF earlier = {} THEN Null ELSE Max(earlier)

\* Every allocated node is found under its key and no other is; an iterator at any of them goes
\* on to the next key and back to the one before; and what insert and erase return is such an
\* iterator (find, move_forward, move_backward, insert_value, erase).
TreeAnswersAreTrue ==
    /\ \A key \in Keys : Found(tree, key) = IF key \in DOMAIN tree.nodes THEN key ELSE Null
    /\ \A n \in DOMAIN tree.nodes : MoveForward(tree, n) = After(n) /\ MoveBackward(tree, n) = Before(n)
    /\ MoveBackward(tree, Null) = IF tree.root = Null THEN Null ELSE Max(DOMAIN tree.nodes)
    /\ asked.call = "insert" => answer = IF asked.key \in DOMAIN tree.nodes THEN asked.key ELSE Null
    /\ asked.call = "erase at" => answer = After(asked.key)
    /\ asked.call = "clear" => DOMAIN tree.nodes = {}

\* The two sides of a node differ in height by one at most, and the heights the nodes carry are
\* the true ones (depth_, rebalance_after_insert, rebalance_after_erase).
IsBalanced ==
    \A n \in DOMAIN tree.nodes :
        /\ Balance(tree.nodes, n) \in -1..1
        /\ tree.nodes[n].depth = 1 + Max({Depth(tree.nodes, tree.nodes[n].left), Depth(tree.nodes, tree.nodes[n].right)})
=============================================================================
