---------------------------- MODULE AbstractHeap ----------------------------
(***************************************************************************)
(* What every memory resource of the library promises its callers: the     *)
(* pieces they hold lie inside the resource and never overlap.             *)
(***************************************************************************)
EXTENDS Integers

CONSTANTS Base, Limit       \* the resource's memory: Base .. Limit - 1

VARIABLE held               \* the pieces callers hold, [at, size]

Overlap(p, q) == p.at < q.at + q.size /\ q.at < p.at + p.size
Inside(p) == Base <= p.at /\ p.size > 0 /\ p.at + p.size <= Limit

Init == held = {}

HandOut ==
    /\ held \subseteq held'
    /\ \A p \in held' \ held :
          Inside(p) /\ \A q \in held' \ {p} : ~Overlap(p, q)

\* A call may take back several pieces: a resource can release all at once.
TakeBack == held' \subseteq held

Spec == Init /\ [][HandOut \/ TakeBack]_held
=============================================================================
