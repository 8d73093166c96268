------------------------------ MODULE Handoff ------------------------------
(***************************************************************************)
(* What every container of this library that hands values from one thread  *)
(* to another promises, whatever its layout: a value that was accepted     *)
(* stays inside until it is delivered, is delivered at most once, and a    *)
(* value that was never accepted is never delivered.  The container may    *)
(* discard what it still holds when it is destroyed.  No order is promised *)
(* here; the modules that promise one state it themselves.                 *)
(***************************************************************************)
CONSTANT Items                \* the values callers may hand in, each once

VARIABLES inside,             \* accepted and not yet delivered
          delivered,          \* returned to a caller
          discarded           \* destroyed with the container

vars == <<inside, delivered, discarded>>

Init ==
    /\ inside = {}
    /\ delivered = {}
    /\ discarded = {}

Accept(i) ==
    /\ i \notin inside \cup delivered \cup discarded
    /\ inside' = inside \cup {i}
    /\ UNCHANGED <<delivered, discarded>>

Deliver(i) ==
    /\ i \in inside
    /\ inside' = inside \ {i}
    /\ delivered' = delivered \cup {i}
    /\ UNCHANGED discarded

Discard ==
    /\ inside # {}
    /\ discarded' = discarded \cup inside
    /\ inside' = {}
    /\ UNCHANGED delivered

Next ==
    \/ \E i \in Items : Accept(i) \/ Deliver(i)
    \/ Discard

Spec == Init /\ [][Next]_vars
=============================================================================
