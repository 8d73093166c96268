---------------------------- MODULE AtomicStack ----------------------------
(***************************************************************************)
(* The stack of owned nodes a lock-free free list promises to its callers: *)
(* push, pop and steal_all happen at one moment each, pop returns what was *)
(* pushed last, and a node is always in the stack or with one owner.       *)
(***************************************************************************)
EXTENDS Sequences, SequencesExt

CONSTANTS Procs, InitialHeld

VARIABLES stack,          \* the nodes in the stack, the last pushed first
          held            \* the nodes each process owns

stackVars == <<stack, held>>

Push(p, n) ==
    /\ n \in held[p]
    /\ stack' = <<n>> \o stack
    /\ held' = [held EXCEPT ![p] = @ \ {n}]

Pop(p) ==
    /\ stack # <<>>
    /\ stack' = Tail(stack)
    /\ held' = [held EXCEPT ![p] = @ \cup {Head(stack)}]

StealAll(p) ==
    /\ stack' = <<>>
    /\ held' = [held EXCEPT ![p] = @ \cup ToSet(stack)]

StackNext ==
    \E p \in Procs :
       \/ \E n \in held[p] : Push(p, n)
       \/ Pop(p)
       \/ StealAll(p)

StackInit == stack = <<>> /\ held = InitialHeld

StackSpec == StackInit /\ [][StackNext]_stackVars
=============================================================================
