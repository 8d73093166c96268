---------------------------- MODULE BoundedQueue ----------------------------
(***************************************************************************)
(* The promise of a single-producer single-consumer queue to its callers:  *)
(* a bounded first-in first-out queue whose operations happen at one       *)
(* moment each.                                                            *)
(***************************************************************************)
EXTENDS Naturals, Sequences

CONSTANTS Values, Capacity

VARIABLES queue,          \* the elements in the queue, oldest first
          got,            \* what the last pop_front returned
          open            \* the owner has not given it up

queueVars == <<queue, got, open>>

QueueInit == queue = <<>> /\ got \notin Values /\ open = TRUE

Push(v) ==
    /\ Len(queue) < Capacity
    /\ queue' = Append(queue, v)
    /\ UNCHANGED <<got, open>>

Pop ==
    /\ queue # <<>>
    /\ got' = Head(queue)
    /\ queue' = Tail(queue)
    /\ UNCHANGED open

Drop ==
    /\ queue # <<>>
    /\ queue' = Tail(queue)
    /\ UNCHANGED <<got, open>>

\* The owner gives it up, with what is in it.
Discard ==
    /\ queue' = <<>> /\ open' = FALSE
    /\ UNCHANGED got

QueueNext == open = TRUE /\ ((\E v \in Values : Push(v)) \/ Pop \/ Drop \/ Discard)

QueueSpec == QueueInit /\ [][QueueNext]_queueVars
=============================================================================
