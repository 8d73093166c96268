------------------------- MODULE MCMpScQueueRefusal -------------------------
(***************************************************************************)
(* push_back is documented to return false only when all segments are full *)
(* (mp_sc_growable_ring_queue:137, again at 59).  A history variable       *)
(* remembers, for each producer, whether every segment was full at one     *)
(* moment of its current call.                                             *)
(***************************************************************************)
EXTENDS MpScQueue

VARIABLE sawAllFull

AllFull == \A s \in Segments : IsFull(enqueuePos[s])

RefusalInit == Init /\ sawAllFull = [p \in Producers |-> FALSE]

RefusalNext ==
    /\ Next
    /\ sawAllFull' = [p \in Producers |-> ppc'[p] # "idle" /\ (sawAllFull[p] \/ AllFull')]

RefusalSpec == RefusalInit /\ [][RefusalNext]_<<vars, sawAllFull>>

\* When push_back returns false there was a moment during the call at which
\* every segment was full.
RefusesOnlyWhenAllFull ==
    [][\A p \in Producers : Refuse(p) => sawAllFull[p]]_<<vars, sawAllFull>>
=============================================================================
