------------------------ MODULE MCStaticArenaRefusal ------------------------
(***************************************************************************)
(* Whether an allocation of a class size is refused while free blocks are  *)
(* there all along.  A history variable records, for every call, whether   *)
(* memory ran out at any moment of it.                                     *)
(***************************************************************************)
EXTENDS StaticArena, TLC

CONSTANTS t1, t2

VARIABLE ranOut         \* per thread: a moment without a fitting free block since its call began

NothingFits(t) == Fitting(Size(t)) = {} /\ Size(t) > ArenaEnd - currentPtr

HInit == Init /\ ranOut = [t \in Threads |-> FALSE]

HNext ==
    /\ Next
    /\ ranOut' = [t \in Threads |->
                    NothingFits(t)' \/ (pc[t] # "idle" /\ ranOut[t])]

HSpec == HInit /\ [][HNext]_<<vars, ranOut>>

\* The comment of the class bins (lines 246 to 248): no bin is ever emptied
\* temporarily, so a concurrent allocator never sees a false out-of-memory.
NoFalseOutOfMemory ==
    [][\A t \in Threads : Refuse(t) /\ Size(t) <= LargestClass => ranOut[t]]_<<vars, ranOut>>
=============================================================================
