---------------------------- MODULE MCSingleArena ----------------------------
(***************************************************************************)
(* Small instances of SingleArena: two threads on an arena where one block *)
(* and the records next to it compete for the middle, with four calls and  *)
(* two, and on one with room for two blocks, with three calls and two.     *)
(***************************************************************************)
EXTENDS SingleArena, TLC

CONSTANTS t1, t2

ASSUME ArenaAssumed == ArenaAssumption
ASSUME SizesAssumed == SizeClasses

MCScenarios == {[start |-> 5, calls |-> t1 :> 4 @@ t2 :> 2],
                [start |-> 8, calls |-> t1 :> 3 @@ t2 :> 2]}
=============================================================================
