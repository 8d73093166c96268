---------------------------- MODULE MCResources ----------------------------
(***************************************************************************)
(* Small instances of the lock-free memory resources that hand out parts   *)
(* of fixed sizes: the static arena and the pool of bitmapped blocks.      *)
(* They share nothing: subject, chosen at the start, says which one the    *)
(* behaviour is about, and the other stays as it was initialised.          *)
(***************************************************************************)
EXTENDS StaticArena, TLC

\* The sizes of the pool, as BitblockResource names them.
CONSTANTS
    NumArenas, MaxArenas, Cores, MaxBlocks, UpstreamBlocks, Elements, RunLengths, CountModulus

VARIABLES
    subject,
    first, next, home, used, freeCount, upstream, totalBlocks, arenaHint, coreHint,
    live, poolPc, core, poolWant, path, cur, offset, mine, poolAlone

Pool == INSTANCE BitblockResource WITH pc <- poolPc, want <- poolWant, alone <- poolAlone

ASSUME PoolSizes == Pool!SizesAssumption

poolVars == <<first, next, home, used, freeCount, upstream, totalBlocks, arenaHint, coreHint,
              live, poolPc, core, poolWant, path, cur, offset, mine, poolAlone>>
allVars == <<subject, vars, poolVars>>

AllInit ==
    /\ subject \in {"arena", "pool"} /\ Init /\ Pool!Init
    /\ subject = "arena" => totalBlocks = 0

AllNext ==
    /\ UNCHANGED subject
    /\ \/ subject = "arena" /\ Next /\ UNCHANGED poolVars
       \/ subject = "pool" /\ Pool!Next /\ UNCHANGED vars

AllSpec == AllInit /\ [][AllNext]_allVars

MCSymmetry == Permutations(Threads)

\* A block is linked in one arena, or on its way to upstream, and hints name linked blocks only;
\* no element is lent twice (add_new_block, do_allocate, do_deallocate); each resource keeps
\* its types.
BlocksAccounted ==
    /\ subject = "arena" => TypeOK
    /\ subject = "pool" => /\ Pool!TypeOK /\ Pool!BlocksAccounted
                           /\ Pool!HintsAreLinked /\ Pool!RunsAreApart

\* The count of free elements agrees with the bitmap, also while it is wrapped (do_allocate and
\* do_deallocate of the pool).
CountBalances == subject = "pool" => Pool!CountBalances

\* An allocation nobody interferes with is refused only when nothing fits, in either resource
\* (do_allocate of both).
RefusesAloneOnlyWhenFull ==
    [][/\ subject = "arena" => RefusalIsDue
       /\ subject = "pool" => Pool!RefusalIsDue]_allVars
=============================================================================
