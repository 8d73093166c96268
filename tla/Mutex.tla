------------------------------- MODULE Mutex -------------------------------
(***************************************************************************)
(* spin_mutex and recursive_spin_mutex, and the unique_locks through which *)
(* threads hold them: handles that are moved, swapped, released to the     *)
(* bare lock and adopted again.  A lock_guard is a handle that is bound,   *)
(* locked and destroyed.                                                   *)
(*                                                                         *)
(* Callers keep the contract: a thread does not lock a spin_mutex it holds,*)
(* unlocks only what it holds, and passes no handle to another thread.     *)
(***************************************************************************)
EXTENDS Integers, FiniteSets

CONSTANTS
    Threads,            \* what OwnerPolicy tells apart
    Handles,            \* unique_locks of each thread
    Kinds,              \* of "spin" and "recursive"
    MaxDepth            \* bound: locks a thread holds

NoOwner == "nobody"

MutexAssumption ==
    /\ Handles # {} /\ IsFiniteSet(Handles)
    /\ Kinds \subseteq {"spin", "recursive"} /\ NoOwner \notin Threads
    /\ MaxDepth \in Nat

VARIABLES
    kind,
    locked,             \* locked_ of the spin_mutex
    owner, depth,       \* owner_, depth_ of the recursive_spin_mutex
    handle,             \* of each thread, its unique_locks: [bound, owns]
    bare,               \* of each thread, locks it holds without a handle
    call                \* of each thread: [pc, h, from, next]; h is the handle, next what follows an
                        \* unlock, and from the handle that is moved into h

vars == <<kind, locked, owner, depth, handle, bare, call>>

SomeHandle == CHOOSE h \in Handles : TRUE
Idle == [pc |-> "idle", h |-> SomeHandle, from |-> SomeHandle, next |-> "nothing"]
Unbound == [bound |-> FALSE, owns |-> FALSE]

Held(t) == bare[t] + Cardinality({h \in Handles : handle[t][h].owns})
At(t, pc) == call[t].pc = pc
Goto(t, pc) == call' = [call EXCEPT ![t].pc = pc]
Return(t) == call' = [call EXCEPT ![t] = Idle]
Owns(t, yes) == handle' = [handle EXCEPT ![t][call[t].h].owns = yes]

Init ==
    /\ kind \in Kinds
    /\ locked = FALSE /\ owner = NoOwner /\ depth = 0
    /\ handle = [t \in Threads |-> [h \in Handles |-> Unbound]]
    /\ bare = [t \in Threads |-> 0]
    /\ call = [t \in Threads |-> Idle]

-----------------------------------------------------------------------------
(* lock and try_lock: of the handle, which checks itself, of the recursive *)
(* mutex, which looks for its owner, and of the spin mutex under both      *)

Begin(t, h, try) ==
    /\ At(t, "idle")
    /\ handle[t][h].bound /\ ~handle[t][h].owns
    /\ Held(t) < IF kind = "spin" THEN 1 ELSE MaxDepth
    /\ call' = [call EXCEPT ![t] =
            [pc |-> IF kind = "spin" THEN (IF try THEN "look" ELSE "exchange") ELSE "whose",
             h |-> h, from |-> h, next |-> IF try THEN "try" ELSE "wait"]]
    /\ UNCHANGED <<kind, locked, owner, depth, handle, bare>>

Reenter(t) ==
    /\ At(t, "whose") /\ owner = t
    /\ depth' = depth + 1
    /\ Owns(t, TRUE) /\ Return(t)
    /\ UNCHANGED <<kind, locked, owner, bare>>

NotOwner(t) ==
    /\ At(t, "whose") /\ owner # t
    /\ Goto(t, IF call[t].next = "try" THEN "look" ELSE "exchange")
    /\ UNCHANGED <<kind, locked, owner, depth, handle, bare>>

Exchange(t) ==
    /\ At(t, "exchange") /\ ~locked
    /\ locked' = TRUE
    /\ IF kind = "spin" THEN Owns(t, TRUE) /\ Return(t) ELSE Goto(t, "own") /\ UNCHANGED handle
    /\ UNCHANGED <<kind, owner, depth, bare>>

\* lock spins on loads before it exchanges again, try_lock gives up.
Contended(t) ==
    /\ At(t, "exchange") /\ locked
    /\ IF call[t].next = "try" THEN Return(t) ELSE Goto(t, "spin")
    /\ UNCHANGED <<kind, locked, owner, depth, handle, bare>>

Spin(t) ==
    /\ At(t, "spin") /\ ~locked
    /\ Goto(t, "exchange")
    /\ UNCHANGED <<kind, locked, owner, depth, handle, bare>>

Look(t) ==
    /\ At(t, "look")
    /\ IF locked THEN Return(t) ELSE Goto(t, "exchange")
    /\ UNCHANGED <<kind, locked, owner, depth, handle, bare>>

Own(t) ==
    /\ At(t, "own")
    /\ owner' = t /\ Goto(t, "count")
    /\ UNCHANGED <<kind, locked, depth, handle, bare>>

Count(t) ==
    /\ At(t, "count")
    /\ depth' = 1
    /\ Owns(t, TRUE) /\ Return(t)
    /\ UNCHANGED <<kind, locked, owner, bare>>

-----------------------------------------------------------------------------
(* unlock: the handle gives up what it owns; a move into a handle and its  *)
(* destruction unlock first.  "bare" unlocks a lock without a handle.      *)

Unlock(t, h, next, from) ==
    /\ At(t, "idle")
    /\ call' = [call EXCEPT ![t] = [pc |-> IF kind = "spin" THEN "free" ELSE "uncount",
                                   h |-> h, from |-> from, next |-> next]]
    /\ UNCHANGED <<kind, locked, owner, depth, handle, bare>>

\* What follows: the handle is free, gone, or what the other one was.
Finish(t) ==
    LET h == call[t].h
        from == call[t].from
        mine == handle[t]
    IN  /\ bare' = IF call[t].next = "bare" THEN [bare EXCEPT ![t] = @ - 1] ELSE bare
        /\ handle' = [handle EXCEPT ![t] =
              CASE call[t].next = "bare" -> mine
                [] call[t].next = "keep" -> [mine EXCEPT ![h].owns = FALSE]
                [] call[t].next = "destroy" -> [mine EXCEPT ![h] = Unbound]
                [] OTHER -> [mine EXCEPT ![h] = mine[from], ![from] = Unbound]]
        /\ Return(t)

\* A caller that is not the owner would be a breach of contract, and is turned away.
Uncount(t) ==
    /\ At(t, "uncount") /\ owner = t
    /\ depth' = depth - 1
    /\ IF depth = 1 THEN Goto(t, "disown") /\ UNCHANGED <<handle, bare>> ELSE Finish(t)
    /\ UNCHANGED <<kind, locked, owner>>

Disown(t) ==
    /\ At(t, "disown")
    /\ owner' = NoOwner /\ Goto(t, "free")
    /\ UNCHANGED <<kind, locked, depth, handle, bare>>

Free(t) ==
    /\ At(t, "free")
    /\ locked' = FALSE /\ Finish(t)
    /\ UNCHANGED <<kind, owner, depth>>

-----------------------------------------------------------------------------
(* What a handle does without the mutex                                    *)

Handled(t, mine) ==
    /\ At(t, "idle")
    /\ handle' = [handle EXCEPT ![t] = mine]
    /\ UNCHANGED <<kind, locked, owner, depth, call>>

Bind(t, h) ==
    /\ handle[t][h] = Unbound
    /\ Handled(t, [handle[t] EXCEPT ![h].bound = TRUE]) /\ UNCHANGED bare

Adopt(t, h) ==
    /\ handle[t][h] = Unbound /\ bare[t] > 0
    /\ Handled(t, [handle[t] EXCEPT ![h] = [bound |-> TRUE, owns |-> TRUE]])
    /\ bare' = [bare EXCEPT ![t] = @ - 1]

Release(t, h) ==
    /\ handle[t][h].bound
    /\ Handled(t, [handle[t] EXCEPT ![h] = Unbound])
    /\ bare' = IF handle[t][h].owns THEN [bare EXCEPT ![t] = @ + 1] ELSE bare

\* Into a handle that owns nothing; Unlock has the other case.
Move(t, h, g) ==
    /\ h # g /\ ~handle[t][h].owns
    /\ Handled(t, [handle[t] EXCEPT ![h] = handle[t][g], ![g] = Unbound]) /\ UNCHANGED bare

Swap(t, h, g) ==
    /\ Handled(t, [handle[t] EXCEPT ![h] = handle[t][g], ![g] = handle[t][h]]) /\ UNCHANGED bare

Next ==
    \E t \in Threads :
        \/ \E h \in Handles :
            \/ \E try \in BOOLEAN : Begin(t, h, try)
            \/ \E next \in {"keep", "destroy"} : handle[t][h].owns /\ Unlock(t, h, next, h)
            \/ \E g \in Handles \ {h} : handle[t][h].owns /\ Unlock(t, h, "move", g)
            \/ Bind(t, h) \/ Adopt(t, h) \/ Release(t, h)
            \/ \E g \in Handles : Move(t, h, g) \/ Swap(t, h, g)
        \/ bare[t] > 0 /\ Unlock(t, SomeHandle, "bare", SomeHandle)
        \/ Reenter(t) \/ NotOwner(t) \/ Exchange(t) \/ Contended(t) \/ Spin(t) \/ Look(t)
        \/ Own(t) \/ Count(t) \/ Uncount(t) \/ Disown(t) \/ Free(t)

-----------------------------------------------------------------------------
\* One thread at a time holds the mutex; the recursive mutex knows it, so that it can always
\* enter again and leave, and counts its locks through handles and without; and a mutex that
\* nobody holds is free (lock, try_lock, unlock; the operations of unique_lock).
LocksExclude ==
    /\ \A t \in Threads : Held(t) > 0 =>
        /\ locked \/ At(t, "free")
        /\ \A u \in Threads \ {t} : Held(u) = 0
        /\ kind = "recursive" /\ At(t, "idle") => owner = t /\ depth = Held(t)
    /\ (\A t \in Threads : Held(t) = 0 /\ At(t, "idle")) => ~locked /\ owner = NoOwner
=============================================================================
