---------------------------- MODULE SingleBlock ----------------------------
(***************************************************************************)
(* single_block_resource: pieces are cut off the front of one block of     *)
(* memory.  Freed pieces go on a list per size class and are reused where  *)
(* they lie: a piece taken again stays on its list until some search       *)
(* comes by and unlinks it.                                                *)
(*                                                                         *)
(* A piece is named by the place of its header.  One step is one load,     *)
(* store or compare-exchange of a shared word; the statistics change with  *)
(* the step before them.  Callers free what they hold, with its size.      *)
(***************************************************************************)
EXTENDS Integers, FiniteSets, Sequences, FiniteSetsExt, TLC

CONSTANTS
    Threads,
    Size,               \* size_: the memory is 0 .. Size - 1
    Alignment,          \* DEFAULT_ALIGNMENT: 16
    HeaderSize,         \* BLOCK_HEADER_SIZE: 48
    BinSizes,           \* DEALLOCATION_BIN_SIZES
    Requests,           \* pairs <<bytes, alignment>> that callers ask for
    ReuseRatio,         \* 10: reuse is tried beyond one free in so many allocations
    MaxAllocations      \* bound: allocations that succeed

VARIABLES
    nextEmpty,          \* next_empty_block_
    heads,              \* deallocated_head_bins_
    header,             \* the headers written so far
    counts,             \* total allocations and deallocations
    thread,             \* what each call has in its hands
    held,               \* history: what callers hold, [at, size]
    overlapped          \* history: two calls have searched one list at once

vars == <<nextEmpty, heads, header, counts, thread, held, overlapped>>

\* end_of_list_marker_, and nullptr.
End == -1
Null == -2

AlignUp(at, alignment) == ((at + alignment - 1) \div alignment) * alignment

BinFor(bytes) ==
    Min({i \in DOMAIN BinSizes : bytes + HeaderSize <= BinSizes[i]} \cup {Len(BinSizes)})

Idle == [pc |-> "idle", bytes |-> 0, alignment |-> 0, bin |-> 1,
         current |-> Null, previous |-> Null, next |-> Null, block |-> Null, searching |-> FALSE]

Init ==
    /\ nextEmpty = 0
    /\ heads = [i \in DOMAIN BinSizes |-> End]
    /\ header = <<>>
    /\ counts = [made |-> 0, freed |-> 0]
    /\ thread = [t \in Threads |-> Idle]
    /\ held = {}
    /\ overlapped = FALSE

At(t, pc) == thread[t].pc = pc
Go(t, changes) == thread' = [thread EXCEPT ![t] = changes @@ @]
Searching(bin) == {u \in Threads : thread[u].searching /\ thread[u].bin = bin}

-----------------------------------------------------------------------------
(* do_allocate: the search for a freed piece                               *)

Allocate(t, request) ==
    LET bin == BinFor(request[1])
        search == counts.freed > counts.made \div ReuseRatio
    IN  /\ At(t, "idle")
        /\ counts.made + Cardinality({u \in Threads : thread[u].bytes > 0}) < MaxAllocations
        /\ thread' = [thread EXCEPT ![t] =
               [Idle EXCEPT !.pc = IF search THEN "look" ELSE "front",
                            !.bytes = request[1],
                            !.alignment = Max({request[2], Alignment}),
                            !.bin = bin, !.current = IF search THEN heads[bin] ELSE Null,
                            !.searching = search]]
        /\ overlapped' = (overlapped \/ (search /\ Searching(bin) # {}))
        /\ UNCHANGED <<nextEmpty, heads, header, counts, held>>

\* The caller has its piece.
HandsOut(t, at, bytes) ==
    /\ thread' = [thread EXCEPT ![t] = Idle]
    /\ held' = held \cup {[at |-> at + HeaderSize, size |-> bytes]}
    /\ counts' = [counts EXCEPT !.made = @ + 1]

Fits(t, at) ==
    /\ header[at].actual >= thread[t].bytes + HeaderSize
    /\ (at + HeaderSize) % thread[t].alignment = 0

Onward(t) == [pc |-> "look", current |-> thread[t].next]
PassBy(t) == Onward(t) @@ [previous |-> thread[t].current]

Look(t) ==
    LET current == thread[t].current
        next == IF current = End THEN Null ELSE header[current].next
    IN  /\ At(t, "look")
        /\ IF next = Null THEN Go(t, [pc |-> "front", searching |-> FALSE])
           ELSE Go(t, [next |-> next,
                       pc |-> IF ~header[current].inUse /\ Fits(t, current) THEN "claim" ELSE "stale"])
        /\ UNCHANGED <<nextEmpty, heads, header, counts, held, overlapped>>

\* Mutant: the piece is taken whoever took it since it was looked at.
ClaimBlind(t) ==
    LET current == thread[t].current
    IN  /\ At(t, "claim")
        /\ header' = [header EXCEPT ![current].inUse = TRUE,
                                    ![current].requested = thread[t].bytes]
        /\ HandsOut(t, current, thread[t].bytes)
        /\ UNCHANGED <<nextEmpty, heads, overlapped>>

\* The piece is taken where it lies, on its list.
Claim(t) ==
    LET current == thread[t].current
    IN  /\ At(t, "claim")
        /\ IF header[current].inUse
           THEN Go(t, Onward(t)) /\ UNCHANGED <<header, counts, held>>
           ELSE /\ header' = [header EXCEPT ![current].inUse = TRUE,
                                            ![current].requested = thread[t].bytes]
                /\ HandsOut(t, current, thread[t].bytes)
        /\ UNCHANGED <<nextEmpty, heads, overlapped>>

\* What does not fit is passed by, what is in use is to be unlinked.
Stale(t) ==
    /\ At(t, "stale")
    /\ Go(t, IF header[thread[t].current].inUse THEN [pc |-> "unlink"] ELSE PassBy(t))
    /\ UNCHANGED <<nextEmpty, heads, header, counts, held, overlapped>>

\* The predecessor is the one passed by last, whatever became of it since.
Unlink(t) ==
    LET me == thread[t]
    IN  /\ At(t, "unlink")
        /\ \/ /\ me.previous = Null /\ heads[me.bin] = me.current
              /\ heads' = [heads EXCEPT ![me.bin] = me.next]
              /\ Go(t, [pc |-> "unlisted"])
              /\ UNCHANGED header
           \/ /\ me.previous # Null /\ header[me.previous].next = me.current
              /\ header' = [header EXCEPT ![me.previous].next = me.next]
              /\ Go(t, [pc |-> "unlisted"])
              /\ UNCHANGED heads
           \/ /\ me.current # (IF me.previous = Null THEN heads[me.bin] ELSE header[me.previous].next)
              /\ Go(t, PassBy(t))
              /\ UNCHANGED <<heads, header>>
        /\ UNCHANGED <<nextEmpty, counts, held, overlapped>>

Unlisted(t) ==
    /\ At(t, "unlisted")
    /\ header' = [header EXCEPT ![thread[t].current].onFreeList = FALSE]
    /\ Go(t, [pc |-> "freed again"])
    /\ UNCHANGED <<nextEmpty, heads, counts, held, overlapped>>

\* Mutant: nobody looks whether the piece was freed meanwhile.
FreedAgainNever(t) ==
    /\ At(t, "freed again")
    /\ Go(t, Onward(t))
    /\ UNCHANGED <<nextEmpty, heads, header, counts, held, overlapped>>

\* Freed meanwhile: that free saw it listed, so the search pushes it.
FreedAgain(t) ==
    /\ At(t, "freed again")
    /\ Go(t, IF header[thread[t].current].inUse THEN Onward(t)
             ELSE [pc |-> "push", block |-> thread[t].current])
    /\ UNCHANGED <<nextEmpty, heads, header, counts, held, overlapped>>

-----------------------------------------------------------------------------
(* do_allocate: the unused tail                                            *)

\* The place of the header at a frontier, and the end of the piece.
HeaderAt(t, frontier) == AlignUp(frontier + HeaderSize, thread[t].alignment) - HeaderSize
EndsAt(t, frontier) == AlignUp(HeaderAt(t, frontier) + HeaderSize + thread[t].bytes, Alignment)

NoRoom(t, frontier) ==
    LET returned == HeaderAt(t, frontier) + HeaderSize
    IN  \/ returned >= Size
        \/ thread[t].bytes > Size - returned - Alignment
        \/ EndsAt(t, frontier) >= Size

Front(t) ==
    /\ At(t, "front")
    /\ IF NoRoom(t, nextEmpty) THEN thread' = [thread EXCEPT ![t] = Idle]
       ELSE Go(t, [pc |-> "advance", current |-> nextEmpty])
    /\ UNCHANGED <<nextEmpty, heads, header, counts, held, overlapped>>

Advance(t) ==
    LET at == HeaderAt(t, nextEmpty)
        end == EndsAt(t, nextEmpty)
    IN  /\ At(t, "advance")
        /\ IF nextEmpty # thread[t].current
           THEN Go(t, [pc |-> "front"]) /\ UNCHANGED <<nextEmpty, header, counts, held>>
           ELSE /\ nextEmpty' = end
                /\ header' = header @@ (at :> [inUse |-> TRUE, onFreeList |-> FALSE, next |-> Null,
                                               actual |-> end - at, requested |-> thread[t].bytes])
                /\ HandsOut(t, at, thread[t].bytes)
        /\ UNCHANGED <<heads, overlapped>>

-----------------------------------------------------------------------------
(* do_deallocate and push_free                                             *)

Deallocate(t, piece) ==
    LET at == piece.at - HeaderSize
    IN  /\ At(t, "idle")
        /\ at < nextEmpty /\ header[at].inUse /\ header[at].requested = piece.size
        /\ header' = [header EXCEPT ![at].inUse = FALSE]
        /\ thread' = [thread EXCEPT ![t] = [Idle EXCEPT !.pc = "push", !.block = at, !.bin = BinFor(piece.size)]]
        /\ held' = held \ {piece}
        /\ UNCHANGED <<nextEmpty, heads, counts, overlapped>>

\* A search that pushed goes on; a free is counted and over.
Pushed(t) ==
    IF thread[t].searching THEN Go(t, Onward(t)) /\ UNCHANGED counts
    ELSE /\ thread' = [thread EXCEPT ![t] = Idle]
         /\ counts' = [counts EXCEPT !.freed = @ + 1]

\* Whoever finds the flag down pushes.
Push(t) ==
    LET block == thread[t].block
    IN  /\ At(t, "push")
        /\ header' = [header EXCEPT ![block].onFreeList = TRUE]
        /\ IF header[block].onFreeList THEN Pushed(t) ELSE Go(t, [pc |-> "store"]) /\ UNCHANGED counts
        /\ UNCHANGED <<nextEmpty, heads, held, overlapped>>

Store(t) ==
    /\ At(t, "store")
    /\ header' = [header EXCEPT ![thread[t].block].next = heads[thread[t].bin]]
    /\ Go(t, [pc |-> "link", current |-> heads[thread[t].bin]])
    /\ UNCHANGED <<nextEmpty, heads, counts, held, overlapped>>

Link(t) ==
    LET me == thread[t]
    IN  /\ At(t, "link")
        /\ IF heads[me.bin] = me.current
           THEN heads' = [heads EXCEPT ![me.bin] = me.block] /\ Pushed(t)
           ELSE Go(t, [pc |-> "store"]) /\ UNCHANGED <<heads, counts>>
        /\ UNCHANGED <<nextEmpty, header, held, overlapped>>

-----------------------------------------------------------------------------
Step(t) ==
    \/ Look(t) \/ Claim(t) \/ Stale(t) \/ Unlink(t) \/ Unlisted(t) \/ FreedAgain(t)
    \/ Front(t) \/ Advance(t) \/ Push(t) \/ Store(t) \/ Link(t)

Next ==
    \E t \in Threads :
        \/ \E request \in Requests : Allocate(t, request)
        \/ \E piece \in held : Deallocate(t, piece)
        \/ Step(t)

Spec == Init /\ [][Next]_vars

-----------------------------------------------------------------------------
\* The pieces met from a head, one for every step.
Walk(bin) ==
    LET at[i \in 0..Cardinality(DOMAIN header)] ==
            IF i = 0 THEN heads[bin]
            ELSE IF at[i - 1] < 0 THEN at[i - 1] ELSE header[at[i - 1]].next
    IN  at

\* After as many steps as there are pieces the end is reached.
Ends(bin) == Walk(bin)[Cardinality(DOMAIN header)] < 0

\* Every freed piece nobody has in his hands is on the list of its class.
Listed(bin) ==
    (\A t \in Threads : At(t, "idle")) =>
        {at \in DOMAIN header : ~header[at].inUse /\ BinFor(header[at].requested) = bin}
            \subseteq {Walk(bin)[i] : i \in DOMAIN Walk(bin)}

\* Unless two calls have searched a list at once, every list ends, and every freed piece is on
\* the list of its class, once all calls are done (single_block_resource::push_free and the
\* search of do_allocate).
FreedPiecesAreListed == ~overlapped => \A bin \in DOMAIN BinSizes : Ends(bin) /\ Listed(bin)

\* "It would link to itself and the next scan of the bin would never end", says push_free, of
\* what the flag is to prevent: every list ends.
ListsEnd == \A bin \in DOMAIN BinSizes : Ends(bin)

Heap == INSTANCE AbstractHeap WITH Base <- 0, Limit <- Size

\* Callers hold disjoint pieces inside the memory, also where two searches meet.
ImplementsHeap == Heap!Spec

-----------------------------------------------------------------------------
\* Values for a model: two sizes of one class, the smaller of which does not fit a request
\* for the larger, so that a search passes it by.
PairOfBinSizes == <<8, 16>>
SmallRequests == {<<1, 1>>, <<4, 1>>}
=============================================================================
