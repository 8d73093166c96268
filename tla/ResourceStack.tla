--------------------------- MODULE ResourceStack ---------------------------
(***************************************************************************)
(* A polymorphic_allocator over a tracking_memory_resource over one of     *)
(*   heap       a memory_heap_resource_adapter over a                      *)
(*              single_block_memory_heap,                                  *)
(*   malloc     a malloc_free_wrapper_memory_resource over malloc,         *)
(*   composite  a lockfree_composite_single_arena_resource over its pools, *)
(* used by one caller at a time.  malloc and the pools are external: they  *)
(* lend any free memory they have.                                         *)
(***************************************************************************)
EXTENDS Integers, FiniteSets, Sequences, SequencesExt, FiniteSetsExt

CONSTANTS
    Types,              \* [size, align]; a size of one byte also stands for a direct call
    Counts,             \* numbers of elements asked for, at least one
    SizeMax,            \* SIZE_MAX
    MaxAlign,           \* alignof(max_align_t)
    PointerSize,        \* sizeof(void *)
    HeapStart, HeapSize, BlockAlignment, HeapHeader,
    MallocPlaces,       \* where malloc has room, aligned to MaxAlign
    SmallPlaces,        \* elements of the small pool
    LargePlaces,        \* where the large pool has room
    Threshold,          \* THRESHOLD_BYTES
    MaxMade             \* bound: allocations that succeed

VARIABLES
    base,               \* which resource is below
    heap,               \* [blocks, bytes, made, unusedBytes, unused]
    lent,               \* external: [at, size, pool] that malloc or a pool has lent
    stored,             \* pointers the wrapper keeps before its blocks, [slot, raw]
    tracked,            \* the tracking counters, [inUse, total, made, freed]
    held                \* history: what callers hold, [at, size, alignment]

vars == <<base, heap, lent, stored, tracked, held>>

Null == -1
RoundUp(n, unit) == ((n + unit - 1) \div unit) * unit

-----------------------------------------------------------------------------
(* single_block_memory_heap; a block is named by its header                *)

Place(h, i) == FoldLeft(LAMBDA at, b : at + b.size, HeapStart, SubSeq(h.blocks, 1, i - 1))
BlockAt(h, at) == CHOOSE i \in DOMAIN h.blocks : Place(h, i) + HeapHeader = at

NotGiven(h) == [heap |-> h, at |-> Null]

GiveEnd(h, size, count) ==
    [heap |-> [h EXCEPT !.blocks = Append(@, [size |-> size, inUse |-> TRUE, count |-> count]),
                        !.bytes = @ + size, !.made = @ + 1],
     at |-> Place(h, Len(h.blocks) + 1) + HeapHeader]

\* One that fits exactly, or else the biggest.
BestFit(h, size) ==
    LET fitting == {i \in DOMAIN h.blocks : ~h.blocks[i].inUse /\ h.blocks[i].size >= size}
        exact == {i \in fitting : h.blocks[i].size = size}
        biggest == {i \in fitting : \A j \in fitting : h.blocks[j].size <= h.blocks[i].size}
    IN  IF exact # {} THEN Min(exact) ELSE Min(biggest)

Searchable(h, size) == h.unused > 0 /\ \E i \in DOMAIN h.blocks : ~h.blocks[i].inUse /\ h.blocks[i].size >= size

\* A header and four bytes, rounded up.
MinimumForSplit == HeapHeader + BlockAlignment

\* A block much bigger than the request is split, and the rest stays unused.
GiveUnused(h, size, count) ==
    LET i == BestFit(h, size)
        block == h.blocks[i]
        given == [size |-> size, inUse |-> TRUE, count |-> count]
        rest == [size |-> block.size - size, inUse |-> FALSE, count |-> 0]
    IN  [at |-> Place(h, i) + HeapHeader,
         heap |->
            IF block.size > size + MinimumForSplit
            THEN [h EXCEPT !.blocks = SubSeq(@, 1, i - 1) \o <<given, rest>> \o SubSeq(@, i + 1, Len(@)),
                           !.made = @ + 1, !.unusedBytes = @ - size]
            ELSE [h EXCEPT !.blocks[i] = [given EXCEPT !.size = block.size],
                           !.unusedBytes = @ - block.size, !.unused = @ - 1]]

AllocateRawBlock(h, elementSize, count) ==
    LET size == RoundUp(elementSize * count, BlockAlignment) + HeapHeader
    IN  IF count # 0 /\ elementSize > HeapSize \div count THEN NotGiven(h)
        ELSE IF size <= HeapSize - h.bytes THEN GiveEnd(h, size, count)
        ELSE IF Searchable(h, size) THEN GiveUnused(h, size, count)
        ELSE NotGiven(h)

DeallocateRawBlock(h, at) ==
    LET i == BlockAt(h, at)
    IN  [h EXCEPT !.blocks[i].inUse = FALSE, !.blocks[i].count = 0,
                  !.unusedBytes = @ + h.blocks[i].size, !.unused = @ + 1]

-----------------------------------------------------------------------------
(* memory_heap_resource_adapter                                            *)

ElementCount(bytes, alignment) == (bytes + alignment - 1) \div alignment

\* A block the heap could not align is given back.
AdapterAllocate(h, bytes, alignment) ==
    LET given == AllocateRawBlock(h, alignment, ElementCount(bytes, alignment))
    IN  IF bytes > SizeMax - (alignment - 1) THEN NotGiven(h)
        ELSE IF given.at # Null /\ given.at % alignment # 0
             THEN NotGiven(DeallocateRawBlock(given.heap, given.at))
        ELSE given

-----------------------------------------------------------------------------
(* Lending memory, and what is done with it                                *)

Touch(a, b) == a.at < b.at + b.size /\ b.at < a.at + a.size

\* A pool lends at a place of its own, or refuses.
Lends(pool, places, size, at) ==
    /\ at \in places
    /\ LET area == [at |-> at, size |-> size, pool |-> pool]
       IN  /\ at + size <= SizeMax
           /\ \A other \in lent : ~Touch(area, other)
           /\ lent' = lent \cup {area}

OverAligned(alignment) == alignment > MaxAlign

\* Room for the block, its alignment and the pointer before it.
RawSize(bytes, alignment) == IF OverAligned(alignment) THEN bytes + alignment + PointerSize ELSE bytes

\* Where the block starts in the raw memory.
InRaw(raw, alignment) == IF OverAligned(alignment) THEN RoundUp(raw + PointerSize, alignment) ELSE raw

\* The small pool aligns to no more than MaxAlign.
ShouldUseSmallPool(bytes, alignment) == bytes <= Threshold /\ alignment <= MaxAlign

-----------------------------------------------------------------------------
(* Calls, from the allocator down                                          *)

Track(at, bytes, alignment) ==
    /\ tracked' = [tracked EXCEPT !.inUse = @ + bytes, !.total = @ + bytes, !.made = @ + 1]
    /\ held' = held \cup {[at |-> at, size |-> bytes, alignment |-> alignment]}

\* polymorphic_allocator asks for no more elements than size_t can count the bytes of.
Asks(type, count) == count <= SizeMax \div type.size /\ tracked.made < MaxMade

HeapAllocate(bytes, alignment) ==
    LET given == AdapterAllocate(heap, bytes, alignment)
    IN  /\ base = "heap"
        /\ heap' = given.heap
        /\ IF given.at = Null THEN UNCHANGED <<tracked, held>> ELSE Track(given.at, bytes, alignment)
        /\ UNCHANGED <<base, lent, stored>>

MallocAllocate(bytes, alignment) ==
    /\ base = "malloc"
    /\ OverAligned(alignment) => bytes <= SizeMax - alignment - PointerSize
    /\ \E raw \in MallocPlaces :
          LET at == InRaw(raw, alignment)
          IN  /\ Lends("malloc", MallocPlaces, RawSize(bytes, alignment), raw)
              /\ stored' = IF OverAligned(alignment)
                           THEN stored \cup {[slot |-> at - PointerSize, raw |-> raw]} ELSE stored
              /\ Track(at, bytes, alignment)
    /\ UNCHANGED <<base, heap>>

CompositeAllocate(bytes, alignment) ==
    /\ base = "composite"
    /\ LET small == ShouldUseSmallPool(bytes, alignment)
           places == IF small THEN SmallPlaces ELSE {at \in LargePlaces : at % alignment = 0}
       IN  \E at \in places : Lends(IF small THEN "small" ELSE "large", places, bytes, at) /\ Track(at, bytes, alignment)
    /\ UNCHANGED <<base, heap, stored>>

Untrack(piece) ==
    /\ tracked' = [tracked EXCEPT !.inUse = @ - piece.size, !.freed = @ + 1]
    /\ held' = held \ {piece}

HeapDeallocate(piece) ==
    /\ base = "heap"
    /\ heap' = DeallocateRawBlock(heap, piece.at)
    /\ Untrack(piece)
    /\ UNCHANGED <<base, lent, stored>>

\* An over-aligned block's raw pointer is read back from the word before it.
MallocDeallocate(piece) ==
    LET kept == {p \in stored : OverAligned(piece.alignment) /\ p.slot = piece.at - PointerSize}
        raw == IF kept = {} THEN piece.at ELSE (CHOOSE p \in kept : TRUE).raw
    IN  /\ base = "malloc"
        /\ lent' = {area \in lent : area.at # raw}
        /\ stored' = stored \ kept
        /\ Untrack(piece)
        /\ UNCHANGED <<base, heap>>

CompositeDeallocate(piece) ==
    LET pool == IF ShouldUseSmallPool(piece.size, piece.alignment) THEN "small" ELSE "large"
    IN  /\ base = "composite"
        /\ lent' = {area \in lent : area.at # piece.at \/ area.pool # pool}
        /\ Untrack(piece)
        /\ UNCHANGED <<base, heap, stored>>

Init ==
    /\ base \in {"heap", "malloc", "composite"}
    /\ heap = [blocks |-> <<>>, bytes |-> 0, made |-> 0, unusedBytes |-> 0, unused |-> 0]
    /\ lent = {} /\ stored = {}
    /\ tracked = [inUse |-> 0, total |-> 0, made |-> 0, freed |-> 0]
    /\ held = {}

Next ==
    \/ \E type \in Types, count \in Counts :
          /\ Asks(type, count)
          /\ \/ HeapAllocate(count * type.size, type.align)
             \/ MallocAllocate(count * type.size, type.align)
             \/ CompositeAllocate(count * type.size, type.align)
    \/ \E piece \in held : HeapDeallocate(piece) \/ MallocDeallocate(piece) \/ CompositeDeallocate(piece)

Spec == Init /\ [][Next]_vars

-----------------------------------------------------------------------------
SumOf(S, f(_)) == FoldSet(LAMBDA x, sum : f(x) + sum, 0, S)

\* The tracked balance is what callers hold, and below nothing else is out: malloc and the
\* pools have lent one area for each piece, and get that one back.
BalanceIsExact ==
    /\ tracked.inUse = SumOf(held, LAMBDA p : p.size)
    /\ tracked.made - tracked.freed = Cardinality(held)
    /\ base # "heap" => /\ Cardinality(lent) = Cardinality(held)
                        /\ \A p \in held : \E area \in lent :
                              area.at <= p.at /\ p.at + p.size <= area.at + area.size

\* The heap's counters describe its blocks, which tile it as far as it was used, and the
\* count of elements an adapter frees with is the one the block was given for, which
\* memory_heap asserts.
HeapIsSound ==
    LET unused == {i \in DOMAIN heap.blocks : ~heap.blocks[i].inUse}
    IN  base = "heap" =>
        /\ heap.made = Len(heap.blocks)
        /\ heap.bytes = SumOf(DOMAIN heap.blocks, LAMBDA i : heap.blocks[i].size) /\ heap.bytes <= HeapSize
        /\ heap.unused = Cardinality(unused) /\ heap.unusedBytes = SumOf(unused, LAMBDA i : heap.blocks[i].size)
        /\ \A p \in held : \E i \in DOMAIN heap.blocks \ unused :
              /\ p.at = Place(heap, i) + HeapHeader
              /\ heap.blocks[i].count = ElementCount(p.size, p.alignment)
              /\ p.size <= heap.blocks[i].size - HeapHeader

\* Pieces are aligned as asked, and no caller can write over a pointer the wrapper keeps.
PiecesAreUsable ==
    \A p \in held :
        /\ p.at % p.alignment = 0
        /\ \A k \in stored : ~Touch(p, [at |-> k.slot, size |-> PointerSize])

Heap == INSTANCE AbstractHeap WITH Base <- 0, Limit <- SizeMax

\* Callers hold disjoint pieces.
ImplementsHeap == Heap!Spec
=============================================================================
