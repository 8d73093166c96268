---------------------------- MODULE StaticArena ----------------------------
(***************************************************************************)
(* lockfree_static_arena_resource: a bump pointer over an arena, and free  *)
(* bins by size class, each an intrusive tagged stack.  The stacks are     *)
(* used here through what TaggedStack is shown to implement: push, pop and *)
(* steal_all happen at one moment each (AtomicStack).  Everything the      *)
(* allocator does between those moments is a step of its own.              *)
(*                                                                         *)
(* Addresses are offsets from arena_start_, which is aligned.              *)
(***************************************************************************)
EXTENDS Integers, FiniteSets, FiniteSetsExt, Sequences, Functions

CONSTANTS
    Threads,
    MinAlignment,           \* MIN_ALIGNMENT, 64
    NumBins,                \* NUM_BINS, 8
    HeaderSize,             \* sizeof(free_block_header)
    ArenaBlocks,            \* block_count(start, size)
    RequestSizes            \* bound: the sizes callers ask for, in bytes

ASSUME ShapeAssumption ==
    /\ MinAlignment \in Nat \ {0}
    /\ NumBins \in Nat /\ NumBins >= 2
    /\ HeaderSize \in 1 .. MinAlignment
    /\ ArenaBlocks \in Nat
    /\ RequestSizes \subseteq Nat

\* Powers of two, as far as there are classes: arithmetic that TLC evaluates and TLAPS lacks.
ASSUME PowersAssumption ==
    \A b \in 0 .. NumBins : 2^b \in Nat /\ 2^b < 2^(b + 1)

ArenaEnd == ArenaBlocks * MinAlignment
Bins == 0 .. NumBins - 1
LargeBin == NumBins - 1
ClassSize(bin) == MinAlignment * 2^bin
ClassSizes == {ClassSize(b) : b \in Bins \ {LargeBin}}
LargestClass == Max(ClassSizes)
Blocks == {b * MinAlignment : b \in 0 .. ArenaBlocks - 1}

\* What is really reserved for a request.
BlockSizeFor(bytes) ==
    LET size == ((Max({bytes, HeaderSize}) + MinAlignment - 1) \div MinAlignment)
                   * MinAlignment
    IN  IF size > LargestClass THEN size ELSE Min({c \in ClassSizes : c >= size})

GetBin(size) ==
    IF size > LargestClass THEN LargeBin
                           ELSE Min({b \in Bins \ {LargeBin} : ClassSize(b) >= size})

VARIABLES
    currentPtr,             \* current_ptr_
    bins,                   \* free_stack_heads_: the stacks of free blocks
    header,                 \* free_block_header::size at the start of each block
    allocated,              \* [at, bytes]: what callers hold
    pc, want,               \* per thread: where it is, the bytes asked for
    bin,                    \* the bin it looks at
    stolen,                 \* the list it stole from the large bin, less the best fit
    block,                  \* the block it will return, or -1
    rest,                   \* [at, bytes]: the tail it still has to free
    alone                   \* history: no other thread moved during the call

vars == <<currentPtr, bins, header, allocated, pc, want, bin, stolen, block, rest, alone>>

\* What a caller leaves in the first bytes of its block.
Garbage == -1

NoRest == [at |-> 0, bytes |-> 0]

Init ==
    /\ currentPtr = 0
    /\ bins = [b \in Bins |-> <<>>]
    /\ header = [b \in Blocks |-> Garbage]
    /\ allocated = {}
    /\ pc = [t \in Threads |-> "idle"]
    /\ want = [t \in Threads |-> 0]
    /\ bin = [t \in Threads |-> 0]
    /\ stolen = [t \in Threads |-> <<>>]
    /\ block = [t \in Threads |-> -1]
    /\ rest = [t \in Threads |-> NoRest]
    /\ alone = [t \in Threads |-> TRUE]

Size(t) == BlockSizeFor(want[t])

Goto(t, from, to) == pc[t] = from /\ pc' = [pc EXCEPT ![t] = to]

\* t moves: no other call in progress is alone any more.
Moves(t) ==
    alone' = [u \in Threads |-> IF u = t THEN alone[t] ELSE pc[u] = "idle"]

Overlaps(at, n, b) == at <= b /\ b < at + n

\* Block at goes to the caller of t, who writes over whatever was there.
HandOut(t, at) ==
    /\ allocated' = allocated \cup {[at |-> at, bytes |-> want[t]]}
    /\ header' = [b \in Blocks |-> IF Overlaps(at, Size(t), b) THEN Garbage ELSE header[b]]

\* push_free: write the size, push on the bin of that size.
PushFree(at, size) ==
    /\ header' = [header EXCEPT ![at] = size]
    /\ bins' = [bins EXCEPT ![GetBin(size)] = <<at>> \o @]

-----------------------------------------------------------------------------
\* do_allocate

\* Requests that are refused before anything is read, larger than the arena or aligned more
\* strictly than a block, are not made.
AllocBegin(t) ==
    /\ Goto(t, "idle", "bump")
    /\ \E bytes \in {r \in RequestSizes : r <= ArenaEnd} : want' = [want EXCEPT ![t] = bytes]
    /\ alone' = [u \in Threads |->
                    IF u = t THEN \A v \in Threads \ {t} : pc[v] = "idle"
                             ELSE pc[u] = "idle"]
    /\ UNCHANGED <<currentPtr, bins, header, allocated, bin, stolen, block, rest>>

\* The bump loop: it ends with the load that finds too little room or with the
\* compare-exchange that moves the pointer; a failed exchange only loads again.
Bump(t) ==
    /\ Goto(t, "bump", "idle")
    /\ Size(t) <= ArenaEnd - currentPtr
    /\ HandOut(t, currentPtr)
    /\ currentPtr' = currentPtr + Size(t)
    /\ Moves(t)
    /\ UNCHANGED <<bins, want, bin, stolen, block, rest>>

BumpFails(t) ==
    /\ Goto(t, "bump", "bin")
    /\ Size(t) > ArenaEnd - currentPtr
    /\ bin' = [bin EXCEPT ![t] = GetBin(Size(t))]
    /\ Moves(t)
    /\ UNCHANGED <<currentPtr, bins, header, allocated, want, stolen, block, rest>>

\* A class bin: one pop; a block of a larger class leaves a tail to free.
PopBin(t) ==
    LET at == Head(bins[bin[t]]) IN
    /\ Goto(t, "bin", "split")
    /\ bin[t] # LargeBin /\ bins[bin[t]] # <<>>
    /\ bins' = [bins EXCEPT ![bin[t]] = Tail(@)]
    /\ block' = [block EXCEPT ![t] = at]
    /\ rest' = [rest EXCEPT ![t] =
                   [at |-> at + Size(t), bytes |-> ClassSize(bin[t]) - Size(t)]]
    /\ Moves(t)
    /\ UNCHANGED <<currentPtr, header, allocated, want, bin, stolen>>

NextBin(t) ==
    /\ pc[t] = "bin" /\ bin[t] # LargeBin /\ bins[bin[t]] = <<>>
    /\ bin' = [bin EXCEPT ![t] = @ + 1]
    /\ Moves(t)
    /\ UNCHANGED <<currentPtr, bins, header, allocated, pc, want, stolen, block, rest>>

\* The large bin: steal the list and find the first of the smallest that fit.
BestFit(list, n) ==
    LET fits == {i \in DOMAIN list : header[list[i]] >= n}
        best == {i \in fits : \A j \in fits : header[list[i]] <= header[list[j]]}
    IN  IF fits = {} THEN 0 ELSE Min(best)

StealLarge(t) ==
    LET list == bins[LargeBin]
        i    == BestFit(list, Size(t))
    IN
    /\ Goto(t, "bin", "giveBack")
    /\ bin[t] = LargeBin
    /\ bins' = [bins EXCEPT ![LargeBin] = <<>>]
    /\ IF i = 0
          THEN /\ stolen' = [stolen EXCEPT ![t] = list]
               /\ UNCHANGED <<block, rest>>
          ELSE /\ stolen' = [stolen EXCEPT ![t] =
                                SubSeq(list, 1, i - 1) \o SubSeq(list, i + 1, Len(list))]
               /\ block' = [block EXCEPT ![t] = list[i]]
               /\ rest' = [rest EXCEPT ![t] =
                     [at |-> list[i] + Size(t), bytes |-> header[list[i]] - Size(t)]]
    /\ Moves(t)
    /\ UNCHANGED <<currentPtr, header, allocated, want, bin>>

\* Stolen blocks return to the large bin one push at a time, headers untouched.
GiveBack(t) ==
    /\ pc[t] = "giveBack" /\ stolen[t] # <<>>
    /\ bins' = [bins EXCEPT ![LargeBin] = <<Head(stolen[t])>> \o @]
    /\ stolen' = [stolen EXCEPT ![t] = Tail(@)]
    /\ Moves(t)
    /\ UNCHANGED <<currentPtr, header, allocated, pc, want, bin, block, rest>>

GivenBack(t) ==
    /\ Goto(t, "giveBack", "split")
    /\ stolen[t] = <<>> /\ block[t] # -1
    /\ Moves(t)
    /\ UNCHANGED <<currentPtr, bins, header, allocated, want, bin, stolen, block, rest>>

\* do_allocate returns nullptr.
Refuse(t) ==
    /\ Goto(t, "giveBack", "idle")
    /\ stolen[t] = <<>> /\ block[t] = -1
    /\ Moves(t)
    /\ UNCHANGED <<currentPtr, bins, header, allocated, want, bin, stolen, block, rest>>

\* free_pieces: the largest class that still fits, or the whole tail.
PieceSizeWhole(bytes) == bytes

PieceSize(bytes) ==
    IF bytes > LargestClass THEN bytes ELSE Max({c \in ClassSizes : c <= bytes})

FreePiece(t) ==
    LET size == PieceSize(rest[t].bytes) IN
    /\ pc[t] = "split" /\ rest[t].bytes > 0
    /\ PushFree(rest[t].at, size)
    /\ rest' = [rest EXCEPT ![t] = [at |-> @.at + size, bytes |-> @.bytes - size]]
    /\ Moves(t)
    /\ UNCHANGED <<currentPtr, allocated, pc, want, bin, stolen, block>>

AllocEnd(t) ==
    /\ Goto(t, "split", "idle")
    /\ rest[t].bytes = 0
    /\ HandOut(t, block[t])
    /\ block' = [block EXCEPT ![t] = -1]
    /\ rest' = [rest EXCEPT ![t] = NoRest]
    /\ Moves(t)
    /\ UNCHANGED <<currentPtr, bins, want, bin, stolen>>

-----------------------------------------------------------------------------
\* do_deallocate of a block by any thread: the caller's bytes name the bin.

Deallocate(t) ==
    /\ pc[t] = "idle"
    /\ \E a \in allocated :
          /\ allocated' = allocated \ {a}
          /\ PushFree(a.at, BlockSizeFor(a.bytes))
    /\ Moves(t)
    /\ UNCHANGED <<currentPtr, pc, want, bin, stolen, block, rest>>

-----------------------------------------------------------------------------
AllocStep(t) ==
    \/ Bump(t) \/ BumpFails(t) \/ PopBin(t) \/ NextBin(t)
    \/ StealLarge(t) \/ GiveBack(t) \/ GivenBack(t) \/ Refuse(t)
    \/ FreePiece(t) \/ AllocEnd(t)

Next == \E t \in Threads : AllocBegin(t) \/ AllocStep(t) \/ Deallocate(t)

Spec == Init /\ [][Next]_vars

-----------------------------------------------------------------------------
TypeOK ==
    /\ currentPtr \in 0 .. ArenaEnd
    /\ DOMAIN bins = Bins /\ \A b \in Bins : \A i \in DOMAIN bins[b] : bins[b][i] \in Blocks
    /\ header \in [Blocks -> {Garbage} \cup 1 .. ArenaEnd]
    /\ \A a \in allocated : a.at \in Blocks /\ a.bytes \in RequestSizes
    /\ pc \in [Threads -> {"idle", "bump", "bin", "giveBack", "split"}]
    /\ want \in [Threads -> RequestSizes \cup {0}]
    /\ bin \in [Threads -> Bins]
    /\ block \in [Threads -> Blocks \cup {-1}]
    /\ \A t \in Threads : rest[t].at \in 0 .. ArenaEnd /\ rest[t].bytes \in 0 .. ArenaEnd

\* The extents of memory and where each is: with a caller, in a bin, or in the
\* hands of a thread between two steps.
Extent(at, size, kind, of) == [at |-> at, size |-> size, kind |-> kind, of |-> of]

FreeSize(b, at) == IF b = LargeBin THEN header[at] ELSE ClassSize(b)

InCall(a) == Extent(a.at, BlockSizeFor(a.bytes), "caller", a.bytes)
InBin(b) == {Extent(at, FreeSize(b, at), "bin", b) : at \in Range(bins[b])}
Stolen(t) == {Extent(at, header[at], "stolen", t) : at \in Range(stolen[t])}
InHand(t) == {e \in {Extent(block[t], Size(t), "block", t)} : block[t] # -1}
Leftover(t) == {e \in {Extent(rest[t].at, rest[t].bytes, "rest", t)} : rest[t].bytes > 0}

Extents ==
    {InCall(a) : a \in allocated} \cup (UNION {InBin(b) : b \in Bins})
    \cup UNION {Stolen(t) \cup InHand(t) \cup Leftover(t) : t \in Threads}

\* No list names a block twice.
ListedOnce ==
    /\ \A b \in Bins : IsInjective(bins[b])
    /\ \A t \in Threads : IsInjective(stolen[t])

\* Every block below the bump pointer is in exactly one place, and none above it:
\* allocations never overlap, whatever is split, stolen or freed by whom, and no
\* memory is lost for good (lines 160 to 163).
Partition ==
    LET extents == Extents
        Covering(b) == {e \in extents : Overlaps(e.at, e.size, b)}
    IN  /\ ListedOnce
        /\ \A b \in Blocks : Cardinality(Covering(b)) = IF b < currentPtr THEN 1 ELSE 0

Fitting(n) ==
    {b \in Bins : \E i \in DOMAIN bins[b] : FreeSize(b, bins[b][i]) >= n}

\* An allocation nobody interferes with returns nullptr only when neither the
\* bump pointer nor any bin has room for it.
RefusalIsDue ==
    \A t \in Threads : Refuse(t) /\ alone[t] =>
        Fitting(Size(t)) = {} /\ Size(t) > ArenaEnd - currentPtr
=============================================================================
