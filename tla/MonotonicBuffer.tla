-------------------------- MODULE MonotonicBuffer --------------------------
(***************************************************************************)
(* monotonic_buffer_resource: pieces are cut off a buffer, and off blocks  *)
(* of growing size from upstream once it is used up; nothing comes back    *)
(* before release.  Addresses and sizes have few bits, so that the         *)
(* arithmetic wraps where it could.                                        *)
(***************************************************************************)
EXTENDS Integers, FiniteSets, Sequences, FiniteSetsExt

CONSTANTS
    Modulus,            \* 2^w of size_t and of addresses
    HeaderSize,         \* sizeof(block_header): 16
    Setups,             \* constructions: [buffer, size, next, upstream]
    Requests,           \* pairs <<bytes, alignment>>
    Places,             \* where upstream has room, aligned for a header
    MaxHeld             \* bound: pieces callers hold

VARIABLES
    setup,              \* initial_buffer_, initial_buffer_size_, upstream_resource_
    current,            \* current_buffer_, or Null
    left,               \* current_buffer_size_
    nextSize,           \* next_buffer_size_
    blocks,             \* the list from allocated_blocks_head_, [at, size]
    lent,               \* external: what upstream has lent
    held                \* history: what callers hold, [at, size, alignment]

vars == <<setup, current, left, nextSize, blocks, lent, held>>

Null == -1
SizeMax == Modulus - 1

IsPowerOfTwo(n) == n \in {2 ^ k : k \in 0..7}

\* (at + alignment - 1) & ~(alignment - 1), and what it adds.
Aligned(at, alignment) ==
    LET up == (at + alignment - 1) % Modulus
    IN  up - (up % alignment)
Padding(at, alignment) == (Aligned(at, alignment) - at) % Modulus

Init ==
    /\ setup \in Setups
    /\ current = setup.buffer /\ left = setup.size /\ nextSize = setup.next
    /\ blocks = <<>> /\ lent = {} /\ held = {}

HandsOut(at, request) == held' = held \cup {[at |-> at, size |-> request[1], alignment |-> request[2]]}

FitsBuffer(request) ==
    LET padding == Padding(current, request[2])
    IN  current # Null /\ padding <= left /\ request[1] <= left - padding

\* Refused alike, whatever there is.
Sensible(request) == request[1] > 0 /\ IsPowerOfTwo(request[2])

FromBuffer(request) ==
    LET padding == Padding(current, request[2])
    IN  /\ Sensible(request) /\ FitsBuffer(request)
        /\ HandsOut(current + padding, request)
        /\ current' = (current + padding + request[1]) % Modulus
        /\ left' = left - padding - request[1]
        /\ UNCHANGED <<setup, nextSize, blocks, lent>>

\* The next size doubled until the request fits with header and padding.
GrownSize(request) ==
    LET required == request[1] + HeaderSize + request[2]
        first == IF nextSize > 0 THEN nextSize ELSE HeaderSize
        k == Min({j \in 0..7 : (first * 2 ^ j) % Modulus >= required})
    IN  (first * 2 ^ k) % Modulus

\* The size to start from next time; it is not doubled where that would wrap.
Doubled(size) == IF size <= SizeMax \div 4 THEN size * 2 ELSE size

Touch(a, b) == a.at < b.at + b.size /\ b.at < a.at + a.size
Own == [at |-> setup.buffer, size |-> setup.size]

\* Upstream is asked only where the sum cannot wrap, and may refuse: then nothing changes.
Grow(request) ==
    LET size == GrownSize(request)
    IN  /\ Sensible(request) /\ ~FitsBuffer(request)
        /\ setup.upstream
        /\ request[1] <= SizeMax \div 4 /\ request[2] <= SizeMax \div 4
        /\ \E at \in Places :
              LET block == [at |-> at, size |-> size]
                  start == at + HeaderSize
                  padding == Padding(start, request[2])
              IN  /\ at + size <= SizeMax
                  /\ \A other \in lent \cup {Own} : ~Touch(block, other)
                  /\ lent' = lent \cup {block}
                  /\ blocks' = <<block>> \o blocks
                  /\ nextSize' = Doubled(size)
                  /\ HandsOut(start + padding, request)
                  /\ current' = start + padding + request[1]
                  /\ left' = (size - HeaderSize - padding - request[1]) % Modulus
        /\ UNCHANGED setup

\* Every block goes back with its size, and the first buffer is used again.
Release ==
    /\ lent' = lent \ {blocks[i] : i \in DOMAIN blocks}
    /\ blocks' = <<>>
    /\ current' = setup.buffer /\ left' = setup.size
    /\ held' = {}
    /\ UNCHANGED <<setup, nextSize>>

\* do_deallocate does nothing.
Deallocate(piece) == held' = held \ {piece} /\ UNCHANGED <<setup, current, left, nextSize, blocks, lent>>

Next ==
    \/ \E request \in Requests :
          /\ Cardinality(held) < MaxHeld
          /\ FromBuffer(request) \/ Grow(request)
    \/ \E piece \in held : Deallocate(piece)
    \/ Release

Spec == Init /\ [][Next]_vars

-----------------------------------------------------------------------------
\* Memory that callers may use: the first buffer, and the blocks but for their headers.
Usable == {Own} \cup {[at |-> b.at + HeaderSize, size |-> b.size - HeaderSize] : b \in lent}

\* Every piece lies, aligned as asked, in memory the resource has at that time, and what
\* upstream lent is what the list will return (do_allocate and release, growth and wrapping
\* arithmetic included).
PiecesAreOwned ==
    /\ \A piece \in held :
          /\ piece.at % piece.alignment = 0
          /\ \E area \in Usable : area.at <= piece.at /\ piece.at + piece.size <= area.at + area.size
    /\ lent = {blocks[i] : i \in DOMAIN blocks}
    /\ nextSize > 0

Heap == INSTANCE AbstractHeap WITH Base <- 0, Limit <- Modulus

\* Callers hold disjoint pieces.
ImplementsHeap == Heap!Spec
=============================================================================
