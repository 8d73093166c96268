--------------------------- MODULE RandomEngines ---------------------------
(***************************************************************************)
(* The random engines (include/__random): the xor-shift engine that        *)
(* threads share, whose single-threaded twin takes the same steps, and     *)
(* xoroshiro128_plus_plus, whose fork gives away a stretch of its sequence *)
(* and jumps over it.                                                      *)
(*                                                                         *)
(* A word is a set of bits, so that exclusive or is symmetric difference.  *)
(* The shifts, the width and the jump polynomial are scaled down together. *)
(***************************************************************************)
EXTENDS Integers, FiniteSets, Sequences, SequencesExt

CONSTANTS
    Threads,
    W,                  \* bits of a word: 64
    Shifts,             \* of the xor-shift engine: <<13, 7, 17>>
    Rotations,          \* of xoroshiro: <<49, 21, 28>>
    Jump,               \* the bits of JUMP, numbered through its two words
    Stretch,            \* the steps a fork skips: 2^64
    DefaultSeed,        \* words, not empty
    Seeds,              \* words a caller seeds with
    MaxDraws,           \* bound: draws after a seed, below the period
    MaxSeeds, MaxForks  \* bounds

VARIABLES
    state,              \* rng_state_
    pc,                 \* of each thread: "idle" or "cas"
    initialState,       \* its initial_state
    drawn,              \* history: what was returned since the last seed
    seeded,             \* history: how often the engine was seeded
    twice,              \* history: a value was returned again
    engine,             \* the xoroshiro engine: [low, high]
    forks,              \* history: where each fork starts, in order
    zeroWords           \* history: a caller seeded the engine with the two words 0

sharedVars == <<state, pc, initialState, drawn, seeded, twice>>
engineVars == <<engine, forks, zeroWords>>

Bits == 0..(W - 1)
Words == SUBSET Bits

Xor(x, y) == (x \ y) \cup (y \ x)
ShiftLeft(x, k) == {b + k : b \in x} \cap Bits
ShiftRight(x, k) == {b - k : b \in x} \cap Bits
Rotate(x, k) == {(b + k) % W : b \in x}

-----------------------------------------------------------------------------
(* The shared engine                                                       *)

\* One xor-shift step; the single-threaded engine takes it in place.
NextValue(x) ==
    LET x1 == Xor(x, ShiftLeft(x, Shifts[1]))
        x2 == Xor(x1, ShiftRight(x1, Shifts[2]))
    IN  Xor(x2, ShiftLeft(x2, Shifts[3]))

\* A seed of zero would stay zero for ever.
Seeded(w) == IF w = {} THEN DefaultSeed ELSE w

SharedInit ==
    /\ state \in {Seeded(w) : w \in Seeds}
    /\ pc = [t \in Threads |-> "idle"]
    /\ initialState = [t \in Threads |-> {}]
    /\ drawn = {} /\ seeded = 0 /\ twice = FALSE

Load(t) ==
    /\ pc[t] = "idle"
    /\ Cardinality(drawn) + Cardinality({u \in Threads : pc[u] = "cas"}) < MaxDraws
    /\ initialState' = [initialState EXCEPT ![t] = state]
    /\ pc' = [pc EXCEPT ![t] = "cas"]
    /\ UNCHANGED <<state, drawn, seeded, twice>>

CompareExchange(t) ==
    /\ pc[t] = "cas"
    /\ state = initialState[t]
    /\ LET next == NextValue(initialState[t])
       IN  /\ state' = next
           /\ twice' = (twice \/ next \in drawn)
           /\ drawn' = drawn \cup {next}
    /\ pc' = [pc EXCEPT ![t] = "idle"]
    /\ UNCHANGED <<initialState, seeded>>

\* It failed, perhaps spuriously, and loaded what is there.
Retry(t) ==
    /\ pc[t] = "cas"
    /\ initialState' = [initialState EXCEPT ![t] = state]
    /\ UNCHANGED <<state, pc, drawn, seeded, twice>>

Seed(w) ==
    /\ seeded < MaxSeeds
    /\ state' = Seeded(w)
    /\ drawn' = {} /\ twice' = FALSE
    /\ seeded' = seeded + 1
    /\ UNCHANGED <<pc, initialState>>

SharedNext ==
    \/ \E t \in Threads : Load(t) \/ CompareExchange(t) \/ Retry(t)
    \/ \E w \in Seeds : Seed(w)

-----------------------------------------------------------------------------
(* Xoroshiro                                                               *)

NextEngine(e) ==
    LET s1 == Xor(e.high, e.low)
    IN  [low |-> Xor(Xor(Rotate(e.low, Rotations[1]), s1), ShiftLeft(s1, Rotations[2])),
         high |-> Rotate(s1, Rotations[3])]

\* The states of the next steps, the present one first.
Ahead(e, steps) ==
    FoldLeft(LAMBDA states, i : Append(states, NextEngine(states[i])), <<e>>, [i \in 1..steps |-> i])

ZeroState == [low |-> {}, high |-> {}]

\* Seeding from a SeedSequence: the only way that looks at both words.
SeededBySequence(low, high) ==
    IF low = {} /\ high = {} THEN [low |-> DefaultSeed, high |-> DefaultSeed] ELSE [low |-> low, high |-> high]

\* Seeding from one word, or from none.
SeededByWord(w) == [low |-> Seeded(w), high |-> DefaultSeed]

\* Seeding from a seed_type, which may be a state saved before: it is stored as it is.
SeededByState(low, high) == [low |-> low, high |-> high]

\* A constructor, or the seed that starts the engine anew.
EngineInit ==
    /\ forks = <<>>
    /\ \E l, h \in Seeds :
          \/ engine \in {SeededBySequence(l, h), SeededByWord(l)} /\ zeroWords = FALSE
          \/ engine = SeededByState(l, h) /\ zeroWords = (l = {} /\ h = {})

Draw ==
    /\ engine' = NextEngine(engine)
    /\ forks = <<>>
    /\ UNCHANGED <<forks, zeroWords>>

\* The sum of the states JUMP selects, on the way through its bits.
Jumped(e) ==
    LET states == Ahead(e, 2 * W)
        selected == SelectSeq([i \in 1..(2 * W) |-> i - 1], LAMBDA i : i \in Jump)
    IN  FoldLeft(LAMBDA sum, i : [low |-> Xor(sum.low, states[i + 1].low),
                                  high |-> Xor(sum.high, states[i + 1].high)],
                 ZeroState, selected)

Fork ==
    /\ Len(forks) < MaxForks
    /\ forks' = Append(forks, engine)
    /\ engine' = Jumped(engine)
    /\ UNCHANGED zeroWords

EngineNext == Draw \/ Fork

-----------------------------------------------------------------------------
\* The two engines share nothing: a behaviour is about one of them.
SharedSpec == SharedInit /\ [][SharedNext]_sharedVars
EngineSpec == EngineInit /\ [][EngineNext]_engineVars

\* Threads that draw from one engine never get the same number, also when they meet in the
\* compare-exchange, unless somebody seeds it anew; and the engine never gets stuck at zero
\* (fast_lockfree_low_quality_rng::operator()).
NumbersAreDistinct == ~twice /\ state # {}

\* Engines forked from one parent share no state within the stretch each was given, and none
\* gets to the all-zero state, in which it would stay, unless a caller seeded the parent with
\* these very words; a SeedSequence or a word that is zero does not put it there
\* (xoroshiro128_plus_plus::fork, next_value_internal and the constructors and seeds).
StreamsAreDisjoint ==
    /\ engine = ZeroState => zeroWords
    /\ ~zeroWords =>
          \A i, j \in DOMAIN forks : i # j =>
             ToSet(Ahead(forks[i], Stretch - 1)) \cap ToSet(Ahead(forks[j], Stretch - 1)) = {}
=============================================================================
