---------------------------- MODULE BitblockSet ----------------------------
(***************************************************************************)
(* bitblock_set: a set of bits in words, acquired and released in runs.  A *)
(* run inside one word changes by one atomic step; a run over two words    *)
(* takes the first word, then the last, and undoes what it set when either *)
(* has a bit already taken.  Searches walk the words chunk by chunk.       *)
(*                                                                         *)
(* search_hint_ is left out: it picks the chunk a search starts at and any *)
(* thread overwrites it at any time, so a search here starts at any chunk. *)
(***************************************************************************)
EXTENDS Integers, FiniteSets, FiniteSetsExt, TLC

CONSTANTS
    Threads,
    WordBits,               \* BITS_PER_WORD, 64
    Size,                   \* SIZE_IN_BITS
    MaxRun                  \* the longest run a request names, 16

ASSUME SizesAssumption ==
    /\ WordBits \in Nat \ {0} /\ Size \in Nat \ {0}
    /\ MaxRun \in 1 .. WordBits + 1         \* a run spans two words at most

NumWords == (Size + WordBits - 1) \div WordBits
NumChunks == (NumWords + 1) \div 2
Bits == 0 .. 2 * NumChunks * WordBits - 1
Word(w) == w * WordBits .. (w + 1) * WordBits - 1

\* The bits past the end: set from the start, of nobody.
Tail == Size .. 2 * NumChunks * WordBits - 1

Run(start, n) == start .. start + n - 1
Runs == {r \in {Run(s, n) : s \in 0 .. Size - 1, n \in 1 .. MaxRun} : Max(r) < Size}

WordOf(b) == b \div WordBits
First(r) == r \cap Word(WordOf(Min(r)))
Last(r) == r \ First(r)
InOneWord(r) == Last(r) = {}

VARIABLES
    acquired,               \* words_: the bits that are set
    held,                   \* the runs somebody acquired and has not begun to release
    pc, run,                \* per thread: where it is, the run it works on
    undo,                   \* the bits it has to clear, or to set again
    chunk, left, word,      \* a search: the chunk, the chunks left after it, the word
    seen,                   \* the word as it last read it
    alone,                  \* history: no other thread moved during the search
    racers, wins, expected  \* history: threads releasing one run, how many of them
                            \* did, and how many should

searchVars == <<chunk, left, word, seen>>
raceVars == <<racers, wins, expected>>
vars == <<acquired, held, pc, run, undo, searchVars, alone, raceVars>>

Init ==
    /\ acquired = Tail
    /\ held = {}
    /\ pc = [t \in Threads |-> "idle"]
    /\ run = [t \in Threads |-> {}]
    /\ undo = [t \in Threads |-> {}]
    /\ chunk = [t \in Threads |-> 0]
    /\ left = [t \in Threads |-> 0]
    /\ word = [t \in Threads |-> 0]
    /\ seen = [t \in Threads |-> {}]
    /\ alone = [t \in Threads |-> TRUE]
    /\ racers = {} /\ wins = 0 /\ expected = 0

Goto(t, from, to) == pc[t] = from /\ pc' = [pc EXCEPT ![t] = to]

Idle(t) == pc[t] = "idle"

\* t moves: no other operation in progress is alone any more.
Moves(t) == alone' = [u \in Threads |-> IF u = t THEN alone[t] ELSE Idle(u)]

\* t forgets its operands at the end of a call.
Forget(t) == run' = [run EXCEPT ![t] = {}] /\ undo' = [undo EXCEPT ![t] = {}]

-----------------------------------------------------------------------------
\* acquire.  A request that finds a bit of its run taken and has set none itself
\* fails without a trace: such a call is not a step.

AcquireWord(t) ==
    /\ Idle(t) /\ racers = {}
    /\ \E r \in Runs :
          /\ InOneWord(r) /\ r \cap acquired = {}
          /\ acquired' = acquired \cup r
          /\ held' = held \cup {r}
    /\ Moves(t)
    /\ UNCHANGED <<pc, run, undo, searchVars, raceVars>>

\* What a failing fetch_or on the first word must clear again.
NewlySetAll(part, old) == part

NewlySetNone(part, old) == {}

NewlySet(part, old) == part \ old

AcquireFirst(t) ==
    /\ Idle(t) /\ racers = {}
    /\ \E r \in Runs :
          /\ ~InOneWord(r) /\ First(r) \cap acquired = {}
          /\ acquired' = acquired \cup First(r)
          /\ run' = [run EXCEPT ![t] = r]
    /\ pc' = [pc EXCEPT ![t] = "acquireLast"]
    /\ Moves(t)
    /\ UNCHANGED <<held, undo, searchVars, raceVars>>

AcquireFirstFails(t) ==
    /\ Idle(t) /\ racers = {}
    /\ \E r \in Runs :
          /\ ~InOneWord(r) /\ First(r) \cap acquired # {} /\ First(r) \ acquired # {}
          /\ acquired' = acquired \cup First(r)
          /\ undo' = [undo EXCEPT ![t] = NewlySet(First(r), acquired)]
    /\ pc' = [pc EXCEPT ![t] = "undoFirst"]
    /\ Moves(t)
    /\ UNCHANGED <<held, run, searchVars, raceVars>>

UndoFirst(t) ==
    /\ Goto(t, "undoFirst", "idle")
    /\ acquired' = acquired \ undo[t]
    /\ Forget(t) /\ Moves(t)
    /\ UNCHANGED <<held, searchVars, raceVars>>

AcquireLast(t) ==
    /\ Goto(t, "acquireLast", "idle")
    /\ Last(run[t]) \cap acquired = {}
    /\ acquired' = acquired \cup Last(run[t])
    /\ held' = held \cup {run[t]}
    /\ Forget(t) /\ Moves(t)
    /\ UNCHANGED <<searchVars, raceVars>>

AcquireLastFails(t) ==
    /\ Goto(t, "acquireLast", "undoLast")
    /\ Last(run[t]) \cap acquired # {}
    /\ acquired' = acquired \cup Last(run[t])
    /\ undo' = [undo EXCEPT ![t] = NewlySet(Last(run[t]), acquired)]
    /\ Moves(t)
    /\ UNCHANGED <<held, run, searchVars, raceVars>>

UndoLast(t) ==
    /\ Goto(t, "undoLast", "giveBack")
    /\ acquired' = acquired \ undo[t]
    /\ undo' = [undo EXCEPT ![t] = {}]
    /\ Moves(t)
    /\ UNCHANGED <<held, run, searchVars, raceVars>>

GiveBack(t) ==
    /\ Goto(t, "giveBack", "idle")
    /\ acquired' = acquired \ First(run[t])
    /\ Forget(t) /\ Moves(t)
    /\ UNCHANGED <<held, searchVars, raceVars>>

-----------------------------------------------------------------------------
\* release.  Its callers release runs they hold; now and then several release the
\* same run, or one a run that is not wholly set, and nobody else is there.

Releasing(t) == pc[t] \in {"releaseWord", "releaseFirst", "releaseLast"}

FirstReleaseStep(r) == IF InOneWord(r) THEN "releaseWord" ELSE "releaseFirst"

Release(t) ==
    /\ Idle(t) /\ racers = {}
    /\ \E r \in held :
          /\ held' = held \ {r}
          /\ run' = [run EXCEPT ![t] = r]
          /\ pc' = [pc EXCEPT ![t] = FirstReleaseStep(r)]
    /\ Moves(t)
    /\ UNCHANGED <<acquired, undo, searchVars, raceVars>>

ReleaseAgain(t) ==
    /\ Idle(t) /\ t \notin racers
    /\ \E u \in Threads :
          /\ Releasing(u)
          /\ \A v \in Threads : Idle(v) \/ (Releasing(v) /\ run[v] = run[u])
          /\ racers = {} \/ (u \in racers /\ expected = 1)
          /\ run' = [run EXCEPT ![t] = run[u]]
          /\ pc' = [pc EXCEPT ![t] = FirstReleaseStep(run[u])]
          /\ racers' = racers \cup {t, u}
          /\ wins' = IF racers = {} THEN 0 ELSE wins
    /\ expected' = 1
    /\ Moves(t)
    /\ UNCHANGED <<acquired, held, undo, searchVars>>

ReleaseUnheld(t) ==
    /\ \A u \in Threads : Idle(u)
    /\ racers = {}
    /\ \E r \in Runs :
          /\ ~(r \subseteq acquired)
          /\ run' = [run EXCEPT ![t] = r]
          /\ pc' = [pc EXCEPT ![t] = FirstReleaseStep(r)]
    /\ racers' = {t} /\ wins' = 0 /\ expected' = 0
    /\ Moves(t)
    /\ UNCHANGED <<acquired, held, undo, searchVars>>

\* t leaves the race it may be in.
ReleaseEnds(t, succeeded) ==
    /\ racers' = racers \ {t}
    /\ wins' = IF t \in racers /\ succeeded THEN wins + 1 ELSE wins
    /\ UNCHANGED expected
    /\ Forget(t) /\ Moves(t)

ReleaseWord(t) ==
    /\ Goto(t, "releaseWord", "idle")
    /\ run[t] \subseteq acquired
    /\ acquired' = acquired \ run[t]
    /\ ReleaseEnds(t, TRUE)
    /\ UNCHANGED <<held, searchVars>>

\* Whether the compare-exchange loop on the first word may clear it.
AllSetNoCheck(part) == TRUE

AllSet(part) == part \subseteq acquired

ReleaseFirst(t) ==
    /\ Goto(t, "releaseFirst", "releaseLast")
    /\ AllSet(First(run[t]))
    /\ acquired' = acquired \ First(run[t])
    /\ Moves(t)
    /\ UNCHANGED <<held, run, undo, searchVars, raceVars>>

ReleaseFails(t) ==
    /\ \/ Goto(t, "releaseWord", "idle") /\ ~(run[t] \subseteq acquired)
       \/ Goto(t, "releaseFirst", "idle") /\ ~AllSet(First(run[t]))
    /\ ReleaseEnds(t, FALSE)
    /\ UNCHANGED <<acquired, held, searchVars>>

ReleaseLast(t) ==
    /\ Goto(t, "releaseLast", "idle")
    /\ Last(run[t]) \subseteq acquired
    /\ acquired' = acquired \ Last(run[t])
    /\ ReleaseEnds(t, TRUE)
    /\ UNCHANGED <<held, searchVars>>

ReleaseLastFails(t) ==
    /\ Goto(t, "releaseLast", "restoreLast")
    /\ ~(Last(run[t]) \subseteq acquired)
    /\ acquired' = acquired \ Last(run[t])
    /\ undo' = [undo EXCEPT ![t] = acquired \cap Last(run[t])]
    /\ Moves(t)
    /\ UNCHANGED <<held, run, searchVars, raceVars>>

RestoreLast(t) ==
    /\ Goto(t, "restoreLast", "restoreFirst")
    /\ acquired' = acquired \cup undo[t]
    /\ undo' = [undo EXCEPT ![t] = {}]
    /\ Moves(t)
    /\ UNCHANGED <<held, run, searchVars, raceVars>>

RestoreFirst(t) ==
    /\ Goto(t, "restoreFirst", "idle")
    /\ acquired' = acquired \cup First(run[t])
    /\ ReleaseEnds(t, FALSE)
    /\ UNCHANGED <<held, searchVars>>

-----------------------------------------------------------------------------
\* acquire_first_available and acquire_first_available_contiguous: run[t] is
\* 0 .. n - 1 until the search has found where its n bits go.

Wanted(t) == Cardinality(run[t])

\* The starts of the free runs of n bits inside a word that reads bits.
Starts(w, bits, n) == {s \in Word(w) : Run(s, n) \subseteq Word(w) \ bits}

Content(w) == acquired \cap Word(w)

IsFull(w) == Word(w) \subseteq acquired

SearchBegin(t) ==
    /\ Goto(t, "idle", "chunk") /\ racers = {}
    /\ \E n \in 1 .. MaxRun : n <= WordBits /\ run' = [run EXCEPT ![t] = Run(0, n)]
    /\ \E c \in 0 .. NumChunks - 1 : chunk' = [chunk EXCEPT ![t] = c]
    /\ left' = [left EXCEPT ![t] = NumChunks - 1]
    /\ alone' = [u \in Threads |->
                    IF u = t THEN \A v \in Threads \ {t} : Idle(v) ELSE Idle(u)]
    /\ UNCHANGED <<acquired, held, undo, word, seen, raceVars>>

InChunkFirstOnly(t, w) == w = 2 * chunk[t]

InChunk(t, w) == w \div 2 = chunk[t] /\ w < NumWords

\* The search goes on with word w, or with the next chunk once w is past this one.
LookAt(t, w) ==
    IF InChunk(t, w)
       THEN /\ pc' = [pc EXCEPT ![t] = "load"]
            /\ word' = [word EXCEPT ![t] = w]
            /\ UNCHANGED <<chunk, left>>
       ELSE /\ left[t] > 0
            /\ pc' = [pc EXCEPT ![t] = "chunk"]
            /\ chunk' = [chunk EXCEPT ![t] = (@ + 1) % NumChunks]
            /\ left' = [left EXCEPT ![t] = @ - 1]
            /\ word' = [word EXCEPT ![t] = 0]

\* scan_chunk_is_full reads the two words of a chunk one after the other.
ChunkCheck(t) ==
    /\ \/ /\ pc[t] = "chunk" /\ IsFull(2 * chunk[t])
          /\ pc' = [pc EXCEPT ![t] = "chunk2"]
          /\ UNCHANGED <<chunk, left, word>>
       \/ /\ \/ pc[t] = "chunk" /\ ~IsFull(2 * chunk[t])
             \/ pc[t] = "chunk2" /\ ~IsFull(2 * chunk[t] + 1)
          /\ LookAt(t, 2 * chunk[t])
       \/ /\ pc[t] = "chunk2" /\ IsFull(2 * chunk[t] + 1)
          /\ LookAt(t, 2 * chunk[t] + 2)
    /\ Moves(t)
    /\ UNCHANGED <<acquired, held, run, undo, seen, raceVars>>

Load(t) ==
    /\ pc[t] = "load"
    /\ IF Starts(word[t], Content(word[t]), Wanted(t)) # {}
          THEN /\ pc' = [pc EXCEPT ![t] = "take"]
               /\ seen' = [seen EXCEPT ![t] = Content(word[t])]
               /\ UNCHANGED <<chunk, left, word>>
          ELSE LookAt(t, word[t] + 1) /\ UNCHANGED seen
    /\ Moves(t)
    /\ UNCHANGED <<acquired, held, run, undo, raceVars>>

\* The run that the search saw free.
Found(t) == Run(Min(Starts(word[t], seen[t], Wanted(t))), Wanted(t))

\* One bit is taken by a fetch_or, which only needs that bit; a longer run by a
\* compare-exchange of the whole word.
CanTake(t) ==
    IF Wanted(t) = 1 THEN Found(t) \cap acquired = {} ELSE Content(word[t]) = seen[t]

Take(t) ==
    /\ Goto(t, "take", "idle")
    /\ CanTake(t)
    /\ acquired' = acquired \cup Found(t)
    /\ held' = held \cup {Found(t)}
    /\ seen' = [seen EXCEPT ![t] = {}]
    /\ Forget(t) /\ Moves(t)
    /\ UNCHANGED <<chunk, left, word, raceVars>>

TakeFails(t) ==
    /\ Goto(t, "take", "load")
    /\ ~CanTake(t)
    /\ seen' = [seen EXCEPT ![t] = {}]
    /\ Moves(t)
    /\ UNCHANGED <<acquired, held, run, undo, chunk, left, word, raceVars>>

\* The last word of the last chunk had no run either: the search returns nothing.
SearchFails(t) ==
    /\ left[t] = 0
    /\ \/ pc[t] = "chunk2" /\ IsFull(2 * chunk[t] + 1)
       \/ /\ pc[t] = "load" /\ Starts(word[t], Content(word[t]), Wanted(t)) = {}
          /\ ~InChunk(t, word[t] + 1)
    /\ pc' = [pc EXCEPT ![t] = "idle"]
    /\ Forget(t) /\ Moves(t)
    /\ UNCHANGED <<acquired, held, searchVars, raceVars>>

-----------------------------------------------------------------------------
Step(t) ==
    \/ AcquireWord(t) \/ AcquireFirst(t) \/ AcquireFirstFails(t) \/ UndoFirst(t)
    \/ AcquireLast(t) \/ AcquireLastFails(t) \/ UndoLast(t) \/ GiveBack(t)
    \/ Release(t) \/ ReleaseAgain(t) \/ ReleaseUnheld(t)
    \/ ReleaseWord(t) \/ ReleaseFirst(t) \/ ReleaseFails(t)
    \/ ReleaseLast(t) \/ ReleaseLastFails(t) \/ RestoreLast(t) \/ RestoreFirst(t)
    \/ SearchBegin(t) \/ ChunkCheck(t) \/ Load(t) \/ Take(t) \/ TakeFails(t) \/ SearchFails(t)

Next == \E t \in Threads : Step(t)

Spec == Init /\ [][Next]_vars

-----------------------------------------------------------------------------
TypeOK ==
    /\ acquired \in SUBSET Bits /\ held \in SUBSET Runs
    /\ pc \in [Threads -> {"idle", "acquireLast", "undoFirst", "undoLast", "giveBack",
                           "releaseWord", "releaseFirst", "releaseLast", "restoreLast",
                           "restoreFirst", "chunk", "chunk2", "load", "take"}]
    /\ \A t \in Threads : run[t] \in Runs \cup {{}} \/ \E n \in 1 .. MaxRun : run[t] = Run(0, n)
    /\ undo \in [Threads -> SUBSET Bits] /\ seen \in [Threads -> SUBSET Bits]
    /\ chunk \in [Threads -> 0 .. NumChunks - 1]
    /\ left \in [Threads -> 0 .. NumChunks - 1]
    /\ word \in [Threads -> 0 .. NumWords - 1]
    /\ racers \in SUBSET Threads

\* The bits that are set on behalf of an operation in progress.
InHand(t) ==
    CASE pc[t] = "acquireLast"                      -> First(run[t])
      [] pc[t] = "undoFirst"                        -> undo[t]
      [] pc[t] = "undoLast"                         -> undo[t] \cup First(run[t])
      [] pc[t] = "giveBack"                         -> First(run[t])
      [] pc[t] \in {"releaseWord", "releaseFirst"}  -> run[t]
      [] pc[t] = "releaseLast"                      -> Last(run[t])
      [] OTHER                                      -> {}

\* Every bit that is set belongs to exactly one run held, one operation still
\* working on it, or the tail: no two callers own a bit, and a failed or undone
\* call strands none ("orphan bits", test lines 432 to 480).
Accounted ==
    /\ TypeOK
    /\ racers = {} =>
       /\ acquired = (Tail \cup UNION held) \cup UNION {InHand(t) : t \in Threads}
       /\ \A r, s \in held : r # s => r \cap s = {}
       /\ \A t \in Threads : InHand(t) \cap (Tail \cup UNION held) = {}
       /\ \A t, u \in Threads : t # u => InHand(t) \cap InHand(u) = {}

\* However many threads release one run at once, one of them succeeds (test lines
\* 497 to 499); of a run that is not wholly acquired, none does.
OneRaceWinner == wins <= expected /\ (racers = {} => wins = expected)

\* Whoever holds a run can release it: no undo or restore of another thread ever
\* takes its bits away, even for a moment.
HolderCanRelease ==
    [][\A t \in Threads : ReleaseFails(t) \/ ReleaseLastFails(t) => t \in racers]_vars

\* A search that nobody interferes with finds a free run if a word has one.
SearchFailsOnlyWhenNone ==
    [][\A t \in Threads : SearchFails(t) /\ alone[t] =>
          \A w \in 0 .. NumWords - 1 : Starts(w, Content(w), Wanted(t)) = {}]_vars

\* Threads have no order.
Symmetry == Permutations(Threads)
=============================================================================
