------------------------- MODULE BitblockSet_proofs -------------------------
(***************************************************************************)
(* What holds of BitblockSet for any number of threads, any size of the    *)
(* words and of the set, and any longest run.  While no run is released    *)
(* twice, every bit has one owner (Calm).  A race for one run ends in that *)
(* state again: Race lists the five states it goes through.                *)
(***************************************************************************)
EXTENDS BitblockSet, FiniteSetTheorems, TLAPS

USE SizesAssumption

-----------------------------------------------------------------------------
\* The bits of nobody and of the runs that are held.
Base == Tail \cup UNION held

TypeInv ==
    /\ TypeOK
    /\ run \in [Threads -> SUBSET Nat]
    /\ wins \in {0, 1} /\ expected \in {0, 1}

SecondHalf == {"acquireLast", "undoLast", "giveBack", "releaseFirst", "releaseLast",
               "restoreLast", "restoreFirst"}
Searching == {"chunk", "chunk2", "load", "take"}

\* What each place of the code knows of the operands of the call.
ControlOf(t) ==
    /\ pc[t] = "idle" => run[t] = {} /\ undo[t] = {}
    /\ pc[t] \in SecondHalf => run[t] \in Runs /\ ~InOneWord(run[t])
    /\ pc[t] = "releaseWord" => run[t] \in Runs /\ InOneWord(run[t])
    /\ pc[t] \in Searching => \E n \in 1 .. MaxRun : run[t] = Run(0, n)
    /\ pc[t] = "take" => Starts(word[t], seen[t], Wanted(t)) # {}
    /\ pc[t] = "undoLast" => undo[t] \subseteq Last(run[t])

Control == \A t \in Threads : ControlOf(t)

HeldApart == \A r, s \in held : r # s => r \cap s = {}

\* Every bit that is set has one owner.
Balanced ==
    /\ acquired = Base \cup UNION {InHand(t) : t \in Threads}
    /\ \A t \in Threads : InHand(t) \cap Base = {}
    /\ \A t, u \in Threads : t # u => InHand(t) \cap InHand(u) = {}

\* Nobody releases a run that another thread releases.
Calm ==
    /\ Balanced /\ wins = expected
    /\ \A t \in Threads : pc[t] \notin {"restoreLast", "restoreFirst"}

\* The threads that have cleared the first word of their run.
Cleared == {t \in Threads : pc[t] \in {"releaseLast", "restoreLast", "restoreFirst"}}

\* A release of a run that is not wholly set: it fails and leaves the bits as they were.
UnheldRace(t) ==
    LET F == First(run[t])  L == Last(run[t]) IN
    /\ racers = {t} /\ wins = 0 /\ ~(run[t] \subseteq Base)
    /\ \/ pc[t] \in {"releaseWord", "releaseFirst"} /\ acquired = Base
       \/ F \subseteq Base /\ pc[t] = "releaseLast" /\ acquired = Base \ F
       \/ F \subseteq Base /\ pc[t] = "restoreLast" /\ acquired = (Base \ F) \ L /\ undo[t] = Base \cap L
       \/ F \subseteq Base /\ pc[t] = "restoreFirst" /\ acquired = Base \ F

\* Several releases of the run r.  When the race began its first word may have been cleared
\* already, and acquired again: then a second thread may clear it, and will set it again.
SameRunRace(r) ==
    LET F == First(r)  L == Last(r) IN
    /\ \A t \in racers :
        /\ run[t] = r
        /\ pc[t] \in IF InOneWord(r) THEN {"releaseWord"}
                        ELSE {"releaseFirst", "releaseLast", "restoreLast", "restoreFirst"}
        /\ pc[t] \in {"restoreLast", "restoreFirst"} => wins = 1
        /\ pc[t] = "restoreLast" => undo[t] = {}
    /\ L \cap Base = {} /\ (InOneWord(r) => F \cap Base = {})
    /\ \/ /\ wins = 0 /\ Cleared = {}
          /\ F \cap Base = {} /\ acquired = Base \cup r
       \/ /\ wins = 0 /\ \E t \in Threads : Cleared = {t}
          /\ acquired = Base \cup L
       \/ /\ wins = 0 /\ \E t, u \in Threads : t # u /\ Cleared = {t, u}
          /\ F \subseteq Base /\ acquired = (Base \ F) \cup L
       \/ /\ wins = 1 /\ \E t \in Threads : Cleared = {t}
          /\ F \subseteq Base /\ acquired = Base \ F
       \/ /\ wins = 1 /\ Cleared = {}
          /\ acquired = Base

Race ==
    /\ \A t \in Threads \ racers : Idle(t)
    /\ \/ expected = 0 /\ \E t \in Threads : UnheldRace(t)
       \/ expected = 1 /\ \E r \in Runs : SameRunRace(r)

IInv ==
    /\ TypeInv /\ Control /\ HeldApart
    /\ racers = {} => Calm
    /\ racers # {} => Race

-----------------------------------------------------------------------------
\* Runs, words and halves.

LEMMA LeastNatural ==
    ASSUME NEW T, T \subseteq Nat, T # {}
    PROVE  Min(T) \in T /\ \A n \in T : Min(T) <= n
<1> DEFINE R == OpToRel(<, Nat)
<1>1. \A m, n \in T : n < m => <<n, m>> \in R
  BY DEF OpToRel
<1>2. IsWellFoundedOn(R, Nat)
  BY NatLessThanWellFounded
<1> HIDE DEF R
<1>3. \E m \in T : \A n \in T : ~(<<n, m>> \in R)
  BY <1>2, WFMin
<1>4. \A m, n \in T : m \in Int /\ n \in Int /\ (m <= n \/ n < m)
  OBVIOUS
<1>5. \E m \in T : \A n \in T : m <= n
  BY <1>1, <1>3, <1>4, Zenon
<1> QED
  BY <1>5 DEF Min

\* A bit is in the word its number names.
LEMMA BitInWord ==
    ASSUME NEW b \in Nat
    PROVE  WordOf(b) \in Nat /\ b \in Word(WordOf(b))
BY DEF WordOf, Word

\* The words of the chunks cover the set.
LEMMA SetInWords ==
    /\ NumWords \in Nat \ {0} /\ NumChunks \in Nat \ {0}
    /\ NumWords <= 2 * NumChunks /\ Size <= NumWords * WordBits
    /\ Size <= 2 * NumChunks * WordBits
<1>1. NumWords \in Nat \ {0} /\ Size <= NumWords * WordBits
  BY DEF NumWords
<1>2. NumChunks \in Nat \ {0} /\ NumWords <= 2 * NumChunks
  BY <1>1 DEF NumChunks
<1>3. NumWords * WordBits <= 2 * NumChunks * WordBits
  BY <1>1, <1>2
<1> QED
  BY <1>1, <1>2, <1>3

LEMMA RunBounds ==
    ASSUME NEW s \in Nat, NEW n \in Nat \ {0}
    PROVE  Min(Run(s, n)) = s /\ Max(Run(s, n)) = s + n - 1
<1>1. \A b : b \in Run(s, n) <=> b \in Nat /\ s <= b /\ b < s + n
  BY DEF Run
<1>2. s \in Run(s, n) /\ s + n - 1 \in Run(s, n)
  BY <1>1
<1>3. \A b \in Run(s, n) : b \in Nat /\ s <= b /\ b <= s + n - 1
  BY <1>1
<1>4. Min(Run(s, n)) = s
  BY <1>2, <1>3 DEF Min
<1>5. Max(Run(s, n)) = s + n - 1
  BY <1>2, <1>3 DEF Max
<1> QED
  BY <1>4, <1>5

\* A run lies inside the set and has a first part; the last part is the rest of it.
LEMMA RunFacts ==
    ASSUME NEW r \in Runs
    PROVE  /\ r \subseteq Bits /\ r \cap Tail = {} /\ r \subseteq Nat
           /\ First(r) # {} /\ First(r) \subseteq r /\ Last(r) = r \ First(r)
<1>1. PICK s \in 0 .. Size - 1, n \in 1 .. MaxRun : r = Run(s, n) /\ Max(r) < Size
  BY DEF Runs
<1>2. s \in Nat /\ n \in Nat \ {0}
  OBVIOUS
<1>3. s + n - 1 < Size /\ Min(r) = s
  BY <1>1, <1>2, RunBounds
<1>4. s \in r /\ r \subseteq 0 .. Size - 1
  BY <1>1, <1>3 DEF Run
<1>5. s \in First(r)
  BY <1>2, <1>3, <1>4, BitInWord DEF First
<1>6. r \subseteq Bits /\ r \cap Tail = {} /\ r \subseteq Nat
  BY <1>4, SetInWords DEF Bits, Tail
<1> QED
  BY <1>5, <1>6 DEF First, Last

LEMMA RunIsWanted ==
    ASSUME NEW n \in 1 .. MaxRun
    PROVE  Run(0, n) \subseteq Nat /\ IsFiniteSet(Run(0, n)) /\ Cardinality(Run(0, n)) = n
<1>1. Run(0, n) = 0 .. n - 1 /\ 0 \in Int /\ n - 1 \in Int /\ n \in Nat \ {0}
  BY DEF Run
<1>2. IsFiniteSet(0 .. n - 1) /\ Cardinality(0 .. n - 1) = n
  BY <1>1, FS_Interval
<1> QED
  BY <1>1, <1>2

\* What a search takes is a run of the set, and free at that moment.
LEMMA FoundFacts ==
    ASSUME TypeInv, Control, Balanced, NEW t \in Threads, pc[t] = "take", CanTake(t)
    PROVE  Found(t) \in Runs /\ Found(t) \cap acquired = {}
<1> DEFINE w == word[t]
           S == Starts(w, seen[t], Wanted(t))
<1>1. PICK n \in 1 .. MaxRun : run[t] = Run(0, n)
  BY DEF Control, ControlOf, Searching
<1>2. Wanted(t) = n
  BY <1>1, RunIsWanted DEF Wanted
<1>3. w \in Nat /\ w < NumWords /\ WordBits \in Nat
  BY SetInWords DEF TypeInv, TypeOK
<1>4. S \subseteq Nat /\ S # {}
  BY <1>3 DEF Control, ControlOf, Starts, Word
<1>5. PICK s \in S : s = Min(S)
  BY <1>4, LeastNatural
<1>6. Found(t) = Run(s, n) /\ Run(s, n) \subseteq Word(w) \ seen[t] /\ s \in Nat
  BY <1>2, <1>4, <1>5 DEF Found, Starts
<1>7. Found(t) \cap acquired = {}
  <2>1. CASE Wanted(t) = 1
    BY <2>1 DEF CanTake
  <2>2. CASE Wanted(t) # 1
    BY <1>6, <2>2 DEF CanTake, Content
  <2> QED
    BY <2>1, <2>2
<1>8. Found(t) \subseteq Bits
  <2>1. (w + 1) * WordBits <= 2 * NumChunks * WordBits
    <3>1. w + 1 <= 2 * NumChunks /\ 2 * NumChunks \in Nat
      BY <1>3, SetInWords
    <3> QED
      BY <1>3, <3>1
  <2>2. Word(w) \subseteq Bits
    BY <1>3, <2>1, SetInWords DEF Word, Bits
  <2> QED
    BY <1>6, <2>2
<1>9. Found(t) \cap Tail = {}
  BY <1>7 DEF Balanced, Base
<1>10. s \in Found(t) /\ s + n - 1 \in Found(t) /\ Max(Found(t)) = s + n - 1
  BY <1>6, RunBounds DEF Run
<1>11. s + n - 1 < Size
  BY <1>8, <1>9, <1>10 DEF Tail, Bits
<1> QED
  BY <1>6, <1>7, <1>10, <1>11 DEF Runs

-----------------------------------------------------------------------------
\* How a step of t changes what bits belong to whom, as long as every bit has one owner.

\* The bits t works on change.
LEMMA HandChanges ==
    ASSUME Balanced, HeldApart, NEW t \in Threads, UNCHANGED held,
           \A u \in Threads \ {t} : InHand(u)' = InHand(u),
           NEW M, M = InHand(t), NEW N, N = InHand(t)',
           (N \ M) \cap acquired = {}, acquired' = (acquired \ M) \cup N
    PROVE  Balanced' /\ HeldApart'
<1> DEFINE Others == Base \cup UNION {InHand(u) : u \in Threads \ {t}}
<1>1. Base' = Base
  BY DEF Base
<1>2. acquired = Others \cup M /\ M \cap Others = {}
  BY DEF Balanced
<1>3. acquired' = Others \cup N /\ N \cap Others = {}
  BY <1>2
<1>4. acquired' = Base' \cup UNION {InHand(u)' : u \in Threads}
  BY <1>1, <1>3
<1>5. \A u \in Threads : InHand(u)' \cap Base' = {}
  BY <1>1, <1>3 DEF Balanced
<1>6. \A u, v \in Threads : u # v => InHand(u)' \cap InHand(v)' = {}
  BY <1>3 DEF Balanced
<1> QED
  BY <1>4, <1>5, <1>6 DEF Balanced, HeldApart

\* The run r becomes held, and t works on nothing any more.
LEMMA RunTaken ==
    ASSUME Balanced, HeldApart, NEW t \in Threads, NEW r \in Runs,
           held' = held \cup {r}, InHand(t)' = {}, InHand(t) \subseteq r,
           \A u \in Threads \ {t} : InHand(u)' = InHand(u),
           (r \ InHand(t)) \cap acquired = {}, acquired' = acquired \cup r
    PROVE  Balanced' /\ HeldApart'
<1> DEFINE Others == UNION {InHand(u) : u \in Threads \ {t}}
<1>1. Base' = Base \cup r
  BY DEF Base
<1>2. acquired = Base \cup Others \cup InHand(t) /\ InHand(t) \cap (Base \cup Others) = {}
  BY DEF Balanced
<1>3. r \cap (Base \cup Others) = {}
  BY <1>2
<1>4. acquired' = Base' \cup UNION {InHand(u)' : u \in Threads}
  BY <1>1, <1>2
<1>5. \A u \in Threads : InHand(u)' \cap Base' = {}
  BY <1>1, <1>3 DEF Balanced
<1>6. \A u, v \in Threads : u # v => InHand(u)' \cap InHand(v)' = {}
  BY DEF Balanced
<1>7. HeldApart'
  BY <1>3 DEF HeldApart, Base
<1> QED
  BY <1>4, <1>5, <1>6, <1>7 DEF Balanced

\* A run that was held becomes the bits t works on.
LEMMA RunGivenUp ==
    ASSUME Balanced, HeldApart, NEW t \in Threads, NEW r \in held, r \in Runs,
           held' = held \ {r}, InHand(t)' = r, InHand(t) = {},
           \A u \in Threads \ {t} : InHand(u)' = InHand(u), UNCHANGED acquired
    PROVE  Balanced' /\ HeldApart'
<1>1. Base = Base' \cup r /\ Base' \cap r = {}
  BY RunFacts DEF Base, HeldApart
<1>2. acquired' = Base' \cup UNION {InHand(u)' : u \in Threads}
  <2>1. UNION {InHand(u)' : u \in Threads} = r \cup UNION {InHand(u) : u \in Threads}
    OBVIOUS
  <2> QED
    BY <1>1, <2>1 DEF Balanced
<1>3. \A u \in Threads : InHand(u)' \cap Base' = {}
  BY <1>1 DEF Balanced
<1>4. \A u, v \in Threads : u # v => InHand(u)' \cap InHand(v)' = {}
  BY <1>1 DEF Balanced
<1> QED
  BY <1>2, <1>3, <1>4 DEF Balanced, HeldApart

-----------------------------------------------------------------------------
\* What a step of t leaves alone.

\* All but t are where they were, with the operands they had.
OnlyMoves(t) ==
    \A u \in Threads \ {t} : /\ pc'[u] = pc[u] /\ run'[u] = run[u] /\ undo'[u] = undo[u]
                             /\ word'[u] = word[u] /\ seen'[u] = seen[u]

LEMMA OthersKept ==
    ASSUME Control, NEW t \in Threads, OnlyMoves(t)
    PROVE  /\ \A u \in Threads \ {t} : InHand(u)' = InHand(u)
           /\ ControlOf(t)' => Control'
<1>1. \A u \in Threads \ {t} : ControlOf(u)'
  BY DEF OnlyMoves, Control, ControlOf, Wanted
<1>2. \A u \in Threads \ {t} : InHand(u)' = InHand(u)
  BY DEF OnlyMoves, InHand
<1> QED
  BY <1>1, <1>2 DEF Control

\* During a race only the racers do anything, and they release.
LEMMA RacersRelease ==
    ASSUME IInv, racers # {}, NEW t \in Threads
    PROVE  /\ t \notin racers => Idle(t)
           /\ t \in racers => pc[t] \in {"releaseWord", "releaseFirst", "releaseLast",
                                         "restoreLast", "restoreFirst"}
<1>1. Race
  BY DEF IInv
<1>2. t \notin racers => Idle(t)
  BY <1>1 DEF Race
<1>3. CASE \E u \in Threads : UnheldRace(u)
  BY <1>2, <1>3 DEF UnheldRace
<1>4. CASE \E r \in Runs : SameRunRace(r)
  BY <1>2, <1>4 DEF SameRunRace
<1> QED
  BY <1>1, <1>2, <1>3, <1>4 DEF Race

LEMMA NoRace ==
    ASSUME IInv, NEW t \in Threads,
           pc[t] \in {"acquireLast", "undoFirst", "undoLast", "giveBack"} \cup Searching
    PROVE  racers = {}
BY RacersRelease DEF Idle, Searching

\* A step outside a race.
LEMMA CalmStep ==
    ASSUME IInv, racers = {}, UNCHANGED raceVars, NEW t \in Threads, OnlyMoves(t),
           pc'[t] \notin {"restoreLast", "restoreFirst"},
           TypeInv', ControlOf(t)', Balanced', HeldApart'
    PROVE  IInv'
<1>1. Control'
  BY OthersKept DEF IInv
<1>2. Calm'
  BY DEF IInv, Calm, OnlyMoves, raceVars
<1> QED
  BY <1>1, <1>2 DEF IInv, raceVars

LEMMA InitInvariant == Init => IInv
<1> SUFFICES ASSUME Init PROVE IInv
  OBVIOUS
<1> USE DEF Init
<1>1. Tail \subseteq Bits /\ 0 \in 0 .. NumChunks - 1 /\ 0 \in 0 .. NumWords - 1
  BY SetInWords DEF Tail, Bits
<1>2. TypeInv
  BY <1>1 DEF TypeInv, TypeOK
<1>3. Control /\ HeldApart
  BY DEF Control, ControlOf, SecondHalf, Searching, HeldApart
<1>4. \A t \in Threads : InHand(t) = {}
  BY DEF InHand
<1>5. Balanced
  BY <1>4 DEF Balanced, Base
<1> QED
  BY <1>2, <1>3, <1>5 DEF IInv, Calm

-----------------------------------------------------------------------------
\* acquire

LEMMA AcquireWordInvariant == ASSUME IInv, NEW t \in Threads, AcquireWord(t) PROVE IInv'
<1> USE DEF AcquireWord, Idle, searchVars, raceVars
<1>1. PICK r \in Runs : r \cap acquired = {} /\ acquired' = acquired \cup r /\ held' = held \cup {r}
  OBVIOUS
<1>2. TypeInv' /\ ControlOf(t)'
  <2>1. TypeInv'
    BY <1>1, RunFacts DEF IInv, TypeInv, TypeOK
  <2>2. ControlOf(t)'
    BY DEF IInv, Control, ControlOf, SecondHalf, Searching
  <2> QED
    BY <2>1, <2>2
<1>3. OnlyMoves(t)
  BY DEF OnlyMoves
<1>4. Balanced' /\ HeldApart'
  <2>1. InHand(t) = {} /\ InHand(t)' = {}
    BY DEF InHand
  <2>2. \A u \in Threads \ {t} : InHand(u)' = InHand(u)
    BY <1>3, OthersKept DEF IInv
  <2>3. Balanced /\ HeldApart
    BY DEF IInv, Calm
  <2> QED
    BY <1>1, <2>1, <2>2, <2>3, RunTaken
<1> QED
  BY <1>2, <1>3, <1>4, CalmStep

LEMMA AcquireFirstInvariant == ASSUME IInv, NEW t \in Threads, AcquireFirst(t) PROVE IInv'
<1> USE DEF AcquireFirst, Idle, searchVars, raceVars
<1>1. PICK r \in Runs : /\ ~InOneWord(r) /\ First(r) \cap acquired = {}
                        /\ acquired' = acquired \cup First(r) /\ run' = [run EXCEPT ![t] = r]
  OBVIOUS
<1>2. /\ pc[t] = "idle" /\ pc'[t] = "acquireLast" /\ run'[t] = r /\ undo' = undo
      /\ OnlyMoves(t)
  BY <1>1 DEF OnlyMoves, IInv, TypeInv, TypeOK
<1>3. TypeInv'
  BY <1>1, RunFacts DEF IInv, TypeInv, TypeOK
<1>4. ControlOf(t)'
  BY <1>1, <1>2 DEF ControlOf, SecondHalf, Searching
<1>5. Balanced' /\ HeldApart'
  <2>1. InHand(t) = {} /\ InHand(t)' = First(r)
    BY <1>2 DEF InHand
  <2>2. \A u \in Threads \ {t} : InHand(u)' = InHand(u)
    BY <1>2, OthersKept DEF IInv
  <2>3. Balanced /\ HeldApart
    BY DEF IInv, Calm
  <2> QED
    BY <1>1, <2>1, <2>2, <2>3, HandChanges
<1> QED
  BY <1>2, <1>3, <1>4, <1>5, CalmStep

LEMMA AcquireFirstFailsInvariant ==
    ASSUME IInv, NEW t \in Threads, AcquireFirstFails(t) PROVE IInv'
<1> USE DEF AcquireFirstFails, Idle, searchVars, raceVars
<1>1. PICK r \in Runs : /\ acquired' = acquired \cup First(r)
                        /\ undo' = [undo EXCEPT ![t] = NewlySet(First(r), acquired)]
  OBVIOUS
<1>2. /\ pc[t] = "idle" /\ pc'[t] = "undoFirst" /\ undo'[t] = First(r) \ acquired /\ run' = run
      /\ OnlyMoves(t)
  BY <1>1 DEF OnlyMoves, NewlySet, IInv, TypeInv, TypeOK
<1>3. TypeInv'
  BY <1>1, RunFacts DEF NewlySet, IInv, TypeInv, TypeOK
<1>4. ControlOf(t)'
  BY <1>1, <1>2 DEF ControlOf, SecondHalf, Searching
<1>5. Balanced' /\ HeldApart'
  <2>1. InHand(t) = {} /\ InHand(t)' = First(r) \ acquired
    BY <1>2 DEF InHand
  <2>2. \A u \in Threads \ {t} : InHand(u)' = InHand(u)
    BY <1>2, OthersKept DEF IInv
  <2>3. Balanced /\ HeldApart
    BY DEF IInv, Calm
  <2> QED
    BY <1>1, <2>1, <2>2, <2>3, HandChanges
<1> QED
  BY <1>2, <1>3, <1>4, <1>5, CalmStep

LEMMA UndoFirstInvariant == ASSUME IInv, NEW t \in Threads, UndoFirst(t) PROVE IInv'
<1> USE DEF UndoFirst, Goto, Forget, searchVars, raceVars
<1>1. racers = {} /\ Balanced /\ HeldApart
  BY NoRace DEF IInv, Calm
<1>2. /\ pc[t] = "undoFirst" /\ pc'[t] = "idle" /\ run'[t] = {} /\ undo'[t] = {}
      /\ OnlyMoves(t)
  BY DEF OnlyMoves, IInv, TypeInv, TypeOK
<1>3. TypeInv'
  BY DEF IInv, TypeInv, TypeOK
<1>4. ControlOf(t)'
  BY <1>2 DEF ControlOf, SecondHalf, Searching
<1>5. Balanced' /\ HeldApart'
  <2>1. InHand(t) = undo[t] /\ InHand(t)' = {}
    BY <1>2 DEF InHand
  <2>2. \A u \in Threads \ {t} : InHand(u)' = InHand(u)
    BY <1>2, OthersKept DEF IInv
  <2> QED
    BY <1>1, <2>1, <2>2, HandChanges
<1> QED
  BY <1>1, <1>2, <1>3, <1>4, <1>5, CalmStep

LEMMA AcquireLastInvariant == ASSUME IInv, NEW t \in Threads, AcquireLast(t) PROVE IInv'
<1> USE DEF AcquireLast, Goto, Forget, searchVars, raceVars
<1> DEFINE r == run[t]
<1>1. racers = {} /\ Balanced /\ HeldApart /\ r \in Runs
  BY NoRace DEF IInv, Calm, Control, ControlOf, SecondHalf
<1>2. /\ pc[t] = "acquireLast" /\ pc'[t] = "idle" /\ run'[t] = {} /\ undo'[t] = {}
      /\ OnlyMoves(t)
  BY DEF OnlyMoves, IInv, TypeInv, TypeOK
<1>3. TypeInv'
  BY <1>1, RunFacts DEF IInv, TypeInv, TypeOK
<1>4. ControlOf(t)'
  BY <1>2 DEF ControlOf, SecondHalf, Searching
<1>5. Balanced' /\ HeldApart'
  <2>1. InHand(t) = First(r) /\ InHand(t)' = {}
    BY <1>2 DEF InHand
  <2>2. \A u \in Threads \ {t} : InHand(u)' = InHand(u)
    BY <1>2, OthersKept DEF IInv
  <2>3. First(r) \subseteq r /\ Last(r) = r \ First(r) /\ First(r) \subseteq acquired
    BY <1>1, <2>1, RunFacts DEF Balanced
  <2>4. (r \ First(r)) \cap acquired = {} /\ acquired' = acquired \cup r
    BY <2>3
  <2> HIDE DEF r
  <2>5. held' = held \cup {r}
    BY DEF r
  <2> QED
    BY <1>1, <2>1, <2>2, <2>3, <2>4, <2>5, RunTaken
<1> QED
  BY <1>1, <1>2, <1>3, <1>4, <1>5, CalmStep

LEMMA AcquireLastFailsInvariant ==
    ASSUME IInv, NEW t \in Threads, AcquireLastFails(t) PROVE IInv'
<1> USE DEF AcquireLastFails, Goto, searchVars, raceVars
<1> DEFINE r == run[t]
<1>1. racers = {} /\ Balanced /\ HeldApart /\ r \in Runs /\ ~InOneWord(r)
  BY NoRace DEF IInv, Calm, Control, ControlOf, SecondHalf
<1>2. /\ pc[t] = "acquireLast" /\ pc'[t] = "undoLast" /\ run' = run
      /\ undo'[t] = Last(r) \ acquired
      /\ OnlyMoves(t)
  BY DEF OnlyMoves, NewlySet, IInv, TypeInv, TypeOK
<1>3. TypeInv'
  BY <1>1, RunFacts DEF NewlySet, IInv, TypeInv, TypeOK
<1>4. ControlOf(t)'
  BY <1>1, <1>2 DEF ControlOf, SecondHalf, Searching
<1>5. Balanced' /\ HeldApart'
  <2>1. InHand(t) = First(r) /\ InHand(t)' = (Last(r) \ acquired) \cup First(r)
    BY <1>2 DEF InHand
  <2>2. \A u \in Threads \ {t} : InHand(u)' = InHand(u)
    BY <1>2, OthersKept DEF IInv
  <2>3. First(r) \subseteq acquired
    BY <2>1 , <1>1 DEF Balanced
  <2>4. acquired' = (acquired \ First(r)) \cup ((Last(r) \ acquired) \cup First(r))
    BY <2>3
  <2> QED
    BY <1>1, <2>1, <2>2, <2>4, HandChanges
<1> QED
  BY <1>1, <1>2, <1>3, <1>4, <1>5, CalmStep

LEMMA UndoLastInvariant == ASSUME IInv, NEW t \in Threads, UndoLast(t) PROVE IInv'
<1> USE DEF UndoLast, Goto, searchVars, raceVars
<1> DEFINE r == run[t]
<1>1. /\ racers = {} /\ Balanced /\ HeldApart
      /\ r \in Runs /\ ~InOneWord(r) /\ undo[t] \subseteq Last(r)
  BY NoRace DEF IInv, Calm, Control, ControlOf, SecondHalf
<1>2. /\ pc[t] = "undoLast" /\ pc'[t] = "giveBack" /\ run' = run /\ undo'[t] = {}
      /\ OnlyMoves(t)
  BY DEF OnlyMoves, IInv, TypeInv, TypeOK
<1>3. TypeInv'
  BY DEF IInv, TypeInv, TypeOK
<1>4. ControlOf(t)'
  BY <1>1, <1>2 DEF ControlOf, SecondHalf, Searching
<1>5. Balanced' /\ HeldApart'
  <2>1. InHand(t) = undo[t] \cup First(r) /\ InHand(t)' = First(r)
    BY <1>2 DEF InHand
  <2>2. \A u \in Threads \ {t} : InHand(u)' = InHand(u)
    BY <1>2, OthersKept DEF IInv
  <2>3. First(r) \subseteq acquired /\ undo[t] \cap First(r) = {}
    BY <1>1, <2>1, RunFacts DEF Balanced
  <2>4. acquired' = (acquired \ (undo[t] \cup First(r))) \cup First(r)
    BY <2>3
  <2> QED
    BY <1>1, <2>1, <2>2, <2>4, HandChanges
<1> QED
  BY <1>1, <1>2, <1>3, <1>4, <1>5, CalmStep

LEMMA GiveBackInvariant == ASSUME IInv, NEW t \in Threads, GiveBack(t) PROVE IInv'
<1> USE DEF GiveBack, Goto, Forget, searchVars, raceVars
<1>1. racers = {} /\ Balanced /\ HeldApart
  BY NoRace DEF IInv, Calm
<1>2. /\ pc[t] = "giveBack" /\ pc'[t] = "idle" /\ run'[t] = {} /\ undo'[t] = {}
      /\ OnlyMoves(t)
  BY DEF OnlyMoves, IInv, TypeInv, TypeOK
<1>3. TypeInv'
  BY DEF IInv, TypeInv, TypeOK
<1>4. ControlOf(t)'
  BY <1>2 DEF ControlOf, SecondHalf, Searching
<1>5. Balanced' /\ HeldApart'
  <2>1. InHand(t) = First(run[t]) /\ InHand(t)' = {}
    BY <1>2 DEF InHand
  <2>2. \A u \in Threads \ {t} : InHand(u)' = InHand(u)
    BY <1>2, OthersKept DEF IInv
  <2> QED
    BY <1>1, <2>1, <2>2, HandChanges
<1> QED
  BY <1>1, <1>2, <1>3, <1>4, <1>5, CalmStep

-----------------------------------------------------------------------------
\* Searches: they take a run by one atomic step, and touch no bit before.

\* A step of a search that takes nothing.
LEMMA SearchStep ==
    ASSUME IInv, racers = {}, UNCHANGED <<acquired, held, raceVars>>, NEW t \in Threads,
           OnlyMoves(t), TypeInv', ControlOf(t)',
           pc[t] \in Searching \cup {"idle"}, pc'[t] \in Searching \cup {"idle"}
    PROVE  IInv'
<1>1. InHand(t) = {} /\ InHand(t)' = {}
  BY DEF InHand, Searching
<1>2. \A u \in Threads \ {t} : InHand(u)' = InHand(u)
  BY OthersKept DEF IInv
<1>3. Balanced' /\ HeldApart'
  BY <1>1, <1>2, HandChanges DEF IInv, Calm
<1> QED
  BY <1>3, CalmStep DEF Searching

LEMMA SearchBeginInvariant == ASSUME IInv, NEW t \in Threads, SearchBegin(t) PROVE IInv'
<1> USE DEF SearchBegin, Goto
<1>1. PICK n \in 1 .. MaxRun : run' = [run EXCEPT ![t] = Run(0, n)]
  OBVIOUS
<1>2. pc[t] = "idle" /\ pc'[t] = "chunk" /\ run'[t] = Run(0, n) /\ OnlyMoves(t)
  BY <1>1, RunIsWanted DEF OnlyMoves, IInv, TypeInv, TypeOK
<1>3. TypeInv'
  <2>1. run' \in [Threads -> SUBSET Nat]
    BY <1>1, RunIsWanted DEF IInv, TypeInv
  <2>2. left' \in [Threads -> 0 .. NumChunks - 1] /\ chunk' \in [Threads -> 0 .. NumChunks - 1]
    BY SetInWords DEF IInv, TypeInv, TypeOK
  <2>3. \A u \in Threads : run'[u] \in Runs \cup {{}} \/ \E m \in 1 .. MaxRun : run'[u] = Run(0, m)
    BY <1>2 DEF IInv, TypeInv, TypeOK, OnlyMoves
  <2> QED
    BY <2>1, <2>2, <2>3 DEF IInv, TypeInv, TypeOK, raceVars
<1>4. ControlOf(t)'
  BY <1>2 DEF ControlOf, SecondHalf, Searching
<1> QED
  BY <1>2, <1>3, <1>4, SearchStep DEF Searching

\* A step that goes on with a word, or with the next chunk.
LEMMA LookAtFacts ==
    ASSUME IInv, NEW t \in Threads, NEW w \in Nat, LookAt(t, w)
    PROVE  /\ pc' \in {[pc EXCEPT ![t] = "load"], [pc EXCEPT ![t] = "chunk"]}
           /\ chunk' \in [Threads -> 0 .. NumChunks - 1] /\ left' \in [Threads -> 0 .. NumChunks - 1]
           /\ word' \in [Threads -> 0 .. NumWords - 1]
           /\ \A u \in Threads \ {t} : word'[u] = word[u]
<1> USE DEF IInv, TypeInv, TypeOK
<1>1. CASE InChunk(t, w)
  <2>1. w \in 0 .. NumWords - 1
    BY <1>1, SetInWords DEF InChunk
  <2> QED
    BY <1>1, <2>1 DEF LookAt
<1>2. CASE ~InChunk(t, w)
  <2>1. (chunk[t] + 1) % NumChunks \in 0 .. NumChunks - 1
    BY SetInWords
  <2>2. left[t] > 0 => left[t] - 1 \in 0 .. NumChunks - 1
    BY SetInWords
  <2>3. 0 \in 0 .. NumWords - 1
    BY SetInWords
  <2> QED
    BY <1>2, <2>1, <2>2, <2>3 DEF LookAt
<1> QED
  BY <1>1, <1>2

LEMMA ChunkCheckInvariant == ASSUME IInv, NEW t \in Threads, ChunkCheck(t) PROVE IInv'
<1> USE DEF ChunkCheck, raceVars
<1>1. pc[t] \in {"chunk", "chunk2"} /\ racers = {} /\ ControlOf(t)
  BY NoRace DEF Searching, IInv, Control
<1>2. /\ pc' \in {[pc EXCEPT ![t] = "load"], [pc EXCEPT ![t] = "chunk"], [pc EXCEPT ![t] = "chunk2"]}
      /\ chunk' \in [Threads -> 0 .. NumChunks - 1] /\ left' \in [Threads -> 0 .. NumChunks - 1]
      /\ word' \in [Threads -> 0 .. NumWords - 1]
      /\ \A u \in Threads \ {t} : word'[u] = word[u]
  <2>1. 2 * chunk[t] \in Nat /\ 2 * chunk[t] + 2 \in Nat
    BY DEF IInv, TypeInv, TypeOK
  <2> QED
    BY <2>1, LookAtFacts DEF IInv, TypeInv, TypeOK
<1>3. pc'[t] \in {"load", "chunk", "chunk2"} /\ run'[t] = run[t] /\ OnlyMoves(t)
  BY <1>2 DEF OnlyMoves, IInv, TypeInv, TypeOK
<1>4. TypeInv'
  BY <1>2 DEF IInv, TypeInv, TypeOK
<1>5. ControlOf(t)'
  BY <1>1, <1>3 DEF ControlOf, SecondHalf, Searching
<1> QED
  BY <1>1, <1>3, <1>4, <1>5, SearchStep DEF Searching

LEMMA LoadInvariant == ASSUME IInv, NEW t \in Threads, Load(t) PROVE IInv'
<1> USE DEF Load, raceVars
<1> DEFINE Free == Starts(word[t], Content(word[t]), Wanted(t)) # {}
<1>1. pc[t] = "load" /\ racers = {} /\ ControlOf(t)
  BY NoRace DEF Searching, IInv, Control
<1>2. CASE Free
  <2>1. /\ pc'[t] = "take" /\ run' = run /\ word' = word /\ seen'[t] = Content(word[t])
        /\ OnlyMoves(t)
    BY <1>2 DEF OnlyMoves, IInv, TypeInv, TypeOK
  <2>2. TypeInv'
    BY <1>2 DEF IInv, TypeInv, TypeOK, Content
  <2>3. ControlOf(t)'
    BY <1>1, <1>2, <2>1 DEF ControlOf, SecondHalf, Searching, Wanted
  <2> QED
    BY <1>1, <2>1, <2>2, <2>3, SearchStep DEF Searching
<1>3. CASE ~Free
  <2>1. /\ pc' \in {[pc EXCEPT ![t] = "load"], [pc EXCEPT ![t] = "chunk"]}
        /\ chunk' \in [Threads -> 0 .. NumChunks - 1] /\ left' \in [Threads -> 0 .. NumChunks - 1]
        /\ word' \in [Threads -> 0 .. NumWords - 1]
        /\ \A u \in Threads \ {t} : word'[u] = word[u]
    <3>1. word[t] + 1 \in Nat
      BY SetInWords DEF IInv, TypeInv, TypeOK
    <3> QED
      BY <1>3, <3>1, LookAtFacts
  <2>2. pc'[t] \in {"load", "chunk"} /\ run'[t] = run[t] /\ OnlyMoves(t)
    BY <1>3, <2>1 DEF OnlyMoves, IInv, TypeInv, TypeOK
  <2>3. TypeInv'
    BY <1>3, <2>1 DEF IInv, TypeInv, TypeOK
  <2>4. ControlOf(t)'
    BY <1>1, <2>2 DEF ControlOf, SecondHalf, Searching
  <2> QED
    BY <1>1, <2>2, <2>3, <2>4, SearchStep DEF Searching
<1> QED
  BY <1>2, <1>3

LEMMA TakeInvariant == ASSUME IInv, NEW t \in Threads, Take(t) PROVE IInv'
<1> USE DEF Take, Goto, Forget, searchVars, raceVars
<1>1. racers = {} /\ Balanced /\ HeldApart
  BY NoRace DEF IInv, Calm, Searching
<1>2. Found(t) \in Runs /\ Found(t) \cap acquired = {}
  BY <1>1, FoundFacts DEF IInv
<1>3. /\ pc[t] = "take" /\ pc'[t] = "idle" /\ run'[t] = {} /\ undo'[t] = {}
      /\ OnlyMoves(t)
  BY DEF OnlyMoves, IInv, TypeInv, TypeOK
<1>4. TypeInv'
  BY <1>2, RunFacts DEF IInv, TypeInv, TypeOK
<1>5. ControlOf(t)'
  BY <1>3 DEF ControlOf, SecondHalf, Searching
<1>6. Balanced' /\ HeldApart'
  <2>1. InHand(t) = {} /\ InHand(t)' = {}
    BY <1>3 DEF InHand
  <2>2. \A u \in Threads \ {t} : InHand(u)' = InHand(u)
    BY <1>3, OthersKept DEF IInv
  <2> QED
    BY <1>1, <1>2, <2>1, <2>2, RunTaken
<1> QED
  BY <1>1, <1>3, <1>4, <1>5, <1>6, CalmStep

LEMMA TakeFailsInvariant == ASSUME IInv, NEW t \in Threads, TakeFails(t) PROVE IInv'
<1> USE DEF TakeFails, Goto, raceVars
<1>1. racers = {} /\ ControlOf(t)
  BY NoRace DEF IInv, Control, Searching
<1>2. pc[t] = "take" /\ pc'[t] = "load" /\ run' = run /\ OnlyMoves(t)
  BY DEF OnlyMoves, IInv, TypeInv, TypeOK
<1>3. TypeInv'
  BY DEF IInv, TypeInv, TypeOK
<1>4. ControlOf(t)'
  BY <1>1, <1>2 DEF ControlOf, SecondHalf, Searching
<1> QED
  BY <1>1, <1>2, <1>3, <1>4, SearchStep DEF Searching

LEMMA SearchFailsInvariant == ASSUME IInv, NEW t \in Threads, SearchFails(t) PROVE IInv'
<1> USE DEF SearchFails, Forget, searchVars, raceVars
<1>1. racers = {} /\ pc[t] \in Searching
  BY NoRace DEF Searching
<1>2. pc'[t] = "idle" /\ run'[t] = {} /\ undo'[t] = {} /\ OnlyMoves(t)
  BY DEF OnlyMoves, IInv, TypeInv, TypeOK
<1>3. TypeInv'
  BY DEF IInv, TypeInv, TypeOK
<1>4. ControlOf(t)'
  BY <1>2 DEF ControlOf, SecondHalf, Searching
<1> QED
  BY <1>1, <1>2, <1>3, <1>4, SearchStep DEF Searching

-----------------------------------------------------------------------------
\* release

LEMMA ReleaseInvariant == ASSUME IInv, NEW t \in Threads, Release(t) PROVE IInv'
<1> USE DEF Release, Idle, searchVars, raceVars
<1>1. PICK r \in held : /\ held' = held \ {r} /\ run' = [run EXCEPT ![t] = r]
                        /\ pc' = [pc EXCEPT ![t] = FirstReleaseStep(r)]
  OBVIOUS
<1>2. /\ pc[t] = "idle" /\ r \in Runs /\ run'[t] = r /\ undo' = undo
      /\ \/ pc'[t] = "releaseWord" /\ InOneWord(r)
         \/ pc'[t] = "releaseFirst" /\ ~InOneWord(r)
      /\ OnlyMoves(t)
  BY <1>1 DEF OnlyMoves, FirstReleaseStep, IInv, TypeInv, TypeOK
<1>3. TypeInv'
  <2>1. r \subseteq Nat
    BY <1>2, RunFacts
  <2>2. pc' \in {[pc EXCEPT ![t] = "releaseWord"], [pc EXCEPT ![t] = "releaseFirst"]}
    BY <1>1 DEF FirstReleaseStep
  <2> QED
    BY <1>1, <1>2, <2>1, <2>2 DEF IInv, TypeInv, TypeOK
<1>4. ControlOf(t)'
  BY <1>2 DEF ControlOf, SecondHalf, Searching
<1>5. Balanced' /\ HeldApart'
  <2>1. InHand(t) = {} /\ InHand(t)' = r
    BY <1>2 DEF InHand
  <2>2. \A u \in Threads \ {t} : InHand(u)' = InHand(u)
    BY <1>2, OthersKept DEF IInv
  <2>3. Balanced /\ HeldApart
    BY DEF IInv, Calm
  <2> QED
    BY <1>1, <1>2, <2>1, <2>2, <2>3, RunGivenUp
<1> QED
  BY <1>2, <1>3, <1>4, <1>5, CalmStep

\* Outside a race whoever releases finds all the bits it expects.
LEMMA CalmReleaser ==
    ASSUME IInv, racers = {}, NEW t \in Threads,
           pc[t] \in {"releaseWord", "releaseFirst", "releaseLast"}
    PROVE  /\ run[t] \in Runs /\ InHand(t) \subseteq acquired /\ InHand(t) \cap Base = {}
           /\ pc[t] \in {"releaseWord", "releaseFirst"} => InHand(t) = run[t]
           /\ pc[t] = "releaseLast" => InHand(t) = Last(run[t])
BY DEF IInv, Calm, Balanced, InHand, Control, ControlOf, SecondHalf

\* The other threads, while t releases.
LEMMA ReleaseKeeps ==
    ASSUME IInv, NEW t \in Threads, UNCHANGED held, OnlyMoves(t), TypeInv', ControlOf(t)',
           racers = {}, UNCHANGED raceVars, pc'[t] \notin {"restoreLast", "restoreFirst"},
           NEW M, M = InHand(t), NEW N, N = InHand(t)', N \subseteq M,
           acquired' = (acquired \ M) \cup N
    PROVE  IInv'
<1>1. M \subseteq acquired /\ Balanced /\ HeldApart
  BY DEF IInv, Calm, Balanced
<1>2. \A u \in Threads \ {t} : InHand(u)' = InHand(u)
  BY OthersKept DEF IInv
<1>3. Balanced' /\ HeldApart'
  BY <1>1, <1>2, HandChanges
<1> QED
  BY <1>3, CalmStep

ReleaseStep(t) ==
    \/ ReleaseWord(t) \/ ReleaseFirst(t) \/ ReleaseFails(t)
    \/ ReleaseLast(t) \/ ReleaseLastFails(t) \/ RestoreLast(t) \/ RestoreFirst(t)

LEMMA CalmRelease ==
    ASSUME IInv, racers = {}, NEW t \in Threads, ReleaseStep(t)
    PROVE  IInv' /\ ~ReleaseFails(t) /\ ~ReleaseLastFails(t)
<1> USE DEF searchVars, raceVars, Goto
<1> DEFINE r == run[t]
<1>1. /\ pc[t] \notin {"restoreLast", "restoreFirst"} /\ ControlOf(t)
      /\ Threads # {} /\ t \notin racers
  BY DEF IInv, Calm, Control
<1>2. ASSUME ReleaseEnds(t, TRUE) \/ ReleaseEnds(t, FALSE) PROVE UNCHANGED raceVars
  BY <1>2 DEF ReleaseEnds
<1>3. ~ReleaseFails(t)
  <2>1. ASSUME pc[t] \in {"releaseWord", "releaseFirst"} PROVE r \subseteq acquired /\ First(r) \subseteq acquired
    BY <2>1, CalmReleaser, RunFacts
  <2> QED
    BY <2>1 DEF ReleaseFails, AllSet
<1>4. ~ReleaseLastFails(t)
  BY CalmReleaser DEF ReleaseLastFails
<1>5. CASE ReleaseWord(t)
  <2> USE <1>5 DEF ReleaseWord
  <2>1. /\ pc[t] = "releaseWord" /\ pc'[t] = "idle" /\ run'[t] = {} /\ undo'[t] = {}
        /\ OnlyMoves(t)
    BY DEF OnlyMoves, ReleaseEnds, Forget, IInv, TypeInv, TypeOK
  <2>2. TypeInv'
    BY <1>2 DEF ReleaseEnds, Forget, IInv, TypeInv, TypeOK
  <2>3. InHand(t) = r /\ InHand(t)' = {} /\ ControlOf(t)'
    BY <2>1 DEF InHand, ControlOf, SecondHalf, Searching
  <2> QED
    BY <1>2, <1>3, <1>4, <2>1, <2>2, <2>3, ReleaseKeeps
<1>6. CASE ReleaseFirst(t)
  <2> USE <1>6 DEF ReleaseFirst
  <2>1. /\ pc[t] = "releaseFirst" /\ pc'[t] = "releaseLast" /\ run' = run /\ undo' = undo
        /\ OnlyMoves(t)
    BY DEF OnlyMoves, IInv, TypeInv, TypeOK
  <2>2. TypeInv'
    BY DEF IInv, TypeInv, TypeOK
  <2>3. InHand(t) = r /\ InHand(t)' = Last(r) /\ ControlOf(t)'
    BY <1>1, <2>1 DEF InHand, ControlOf, SecondHalf, Searching
  <2>4. Last(r) \subseteq r /\ First(r) = r \ Last(r) /\ r \subseteq acquired
    BY <2>1, CalmReleaser, RunFacts
  <2>5. acquired' = (acquired \ r) \cup Last(r)
    BY <2>4
  <2> QED
    BY <1>3, <1>4, <2>1, <2>2, <2>3, <2>4, <2>5, ReleaseKeeps
<1>7. CASE ReleaseLast(t)
  <2> USE <1>7 DEF ReleaseLast
  <2>1. /\ pc[t] = "releaseLast" /\ pc'[t] = "idle" /\ run'[t] = {} /\ undo'[t] = {}
        /\ OnlyMoves(t)
    BY DEF OnlyMoves, ReleaseEnds, Forget, IInv, TypeInv, TypeOK
  <2>2. TypeInv'
    BY <1>2 DEF ReleaseEnds, Forget, IInv, TypeInv, TypeOK
  <2>3. InHand(t) = Last(r) /\ InHand(t)' = {} /\ ControlOf(t)'
    BY <2>1 DEF InHand, ControlOf, SecondHalf, Searching
  <2> QED
    BY <1>2, <1>3, <1>4, <2>1, <2>2, <2>3, ReleaseKeeps
<1> QED
  BY <1>1, <1>3, <1>4, <1>5, <1>6, <1>7 DEF ReleaseStep, RestoreLast, RestoreFirst

-----------------------------------------------------------------------------
\* Races

\* A step of a race that does not end it, or the last one.
LEMMA RaceStep ==
    ASSUME IInv, NEW t \in racers, OnlyMoves(t), UNCHANGED <<held, expected>>,
           TypeInv', ControlOf(t)',
           \/ racers' = racers
           \/ racers' = racers \ {t} /\ pc'[t] = "idle",
           racers' # {} => Race',
           racers' = {} => acquired' = Base /\ wins' = expected
    PROVE  IInv'
<1>1. t \in Threads /\ \A u \in Threads \ racers : Idle(u)
  BY DEF IInv, Race, TypeInv, TypeOK
<1>2. Control' /\ HeldApart'
  BY <1>1, OthersKept DEF IInv, HeldApart
<1>3. ASSUME racers' = {} PROVE Calm'
  <2>1. \A u \in Threads : pc'[u] = "idle"
    BY <1>1, <1>3 DEF OnlyMoves, Idle
  <2>2. \A u \in Threads : InHand(u)' = {}
    BY <2>1 DEF InHand
  <2>3. Balanced'
    BY <1>3, <2>2 DEF Balanced, Base
  <2> QED
    BY <1>3, <2>1, <2>3 DEF Calm
<1> QED
  BY <1>2, <1>3 DEF IInv

LEMMA IdleStay ==
    ASSUME IInv, NEW t \in racers, OnlyMoves(t),
           \/ racers' = racers
           \/ racers' = racers \ {t} /\ pc'[t] = "idle"
    PROVE  \A u \in Threads \ racers' : Idle(u)'
BY RacersRelease DEF OnlyMoves, Idle

\* The release of a run that is not wholly set fails, and every bit is as it was.
LEMMA UnheldRaceStep ==
    ASSUME IInv, NEW t \in Threads, UnheldRace(t), expected = 0, ReleaseStep(t)
    PROVE  IInv'
<1> USE DEF searchVars, raceVars, Goto
<1> DEFINE r == run[t]  F == First(r)  L == Last(r)
<1>1. t \in racers /\ racers = {t} /\ wins = 0 /\ ControlOf(t) /\ ~(r \subseteq Base)
  BY DEF UnheldRace, IInv, Control
<1>2. r \in Runs /\ r = F \cup L /\ F \cap L = {} /\ L \subseteq Bits
  <2>1. pc[t] \in SecondHalf \cup {"releaseWord"}
    BY DEF UnheldRace, SecondHalf
  <2>2. r \in Runs
    BY <1>1, <2>1 DEF ControlOf
  <2> QED
    BY <2>2, RunFacts
<1>3. CASE ReleaseWord(t)
  BY <1>1, <1>3 DEF ReleaseWord, UnheldRace
<1>4. CASE ReleaseFirst(t)
  <2> USE <1>4 DEF ReleaseFirst
  <2>1. /\ pc'[t] = "releaseLast" /\ run' = run /\ OnlyMoves(t)
    BY DEF OnlyMoves, IInv, TypeInv, TypeOK
  <2>2. TypeInv' /\ ControlOf(t)'
    BY <1>1, <2>1 DEF ControlOf, SecondHalf, Searching, IInv, TypeInv, TypeOK
  <2>3. F \subseteq Base /\ acquired' = Base \ F
    BY DEF UnheldRace, AllSet
  <2>4. UnheldRace(t)'
    BY <1>1, <2>1, <2>3 DEF UnheldRace, Base
  <2>5. Race'
    BY <1>1, <2>1, <2>4, IdleStay DEF Race
  <2> QED
    BY <1>1, <2>1, <2>2, <2>5, RaceStep
<1>5. CASE ReleaseFails(t)
  <2> USE <1>5 DEF ReleaseFails, ReleaseEnds, Forget
  <2>1. /\ pc'[t] = "idle" /\ run'[t] = {} /\ undo'[t] = {} /\ OnlyMoves(t)
        /\ racers' = {} /\ wins' = 0 /\ expected' = 0
    BY <1>1 DEF OnlyMoves, IInv, TypeInv, TypeOK
  <2>2. TypeInv' /\ ControlOf(t)'
    BY <1>1, <2>1 DEF ControlOf, SecondHalf, Searching, IInv, TypeInv, TypeOK
  <2>3. acquired' = Base
    BY DEF UnheldRace
  <2> QED
    BY <1>1, <2>1, <2>2, <2>3, RaceStep
<1>6. CASE ReleaseLast(t)
  <2>1. F \subseteq Base /\ L \subseteq Base
    BY <1>6 DEF ReleaseLast, UnheldRace
  <2> QED
    BY <1>1, <1>2, <2>1
<1>7. CASE ReleaseLastFails(t)
  <2> USE <1>7 DEF ReleaseLastFails
  <2>1. /\ pc'[t] = "restoreLast" /\ run' = run /\ OnlyMoves(t)
        /\ undo'[t] = acquired \cap L
    BY DEF OnlyMoves, IInv, TypeInv, TypeOK
  <2>2. TypeInv' /\ ControlOf(t)'
    <3>1. ControlOf(t)'
      BY <1>1, <2>1 DEF ControlOf, SecondHalf, Searching
    <3>2. TypeInv'
      BY <1>2 DEF IInv, TypeInv, TypeOK
    <3> QED
      BY <3>1, <3>2
  <2>3. F \subseteq Base /\ acquired' = (Base \ F) \ L /\ acquired \cap L = Base \cap L
    BY <1>2 DEF UnheldRace
  <2>4. UnheldRace(t)'
    BY <1>1, <2>1, <2>3 DEF UnheldRace, Base
  <2>5. Race'
    BY <1>1, <2>1, <2>4, IdleStay DEF Race
  <2> QED
    BY <1>1, <2>1, <2>2, <2>5, RaceStep
<1>8. CASE RestoreLast(t)
  <2> USE <1>8 DEF RestoreLast
  <2>1. /\ pc'[t] = "restoreFirst" /\ run' = run /\ OnlyMoves(t)
    BY DEF OnlyMoves, IInv, TypeInv, TypeOK
  <2>2. TypeInv' /\ ControlOf(t)'
    BY <1>1, <2>1 DEF ControlOf, SecondHalf, Searching, IInv, TypeInv, TypeOK
  <2>3. F \subseteq Base /\ acquired' = Base \ F
    BY <1>2 DEF UnheldRace
  <2>4. UnheldRace(t)'
    BY <1>1, <2>1, <2>3 DEF UnheldRace, Base
  <2>5. Race'
    BY <1>1, <2>1, <2>4, IdleStay DEF Race
  <2> QED
    BY <1>1, <2>1, <2>2, <2>5, RaceStep
<1>9. CASE RestoreFirst(t)
  <2> USE <1>9 DEF RestoreFirst, ReleaseEnds, Forget
  <2>1. /\ pc'[t] = "idle" /\ run'[t] = {} /\ undo'[t] = {} /\ OnlyMoves(t)
        /\ racers' = {} /\ wins' = 0 /\ expected' = 0
    BY <1>1 DEF OnlyMoves, IInv, TypeInv, TypeOK
  <2>2. TypeInv' /\ ControlOf(t)'
    BY <1>1, <1>2, <2>1, RunFacts DEF ControlOf, SecondHalf, Searching, IInv, TypeInv, TypeOK
  <2>3. acquired' = Base
    BY DEF UnheldRace
  <2> QED
    BY <1>1, <2>1, <2>2, <2>3, RaceStep
<1> QED
  BY <1>3, <1>4, <1>5, <1>6, <1>7, <1>8, <1>9 DEF ReleaseStep

\* A step of a race for one run: it goes on, or ends when the run has been released once.
LEMMA SameRunStep ==
    ASSUME IInv, NEW t \in racers, OnlyMoves(t), UNCHANGED <<held, expected>>, expected = 1,
           TypeInv', ControlOf(t)', NEW r \in Runs, SameRunRace(r),
           \/ racers' = racers
           \/ racers' = racers \ {t} /\ pc'[t] = "idle",
           SameRunRace(r)',
           racers' = {} => wins' = 1
    PROVE  IInv'
<1>1. ASSUME racers' # {} PROVE Race'
  BY IdleStay DEF Race
<1>2. ASSUME racers' = {} PROVE acquired' = Base /\ wins' = expected
  <2>1. \A u \in Threads : Idle(u)'
    BY <1>2, IdleStay
  <2>2. Cleared' = {}
    BY <2>1 DEF Cleared, Idle
  <2>3. wins' = 1
    BY <1>2
  <2> QED
    BY <2>2, <2>3 DEF SameRunRace, Base
<1> QED
  BY <1>1, <1>2, RaceStep

\* However many threads release the run r, its bits are cleared once, and whoever cleared
\* the first word of a run that somebody else holds by now sets it again.
LEMMA SameRunRaceStep ==
    ASSUME IInv, NEW t \in racers, t \in Threads, NEW r \in Runs, SameRunRace(r), expected = 1, ReleaseStep(t)
    PROVE  IInv'
<1> USE DEF searchVars, raceVars, Goto
<1> DEFINE F == First(r)  L == Last(r)
           Others == Cleared \ {t}
<1>1. /\ run[t] = r /\ ControlOf(t) /\ wins \in {0, 1}
      /\ pc[t] \in IF InOneWord(r) THEN {"releaseWord"}
                      ELSE {"releaseFirst", "releaseLast", "restoreLast", "restoreFirst"}
      /\ pc[t] \in {"restoreLast", "restoreFirst"} => wins = 1
      /\ pc[t] = "restoreLast" => undo[t] = {}
  BY DEF SameRunRace, IInv, Control, TypeInv
<1>2. /\ r = F \cup L /\ F \cap L = {} /\ F # {} /\ L \subseteq Bits /\ F \subseteq Bits
      /\ InOneWord(r) <=> L = {}
      /\ L \cap Base = {} /\ (InOneWord(r) => F \cap Base = {})
  BY RunFacts DEF InOneWord, SameRunRace
<1>3. Cleared \subseteq racers
  BY RacersRelease DEF Cleared, Idle
<1>4. CASE ReleaseWord(t)
  <2> USE <1>4 DEF ReleaseWord, ReleaseEnds, Forget
  <2>1. InOneWord(r) /\ Cleared = {} /\ r = F
    BY <1>1, <1>2, <1>3 DEF SameRunRace, Cleared
  <2>2. wins = 0 /\ F \cap Base = {} /\ acquired = Base \cup r
    BY <1>1, <1>2, <2>1 DEF SameRunRace
  <2>3. /\ pc'[t] = "idle" /\ run'[t] = {} /\ undo'[t] = {} /\ OnlyMoves(t)
        /\ racers' = racers \ {t} /\ wins' = 1 /\ expected' = 1 /\ acquired' = Base
    BY <1>1, <2>1, <2>2 DEF OnlyMoves, IInv, TypeInv, TypeOK
  <2>4. TypeInv' /\ ControlOf(t)'
    BY <1>1, <2>3 DEF ControlOf, SecondHalf, Searching, IInv, TypeInv, TypeOK
  <2>5. Cleared' = {}
    BY <2>1, <2>3 DEF Cleared, OnlyMoves
  <2>6. SameRunRace(r)'
    BY <1>2, <2>3, <2>5 DEF SameRunRace, Base, OnlyMoves, IInv, TypeInv, TypeOK
  <2> QED
    BY <2>3, <2>4, <2>6, SameRunStep
<1>5. CASE ReleaseFails(t)
  <2> USE <1>5 DEF ReleaseFails, ReleaseEnds, Forget
  <2>1. /\ pc[t] \in {"releaseWord", "releaseFirst"}
        /\ pc'[t] = "idle" /\ run'[t] = {} /\ undo'[t] = {} /\ OnlyMoves(t)
        /\ racers' = racers \ {t} /\ wins' = wins /\ expected' = 1
    BY DEF OnlyMoves, IInv, TypeInv, TypeOK
  <2>2. TypeInv' /\ ControlOf(t)'
    BY <2>1 DEF ControlOf, SecondHalf, Searching, IInv, TypeInv, TypeOK
  <2>3. Cleared' = Cleared
    BY <2>1 DEF Cleared, OnlyMoves
  <2>4. SameRunRace(r)'
    BY <2>1, <2>3 DEF SameRunRace, Base, OnlyMoves, IInv, TypeInv, TypeOK
  <2>5. ASSUME racers' = {} PROVE wins' = 1
    <3>1. Cleared = {}
      BY <1>3, <2>1, <2>5 DEF Cleared
    <3>2. ~(r \subseteq acquired)
      BY <1>1, <1>2 DEF AllSet
    <3> QED
      BY <2>1, <3>1, <3>2 DEF SameRunRace
  <2> QED
    BY <2>1, <2>2, <2>4, <2>5, SameRunStep
<1>6. CASE ReleaseFirst(t)
  <2> USE <1>6 DEF ReleaseFirst
  <2>1. /\ pc[t] = "releaseFirst" /\ pc'[t] = "releaseLast" /\ run' = run /\ OnlyMoves(t)
        /\ F \subseteq acquired /\ acquired' = acquired \ F
    BY <1>1 DEF OnlyMoves, AllSet, IInv, TypeInv, TypeOK
  <2>2. TypeInv' /\ ControlOf(t)'
    BY <1>1, <2>1 DEF ControlOf, SecondHalf, Searching, IInv, TypeInv, TypeOK
  <2>3. Cleared' = Cleared \cup {t} /\ t \notin Cleared
    BY <2>1 DEF Cleared, OnlyMoves
  <2>4. SameRunRace(r)'
    <3>1. CASE wins = 0 /\ Cleared = {} /\ F \cap Base = {} /\ acquired = Base \cup r
      <4>1. Cleared' = {t} /\ acquired' = Base \cup L
        BY <1>2, <2>1, <2>3, <3>1
      <4> QED
        BY <1>1, <1>2, <2>1, <3>1, <4>1 DEF SameRunRace, Base, OnlyMoves
    <3>2. CASE wins = 0 /\ (\E u \in Threads : Cleared = {u}) /\ acquired = Base \cup L
      <4>1. F \subseteq Base /\ acquired' = (Base \ F) \cup L
        BY <1>2, <2>1, <3>2
      <4>2. \E u, v \in Threads : u # v /\ Cleared' = {u, v}
        BY <2>3, <3>2
      <4> QED
        BY <1>1, <1>2, <2>1, <3>2, <4>1, <4>2 DEF SameRunRace, Base, OnlyMoves
    <3>3. CASE F \cap acquired = {}
      BY <1>2, <2>1, <3>3
    <3>4. CASE wins = 1 /\ Cleared = {} /\ acquired = Base
      <4>1. Cleared' = {t} /\ F \subseteq Base /\ acquired' = Base \ F
        BY <2>1, <2>3, <3>4
      <4> QED
        BY <1>1, <1>2, <2>1, <3>4, <4>1 DEF SameRunRace, Base, OnlyMoves
    <3> QED
      BY <1>2, <3>1, <3>2, <3>3, <3>4 DEF SameRunRace
  <2> QED
    BY <2>1, <2>2, <2>4, SameRunStep
<1>7. CASE ReleaseLast(t)
  <2> USE <1>7 DEF ReleaseLast, ReleaseEnds, Forget
  <2>1. L # {} /\ pc[t] = "releaseLast" /\ t \in Cleared
    BY <1>1, <1>2 DEF Cleared
  <2>2. wins = 0
    BY <1>1, <1>2, <2>1 DEF SameRunRace
  <2>3. /\ pc'[t] = "idle" /\ run'[t] = {} /\ undo'[t] = {} /\ OnlyMoves(t)
        /\ racers' = racers \ {t} /\ wins' = 1 /\ expected' = 1 /\ acquired' = acquired \ L
    BY <1>1, <2>2 DEF OnlyMoves, IInv, TypeInv, TypeOK
  <2>4. TypeInv' /\ ControlOf(t)'
    BY <2>3 DEF ControlOf, SecondHalf, Searching, IInv, TypeInv, TypeOK
  <2>5. Cleared' = Cleared \ {t}
    BY <2>3 DEF Cleared, OnlyMoves
  <2>6. SameRunRace(r)'
    <3>1. CASE (\E u \in Threads : Cleared = {u}) /\ acquired = Base \cup L
      <4>1. Cleared' = {} /\ acquired' = Base
        BY <1>2, <2>1, <2>3, <2>5, <3>1
      <4> QED
        BY <1>2, <2>3, <4>1 DEF SameRunRace, Base, OnlyMoves, IInv, TypeInv, TypeOK
    <3>2. CASE /\ \E u, v \in Threads : u # v /\ Cleared = {u, v}
               /\ F \subseteq Base /\ acquired = (Base \ F) \cup L
      <4>1. (\E u \in Threads : Cleared' = {u}) /\ acquired' = Base \ F
        BY <1>2, <2>1, <2>3, <2>5, <3>2
      <4> QED
        BY <1>2, <2>3, <3>2, <4>1 DEF SameRunRace, Base, OnlyMoves, IInv, TypeInv, TypeOK
    <3> QED
      BY <2>1, <2>2, <3>1, <3>2 DEF SameRunRace
  <2> QED
    BY <2>3, <2>4, <2>6, SameRunStep
<1>8. CASE ReleaseLastFails(t)
  <2> USE <1>8 DEF ReleaseLastFails
  <2>1. /\ pc[t] = "releaseLast" /\ pc'[t] = "restoreLast" /\ run' = run /\ OnlyMoves(t)
        /\ undo'[t] = acquired \cap L /\ t \in Cleared
    BY <1>1 DEF OnlyMoves, Cleared, IInv, TypeInv, TypeOK
  <2>2. wins = 1 /\ acquired \cap L = {} /\ acquired' = acquired
    BY <1>1, <1>2, <2>1 DEF SameRunRace
  <2>3. TypeInv' /\ ControlOf(t)'
    <3>1. ControlOf(t)'
      BY <1>1, <2>1 DEF ControlOf, SecondHalf, Searching
    <3>2. TypeInv'
      BY <1>1, <1>2 DEF IInv, TypeInv, TypeOK
    <3> QED
      BY <3>1, <3>2
  <2>4. Cleared' = Cleared
    BY <2>1 DEF Cleared, OnlyMoves
  <2>5. SameRunRace(r)'
    BY <1>1, <1>2, <2>1, <2>2, <2>4 DEF SameRunRace, Base, OnlyMoves
  <2> QED
    BY <2>1, <2>3, <2>5, SameRunStep
<1>9. CASE RestoreLast(t)
  <2> USE <1>9 DEF RestoreLast
  <2>1. /\ pc[t] = "restoreLast" /\ pc'[t] = "restoreFirst" /\ run' = run /\ OnlyMoves(t)
        /\ acquired' = acquired
    BY <1>1 DEF OnlyMoves, IInv, TypeInv, TypeOK
  <2>2. TypeInv' /\ ControlOf(t)'
    BY <1>1, <2>1 DEF ControlOf, SecondHalf, Searching, IInv, TypeInv, TypeOK
  <2>3. Cleared' = Cleared
    BY <2>1 DEF Cleared, OnlyMoves
  <2>4. SameRunRace(r)'
    BY <1>1, <1>2, <2>1, <2>3 DEF SameRunRace, Base, OnlyMoves
  <2> QED
    BY <2>1, <2>2, <2>4, SameRunStep
<1>10. CASE RestoreFirst(t)
  <2> USE <1>10 DEF RestoreFirst, ReleaseEnds, Forget
  <2>1. /\ pc[t] = "restoreFirst" /\ t \in Cleared /\ wins = 1
        /\ pc'[t] = "idle" /\ run'[t] = {} /\ undo'[t] = {} /\ OnlyMoves(t)
        /\ racers' = racers \ {t} /\ wins' = 1 /\ expected' = 1 /\ acquired' = acquired \cup F
    BY <1>1 DEF OnlyMoves, Cleared, IInv, TypeInv, TypeOK
  <2>2. TypeInv' /\ ControlOf(t)'
    BY <1>2, <2>1 DEF ControlOf, SecondHalf, Searching, IInv, TypeInv, TypeOK
  <2>3. Cleared = {t} /\ F \subseteq Base /\ acquired = Base \ F
    BY <2>1 DEF SameRunRace
  <2>4. Cleared' = {} /\ acquired' = Base
    BY <2>1, <2>3 DEF Cleared, OnlyMoves
  <2>5. SameRunRace(r)'
    BY <1>2, <2>1, <2>4 DEF SameRunRace, Base, OnlyMoves, IInv, TypeInv, TypeOK
  <2> QED
    BY <2>1, <2>2, <2>5, SameRunStep
<1> QED
  BY <1>4, <1>5, <1>6, <1>7, <1>8, <1>9, <1>10 DEF ReleaseStep

\* A race begins, or one more thread joins it.
LEMMA RaceJoined ==
    ASSUME IInv, NEW t \in Threads, Idle(t), OnlyMoves(t), UNCHANGED <<acquired, held>>,
           TypeInv', ControlOf(t)', racers' # {}, Race'
    PROVE  IInv'
BY OthersKept DEF IInv, HeldApart

LEMMA ReleaseUnheldInvariant == ASSUME IInv, NEW t \in Threads, ReleaseUnheld(t) PROVE IInv'
<1> USE DEF ReleaseUnheld, Idle, searchVars
<1>1. PICK r \in Runs : /\ ~(r \subseteq acquired) /\ run' = [run EXCEPT ![t] = r]
                        /\ pc' = [pc EXCEPT ![t] = FirstReleaseStep(r)]
  OBVIOUS
<1>2. /\ run'[t] = r
      /\ \/ pc'[t] = "releaseWord" /\ InOneWord(r)
         \/ pc'[t] = "releaseFirst" /\ ~InOneWord(r)
      /\ OnlyMoves(t)
  BY <1>1 DEF OnlyMoves, FirstReleaseStep, IInv, TypeInv, TypeOK
<1>3. TypeInv'
  <2>1. r \subseteq Nat
    BY RunFacts
  <2>2. pc' \in {[pc EXCEPT ![t] = "releaseWord"], [pc EXCEPT ![t] = "releaseFirst"]}
    BY <1>1 DEF FirstReleaseStep
  <2> QED
    BY <1>1, <1>2, <2>1, <2>2 DEF IInv, TypeInv, TypeOK
<1>4. ControlOf(t)'
  BY <1>2 DEF ControlOf, SecondHalf, Searching
<1>5. acquired = Base
  <2>1. \A u \in Threads : InHand(u) = {}
    BY DEF InHand
  <2>2. UNION {InHand(u) : u \in Threads} = {}
    BY <2>1
  <2> QED
    BY <2>2 DEF IInv, Calm, Balanced
<1>6. UnheldRace(t)'
  BY <1>1, <1>2, <1>5 DEF UnheldRace, Base
<1>7. Race'
  BY <1>2, <1>6 DEF Race, OnlyMoves
<1> QED
  BY <1>2, <1>3, <1>4, <1>7, RaceJoined

LEMMA ReleaseAgainInvariant == ASSUME IInv, NEW t \in Threads, ReleaseAgain(t) PROVE IInv'
<1> USE DEF ReleaseAgain, Idle, searchVars
<1>1. PICK u \in Threads :
          /\ Releasing(u)
          /\ \A v \in Threads : Idle(v) \/ (Releasing(v) /\ run[v] = run[u])
          /\ racers = {} \/ (u \in racers /\ expected = 1)
          /\ run' = [run EXCEPT ![t] = run[u]]
          /\ pc' = [pc EXCEPT ![t] = FirstReleaseStep(run[u])]
          /\ racers' = racers \cup {t, u}
          /\ wins' = IF racers = {} THEN 0 ELSE wins
  OBVIOUS
<1> DEFINE r == run[u]  F == First(r)  L == Last(r)
<1>2. /\ r \in Runs /\ u # t /\ undo[t] = {}
      /\ \/ pc[u] = "releaseWord" /\ InOneWord(r)
         \/ pc[u] \in {"releaseFirst", "releaseLast"} /\ ~InOneWord(r)
  BY <1>1 DEF Releasing, IInv, Control, ControlOf, SecondHalf
<1>3. r = F \cup L /\ F \cap L = {} /\ F # {} /\ (InOneWord(r) <=> L = {})
  BY <1>2, RunFacts DEF InOneWord
<1>4. /\ run'[t] = r /\ undo' = undo
      /\ \/ pc'[t] = "releaseWord" /\ InOneWord(r)
         \/ pc'[t] = "releaseFirst" /\ ~InOneWord(r)
      /\ OnlyMoves(t)
  BY <1>1 DEF OnlyMoves, FirstReleaseStep, IInv, TypeInv, TypeOK
<1>5. TypeInv'
  <2>1. r \subseteq Nat
    BY <1>2, RunFacts
  <2>2. pc' \in {[pc EXCEPT ![t] = "releaseWord"], [pc EXCEPT ![t] = "releaseFirst"]}
    BY <1>1 DEF FirstReleaseStep
  <2> QED
    BY <1>1, <1>2, <1>4, <2>1, <2>2 DEF IInv, TypeInv, TypeOK
<1>6. ControlOf(t)'
  BY <1>2, <1>4 DEF ControlOf, SecondHalf, Searching
<1>7. CASE racers = {}
  <2>1. Balanced
    BY <1>7 DEF IInv, Calm
  <2>2. InHand(u) = IF pc[u] = "releaseLast" THEN L ELSE r
    BY <1>2 DEF InHand
  <2>3. \A v \in Threads \ {u} : Idle(v)
    <3> SUFFICES ASSUME NEW v \in Threads \ {u}, ~Idle(v) PROVE FALSE
      OBVIOUS
    <3>1. Releasing(v) /\ run[v] = r
      BY <1>1
    <3>2. InHand(v) = IF pc[v] = "releaseLast" THEN L ELSE r
      BY <3>1 DEF InHand, Releasing
    <3>3. pc[v] = "releaseLast" => L # {}
      BY <1>3, <3>1 DEF IInv, Control, ControlOf, SecondHalf
    <3>4. InHand(v) \cap InHand(u) # {}
      BY <1>2, <1>3, <2>2, <3>2, <3>3
    <3> QED
      BY <2>1, <3>4 DEF Balanced
  <2>4. acquired = Base \cup InHand(u) /\ InHand(u) \cap Base = {}
    <3>1. \A v \in Threads \ {u} : InHand(v) = {}
      BY <2>3 DEF InHand
    <3> QED
      BY <2>1, <3>1 DEF Balanced
  <2>5. racers' = {t, u} /\ wins' = 0 /\ expected' = 1
    BY <1>1, <1>7
  <2>6. SameRunRace(r)'
    <3>1. CASE pc[u] = "releaseLast"
      <4>1. Cleared' = {u} /\ acquired' = Base \cup L /\ L \cap Base = {}
        BY <1>2, <1>4, <2>2, <2>3, <2>4, <3>1 DEF Cleared, OnlyMoves
      <4> QED
        BY <1>2, <1>4, <2>5, <3>1, <4>1 DEF SameRunRace, Base, OnlyMoves
    <3>2. CASE pc[u] # "releaseLast"
      <4>1. Cleared' = {} /\ acquired' = Base \cup r /\ r \cap Base = {}
        BY <1>2, <1>4, <2>2, <2>3, <2>4, <3>2 DEF Cleared, OnlyMoves
      <4> QED
        BY <1>2, <1>3, <1>4, <2>5, <3>2, <4>1 DEF SameRunRace, Base, OnlyMoves
    <3> QED
      BY <3>1, <3>2
  <2>7. Race'
    BY <1>2, <2>3, <2>5, <2>6, <1>4 DEF Race, OnlyMoves
  <2> QED
    BY <1>4, <1>5, <1>6, <2>5, <2>7, RaceJoined
<1>8. CASE racers # {}
  <2>1. u \in racers /\ expected = 1 /\ Race /\ racers' = racers \cup {t} /\ wins' = wins
    BY <1>1, <1>8 DEF IInv
  <2>2. PICK q \in Runs : SameRunRace(q)
    BY <2>1 DEF Race
  <2>3. q = r
    BY <2>1, <2>2 DEF SameRunRace
  <2>4. Cleared' = Cleared
    BY <1>4 DEF Cleared, OnlyMoves
  <2>5. \A v \in racers : v # t
    OBVIOUS
  <2>6. SameRunRace(r)'
    BY <1>4, <2>1, <2>2, <2>3, <2>4, <2>5 DEF SameRunRace, Base, OnlyMoves, IInv, TypeInv, TypeOK
  <2>7. Race'
    BY <1>2, <1>4, <2>1, <2>6 DEF Race, OnlyMoves
  <2> QED
    BY <1>4, <1>5, <1>6, <2>1, <2>7, RaceJoined
<1> QED
  BY <1>7, <1>8

-----------------------------------------------------------------------------
LEMMA ReleaseStepInvariant == ASSUME IInv, NEW t \in Threads, ReleaseStep(t) PROVE IInv'
<1>1. CASE racers = {}
  BY <1>1, CalmRelease
<1>2. CASE racers # {}
  <2>1. ~Idle(t)
    BY DEF ReleaseStep, ReleaseWord, ReleaseFirst, ReleaseFails, ReleaseLast, ReleaseLastFails,
           RestoreLast, RestoreFirst, Goto, Idle
  <2>2. Race /\ t \in racers
    BY <1>2, <2>1, RacersRelease DEF IInv
  <2>3. CASE expected = 0 /\ \E u \in Threads : UnheldRace(u)
    <3>1. UnheldRace(t)
      BY <2>2, <2>3 DEF UnheldRace
    <3> QED
      BY <2>3, <3>1, UnheldRaceStep
  <2>4. CASE expected = 1 /\ \E r \in Runs : SameRunRace(r)
    BY <2>2, <2>4, SameRunRaceStep
  <2> QED
    BY <2>2, <2>3, <2>4 DEF Race
<1> QED
  BY <1>1, <1>2

LEMMA StepInvariant == IInv /\ [Next]_vars => IInv'
<1> SUFFICES ASSUME IInv, [Next]_vars PROVE IInv'
  OBVIOUS
<1>1. ASSUME NEW t \in Threads, Step(t) PROVE IInv'
  BY <1>1, AcquireWordInvariant, AcquireFirstInvariant, AcquireFirstFailsInvariant,
     UndoFirstInvariant, AcquireLastInvariant, AcquireLastFailsInvariant, UndoLastInvariant,
     GiveBackInvariant, ReleaseInvariant, ReleaseAgainInvariant, ReleaseUnheldInvariant,
     ReleaseStepInvariant, SearchBeginInvariant, ChunkCheckInvariant, LoadInvariant,
     TakeInvariant, TakeFailsInvariant, SearchFailsInvariant
  DEF Step, ReleaseStep
<1>2. CASE UNCHANGED vars
  <2> USE <1>2 DEF vars, searchVars, raceVars
  <2>1. TypeInv' /\ Control' /\ HeldApart'
    BY DEF IInv, TypeInv, TypeOK, Control, ControlOf, Wanted, HeldApart
  <2>2. Calm' = Calm
    BY DEF Calm, Balanced, Base, InHand
  <2>3. Race' = Race
    <3>1. Cleared' = Cleared /\ Base' = Base
      BY DEF Cleared, Base
    <3>2. \A t \in Threads : UnheldRace(t)' = UnheldRace(t)
      BY <3>1 DEF UnheldRace
    <3>3. \A r \in Runs : SameRunRace(r)' = SameRunRace(r)
      BY <3>1 DEF SameRunRace
    <3> QED
      BY <3>2, <3>3 DEF Race, Idle
  <2> QED
    BY <2>1, <2>2, <2>3 DEF IInv
<1> QED
  BY <1>1, <1>2 DEF Next

\* The invariant of bitblock_set: one owner of every bit that is set while no run is released
\* twice, and the states a race of releases goes through.
THEOREM Invariance == Spec => []IInv
BY InitInvariant, StepInvariant, PTL DEF Spec

\* acquire, release and the searches: no two callers own a bit, and no call that fails or is
\* undone leaves a bit set.
THEOREM AccountedHolds == Spec => []Accounted
<1>1. ASSUME IInv PROVE Accounted
  <2>1. TypeOK
    BY <1>1 DEF IInv, TypeInv
  <2>2. ASSUME racers = {} PROVE Balanced /\ HeldApart
    BY <1>1, <2>2 DEF IInv, Calm
  <2>3. Balanced => acquired = (Tail \cup UNION held) \cup UNION {InHand(t) : t \in Threads}
    <3>1. Base = Tail \cup UNION held
      BY DEF Base
    <3> QED
      BY <3>1, Zenon DEF Balanced
  <2> QED
    BY <2>1, <2>2, <2>3 DEF Balanced, Base, HeldApart, Accounted
<1> QED
  BY <1>1, Invariance, PTL

\* release: of the threads that release one run at once, one succeeds; of those that release
\* a run that is not wholly set, none.
THEOREM OneRaceWinnerHolds == Spec => []OneRaceWinner
<1>1. ASSUME IInv PROVE OneRaceWinner
  <2>1. CASE racers = {}
    BY <1>1, <2>1 DEF IInv, TypeInv, Calm, OneRaceWinner
  <2>2. CASE racers # {}
    <3>1. Race /\ wins \in {0, 1}
      BY <1>1, <2>2 DEF IInv, TypeInv
    <3> QED
      BY <2>2, <3>1 DEF Race, UnheldRace, OneRaceWinner
  <2> QED
    BY <2>1, <2>2
<1> QED
  BY <1>1, Invariance, PTL

\* release, against the undo of a failed acquire and the restore of a failed release: whoever
\* alone releases the run it held finds all its bits set.
THEOREM HolderCanReleaseHolds == Spec => HolderCanRelease
<1>1. IInv /\ [Next]_vars => [\A t \in Threads : ReleaseFails(t) \/ ReleaseLastFails(t) => t \in racers]_vars
  <2> SUFFICES ASSUME IInv, NEW t \in Threads, ReleaseFails(t) \/ ReleaseLastFails(t) PROVE t \in racers
    OBVIOUS
  <2>1. CASE racers = {}
    BY <2>1, CalmRelease DEF ReleaseStep
  <2>2. CASE racers # {}
    BY <2>2, RacersRelease DEF ReleaseFails, ReleaseLastFails, Goto, Idle
  <2> QED
    BY <2>1, <2>2
<1> QED
  BY <1>1, Invariance, PTL DEF Spec, HolderCanRelease
=============================================================================
