---------------------------- MODULE RandomDraws ----------------------------
(***************************************************************************)
(* What surrounds the random engines (include/__random): seed_seq, which   *)
(* spreads a few seeds over any number of words, and                       *)
(* uniform_int_distribution, which makes an engine's outputs into numbers  *)
(* of an interval.                                                         *)
(*                                                                         *)
(* A word of the seed sequence stands for the set of the seeds that went   *)
(* into it; an engine output is one of its equally likely values.          *)
(***************************************************************************)
EXTENDS Integers, FiniteSets

CONSTANTS
    Fills,              \* pairs <<seeds given, words wanted>>
    MaxValues,          \* MAX_VALUES: seeds that are kept
    Intervals,          \* triples <<a, b, engine_range>>
    ResultModulus,      \* 2^w of the signed result_type
    EngineModulus       \* 2^w of engine_result_type

VARIABLES
    task,               \* a member of Fills or Intervals
    round,              \* k of generate's loops
    first               \* the words being filled

vars == <<task, round, first>>

-----------------------------------------------------------------------------
(* seed_seq::generate                                                      *)

IsFill == task \in Fills

Least(x, y) == IF x < y THEN x ELSE y

\* Seeds, and words.
s == Least(task[1], MaxValues)
n == task[2]

t == IF n >= 623 THEN 11 ELSE IF n >= 68 THEN 7 ELSE IF n >= 39 THEN 5 ELSE IF n >= 7 THEN 3 ELSE (n - 1) \div 2
p == (n - t) \div 2
q == p + t
m == IF s + 1 > n THEN s + 1 ELSE n

\* The places one round reads and writes.
kn == round % n
kpn == (round + p) % n
kqn == (round + q) % n
km1n == (round + n - 1) % n

\* Exclusive or: a word met twice cancels.
Xor3(i, j, l) ==
    CASE i = j -> first[l] [] j = l /\ i # j -> first[i] [] i = l /\ i # j -> first[j]
      [] i # j /\ j # l /\ i # l -> first[i] \cup first[j] \cup first[l]

\* r1 and r2 of a round of the first loop, which takes in one seed a round.
R1 == Xor3(kn, kpn, km1n)
R2 == R1 \cup (IF round \in 1..s THEN {round} ELSE {})

\* r3, which is r4 but for a number, of a round of the second loop.
R3 == first[kn] \cup first[kpn] \cup first[km1n]

\* The words at kpn and kqn are changed, in this order, and the one at kn replaced.
Stored(old, plus, value) ==
    LET one == [old EXCEPT ![kpn] = @ \cup plus]
        two == [one EXCEPT ![kqn] = @ \cup value]
    IN  [two EXCEPT ![kn] = value]

TakeSeeds ==
    /\ IsFill
    /\ round < m
    /\ first' = Stored(first, R1, R2)
    /\ round' = round + 1
    /\ UNCHANGED task

\* r3 and r4 go in by exclusive or: in the place 0, where they are the same, they cancel if they
\* meet in one word, as they do when two words are wanted.
MixWords ==
    /\ IsFill
    /\ round \in m..(m + n - 1)
    /\ first' = IF kpn = kqn /\ kn = 0 THEN [first EXCEPT ![kn] = R3] ELSE Stored(first, R3, R3)
    /\ round' = round + 1
    /\ UNCHANGED task

-----------------------------------------------------------------------------
(* uniform_int_distribution                                                *)

a == task[1]
b == task[2]
engineRange == task[3]

\* b - a in the unsigned type.
Range == (b - a) % ResultModulus

\* Mutant: nothing is drawn again.
ThresholdNone == 0

\* One engine output is enough: values below the threshold are drawn again.
RangePlusOne == Range + 1
Threshold == (engineRange - Range) % RangePlusOne

\* The outputs, or pairs of a uniform high part and an output, that one try draws.
Tries == IF Range <= engineRange THEN {<<0, r>> : r \in 0..engineRange}
         ELSE (0..(Range \div (engineRange + 1))) \X (0..engineRange)

High(try) == ((engineRange + 1) * try[1]) % EngineModulus
Combined(try) == (High(try) + try[2]) % EngineModulus

Accepted(try) ==
    CASE Range = engineRange -> TRUE
      [] Range < engineRange -> try[2] >= Threshold
      [] Range > engineRange -> Combined(try) <= Range /\ Combined(try) >= High(try)

Drawn(try) ==
    CASE Range = engineRange -> try[2]
      [] Range < engineRange -> try[2] % RangePlusOne
      [] Range > engineRange -> Combined(try)

\* a is added in the unsigned type and the sum read as a signed number.
Generated(try) ==
    LET sum == (Drawn(try) + a) % ResultModulus
    IN  IF Range = 0 THEN a ELSE IF sum >= ResultModulus \div 2 THEN sum - ResultModulus ELSE sum

-----------------------------------------------------------------------------
Init ==
    /\ task \in Fills \cup Intervals
    /\ round = 0
    /\ first = IF IsFill THEN [i \in 0..(n - 1) |-> {}] ELSE <<>>

Next == TakeSeeds \/ MixWords

Spec == Init /\ [][Next]_vars

-----------------------------------------------------------------------------
\* Every seed that is kept reaches every word, however few or many words are wanted: engines
\* seeded alike but for one seed start in different states (seed_seq::generate).
SeedsReachEveryWord ==
    IsFill /\ round = m + n => \A i \in 0..(n - 1) : first[i] = 1..s

\* A distribution is fair: every number of the interval is the result of equally many of the
\* tries that are kept, none lies outside, and more than half are kept where one output is
\* enough (uniform_int_distribution::draw, for engines narrower and wider than the interval).
Fair ==
    ~IsFill =>
        LET kept == {try \in Tries : Accepted(try)}
            Copies(v) == Cardinality({try \in kept : Generated(try) = v})
        IN  /\ \A try \in kept : Generated(try) \in a..b
            /\ \A v \in a..b : Copies(v) = Copies(a) /\ Copies(v) > 0
            /\ Range <= engineRange => 2 * Cardinality(kept) > Cardinality(Tries)
=============================================================================
