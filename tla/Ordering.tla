------------------------------ MODULE Ordering ------------------------------
(***************************************************************************)
(* Comparison (include/__compare, and the relations of pair): the three    *)
(* categories of result, their conversions and comparisons with 0, the     *)
(* orders of floating-point numbers with their zeros and NaNs, what stands *)
(* in for a missing <=>, and the common category of several.               *)
(*                                                                         *)
(* A float is its bits, read as an unsigned number: a sign, an exponent    *)
(* and a mantissa of two bits each.  For floats of one sign that are       *)
(* numbers the order of the bits is the order of the values (IEEE 754).    *)
(***************************************************************************)
EXTENDS Integers

CONSTANT Trios          \* triples of floats to compare

VARIABLE trio

SignBit == 16
Floats == 0..31

-----------------------------------------------------------------------------
(* Results of a comparison: a category, and a value encoded as in the code *)

Less == -1
Equivalent == 0
Greater == 1
Unordered == -127

Result(category, value) == [category |-> category, value |-> value]

Sign(n) == IF n < 0 THEN Less ELSE IF n > 0 THEN Greater ELSE Equivalent

AsPartial(r) == Result("partial", IF r.category = "partial" THEN r.value ELSE Sign(r.value))
AsWeak(r) == Result("weak", IF r.category = "weak" THEN r.value ELSE Sign(r.value))

\* r op 0.  A partial result is compared with the named values, the others as numbers.
HoldsPartial(r, op) ==
    CASE op = "==" -> r.value = Equivalent
      [] op = "<" -> r.value = Less
      [] op = "<=" -> r.value = Equivalent \/ r.value = Less
      [] op = ">" -> r.value = Greater
      [] op = ">=" -> r.value = Equivalent \/ r.value = Greater

HoldsRanked(r, op) ==
    CASE op = "==" -> r.value = 0
      [] op = "<" -> r.value < 0
      [] op = "<=" -> r.value <= 0
      [] op = ">" -> r.value > 0
      [] op = ">=" -> r.value >= 0

Holds(r, op) == IF r.category = "partial" THEN HoldsPartial(r, op) ELSE HoldsRanked(r, op)

\* 0 op r.
PartialSwapped(op, r) ==
    CASE op = "==" -> r.value = Equivalent
      [] op = "<" -> r.value = Greater
      [] op = "<=" -> r.value = Equivalent \/ r.value = Greater
      [] op = ">" -> r.value = Less
      [] op = ">=" -> r.value = Equivalent \/ r.value = Less

RankedSwapped(op, r) ==
    CASE op = "==" -> r.value = 0
      [] op = "<" -> 0 < r.value
      [] op = "<=" -> 0 <= r.value
      [] op = ">" -> 0 > r.value
      [] op = ">=" -> 0 >= r.value

HoldsSwapped(op, r) == IF r.category = "partial" THEN PartialSwapped(op, r) ELSE RankedSwapped(op, r)

\* 0 <=> r.
Reversed(r) ==
    IF Holds(r, "<") THEN Result(r.category, Greater)
    ELSE IF Holds(r, ">") THEN Result(r.category, Less) ELSE r

-----------------------------------------------------------------------------
(* Floats                                                                  *)

IsNegative(f) == f >= SignBit
IsNan(f) == f % SignBit > 12

\* A place on the number line; the zeros share theirs.
Value(f) == IF IsNegative(f) THEN -(f % SignBit) ELSE f

\* The <=> of the language.
ThreeWay(t, u) ==
    Result("partial", IF IsNan(t) \/ IsNan(u) THEN Unordered ELSE Sign(Value(t) - Value(u)))

LessThan(t, u) == ThreeWay(t, u).value = Less
EqualTo(t, u) == ThreeWay(t, u).value = Equivalent

\* The bits as a signed number, turned round below zero: the total order of IEEE 754.
Ordered(f) ==
    LET bits == IF f >= SignBit THEN f - 2 * SignBit ELSE f
    IN  IF bits < 0 THEN -SignBit - bits - 1 ELSE bits

StrongOrder(t, u) == Result("strong", Sign(Ordered(t) - Ordered(u)))

BooleanOrder(a, b) == CASE a = b -> Equivalent [] a /\ ~b -> Greater [] b /\ ~a -> Less

\* Mutant: NaNs all last.
WeakOrderLast(t, u) ==
    LET po == ThreeWay(t, u)
    IN  Result("weak",
            IF po.value # Unordered THEN po.value
            ELSE IF IsNan(t) THEN Greater ELSE Less)

\* NaNs go to the ends, by their sign, and are alike.
WeakOrder(t, u) ==
    LET po == ThreeWay(t, u)
    IN  Result("weak",
            IF po.value # Unordered THEN po.value
            ELSE IF IsNan(t) /\ IsNan(u) THEN BooleanOrder(IsNegative(u), IsNegative(t))
            ELSE IF IsNan(t) THEN (IF IsNegative(t) THEN Less ELSE Greater)
            ELSE IF IsNegative(u) THEN Greater ELSE Less)

PartialOrder(t, u) == AsPartial(ThreeWay(t, u))

-----------------------------------------------------------------------------
(* Where a type has only == and <                                          *)

StrongOrderFallback(equal, less) ==
    Result("strong", IF equal THEN Equivalent ELSE IF less THEN Less ELSE Greater)
WeakOrderFallback(equal, less) ==
    Result("weak", IF equal THEN Equivalent ELSE IF less THEN Less ELSE Greater)
PartialOrderFallback(equal, less, greater) ==
    Result("partial", IF equal THEN Equivalent ELSE IF less THEN Less
                      ELSE IF greater THEN Greater ELSE Unordered)
SynthThreeWay(less, greater) ==
    Result("weak", IF less THEN Less ELSE IF greater THEN Greater ELSE Equivalent)

Categories == {"partial", "weak", "strong"}

\* The strongest category all of them convert to.
CommonCategory(categories) ==
    IF categories \ Categories # {} THEN "none"
    ELSE IF "partial" \in categories THEN "partial"
    ELSE IF "weak" \in categories THEN "weak" ELSE "strong"

\* Pairs, each relation as the code derives it.
PairLess(p, q) ==
    IF LessThan(p[1], q[1]) THEN TRUE
    ELSE IF LessThan(q[1], p[1]) THEN FALSE ELSE LessThan(p[2], q[2])
PairGreater(p, q) == PairLess(q, p)
PairAtMost(p, q) == ~PairLess(q, p)
PairAtLeast(p, q) == ~PairLess(p, q)
PairEqual(p, q) == EqualTo(p[1], q[1]) /\ EqualTo(p[2], q[2])

-----------------------------------------------------------------------------
Init == trio \in Trios
Spec == Init /\ [][FALSE]_trio

Orders == {ThreeWay(t, u) : t, u \in {trio[1], trio[2], trio[3]}}
              \cup {StrongOrder(trio[1], trio[2]), WeakOrder(trio[1], trio[2])}

\* Six relations, swapping sides and converting say the same of one result, and only an
\* unordered one satisfies none of them.
ResultsAgree ==
    \A r \in Orders :
        /\ Holds(r, "<=") = (Holds(r, "<") \/ Holds(r, "=="))
        /\ Holds(r, ">=") = (Holds(r, ">") \/ Holds(r, "=="))
        /\ (Holds(r, "<") \/ Holds(r, ">") \/ Holds(r, "==")) = (r.value # Unordered)
        /\ \A op \in {"==", "<", "<=", ">", ">="} :
               /\ HoldsSwapped(op, r) = Holds(Reversed(r), op)
               /\ Holds(AsPartial(r), op) = Holds(r, op)
               /\ r.category = "strong" => Holds(AsWeak(r), op) = Holds(r, op)
        /\ Reversed(Reversed(r)) = r

\* order is transitive, and comparing the other way round gives the reversed result.
IsOrder(order(_, _)) ==
    LET x == trio[1] y == trio[2] z == trio[3]
    IN  /\ order(y, x) = Reversed(order(x, y))
        /\ Holds(order(x, x), "==")
        /\ Holds(order(x, y), "<") /\ Holds(order(y, z), "<=") => Holds(order(x, z), "<")
        /\ Holds(order(x, y), "==") => order(x, z) = order(y, z)

\* The strong order is total and tells all bits apart, the weak one merges the zeros and the
\* NaNs of a sign, each refines the next, and the fallbacks agree with what they stand in for.
OrdersAreLawful ==
    LET x == trio[1] y == trio[2] z == trio[3]
        numbers == ~IsNan(x) /\ ~IsNan(y) /\ ~IsNan(z)
        p == <<x, y>> q == <<y, z>> r == <<z, x>>
    IN  /\ ResultsAgree
        /\ IsOrder(StrongOrder)
        /\ IsOrder(WeakOrder)
        /\ Holds(StrongOrder(x, y), "==") = (x = y)
        /\ Holds(WeakOrder(x, y), "<") => Holds(StrongOrder(x, y), "<")
        /\ PartialOrder(x, y).value # Unordered => AsPartial(WeakOrder(x, y)) = PartialOrder(x, y)
        /\ PartialOrderFallback(EqualTo(x, y), LessThan(x, y), LessThan(y, x)) = PartialOrder(x, y)
        /\ numbers =>
              /\ WeakOrderFallback(EqualTo(x, y), LessThan(x, y)) = WeakOrder(x, y)
              /\ SynthThreeWay(LessThan(x, y), LessThan(y, x)) = WeakOrder(x, y)
              /\ AsWeak(StrongOrderFallback(EqualTo(x, y), LessThan(x, y))) = WeakOrder(x, y)
        \* pairs of numbers are in a total order
        /\ numbers =>
              /\ PairLess(p, q) /\ PairAtMost(q, r) => PairLess(p, r)
              /\ PairAtMost(p, q) /\ PairAtLeast(p, q) <=> PairEqual(p, q)
              /\ PairGreater(p, q) = ~PairAtMost(p, q)
        \* a result of any of the categories converts to the common one and to no stronger
        /\ \A c \in SUBSET Categories :
              LET common == CommonCategory(c)
                  Strength(k) == CASE k = "partial" -> 1 [] k = "weak" -> 2 [] k = "strong" -> 3
              IN  /\ \A k \in c : Strength(common) <= Strength(k)
                  /\ common \in c \/ c = {}
=============================================================================
