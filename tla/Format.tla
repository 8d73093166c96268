------------------------------- MODULE Format -------------------------------
(***************************************************************************)
(* Text formatting: format() copies a format string into a buffer and      *)
(* replaces each placeholder by its argument, rendered as the placeholder  *)
(* says (src/format.cpp, src/format_formatters.cpp).                       *)
(*                                                                         *)
(* Text is a sequence of characters, each a string of one.  An input is a  *)
(* list of pieces that are known before they are written down as a format  *)
(* string: the model parses that string as the code does, and what ends in *)
(* the buffer is compared with what the pieces mean.  The two messages for *)
(* an unusable placeholder stand for one character.                        *)
(***************************************************************************)
EXTENDS Integers, Sequences, SequencesExt, FiniteSetsExt

CONSTANTS
    Inputs,             \* records [pieces, args, capacity]; capacity is the buffer's
    SpecCapacity,       \* characters of a placeholder that are kept: 32
    MaxCount,           \* the largest width, precision or argument number: 2^32 - 1
    IntModulus,         \* 2^w for the integers of w bits
    MaxDecimals,        \* decimals of a float that are computed: 19
    MantissaBits,       \* of a double: 53
    FractionLimit,      \* a mantissa over 2^this is too small to show: 128
    BigBits,            \* floats from 2^this on do not fit an integer: 64
    LeadingDigits,      \* digits computed of such a float: 17
    ExactPower          \* the largest power of ten that is a double: 22

VARIABLES
    input,              \* one of Inputs
    at,                 \* the next character of the format string
    index,              \* format_placeholder_index, from 1
    buffer

vars == <<input, at, index, buffer>>

None == -1
Invalid == -2

LowerDigits == <<"0", "1", "2", "3", "4", "5", "6", "7", "8", "9", "a", "b", "c", "d", "e", "f">>
UpperDigits == SubSeq(LowerDigits, 1, 10) \o <<"A", "B", "C", "D", "E", "F">>

IsDigit(c) == c \in {LowerDigits[i] : i \in 1..10}
DigitOf(c) == CHOOSE n \in 0..9 : LowerDigits[n + 1] = c

CharAt(text, i) == IF i \in DOMAIN text THEN text[i] ELSE ""

\* The first place from i on where text has the character c; past the end if none.
Find(text, i, c) == Min({j \in i..Len(text) : text[j] = c} \cup {Len(text) + 1})

Repeated(c, count) == [i \in 1..count |-> c]

\* What a buffer of that capacity holds once text is appended: the end is lost.
Kept(text, capacity) == SubSeq(text, 1, Min({Len(text), capacity}))

-----------------------------------------------------------------------------
(* Parsing a placeholder                                                   *)

\* A number read digit by digit: refused when it might not fit.
Accumulated(run) ==
    FoldLeft(LAMBDA n, c : IF n = Invalid \/ n > (MaxCount - 9) \div 10 THEN Invalid
                           ELSE (IF n = None THEN 0 ELSE n * 10) + DigitOf(c),
             None, run)

\* The digits that stand at i.
DigitsAt(text, i) ==
    LET end == Min({j \in i..(Len(text) + 1) : ~IsDigit(CharAt(text, j))})
    IN  SubSeq(text, i, end - 1)

\* None when the next argument is meant, Invalid when it is no number.
ParseArgId(spec) ==
    LET id == SubSeq(spec, 1, Find(spec, 1, ":") - 1)
    IN  IF DigitsAt(id, 1) = id THEN Accumulated(id) ELSE Invalid

NoOptions == [width |-> None, precision |-> None, fill |-> "", alignment |-> "", alt |-> "",
              sign |-> "", zero |-> "", type |-> "", base |-> None]

AlignmentOf == [c \in {"<", ">", "^"} |->
                    CASE c = "<" -> "left" [] c = ">" -> "right" [] c = "^" -> "center"]

\* A parse in progress: the next character, whether all is well, the options so far.
ParseAlignmentAndFill(spec, p) ==
    LET Aligned(place) == [p EXCEPT !.at = place + 1, !.o.zero = "no",
                                    !.o.alignment = AlignmentOf[spec[place]]]
    IN  IF CharAt(spec, p.at + 1) \in DOMAIN AlignmentOf
        THEN IF spec[p.at] = "{" THEN [p EXCEPT !.ok = FALSE]
             ELSE [Aligned(p.at + 1) EXCEPT !.o.fill = spec[p.at]]
        ELSE IF CharAt(spec, p.at) \in DOMAIN AlignmentOf THEN Aligned(p.at)
        ELSE [p EXCEPT !.ok = \A i \in p.at..Len(spec) : spec[i] \notin DOMAIN AlignmentOf]

SignOf == [c \in {"+", "-", " "} |->
                CASE c = "+" -> "plus" [] c = "-" -> "minus" [] c = " " -> "space"]

ParseSignSpecifier(spec, p) ==
    IF CharAt(spec, p.at) \in DOMAIN SignOf
    THEN [p EXCEPT !.at = @ + 1, !.o.sign = SignOf[spec[p.at]]] ELSE p

ParseAlt(spec, p) ==
    IF CharAt(spec, p.at) = "#" THEN [p EXCEPT !.at = @ + 1, !.o.alt = "yes"] ELSE p

\* Zeros do not fill beside an explicit alignment.
ParseZero(spec, p) ==
    IF CharAt(spec, p.at) = "0"
    THEN [p EXCEPT !.at = @ + 1, !.o.zero = IF p.o.alignment = "" THEN "yes" ELSE "no"] ELSE p

ParseWidth(spec, p) ==
    LET run == DigitsAt(spec, p.at)
    IN  [p EXCEPT !.at = @ + Len(run), !.ok = @ /\ Accumulated(run) # Invalid,
                  !.o.width = Accumulated(run)]

ParsePrecision(spec, p) ==
    LET run == DigitsAt(spec, p.at + 1)
    IN  IF CharAt(spec, p.at) # "." THEN p
        ELSE [p EXCEPT !.at = @ + 1 + Len(run), !.ok = @ /\ Accumulated(run) # Invalid,
                       !.o.precision = Accumulated(run)]

ParseTypeSpecifier(spec, p) ==
    LET c == CharAt(spec, p.at)
        base == CASE c = "d" -> 10 [] c \in {"x", "X", "p"} -> 16 [] c \in {"b", "B"} -> 2
                  [] c = "o" -> 8 [] OTHER -> p.o.base
    IN  IF c = "" THEN p
        ELSE [p EXCEPT !.o.base = base, !.o.type = IF c = "p" THEN "X" ELSE c]

\* The options a placeholder asks for; its argument number is skipped.
ParseArgFormatString(spec) ==
    LET start == [at |-> Find(spec, 1, ":") + 1, ok |-> TRUE, o |-> NoOptions]
        aligned == ParseAlignmentAndFill(spec, start)
    IN  IF start.at > Len(spec) THEN start
        ELSE IF ~aligned.ok THEN aligned
        ELSE ParseTypeSpecifier(spec, ParsePrecision(spec, ParseWidth(spec,
                 ParseZero(spec, ParseAlt(spec, ParseSignSpecifier(spec, aligned))))))

DefaultsOf(arg) ==
    CASE arg.kind = "integer" -> [NoOptions EXCEPT !.fill = " ", !.alignment = "right",
                                      !.sign = "minus", !.base = 10]
      [] arg.kind = "float" -> [NoOptions EXCEPT !.fill = " ", !.alignment = "right",
                                    !.sign = "minus", !.base = 10, !.precision = 4]
      [] arg.kind = "pointer" -> [NoOptions EXCEPT !.fill = " ", !.alignment = "left", !.width = 18,
                                      !.alt = "yes", !.zero = "yes", !.type = "X", !.base = 16]
      [] OTHER -> [NoOptions EXCEPT !.fill = " ", !.alignment = "left"]

\* Whatever the placeholder leaves open.
MergeDefaults(o, defaults) ==
    [f \in DOMAIN o |-> IF o[f] = NoOptions[f] THEN defaults[f] ELSE o[f]]

-----------------------------------------------------------------------------
(* Rendering an argument                                                   *)

IntegerPrefix(o, isZero) ==
    IF o.alt # "yes" THEN <<>>
    ELSE CASE o.type \in {"b", "B", "x", "X"} -> <<"0", o.type>>
           [] o.type = "o" /\ ~isZero -> <<"0">>
           [] OTHER -> <<>>

DetermineSign(isNegative, o) ==
    CASE isNegative -> <<"-">>
      [] ~isNegative /\ o.sign = "plus" -> <<"+">>
      [] ~isNegative /\ o.sign = "space" -> <<" ">>
      [] OTHER -> <<>>

\* The digits of a value, most significant first.
AppendDigits(value, base, digits) ==
    LET Rest[v \in 0..value] ==
            IF v = 0 THEN <<>> ELSE Append(Rest[v \div base], digits[(v % base) + 1])
    IN  IF value = 0 THEN <<digits[1]>> ELSE Rest[value]

\* A number with its fill: before the sign, between the prefix and the digits, or after.
EmitNumber(number, o) ==
    LET fill == IF o.fill # "" /\ o.zero # "yes" THEN o.fill ELSE " "
        length == Len(number.sign) + Len(number.prefix) + Len(number.digits)
        count == Max({0, o.width - length})
        zeros == IF o.zero = "yes" /\ number.finite THEN count ELSE 0
        before == CASE zeros > 0 -> 0
                    [] zeros = 0 /\ (o.zero = "yes" \/ o.alignment = "right") -> count
                    [] zeros = 0 /\ o.zero # "yes" /\ o.alignment = "center" -> count \div 2
                    [] OTHER -> 0
    IN  Repeated(fill, before) \o number.sign \o number.prefix \o Repeated("0", zeros)
            \o number.digits \o Repeated(fill, count - zeros - before)

\* The magnitude of a negative value is taken in the unsigned type.
IntToText(value, o) ==
    LET magnitude == IF value < 0 THEN (0 - (value % IntModulus)) % IntModulus ELSE value
        digits == IF o.type \in {"X", "B"} THEN UpperDigits ELSE LowerDigits
    IN  EmitNumber([sign |-> DetermineSign(value < 0, o), prefix |-> IntegerPrefix(o, magnitude = 0),
                    digits |-> AppendDigits(magnitude, o.base, digits), finite |-> TRUE], o)

\* A float is m * 2^x, its mantissa m of MantissaBits bits or 0.
\* The double nearest to n / d * 2^x, the even one of two: how * and / round.
NearestDouble(n, d, x) ==
    LET shift == CHOOSE k \in 0..(2 * MantissaBits) :
            (n * (2 ^ k)) \div d \in (2 ^ (MantissaBits - 1))..(2 ^ MantissaBits - 1)
        kept == (n * (2 ^ shift)) \div d
        remainder == (n * (2 ^ shift)) % d
        m == IF 2 * remainder > d \/ (2 * remainder = d /\ kept % 2 = 1) THEN kept + 1 ELSE kept
    IN  IF m = 2 ^ MantissaBits THEN [m |-> m \div 2, x |-> x - shift + 1] ELSE [m |-> m, x |-> x - shift]

Units(a) == IF a.x >= 0 THEN a.m * (2 ^ a.x) ELSE a.m \div (2 ^ (-a.x))

\* What is behind the units, a double as well.
Fraction(a) ==
    LET rest == IF a.x >= 0 THEN 0 ELSE a.m % (2 ^ (-a.x))
    IN  IF rest = 0 THEN [m |-> 0, x |-> 0] ELSE NearestDouble(rest, 1, a.x)

\* A float's units and that many decimals: the nearest, to the even one when two are.
\* Mutant: ties away from zero.
RoundedDecimalsUp(a, count) ==
    LET f == Fraction(a)
        product == f.m * (10 ^ count)
        decimals == IF -f.x >= FractionLimit THEN 0
                    ELSE (2 * product + 2 ^ (-f.x)) \div (2 * (2 ^ (-f.x)))
    IN  IF decimals = 10 ^ count THEN <<Units(a) + 1, 0>> ELSE <<Units(a), decimals>>

RoundedDecimals(a, count) ==
    LET f == Fraction(a)
        one == 2 ^ (-f.x)
        product == f.m * (10 ^ count)
        remainder == product % one
        kept == product \div one
        lastDigit == IF count > 0 THEN kept ELSE Units(a)
        up == 2 * remainder > one \/ (2 * remainder = one /\ lastDigit % 2 = 1)
        decimals == IF -f.x >= FractionLimit THEN 0 ELSE IF up THEN kept + 1 ELSE kept
    IN  IF decimals = 10 ^ count THEN <<Units(a) + 1, 0>> ELSE <<Units(a), decimals>>

Quotient(a, b) == NearestDouble(a.m, b.m, a.x - b.x)

\* 1 multiplied by ten, that often.
PowerOfTen[k \in Nat] ==
    IF k = 0 THEN NearestDouble(1, 1, 0)
    ELSE LET last == PowerOfTen[k - 1] IN NearestDouble(last.m * 10, 16, last.x + 4)

\* a >= b, of doubles.
AtLeast(a, b) == a.x > b.x \/ (a.x = b.x /\ a.m >= b.m)

\* The digits that are left out: powers are tried until the quotient has LeadingDigits.
Exponent(a) ==
    CHOOSE k \in 0..400 :
        /\ ~AtLeast(Quotient(a, PowerOfTen[k]), PowerOfTen[LeadingDigits])
        /\ k = 0 \/ AtLeast(Quotient(a, PowerOfTen[k - 1]), PowerOfTen[LeadingDigits])

\* The exponent is divided out in powers that are exact.
Scaled(a) ==
    LET steps == Repeated(ExactPower, Exponent(a) \div ExactPower) \o <<Exponent(a) % ExactPower>>
    IN  FoldLeft(LAMBDA scaled, step : Quotient(scaled, PowerOfTen[step]), a, steps)

\* The leading digits and zeros for the others.  What the divisions leave is wider than the
\* mantissa, so a whole number, and the half that is added to it is lost.
LeadingOnly(a) == AppendDigits(Units(Scaled(a)), 10, LowerDigits) \o Repeated("0", Exponent(a))

IsLarge(a) == a.x + MantissaBits > BigBits

\* A float may also be inf or nan.
FloatToText(arg, o) ==
    LET precision == IF o.precision = None THEN 0 ELSE o.precision
        computed == IF IsLarge(arg) THEN 0 ELSE Min({precision, MaxDecimals})
        rounded == RoundedDecimals(arg, computed)
        decimals == [i \in 1..computed |->
                        LowerDigits[((rounded[2] \div (10 ^ (computed - i))) % 10) + 1]]
        whole == IF IsLarge(arg) THEN LeadingOnly(arg) ELSE AppendDigits(rounded[1], 10, LowerDigits)
        digits == IF precision = 0 THEN whole
                  ELSE whole \o <<".">> \o decimals \o Repeated("0", precision - computed)
    IN  EmitNumber([sign |-> DetermineSign(arg.negative, o), prefix |-> <<>>,
                    digits |-> IF arg.special # <<>> THEN arg.special ELSE digits,
                    finite |-> arg.special = <<>>], o)

\* A precision is the most characters of a text to print.
FormattedStringAppend(text, o) ==
    LET shown == IF o.precision # None THEN Kept(text, o.precision) ELSE text
        count == Max({0, o.width - Len(shown)})
        before == CASE o.alignment = "right" -> count
                    [] o.alignment = "center" -> count \div 2
                    [] OTHER -> 0
    IN  Repeated(o.fill, before) \o shown \o Repeated(o.fill, count - before)

AppendInternal(arg, o) ==
    CASE arg.kind = "float" -> FloatToText(arg, o)
      [] arg.kind \in {"integer", "pointer"} -> IntToText(arg.value, o)
      [] OTHER -> FormattedStringAppend(arg.text, o)

InvalidMark == <<"{Invalid format string}">>
RangeMark == <<"{Argument position out of range}">>

\* What an argument puts in the buffer for a placeholder.
Rendered(arg, spec) ==
    LET p == ParseArgFormatString(spec)
    IN  IF p.ok THEN AppendInternal(arg, MergeDefaults(p.o, DefaultsOf(arg))) ELSE InvalidMark

-----------------------------------------------------------------------------
(* What a format string is written from                                    *)

\* A text has its braces doubled; a placeholder names its argument, then its options;
\* a raw piece is written as it stands.
Written(piece) ==
    CASE piece.kind = "text" ->
            FlattenSeq([i \in DOMAIN piece.text |->
                IF piece.text[i] \in {"{", "}"} THEN <<piece.text[i], piece.text[i]>> ELSE <<piece.text[i]>>])
      [] piece.kind = "raw" -> piece.text
      [] piece.kind = "placeholder" ->
            LET o == piece.options
                Shown(flag, c) == IF flag THEN <<c>> ELSE <<>>
                Number(n) == IF n = None THEN <<>> ELSE AppendDigits(n, 10, LowerDigits)
                spec == Shown(o.fill # "", o.fill) \o Shown(o.align # "", o.align)
                            \o Shown(o.sign # "", o.sign) \o Shown(o.alt, "#") \o Shown(o.zero, "0")
                            \o Number(o.width) \o Shown(o.precision # None, ".") \o Number(o.precision)
                            \o Shown(o.type # "", o.type)
            IN  <<"{">> \o Number(piece.id) \o Shown(spec # <<>>, ":") \o spec \o <<"}">>

FormatString == FlattenSeq([i \in DOMAIN input.pieces |-> Written(input.pieces[i])])

-----------------------------------------------------------------------------
(* BuildFormatOutput, one action for each round of its loop                *)

Running == at <= Len(FormatString)

OpeningBrace == Find(FormatString, at, "{")

\* Literal text up to the brace; two closing braces are one.
LiteralText ==
    LET text == SubSeq(FormatString, at, OpeningBrace - 1)
        From[j \in 1..(Len(text) + 1)] ==
            IF j > Len(text) THEN <<>>
            ELSE <<text[j]>> \o From[IF text[j] = "}" /\ CharAt(text, j + 1) = "}" THEN j + 2 ELSE j + 1]
    IN  From[1]

ClosingBrace == Find(FormatString, OpeningBrace + 1, "}")

\* What the argument buffer keeps of the placeholder.
ArgumentFormat == Kept(SubSeq(FormatString, OpeningBrace + 1, ClosingBrace - 1), SpecCapacity)

EscapesBrace == CharAt(FormatString, OpeningBrace + 1) = "{"

Emit(text) == buffer' = Kept(buffer \o LiteralText \o text, input.capacity)

Init ==
    /\ input \in Inputs
    /\ at = 1
    /\ index = 0
    /\ buffer = <<>>

EscapedBrace ==
    /\ Running
    /\ EscapesBrace
    /\ Emit(<<"{">>)
    /\ at' = OpeningBrace + 2
    /\ UNCHANGED <<input, index>>

Finish ==
    /\ Running
    /\ ~EscapesBrace
    /\ ClosingBrace > Len(FormatString)
    /\ Emit(<<>>)
    /\ at' = Len(FormatString) + 1
    /\ UNCHANGED <<input, index>>

Placeholder ==
    LET id == ParseArgId(ArgumentFormat)
        position == IF id = None THEN index ELSE id
    IN  /\ Running
        /\ ~EscapesBrace
        /\ ClosingBrace <= Len(FormatString)
        /\ at' = ClosingBrace + 1
        /\ index' = IF id = None THEN index + 1 ELSE index
        /\ Emit(IF id = Invalid THEN InvalidMark
                ELSE IF position >= Len(input.args) THEN RangeMark
                ELSE Rendered(input.args[position + 1], ArgumentFormat))
        /\ UNCHANGED input

Next == EscapedBrace \/ Finish \/ Placeholder

Spec == Init /\ [][Next]_vars

-----------------------------------------------------------------------------
(* What the pieces mean                                                    *)

\* The shortest digits whose places add up to the value.
Numeral(value, base) ==
    LET places == CHOOSE p \in 1..30 : value < base ^ p
    IN  [i \in 1..places |-> (value \div (base ^ (places - i))) % base]

\* text in a field of that width: fill before, after or on both sides.
InField(text, width, fill, align) ==
    LET padding == Max({0, width - Len(text)})
        left == CASE align = "<" -> 0 [] align = ">" -> padding [] align = "^" -> padding \div 2
    IN  Repeated(fill, left) \o text \o Repeated(fill, padding - left)

SignMeant(negative, sign) == IF negative THEN <<"-">> ELSE IF sign \in {"+", " "} THEN <<sign>> ELSE <<>>

\* A number in its field.  Zeros go between its sign or prefix and its digits, unless an
\* alignment is asked for.
NumberMeant(head, digits, o, width, zeros, align) ==
    LET zeroes == IF zeros /\ o.align = "" THEN width - Len(head) - Len(digits) ELSE 0
    IN  InField(head \o Repeated("0", Max({0, zeroes})) \o digits, width,
                IF o.fill = "" THEN " " ELSE o.fill, IF o.align = "" THEN align ELSE o.align)

BaseMeant(type) ==
    CASE type \in {"x", "X", "p"} -> 16 [] type \in {"b", "B"} -> 2 [] type = "o" -> 8 [] OTHER -> 10

\* The type an argument is shown in: an address is shown in capitals unless told otherwise.
TypeMeant(arg, type) ==
    CASE type = "p" -> "X" [] type = "" /\ arg.kind = "pointer" -> "X" [] OTHER -> type

IntegerMeant(arg, o) ==
    LET type == TypeMeant(arg, o.type)
        magnitude == IF arg.value < 0 THEN -arg.value ELSE arg.value
        numeral == Numeral(magnitude, BaseMeant(type))
        prefix == IF ~o.alt /\ arg.kind # "pointer" THEN <<>>
                  ELSE IF type \in {"b", "B", "x", "X"} THEN <<"0", type>>
                  ELSE IF type = "o" /\ arg.value # 0 THEN <<"0">> ELSE <<>>
        digits == [i \in DOMAIN numeral |->
                      IF type = "X" THEN UpperDigits[numeral[i] + 1] ELSE LowerDigits[numeral[i] + 1]]
        isPointer == arg.kind = "pointer"
    IN  NumberMeant(SignMeant(arg.value < 0, o.sign) \o prefix, digits, o,
                    IF isPointer /\ o.width = None THEN 18 ELSE o.width, o.zero \/ isPointer,
                    IF isPointer THEN "<" ELSE ">")

\* The float m * 2^x in units and decimals: the nearest multiple of 10^-count, the even one
\* of two that are.
NearestDecimal(arg, count) ==
    LET one == 2 ^ (-arg.x)
        units == IF arg.x >= 0 THEN arg.m * (2 ^ arg.x) ELSE arg.m \div one
        behind == IF arg.x >= 0 THEN 0 ELSE arg.m % one
        Twice(n) == IF n * one > behind * (10 ^ count) THEN 2 * (n * one - behind * (10 ^ count))
                                                       ELSE 2 * (behind * (10 ^ count) - n * one)
        IsEven(n) == (IF count = 0 THEN units + n ELSE n) % 2 = 0
        floor == (behind * (10 ^ count)) \div one
        nearest == CHOOSE n \in {floor, floor + 1} : Twice(n) < one \/ (Twice(n) = one /\ IsEven(n))
    IN  CASE behind = 0 -> <<units, 0>>
          [] behind # 0 /\ nearest = 10 ^ count -> <<units + 1, 0>>
          [] OTHER -> <<units, nearest>>

\* All the decimal digits of m * 2^x, most significant first: those of m, doubled x times.
ExactDigits(arg) ==
    LET Doubled(digits) ==
            LET At(i) == IF i \in DOMAIN digits THEN digits[i] ELSE 0
                twice == [i \in 1..(Len(digits) + 1) |-> (2 * At(i - 1) + (IF At(i) >= 5 THEN 1 ELSE 0)) % 10]
            IN  SubSeq(twice, IF At(1) >= 5 THEN 1 ELSE 2, Len(digits) + 1)
    IN  FoldLeft(LAMBDA digits, i : Doubled(digits), Numeral(arg.m, 10), [i \in 1..arg.x |-> i])

\* The numbers that may stand for the first digits of a large float, and the zeros behind them:
\* each division by an exact power of ten is wrong by 2^-MantissaBits of the value at most, which
\* may be several units of the last digit.
LeadingMeant(arg) ==
    LET exact == ExactDigits(arg)
        zeros == Len(exact) - LeadingDigits
        first == FoldLeft(LAMBDA n, d : 10 * n + d, 0, SubSeq(exact, 1, LeadingDigits))
        divisions == 1 + (zeros - 1) \div ExactPower
        error == (divisions * (first + 1)) \div (2 ^ MantissaBits)
    IN  {<<n, zeros>> : n \in (first - error)..(first + 1 + error)}

\* leading is what stands for a large float.
FloatMeant(arg, o, leading) ==
    LET precision == IF o.precision = None THEN 4 ELSE o.precision
        decimals == IF IsLarge(arg) THEN 0 ELSE Min({precision, MaxDecimals})
        nearest == NearestDecimal(arg, decimals)
        Text(n) == LET numeral == Numeral(n, 10) IN [i \in DOMAIN numeral |-> LowerDigits[numeral[i] + 1]]
        units == IF IsLarge(arg) THEN Text(leading[1]) \o Repeated("0", leading[2]) ELSE Text(nearest[1])
        shown == [i \in 1..decimals |-> LowerDigits[((nearest[2] \div (10 ^ (decimals - i))) % 10) + 1]]
        digits == units \o (IF precision = 0 THEN <<>> ELSE <<".">> \o shown)
                      \o Repeated("0", precision - decimals)
        sign == SignMeant(arg.negative, o.sign)
    IN  IF arg.special = <<>> THEN NumberMeant(sign, digits, o, o.width, o.zero, ">")
        ELSE InField(sign \o arg.special, o.width, IF o.fill = "" THEN " " ELSE o.fill,
                     IF o.align = "" THEN ">" ELSE o.align)

TextMeant(arg, o) ==
    InField(IF o.precision = None THEN arg.text ELSE Kept(arg.text, o.precision), o.width,
            IF o.fill = "" THEN " " ELSE o.fill, IF o.align = "" THEN "<" ELSE o.align)

\* What the i-th piece stands for.  Placeholders without a number take the arguments in turn.
Meaning(i, leading) ==
    LET piece == input.pieces[i]
        before == {j \in 1..(i - 1) : input.pieces[j].kind = "placeholder" /\ input.pieces[j].id = None}
        number == IF piece.id = None THEN Cardinality(before) + 1 ELSE piece.id + 1
        arg == input.args[number]
    IN  CASE piece.kind = "text" -> piece.text
          [] piece.kind = "raw" -> piece.meaning
          [] piece.kind = "placeholder" ->
                IF number > Len(input.args) THEN RangeMark
                ELSE CASE arg.kind = "float" -> FloatMeant(arg, piece.options, leading)
                       [] arg.kind = "text" -> TextMeant(arg, piece.options)
                       [] OTHER -> IntegerMeant(arg, piece.options)

\* The inputs have one large float at most.
Leadings ==
    LET large == {i \in DOMAIN input.args : input.args[i].kind = "float" /\ IsLarge(input.args[i])}
    IN  IF large = {} THEN {None} ELSE UNION {LeadingMeant(input.args[i]) : i \in large}

\* When format returns, the buffer holds the beginning of what the pieces mean, as much as
\* fits: options are read back from the text as they were written, whatever they are next to,
\* integers are exact, floats below 2^64 are correctly rounded and larger ones are as close as
\* divisions of doubles are, and a short buffer loses only the end (BuildFormatOutput,
\* ParseArgFormatString, EmitNumber, FloatToString).
TextMeetsMeaning ==
    ~Running => \E leading \in Leadings :
        buffer = Kept(FlattenSeq([i \in DOMAIN input.pieces |-> Meaning(i, leading)]), input.capacity)

=============================================================================
