------------------------------ MODULE KeyHash ------------------------------
(***************************************************************************)
(* Hashing (include/__functional/hash.h): a key of any length is mixed by  *)
(* cityhash64, or by murmur2 where size_t has 32 bits, and a scalar is     *)
(* hashed by what its bytes are in a union with words of size_t.           *)
(*                                                                         *)
(* A word in a register stands for the set of the key's bytes that went    *)
(* into it, so mixing words is the union of their sets.  What matters is   *)
(* which bytes each path loads, and that all of them reach the result.     *)
(***************************************************************************)
EXTENDS Integers, Sequences, FiniteSets

CONSTANTS
    Lengths,            \* of the keys
    Scalars             \* pairs of records [type, negative, magnitude, junk] of one type

VARIABLES
    algorithm,          \* "city", "murmur" or "scalar"
    length,             \* __len of the call
    at,                 \* where __s or __data points
    left,               \* __len as the loop counts it down
    reg,                \* the registers: [x, y, z, v1, v2, w1, w2], or [h]
    hash,               \* the result, {-1} until it is there
    pair                \* the two scalars compared

vars == <<algorithm, length, at, left, reg, hash, pair>>

-----------------------------------------------------------------------------
(* Cityhash of 64 bits                                                     *)

\* The bytes a load of n at offset i reads.
Load(i, n) == i..(i + n - 1)
LoadWord(i) == Load(i, 8)

HashLen0To16 ==
    CASE length > 8 -> LoadWord(0) \cup LoadWord(length - 8)
      [] length \in 4..8 -> Load(0, 4) \cup Load(length - 4, 4)
      [] length \in 1..3 -> {0, length \div 2, length - 1}
      [] length = 0 -> {}

HashLen17To32 ==
    LoadWord(0) \cup LoadWord(8) \cup LoadWord(length - 8) \cup LoadWord(length - 16)

HashLen33To64 ==
    LET z == LoadWord(24)
        a == LoadWord(0) \cup LoadWord(length - 16)
        a1 == a \cup LoadWord(8) \cup LoadWord(16)
        c == LoadWord(16) \cup LoadWord(length - 32)
        c1 == c \cup LoadWord(length - 24) \cup LoadWord(length - 16)
        z1 == z \cup LoadWord(length - 8)
    IN  (a1 \cup z) \cup (c1 \cup z1)

\* Four words at offset i mixed with the seeds a and b.
WeakHashLen32WithSeeds(i, a, b) ==
    [first |-> a \cup Load(i, 32), second |-> a \cup b \cup Load(i, 32)]

HashLen16(u, v) == u \cup v

\* The end of a long key is mixed in before its beginning.
StartRegisters ==
    LET x == LoadWord(length - 40)
        y == LoadWord(length - 16) \cup LoadWord(length - 56)
        z == HashLen16(LoadWord(length - 48), LoadWord(length - 24))
        v == WeakHashLen32WithSeeds(length - 64, {}, z)
        w == WeakHashLen32WithSeeds(length - 32, y, x)
    IN  [x |-> x \cup LoadWord(0), y |-> y, z |-> z,
         v1 |-> v.first, v2 |-> v.second, w1 |-> w.first, w2 |-> w.second]

\* What the loop has to do: the length less its last, perhaps partial, block.
ChunkedLength(n) == ((n - 1) \div 64) * 64

\* One block of 64 bytes; x and z change places at its end.
MixChunk(r, i) ==
    LET x1 == r.x \cup r.y \cup r.v1 \cup LoadWord(i + 8)
        y1 == r.y \cup r.v2 \cup LoadWord(i + 48)
        x2 == x1 \cup r.w2
        y2 == y1 \cup r.v1 \cup LoadWord(i + 40)
        z1 == r.z \cup r.w1
        v == WeakHashLen32WithSeeds(i, r.v2, x2 \cup r.w1)
        w == WeakHashLen32WithSeeds(i + 32, z1 \cup r.w2, y2 \cup LoadWord(i + 16))
    IN  [x |-> z1, y |-> y2, z |-> x2,
         v1 |-> v.first, v2 |-> v.second, w1 |-> w.first, w2 |-> w.second]

FinalMix(r) == HashLen16(HashLen16(r.v1, r.w1) \cup r.y \cup r.z, HashLen16(r.v2, r.w2) \cup r.x)

-----------------------------------------------------------------------------
(* Scalars.  A word has two bytes; a byte is a number or "junk", which is  *)
(* whatever the memory held before.                                        *)

WordBytes == 2

\* How many bytes a type has, and how many of them say what its value is.
Size == [char |-> 1, float |-> 1, int |-> 2, double |-> 2, pointer |-> 2,
         pair |-> 4, longDouble |-> 4, longDoubleX86 |-> 4]
Significant == [Size EXCEPT !["longDoubleX86"] = 3]

IsFloating(type) == type \in {"float", "double", "longDouble", "longDoubleX86"}

\* The bytes of a value: its magnitude, and a sign that zero has too.
ValueBytes(s) == [i \in 1..Significant[s.type] |-> IF i = 1 THEN <<s.negative, s.magnitude>> ELSE s.magnitude]

\* The words of the union once the value is written over what was there.
InUnion(s, before, words) ==
    [i \in 1..(words * WordBytes) |->
        IF i <= Significant[s.type] THEN ValueBytes(s)[i] ELSE before]

\* Mutant: the word is not cleared.
ScalarHash0Uncleared(s) == InUnion(s, s.junk, 1)

\* Narrower values are written over a zero word.
ScalarHash0(s) == InUnion(s, 0, 1)

ScalarHash1(s) == InUnion(s, s.junk, 1)

\* More words go through cityhash, which is as good as all their bytes.
ScalarHashN(s) == InUnion(s, s.junk, Size[s.type] \div WordBytes)

ScalarHash(s) ==
    CASE Size[s.type] \div WordBytes = 0 -> ScalarHash0(s)
      [] Size[s.type] \div WordBytes = 1 -> ScalarHash1(s)
      [] OTHER -> ScalarHashN(s)

\* hash<long double> of an 80-bit number: its padding is cleared first, and each byte of the
\* result is made of one byte of every word.
HashLongDoubleX86(s) ==
    LET words == Size[s.type] \div WordBytes
        bytes == InUnion(s, 0, words)
    IN  [b \in 1..WordBytes |-> [w \in 1..words |-> bytes[(w - 1) * WordBytes + b]]]

\* Integers are their own hash, with the sign extended; both zeros of a float hash to 0.
HashOf(s) ==
    CASE s.type \in {"char", "int"} -> IF s.negative THEN <<-s.magnitude>> ELSE <<s.magnitude>>
      [] IsFloating(s.type) /\ s.magnitude = 0 -> <<0>>
      [] s.type = "longDoubleX86" /\ s.magnitude # 0 -> HashLongDoubleX86(s)
      [] OTHER -> ScalarHash(s)

-----------------------------------------------------------------------------
Pending == hash = {-1}

Init ==
    /\ algorithm \in {"city", "murmur", "scalar"}
    /\ length \in IF algorithm = "scalar" THEN {0} ELSE Lengths
    /\ at = 0
    /\ left = length
    /\ reg = [h |-> {}]
    /\ hash = {-1}
    /\ pair \in IF algorithm = "scalar" THEN Scalars ELSE {<<>>}

Returns(bytes) == hash' = bytes /\ UNCHANGED <<algorithm, length, at, left, reg, pair>>

\* Up to 64 bytes: two loads that may overlap, from each end.
CityShort ==
    /\ algorithm = "city" /\ Pending
    /\ length <= 64
    /\ Returns(CASE length <= 16 -> HashLen0To16
                 [] length \in 17..32 -> HashLen17To32
                 [] OTHER -> HashLen33To64)

CityStart ==
    /\ algorithm = "city" /\ Pending
    /\ length > 64 /\ DOMAIN reg = {"h"}
    /\ reg' = StartRegisters
    /\ left' = ChunkedLength(length)
    /\ UNCHANGED <<algorithm, length, at, hash, pair>>

CityChunk ==
    /\ algorithm = "city" /\ Pending
    /\ DOMAIN reg # {"h"} /\ left # 0
    /\ reg' = MixChunk(reg, at)
    /\ at' = at + 64
    /\ left' = left - 64
    /\ UNCHANGED <<algorithm, length, hash, pair>>

CityEnd ==
    /\ algorithm = "city" /\ Pending
    /\ DOMAIN reg # {"h"} /\ left = 0
    /\ Returns(FinalMix(reg))

MurmurWord ==
    /\ algorithm = "murmur" /\ Pending
    /\ left >= 4
    /\ reg' = [h |-> reg.h \cup Load(at, 4)]
    /\ at' = at + 4
    /\ left' = left - 4
    /\ UNCHANGED <<algorithm, length, hash, pair>>

\* The last one to three bytes, one by one.
MurmurTail ==
    /\ algorithm = "murmur" /\ Pending
    /\ left < 4
    /\ Returns(reg.h \cup (CASE left = 3 -> {at, at + 1, at + 2} [] left = 2 -> {at, at + 1}
                             [] left = 1 -> {at} [] left = 0 -> {}))

Next == CityShort \/ CityStart \/ CityChunk \/ CityEnd \/ MurmurWord \/ MurmurTail

Spec == Init /\ [][Next]_vars

-----------------------------------------------------------------------------
\* The result depends on every byte of the key and on no byte outside it, whatever the
\* length: each path's loads meet and none runs past an end.
WholeKeyIsRead == algorithm # "scalar" /\ ~Pending => hash = 0..(length - 1)

SameValue(s, t) ==
    /\ s.magnitude = t.magnitude
    /\ s.negative = t.negative \/ (IsFloating(s.type) /\ s.magnitude = 0)

\* Equal scalars hash equally, the two zeros and values with other padding or other memory
\* behind them too; different integers hash differently.
ScalarsHashByValue ==
    algorithm = "scalar" =>
        LET s == pair[1]
            t == pair[2]
        IN  /\ SameValue(s, t) => HashOf(s) = HashOf(t)
            /\ s.type \in {"char", "int"} /\ ~SameValue(s, t) => HashOf(s) # HashOf(t)
=============================================================================
