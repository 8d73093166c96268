--------------------------- MODULE Resources_proofs ---------------------------
(***************************************************************************)
(* What the resources run checks on small instances, for any number of     *)
(* threads, any sizes and any requests.                                    *)
(*                                                                         *)
(* The static arena: the callers' blocks, the free blocks and what threads *)
(* have in hand tile the memory below the bump pointer.  Every step        *)
(* replaces one extent by one or two that take up the same bytes, or adds  *)
(* one at the pointer.                                                     *)
(*                                                                         *)
(* The pool: the list of an arena only grows at its front, so a block that *)
(* a thread found stays where it found it; what is in the lists or on the  *)
(* way there is what came from upstream, and the runs that callers hold or *)
(* threads have in hand are set in the bitmaps, and apart.                 *)
(***************************************************************************)
EXTENDS MCResources, SequenceTheorems, WellFoundedInduction, FiniteSetTheorems, TLAPS

-----------------------------------------------------------------------------
(* The static arena                                                        *)

\* All that is rounded to MIN_ALIGNMENT.
Multiples == {k * MinAlignment : k \in Nat}

TypeInv ==
    /\ currentPtr \in Multiples /\ currentPtr <= ArenaEnd
    /\ bins \in [Bins -> Seq(Blocks)] /\ stolen \in [Threads -> Seq(Blocks)]
    /\ header \in [Blocks -> Int]
    /\ allocated \subseteq [at : Blocks, bytes : RequestSizes]
    /\ pc \in [Threads -> {"idle", "bump", "bin", "giveBack", "split"}]
    /\ want \in [Threads -> RequestSizes \cup {0}]
    /\ bin \in [Threads -> Bins]
    /\ block \in [Threads -> Blocks \cup {-1}]
    /\ rest \in [Threads -> [at : Int, bytes : Int]]

\* What each place of do_allocate has in hand, and that the bin it looks at has blocks
\* that are large enough.
ControlOf(t) ==
    /\ pc[t] \in {"idle", "bump", "bin"} => block[t] = -1
    /\ pc[t] # "giveBack" => stolen[t] = <<>>
    /\ pc[t] = "split" => block[t] # -1
    /\ block[t] = -1 => rest[t].bytes = 0
    /\ pc[t] # "idle" => want[t] \in RequestSizes
    /\ pc[t] = "bin" /\ bin[t] # LargeBin => Size(t) <= ClassSize(bin[t])

Control == \A t \in Threads : ControlOf(t)

\* The extents of E, in whole units of MIN_ALIGNMENT, tile the memory below top.
Bounded(E, top) ==
    \A e \in E : e.at \in Multiples /\ e.size \in Multiples \ {0} /\ e.at + e.size <= top

Apart(E) == \A e, f \in E : e # f => e.at + e.size <= f.at \/ f.at + f.size <= e.at

Covered(E, top) == \A b \in Blocks : b < top => \E e \in E : Overlaps(e.at, e.size, b)

Tiles(E, top) == Bounded(E, top) /\ Apart(E) /\ Covered(E, top)

IInv == TypeInv /\ Control /\ ListedOnce /\ Tiles(Extents, currentPtr)

-----------------------------------------------------------------------------
(* Arithmetic: multiples of MIN_ALIGNMENT, least and greatest, size classes. *)

LEMMA Shape ==
    /\ MinAlignment \in Nat /\ MinAlignment > 0 /\ NumBins \in Nat /\ NumBins >= 2
    /\ HeaderSize \in Nat /\ HeaderSize >= 1 /\ HeaderSize <= MinAlignment
    /\ ArenaBlocks \in Nat /\ RequestSizes \subseteq Nat
BY ShapeAssumption

LEMMA MultipleSum ==
    ASSUME NEW m \in Multiples, NEW n \in Multiples
    PROVE  m + n \in Multiples
<1> PICK k \in Nat : m = k * MinAlignment
  BY DEF Multiples
<1> PICK l \in Nat : n = l * MinAlignment
  BY DEF Multiples
<1>1. m + n = (k + l) * MinAlignment
  BY Shape
<1> QED
  BY <1>1 DEF Multiples

LEMMA MultipleDifference ==
    ASSUME NEW m \in Multiples, NEW n \in Multiples, n <= m
    PROVE  m - n \in Multiples
<1> PICK k \in Nat : m = k * MinAlignment
  BY DEF Multiples
<1> PICK l \in Nat : n = l * MinAlignment
  BY DEF Multiples
<1>1. l <= k
  BY Shape
<1>2. m - n = (k - l) * MinAlignment /\ k - l \in Nat
  BY <1>1, Shape
<1> QED
  BY <1>2 DEF Multiples

LEMMA MultipleFacts ==
    /\ Multiples \subseteq Nat /\ 0 \in Multiples /\ MinAlignment \in Multiples
    /\ \A m \in Multiples : m > 0 => m >= MinAlignment
    /\ ArenaEnd \in Multiples
    /\ Blocks = {m \in Multiples : m < ArenaEnd}
<1>1. Multiples \subseteq Nat
  BY Shape DEF Multiples
<1>2. 0 = 0 * MinAlignment /\ MinAlignment = 1 * MinAlignment
  BY Shape
<1>3. ASSUME NEW k \in Nat, k * MinAlignment > 0
      PROVE  k * MinAlignment >= MinAlignment
  <2>1. k >= 1
    BY <1>3, Shape
  <2> QED
    BY <2>1, Shape
<1>4. ArenaEnd \in Multiples
  BY Shape DEF ArenaEnd, Multiples
<1>5. ASSUME NEW k \in Nat
      PROVE  k * MinAlignment < ArenaEnd <=> k <= ArenaBlocks - 1
  BY Shape DEF ArenaEnd
<1>6. Blocks = {m \in Multiples : m < ArenaEnd}
  <2>1. ASSUME NEW m \in Blocks PROVE m \in Multiples /\ m < ArenaEnd
    <3> PICK k \in 0 .. ArenaBlocks - 1 : m = k * MinAlignment
      BY DEF Blocks
    <3>1. k \in Nat /\ k <= ArenaBlocks - 1
      BY Shape
    <3> QED
      BY <3>1, <1>5 DEF Multiples
  <2>2. ASSUME NEW m \in Multiples, m < ArenaEnd PROVE m \in Blocks
    <3> PICK k \in Nat : m = k * MinAlignment
      BY DEF Multiples
    <3>1. k \in 0 .. ArenaBlocks - 1
      BY <2>2, <1>5, Shape
    <3> QED
      BY <3>1 DEF Blocks
  <2> QED
    BY <2>1, <2>2
<1> QED
  BY <1>1, <1>2, <1>3, <1>4, <1>6 DEF Multiples

LEMMA MultipleNaturals == \A m \in Multiples : m \in Nat /\ (m # 0 => m > 0)
<1>1. \A m \in Multiples : m \in Nat
  BY MultipleFacts
<1> QED
  BY <1>1

LEMMA BlockFacts ==
    \A b \in Blocks : b \in Multiples /\ b \in Nat /\ b < ArenaEnd
BY MultipleFacts

\* A nonempty set of naturals has a least member, and a greatest if it is bounded.
LEMMA LeastNatural ==
    ASSUME NEW T, T \subseteq Nat, T # {}
    PROVE  \E m \in T : \A n \in T : m <= n
<1> DEFINE R == OpToRel(<, Nat)
<1>1. \A m, n \in T : n < m => <<n, m>> \in R
  BY DEF OpToRel
<1>2. IsWellFoundedOn(R, Nat)
  BY NatLessThanWellFounded
<1> HIDE DEF R
<1>3. \E m \in T : \A n \in T : ~(<<n, m>> \in R)
  BY <1>2, WFMin
<1>4. \A m, n \in T : m \in Int /\ n \in Int /\ (m <= n \/ n < m)
  OBVIOUS
<1> QED
  BY <1>1, <1>3, <1>4, Zenon

LEMMA MinIsLeast ==
    ASSUME NEW T, T \subseteq Nat, T # {}
    PROVE  Min(T) \in T /\ \A n \in T : Min(T) <= n
<1>1. PICK m \in T : \A n \in T : m <= n
  BY LeastNatural
<1>2. m \in T /\ (\A n \in T : m =< n)
  BY <1>1
<1> QED
  BY <1>2, Zenon DEF Min

LEMMA MaxIsGreatest ==
    ASSUME NEW T, T \subseteq Nat, T # {}, NEW bound \in Nat, \A n \in T : n <= bound
    PROVE  Max(T) \in T /\ \A n \in T : n <= Max(T)
<1> DEFINE U == {bound - n : n \in T}
<1>1. U \subseteq Nat /\ U # {}
  <2>1. \A n \in T : bound - n \in Nat
    OBVIOUS
  <2> QED
    BY <2>1
<1> HIDE DEF U
<1>2. PICK u \in U : \A v \in U : u <= v
  BY <1>1, LeastNatural
<1>3. PICK m \in T : u = bound - m
  BY DEF U
<1>4. \A n \in T : bound - m <= bound - n
  BY <1>2, <1>3 DEF U
<1>5. \A n \in T : m >= n
  BY <1>4
<1>6. Max(T) \in T /\ \A n \in T : Max(T) >= n
  BY <1>5, Zenon DEF Max
<1> QED
  BY <1>6

\* Size classes double: a larger bin has the larger blocks.
LEMMA ClassesGrow ==
    ASSUME NEW b \in 0 .. NumBins
    PROVE  \A c \in 0 .. b : c < b => 2^c < 2^b
<1> DEFINE Holds(n) == \A c \in 0 .. n : c < n => 2^c < 2^n
           Bad == {n \in 0 .. NumBins : ~Holds(n)}
<1>1. CASE Bad = {}
  BY <1>1
<1>2. ASSUME Bad # {} PROVE FALSE
  <2>1. Bad \subseteq Nat
    OBVIOUS
  <2>2. PICK n \in Bad : \A k \in Bad : n <= k
    BY <1>2, <2>1, LeastNatural
  <2>3. n \in 0 .. NumBins /\ ~Holds(n)
    OBVIOUS
  <2>4. n # 0
    BY <2>3
  <2>5. n - 1 \in 0 .. NumBins /\ n - 1 \notin Bad
    BY <2>2, <2>3, <2>4, Shape
  <2>6. Holds(n - 1)
    BY <2>5
  <2>7. 2^(n - 1) < 2^n /\ 2^(n - 1) \in Nat
    <3>1. (n - 1) + 1 = n
      BY <2>3
    <3> QED
      BY <2>5, <3>1, PowersAssumption
  <2>8. ASSUME NEW c \in 0 .. n, c < n PROVE 2^c < 2^n
    <3>1. c \in 0 .. n - 1 /\ c \in 0 .. NumBins /\ (c = n - 1 \/ c < n - 1)
      BY <2>3, <2>8, Shape
    <3>2. 2^c \in Nat /\ 2^n \in Nat
      BY <3>1, <2>3, PowersAssumption
    <3>3. CASE c = n - 1
      BY <3>3, <2>7
    <3>4. CASE c < n - 1
      <4>1. 2^c < 2^(n - 1)
        BY <2>6, <3>1, <3>4
      <4> QED
        BY <4>1, <3>2, <2>7
    <3> QED
      BY <3>1, <3>3, <3>4
  <2> QED
    BY <2>3, <2>8
<1> QED
  BY <1>1, <1>2

ClassBins == Bins \ {LargeBin}

LEMMA ClassFacts ==
    /\ ClassBins = 0 .. NumBins - 2 /\ LargeBin \in Bins
    /\ \A b \in ClassBins : ClassSize(b) \in Multiples \ {0}
    /\ \A b, c \in ClassBins : b < c => ClassSize(b) < ClassSize(c)
    /\ ClassSize(0) = MinAlignment /\ 0 \in ClassBins
<1>1. ClassBins = 0 .. NumBins - 2 /\ LargeBin \in Bins /\ 0 \in ClassBins
  BY Shape DEF ClassBins, Bins, LargeBin
<1>2. ASSUME NEW b \in ClassBins PROVE 2^b \in Nat /\ 2^b > 0 /\ b \in 0 .. NumBins
  <2>1. b \in 0 .. NumBins
    BY <1>1, Shape
  <2>2. 2^b \in Nat
    BY <2>1, PowersAssumption
  <2>3. CASE b = 0
    BY <2>3, <2>1, <2>2
  <2>4. CASE b > 0
    <3>1. 0 \in 0 .. NumBins /\ 0 \in 0 .. b /\ 0 < b
      BY <2>1, <2>4, Shape
    <3>2. 2^0 < 2^b /\ 2^0 \in Nat
      BY <3>1, <2>1, ClassesGrow, PowersAssumption
    <3> QED
      BY <3>2, <2>1, <2>2
  <2> QED
    BY <2>1, <2>3, <2>4
<1>3. ASSUME NEW b \in ClassBins PROVE ClassSize(b) \in Multiples \ {0}
  <2>1. PICK k \in Nat : k = 2^b /\ k > 0
    BY <1>2
  <2>2. MinAlignment * k = k * MinAlignment /\ k * MinAlignment # 0
    BY <2>1, Shape
  <2> QED
    BY <2>1, <2>2 DEF ClassSize, Multiples
<1>4. ASSUME NEW b \in ClassBins, NEW c \in ClassBins, b < c
      PROVE  ClassSize(b) < ClassSize(c)
  <2>1. b \in 0 .. c
    BY <1>1, <1>4, Shape
  <2>2. PICK k, l \in Nat : k = 2^b /\ l = 2^c /\ k < l
    BY <1>2, <1>4, <2>1, ClassesGrow
  <2>3. MinAlignment * k < MinAlignment * l
    BY <2>2, Shape
  <2> QED
    BY <2>2, <2>3 DEF ClassSize
<1>5. ClassSize(0) = MinAlignment
  <2>1. 2^0 = 1
    OBVIOUS
  <2> QED
    BY <2>1, Shape DEF ClassSize
<1> QED
  BY <1>1, <1>3, <1>4, <1>5

LEMMA ClassNaturals == \A b \in ClassBins : b \in Nat /\ ClassSize(b) \in Nat
<1>1. \A b \in 0 .. NumBins - 2 : b \in Nat
  BY Shape
<1> QED
  BY <1>1, ClassFacts, MultipleFacts

LEMMA LargestFacts ==
    /\ ClassSizes \subseteq Multiples \ {0} /\ MinAlignment \in ClassSizes
    /\ LargestClass \in ClassSizes /\ \A c \in ClassSizes : c <= LargestClass
<1>1. ClassSizes = {ClassSize(b) : b \in ClassBins}
  BY DEF ClassSizes, ClassBins
<1>2. ClassSizes \subseteq Multiples \ {0} /\ MinAlignment \in ClassSizes
  BY <1>1, ClassFacts
<1>3. ClassSizes \subseteq Nat /\ ClassSizes # {}
  BY <1>2, MultipleFacts
<1> DEFINE last == NumBins - 2
<1>4. last \in ClassBins /\ \A b \in ClassBins : b = last \/ b < last
  BY ClassFacts, Shape
<1>5. ClassSize(last) \in Nat
  BY <1>4, ClassFacts, MultipleFacts
<1>6. \A c \in ClassSizes : c <= ClassSize(last)
  <2>1. ASSUME NEW b \in ClassBins PROVE ClassSize(b) <= ClassSize(last)
    <3>1. ClassSize(b) \in Nat
      BY ClassFacts, MultipleFacts
    <3> QED
      BY <3>1, <1>4, <1>5, ClassFacts
  <2> QED
    BY <1>1, <2>1
<1>7. LargestClass \in ClassSizes /\ \A c \in ClassSizes : c <= LargestClass
  BY <1>3, <1>5, <1>6, MaxIsGreatest DEF LargestClass
<1> QED
  BY <1>2, <1>7

\* What is free or reserved: whole classes, and anything rounded above the largest.
Sizes == ClassSizes \cup {n \in Multiples : n > LargestClass}

LEMMA SizesFacts == Sizes \subseteq Multiples \ {0} /\ LargestClass \in Nat
<1>1. LargestClass \in Nat
  BY LargestFacts, MultipleFacts
<1>2. \A n \in Multiples : n > LargestClass => n \in Multiples \ {0}
  BY <1>1, MultipleFacts
<1> QED
  BY <1>1, <1>2, LargestFacts DEF Sizes

LEMMA BlockSizeFacts ==
    ASSUME NEW bytes \in Nat
    PROVE  BlockSizeFor(bytes) \in Sizes
<1> DEFINE most == Max({bytes, HeaderSize})
           units == (most + MinAlignment - 1) \div MinAlignment
           size == units * MinAlignment
<1>1. most \in Nat /\ most >= 1
  <2>1. {bytes, HeaderSize} \subseteq Nat /\ bytes + HeaderSize \in Nat
        /\ \A n \in {bytes, HeaderSize} : n <= bytes + HeaderSize
    BY Shape
  <2>2. most \in {bytes, HeaderSize} /\ HeaderSize <= most
    BY <2>1, MaxIsGreatest
  <2> QED
    BY <2>1, <2>2, Shape
<1>2. units \in Nat
  <2>1. PICK n \in Nat : n = most + MinAlignment - 1
    BY <1>1, Shape
  <2>2. n \div MinAlignment \in Nat
    BY Shape
  <2> QED
    BY <2>1, <2>2
<1>3. size \in Multiples
  BY <1>2 DEF Multiples
<1> HIDE DEF most, units, size
<1>4. BlockSizeFor(bytes) = IF size > LargestClass THEN size
                                ELSE Min({c \in ClassSizes : c >= size})
  BY DEF BlockSizeFor, most, units, size
<1>5. CASE size > LargestClass
  BY <1>3, <1>4, <1>5 DEF Sizes
<1>6. CASE ~(size > LargestClass)
  <2>1. {c \in ClassSizes : c >= size} \subseteq Nat
    BY LargestFacts, MultipleFacts
  <2>2. LargestClass \in {c \in ClassSizes : c >= size}
    BY <1>3, <1>6, LargestFacts, MultipleFacts
  <2>3. Min({c \in ClassSizes : c >= size}) \in {c \in ClassSizes : c >= size}
    BY <2>1, <2>2, MinIsLeast
  <2> QED
    BY <1>4, <1>6, <2>3 DEF Sizes
<1> QED
  BY <1>5, <1>6

\* A block goes to the bin whose blocks are of its size; the bin of a request has blocks
\* that are large enough.
LEMMA BinFacts ==
    ASSUME NEW size \in Sizes
    PROVE  /\ GetBin(size) \in Bins
           /\ GetBin(size) # LargeBin => ClassSize(GetBin(size)) = size
<1> DEFINE fits == {b \in ClassBins : ClassSize(b) >= size}
<1>1. GetBin(size) = IF size > LargestClass THEN LargeBin ELSE Min(fits)
  BY DEF GetBin, ClassBins
<1>2. CASE size > LargestClass
  BY <1>1, <1>2, ClassFacts
<1>3. CASE ~(size > LargestClass)
  <2>1. PICK c \in ClassBins : size = ClassSize(c)
    BY <1>3 DEF Sizes, ClassSizes, ClassBins
  <2>2. fits \subseteq Nat /\ c \in fits
    BY <2>1, ClassNaturals
  <2>3. Min(fits) \in fits /\ Min(fits) <= c
    BY <2>2, MinIsLeast
  <2> DEFINE m == Min(fits)
  <2>4. m \in ClassBins /\ ClassSize(m) >= ClassSize(c)
    BY <2>1, <2>3
  <2>5. m = c
    <3>1. m \in Nat /\ c \in Nat /\ ClassSize(m) \in Nat /\ ClassSize(c) \in Nat
      BY <2>4, ClassNaturals
    <3> QED
      BY <2>3, <2>4, <3>1, ClassFacts
  <2> QED
    BY <1>1, <1>3, <2>1, <2>5 DEF ClassBins
<1> QED
  BY <1>2, <1>3

LEMMA PieceFacts ==
    ASSUME NEW bytes \in Multiples, bytes > 0
    PROVE  PieceSize(bytes) \in Sizes /\ PieceSize(bytes) <= bytes
<1>1. bytes \in Nat /\ bytes >= MinAlignment
  BY MultipleFacts
<1>2. CASE bytes > LargestClass
  BY <1>1, <1>2 DEF PieceSize, Sizes
<1>3. CASE ~(bytes > LargestClass)
  <2> DEFINE fits == {c \in ClassSizes : c <= bytes}
  <2>1. fits \subseteq Nat /\ MinAlignment \in fits /\ \A c \in fits : c <= bytes
    BY <1>1, LargestFacts, MultipleFacts
  <2> HIDE DEF fits
  <2>2. Max(fits) \in fits
    BY <1>1, <2>1, MaxIsGreatest
  <2>3. PieceSize(bytes) = Max(fits)
    BY <1>3 DEF PieceSize, fits
  <2> QED
    BY <2>2, <2>3 DEF fits, Sizes
<1> QED
  BY <1>2, <1>3

\* The search of a stolen list finds a block that is large enough, or there is none.
LEMMA BestFitFacts ==
    ASSUME NEW list \in Seq(Blocks), NEW n \in Nat, header \in [Blocks -> Int],
           \A i \in 1 .. Len(list) : header[list[i]] \in Nat
    PROVE  LET i == BestFit(list, n)
           IN  i = 0 \/ (i \in 1 .. Len(list) /\ header[list[i]] >= n)
<1> DEFINE fits == {i \in DOMAIN list : header[list[i]] >= n}
           sizes == {header[list[i]] : i \in fits}
           best == {i \in fits : \A j \in fits : header[list[i]] <= header[list[j]]}
<1>1. DOMAIN list = 1 .. Len(list) /\ Len(list) \in Nat
  OBVIOUS
<1>2. BestFit(list, n) = IF fits = {} THEN 0 ELSE Min(best)
  BY DEF BestFit
<1>3. CASE fits = {}
  BY <1>2, <1>3
<1>4. CASE fits # {}
  <2>1. sizes \subseteq Nat /\ sizes # {}
    BY <1>1, <1>4
  <2>2. PICK s \in sizes : \A r \in sizes : s <= r
    BY <2>1, LeastNatural
  <2>3. best # {}
    BY <2>2
  <2>4. best \subseteq Nat
    BY <1>1
  <2>5. Min(best) \in best
    BY <2>3, <2>4, MinIsLeast
  <2> QED
    BY <1>1, <1>2, <1>4, <2>5
<1> QED
  BY <1>3, <1>4

-----------------------------------------------------------------------------
(* Tilings *)

LEMMA TileNaturals ==
    ASSUME NEW E, NEW top \in Nat, Tiles(E, top)
    PROVE  \A e \in E : /\ e.at \in Nat /\ e.size \in Nat /\ e.size > 0
                        /\ e.at + e.size <= top
<1>1. \A e \in E : e.at \in Multiples /\ e.size \in Multiples \ {0} /\ e.at + e.size <= top
  BY DEF Tiles, Bounded
<1> QED
  BY <1>1, MultipleNaturals

LEMMA OneTileAtAPlace ==
    ASSUME NEW E, NEW top \in Nat, Tiles(E, top),
           NEW e \in E, NEW f \in E, NEW b \in Nat,
           Overlaps(e.at, e.size, b), Overlaps(f.at, f.size, b)
    PROVE  e = f
BY TileNaturals DEF Tiles, Apart, Overlaps

LEMMA OneTileAtItsStart ==
    ASSUME NEW E, NEW top \in Nat, Tiles(E, top),
           NEW e \in E, NEW f \in E, e.at = f.at
    PROVE  e = f
BY TileNaturals DEF Tiles, Apart

\* Extents that only change hands.
LEMMA TilesMoved ==
    ASSUME NEW E, NEW A \in SUBSET E, NEW B, NEW top \in Nat, Tiles(E, top),
           \A f \in B : \E e \in A : f.at = e.at /\ f.size = e.size,
           \A e \in A : \E f \in B : f.at = e.at /\ f.size = e.size,
           \A f, g \in B : f.at = g.at => f = g
    PROVE  Tiles((E \ A) \cup B, top)
<1> DEFINE F == (E \ A) \cup B
<1>1. \A f \in F : \E e \in E : f.at = e.at /\ f.size = e.size /\ (f \in B => e \in A)
                                 /\ (f \notin B => e = f)
  OBVIOUS
<1>2. Bounded(F, top)
  BY <1>1 DEF Tiles, Bounded
<1>3. Apart(F)
  <2> SUFFICES ASSUME NEW f \in F, NEW g \in F, f # g
               PROVE  f.at + f.size <= g.at \/ g.at + g.size <= f.at
    BY DEF Apart
  <2>1. PICK d \in E : f.at = d.at /\ f.size = d.size /\ (f \in B => d \in A)
            /\ (f \notin B => d = f)
    BY <1>1
  <2>2. PICK e \in E : g.at = e.at /\ g.size = e.size /\ (g \in B => e \in A)
            /\ (g \notin B => e = g)
    BY <1>1
  <2>3. CASE d = e
    BY <2>1, <2>2, <2>3
  <2>4. CASE d # e
    BY <2>1, <2>2, <2>4 DEF Tiles, Apart
  <2> QED
    BY <2>3, <2>4
<1>4. Covered(F, top)
  <2> SUFFICES ASSUME NEW b \in Blocks, b < top
               PROVE  \E f \in F : Overlaps(f.at, f.size, b)
    BY DEF Covered
  <2>1. PICK e \in E : Overlaps(e.at, e.size, b)
    BY DEF Tiles, Covered
  <2>2. \E f \in F : f.at = e.at /\ f.size = e.size
    OBVIOUS
  <2> QED
    BY <2>1, <2>2
<1> QED
  BY <1>2, <1>3, <1>4 DEF Tiles

\* An extent that is cut in two.
LEMMA TilesSplit ==
    ASSUME NEW E, NEW e \in E, NEW f, NEW g, NEW top \in Nat, Tiles(E, top),
           f.at = e.at, f.size \in Multiples \ {0}, g.size \in Multiples \ {0},
           g.at = e.at + f.size, f.size + g.size = e.size
    PROVE  Tiles((E \ {e}) \cup {f, g}, top)
<1> DEFINE F == (E \ {e}) \cup {f, g}
<1>1. /\ e.at \in Nat /\ e.size \in Nat /\ e.at + e.size <= top /\ e.at \in Multiples
      /\ f.size \in Nat /\ f.size > 0 /\ g.size \in Nat /\ g.size > 0
      /\ g.at \in Multiples /\ g.at \in Nat
  <2>1. e.at \in Multiples
    BY DEF Tiles, Bounded
  <2>2. g.at \in Multiples
    BY <2>1, MultipleSum
  <2>3. f.size \in Nat /\ f.size > 0 /\ g.size \in Nat /\ g.size > 0 /\ g.at \in Nat
    BY <2>2, MultipleNaturals
  <2> QED
    BY <2>1, <2>2, <2>3, TileNaturals
<1>2. Bounded(F, top)
  BY <1>1 DEF Tiles, Bounded
<1>3. Apart(F)
  <2>1. ASSUME NEW d \in E, d # e
        PROVE  /\ d.at \in Nat /\ d.size \in Nat
               /\ d.at + d.size <= e.at \/ e.at + e.size <= d.at
    BY <2>1, TileNaturals DEF Tiles, Apart
  <2>2. ASSUME NEW d \in E, d # e
        PROVE  /\ d.at + d.size <= f.at \/ f.at + f.size <= d.at
               /\ d.at + d.size <= g.at \/ g.at + g.size <= d.at
    BY <1>1, <2>1, <2>2
  <2>3. f.at + f.size <= g.at
    BY <1>1
  <2> QED
    BY <2>2, <2>3 DEF Apart, Tiles
<1>4. Covered(F, top)
  <2> SUFFICES ASSUME NEW b \in Blocks, b < top
               PROVE  \E d \in F : Overlaps(d.at, d.size, b)
    BY DEF Covered
  <2>1. PICK d \in E : Overlaps(d.at, d.size, b)
    BY DEF Tiles, Covered
  <2>2. CASE d = e
    <3>1. b \in Nat
      BY BlockFacts
    <3>2. Overlaps(f.at, f.size, b) \/ Overlaps(g.at, g.size, b)
      BY <1>1, <2>1, <2>2, <3>1 DEF Overlaps
    <3> QED
      BY <3>2
  <2> QED
    BY <2>1, <2>2
<1> QED
  BY <1>2, <1>3, <1>4 DEF Tiles

\* An extent that is cut in two, or handed over whole.
LEMMA TilesCut ==
    ASSUME NEW E, NEW e \in E, NEW f, NEW g, NEW top \in Nat, Tiles(E, top),
           f.at = e.at, f.size \in Multiples \ {0}, g.size \in Multiples,
           g.at = e.at + f.size, f.size + g.size = e.size
    PROVE  Tiles((E \ {e}) \cup ({f} \cup {x \in {g} : g.size > 0}), top)
<1>1. g.size \in Nat /\ f.size \in Nat
  BY MultipleNaturals
<1>2. CASE g.size > 0
  <2>1. {f} \cup {x \in {g} : g.size > 0} = {f, g} /\ g.size \in Multiples \ {0}
    BY <1>1, <1>2
  <2> QED
    BY <2>1, TilesSplit
<1>3. CASE ~(g.size > 0)
  <2>1. {f} \cup {x \in {g} : g.size > 0} = {f} /\ f.size = e.size
    BY <1>1, <1>3
  <2>2. {e} \in SUBSET E
    OBVIOUS
  <2> DEFINE B == {f}
  <2>3. \A x \in B : \E y \in {e} : x.at = y.at /\ x.size = y.size
    BY <2>1
  <2>4. \A y \in {e} : \E x \in B : x.at = y.at /\ x.size = y.size
    BY <2>1
  <2>5. \A x, y \in B : x.at = y.at => x = y
    OBVIOUS
  <2> HIDE DEF B
  <2>6. Tiles((E \ {e}) \cup B, top)
    BY <2>2, <2>3, <2>4, <2>5, TilesMoved
  <2> QED
    BY <2>1, <2>6 DEF B
<1> QED
  BY <1>2, <1>3

\* An extent at the end.
LEMMA TilesGrow ==
    ASSUME NEW E, NEW f, NEW top \in Multiples, Tiles(E, top),
           f.at = top, f.size \in Multiples \ {0}
    PROVE  Tiles(E \cup {f}, top + f.size)
<1> DEFINE F == E \cup {f}
<1>1. top \in Nat /\ f.size \in Nat /\ f.size > 0
  BY MultipleNaturals
<1>2. \A e \in E : e.at \in Nat /\ e.size \in Nat /\ e.at + e.size <= top
  BY <1>1, TileNaturals
<1>3. Bounded(F, top + f.size)
  BY <1>1, <1>2 DEF Tiles, Bounded
<1>4. Apart(F)
  BY <1>1, <1>2 DEF Tiles, Apart
<1>5. Covered(F, top + f.size)
  <2> SUFFICES ASSUME NEW b \in Blocks, b < top + f.size
               PROVE  \E d \in F : Overlaps(d.at, d.size, b)
    BY DEF Covered
  <2>1. b \in Nat
    BY BlockFacts
  <2>2. CASE b < top
    BY <2>2 DEF Tiles, Covered
  <2>3. CASE ~(b < top)
    BY <1>1, <2>1, <2>3 DEF Overlaps
  <2> QED
    BY <2>2, <2>3
<1> QED
  BY <1>3, <1>4, <1>5 DEF Tiles

-----------------------------------------------------------------------------
(* Lists of blocks *)

LEMMA Pushed ==
    ASSUME NEW s \in Seq(Blocks), NEW at \in Blocks
    PROVE  /\ <<at>> \o s \in Seq(Blocks)
           /\ Range(<<at>> \o s) = Range(s) \cup {at}
           /\ IsInjective(s) /\ at \notin Range(s) => IsInjective(<<at>> \o s)
<1> DEFINE r == <<at>> \o s
<1>1. r \in Seq(Blocks) /\ Len(r) = Len(s) + 1
      /\ DOMAIN r = 1 .. Len(s) + 1 /\ DOMAIN s = 1 .. Len(s) /\ Len(s) \in Nat
  OBVIOUS
<1>2. \A i \in 1 .. Len(s) + 1 : r[i] = IF i = 1 THEN at ELSE s[i - 1]
  OBVIOUS
<1> HIDE DEF r
<1>3. Range(r) = Range(s) \cup {at}
  <2>1. ASSUME NEW x \in Range(r) PROVE x \in Range(s) \cup {at}
    <3>1. PICK i \in 1 .. Len(s) + 1 : x = r[i]
      BY <1>1 DEF Range
    <3>2. CASE i = 1
      BY <1>2, <3>1, <3>2
    <3>3. CASE i # 1
      <4>1. i - 1 \in 1 .. Len(s) /\ x = s[i - 1]
        BY <1>1, <1>2, <3>1, <3>3
      <4> QED
        BY <1>1, <4>1 DEF Range
    <3> QED
      BY <3>2, <3>3
  <2>2. ASSUME NEW x \in Range(s) PROVE x \in Range(r)
    <3>1. PICK i \in 1 .. Len(s) : x = s[i]
      BY <1>1 DEF Range
    <3>2. i + 1 \in 1 .. Len(s) + 1 /\ r[i + 1] = x
      BY <1>1, <1>2, <3>1
    <3> QED
      BY <1>1, <3>2 DEF Range
  <2>3. at \in Range(r)
    BY <1>1, <1>2 DEF Range
  <2> QED
    BY <2>1, <2>2, <2>3
<1>4. ASSUME IsInjective(s), at \notin Range(s) PROVE IsInjective(r)
  <2> SUFFICES ASSUME NEW i \in 1 .. Len(s) + 1, NEW j \in 1 .. Len(s) + 1, r[i] = r[j]
               PROVE  i = j
    BY <1>1 DEF IsInjective
  <2>1. \A k \in 1 .. Len(s) : s[k] # at
    BY <1>1, <1>4 DEF Range
  <2>2. \A k, l \in 1 .. Len(s) : s[k] = s[l] => k = l
    BY <1>1, <1>4 DEF IsInjective
  <2>3. \A k \in 1 .. Len(s) + 1 : k = 1 \/ k - 1 \in 1 .. Len(s)
    BY <1>1
  <2>4. CASE i = 1 /\ j = 1
    BY <2>4
  <2>5. CASE i # 1 /\ j # 1
    BY <1>2, <2>2, <2>3, <2>5
  <2>6. CASE i = 1 /\ j # 1
    BY <1>2, <2>1, <2>3, <2>6
  <2>7. CASE i # 1 /\ j = 1
    BY <1>2, <2>1, <2>3, <2>7
  <2> QED
    BY <2>4, <2>5, <2>6, <2>7
<1> QED
  BY <1>1, <1>3, <1>4 DEF r

\* The list s without its member i.
Without(s, i) == SubSeq(s, 1, i - 1) \o SubSeq(s, i + 1, Len(s))

LEMMA Removed ==
    ASSUME NEW s \in Seq(Blocks), NEW i \in 1 .. Len(s), IsInjective(s)
    PROVE  /\ Without(s, i) \in Seq(Blocks)
           /\ Range(Without(s, i)) = Range(s) \ {s[i]}
           /\ IsInjective(Without(s, i))
<1> DEFINE r == Without(s, i)
           before == SubSeq(s, 1, i - 1)
           after == SubSeq(s, i + 1, Len(s))
           from == [k \in 1 .. Len(s) - 1 |-> IF k < i THEN k ELSE k + 1]
<1>1. Len(s) \in Nat /\ DOMAIN s = 1 .. Len(s) /\ \A k \in 1 .. Len(s) : s[k] \in Blocks
  OBVIOUS
<1>2. /\ before \in Seq(Blocks) /\ Len(before) = i - 1
      /\ \A k \in 1 .. i - 1 : before[k] = s[k]
  <2>1. \A k \in 1 .. i - 1 : k \in 1 .. Len(s)
    BY <1>1
  <2>2. \A k \in 1 .. i - 1 : s[k] \in Blocks
    BY <1>1, <2>1
  <2>3. 1 \in Int /\ i - 1 \in Int
    OBVIOUS
  <2>4. /\ before \in Seq(Blocks) /\ Len(before) = IF 1 <= i - 1 THEN (i - 1) - 1 + 1 ELSE 0
        /\ \A k \in 1 .. (i - 1) - 1 + 1 : before[k] = s[1 + k - 1]
    BY <2>2, <2>3, SubSeqProperties
  <2> QED
    BY <1>1, <2>4
<1>3. /\ after \in Seq(Blocks) /\ Len(after) = Len(s) - i
      /\ \A k \in 1 .. Len(s) - i : after[k] = s[i + k]
  <2>1. \A k \in i + 1 .. Len(s) : k \in 1 .. Len(s)
    BY <1>1
  <2>2. \A k \in i + 1 .. Len(s) : s[k] \in Blocks
    BY <1>1, <2>1
  <2>3. i + 1 \in Int /\ Len(s) \in Int
    BY <1>1
  <2>4. /\ after \in Seq(Blocks)
        /\ Len(after) = IF i + 1 <= Len(s) THEN Len(s) - (i + 1) + 1 ELSE 0
        /\ \A k \in 1 .. Len(s) - (i + 1) + 1 : after[k] = s[(i + 1) + k - 1]
    BY <2>2, <2>3, SubSeqProperties
  <2>5. Len(after) = Len(s) - i
    <3> HIDE DEF after
    <3>1. CASE i + 1 <= Len(s)
      BY <1>1, <2>4, <3>1
    <3>2. CASE i = Len(s)
      BY <1>1, <2>4, <3>2
    <3>3. i \in Nat /\ i <= Len(s) /\ Len(s) \in Nat
      BY <1>1
    <3> QED
      BY <3>1, <3>2, <3>3
  <2>6. ASSUME NEW k \in 1 .. Len(s) - i PROVE after[k] = s[i + k]
    <3>1. k \in 1 .. Len(s) - (i + 1) + 1 /\ (i + 1) + k - 1 = i + k
      BY <1>1
    <3> QED
      BY <2>4, <3>1
  <2> QED
    BY <2>4, <2>5, <2>6
<1> HIDE DEF before, after
<1>4. /\ r \in Seq(Blocks) /\ Len(r) = Len(s) - 1
      /\ \A k \in 1 .. Len(s) - 1 : r[k] = s[from[k]]
  <2>1. r = before \o after
    BY DEF Without, before, after
  <2>2. /\ r \in Seq(Blocks) /\ Len(r) = Len(before) + Len(after)
        /\ \A k \in 1 .. Len(before) + Len(after) :
              r[k] = IF k <= Len(before) THEN before[k] ELSE after[k - Len(before)]
    <3> HIDE DEF r, from
    <3>1. before \in Seq(Blocks) /\ after \in Seq(Blocks)
      BY <1>2, <1>3
    <3>2. /\ before \o after \in Seq(Blocks) /\ Len(before \o after) = Len(before) + Len(after)
          /\ \A k \in 1 .. Len(before) + Len(after) :
                (before \o after)[k]
                    = IF k <= Len(before) THEN before[k] ELSE after[k - Len(before)]
      BY ONLY <3>1, ConcatProperties
    <3> QED
      BY ONLY <2>1, <3>2
  <2>3. ASSUME NEW k \in 1 .. Len(s) - 1 PROVE r[k] = s[from[k]]
    <3>0. k \in 1 .. Len(before) + Len(after)
      BY <1>1, <1>2, <1>3
    <3>1. CASE k < i
      <4>1. k \in 1 .. i - 1 /\ k <= Len(before) /\ from[k] = k
        BY <1>1, <1>2, <3>1
      <4> QED
        BY <1>2, <2>2, <3>0, <4>1
    <3>2. CASE ~(k < i)
      <4>1. /\ k - (i - 1) \in 1 .. Len(s) - i /\ ~(k <= Len(before)) /\ from[k] = k + 1
            /\ i + (k - (i - 1)) = k + 1
        BY <1>1, <1>2, <3>2
      <4> QED
        BY <1>2, <1>3, <2>2, <3>0, <4>1
    <3> QED
      BY <3>1, <3>2
  <2> QED
    BY <1>1, <1>2, <1>3, <2>2, <2>3
<1>5. DOMAIN r = 1 .. Len(s) - 1
  BY <1>4
<1> HIDE DEF r
<1>6. /\ \A k \in 1 .. Len(s) - 1 : from[k] \in 1 .. Len(s) /\ from[k] # i
      /\ \A k, l \in 1 .. Len(s) - 1 : from[k] = from[l] => k = l
      /\ \A l \in 1 .. Len(s) : l # i => \E k \in 1 .. Len(s) - 1 : from[k] = l
  <2>1. ASSUME NEW l \in 1 .. Len(s), l # i PROVE \E k \in 1 .. Len(s) - 1 : from[k] = l
    <3>1. CASE l < i
      BY <1>1, <3>1
    <3>2. CASE l > i
      <4>1. l - 1 \in 1 .. Len(s) - 1 /\ from[l - 1] = l
        BY <1>1, <3>2
      <4> QED
        BY <4>1
    <3> QED
      BY <1>1, <2>1, <3>1, <3>2
  <2> QED
    BY <1>1, <2>1
<1> HIDE DEF from
<1>7. \A k, l \in 1 .. Len(s) : s[k] = s[l] => k = l
  BY <1>1 DEF IsInjective
<1>8. Range(r) = Range(s) \ {s[i]}
  <2>1. Range(r) = {r[k] : k \in 1 .. Len(s) - 1}
    BY <1>5 DEF Range
  <2>2. Range(s) = {s[k] : k \in 1 .. Len(s)}
    BY <1>1 DEF Range
  <2>3. ASSUME NEW x \in Range(r) PROVE x \in Range(s) \ {s[i]}
    <3> PICK k \in 1 .. Len(s) - 1 : x = r[k]
      BY <2>1
    <3>1. x = s[from[k]] /\ from[k] \in 1 .. Len(s) /\ from[k] # i
      BY <1>4, <1>6
    <3> QED
      BY <1>7, <2>2, <3>1
  <2>4. ASSUME NEW x \in Range(s), x # s[i] PROVE x \in Range(r)
    <3> PICK l \in 1 .. Len(s) : x = s[l]
      BY <2>2
    <3> PICK k \in 1 .. Len(s) - 1 : from[k] = l
      BY <1>6, <2>4
    <3> QED
      BY <1>4, <2>1
  <2> QED
    BY <2>3, <2>4
<1>9. IsInjective(r)
  <2> SUFFICES ASSUME NEW k \in 1 .. Len(s) - 1, NEW l \in 1 .. Len(s) - 1, r[k] = r[l]
               PROVE  k = l
    BY <1>5 DEF IsInjective
  <2>1. s[from[k]] = s[from[l]]
    BY <1>4
  <2>2. from[k] = from[l]
    BY <1>6, <1>7, <2>1
  <2> QED
    BY <1>6, <2>2
<1> QED
  BY <1>4, <1>8, <1>9 DEF r

LEMMA Popped ==
    ASSUME NEW s \in Seq(Blocks), s # <<>>, IsInjective(s)
    PROVE  /\ Head(s) \in Range(s) /\ Tail(s) \in Seq(Blocks)
           /\ Range(Tail(s)) = Range(s) \ {Head(s)}
           /\ IsInjective(Tail(s))
<1>1. 1 \in 1 .. Len(s) /\ DOMAIN s = 1 .. Len(s) /\ Head(s) = s[1]
  OBVIOUS
<1>2. Without(s, 1) = Tail(s)
  <2>1. SubSeq(s, 1, 1 - 1) = <<>>
    BY SubSeqEmpty
  <2>2. SubSeq(s, 1 + 1, Len(s)) = Tail(s)
    BY TailIsSubSeq
  <2>3. Tail(s) \in Seq(Blocks)
    BY HeadTailProperties
  <2> QED
    BY <2>1, <2>2, <2>3, ConcatEmptySeq DEF Without
<1>3. Range(Tail(s)) = Range(s) \ {s[1]} /\ IsInjective(Tail(s)) /\ Tail(s) \in Seq(Blocks)
  BY <1>1, <1>2, Removed
<1>4. s[1] \in Range(s)
  BY <1>1 DEF Range
<1> QED
  BY <1>1, <1>3, <1>4

-----------------------------------------------------------------------------
(* Extents *)

\* The extents say where they are, so that no two parts share one.
LEMMA Kinds ==
    /\ \A a \in allocated : InCall(a).kind = "caller"
    /\ \A b \in Bins : \A e \in InBin(b) : e.kind = "bin" /\ e.of = b
    /\ \A t \in Threads :
        /\ \A e \in Stolen(t) : e.kind = "stolen" /\ e.of = t
        /\ \A e \in InHand(t) : e.kind = "block" /\ e.of = t
        /\ \A e \in Leftover(t) : e.kind = "rest" /\ e.of = t
BY DEF InCall, InBin, Stolen, InHand, Leftover, Extent

LEMMA ExtentsParts ==
    /\ \A a \in allocated : InCall(a) \in Extents
    /\ \A b \in Bins : InBin(b) \subseteq Extents
    /\ \A t \in Threads : Stolen(t) \cup InHand(t) \cup Leftover(t) \subseteq Extents
<1>1. \A a \in allocated : InCall(a) \in Extents
  BY DEF Extents
<1>2. ASSUME NEW b \in Bins, NEW e \in InBin(b) PROVE e \in Extents
  BY DEF Extents
<1>3. ASSUME NEW t \in Threads, NEW e \in Stolen(t) \cup InHand(t) \cup Leftover(t)
      PROVE  e \in Extents
  BY DEF Extents
<1> QED
  BY <1>1, <1>2, <1>3

\* Every extent of a state is in one of its parts.
LEMMA ExtentsFrom ==
    ASSUME NEW e \in Extents
    PROVE  \/ \E a \in allocated : e = InCall(a)
           \/ \E b \in Bins : e \in InBin(b)
           \/ \E t \in Threads : e \in Stolen(t) \/ e \in InHand(t) \/ e \in Leftover(t)
BY DEF Extents

\* A block of a list is an extent with a size, and in no other extent.
LEMMA ListedFacts ==
    ASSUME IInv
    PROVE  /\ currentPtr \in Nat /\ currentPtr \in Multiples /\ currentPtr <= ArenaEnd
           /\ \A e \in Extents : /\ e.at \in Blocks /\ e.size \in Multiples \ {0}
                                 /\ e.at \in Nat /\ e.size \in Nat /\ e.size > 0
                                 /\ e.at + e.size <= currentPtr
           /\ \A e, f \in Extents : e.at = f.at => e = f
           /\ \A e, f \in Extents, b \in Nat :
                 Overlaps(e.at, e.size, b) /\ Overlaps(f.at, f.size, b) => e = f
<1>1. currentPtr \in Nat /\ currentPtr \in Multiples /\ currentPtr <= ArenaEnd
  BY MultipleNaturals DEF IInv, TypeInv
<1>2. Tiles(Extents, currentPtr)
  BY DEF IInv
<1>3. \A e \in Extents : /\ e.at \in Nat /\ e.size \in Nat /\ e.size > 0
                         /\ e.at + e.size <= currentPtr
  BY <1>1, <1>2, TileNaturals
<1>4. \A e \in Extents : e.at \in Multiples /\ e.size \in Multiples \ {0}
  BY <1>2 DEF Tiles, Bounded
<1>5. ASSUME NEW e \in Extents PROVE e.at \in Blocks
  <2>1. ArenaEnd \in Nat
    BY MultipleFacts
  <2>2. e.at < ArenaEnd
    BY <1>1, <1>3, <2>1
  <2> QED
    BY <1>4, <2>2, MultipleFacts
<1>6. \A e, f \in Extents : e.at = f.at => e = f
  BY <1>1, <1>2, OneTileAtItsStart
<1>7. \A e, f \in Extents, b \in Nat :
         Overlaps(e.at, e.size, b) /\ Overlaps(f.at, f.size, b) => e = f
  BY <1>1, <1>2, OneTileAtAPlace
<1> QED
  BY <1>1, <1>3, <1>4, <1>5, <1>6, <1>7

\* What a thread reserves has a size.
LEMMA RequestFacts ==
    ASSUME IInv, NEW t \in Threads
    PROVE  Size(t) \in Sizes /\ Size(t) \in Multiples \ {0} /\ Size(t) \in Nat /\ Size(t) > 0
<1>1. want[t] \in Nat
  <2>1. \A n \in RequestSizes \cup {0} : n \in Nat
    BY ShapeAssumption
  <2>2. want[t] \in RequestSizes \cup {0}
    BY DEF IInv, TypeInv
  <2> QED
    BY <2>1, <2>2
<1>2. Size(t) \in Sizes
  BY <1>1, BlockSizeFacts DEF Size
<1> QED
  BY <1>2, SizesFacts, MultipleNaturals

LEMMA BinKept ==
    ASSUME NEW b \in Bins, bins'[b] = bins[b], \A at \in Range(bins[b]) : header'[at] = header[at]
    PROVE  InBin(b)' = InBin(b)
<1>1. \A at \in Range(bins[b]) : FreeSize(b, at)' = FreeSize(b, at)
  BY DEF FreeSize
<1>2. InBin(b)' = {Extent(at, FreeSize(b, at)', "bin", b) : at \in Range(bins[b])}
  BY DEF InBin, Extent
<1> QED
  BY <1>1, <1>2 DEF InBin

LEMMA ThreadKept ==
    ASSUME NEW u \in Threads, stolen'[u] = stolen[u], block'[u] = block[u], rest'[u] = rest[u],
           block[u] # -1 => want'[u] = want[u],
           \A at \in Range(stolen[u]) : header'[at] = header[at]
    PROVE  Stolen(u)' = Stolen(u) /\ InHand(u)' = InHand(u) /\ Leftover(u)' = Leftover(u)
<1>1. Stolen(u)' = Stolen(u)
  <2>1. Stolen(u)' = {Extent(at, header'[at], "stolen", u) : at \in Range(stolen[u])}
    BY DEF Stolen, Extent
  <2> QED
    BY <2>1 DEF Stolen
<1>2. InHand(u)' = InHand(u)
  <2>1. CASE block[u] = -1
    BY <2>1 DEF InHand
  <2>2. CASE block[u] # -1
    <3>1. Size(u)' = Size(u)
      BY <2>2 DEF Size
    <3>2. Extent(block[u], Size(u), "block", u)' = Extent(block[u], Size(u), "block", u)
      BY <3>1 DEF Extent
    <3> QED
      BY <3>2 DEF InHand
  <2> QED
    BY <2>1, <2>2
<1>3. Leftover(u)' = Leftover(u)
  BY DEF Leftover, Extent
<1> QED
  BY <1>1, <1>2, <1>3

LEMMA ExtentsReplaced ==
    ASSUME NEW A \in SUBSET Extents, NEW F,
           \A x : (\E a \in allocated' : x = InCall(a)) <=>
                     \/ (\E a \in allocated : x = InCall(a)) /\ x \notin A
                     \/ x \in F /\ x.kind = "caller",
           \A b \in Bins : \A x : x \in InBin(b)' <=>
                     (x \in InBin(b) /\ x \notin A) \/ (x \in F /\ x.kind = "bin" /\ x.of = b),
           \A u \in Threads : \A x :
              /\ x \in Stolen(u)' <=>
                     (x \in Stolen(u) /\ x \notin A) \/ (x \in F /\ x.kind = "stolen" /\ x.of = u)
              /\ x \in InHand(u)' <=>
                     (x \in InHand(u) /\ x \notin A) \/ (x \in F /\ x.kind = "block" /\ x.of = u)
              /\ x \in Leftover(u)' <=>
                     (x \in Leftover(u) /\ x \notin A) \/ (x \in F /\ x.kind = "rest" /\ x.of = u),
           \A x \in F : \/ x.kind = "caller"
                        \/ x.kind = "bin" /\ x.of \in Bins
                        \/ x.kind \in {"stolen", "block", "rest"} /\ x.of \in Threads
    PROVE  Extents' = (Extents \ A) \cup F
<1>1. ASSUME NEW x \in Extents' PROVE x \in (Extents \ A) \cup F
  <2>1. \/ \E a \in allocated' : x = InCall(a)
        \/ \E b \in Bins : x \in InBin(b)'
        \/ \E u \in Threads : x \in Stolen(u)' \/ x \in InHand(u)' \/ x \in Leftover(u)'
    BY DEF Extents, InCall, Extent
  <2> QED
    BY <2>1, ExtentsParts
<1>2. ASSUME NEW x \in (Extents \ A) \cup F PROVE x \in Extents'
  <2>1. \/ \E a \in allocated' : x = InCall(a)
        \/ \E b \in Bins : x \in InBin(b)'
        \/ \E u \in Threads : x \in Stolen(u)' \/ x \in InHand(u)' \/ x \in Leftover(u)'
    <3>1. CASE x \in F
      BY <3>1
    <3>2. CASE x \notin F
      BY <3>2, ExtentsFrom
    <3> QED
      BY <3>1, <3>2
  <2> QED
    BY <2>1 DEF Extents, InCall, Extent
<1> QED
  BY <1>1, <1>2

\* A step of t replaces extents of its own, of callers and of bins.
LEMMA StepReplaces ==
    ASSUME NEW t \in Threads, NEW A \in SUBSET Extents, NEW F,
           \A x \in A : x.kind \in {"stolen", "block", "rest"} => x.of = t,
           \A x \in F : \/ x.kind = "caller"
                        \/ x.kind = "bin" /\ x.of \in Bins
                        \/ x.kind \in {"stolen", "block", "rest"} /\ x.of = t,
           \A x : (\E a \in allocated' : x = InCall(a)) <=>
                     \/ (\E a \in allocated : x = InCall(a)) /\ x \notin A
                     \/ x \in F /\ x.kind = "caller",
           \A b \in Bins : \A x : x \in InBin(b)' <=>
                     (x \in InBin(b) /\ x \notin A) \/ (x \in F /\ x.kind = "bin" /\ x.of = b),
           \A x : /\ x \in Stolen(t)' <=>
                        (x \in Stolen(t) /\ x \notin A) \/ (x \in F /\ x.kind = "stolen")
                  /\ x \in InHand(t)' <=>
                        (x \in InHand(t) /\ x \notin A) \/ (x \in F /\ x.kind = "block")
                  /\ x \in Leftover(t)' <=>
                        (x \in Leftover(t) /\ x \notin A) \/ (x \in F /\ x.kind = "rest"),
           \A u \in Threads : u # t =>
                  Stolen(u)' = Stolen(u) /\ InHand(u)' = InHand(u) /\ Leftover(u)' = Leftover(u)
    PROVE  Extents' = (Extents \ A) \cup F
<1>1. ASSUME NEW u \in Threads, NEW x
      PROVE  /\ x \in Stolen(u)' <=> (x \in Stolen(u) /\ x \notin A)
                                     \/ (x \in F /\ x.kind = "stolen" /\ x.of = u)
             /\ x \in InHand(u)' <=> (x \in InHand(u) /\ x \notin A)
                                     \/ (x \in F /\ x.kind = "block" /\ x.of = u)
             /\ x \in Leftover(u)' <=> (x \in Leftover(u) /\ x \notin A)
                                     \/ (x \in F /\ x.kind = "rest" /\ x.of = u)
  <2>1. CASE u = t
    BY <2>1
  <2>2. CASE u # t
    BY <2>2, Kinds
  <2> QED
    BY <2>1, <2>2
<1>2. ASSUME NEW x \in F
      PROVE  \/ x.kind = "caller"
             \/ x.kind = "bin" /\ x.of \in Bins
             \/ x.kind \in {"stolen", "block", "rest"} /\ x.of \in Threads
  BY <1>2
<1> QED
  BY <1>1, <1>2, ExtentsReplaced

\* Headers of free blocks that are not written keep their extents.
LEMMA HeadersKept ==
    ASSUME IInv, \A x \in Extents : x.kind \in {"bin", "stolen"} => header'[x.at] = header[x.at]
    PROVE  /\ \A b \in Bins : \A at \in Range(bins[b]) : header'[at] = header[at]
           /\ \A u \in Threads : \A at \in Range(stolen[u]) : header'[at] = header[at]
<1>1. ASSUME NEW b \in Bins, NEW at \in Range(bins[b]) PROVE header'[at] = header[at]
  <2>1. Extent(at, FreeSize(b, at), "bin", b) \in Extents
    BY ExtentsParts DEF InBin
  <2> QED
    BY <2>1 DEF Extent
<1>2. ASSUME NEW u \in Threads, NEW at \in Range(stolen[u]) PROVE header'[at] = header[at]
  <2>1. Extent(at, header[at], "stolen", u) \in Extents
    BY ExtentsParts DEF Stolen
  <2> QED
    BY <2>1 DEF Extent
<1> QED
  BY <1>1, <1>2

\* A step that moves no memory.
LEMMA NothingMoves ==
    ASSUME IInv, UNCHANGED <<currentPtr, bins, header, allocated, stolen, block, rest>>,
           \A u \in Threads : block[u] # -1 => want'[u] = want[u]
    PROVE  ListedOnce' /\ Tiles(Extents, currentPtr)'
<1>1. ListedOnce'
  BY DEF IInv, ListedOnce
<1>2. \A b \in Bins : InBin(b)' = InBin(b)
  BY BinKept
<1>3. \A u \in Threads : Stolen(u)' = Stolen(u) /\ InHand(u)' = InHand(u)
          /\ Leftover(u)' = Leftover(u)
  BY ThreadKept
<1>4. Extents' = Extents
  <2>1. {InCall(a) : a \in allocated}' = {InCall(a) : a \in allocated}
    BY DEF InCall, Extent
  <2>2. {InBin(b) : b \in Bins}' = {InBin(b) : b \in Bins}
    BY <1>2
  <2>3. {Stolen(t) \cup InHand(t) \cup Leftover(t) : t \in Threads}'
        = {Stolen(t) \cup InHand(t) \cup Leftover(t) : t \in Threads}
    BY <1>3
  <2> QED
    BY <2>1, <2>2, <2>3 DEF Extents
<1> QED
  BY <1>1, <1>4 DEF IInv

\* push_free of an extent that nobody else has: it joins the bin whose blocks are of its size.
LEMMA PushFreeFacts ==
    ASSUME IInv, NEW e \in Extents, NEW size \in Sizes, PushFree(e.at, size),
           e.kind \notin {"bin", "stolen"}
    PROVE  LET nb == GetBin(size)
               f == Extent(e.at, size, "bin", nb)
           IN  /\ nb \in Bins /\ e.at \in Blocks
               /\ header' \in [Blocks -> Int] /\ bins' \in [Bins -> Seq(Blocks)]
               /\ \A b \in Bins : IsInjective(bins'[b])
               /\ \A b \in Bins : \A x : x \in InBin(b)' <=> x \in InBin(b) \/ (x = f /\ b = nb)
               /\ \A u \in Threads : \A at \in Range(stolen[u]) : header'[at] = header[at]
<1> DEFINE nb == GetBin(size)
           f == Extent(e.at, size, "bin", nb)
<1>1. /\ header' = [header EXCEPT ![e.at] = size]
      /\ bins' = [bins EXCEPT ![nb] = <<e.at>> \o bins[nb]]
  BY DEF PushFree
<1>2. nb \in Bins /\ (nb # LargeBin => ClassSize(nb) = size)
  BY BinFacts
<1>3. size \in Nat
  BY SizesFacts, MultipleNaturals
<1>4. e.at \in Blocks
  BY ListedFacts
<1> HIDE DEF nb
<1>5. header \in [Blocks -> Int] /\ bins \in [Bins -> Seq(Blocks)]
  BY DEF IInv, TypeInv
<1>6. /\ \A b \in Bins : \A at \in Range(bins[b]) : header'[at] = header[at]
      /\ \A u \in Threads : \A at \in Range(stolen[u]) : header'[at] = header[at]
  <2>1. ASSUME NEW x \in Extents, x.kind \in {"bin", "stolen"} PROVE header'[x.at] = header[x.at]
    <3>1. x.at # e.at /\ x.at \in Blocks
      BY <2>1, ListedFacts
    <3> QED
      BY <1>1, <1>5, <3>1
  <2> QED
    BY <2>1, HeadersKept
<1>7. e.at \notin Range(bins[nb])
  <2> SUFFICES ASSUME e.at \in Range(bins[nb]) PROVE FALSE
    OBVIOUS
  <2> DEFINE x == Extent(e.at, FreeSize(nb, e.at), "bin", nb)
  <2>1. x \in Extents
    BY <1>2, ExtentsParts DEF InBin
  <2>2. x.at = e.at /\ x.kind = "bin"
    BY DEF Extent
  <2> HIDE DEF x
  <2> QED
    BY <2>1, <2>2, ListedFacts
<1>8. /\ <<e.at>> \o bins[nb] \in Seq(Blocks)
             /\ Range(<<e.at>> \o bins[nb]) = Range(bins[nb]) \cup {e.at}
      /\ IsInjective(<<e.at>> \o bins[nb])
  BY <1>2, <1>4, <1>5, <1>7, Pushed DEF IInv, ListedOnce
<1>9. header' \in [Blocks -> Int] /\ bins' \in [Bins -> Seq(Blocks)]
  <2>1. size \in Int
    BY <1>3
  <2> QED
    BY <1>1, <1>5, <1>8, <2>1
<1>10. \A b \in Bins : IsInjective(bins'[b])
  BY <1>1, <1>5, <1>8 DEF IInv, ListedOnce
<1>11. ASSUME NEW b \in Bins, NEW x PROVE x \in InBin(b)' <=> x \in InBin(b) \/ (x = f /\ b = nb)
  <2>1. CASE b # nb
    <3>1. bins'[b] = bins[b]
      BY <1>1, <1>5, <2>1
    <3> QED
      BY <1>6, <2>1, <3>1, BinKept
  <2>2. CASE b = nb
    <3>1. bins'[nb] = <<e.at>> \o bins[nb] /\ header'[e.at] = size
      BY <1>1, <1>2, <1>4, <1>5
    <3>2. FreeSize(nb, e.at)' = size
      BY <1>2, <3>1 DEF FreeSize
    <3>3. \A at \in Range(bins[nb]) : FreeSize(nb, at)' = FreeSize(nb, at)
      BY <1>2, <1>6 DEF FreeSize
    <3>4. InBin(nb)' = {Extent(at, FreeSize(nb, at)', "bin",
              nb) : at \in Range(bins[nb]) \cup {e.at}}
      BY <1>8, <3>1 DEF InBin, Extent
    <3>5. InBin(nb) = {Extent(at, FreeSize(nb, at), "bin", nb) : at \in Range(bins[nb])}
      BY DEF InBin
    <3> QED
      BY <2>2, <3>2, <3>3, <3>4, <3>5
  <2> QED
    BY <2>1, <2>2
<1> QED
  BY <1>2, <1>4, <1>6, <1>9, <1>10, <1>11 DEF nb

-----------------------------------------------------------------------------
(* The steps *)

LEMMA PopBinInvariant == ASSUME IInv, NEW t \in Threads, PopBin(t) PROVE IInv'
<1> DEFINE b0 == bin[t]  list == bins[b0]  at == Head(list)
           e == Extent(at, ClassSize(b0), "bin", b0)
           f == Extent(at, Size(t), "block", t)
           over == ClassSize(b0) - Size(t)
           g == Extent(at + Size(t), over, "rest", t)
           A == {e}
           F == {f} \cup {x \in {g} : over > 0}
<1> USE DEF IInv
<1>1. /\ pc[t] = "bin" /\ pc' = [pc EXCEPT ![t] = "split"]
      /\ b0 \in ClassBins /\ b0 \in Bins /\ b0 # LargeBin /\ list \in Seq(Blocks) /\ list # <<>>
      /\ IsInjective(list)
      /\ bins' = [bins EXCEPT ![b0] = Tail(list)]
      /\ block' = [block EXCEPT ![t] = at]
      /\ rest' = [rest EXCEPT ![t] = [at |-> at + Size(t), bytes |-> over]]
      /\ UNCHANGED <<currentPtr, header, allocated, want, bin, stolen>>
  BY DEF PopBin, Goto, TypeInv, ListedOnce, ClassBins
<1>2. block[t] = -1 /\ stolen[t] = <<>> /\ rest[t].bytes = 0 /\ want[t] \in RequestSizes
      /\ Size(t) <= ClassSize(b0)
  BY <1>1 DEF Control, ControlOf
<1>3. /\ at \in Range(list) /\ Tail(list) \in Seq(Blocks) /\ Range(Tail(list)) = Range(list) \ {at}
      /\ IsInjective(Tail(list))
  BY <1>1, Popped
<1>4. e \in InBin(b0) /\ e \in Extents
  <2>1. e \in InBin(b0)
    BY <1>1, <1>3 DEF InBin, FreeSize
  <2> QED
    BY <2>1, <1>1, ExtentsParts
<1>5. at \in Blocks /\ at \in Nat
  BY <1>4, ListedFacts DEF Extent
<1>6. /\ ClassSize(b0) \in Multiples \ {0} /\ ClassSize(b0) \in Nat
      /\ Size(t) \in Multiples \ {0} /\ Size(t) \in Nat /\ Size(t) > 0 /\ over \in Nat
      /\ over \in Multiples
  <2>1. ClassSize(b0) \in Multiples \ {0} /\ ClassSize(b0) \in Nat
    BY <1>1, ClassFacts, ClassNaturals
  <2>2. Size(t) \in Multiples \ {0} /\ Size(t) \in Nat /\ Size(t) > 0
    BY RequestFacts
  <2>3. over \in Multiples
    BY <1>2, <2>1, <2>2, MultipleDifference
  <2> QED
    BY <2>1, <2>2, <2>3, MultipleNaturals
<1> HIDE DEF list, at, over
<1>7. Extents' = (Extents \ A) \cup F
  <2>1. ASSUME NEW b \in Bins
        PROVE  InBin(b)' = IF b = b0 THEN InBin(b) \ {e} ELSE InBin(b)
    <3>1. CASE b # b0
      BY <1>1, <3>1, BinKept DEF TypeInv
    <3>2. CASE b = b0
      <4>1. InBin(b)' = {Extent(a, ClassSize(b0), "bin", b0) : a \in Range(Tail(list))}
        BY <1>1, <3>2 DEF InBin, FreeSize, Extent, TypeInv
      <4>2. InBin(b) = {Extent(a, ClassSize(b0), "bin", b0) : a \in Range(list)}
        BY <1>1, <3>2 DEF InBin, FreeSize, list
      <4> QED
        BY <1>3, <3>2, <4>1, <4>2 DEF Extent
    <3> QED
      BY <3>1, <3>2
  <2>2. ASSUME NEW u \in Threads, u # t
        PROVE  Stolen(u)' = Stolen(u) /\ InHand(u)' = InHand(u) /\ Leftover(u)' = Leftover(u)
    BY <1>1, <2>2, ThreadKept DEF TypeInv
  <2>3. Stolen(t) = {} /\ InHand(t) = {} /\ Leftover(t) = {}
    BY <1>2 DEF Stolen, InHand, Leftover, Range
  <2>4. Stolen(t)' = {} /\ InHand(t)' = {f} /\ Leftover(t)' = {x \in {g} : over > 0}
    <3>1. block'[t] = at /\ stolen'[t] = <<>> /\ Size(t)' = Size(t)
          /\ rest'[t] = [at |-> at + Size(t), bytes |-> over]
      BY <1>1, <1>2 DEF TypeInv, Size
    <3> QED
      BY <1>5, <3>1 DEF Stolen, InHand, Leftover, Range, Extent
  <2>5. \A x \in F : x.kind \in {"block", "rest"} /\ x.of = t
        /\ (x.kind = "block" <=> x = f) /\ (x.kind = "rest" <=> x = g)
    BY DEF Extent
  <2>6. e.kind = "bin" /\ e.of = b0
    BY DEF Extent
  <2> HIDE DEF e, f, g
  <2>7. \A x : (\E a \in allocated' : x = InCall(a)) <=>
                  \/ (\E a \in allocated : x = InCall(a)) /\ x \notin A
                  \/ x \in F /\ x.kind = "caller"
    BY <1>1, <2>5, <2>6, Kinds
  <2>8. \A b \in Bins : \A x : x \in InBin(b)' <=>
              (x \in InBin(b) /\ x \notin A) \/ (x \in F /\ x.kind = "bin" /\ x.of = b)
    BY <2>1, <2>5, <2>6, Kinds
  <2>9. \A x : /\ x \in Stolen(t)' <=>
                     (x \in Stolen(t) /\ x \notin A) \/ (x \in F /\ x.kind = "stolen")
               /\ x \in InHand(t)' <=>
                     (x \in InHand(t) /\ x \notin A) \/ (x \in F /\ x.kind = "block")
               /\ x \in Leftover(t)' <=>
                     (x \in Leftover(t) /\ x \notin A) \/ (x \in F /\ x.kind = "rest")
    BY <2>3, <2>4, <2>5
  <2>10. /\ \A x \in A : x.kind \in {"stolen", "block", "rest"} => x.of = t
         /\ \A x \in F : \/ x.kind = "caller"
                         \/ x.kind = "bin" /\ x.of \in Bins
                         \/ x.kind \in {"stolen", "block", "rest"} /\ x.of = t
    BY <2>5, <2>6
  <2>11. A \in SUBSET Extents
    BY <1>4
  <2> HIDE DEF A, F
  <2> QED
    BY <2>2, <2>7, <2>8, <2>9, <2>10, <2>11, StepReplaces
<1>8. Tiles(Extents, currentPtr)'
  <2>1. /\ e.at = at /\ e.size = ClassSize(b0) /\ f.at = at /\ f.size = Size(t)
        /\ g.at = at + Size(t) /\ g.size = over
    BY DEF Extent
  <2> HIDE DEF e, f, g
  <2>2. currentPtr \in Nat /\ Tiles(Extents, currentPtr)
    BY ListedFacts
  <2>3. /\ f.at = e.at /\ f.size \in Multiples \ {0} /\ g.size \in Multiples
        /\ g.at = e.at + f.size /\ f.size + g.size = e.size
    BY <1>6, <2>1 DEF over
  <2>4. Tiles((Extents \ {e}) \cup ({f} \cup {x \in {g} : g.size > 0}), currentPtr)
    BY <1>4, <2>2, <2>3, TilesCut
  <2> QED
    BY <1>1, <1>7, <2>1, <2>4
<1>9. TypeInv'
  <2>1. bins' \in [Bins -> Seq(Blocks)]
    BY <1>1, <1>3 DEF TypeInv
  <2>2. block' \in [Threads -> Blocks \cup {-1}]
    BY <1>1, <1>5 DEF TypeInv
  <2>3. at + Size(t) \in Int /\ over \in Int
    BY <1>5, <1>6
  <2>4. rest' \in [Threads -> [at : Int, bytes : Int]]
    BY <1>1, <2>3 DEF TypeInv
  <2>5. pc' \in [Threads -> {"idle", "bump", "bin", "giveBack", "split"}]
    BY <1>1 DEF TypeInv
  <2> QED
    BY <1>1, <2>1, <2>2, <2>4, <2>5 DEF TypeInv
<1>10. Control'
  BY <1>1, <1>2, <1>5 DEF Control, ControlOf, TypeInv, Size
<1>11. ListedOnce'
  BY <1>1, <1>3 DEF ListedOnce, TypeInv
<1> QED
  BY <1>8, <1>9, <1>10, <1>11

LEMMA AllocBeginInvariant == ASSUME IInv, NEW t \in Threads, AllocBegin(t) PROVE IInv'
<1>1. /\ pc[t] = "idle" /\ pc' = [pc EXCEPT ![t] = "bump"]
      /\ UNCHANGED <<currentPtr, bins, header, allocated, bin, stolen, block, rest>>
  BY DEF AllocBegin, Goto
<1>2. PICK bytes \in RequestSizes : want' = [want EXCEPT ![t] = bytes]
  BY DEF AllocBegin
<1>3. block[t] = -1
  BY <1>1 DEF IInv, Control, ControlOf
<1>4. \A u \in Threads : block[u] # -1 => want'[u] = want[u]
  BY <1>2, <1>3 DEF IInv, TypeInv
<1>5. ListedOnce' /\ Tiles(Extents, currentPtr)'
  BY <1>1, <1>4, NothingMoves
<1>6. TypeInv'
  BY <1>1, <1>2 DEF IInv, TypeInv
<1>7. Control'
  BY <1>1, <1>2 DEF IInv, Control, ControlOf, TypeInv, Size
<1> QED
  BY <1>5, <1>6, <1>7 DEF IInv

LEMMA BumpFailsInvariant == ASSUME IInv, NEW t \in Threads, BumpFails(t) PROVE IInv'
<1>1. /\ pc[t] = "bump" /\ pc' = [pc EXCEPT ![t] = "bin"]
      /\ bin' = [bin EXCEPT ![t] = GetBin(Size(t))]
      /\ UNCHANGED <<currentPtr, bins, header, allocated, want, stolen, block, rest>>
  BY DEF BumpFails, Goto
<1>2. /\ Size(t) \in Nat /\ GetBin(Size(t)) \in Bins
      /\ GetBin(Size(t)) # LargeBin => ClassSize(GetBin(Size(t))) = Size(t)
  BY RequestFacts, BinFacts
<1>3. ListedOnce' /\ Tiles(Extents, currentPtr)'
  BY <1>1, NothingMoves
<1>4. TypeInv'
  BY <1>1, <1>2 DEF IInv, TypeInv
<1>5. Control'
  <2> SUFFICES ASSUME NEW u \in Threads PROVE ControlOf(u)'
    BY DEF Control
  <2>1. CASE u = t
    BY <1>1, <1>2, <2>1 DEF IInv, Control, ControlOf, TypeInv, Size
  <2>2. CASE u # t
    BY <1>1, <2>2 DEF IInv, Control, ControlOf, TypeInv, Size
  <2> QED
    BY <2>1, <2>2
<1> QED
  BY <1>3, <1>4, <1>5 DEF IInv

LEMMA NextBinInvariant == ASSUME IInv, NEW t \in Threads, NextBin(t) PROVE IInv'
<1>1. /\ pc[t] = "bin" /\ bin[t] # LargeBin /\ bin' = [bin EXCEPT ![t] = bin[t] + 1]
      /\ UNCHANGED <<currentPtr, bins, header, allocated, pc, want, stolen, block, rest>>
  BY DEF NextBin, IInv, TypeInv
<1>2. bin[t] \in ClassBins
  BY <1>1 DEF IInv, TypeInv, ClassBins
<1>3. bin[t] + 1 \in Bins
  BY <1>2, ClassFacts, Shape DEF Bins
<1>4. bin[t] + 1 # LargeBin => Size(t) <= ClassSize(bin[t] + 1)
  <2>1. Size(t) <= ClassSize(bin[t]) /\ Size(t) \in Nat /\ ClassSize(bin[t]) \in Nat
    BY <1>1, <1>2, RequestFacts, ClassNaturals DEF IInv, Control, ControlOf
  <2> SUFFICES ASSUME bin[t] + 1 # LargeBin PROVE Size(t) <= ClassSize(bin[t] + 1)
    OBVIOUS
  <2> DEFINE c == bin[t] + 1
  <2>2. c \in ClassBins
    BY <1>3 DEF ClassBins
  <2>3. bin[t] < c
    BY <1>2, ClassNaturals
  <2> HIDE DEF c
  <2>4. ClassSize(bin[t]) < ClassSize(c) /\ ClassSize(c) \in Nat
    BY <1>2, <2>2, <2>3, ClassFacts, ClassNaturals
  <2>5. Size(t) <= ClassSize(c)
    BY <2>1, <2>4
  <2> QED
    BY <2>5 DEF c
<1>5. ListedOnce' /\ Tiles(Extents, currentPtr)'
  BY <1>1, NothingMoves
<1>6. TypeInv'
  BY <1>1, <1>3 DEF IInv, TypeInv
<1>7. Control'
  <2> SUFFICES ASSUME NEW u \in Threads PROVE ControlOf(u)'
    BY DEF Control
  <2>1. CASE u = t
    <3>1. bin'[t] = bin[t] + 1 /\ Size(t)' = Size(t)
      BY <1>1 DEF IInv, TypeInv, Size
    <3> QED
      BY <1>1, <1>4, <2>1, <3>1 DEF IInv, Control, ControlOf
  <2>2. CASE u # t
    BY <1>1, <2>2 DEF IInv, Control, ControlOf, TypeInv, Size
  <2> QED
    BY <2>1, <2>2
<1> QED
  BY <1>5, <1>6, <1>7 DEF IInv

LEMMA GivenBackInvariant == ASSUME IInv, NEW t \in Threads, GivenBack(t) PROVE IInv'
<1>1. /\ pc[t] = "giveBack" /\ pc' = [pc EXCEPT ![t] = "split"] /\ stolen[t] = <<>> /\ block[t] # -1
      /\ UNCHANGED <<currentPtr, bins, header, allocated, want, bin, stolen, block, rest>>
  BY DEF GivenBack, Goto
<1>2. ListedOnce' /\ Tiles(Extents, currentPtr)'
  BY <1>1, NothingMoves
<1> QED
  BY <1>1, <1>2 DEF IInv, TypeInv, Control, ControlOf, Size

LEMMA RefuseInvariant == ASSUME IInv, NEW t \in Threads, Refuse(t) PROVE IInv'
<1>1. /\ pc[t] = "giveBack" /\ pc' = [pc EXCEPT ![t] = "idle"] /\ stolen[t] = <<>> /\ block[t] = -1
      /\ UNCHANGED <<currentPtr, bins, header, allocated, want, bin, stolen, block, rest>>
  BY DEF Refuse, Goto
<1>2. ListedOnce' /\ Tiles(Extents, currentPtr)'
  BY <1>1, NothingMoves
<1> QED
  BY <1>1, <1>2 DEF IInv, TypeInv, Control, ControlOf, Size

LEMMA FreePieceInvariant == ASSUME IInv, NEW t \in Threads, FreePiece(t) PROVE IInv'
<1> DEFINE at == rest[t].at  bytes == rest[t].bytes  size == PieceSize(bytes)
           nb == GetBin(size)  over == bytes - size
           e == Extent(at, bytes, "rest", t)
           f == Extent(at, size, "bin", nb)
           g == Extent(at + size, over, "rest", t)
           A == {e}
           F == {f} \cup {x \in {g} : over > 0}
<1>1. /\ pc[t] = "split" /\ bytes > 0
      /\ PushFree(at, size)
      /\ rest' = [rest EXCEPT ![t] = [at |-> at + size, bytes |-> over]]
      /\ UNCHANGED <<currentPtr, allocated, pc, want, bin, stolen, block>>
  BY DEF FreePiece, IInv, TypeInv
<1>2. e \in Leftover(t) /\ e \in Extents /\ Leftover(t) = {e}
  <2>1. Leftover(t) = {e}
    BY <1>1 DEF Leftover
  <2> QED
    BY <2>1, ExtentsParts
<1>3. /\ at \in Blocks /\ at \in Nat /\ bytes \in Multiples /\ bytes \in Nat
  <2>1. e.at = at /\ e.size = bytes
    BY DEF Extent
  <2> QED
    BY <1>2, <2>1, ListedFacts
<1>4. /\ size \in Sizes /\ size <= bytes /\ size \in Multiples \ {0} /\ size \in Nat /\ over \in Nat
      /\ over \in Multiples
  <2>1. size \in Sizes /\ size <= bytes
    BY <1>1, <1>3, PieceFacts
  <2>2. size \in Multiples \ {0} /\ size \in Nat
    BY <2>1, SizesFacts, MultipleNaturals
  <2>3. over \in Multiples
    BY <1>3, <2>1, <2>2, MultipleDifference
  <2> QED
    BY <2>1, <2>2, <2>3, MultipleNaturals
<1>5. block[t] # -1 /\ block[t] \in Blocks /\ stolen[t] = <<>>
  BY <1>1 DEF IInv, Control, ControlOf, TypeInv
<1> HIDE DEF at, bytes, size, over, nb
<1>6. /\ nb \in Bins
      /\ header' \in [Blocks -> Int] /\ bins' \in [Bins -> Seq(Blocks)]
      /\ \A b \in Bins : IsInjective(bins'[b])
      /\ \A b \in Bins : \A x : x \in InBin(b)' <=> x \in InBin(b) \/ (x = f /\ b = nb)
      /\ \A u \in Threads : \A a \in Range(stolen[u]) : header'[a] = header[a]
  <2>1. e.at = at /\ e.kind = "rest"
    BY DEF Extent
  <2>2. PushFree(e.at, size)
    BY <1>1, <2>1
  <2> HIDE DEF e
  <2> QED
    BY <1>2, <1>4, <2>1, <2>2, PushFreeFacts DEF nb
<1>7. Extents' = (Extents \ A) \cup F
  <2>1. ASSUME NEW u \in Threads, u # t
        PROVE  Stolen(u)' = Stolen(u) /\ InHand(u)' = InHand(u) /\ Leftover(u)' = Leftover(u)
    BY <1>1, <1>6, <2>1, ThreadKept DEF IInv, TypeInv
  <2>2. Leftover(t)' = {x \in {g} : over > 0}
    BY <1>1 DEF Leftover, Extent, IInv, TypeInv
  <2>3. Stolen(t)' = Stolen(t) /\ InHand(t)' = InHand(t)
    <3>1. Stolen(t) = {} /\ Stolen(t)' = {}
      BY <1>1, <1>5 DEF Stolen, Range
    <3> QED
      BY <1>1, <3>1 DEF InHand, Size, Extent
  <2>4. /\ f.kind = "bin" /\ f.of = nb /\ g.kind = "rest" /\ g.of = t
        /\ e.kind = "rest" /\ e.of = t
    BY DEF Extent
  <2> HIDE DEF e, f, g
  <2>5. /\ \A x \in A : x = e
        /\ \A x \in F : x = f \/ (x = g /\ over > 0)
        /\ f \in F /\ (over > 0 => g \in F)
    OBVIOUS
  <2>6. \A x : (\E a \in allocated' : x = InCall(a)) <=>
                  \/ (\E a \in allocated : x = InCall(a)) /\ x \notin A
                  \/ x \in F /\ x.kind = "caller"
    BY <1>1, <2>4, <2>5, Kinds
  <2>7. \A b \in Bins : \A x : x \in InBin(b)' <=>
              (x \in InBin(b) /\ x \notin A) \/ (x \in F /\ x.kind = "bin" /\ x.of = b)
    BY <1>6, <2>4, <2>5, Kinds
  <2>8. \A x : /\ x \in Stolen(t)' <=>
                     (x \in Stolen(t) /\ x \notin A) \/ (x \in F /\ x.kind = "stolen")
               /\ x \in InHand(t)' <=>
                     (x \in InHand(t) /\ x \notin A) \/ (x \in F /\ x.kind = "block")
               /\ x \in Leftover(t)' <=>
                     (x \in Leftover(t) /\ x \notin A) \/ (x \in F /\ x.kind = "rest")
    BY <1>2, <2>2, <2>3, <2>4, <2>5, Kinds
  <2>9. /\ \A x \in A : x.kind \in {"stolen", "block", "rest"} => x.of = t
        /\ \A x \in F : \/ x.kind = "caller"
                        \/ x.kind = "bin" /\ x.of \in Bins
                        \/ x.kind \in {"stolen", "block", "rest"} /\ x.of = t
    BY <1>6, <2>4, <2>5
  <2>10. A \in SUBSET Extents
    BY <1>2
  <2> HIDE DEF A, F
  <2> QED
    BY <2>1, <2>6, <2>7, <2>8, <2>9, <2>10, StepReplaces
<1>8. Tiles(Extents, currentPtr)'
  <2>1. /\ e.at = at /\ e.size = bytes /\ f.at = at /\ f.size = size
        /\ g.at = at + size /\ g.size = over
    BY DEF Extent
  <2> HIDE DEF e, f, g
  <2>2. currentPtr \in Nat /\ Tiles(Extents, currentPtr)
    BY ListedFacts DEF IInv
  <2>3. /\ f.at = e.at /\ f.size \in Multiples \ {0} /\ g.size \in Multiples
        /\ g.at = e.at + f.size /\ f.size + g.size = e.size
    BY <1>3, <1>4, <2>1 DEF over
  <2>4. Tiles((Extents \ {e}) \cup ({f} \cup {x \in {g} : g.size > 0}), currentPtr)
    BY <1>2, <2>2, <2>3, TilesCut
  <2> QED
    BY <1>1, <1>7, <2>1, <2>4
<1>9. TypeInv'
  <2>1. at + size \in Int /\ over \in Int
    BY <1>3, <1>4
  <2>2. rest' \in [Threads -> [at : Int, bytes : Int]]
    BY <1>1, <2>1 DEF IInv, TypeInv
  <2> QED
    BY <1>1, <1>6, <2>2 DEF IInv, TypeInv
<1>10. Control'
  BY <1>1, <1>5 DEF IInv, Control, ControlOf, TypeInv, Size
<1>11. ListedOnce'
  BY <1>1, <1>6 DEF IInv, ListedOnce
<1> QED
  BY <1>8, <1>9, <1>10, <1>11 DEF IInv

LEMMA DeallocateInvariant == ASSUME IInv, NEW t \in Threads, Deallocate(t) PROVE IInv'
<1>1. PICK c \in allocated : allocated' = allocated \ {c} /\ PushFree(c.at, BlockSizeFor(c.bytes))
  BY DEF Deallocate
<1> DEFINE size == BlockSizeFor(c.bytes)  nb == GetBin(size)
           e == InCall(c)
           f == Extent(c.at, size, "bin", nb)
           A == {e}
           F == {f}
<1>2. UNCHANGED <<currentPtr, pc, want, bin, stolen, block, rest>>
  BY DEF Deallocate
<1>3. allocated \subseteq [at : Blocks, bytes : RequestSizes]
  BY DEF IInv, TypeInv
<1>4. size \in Sizes
  <2>1. c.bytes \in Nat
    BY <1>3, ShapeAssumption
  <2> QED
    BY <2>1, BlockSizeFacts
<1>5. e \in Extents /\ e.at = c.at /\ e.size = size /\ e.kind = "caller" /\ e.of = c.bytes
  BY ExtentsParts DEF InCall, Extent
<1>6. \A a \in allocated : InCall(a) = e => a = c
  <2> SUFFICES ASSUME NEW a \in allocated, InCall(a) = e PROVE a = c
    OBVIOUS
  <2>1. a.at = c.at /\ a.bytes = c.bytes
    BY <1>5 DEF InCall, Extent
  <2> QED
    BY <1>3, <2>1
<1> HIDE DEF e, size, nb
<1>7. /\ nb \in Bins
      /\ header' \in [Blocks -> Int] /\ bins' \in [Bins -> Seq(Blocks)]
      /\ \A b \in Bins : IsInjective(bins'[b])
      /\ \A b \in Bins : \A x : x \in InBin(b)' <=> x \in InBin(b) \/ (x = f /\ b = nb)
      /\ \A u \in Threads : \A a \in Range(stolen[u]) : header'[a] = header[a]
  <2>1. PushFree(e.at, size)
    BY <1>1, <1>5 DEF size
  <2>2. /\ GetBin(size) \in Bins
        /\ header' \in [Blocks -> Int] /\ bins' \in [Bins -> Seq(Blocks)]
        /\ \A b \in Bins : IsInjective(bins'[b])
        /\ \A b \in Bins : \A x :
              x \in InBin(b)'
                  <=> x \in InBin(b) \/ (x = Extent(e.at, size, "bin", GetBin(size))
                      /\ b = GetBin(size))
        /\ \A u \in Threads : \A a \in Range(stolen[u]) : header'[a] = header[a]
    BY <1>4, <1>5, <2>1, PushFreeFacts
  <2> QED
    BY <1>5, <2>2 DEF nb
<1>8. Extents' = (Extents \ A) \cup F
  <2>1. ASSUME NEW u \in Threads
        PROVE  Stolen(u)' = Stolen(u) /\ InHand(u)' = InHand(u) /\ Leftover(u)' = Leftover(u)
    BY <1>2, <1>7, ThreadKept
  <2>2. f.kind = "bin" /\ f.of = nb
    BY DEF Extent
  <2> HIDE DEF f
  <2>3. /\ \A x : x \in A <=> x = e
        /\ \A x : x \in F <=> x = f
    OBVIOUS
  <2>4. \A x : (\E a \in allocated' : x = InCall(a)) <=>
                  \/ (\E a \in allocated : x = InCall(a)) /\ x \notin A
                  \/ x \in F /\ x.kind = "caller"
    <3>1. \A x : (\E a \in allocated \ {c} : x = InCall(a)) <=>
                    (\E a \in allocated : x = InCall(a)) /\ x # e
      BY <1>6 DEF e
    <3> QED
      BY <1>1, <2>2, <2>3, <3>1
  <2>5. \A b \in Bins : \A x : x \in InBin(b)' <=>
              (x \in InBin(b) /\ x \notin A) \/ (x \in F /\ x.kind = "bin" /\ x.of = b)
    BY <1>5, <1>7, <2>2, <2>3, Kinds
  <2>6. \A x : /\ x \in Stolen(t)' <=>
                     (x \in Stolen(t) /\ x \notin A) \/ (x \in F /\ x.kind = "stolen")
               /\ x \in InHand(t)' <=>
                     (x \in InHand(t) /\ x \notin A) \/ (x \in F /\ x.kind = "block")
               /\ x \in Leftover(t)' <=>
                     (x \in Leftover(t) /\ x \notin A) \/ (x \in F /\ x.kind = "rest")
    BY <1>5, <2>1, <2>2, <2>3, Kinds
  <2>7. /\ \A x \in A : x.kind \in {"stolen", "block", "rest"} => x.of = t
        /\ \A x \in F : \/ x.kind = "caller"
                        \/ x.kind = "bin" /\ x.of \in Bins
                        \/ x.kind \in {"stolen", "block", "rest"} /\ x.of = t
    BY <1>5, <1>7, <2>2, <2>3
  <2>8. A \in SUBSET Extents
    BY <1>5
  <2>9. \A u \in Threads : u # t =>
            Stolen(u)' = Stolen(u) /\ InHand(u)' = InHand(u) /\ Leftover(u)' = Leftover(u)
    BY <2>1
  <2> HIDE DEF A, F
  <2> QED
    BY <2>9, <2>4, <2>5, <2>6, <2>7, <2>8, StepReplaces
<1>9. Tiles(Extents, currentPtr)'
  <2>1. f.at = e.at /\ f.size = e.size
    BY <1>5 DEF Extent
  <2> HIDE DEF f
  <2>2. currentPtr \in Nat /\ Tiles(Extents, currentPtr) /\ A \in SUBSET Extents
    BY <1>5, ListedFacts DEF IInv
  <2>3. /\ \A x \in F : \E y \in A : x.at = y.at /\ x.size = y.size
        /\ \A y \in A : \E x \in F : x.at = y.at /\ x.size = y.size
        /\ \A x, y \in F : x.at = y.at => x = y
    BY <2>1
  <2> HIDE DEF A, F
  <2>4. Tiles((Extents \ A) \cup F, currentPtr)
    BY <2>2, <2>3, TilesMoved
  <2> QED
    BY <1>2, <1>8, <2>4
<1>10. TypeInv'
  <2>1. allocated' \subseteq [at : Blocks, bytes : RequestSizes]
    BY <1>1, <1>3
  <2> QED
    BY <1>2, <1>7, <2>1 DEF IInv, TypeInv
<1>11. Control'
  BY <1>2 DEF IInv, Control, ControlOf, Size
<1>12. ListedOnce'
  BY <1>2, <1>7 DEF IInv, ListedOnce
<1> QED
  BY <1>9, <1>10, <1>11, <1>12 DEF IInv

LEMMA AllocEndInvariant == ASSUME IInv, NEW t \in Threads, AllocEnd(t) PROVE IInv'
<1> DEFINE at == block[t]
           c == [at |-> at, bytes |-> want[t]]
           e == Extent(at, Size(t), "block", t)
           f == InCall(c)
           A == {e}
           F == {f}
<1>1. /\ pc[t] = "split" /\ pc' = [pc EXCEPT ![t] = "idle"] /\ rest[t].bytes = 0
      /\ allocated' = allocated \cup {c}
      /\ header' = [b \in Blocks |-> IF Overlaps(at, Size(t), b) THEN Garbage ELSE header[b]]
      /\ block' = [block EXCEPT ![t] = -1]
      /\ rest' = [rest EXCEPT ![t] = NoRest]
      /\ UNCHANGED <<currentPtr, bins, want, bin, stolen>>
  BY DEF AllocEnd, HandOut, Goto
<1>2. at # -1 /\ at \in Blocks /\ stolen[t] = <<>> /\ want[t] \in RequestSizes
  BY <1>1 DEF IInv, Control, ControlOf, TypeInv
<1>3. e \in Extents /\ InHand(t) = {e}
  <2>1. InHand(t) = {e}
    BY <1>2 DEF InHand
  <2> QED
    BY <2>1, ExtentsParts
<1>4. /\ e.at = at /\ e.size = Size(t) /\ e.kind = "block" /\ e.of = t
      /\ f.at = at /\ f.size = Size(t) /\ f.kind = "caller"
  BY DEF Extent, InCall, Size
<1>5. f = InCall(c)
  OBVIOUS
<1> HIDE DEF e, f
<1>6. /\ \A b \in Bins : \A a \in Range(bins[b]) : header'[a] = header[a]
      /\ \A u \in Threads : \A a \in Range(stolen[u]) : header'[a] = header[a]
  <2>1. ASSUME NEW x \in Extents, x.kind \in {"bin", "stolen"} PROVE header'[x.at] = header[x.at]
    <3>1. x # e /\ x.at \in Blocks /\ x.at \in Nat /\ Overlaps(x.at, x.size, x.at)
      BY <1>4, <2>1, ListedFacts DEF Overlaps
    <3>2. ~Overlaps(at, Size(t), x.at)
      BY <1>3, <1>4, <3>1, ListedFacts
    <3> QED
      BY <1>1, <3>1, <3>2
  <2> QED
    BY <2>1, HeadersKept
<1>7. Extents' = (Extents \ A) \cup F
  <2>1. ASSUME NEW u \in Threads, u # t
        PROVE  Stolen(u)' = Stolen(u) /\ InHand(u)' = InHand(u) /\ Leftover(u)' = Leftover(u)
    BY <1>1, <1>6, <2>1, ThreadKept DEF IInv, TypeInv
  <2>2. Leftover(t) = {} /\ Leftover(t)' = {} /\ Stolen(t) = {} /\ Stolen(t)' = {}
            /\ InHand(t)' = {}
    <3>1. rest'[t].bytes = 0 /\ block'[t] = -1 /\ stolen'[t] = <<>>
      BY <1>1, <1>2 DEF IInv, TypeInv, NoRest
    <3> QED
      BY <1>1, <1>2, <3>1 DEF Stolen, InHand, Leftover, Range
  <2>3. \A b \in Bins : InBin(b)' = InBin(b)
    BY <1>1, <1>6, BinKept
  <2>4. /\ \A x : x \in A <=> x = e
        /\ \A x : x \in F <=> x = f
    OBVIOUS
  <2>5. \A x : (\E a \in allocated' : x = InCall(a)) <=>
                  \/ (\E a \in allocated : x = InCall(a)) /\ x \notin A
                  \/ x \in F /\ x.kind = "caller"
    BY <1>1, <1>4, <1>5, <2>4, Kinds
  <2>6. \A b \in Bins : \A x : x \in InBin(b)' <=>
              (x \in InBin(b) /\ x \notin A) \/ (x \in F /\ x.kind = "bin" /\ x.of = b)
    BY <1>4, <2>3, <2>4, Kinds
  <2>7. \A x : /\ x \in Stolen(t)' <=>
                     (x \in Stolen(t) /\ x \notin A) \/ (x \in F /\ x.kind = "stolen")
               /\ x \in InHand(t)' <=>
                     (x \in InHand(t) /\ x \notin A) \/ (x \in F /\ x.kind = "block")
               /\ x \in Leftover(t)' <=>
                     (x \in Leftover(t) /\ x \notin A) \/ (x \in F /\ x.kind = "rest")
    BY <1>3, <1>4, <2>2, <2>4
  <2>8. \A x \in A : x.kind \in {"stolen", "block", "rest"} => x.of = t
    BY <1>4, <2>4
  <2>12. ASSUME NEW x \in F
         PROVE  \/ x.kind = "caller"
                \/ x.kind = "bin" /\ x.of \in Bins
                \/ x.kind \in {"stolen", "block", "rest"} /\ x.of = t
    BY <1>4, <2>4
  <2>9. A \in SUBSET Extents
    BY <1>3
  <2> HIDE DEF A, F
  <2> QED
    BY <2>1, <2>5, <2>6, <2>7, <2>8, <2>9, <2>12, StepReplaces
<1>8. Tiles(Extents, currentPtr)'
  <2>1. currentPtr \in Nat /\ Tiles(Extents, currentPtr) /\ A \in SUBSET Extents
    BY <1>3, ListedFacts DEF IInv
  <2>2. /\ \A x \in F : \E y \in A : x.at = y.at /\ x.size = y.size
        /\ \A y \in A : \E x \in F : x.at = y.at /\ x.size = y.size
        /\ \A x, y \in F : x.at = y.at => x = y
    BY <1>4
  <2> HIDE DEF A, F
  <2>3. Tiles((Extents \ A) \cup F, currentPtr)
    BY <2>1, <2>2, TilesMoved
  <2> QED
    BY <1>1, <1>7, <2>3
<1>9. TypeInv'
  <2>1. header' \in [Blocks -> Int]
    BY <1>1 DEF IInv, TypeInv, Garbage
  <2>2. allocated' \subseteq [at : Blocks, bytes : RequestSizes]
    BY <1>1, <1>2 DEF IInv, TypeInv
  <2>3. rest' \in [Threads -> [at : Int, bytes : Int]]
    BY <1>1 DEF IInv, TypeInv, NoRest
  <2>4. block' \in [Threads -> Blocks \cup {-1}]
    BY <1>1 DEF IInv, TypeInv
  <2> QED
    BY <1>1, <2>1, <2>2, <2>3, <2>4 DEF IInv, TypeInv
<1>10. Control'
  BY <1>1, <1>2 DEF IInv, Control, ControlOf, TypeInv, Size, NoRest
<1>11. ListedOnce'
  BY <1>1 DEF IInv, ListedOnce
<1> QED
  BY <1>8, <1>9, <1>10, <1>11 DEF IInv

LEMMA BumpInvariant == ASSUME IInv, NEW t \in Threads, Bump(t) PROVE IInv'
<1> DEFINE c == [at |-> currentPtr, bytes |-> want[t]]
           f == InCall(c)
           F == {f}
<1>1. /\ pc[t] = "bump" /\ pc' = [pc EXCEPT ![t] = "idle"] /\ Size(t) <= ArenaEnd - currentPtr
      /\ allocated' = allocated \cup {c}
      /\ header' = [b \in Blocks |-> IF Overlaps(currentPtr, Size(t),
             b) THEN Garbage ELSE header[b]]
      /\ currentPtr' = currentPtr + Size(t)
      /\ UNCHANGED <<bins, want, bin, stolen, block, rest>>
  BY DEF Bump, HandOut, Goto
<1>2. /\ currentPtr \in Nat /\ currentPtr \in Multiples /\ currentPtr <= ArenaEnd
      /\ Size(t) \in Multiples \ {0} /\ Size(t) \in Nat /\ Size(t) > 0 /\ ArenaEnd \in Nat
      /\ want[t] \in RequestSizes
  <2>1. want[t] \in RequestSizes
    BY <1>1 DEF IInv, Control, ControlOf
  <2>2. ArenaEnd \in Nat
    BY MultipleFacts
  <2> QED
    BY <2>1, <2>2, ListedFacts, RequestFacts
<1>3. /\ currentPtr + Size(t) \in Multiples /\ currentPtr + Size(t) <= ArenaEnd
      /\ currentPtr \in Blocks
  <2>1. currentPtr + Size(t) \in Multiples
    BY <1>2, MultipleSum
  <2>2. currentPtr + Size(t) <= ArenaEnd /\ currentPtr < ArenaEnd
    BY <1>1, <1>2
  <2> QED
    BY <1>2, <2>1, <2>2, MultipleFacts
<1>4. f.at = currentPtr /\ f.size = Size(t) /\ f.kind = "caller"
  BY DEF Extent, InCall, Size
<1>5. f = InCall(c)
  OBVIOUS
<1> HIDE DEF f
<1>6. /\ \A b \in Bins : \A a \in Range(bins[b]) : header'[a] = header[a]
      /\ \A u \in Threads : \A a \in Range(stolen[u]) : header'[a] = header[a]
  <2>1. ASSUME NEW x \in Extents, x.kind \in {"bin", "stolen"} PROVE header'[x.at] = header[x.at]
    <3>1. /\ x.at \in Blocks /\ x.at \in Nat /\ x.size \in Nat /\ x.size > 0
          /\ x.at + x.size <= currentPtr
      BY ListedFacts
    <3>2. ~Overlaps(currentPtr, Size(t), x.at)
      BY <1>2, <3>1 DEF Overlaps
    <3> QED
      BY <1>1, <3>1, <3>2
  <2> QED
    BY <2>1, HeadersKept
<1>7. Extents' = (Extents \ {}) \cup F
  <2>1. \A u \in Threads : u # t =>
            Stolen(u)' = Stolen(u) /\ InHand(u)' = InHand(u) /\ Leftover(u)' = Leftover(u)
    BY <1>1, <1>6, ThreadKept
  <2>2. Stolen(t)' = Stolen(t) /\ InHand(t)' = InHand(t) /\ Leftover(t)' = Leftover(t)
    BY <1>1, <1>6, ThreadKept
  <2>3. \A b \in Bins : InBin(b)' = InBin(b)
    BY <1>1, <1>6, BinKept
  <2> DEFINE A == {}
  <2>4. /\ \A x : x \notin A
        /\ \A x : x \in F <=> x = f
    OBVIOUS
  <2> HIDE DEF A, F
  <2>5. \A x : (\E a \in allocated' : x = InCall(a)) <=>
                  \/ (\E a \in allocated : x = InCall(a)) /\ x \notin A
                  \/ x \in F /\ x.kind = "caller"
    BY <1>1, <1>4, <1>5, <2>4, Kinds
  <2>6. \A b \in Bins : \A x : x \in InBin(b)' <=>
              (x \in InBin(b) /\ x \notin A) \/ (x \in F /\ x.kind = "bin" /\ x.of = b)
    BY <1>4, <2>3, <2>4, Kinds
  <2>7. \A x : /\ x \in Stolen(t)' <=>
                     (x \in Stolen(t) /\ x \notin A) \/ (x \in F /\ x.kind = "stolen")
               /\ x \in InHand(t)' <=>
                     (x \in InHand(t) /\ x \notin A) \/ (x \in F /\ x.kind = "block")
               /\ x \in Leftover(t)' <=>
                     (x \in Leftover(t) /\ x \notin A) \/ (x \in F /\ x.kind = "rest")
    BY <1>4, <2>2, <2>4
  <2>8. \A x \in A : x.kind \in {"stolen", "block", "rest"} => x.of = t
    BY <1>4, <2>4
  <2>12. ASSUME NEW x \in F
         PROVE  \/ x.kind = "caller"
                \/ x.kind = "bin" /\ x.of \in Bins
                \/ x.kind \in {"stolen", "block", "rest"} /\ x.of = t
    BY <1>4, <2>4
  <2>9. A \in SUBSET Extents
    BY <2>4
  <2>10. Extents' = (Extents \ A) \cup F
    BY <2>1, <2>5, <2>6, <2>7, <2>8, <2>9, <2>12, StepReplaces
  <2> QED
    BY <2>10 DEF A
<1>8. Tiles(Extents, currentPtr)'
  <2>1. Tiles(Extents, currentPtr)
    BY DEF IInv
  <2>2. Tiles(Extents \cup {f}, currentPtr + f.size)
    BY <1>2, <1>4, <2>1, TilesGrow
  <2>3. Extents' = Extents \cup {f}
    BY <1>7
  <2> QED
    BY <1>1, <1>4, <2>2, <2>3
<1>9. TypeInv'
  <2>1. header' \in [Blocks -> Int]
    BY <1>1 DEF IInv, TypeInv, Garbage
  <2>2. allocated' \subseteq [at : Blocks, bytes : RequestSizes]
    BY <1>1, <1>2, <1>3 DEF IInv, TypeInv
  <2> QED
    BY <1>1, <1>3, <2>1, <2>2 DEF IInv, TypeInv
<1>10. Control'
  BY <1>1 DEF IInv, Control, ControlOf, TypeInv, Size
<1>11. ListedOnce'
  BY <1>1 DEF IInv, ListedOnce
<1> QED
  BY <1>8, <1>9, <1>10, <1>11 DEF IInv

LEMMA GiveBackInvariant == ASSUME IInv, NEW t \in Threads, GiveBack(t) PROVE IInv'
<1> DEFINE list == stolen[t]  at == Head(list)  large == bins[LargeBin]
           e == Extent(at, header[at], "stolen", t)
           f == Extent(at, header[at], "bin", LargeBin)
           A == {e}
           F == {f}
<1>1. /\ pc[t] = "giveBack" /\ list # <<>> /\ list \in Seq(Blocks) /\ IsInjective(list)
      /\ large \in Seq(Blocks) /\ IsInjective(large) /\ LargeBin \in Bins
      /\ bins' = [bins EXCEPT ![LargeBin] = <<at>> \o large]
      /\ stolen' = [stolen EXCEPT ![t] = Tail(list)]
      /\ UNCHANGED <<currentPtr, header, allocated, pc, want, bin, block, rest>>
  BY ClassFacts DEF GiveBack, IInv, TypeInv, ListedOnce
<1>2. /\ at \in Range(list) /\ Tail(list) \in Seq(Blocks) /\ Range(Tail(list)) = Range(list) \ {at}
      /\ IsInjective(Tail(list))
  BY <1>1, Popped
<1>3. /\ e.at = at /\ e.size = header[at] /\ e.kind = "stolen" /\ e.of = t
      /\ f.at = at /\ f.size = header[at] /\ f.kind = "bin" /\ f.of = LargeBin
  BY DEF Extent
<1> HIDE DEF list, at, large
<1>4. e \in Stolen(t) /\ e \in Extents /\ at \in Blocks
  <2>1. e \in Stolen(t)
    BY <1>2 DEF Stolen, list
  <2>2. e \in Extents
    BY <2>1, ExtentsParts
  <2> QED
    BY <1>3, <2>1, <2>2, ListedFacts
<1>5. at \notin Range(large)
  <2> SUFFICES ASSUME at \in Range(large) PROVE FALSE
    OBVIOUS
  <2>1. f \in Extents
    BY <1>1, ExtentsParts DEF InBin, FreeSize, large
  <2> HIDE DEF e, f
  <2> QED
    BY <1>3, <1>4, <2>1, ListedFacts
<1>6. /\ <<at>> \o large \in Seq(Blocks) /\ Range(<<at>> \o large) = Range(large) \cup {at}
      /\ IsInjective(<<at>> \o large)
  BY <1>1, <1>4, <1>5, Pushed
<1>7. Extents' = (Extents \ A) \cup F
  <2>1. \A u \in Threads : u # t =>
            Stolen(u)' = Stolen(u) /\ InHand(u)' = InHand(u) /\ Leftover(u)' = Leftover(u)
    BY <1>1, ThreadKept DEF IInv, TypeInv
  <2>2. ASSUME NEW x
        PROVE  /\ x \in Stolen(t)' <=> x \in Stolen(t) /\ x # e
               /\ InHand(t)' = InHand(t) /\ Leftover(t)' = Leftover(t)
    <3>1. stolen'[t] = Tail(list)
      BY <1>1 DEF IInv, TypeInv
    <3>2. Stolen(t)' = {Extent(a, header[a], "stolen", t) : a \in Range(list) \ {at}}
      BY <1>1, <1>2, <3>1 DEF Stolen, Extent
    <3>3. Stolen(t) = {Extent(a, header[a], "stolen", t) : a \in Range(list)}
      BY DEF Stolen, list
    <3>4. \A a : Extent(a, header[a], "stolen", t).at = a
      BY DEF Extent
    <3>5. InHand(t)' = InHand(t) /\ Leftover(t)' = Leftover(t)
      BY <1>1 DEF InHand, Leftover, Extent, Size
    <3> QED
      BY <3>2, <3>3, <3>4, <3>5
  <2>3. ASSUME NEW b \in Bins, NEW x PROVE x \in InBin(b)' <=> x \in InBin(b) \/ (x = f
                   /\ b = LargeBin)
    <3>1. CASE b # LargeBin
      <4>1. bins'[b] = bins[b]
        BY <1>1, <3>1 DEF IInv, TypeInv
      <4> QED
        BY <1>1, <3>1, <4>1, BinKept
    <3>2. CASE b = LargeBin
      <4>1. bins'[LargeBin] = <<at>> \o large
        BY <1>1 DEF IInv, TypeInv
      <4>2. InBin(LargeBin)' = {Extent(a, header[a], "bin",
                LargeBin) : a \in Range(large) \cup {at}}
        BY <1>1, <1>6, <4>1 DEF InBin, FreeSize, Extent
      <4>3. InBin(LargeBin) = {Extent(a, header[a], "bin", LargeBin) : a \in Range(large)}
        BY DEF InBin, FreeSize, large
      <4> QED
        BY <3>2, <4>2, <4>3
    <3> QED
      BY <3>1, <3>2
  <2> HIDE DEF e, f
  <2>4. /\ \A x : x \in A <=> x = e
        /\ \A x : x \in F <=> x = f
    OBVIOUS
  <2> HIDE DEF A, F
  <2>5. \A x : (\E a \in allocated' : x = InCall(a)) <=>
                  \/ (\E a \in allocated : x = InCall(a)) /\ x \notin A
                  \/ x \in F /\ x.kind = "caller"
    BY <1>1, <1>3, <2>4, Kinds
  <2>6. \A b \in Bins : \A x : x \in InBin(b)' <=>
              (x \in InBin(b) /\ x \notin A) \/ (x \in F /\ x.kind = "bin" /\ x.of = b)
    BY <1>3, <2>3, <2>4, Kinds
  <2>7. \A x : /\ x \in Stolen(t)' <=>
                     (x \in Stolen(t) /\ x \notin A) \/ (x \in F /\ x.kind = "stolen")
               /\ x \in InHand(t)' <=>
                     (x \in InHand(t) /\ x \notin A) \/ (x \in F /\ x.kind = "block")
               /\ x \in Leftover(t)' <=>
                     (x \in Leftover(t) /\ x \notin A) \/ (x \in F /\ x.kind = "rest")
    BY <1>3, <2>2, <2>4, Kinds
  <2>8. \A x \in A : x.kind \in {"stolen", "block", "rest"} => x.of = t
    BY <1>1, <1>3, <2>4
  <2>12. ASSUME NEW x \in F
         PROVE  \/ x.kind = "caller"
                \/ x.kind = "bin" /\ x.of \in Bins
                \/ x.kind \in {"stolen", "block", "rest"} /\ x.of = t
    BY <1>1, <1>3, <2>4
  <2>9. A \in SUBSET Extents
    BY <1>4, <2>4
  <2> QED
    BY <2>1, <2>5, <2>6, <2>7, <2>8, <2>9, <2>12, StepReplaces
<1>8. Tiles(Extents, currentPtr)'
  <2>1. currentPtr \in Nat /\ Tiles(Extents, currentPtr) /\ A \in SUBSET Extents
    BY <1>4, ListedFacts DEF IInv
  <2> HIDE DEF e, f
  <2>2. /\ \A x \in F : \E y \in A : x.at = y.at /\ x.size = y.size
        /\ \A y \in A : \E x \in F : x.at = y.at /\ x.size = y.size
        /\ \A x, y \in F : x.at = y.at => x = y
    BY <1>3
  <2> HIDE DEF A, F
  <2>3. Tiles((Extents \ A) \cup F, currentPtr)
    BY <2>1, <2>2, TilesMoved
  <2> QED
    BY <1>1, <1>7, <2>3
<1>9. TypeInv'
  BY <1>1, <1>2, <1>6 DEF IInv, TypeInv
<1>10. Control'
  BY <1>1 DEF IInv, Control, ControlOf, TypeInv, Size
<1>11. ListedOnce'
  BY <1>1, <1>2, <1>6 DEF IInv, ListedOnce, TypeInv
<1> QED
  BY <1>8, <1>9, <1>10, <1>11 DEF IInv

\* The list of the large bin becomes the list of t, less the block that is chosen.
LEMMA StealLargeInvariant == ASSUME IInv, NEW t \in Threads, StealLarge(t) PROVE IInv'
<1> DEFINE list == bins[LargeBin]
           i == BestFit(list, Size(t))
           S(a) == Extent(a, header[a], "stolen", t)
           A == InBin(LargeBin)
           B == {S(a) : a \in Range(list)}
<1>1. /\ pc[t] = "bin" /\ pc' = [pc EXCEPT ![t] = "giveBack"]
      /\ list \in Seq(Blocks) /\ IsInjective(list) /\ LargeBin \in Bins
      /\ bins' = [bins EXCEPT ![LargeBin] = <<>>]
      /\ UNCHANGED <<currentPtr, header, allocated, want, bin>>
  BY ClassFacts DEF StealLarge, Goto, IInv, TypeInv, ListedOnce
<1>2. block[t] = -1 /\ stolen[t] = <<>> /\ rest[t].bytes = 0 /\ want[t] \in RequestSizes
  BY <1>1 DEF IInv, Control, ControlOf
<1>3. Stolen(t) = {} /\ InHand(t) = {} /\ Leftover(t) = {}
  BY <1>2 DEF Stolen, InHand, Leftover, Range
<1>4. A = {Extent(a, header[a], "bin", LargeBin) : a \in Range(list)}
  BY DEF InBin, FreeSize
<1>5. \A a : S(a).at = a /\ S(a).size = header[a] /\ S(a).kind = "stolen" /\ S(a).of = t
  BY DEF Extent
<1>6. \A a \in Range(list) : a \in Blocks /\ a \in Nat /\ header[a] \in Multiples
          /\ header[a] \in Nat
  <2> SUFFICES ASSUME NEW a \in Range(list)
               PROVE  a \in Blocks /\ a \in Nat /\ header[a] \in Multiples /\ header[a] \in Nat
    OBVIOUS
  <2> DEFINE x == Extent(a, header[a], "bin", LargeBin)
  <2>1. x \in Extents
    BY <1>1, <1>4, ExtentsParts
  <2>2. x.at = a /\ x.size = header[a]
    BY DEF Extent
  <2> HIDE DEF x
  <2> QED
    BY <2>1, <2>2, ListedFacts
<1>7. currentPtr \in Nat /\ Tiles(Extents, currentPtr) /\ A \in SUBSET Extents
  BY <1>1, ExtentsParts, ListedFacts DEF IInv
<1>8. Tiles((Extents \ A) \cup B, currentPtr)
  <2> DEFINE O(a) == Extent(a, header[a], "bin", LargeBin)
  <2>0. \A a : O(a).at = a /\ O(a).size = header[a]
    BY DEF Extent
  <2>1. ASSUME NEW x \in B PROVE \E y \in A : x.at = y.at /\ x.size = y.size
    <3> PICK a \in Range(list) : x = S(a)
      OBVIOUS
    <3>1. O(a) \in A
      BY <1>4
    <3> QED
      BY <1>5, <2>0, <3>1
  <2>2. ASSUME NEW y \in A PROVE \E x \in B : x.at = y.at /\ x.size = y.size
    <3> PICK a \in Range(list) : y = O(a)
      BY <1>4
    <3>1. S(a) \in B
      OBVIOUS
    <3> QED
      BY <1>5, <2>0, <3>1
  <2>3. \A x, y \in B : x.at = y.at => x = y
    BY <1>5
  <2> HIDE DEF A, B, S
  <2> QED
    BY <1>7, <2>1, <2>2, <2>3, TilesMoved
<1>9. \A x \in B : x \notin Extents
  BY <1>3, <1>5, ExtentsFrom, Kinds
<1>10. \A u \in Threads : u # t =>
            /\ stolen'[u] = stolen[u] /\ block'[u] = block[u] /\ rest'[u] = rest[u]
  BY DEF StealLarge, IInv, TypeInv
<1>11. \A u \in Threads : u # t =>
            Stolen(u)' = Stolen(u) /\ InHand(u)' = InHand(u) /\ Leftover(u)' = Leftover(u)
  BY <1>1, <1>10, ThreadKept
<1>12. \A b \in Bins : \A x : x \in InBin(b)' <=> x \in InBin(b) /\ x \notin A
  <2> SUFFICES ASSUME NEW b \in Bins, NEW x PROVE x \in InBin(b)' <=> x \in InBin(b) /\ x \notin A
    OBVIOUS
  <2>1. CASE b # LargeBin
    <3>1. bins'[b] = bins[b]
      BY <1>1, <2>1 DEF IInv, TypeInv
    <3>2. InBin(b)' = InBin(b)
      BY <1>1, <3>1, BinKept
    <3> QED
      BY <1>1, <2>1, <3>2, Kinds
  <2>2. CASE b = LargeBin
    <3>1. bins'[LargeBin] = <<>>
      BY <1>1 DEF IInv, TypeInv
    <3>2. InBin(LargeBin)' = {}
      BY <3>1 DEF InBin, Range
    <3> QED
      BY <2>2, <3>2
  <2> QED
    BY <2>1, <2>2
<1>13. \A x : (\E a \in allocated' : x = InCall(a)) <=> (\E a \in allocated : x = InCall(a))
           /\ x \notin A
  BY <1>1, Kinds
<1>14. \A x \in A : x.kind = "bin"
  BY <1>1, Kinds
<1>15. IsInjective(<<>>) /\ <<>> \in Seq(Blocks) /\ Range(<<>>) = {}
  BY DEF IsInjective, Range
<1>16. IsInjective(bins'[LargeBin]) /\ \A b \in Bins : IsInjective(bins'[b])
  BY <1>1, <1>15 DEF IInv, ListedOnce, TypeInv
\* The extents of t after the step are F.
<1>17. ASSUME NEW F,
              \A x \in F : x.kind \in {"stolen", "block", "rest"} /\ x.of = t,
              \A x : /\ x \in Stolen(t)' <=> x \in F /\ x.kind = "stolen"
                     /\ x \in InHand(t)' <=> x \in F /\ x.kind = "block"
                     /\ x \in Leftover(t)' <=> x \in F /\ x.kind = "rest"
       PROVE  Extents' = (Extents \ A) \cup F
  <2> HIDE DEF A
  <2>1. \A x : (\E a \in allocated' : x = InCall(a)) <=>
                  \/ (\E a \in allocated : x = InCall(a)) /\ x \notin A
                  \/ x \in F /\ x.kind = "caller"
    BY <1>13, <1>17
  <2>2. \A b \in Bins : \A x : x \in InBin(b)' <=>
              (x \in InBin(b) /\ x \notin A) \/ (x \in F /\ x.kind = "bin" /\ x.of = b)
    BY <1>12, <1>17
  <2>3. \A x : /\ x \in Stolen(t)' <=>
                     (x \in Stolen(t) /\ x \notin A) \/ (x \in F /\ x.kind = "stolen")
               /\ x \in InHand(t)' <=>
                     (x \in InHand(t) /\ x \notin A) \/ (x \in F /\ x.kind = "block")
               /\ x \in Leftover(t)' <=>
                     (x \in Leftover(t) /\ x \notin A) \/ (x \in F /\ x.kind = "rest")
    BY <1>3, <1>17
  <2>4. \A x \in A : x.kind \in {"stolen", "block", "rest"} => x.of = t
    BY <1>14
  <2>5. \A x \in F : \/ x.kind = "caller"
                     \/ x.kind = "bin" /\ x.of \in Bins
                     \/ x.kind \in {"stolen", "block", "rest"} /\ x.of = t
    BY <1>17
  <2> QED
    BY <1>7, <1>11, <2>1, <2>2, <2>3, <2>4, <2>5, StepReplaces
<1>18. CASE i = 0
  <2>1. stolen' = [stolen EXCEPT ![t] = list] /\ UNCHANGED <<block, rest>>
    BY <1>18 DEF StealLarge
  <2>2. stolen'[t] = list
    BY <2>1 DEF IInv, TypeInv
  <2>3. Stolen(t)' = B /\ InHand(t)' = {} /\ Leftover(t)' = {}
    BY <1>1, <1>2, <2>1, <2>2 DEF Stolen, InHand, Leftover, Extent
  <2>4. \A x \in B : x.kind = "stolen" /\ x.of = t
    BY <1>5
  <2> HIDE DEF A, B
  <2>5. Extents' = (Extents \ A) \cup B
    BY <1>17, <2>3, <2>4
  <2>6. Tiles(Extents, currentPtr)'
    BY <1>1, <1>8, <2>5
  <2>7. TypeInv'
    BY <1>1, <1>15, <2>1 DEF IInv, TypeInv
  <2>8. Control'
    BY <1>1, <1>2, <2>1 DEF IInv, Control, ControlOf, TypeInv, Size
  <2>9. ListedOnce'
    BY <1>1, <1>16, <2>1, <2>2 DEF IInv, ListedOnce, TypeInv
  <2> QED
    BY <2>6, <2>7, <2>8, <2>9 DEF IInv
<1>19. CASE i # 0
  <2> DEFINE c == list[i]
             over == header[c] - Size(t)
             e == S(c)
             f == Extent(c, Size(t), "block", t)
             g == Extent(c + Size(t), over, "rest", t)
             G == {f} \cup {x \in {g} : over > 0}
             F == (B \ {e}) \cup G
  <2>1. i \in 1 .. Len(list) /\ c \in Range(list) /\ header[c] >= Size(t)
    <3>1. \A j \in 1 .. Len(list) : list[j] \in Range(list)
      BY <1>1 DEF Range
    <3>2. \A j \in 1 .. Len(list) : header[list[j]] \in Nat
      BY <1>6, <3>1
    <3>3. header \in [Blocks -> Int] /\ Size(t) \in Nat
      BY RequestFacts DEF IInv, TypeInv
    <3>4. i \in 1 .. Len(list) /\ header[list[i]] >= Size(t)
      BY <1>1, <1>19, <3>2, <3>3, BestFitFacts
    <3> QED
      BY <3>1, <3>4
  <2>2. /\ stolen' = [stolen EXCEPT ![t] = Without(list, i)]
        /\ block' = [block EXCEPT ![t] = c]
        /\ rest' = [rest EXCEPT ![t] = [at |-> c + Size(t), bytes |-> over]]
    BY <1>19 DEF StealLarge, Without
  <2>3. /\ Without(list, i) \in Seq(Blocks) /\ Range(Without(list, i)) = Range(list) \ {c}
        /\ IsInjective(Without(list, i))
    BY <1>1, <2>1, Removed
  <2>4. /\ c \in Blocks /\ c \in Nat /\ header[c] \in Nat /\ header[c] \in Multiples
        /\ Size(t) \in Multiples \ {0} /\ Size(t) \in Nat /\ Size(t) > 0
        /\ over \in Multiples /\ over \in Nat
    <3>1. /\ c \in Blocks /\ c \in Nat /\ header[c] \in Nat /\ header[c] \in Multiples
          /\ Size(t) \in Multiples \ {0} /\ Size(t) \in Nat /\ Size(t) > 0
      BY <1>6, <2>1, RequestFacts
    <3>2. over \in Multiples
      BY <2>1, <3>1, MultipleDifference
    <3> QED
      BY <3>1, <3>2, MultipleNaturals
  <2> HIDE DEF i, c, over
  <2>5. /\ e.at = c /\ e.size = header[c] /\ e \in B
        /\ f.at = c /\ f.size = Size(t) /\ f.kind = "block" /\ f.of = t
        /\ g.at = c + Size(t) /\ g.size = over /\ g.kind = "rest" /\ g.of = t
    BY <2>1 DEF Extent
  <2>6. /\ Stolen(t)' = B \ {e} /\ InHand(t)' = {f} /\ Leftover(t)' = {x \in {g} : over > 0}
    <3>1. /\ stolen'[t] = Without(list, i) /\ block'[t] = c /\ Size(t)' = Size(t)
          /\ rest'[t] = [at |-> c + Size(t), bytes |-> over]
      BY <1>1, <2>2 DEF IInv, TypeInv, Size
    <3>2. Stolen(t)' = {S(a) : a \in Range(list) \ {c}}
      BY <1>1, <2>3, <3>1 DEF Stolen, Extent
    <3>3. {S(a) : a \in Range(list) \ {c}} = B \ {e}
      BY <1>5
    <3>4. c # -1
      BY <2>4
    <3> QED
      BY <3>1, <3>2, <3>3, <3>4 DEF InHand, Leftover, Extent
  <2>7. \A x \in B : x.kind = "stolen" /\ x.of = t
    BY <1>5
  <2> HIDE DEF A, B, S, e, f, g
  <2>8. Tiles((((Extents \ A) \cup B) \ {e}) \cup ({f} \cup {x \in {g} : g.size > 0}), currentPtr)
    <3>1. /\ f.at = e.at /\ f.size \in Multiples \ {0} /\ g.size \in Multiples
          /\ g.at = e.at + f.size /\ f.size + g.size = e.size
      BY <2>4, <2>5 DEF over
    <3> DEFINE E == (Extents \ A) \cup B
    <3>2. e \in E /\ currentPtr \in Nat /\ Tiles(E, currentPtr)
      BY <1>7, <1>8, <2>5
    <3> HIDE DEF E
    <3>3. Tiles((E \ {e}) \cup ({f} \cup {x \in {g} : g.size > 0}), currentPtr)
      BY <3>1, <3>2, TilesCut
    <3> QED
      BY <3>3 DEF E
  <2>9. (Extents \ A) \cup F
            = (((Extents \ A) \cup B) \ {e}) \cup ({f} \cup {x \in {g} : g.size > 0})
    BY <1>9, <2>5
  <2>10. Extents' = (Extents \ A) \cup F
    <3>1. ASSUME NEW x \in F PROVE x.kind \in {"stolen", "block", "rest"} /\ x.of = t
      BY <2>5, <2>7
    <3>2. \A x : /\ x \in Stolen(t)' <=> x \in F /\ x.kind = "stolen"
                 /\ x \in InHand(t)' <=> x \in F /\ x.kind = "block"
                 /\ x \in Leftover(t)' <=> x \in F /\ x.kind = "rest"
      BY <2>5, <2>6, <2>7
    <3> HIDE DEF F
    <3> QED
      BY <1>17, <3>1, <3>2
  <2>11. Tiles(Extents, currentPtr)'
    BY <1>1, <2>8, <2>9, <2>10
  <2>12. TypeInv'
    <3>1. c + Size(t) \in Int /\ over \in Int
      BY <2>4
    <3>2. rest' \in [Threads -> [at : Int, bytes : Int]]
      BY <2>2, <3>1 DEF IInv, TypeInv
    <3>3. block' \in [Threads -> Blocks \cup {-1}]
      BY <2>2, <2>4 DEF IInv, TypeInv
    <3>4. stolen' \in [Threads -> Seq(Blocks)] /\ bins' \in [Bins -> Seq(Blocks)]
      BY <1>1, <1>15, <2>2, <2>3 DEF IInv, TypeInv
    <3> QED
      BY <1>1, <3>2, <3>3, <3>4 DEF IInv, TypeInv
  <2>13. Control'
    <3>1. c # -1
      BY <2>4
    <3> QED
      BY <1>1, <1>2, <2>2, <3>1 DEF IInv, Control, ControlOf, TypeInv, Size
  <2>14. ListedOnce'
    BY <1>16, <2>2, <2>3 DEF IInv, ListedOnce, TypeInv
  <2> QED
    BY <2>11, <2>12, <2>13, <2>14 DEF IInv
<1> QED
  BY <1>18, <1>19

-----------------------------------------------------------------------------
LEMMA InitInvariant == Init => IInv
<1> SUFFICES ASSUME Init PROVE IInv
  OBVIOUS
<1>1. /\ currentPtr = 0 /\ bins = [b \in Bins |-> <<>>] /\ header = [b \in Blocks |-> Garbage]
      /\ allocated = {} /\ pc = [t \in Threads |-> "idle"] /\ want = [t \in Threads |-> 0]
      /\ bin = [t \in Threads |-> 0] /\ stolen = [t \in Threads |-> <<>>]
      /\ block = [t \in Threads |-> -1] /\ rest = [t \in Threads |-> NoRest]
  BY DEF Init
<1>2. <<>> \in Seq(Blocks) /\ Range(<<>>) = {} /\ IsInjective(<<>>)
  BY DEF Range, IsInjective
<1>3. TypeInv
  <2>1. 0 \in Multiples /\ 0 <= ArenaEnd /\ 0 \in Bins
    <3>1. ArenaEnd \in Nat /\ 0 \in Multiples
      BY MultipleFacts
    <3>2. 0 \in ClassBins
      BY ClassFacts
    <3> QED
      BY <3>1, <3>2 DEF ClassBins
  <2> QED
    BY <1>1, <1>2, <2>1 DEF TypeInv, NoRest, Garbage
<1>4. Control
  BY <1>1 DEF Control, ControlOf, NoRest
<1>5. ListedOnce
  BY <1>1, <1>2 DEF ListedOnce
<1>6. Extents = {}
  <2>1. \A b \in Bins : InBin(b) = {}
    BY <1>1, <1>2 DEF InBin
  <2>2. \A t \in Threads : Stolen(t) = {} /\ InHand(t) = {} /\ Leftover(t) = {}
    BY <1>1, <1>2 DEF Stolen, InHand, Leftover, NoRest
  <2> QED
    BY <1>1, <2>1, <2>2, ExtentsFrom
<1>7. Tiles(Extents, currentPtr)
  <2>1. \A b \in Blocks : ~(b < 0)
    BY BlockFacts
  <2> QED
    BY <1>1, <1>6, <2>1 DEF Tiles, Bounded, Apart, Covered
<1> QED
  BY <1>3, <1>4, <1>5, <1>7 DEF IInv

LEMMA StepInvariant == IInv /\ [Next]_vars => IInv'
<1> SUFFICES ASSUME IInv, [Next]_vars PROVE IInv'
  OBVIOUS
<1>1. CASE UNCHANGED vars
  <2>1. UNCHANGED <<currentPtr, bins, header, allocated, pc, want, bin, stolen, block, rest>>
    BY <1>1 DEF vars
  <2>2. ListedOnce' /\ Tiles(Extents, currentPtr)'
    BY <2>1, NothingMoves
  <2> QED
    BY <2>1, <2>2 DEF IInv, TypeInv, Control, ControlOf, Size
<1>2. ASSUME NEW t \in Threads, AllocBegin(t) \/ AllocStep(t) \/ Deallocate(t) PROVE IInv'
  BY <1>2, AllocBeginInvariant, BumpInvariant, BumpFailsInvariant, PopBinInvariant,
     NextBinInvariant, StealLargeInvariant, GiveBackInvariant, GivenBackInvariant,
     RefuseInvariant, FreePieceInvariant, AllocEndInvariant, DeallocateInvariant
     DEF AllocStep
<1> QED
  BY <1>1, <1>2 DEF Next

LEMMA IInvPartition == IInv => Partition
<1> SUFFICES ASSUME IInv PROVE Partition
  OBVIOUS
<1> DEFINE Covering(b) == {e \in Extents : Overlaps(e.at, e.size, b)}
<1>1. ListedOnce
  BY DEF IInv
<1>2. ASSUME NEW b \in Blocks, b < currentPtr PROVE Cardinality(Covering(b)) = 1
  <2>1. PICK e \in Extents : Overlaps(e.at, e.size, b)
    BY <1>2 DEF IInv, Tiles, Covered
  <2>2. b \in Nat
    BY BlockFacts
  <2>3. Covering(b) = {e}
    BY <2>1, <2>2, ListedFacts
  <2> QED
    BY <2>3, FS_Singleton
<1>3. ASSUME NEW b \in Blocks, ~(b < currentPtr) PROVE Cardinality(Covering(b)) = 0
  <2>1. b \in Nat
    BY BlockFacts
  <2>2. \A e \in Extents : ~Overlaps(e.at, e.size, b)
    BY <1>3, <2>1, ListedFacts DEF Overlaps
  <2>3. Covering(b) = {}
    BY <2>2
  <2> QED
    BY <2>3, FS_EmptySet
<1> QED
  BY <1>1, <1>2, <1>3 DEF Partition

-----------------------------------------------------------------------------
(* What headers and cut-off pieces may be: TypeOK *)

PieceFits(piece) == piece.at \in 0 .. ArenaEnd /\ piece.bytes \in 0 .. ArenaEnd

Fits ==
    /\ header \in [Blocks -> {Garbage} \cup 1 .. ArenaEnd]
    /\ \A t \in Threads : PieceFits(rest[t])

\* An extent ends within the arena, and a smaller one cut from its front does too.
LEMMA ExtentFits ==
    ASSUME IInv, NEW e \in Extents
    PROVE  /\ ArenaEnd \in Nat /\ e.at \in Blocks /\ e.at \in Nat /\ e.size \in 1 .. ArenaEnd
           /\ e.at + e.size <= ArenaEnd
<1>1. /\ currentPtr \in Nat /\ currentPtr <= ArenaEnd /\ e.at \in Blocks /\ e.at \in Nat
      /\ e.size \in Nat /\ e.size > 0 /\ e.at + e.size <= currentPtr
  BY ListedFacts
<1>2. ArenaEnd \in Nat
  BY MultipleFacts, MultipleNaturals
<1> QED
  BY <1>1, <1>2

\* A piece cut from behind the first n units of an extent fits.
LEMMA CutFits ==
    ASSUME IInv, NEW e \in Extents, NEW n \in Nat, n <= e.size
    PROVE  PieceFits([at |-> e.at + n, bytes |-> e.size - n])
BY ExtentFits DEF PieceFits

LEMMA FitsBegin == Init => Fits
<1>1. ArenaEnd \in Nat
  BY MultipleFacts, MultipleNaturals
<1> QED
  BY <1>1 DEF Init, Fits, PieceFits, NoRest, Garbage

LEMMA PushFits ==
    ASSUME IInv, Fits, NEW e \in Extents, NEW size \in 1 .. e.size, PushFree(e.at, size)
    PROVE  header' \in [Blocks -> {Garbage} \cup 1 .. ArenaEnd]
<1>1. size \in 1 .. ArenaEnd /\ e.at \in Blocks
  BY ExtentFits
<1> QED
  BY <1>1 DEF Fits, PushFree

LEMMA FitsStep == IInv /\ Fits /\ [Next]_vars => Fits'
<1> SUFFICES ASSUME IInv, Fits, [Next]_vars PROVE Fits'
  OBVIOUS
<1>r. rest \in [Threads -> [at : Int, bytes : Int]] /\ header \in [Blocks -> Int]
  BY DEF IInv, TypeInv
<1>1. CASE UNCHANGED <<header, rest>>
  BY <1>1 DEF Fits
<1>2. ASSUME NEW t \in Threads, Bump(t) PROVE Fits'
  BY <1>2 DEF Fits, Bump, HandOut
<1>3. ASSUME NEW t \in Threads, AllocEnd(t) PROVE Fits'
  <2>1. header' \in [Blocks -> {Garbage} \cup 1 .. ArenaEnd]
    BY <1>3 DEF Fits, AllocEnd, HandOut
  <2>2. PieceFits(NoRest)
    BY MultipleFacts, MultipleNaturals DEF PieceFits, NoRest
  <2>3. \A u \in Threads : rest'[u] = IF u = t THEN NoRest ELSE rest[u]
    BY <1>3, <1>r DEF AllocEnd
  <2> QED
    BY <2>1, <2>2, <2>3 DEF Fits
<1>4. ASSUME NEW t \in Threads, PopBin(t) PROVE Fits'
  <2> DEFINE at == Head(bins[bin[t]])  e == Extent(at, ClassSize(bin[t]), "bin", bin[t])
             r == [at |-> at + Size(t), bytes |-> ClassSize(bin[t]) - Size(t)]
  <2>1. /\ pc[t] = "bin" /\ bin[t] \in Bins /\ bin[t] # LargeBin /\ bins[bin[t]] # <<>>
        /\ bins[bin[t]] \in Seq(Blocks) /\ IsInjective(bins[bin[t]])
        /\ header' = header /\ rest' = [rest EXCEPT ![t] = r]
    BY <1>4 DEF PopBin, Goto, IInv, TypeInv, ListedOnce
  <2>2. at \in Range(bins[bin[t]])
    BY <2>1, Popped
  <2>3. e \in Extents
    BY <2>1, <2>2, ExtentsParts DEF InBin, FreeSize
  <2>4. e.at = at /\ e.size = ClassSize(bin[t])
    BY DEF Extent
  <2>5. Size(t) \in Nat /\ Size(t) <= ClassSize(bin[t])
    BY <2>1, RequestFacts DEF IInv, Control, ControlOf
  <2>6. PieceFits(r)
    <3> HIDE DEF e
    <3> QED
      BY <2>3, <2>4, <2>5, CutFits
  <2> HIDE DEF r
  <2>7. \A u \in Threads : rest'[u] = IF u = t THEN r ELSE rest[u]
    BY <1>r, <2>1
  <2> QED
    BY <2>1, <2>6, <2>7 DEF Fits
<1>5. ASSUME NEW t \in Threads, StealLarge(t) PROVE Fits'
  <2> DEFINE list == bins[LargeBin]  i == BestFit(list, Size(t))  at == list[i]
             e == Extent(at, header[at], "bin", LargeBin)
             r == [at |-> at + Size(t), bytes |-> header[at] - Size(t)]
  <2>1. /\ LargeBin \in Bins /\ list \in Seq(Blocks) /\ header' = header
        /\ i = 0 => rest' = rest
        /\ i # 0 => rest' = [rest EXCEPT ![t] = r]
    BY <1>5, ClassFacts DEF StealLarge, IInv, TypeInv
  <2>2. CASE i = 0
    BY <2>1, <2>2 DEF Fits
  <2>3. CASE i # 0
    <3>1. \A a \in Range(list) : Extent(a, header[a], "bin", LargeBin) \in Extents
      BY <2>1, ExtentsParts DEF InBin, FreeSize
    <3>2. \A a \in Range(list) : header[a] \in Nat
      <4> SUFFICES ASSUME NEW a \in Range(list) PROVE header[a] \in Nat
        OBVIOUS
      <4> DEFINE x == Extent(a, header[a], "bin", LargeBin)
      <4>1. x \in Extents /\ x.size = header[a]
        BY <3>1 DEF Extent
      <4> HIDE DEF x
      <4> QED
        BY <4>1, ListedFacts
    <3>3. \A j \in 1 .. Len(list) : list[j] \in Range(list)
      BY <2>1 DEF Range
    <3>4. \A j \in 1 .. Len(list) : header[list[j]] \in Nat
      BY <3>2, <3>3
    <3>5. Size(t) \in Nat
      BY RequestFacts
    <3>6. i \in 1 .. Len(list) /\ header[list[i]] >= Size(t)
      <4> DEFINE L == list
                 n == Size(t)
      <4>1. L \in Seq(Blocks) /\ n \in Nat /\ \A j \in 1 .. Len(L) : header[L[j]] \in Nat
        BY <2>1, <3>4, <3>5
      <4>2. BestFit(L, n) = 0 \/ (BestFit(L, n) \in 1 .. Len(L) /\ header[L[BestFit(L, n)]] >= n)
        <5> HIDE DEF L, n
        <5> QED
          BY <1>r, <4>1, BestFitFacts
      <4> QED
        BY <2>3, <4>2
    <3> HIDE DEF i, list
    <3>7. at \in Range(list) /\ e \in Extents /\ header[at] \in Nat
      BY <3>1, <3>2, <3>3, <3>6
    <3>8. e.at = at /\ e.size = header[at]
      BY DEF Extent
    <3>9. PieceFits(r)
      <4> HIDE DEF e, at
      <4>1. Size(t) <= e.size
        BY <3>5, <3>6, <3>7, <3>8 DEF at
      <4> QED
        BY <3>5, <3>7, <3>8, <4>1, CutFits
    <3> HIDE DEF r
    <3>10. \A u \in Threads : rest'[u] = IF u = t THEN r ELSE rest[u]
      BY <1>r, <2>1, <2>3
    <3> QED
      BY <2>1, <3>9, <3>10 DEF Fits
  <2> QED
    BY <2>2, <2>3
<1>6. ASSUME NEW t \in Threads, FreePiece(t) PROVE Fits'
  <2> DEFINE at == rest[t].at  bytes == rest[t].bytes  size == PieceSize(bytes)
             e == Extent(at, bytes, "rest", t)
             r == [at |-> at + size, bytes |-> bytes - size]
  <2>1. bytes > 0 /\ PushFree(at, size) /\ rest' = [rest EXCEPT ![t] = r]
    BY <1>6 DEF FreePiece, IInv, TypeInv
  <2>2. e \in Extents
    BY <2>1, ExtentsParts DEF Leftover
  <2>3. e.at = at /\ e.size = bytes
    BY DEF Extent
  <2>4. bytes \in Multiples /\ bytes \in Nat
    <3> HIDE DEF e
    <3> QED
      BY <2>2, <2>3, ListedFacts
  <2>5. size \in Sizes /\ size <= bytes
    BY <2>1, <2>4, PieceFacts
  <2>6. size \in Nat /\ size > 0
    BY <2>5, SizesFacts, MultipleNaturals
  <2> HIDE DEF e, size, at, bytes
  <2>7. header' \in [Blocks -> {Garbage} \cup 1 .. ArenaEnd]
    <3>1. size \in 1 .. e.size
      BY <2>3, <2>4, <2>5, <2>6
    <3> QED
      BY <2>1, <2>2, <2>3, <3>1, PushFits
  <2>8. PieceFits(r)
    BY <2>2, <2>3, <2>5, <2>6, CutFits
  <2> HIDE DEF r
  <2>9. \A u \in Threads : rest'[u] = IF u = t THEN r ELSE rest[u]
    BY <1>r, <2>1
  <2> QED
    BY <2>7, <2>8, <2>9 DEF Fits
<1>7. ASSUME NEW t \in Threads, Deallocate(t) PROVE Fits'
  <2>1. PICK c \in allocated : PushFree(c.at, BlockSizeFor(c.bytes)) /\ rest' = rest
    BY <1>7 DEF Deallocate
  <2> DEFINE e == InCall(c)
  <2>2. e \in Extents /\ e.at = c.at /\ e.size = BlockSizeFor(c.bytes)
    BY ExtentsParts DEF InCall, Extent
  <2> HIDE DEF e
  <2>3. e.size \in 1 .. e.size
    BY <2>2, ListedFacts
  <2>4. header' \in [Blocks -> {Garbage} \cup 1 .. ArenaEnd]
    BY <2>1, <2>2, <2>3, PushFits
  <2> QED
    BY <2>1, <2>4 DEF Fits
<1> QED
  BY <1>1, <1>2, <1>3, <1>4, <1>5, <1>6, <1>7
  DEF Next, AllocStep, vars, AllocBegin, BumpFails, NextBin, GiveBack, GivenBack, Refuse

LEMMA FitsTypes == IInv /\ Fits => TypeOK
<1> SUFFICES ASSUME IInv, Fits PROVE TypeOK
  OBVIOUS
<1>1. TypeInv /\ currentPtr \in 0 .. ArenaEnd
  BY ListedFacts, MultipleFacts, MultipleNaturals DEF IInv
<1>2. \A b \in Bins : \A i \in DOMAIN bins[b] : bins[b][i] \in Blocks
  BY <1>1 DEF TypeInv
<1>3. \A a \in allocated : a.at \in Blocks /\ a.bytes \in RequestSizes
  BY <1>1 DEF TypeInv
<1> QED
  BY <1>1, <1>2, <1>3 DEF TypeInv, TypeOK, Fits, PieceFits

-----------------------------------------------------------------------------
(* The pool of bitmapped blocks                                            *)

\* BitblockResource counts with the operators of FiniteSets.
LEMMA PoolSets ==
    /\ \A S : Pool!Cardinality(S) = Cardinality(S)
    /\ \A S : Pool!IsFiniteSet(S) <=> IsFiniteSet(S)
  BY DEF Pool!Cardinality, Cardinality, Pool!IsFiniteSet, IsFiniteSet

\* No block is in the lists of two arenas.
ChainsApart == \A a \in Pool!Arenas : \A b \in Pool!Chain(a) : home[b] = a

\* A hint of an arena is a block of its list, a hint of a core one of some list.
HintsInChains ==
    /\ \A a \in Pool!Arenas : arenaHint[a] \in Pool!Chain(a) \cup {Pool!Null}
    /\ \A h \in Pool!HintSlots : coreHint[h] \in Pool!Linked \cup {Pool!Null}

\* What a thread knows at each place of the code.
PoolControl(t) ==
    /\ poolPc[t] \in {"check", "take", "count", "finalize"} =>
          /\ path[t] # "other" => cur[t] \in Pool!Chain(Pool!Arena(t))
          /\ path[t] = "other" => offset[t] < NumArenas /\ cur[t] \in Pool!Chain(Pool!OtherArena(t))
    /\ poolPc[t] \notin {"idle", "destroyed", "finalize", "freeCount", "freeHints"}
           => poolWant[t] # 0
    /\ poolPc[t] \in {"count", "finalize"} => mine[t] \in Pool!Runs /\ mine[t].block = cur[t]
    /\ poolPc[t] = "count" => mine[t].n = poolWant[t]
    /\ poolPc[t] \in {"freeCount", "freeHints"} => mine[t] \in Pool!Runs
           /\ mine[t].block \in Pool!Linked
    /\ poolPc[t] = "link" => cur[t] \in Pool!Blocks \ Pool!Linked /\ home[cur[t]] = Pool!Arena(t)

\* All are destroyed or none, and until then every block has its place.
InPlace ==
    \/ upstream = {} /\ \A t \in Threads : poolPc[t] = "destroyed"
    \/ /\ \A t \in Threads : poolPc[t] # "destroyed"
       /\ upstream = Pool!Linked \cup Pool!Linking
       /\ \A t, u \in Threads : t # u /\ poolPc[t] = "link" /\ poolPc[u] = "link" => cur[t] # cur[u]
       /\ totalBlocks = Cardinality(upstream) + Cardinality(Pool!Reserving)

\* The runs that callers hold or are about to get are set, and apart.
Got == {t \in Threads : poolPc[t] \in {"count", "finalize"}}
Bits(r) == Pool!Run(r.at, r.n)

Lent ==
    /\ \A r \in live : r.block \in Pool!Linked /\ Bits(r) \subseteq used[r.block]
    /\ \A t \in Got : Bits(mine[t]) \subseteq used[cur[t]]
    /\ \A r, q \in live : r # q /\ r.block = q.block => Bits(r) \cap Bits(q) = {}
    /\ \A r \in live, t \in Got : r.block = cur[t] => Bits(r) \cap Bits(mine[t]) = {}
    /\ \A t, u \in Got : t # u /\ cur[t] = cur[u] => Bits(mine[t]) \cap Bits(mine[u]) = {}

PoolInv ==
    /\ Pool!TypeOK /\ ChainsApart /\ HintsInChains /\ (\A t \in Threads : PoolControl(t))
    /\ InPlace /\ Lent /\ Pool!CountBalances

-----------------------------------------------------------------------------
(* Arithmetic, sets and lists. *)

LEMMA PoolShape ==
    /\ IsFiniteSet(Threads) /\ Threads # {}
    /\ MaxArenas \in Nat /\ MaxBlocks \in Nat /\ NumArenas \in Nat \ {0}
    /\ NumArenas <= MaxArenas /\ NumArenas <= MaxBlocks
    /\ Cores \subseteq Nat /\ UpstreamBlocks \in Nat /\ Elements \in Nat \ {0}
    /\ RunLengths \subseteq 1 .. Elements /\ CountModulus \in Nat /\ CountModulus > Elements
BY PoolSizes, PoolSets DEF Pool!SizesAssumption

LEMMA PoolMinIsLeast ==
    ASSUME NEW T, T \subseteq Nat, T # {}
    PROVE  Pool!Min(T) \in T /\ \A n \in T : Pool!Min(T) <= n
BY LeastNatural DEF Pool!Min

LEMMA ModuloUnique ==
    ASSUME NEW m \in Nat, m > 0, NEW x \in Int, NEW q \in Int, NEW r \in 0 .. m - 1,
           x = q * m + r
    PROVE  x % m = r
OBVIOUS

LEMMA ModuloFacts ==
    ASSUME NEW m \in Nat, m > 0, NEW x \in Int
    PROVE  x % m \in 0 .. m - 1 /\ \E q \in Int : x = q * m + (x % m)
OBVIOUS

LEMMA ModuloSum ==
    ASSUME NEW m \in Nat, m > 0, NEW x \in Int, NEW y \in Int
    PROVE  ((x % m) + y) % m = (x + y) % m
<1>1. PICK q \in Int : x = q * m + (x % m)
  BY ModuloFacts
<1>2. PICK p \in Int : x + y = p * m + ((x + y) % m)
  <2>1. x + y \in Int
    OBVIOUS
  <2> QED
    BY <2>1, ModuloFacts
<1>3. (x + y) % m \in 0 .. m - 1 /\ x % m \in Int
  BY ModuloFacts
<1>4. (x % m) + y = (p - q) * m + ((x + y) % m)
  BY <1>1, <1>2, <1>3
<1>5. (x % m) + y \in Int /\ p - q \in Int
  BY <1>3
<1> QED
  BY <1>3, <1>4, <1>5, ModuloUnique
\* A run has as many elements as it says.
LEMMA RunSize ==
    ASSUME NEW at \in Nat, NEW n \in Nat
    PROVE  IsFiniteSet(Pool!Run(at, n)) /\ Cardinality(Pool!Run(at, n)) = n
<1>1. IsFiniteSet(at .. at + n - 1)
      /\ Cardinality(at .. at + n - 1) = IF at > at + n - 1 THEN 0 ELSE (at + n - 1) - at + 1
  <2>1. at \in Int /\ at + n - 1 \in Int
    OBVIOUS
  <2> QED
    BY <2>1, FS_Interval
<1> QED
  BY <1>1 DEF Pool!Run

\* A set of elements in hand with the n elements of one more thread.
LEMMA HandGains ==
    ASSUME NEW t \in Threads, NEW n \in 1 .. Elements, NEW A, NEW B,
           B \subseteq Threads \X (1 .. Elements),
           A = B \cup ({t} \X (1 .. n)), B \cap ({t} \X (1 .. n)) = {}
    PROVE  Cardinality(A) = Cardinality(B) + n /\ Cardinality(B) \in Nat
<1> DEFINE D == Threads \X (1 .. Elements)
<1> DEFINE C == {t} \X (1 .. n)
<1> USE PoolShape
<1>1. IsFiniteSet(D)
  <2>1. 1 \in Int /\ Elements \in Int
    OBVIOUS
  <2>2. IsFiniteSet(1 .. Elements)
    BY <2>1, FS_Interval
  <2> QED
    BY <2>2, FS_Product
<1>2. IsFiniteSet(B) /\ Cardinality(B) \in Nat
  BY <1>1, FS_Subset, FS_CardinalityType
<1>3. IsFiniteSet(C) /\ Cardinality(C) = n
  <2>1. IsFiniteSet(1 .. n) /\ Cardinality(1 .. n) = n
    <3>1. n \in 1 .. Elements /\ 1 \in Int /\ n \in Int /\ ~(1 > n) /\ n - 1 + 1 = n
      OBVIOUS
    <3>2. IsFiniteSet(1 .. n) /\ Cardinality(1 .. n) = IF 1 > n THEN 0 ELSE n - 1 + 1
      BY <3>1, FS_Interval
    <3>3. IsFiniteSet(1 .. n) /\ Cardinality(1 .. n) = n
      BY <3>1, <3>2
    <3> QED
      BY <3>3
  <2>2. IsFiniteSet({t}) /\ Cardinality({t}) = 1
    BY FS_Singleton
  <2>3. IsFiniteSet(C) /\ Cardinality(C) = Cardinality({t}) * Cardinality(1 .. n)
    BY <2>1, <2>2, FS_Product
  <2> QED
    BY <2>1, <2>2, <2>3
<1>4. A = B \cup C
  OBVIOUS
<1>5. B \cap C = {}
  OBVIOUS
<1>6. Cardinality(A) = Cardinality(B) + Cardinality(C) - Cardinality(B \cap C)
  <2> HIDE DEF C
  <2> QED
    BY <1>2, <1>3, <1>4, FS_Union
<1>7. Cardinality(B \cap C) = 0
  <2> HIDE DEF C
  <2> QED
    BY <1>5, FS_EmptySet
<1>8. Cardinality(A) = Cardinality(B) + n
  <2> HIDE DEF C
  <2> QED
    BY <1>2, <1>3, <1>6, <1>7
<1> QED
  BY <1>2, <1>8

\* A step of t that is not at the place, before or after, leaves what is in hand there.
LEMMA HandKept ==
    ASSUME NEW t \in Threads, NEW b \in Pool!Blocks, NEW place \in Pool!Places,
           \A u \in Threads \ {t} : poolPc'[u] = poolPc[u] /\ mine'[u] = mine[u],
           ~(poolPc[t] = place /\ mine[t].block = b), ~(poolPc'[t] = place /\ mine'[t].block = b)
    PROVE  Pool!InHand(b, place)' = Pool!InHand(b, place)
<1> DEFINE D == Threads \X (1 .. Elements)
<1> DEFINE A == {x \in D : poolPc[x[1]] = place /\ mine[x[1]].block = b /\ x[2] <= mine[x[1]].n}
<1> DEFINE B == {x \in D : poolPc'[x[1]] = place /\ mine'[x[1]].block = b /\ x[2] <= mine'[x[1]].n}
<1>1. A = B
  OBVIOUS
<1> QED
  BY <1>1, PoolSets DEF Pool!InHand

LEMMA HandGrows ==
    ASSUME NEW t \in Threads, NEW b \in Pool!Blocks, NEW place \in Pool!Places,
           \A u \in Threads \ {t} : poolPc'[u] = poolPc[u] /\ mine'[u] = mine[u],
           poolPc[t] # place, poolPc'[t] = place,
           mine'[t].block = b, mine'[t].n \in 1 .. Elements
    PROVE  Pool!InHand(b, place)' = Pool!InHand(b, place) + mine'[t].n
               /\ Pool!InHand(b, place) \in Nat
<1>1. /\ \A u \in Threads \ {t} : poolPc'[u] = poolPc[u] /\ mine'[u] = mine[u]
      /\ ~(poolPc[t] = place /\ mine[t].block = b) /\ poolPc'[t] = place
  OBVIOUS
<1> DEFINE A == {x \in Threads \X (1 .. Elements) :
                     poolPc'[x[1]] = place /\ mine'[x[1]].block = b /\ x[2] <= mine'[x[1]].n}
<1> DEFINE B == {x \in Threads \X (1 .. Elements) :
                     poolPc[x[1]] = place /\ mine[x[1]].block = b /\ x[2] <= mine[x[1]].n}
<1>2. A = {x \in Threads \X (1 .. Elements) :
                     poolPc'[x[1]] = place /\ mine'[x[1]].block = b /\ x[2] <= mine'[x[1]].n}
  OBVIOUS
<1>3. B = {x \in Threads \X (1 .. Elements) :
                     poolPc[x[1]] = place /\ mine[x[1]].block = b /\ x[2] <= mine[x[1]].n}
  OBVIOUS
<1> DEFINE n == mine'[t].n
<1>5. A = B \cup ({t} \X (1 .. n))
  <2>1. B \subseteq A
    BY <1>1, Zenon
  <2>2. ASSUME NEW x \in {t} \X (1 .. n) PROVE x \in A
    <3>1. x \in Threads \X (1 .. Elements) /\ x[1] = t /\ x[2] <= n
      BY PoolShape
    <3> QED
      BY <1>1, <3>1, Zenon
  <2>3. ASSUME NEW x \in A, x \notin B PROVE x \in {t} \X (1 .. n)
    <3>1. x \in Threads \X (1 .. Elements) /\ x[1] = t /\ x[2] <= n
      BY <1>1, <2>3
    <3> HIDE DEF n
    <3> QED
      BY <3>1
  <2> HIDE DEF A, B, n
  <2> QED
    BY <2>1, <2>2, <2>3
<1>6. B \cap ({t} \X (1 .. n)) = {} /\ B \subseteq Threads \X (1 .. Elements)
  BY <1>1, <1>2, <1>3
<1>7. n \in 1 .. Elements
  OBVIOUS
<1> HIDE DEF A, B, n
<1>8. Cardinality(A) = Cardinality(B) + n /\ Cardinality(B) \in Nat
  BY <1>5, <1>6, <1>7, HandGains
<1> QED
  BY <1>8, PoolSets DEF Pool!InHand, A, B, n

LEMMA HandShrinks ==
    ASSUME NEW t \in Threads, NEW b \in Pool!Blocks, NEW place \in Pool!Places,
           \A u \in Threads \ {t} : poolPc'[u] = poolPc[u] /\ mine'[u] = mine[u],
           poolPc[t] = place, poolPc'[t] # place,
           mine[t].block = b, mine[t].n \in 1 .. Elements
    PROVE  Pool!InHand(b, place)' = Pool!InHand(b, place) - mine[t].n
               /\ Pool!InHand(b, place) \in Nat
<1>1. /\ \A u \in Threads \ {t} : poolPc'[u] = poolPc[u] /\ mine'[u] = mine[u]
      /\ ~(poolPc'[t] = place /\ mine'[t].block = b)
  OBVIOUS
<1> DEFINE A == {x \in Threads \X (1 .. Elements) :
                     poolPc[x[1]] = place /\ mine[x[1]].block = b /\ x[2] <= mine[x[1]].n}
<1> DEFINE B == {x \in Threads \X (1 .. Elements) :
                     poolPc'[x[1]] = place /\ mine'[x[1]].block = b /\ x[2] <= mine'[x[1]].n}
<1>2. A = {x \in Threads \X (1 .. Elements) :
                     poolPc[x[1]] = place /\ mine[x[1]].block = b /\ x[2] <= mine[x[1]].n}
  OBVIOUS
<1>3. B = {x \in Threads \X (1 .. Elements) :
                     poolPc'[x[1]] = place /\ mine'[x[1]].block = b /\ x[2] <= mine'[x[1]].n}
  OBVIOUS
<1> DEFINE n == mine[t].n
<1>5. A = B \cup ({t} \X (1 .. n))
  <2>1. B \subseteq A
    BY <1>1, Zenon
  <2>2. ASSUME NEW x \in {t} \X (1 .. n) PROVE x \in A
    <3>1. x \in Threads \X (1 .. Elements) /\ x[1] = t /\ x[2] <= n
      BY PoolShape
    <3> QED
      BY <1>1, <3>1, Zenon
  <2>3. ASSUME NEW x \in A, x \notin B PROVE x \in {t} \X (1 .. n)
    <3>1. x \in Threads \X (1 .. Elements) /\ x[1] = t /\ x[2] <= n
      BY <1>1, <2>3
    <3> HIDE DEF n
    <3> QED
      BY <3>1
  <2> HIDE DEF A, B, n
  <2> QED
    BY <2>1, <2>2, <2>3
<1>6. B \cap ({t} \X (1 .. n)) = {} /\ B \subseteq Threads \X (1 .. Elements)
  BY <1>1, <1>2, <1>3
<1>7. n \in 1 .. Elements
  OBVIOUS
<1> HIDE DEF A, B, n
<1>8. Cardinality(A) = Cardinality(B) + n /\ Cardinality(B) \in Nat
  BY <1>5, <1>6, <1>7, HandGains
<1>9. Cardinality(A) \in Nat /\ Cardinality(B) = Cardinality(A) - n
  BY <1>7, <1>8
<1> QED
  BY <1>9, PoolSets DEF Pool!InHand, A, B, n

LEMMA HandIsNatural ==
    ASSUME NEW b, NEW place PROVE Pool!InHand(b, place) \in Nat
<1> DEFINE D == Threads \X (1 .. Elements)
           A == {x \in D : poolPc[x[1]] = place /\ mine[x[1]].block = b /\ x[2] <= mine[x[1]].n}
<1>1. IsFiniteSet(1 .. Elements)
  BY PoolShape, FS_Interval
<1>2. IsFiniteSet(D)
  BY <1>1, PoolShape, FS_Product
<1>3. A \subseteq D
  OBVIOUS
<1> HIDE DEF D, A
<1>4. Cardinality(A) \in Nat
  BY <1>2, <1>3, FS_Subset, FS_CardinalityType
<1> QED
  BY <1>4, PoolSets DEF Pool!InHand, A, D

-----------------------------------------------------------------------------
(* The list of an arena is the least set that holds its front and follows next. *)

Lists ==
    /\ first \in [Pool!Arenas -> Pool!Blocks \cup {Pool!Null}]
    /\ next \in [Pool!Blocks -> Pool!Blocks \cup {Pool!Null}]

Closed(S) == \A c \in S : next[c] \in S \cup {Pool!Null}

ChainLaws ==
    \A a \in Pool!Arenas :
        /\ Pool!Chain(a) \subseteq Pool!Blocks
        /\ first[a] \in Pool!Chain(a) \cup {Pool!Null}
        /\ \A c \in Pool!Chain(a) : next[c] \in Pool!Chain(a) \cup {Pool!Null}
        /\ \A S \in SUBSET Pool!Blocks :
              first[a] \in S \cup {Pool!Null} /\ (\A c \in S : next[c] \in S \cup {Pool!Null})
                => Pool!Chain(a) \subseteq S

LEMMA ChainLawsHold == Lists => ChainLaws
<1> SUFFICES ASSUME Lists, NEW a \in Pool!Arenas
             PROVE  /\ Pool!Chain(a) \subseteq Pool!Blocks
                    /\ first[a] \in Pool!Chain(a) \cup {Pool!Null}
                    /\ \A c \in Pool!Chain(a) : next[c] \in Pool!Chain(a) \cup {Pool!Null}
                    /\ \A S \in SUBSET Pool!Blocks :
                          first[a] \in S \cup {Pool!Null}
                          /\ (\A c \in S : next[c] \in S \cup {Pool!Null})
                            => Pool!Chain(a) \subseteq S
  BY DEF ChainLaws
<1>1. Pool!Chain(a) \subseteq Pool!Blocks
  BY DEF Pool!Chain
<1>2. first[a] \in Pool!Chain(a) \cup {Pool!Null}
  BY DEF Pool!Chain, Lists
<1>3. \A S \in SUBSET Pool!Blocks :
        first[a] \in S \cup {Pool!Null} /\ (\A c \in S : next[c] \in S \cup {Pool!Null})
          => Pool!Chain(a) \subseteq S
  BY DEF Pool!Chain
<1>4. ASSUME NEW c \in Pool!Chain(a), next[c] # Pool!Null PROVE next[c] \in Pool!Chain(a)
  <2>1. next[c] \in Pool!Blocks
    BY <1>1, <1>4 DEF Lists
  <2>2. ASSUME NEW S \in SUBSET Pool!Blocks, first[a] \in S \cup {Pool!Null},
               \A d \in S : next[d] \in S \cup {Pool!Null}
        PROVE  next[c] \in S
    BY <1>3, <1>4, <2>2
  <2> QED
    BY <2>1, <2>2 DEF Pool!Chain
<1> QED
  BY <1>1, <1>2, <1>3, <1>4

LEMMA ChainLawsAfter == Lists' => ChainLaws'
BY ChainLawsHold, PTL

\* The list of an arena is the same when its front is and the links of its blocks are.
LEMMA ChainKept ==
    ASSUME Lists, Lists', NEW a \in Pool!Arenas, first'[a] = first[a],
           \A c \in Pool!Chain(a) : next'[c] = next[c]
    PROVE  Pool!Chain(a)' = Pool!Chain(a)
<1> DEFINE C == Pool!Chain(a)
           K == Pool!Chain(a)'
<1>1. /\ C \subseteq Pool!Blocks /\ first[a] \in C \cup {Pool!Null}
      /\ \A c \in C : next[c] \in C \cup {Pool!Null}
      /\ \A S \in SUBSET Pool!Blocks :
            first[a] \in S \cup {Pool!Null}
                /\ (\A c \in S : next[c] \in S \cup {Pool!Null}) => C \subseteq S
  BY ChainLawsHold DEF ChainLaws
<1>2. /\ K \subseteq Pool!Blocks /\ first'[a] \in K \cup {Pool!Null}
      /\ \A c \in K : next'[c] \in K \cup {Pool!Null}
      /\ \A S \in SUBSET Pool!Blocks :
            first'[a] \in S \cup {Pool!Null}
                /\ (\A c \in S : next'[c] \in S \cup {Pool!Null}) => K \subseteq S
  BY ChainLawsAfter DEF ChainLaws
<1>3. \A c \in C : next'[c] = next[c]
  OBVIOUS
<1> HIDE DEF C, K
<1>4. K \subseteq C
  BY <1>1, <1>2, <1>3
<1>5. C \subseteq K
  <2> DEFINE S == C \cap K
  <2>1. S \in SUBSET Pool!Blocks /\ first[a] \in S \cup {Pool!Null}
    BY <1>1, <1>2
  <2>2. \A c \in S : next[c] \in S \cup {Pool!Null}
    BY <1>1, <1>2, <1>3
  <2> QED
    BY <1>1, <2>1, <2>2
<1> QED
  BY <1>4, <1>5 DEF C, K

\* A block put before the front of a list is all the list gains.
LEMMA ChainGrows ==
    ASSUME Lists, Lists', NEW a \in Pool!Arenas, NEW b \in Pool!Blocks, next' = next,
           first'[a] = b, next[b] = first[a]
    PROVE  Pool!Chain(a)' = Pool!Chain(a) \cup {b}
<1> DEFINE C == Pool!Chain(a)
           K == Pool!Chain(a)'
<1>1. /\ C \subseteq Pool!Blocks /\ first[a] \in C \cup {Pool!Null}
      /\ \A c \in C : next[c] \in C \cup {Pool!Null}
      /\ \A S \in SUBSET Pool!Blocks :
            first[a] \in S \cup {Pool!Null}
                /\ (\A c \in S : next[c] \in S \cup {Pool!Null}) => C \subseteq S
  BY ChainLawsHold DEF ChainLaws
<1>2. /\ K \subseteq Pool!Blocks /\ b \in K
      /\ \A c \in K : next[c] \in K \cup {Pool!Null}
      /\ \A S \in SUBSET Pool!Blocks :
            b \in S \cup {Pool!Null}
                /\ (\A c \in S : next[c] \in S \cup {Pool!Null}) => K \subseteq S
  <2>1. b # Pool!Null
    BY PoolShape DEF Pool!Blocks, Pool!Null
  <2> QED
    BY <2>1, ChainLawsAfter DEF ChainLaws
<1> HIDE DEF C, K
<1>3. K \subseteq C \cup {b}
  <2> DEFINE S == C \cup {b}
  <2>1. \A c \in S : next[c] \in S \cup {Pool!Null}
    BY <1>1
  <2>2. S \in SUBSET Pool!Blocks /\ b \in S \cup {Pool!Null}
    BY <1>1
  <2> HIDE DEF S
  <2>3. K \subseteq S
    BY <1>2, <2>1, <2>2
  <2> QED
    BY <2>3 DEF S
<1>4. C \subseteq K
  BY <1>1, <1>2
<1> QED
  BY <1>2, <1>3, <1>4 DEF C, K

-----------------------------------------------------------------------------
(* What a step leaves as it is. *)

LEMMA ListsFact == Pool!TypeOK => Lists
BY DEF Pool!TypeOK, Lists

LEMMA ArenaFacts ==
    ASSUME NEW c \in Nat PROVE c % NumArenas \in Pool!Arenas
BY PoolShape DEF Pool!Arenas

LEMMA ListsKept ==
    ASSUME UNCHANGED <<first, next>>
    PROVE  (\A a \in Pool!Arenas : Pool!Chain(a)' = Pool!Chain(a)) /\ Pool!Linked' = Pool!Linked
<1>1. \A a \in Pool!Arenas : Pool!Chain(a)' = Pool!Chain(a)
  BY DEF Pool!Chain
<1>2. Pool!Linked' = Pool!Linked
  BY DEF Pool!Chain, Pool!Linked
<1> QED
  BY <1>1, <1>2

\* What another thread knows outlasts a step that takes no block out of a list, and puts
\* none there that it is about to link.
LEMMA ControlKept ==
    ASSUME NEW u \in Threads, PoolControl(u), Pool!TypeOK,
           \A a \in Pool!Arenas : Pool!Chain(a) \subseteq Pool!Chain(a)',
           UNCHANGED <<poolPc[u], path[u], cur[u], core[u], poolWant[u], offset[u], mine[u]>>,
           poolPc[u] = "link" => cur[u] \notin Pool!Linked' /\ home'[cur[u]] = home[cur[u]]
    PROVE  PoolControl(u)'
<1>1. core[u] \in Nat /\ offset[u] \in Nat
  BY PoolShape DEF Pool!TypeOK
<1>2. Pool!Arena(u)' = Pool!Arena(u) /\ Pool!OtherArena(u)' = Pool!OtherArena(u)
  BY DEF Pool!Arena, Pool!OtherArena
<1>3. Pool!Arena(u) \in Pool!Arenas /\ Pool!OtherArena(u) \in Pool!Arenas
  <2>1. Pool!Arena(u) \in Pool!Arenas
    BY <1>1, ArenaFacts DEF Pool!Arena
  <2>2. Pool!Arena(u) + offset[u] \in Nat
    BY <1>1, <2>1 DEF Pool!Arenas
  <2> QED
    BY <2>1, <2>2, ArenaFacts DEF Pool!OtherArena
<1>4. /\ Pool!Chain(Pool!Arena(u)) \subseteq Pool!Chain(Pool!Arena(u))'
      /\ Pool!Chain(Pool!OtherArena(u)) \subseteq Pool!Chain(Pool!OtherArena(u))'
  BY <1>2, <1>3 DEF Pool!Chain
<1>5. Pool!Linked \subseteq Pool!Linked'
  BY DEF Pool!Linked
<1> QED
  BY <1>2, <1>4, <1>5 DEF PoolControl

LEMMA LentKept ==
    ASSUME Lent, UNCHANGED <<live, used>>, Pool!Linked' = Pool!Linked, Got' = Got,
           \A u \in Got : cur'[u] = cur[u] /\ mine'[u] = mine[u]
    PROVE  Lent'
BY DEF Lent

LEMMA BalanceKept ==
    ASSUME Pool!CountBalances, UNCHANGED <<freeCount, used>>,
           \A b \in Pool!Blocks : /\ Pool!InHand(b, "count")' = Pool!InHand(b, "count")
                            /\ Pool!InHand(b, "freeCount")' = Pool!InHand(b, "freeCount")
    PROVE  Pool!CountBalances'
BY PoolSets DEF Pool!CountBalances

Holds(place) == IF place \in {"upstream", "unreserve"} THEN 1 ELSE 0

LEMMA ReservingMoves ==
    ASSUME NEW t \in Threads, \A u \in Threads \ {t} : poolPc'[u] = poolPc[u]
    PROVE  /\ Cardinality(Pool!Reserving') = Cardinality(Pool!Reserving)
                  + Holds(poolPc[t])' - Holds(poolPc[t])
           /\ Cardinality(Pool!Reserving) \in Nat
<1>1. IsFiniteSet(Pool!Reserving) /\ Cardinality(Pool!Reserving) \in Nat
  BY PoolShape, FS_Subset, FS_CardinalityType DEF Pool!Reserving
<1> DEFINE S == Pool!Reserving
           T == Pool!Reserving'
<1>2. /\ T = IF poolPc'[t] \in {"upstream", "unreserve"} THEN S \cup {t} ELSE S \ {t}
      /\ t \in S <=> poolPc[t] \in {"upstream", "unreserve"}
  BY DEF Pool!Reserving
<1> HIDE DEF S, T
<1>3. Cardinality(S \cup {t}) = IF t \in S THEN Cardinality(S) ELSE Cardinality(S) + 1
  BY <1>1, FS_AddElement DEF S
<1>4. Cardinality(S \ {t}) = IF t \in S THEN Cardinality(S) - 1 ELSE Cardinality(S)
  BY <1>1, FS_RemoveElement DEF S
<1>5. Cardinality(T) = Cardinality(S) + Holds(poolPc[t])' - Holds(poolPc[t])
  BY <1>1, <1>2, <1>3, <1>4 DEF Holds, S
<1> QED
  BY <1>1, <1>5 DEF S, T

LEMMA UpstreamFinite ==
    ASSUME NEW S, S \subseteq Pool!Blocks PROVE IsFiniteSet(S) /\ Cardinality(S) \in Nat
<1>1. IsFiniteSet(Pool!Blocks)
  BY PoolShape, FS_Interval DEF Pool!Blocks
<1> QED
  BY <1>1, FS_Subset, FS_CardinalityType

LEMMA UsedFinite ==
    ASSUME Pool!TypeOK, NEW b \in Pool!Blocks
    PROVE  IsFiniteSet(used[b]) /\ Cardinality(used[b]) \in Nat
<1>1. IsFiniteSet(0 .. Elements - 1)
  BY PoolShape, FS_Interval
<1>2. used[b] \subseteq 0 .. Elements - 1
  BY DEF Pool!TypeOK
<1> QED
  BY <1>1, <1>2, FS_Subset, FS_CardinalityType

LEMMA ControlInArena ==
    ASSUME Pool!TypeOK, NEW u \in Threads
    PROVE  Pool!Arena(u) \in Pool!Arenas /\ Pool!OtherArena(u) \in Pool!Arenas
<1>1. core[u] \in Nat /\ offset[u] \in Nat
  BY PoolShape DEF Pool!TypeOK
<1>2. Pool!Arena(u) \in Pool!Arenas
  BY <1>1, ArenaFacts DEF Pool!Arena
<1>3. Pool!Arena(u) + offset[u] \in Nat
  BY <1>1, <1>2 DEF Pool!Arenas
<1> QED
  BY <1>2, <1>3, ArenaFacts DEF Pool!OtherArena

-----------------------------------------------------------------------------
(* Steps that look for room: they write nothing another call reads. *)

LookingPlaces ==
    {"idle", "core", "arena", "walk", "other", "reserve", "upstream", "unreserve", "check", "take"}

Elsewhere(t) ==
    \A u \in Threads \ {t} : UNCHANGED <<poolPc[u], path[u], cur[u], core[u], poolWant[u],
        offset[u], mine[u]>>

LEMMA Looking ==
    ASSUME PoolInv, Pool!TypeOK', NEW t \in Threads, Elsewhere(t), PoolControl(t)',
           UNCHANGED <<first, next, home, used, freeCount, upstream, arenaHint, coreHint, live>>,
           poolPc[t] \in LookingPlaces, poolPc'[t] \in LookingPlaces,
           totalBlocks' = totalBlocks + Holds(poolPc[t])' - Holds(poolPc[t])
    PROVE  PoolInv'
<1> USE DEF PoolInv
<1>2. (\A a \in Pool!Arenas : Pool!Chain(a)' = Pool!Chain(a)) /\ Pool!Linked' = Pool!Linked
  BY ListsKept
<1>t. /\ \A u \in Threads \ {t} : poolPc'[u] = poolPc[u] /\ mine'[u] = mine[u] /\ cur'[u] = cur[u]
      /\ totalBlocks \in Nat /\ upstream \in SUBSET Pool!Blocks
  BY PoolShape DEF Elsewhere, Pool!TypeOK
<1>3. ChainsApart' /\ HintsInChains'
  BY <1>2 DEF ChainsApart, HintsInChains
<1>4. ASSUME NEW u \in Threads PROVE PoolControl(u)'
  <2>1. ASSUME u # t PROVE PoolControl(u)'
    <3>1. UNCHANGED <<poolPc[u], path[u], cur[u], core[u], poolWant[u], offset[u], mine[u]>>
      BY <2>1 DEF Elsewhere
    <3>2. poolPc[u] = "link" => cur[u] \notin Pool!Linked' /\ home'[cur[u]] = home[cur[u]]
      BY <1>2 DEF PoolControl
    <3> QED
      BY <1>2, <3>1, <3>2, ControlKept
  <2> QED
    BY <2>1
<1>5. InPlace'
  <2>1. \A u \in Threads : poolPc[u] # "destroyed"
    BY PoolSets DEF InPlace, LookingPlaces
  <2>2. \A u \in Threads : poolPc'[u] # "destroyed"
    BY <1>t, <2>1 DEF LookingPlaces
  <2>3. Pool!Linking' = Pool!Linking
    BY <1>t DEF Pool!Linking, LookingPlaces
  <2>4. upstream = Pool!Linked \cup Pool!Linking
            /\ totalBlocks = Cardinality(upstream) + Cardinality(Pool!Reserving)
        /\ \A v, u \in Threads : v # u /\ poolPc[v] = "link"
               /\ poolPc[u] = "link" => cur[v] # cur[u]
    BY <2>1, PoolShape, PoolSets DEF InPlace
  <2>5. upstream' = Pool!Linked' \cup Pool!Linking'
    BY <1>2, <2>3, <2>4
  <2>6. Cardinality(upstream) \in Nat /\ upstream' = upstream
    BY <1>t, UpstreamFinite
  <2>7. totalBlocks' = Cardinality(upstream') + Cardinality(Pool!Reserving')
    <3>1. /\ Cardinality(Pool!Reserving') = Cardinality(Pool!Reserving)
                 + Holds(poolPc[t])' - Holds(poolPc[t])
          /\ Cardinality(Pool!Reserving) \in Nat
      BY <1>t, ReservingMoves
    <3>2. Holds(poolPc[t])' \in Int /\ Holds(poolPc[t]) \in Int
      BY DEF Holds
    <3> QED
      BY <2>4, <2>6, <3>1, <3>2
  <2>8. \A v, u \in Threads : v # u /\ poolPc'[v] = "link"
            /\ poolPc'[u] = "link" => cur'[v] # cur'[u]
    BY <1>t, <2>4 DEF LookingPlaces
  <2> QED
    BY <2>2, <2>5, <2>7, <2>8, PoolSets DEF InPlace
<1>6. Lent'
  <2>1. Got' = Got
    BY <1>t DEF Got, LookingPlaces
  <2>2. \A u \in Got : cur'[u] = cur[u] /\ mine'[u] = mine[u]
    BY <1>t DEF Got, LookingPlaces
  <2> QED
    BY <1>2, <2>1, <2>2, LentKept
<1>7. Pool!CountBalances'
  <2>2. poolPc[t] # "count" /\ poolPc[t] # "freeCount" /\ poolPc'[t] # "count"
            /\ poolPc'[t] # "freeCount"
    BY DEF LookingPlaces
  <2>3. ASSUME NEW d \in Pool!Blocks
        PROVE  Pool!InHand(d, "count")' = Pool!InHand(d, "count")
               /\ Pool!InHand(d, "freeCount")' = Pool!InHand(d, "freeCount")
    <3>1. "count" \in Pool!Places /\ "freeCount" \in Pool!Places
      BY DEF Pool!Places
    <3> QED
      BY <1>t, <2>2, <3>1, HandKept
  <2> QED
    BY <2>3, BalanceKept
<1> QED
  BY <1>3, <1>4, <1>5, <1>6, <1>7

\* A call that goes on to a place with its core and its size, and to a block of a list.
LEMMA SearchControl ==
    ASSUME PoolInv, NEW t \in Threads, UNCHANGED <<first, next, core, poolWant>>,
           poolPc[t] \in LookingPlaces \ {"idle"}, poolPc'[t] \in LookingPlaces,
           poolPc'[t] \in {"check", "take"} => \E a \in Pool!Arenas :
              /\ cur'[t] \in Pool!Chain(a)
              /\ path'[t] # "other" => a = Pool!Arena(t)
              /\ path'[t] = "other" => offset'[t] < NumArenas /\ a = Pool!OtherArena(t)'
    PROVE  PoolControl(t)'
<1>1. \A a \in Pool!Arenas : Pool!Chain(a)' = Pool!Chain(a)
  BY ListsKept
<1>2. poolWant'[t] # 0
  BY DEF PoolInv, PoolControl, LookingPlaces
<1>3. Pool!Arena(t)' = Pool!Arena(t)
  BY DEF Pool!Arena
<1>4. poolPc'[t] \in {"check", "take"} =>
         /\ path'[t] # "other" => cur'[t] \in Pool!Chain(Pool!Arena(t))'
         /\ path'[t] = "other" => offset'[t] < NumArenas
                /\ cur'[t] \in Pool!Chain(Pool!OtherArena(t))'
  BY <1>1, <1>3 DEF Pool!Chain
<1> QED
  BY <1>2, <1>4 DEF PoolControl, LookingPlaces

LEMMA PoolAllocBeginInvariant == ASSUME PoolInv, NEW t \in Threads,
                                            Pool!AllocBegin(t) PROVE PoolInv'
<1> USE DEF Pool!AllocBegin, Pool!Goto, Pool!blockVars, Pool!hintVars, PoolInv
<1>1. PICK c \in Cores, w \in RunLengths :
        core' = [core EXCEPT ![t] = c] /\ poolWant' = [poolWant EXCEPT ![t] = w]
  OBVIOUS
<1>2. c \in Nat /\ w \in 0 .. Elements /\ w # 0
  BY PoolShape
<1>3. Pool!TypeOK'
  BY <1>1, <1>2 DEF Pool!TypeOK, Pool!Places
<1>4. Elsewhere(t) /\ poolPc[t] = "idle" /\ poolPc'[t] = "core" /\ poolWant'[t] # 0
  BY <1>1, <1>2 DEF Elsewhere, Pool!TypeOK
<1>5. PoolControl(t)'
  BY <1>4 DEF PoolControl
<1>6. totalBlocks' = totalBlocks + Holds(poolPc[t])' - Holds(poolPc[t])
  BY <1>4 DEF Holds, Pool!TypeOK
<1> QED
  BY <1>3, <1>4, <1>5, <1>6, Looking DEF LookingPlaces

LEMMA PoolRefuseInvariant == ASSUME PoolInv, NEW t \in Threads, Pool!Refuse(t) PROVE PoolInv'
<1> USE DEF Pool!Refuse, Pool!Return, Pool!blockVars, Pool!hintVars, PoolInv
<1>1. Pool!TypeOK'
  BY PoolShape DEF Pool!TypeOK, Pool!Places, Pool!Paths
<1>2. Elsewhere(t) /\ poolPc[t] = "other" /\ poolPc'[t] = "idle"
  BY DEF Elsewhere, Pool!TypeOK
<1>3. PoolControl(t)'
  BY <1>2 DEF PoolControl
<1>4. totalBlocks' = totalBlocks + Holds(poolPc[t])' - Holds(poolPc[t])
  BY <1>2 DEF Holds, Pool!TypeOK
<1> QED
  BY <1>1, <1>2, <1>3, <1>4, Looking DEF LookingPlaces

LEMMA TryCoreHintInvariant == ASSUME PoolInv, NEW t \in Threads, Pool!TryCoreHint(t) PROVE PoolInv'
<1> USE DEF Pool!TryCoreHint, Pool!Try, Pool!GoOn, Pool!blockVars, Pool!hintVars, Pool!callVars,
                PoolInv
<1> DEFINE b == coreHint[Pool!HintSlot(t)]
<1>1. Pool!HintSlot(t) \in Pool!HintSlots
  BY PoolShape DEF Pool!TypeOK, Pool!HintSlot, Pool!HintSlots
<1>2. Pool!TypeOK'
  BY <1>1 DEF Pool!TypeOK, Pool!Places, Pool!Paths
<1>3. Elsewhere(t) /\ poolPc[t] = "core"
          /\ poolPc'[t] = IF Pool!Usable(t, b) THEN "check" ELSE "arena"
  BY DEF Elsewhere, Pool!TypeOK
<1>4. Pool!Usable(t, b) => b \in Pool!Chain(Pool!Arena(t))
  BY <1>1 DEF HintsInChains, Pool!Linked, ChainsApart, Pool!Usable
<1>5. PoolControl(t)'
  <2>1. Pool!Arena(t) \in Pool!Arenas
    BY ControlInArena
  <2>2. Pool!Usable(t, b) => path'[t] = "core" /\ cur'[t] = b
    BY DEF Pool!TypeOK
  <2> HIDE DEF b
  <2> QED
    BY <1>3, <1>4, <2>1, <2>2, SearchControl DEF LookingPlaces
<1>6. totalBlocks' = totalBlocks + Holds(poolPc[t])' - Holds(poolPc[t])
  BY <1>3 DEF Holds, Pool!TypeOK
<1> QED
  BY <1>2, <1>3, <1>5, <1>6, Looking DEF LookingPlaces

LEMMA TryArenaHintInvariant == ASSUME PoolInv, NEW t \in Threads,
                                          Pool!TryArenaHint(t) PROVE PoolInv'
<1> USE DEF Pool!TryArenaHint, Pool!Try, Pool!GoOn, Pool!blockVars, Pool!hintVars,
                Pool!callVars, PoolInv
<1> DEFINE b == arenaHint[Pool!Arena(t)]
<1>1. Pool!Arena(t) \in Pool!Arenas
  BY ControlInArena
<1>2. Pool!TypeOK'
  BY <1>1 DEF Pool!TypeOK, Pool!Places, Pool!Paths
<1>3. Elsewhere(t) /\ poolPc[t] = "arena" /\ poolPc'[t] = IF b # Pool!Null THEN "check" ELSE "walk"
  BY DEF Elsewhere, Pool!TypeOK
<1>4. b # Pool!Null => b \in Pool!Chain(Pool!Arena(t))
  BY <1>1 DEF HintsInChains
<1>5. PoolControl(t)'
  <2>1. b # Pool!Null => path'[t] = "arena" /\ cur'[t] = b
    BY DEF Pool!TypeOK
  <2> HIDE DEF b
  <2> QED
    BY <1>1, <1>3, <1>4, <2>1, SearchControl DEF LookingPlaces
<1>6. totalBlocks' = totalBlocks + Holds(poolPc[t])' - Holds(poolPc[t])
  BY <1>3 DEF Holds, Pool!TypeOK
<1> QED
  BY <1>2, <1>3, <1>5, <1>6, Looking DEF LookingPlaces

LEMMA WalkBeginInvariant == ASSUME PoolInv, NEW t \in Threads, Pool!WalkBegin(t) PROVE PoolInv'
<1> USE DEF Pool!WalkBegin, Pool!Try, Pool!GoOn, Pool!blockVars, Pool!hintVars, Pool!callVars,
                PoolInv
<1> DEFINE b == first[Pool!Arena(t)]
<1>1. Pool!Arena(t) \in Pool!Arenas
  BY ControlInArena
<1>2. Pool!TypeOK'
  BY <1>1 DEF Pool!TypeOK, Pool!Places, Pool!Paths
<1>3. Elsewhere(t) /\ poolPc[t] = "walk"
          /\ poolPc'[t] = IF b # Pool!Null THEN "check" ELSE "reserve"
  BY DEF Elsewhere, Pool!TypeOK
<1>4. b # Pool!Null => b \in Pool!Chain(Pool!Arena(t))
  BY <1>1, ListsFact, ChainLawsHold DEF ChainLaws
<1>5. PoolControl(t)'
  <2>1. b # Pool!Null => path'[t] = "walk" /\ cur'[t] = b
    BY DEF Pool!TypeOK
  <2> HIDE DEF b
  <2> QED
    BY <1>1, <1>3, <1>4, <2>1, SearchControl DEF LookingPlaces
<1>6. totalBlocks' = totalBlocks + Holds(poolPc[t])' - Holds(poolPc[t])
  BY <1>3 DEF Holds, Pool!TypeOK
<1> QED
  BY <1>2, <1>3, <1>5, <1>6, Looking DEF LookingPlaces

LEMMA TryOtherInvariant == ASSUME PoolInv, NEW t \in Threads, Pool!TryOther(t) PROVE PoolInv'
<1> USE DEF Pool!TryOther, Pool!ArenasToTry, Pool!Try, Pool!GoOn, Pool!blockVars, Pool!hintVars,
                Pool!callVars, PoolInv
<1> DEFINE b == first[Pool!OtherArena(t)]
<1>1. Pool!OtherArena(t) \in Pool!Arenas
  BY ControlInArena
<1>2. Pool!TypeOK'
  <2>1. offset[t] \in 0 .. NumArenas /\ NumArenas \in Nat /\ offset[t] < NumArenas
    BY PoolShape DEF Pool!TypeOK
  <2>2. offset[t] + 1 \in 0 .. NumArenas
    BY <2>1
  <2>3. offset' \in [Threads -> 0 .. NumArenas]
    BY <2>2 DEF Pool!TypeOK
  <2>4. b \in Pool!Blocks \cup {Pool!Null}
    BY <1>1 DEF Pool!TypeOK
  <2>5. poolPc' \in [Threads -> Pool!Places] /\ path' \in [Threads -> Pool!Paths]
    BY DEF Pool!TypeOK, Pool!Places, Pool!Paths
  <2>6. cur' \in [Threads -> Pool!Blocks \cup {Pool!Null}]
    BY <2>4 DEF Pool!TypeOK
  <2> QED
    BY <2>3, <2>5, <2>6 DEF Pool!TypeOK
<1>3. Elsewhere(t) /\ poolPc[t] = "other" /\ poolPc'[t] = IF b # Pool!Null THEN "check" ELSE "other"
  BY DEF Elsewhere, Pool!TypeOK
<1>4. b # Pool!Null => b \in Pool!Chain(Pool!OtherArena(t))
  BY <1>1, ListsFact, ChainLawsHold DEF ChainLaws
<1>5. PoolControl(t)'
  <2>1. b # Pool!Null => path'[t] = "other" /\ cur'[t] = b /\ offset' = offset
            /\ offset[t] < NumArenas
    BY DEF Pool!TypeOK
  <2>2. b # Pool!Null => Pool!OtherArena(t)' = Pool!OtherArena(t)
    BY <2>1 DEF Pool!OtherArena, Pool!Arena
  <2>3. UNCHANGED <<first, next, core, poolWant>>
    OBVIOUS
  <2> HIDE DEF b, Pool!TryOther
  <2> QED
    BY <1>1, <1>3, <1>4, <2>1, <2>2, <2>3, SearchControl DEF LookingPlaces
<1>6. totalBlocks' = totalBlocks + Holds(poolPc[t])' - Holds(poolPc[t])
  BY <1>3 DEF Holds, Pool!TypeOK
<1> QED
  BY <1>2, <1>3, <1>5, <1>6, Looking DEF LookingPlaces

LEMMA CheckInvariant == ASSUME PoolInv, NEW t \in Threads, Pool!Check(t) PROVE PoolInv'
<1> USE DEF Pool!Check, Pool!Goto, Pool!blockVars, Pool!hintVars, Pool!callVars, PoolInv
<1>1. Pool!TypeOK'
  BY DEF Pool!TypeOK, Pool!Places
<1>2. Elsewhere(t) /\ poolPc[t] = "check" /\ poolPc'[t] = "take"
  BY DEF Elsewhere, Pool!TypeOK
<1>3. PoolControl(t)'
  <2>1. Pool!Arena(t) \in Pool!Arenas /\ Pool!OtherArena(t) \in Pool!Arenas
    BY ControlInArena
  <2>2. Pool!OtherArena(t)' = Pool!OtherArena(t)
    BY DEF Pool!OtherArena, Pool!Arena
  <2>3. PoolControl(t)
    OBVIOUS
  <2>4. \E a \in Pool!Arenas :
              /\ cur'[t] \in Pool!Chain(a)
              /\ path'[t] # "other" => a = Pool!Arena(t)
              /\ path'[t] = "other" => offset'[t] < NumArenas /\ a = Pool!OtherArena(t)'
    BY <1>2, <2>1, <2>2, <2>3 DEF PoolControl
  <2> QED
    BY <1>2, <2>4, SearchControl DEF LookingPlaces
<1>4. totalBlocks' = totalBlocks + Holds(poolPc[t])' - Holds(poolPc[t])
  BY <1>2 DEF Holds, Pool!TypeOK
<1> QED
  BY <1>1, <1>2, <1>3, <1>4, Looking DEF LookingPlaces

LEMMA ReserveInvariant == ASSUME PoolInv, NEW t \in Threads, Pool!Reserve(t) PROVE PoolInv'
<1> USE DEF Pool!Reserve, Pool!GoOn, Pool!blockVars, Pool!hintVars, Pool!callVars, PoolInv
<1>1. Pool!TypeOK'
  <2>1. totalBlocks' \in 0 .. MaxBlocks
    BY PoolShape DEF Pool!TypeOK, Pool!CanReserve
  <2>2. offset' \in [Threads -> 0 .. NumArenas] /\ poolPc' \in [Threads -> Pool!Places]
    <3>1. 1 \in 0 .. NumArenas
      BY PoolShape
    <3> QED
      BY <3>1 DEF Pool!TypeOK, Pool!Places
  <2> QED
    BY <2>1, <2>2 DEF Pool!TypeOK
<1>2. Elsewhere(t) /\ poolPc[t] = "reserve"
          /\ poolPc'[t] = IF Pool!CanReserve THEN "upstream" ELSE "other"
  BY DEF Elsewhere, Pool!TypeOK
<1>3. PoolControl(t)'
  BY <1>2, SearchControl DEF LookingPlaces
<1>4. totalBlocks' = totalBlocks + Holds(poolPc[t])' - Holds(poolPc[t])
  BY <1>2 DEF Holds, Pool!TypeOK
<1> QED
  BY <1>1, <1>2, <1>3, <1>4, Looking DEF LookingPlaces

LEMMA UpstreamEmptyInvariant == ASSUME PoolInv, NEW t \in Threads,
                                           Pool!UpstreamEmpty(t) PROVE PoolInv'
<1> USE DEF Pool!UpstreamEmpty, Pool!Goto, Pool!blockVars, Pool!hintVars, Pool!callVars, PoolInv
<1>1. Pool!TypeOK'
  BY DEF Pool!TypeOK, Pool!Places
<1>2. Elsewhere(t) /\ poolPc[t] = "upstream" /\ poolPc'[t] = "unreserve"
  BY DEF Elsewhere, Pool!TypeOK
<1>3. PoolControl(t)'
  BY <1>2, SearchControl DEF LookingPlaces
<1>4. totalBlocks' = totalBlocks + Holds(poolPc[t])' - Holds(poolPc[t])
  BY <1>2 DEF Holds, Pool!TypeOK
<1> QED
  BY <1>1, <1>2, <1>3, <1>4, Looking DEF LookingPlaces

\* A reservation is one of the blocks that are counted.
LEMMA ReservedIsCounted ==
    ASSUME PoolInv, NEW t \in Threads, poolPc[t] \in {"upstream", "unreserve"}
    PROVE  totalBlocks >= 1
<1>1. t \in Pool!Reserving /\ IsFiniteSet(Pool!Reserving) /\ Cardinality(Pool!Reserving) \in Nat
  BY PoolShape, FS_Subset, FS_CardinalityType DEF Pool!Reserving
<1>2. Cardinality(Pool!Reserving) # 0
  BY <1>1, FS_EmptySet
<1>3. Cardinality(upstream) \in Nat
  BY UpstreamFinite DEF PoolInv, Pool!TypeOK
<1>4. totalBlocks = Cardinality(upstream) + Cardinality(Pool!Reserving)
  BY PoolSets DEF PoolInv, InPlace
<1> QED
  BY <1>1, <1>2, <1>3, <1>4

LEMMA UnreserveInvariant == ASSUME PoolInv, NEW t \in Threads, Pool!Unreserve(t) PROVE PoolInv'
<1> USE DEF Pool!Unreserve, Pool!GoOn, Pool!blockVars, Pool!hintVars, Pool!callVars, PoolInv
<1>1. totalBlocks >= 1
  BY ReservedIsCounted
<1>2. Pool!TypeOK'
  BY <1>1, PoolShape DEF Pool!TypeOK, Pool!Places
<1>3. Elsewhere(t) /\ poolPc[t] = "unreserve" /\ poolPc'[t] = "other"
  BY DEF Elsewhere, Pool!TypeOK
<1>4. PoolControl(t)'
  BY <1>3, SearchControl DEF LookingPlaces
<1>5. totalBlocks' = totalBlocks + Holds(poolPc[t])' - Holds(poolPc[t])
  BY <1>3 DEF Holds, Pool!TypeOK
<1> QED
  BY <1>2, <1>3, <1>4, <1>5, Looking DEF LookingPlaces

\* From a block with no room to the next place.
LEMMA NextPlaceInvariant ==
    ASSUME PoolInv, NEW t \in Threads, poolPc[t] \in {"check", "take"}, Pool!NextPlace(t),
           UNCHANGED <<first, Pool!blockVars, totalBlocks, Pool!hintVars, live, core, poolWant,
               mine>>
    PROVE  PoolInv'
<1> USE DEF Pool!Try, Pool!GoOn, Pool!blockVars, Pool!hintVars, PoolInv
<1>1. cur[t] \in Pool!Blocks /\ PoolControl(t)
  BY ControlInArena DEF PoolControl, Pool!Chain
<1>2. next[cur[t]] \in Pool!Blocks \cup {Pool!Null} /\ (path[t] = "other" => offset[t] < NumArenas)
  BY <1>1 DEF Pool!TypeOK, PoolControl
<1>3. Pool!TypeOK'
  <2>1. /\ poolPc \in [Threads -> Pool!Places] /\ path \in [Threads -> Pool!Paths]
        /\ cur \in [Threads -> Pool!Blocks \cup {Pool!Null}]
               /\ offset \in [Threads -> 0 .. NumArenas]
    BY DEF Pool!TypeOK
  <2>2. /\ poolPc' \in [Threads -> Pool!Places] /\ path' \in [Threads -> Pool!Paths]
        /\ cur' \in [Threads -> Pool!Blocks \cup {Pool!Null}]
    BY <1>2, <2>1 DEF Pool!NextPlace, Pool!Places
  <2>3. offset' \in [Threads -> 0 .. NumArenas]
    <3>1. path[t] = "other" => offset[t] + 1 \in 0 .. NumArenas
      BY <1>2, <2>1, PoolShape
    <3> QED
      BY <2>1, <3>1 DEF Pool!NextPlace
  <2> QED
    BY <2>2, <2>3 DEF Pool!TypeOK
<1>4. Elsewhere(t) /\ poolPc'[t] \in {"arena", "walk", "check", "reserve", "other"}
  BY DEF Pool!NextPlace, Elsewhere, Pool!TypeOK
<1>5. PoolControl(t)'
  <2>1. ASSUME poolPc'[t] = "check"
        PROVE  \E a \in Pool!Arenas :
                  /\ cur'[t] \in Pool!Chain(a)
                  /\ path'[t] # "other" => a = Pool!Arena(t)
                  /\ path'[t] = "other" => offset'[t] < NumArenas /\ a = Pool!OtherArena(t)'
    <3>1. /\ path[t] \in {"walk", "other"} /\ next[cur[t]] # Pool!Null /\ path'[t] = path[t]
          /\ cur'[t] = next[cur[t]] /\ offset' = offset
      BY <2>1 DEF Pool!NextPlace, Pool!TypeOK
    <3>2. Pool!Arena(t) \in Pool!Arenas /\ Pool!OtherArena(t) \in Pool!Arenas
      BY ControlInArena
    <3>3. Pool!OtherArena(t)' = Pool!OtherArena(t)
      BY <3>1 DEF Pool!OtherArena, Pool!Arena
    <3>4. /\ path[t] # "other" => cur[t] \in Pool!Chain(Pool!Arena(t))
          /\ path[t] = "other" => offset[t] < NumArenas /\ cur[t] \in Pool!Chain(Pool!OtherArena(t))
      BY <1>1 DEF PoolControl
    <3>5. \A a \in Pool!Arenas : \A c \in Pool!Chain(a) : next[c] \in Pool!Chain(a) \cup {Pool!Null}
      BY ListsFact, ChainLawsHold DEF ChainLaws
    <3> QED
      BY <3>1, <3>2, <3>3, <3>4, <3>5
  <2>2. poolPc[t] \in LookingPlaces \ {"idle"} /\ poolPc'[t] \in LookingPlaces
    BY <1>4 DEF LookingPlaces
  <2> QED
    BY <1>4, <2>1, <2>2, SearchControl
<1>6. totalBlocks' = totalBlocks + Holds(poolPc[t])' - Holds(poolPc[t])
  BY <1>4 DEF Holds, Pool!TypeOK
<1> QED
  BY <1>3, <1>4, <1>5, <1>6, Looking DEF LookingPlaces

LEMMA SkipInvariant == ASSUME PoolInv, NEW t \in Threads, Pool!Skip(t) PROVE PoolInv'
BY NextPlaceInvariant DEF Pool!Skip

LEMMA NoRunThereInvariant == ASSUME PoolInv, NEW t \in Threads, Pool!NoRunThere(t) PROVE PoolInv'
BY NextPlaceInvariant DEF Pool!NoRunThere

-----------------------------------------------------------------------------
(* Steps that take a run, count it, and give it to the caller. *)

LEMMA OthersControl ==
    ASSUME PoolInv, NEW t \in Threads, Elsewhere(t), PoolControl(t)',
           \A a \in Pool!Arenas : Pool!Chain(a) \subseteq Pool!Chain(a)',
           \A u \in Threads \ {t} :
              poolPc[u] = "link" => cur[u] \notin Pool!Linked' /\ home'[cur[u]] = home[cur[u]]
    PROVE  (\A u \in Threads : PoolControl(u))'
<1> SUFFICES ASSUME NEW u \in Threads PROVE PoolControl(u)'
  OBVIOUS
<1>1. ASSUME u # t PROVE PoolControl(u)'
  <2>1. UNCHANGED <<poolPc[u], path[u], cur[u], core[u], poolWant[u], offset[u], mine[u]>>
    BY <1>1 DEF Elsewhere
  <2>2. PoolControl(u) /\ Pool!TypeOK
    BY DEF PoolInv
  <2> QED
    BY <1>1, <2>1, <2>2, ControlKept
<1> QED
  BY <1>1

LEMMA InPlaceKept ==
    ASSUME PoolInv, NEW t \in Threads, Elsewhere(t), UNCHANGED <<upstream, totalBlocks>>,
           Pool!Linked' = Pool!Linked, poolPc[t] \notin {"upstream", "unreserve", "link",
               "destroyed"},
           poolPc'[t] \notin {"upstream", "unreserve", "link", "destroyed"}
    PROVE  InPlace'
<1>1. \A u \in Threads \ {t} : poolPc'[u] = poolPc[u] /\ cur'[u] = cur[u]
  BY DEF Elsewhere
<1>2. Pool!Linking' = Pool!Linking /\ Pool!Reserving' = Pool!Reserving
  BY <1>1 DEF Pool!Linking, Pool!Reserving
<1>3. /\ \A u \in Threads : poolPc[u] # "destroyed"
      /\ upstream = Pool!Linked \cup Pool!Linking
      /\ \A v, u \in Threads : v # u /\ poolPc[v] = "link" /\ poolPc[u] = "link" => cur[v] # cur[u]
      /\ totalBlocks = Cardinality(upstream) + Cardinality(Pool!Reserving)
  BY PoolSets DEF PoolInv, InPlace
<1>4. /\ \A u \in Threads : poolPc'[u] # "destroyed"
      /\ \A v, u \in Threads : v # u /\ poolPc'[v] = "link"
             /\ poolPc'[u] = "link" => cur'[v] # cur'[u]
  BY <1>1, <1>3
<1> QED
  BY <1>2, <1>3, <1>4, PoolSets DEF InPlace

\* The lists and hints stay, and so does what says where the blocks are.
LEMMA PlacesKept ==
    ASSUME PoolInv, UNCHANGED <<first, next, home, arenaHint, coreHint>>
    PROVE  /\ \A a \in Pool!Arenas : Pool!Chain(a)' = Pool!Chain(a)
           /\ Pool!Linked' = Pool!Linked /\ ChainsApart' /\ HintsInChains'
<1>1. (\A a \in Pool!Arenas : Pool!Chain(a)' = Pool!Chain(a)) /\ Pool!Linked' = Pool!Linked
  BY ListsKept
<1>2. ChainsApart' /\ HintsInChains'
  BY <1>1 DEF ChainsApart, HintsInChains, PoolInv
<1> QED
  BY <1>1, <1>2

LEMMA LinkedBlocks == Pool!Linked \subseteq Pool!Blocks
                          /\ \A a \in Pool!Arenas : Pool!Chain(a) \subseteq Pool!Linked
BY DEF Pool!Linked, Pool!Chain

LEMMA TakeInvariant == ASSUME PoolInv, NEW t \in Threads, Pool!Take(t) PROVE PoolInv'
<1>1. PICK at \in Pool!FreeRuns(cur[t], poolWant[t]) :
        /\ used' = [used EXCEPT ![cur[t]] = @ \cup Pool!Run(at, poolWant[t])]
        /\ mine' = [mine EXCEPT ![t] = [block |-> cur[t], at |-> at, n |-> poolWant[t]]]
  BY DEF Pool!Take
<1>2. /\ poolPc[t] = "take" /\ poolPc' = [poolPc EXCEPT ![t] = "count"]
      /\ UNCHANGED <<first, next, home, freeCount, upstream, totalBlocks, arenaHint, coreHint, live,
                     core, poolWant, offset, path, cur>>
  BY DEF Pool!Take, Pool!Goto, Pool!hintVars, Pool!callVars
<1>3. cur[t] \in Pool!Linked /\ poolWant[t] \in 1 .. Elements
  <2>1. Pool!Arena(t) \in Pool!Arenas /\ Pool!OtherArena(t) \in Pool!Arenas
    BY ControlInArena DEF PoolInv
  <2>2. poolWant[t] \in 0 .. Elements /\ PoolControl(t)
    BY DEF PoolInv, Pool!TypeOK
  <2> QED
    BY <1>2, <2>1, <2>2, PoolShape, LinkedBlocks DEF PoolControl
<1>4. /\ at \in Nat /\ at + poolWant[t] <= Elements
             /\ Pool!Run(at, poolWant[t]) \cap used[cur[t]] = {}
      /\ at \in 0 .. Elements - 1 /\ Pool!Run(at, poolWant[t]) \subseteq 0 .. Elements - 1
  BY <1>1, <1>3, PoolShape DEF Pool!FreeRuns, Pool!Run
<1>5. cur[t] \in Pool!Blocks /\ used[cur[t]] \in SUBSET (0 .. Elements - 1)
  BY <1>3, LinkedBlocks DEF PoolInv, Pool!TypeOK
<1> DEFINE r == [block |-> cur[t], at |-> at, n |-> poolWant[t]]
<1>6. r \in Pool!Runs /\ r.block = cur[t] /\ r.at = at /\ r.n = poolWant[t]
  BY <1>3, <1>4, <1>5 DEF Pool!Runs
<1>7. mine' = [mine EXCEPT ![t] = r]
  BY <1>1
<1> HIDE DEF r
<1>8. Pool!TypeOK'
  <2>1. used' \in [Pool!Blocks -> SUBSET (0 .. Elements - 1)]
    BY <1>1, <1>4, <1>5 DEF PoolInv, Pool!TypeOK
  <2> QED
    BY <1>2, <1>6, <1>7, <2>1 DEF PoolInv, Pool!TypeOK, Pool!Places
<1>9. Elsewhere(t) /\ poolPc'[t] = "count" /\ mine'[t] = r
  BY <1>2, <1>7 DEF Elsewhere, PoolInv, Pool!TypeOK
<1>10. /\ \A a \in Pool!Arenas : Pool!Chain(a)' = Pool!Chain(a)
       /\ Pool!Linked' = Pool!Linked /\ ChainsApart' /\ HintsInChains'
  BY <1>2, PlacesKept
<1>11. (\A u \in Threads : PoolControl(u))'
  <2>1. PoolControl(t)'
    <3>1. Pool!Arena(t) \in Pool!Arenas /\ Pool!OtherArena(t) \in Pool!Arenas
      BY ControlInArena DEF PoolInv
    <3>2. Pool!Arena(t)' = Pool!Arena(t) /\ Pool!OtherArena(t)' = Pool!OtherArena(t)
      BY <1>2 DEF Pool!Arena, Pool!OtherArena
    <3>3. Pool!Chain(Pool!Arena(t))' = Pool!Chain(Pool!Arena(t))
              /\ Pool!Chain(Pool!OtherArena(t))' = Pool!Chain(Pool!OtherArena(t))
      BY <1>10, <3>1, <3>2 DEF Pool!Chain
    <3>4. PoolControl(t)
      BY DEF PoolInv
    <3> QED
      BY <1>2, <1>6, <1>9, <3>3, <3>4 DEF PoolControl
  <2>2. \A u \in Threads : poolPc[u] = "link" => cur[u] \notin Pool!Linked'
            /\ home'[cur[u]] = home[cur[u]]
    BY <1>2, <1>10 DEF PoolInv, PoolControl
  <2> QED
    BY <1>9, <1>10, <2>1, <2>2, OthersControl
<1>12. InPlace'
  BY <1>2, <1>9, <1>10, InPlaceKept
<1>13. Lent'
  <2>1. /\ Got' = Got \cup {t} /\ t \notin Got
        /\ \A u \in Got : cur'[u] = cur[u] /\ mine'[u] = mine[u]
    BY <1>2, <1>9 DEF Got, Elsewhere
  <2>2. Bits(mine[t])' = Pool!Run(at, poolWant[t]) /\ cur'[t] = cur[t]
    BY <1>2, <1>6, <1>9 DEF Bits
  <2>3. \A b \in Pool!Blocks : used'[b] = IF b = cur[t] THEN used[b] \cup Pool!Run(at,
            poolWant[t]) ELSE used[b]
    BY <1>1 DEF PoolInv, Pool!TypeOK
  <2>4. /\ \A q \in live : q.block \in Pool!Linked /\ q.block \in Pool!Blocks
               /\ Bits(q) \subseteq used[q.block]
        /\ \A u \in Got : cur[u] \in Pool!Blocks /\ Bits(mine[u]) \subseteq used[cur[u]]
        /\ \A p, q \in live : p # q /\ p.block = q.block => Bits(p) \cap Bits(q) = {}
        /\ \A q \in live, u \in Got : q.block = cur[u] => Bits(q) \cap Bits(mine[u]) = {}
        /\ \A v, u \in Got : v # u /\ cur[v] = cur[u] => Bits(mine[v]) \cap Bits(mine[u]) = {}
    <3>1. Lent
      BY DEF PoolInv
    <3>2. \A u \in Got : cur[u] \in Pool!Blocks
      <4>1. \A u \in Got : mine[u] \in Pool!Runs /\ mine[u].block = cur[u]
        BY DEF PoolInv, PoolControl, Got
      <4> QED
        BY <4>1 DEF Pool!Runs
    <3> QED
      BY <3>1, <3>2, LinkedBlocks DEF Lent
  <2> DEFINE X == Pool!Run(at, poolWant[t])
  <2>5. X \cap used[cur[t]] = {}
    BY <1>4
  <2> HIDE DEF X
  <2>6. Bits(mine[t])' = X /\ \A u \in Got : Bits(mine[u])' = Bits(mine[u])
    BY <2>1, <2>2 DEF Bits, X
  <2>7. \A b \in Pool!Blocks : used'[b] = IF b = cur[t] THEN used[b] \cup X ELSE used[b]
    BY <2>3 DEF X
  <2>8. \A q \in live : q.block = cur[t] => Bits(q) \cap X = {}
    BY <2>4, <2>5
  <2>9. \A u \in Got : cur[u] = cur[t] => Bits(mine[u]) \cap X = {}
    BY <2>4, <2>5
  <2>10. \A q \in live : q.block \in Pool!Linked' /\ Bits(q) \subseteq used'[q.block]
    BY <1>10, <2>4, <2>7
  <2>11. \A u \in Got' : Bits(mine[u])' \subseteq used'[cur'[u]]
    <3>1. ASSUME NEW u \in Got PROVE Bits(mine[u])' \subseteq used'[cur'[u]]
      BY <2>1, <2>4, <2>6, <2>7
    <3>2. Bits(mine[t])' \subseteq used'[cur'[t]]
      BY <1>5, <2>2, <2>6, <2>7
    <3> QED
      BY <2>1, <3>1, <3>2
  <2>12. \A q \in live, u \in Got' : q.block = cur'[u] => Bits(q) \cap Bits(mine[u])' = {}
    BY <2>1, <2>2, <2>4, <2>6, <2>8
  <2>13. \A v, u \in Got' : v # u /\ cur'[v] = cur'[u] => Bits(mine[v])' \cap Bits(mine[u])' = {}
    BY <2>1, <2>2, <2>4, <2>6, <2>9
  <2> QED
    BY <1>2, <2>4, <2>10, <2>11, <2>12, <2>13 DEF Lent, Bits
<1>14. Pool!CountBalances'
  <2>1. \A u \in Threads \ {t} : poolPc'[u] = poolPc[u] /\ mine'[u] = mine[u]
    BY <1>9 DEF Elsewhere
  <2>2. ASSUME NEW b \in Pool!Blocks
        PROVE  freeCount'[b] = (Elements - Cardinality(used'[b]) + Pool!InHand(b, "count")'
                                  - Pool!InHand(b, "freeCount")') % CountModulus
    <3>1. "count" \in Pool!Places /\ "freeCount" \in Pool!Places
      BY DEF Pool!Places
    <3>2. Pool!InHand(b, "freeCount")' = Pool!InHand(b, "freeCount")
      BY <1>2, <1>9, <2>1, <3>1, HandKept
    <3>3. freeCount'[b] = (Elements - Cardinality(used[b]) + Pool!InHand(b, "count")
                                  - Pool!InHand(b, "freeCount")) % CountModulus
      BY <1>2, PoolSets DEF PoolInv, Pool!CountBalances
    <3>4. CASE b # cur[t]
      <4>1. Pool!InHand(b, "count")' = Pool!InHand(b, "count")
        BY <1>2, <1>6, <1>9, <2>1, <3>1, <3>4, HandKept
      <4>2. used'[b] = used[b]
        BY <1>1, <3>4 DEF PoolInv, Pool!TypeOK
      <4> QED
        BY <3>2, <3>3, <4>1, <4>2
    <3>5. CASE b = cur[t]
      <4>1. Pool!InHand(b, "count")' = Pool!InHand(b, "count") + poolWant[t]
        BY <1>2, <1>3, <1>6, <1>9, <2>1, <3>1, <3>5, HandGrows
      <4>2. used'[b] = used[b] \cup Pool!Run(at, poolWant[t])
                /\ used[b] \cap Pool!Run(at, poolWant[t]) = {}
        BY <1>1, <1>4, <3>5 DEF PoolInv, Pool!TypeOK
      <4>3. Cardinality(used'[b]) = Cardinality(used[b]) + poolWant[t]
                /\ Cardinality(used[b]) \in Nat
        <5> DEFINE U == used[b]
                   R == Pool!Run(at, poolWant[t])
        <5>1. IsFiniteSet(0 .. Elements - 1)
          BY PoolShape, FS_Interval
        <5>2. IsFiniteSet(U) /\ Cardinality(U) \in Nat
          BY <1>5, <3>5, <5>1, FS_Subset, FS_CardinalityType
        <5>3. IsFiniteSet(R) /\ Cardinality(R) = poolWant[t]
          BY <1>3, <1>4, RunSize
        <5>4. U \cap R = {}
          BY <4>2
        <5> HIDE DEF U, R
        <5>5. Cardinality(U \cup R) = Cardinality(U) + Cardinality(R) - Cardinality(U \cap R)
          BY <5>2, <5>3, FS_Union
        <5>6. Cardinality(U \cap R) = 0
          BY <5>4, FS_EmptySet
        <5>7. Cardinality(U \cup R) = Cardinality(U) + poolWant[t]
          BY <1>3, <5>2, <5>3, <5>5, <5>6
        <5> QED
          BY <4>2, <5>2, <5>7 DEF U, R
      <4>4. Pool!InHand(b, "count") \in Nat /\ Pool!InHand(b, "freeCount") \in Nat
        BY HandIsNatural
      <4>5. Elements - Cardinality(used'[b]) + Pool!InHand(b, "count")' - Pool!InHand(b,
                "freeCount")'
              = Elements - Cardinality(used[b]) + Pool!InHand(b, "count") - Pool!InHand(b,
                  "freeCount")
        BY <1>3, <3>2, <4>1, <4>3, <4>4, PoolShape
      <4> QED
        BY <3>3, <4>5
    <3> QED
      BY <3>4, <3>5
  <2> QED
    BY <2>2, PoolSets DEF Pool!CountBalances
<1> QED
  BY <1>8, <1>10, <1>11, <1>12, <1>13, <1>14 DEF PoolInv

\* The block of a run that a thread has.
LEMMA GotFacts ==
    ASSUME PoolInv, NEW t \in Threads, poolPc[t] \in {"count", "finalize"}
    PROVE  /\ mine[t] \in Pool!Runs /\ mine[t].block = cur[t] /\ mine[t].n \in 1 .. Elements
           /\ cur[t] \in Pool!Linked /\ cur[t] \in Pool!Blocks
<1>1. Pool!Arena(t) \in Pool!Arenas /\ Pool!OtherArena(t) \in Pool!Arenas
  BY ControlInArena DEF PoolInv
<1>2. mine[t] \in Pool!Runs /\ mine[t].block = cur[t] /\ cur[t] \in Pool!Linked
  BY <1>1, LinkedBlocks DEF PoolInv, PoolControl
<1> QED
  BY <1>2, LinkedBlocks DEF Pool!Runs

\* The knowledge of a call outlasts a step of its own that stays on its way.
LEMMA WayKept ==
    ASSUME PoolInv, NEW t \in Threads, UNCHANGED <<core, offset, path, cur>>,
           \A a \in Pool!Arenas : Pool!Chain(a)' = Pool!Chain(a), poolPc[t] \in {"check",
               "take", "count", "finalize"}
    PROVE  /\ path'[t] # "other" => cur'[t] \in Pool!Chain(Pool!Arena(t))'
           /\ path'[t] = "other" => offset'[t] < NumArenas
                  /\ cur'[t] \in Pool!Chain(Pool!OtherArena(t))'
<1>1. Pool!Arena(t) \in Pool!Arenas /\ Pool!OtherArena(t) \in Pool!Arenas
  BY ControlInArena DEF PoolInv
<1>2. Pool!Arena(t)' = Pool!Arena(t) /\ Pool!OtherArena(t)' = Pool!OtherArena(t)
  BY DEF Pool!Arena, Pool!OtherArena
<1>3. Pool!Chain(Pool!Arena(t))' = Pool!Chain(Pool!Arena(t))
          /\ Pool!Chain(Pool!OtherArena(t))' = Pool!Chain(Pool!OtherArena(t))
  BY <1>1, <1>2 DEF Pool!Chain
<1>4. PoolControl(t)
  BY DEF PoolInv
<1> QED
  BY <1>3, <1>4 DEF PoolControl

LEMMA CountDownInvariant == ASSUME PoolInv, NEW t \in Threads, Pool!CountDown(t) PROVE PoolInv'
<1>1. /\ poolPc[t] = "count" /\ poolPc' = [poolPc EXCEPT ![t] = "finalize"]
      /\ freeCount' = [freeCount EXCEPT ![cur[t]] = (@ - poolWant[t]) % CountModulus]
      /\ UNCHANGED <<first, next, home, used, upstream, totalBlocks, arenaHint, coreHint, live,
                     core, poolWant, offset, path, cur, mine>>
  BY DEF Pool!CountDown, Pool!Goto, Pool!hintVars, Pool!callVars, Pool!CountLess
<1>2. /\ mine[t] \in Pool!Runs /\ mine[t].block = cur[t] /\ mine[t].n \in 1 .. Elements
      /\ cur[t] \in Pool!Linked /\ cur[t] \in Pool!Blocks /\ mine[t].n = poolWant[t]
  BY <1>1, GotFacts DEF PoolInv, PoolControl
<1>3. freeCount[cur[t]] \in 0 .. CountModulus - 1 /\ poolWant[t] \in Nat
  BY <1>2, PoolShape DEF PoolInv, Pool!TypeOK
<1>4. Pool!TypeOK'
  <2>1. (freeCount[cur[t]] - poolWant[t]) % CountModulus \in 0 .. CountModulus - 1
    BY <1>3, PoolShape
  <2> QED
    BY <1>1, <1>2, <2>1 DEF PoolInv, Pool!TypeOK, Pool!Places
<1>5. Elsewhere(t) /\ poolPc'[t] = "finalize"
  BY <1>1 DEF Elsewhere, PoolInv, Pool!TypeOK
<1>6. /\ \A a \in Pool!Arenas : Pool!Chain(a)' = Pool!Chain(a)
      /\ Pool!Linked' = Pool!Linked /\ ChainsApart' /\ HintsInChains'
  BY <1>1, PlacesKept
<1>7. (\A u \in Threads : PoolControl(u))'
  <2>1. PoolControl(t)'
    BY <1>1, <1>2, <1>5, <1>6, WayKept DEF PoolControl
  <2>2. \A u \in Threads : poolPc[u] = "link" => cur[u] \notin Pool!Linked'
            /\ home'[cur[u]] = home[cur[u]]
    BY <1>1, <1>6 DEF PoolInv, PoolControl
  <2> QED
    BY <1>5, <1>6, <2>1, <2>2, OthersControl
<1>8. InPlace'
  BY <1>1, <1>5, <1>6, InPlaceKept
<1>9. Lent'
  <2>1. Got' = Got /\ \A u \in Got : cur'[u] = cur[u] /\ mine'[u] = mine[u]
    BY <1>1, <1>5 DEF Got, Elsewhere
  <2> QED
    BY <1>1, <1>6, <2>1, LentKept DEF PoolInv
<1>10. Pool!CountBalances'
  <2>1. \A u \in Threads \ {t} : poolPc'[u] = poolPc[u] /\ mine'[u] = mine[u]
    BY <1>5 DEF Elsewhere
  <2>2. ASSUME NEW b \in Pool!Blocks
        PROVE  freeCount'[b] = (Elements - Cardinality(used'[b]) + Pool!InHand(b, "count")'
                                  - Pool!InHand(b, "freeCount")') % CountModulus
    <3>1. "count" \in Pool!Places /\ "freeCount" \in Pool!Places
      BY DEF Pool!Places
    <3>2. Pool!InHand(b, "freeCount")' = Pool!InHand(b, "freeCount")
      BY <1>1, <1>5, <2>1, <3>1, HandKept
    <3>3. freeCount[b] = (Elements - Cardinality(used[b]) + Pool!InHand(b, "count")
                                  - Pool!InHand(b, "freeCount")) % CountModulus
      BY PoolSets DEF PoolInv, Pool!CountBalances
    <3>4. CASE b # cur[t]
      <4>1. Pool!InHand(b, "count")' = Pool!InHand(b, "count")
        BY <1>1, <1>2, <1>5, <2>1, <3>1, <3>4, HandKept
      <4>2. freeCount'[b] = freeCount[b]
        BY <1>1, <3>4 DEF PoolInv, Pool!TypeOK
      <4> QED
        BY <1>1, <3>2, <3>3, <4>1, <4>2
    <3>5. CASE b = cur[t]
      <4>1. Pool!InHand(b, "count")' = Pool!InHand(b, "count") - poolWant[t]
        BY <1>1, <1>2, <1>5, <2>1, <3>1, <3>5, HandShrinks
      <4>2. freeCount'[b] = (freeCount[b] - poolWant[t]) % CountModulus
        BY <1>1, <3>5 DEF PoolInv, Pool!TypeOK
      <4>3. /\ Pool!InHand(b, "count") \in Nat /\ Pool!InHand(b, "freeCount") \in Nat
            /\ Cardinality(used[b]) \in Nat
        BY HandIsNatural, UsedFinite DEF PoolInv
      <4> DEFINE x == Elements - Cardinality(used[b]) + Pool!InHand(b, "count") - Pool!InHand(b,
              "freeCount")
                 y == - poolWant[t]
      <4>4. x \in Int /\ y \in Int /\ CountModulus \in Nat /\ CountModulus > 0
        BY <1>3, <4>3, PoolShape
      <4>5. Elements - Cardinality(used'[b]) + Pool!InHand(b, "count")' - Pool!InHand(b,
                "freeCount")' = x + y
        BY <1>1, <1>3, <3>2, <4>1, <4>3, PoolShape
      <4>6. freeCount[b] = x % CountModulus /\ freeCount[b] - poolWant[t] = (x % CountModulus) + y
        BY <1>3, <3>3, <3>5
      <4> HIDE DEF x, y
      <4>7. ((x % CountModulus) + y) % CountModulus = (x + y) % CountModulus
        BY <4>4, ModuloSum
      <4> QED
        BY <4>2, <4>5, <4>6, <4>7
    <3> QED
      BY <3>4, <3>5
  <2> QED
    BY <2>2, PoolSets DEF Pool!CountBalances
<1> QED
  BY <1>4, <1>6, <1>7, <1>8, <1>9, <1>10 DEF PoolInv

LEMMA FinalizeInvariant == ASSUME PoolInv, NEW t \in Threads, Pool!Finalize(t) PROVE PoolInv'
<1>1. /\ poolPc[t] = "finalize" /\ Pool!Return(t)
      /\ arenaHint' = CASE path[t] \in {"core",
             "walk"} -> [arenaHint EXCEPT ![Pool!Arena(t)] = cur[t]]
                        [] path[t] = "other" -> [arenaHint EXCEPT ![Pool!OtherArena(t)] = cur[t]]
                        [] OTHER -> arenaHint
      /\ coreHint' = IF path[t] = "core" THEN coreHint
                                         ELSE [coreHint EXCEPT ![Pool!HintSlot(t)] = cur[t]]
      /\ live' = live \cup {mine[t]}
      /\ UNCHANGED <<first, next, home, used, freeCount, upstream, totalBlocks>>
  BY DEF Pool!Finalize, Pool!blockVars
<1>2. /\ mine[t] \in Pool!Runs /\ mine[t].block = cur[t] /\ cur[t] \in Pool!Linked
             /\ cur[t] \in Pool!Blocks
  BY <1>1, GotFacts
<1>3. /\ Pool!Arena(t) \in Pool!Arenas /\ Pool!OtherArena(t) \in Pool!Arenas
             /\ Pool!HintSlot(t) \in Pool!HintSlots
      /\ path[t] # "other" => cur[t] \in Pool!Chain(Pool!Arena(t))
      /\ path[t] = "other" => cur[t] \in Pool!Chain(Pool!OtherArena(t))
  <2>1. Pool!HintSlot(t) \in Pool!HintSlots
    BY PoolShape DEF PoolInv, Pool!TypeOK, Pool!HintSlot, Pool!HintSlots
  <2> QED
    BY <1>1, <2>1, ControlInArena DEF PoolInv, PoolControl
<1>4. Pool!TypeOK'
  <2>1. arenaHint' \in [Pool!Arenas -> Pool!Blocks \cup {Pool!Null}]
            /\ coreHint' \in [Pool!HintSlots -> Pool!Blocks \cup {Pool!Null}]
    BY <1>1, <1>2, <1>3 DEF PoolInv, Pool!TypeOK
  <2> QED
    BY <1>1, <1>2, <2>1, PoolShape DEF PoolInv, Pool!TypeOK, Pool!Return, Pool!Places, Pool!Paths
<1>5. Elsewhere(t) /\ poolPc'[t] = "idle"
  BY <1>1 DEF Elsewhere, PoolInv, Pool!TypeOK, Pool!Return
<1>6. (\A a \in Pool!Arenas : Pool!Chain(a)' = Pool!Chain(a)) /\ Pool!Linked' = Pool!Linked
  BY <1>1, ListsKept
<1>7. ChainsApart'
  BY <1>1, <1>6 DEF ChainsApart, PoolInv
<1>8. HintsInChains'
  <2>1. ASSUME NEW a \in Pool!Arenas PROVE arenaHint'[a] \in Pool!Chain(a) \cup {Pool!Null}
    <3>1. arenaHint[a] \in Pool!Chain(a) \cup {Pool!Null}
              /\ arenaHint \in [Pool!Arenas -> Pool!Blocks \cup {Pool!Null}]
      BY DEF PoolInv, HintsInChains, Pool!TypeOK
    <3> QED
      BY <1>1, <1>3, <3>1
  <2>2. ASSUME NEW h \in Pool!HintSlots PROVE coreHint'[h] \in Pool!Linked \cup {Pool!Null}
    <3>1. coreHint[h] \in Pool!Linked \cup {Pool!Null}
              /\ coreHint \in [Pool!HintSlots -> Pool!Blocks \cup {Pool!Null}]
      BY DEF PoolInv, HintsInChains, Pool!TypeOK
    <3> QED
      BY <1>1, <1>2, <1>3, <3>1
  <2> QED
    BY <1>6, <2>1, <2>2 DEF HintsInChains
<1>9. (\A u \in Threads : PoolControl(u))'
  <2>1. PoolControl(t)'
    BY <1>5 DEF PoolControl
  <2>2. \A u \in Threads : poolPc[u] = "link" => cur[u] \notin Pool!Linked'
            /\ home'[cur[u]] = home[cur[u]]
    BY <1>1, <1>6 DEF PoolInv, PoolControl
  <2> QED
    BY <1>5, <1>6, <2>1, <2>2, OthersControl
<1>10. InPlace'
  BY <1>1, <1>5, <1>6, InPlaceKept
<1>11. Lent'
  <2>1. /\ Got' = Got \ {t} /\ t \in Got
        /\ \A u \in Got' : cur'[u] = cur[u] /\ mine'[u] = mine[u]
    BY <1>1, <1>5 DEF Got, Elsewhere
  <2>2. Lent
    BY DEF PoolInv
  <2>3. \A r \in live' : r.block \in Pool!Linked' /\ Bits(r) \subseteq used'[r.block]
    BY <1>1, <1>2, <1>6, <2>1, <2>2 DEF Lent
  <2>4. \A u \in Got' : Bits(mine[u])' \subseteq used'[cur'[u]]
    BY <1>1, <2>1, <2>2 DEF Lent, Bits
  <2>5. \A r, q \in live' : r # q /\ r.block = q.block => Bits(r) \cap Bits(q) = {}
    <3>1. \A r \in live : r.block = mine[t].block => Bits(r) \cap Bits(mine[t]) = {}
      BY <1>2, <2>1, <2>2 DEF Lent
    <3> QED
      BY <1>1, <2>2, <3>1 DEF Lent
  <2>6. \A r \in live', u \in Got' : r.block = cur'[u] => Bits(r) \cap Bits(mine[u])' = {}
    <3>1. \A u \in Got' : u \in Got /\ u # t /\ Bits(mine[u])' = Bits(mine[u]) /\ cur'[u] = cur[u]
      BY <2>1 DEF Bits
    <3>2. \A u \in Got' : mine[t].block = cur[u] => Bits(mine[t]) \cap Bits(mine[u]) = {}
      BY <1>2, <2>1, <2>2, <3>1 DEF Lent
    <3> QED
      BY <1>1, <2>2, <3>1, <3>2 DEF Lent
  <2>7. \A v, u \in Got' : v # u /\ cur'[v] = cur'[u] => Bits(mine[v])' \cap Bits(mine[u])' = {}
    BY <2>1, <2>2 DEF Lent, Bits
  <2> QED
    BY <2>3, <2>4, <2>5, <2>6, <2>7 DEF Lent, Bits
<1>12. Pool!CountBalances'
  <2>1. \A u \in Threads \ {t} : poolPc'[u] = poolPc[u] /\ mine'[u] = mine[u]
    BY <1>5 DEF Elsewhere
  <2>2. "count" \in Pool!Places /\ "freeCount" \in Pool!Places
    BY DEF Pool!Places
  <2>3. \A b \in Pool!Blocks : /\ Pool!InHand(b, "count")' = Pool!InHand(b, "count")
                         /\ Pool!InHand(b, "freeCount")' = Pool!InHand(b, "freeCount")
    BY <1>1, <1>5, <2>1, <2>2, HandKept
  <2> QED
    BY <1>1, <2>3, BalanceKept DEF PoolInv
<1> QED
  BY <1>4, <1>7, <1>8, <1>9, <1>10, <1>11, <1>12 DEF PoolInv

-----------------------------------------------------------------------------
(* Steps of do_deallocate. *)

LEMMA FreeBeginInvariant == ASSUME PoolInv, NEW t \in Threads, Pool!FreeBegin(t) PROVE PoolInv'
<1>1. /\ poolPc[t] = "idle" /\ poolPc' = [poolPc EXCEPT ![t] = "freeCount"]
      /\ UNCHANGED <<first, next, home, freeCount, upstream, totalBlocks, arenaHint, coreHint,
                     poolWant, offset, path, cur>>
  BY DEF Pool!FreeBegin, Pool!Goto, Pool!hintVars
<1>2. PICK c \in Cores : core' = [core EXCEPT ![t] = c]
  BY DEF Pool!FreeBegin
<1>3. PICK r \in live : /\ live' = live \ {r} /\ mine' = [mine EXCEPT ![t] = r]
                        /\ used' = [used EXCEPT ![r.block] = @ \ Pool!Run(r.at, r.n)]
  BY DEF Pool!FreeBegin
<1>4. /\ r \in Pool!Runs /\ r.block \in Pool!Linked /\ r.block \in Pool!Blocks
             /\ r.at \in Nat /\ r.n \in 1 .. Elements
      /\ Bits(r) \subseteq used[r.block] /\ Bits(r) = Pool!Run(r.at, r.n)
  BY PoolShape DEF PoolInv, Pool!TypeOK, Lent, Pool!Runs, Bits
<1>5. Pool!TypeOK'
  <2>1. used' \in [Pool!Blocks -> SUBSET (0 .. Elements - 1)]
    BY <1>3, <1>4 DEF PoolInv, Pool!TypeOK
  <2>2. core' \in [Threads -> Nat]
    BY <1>2, PoolShape DEF PoolInv, Pool!TypeOK
  <2> QED
    BY <1>1, <1>3, <1>4, <2>1, <2>2 DEF PoolInv, Pool!TypeOK, Pool!Places
<1>6. Elsewhere(t) /\ poolPc'[t] = "freeCount" /\ mine'[t] = r
  BY <1>1, <1>2, <1>3 DEF Elsewhere, PoolInv, Pool!TypeOK
<1>7. /\ \A a \in Pool!Arenas : Pool!Chain(a)' = Pool!Chain(a)
      /\ Pool!Linked' = Pool!Linked /\ ChainsApart' /\ HintsInChains'
  BY <1>1, PlacesKept
<1>8. (\A u \in Threads : PoolControl(u))'
  <2>1. PoolControl(t)'
    BY <1>4, <1>6, <1>7 DEF PoolControl
  <2>2. \A u \in Threads : poolPc[u] = "link" => cur[u] \notin Pool!Linked'
            /\ home'[cur[u]] = home[cur[u]]
    BY <1>1, <1>7 DEF PoolInv, PoolControl
  <2> QED
    BY <1>6, <1>7, <2>1, <2>2, OthersControl
<1>9. InPlace'
  BY <1>1, <1>6, <1>7, InPlaceKept
<1>10. Lent'
  <2>1. /\ Got' = Got
        /\ \A u \in Got : cur'[u] = cur[u] /\ mine'[u] = mine[u] /\ cur[u] \in Pool!Blocks
    BY <1>1, <1>6, GotFacts DEF Got, Elsewhere
  <2>2. Lent
    BY DEF PoolInv
  <2>3. \A b \in Pool!Blocks : used'[b] = IF b = r.block THEN used[b] \ Bits(r) ELSE used[b]
    BY <1>3, <1>4 DEF PoolInv, Pool!TypeOK
  <2>4. \A q \in live' : q.block \in Pool!Linked' /\ Bits(q) \subseteq used'[q.block]
    <3>1. \A q \in live' : /\ q \in live /\ q # r /\ q.block \in Pool!Linked
              /\ q.block \in Pool!Blocks
                            /\ Bits(q) \subseteq used[q.block]
      BY <1>3, <2>2, LinkedBlocks DEF Lent
    <3>2. \A q \in live' : q.block = r.block => Bits(q) \cap Bits(r) = {}
      BY <2>2, <3>1 DEF Lent
    <3> QED
      BY <1>7, <2>3, <3>1, <3>2
  <2>5. \A u \in Got' : Bits(mine[u])' \subseteq used'[cur'[u]]
    <3>1. \A u \in Got : Bits(mine[u])' = Bits(mine[u]) /\ Bits(mine[u]) \subseteq used[cur[u]]
      BY <2>1, <2>2 DEF Lent, Bits
    <3>2. \A u \in Got : r.block = cur[u] => Bits(r) \cap Bits(mine[u]) = {}
      BY <2>2 DEF Lent
    <3> QED
      BY <2>1, <2>3, <3>1, <3>2
  <2>6. \A p, q \in live' : p # q /\ p.block = q.block => Bits(p) \cap Bits(q) = {}
    BY <1>3, <2>2 DEF Lent
  <2>7. \A q \in live', u \in Got' : q.block = cur'[u] => Bits(q) \cap Bits(mine[u])' = {}
    BY <1>3, <2>1, <2>2 DEF Lent, Bits
  <2>8. \A v, u \in Got' : v # u /\ cur'[v] = cur'[u] => Bits(mine[v])' \cap Bits(mine[u])' = {}
    BY <2>1, <2>2 DEF Lent, Bits
  <2> QED
    BY <2>4, <2>5, <2>6, <2>7, <2>8 DEF Lent, Bits
<1>11. Pool!CountBalances'
  <2>1. \A u \in Threads \ {t} : poolPc'[u] = poolPc[u] /\ mine'[u] = mine[u]
    BY <1>6 DEF Elsewhere
  <2>2. ASSUME NEW b \in Pool!Blocks
        PROVE  freeCount'[b] = (Elements - Cardinality(used'[b]) + Pool!InHand(b, "count")'
                                  - Pool!InHand(b, "freeCount")') % CountModulus
    <3>1. "count" \in Pool!Places /\ "freeCount" \in Pool!Places
      BY DEF Pool!Places
    <3>2. Pool!InHand(b, "count")' = Pool!InHand(b, "count")
      BY <1>1, <1>6, <2>1, <3>1, HandKept
    <3>3. freeCount'[b] = (Elements - Cardinality(used[b]) + Pool!InHand(b, "count")
                                  - Pool!InHand(b, "freeCount")) % CountModulus
      BY <1>1, PoolSets DEF PoolInv, Pool!CountBalances
    <3>4. CASE b # r.block
      <4>1. Pool!InHand(b, "freeCount")' = Pool!InHand(b, "freeCount")
        BY <1>1, <1>6, <2>1, <3>1, <3>4, HandKept
      <4>2. used'[b] = used[b]
        BY <1>3, <3>4 DEF PoolInv, Pool!TypeOK
      <4> QED
        BY <3>2, <3>3, <4>1, <4>2
    <3>5. CASE b = r.block
      <4>1. Pool!InHand(b, "freeCount")' = Pool!InHand(b, "freeCount") + r.n
        BY <1>1, <1>4, <1>6, <2>1, <3>1, <3>5, HandGrows
      <4>2. used'[b] = used[b] \ Pool!Run(r.at, r.n) /\ Pool!Run(r.at, r.n) \subseteq used[b]
        BY <1>3, <1>4, <3>5 DEF PoolInv, Pool!TypeOK
      <4>3. Cardinality(used'[b]) = Cardinality(used[b]) - r.n /\ Cardinality(used[b]) \in Nat
        <5> DEFINE U == used[b]
                   R == Pool!Run(r.at, r.n)
        <5>1. IsFiniteSet(U) /\ Cardinality(U) \in Nat
          BY UsedFinite DEF PoolInv
        <5>2. IsFiniteSet(R) /\ Cardinality(R) = r.n
          BY <1>4, RunSize
        <5>3. U \cap R = R
          BY <4>2
        <5> HIDE DEF U, R
        <5>4. Cardinality(U \ R) = Cardinality(U) - Cardinality(U \cap R)
          BY <5>1, FS_Difference
        <5>5. Cardinality(U \ R) = Cardinality(U) - r.n
          BY <5>2, <5>3, <5>4
        <5> QED
          BY <4>2, <5>1, <5>5 DEF U, R
      <4>4. Pool!InHand(b, "count") \in Nat /\ Pool!InHand(b, "freeCount") \in Nat
        BY HandIsNatural
      <4>5. Elements - Cardinality(used'[b]) + Pool!InHand(b, "count")' - Pool!InHand(b,
                "freeCount")'
              = Elements - Cardinality(used[b]) + Pool!InHand(b, "count") - Pool!InHand(b,
                  "freeCount")
        BY <1>4, <3>2, <4>1, <4>3, <4>4, PoolShape
      <4> QED
        BY <3>3, <4>5
    <3> QED
      BY <3>4, <3>5
  <2> QED
    BY <2>2, PoolSets DEF Pool!CountBalances
<1> QED
  BY <1>5, <1>7, <1>8, <1>9, <1>10, <1>11 DEF PoolInv

LEMMA CountUpInvariant == ASSUME PoolInv, NEW t \in Threads, Pool!CountUp(t) PROVE PoolInv'
<1> DEFINE r == mine[t]
<1>1. /\ poolPc[t] = "freeCount" /\ poolPc' = [poolPc EXCEPT ![t] = "freeHints"]
      /\ freeCount' = [freeCount EXCEPT ![r.block] = (@ + r.n) % CountModulus]
      /\ UNCHANGED <<first, next, home, used, upstream, totalBlocks, arenaHint, coreHint, live,
                     core, poolWant, offset, path, cur, mine>>
  BY DEF Pool!CountUp, Pool!Goto, Pool!hintVars, Pool!callVars
<1>2. r \in Pool!Runs /\ r.block \in Pool!Linked /\ r.block \in Pool!Blocks
          /\ r.n \in 1 .. Elements /\ r.n \in Nat
  <2>1. r \in Pool!Runs /\ r.block \in Pool!Linked
    BY <1>1 DEF PoolInv, PoolControl
  <2> QED
    BY <2>1, LinkedBlocks, PoolShape DEF Pool!Runs
<1>3. freeCount[r.block] \in 0 .. CountModulus - 1
  BY <1>2 DEF PoolInv, Pool!TypeOK
<1>4. Pool!TypeOK'
  <2>1. (freeCount[r.block] + r.n) % CountModulus \in 0 .. CountModulus - 1
    BY <1>2, <1>3, PoolShape
  <2> QED
    BY <1>1, <1>2, <2>1 DEF PoolInv, Pool!TypeOK, Pool!Places
<1>5. Elsewhere(t) /\ poolPc'[t] = "freeHints"
  BY <1>1 DEF Elsewhere, PoolInv, Pool!TypeOK
<1>6. /\ \A a \in Pool!Arenas : Pool!Chain(a)' = Pool!Chain(a)
      /\ Pool!Linked' = Pool!Linked /\ ChainsApart' /\ HintsInChains'
  BY <1>1, PlacesKept
<1>7. (\A u \in Threads : PoolControl(u))'
  <2>1. PoolControl(t)'
    BY <1>1, <1>2, <1>5, <1>6 DEF PoolControl
  <2>2. \A u \in Threads : poolPc[u] = "link" => cur[u] \notin Pool!Linked'
            /\ home'[cur[u]] = home[cur[u]]
    BY <1>1, <1>6 DEF PoolInv, PoolControl
  <2> QED
    BY <1>5, <1>6, <2>1, <2>2, OthersControl
<1>8. InPlace'
  BY <1>1, <1>5, <1>6, InPlaceKept
<1>9. Lent'
  <2>1. Got' = Got /\ \A u \in Got : cur'[u] = cur[u] /\ mine'[u] = mine[u]
    BY <1>1, <1>5 DEF Got, Elsewhere
  <2> QED
    BY <1>1, <1>6, <2>1, LentKept DEF PoolInv
<1>10. Pool!CountBalances'
  <2>1. \A u \in Threads \ {t} : poolPc'[u] = poolPc[u] /\ mine'[u] = mine[u]
    BY <1>5 DEF Elsewhere
  <2>2. ASSUME NEW b \in Pool!Blocks
        PROVE  freeCount'[b] = (Elements - Cardinality(used'[b]) + Pool!InHand(b, "count")'
                                  - Pool!InHand(b, "freeCount")') % CountModulus
    <3>1. "count" \in Pool!Places /\ "freeCount" \in Pool!Places
      BY DEF Pool!Places
    <3>2. Pool!InHand(b, "count")' = Pool!InHand(b, "count")
      BY <1>1, <1>5, <2>1, <3>1, HandKept
    <3>3. freeCount[b] = (Elements - Cardinality(used[b]) + Pool!InHand(b, "count")
                                  - Pool!InHand(b, "freeCount")) % CountModulus
      BY PoolSets DEF PoolInv, Pool!CountBalances
    <3>4. CASE b # r.block
      <4>1. Pool!InHand(b, "freeCount")' = Pool!InHand(b, "freeCount")
        BY <1>1, <1>5, <2>1, <3>1, <3>4, HandKept
      <4>2. freeCount'[b] = freeCount[b]
        BY <1>1, <3>4 DEF PoolInv, Pool!TypeOK
      <4> QED
        BY <1>1, <3>2, <3>3, <4>1, <4>2
    <3>5. CASE b = r.block
      <4>1. Pool!InHand(b, "freeCount")' = Pool!InHand(b, "freeCount") - r.n
        BY <1>1, <1>2, <1>5, <2>1, <3>1, <3>5, HandShrinks
      <4>2. freeCount'[b] = (freeCount[b] + r.n) % CountModulus
        BY <1>1, <3>5 DEF PoolInv, Pool!TypeOK
      <4>3. /\ Pool!InHand(b, "count") \in Nat /\ Pool!InHand(b, "freeCount") \in Nat
            /\ Cardinality(used[b]) \in Nat
        BY HandIsNatural, UsedFinite DEF PoolInv
      <4> DEFINE x == Elements - Cardinality(used[b]) + Pool!InHand(b, "count") - Pool!InHand(b,
              "freeCount")
                 y == r.n
      <4>4. x \in Int /\ y \in Int /\ CountModulus \in Nat /\ CountModulus > 0
        BY <1>2, <4>3, PoolShape
      <4>5. Elements - Cardinality(used'[b]) + Pool!InHand(b, "count")' - Pool!InHand(b,
                "freeCount")' = x + y
        BY <1>1, <1>2, <3>2, <4>1, <4>3, PoolShape
      <4>6. freeCount[b] = x % CountModulus
        BY <3>3
      <4> HIDE DEF x
      <4>7. ((x % CountModulus) + y) % CountModulus = (x + y) % CountModulus
        BY <4>4, ModuloSum
      <4> QED
        BY <4>2, <4>5, <4>6, <4>7
    <3> QED
      BY <3>4, <3>5
  <2> QED
    BY <2>2, PoolSets DEF Pool!CountBalances
<1> QED
  BY <1>4, <1>6, <1>7, <1>8, <1>9, <1>10 DEF PoolInv

LEMMA FreeEndInvariant == ASSUME PoolInv, NEW t \in Threads, Pool!FreeEnd(t) PROVE PoolInv'
<1> DEFINE b == mine[t].block
<1>1. /\ poolPc[t] = "freeHints" /\ Pool!Return(t)
      /\ coreHint' = [coreHint EXCEPT ![Pool!HintSlot(t)] = b]
      /\ arenaHint' = [arenaHint EXCEPT ![home[b]] = b]
      /\ UNCHANGED <<first, next, home, used, freeCount, upstream, totalBlocks, live>>
  BY DEF Pool!FreeEnd, Pool!blockVars
<1>2. b \in Pool!Linked /\ b \in Pool!Blocks /\ home[b] \in Pool!Arenas /\ b \in Pool!Chain(home[b])
  <2>1. b \in Pool!Linked
    BY <1>1 DEF PoolInv, PoolControl
  <2>2. PICK a \in Pool!Arenas : b \in Pool!Chain(a)
    BY <2>1 DEF Pool!Linked
  <2> QED
    BY <2>1, <2>2, LinkedBlocks DEF PoolInv, ChainsApart
<1>3. Pool!HintSlot(t) \in Pool!HintSlots
  BY PoolShape DEF PoolInv, Pool!TypeOK, Pool!HintSlot, Pool!HintSlots
<1> HIDE DEF b
<1>4. Pool!TypeOK'
  BY <1>1, <1>2, <1>3, PoolShape DEF PoolInv, Pool!TypeOK, Pool!Return, Pool!Places, Pool!Paths
<1>5. Elsewhere(t) /\ poolPc'[t] = "idle"
  BY <1>1 DEF Elsewhere, PoolInv, Pool!TypeOK, Pool!Return
<1>6. (\A a \in Pool!Arenas : Pool!Chain(a)' = Pool!Chain(a)) /\ Pool!Linked' = Pool!Linked
  BY <1>1, ListsKept
<1>7. ChainsApart'
  BY <1>1, <1>6 DEF ChainsApart, PoolInv
<1>8. HintsInChains'
  BY <1>1, <1>2, <1>3, <1>6 DEF PoolInv, HintsInChains, Pool!TypeOK
<1>9. (\A u \in Threads : PoolControl(u))'
  <2>1. PoolControl(t)'
    BY <1>5 DEF PoolControl
  <2>2. \A u \in Threads : poolPc[u] = "link" => cur[u] \notin Pool!Linked'
            /\ home'[cur[u]] = home[cur[u]]
    BY <1>1, <1>6 DEF PoolInv, PoolControl
  <2> QED
    BY <1>5, <1>6, <2>1, <2>2, OthersControl
<1>10. InPlace'
  BY <1>1, <1>5, <1>6, InPlaceKept
<1>11. Lent'
  <2>1. Got' = Got /\ \A u \in Got : cur'[u] = cur[u] /\ mine'[u] = mine[u]
    BY <1>1, <1>5 DEF Got, Elsewhere
  <2> QED
    BY <1>1, <1>6, <2>1, LentKept DEF PoolInv
<1>12. Pool!CountBalances'
  <2>1. \A u \in Threads \ {t} : poolPc'[u] = poolPc[u] /\ mine'[u] = mine[u]
    BY <1>5 DEF Elsewhere
  <2>2. "count" \in Pool!Places /\ "freeCount" \in Pool!Places
    BY DEF Pool!Places
  <2>3. \A d \in Pool!Blocks : /\ Pool!InHand(d, "count")' = Pool!InHand(d, "count")
                         /\ Pool!InHand(d, "freeCount")' = Pool!InHand(d, "freeCount")
    BY <1>1, <1>5, <2>1, <2>2, HandKept
  <2> QED
    BY <1>1, <2>3, BalanceKept DEF PoolInv
<1> QED
  BY <1>4, <1>7, <1>8, <1>9, <1>10, <1>11, <1>12 DEF PoolInv

-----------------------------------------------------------------------------
(* Steps of add_new_block that write the lists. *)

\* While no call is destroyed, every block has its place.
LEMMA WhileAlive ==
    ASSUME PoolInv, NEW t \in Threads, poolPc[t] # "destroyed"
    PROVE  /\ \A u \in Threads : poolPc[u] # "destroyed"
           /\ upstream = Pool!Linked \cup Pool!Linking
           /\ \A v, u \in Threads : v # u /\ poolPc[v] = "link"
                  /\ poolPc[u] = "link" => cur[v] # cur[u]
           /\ totalBlocks = Cardinality(upstream) + Cardinality(Pool!Reserving)
BY PoolSets DEF PoolInv, InPlace

\* A step that leaves counts, bitmaps and what callers hold.
LEMMA GrowingLends ==
    ASSUME PoolInv, NEW t \in Threads, Elsewhere(t), UNCHANGED <<live, used, freeCount>>,
           Pool!Linked \subseteq Pool!Linked', poolPc[t] \in {"upstream", "link"},
               poolPc'[t] \in {"walk", "link"}
    PROVE  Lent' /\ Pool!CountBalances'
<1>1. Got' = Got /\ \A u \in Got : cur'[u] = cur[u] /\ mine'[u] = mine[u]
  BY DEF Got, Elsewhere
<1>2. Lent'
  <2>1. Lent
    BY DEF PoolInv
  <2>2. \A u \in Got : Bits(mine[u])' = Bits(mine[u])
    BY <1>1 DEF Bits
  <2>3. \A r \in live' : r.block \in Pool!Linked' /\ Bits(r) \subseteq used'[r.block]
    BY <2>1 DEF Lent
  <2>4. \A u \in Got' : Bits(mine[u])' \subseteq used'[cur'[u]]
    BY <1>1, <2>1, <2>2 DEF Lent
  <2>5. \A r \in live', u \in Got' : r.block = cur'[u] => Bits(r) \cap Bits(mine[u])' = {}
    BY <1>1, <2>1, <2>2 DEF Lent
  <2>6. \A v, u \in Got' : v # u /\ cur'[v] = cur'[u] => Bits(mine[v])' \cap Bits(mine[u])' = {}
    BY <1>1, <2>1, <2>2 DEF Lent
  <2> QED
    BY <2>1, <2>3, <2>4, <2>5, <2>6 DEF Lent, Bits
<1>3. Pool!CountBalances'
  <2>1. \A u \in Threads \ {t} : poolPc'[u] = poolPc[u] /\ mine'[u] = mine[u]
    BY DEF Elsewhere
  <2>2. "count" \in Pool!Places /\ "freeCount" \in Pool!Places
    BY DEF Pool!Places
  <2>3. \A d \in Pool!Blocks : /\ Pool!InHand(d, "count")' = Pool!InHand(d, "count")
                         /\ Pool!InHand(d, "freeCount")' = Pool!InHand(d, "freeCount")
    BY <2>1, <2>2, HandKept
  <2> QED
    BY <2>3, BalanceKept DEF PoolInv
<1> QED
  BY <1>2, <1>3

LEMMA NewBlockInvariant == ASSUME PoolInv, NEW t \in Threads, Pool!NewBlock(t) PROVE PoolInv'
<1> DEFINE b == Pool!Min(Pool!Blocks \ upstream)
<1>1. /\ poolPc[t] = "upstream" /\ poolPc' = [poolPc EXCEPT ![t] = "link"]
             /\ Pool!Blocks \ upstream # {}
      /\ upstream' = upstream \cup {b} /\ home' = [home EXCEPT ![b] = Pool!Arena(t)]
      /\ next' = [next EXCEPT ![b] = first[Pool!Arena(t)]] /\ cur' = [cur EXCEPT ![t] = b]
      /\ UNCHANGED <<first, used, freeCount, totalBlocks, arenaHint, coreHint, live, core, poolWant,
                     offset, path, mine>>
  BY DEF Pool!NewBlock, Pool!hintVars, Pool!callVars
<1>2. b \in Pool!Blocks \ upstream
  <2>1. Pool!Blocks \ upstream \subseteq Nat
    BY PoolShape DEF Pool!Blocks
  <2> QED
    BY <1>1, <2>1, PoolMinIsLeast
<1> HIDE DEF b
<1>3. /\ \A u \in Threads : poolPc[u] # "destroyed"
      /\ upstream = Pool!Linked \cup Pool!Linking
      /\ \A v, u \in Threads : v # u /\ poolPc[v] = "link" /\ poolPc[u] = "link" => cur[v] # cur[u]
      /\ totalBlocks = Cardinality(upstream) + Cardinality(Pool!Reserving)
  BY <1>1, WhileAlive
<1>4. Pool!Arena(t) \in Pool!Arenas
  BY ControlInArena DEF PoolInv
<1>5. Pool!TypeOK'
  BY <1>1, <1>2, <1>4 DEF PoolInv, Pool!TypeOK, Pool!Places
<1>6. Elsewhere(t) /\ poolPc'[t] = "link" /\ cur'[t] = b
  BY <1>1 DEF Elsewhere, PoolInv, Pool!TypeOK
<1>7. \A a \in Pool!Arenas : Pool!Chain(a)' = Pool!Chain(a)
  <2>1. \A a \in Pool!Arenas : \A c \in Pool!Chain(a) : c # b /\ c \in Pool!Blocks
    BY <1>2, <1>3, LinkedBlocks
  <2>2. \A a \in Pool!Arenas : \A c \in Pool!Chain(a) : next'[c] = next[c]
    BY <1>1, <2>1 DEF PoolInv, Pool!TypeOK
  <2>3. Lists /\ Lists'
    BY <1>5 DEF PoolInv, Lists, Pool!TypeOK
  <2> QED
    BY <1>1, <2>2, <2>3, ChainKept
<1>8. Pool!Linked' = Pool!Linked
  BY <1>7 DEF Pool!Linked
<1>9. \A c \in upstream : home'[c] = home[c]
  BY <1>1, <1>2 DEF PoolInv, Pool!TypeOK
<1>10. ChainsApart' /\ HintsInChains'
  <2>1. \A a \in Pool!Arenas : \A c \in Pool!Chain(a) : home'[c] = a
    BY <1>3, <1>9, LinkedBlocks DEF PoolInv, ChainsApart
  <2> QED
    BY <1>1, <1>7, <1>8, <2>1 DEF PoolInv, ChainsApart, HintsInChains
<1>11. (\A u \in Threads : PoolControl(u))'
  <2>1. PoolControl(t)'
    <3>1. poolWant[t] # 0
      BY <1>1 DEF PoolInv, PoolControl
    <3>2. b \notin Pool!Linked' /\ home'[b] = Pool!Arena(t) /\ Pool!Arena(t)' = Pool!Arena(t)
      BY <1>1, <1>2, <1>3, <1>8 DEF PoolInv, Pool!TypeOK, Pool!Arena
    <3> QED
      BY <1>1, <1>2, <1>6, <3>1, <3>2 DEF PoolControl
  <2>2. \A u \in Threads : poolPc[u] = "link" => cur[u] \notin Pool!Linked'
            /\ home'[cur[u]] = home[cur[u]]
    BY <1>3, <1>8, <1>9 DEF PoolInv, PoolControl, Pool!Linking
  <2> QED
    BY <1>6, <1>7, <2>1, <2>2, OthersControl
<1>12. InPlace'
  <2>1. \A u \in Threads \ {t} : poolPc'[u] = poolPc[u] /\ cur'[u] = cur[u]
    BY <1>6 DEF Elsewhere
  <2>2. Pool!Linking' = Pool!Linking \cup {b}
    BY <1>1, <1>6, <2>1 DEF Pool!Linking
  <2>3. \A u \in Threads : poolPc[u] = "link" => cur[u] # b
    BY <1>2, <1>3 DEF Pool!Linking
  <2>4. \A v, u \in Threads : v # u /\ poolPc'[v] = "link"
            /\ poolPc'[u] = "link" => cur'[v] # cur'[u]
    BY <1>3, <1>6, <2>1, <2>3
  <2>5. totalBlocks' = Cardinality(upstream') + Cardinality(Pool!Reserving')
    <3>1. /\ Cardinality(Pool!Reserving') = Cardinality(Pool!Reserving)
                 + Holds(poolPc[t])' - Holds(poolPc[t])
          /\ Cardinality(Pool!Reserving) \in Nat
      BY <2>1, ReservingMoves
    <3>2. Holds(poolPc[t])' = 0 /\ Holds(poolPc[t]) = 1
      BY <1>1, <1>6 DEF Holds
    <3>3. IsFiniteSet(upstream) /\ Cardinality(upstream) \in Nat
      BY UpstreamFinite DEF PoolInv, Pool!TypeOK
    <3>4. Cardinality(upstream \cup {b}) = Cardinality(upstream) + 1
      BY <1>2, <3>3, FS_AddElement
    <3> QED
      BY <1>1, <1>3, <3>1, <3>2, <3>3, <3>4
  <2>6. \A u \in Threads : poolPc'[u] # "destroyed"
    BY <1>3, <1>6, <2>1
  <2>7. upstream' = Pool!Linked' \cup Pool!Linking'
    BY <1>1, <1>3, <1>8, <2>2
  <2> QED
    BY <2>4, <2>5, <2>6, <2>7, PoolSets DEF InPlace
<1>13. Lent' /\ Pool!CountBalances'
  BY <1>1, <1>6, <1>8, GrowingLends
<1> QED
  BY <1>5, <1>10, <1>11, <1>12, <1>13 DEF PoolInv

LEMMA LinkInvariant == ASSUME PoolInv, NEW t \in Threads, Pool!Link(t) PROVE PoolInv'
<1> DEFINE b == cur[t]
           a == Pool!Arena(t)
<1>1. /\ poolPc[t] = "link" /\ poolPc' = [poolPc EXCEPT ![t] = "walk"] /\ first[a] = next[b]
      /\ first' = [first EXCEPT ![a] = b]
      /\ UNCHANGED <<next, home, used, freeCount, upstream, totalBlocks, arenaHint, coreHint, live,
                     core, poolWant, offset, path, cur, mine>>
  BY DEF Pool!Link, Pool!Goto, Pool!FrontUnchanged, Pool!blockVars, Pool!hintVars, Pool!callVars
<1>2. b \in Pool!Blocks /\ b \notin Pool!Linked /\ home[b] = a /\ a \in Pool!Arenas
  BY <1>1, ControlInArena DEF PoolInv, PoolControl
<1> HIDE DEF a, b
<1>3. /\ \A u \in Threads : poolPc[u] # "destroyed"
      /\ upstream = Pool!Linked \cup Pool!Linking
      /\ \A v, u \in Threads : v # u /\ poolPc[v] = "link" /\ poolPc[u] = "link" => cur[v] # cur[u]
      /\ totalBlocks = Cardinality(upstream) + Cardinality(Pool!Reserving)
  BY <1>1, WhileAlive
<1>4. Pool!TypeOK'
  BY <1>1, <1>2 DEF PoolInv, Pool!TypeOK, Pool!Places
<1>5. Elsewhere(t) /\ poolPc'[t] = "walk"
  BY <1>1 DEF Elsewhere, PoolInv, Pool!TypeOK
<1>6. Lists /\ Lists' /\ first'[a] = b /\ \A c \in Pool!Arenas \ {a} : first'[c] = first[c]
  BY <1>1, <1>2, <1>4 DEF PoolInv, Lists, Pool!TypeOK
<1>7. \A c \in Pool!Arenas : Pool!Chain(c)' = IF c
          = a THEN Pool!Chain(c) \cup {b} ELSE Pool!Chain(c)
  <2>1. ASSUME NEW c \in Pool!Arenas, c = a PROVE Pool!Chain(c)' = Pool!Chain(c) \cup {b}
    <3>1. first'[c] = b /\ next[b] = first[c] /\ next' = next
      BY <1>1, <1>6, <2>1
    <3> QED
      BY <1>2, <1>6, <3>1, ChainGrows
  <2>2. ASSUME NEW c \in Pool!Arenas, c # a PROVE Pool!Chain(c)' = Pool!Chain(c)
    <3>1. first'[c] = first[c] /\ next' = next
      BY <1>1, <1>6, <2>2
    <3> QED
      BY <1>6, <3>1, ChainKept
  <2> QED
    BY <2>1, <2>2
<1>8. Pool!Linked' = Pool!Linked \cup {b}
  <2>1. Pool!Linked' = UNION {Pool!Chain(c)' : c \in Pool!Arenas}
    BY DEF Pool!Linked
  <2>2. \A x : x \in UNION {Pool!Chain(c)' : c \in Pool!Arenas}
            <=> \E c \in Pool!Arenas : x \in Pool!Chain(c)'
    OBVIOUS
  <2>3. \A x : x \in Pool!Linked <=> \E c \in Pool!Arenas : x \in Pool!Chain(c)
    BY DEF Pool!Linked
  <2> QED
    BY <1>2, <1>7, <2>1, <2>2, <2>3
<1>9. ChainsApart' /\ HintsInChains'
  <2>1. \A c \in Pool!Arenas : \A d \in Pool!Chain(c)' : home'[d] = c
    BY <1>1, <1>2, <1>7 DEF PoolInv, ChainsApart
  <2>2. \A c \in Pool!Arenas : arenaHint'[c] \in Pool!Chain(c)' \cup {Pool!Null}
    BY <1>1, <1>7 DEF PoolInv, HintsInChains
  <2> QED
    BY <1>1, <1>8, <2>1, <2>2 DEF PoolInv, ChainsApart, HintsInChains
<1>10. (\A u \in Threads : PoolControl(u))'
  <2>1. PoolControl(t)'
    <3>1. poolWant[t] # 0
      BY <1>1 DEF PoolInv, PoolControl
    <3> QED
      BY <1>1, <1>5, <3>1 DEF PoolControl
  <2>2. \A u \in Threads \ {t} :
           poolPc[u] = "link" => cur[u] \notin Pool!Linked' /\ home'[cur[u]] = home[cur[u]]
    BY <1>1, <1>3, <1>8 DEF PoolInv, PoolControl, b
  <2>3. \A c \in Pool!Arenas : Pool!Chain(c) \subseteq Pool!Chain(c)'
    BY <1>7
  <2> QED
    BY <1>5, <2>1, <2>2, <2>3, OthersControl
<1>11. InPlace'
  <2>1. \A u \in Threads \ {t} : poolPc'[u] = poolPc[u] /\ cur'[u] = cur[u]
    BY <1>5 DEF Elsewhere
  <2>2. Pool!Linking = Pool!Linking' \cup {b}
    BY <1>1, <1>5, <2>1 DEF Pool!Linking, b
  <2>3. upstream' = Pool!Linked' \cup Pool!Linking'
    BY <1>1, <1>3, <1>8, <2>2
  <2>4. \A v, u \in Threads : v # u /\ poolPc'[v] = "link"
            /\ poolPc'[u] = "link" => cur'[v] # cur'[u]
    BY <1>3, <1>5, <2>1
  <2>5. Pool!Reserving' = Pool!Reserving
    BY <1>1, <1>5, <2>1 DEF Pool!Reserving
  <2>6. \A u \in Threads : poolPc'[u] # "destroyed"
    BY <1>3, <1>5, <2>1
  <2> QED
    BY <1>1, <1>3, <2>3, <2>4, <2>5, <2>6, PoolSets DEF InPlace
<1>12. Lent' /\ Pool!CountBalances'
  BY <1>1, <1>5, <1>8, GrowingLends
<1> QED
  BY <1>4, <1>9, <1>10, <1>11, <1>12 DEF PoolInv

LEMMA RelinkInvariant == ASSUME PoolInv, NEW t \in Threads, Pool!Relink(t) PROVE PoolInv'
<1> DEFINE b == cur[t]
<1>1. /\ poolPc[t] = "link" /\ next' = [next EXCEPT ![b] = first[Pool!Arena(t)]]
      /\ UNCHANGED <<first, home, used, freeCount, upstream, totalBlocks, arenaHint, coreHint, live,
                     poolPc, core, poolWant, offset, path, cur, mine>>
  BY DEF Pool!Relink, Pool!hintVars, Pool!callVars
<1>2. b \in Pool!Blocks /\ b \notin Pool!Linked /\ Pool!Arena(t) \in Pool!Arenas
  BY <1>1, ControlInArena DEF PoolInv, PoolControl
<1> HIDE DEF b
<1>3. Pool!TypeOK'
  BY <1>1, <1>2 DEF PoolInv, Pool!TypeOK
<1>4. \A a \in Pool!Arenas : Pool!Chain(a)' = Pool!Chain(a)
  <2>1. \A a \in Pool!Arenas : \A c \in Pool!Chain(a) : c # b /\ c \in Pool!Blocks
    BY <1>2, LinkedBlocks
  <2>2. \A a \in Pool!Arenas : \A c \in Pool!Chain(a) : next'[c] = next[c]
    BY <1>1, <2>1 DEF PoolInv, Pool!TypeOK
  <2>3. Lists /\ Lists'
    BY <1>3 DEF PoolInv, Lists, Pool!TypeOK
  <2> QED
    BY <1>1, <2>2, <2>3, ChainKept
<1>5. Pool!Linked' = Pool!Linked
  BY <1>4 DEF Pool!Linked
<1>6. ChainsApart' /\ HintsInChains'
  BY <1>1, <1>4, <1>5 DEF PoolInv, ChainsApart, HintsInChains
<1>7. Elsewhere(t) /\ poolPc'[t] = "link"
  BY <1>1 DEF Elsewhere
<1>8. (\A u \in Threads : PoolControl(u))'
  <2>1. PoolControl(t)'
    BY <1>1, <1>5 DEF PoolInv, PoolControl, Pool!Arena
  <2>2. \A u \in Threads : poolPc[u] = "link" => cur[u] \notin Pool!Linked'
            /\ home'[cur[u]] = home[cur[u]]
    BY <1>1, <1>5 DEF PoolInv, PoolControl
  <2> QED
    BY <1>4, <1>7, <2>1, <2>2, OthersControl
<1>9. InPlace'
  BY <1>1, <1>5, PoolSets DEF PoolInv, InPlace, Pool!Linking, Pool!Reserving
<1>10. Lent' /\ Pool!CountBalances'
  BY <1>1, <1>5, <1>7, GrowingLends
<1> QED
  BY <1>3, <1>6, <1>8, <1>9, <1>10 DEF PoolInv

-----------------------------------------------------------------------------
(* The first state, the destructor, and the theorems. *)

LEMMA DestroyInvariant == ASSUME PoolInv, Pool!Destroy PROVE PoolInv'
<1>1. /\ \A t \in Threads : poolPc[t] = "idle" /\ poolPc'[t] = "destroyed"
      /\ poolPc' = [t \in Threads |-> "destroyed"] /\ upstream' = upstream \ Pool!Linked
      /\ UNCHANGED <<first, next, home, used, freeCount, totalBlocks, arenaHint, coreHint, live,
                     core, poolWant, offset, path, cur, mine>>
  BY DEF Pool!Destroy, Pool!hintVars, Pool!callVars
<1>2. Pool!TypeOK'
  BY <1>1 DEF PoolInv, Pool!TypeOK, Pool!Places
<1>3. /\ \A a \in Pool!Arenas : Pool!Chain(a)' = Pool!Chain(a)
      /\ Pool!Linked' = Pool!Linked /\ ChainsApart' /\ HintsInChains'
  BY <1>1, PlacesKept
<1>4. (\A u \in Threads : PoolControl(u))'
  BY <1>1 DEF PoolControl
<1>5. InPlace'
  <2>1. PICK t \in Threads : TRUE
    BY PoolShape
  <2>2. upstream = Pool!Linked \cup Pool!Linking
    BY <1>1, <2>1, WhileAlive
  <2>3. Pool!Linking = {}
    BY <1>1 DEF Pool!Linking
  <2> QED
    BY <1>1, <2>2, <2>3, PoolSets DEF InPlace
<1>6. Lent'
  <2>1. Got' = {} /\ Got = {}
    BY <1>1 DEF Got
  <2> QED
    BY <1>1, <1>3, <2>1 DEF PoolInv, Lent
<1>7. Pool!CountBalances'
  <2>1. ASSUME NEW b \in Pool!Blocks, NEW place \in {"count", "freeCount"}
        PROVE  Pool!InHand(b, place)' = Pool!InHand(b, place)
    <3> DEFINE D == Threads \X (1 .. Elements)
               A == {x \in D : poolPc[x[1]] = place /\ mine[x[1]].block = b /\ x[2] <= mine[x[1]].n}
               B == {x \in D : poolPc'[x[1]] = place /\ mine'[x[1]].block = b
                   /\ x[2] <= mine'[x[1]].n}
    <3>1. A = {} /\ B = {}
      BY <1>1
    <3> QED
      BY <3>1, PoolSets DEF Pool!InHand
  <2> QED
    BY <1>1, <2>1, BalanceKept DEF PoolInv
<1> QED
  BY <1>2, <1>3, <1>4, <1>5, <1>6, <1>7 DEF PoolInv

LEMMA MinOfTwo ==
    ASSUME NEW m \in Nat, NEW n \in Nat
    PROVE  Pool!Min({m, n}) \in Nat /\ Pool!Min({m, n}) <= m /\ Pool!Min({m, n}) <= n
BY PoolMinIsLeast

\* At first the list of an arena is its front, or nothing.
LEMMA FirstChains ==
    ASSUME Lists, NEW a \in Pool!Arenas, \A b \in Pool!Blocks : next[b] = Pool!Null
    PROVE  Pool!Chain(a) = {first[a]} \ {Pool!Null}
<1>1. /\ Pool!Chain(a) \subseteq Pool!Blocks /\ first[a] \in Pool!Chain(a) \cup {Pool!Null}
      /\ \A S \in SUBSET Pool!Blocks :
            first[a] \in S \cup {Pool!Null} /\ (\A c \in S : next[c] \in S \cup {Pool!Null})
              => Pool!Chain(a) \subseteq S
  BY ChainLawsHold DEF ChainLaws
<1>2. Pool!Null \notin Pool!Blocks
  BY PoolShape DEF Pool!Null, Pool!Blocks
<1> DEFINE S == {first[a]} \ {Pool!Null}
<1>3. S \in SUBSET Pool!Blocks /\ first[a] \in S \cup {Pool!Null}
          /\ \A c \in S : next[c] \in S \cup {Pool!Null}
  BY DEF Lists
<1>4. Pool!Chain(a) \subseteq S
  <2> HIDE DEF S
  <2> QED
    BY <1>1, <1>3
<1> QED
  BY <1>1, <1>2, <1>4

LEMMA PoolBegins == Pool!Init => PoolInv
<1> SUFFICES ASSUME Pool!Init PROVE PoolInv
  OBVIOUS
<1>1. PICK given \in 0 .. Pool!Min({NumArenas, UpstreamBlocks}) :
        /\ first = [a \in Pool!Arenas |-> IF a < given THEN a + 1 ELSE Pool!Null]
        /\ home = [b \in Pool!Blocks |-> IF b <= given THEN b - 1 ELSE 0]
        /\ upstream = 1 .. given /\ totalBlocks = given
  BY DEF Pool!Init
<1>2. /\ next = [b \in Pool!Blocks |-> Pool!Null] /\ used = [b \in Pool!Blocks |-> {}]
      /\ freeCount = [b \in Pool!Blocks |-> Elements]
      /\ arenaHint = [a \in Pool!Arenas |-> Pool!Null]
             /\ coreHint = [h \in Pool!HintSlots |-> Pool!Null]
      /\ live = {} /\ poolPc = [t \in Threads |-> "idle"] /\ core = [t \in Threads |-> 0]
      /\ poolWant = [t \in Threads |-> 0] /\ path = [t \in Threads |-> "core"]
      /\ cur = [t \in Threads |-> Pool!Null] /\ offset = [t \in Threads |-> 0]
      /\ mine = [t \in Threads |-> Pool!NoRun]
  BY DEF Pool!Init
<1>3. given \in Nat /\ given <= NumArenas /\ given <= UpstreamBlocks
  BY PoolShape, MinOfTwo
<1>4. Pool!TypeOK
  <2>1. /\ first \in [Pool!Arenas -> Pool!Blocks \cup {Pool!Null}]
               /\ home \in [Pool!Blocks -> Pool!Arenas]
        /\ upstream \in SUBSET Pool!Blocks /\ totalBlocks \in 0 .. MaxBlocks
    BY <1>1, <1>3, PoolShape DEF Pool!Arenas, Pool!Blocks, Pool!Null
  <2> QED
    BY <1>2, <2>1, PoolShape DEF Pool!TypeOK, Pool!Places, Pool!Paths, Pool!HintSlots
<1>5. \A a \in Pool!Arenas : Pool!Chain(a) = {first[a]} \ {Pool!Null}
  BY <1>2, <1>4, ListsFact, FirstChains
<1>6. \A a \in Pool!Arenas : Pool!Chain(a) = IF a < given THEN {a + 1} ELSE {}
  BY <1>1, <1>3, <1>5 DEF Pool!Arenas, Pool!Null
<1>7. Pool!Linked = 1 .. given
  <2>1. \A x : x \in Pool!Linked <=> \E a \in Pool!Arenas : x \in Pool!Chain(a)
    BY DEF Pool!Linked
  <2>2. \A x \in Pool!Linked : x \in 1 .. given
    BY <1>3, <1>6, <2>1 DEF Pool!Arenas
  <2>3. ASSUME NEW x \in 1 .. given PROVE x \in Pool!Linked
    <3>1. x - 1 \in Pool!Arenas /\ x - 1 < given /\ (x - 1) + 1 = x
      BY <1>3, PoolShape DEF Pool!Arenas
    <3> QED
      BY <1>6, <2>1, <3>1
  <2> QED
    BY <2>2, <2>3
<1>8. ChainsApart
  BY <1>1, <1>3, <1>6, PoolShape DEF ChainsApart, Pool!Arenas, Pool!Blocks
<1>9. HintsInChains
  BY <1>2 DEF HintsInChains
<1>10. \A t \in Threads : PoolControl(t)
  BY <1>2 DEF PoolControl
<1>11. InPlace
  <2>1. Pool!Linking = {} /\ Pool!Reserving = {}
    BY <1>2 DEF Pool!Linking, Pool!Reserving
  <2>2. Cardinality(1 .. given) = given /\ Cardinality({}) = 0
    <3>1. 1 \in Int /\ given \in Int /\ (IF 1 > given THEN 0 ELSE given - 1 + 1) = given
      BY <1>3
    <3>2. Cardinality(1 .. given) = IF 1 > given THEN 0 ELSE given - 1 + 1
      BY <3>1, FS_Interval
    <3> QED
      BY <3>1, <3>2, FS_EmptySet
  <2>3. \A t \in Threads : poolPc[t] = "idle"
    BY <1>2
  <2>4. totalBlocks = Cardinality(upstream) + Cardinality(Pool!Reserving)
    BY <1>1, <1>3, <2>1, <2>2
  <2> QED
    BY <1>1, <1>7, <2>1, <2>3, <2>4, PoolSets DEF InPlace
<1>12. Lent
  BY <1>2 DEF Lent, Got
<1>13. Pool!CountBalances
  <2>1. ASSUME NEW b \in Pool!Blocks, NEW place \in {"count", "freeCount"}
        PROVE  Pool!InHand(b, place) = 0
    <3> DEFINE D == Threads \X (1 .. Elements)
               A == {x \in D : poolPc[x[1]] = place /\ mine[x[1]].block = b /\ x[2] <= mine[x[1]].n}
    <3>1. A = {}
      BY <1>2
    <3> QED
      BY <3>1, FS_EmptySet, PoolSets DEF Pool!InHand
  <2>2. ASSUME NEW b \in Pool!Blocks
        PROVE  freeCount[b] = (Elements - Cardinality(used[b]) + Pool!InHand(b, "count")
                                  - Pool!InHand(b, "freeCount")) % CountModulus
    <3>1. used[b] = {} /\ freeCount[b] = Elements
      BY <1>2
    <3>2. Cardinality(used[b]) = 0
      BY <3>1, FS_EmptySet
    <3>3. Elements - Cardinality(used[b]) + Pool!InHand(b, "count") - Pool!InHand(b,
              "freeCount") = Elements
      BY <2>1, <3>2, PoolShape
    <3>4. Elements % CountModulus = Elements
      BY PoolShape
    <3> QED
      BY <3>1, <3>3, <3>4
  <2> QED
    BY <2>2, PoolSets DEF Pool!CountBalances
<1> QED
  BY <1>4, <1>8, <1>9, <1>10, <1>11, <1>12, <1>13 DEF PoolInv

LEMMA StutterInvariant == PoolInv /\ UNCHANGED Pool!vars => PoolInv'
<1> SUFFICES ASSUME PoolInv, UNCHANGED Pool!vars PROVE PoolInv'
  OBVIOUS
<1>1. UNCHANGED <<first, next, home, used, freeCount, upstream, totalBlocks, arenaHint,
          coreHint, live,
                  poolPc, core, poolWant, offset, path, cur, mine>>
  BY DEF Pool!vars, Pool!blockVars, Pool!hintVars, Pool!callVars
<1>2. Pool!TypeOK'
  BY <1>1 DEF PoolInv, Pool!TypeOK
<1>3. /\ \A a \in Pool!Arenas : Pool!Chain(a)' = Pool!Chain(a)
      /\ Pool!Linked' = Pool!Linked /\ ChainsApart' /\ HintsInChains'
  BY <1>1, PlacesKept
<1>4. (\A u \in Threads : PoolControl(u))'
  <2>1. \A u \in Threads : poolPc[u] = "link" => cur[u] \notin Pool!Linked'
            /\ home'[cur[u]] = home[cur[u]]
    BY <1>1, <1>3 DEF PoolInv, PoolControl
  <2>2. ASSUME NEW u \in Threads PROVE PoolControl(u)'
    BY <1>1, <1>3, <2>1, ControlKept DEF PoolInv
  <2> QED
    BY <2>2
<1>5. InPlace'
  BY <1>1, <1>3, PoolSets DEF PoolInv, InPlace, Pool!Linking, Pool!Reserving
<1>6. Lent'
  BY <1>1, <1>3 DEF PoolInv, Lent, Got
<1>7. Pool!CountBalances'
  BY <1>1, PoolSets DEF PoolInv, Pool!CountBalances, Pool!InHand
<1> QED
  BY <1>2, <1>3, <1>4, <1>5, <1>6, <1>7 DEF PoolInv

LEMMA PoolStep == PoolInv /\ [Pool!Next]_(Pool!vars) => PoolInv'
<1> SUFFICES ASSUME PoolInv, Pool!Next PROVE PoolInv'
  BY StutterInvariant
<1>1. ASSUME NEW t \in Threads, Pool!Step(t) PROVE PoolInv'
  BY <1>1, PoolAllocBeginInvariant, TryCoreHintInvariant, TryArenaHintInvariant, WalkBeginInvariant,
     TryOtherInvariant, PoolRefuseInvariant, SkipInvariant, CheckInvariant, TakeInvariant,
     NoRunThereInvariant, CountDownInvariant, FinalizeInvariant, ReserveInvariant,
     NewBlockInvariant, UpstreamEmptyInvariant, UnreserveInvariant, LinkInvariant,
     RelinkInvariant, FreeBeginInvariant, CountUpInvariant, FreeEndInvariant DEF Pool!Step
<1>2. ASSUME Pool!Destroy PROVE PoolInv'
  BY <1>2, DestroyInvariant
<1> QED
  BY <1>1, <1>2 DEF Pool!Next

LEMMA IInvAccounts == PoolInv => Pool!BlocksAccounted
<1> SUFFICES ASSUME PoolInv PROVE Pool!BlocksAccounted
  OBVIOUS
<1>1. PICK t \in Threads : TRUE
  BY PoolShape
<1>2. CASE \A u \in Threads : poolPc[u] = "destroyed"
  BY <1>1, <1>2, PoolSets DEF PoolInv, InPlace, Pool!BlocksAccounted
<1>3. CASE poolPc[t] # "destroyed"
  <2>1. /\ \A u \in Threads : poolPc[u] # "destroyed"
        /\ upstream = Pool!Linked \cup Pool!Linking
        /\ totalBlocks = Cardinality(upstream) + Cardinality(Pool!Reserving)
    BY <1>3, WhileAlive
  <2>2. Pool!Linked \cap Pool!Linking = {}
    BY DEF PoolInv, PoolControl, Pool!Linking
  <2>3. totalBlocks <= MaxBlocks
    BY PoolShape DEF PoolInv, Pool!TypeOK
  <2>4. \A r \in live : r.block \in Pool!Linked
    BY DEF PoolInv, Lent
  <2> QED
    BY <2>1, <2>2, <2>3, <2>4, PoolSets DEF Pool!BlocksAccounted, PoolInv, ChainsApart
<1> QED
  BY <1>1, <1>2, <1>3, PoolSets DEF PoolInv, InPlace

LEMMA IInvHints == PoolInv => Pool!HintsAreLinked
<1> SUFFICES ASSUME PoolInv PROVE Pool!HintsAreLinked
  OBVIOUS
<1>1. ASSUME NEW a \in Pool!Arenas, arenaHint[a] # Pool!Null
      PROVE  arenaHint[a] \in Pool!Linked /\ home[arenaHint[a]] = a
  <2>1. arenaHint[a] \in Pool!Chain(a)
    BY <1>1 DEF PoolInv, HintsInChains
  <2> QED
    BY <2>1 DEF PoolInv, ChainsApart, Pool!Linked
<1>2. ASSUME NEW h \in Pool!HintSlots, coreHint[h] # Pool!Null PROVE coreHint[h] \in Pool!Linked
  BY <1>2 DEF PoolInv, HintsInChains
<1> QED
  BY <1>1, <1>2 DEF Pool!HintsAreLinked

-----------------------------------------------------------------------------
(* The specification of the run                                            *)

Inv == IInv /\ Fits /\ PoolInv

LEMMA AllBegin == AllInit => Inv
  BY InitInvariant, FitsBegin, PoolBegins DEF AllInit, Inv

\* The invariants look at the variables of their own resource only.
LEMMA AllStep == Inv /\ [AllNext]_allVars => Inv'
<1> SUFFICES ASSUME Inv, [AllNext]_allVars PROVE Inv'
  OBVIOUS
<1>1. [Next]_vars
  BY DEF AllNext, allVars
<1>2. [Pool!Next]_(Pool!vars)
  BY DEF AllNext, allVars, poolVars, Pool!vars, Pool!blockVars, Pool!hintVars, Pool!callVars
<1>3. IInv' /\ Fits'
  BY <1>1, StepInvariant, FitsStep DEF Inv
<1>4. PoolInv'
  BY <1>2, PoolStep DEF Inv
<1> QED
  BY <1>3, <1>4 DEF Inv

LEMMA PoolRuns == PoolInv => Pool!RunsAreApart
  BY DEF PoolInv, Lent, Bits, Pool!RunsAreApart

\* What is known of the places of the code, of the extents of the arena, and of the lists, counts
\* and runs of the pool is so in every reachable state (do_allocate and do_deallocate of both).
THEOREM Invariance == AllSpec => []Inv
  BY AllBegin, AllStep, PTL DEF AllSpec

\* Below current_ptr_ every block of the arena is with one caller, in one bin or in the hands
\* of one thread, and never lost: splitting, stealing, giving back and freeing included.
THEOREM PartitionHolds == AllSpec => []Partition
<1>1. Inv => Partition
  BY IInvPartition DEF Inv
<1> QED
  BY <1>1, Invariance, PTL

\* Until the destructor returns them all, the blocks that came from upstream are those in one list
\* or about to be linked (add_new_block), total_blocks_ counts them and never passes its cap, hints
\* name linked blocks, and no element is lent twice; each resource keeps its types.
THEOREM BlocksAreAccounted == AllSpec => []BlocksAccounted
<1>1. Inv => BlocksAccounted
  <2> SUFFICES ASSUME Inv PROVE BlocksAccounted
    OBVIOUS
  <2>1. TypeOK
    BY FitsTypes DEF Inv
  <2>2. Pool!TypeOK /\ Pool!HintsAreLinked
    BY IInvHints DEF Inv, PoolInv
  <2>3. Pool!BlocksAccounted /\ Pool!RunsAreApart
    BY IInvAccounts, PoolRuns DEF Inv
  <2> QED
    BY <2>1, <2>2, <2>3 DEF BlocksAccounted
<1> QED
  BY <1>1, Invariance, PTL

\* free_count_ of a block, also while it is wrapped, is what its bitmap says, but for the elements
\* that a thread has taken or released and not yet counted (do_allocate, do_deallocate).
THEOREM CountsBalance == AllSpec => []CountBalances
<1>1. Inv => CountBalances
  BY DEF Inv, PoolInv, CountBalances
<1> QED
  BY <1>1, Invariance, PTL
=============================================================================
