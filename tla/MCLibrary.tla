----------------------------- MODULE MCLibrary -----------------------------
(***************************************************************************)
(* Small instances of the library's parts that build on no other: text,    *)
(* hashes, comparisons, random numbers, memory resources, the search tree  *)
(* with the cache on it, and the skip list.                                *)
(* They share nothing: subject, chosen at the start, says which one the    *)
(* behaviour is about, and v1 to v8 are its variables.                     *)
(***************************************************************************)
EXTENDS Integers, Sequences, FiniteSets, TLC

VARIABLES subject, v1, v2, v3, v4, v5, v6, v7, v8

libraryVars == <<subject, v1, v2, v3, v4, v5, v6, v7, v8>>

-----------------------------------------------------------------------------
(* Format strings: every option of every kind of argument, next to each    *)
(* other; and placeholders, texts and mistakes in any order.               *)

Options(aligns, signs, flags, widths, precisions, types) ==
    {[fill |-> a[1], align |-> a[2], sign |-> s, alt |-> f[1], zero |-> f[2],
      width |-> w, precision |-> p, type |-> t] :
        a \in aligns, s \in signs, f \in flags, w \in widths, p \in precisions, t \in types}

Aligns == {<<"", "">>, <<"", "<">>, <<"*", ">">>, <<"<", "^">>, <<"0", "<">>}
Flags == BOOLEAN \X BOOLEAN
NoFlags == {<<FALSE, FALSE>>}

Plain == CHOOSE o \in Options({<<"", "">>}, {""}, NoFlags, {-1}, {-1}, {""}) : TRUE

Placeholder(id, o) == [kind |-> "placeholder", id |-> id, options |-> o]
Raw(text, meaning) == [kind |-> "raw", text |-> text, meaning |-> meaning]
Text(text) == [kind |-> "text", text |-> text]

Number(v) == [kind |-> "integer", value |-> v]
\* n * 2^x as a double with a mantissa of 13 bits.
Float(s, n, x) ==
    LET k == CHOOSE k \in 0..13 : n = 0 \/ n * (2 ^ k) \in (2 ^ 12)..(2 ^ 13 - 1)
    IN  [kind |-> "float", special |-> <<>>, negative |-> s, m |-> n * (2 ^ k), x |-> IF n = 0 THEN 0 ELSE x - k]
NotFinite(s, name) == [Float(s, 0, 0) EXCEPT !.special = name]
Words(t) == [kind |-> "text", text |-> t]

One(args, options) == {[pieces |-> <<Placeholder(-1, o)>>, args |-> <<x>>, capacity |-> 40] : o \in options, x \in args}

Integers1 == One({Number(v) : v \in {-128, 0, 13}},
                 Options(Aligns, {"", "+", " "}, Flags, {-1, 6}, {-1}, {"", "x", "B", "o", "p"}))
Pointers1 == One({[kind |-> "pointer", value |-> v] : v \in {0, 13}},
                 Options(Aligns, {"", "+"}, Flags, {-1, 6}, {-1}, {"", "x", "d"}))

\* Exact ties, a tie missed by little, the carry into the units, fractions too small to see, the
\* largest float that fits an integer and the next, one whose quotient rounds up to a power of ten, and
\* floats whose exponent is divided out in one, two and three steps.
Floats1 == One({Float(FALSE, 5, -1), Float(TRUE, 1, -3), Float(FALSE, 319, -5), Float(TRUE, 0, 0),
                Float(FALSE, 1, -13), Float(FALSE, 1, -17), Float(FALSE, 4999, 1),
                Float(TRUE, 8191, 11), Float(FALSE, 1, 24), Float(TRUE, 6103, 14), Float(FALSE, 7629, 17),
                Float(FALSE, 7450, 27), Float(FALSE, 4097, 49),
                NotFinite(TRUE, <<"i", "n", "f">>), NotFinite(FALSE, <<"n", "a", "n">>)},
               Options(Aligns, {"", " "}, {<<FALSE, FALSE>>, <<FALSE, TRUE>>}, {-1, 9, 14}, {-1, 0, 1, 2, 5}, {""}))

Words1 == One({Words(t) : t \in {<<>>, <<"a">>, <<"a", "b", "c">>}},
              Options(Aligns, {"", "+"}, {<<FALSE, FALSE>>, <<TRUE, TRUE>>}, {-1, 4}, {-1, 0, 2}, {""}))

InvalidMark == <<"{Invalid format string}">>

Pieces == {Text(<<"a", "}">>), Text(<<"{">>), Placeholder(-1, Plain), Placeholder(0, Plain), Placeholder(2, Plain),
           Placeholder(-1, [Plain EXCEPT !.width = 3, !.fill = "*", !.align = ">"]),
           Raw(<<"{", "0", "<", "}">>, InvalidMark),
           Raw(<<"{", "0", ":", "{", ">", "}">>, InvalidMark),
           Raw(<<"{", "0", ":", "5", "5", "^", "3", "}">>, InvalidMark),
           Raw(<<"{", "0", ":", "1", "0", "0", "0", "}">>, InvalidMark)}

\* A placeholder cut after SpecCapacity characters, and one that never ends.
Long == Raw(<<"{", "0", ":", "+", "0", "0", "0", "0", "0", "0", "0", "0", "0", "9", "x", "}">>, <<"+", "7">>)
Endless == Raw(<<"{", "0", ":", "4">>, <<>>)

Mixed == {[pieces |-> <<p, q, r>>, args |-> <<Number(7), Words(<<"b">>)>>, capacity |-> c] :
             p \in Pieces \cup {Long}, q \in Pieces, r \in Pieces \cup {Endless}, c \in {3, 20}}

F == INSTANCE Format WITH
        Inputs <- Integers1 \cup Pointers1 \cup Floats1 \cup Words1 \cup Mixed,
        SpecCapacity <- 12, MaxCount <- 999, IntModulus <- 256, MaxDecimals <- 3,
        MantissaBits <- 13, FractionLimit <- 26, BigBits <- 24, LeadingDigits <- 5, ExactPower <- 5,
        input <- v1, at <- v2, index <- v3, buffer <- v4

-----------------------------------------------------------------------------
(* Keys of every length round the bounds of the paths and over some        *)
(* blocks, and every pair of scalars of a type.                            *)

ScalarPairs ==
    LET Of(type) == {[type |-> type, negative |-> n, magnitude |-> m, junk |-> j] :
                        n \in BOOLEAN, m \in 0..2, j \in {0, 5}}
        Proper(s) == s.negative /\ s.magnitude = 0 => s.type \in {"float", "double", "longDouble", "longDoubleX86"}
        types == {"char", "float", "int", "double", "pair", "longDouble", "longDoubleX86"}
    IN  UNION {{s \in Of(type) : Proper(s)} \X {t \in Of(type) : Proper(t)} : type \in types}

H == INSTANCE KeyHash WITH
        Lengths <- 0..200, Scalars <- ScalarPairs,
        algorithm <- v1, length <- v2, at <- v3, left <- v4, reg <- v5, hash <- v6, pair <- v7

-----------------------------------------------------------------------------
O == INSTANCE Ordering WITH Trios <- (0..31) \X (0..31) \X (0..31), trio <- v1

-----------------------------------------------------------------------------
(* Fills of few words, of as many as there are seeds, and round the bounds *)
(* of the table for t; intervals with and without sign, for engines        *)
(* narrower and wider, of a power of two of outputs and not.               *)

D == INSTANCE RandomDraws WITH
        Fills <- ((0..6) \cup {16, 20}) \X ((1..8) \cup {17, 38, 39, 68}), MaxValues <- 16,
        Intervals <- {i \in (-8..7) \X (-8..7) \X {1, 2, 3, 6, 9, 15} : i[1] <= i[2]},
        ResultModulus <- 16, EngineModulus <- 16,
        task <- v1, round <- v2, first <- v3

\* A xoroshiro of two words of 5 bits has 1023 states; its jump skips 32.  Only one of the two
\* engines has a state at a time, so that v1 serves both.
G == INSTANCE RandomEngines WITH
        Threads <- {1, 2}, W <- 5, Shifts <- <<2, 1, 3>>, Rotations <- <<2, 1, 2>>,
        Jump <- {0, 3, 4, 6, 7, 8}, Stretch <- 32, DefaultSeed <- {0, 2}, Seeds <- {{}, {1}},
        MaxDraws <- 4, MaxSeeds <- 1, MaxForks <- 3,
        state <- v1, pc <- v2, initialState <- v3, drawn <- v4, seeded <- v5, twice <- v6,
        engine <- v7, forks <- v8, zeroWords <- v1

-----------------------------------------------------------------------------
(* Memory resources: two threads and three or four pieces of one block,    *)
(* with a piece too small and one aligned too little for some requests; a  *)
(* buffer without, with and with a large upstream block; an allocator over *)
(* each base, with types that are over-aligned; and the counters of two    *)
(* threads on two CPUs.                                                    *)

S == INSTANCE SingleBlock WITH
        Threads <- {1, 2}, Size <- 20, Alignment <- 2, HeaderSize <- 2, BinSizes <- <<5, 8>>,
        Requests <- {<<1, 1>>, <<3, 4>>, <<6, 1>>}, ReuseRatio <- 10, MaxAllocations <- 4,
        nextEmpty <- v1, heads <- v2, header <- v3, counts <- v4, thread <- v5, held <- v6, overlapped <- v7

Buffered(next, upstream) == [buffer |-> 3, size |-> 21, next |-> next, upstream |-> upstream]

M == INSTANCE MonotonicBuffer WITH
        Modulus <- 256, HeaderSize <- 2,
        Setups <- {Buffered(21, FALSE), Buffered(21, TRUE), Buffered(96, TRUE),
                   [buffer |-> -1, size |-> 0, next |-> 4, upstream |-> TRUE]},
        Requests <- {<<0, 1>>, <<3, 2>>, <<5, 8>>, <<2, 3>>, <<63, 32>>, <<64, 1>>,
                     <<9, 128>>, <<255, 1>>, <<20, 16>>},
        Places <- {26, 120}, MaxHeld <- 2,
        setup <- v1, current <- v2, left <- v3, nextSize <- v4, blocks <- v5, lent <- v6, held <- v7

Type(size, align) == [size |-> size, align |-> align]

R == INSTANCE ResourceStack WITH
        Types <- {Type(1, 1), Type(4, 4), Type(1, 8)}, Counts <- {1, 5, 40},
        SizeMax <- 127, MaxAlign <- 2, PointerSize <- 1,
        HeapStart <- 2, HeapSize <- 40, BlockAlignment <- 2, HeapHeader <- 2,
        MallocPlaces <- {2, 20}, SmallPlaces <- {6, 10}, LargePlaces <- {32, 35},
        Threshold <- 4, MaxMade <- 4,
        base <- v1, heap <- v2, lent <- v3, stored <- v4, tracked <- v5, held <- v6

C == INSTANCE Statistics WITH
        Threads <- {1, 2}, Shards <- 2, MaxAllocations <- 3,
        allocations <- v1, deallocations <- v2, peak <- v3, call <- v4,
        pieces <- v5, made <- v6, most <- v7, callers <- v8

-----------------------------------------------------------------------------
(* A search tree of up to nine keys; one of twelve, as unbalanced as one   *)
(* may be, in which a balance lost at the bottom is lost up to the root;   *)
(* and caches that hold nothing, one or three of four entries.             *)

T == INSTANCE AvlTree WITH
        Keys <- 1..9, Start <- <<>>, Fewest <- 0,
        tree <- v1, asked <- v2, answer <- v3

U == INSTANCE AvlTree WITH
        Keys <- 1..12, Start <- <<8, 5, 11, 3, 7, 10, 12, 2, 4, 6, 9, 1>>, Fewest <- 11,
        tree <- v1, asked <- v2, answer <- v3

L == INSTANCE LruCache WITH
        Keys <- {}, Start <- <<>>, Fewest <- 0,
        Capacities <- {0, 1, 3}, CacheKeys <- 1..4, Values <- {1, 2}, Cells <- 1..3,
        tree <- v1, asked <- v2, answer <- v3, capacity <- v4, list <- v5, recency <- v6

-----------------------------------------------------------------------------
(* The skip list: two threads, on a list of nodes of both heights, of one  *)
(* high node, and on an empty one; there is no memory for a third new node.*)

K == INSTANCE SkipList WITH
        Threads <- {1, 2}, Keys <- {1, 2}, MaxLevels <- 2, Nodes <- 1..3, MaxRetries <- 2, MaxAssists <- 2,
        Scenarios <- {[keys |-> <<1, 2>>, tops |-> <<2, 1>>, calls |-> <<1, 2>>],
                      [keys |-> <<1>>, tops |-> <<2>>, calls |-> <<1, 2>>],
                      [keys |-> <<>>, tops |-> <<>>, calls |-> <<2, 2>>]},
        node <- v1, thread <- v2, calls <- v3

-----------------------------------------------------------------------------
Unused == 0

LibraryInit ==
    \/ subject = "format" /\ F!Init /\ v5 = Unused /\ v6 = Unused /\ v7 = Unused /\ v8 = Unused
    \/ subject = "hash" /\ H!Init /\ v8 = Unused
    \/ /\ subject = "order" /\ O!Init
       /\ v2 = Unused /\ v3 = Unused /\ v4 = Unused /\ v5 = Unused /\ v6 = Unused /\ v7 = Unused /\ v8 = Unused
    \/ /\ subject = "draws" /\ D!Init
       /\ v4 = Unused /\ v5 = Unused /\ v6 = Unused /\ v7 = Unused /\ v8 = Unused
    \/ subject = "shared engine" /\ G!SharedInit /\ v7 = Unused /\ v8 = Unused
    \/ /\ subject = "forked engine" /\ G!EngineInit
       /\ v2 = Unused /\ v3 = Unused /\ v4 = Unused /\ v5 = Unused /\ v6 = Unused
    \/ subject = "single block" /\ S!Init /\ v8 = Unused
    \/ subject = "buffer" /\ M!Init /\ v8 = Unused
    \/ subject = "stack" /\ R!Init /\ v7 = Unused /\ v8 = Unused
    \/ subject = "statistics" /\ C!Init
    \/ subject = "cache" /\ L!CacheInit /\ v7 = Unused /\ v8 = Unused
    \/ /\ \/ subject = "tree" /\ T!TreeInit
          \/ subject = "tall tree" /\ U!TreeInit
       /\ v4 = Unused /\ v5 = Unused /\ v6 = Unused /\ v7 = Unused /\ v8 = Unused
    \/ /\ subject = "skip list" /\ K!Init
       /\ v4 = Unused /\ v5 = Unused /\ v6 = Unused /\ v7 = Unused /\ v8 = Unused

LibraryNext ==
    /\ UNCHANGED subject
    /\ \/ subject = "format" /\ F!Next /\ UNCHANGED <<v5, v6, v7, v8>>
       \/ subject = "hash" /\ H!Next /\ UNCHANGED v8
       \/ subject = "draws" /\ D!Next /\ UNCHANGED <<v4, v5, v6, v7, v8>>
       \/ subject = "shared engine" /\ G!SharedNext /\ UNCHANGED <<v7, v8>>
       \/ subject = "forked engine" /\ G!EngineNext /\ UNCHANGED <<v2, v3, v4, v5, v6>>
       \/ subject = "single block" /\ S!Next /\ UNCHANGED v8
       \/ subject = "buffer" /\ M!Next /\ UNCHANGED v8
       \/ subject = "stack" /\ R!Next /\ UNCHANGED <<v7, v8>>
       \/ subject = "statistics" /\ C!Next
       \/ subject = "tree" /\ T!TreeNext /\ UNCHANGED <<v4, v5, v6, v7, v8>>
       \/ subject = "tall tree" /\ U!TreeNext /\ UNCHANGED <<v4, v5, v6, v7, v8>>
       \/ subject = "cache" /\ L!CacheNext /\ UNCHANGED <<v7, v8>>
       \/ subject = "skip list" /\ K!Next /\ UNCHANGED <<v4, v5, v6, v7, v8>>

LibrarySpec == LibraryInit /\ [][LibraryNext]_libraryVars

-----------------------------------------------------------------------------
\* What is written for a format string is what its documentation says its pieces mean, cut to
\* the buffer (build_format_output and all it calls).
TextMeetsMeaning == subject = "format" => F!TextMeetsMeaning

\* A hash of bytes depends on every byte of the key and on nothing beside it; scalars that are
\* equal hash alike, and integers that differ do not (__murmur2_or_cityhash, __scalar_hash, hash).
HashesReadTheKey == subject = "hash" => H!WholeKeyIsRead /\ H!ScalarsHashByValue

\* Comparisons agree with each other and are the orders they claim to be, NaNs and signed zeros
\* included (the comparison categories, strong_order, weak_order, partial_order, pair).
OrdersAreLawful == subject = "order" => O!OrdersAreLawful

\* Seeds spread over all words, distributions are fair, shared engines repeat nothing, and forked
\* ones do not meet nor stay at zero, unless a caller seeded them with two words of zero (seed_seq,
\* uniform_int_distribution, the random engines).
RandomnessIsSound ==
    /\ subject = "draws" => D!SeedsReachEveryWord /\ D!Fair
    /\ subject = "shared engine" => G!NumbersAreDistinct
    /\ subject = "forked engine" => G!StreamsAreDisjoint

\* What the parts keep for themselves stays true: freed pieces are on their lists, blocks go
\* back to where they came from, counters say how much is out, the tree is balanced, and the
\* cache's map and list agree (single_block_resource, monotonic_buffer_resource, the adapters,
\* memory_resource_statistics, avl_tree, lru_cache).
BooksAreKept ==
    /\ subject = "single block" => S!FreedPiecesAreListed
    /\ subject = "buffer" => M!PiecesAreOwned
    /\ subject = "stack" => R!BalanceIsExact /\ R!HeapIsSound /\ R!PiecesAreUsable
    /\ subject = "statistics" => C!EstimateErrsHigh /\ C!PeakIsSound
    /\ subject \in {"tree", "tall tree"} => T!IsBalanced
    /\ subject = "cache" => L!CacheIsConsistent

\* What SkipList states of skip_list: what is retired cannot be reached, and what is removed is
\* retired in the end (insert, remove).
RetiredIsUnreachable == subject = "skip list" => K!RetiredIsUnreachable
NothingLeaks == subject = "skip list" => K!NothingLeaks

\* Calls answer the truth: of the skip list at a moment of the call, of the tree its iterators
\* included, and of the cache (insert, remove and find; insert, erase, ++ and --; add and find).
AnswersAreTrue ==
    /\ subject = "skip list" => K!AnswersAreTrue
    /\ subject = "tree" => T!TreeAnswersAreTrue
    /\ subject = "tall tree" => U!TreeAnswersAreTrue
    /\ subject = "cache" => L!CacheAnswersAreTrue

\* Each resource keeps AbstractHeap's promise: what callers hold never overlaps (do_allocate
\* and do_deallocate of the resources above).
ImplementsHeap ==
    /\ subject = "single block" => S!Heap!Init
    /\ subject = "buffer" => M!Heap!Init
    /\ subject = "stack" => R!Heap!Init
    /\ [][/\ subject = "single block" => S!Heap!HandOut \/ S!Heap!TakeBack
          /\ subject = "buffer" => M!Heap!HandOut \/ M!Heap!TakeBack
          /\ subject = "stack" => R!Heap!HandOut \/ R!Heap!TakeBack]_libraryVars
=============================================================================
