-------------------------- MODULE SingleArena_proofs --------------------------
(***************************************************************************)
(* The single arena for every number of threads, shards, managers, bins    *)
(* and calls: the steps at the frontier and those of the maintenance       *)
(* windows keep the invariant of SingleArenaRecords_proofs, and what       *)
(* callers rely on follows from it.                                        *)
(***************************************************************************)
EXTENDS SingleArenaRecords_proofs

-----------------------------------------------------------------------------
(* A block at the frontier.                                                *)

AtFront(c) == c.pc \in {"frontAdvance", "frontRecheck", "frontUndo"}

LEMMA ControlPut ==
    ASSUME Control, NEW t \in Threads, NEW d, Moves(t, d), Well(d), arena' = arena,
           AtFront(d) => NextFrontier(d) <= arena.start
    PROVE  Control'
<1>1. \A u \in Threads : call'[u] = IF u = t THEN d ELSE call[u]
  BY DEF Moves
<1>2. \A u \in Threads : ShapeOf(call'[u]) /\ PlaceOf(call'[u])
  BY <1>1 DEF Control, Well
<1>3. ASSUME NEW u \in Threads, call'[u].pc \in {"frontAdvance", "frontRecheck", "frontUndo"}
      PROVE  NextFrontier(call'[u]) <= arena'.start
  BY <1>1, <1>3 DEF Control, Room, AtFront
<1>4. Room'
  BY <1>3 DEF Room, NextFrontier
<1>5. (\A u \in Threads : ShapeOf(call[u]) /\ PlaceOf(call[u]))'
  BY <1>2 DEF ShapeOf, PlaceOf, HasMd, HasReserved, Batching, Windowed
<1> QED
  BY <1>4, <1>5 DEF Control

LEMMA DescribedElse ==
    ASSUME NEW kind, NEW of, IInv(kind, of), NEW t \in Threads, NEW d, Moves(t, d),
           NEW r \in Records,
           \A q \in Records : q # r => record'[q] = record[q],
           record'[r].state \notin Unused => record'[r].block # None /\ record'[r].size \in Sizes,
           \A u \in Threads \ {t} : MdOf(call[u]) # r,
           ~HasLocked(d)
    PROVE  Described'
<1>1. \A q \in Records : record'[q].state \notin Unused => record'[q].block # None /\ record'[q].size \in Sizes
  BY DEF IInv, Described
<1>2. ASSUME NEW u \in Threads, HasLocked(call'[u])
      PROVE  call'[u].block # None /\ record'[call'[u].md].block = call'[u].block
  <2>1. u # t /\ call'[u] = call[u] /\ HasLocked(call[u])
    BY <1>2 DEF Moves
  <2>2. MdOf(call[u]) = call[u].md
    BY <2>1 DEF HasLocked, MdOf
  <2>3. call[u].md \in Records /\ call[u].md # r
    BY <2>1, <2>2, CallFacts DEF IInv
  <2> QED
    BY <2>1, <2>3 DEF IInv, Described
<1> QED
  BY <1>1, <1>2 DEF Described, HasLocked

LEMMA AtFrontFacts ==
    ASSUME NEW kind, NEW of, IInv(kind, of), NEW t \in Threads, AtFront(call[t])
    PROVE  /\ call[t] \in CallType /\ call[t].md = None /\ call[t].reserved # None
           /\ call[t].list = <<>> /\ call[t].batch = <<>> /\ call[t].stolen = 0
           /\ call[t].stage = "first" /\ call[t].word \in Words
           /\ MdOf(call[t]) = None /\ SeenOf(call[t]) = None /\ ClearOf(call[t]) = None
           /\ TransientOf(call[t]) = None /\ TrimOf(call[t]) = None /\ GoneOf(call[t]) = None
           /\ ~Rolls(call[t]) /\ ~Fresh(call[t]) /\ ~HasLocked(call[t])
           /\ (Advanced(call[t]) <=> call[t].pc # "frontAdvance")
           /\ call[t].pc \notin {"lock", "pushPending"}
           /\ (call[t].pc # "frontAdvance" => call[t].block = call[t].word.at)
           /\ NextFrontier(call[t]) <= arena.start /\ NextFrontier(call[t]) \in Blocks
           /\ NextFrontier(call[t]) \in Nat
<1> DEFINE c == call[t]
<1>1. c \in CallType /\ ShapeOf(c) /\ PlaceOf(c) /\ TypeInv /\ Control
  BY QuietStart
<1>2. c.stage = "first" /\ c.reserved # None /\ c.md = None
  BY <1>1 DEF ShapeOf, FirstPcs, HasMd, HasReserved, AtFront
<1>3. ~Batching(c) /\ c.pc # "reducePending"
  BY DEF Batching, AtFront
<1>4. c.list = <<>> /\ c.batch = <<>> /\ c.stolen = 0 /\ c.word \in Words
  BY <1>1, <1>3 DEF ShapeOf, CallType
<1>5. /\ MdOf(c) = None /\ SeenOf(c) = None /\ ClearOf(c) = None
      /\ TransientOf(c) = None /\ TrimOf(c) = None /\ GoneOf(c) = None
      /\ ~Rolls(c) /\ ~Fresh(c) /\ ~HasLocked(c) /\ (Advanced(c) <=> c.pc # "frontAdvance")
      /\ c.pc \notin {"lock", "pushPending"}
  BY <1>2 DEF AtFront, MdOf, SeenOf, ClearOf, TransientOf, TrimOf, GoneOf, Rolls, Fresh, Advanced, HasLocked
<1>6. c.pc # "frontAdvance" => c.block = c.word.at
  BY <1>1 DEF PlaceOf, AtFront
<1>7. NextFrontier(c) <= arena.start
  BY <1>1 DEF Control, Room, AtFront
<1>8. NextFrontier(c) \in Nat /\ NextFrontier(c) % Alignment = 0
  BY <1>1, FrontierFacts
<1>9. arena.start \in Blocks
  BY <1>1 DEF TypeInv
<1>10. NextFrontier(c) \in Blocks
  BY <1>7, <1>8, <1>9, BlockFacts
<1> QED
  BY <1>1, <1>2, <1>4, <1>5, <1>6, <1>7, <1>8, <1>10

\* A thread that only changes its mind about its block: nothing moves.
LEMMA FlightStays ==
    ASSUME NEW kind, NEW of, IInv(kind, of), NEW t \in Threads, NEW d,
           AtFront(call[t]), AtFront(d), Advanced(call[t]), Advanced(d),
           call' = [call EXCEPT ![t] = d], d \in CallType,
           d.md = call[t].md, d.reserved = call[t].reserved, d.list = call[t].list,
           d.batch = call[t].batch, d.stolen = call[t].stolen, d.stage = call[t].stage,
           d.block = call[t].block, d.word = call[t].word, d.bin = call[t].bin,
           d.window = call[t].window,
           UNCHANGED <<frontier, count, managers, header, record, pending, bins, reclaiming, held, late, arena>>
    PROVE  IInv(kind, of)'
<1> DEFINE c == call[t]
<1>1. /\ c \in CallType /\ c.md = None /\ c.reserved # None
      /\ c.list = <<>> /\ c.batch = <<>> /\ c.stolen = 0 /\ c.stage = "first"
      /\ MdOf(c) = None /\ SeenOf(c) = None /\ ClearOf(c) = None
      /\ TransientOf(c) = None /\ TrimOf(c) = None /\ GoneOf(c) = None
      /\ ~Fresh(c) /\ c.pc \notin {"lock", "pushPending"} /\ c.block = c.word.at
  BY AtFrontFacts DEF Advanced
<1>2. ShapeOf(d) /\ PlaceOf(d)
  BY <1>1 DEF ShapeOf, PlaceOf, HasMd, HasReserved, Batching, Windowed, FirstPcs, WindowPcs, Advanced
<1>3. TypeInv
  BY DEF IInv
<1>4. Well(d) /\ Moves(t, d) /\ call' \in [Threads -> CallType]
  BY <1>2, <1>3, MovesTo DEF Well
<1>5. /\ MdOf(d) = None /\ SeenOf(d) = None /\ ClearOf(d) = None /\ TransientOf(d) = None
      /\ TrimOf(d) = None /\ ~Rolls(d) /\ ~Fresh(d) /\ ~HasLocked(d)
      /\ d.pc \notin {"lock", "pushPending", "frontAdvance"}
  BY <1>1 DEF Advanced, MdOf, SeenOf, ClearOf, TransientOf, TrimOf, Rolls, Fresh, HasLocked
<1>6. SameFlight(c, d)
  BY <1>1, <1>5 DEF SameFlight, InFlight
<1>7. TypeInv'
  BY <1>3, <1>4 DEF TypeInv
<1>8. Control' /\ Described' /\ Rolling' /\ LateFrees' /\ Tiling(kind)' /\ Versions'
  <2>1. \A q \in Records : q < count' /\ kind[q] # "seen" => q < count /\ kind[q] # "seen"
    OBVIOUS
  <2>2. Fewer
    BY QuietStart
  <2> QED
    BY <1>1, <1>4, <1>5, <1>6, <2>1, <2>2, Quieter
<1>9. Places(kind, of)'
  BY <1>1, <1>4, <1>5, PlacesStay
<1>10. StatesAt(kind, of)'
  <2>1. StatesAt(kind, of) /\ \A q \in Records : kind[q] \in {"md", "batch"} => of[q] \in Threads
    BY PlacesTyped DEF IInv, ThreadKinds
  <2>2. \A q \in Records : ~In(kind, of, q, "md", t) /\ ~In(kind, of, q, "batch", t)
    BY <1>1, RecordFacts, EmptyRange, InHandFacts
  <2> QED
    BY <1>4, <2>1, <2>2, StatesSame
<1>11. ManagerCounts' /\ Trims'
  BY <1>1, <1>4, <1>5, CountsSame
<1>12. PendingCounts'
  BY <1>1, <1>4, <1>5, PendingSame
<1> QED
  BY <1>7, <1>8, <1>9, <1>10, <1>11, <1>12 DEF IInv

LEMMA FrontRecheckDoubts ==
    ASSUME NEW kind, NEW of, IInv(kind, of), NEW t \in Threads, FrontRecheck(t),
           OverlapsMetadata(NextFrontier(call[t]))
    PROVE  IInv(kind, of)'
<1> DEFINE c == call[t]
           d == [c EXCEPT !.pc = "frontUndo"]
<1>1. /\ c.pc = "frontRecheck" /\ call' = [call EXCEPT ![t] = d]
      /\ UNCHANGED <<frontier, count, managers, header, record, pending, bins, reclaiming, held, late, arena>>
  BY DEF FrontRecheck
<1>2. c \in CallType
  BY QuietStart
<1>3. d \in CallType
  <2>1. "frontUndo" \in Pcs
    BY DEF Pcs, FirstPcs
  <2> QED
    BY <1>2, <2>1 DEF CallType
<1>4. /\ d.pc = "frontUndo" /\ d.md = c.md /\ d.reserved = c.reserved /\ d.list = c.list
      /\ d.batch = c.batch /\ d.stolen = c.stolen /\ d.stage = c.stage
      /\ d.block = c.block /\ d.word = c.word /\ d.bin = c.bin /\ d.window = c.window
  BY <1>2 DEF CallType
<1> HIDE DEF d
<1>5. AtFront(c) /\ AtFront(d) /\ Advanced(c) /\ Advanced(d)
  BY <1>1, <1>4 DEF AtFront, Advanced
<1> QED
  BY <1>1, <1>3, <1>4, <1>5, FlightStays

LEMMA FrontUndoMisses ==
    ASSUME NEW kind, NEW of, IInv(kind, of), NEW t \in Threads, FrontUndo(t),
           frontier # [at |-> NextFrontier(call[t]), pred |-> call[t].word.at]
    PROVE  IInv(kind, of)'
<1> DEFINE c == call[t]
           d == [c EXCEPT !.pc = "frontRecheck"]
<1>1. /\ c.pc = "frontUndo" /\ call' = [call EXCEPT ![t] = d]
      /\ UNCHANGED <<frontier, count, managers, header, record, pending, bins, reclaiming, held, late, arena>>
  BY DEF FrontUndo
<1>2. c \in CallType
  BY QuietStart
<1>3. d \in CallType
  <2>1. "frontRecheck" \in Pcs
    BY DEF Pcs, FirstPcs
  <2> QED
    BY <1>2, <2>1 DEF CallType
<1>4. /\ d.pc = "frontRecheck" /\ d.md = c.md /\ d.reserved = c.reserved /\ d.list = c.list
      /\ d.batch = c.batch /\ d.stolen = c.stolen /\ d.stage = c.stage
      /\ d.block = c.block /\ d.word = c.word /\ d.bin = c.bin /\ d.window = c.window
  BY <1>2 DEF CallType
<1> HIDE DEF d
<1>5. AtFront(c) /\ AtFront(d) /\ Advanced(c) /\ Advanced(d)
  BY <1>1, <1>4 DEF AtFront, Advanced
<1> QED
  BY <1>1, <1>3, <1>4, <1>5, FlightStays

LEMMA FrontPlain ==
    ASSUME NEW kind, NEW of, IInv(kind, of), NEW t \in Threads, NEW d, Well(d), AtFront(call[t]),
           call' = [call EXCEPT ![t] = d],
           UNCHANGED <<count, managers, record, pending, bins, reclaiming, held, late, arena>>,
           frontier' \in Words, frontier'.at <= arena.start, header' \in [Blocks -> HeaderType],
           \A b \in held : header'[b].index = header[b].index,
           d.md = None, d.reserved = call[t].reserved, d.list = <<>>, d.batch = <<>>, d.stolen = 0,
           MdOf(d) = None, SeenOf(d) = None, ClearOf(d) = None, TransientOf(d) = None,
           TrimOf(d) = None, ~Rolls(d), ~HasLocked(d), d.pc \notin {"lock", "pushPending"},
           AtFront(d) => NextFrontier(d) <= arena.start,
           Tiling(kind)'
    PROVE  IInv(kind, of)'
<1> DEFINE c == call[t]
<1>1. /\ c \in CallType /\ c.md = None
      /\ c.list = <<>> /\ c.batch = <<>> /\ c.stolen = 0
      /\ MdOf(c) = None /\ SeenOf(c) = None /\ ClearOf(c) = None
      /\ TransientOf(c) = None /\ TrimOf(c) = None /\ c.pc \notin {"lock", "pushPending"}
  BY AtFrontFacts
<1>2. TypeInv /\ Control /\ LateFrees
  BY DEF IInv
<1>3. Moves(t, d) /\ call' \in [Threads -> CallType]
  BY <1>2, MovesTo DEF Well
<1>4. TypeInv'
  BY <1>2, <1>3 DEF TypeInv
<1>5. Control'
  BY <1>2, <1>3, ControlPut
<1>6. Described'
  <2>1. \A u \in Threads : call[u].md # None => call[u].md \in Records
    BY CallFacts DEF IInv
  <2>2. \A u \in Threads : HasLocked(call[u]) => call[u].md # None
    BY CallFacts DEF IInv
  <2>3. Described
    BY DEF IInv
  <2> QED
    BY <1>3, <2>1, <2>2, <2>3, DescribedSame
<1>7. Rolling'
  BY <1>2, <1>3, RollingSame DEF IInv
<1>8. LateFrees'
  <2>1. \A u \in Threads : call[u].pc = "lock" =>
           /\ call[u].walk \in Records /\ call[u].expected[1] = "inUse"
           /\ call[u].expected[3] \in Nat
    BY CallFacts DEF IInv
  <2>2. \A r \in Records : record[r].version \in Nat
    BY RecordTyped
  <2> QED
    BY <1>1, <1>2, <1>3, <2>1, <2>2, LateFreesSame
<1>9. Versions'
  <2>1. Fewer /\ \A q \in Records : record'[q].version = record[q].version
    BY QuietStart
  <2> QED
    BY <1>2, <1>3, <2>1, VersionsSame DEF IInv
<1>10. Places(kind, of)'
  BY <1>1, <1>3, PlacesStay
<1>11. StatesAt(kind, of)'
  <2>1. StatesAt(kind, of) /\ \A q \in Records : kind[q] \in {"md", "batch"} => of[q] \in Threads
    BY PlacesTyped DEF IInv, ThreadKinds
  <2>2. \A q \in Records : ~In(kind, of, q, "md", t) /\ ~In(kind, of, q, "batch", t)
    BY <1>1, RecordFacts, EmptyRange, InHandFacts
  <2> QED
    BY <1>3, <2>1, <2>2, StatesSame
<1>12. ManagerCounts' /\ Trims'
  BY <1>1, <1>3, CountsSame
<1>13. PendingCounts'
  BY <1>1, <1>3, PendingSame
<1> QED
  BY <1>4, <1>5, <1>6, <1>7, <1>8, <1>9, <1>10, <1>11, <1>12, <1>13 DEF IInv

LEMMA BlockNumbers ==
    ASSUME TypeInv
    PROVE  frontier.at \in Blocks /\ frontier.at \in Nat /\ frontier.pred \in MaybeBlock
           /\ \A b \in Blocks : b \in Nat
           /\ arena.start \in Nat
<1>1. frontier.at \in Blocks /\ frontier.pred \in MaybeBlock /\ arena.start \in Blocks
  BY DEF TypeInv, Words
<1>2. Blocks \subseteq Nat
  BY BlockFacts
<1> QED
  BY <1>1, <1>2

\* The frontier moves up over a block, which the thread has in hand.
LEMMA TilingTakes ==
    ASSUME NEW kind, Tiling(kind), TypeInv, NEW t \in Threads, NEW d, Moves(t, d),
           ~Fresh(call[t]), ~Advanced(call[t]), ~Fresh(d), Advanced(d),
           d.block = frontier.at, d.word.pred = frontier.pred,
           GoneOf(d) = None, GoneOf(call[t]) = None,
           NextFrontier(d) \in Nat, NextFrontier(d) > frontier.at,
           frontier' = [at |-> NextFrontier(d), pred |-> frontier.at],
           UNCHANGED <<count, header, record, arena>>
    PROVE  Tiling(kind)'
<1> PICK W, w, H, h, End, Pred : Tiled(kind, W, w, H, h, End, Pred)
  BY DEF Tiling
<1>1. /\ Owners(W, w, H, h) /\ Extents(W, w, H, h, End, Pred) /\ Cut(W \cup H, End, Pred)
      /\ Middle(kind, W, H, h, End)
  BY DEF Tiled
<1>a. PICK b \in Blocks : b = frontier.at
  BY BlockNumbers
<1>b. PICK e \in Nat : e = NextFrontier(d)
  OBVIOUS
<1>c. PICK J : J = H \cup {b}
  OBVIOUS
<1>d. PICK j : j = [q \in Blocks |-> IF q = b THEN t ELSE h[q]]
  OBVIOUS
<1>e. PICK End2 : End2 = [q \in Blocks |-> IF q = b THEN e ELSE End[q]]
  OBVIOUS
<1>f. PICK Pred2 : Pred2 = [q \in Blocks |-> IF q = b THEN frontier.pred ELSE Pred[q]]
  OBVIOUS
<1>2. \A q \in W \cup H : q \in Blocks /\ q \in Nat /\ End[q] \in Int /\ q < End[q] /\ End[q] <= b /\ q < b
  BY <1>1, <1>a, BlockNumbers DEF Owners, Extents, Cut
<1>3. b \notin W \cup H /\ b \in Nat
  BY <1>2, <1>a, BlockNumbers
<1>4. \A q \in Records : Describes(q)' <=> Describes(q)
  BY DescribesStay
<1>5. \A u \in Threads : call'[u] = IF u = t THEN d ELSE call[u]
  BY DEF Moves
<1>6. \A q \in H : h[q] # t /\ h[q] \in Threads /\ q # b
  BY <1>1, <1>3 DEF Owners
<1>7. j[b] = t /\ \A q \in H : j[q] = h[q]
  BY <1>1, <1>d, <1>6 DEF Owners
<1>8. /\ End2[b] = e /\ Pred2[b] = frontier.pred
      /\ \A q \in W \cup H : End2[q] = End[q] /\ Pred2[q] = Pred[q]
      /\ End2 \in [Blocks -> Int] /\ Pred2 \in [Blocks -> MaybeBlock]
  BY <1>1, <1>2, <1>3, <1>e, <1>f, BlockNumbers DEF Extents
<1>9. Owners(W, w, J, j)'
  <2>1. W \subseteq Blocks /\ J \subseteq Blocks /\ W \cap J = {}
    BY <1>c, <1>1, <1>3 DEF Owners
  <2>2. \A q \in W : w[q] \in Records /\ Describes(w[q])' /\ record'[w[q]].block = q
    BY <1>c, <1>1, <1>4 DEF Owners
  <2>3. \A r \in Records : Describes(r)' => record'[r].block \in W /\ w[record'[r].block] = r
    BY <1>c, <1>1, <1>4 DEF Owners
  <2>4. \A q \in J : /\ j[q] \in Threads /\ call'[j[q]].block = q
                     /\ Fresh(call'[j[q]]) \/ Advanced(call'[j[q]])
    BY <1>c, <1>1, <1>5, <1>6, <1>7, <1>a DEF Owners
  <2>5. \A u \in Threads : Fresh(call'[u]) \/ Advanced(call'[u]) => call'[u].block \in J /\ j[call'[u].block] = u
    BY <1>c, <1>1, <1>5, <1>7, <1>a DEF Owners
  <2> QED
    BY <1>c, <2>1, <2>2, <2>3, <2>4, <2>5 DEF Owners, Fresh, Advanced
<1>10. Extents(W, w, J, j, End2, Pred2)'
  <2>1. \A q \in W : /\ End2[q] = q + header'[q].size /\ Pred2[q] = header'[q].previous
                     /\ record'[w[q]].size = header'[q].size
    BY <1>c, <1>1, <1>8 DEF Extents
  <2>2. ASSUME NEW q \in J
        PROVE  IF Advanced(call'[j[q]])
               THEN End2[q] = NextFrontier(call'[j[q]]) /\ Pred2[q] = call'[j[q]].word.pred
               ELSE End2[q] = q + header'[q].size /\ Pred2[q] = header'[q].previous
                            /\ header'[q].size \in Sizes
    <3>1. CASE q = b
      BY <1>c, <3>1, <1>5, <1>7, <1>8, <1>b
    <3>2. CASE q # b
      <4>1. q \in H /\ call'[j[q]] = call[h[q]]
        BY <1>c, <3>2, <1>5, <1>6, <1>7
      <4> QED
        BY <1>c, <4>1, <1>1, <1>8 DEF Extents
    <3> QED
      BY <1>c, <3>1, <3>2
  <2> QED
    BY <1>c, <2>1, <2>2, <1>8 DEF Extents, Advanced, NextFrontier
<1>11. Cut(W \cup J, End2, Pred2)'
  <2>1. frontier'.at = e /\ frontier'.pred = b /\ b < e
    BY <1>c, <1>a, <1>b, BlockNumbers
  <2>2. \A q \in W \cup J : q < End2[q] /\ End2[q] <= frontier'.at
    BY <1>c, <2>1, <1>2, <1>3, <1>8
  <2>3. ASSUME NEW q \in W \cup J, NEW s \in W \cup J, q < s PROVE End2[q] <= s
    <3>1. CASE q = b
      BY <1>c, <2>3, <3>1, <1>2, <1>3
    <3>2. CASE q # b /\ s = b
      BY <1>c, <3>2, <1>2, <1>8
    <3>3. CASE q # b /\ s # b
      <4>1. q \in W \cup H /\ s \in W \cup H
        BY <1>c, <3>3
      <4> QED
        BY <1>c, <4>1, <2>3, <1>1, <1>8 DEF Cut
    <3> QED
      BY <1>c, <3>1, <3>2, <3>3
  <2>4. \A p, at : Ends(W \cup H, End, p, at) => Ends(W \cup J, End2, p, at)
    BY <1>c, <1>8 DEF Ends
  <2>5. \A q \in W \cup J : Ends(W \cup J, End2, Pred2[q], q)
    <3> TAKE q \in W \cup J
    <3>1. CASE q = b
      BY <1>c, <3>1, <2>4, <1>1, <1>8, <1>a DEF Cut
    <3>2. CASE q # b
      <4>1. q \in W \cup H
        BY <1>c, <3>2
      <4> QED
        BY <1>c, <4>1, <2>4, <1>1, <1>8 DEF Cut
    <3> QED
      BY <1>c, <3>1, <3>2
  <2>6. Ends(W \cup J, End2, frontier'.pred, frontier'.at)
    <3>1. b # None
      BY <1>c, BlockFacts
    <3> QED
      BY <1>c, <2>1, <3>1, <1>8 DEF Ends
  <2> QED
    BY <1>c, <2>2, <2>3, <2>5, <2>6 DEF Cut
<1>12. Middle(kind, W, J, j, End2)'
  <2> SUFFICES ASSUME NEW q \in W \cup J, NEW r \in Records, Settled(W, J, j, q)', r < count', kind[r] # "seen"
               PROVE  End2[q] <= RecordAt(r)'
    BY <1>c DEF Middle
  <2>1. RecordAt(r)' = RecordAt(r)
    BY <1>c DEF RecordAt
  <2>2. q \in W \/ (q \in J /\ ~Advanced(call'[j[q]]))
    BY <1>c DEF Settled
  <2>3. q # b
    BY <1>c, <2>2, <1>3, <1>5, <1>7
  <2>4. q \in W \/ (q \in H /\ ~Advanced(call[h[q]]))
    BY <1>c, <2>2, <2>3, <1>5, <1>6, <1>7
  <2> QED
    BY <1>c, <2>1, <2>4, <1>1, <1>8 DEF Middle, Settled
<1>13. Tiled(kind, W, w, J, j, End2, Pred2)'
  BY <1>c, <1>9, <1>10, <1>11, <1>12 DEF Tiled
<1> QED
  BY <1>c, <1>13 DEF Tiling

LEMMA FrontAdvances ==
    ASSUME NEW kind, NEW of, IInv(kind, of), NEW t \in Threads, FrontAdvance(t),
           frontier = call[t].word
    PROVE  IInv(kind, of)'
<1> DEFINE c == call[t]
           d == [c EXCEPT !.pc = "frontRecheck", !.block = c.word.at]
<1>1. /\ c.pc = "frontAdvance"
      /\ frontier' = [at |-> NextFrontier(c), pred |-> c.word.at]
      /\ call' = [call EXCEPT ![t].pc = "frontRecheck", ![t].block = c.word.at]
      /\ UNCHANGED <<count, managers, header, record, pending, bins, reclaiming, held, late, arena>>
  BY DEF FrontAdvance
<1>2. AtFront(c) /\ TypeInv /\ call \in [Threads -> CallType]
  BY <1>1 DEF AtFront, IInv, TypeInv
<1>3. /\ c \in CallType /\ c.md = None /\ c.reserved # None
      /\ c.list = <<>> /\ c.batch = <<>> /\ c.stolen = 0 /\ c.stage = "first" /\ c.word \in Words
      /\ GoneOf(c) = None /\ ~Fresh(c) /\ ~Advanced(c)
      /\ NextFrontier(c) <= arena.start /\ NextFrontier(c) \in Blocks /\ NextFrontier(c) \in Nat
  BY <1>1, <1>2, AtFrontFacts
<1>4. c.word.at \in Blocks /\ c.word.at # None /\ NextFrontier(c) > c.word.at
  BY <1>3, FrontierFacts, BlockFacts
<1>5. d \in CallType
  <2>1. "frontRecheck" \in Pcs /\ c.word.at \in MaybeBlock
    BY <1>4 DEF Pcs, FirstPcs, MaybeBlock
  <2> QED
    BY <1>3, <2>1 DEF CallType
<1>6. call' = [call EXCEPT ![t] = d]
  BY <1>1, <1>2, <1>3 DEF CallType
<1>7. /\ d.pc = "frontRecheck" /\ d.md = c.md /\ d.reserved = c.reserved /\ d.list = c.list
      /\ d.batch = c.batch /\ d.stolen = c.stolen /\ d.stage = c.stage
      /\ d.block = c.word.at /\ d.word = c.word /\ d.bin = c.bin
  BY <1>3 DEF CallType
<1> HIDE DEF d
<1>8. NextFrontier(d) = NextFrontier(c)
  BY <1>7 DEF NextFrontier
<1>9. ShapeOf(d) /\ PlaceOf(d)
  BY <1>3, <1>7 DEF ShapeOf, PlaceOf, HasMd, HasReserved, Batching, Windowed, FirstPcs, WindowPcs
<1>10. Well(d) /\ Moves(t, d)
  BY <1>2, <1>5, <1>6, <1>9, MovesTo DEF Well
<1>11. /\ MdOf(d) = None /\ SeenOf(d) = None /\ ClearOf(d) = None /\ TransientOf(d) = None
       /\ TrimOf(d) = None /\ GoneOf(d) = None /\ ~Rolls(d) /\ ~Fresh(d) /\ Advanced(d) /\ ~HasLocked(d)
  BY <1>3, <1>7 DEF MdOf, SeenOf, ClearOf, TransientOf, TrimOf, GoneOf, Rolls, Fresh, Advanced, HasLocked
<1>12. Tiling(kind)'
  <2>1. d.block = frontier.at /\ d.word.pred = frontier.pred /\ NextFrontier(d) > frontier.at
        /\ frontier' = [at |-> NextFrontier(d), pred |-> frontier.at] /\ NextFrontier(d) \in Nat
    BY <1>1, <1>3, <1>4, <1>7, <1>8
  <2>2. Tiling(kind)
    BY DEF IInv
  <2> QED
    BY <1>1, <1>2, <1>3, <1>10, <1>11, <2>1, <2>2, TilingTakes
<1>13. frontier' \in Words /\ frontier'.at <= arena.start
  BY <1>1, <1>3, <1>4 DEF Words, MaybeBlock
<1>14. header' \in [Blocks -> HeaderType] /\ \A b \in held : header'[b].index = header[b].index
  BY <1>1, <1>2 DEF TypeInv
<1>15. /\ d.md = None /\ d.list = <<>> /\ d.batch = <<>> /\ d.stolen = 0 /\ d.reserved = c.reserved
       /\ d.pc \notin {"lock", "pushPending"} /\ NextFrontier(d) <= arena.start
  BY <1>3, <1>7, <1>8
<1> QED
  BY <1>1, <1>2, <1>6, <1>10, <1>11, <1>12, <1>13, <1>14, <1>15, FrontPlain

\* The thread keeps the block it took: it writes the size and the link of its header.
LEMMA TilingKeeps ==
    ASSUME NEW kind, Tiling(kind), TypeInv, NEW t \in Threads, NEW d, Moves(t, d), NEW b \in Blocks,
           NEW e, e = NextFrontier(call[t]),
           Advanced(call[t]), ~Fresh(call[t]), Fresh(d), ~Advanced(d),
           call[t].block = b, d.block = b, GoneOf(d) = None, GoneOf(call[t]) = None,
           header' \in [Blocks -> HeaderType], e = b + header'[b].size, header'[b].size \in Sizes,
           header'[b].previous = call[t].word.pred,
           \A q \in Blocks : q # b => header'[q] = header[q],
           UNCHANGED <<frontier, count, record, arena>>,
           \A r \in Records : r < count /\ kind[r] # "seen" => e <= RecordAt(r)
    PROVE  Tiling(kind)'
<1> PICK W, w, H, h, End, Pred : Tiled(kind, W, w, H, h, End, Pred)
  BY DEF Tiling
<1>1. /\ Owners(W, w, H, h) /\ Extents(W, w, H, h, End, Pred) /\ Cut(W \cup H, End, Pred)
      /\ Middle(kind, W, H, h, End)
  BY DEF Tiled
<1>2. \A q \in Records : Describes(q)' <=> Describes(q)
  BY DescribesStay
<1>3. \A u \in Threads : call'[u] = IF u = t THEN d ELSE call[u]
  BY DEF Moves
<1>4. b \in H /\ h[b] = t /\ b \notin W /\ \A q \in H : q # b => h[q] # t /\ h[q] \in Threads
  BY <1>1 DEF Owners
<1>5. End[b] = e /\ Pred[b] = call[t].word.pred
  BY <1>1, <1>4 DEF Extents
<1>6. Owners(W, w, H, h)'
  <2>1. \A q \in H : /\ h[q] \in Threads /\ call'[h[q]].block = q
                     /\ Fresh(call'[h[q]]) \/ Advanced(call'[h[q]])
    BY <1>1, <1>3, <1>4 DEF Owners
  <2>2. \A u \in Threads : Fresh(call'[u]) \/ Advanced(call'[u]) => call'[u].block \in H /\ h[call'[u].block] = u
    BY <1>1, <1>3, <1>4 DEF Owners
  <2> QED
    BY <1>1, <1>2, <2>1, <2>2 DEF Owners, Fresh, Advanced
<1>7. Extents(W, w, H, h, End, Pred)'
  <2>1. \A q \in W : /\ End[q] = q + header'[q].size /\ Pred[q] = header'[q].previous
                     /\ record'[w[q]].size = header'[q].size
    <3>1. \A q \in W : q \in Blocks /\ q # b
      BY <1>1, <1>4 DEF Owners
    <3> QED
      BY <1>1, <3>1 DEF Extents
  <2>2. ASSUME NEW q \in H
        PROVE  IF Advanced(call'[h[q]])
               THEN End[q] = NextFrontier(call'[h[q]]) /\ Pred[q] = call'[h[q]].word.pred
               ELSE End[q] = q + header'[q].size /\ Pred[q] = header'[q].previous
                            /\ header'[q].size \in Sizes
    <3>1. CASE q = b
      BY <3>1, <1>3, <1>4, <1>5
    <3>2. CASE q # b
      <4>1. q \in Blocks /\ call'[h[q]] = call[h[q]] /\ header'[q] = header[q]
        BY <3>2, <1>1, <1>3, <1>4 DEF Owners
      <4> QED
        BY <4>1, <1>1 DEF Extents
    <3> QED
      BY <3>1, <3>2
  <2>3. End \in [Blocks -> Int] /\ Pred \in [Blocks -> MaybeBlock]
    BY <1>1 DEF Extents
  <2> QED
    BY <2>1, <2>2, <2>3 DEF Extents, Advanced, NextFrontier
<1>8. Cut(W \cup H, End, Pred)'
  BY <1>1, CutSame
<1>9. Middle(kind, W, H, h, End)'
  <2> SUFFICES ASSUME NEW q \in W \cup H, NEW r \in Records, Settled(W, H, h, q)', r < count', kind[r] # "seen"
               PROVE  End[q] <= RecordAt(r)'
    BY DEF Middle
  <2>1. RecordAt(r)' = RecordAt(r) /\ r < count
    BY DEF RecordAt
  <2>2. CASE q = b
    BY <2>1, <2>2, <1>5
  <2>3. CASE q # b
    <3>1. q \in W \/ (q \in H /\ ~Advanced(call'[h[q]]))
      BY DEF Settled
    <3>2. q \in W \/ (q \in H /\ ~Advanced(call[h[q]]))
      BY <2>3, <3>1, <1>3, <1>4
    <3> QED
      BY <2>1, <3>2, <1>1 DEF Middle, Settled
  <2> QED
    BY <2>2, <2>3
<1>10. Tiled(kind, W, w, H, h, End, Pred)'
  BY <1>6, <1>7, <1>8, <1>9 DEF Tiled
<1> QED
  BY <1>10 DEF Tiling

LEMMA FrontKeeps ==
    ASSUME NEW kind, NEW of, IInv(kind, of), NEW t \in Threads, FrontRecheck(t),
           ~OverlapsMetadata(NextFrontier(call[t]))
    PROVE  IInv(kind, of)'
<1> DEFINE c == call[t]
           d == [c EXCEPT !.pc = "finish", !.word = Idle.word]
<1>1. /\ c.pc = "frontRecheck"
      /\ header' = [header EXCEPT ![c.block].size = NextFrontier(c) - c.block,
                                  ![c.block].previous = c.word.pred]
      /\ call' = [call EXCEPT ![t].pc = "finish", ![t].word = Idle.word]
      /\ UNCHANGED <<frontier, count, managers, record, pending, bins, reclaiming, held, late, arena>>
  BY DEF FrontRecheck, Kept
<1>2. AtFront(c) /\ TypeInv /\ call \in [Threads -> CallType]
  BY <1>1 DEF AtFront, IInv, TypeInv
<1>3. /\ c \in CallType /\ c.md = None /\ c.reserved # None
      /\ c.list = <<>> /\ c.batch = <<>> /\ c.stolen = 0 /\ c.stage = "first" /\ c.word \in Words
      /\ GoneOf(c) = None /\ ~Fresh(c) /\ Advanced(c) /\ c.block = c.word.at
  BY <1>1, <1>2, AtFrontFacts
<1>4. /\ c.word.at \in Blocks /\ c.word.at \in Nat /\ c.word.pred \in MaybeBlock
      /\ NextFrontier(c) = c.word.at + AlignUp(BinSize(c.bin)) /\ NextFrontier(c) \in Nat
      /\ AlignUp(BinSize(c.bin)) \in Sizes /\ AlignUp(BinSize(c.bin)) \in Nat
  BY <1>3, FrontierFacts, SizesPositive DEF Words
<1>5. d \in CallType
  <2>1. "finish" \in Pcs /\ Idle.word \in Words
    BY BlockFacts DEF Pcs, Idle, Words, MaybeBlock
  <2> QED
    BY <1>3, <2>1 DEF CallType
<1>6. call' = [call EXCEPT ![t] = d]
  BY <1>1, <1>2, <1>3 DEF CallType
<1>7. /\ d.pc = "finish" /\ d.md = c.md /\ d.reserved = c.reserved /\ d.list = c.list
      /\ d.batch = c.batch /\ d.stolen = c.stolen /\ d.stage = c.stage /\ d.block = c.block
  BY <1>3 DEF CallType
<1> HIDE DEF d
<1>8. ShapeOf(d) /\ PlaceOf(d)
  BY <1>3, <1>7 DEF ShapeOf, PlaceOf, HasMd, HasReserved, Batching, Windowed, FirstPcs, WindowPcs
<1>9. Well(d) /\ Moves(t, d)
  BY <1>2, <1>5, <1>6, <1>8, MovesTo DEF Well
<1>10. /\ MdOf(d) = None /\ SeenOf(d) = None /\ ClearOf(d) = None /\ TransientOf(d) = None
       /\ TrimOf(d) = None /\ GoneOf(d) = None /\ ~Rolls(d) /\ Fresh(d) /\ ~Advanced(d) /\ ~HasLocked(d)
  BY <1>3, <1>7 DEF MdOf, SeenOf, ClearOf, TransientOf, TrimOf, GoneOf, Rolls, Fresh, Advanced, HasLocked
<1>11. PICK b \in Blocks : b = c.word.at
  BY <1>4
<1>12. PICK s \in Nat : s = AlignUp(BinSize(c.bin))
  BY <1>4
<1>13. PICK e \in Nat : e = NextFrontier(c)
  BY <1>4
<1>14. e = b + s /\ b \in Nat /\ e - b = s
  BY <1>4, <1>11, <1>12, <1>13
<1>15. header \in [Blocks -> HeaderType]
  BY <1>2 DEF TypeInv
<1>16. header' = [header EXCEPT ![b].size = s, ![b].previous = c.word.pred]
  BY <1>1, <1>3, <1>11, <1>13, <1>14
<1>17. header' \in [Blocks -> HeaderType]
  <2>1. s \in Int /\ c.word.pred \in MaybeBlock
    BY <1>4
  <2>2. PICK p \in MaybeBlock : p = c.word.pred
    BY <2>1
  <2>3. header' = [header EXCEPT ![b] = [header[b] EXCEPT !.size = s, !.previous = p]]
    BY <1>15, <1>16, <2>2
  <2>4. [header[b] EXCEPT !.size = s, !.previous = p] \in HeaderType
    BY <1>15, <2>1 DEF HeaderType
  <2> QED
    BY <1>15, <2>3, <2>4
<1>18. /\ header'[b].size = s /\ header'[b].previous = c.word.pred
       /\ \A q \in Blocks : q # b => header'[q] = header[q]
       /\ \A q \in Blocks : header'[q].index = header[q].index
  BY <1>15, <1>16 DEF HeaderType
<1>19. \A r \in Records : r < count => e <= RecordAt(r)
  <2> SUFFICES ASSUME NEW r \in Records, r < count PROVE e <= RecordAt(r)
    OBVIOUS
  <2>1. r \in Nat /\ count + 1 \in Nat /\ r <= count + 1
    BY <1>2, RecordFacts DEF TypeInv
  <2>2. arena.start \in Nat
    BY <1>2, BlockNumbers
  <2>3. arena.start - (count + 1) * Alignment <= arena.start - r * Alignment
    BY <2>1, <2>2, RecordAtFacts
  <2>4. RecordAt(count + 1) \in Int /\ RecordAt(r) \in Int
    BY <1>2, <2>1, RecordAtBounds
  <2>5. RecordAt(count + 1) <= RecordAt(r)
    BY <2>3 DEF RecordAt
  <2>6. ~(e >= RecordAt(count + 1))
    BY <1>13 DEF OverlapsMetadata
  <2> QED
    BY <2>4, <2>5, <2>6
<1>20. Tiling(kind)'
  <2>1. Tiling(kind)
    BY DEF IInv
  <2>2. e = NextFrontier(call[t]) /\ call[t].block = b /\ d.block = b /\ e = b + header'[b].size
        /\ header'[b].size \in Sizes
    BY <1>3, <1>4, <1>7, <1>11, <1>12, <1>13, <1>14, <1>18
  <2> QED
    BY <1>1, <1>2, <1>3, <1>9, <1>10, <1>17, <1>18, <1>19, <2>1, <2>2, TilingKeeps
<1>21. frontier' \in Words /\ frontier'.at <= arena.start
  BY <1>1, <1>2 DEF TypeInv
<1>22. \A q \in held : header'[q].index = header[q].index
  BY <1>2, <1>18 DEF TypeInv
<1>23. /\ d.md = None /\ d.list = <<>> /\ d.batch = <<>> /\ d.stolen = 0 /\ d.reserved = c.reserved
       /\ d.pc \notin {"lock", "pushPending"} /\ ~AtFront(d)
  BY <1>3, <1>7 DEF AtFront
<1> QED
  BY <1>1, <1>2, <1>6, <1>9, <1>10, <1>17, <1>20, <1>21, <1>22, <1>23, FrontPlain

\* The frontier goes back over the last block, and only over that one.
LEMMA CutLoses ==
    ASSUME NEW B, NEW End, NEW Pred, Cut(B, End, Pred), TypeInv, B \subseteq Blocks,
           End \in [Blocks -> Int], NEW b \in B, End[b] = frontier.at,
           NEW A, A = B \ {b}, frontier' = [at |-> b, pred |-> Pred[b]]
    PROVE  Cut(A, End, Pred)'
<1>1. \A q \in B : q \in Nat /\ End[q] \in Int /\ q < End[q] /\ End[q] <= frontier.at
  BY BlockNumbers DEF Cut
<1>2. \A q \in A : q \in B /\ q # b
  OBVIOUS
<1>3. \A q \in A : q < b /\ End[q] <= b
  <2> SUFFICES ASSUME NEW q \in A PROVE q < b /\ End[q] <= b
    OBVIOUS
  <2>1. q \in Nat /\ b \in Nat /\ End[q] \in Int /\ q < End[q] /\ End[q] <= End[b] /\ q # b
    BY <1>1, <1>2
  <2>2. q < b => End[q] <= b
    BY <1>2 DEF Cut
  <2>3. b < q => End[b] <= q
    BY <1>2 DEF Cut
  <2>4. End[b] \in Int
    BY <1>1
  <2> QED
    BY <2>1, <2>2, <2>3, <2>4
<1>4. frontier'.at = b /\ frontier'.pred = Pred[b]
  OBVIOUS
<1>5. ASSUME NEW p, NEW at, at \in B, Ends(B, End, p, at)
      PROVE  Ends(A, End, p, at)
  <2>1. CASE p = None
    BY <2>1, <1>5 DEF Ends
  <2>2. CASE p # None
    <3>1. p \in B /\ End[p] = at
      BY <2>2, <1>5 DEF Ends
    <3>2. p # b
      <4>1. at < End[at] /\ End[at] <= frontier.at /\ at \in Nat /\ End[at] \in Int
        BY <1>1, <1>5
      <4>2. frontier.at \in Nat
        BY BlockNumbers
      <4> QED
        BY <4>1, <4>2, <3>1
    <3> QED
      BY <2>2, <3>1, <3>2 DEF Ends
  <2> QED
    BY <2>1, <2>2
<1>6. \A q \in A : Ends(A, End, Pred[q], q)
  BY <1>2, <1>5 DEF Cut
<1>7. Ends(A, End, Pred[b], b)
  BY <1>5 DEF Cut
<1>8. \A q \in A : q < End[q] /\ End[q] <= frontier'.at
  BY <1>1, <1>2, <1>3, <1>4
<1>9. \A q, s \in A : q < s => End[q] <= s
  BY <1>2 DEF Cut
<1> QED
  BY <1>4, <1>6, <1>7, <1>8, <1>9 DEF Cut

\* A thread gives the block it took back.
LEMMA TilingUndoes ==
    ASSUME NEW kind, Tiling(kind), TypeInv, NEW t \in Threads, NEW d, Moves(t, d),
           Advanced(call[t]), ~Fresh(call[t]), ~Fresh(d), ~Advanced(d),
           GoneOf(d) = None, GoneOf(call[t]) = None, call[t].block = call[t].word.at,
           frontier.at = NextFrontier(call[t]), frontier' = call[t].word, call[t].word \in Words,
           UNCHANGED <<count, header, record, arena>>
    PROVE  Tiling(kind)'
<1> PICK W, w, H, h, End, Pred : Tiled(kind, W, w, H, h, End, Pred)
  BY DEF Tiling
<1>1. /\ Owners(W, w, H, h) /\ Extents(W, w, H, h, End, Pred) /\ Cut(W \cup H, End, Pred)
      /\ Middle(kind, W, H, h, End)
  BY DEF Tiled
<1>2. \A q \in Records : Describes(q)' <=> Describes(q)
  BY DescribesStay
<1>3. \A u \in Threads : call'[u] = IF u = t THEN d ELSE call[u]
  BY DEF Moves
<1>4. PICK b : b = call[t].block
  OBVIOUS
<1>5. b \in H /\ h[b] = t /\ b \notin W /\ W \subseteq Blocks /\ H \subseteq Blocks
  BY <1>1, <1>4 DEF Owners
<1>6. PICK J : J = H \ {b}
  OBVIOUS
<1>7. \A q \in J : q \in H /\ h[q] # t /\ h[q] \in Threads /\ call'[h[q]] = call[h[q]]
  BY <1>1, <1>3, <1>5, <1>6 DEF Owners
<1>8. End[b] = frontier.at /\ Pred[b] = call[t].word.pred
  BY <1>1, <1>5 DEF Extents
<1>9. Owners(W, w, J, h)'
  <2>1. \A q \in J : /\ h[q] \in Threads /\ call'[h[q]].block = q
                     /\ Fresh(call'[h[q]]) \/ Advanced(call'[h[q]])
    BY <1>1, <1>7 DEF Owners
  <2>2. \A u \in Threads : Fresh(call'[u]) \/ Advanced(call'[u]) => call'[u].block \in J /\ h[call'[u].block] = u
    BY <1>1, <1>3, <1>5, <1>6 DEF Owners
  <2>3. W \cap J = {} /\ J \subseteq Blocks
    BY <1>1, <1>6 DEF Owners
  <2> QED
    BY <1>1, <1>2, <2>1, <2>2, <2>3 DEF Owners, Fresh, Advanced
<1>10. Extents(W, w, J, h, End, Pred)'
  <2>1. \A q \in W : /\ End[q] = q + header'[q].size /\ Pred[q] = header'[q].previous
                     /\ record'[w[q]].size = header'[q].size
    BY <1>1 DEF Extents
  <2>2. \A q \in J :
           IF Advanced(call'[h[q]])
           THEN End[q] = NextFrontier(call'[h[q]]) /\ Pred[q] = call'[h[q]].word.pred
           ELSE End[q] = q + header'[q].size /\ Pred[q] = header'[q].previous
                        /\ header'[q].size \in Sizes
    BY <1>1, <1>7 DEF Extents
  <2>3. End \in [Blocks -> Int] /\ Pred \in [Blocks -> MaybeBlock]
    BY <1>1 DEF Extents
  <2> QED
    BY <2>1, <2>2, <2>3 DEF Extents, Advanced, NextFrontier
<1>11. Cut(W \cup J, End, Pred)'
  <2>1. W \cup J = (W \cup H) \ {b} /\ b \in W \cup H /\ W \cup H \subseteq Blocks
    BY <1>5, <1>6
  <2>2. End \in [Blocks -> Int]
    BY <1>1 DEF Extents
  <2>3. frontier' = [at |-> b, pred |-> Pred[b]]
    BY <1>4, <1>8 DEF Words
  <2> QED
    BY <1>1, <1>8, <2>1, <2>2, <2>3, CutLoses
<1>12. Middle(kind, W, J, h, End)'
  <2> SUFFICES ASSUME NEW q \in W \cup J, NEW r \in Records, Settled(W, J, h, q)', r < count', kind[r] # "seen"
               PROVE  End[q] <= RecordAt(r)'
    BY DEF Middle
  <2>1. RecordAt(r)' = RecordAt(r) /\ r < count
    BY DEF RecordAt
  <2>2. q \in W \/ (q \in J /\ ~Advanced(call'[h[q]]))
    BY DEF Settled
  <2>3. q \in W \/ (q \in H /\ ~Advanced(call[h[q]]))
    BY <2>2, <1>7
  <2> QED
    BY <2>1, <2>3, <1>1 DEF Middle, Settled
<1>13. Tiled(kind, W, w, J, h, End, Pred)'
  BY <1>9, <1>10, <1>11, <1>12 DEF Tiled
<1> QED
  BY <1>13 DEF Tiling

LEMMA FrontUndoes ==
    ASSUME NEW kind, NEW of, IInv(kind, of), NEW t \in Threads, FrontUndo(t),
           frontier = [at |-> NextFrontier(call[t]), pred |-> call[t].word.at]
    PROVE  IInv(kind, of)'
<1> DEFINE c == call[t]
           n == NoFrontierBlock(c)
           d == [n EXCEPT !.block = None]
<1>1. /\ c.pc = "frontUndo" /\ frontier' = c.word /\ call' = [call EXCEPT ![t] = d]
      /\ UNCHANGED <<count, managers, header, record, pending, bins, reclaiming, held, late, arena>>
  BY DEF FrontUndo
<1>2. AtFront(c) /\ TypeInv /\ call \in [Threads -> CallType]
  BY <1>1 DEF AtFront, IInv, TypeInv
<1>3. /\ c \in CallType /\ c.md = None /\ c.reserved # None
      /\ c.list = <<>> /\ c.batch = <<>> /\ c.stolen = 0 /\ c.stage = "first" /\ c.word \in Words
      /\ GoneOf(c) = None /\ ~Fresh(c) /\ Advanced(c) /\ c.block = c.word.at
  BY <1>1, <1>2, AtFrontFacts
<1>4. Well(n) /\ Quiet(n) /\ Keeps(c, n)
  BY <1>3, NoFrontierBlockFacts
<1>5. n.pc \in {"openWindow", "search"} /\ n.stage = "forced"
  <2>1. PICK m \in CallType : m = [c EXCEPT !.back = "search", !.stage = "forced", !.force = TRUE,
                                            !.window = c.shard, !.word = Idle.word]
    <3>1. Idle.word \in Words /\ c.shard \in Shards
      BY <1>3, BlockFacts DEF CallType, Idle, Words, MaybeBlock
    <3> QED
      BY <1>3, <3>1 DEF CallType
  <2>2. m.back = "search" /\ m.stage = "forced"
    BY <1>3, <2>1 DEF CallType
  <2>3. n = Opening(m)
    BY <2>1 DEF NoFrontierBlock
  <2> QED
    BY <2>1, <2>2, <2>3 DEF Opening, Returned, CallType
<1>6. n \in CallType /\ ShapeOf(n) /\ PlaceOf(n)
  BY <1>4 DEF Well
<1> HIDE DEF n
<1>7. d \in CallType
  BY <1>6 DEF CallType, MaybeBlock
<1>8. /\ d.pc = n.pc /\ d.stage = n.stage /\ d.md = n.md /\ d.reserved = n.reserved /\ d.list = n.list
      /\ d.batch = n.batch /\ d.stolen = n.stolen /\ d.back = n.back /\ d.after = n.after
  BY <1>6 DEF CallType
<1> HIDE DEF d
<1>9. ShapeOf(d) /\ PlaceOf(d)
  BY <1>5, <1>6, <1>8 DEF ShapeOf, PlaceOf, HasMd, HasReserved, Batching, Windowed, FirstPcs, WindowPcs
<1>10. Well(d) /\ Moves(t, d)
  BY <1>1, <1>2, <1>7, <1>9, MovesTo DEF Well
<1>11. d.md = None /\ d.list = <<>> /\ d.batch = <<>> /\ d.stolen = 0 /\ d.reserved = c.reserved
  <2>1. n.md = None
    BY <1>4, <1>6, QuietFacts
  <2> QED
    BY <2>1, <1>3, <1>4, <1>8 DEF Keeps
<1>12. Quiet(d)
  BY <1>5, <1>8 DEF Quiet, QuietPcs
<1>13. /\ MdOf(d) = None /\ SeenOf(d) = None /\ ClearOf(d) = None /\ TransientOf(d) = None
       /\ TrimOf(d) = None /\ GoneOf(d) = None /\ ~Rolls(d) /\ ~Fresh(d) /\ ~Advanced(d) /\ ~HasLocked(d)
       /\ d.pc \notin {"lock", "pushPending"}
  BY <1>7, <1>9, <1>12, QuietFacts
<1>14. ~AtFront(d)
  BY <1>5, <1>8 DEF AtFront
<1>15. Tiling(kind)'
  <2>1. Tiling(kind)
    BY DEF IInv
  <2>2. frontier.at = NextFrontier(call[t])
    OBVIOUS
  <2> QED
    BY <1>1, <1>2, <1>3, <1>10, <1>13, <2>1, <2>2, TilingUndoes
<1>16. frontier' \in Words /\ frontier'.at <= arena.start
  <2>1. NextFrontier(c) > c.word.at /\ NextFrontier(c) <= arena.start
    BY <1>2, <1>3, AtFrontFacts, FrontierFacts
  <2>2. c.word.at \in Nat /\ NextFrontier(c) \in Nat /\ arena.start \in Nat
    BY <1>2, <1>3, FrontierFacts, BlockNumbers
  <2> QED
    BY <1>1, <1>3, <2>1, <2>2
<1>17. header' \in [Blocks -> HeaderType] /\ \A q \in held : header'[q].index = header[q].index
  BY <1>1, <1>2 DEF TypeInv
<1> QED
  BY <1>1, <1>2, <1>10, <1>11, <1>13, <1>14, <1>15, <1>16, <1>17, FrontPlain

\* The block of a thread becomes the block of a record.
LEMMA TilingWrites ==
    ASSUME NEW kind, NEW new, Tiling(kind), TypeInv, NEW t \in Threads, NEW d, Moves(t, d),
           Fresh(call[t]), ~Fresh(d), ~Advanced(d), GoneOf(d) = None, GoneOf(call[t]) = None,
           NEW r \in Records, NEW b, b = call[t].block, ~Describes(r), Describes(r)',
           record'[r].block = b, record'[r].size = header[b].size,
           \A q \in Records : q # r => record'[q] = record[q],
           \A q \in Blocks : /\ header'[q].size = header[q].size
                             /\ header'[q].previous = header[q].previous,
           UNCHANGED <<frontier, count, arena>>,
           \A q \in Records : q < count' /\ new[q] # "seen" => q < count /\ kind[q] # "seen"
    PROVE  Tiling(new)'
<1> PICK W, w, H, h, End, Pred : Tiled(kind, W, w, H, h, End, Pred)
  BY DEF Tiling
<1>1. /\ Owners(W, w, H, h) /\ Extents(W, w, H, h, End, Pred) /\ Cut(W \cup H, End, Pred)
      /\ Middle(kind, W, H, h, End)
  BY DEF Tiled
<1>2. \A q \in Records : q # r => (Describes(q)' <=> Describes(q))
  BY DescribesSame
<1>3. \A u \in Threads : call'[u] = IF u = t THEN d ELSE call[u]
  BY DEF Moves
<1>4. b \in H /\ h[b] = t /\ b \notin W /\ W \subseteq Blocks /\ H \subseteq Blocks /\ ~Advanced(call[t])
  BY <1>1 DEF Owners, Fresh, Advanced
<1>5. PICK J : J = H \ {b}
  OBVIOUS
<1>6. PICK V : V = W \cup {b}
  OBVIOUS
<1>7. PICK v : v = [q \in Blocks |-> IF q = b THEN r ELSE w[q]]
  OBVIOUS
<1>8. v[b] = r /\ \A q \in W : v[q] = w[q] /\ q # b
  BY <1>4, <1>7
<1>9. \A q \in J : q \in H /\ h[q] # t /\ h[q] \in Threads /\ call'[h[q]] = call[h[q]]
  BY <1>1, <1>3, <1>4, <1>5 DEF Owners
<1>10. End[b] = b + header[b].size /\ Pred[b] = header[b].previous
  BY <1>1, <1>4 DEF Extents
<1>11. \A q \in W : w[q] # r
  BY <1>1 DEF Owners
<1>12. Owners(V, v, J, h)'
  <2>1. \A q \in J : /\ h[q] \in Threads /\ call'[h[q]].block = q
                     /\ Fresh(call'[h[q]]) \/ Advanced(call'[h[q]])
    BY <1>1, <1>9 DEF Owners
  <2>2. \A u \in Threads : Fresh(call'[u]) \/ Advanced(call'[u]) => call'[u].block \in J /\ h[call'[u].block] = u
    BY <1>1, <1>3, <1>4, <1>5 DEF Owners
  <2>3. V \cap J = {} /\ J \subseteq Blocks /\ V \subseteq Blocks
    BY <1>1, <1>4, <1>5, <1>6 DEF Owners
  <2>4. \A q \in V : v[q] \in Records /\ Describes(v[q])' /\ record'[v[q]].block = q
    BY <1>1, <1>2, <1>6, <1>8, <1>11 DEF Owners
  <2>5. \A q \in Records : Describes(q)' => record'[q].block \in V /\ v[record'[q].block] = q
    BY <1>1, <1>2, <1>6, <1>8 DEF Owners
  <2> QED
    BY <2>1, <2>2, <2>3, <2>4, <2>5 DEF Owners, Fresh, Advanced
<1>13. Extents(V, v, J, h, End, Pred)'
  <2>1. \A q \in V : /\ End[q] = q + header'[q].size /\ Pred[q] = header'[q].previous
                     /\ record'[v[q]].size = header'[q].size
    <3>1. CASE TRUE
      <4> TAKE q \in V
      <4>1. CASE q = b
        BY <4>1, <1>4, <1>8, <1>10
      <4>2. CASE q # b
        <5>1. q \in W /\ q \in Blocks /\ v[q] = w[q] /\ w[q] # r /\ w[q] \in Records
          BY <4>2, <1>1, <1>4, <1>6, <1>8, <1>11 DEF Owners
        <5> QED
          BY <5>1, <1>1 DEF Extents
      <4> QED
        BY <4>1, <4>2
    <3> QED
      BY <3>1
  <2>2. \A q \in J :
           IF Advanced(call'[h[q]])
           THEN End[q] = NextFrontier(call'[h[q]]) /\ Pred[q] = call'[h[q]].word.pred
           ELSE End[q] = q + header'[q].size /\ Pred[q] = header'[q].previous
                        /\ header'[q].size \in Sizes
    <3>1. \A q \in J : q \in Blocks
      BY <1>4, <1>5
    <3> QED
      BY <3>1, <1>1, <1>9 DEF Extents
  <2>3. End \in [Blocks -> Int] /\ Pred \in [Blocks -> MaybeBlock]
    BY <1>1 DEF Extents
  <2> QED
    BY <2>1, <2>2, <2>3 DEF Extents, Advanced, NextFrontier
<1>14. Cut(V \cup J, End, Pred)'
  <2>1. V \cup J = W \cup H
    BY <1>4, <1>5, <1>6
  <2> QED
    BY <2>1, <1>1, CutSame
<1>15. Middle(new, V, J, h, End)'
  <2> SUFFICES ASSUME NEW q \in V \cup J, NEW p \in Records, Settled(V, J, h, q)', p < count', new[p] # "seen"
               PROVE  End[q] <= RecordAt(p)'
    BY DEF Middle
  <2>1. RecordAt(p)' = RecordAt(p) /\ p < count /\ kind[p] # "seen"
    BY DEF RecordAt
  <2>2. q \in V \/ (q \in J /\ ~Advanced(call'[h[q]]))
    BY DEF Settled
  <2>3. q \in W \/ (q \in H /\ ~Advanced(call[h[q]]))
    BY <2>2, <1>4, <1>6, <1>9
  <2> QED
    BY <2>1, <2>3, <1>1 DEF Middle, Settled
<1>16. Tiled(new, V, v, J, h, End, Pred)'
  BY <1>12, <1>13, <1>14, <1>15 DEF Tiled
<1> QED
  BY <1>16 DEF Tiling

\* What the tiling says of a record, of a thread's new block and of a caller's.
LEMMA TileFacts ==
    ASSUME NEW kind, NEW of, IInv(kind, of)
    PROVE  /\ \A r \in Records : Describes(r) =>
                 /\ record[r].block \in Blocks
                 /\ record[r].size = header[record[r].block].size
           /\ \A r, q \in Records : Describes(r) /\ Describes(q) /\ record[r].block = record[q].block
                 => r = q
           /\ \A t \in Threads : Fresh(call[t]) =>
                 /\ call[t].block \in Blocks /\ header[call[t].block].size \in Sizes
                 /\ \A r \in Records : Describes(r) => record[r].block # call[t].block
           /\ \A b \in held : /\ header[b].index \in Records /\ Describes(header[b].index)
                              /\ record[header[b].index].state = "inUse"
                              /\ record[header[b].index].block = b
<1> PICK W, w, H, h, End, Pred : Tiled(kind, W, w, H, h, End, Pred)
  BY DEF IInv, Tiling
<1>1. Owners(W, w, H, h) /\ Extents(W, w, H, h, End, Pred)
  BY DEF Tiled
<1>2. \A r \in Records : Describes(r) => /\ record[r].block \in Blocks
                                        /\ record[r].size = header[record[r].block].size
  BY <1>1 DEF Owners, Extents
<1>3. \A r, q \in Records : Describes(r) /\ Describes(q) /\ record[r].block = record[q].block => r = q
  BY <1>1 DEF Owners
<1>4. \A t \in Threads : Fresh(call[t]) =>
         /\ call[t].block \in Blocks /\ header[call[t].block].size \in Sizes
         /\ \A r \in Records : Describes(r) => record[r].block # call[t].block
  BY <1>1 DEF Owners, Extents, Fresh, Advanced
<1>5. ASSUME NEW b \in held
      PROVE  /\ header[b].index \in Records /\ Describes(header[b].index)
             /\ record[header[b].index].state = "inUse" /\ record[header[b].index].block = b
  <2>1. PICK r \in Records : r = header[b].index
    BY PlacesTyped
  <2>2. In(kind, of, r, "held", b)
    BY <2>1, PlacesTyped DEF SharedPlaces
  <2>3. record[r].state = "inUse" /\ record[r].block = b
    BY <2>2 DEF IInv, StatesAt, In
  <2>4. \A u \in Threads : RollOf(call[u]) # r
    BY <2>3, RollsNot
  <2>5. \A u \in Threads : GoneOf(call[u]) # r
    BY <2>4, RecordFacts DEF GoneOf
  <2> QED
    BY <2>1, <2>3, <2>5 DEF Describes, Active
<1> QED
  BY <1>2, <1>3, <1>4, <1>5

LEMMA FinishFacts ==
    ASSUME NEW kind, NEW of, IInv(kind, of), NEW t \in Threads, call[t].pc = "finish",
           NEW r, r = (IF call[t].md = None THEN call[t].reserved ELSE call[t].md)
    PROVE  /\ call[t] \in CallType /\ r \in Records /\ of[r] = t /\ kind[r] \in {"md", "reserved"} /\ r < count
           /\ call[t].list = <<>> /\ call[t].batch = <<>> /\ call[t].stolen = 0
           /\ \A q \in Records : q # r => q # call[t].md /\ q # call[t].reserved
           /\ MdOf(call[t]) = call[t].md /\ SeenOf(call[t]) = None /\ ClearOf(call[t]) = None
           /\ TransientOf(call[t]) = None /\ TrimOf(call[t]) = None /\ GoneOf(call[t]) = None
           /\ ~Advanced(call[t]) /\ (Fresh(call[t]) <=> call[t].md = None)
           /\ call[t].md # None => /\ call[t].md = r /\ Describes(r)
                                   /\ record[r].block = call[t].block /\ record[r].state = "locked"
           /\ call[t].md = None => ~Describes(r)
           /\ call[t].block \in Blocks /\ call[t].block \notin held
           /\ header[call[t].block].size \in Sizes /\ header[call[t].block].size = header[call[t].block].size
           /\ call[t].md # None => record[r].size = header[call[t].block].size
           /\ record[r].state \notin {"inUse", "reclaimInProgress"}
           /\ \A u \in Threads \ {t} : MdOf(call[u]) # r
           /\ \A u \in Threads : RollOf(call[u]) # r
<1> DEFINE c == call[t]
<1>1. c \in CallType /\ ShapeOf(c) /\ TypeInv /\ Control
  BY QuietStart
<1>2. c.list = <<>> /\ c.batch = <<>> /\ c.stolen = 0
  <2>1. ~Batching(c)
    BY DEF Batching
  <2> QED
    BY <1>1, <2>1 DEF ShapeOf
<1>3. /\ MdOf(c) = c.md /\ SeenOf(c) = None /\ ClearOf(c) = None
      /\ TransientOf(c) = None /\ TrimOf(c) = None /\ GoneOf(c) = None
      /\ ~Advanced(c) /\ (Fresh(c) <=> c.md = None)
  BY DEF MdOf, SeenOf, ClearOf, TransientOf, TrimOf, GoneOf, Advanced, Fresh
<1>4. (c.reserved # None) <=> c.md = None
  BY <1>1 DEF ShapeOf, HasReserved
<1>5. r \in Records /\ r # None
  BY <1>1, <1>4 DEF CallType, MaybeRecord
<1>6. \A q \in Records : q # r => q # c.md /\ q # c.reserved
  BY <1>4, RecordFacts
<1>7. /\ of[r] = t /\ kind[r] \in {"md", "reserved"}
      /\ c.md = None => record[r].state \in Unused
      /\ c.md # None => kind[r] = "md" /\ record[r].state = "locked"
  <2>1. CASE c.md = None
    <3>1. In(kind, of, r, "reserved", t) /\ record[r].state \in Unused
      BY <2>1, <1>5, InHandFacts
    <3> QED
      BY <2>1, <3>1 DEF In
  <2>2. CASE c.md # None
    <3>1. In(kind, of, r, "md", t) /\ record[r].state \in MdStates(c)
      BY <2>2, <1>3, <1>5, InHandFacts
    <3> QED
      BY <2>2, <3>1 DEF In, MdStates
  <2> QED
    BY <2>1, <2>2
<1>8. record[r].state \notin {"inUse", "reclaimInProgress"}
  BY <1>7 DEF Unused
<1>9. \A u \in Threads : RollOf(call[u]) # r
  BY <1>5, <1>8, RollsNot
<1>10. \A u \in Threads : GoneOf(call[u]) # r
  BY <1>5, <1>9 DEF GoneOf
<1>11. c.md # None => Describes(r) /\ c.md = r /\ record[r].block = c.block /\ c.block # None
  <2>1. c.md # None => HasLocked(c)
    BY DEF HasLocked
  <2> QED
    BY <2>1, <1>7, <1>10 DEF Describes, Active, IInv, Described
<1>12. c.md = None => ~Describes(r)
  BY <1>7 DEF Describes, Active, Unused
<1>13. c.block \in Blocks /\ header[c.block].size \in Sizes
       /\ (c.md # None => record[r].size = header[c.block].size)
  <2>1. CASE c.md = None
    BY <2>1, <1>3, TileFacts
  <2>2. CASE c.md # None
    <3>1. record[r].block \in Blocks /\ record[r].size = header[record[r].block].size
      BY <2>2, <1>5, <1>11, TileFacts
    <3>2. record[r].size \in Sizes
      BY <2>2, <1>5, <1>7 DEF IInv, Described, Unused
    <3> QED
      BY <2>2, <3>1, <3>2, <1>11
  <2> QED
    BY <2>1, <2>2
<1>14. c.block \notin held
  <2> SUFFICES ASSUME c.block \in held PROVE FALSE
    OBVIOUS
  <2>1. PICK q \in Records : q = header[c.block].index
    BY TileFacts
  <2>2. Describes(q) /\ record[q].state = "inUse" /\ record[q].block = c.block
    BY <2>1, TileFacts
  <2>3. CASE c.md = None
    BY <2>2, <2>3, <1>3, TileFacts
  <2>4. CASE c.md # None
    <3>1. q = r
      BY <2>2, <2>4, <1>5, <1>11, TileFacts
    <3> QED
      BY <2>2, <3>1, <1>8
  <2> QED
    BY <2>3, <2>4
<1>15. \A u \in Threads \ {t} : MdOf(call[u]) # r
  BY <1>5, <1>7, InHandFacts DEF In
<1>16. r < count
  BY <1>5, <1>7, PlacesTyped
<1> QED
  BY <1>1, <1>2, <1>3, <1>5, <1>6, <1>7, <1>8, <1>9, <1>11, <1>12, <1>13, <1>14, <1>15, <1>16

\* The block goes to the caller, and its record with it.
LEMMA FinishStep ==
    ASSUME NEW kind, NEW of, IInv(kind, of), NEW t \in Threads, Finish(t)
    PROVE  Inv'
<1> DEFINE c == call[t]
<1>1. PICK r : r = (IF c.md = None THEN c.reserved ELSE c.md)
  OBVIOUS
<1>2. PICK b : b = c.block
  OBVIOUS
<1>3. /\ c.pc = "finish"
      /\ header' = [header EXCEPT ![b].index = r]
      /\ record' = [record EXCEPT ![r] = [state |-> "inUse", block |-> b,
                                          version |-> record[r].version,
                                          size |-> header[b].size,
                                          shard |-> c.shard]]
      /\ held' = held \cup {b}
      /\ call' = [call EXCEPT ![t] = Idle]
      /\ UNCHANGED <<frontier, count, managers, pending, bins, reclaiming, late, arena>>
  BY <1>1, <1>2 DEF Finish
<1>4. /\ c \in CallType /\ r \in Records /\ of[r] = t /\ kind[r] \in {"md", "reserved"} /\ r < count
      /\ c.list = <<>> /\ c.batch = <<>> /\ c.stolen = 0
      /\ \A q \in Records : q # r => q # c.md /\ q # c.reserved
      /\ MdOf(c) = c.md /\ SeenOf(c) = None /\ ClearOf(c) = None
      /\ TransientOf(c) = None /\ TrimOf(c) = None /\ GoneOf(c) = None
      /\ ~Advanced(c) /\ (Fresh(c) <=> c.md = None)
  BY <1>1, <1>3, FinishFacts
<1>5. /\ c.md # None => /\ c.md = r /\ Describes(r) /\ record[r].block = b /\ record[r].state = "locked"
      /\ c.md = None => ~Describes(r)
      /\ b \in Blocks /\ b \notin held /\ header[b].size \in Sizes
      /\ c.md # None => record[r].size = header[b].size
  BY <1>1, <1>2, <1>3, FinishFacts
<1>6. /\ record[r].state \notin {"inUse", "reclaimInProgress"}
      /\ \A u \in Threads \ {t} : MdOf(call[u]) # r
      /\ \A u \in Threads : RollOf(call[u]) # r
  BY <1>1, <1>3, FinishFacts
<1>7. TypeInv /\ Control /\ Well(Idle) /\ Quiet(Idle) /\ Idle \in CallType
  BY QuietStart, IdleFacts
<1>8. Moves(t, Idle) /\ call' \in [Threads -> CallType]
  BY <1>3, <1>7, MovesTo
<1>9. /\ MdOf(Idle) = None /\ SeenOf(Idle) = None /\ ClearOf(Idle) = None /\ TransientOf(Idle) = None
      /\ TrimOf(Idle) = None /\ GoneOf(Idle) = None /\ ~Rolls(Idle) /\ ~Fresh(Idle) /\ ~Advanced(Idle)
      /\ ~HasLocked(Idle) /\ Idle.pc \notin {"lock", "pushPending"}
  BY <1>7, QuietFacts DEF Well
<1>10. /\ Idle.reserved = None /\ Idle.list = <<>> /\ Idle.batch = <<>> /\ Idle.stolen = 0 /\ ~AtFront(Idle)
  BY DEF Idle, AtFront
<1>11. /\ header' \in [Blocks -> HeaderType] /\ header'[b].index = r
       /\ \A q \in Blocks : /\ header'[q].size = header[q].size
                            /\ header'[q].previous = header[q].previous
                            /\ q # b => header'[q].index = header[q].index
  <2>1. header \in [Blocks -> HeaderType]
    BY <1>7 DEF TypeInv
  <2> QED
    BY <1>3, <1>4, <1>5, <2>1 DEF HeaderType
<1>12. header[b].size \in Int /\ c.shard \in Shards /\ record \in [Records -> RecordType]
       /\ record[r].version \in 0 .. VersionLimit - 1
  BY <1>4, <1>5, <1>7 DEF TypeInv, HeaderType, CallType, RecordType
<1>13. [state |-> "inUse", block |-> b, version |-> record[r].version, size |-> header[b].size,
        shard |-> c.shard] \in RecordType
  BY <1>5, <1>12 DEF RecordType, States, MaybeBlock
<1>14. /\ record' \in [Records -> RecordType] /\ record'[r].state = "inUse" /\ record'[r].block = b
       /\ record'[r].size = header[b].size /\ record'[r].version = record[r].version
       /\ \A q \in Records : q # r => record'[q] = record[q]
  BY <1>3, <1>4, <1>12, <1>13
<1>15. TypeInv'
  BY <1>3, <1>5, <1>7, <1>8, <1>11, <1>14 DEF TypeInv
<1>16. Control'
  BY <1>3, <1>7, <1>8, <1>10, ControlPut
<1> PICK new, nof : Moved(kind, of, new, nof, r, "held", b)
  BY <1>4, PlacesTyped, CanMove DEF Kinds
<1>17. /\ new \in [Records -> Kinds] /\ Elsewhere(kind, of, new, nof, r)
       /\ new[r] = "held" /\ nof[r] = b
  BY DEF Moved
<1>18. \A q \in Records : q < count' /\ new[q] # "seen" => q < count /\ kind[q] # "seen"
  BY <1>3, <1>4, <1>17 DEF Elsewhere
<1>19. Described'
  BY <1>4, <1>5, <1>6, <1>8, <1>9, <1>11, <1>14, BlockFacts, DescribedElse
<1>20. Rolling'
  BY <1>4, <1>6, <1>8, <1>9, <1>14, RollingEnds
<1>21. LateFrees'
  <2>1. \A u \in Threads : call[u].pc = "lock" =>
           /\ call[u].walk \in Records /\ call[u].expected[1] = "inUse"
           /\ call[u].expected[3] \in Nat
    BY CallFacts DEF IInv
  <2>2. \A q \in Records : /\ record[q].version \in Nat /\ record'[q].version = record[q].version
    BY <1>14, RecordTyped
  <2>3. \A q \in Records : record[q].state = "inUse" =>
           record'[q].state = record[q].state /\ record'[q].block = record[q].block
    BY <1>6, <1>14
  <2>4. held \subseteq held' /\ \A q \in held : header'[q].index = header[q].index
    BY <1>3, <1>5, <1>7, <1>11 DEF TypeInv
  <2>5. LateFrees
    BY DEF IInv
  <2> QED
    BY <1>3, <1>8, <1>9, <2>1, <2>2, <2>3, <2>4, <2>5, LateFreesSame
<1>22. Versions'
  <2>1. Fewer /\ Versions /\ \A q \in Records : record'[q].version = record[q].version
    BY <1>3, <1>14, QuietStart DEF IInv
  <2> QED
    BY <1>7, <1>8, <1>9, <2>1, VersionsSame
<1>23. Describes(r)'
  <2>1. \A u \in Threads : GoneOf(call[u]) # r
    BY <1>4, <1>6, RecordFacts DEF GoneOf
  <2>2. \A u \in Threads : GoneOf(call'[u]) # r
    BY <2>1, <1>4, <1>8, <1>9, RecordFacts DEF Moves
  <2> QED
    BY <1>14, <2>2 DEF Describes, Active
<1>24. Tiling(new)'
  <2>1. Tiling(kind)
    BY DEF IInv
  <2>2. CASE c.md = None
    BY <1>2, <1>3, <1>4, <1>5, <1>7, <1>8, <1>9, <1>11, <1>14, <1>18, <1>23, <2>1, <2>2, TilingWrites
  <2>3. CASE c.md # None
    <3>1. SameFlight(c, Idle)
      BY <2>3, <1>4, <1>9 DEF SameFlight, InFlight
    <3>2. \A q \in Records : q # r => (Describes(q)' <=> Describes(q))
      BY <1>4, <1>8, <1>9, <1>14, DescribesSame
    <3>3. \A q \in Records : Describes(q)' <=> Describes(q)
      BY <2>3, <3>2, <1>5, <1>23
    <3>4. \A q \in Records : Describes(q) => /\ record'[q].block = record[q].block
                                            /\ record'[q].size = record[q].size
      BY <2>3, <1>5, <1>14
    <3> QED
      BY <1>3, <1>8, <1>11, <1>18, <2>1, <3>1, <3>3, <3>4, TilingSame
  <2> QED
    BY <2>2, <2>3
<1>25. Places(new, nof)'
  <2>1. FreePlaces(new, nof)'
    BY <1>3, <1>4, <1>8, <1>9, <1>17, PlacesTyped, FreePlacesAway
  <2>2. SharedPlaces(new, nof)'
    <3>1. SharedPlaces(kind, of) /\ \A q \in held : header[q].index \in Records /\ q \in Blocks
      BY PlacesTyped
    <3>2. PendingMoved(new, nof, r)
      BY <1>3, <1>4, <1>17, <3>1, PendingAway
    <3>3. BinsMoved(new, nof, r)
      BY <1>3, <1>4, <1>17, <3>1, BinsAway
    <3>4. \A q \in held : header[q].index # r
      BY <1>4, <3>1 DEF SharedPlaces, In
    <3>5. HeldMoved(new, nof, r)
      BY <1>3, <1>5, <1>11, <1>17, <3>1, <3>4 DEF HeldMoved, In
    <3> QED
      BY <1>4, <1>17, <3>1, <3>2, <3>3, <3>5, SharedPlacesPut
  <2>3. ThreadPlaces(new, nof)'
    <3>1. ThreadPlaces(kind, of) /\ \A q \in Records : q # None
      BY PlacesTyped, RecordFacts
    <3>2. ThreadMoved(new, r, t, Idle)
      BY <1>4, <1>9, <1>10, <1>17, <3>1, EmptyRange DEF ThreadMoved
    <3> QED
      BY <1>4, <1>8, <1>17, <3>1, <3>2, ThreadPlacesPut DEF ThreadKinds
  <2> QED
    BY <1>17, <2>1, <2>2, <2>3 DEF Places
<1>26. StatesAt(new, nof)'
  <2>1. StatesAt(kind, of) /\ \A q \in Records : kind[q] \in {"md", "batch"} => of[q] \in Threads
    BY PlacesTyped DEF IInv, ThreadKinds
  <2>2. \A q \in Records : q # r => ~In(kind, of, q, "md", t) /\ ~In(kind, of, q, "batch", t)
    BY <1>4, InHandFacts, EmptyRange
  <2> QED
    BY <1>4, <1>8, <1>14, <1>17, <2>1, <2>2, StatesPut
<1>27. ManagerCounts' /\ Trims'
  BY <1>3, <1>4, <1>8, <1>9, CountsSame
<1>28. PendingCounts'
  <2>1. \A u \in Threads : call[u].pc = "pushPending" => record'[call[u].md].shard = record[call[u].md].shard
    <3>1. ASSUME NEW u \in Threads, call[u].pc = "pushPending"
          PROVE  call[u].md \in Records /\ call[u].md # r
      <4>1. call[u].md \in Records /\ MdOf(call[u]) = call[u].md /\ u # t
        BY <1>3, <3>1, CallFacts DEF IInv, ShapeOf, HasMd, MdOf
      <4> QED
        BY <4>1, <1>6
    <3> QED
      BY <3>1, <1>14
  <2> QED
    BY <2>1, <1>3, <1>4, <1>8, <1>9, <1>10, PendingSame
<1>29. IInv(new, nof)'
  BY <1>15, <1>16, <1>19, <1>20, <1>21, <1>22, <1>24, <1>25, <1>26, <1>27, <1>28 DEF IInv
<1> QED
  BY <1>29 DEF Inv

\* A block that is available is in a bin, or on its way out of one or into one.
LEMMA OfferedPlaces ==
    ASSUME NEW kind, NEW of, IInv(kind, of), NEW t \in Threads,
           MdOf(call[t]) = None, call[t].batch = <<>>,
           NEW r \in Records, record[r].state \in {"available", "reclaimInProgress"},
           \A u \in Threads \ {t} : RollOf(call[u]) # r
    PROVE  \/ kind[r] = "bin"
           \/ kind[r] = "md" /\ of[r] \in Threads \ {t} /\ MdStates(call[of[r]]) = Offered
           \/ kind[r] = "batch" /\ of[r] \in Threads \ {t} /\ BatchStates(call[of[r]], r) = Offered
<1>1. StatesAt(kind, of) /\ kind[r] \in Kinds
  BY PlacesTyped DEF IInv
<1>2. kind[r] \in {"bin", "md", "batch"}
  BY <1>1 DEF StatesAt, Unused, Kinds, ListKinds
<1>3. kind[r] \in {"md", "batch"} => of[r] \in Threads
  BY PlacesTyped DEF ThreadKinds
<1>4. CASE kind[r] = "md"
  <2>1. PICK u \in Threads : u = of[r]
    BY <1>3, <1>4
  <2>2. r = MdOf(call[u]) /\ r # None
    BY <2>1, <1>4, InHandFacts, RecordFacts DEF In
  <2>3. u # t /\ record[r].state \in MdStates(call[u])
    BY <2>1, <2>2, <1>1, <1>4 DEF StatesAt
  <2>4. r = call[u].md /\ RollOf(call[u]) # r
    BY <2>2, <2>3 DEF MdOf
  <2>5. ~(call[u].pc = "recycle" /\ call[u].after = "batchScan")
    BY <2>4 DEF RollOf
  <2>6. MdStates(call[u]) = Offered
    BY <2>3, <2>5 DEF MdStates, Offered
  <2> QED
    BY <2>1, <2>3, <2>6, <1>4
<1>5. CASE kind[r] = "batch"
  <2>1. PICK u \in Threads : u = of[r]
    BY <1>3, <1>5
  <2>2. r \in Range(call[u].batch)
    BY <2>1, <1>5, InHandFacts DEF In
  <2>3. u # t /\ record[r].state \in BatchStates(call[u], r)
    BY <2>1, <2>2, <1>1, <1>5, EmptyRange DEF StatesAt
  <2>4. RollOf(call[u]) # r
    BY <2>3
  <2>5. BatchStates(call[u], r) = Offered
    BY <2>3, <2>4 DEF BatchStates
  <2> QED
    BY <2>1, <2>3, <2>5, <1>5
<1> QED
  BY <1>2, <1>4, <1>5

Walker(c) == c.pc \in {"walk", "walkLook", "walkClaim", "walkRoll", "walkMark", "walkEnd"}

LEMMA WalkerPlain ==
    ASSUME NEW c, Walker(c), c.md = None
    PROVE  /\ MdOf(c) = None /\ SeenOf(c) = None /\ ClearOf(c) = None /\ TransientOf(c) = None
           /\ TrimOf(c) = None /\ ~Fresh(c) /\ ~Advanced(c) /\ ~HasLocked(c) /\ ~AtFront(c)
           /\ c.pc \notin {"lock", "pushPending"} /\ ~Batching(c)
           /\ RollOf(c) = (IF c.pc \in {"walkRoll", "walkMark"} THEN c.walk ELSE None)
           /\ GoneOf(c) = (IF c.pc = "walkMark" THEN c.walk ELSE None)
           /\ (Rolls(c) <=> c.pc \in {"walkRoll", "walkMark"})
BY DEF Walker, MdOf, SeenOf, ClearOf, TransientOf, TrimOf, Fresh, Advanced, HasLocked, AtFront, Batching,
       RollOf, GoneOf, Rolls

LEMMA WalkerFacts ==
    ASSUME NEW kind, NEW of, IInv(kind, of), NEW t \in Threads, Walker(call[t])
    PROVE  /\ call[t] \in CallType /\ call[t].md = None
           /\ call[t].list = <<>> /\ call[t].batch = <<>> /\ call[t].stolen = 0
           /\ (call[t].reserved # None <=> call[t].stage # "first")
           /\ (call[t].back = "idle" => call[t].stage = "first")
<1>1. call[t] \in CallType /\ ShapeOf(call[t])
  BY QuietStart
<1>2. ~HasMd(call[t]) /\ ~Batching(call[t]) /\ Windowed(call[t]) /\ call[t].pc # "reducePending"
  BY DEF Walker, HasMd, Batching, Windowed, WindowPcs
<1>3. HasReserved(call[t]) <=> call[t].stage # "first"
  BY DEF Walker, HasReserved
<1> QED
  BY <1>1, <1>2, <1>3 DEF ShapeOf

\* A step of the walk: at most one record changes state, among those of a block in a bin.
LEMMA WalkPlain ==
    ASSUME NEW kind, NEW of, IInv(kind, of), NEW t \in Threads, NEW d, Walker(call[t]), Walker(d),
           d \in CallType, PlaceOf(d), call' = [call EXCEPT ![t] = d],
           d.md = call[t].md, d.reserved = call[t].reserved, d.list = call[t].list,
           d.batch = call[t].batch, d.stolen = call[t].stolen, d.stage = call[t].stage,
           d.back = call[t].back,
           NEW r \in Records, record[r].state \in {"available", "reclaimInProgress"},
           \A u \in Threads \ {t} : RollOf(call[u]) # r,
           NEW s \in Offered, record' = WithState(r, s),
           UNCHANGED <<count, managers, header, pending, bins, reclaiming, held, late, arena>>,
           frontier' \in Words, frontier'.at <= arena.start,
           RollOf(d) \in {None, r}, RollOf(d) = r => s = "reclaimInProgress",
           d.pc = "walkRoll" => record[r].block = d.word.pred,
           Tiling(kind)'
    PROVE  IInv(kind, of)'
<1> DEFINE c == call[t]
<1>1. /\ c \in CallType /\ c.md = None /\ c.list = <<>> /\ c.batch = <<>> /\ c.stolen = 0
      /\ (c.reserved # None <=> c.stage # "first") /\ (c.back = "idle" => c.stage = "first")
  BY WalkerFacts
<1>2. /\ MdOf(c) = None /\ SeenOf(c) = None /\ ClearOf(c) = None /\ TransientOf(c) = None
      /\ TrimOf(c) = None /\ c.pc \notin {"lock", "pushPending"}
  BY <1>1, WalkerPlain
<1>3. /\ MdOf(d) = None /\ SeenOf(d) = None /\ ClearOf(d) = None /\ TransientOf(d) = None
      /\ TrimOf(d) = None /\ ~HasLocked(d) /\ ~AtFront(d) /\ d.pc \notin {"lock", "pushPending"}
      /\ RollOf(d) = (IF d.pc \in {"walkRoll", "walkMark"} THEN d.walk ELSE None)
      /\ (Rolls(d) <=> d.pc \in {"walkRoll", "walkMark"})
  BY <1>1, WalkerPlain
<1>4. ShapeOf(d)
  BY <1>1 DEF Walker, ShapeOf, HasMd, HasReserved, Batching, Windowed, FirstPcs, WindowPcs
<1>5. TypeInv /\ Control /\ LateFrees /\ Versions
  BY DEF IInv
<1>6. Well(d) /\ Moves(t, d) /\ call' \in [Threads -> CallType]
  BY <1>4, <1>5, MovesTo DEF Well
<1>7. /\ record' \in [Records -> RecordType] /\ record'[r].state = s
      /\ \A q \in Records : /\ q # r => record'[q].state = record[q].state
                            /\ record'[q].block = record[q].block
                            /\ record'[q].size = record[q].size
                            /\ record'[q].version = record[q].version
                            /\ record'[q].shard = record[q].shard
  <2>1. record \in [Records -> RecordType] /\ s \in States
    BY RecordTyped DEF Offered, States
  <2> QED
    BY <2>1 DEF WithState, RecordType
<1>8. TypeInv'
  BY <1>5, <1>6, <1>7 DEF TypeInv
<1>9. Control'
  BY <1>3, <1>5, <1>6, ControlPut
<1>10. Described'
  BY <1>3, <1>6, <1>7, DescribedPut DEF Unused
<1>11. Rolling'
  <2>1. CASE RollOf(d) = r
    <3>1. d.pc \in {"walkRoll", "walkMark"} /\ d.walk = r
      BY <2>1, <1>3, RecordFacts
    <3>2. \A q \in Records : q # r => /\ record'[q].state = record[q].state
                                     /\ record'[q].block = record[q].block
                                     /\ record'[q].size = record[q].size
      BY <1>7
    <3>3. record'[r].state = "reclaimInProgress" /\ d.pc # "batchRoll"
      BY <2>1, <3>1, <1>7
    <3>4. d.pc = "walkRoll" => record'[d.walk].block = d.word.pred
      BY <3>1, <1>7
    <3> QED
      BY <2>1, <3>2, <3>3, <3>4, <1>6, RollingStarts
  <2>2. CASE RollOf(d) # r
    <3>1. ~Rolls(d)
      BY <2>2, <1>3 DEF PlaceOf
    <3> QED
      BY <3>1, <1>6, <1>7, RollingEnds
  <2> QED
    BY <2>1, <2>2
<1>12. LateFrees'
  <2>1. \A u \in Threads : call[u].pc = "lock" =>
           /\ call[u].walk \in Records /\ call[u].expected[1] = "inUse"
           /\ call[u].expected[3] \in Nat
    BY CallFacts DEF IInv
  <2>2. \A q \in Records : /\ record[q].version \in Nat /\ record'[q].version = record[q].version
    BY <1>7, RecordTyped
  <2>3. \A q \in Records : record[q].state = "inUse" =>
           record'[q].state = record[q].state /\ record'[q].block = record[q].block
    BY <1>7
  <2> QED
    BY <1>2, <1>3, <1>5, <1>6, <2>1, <2>2, <2>3, LateFreesSame
<1>13. Versions'
  <2>1. Fewer /\ \A q \in Records : record'[q].version = record[q].version
    BY <1>7, QuietStart
  <2> QED
    BY <1>3, <1>5, <1>6, <2>1, VersionsSame
<1>14. Places(kind, of)'
  BY <1>2, <1>3, <1>6, PlacesStay
<1>15. StatesAt(kind, of)'
  <2>1. \/ kind[r] = "bin"
        \/ kind[r] = "md" /\ of[r] \in Threads \ {t} /\ MdStates(call[of[r]]) = Offered
        \/ kind[r] = "batch" /\ of[r] \in Threads \ {t} /\ BatchStates(call[of[r]], r) = Offered
    BY <1>1, <1>2, OfferedPlaces
  <2>2. of[r] \in Threads \ {t} => call'[of[r]] = call[of[r]]
    BY <1>6 DEF Moves
  <2>3. kind[r] = "md" => record'[r].state \in MdStates(call'[of[r]])
    BY <2>1, <2>2, <1>7
  <2>4. kind[r] = "batch" => record'[r].state \in BatchStates(call'[of[r]], r)
    BY <2>1, <2>2, <1>7
  <2>5. \A q \in Records : q # MdOf(c) /\ q \notin Range(c.batch)
    BY <1>1, <1>2, EmptyRange, RecordFacts
  <2>6. kind[r] \in {"bin", "md", "batch"}
    BY <2>1
  <2> QED
    BY <1>6, <1>7, <2>3, <2>4, <2>5, <2>6, StatesStay
<1>16. ManagerCounts' /\ Trims'
  BY <1>2, <1>3, <1>6, CountsSame
<1>17. PendingCounts'
  <2>1. \A u \in Threads : call[u].pc = "pushPending" => record'[call[u].md].shard = record[call[u].md].shard
    <3>1. \A u \in Threads : call[u].pc = "pushPending" => call[u].md \in Records
      BY CallFacts DEF IInv, ShapeOf, HasMd
    <3> QED
      BY <3>1, <1>7
  <2> QED
    BY <2>1, <1>1, <1>2, <1>3, <1>6, PendingSame
<1> QED
  BY <1>8, <1>9, <1>10, <1>11, <1>12, <1>13, <1>14, <1>15, <1>16, <1>17 DEF IInv

\* The frontier goes back over the block of a record.
LEMMA TilingRolls ==
    ASSUME NEW kind, NEW new, Tiling(kind), TypeInv, NEW t \in Threads, NEW d, Moves(t, d),
           SameFlight(call[t], d), NEW r \in Records, Describes(r), GoneOf(d) = r, GoneOf(call[t]) = None,
           record[r].block + record[r].size = frontier.at, frontier' = RolledBack(record[r].block),
           UNCHANGED <<count, header, record, arena>>,
           \A q \in Records : q < count' /\ new[q] # "seen" => q < count /\ kind[q] # "seen"
    PROVE  Tiling(new)'
<1> PICK W, w, H, h, End, Pred : Tiled(kind, W, w, H, h, End, Pred)
  BY DEF Tiling
<1>1. /\ Owners(W, w, H, h) /\ Extents(W, w, H, h, End, Pred) /\ Cut(W \cup H, End, Pred)
      /\ Middle(kind, W, H, h, End)
  BY DEF Tiled
<1>2. \A u \in Threads : call'[u] = IF u = t THEN d ELSE call[u]
  BY DEF Moves
<1>3. \A q \in Records : Describes(q)' <=> Describes(q) /\ q # r
  <2> TAKE q \in Records
  <2>1. GoneOf(call[t]) # q
    BY RecordFacts
  <2>2. (\A u \in Threads : GoneOf(call'[u]) # q) <=> (\A u \in Threads : GoneOf(call[u]) # q) /\ q # r
    BY <1>2, <2>1
  <2> QED
    BY <2>2 DEF Describes
<1>4. PICK b : b = record[r].block
  OBVIOUS
<1>5. b \in W /\ w[b] = r /\ b \notin H /\ W \subseteq Blocks /\ H \subseteq Blocks
  BY <1>1, <1>4 DEF Owners
<1>6. PICK V : V = W \ {b}
  OBVIOUS
<1>7. \A q \in V : q \in W /\ q # b /\ w[q] # r
  BY <1>1, <1>4, <1>5, <1>6 DEF Owners
<1>8. End[b] = frontier.at /\ Pred[b] = header[b].previous
  BY <1>1, <1>4, <1>5 DEF Extents
<1>9. \A q \in H : /\ h[q] \in Threads
                   /\ h[q] # t => call'[h[q]] = call[h[q]]
                   /\ h[q] = t => call'[h[q]] = d /\ call[h[q]] = call[t]
  BY <1>1, <1>2 DEF Owners
<1>10. Owners(V, w, H, h)'
  <2>1. \A q \in V : w[q] \in Records /\ Describes(w[q])' /\ record'[w[q]].block = q
    BY <1>1, <1>3, <1>7 DEF Owners
  <2>2. \A q \in Records : Describes(q)' => record'[q].block \in V /\ w[record'[q].block] = q
    BY <1>1, <1>3, <1>5, <1>6 DEF Owners
  <2>3. \A q \in H : /\ h[q] \in Threads /\ call'[h[q]].block = q
                     /\ Fresh(call'[h[q]]) \/ Advanced(call'[h[q]])
    BY <1>1, <1>9 DEF Owners, SameFlight, InFlight
  <2>4. \A u \in Threads : Fresh(call'[u]) \/ Advanced(call'[u]) => call'[u].block \in H /\ h[call'[u].block] = u
    BY <1>1, <1>2 DEF Owners, SameFlight, InFlight
  <2>5. V \subseteq Blocks /\ H \subseteq Blocks /\ V \cap H = {}
    BY <1>1, <1>6 DEF Owners
  <2> QED
    BY <2>1, <2>2, <2>3, <2>4, <2>5 DEF Owners, Fresh, Advanced
<1>11. Extents(V, w, H, h, End, Pred)'
  <2>1. \A q \in V : /\ End[q] = q + header'[q].size /\ Pred[q] = header'[q].previous
                     /\ record'[w[q]].size = header'[q].size
    BY <1>1, <1>7 DEF Extents
  <2>2. ASSUME NEW q \in H
        PROVE  IF Advanced(call'[h[q]])
               THEN End[q] = NextFrontier(call'[h[q]]) /\ Pred[q] = call'[h[q]].word.pred
               ELSE End[q] = q + header'[q].size /\ Pred[q] = header'[q].previous
                            /\ header'[q].size \in Sizes
    <3>1. CASE h[q] # t
      BY <3>1, <1>1, <1>9 DEF Extents
    <3>2. CASE h[q] = t
      <4>1. InFlight(call[t])
        BY <3>2, <1>1 DEF Owners, InFlight
      <4>2. d.word = call[t].word /\ d.bin = call[t].bin /\ (Advanced(d) <=> Advanced(call[t]))
        BY <4>1 DEF SameFlight
      <4>3. NextFrontier(d) = NextFrontier(call[t])
        BY <4>2 DEF NextFrontier
      <4> QED
        BY <3>2, <4>2, <4>3, <1>1, <1>9 DEF Extents
    <3> QED
      BY <3>1, <3>2
  <2>3. End \in [Blocks -> Int] /\ Pred \in [Blocks -> MaybeBlock]
    BY <1>1 DEF Extents
  <2> QED
    BY <2>1, <2>2, <2>3 DEF Extents, Advanced, NextFrontier
<1>12. Cut(V \cup H, End, Pred)'
  <2>1. V \cup H = (W \cup H) \ {b} /\ b \in W \cup H /\ W \cup H \subseteq Blocks
    BY <1>5, <1>6
  <2>2. End \in [Blocks -> Int]
    BY <1>1 DEF Extents
  <2>3. frontier' = [at |-> b, pred |-> Pred[b]]
    BY <1>4, <1>8 DEF RolledBack
  <2> QED
    BY <1>1, <1>8, <2>1, <2>2, <2>3, CutLoses
<1>13. Middle(new, V, H, h, End)'
  <2> SUFFICES ASSUME NEW q \in V \cup H, NEW p \in Records, Settled(V, H, h, q)', p < count', new[p] # "seen"
               PROVE  End[q] <= RecordAt(p)'
    BY DEF Middle
  <2>1. RecordAt(p)' = RecordAt(p) /\ p < count /\ kind[p] # "seen"
    BY DEF RecordAt
  <2>2. q \in V \/ (q \in H /\ ~Advanced(call'[h[q]]))
    BY DEF Settled
  <2>3. q \in W \/ (q \in H /\ ~Advanced(call[h[q]]))
    BY <2>2, <1>7, <1>9 DEF SameFlight
  <2> QED
    BY <2>1, <2>3, <1>1 DEF Middle, Settled
<1>14. Tiled(new, V, w, H, h, End, Pred)'
  BY <1>10, <1>11, <1>12, <1>13 DEF Tiled
<1> QED
  BY <1>14 DEF Tiling

LEMMA LastTile ==
    ASSUME NEW kind, NEW of, IInv(kind, of), NEW r \in Records, Describes(r),
           record[r].block = frontier.pred, frontier.pred # None
    PROVE  record[r].block + record[r].size = frontier.at
<1> PICK W, w, H, h, End, Pred : Tiled(kind, W, w, H, h, End, Pred)
  BY DEF IInv, Tiling
<1>1. Owners(W, w, H, h) /\ Extents(W, w, H, h, End, Pred) /\ Cut(W \cup H, End, Pred)
  BY DEF Tiled
<1>2. PICK b : b = record[r].block
  OBVIOUS
<1>3. b \in W /\ w[b] = r
  BY <1>1, <1>2 DEF Owners
<1>4. End[b] = frontier.at
  BY <1>1, <1>2 DEF Cut, Ends
<1>5. End[b] = b + header[b].size /\ record[r].size = header[b].size
  BY <1>1, <1>3 DEF Extents
<1> QED
  BY <1>2, <1>4, <1>5

LEMMA RolledBackTyped ==
    ASSUME NEW kind, NEW of, IInv(kind, of), NEW r \in Records, Describes(r)
    PROVE  RolledBack(record[r].block) \in Words /\ RolledBack(record[r].block).at <= arena.start
<1> PICK W, w, H, h, End, Pred : Tiled(kind, W, w, H, h, End, Pred)
  BY DEF IInv, Tiling
<1>1. Owners(W, w, H, h) /\ Extents(W, w, H, h, End, Pred) /\ Cut(W \cup H, End, Pred)
  BY DEF Tiled
<1>2. PICK b : b = record[r].block
  OBVIOUS
<1>3. b \in W /\ b \in Blocks
  BY <1>1, <1>2 DEF Owners
<1>4. b < End[b] /\ End[b] <= frontier.at /\ End[b] \in Int
  BY <1>1, <1>3 DEF Cut, Extents
<1>5. TypeInv /\ frontier.at <= arena.start
  BY DEF IInv, TypeInv
<1>6. b \in Nat /\ frontier.at \in Nat /\ arena.start \in Nat
  BY <1>3, <1>5, BlockNumbers
<1>7. b <= arena.start
  BY <1>4, <1>5, <1>6
<1>8. header[b].previous \in MaybeBlock
  BY <1>3, <1>5 DEF TypeInv, HeaderType
<1> QED
  BY <1>2, <1>3, <1>7, <1>8 DEF RolledBack, Words

LEMMA WalkClaims ==
    ASSUME NEW kind, NEW of, IInv(kind, of), NEW t \in Threads, WalkClaim(t),
           Word(call[t].walk) = call[t].expected
    PROVE  IInv(kind, of)'
<1> DEFINE c == call[t]
           d == [c EXCEPT !.pc = "walkRoll", !.expected = <<>>]
<1>1. /\ c.pc = "walkClaim" /\ record' = WithState(c.walk, "reclaimInProgress")
      /\ call' = [call EXCEPT ![t].pc = "walkRoll", ![t].expected = <<>>]
      /\ UNCHANGED <<frontier, count, managers, header, pending, bins, reclaiming, held, late, arena>>
  BY DEF WalkClaim
<1>2. c \in CallType /\ ShapeOf(c) /\ PlaceOf(c) /\ TypeInv /\ call \in [Threads -> CallType]
  BY QuietStart DEF TypeInv
<1>3. PICK r \in Records : r = c.walk
  BY <1>1, <1>2 DEF PlaceOf, CallType, MaybeRecord
<1>4. record[r].state = "available" /\ record[r].block = c.word.pred /\ c.word.pred # None
  <2>1. c.expected # <<>> /\ c.expected[1] = "available" /\ c.expected[2] = c.word.pred /\ c.word.pred # None
    BY <1>1, <1>2 DEF PlaceOf
  <2> QED
    BY <1>3, <2>1 DEF Word
<1>5. d \in CallType
  <2>1. "walkRoll" \in Pcs /\ <<>> \in Expectations
    BY DEF Pcs, WindowPcs, Expectations
  <2> QED
    BY <1>2, <2>1 DEF CallType
<1>6. call' = [call EXCEPT ![t] = d]
  BY <1>1, <1>2 DEF CallType
<1>7. /\ d.pc = "walkRoll" /\ d.md = c.md /\ d.reserved = c.reserved /\ d.list = c.list
      /\ d.batch = c.batch /\ d.stolen = c.stolen /\ d.stage = c.stage /\ d.back = c.back
      /\ d.walk = r /\ d.word = c.word
  BY <1>2, <1>3 DEF CallType
<1> HIDE DEF d
<1>8. Walker(c) /\ Walker(d)
  BY <1>1, <1>7 DEF Walker
<1>9. PlaceOf(d)
  BY <1>3, <1>4, <1>7, RecordFacts DEF PlaceOf
<1>10. \A u \in Threads : RollOf(call[u]) # r
  BY <1>4, RollsNot
<1>11. /\ c.md = None /\ ~Fresh(c) /\ ~Advanced(c) /\ GoneOf(c) = None
  BY <1>1, <1>8, WalkerFacts, WalkerPlain
<1>12. RollOf(d) = r /\ GoneOf(d) = None /\ ~Fresh(d) /\ ~Advanced(d)
  BY <1>7, <1>8, <1>11, WalkerPlain
<1>13. Moves(t, d)
  BY <1>2, <1>5, <1>6, MovesTo
<1>14. /\ \A q \in Records : q # r => record'[q].state = record[q].state
       /\ record'[r].state = "reclaimInProgress"
       /\ \A q \in Records : record'[q].block = record[q].block /\ record'[q].size = record[q].size
  <2>1. record \in [Records -> RecordType]
    BY RecordTyped
  <2> QED
    BY <2>1, <1>1, <1>3 DEF WithState, RecordType
<1>15. Tiling(kind)'
  <2>1. \A q \in Records : record'[q].state \in Active <=> record[q].state \in Active
    BY <1>4, <1>14 DEF Active
  <2>2. \A q \in Records : Describes(q)' <=> Describes(q)
    BY <2>1, <1>11, <1>12, <1>13, DescribesStay
  <2>3. SameFlight(c, d)
    BY <1>11, <1>12 DEF SameFlight, InFlight
  <2>4. Tiling(kind)
    BY DEF IInv
  <2> QED
    BY <1>1, <1>13, <1>14, <2>2, <2>3, <2>4, TilingSame
<1>16. frontier' \in Words /\ frontier'.at <= arena.start
  BY <1>1, <1>2 DEF TypeInv
<1>17. "reclaimInProgress" \in Offered /\ record' = WithState(r, "reclaimInProgress")
  BY <1>1, <1>3 DEF Offered
<1>18. /\ record[r].state \in {"available", "reclaimInProgress"}
       /\ \A u \in Threads \ {t} : RollOf(call[u]) # r
       /\ RollOf(d) \in {None, r}
       /\ d.pc = "walkRoll" => record[r].block = d.word.pred
  BY <1>4, <1>7, <1>10, <1>12
<1>19. UNCHANGED <<count, managers, header, pending, bins, reclaiming, held, late, arena>>
  BY <1>1
<1>20. /\ d.md = c.md /\ d.reserved = c.reserved /\ d.list = c.list
       /\ d.batch = c.batch /\ d.stolen = c.stolen /\ d.stage = c.stage /\ d.back = c.back
  BY <1>7
<1> QED
  BY <1>5, <1>6, <1>8, <1>9, <1>15, <1>16, <1>17, <1>18, <1>19, <1>20, WalkPlain

\* The record a walk is rolling back over is that walk's alone.
LEMMA WalkRollFacts ==
    ASSUME NEW kind, NEW of, IInv(kind, of), NEW t \in Threads, call[t].pc \in {"walkRoll", "walkMark"},
           NEW r, r = call[t].walk
    PROVE  /\ r \in Records /\ record[r].state = "reclaimInProgress" /\ RollOf(call[t]) = r
           /\ \A u \in Threads \ {t} : RollOf(call[u]) # r
           /\ call[t].pc = "walkRoll" => record[r].block = call[t].word.pred /\ Describes(r)
                                         /\ call[t].word.pred # None
<1>1. call[t] \in CallType /\ PlaceOf(call[t]) /\ Rolling
  BY QuietStart DEF IInv
<1>2. r \in Records /\ r # None
  BY <1>1 DEF PlaceOf, CallType, MaybeRecord
<1>3. RollOf(call[t]) = r
  BY DEF RollOf
<1>4. /\ record[r].state = "reclaimInProgress"
      /\ \A u \in Threads \ {t} : RollOf(call[u]) # r
      /\ call[t].pc = "walkRoll" => record[r].block = call[t].word.pred
  BY <1>1, <1>2, <1>3 DEF Rolling
<1>5. call[t].pc = "walkRoll" => GoneOf(call[t]) = None
  BY DEF GoneOf
<1>6. \A u \in Threads \ {t} : GoneOf(call[u]) # r
  BY <1>2, <1>4 DEF GoneOf
<1>7. call[t].pc = "walkRoll" => Describes(r)
  BY <1>2, <1>4, <1>5, <1>6 DEF Describes, Active
<1>8. call[t].pc = "walkRoll" => call[t].word.pred # None
  BY <1>1 DEF PlaceOf
<1> QED
  BY <1>2, <1>3, <1>4, <1>7, <1>8

LEMMA WalkRolls ==
    ASSUME NEW kind, NEW of, IInv(kind, of), NEW t \in Threads, WalkRoll(t), frontier = call[t].word
    PROVE  IInv(kind, of)'
<1> DEFINE c == call[t]
           d == [c EXCEPT !.pc = "walkMark"]
<1>1. /\ c.pc = "walkRoll" /\ frontier' = RolledBack(c.word.pred)
      /\ call' = [call EXCEPT ![t].pc = "walkMark"]
      /\ UNCHANGED <<count, managers, header, record, pending, bins, reclaiming, held, late, arena>>
  BY DEF WalkRoll
<1>2. c \in CallType /\ ShapeOf(c) /\ PlaceOf(c) /\ TypeInv /\ call \in [Threads -> CallType]
  BY QuietStart DEF TypeInv
<1>3. PICK r : r = c.walk
  OBVIOUS
<1>4. /\ r \in Records /\ record[r].state = "reclaimInProgress" /\ RollOf(c) = r
      /\ \A u \in Threads \ {t} : RollOf(call[u]) # r
      /\ record[r].block = c.word.pred /\ Describes(r) /\ c.word.pred # None
  BY <1>1, <1>3, WalkRollFacts
<1>5. d \in CallType
  BY <1>2 DEF CallType, Pcs, WindowPcs
<1>6. call' = [call EXCEPT ![t] = d]
  BY <1>1, <1>2, <1>5 DEF CallType
<1>7. /\ d.pc = "walkMark" /\ d.md = c.md /\ d.reserved = c.reserved /\ d.list = c.list
      /\ d.batch = c.batch /\ d.stolen = c.stolen /\ d.stage = c.stage /\ d.back = c.back
      /\ d.walk = r
  BY <1>2, <1>3 DEF CallType
<1> HIDE DEF d
<1>8. Walker(c) /\ Walker(d)
  BY <1>1, <1>7 DEF Walker
<1>9. PlaceOf(d)
  BY <1>4, <1>7, RecordFacts DEF PlaceOf
<1>11. /\ c.md = None /\ ~Fresh(c) /\ ~Advanced(c) /\ GoneOf(c) = None
  BY <1>1, <1>8, WalkerFacts, WalkerPlain
<1>12. RollOf(d) = r /\ GoneOf(d) = r /\ ~Fresh(d) /\ ~Advanced(d)
  BY <1>7, <1>8, <1>11, WalkerPlain
<1>13. Moves(t, d)
  BY <1>2, <1>5, <1>6, MovesTo
<1>14. record[r].block + record[r].size = frontier.at /\ frontier' = RolledBack(record[r].block)
  <2>1. frontier.pred = record[r].block
    BY <1>4
  <2> QED
    BY <2>1, <1>1, <1>4, LastTile
<1>15. Tiling(kind)'
  <2>1. SameFlight(c, d)
    BY <1>11, <1>12 DEF SameFlight, InFlight
  <2>2. Tiling(kind)
    BY DEF IInv
  <2> QED
    BY <1>1, <1>2, <1>4, <1>11, <1>12, <1>13, <1>14, <2>1, <2>2, TilingRolls
<1>16. frontier' \in Words /\ frontier'.at <= arena.start
  BY <1>4, <1>14, RolledBackTyped
<1>17. "reclaimInProgress" \in Offered /\ record' = WithState(r, "reclaimInProgress")
  <2>1. record \in [Records -> RecordType]
    BY <1>2 DEF TypeInv
  <2> QED
    BY <1>1, <1>4, <2>1 DEF Offered, WithState, RecordType
<1>18. /\ record[r].state \in {"available", "reclaimInProgress"}
       /\ \A u \in Threads \ {t} : RollOf(call[u]) # r
       /\ RollOf(d) \in {None, r}
       /\ d.pc = "walkRoll" => record[r].block = d.word.pred
  BY <1>4, <1>7, <1>12
<1>19. UNCHANGED <<count, managers, header, pending, bins, reclaiming, held, late, arena>>
  BY <1>1
<1>20. /\ d.md = c.md /\ d.reserved = c.reserved /\ d.list = c.list
       /\ d.batch = c.batch /\ d.stolen = c.stolen /\ d.stage = c.stage /\ d.back = c.back
  BY <1>7
<1> QED
  BY <1>4, <1>5, <1>6, <1>8, <1>9, <1>15, <1>16, <1>17, <1>18, <1>19, <1>20, WalkPlain

LEMMA WalkRollMisses ==
    ASSUME NEW kind, NEW of, IInv(kind, of), NEW t \in Threads, WalkRoll(t), frontier # call[t].word
    PROVE  IInv(kind, of)'
<1> DEFINE c == call[t]
           d == [c EXCEPT !.pc = "walkEnd"]
<1>1. /\ c.pc = "walkRoll" /\ record' = WithState(c.walk, "available")
      /\ call' = [call EXCEPT ![t].pc = "walkEnd"]
      /\ UNCHANGED <<frontier, count, managers, header, pending, bins, reclaiming, held, late, arena>>
  BY DEF WalkRoll
<1>2. c \in CallType /\ ShapeOf(c) /\ PlaceOf(c) /\ TypeInv /\ call \in [Threads -> CallType]
  BY QuietStart DEF TypeInv
<1>3. PICK r : r = c.walk
  OBVIOUS
<1>4. /\ r \in Records /\ record[r].state = "reclaimInProgress" /\ RollOf(c) = r
      /\ \A u \in Threads \ {t} : RollOf(call[u]) # r
  BY <1>1, <1>3, WalkRollFacts
<1>5. d \in CallType
  BY <1>2 DEF CallType, Pcs, WindowPcs
<1>6. call' = [call EXCEPT ![t] = d]
  BY <1>1, <1>2, <1>5 DEF CallType
<1>7. /\ d.pc = "walkEnd" /\ d.md = c.md /\ d.reserved = c.reserved /\ d.list = c.list
      /\ d.batch = c.batch /\ d.stolen = c.stolen /\ d.stage = c.stage /\ d.back = c.back
  BY <1>2 DEF CallType
<1> HIDE DEF d
<1>8. Walker(c) /\ Walker(d)
  BY <1>1, <1>7 DEF Walker
<1>9. PlaceOf(d)
  BY <1>7 DEF PlaceOf
<1>11. /\ c.md = None /\ ~Fresh(c) /\ ~Advanced(c) /\ GoneOf(c) = None
  BY <1>1, <1>8, WalkerFacts, WalkerPlain
<1>12. RollOf(d) = None /\ GoneOf(d) = None /\ ~Fresh(d) /\ ~Advanced(d)
  BY <1>7, <1>8, <1>11, WalkerPlain
<1>13. Moves(t, d)
  BY <1>2, <1>5, <1>6, MovesTo
<1>14. /\ \A q \in Records : q # r => record'[q].state = record[q].state
       /\ record'[r].state = "available"
       /\ \A q \in Records : record'[q].block = record[q].block /\ record'[q].size = record[q].size
  <2>1. record \in [Records -> RecordType]
    BY <1>2 DEF TypeInv
  <2> QED
    BY <2>1, <1>1, <1>3, <1>4 DEF WithState, RecordType
<1>15. Tiling(kind)'
  <2>1. \A q \in Records : record'[q].state \in Active <=> record[q].state \in Active
    BY <1>4, <1>14 DEF Active
  <2>2. \A q \in Records : Describes(q)' <=> Describes(q)
    BY <2>1, <1>11, <1>12, <1>13, DescribesStay
  <2>3. SameFlight(c, d)
    BY <1>11, <1>12 DEF SameFlight, InFlight
  <2>4. Tiling(kind)
    BY DEF IInv
  <2> QED
    BY <1>1, <1>13, <1>14, <2>2, <2>3, <2>4, TilingSame
<1>16. frontier' \in Words /\ frontier'.at <= arena.start
  BY <1>1, <1>2 DEF TypeInv
<1>17. "available" \in Offered /\ record' = WithState(r, "available")
  BY <1>1, <1>3 DEF Offered
<1>18. /\ record[r].state \in {"available", "reclaimInProgress"}
       /\ RollOf(d) \in {None, r} /\ RollOf(d) # r
       /\ d.pc = "walkRoll" => record[r].block = d.word.pred
  BY <1>4, <1>7, <1>12, RecordFacts
<1>19. UNCHANGED <<count, managers, header, pending, bins, reclaiming, held, late, arena>>
  BY <1>1
<1>20. /\ d.md = c.md /\ d.reserved = c.reserved /\ d.list = c.list
       /\ d.batch = c.batch /\ d.stolen = c.stolen /\ d.stage = c.stage /\ d.back = c.back
  BY <1>7
<1> QED
  BY <1>4, <1>5, <1>6, <1>8, <1>9, <1>15, <1>16, <1>17, <1>18, <1>19, <1>20, WalkPlain

LEMMA WalkMarkStep ==
    ASSUME NEW kind, NEW of, IInv(kind, of), NEW t \in Threads, WalkMark(t)
    PROVE  IInv(kind, of)'
<1> DEFINE c == call[t]
           d == [c EXCEPT !.pc = "walk", !.walk = None, !.word = Idle.word]
<1>1. /\ c.pc = "walkMark" /\ record' = WithState(c.walk, "reclaimed")
      /\ call' = [call EXCEPT ![t].pc = "walk", ![t].walk = None, ![t].word = Idle.word]
      /\ UNCHANGED <<frontier, count, managers, header, pending, bins, reclaiming, held, late, arena>>
  BY DEF WalkMark
<1>2. c \in CallType /\ ShapeOf(c) /\ PlaceOf(c) /\ TypeInv /\ call \in [Threads -> CallType]
  BY QuietStart DEF TypeInv
<1>3. PICK r : r = c.walk
  OBVIOUS
<1>4. /\ r \in Records /\ record[r].state = "reclaimInProgress" /\ RollOf(c) = r
      /\ \A u \in Threads \ {t} : RollOf(call[u]) # r
  BY <1>1, <1>3, WalkRollFacts
<1>5. d \in CallType
  <2>1. "walk" \in Pcs /\ Idle.word \in Words /\ None \in MaybeRecord
    BY BlockFacts DEF Pcs, WindowPcs, Idle, Words, MaybeBlock, MaybeRecord
  <2> QED
    BY <1>2, <2>1 DEF CallType
<1>6. call' = [call EXCEPT ![t] = d]
  BY <1>1, <1>2, <1>5 DEF CallType
<1>7. /\ d.pc = "walk" /\ d.md = c.md /\ d.reserved = c.reserved /\ d.list = c.list
      /\ d.batch = c.batch /\ d.stolen = c.stolen /\ d.stage = c.stage /\ d.back = c.back
  BY <1>2 DEF CallType
<1> HIDE DEF d
<1>8. Walker(c) /\ Walker(d)
  BY <1>1, <1>7 DEF Walker
<1>9. PlaceOf(d)
  BY <1>7 DEF PlaceOf
<1>11. /\ c.md = None /\ ~Fresh(c) /\ ~Advanced(c) /\ GoneOf(c) = r
  BY <1>1, <1>3, <1>8, WalkerFacts, WalkerPlain
<1>12. RollOf(d) = None /\ GoneOf(d) = None /\ ~Fresh(d) /\ ~Advanced(d)
  BY <1>7, <1>8, <1>11, WalkerPlain
<1>13. Moves(t, d)
  BY <1>2, <1>5, <1>6, MovesTo
<1>14. /\ \A q \in Records : q # r => record'[q].state = record[q].state
       /\ record'[r].state = "reclaimed"
       /\ \A q \in Records : record'[q].block = record[q].block /\ record'[q].size = record[q].size
  <2>1. record \in [Records -> RecordType]
    BY <1>2 DEF TypeInv
  <2> QED
    BY <2>1, <1>1, <1>3, <1>4 DEF WithState, RecordType
<1>15. Tiling(kind)'
  <2>1. \A u \in Threads : call'[u] = IF u = t THEN d ELSE call[u]
    BY <1>13 DEF Moves
  <2>2. ASSUME NEW q \in Records PROVE Describes(q)' <=> Describes(q)
    <3>1. CASE q = r
      BY <3>1, <1>11, <1>14 DEF Describes, Active
    <3>2. CASE q # r
      <4>1. (\A u \in Threads : GoneOf(call'[u]) # q) <=> (\A u \in Threads : GoneOf(call[u]) # q)
        BY <3>2, <2>1, <1>11, <1>12, RecordFacts
      <4> QED
        BY <3>2, <4>1, <1>14 DEF Describes
    <3> QED
      BY <3>1, <3>2
  <2>3. SameFlight(c, d)
    BY <1>11, <1>12 DEF SameFlight, InFlight
  <2>4. Tiling(kind)
    BY DEF IInv
  <2> QED
    BY <1>1, <1>13, <1>14, <2>2, <2>3, <2>4, TilingSame
<1>16. frontier' \in Words /\ frontier'.at <= arena.start
  BY <1>1, <1>2 DEF TypeInv
<1>17. "reclaimed" \in Offered /\ record' = WithState(r, "reclaimed")
  BY <1>1, <1>3 DEF Offered
<1>18. /\ record[r].state \in {"available", "reclaimInProgress"}
       /\ RollOf(d) \in {None, r} /\ RollOf(d) # r
       /\ d.pc = "walkRoll" => record[r].block = d.word.pred
  BY <1>4, <1>7, <1>12, RecordFacts
<1>19. UNCHANGED <<count, managers, header, pending, bins, reclaiming, held, late, arena>>
  BY <1>1
<1>20. /\ d.md = c.md /\ d.reserved = c.reserved /\ d.list = c.list
       /\ d.batch = c.batch /\ d.stolen = c.stolen /\ d.stage = c.stage /\ d.back = c.back
  BY <1>7
<1> QED
  BY <1>4, <1>5, <1>6, <1>8, <1>9, <1>15, <1>16, <1>17, <1>18, <1>19, <1>20, WalkPlain

Batcher(c) == c.pc \in {"batchScan", "batchRoll", "publish", "pushFree"}

LEMMA BatcherPlain ==
    ASSUME NEW c, Batcher(c), (c.md # None) <=> c.pc = "batchRoll"
    PROVE  /\ MdOf(c) = None /\ SeenOf(c) = None /\ ClearOf(c) = None /\ TransientOf(c) = None
           /\ TrimOf(c) = None /\ GoneOf(c) = None /\ ~Fresh(c) /\ ~Advanced(c) /\ ~HasLocked(c)
           /\ ~AtFront(c) /\ c.pc \notin {"lock", "pushPending", "frontAdvance"} /\ Batching(c)
           /\ RollOf(c) = (IF c.pc = "batchRoll" THEN c.md ELSE None)
           /\ OfferOf(c) = (IF c.pc = "pushFree" THEN Head(c.batch) ELSE None)
           /\ (Rolls(c) <=> c.pc = "batchRoll")
BY DEF Batcher, MdOf, SeenOf, ClearOf, TransientOf, TrimOf, GoneOf, Fresh, Advanced, HasLocked, AtFront,
       Batching, RollOf, OfferOf, Rolls

LEMMA BatcherFacts ==
    ASSUME NEW kind, NEW of, IInv(kind, of), NEW t \in Threads, Batcher(call[t])
    PROVE  /\ call[t] \in CallType /\ ((call[t].md # None) <=> call[t].pc = "batchRoll")
           /\ (call[t].reserved # None <=> call[t].stage # "first")
           /\ (call[t].back = "idle" => call[t].stage = "first")
           /\ call[t].batch \in Seq(Records) /\ call[t].list \in Seq(Records)
           /\ IsInjective(call[t].batch) /\ IsInjective(call[t].list)
           /\ call[t].stolen \in Nat /\ call[t].window \in Shards
           /\ (call[t].pc \in {"publish", "pushFree"} => call[t].batch # <<>>)
           /\ (call[t].pc = "batchRoll" => call[t].md \in Range(call[t].batch) /\ call[t].md \in Records)
           /\ \A r \in Range(call[t].batch) :
                 /\ r \in Records /\ kind[r] = "batch" /\ of[r] = t /\ r < count
                 /\ record[r].state \in BatchStates(call[t], r)
<1>1. call[t] \in CallType /\ ShapeOf(call[t])
  BY QuietStart
<1>2. (HasMd(call[t]) <=> call[t].pc = "batchRoll") /\ Batching(call[t]) /\ Windowed(call[t])
  BY DEF Batcher, HasMd, Batching, Windowed, WindowPcs
<1>3. HasReserved(call[t]) <=> call[t].stage # "first"
  BY DEF Batcher, HasReserved
<1>4. call[t].batch \in Seq(Records) /\ call[t].list \in Seq(Records) /\ call[t].stolen \in Nat
      /\ call[t].window \in Shards
  BY <1>1 DEF CallType
<1>5. IsInjective(call[t].batch) /\ IsInjective(call[t].list)
  BY PlacesTyped DEF ThreadPlaces
<1>6. \A r \in Range(call[t].batch) : r \in Records
  BY <1>4 DEF Range
<1>7. \A r \in Range(call[t].batch) : kind[r] = "batch" /\ of[r] = t
                                      /\ record[r].state \in BatchStates(call[t], r)
  BY <1>6, InHandFacts DEF In
<1>8. \A r \in Range(call[t].batch) : r < count
  BY <1>6, <1>7, PlacesTyped
<1> QED
  BY <1>1, <1>2, <1>3, <1>4, <1>5, <1>6, <1>7, <1>8 DEF ShapeOf

LEMMA BatcherWell ==
    ASSUME NEW d \in CallType, Batcher(d), (d.md # None) <=> d.pc = "batchRoll",
           d.reserved # None <=> d.stage # "first", d.back = "idle" => d.stage = "first",
           d.pc \in {"publish", "pushFree"} => d.batch # <<>>,
           d.pc = "batchRoll" => d.md \in Range(d.batch)
    PROVE  Well(d)
<1>1. ShapeOf(d)
  BY DEF Batcher, ShapeOf, HasMd, HasReserved, Batching, Windowed, FirstPcs, WindowPcs
<1>2. PlaceOf(d)
  BY DEF Batcher, PlaceOf
<1> QED
  BY <1>1, <1>2 DEF Well

\* A step that changes the state of one record of a batch.
LEMMA BatchRestates ==
    ASSUME NEW kind, NEW of, IInv(kind, of), NEW t \in Threads, NEW d, Batcher(call[t]), Batcher(d),
           d \in CallType, call' = [call EXCEPT ![t] = d],
           d.reserved = call[t].reserved, d.list = call[t].list, d.batch = call[t].batch,
           d.stolen = call[t].stolen, d.stage = call[t].stage, d.back = call[t].back,
           d.window = call[t].window, (d.md # None) <=> d.pc = "batchRoll",
           NEW r \in Records, r \in Range(call[t].batch), d.pc = "batchRoll" => d.md = r,
           NEW s \in Active \ {"inUse"}, record[r].state \in Active \ {"inUse"},
           record' = WithState(r, s), s \in BatchStates(d, r),
           \A u \in Threads \ {t} : RollOf(call[u]) # r,
           \A q \in Range(call[t].batch) : q # r => record[q].state \in BatchStates(d, q),
           d.pc = "batchRoll" => /\ s = "reclaimInProgress"
                                 /\ record[r].block + record[r].size = d.word.at,
           UNCHANGED <<frontier, count, managers, header, pending, bins, held, late, arena>>,
           reclaiming' \in BOOLEAN
    PROVE  IInv(kind, of)'
<1> DEFINE c == call[t]
<1>1. /\ c \in CallType /\ ((c.md # None) <=> c.pc = "batchRoll")
      /\ (c.reserved # None <=> c.stage # "first") /\ (c.back = "idle" => c.stage = "first")
      /\ r \in Records /\ kind[r] = "batch" /\ of[r] = t /\ c.batch # <<>>
  BY BatcherFacts, EmptyRange
<1>2. /\ MdOf(c) = None /\ SeenOf(c) = None /\ ClearOf(c) = None /\ TransientOf(c) = None
      /\ TrimOf(c) = None /\ GoneOf(c) = None /\ ~Fresh(c) /\ ~Advanced(c)
      /\ c.pc \notin {"lock", "pushPending"}
  BY <1>1, BatcherPlain
<1>3. /\ MdOf(d) = None /\ SeenOf(d) = None /\ ClearOf(d) = None /\ TransientOf(d) = None
      /\ TrimOf(d) = None /\ GoneOf(d) = None /\ ~Fresh(d) /\ ~Advanced(d) /\ ~HasLocked(d)
      /\ d.pc \notin {"lock", "pushPending", "frontAdvance"}
      /\ RollOf(d) = (IF d.pc = "batchRoll" THEN d.md ELSE None) /\ (Rolls(d) <=> d.pc = "batchRoll")
  BY BatcherPlain
<1>4. Well(d)
  BY <1>1, BatcherWell
<1>5. TypeInv /\ Moves(t, d) /\ call' \in [Threads -> CallType]
  BY <1>4, MovesTo DEF IInv
<1>6. SameFlight(c, d)
  BY <1>2, <1>3 DEF SameFlight, InFlight
<1>7. /\ Control' /\ LateFrees' /\ Tiling(kind)' /\ Versions'
      /\ record' \in [Records -> RecordType] /\ record'[r].state = s
      /\ \A q \in Records : /\ q # r => record'[q].state = record[q].state
                            /\ record'[q].block = record[q].block
                            /\ record'[q].size = record[q].size
                            /\ record'[q].version = record[q].version
                            /\ record'[q].shard = record[q].shard
  BY <1>2, <1>3, <1>4, <1>5, <1>6, Restated
<1>8. TypeInv'
  BY <1>5, <1>7 DEF TypeInv
<1>9. Described'
  BY <1>3, <1>5, <1>7, DescribedPut DEF Active, Unused
<1>10. Rolling'
  <2>1. CASE d.pc = "batchRoll"
    <3>1. RollOf(d) = r /\ record'[r].state = "reclaimInProgress" /\ d.pc # "walkRoll"
      BY <2>1, <1>3, <1>7
    <3>2. d.pc = "batchRoll" => record'[d.md].block + record'[d.md].size = d.word.at
      BY <2>1, <1>7
    <3>3. \A q \in Records : q # r => /\ record'[q].state = record[q].state
                                     /\ record'[q].block = record[q].block
                                     /\ record'[q].size = record[q].size
      BY <1>7
    <3> QED
      BY <3>1, <3>2, <3>3, <1>5, RollingStarts
  <2>2. CASE d.pc # "batchRoll"
    BY <2>2, <1>3, <1>5, <1>7, RollingEnds
  <2> QED
    BY <2>1, <2>2
<1>11. Places(kind, of)'
  BY <1>2, <1>3, <1>5, PlacesStay
<1>12. StatesAt(kind, of)'
  <2>1. call'[of[r]] = d
    BY <1>1, <1>5 DEF Moves
  <2>2. \A q \in Records : q # MdOf(c)
    BY <1>2, RecordFacts
  <2> QED
    BY <2>1, <2>2, <1>1, <1>5, <1>7, StatesStay
<1>13. ManagerCounts' /\ Trims'
  BY <1>2, <1>3, <1>5, CountsSame
<1>14. PendingCounts'
  <2>1. \A u \in Threads : call[u].pc = "pushPending" => record'[call[u].md].shard = record[call[u].md].shard
    <3>1. \A u \in Threads : call[u].pc = "pushPending" => call[u].md \in Records
      BY CallFacts DEF IInv, ShapeOf, HasMd
    <3> QED
      BY <3>1, <1>7
  <2> QED
    BY <2>1, <1>2, <1>3, <1>5, PendingSame
<1> QED
  BY <1>7, <1>8, <1>9, <1>10, <1>11, <1>12, <1>13, <1>14 DEF IInv

LEMMA BatchScanFinds ==
    ASSUME NEW kind, NEW of, IInv(kind, of), NEW t \in Threads, call[t].pc = "batchScan",
           NEW r, r \in Range(call[t].batch), record[r].state = "pending", EndsAt(r, frontier.at),
           record' = WithState(r, "reclaimInProgress"),
           call' = [call EXCEPT ![t].pc = "batchRoll", ![t].md = r, ![t].word = frontier],
           UNCHANGED <<frontier, count, managers, header, pending, bins, reclaiming, held, late, arena>>
    PROVE  IInv(kind, of)'
<1> DEFINE c == call[t]
           d == [c EXCEPT !.pc = "batchRoll", !.md = r, !.word = frontier]
<1>1. Batcher(c) /\ TypeInv /\ call \in [Threads -> CallType]
  BY DEF Batcher, IInv, TypeInv
<1>2. /\ c \in CallType /\ c.md = None /\ r \in Records
      /\ \A q \in Range(c.batch) : q \in Records /\ record[q].state \in BatchStates(c, q)
  BY <1>1, BatcherFacts
<1>3. d \in CallType
  <2>1. r \in MaybeRecord /\ frontier \in Words /\ "batchRoll" \in Pcs
    BY <1>1, <1>2 DEF MaybeRecord, TypeInv, Pcs, WindowPcs
  <2> QED
    BY <1>2, <2>1 DEF CallType
<1>4. call' = [call EXCEPT ![t] = d]
  BY <1>1, <1>2 DEF CallType
<1>5. /\ d.pc = "batchRoll" /\ d.md = r /\ d.word = frontier /\ d.reserved = c.reserved
      /\ d.list = c.list /\ d.batch = c.batch /\ d.stolen = c.stolen /\ d.stage = c.stage
      /\ d.back = c.back /\ d.window = c.window
  BY <1>2 DEF CallType
<1> HIDE DEF d
<1>6. Batcher(d) /\ r # None
  BY <1>2, <1>5, RecordFacts DEF Batcher
<1>7. RollOf(d) = r /\ OfferOf(d) = None /\ RollOf(c) = None /\ OfferOf(c) = None
  BY <1>1, <1>2, <1>5, <1>6, BatcherPlain
<1>8. \A q \in Range(c.batch) : q # r => record[q].state \in BatchStates(d, q)
  <2> TAKE q \in Range(c.batch)
  <2>1. q # None
    BY <1>2, RecordFacts
  <2> QED
    BY <2>1, <1>2, <1>7 DEF BatchStates
<1>9. "reclaimInProgress" \in BatchStates(d, r)
  BY <1>7 DEF BatchStates
<1>10. \A u \in Threads : RollOf(call[u]) # r
  BY <1>2, RollsNot
<1>11. /\ "reclaimInProgress" \in Active \ {"inUse"} /\ record[r].state \in Active \ {"inUse"}
       /\ record[r].block + record[r].size = d.word.at
  BY <1>5 DEF Active, EndsAt
<1>12. reclaiming' \in BOOLEAN
  BY QuietStart
<1>13. /\ Batcher(c) /\ record' = WithState(r, "reclaimInProgress") /\ r \in Records
       /\ UNCHANGED <<frontier, count, managers, header, pending, bins, held, late, arena>>
       /\ \A u \in Threads \ {t} : RollOf(call[u]) # r
  BY <1>1, <1>2, <1>10
<1>14. /\ (d.md # None) <=> d.pc = "batchRoll"
       /\ d.pc = "batchRoll" => d.md = r
  BY <1>5, <1>6
<1>15. d.pc = "batchRoll" => /\ "reclaimInProgress" = "reclaimInProgress"
                             /\ record[r].block + record[r].size = d.word.at
  BY <1>11
<1>16. /\ d.reserved = c.reserved /\ d.list = c.list /\ d.batch = c.batch
       /\ d.stolen = c.stolen /\ d.stage = c.stage /\ d.back = c.back /\ d.window = c.window
  BY <1>5
<1> QED
  BY <1>3, <1>4, <1>6, <1>8, <1>9, <1>11, <1>12, <1>13, <1>14, <1>15, <1>16, BatchRestates

LEMMA BatchRollMisses ==
    ASSUME NEW kind, NEW of, IInv(kind, of), NEW t \in Threads, BatchRoll(t), frontier # call[t].word
    PROVE  IInv(kind, of)'
<1> DEFINE c == call[t]
           d == [c EXCEPT !.pc = "batchScan", !.md = None, !.word = Idle.word]
<1>1. /\ c.pc = "batchRoll" /\ record' = WithState(c.md, "pending")
      /\ call' = [call EXCEPT ![t].pc = "batchScan", ![t].md = None, ![t].word = Idle.word]
      /\ UNCHANGED <<frontier, count, managers, header, pending, bins, reclaiming, held, late, arena>>
  BY DEF BatchRoll
<1>2. Batcher(c) /\ TypeInv /\ call \in [Threads -> CallType]
  BY <1>1 DEF Batcher, IInv, TypeInv
<1>3. PICK r \in Records : r = c.md
  BY <1>1, <1>2, BatcherFacts
<1>4. /\ c \in CallType /\ (c.md # None <=> c.pc = "batchRoll") /\ r \in Range(c.batch)
      /\ \A q \in Range(c.batch) : q \in Records /\ record[q].state \in BatchStates(c, q)
  BY <1>1, <1>2, <1>3, BatcherFacts
<1>5. d \in CallType
  <2>1. None \in MaybeRecord /\ Idle.word \in Words /\ "batchScan" \in Pcs
    BY BlockFacts DEF MaybeRecord, Idle, Words, MaybeBlock, Pcs, WindowPcs
  <2> QED
    BY <1>4, <2>1 DEF CallType
<1>6. call' = [call EXCEPT ![t] = d]
  BY <1>1, <1>2, <1>4 DEF CallType
<1>7. /\ d.pc = "batchScan" /\ d.md = None /\ d.reserved = c.reserved
      /\ d.list = c.list /\ d.batch = c.batch /\ d.stolen = c.stolen /\ d.stage = c.stage
      /\ d.back = c.back /\ d.window = c.window
  BY <1>4 DEF CallType
<1> HIDE DEF d
<1>8. Batcher(d)
  BY <1>7 DEF Batcher
<1>9. RollOf(c) = r /\ OfferOf(c) = None /\ RollOf(d) = None /\ OfferOf(d) = None /\ r # None
  BY <1>1, <1>2, <1>3, <1>4, <1>7, <1>8, BatcherPlain, RecordFacts
<1>10. \A q \in Range(c.batch) : q # r => record[q].state \in BatchStates(d, q)
  <2> TAKE q \in Range(c.batch)
  <2>1. q # None
    BY <1>4, RecordFacts
  <2> QED
    BY <2>1, <1>4, <1>9 DEF BatchStates
<1>11. "pending" \in BatchStates(d, r)
  BY <1>9 DEF BatchStates
<1>12. record[r].state = "reclaimInProgress" /\ \A u \in Threads \ {t} : RollOf(call[u]) # r
  BY <1>9 DEF IInv, Rolling
<1>13. /\ "pending" \in Active \ {"inUse"} /\ record[r].state \in Active \ {"inUse"}
  BY <1>12 DEF Active
<1>14. reclaiming' \in BOOLEAN /\ record' = WithState(r, "pending")
  BY <1>1, <1>3, QuietStart
<1>15. UNCHANGED <<frontier, count, managers, header, pending, bins, held, late, arena>>
  BY <1>1
<1> QED
  BY <1>2, <1>4, <1>5, <1>6, <1>7, <1>8, <1>10, <1>11, <1>12, <1>13, <1>14, <1>15, BatchRestates

LEMMA PublishStep ==
    ASSUME NEW kind, NEW of, IInv(kind, of), NEW t \in Threads, Publish(t)
    PROVE  IInv(kind, of)'
<1> DEFINE c == call[t]
           d == [c EXCEPT !.pc = "pushFree"]
<1>1. /\ c.pc = "publish" /\ record' = WithState(Head(c.batch), "available")
      /\ call' = [call EXCEPT ![t].pc = "pushFree"]
      /\ UNCHANGED <<frontier, count, managers, header, pending, bins, reclaiming, held, late, arena>>
  BY DEF Publish
<1>2. Batcher(c) /\ TypeInv /\ call \in [Threads -> CallType]
  BY <1>1 DEF Batcher, IInv, TypeInv
<1>3. /\ c \in CallType /\ c.md = None /\ c.batch # <<>> /\ c.batch \in Seq(Records)
      /\ IsInjective(c.batch)
      /\ \A q \in Range(c.batch) : q \in Records /\ record[q].state \in BatchStates(c, q)
  BY <1>1, <1>2, BatcherFacts
<1>4. PICK r \in Records : r = Head(c.batch)
  BY <1>3, Popped
<1>5. r \in Range(c.batch)
  BY <1>3, <1>4, Popped
<1>6. d \in CallType
  BY <1>3 DEF CallType, Pcs, WindowPcs
<1>7. call' = [call EXCEPT ![t] = d]
  BY <1>1, <1>2, <1>3 DEF CallType
<1>8. /\ d.pc = "pushFree" /\ d.md = None /\ d.reserved = c.reserved
      /\ d.list = c.list /\ d.batch = c.batch /\ d.stolen = c.stolen /\ d.stage = c.stage
      /\ d.back = c.back /\ d.window = c.window
  BY <1>3 DEF CallType
<1> HIDE DEF d
<1>9. Batcher(d)
  BY <1>8 DEF Batcher
<1>10. RollOf(c) = None /\ OfferOf(c) = None /\ RollOf(d) = None /\ OfferOf(d) = r /\ r # None
  BY <1>1, <1>2, <1>3, <1>4, <1>8, <1>9, BatcherPlain, RecordFacts
<1>11. \A q \in Range(c.batch) : /\ record[q].state = "pending"
                                 /\ q # r => record[q].state \in BatchStates(d, q)
  <2> TAKE q \in Range(c.batch)
  <2>1. q # None
    BY <1>3, RecordFacts
  <2> QED
    BY <2>1, <1>3, <1>10 DEF BatchStates
<1>12. "available" \in BatchStates(d, r)
  BY <1>10 DEF BatchStates, Offered
<1>13. record[r].state = "pending"
  <2>1. r \in Range(c.batch) /\ \A q \in Range(c.batch) : record[q].state = "pending"
    BY <1>5, <1>11
  <2> HIDE DEF c
  <2> QED
    BY <2>1
<1>14. \A u \in Threads : RollOf(call[u]) # r
  BY <1>13, RollsNot
<1>15. "available" \in Active \ {"inUse"} /\ record[r].state \in Active \ {"inUse"}
  BY <1>13 DEF Active
<1>16. reclaiming' \in BOOLEAN /\ record' = WithState(r, "available")
  BY <1>1, <1>4, QuietStart
<1>17. UNCHANGED <<frontier, count, managers, header, pending, bins, held, late, arena>>
  BY <1>1
<1>18. /\ Batcher(c) /\ \A u \in Threads \ {t} : RollOf(call[u]) # r
       /\ \A q \in Range(c.batch) : q # r => record[q].state \in BatchStates(d, q)
       /\ (d.md # None) <=> d.pc = "batchRoll"
       /\ d.pc = "batchRoll" => d.md = r
  BY <1>2, <1>3, <1>8, <1>11, <1>14
<1>19. d.pc = "batchRoll" => /\ "available" = "reclaimInProgress"
                             /\ record[r].block + record[r].size = d.word.at
  BY <1>8
<1>20. /\ d.reserved = c.reserved /\ d.list = c.list /\ d.batch = c.batch
       /\ d.stolen = c.stolen /\ d.stage = c.stage /\ d.back = c.back /\ d.window = c.window
  BY <1>8
<1> QED
  BY <1>5, <1>6, <1>7, <1>9, <1>12, <1>15, <1>16, <1>17, <1>18, <1>19, <1>20, BatchRestates

LEMMA BatchRollFacts ==
    ASSUME NEW kind, NEW of, IInv(kind, of), NEW t \in Threads, call[t].pc = "batchRoll",
           NEW r \in Records, r = call[t].md
    PROVE  /\ record[r].state = "reclaimInProgress" /\ RollOf(call[t]) = r
           /\ \A u \in Threads \ {t} : RollOf(call[u]) # r
           /\ record[r].block + record[r].size = call[t].word.at /\ Describes(r)
<1>1. Rolling /\ r # None
  BY RecordFacts DEF IInv
<1>2. RollOf(call[t]) = r
  BY DEF RollOf
<1>3. /\ record[r].state = "reclaimInProgress"
      /\ \A u \in Threads \ {t} : RollOf(call[u]) # r
      /\ record[r].block + record[r].size = call[t].word.at
  BY <1>1, <1>2 DEF Rolling
<1>4. GoneOf(call[t]) = None
  BY DEF GoneOf
<1>5. \A u \in Threads \ {t} : GoneOf(call[u]) # r
  BY <1>1, <1>3 DEF GoneOf
<1>6. Describes(r)
  BY <1>1, <1>3, <1>4, <1>5 DEF Describes, Active
<1> QED
  BY <1>2, <1>3, <1>6

LEMMA BatchRolls ==
    ASSUME NEW kind, NEW of, IInv(kind, of), NEW t \in Threads, BatchRoll(t), frontier = call[t].word
    PROVE  Inv'
<1> DEFINE c == call[t]
<1>1. /\ c.pc = "batchRoll"
      /\ \E i \in DOMAIN c.batch :
            /\ c.batch[i] = c.md /\ frontier' = RolledBack(record[c.md].block)
            /\ call' = [call EXCEPT ![t].pc = "recycle", ![t].after = "batchScan",
                                    ![t].word = Idle.word, ![t].batch = RemoveAt(@, i)]
      /\ UNCHANGED <<count, managers, header, record, pending, bins, reclaiming, held, late, arena>>
  BY DEF BatchRoll
<1>2. Batcher(c) /\ TypeInv /\ call \in [Threads -> CallType]
  BY <1>1 DEF Batcher, IInv, TypeInv
<1>3. /\ c \in CallType /\ c.md \in Records /\ (c.reserved # None <=> c.stage # "first")
      /\ (c.back = "idle" => c.stage = "first")
      /\ c.batch \in Seq(Records) /\ IsInjective(c.batch)
      /\ \A q \in Range(c.batch) : /\ q \in Records /\ kind[q] = "batch" /\ of[q] = t /\ q < count
                                   /\ record[q].state \in BatchStates(c, q)
  BY <1>1, <1>2, BatcherFacts
<1>4. PICK i \in DOMAIN c.batch :
            /\ c.batch[i] = c.md /\ frontier' = RolledBack(record[c.md].block)
            /\ call' = [call EXCEPT ![t].pc = "recycle", ![t].after = "batchScan",
                                    ![t].word = Idle.word, ![t].batch = RemoveAt(@, i)]
  BY <1>1
<1>5. PICK r \in Records : r = c.md
  BY <1>3
<1>6. PICK rest : rest = RemoveAt(c.batch, i)
  OBVIOUS
<1>7. /\ rest \in Seq(Records) /\ IsInjective(rest)
      /\ \A x : x \in Range(rest) <=> x \in Range(c.batch) /\ x # r
  BY <1>3, <1>4, <1>5, <1>6, Removed
<1>8. r \in Range(c.batch)
  BY <1>3, <1>4, <1>5 DEF Range
<1>9. kind[r] = "batch" /\ of[r] = t /\ r < count
  BY <1>3, <1>8
<1> DEFINE d == [c EXCEPT !.pc = "recycle", !.after = "batchScan", !.word = Idle.word, !.batch = rest]
<1>10. d \in CallType
  <2>1. Idle.word \in Words /\ "recycle" \in Pcs
    BY BlockFacts DEF Idle, Words, MaybeBlock, Pcs
  <2> QED
    BY <1>3, <1>7, <2>1 DEF CallType
<1>11. call' = [call EXCEPT ![t] = d]
  BY <1>2, <1>3, <1>4, <1>6 DEF CallType
<1>12. /\ d.pc = "recycle" /\ d.after = "batchScan" /\ d.md = r /\ d.reserved = c.reserved
       /\ d.list = c.list /\ d.batch = rest /\ d.stolen = c.stolen /\ d.stage = c.stage
       /\ d.back = c.back /\ d.window = c.window
  BY <1>3, <1>5 DEF CallType
<1> HIDE DEF d
<1>13. Well(d)
  <2>1. ShapeOf(d)
    <3>1. r # None
      BY RecordFacts
    <3> QED
      BY <3>1, <1>3, <1>12 DEF ShapeOf, HasMd, HasReserved, Batching, Windowed, FirstPcs, WindowPcs
  <2>2. PlaceOf(d)
    BY <1>12 DEF PlaceOf
  <2> QED
    BY <2>1, <2>2, <1>10 DEF Well
<1>14. Moves(t, d) /\ call' \in [Threads -> CallType]
  BY <1>2, <1>10, <1>11, MovesTo
<1>15. /\ MdOf(d) = r /\ SeenOf(d) = None /\ ClearOf(d) = None /\ TransientOf(d) = None
       /\ TrimOf(d) = None /\ GoneOf(d) = r /\ RollOf(d) = r /\ OfferOf(d) = None
       /\ ~Fresh(d) /\ ~Advanced(d) /\ ~HasLocked(d) /\ ~AtFront(d)
       /\ d.pc \notin {"lock", "pushPending"}
  BY <1>12 DEF MdOf, SeenOf, ClearOf, TransientOf, TrimOf, GoneOf, RollOf, OfferOf, Fresh, Advanced,
               HasLocked, AtFront
<1>16. /\ MdOf(c) = None /\ SeenOf(c) = None /\ ClearOf(c) = None /\ TransientOf(c) = None
       /\ TrimOf(c) = None /\ GoneOf(c) = None /\ RollOf(c) = r /\ OfferOf(c) = None
       /\ ~Fresh(c) /\ ~Advanced(c) /\ c.pc \notin {"lock", "pushPending"}
  BY <1>1, <1>5 DEF MdOf, SeenOf, ClearOf, TransientOf, TrimOf, GoneOf, RollOf, OfferOf, Fresh, Advanced
<1>17. /\ record[r].state = "reclaimInProgress" /\ Describes(r)
       /\ \A u \in Threads \ {t} : RollOf(call[u]) # r
       /\ record[r].block + record[r].size = frontier.at
  BY <1>1, <1>5, BatchRollFacts
<1>18. frontier' = RolledBack(record[r].block)
  BY <1>4, <1>5
<1> PICK new, nof : Moved(kind, of, new, nof, r, "md", t)
  BY PlacesTyped, CanMove DEF Kinds
<1>19. /\ new \in [Records -> Kinds] /\ Elsewhere(kind, of, new, nof, r)
       /\ new[r] = "md" /\ nof[r] = t
  BY DEF Moved
<1>20. frontier' \in Words /\ frontier'.at <= arena.start
  BY <1>17, <1>18, RolledBackTyped
<1>21. TypeInv'
  BY <1>1, <1>2, <1>14, <1>20 DEF TypeInv
<1>22. Tiling(new)'
  <2>1. SameFlight(c, d)
    BY <1>15, <1>16 DEF SameFlight, InFlight
  <2>2. \A q \in Records : q < count' /\ new[q] # "seen" => q < count /\ kind[q] # "seen"
    BY <1>1, <1>9, <1>19 DEF Elsewhere
  <2>3. Tiling(kind) /\ GoneOf(d) = r /\ GoneOf(c) = None
    BY <1>15, <1>16 DEF IInv
  <2>4. UNCHANGED <<count, header, record, arena>>
    BY <1>1
  <2> QED
    BY <1>2, <1>14, <1>17, <1>18, <2>1, <2>2, <2>3, <2>4, TilingRolls
<1>23. Control'
  <2>1. Control /\ arena' = arena
    BY <1>1 DEF IInv
  <2> QED
    BY <2>1, <1>13, <1>14, <1>15, ControlPut
<1>24. Described'
  <2>1. record[r].state \notin Unused
    BY <1>17 DEF Unused
  <2> QED
    BY <2>1, <1>1, <1>14, <1>15, DescribedPut
<1>25. Rolling'
  <2>1. d.pc # "walkRoll" /\ d.pc # "batchRoll"
    BY <1>12
  <2> QED
    BY <2>1, <1>1, <1>14, <1>15, <1>17, RollingStarts
<1>26. LateFrees'
  <2>1. \A u \in Threads : call[u].pc = "lock" =>
           /\ call[u].walk \in Records /\ call[u].expected[1] = "inUse"
           /\ call[u].expected[3] \in Nat
    BY CallFacts DEF IInv
  <2>2. \A q \in Records : record[q].version \in Nat
    BY RecordTyped
  <2> QED
    BY <2>1, <2>2, <1>1, <1>14, <1>15, <1>16, LateFreesSame DEF IInv
<1>27. Versions'
  <2>1. Fewer /\ Versions
    BY <1>1, QuietStart DEF IInv
  <2>2. \A q \in Records : record'[q].version = record[q].version
    BY <1>1
  <2> QED
    BY <2>1, <2>2, <1>2, <1>14, <1>15, VersionsSame
<1>28. Places(new, nof)'
  <2>1. FreePlaces(new, nof)'
    BY <1>1, <1>9, <1>14, <1>15, <1>16, <1>19, PlacesTyped, FreePlacesAway
  <2>2. SharedPlaces(new, nof)'
    BY <1>1, <1>9, <1>19, PlacesTyped, SharedPlacesAway
  <2>3. ThreadPlaces(new, nof)'
    <3>1. ThreadPlaces(kind, of)
      BY PlacesTyped
    <3>2. /\ IsInjective(c.list) /\ IsInjective(c.batch)
          /\ r # c.reserved /\ r \notin Range(c.list)
      BY <3>1, <1>9 DEF ThreadPlaces, In
    <3>3. ThreadMoved(new, r, t, d)
      <4>1. \A q \in Records : q # None
        BY RecordFacts
      <4> QED
        BY <4>1, <3>2, <1>7, <1>12, <1>15, <1>16, <1>19 DEF ThreadMoved
    <3> QED
      BY <3>1, <3>3, <1>9, <1>14, <1>19, ThreadPlacesPut
  <2> QED
    BY <2>1, <2>2, <2>3, <1>19 DEF Places
<1>29. StatesAt(new, nof)'
  <2>1. StatesAt(kind, of) /\ \A q \in Records : kind[q] \in {"md", "batch"} => of[q] \in Threads
    BY PlacesTyped DEF IInv, ThreadKinds
  <2>2. \A q \in Records : q # r /\ In(kind, of, q, "md", t) => record[q].state \in MdStates(d)
    <3>1. \A q \in Records : In(kind, of, q, "md", t) => q = MdOf(c)
      BY InHandFacts
    <3> QED
      BY <3>1, <1>16, RecordFacts
  <2>3. \A q \in Records : q # r /\ In(kind, of, q, "batch", t) => record[q].state \in BatchStates(d, q)
    <3>1. \A q \in Records : In(kind, of, q, "batch", t) => q \in Range(c.batch)
      BY InHandFacts
    <3> QED
      BY <3>1, <1>3, <1>15, <1>16 DEF BatchStates
  <2>4. record'[r].state \in MdStates(call'[nof[r]])
    <3>1. call'[nof[r]] = d
      BY <1>14, <1>19 DEF Moves
    <3>2. "reclaimInProgress" \in MdStates(d)
      BY <1>12 DEF MdStates
    <3> QED
      BY <3>1, <3>2, <1>1, <1>17
  <2>5. new[r] = "md" /\ record' = record
    BY <1>1, <1>19
  <2> QED
    BY <2>1, <2>2, <2>3, <2>4, <2>5, <1>14, <1>19, StatesPut
<1>30. ManagerCounts' /\ Trims'
  BY <1>1, <1>14, <1>15, <1>16, CountsSame
<1>31. PendingCounts'
  BY <1>1, <1>12, <1>14, <1>15, <1>16, PendingSame
<1>32. IInv(new, nof)'
  BY <1>21, <1>22, <1>23, <1>24, <1>25, <1>26, <1>27, <1>28, <1>29, <1>30, <1>31 DEF IInv
<1> QED
  BY <1>32 DEF Inv

-----------------------------------------------------------------------------
(* Steps that move several records at once: a window that steals a list, or  *)
(* takes the next batch of what it stole.                                    *)

PendingAt(kind, of) ==
    /\ \A s \in Shards : IsInjective(pending[s].list)
    /\ \A s \in Shards, r \in Records : r \in Range(pending[s].list) <=> In(kind, of, r, "pending", s)
    /\ \A r \in Records : kind[r] = "pending" => of[r] \in Shards
BinsAt(kind, of) ==
    /\ \A b \in Bins, k \in Slots : IsInjective(bins[b][k])
    /\ \A b \in Bins, k \in Slots, r \in Records :
          r \in Range(bins[b][k]) <=> In(kind, of, r, "bin", <<b, k>>)
    /\ \A r \in Records : kind[r] = "bin" => of[r] \in Bins \X Slots
HeldAt(kind, of) ==
    /\ \A b \in held : In(kind, of, header[b].index, "held", b)
    /\ \A r \in Records : kind[r] = "held" => of[r] \in held /\ header[of[r]].index = r

LEMMA SharedParts ==
    ASSUME NEW kind, NEW of
    PROVE  SharedPlaces(kind, of) <=> PendingAt(kind, of) /\ BinsAt(kind, of) /\ HeldAt(kind, of)
BY DEF SharedPlaces, PendingAt, BinsAt, HeldAt

\* What does not move, and what a window moves.
Carried(kind, of, new, nof, t, q) ==
    /\ kind[q] \in {"pending", "list", "batch"} /\ new[q] \in {"bin", "list", "batch"}
    /\ kind[q] \in {"list", "batch"} => of[q] = t
    /\ new[q] \in {"list", "batch"} => nof[q] = t
Carries(kind, of, new, nof, t) ==
    \A q \in Records : (new[q] = kind[q] /\ nof[q] = of[q]) \/ Carried(kind, of, new, nof, t, q)

LEMMA FreePlacesOff ==
    ASSUME NEW kind, NEW of, NEW new, NEW nof, FreePlaces(kind, of), NEW t \in Threads, NEW d,
           Moves(t, d), Carries(kind, of, new, nof, t), ClearOf(d) = ClearOf(call[t]),
           managers' = managers, count' = count
    PROVE  FreePlaces(new, nof)'
<1>1. \A q \in Records : /\ new[q] = "free" <=> kind[q] = "free"
                         /\ new[q] = "out" <=> kind[q] = "out"
                         /\ kind[q] = "free" => nof[q] = of[q]
  BY DEF Carries, Carried
<1>2. \A q \in Records, m \in Managers : In(new, nof, q, "free", m) <=> In(kind, of, q, "free", m)
  BY <1>1 DEF In
<1>3. \A u \in Threads : ClearOf(call'[u]) = ClearOf(call[u])
  BY DEF Moves
<1> QED
  BY <1>1, <1>2, <1>3 DEF FreePlaces

LEMMA HeldAtOff ==
    ASSUME NEW kind, NEW of, NEW new, NEW nof, HeldAt(kind, of), NEW t,
           Carries(kind, of, new, nof, t), \A b \in held : header[b].index \in Records,
           UNCHANGED <<header, held>>
    PROVE  HeldAt(new, nof)'
<1>1. \A q \in Records : /\ new[q] = "held" <=> kind[q] = "held"
                         /\ kind[q] = "held" => nof[q] = of[q]
  BY DEF Carries, Carried
<1>2. \A q \in Records, b \in held : In(new, nof, q, "held", b) <=> In(kind, of, q, "held", b)
  BY <1>1 DEF In
<1> QED
  BY <1>1, <1>2 DEF HeldAt

LEMMA BinsAtOff ==
    ASSUME NEW kind, NEW of, NEW new, NEW nof, BinsAt(kind, of), bins' = bins,
           \A q \in Records : /\ new[q] = "bin" <=> kind[q] = "bin"
                              /\ kind[q] = "bin" => nof[q] = of[q]
    PROVE  BinsAt(new, nof)'
<1>1. \A q \in Records : \A x : In(new, nof, q, "bin", x) <=> In(kind, of, q, "bin", x)
  BY DEF In
<1> QED
  BY <1>1 DEF BinsAt

LEMMA PendingAtOff ==
    ASSUME NEW kind, NEW of, NEW new, NEW nof, PendingAt(kind, of), pending' = pending,
           \A q \in Records : /\ new[q] = "pending" <=> kind[q] = "pending"
                              /\ kind[q] = "pending" => nof[q] = of[q]
    PROVE  PendingAt(new, nof)'
<1>1. \A q \in Records : \A x : In(new, nof, q, "pending", x) <=> In(kind, of, q, "pending", x)
  BY DEF In
<1> QED
  BY <1>1 DEF PendingAt

\* The lists of a thread, in the new places.
Has(new, nof, t, d) ==
    /\ IsInjective(d.list) /\ IsInjective(d.batch)
    /\ \A q \in Records : q \in Range(d.list) <=> In(new, nof, q, "list", t)
    /\ \A q \in Records : q \in Range(d.batch) <=> In(new, nof, q, "batch", t)

LEMMA ThreadPlacesOff ==
    ASSUME NEW kind, NEW of, NEW new, NEW nof, ThreadPlaces(kind, of), NEW t \in Threads, NEW d,
           Moves(t, d), Carries(kind, of, new, nof, t), Has(new, nof, t, d),
           MdOf(d) = MdOf(call[t]), d.reserved = call[t].reserved, SeenOf(d) = SeenOf(call[t])
    PROVE  ThreadPlaces(new, nof)'
<1>1. \A q \in Records, u \in Threads :
         /\ In(new, nof, q, "md", u) <=> In(kind, of, q, "md", u)
         /\ In(new, nof, q, "reserved", u) <=> In(kind, of, q, "reserved", u)
         /\ In(new, nof, q, "seen", u) <=> In(kind, of, q, "seen", u)
  BY DEF Carries, Carried, In
<1>2. \A q \in Records, u \in Threads \ {t} :
         /\ In(new, nof, q, "list", u) <=> In(kind, of, q, "list", u)
         /\ In(new, nof, q, "batch", u) <=> In(kind, of, q, "batch", u)
  BY DEF Carries, Carried, In
<1>3. \A q \in Records : new[q] \in {"md", "reserved", "seen", "list", "batch"} => nof[q] \in Threads
  BY DEF Carries, Carried, ThreadPlaces
<1>4. ASSUME NEW u \in Threads, NEW q \in Records
      PROVE  /\ q = MdOf(call'[u]) <=> In(new, nof, q, "md", u)
             /\ q = call'[u].reserved <=> In(new, nof, q, "reserved", u)
             /\ q = SeenOf(call'[u]) <=> In(new, nof, q, "seen", u)
  <2>1. /\ MdOf(call'[u]) = MdOf(call[u]) /\ call'[u].reserved = call[u].reserved
        /\ SeenOf(call'[u]) = SeenOf(call[u])
    BY DEF Moves
  <2> QED
    BY <2>1, <1>1 DEF ThreadPlaces
<1>5. ASSUME NEW u \in Threads
      PROVE  Has(new, nof, u, call'[u])
  <2>1. CASE u = t
    BY <2>1 DEF Moves
  <2>2. CASE u # t
    <3>1. call'[u] = call[u] /\ u \in Threads \ {t}
      BY <2>2 DEF Moves
    <3> QED
      BY <3>1, <1>2 DEF Has, ThreadPlaces
  <2> QED
    BY <2>1, <2>2
<1> QED
  BY <1>3, <1>4, <1>5 DEF ThreadPlaces, Has

LEMMA StatesOff ==
    ASSUME NEW kind, NEW of, NEW new, NEW nof, IInv(kind, of), NEW t \in Threads, NEW d,
           Moves(t, d), Carries(kind, of, new, nof, t), record' = record,
           MdOf(call[t]) = None, RollOf(d) = None, OfferOf(d) = None,
           \A q \in Records : new[q] \in {"list", "batch"} /\ nof[q] = t => record[q].state = "pending",
           \A q \in Records : new[q] = "bin" => record[q].state \in Offered
    PROVE  StatesAt(new, nof)'
<1>1. StatesAt(kind, of) /\ \A q \in Records : kind[q] \in ThreadKinds => of[q] \in Threads
  BY PlacesTyped DEF IInv
<1> SUFFICES ASSUME NEW q \in Records
             PROVE  /\ new[q] \in {"free", "reserved", "seen", "out"} => record[q].state \in Unused
                    /\ new[q] \in {"pending", "list"} => record[q].state = "pending"
                    /\ new[q] = "bin" => record[q].state \in Offered
                    /\ new[q] = "held" => record[q].state = "inUse" /\ record[q].block = nof[q]
                    /\ new[q] = "md" => record[q].state \in MdStates(call'[nof[q]])
                    /\ new[q] = "batch" => record[q].state \in BatchStates(call'[nof[q]], q)
  BY DEF StatesAt
<1>2. /\ new[q] \in {"free", "reserved", "seen", "out"} => record[q].state \in Unused
      /\ new[q] = "held" => record[q].state = "inUse" /\ record[q].block = nof[q]
  BY <1>1 DEF Carries, Carried, StatesAt
<1>3. new[q] \in {"pending", "list"} => record[q].state = "pending"
  BY <1>1 DEF Carries, Carried, StatesAt
<1>4. new[q] = "md" => record[q].state \in MdStates(call'[nof[q]])
  <2> HAVE new[q] = "md"
  <2>1. kind[q] = "md" /\ nof[q] = of[q] /\ of[q] \in Threads
    BY <1>1 DEF Carries, Carried, ThreadKinds
  <2>2. of[q] # t
    BY <2>1, InHandFacts, RecordFacts DEF In
  <2> QED
    BY <1>1, <2>1, <2>2 DEF StatesAt, Moves
<1>5. new[q] = "batch" => record[q].state \in BatchStates(call'[nof[q]], q)
  <2> HAVE new[q] = "batch"
  <2>1. CASE nof[q] = t
    <3>1. record[q].state = "pending" /\ call'[nof[q]] = d /\ q # None
      BY <2>1, RecordFacts DEF Moves
    <3> QED
      BY <3>1 DEF BatchStates
  <2>2. CASE nof[q] # t
    <3>1. kind[q] = "batch" /\ nof[q] = of[q] /\ of[q] \in Threads
      BY <1>1, <2>2 DEF Carries, Carried, ThreadKinds
    <3> QED
      BY <1>1, <2>2, <3>1 DEF StatesAt, Moves
  <2> QED
    BY <2>1, <2>2
<1> QED
  BY <1>2, <1>3, <1>4, <1>5

Carrier(c) == c.pc \in {"steal", "batchScan", "publish", "pushFree", "reclaimBatch", "reducePending"}

LEMMA CarrierPlain ==
    ASSUME NEW c \in CallType, ShapeOf(c), Carrier(c)
    PROVE  /\ c.md = None /\ MdOf(c) = None /\ SeenOf(c) = None /\ ClearOf(c) = None
           /\ TransientOf(c) = None /\ TrimOf(c) = None /\ GoneOf(c) = None /\ RollOf(c) = None
           /\ ~Rolls(c) /\ ~Fresh(c) /\ ~Advanced(c) /\ ~HasLocked(c)
           /\ c.pc \notin {"lock", "pushPending", "frontAdvance"}
           /\ c.pc # "pushFree" => OfferOf(c) = None
<1>1. c.md = None
  BY DEF Carrier, ShapeOf, HasMd
<1> QED
  BY <1>1 DEF Carrier, MdOf, SeenOf, ClearOf, TransientOf, TrimOf, GoneOf, RollOf, Rolls, Fresh,
              Advanced, HasLocked, OfferOf

Placing(kind, of, new, nof, t, d) ==
    /\ new \in [Records -> Kinds] /\ Carries(kind, of, new, nof, t) /\ Has(new, nof, t, d)
    /\ \A q \in Records : new[q] \in {"list", "batch"} /\ nof[q] = t => record[q].state = "pending"
    /\ \A q \in Records : new[q] = "bin" => record[q].state \in Offered

LEMMA BatchMoves ==
    ASSUME NEW kind, NEW of, IInv(kind, of), NEW new, NEW nof, NEW t \in Threads, NEW d,
           Carrier(call[t]), Carrier(d), d.pc # "pushFree", Well(d), call' = [call EXCEPT ![t] = d],
           d.reserved = call[t].reserved,
           Placing(kind, of, new, nof, t, d),
           pending' \in [Shards -> [list : Seq(Records), count : Nat, open : BOOLEAN]],
           bins' \in [Bins -> [Slots -> Seq(Records)]], reclaiming' \in BOOLEAN,
           UNCHANGED <<frontier, count, managers, header, record, held, late, arena>>,
           PendingAt(new, nof)', BinsAt(new, nof)',
           PendingCounts'
    PROVE  IInv(new, nof)'
<1> DEFINE c == call[t]
<1>0. /\ new \in [Records -> Kinds] /\ Carries(kind, of, new, nof, t) /\ Has(new, nof, t, d)
      /\ \A q \in Records : new[q] \in {"list", "batch"} /\ nof[q] = t => record[q].state = "pending"
      /\ \A q \in Records : new[q] = "bin" => record[q].state \in Offered
  BY DEF Placing
<1>1. TypeInv /\ c \in CallType /\ ShapeOf(c) /\ Fewer
  BY QuietStart
<1>2. /\ MdOf(c) = None /\ SeenOf(c) = None /\ ClearOf(c) = None
      /\ TransientOf(c) = None /\ TrimOf(c) = None /\ GoneOf(c) = None
      /\ ~Fresh(c) /\ ~Advanced(c) /\ c.pc # "lock"
  BY <1>1, CarrierPlain
<1>3. d \in CallType /\ ShapeOf(d)
  BY DEF Well
<1>4. /\ MdOf(d) = None /\ SeenOf(d) = None /\ ClearOf(d) = None
      /\ TransientOf(d) = None /\ TrimOf(d) = None /\ RollOf(d) = None /\ OfferOf(d) = None
      /\ ~Rolls(d) /\ ~Fresh(d) /\ ~Advanced(d) /\ ~HasLocked(d)
      /\ d.pc # "lock" /\ d.pc # "frontAdvance"
  BY <1>3, CarrierPlain
<1>5. Moves(t, d) /\ call' \in [Threads -> CallType]
  BY <1>1, <1>3, MovesTo
<1>6. TypeInv'
  BY <1>1, <1>5 DEF TypeInv
<1>7. Control' /\ Described' /\ Rolling' /\ LateFrees' /\ Tiling(new)' /\ Versions'
  <2>1. \A q \in Records : q < count' /\ new[q] # "seen" => q < count /\ kind[q] # "seen"
    BY <1>0 DEF Carries, Carried
  <2>2. SameFlight(c, d)
    BY <1>2, <1>4 DEF SameFlight, InFlight
  <2> QED
    BY <1>1, <1>2, <1>4, <1>5, <2>1, <2>2, Quieter
<1>8. FreePlaces(new, nof)'
  BY <1>0, <1>2, <1>4, <1>5, PlacesTyped, FreePlacesOff
<1>9. SharedPlaces(new, nof)'
  <2>1. HeldAt(kind, of) /\ \A b \in held : header[b].index \in Records
    BY PlacesTyped, SharedParts
  <2>2. HeldAt(new, nof)'
    BY <1>0, <2>1, HeldAtOff
  <2> QED
    BY <2>2 DEF SharedPlaces, PendingAt, BinsAt, HeldAt
<1>10. ThreadPlaces(new, nof)'
  BY <1>0, <1>2, <1>4, <1>5, PlacesTyped, ThreadPlacesOff
<1>11. StatesAt(new, nof)'
  BY <1>0, <1>2, <1>4, <1>5, StatesOff
<1>12. ManagerCounts' /\ Trims'
  BY <1>2, <1>4, <1>5, CountsSame
<1> QED
  BY <1>0, <1>6, <1>7, <1>8, <1>9, <1>10, <1>11, <1>12 DEF IInv, Places

LEMMA NextBatchFacts ==
    ASSUME NEW c \in CallType, NEW list \in Seq(Records), IsInjective(list), list # <<>>,
           NEW d, d = NextBatch(c, list)
    PROVE  /\ d.pc = "reclaimBatch" /\ d.md = c.md /\ d.reserved = c.reserved /\ d.stage = c.stage
           /\ d.back = c.back /\ d.window = c.window /\ d.stolen = c.stolen /\ d \in CallType
           /\ d.batch \in Seq(Records) /\ d.list \in Seq(Records) /\ d.batch # <<>>
           /\ IsInjective(d.batch) /\ IsInjective(d.list)
           /\ \A x : x \in Range(list) <=> x \in Range(d.batch) \/ x \in Range(d.list)
           /\ \A x : ~(x \in Range(d.batch) /\ x \in Range(d.list))
<1> PICK n : n = Min({BatchSize, Len(list)})
  OBVIOUS
<1>1. Len(list) \in Nat /\ Len(list) > 0
  BY EmptySeq
<1>2. n \in {BatchSize, Len(list)} /\ n <= Len(list)
  <2>1. BatchSize \in Nat
    BY Constants
  <2>2. \E x \in {BatchSize, Len(list)} : \A y \in {BatchSize, Len(list)} : x <= y
    BY <1>1, <2>1
  <2>3. n \in {BatchSize, Len(list)} /\ \A y \in {BatchSize, Len(list)} : n <= y
    BY <2>2 DEF Min
  <2> QED
    BY <2>3
<1>3. n \in 0 .. Len(list) /\ n > 0
  BY <1>1, <1>2, Constants
<1> PICK a, b : a = SubSeq(list, 1, n) /\ b = SubSeq(list, n + 1, Len(list))
  OBVIOUS
<1>4. /\ a \in Seq(Records) /\ b \in Seq(Records) /\ IsInjective(a) /\ IsInjective(b)
      /\ Len(a) = n
      /\ \A x : x \in Range(list) <=> x \in Range(a) \/ x \in Range(b)
      /\ \A x : ~(x \in Range(a) /\ x \in Range(b))
  BY <1>3, Split
<1>5. a # <<>>
  BY <1>3, <1>4
<1>6. d = [c EXCEPT !.pc = "reclaimBatch", !.batch = a, !.list = b]
  BY DEF NextBatch
<1>7. "reclaimBatch" \in Pcs
  BY DEF Pcs, WindowPcs
<1> QED
  BY <1>4, <1>5, <1>6, <1>7 DEF CallType

LEMMA PublishingFacts ==
    ASSUME NEW c \in CallType, c.md = None, c.reserved # None <=> c.stage # "first",
           c.back = "idle" => c.stage = "first",
           IsInjective(c.batch), IsInjective(c.list),
           \A x : ~(x \in Range(c.batch) /\ x \in Range(c.list)),
           NEW d, d = Publishing(c)
    PROVE  /\ Well(d) /\ Carrier(d) /\ d.pc # "pushFree"
           /\ d.reserved = c.reserved /\ d.stolen = c.stolen /\ d.window = c.window
           /\ IsInjective(d.batch) /\ IsInjective(d.list)
           /\ \A x : x \in Range(c.batch) \/ x \in Range(c.list)
                        <=> x \in Range(d.batch) \/ x \in Range(d.list)
           /\ \A x : ~(x \in Range(d.batch) /\ x \in Range(d.list))
<1>1. ASSUME NEW e \in CallType, e.pc \in {"publish", "reclaimBatch", "reducePending"}, e.md = c.md,
             e.reserved = c.reserved, e.stage = c.stage, e.back = c.back,
             e.pc = "reducePending" => e.list = <<>> /\ e.batch = <<>>,
             e.pc # "reducePending" => e.batch # <<>>
      PROVE  Well(e) /\ Carrier(e) /\ e.pc # "pushFree"
  <2>1. ShapeOf(e)
    BY <1>1 DEF ShapeOf, HasMd, HasReserved, Batching, Windowed, FirstPcs, WindowPcs
  <2>2. PlaceOf(e)
    BY <1>1 DEF PlaceOf
  <2> QED
    BY <2>1, <2>2, <1>1 DEF Well, Carrier
<1>2. {"publish", "reducePending"} \subseteq Pcs
  BY DEF Pcs, WindowPcs
<1>3. CASE c.batch # <<>>
  <2>1. d = [c EXCEPT !.pc = "publish"]
    BY <1>3 DEF Publishing
  <2>2. /\ d \in CallType /\ d.pc = "publish" /\ d.md = c.md /\ d.reserved = c.reserved
        /\ d.stage = c.stage /\ d.back = c.back /\ d.batch = c.batch /\ d.list = c.list
        /\ d.stolen = c.stolen /\ d.window = c.window
    BY <2>1, <1>2 DEF CallType
  <2>3. Well(d) /\ Carrier(d) /\ d.pc # "pushFree"
    BY <2>2, <1>1, <1>3
  <2> QED
    BY <2>2, <2>3
<1>4. CASE c.batch = <<>> /\ c.list # <<>>
  <2> PICK list : list = c.list
    OBVIOUS
  <2>1. d = NextBatch(c, list)
    BY <1>4 DEF Publishing
  <2>2. list \in Seq(Records) /\ list # <<>> /\ IsInjective(list)
    BY <1>4 DEF CallType
  <2>3. /\ d.pc = "reclaimBatch" /\ d.md = c.md /\ d.reserved = c.reserved /\ d.stage = c.stage
        /\ d.back = c.back /\ d.window = c.window /\ d.stolen = c.stolen /\ d \in CallType
        /\ d.batch \in Seq(Records) /\ d.list \in Seq(Records) /\ d.batch # <<>>
        /\ IsInjective(d.batch) /\ IsInjective(d.list)
        /\ \A x : x \in Range(c.list) <=> x \in Range(d.batch) \/ x \in Range(d.list)
        /\ \A x : ~(x \in Range(d.batch) /\ x \in Range(d.list))
    BY <2>1, <2>2, NextBatchFacts
  <2>4. Well(d) /\ Carrier(d) /\ d.pc # "pushFree"
    BY <2>3, <1>1
  <2>5. Range(c.batch) = {}
    BY <1>4, EmptyRange
  <2> QED
    BY <2>3, <2>4, <2>5
<1>5. CASE c.batch = <<>> /\ c.list = <<>>
  <2>1. d = [c EXCEPT !.pc = "reducePending"]
    BY <1>5 DEF Publishing
  <2>2. /\ d \in CallType /\ d.pc = "reducePending" /\ d.md = c.md /\ d.reserved = c.reserved
        /\ d.stage = c.stage /\ d.back = c.back /\ d.batch = c.batch /\ d.list = c.list
        /\ d.stolen = c.stolen /\ d.window = c.window
    BY <2>1, <1>2 DEF CallType
  <2>3. Well(d) /\ Carrier(d) /\ d.pc # "pushFree"
    BY <2>2, <1>1, <1>5
  <2> QED
    BY <2>2, <2>3
<1> QED
  BY <1>3, <1>4, <1>5

\* The places after a thread's lists have changed.
Relisted(kind, d) ==
    [q \in Records |-> IF q \in Range(d.batch) THEN "batch"
                       ELSE IF q \in Range(d.list) THEN "list" ELSE kind[q]]

LEMMA BatchScanMisses ==
    ASSUME NEW kind, NEW of, IInv(kind, of), NEW t \in Threads, call[t].pc = "batchScan",
           call' = [call EXCEPT ![t] = Publishing(@)], reclaiming' \in BOOLEAN,
           UNCHANGED <<frontier, count, managers, header, record, pending, bins, held, late, arena>>
    PROVE  Inv'
<1> DEFINE c == call[t]
<1> PICK d : d = Publishing(c)
  OBVIOUS
<1> PICK new : new = Relisted(kind, d)
  OBVIOUS
<1>1. Batcher(c) /\ TypeInv /\ call \in [Threads -> CallType]
  BY DEF Batcher, IInv, TypeInv
<1>2. /\ c \in CallType /\ c.md = None /\ (c.reserved # None <=> c.stage # "first")
      /\ (c.back = "idle" => c.stage = "first")
      /\ IsInjective(c.batch) /\ IsInjective(c.list)
      /\ c.batch \in Seq(Records) /\ c.list \in Seq(Records)
  BY <1>1, BatcherFacts
<1>3. /\ \A q \in Records : q \in Range(c.batch) <=> In(kind, of, q, "batch", t)
      /\ \A q \in Records : q \in Range(c.list) <=> In(kind, of, q, "list", t)
  BY PlacesTyped DEF ThreadPlaces
<1>4. \A x : ~(x \in Range(c.batch) /\ x \in Range(c.list))
  <2>1. Range(c.batch) \subseteq Records
    BY <1>2 DEF Range
  <2> QED
    BY <2>1, <1>3 DEF In
<1>5. /\ Well(d) /\ Carrier(d) /\ d.pc # "pushFree"
      /\ d.reserved = c.reserved /\ d.stolen = c.stolen /\ d.window = c.window
      /\ IsInjective(d.batch) /\ IsInjective(d.list)
      /\ \A x : x \in Range(c.batch) \/ x \in Range(c.list)
                   <=> x \in Range(d.batch) \/ x \in Range(d.list)
      /\ \A x : ~(x \in Range(d.batch) /\ x \in Range(d.list))
  BY <1>2, <1>4, PublishingFacts
<1>6. Carrier(c) /\ call' = [call EXCEPT ![t] = d]
  BY DEF Carrier
<1>7. \A q \in Records : new[q] = IF q \in Range(d.batch) THEN "batch"
                                  ELSE IF q \in Range(d.list) THEN "list" ELSE kind[q]
  BY DEF Relisted
<1>8. \A q \in Records : q \in Range(d.batch) \/ q \in Range(d.list)
                            <=> kind[q] \in {"batch", "list"} /\ of[q] = t
  BY <1>3, <1>5 DEF In
<1>9. new \in [Records -> Kinds]
  BY PlacesTyped DEF Relisted, Kinds, ListKinds
<1>10. Carries(kind, of, new, of, t)
  BY <1>7, <1>8 DEF Carries, Carried
<1>11. Has(new, of, t, d)
  <2>1. \A q \in Records : q \in Range(d.list) <=> In(new, of, q, "list", t)
    BY <1>5, <1>7, <1>8 DEF In
  <2>2. \A q \in Records : q \in Range(d.batch) <=> In(new, of, q, "batch", t)
    BY <1>5, <1>7, <1>8 DEF In
  <2> QED
    BY <2>1, <2>2, <1>5 DEF Has
<1>12. \A q \in Records : /\ new[q] = "bin" <=> kind[q] = "bin"
                          /\ new[q] = "pending" <=> kind[q] = "pending"
  BY <1>7, <1>8
<1>13. PendingAt(new, of)' /\ BinsAt(new, of)'
  <2>1. PendingAt(kind, of) /\ BinsAt(kind, of)
    BY PlacesTyped, SharedParts
  <2>2. PendingAt(new, of)'
    BY <2>1, <1>12, PendingAtOff
  <2>3. BinsAt(new, of)'
    BY <2>1, <1>12, BinsAtOff
  <2> QED
    BY <2>2, <2>3
<1>14. \A q \in Records : new[q] \in {"list", "batch"} /\ of[q] = t => record[q].state = "pending"
  <2> TAKE q \in Records
  <2> HAVE new[q] \in {"list", "batch"} /\ of[q] = t
  <2>1. q \in Range(c.batch) \/ q \in Range(c.list)
    BY <1>3, <1>7, <1>8 DEF In
  <2>2. RollOf(c) = None /\ OfferOf(c) = None /\ q # None
    BY <1>1, <1>2, BatcherPlain, RecordFacts
  <2>3. q \in Range(c.list) => record[q].state = "pending"
    BY InHandFacts
  <2>4. q \in Range(c.batch) => record[q].state \in BatchStates(c, q)
    BY InHandFacts
  <2> QED
    BY <2>1, <2>2, <2>3, <2>4 DEF BatchStates
<1>15. \A q \in Records : new[q] = "bin" => record[q].state \in Offered
  BY <1>12 DEF IInv, StatesAt
<1>16. /\ pending' \in [Shards -> [list : Seq(Records), count : Nat, open : BOOLEAN]]
       /\ bins' \in [Bins -> [Slots -> Seq(Records)]]
       /\ UNCHANGED <<frontier, count, managers, header, record, held, late, arena>>
  BY <1>1 DEF TypeInv
<1>17. PendingCounts'
  <2>1. Moves(t, d)
    BY <1>1, <1>5, <1>6, MovesTo DEF Well
  <2>2. d.pc # "pushPending" /\ c.pc # "pushPending"
    BY <1>5 DEF Carrier
  <2> QED
    BY <2>1, <2>2, <1>5, PendingSame
<1>18. IInv(new, of)'
  <2>1. Well(d) /\ Carrier(d) /\ d.pc # "pushFree" /\ d.reserved = c.reserved
    BY <1>5
  <2>2. /\ Carrier(c) /\ call' = [call EXCEPT ![t] = d]
        /\ PendingAt(new, of)' /\ BinsAt(new, of)' /\ reclaiming' \in BOOLEAN
    BY <1>6, <1>13
  <2>3. Placing(kind, of, new, of, t, d)
    BY <1>9, <1>10, <1>11, <1>14, <1>15 DEF Placing
  <2> QED
    BY <2>1, <2>2, <2>3, <1>16, <1>17, BatchMoves
<1> QED
  BY <1>18 DEF Inv

LEMMA BatchScanStep ==
    ASSUME NEW kind, NEW of, IInv(kind, of), NEW t \in Threads, BatchScan(t)
    PROVE  Inv'
<1> DEFINE c == call[t]
           last == {i \in DOMAIN c.batch : /\ record[c.batch[i]].state = "pending"
                                           /\ EndsAt(c.batch[i], frontier.at)}
<1>1. /\ c.pc = "batchScan"
      /\ UNCHANGED <<frontier, count, managers, header, pending, bins, held, late, arena>>
  BY DEF BatchScan
<1>2. CASE last = {}
  <2>1. /\ reclaiming' = FALSE /\ call' = [call EXCEPT ![t] = Publishing(@)]
        /\ UNCHANGED record
    BY <1>2 DEF BatchScan
  <2>2. reclaiming' \in BOOLEAN
    BY <2>1
  <2> QED
    BY <1>1, <2>1, <2>2, BatchScanMisses
<1>3. CASE last # {}
  <2>1. PICK i \in last : /\ record' = WithState(c.batch[i], "reclaimInProgress")
                          /\ call' = [call EXCEPT ![t].pc = "batchRoll", ![t].md = c.batch[i],
                                                  ![t].word = frontier]
                          /\ UNCHANGED reclaiming
    BY <1>3 DEF BatchScan
  <2> PICK r : r = c.batch[i]
    OBVIOUS
  <2>2. r \in Range(c.batch) /\ record[r].state = "pending" /\ EndsAt(r, frontier.at)
    BY DEF Range
  <2>3. /\ record' = WithState(r, "reclaimInProgress")
        /\ call' = [call EXCEPT ![t].pc = "batchRoll", ![t].md = r, ![t].word = frontier]
        /\ UNCHANGED <<frontier, count, managers, header, pending, bins, reclaiming, held, late, arena>>
    BY <1>1, <2>1
  <2>4. IInv(kind, of)'
    BY <1>1, <2>2, <2>3, BatchScanFinds
  <2> QED
    BY <2>4 DEF Inv
<1> QED
  BY <1>2, <1>3

\* A record that a window makes available goes to the bin of its size and place.
LEMMA BinFacts ==
    ASSUME NEW kind, NEW of, IInv(kind, of), NEW r \in Records, record[r].state \notin Unused
    PROVE  /\ FreeBlockBinIndex(record[r].size) \in Bins
           /\ SlotOf(record[r].block, record[r].shard % NumShards) \in Slots
<1>1. record[r].size \in Sizes /\ record[r].block # None
  BY DEF IInv, Described
<1>2. record[r].block \in Blocks /\ record[r].shard \in Shards
  BY <1>1, RecordTyped DEF MaybeBlock
<1>3. record[r].shard % NumShards \in Shards
  BY <1>2, SlotFacts
<1> QED
  BY <1>1, <1>2, <1>3, SizesPositive, SlotFacts

LEMMA BinPushed ==
    ASSUME TypeInv, NEW b \in Bins, NEW k \in Slots, NEW stack \in Seq(Records),
           bins' = [bins EXCEPT ![b][k] = stack]
    PROVE  /\ bins' \in [Bins -> [Slots -> Seq(Records)]]
           /\ \A e \in Bins, l \in Slots :
                 bins'[e][l] = IF e = b /\ l = k THEN stack ELSE bins[e][l]
<1>1. bins \in [Bins -> [Slots -> Seq(Records)]]
  BY DEF TypeInv
<1> QED
  BY <1>1

LEMMA PushFreeStep ==
    ASSUME NEW kind, NEW of, IInv(kind, of), NEW t \in Threads, PushFree(t)
    PROVE  Inv'
<1> DEFINE c == call[t]
<1>r1. PICK r : r = Head(c.batch)
  OBVIOUS
<1>b1. PICK b : b = FreeBlockBinIndex(record[r].size)
  OBVIOUS
<1>k1. PICK k : k = SlotOf(record[r].block, record[r].shard % NumShards)
  OBVIOUS
<1>s1. PICK stack : stack = bins[b][k]
  OBVIOUS
<1>1. /\ c.pc = "pushFree" /\ bins' = [bins EXCEPT ![b][k] = <<r>> \o @]
      /\ call' = [call EXCEPT ![t] = Publishing([c EXCEPT !.batch = Tail(c.batch)])]
      /\ UNCHANGED <<frontier, count, managers, header, record, pending, reclaiming, held, late, arena>>
  BY <1>r1, <1>b1, <1>k1 DEF PushFree
<1>2. Batcher(c) /\ TypeInv /\ call \in [Threads -> CallType]
  BY <1>1 DEF Batcher, IInv, TypeInv
<1>3. /\ c \in CallType /\ c.md = None /\ (c.reserved # None <=> c.stage # "first")
      /\ (c.back = "idle" => c.stage = "first")
      /\ IsInjective(c.batch) /\ IsInjective(c.list) /\ c.batch # <<>>
      /\ c.batch \in Seq(Records) /\ c.list \in Seq(Records)
  BY <1>1, <1>2, BatcherFacts
<1>4. /\ r \in Records /\ r \in Range(c.batch) /\ Tail(c.batch) \in Seq(Records)
      /\ IsInjective(Tail(c.batch))
      /\ \A x : x \in Range(Tail(c.batch)) <=> x \in Range(c.batch) /\ x # r
  BY <1>3, <1>r1, Popped
<1>5. /\ \A q \in Records : q \in Range(c.batch) <=> In(kind, of, q, "batch", t)
      /\ \A q \in Records : q \in Range(c.list) <=> In(kind, of, q, "list", t)
  BY PlacesTyped DEF ThreadPlaces
<1>6. \A x : ~(x \in Range(c.batch) /\ x \in Range(c.list))
  <2>1. Range(c.batch) \subseteq Records
    BY <1>3 DEF Range
  <2> QED
    BY <2>1, <1>5 DEF In
<1>e1. PICK e : e = [c EXCEPT !.batch = Tail(c.batch)]
  OBVIOUS
<1>d1. PICK d : d = Publishing(e)
  OBVIOUS
<1>7. /\ e \in CallType /\ e.md = None /\ e.reserved = c.reserved /\ e.stage = c.stage
      /\ e.back = c.back /\ e.batch = Tail(c.batch) /\ e.list = c.list /\ e.stolen = c.stolen
      /\ e.window = c.window
  BY <1>3, <1>4, <1>e1 DEF CallType
<1>8. /\ Well(d) /\ Carrier(d) /\ d.pc # "pushFree"
      /\ d.reserved = e.reserved /\ d.stolen = e.stolen /\ d.window = e.window
      /\ IsInjective(d.batch) /\ IsInjective(d.list)
      /\ \A x : x \in Range(e.batch) \/ x \in Range(e.list)
                   <=> x \in Range(d.batch) \/ x \in Range(d.list)
      /\ \A x : ~(x \in Range(d.batch) /\ x \in Range(d.list))
  <2>1. /\ e.reserved # None <=> e.stage # "first"
        /\ e.back = "idle" => e.stage = "first"
        /\ IsInjective(e.batch) /\ IsInjective(e.list)
        /\ \A x : ~(x \in Range(e.batch) /\ x \in Range(e.list))
    BY <1>3, <1>4, <1>6, <1>7
  <2> QED
    BY <2>1, <1>7, <1>d1, PublishingFacts
<1>9. call' = [call EXCEPT ![t] = d]
  BY <1>1, <1>e1, <1>d1
<1>10. \A q \in Records : q \in Range(d.batch) \/ q \in Range(d.list)
                             <=> kind[q] \in {"batch", "list"} /\ of[q] = t /\ q # r
  BY <1>4, <1>5, <1>6, <1>7, <1>8 DEF In
<1>n1. PICK new : new = [q \in Records |-> IF q \in Range(d.batch) THEN "batch"
                                        ELSE IF q \in Range(d.list) THEN "list"
                                        ELSE IF q = r THEN "bin" ELSE kind[q]]
  OBVIOUS
<1>n2. PICK nof : nof = [q \in Records |-> IF q = r THEN <<b, k>> ELSE of[q]]
  OBVIOUS
<1>11. \A q \in Records : /\ new[q] = (IF q \in Range(d.batch) THEN "batch"
                                       ELSE IF q \in Range(d.list) THEN "list"
                                       ELSE IF q = r THEN "bin" ELSE kind[q])
                          /\ nof[q] = (IF q = r THEN <<b, k>> ELSE of[q])
  BY <1>n1, <1>n2
<1>12. kind[r] = "batch" /\ of[r] = t /\ r \notin Range(d.batch) /\ r \notin Range(d.list)
  BY <1>4, <1>5, <1>10 DEF In
<1>13. RollOf(c) = None /\ OfferOf(c) = r
  BY <1>1, <1>2, <1>3, <1>r1, BatcherPlain
<1>14. record[r].state \in Offered
  <2>1. record[r].state \in BatchStates(c, r) /\ r # None
    BY <1>4, InHandFacts, RecordFacts
  <2> QED
    BY <2>1, <1>13 DEF BatchStates
<1>15. b \in Bins /\ k \in Slots
  BY <1>4, <1>14, <1>b1, <1>k1, BinFacts DEF Offered, Unused
<1>16. stack \in Seq(Records) /\ IsInjective(stack) /\ r \notin Range(stack)
  <2>1. BinsAt(kind, of)
    BY PlacesTyped, SharedParts
  <2>2. stack \in Seq(Records)
    BY <1>2, <1>15, <1>s1 DEF TypeInv
  <2>3. IsInjective(stack)
    BY <2>1, <1>15, <1>s1 DEF BinsAt
  <2>4. r \notin Range(stack)
    BY <2>1, <1>4, <1>12, <1>15, <1>s1 DEF BinsAt, In
  <2> QED
    BY <2>2, <2>3, <2>4
<1>m1. PICK more : more = <<r>> \o stack
  OBVIOUS
<1>17. /\ more \in Seq(Records) /\ IsInjective(more)
       /\ \A x : x \in Range(more) <=> x = r \/ x \in Range(stack)
  BY <1>4, <1>16, <1>m1, Pushed
<1>18. bins' = [bins EXCEPT ![b][k] = more]
  BY <1>1, <1>m1, <1>s1
<1>19. /\ bins' \in [Bins -> [Slots -> Seq(Records)]]
       /\ \A f \in Bins, l \in Slots : bins'[f][l] = IF f = b /\ l = k THEN more ELSE bins[f][l]
  BY <1>2, <1>15, <1>17, <1>18, BinPushed
<1>20. Placing(kind, of, new, nof, t, d)
  <2>1. new \in [Records -> Kinds]
    BY <1>n1, PlacesTyped DEF Kinds, ListKinds
  <2>2. Carries(kind, of, new, nof, t)
    BY <1>10, <1>11, <1>12 DEF Carries, Carried
  <2>3. Has(new, nof, t, d)
    <3>1. \A q \in Records : q \in Range(d.list) <=> In(new, nof, q, "list", t)
      BY <1>8, <1>10, <1>11, <1>12 DEF In
    <3>2. \A q \in Records : q \in Range(d.batch) <=> In(new, nof, q, "batch", t)
      BY <1>8, <1>10, <1>11, <1>12 DEF In
    <3> QED
      BY <3>1, <3>2, <1>8 DEF Has
  <2>4. \A q \in Records : new[q] \in {"list", "batch"} /\ nof[q] = t => record[q].state = "pending"
    <3> TAKE q \in Records
    <3> HAVE new[q] \in {"list", "batch"} /\ nof[q] = t
    <3>1. q # r /\ (q \in Range(c.batch) \/ q \in Range(c.list))
      BY <1>5, <1>10, <1>11, <1>12 DEF In
    <3>2. q # None
      BY RecordFacts
    <3>3. q \in Range(c.list) => record[q].state = "pending"
      BY InHandFacts
    <3>4. q \in Range(c.batch) => record[q].state \in BatchStates(c, q)
      BY InHandFacts
    <3> QED
      BY <3>1, <3>2, <3>3, <3>4, <1>13 DEF BatchStates
  <2>5. \A q \in Records : new[q] = "bin" => record[q].state \in Offered
    BY <1>11, <1>14 DEF IInv, StatesAt
  <2> QED
    BY <2>1, <2>2, <2>3, <2>4, <2>5 DEF Placing
<1>21. PendingAt(new, nof)'
  <2>1. \A q \in Records : /\ new[q] = "pending" <=> kind[q] = "pending"
                           /\ kind[q] = "pending" => nof[q] = of[q]
    BY <1>10, <1>11, <1>12
  <2>2. PendingAt(kind, of) /\ pending' = pending
    BY <1>1, PlacesTyped, SharedParts
  <2> QED
    BY <2>1, <2>2, PendingAtOff
<1>22. BinsAt(new, nof)'
  <2>1. BinsAt(kind, of)
    BY PlacesTyped, SharedParts
  <2>2. \A q \in Records : /\ q # r => (new[q] = "bin" <=> kind[q] = "bin")
                           /\ kind[q] = "bin" => nof[q] = of[q]
    BY <1>10, <1>11, <1>12
  <2>3. new[r] = "bin" /\ nof[r] = <<b, k>> /\ kind[r] # "bin"
    BY <1>4, <1>11, <1>12
  <2>4. \A f \in Bins, l \in Slots : IsInjective(bins'[f][l])
    BY <2>1, <1>17, <1>19 DEF BinsAt
  <2>5. \A f \in Bins, l \in Slots, q \in Records :
           q \in Range(bins'[f][l]) <=> In(new, nof, q, "bin", <<f, l>>)
    <3> TAKE f \in Bins, l \in Slots, q \in Records
    <3>1. q \in Range(bins[f][l]) <=> In(kind, of, q, "bin", <<f, l>>)
      BY <2>1 DEF BinsAt
    <3>2. CASE q = r
      <4>1. In(new, nof, q, "bin", <<f, l>>) <=> f = b /\ l = k
        BY <3>2, <2>3 DEF In
      <4>2. q \notin Range(bins[f][l])
        BY <3>1, <3>2, <2>3 DEF In
      <4> QED
        BY <4>1, <4>2, <3>2, <1>17, <1>19, <1>s1
    <3>3. CASE q # r
      <4>1. In(new, nof, q, "bin", <<f, l>>) <=> In(kind, of, q, "bin", <<f, l>>)
        BY <3>3, <2>2 DEF In
      <4>2. q \in Range(bins'[f][l]) <=> q \in Range(bins[f][l])
        BY <3>3, <1>17, <1>19, <1>s1
      <4> QED
        BY <4>1, <4>2, <3>1
    <3> QED
      BY <3>2, <3>3
  <2>6. \A q \in Records : new[q] = "bin" => nof[q] \in Bins \X Slots
    <3> TAKE q \in Records
    <3>1. <<b, k>> \in Bins \X Slots
      BY <1>15
    <3>2. q # r /\ new[q] = "bin" => nof[q] \in Bins \X Slots
      BY <2>1, <2>2 DEF BinsAt
    <3> QED
      BY <3>1, <3>2, <2>3
  <2> QED
    BY <2>4, <2>5, <2>6 DEF BinsAt
<1>23. PendingCounts'
  <2>1. Moves(t, d)
    BY <1>2, <1>8, <1>9, MovesTo DEF Well
  <2>2. d.pc # "pushPending" /\ c.pc # "pushPending" /\ d.stolen = c.stolen /\ d.window = c.window
    BY <1>1, <1>7, <1>8 DEF Carrier
  <2> QED
    BY <2>1, <2>2, <1>1, PendingSame
<1>24. IInv(new, nof)'
  <2>1. Well(d) /\ Carrier(d) /\ d.pc # "pushFree" /\ d.reserved = c.reserved
    BY <1>7, <1>8
  <2>2. /\ pending' \in [Shards -> [list : Seq(Records), count : Nat, open : BOOLEAN]]
        /\ bins' \in [Bins -> [Slots -> Seq(Records)]] /\ reclaiming' \in BOOLEAN
        /\ UNCHANGED <<frontier, count, managers, header, record, held, late, arena>>
    BY <1>1, <1>2, <1>19 DEF TypeInv
  <2>3. Carrier(c)
    BY <1>1 DEF Carrier
  <2> QED
    BY <2>1, <2>2, <2>3, <1>9, <1>20, <1>21, <1>22, <1>23, BatchMoves
<1> QED
  BY <1>24 DEF Inv

NextOf(c, list, d) ==
  /\ d.pc = "reclaimBatch" /\ d.md = c.md /\ d.reserved = c.reserved /\ d.stage = c.stage
  /\ d.back = c.back /\ d.window = c.window /\ d.stolen = c.stolen /\ d \in CallType
  /\ d.batch \in Seq(Records) /\ d.list \in Seq(Records) /\ d.batch # <<>>
  /\ IsInjective(d.batch) /\ IsInjective(d.list)
  /\ \A x : x \in Range(list) <=> x \in Range(d.batch) \/ x \in Range(d.list)
  /\ \A x : ~(x \in Range(d.batch) /\ x \in Range(d.list))

LEMMA NextBatchIs ==
    ASSUME NEW c \in CallType, NEW list \in Seq(Records), IsInjective(list), list # <<>>
    PROVE  NextOf(c, list, NextBatch(c, list))
<1> PICK n : n = Min({BatchSize, Len(list)})
  OBVIOUS
<1> PICK d : d = NextBatch(c, list)
  OBVIOUS
<1>1. Len(list) \in Nat /\ Len(list) > 0
  BY EmptySeq
<1>2. n \in {BatchSize, Len(list)} /\ n <= Len(list)
  <2>1. BatchSize \in Nat
    BY Constants
  <2>2. \E x \in {BatchSize, Len(list)} : \A y \in {BatchSize, Len(list)} : x <= y
    BY <1>1, <2>1
  <2>3. n \in {BatchSize, Len(list)} /\ \A y \in {BatchSize, Len(list)} : n <= y
    BY <2>2 DEF Min
  <2> QED
    BY <2>3
<1>3. n \in 0 .. Len(list) /\ n > 0
  BY <1>1, <1>2, Constants
<1> PICK a, b : a = SubSeq(list, 1, n) /\ b = SubSeq(list, n + 1, Len(list))
  OBVIOUS
<1>4. /\ a \in Seq(Records) /\ b \in Seq(Records) /\ IsInjective(a) /\ IsInjective(b)
      /\ Len(a) = n
      /\ \A x : x \in Range(list) <=> x \in Range(a) \/ x \in Range(b)
      /\ \A x : ~(x \in Range(a) /\ x \in Range(b))
  BY <1>3, Split
<1>5. a # <<>>
  BY <1>3, <1>4
<1>6. d = [c EXCEPT !.pc = "reclaimBatch", !.batch = a, !.list = b]
  BY DEF NextBatch
<1>7. "reclaimBatch" \in Pcs
  BY DEF Pcs, WindowPcs
<1>8. NextOf(c, list, d)
  BY <1>4, <1>5, <1>6, <1>7 DEF CallType, NextOf
<1> QED
  BY <1>8

LEMMA StealTakes ==
    ASSUME NEW kind, NEW of, IInv(kind, of), NEW t \in Threads, Steal(t),
           pending[call[t].window].list # <<>>
    PROVE  Inv'
<1> DEFINE c == call[t]
<1>w. PICK w : w = c.window
  OBVIOUS
<1>l. PICK list : list = pending[w].list
  OBVIOUS
<1>e. PICK e : e = NextBatch(c, list)
  OBVIOUS
<1>n. PICK n : n = Len(list)
  OBVIOUS
<1>d. PICK d : d = [e EXCEPT !.stolen = n]
  OBVIOUS
<1>1. /\ c.pc = "steal" /\ pending' = [pending EXCEPT ![w].list = <<>>]
      /\ call' = [call EXCEPT ![t] = d]
      /\ UNCHANGED <<frontier, count, managers, header, record, bins, reclaiming, held, late, arena>>
  BY <1>w, <1>l, <1>e, <1>n, <1>d DEF Steal
<1>2. /\ c \in CallType /\ c.md = None /\ c.list = <<>> /\ c.batch = <<>> /\ c.stolen = 0
      /\ (c.reserved # None <=> c.stage # "first") /\ (c.back = "idle" => c.stage = "first")
  BY <1>1, WindowRests DEF Rested, Resting
<1>3. TypeInv /\ w \in Shards /\ pending \in [Shards -> [list : Seq(Records), count : Nat, open : BOOLEAN]]
  BY <1>2, <1>w, QuietStart DEF CallType
<1>4. list \in Seq(Records) /\ list # <<>> /\ n \in Nat
  BY <1>3, <1>w, <1>l, <1>n
<1>5. PendingAt(kind, of) /\ BinsAt(kind, of)
  BY PlacesTyped, SharedParts
<1>6. /\ IsInjective(list)
      /\ \A q \in Records : q \in Range(list) <=> In(kind, of, q, "pending", w)
  BY <1>3, <1>5, <1>l DEF PendingAt
<1>7. /\ e.pc = "reclaimBatch" /\ e.md = c.md /\ e.reserved = c.reserved /\ e.stage = c.stage
      /\ e.back = c.back /\ e.window = c.window /\ e.stolen = c.stolen /\ e \in CallType
      /\ e.batch \in Seq(Records) /\ e.list \in Seq(Records) /\ e.batch # <<>>
      /\ IsInjective(e.batch) /\ IsInjective(e.list)
      /\ \A x : x \in Range(list) <=> x \in Range(e.batch) \/ x \in Range(e.list)
      /\ \A x : ~(x \in Range(e.batch) /\ x \in Range(e.list))
  <2>1. c \in CallType /\ list \in Seq(Records) /\ IsInjective(list) /\ list # <<>>
    BY <1>2, <1>4, <1>6
  <2>2. PICK c1 \in CallType : c1 = c
    BY <2>1
  <2>3. PICK l1 \in Seq(Records) : l1 = list
    BY <2>1
  <2> HIDE DEF c
  <2>4. IsInjective(l1) /\ l1 # <<>> /\ e = NextBatch(c1, l1)
    BY <2>1, <2>2, <2>3, <1>e
  <2>5. NextOf(c1, l1, NextBatch(c1, l1))
    BY <2>4, NextBatchIs
  <2>6. NextOf(c, list, e)
    BY <2>2, <2>3, <2>4, <2>5
  <2> QED
    BY <2>6 DEF NextOf
<1>8. /\ d.pc = "reclaimBatch" /\ d.md = None /\ d.reserved = c.reserved /\ d.stage = c.stage
      /\ d.back = c.back /\ d.window = w /\ d.stolen = n /\ d \in CallType
      /\ d.batch = e.batch /\ d.list = e.list
  BY <1>2, <1>4, <1>7, <1>d, <1>w DEF CallType
<1>9. Well(d)
  <2>1. ShapeOf(d)
    BY <1>2, <1>7, <1>8 DEF ShapeOf, HasMd, HasReserved, Batching, Windowed, FirstPcs, WindowPcs
  <2>2. PlaceOf(d)
    BY <1>8 DEF PlaceOf
  <2> QED
    BY <2>1, <2>2, <1>8 DEF Well
<1>10. Carrier(c) /\ Carrier(d) /\ d.pc # "pushFree"
  BY <1>1, <1>8 DEF Carrier
<1>11. /\ pending' \in [Shards -> [list : Seq(Records), count : Nat, open : BOOLEAN]]
       /\ \A s \in Shards : /\ pending'[s].list = IF s = w THEN <<>> ELSE pending[s].list
                            /\ pending'[s].count = pending[s].count
  <2>1. PICK none \in Seq(Records) : none = <<>>
    <3>1. <<>> \in Seq(Records)
      BY EmptySeq
    <3> QED
      BY <3>1
  <2>2. TypeInv /\ w \in Shards /\ pending' = [pending EXCEPT ![w].list = none]
    BY <1>1, <1>3, <2>1
  <2>3. /\ pending' \in [Shards -> [list : Seq(Records), count : Nat, open : BOOLEAN]]
        /\ \A s \in Shards : /\ pending'[s].list = IF s = w THEN none ELSE pending[s].list
                             /\ pending'[s].count = pending[s].count
    BY <2>2, PendingListed
  <2> QED
    BY <2>1, <2>3
<1>n1. PICK new : new = [q \in Records |-> IF q \in Range(d.batch) THEN "batch"
                                           ELSE IF q \in Range(d.list) THEN "list" ELSE kind[q]]
  OBVIOUS
<1>n2. PICK nof : nof = [q \in Records |-> IF q \in Range(list) THEN t ELSE of[q]]
  OBVIOUS
<1>12. \A q \in Records : /\ new[q] = (IF q \in Range(d.batch) THEN "batch"
                                       ELSE IF q \in Range(d.list) THEN "list" ELSE kind[q])
                          /\ nof[q] = (IF q \in Range(list) THEN t ELSE of[q])
  BY <1>n1, <1>n2
<1>13. \A q \in Records : q \in Range(d.batch) \/ q \in Range(d.list)
                             <=> kind[q] = "pending" /\ of[q] = w
  BY <1>6, <1>7, <1>8 DEF In
<1>14. \A q \in Records : ~(kind[q] \in {"list", "batch"} /\ of[q] = t)
  <2>1. ThreadPlaces(kind, of) /\ Range(<<>>) = {}
    BY PlacesTyped, EmptyRange
  <2> QED
    BY <2>1, <1>2 DEF ThreadPlaces, In
<1>15. \A q \in Records : IF q \in Range(list)
                          THEN kind[q] = "pending" /\ of[q] = w /\ new[q] \in {"batch", "list"} /\ nof[q] = t
                          ELSE new[q] = kind[q] /\ nof[q] = of[q]
  BY <1>7, <1>8, <1>12, <1>13
<1>16. Placing(kind, of, new, nof, t, d)
  <2>1. new \in [Records -> Kinds]
    BY <1>n1, PlacesTyped DEF Kinds, ListKinds
  <2>2. Carries(kind, of, new, nof, t)
    BY <1>15 DEF Carries, Carried
  <2>3. Has(new, nof, t, d)
    <3>1. \A q \in Records : q \in Range(d.list) <=> In(new, nof, q, "list", t)
      BY <1>7, <1>8, <1>12, <1>14 DEF In
    <3>2. \A q \in Records : q \in Range(d.batch) <=> In(new, nof, q, "batch", t)
      BY <1>7, <1>8, <1>12, <1>14 DEF In
    <3> QED
      BY <3>1, <3>2, <1>7, <1>8 DEF Has
  <2>4. \A q \in Records : new[q] \in {"list", "batch"} /\ nof[q] = t => record[q].state = "pending"
    <3>1. StatesAt(kind, of)
      BY DEF IInv
    <3> TAKE q \in Records
    <3> HAVE new[q] \in {"list", "batch"} /\ nof[q] = t
    <3>2. kind[q] = "pending"
      BY <1>14, <1>15
    <3> QED
      BY <3>1, <3>2 DEF StatesAt
  <2>5. \A q \in Records : new[q] = "bin" => record[q].state \in Offered
    BY <1>12 DEF IInv, StatesAt
  <2> QED
    BY <2>1, <2>2, <2>3, <2>4, <2>5 DEF Placing
<1>17. PendingAt(new, nof)'
  <2>1. \A s \in Shards : IsInjective(pending'[s].list)
    BY <1>5, <1>11, EmptyRange DEF PendingAt
  <2>2. \A s \in Shards, q \in Records : q \in Range(pending'[s].list) <=> In(new, nof, q, "pending", s)
    <3> TAKE s \in Shards, q \in Records
    <3>1. q \in Range(pending[s].list) <=> In(kind, of, q, "pending", s)
      BY <1>5 DEF PendingAt
    <3>2. CASE s = w
      <4>1. q \notin Range(pending'[s].list)
        BY <3>2, <1>11, EmptyRange
      <4>2. ~In(new, nof, q, "pending", s)
        BY <3>2, <1>6, <1>15 DEF In
      <4> QED
        BY <4>1, <4>2
    <3>3. CASE s # w
      <4>1. In(new, nof, q, "pending", s) <=> In(kind, of, q, "pending", s)
        BY <3>3, <1>15 DEF In
      <4> QED
        BY <4>1, <3>1, <3>3, <1>11
    <3> QED
      BY <3>2, <3>3
  <2>3. \A q \in Records : new[q] = "pending" => nof[q] \in Shards
    BY <1>5, <1>15 DEF PendingAt
  <2> QED
    BY <2>1, <2>2, <2>3 DEF PendingAt
<1>18. BinsAt(new, nof)'
  <2>1. \A q \in Records : /\ new[q] = "bin" <=> kind[q] = "bin"
                           /\ kind[q] = "bin" => nof[q] = of[q]
    BY <1>15
  <2>2. bins' = bins
    BY <1>1
  <2> QED
    BY <2>1, <2>2, <1>5, BinsAtOff
<1>19. Moves(t, d)
  BY <1>1, <1>3, <1>8, MovesTo
<1>20. PendingCounts'
  <2>1. \A s \in Shards : pending'[s].list \in Seq(Records)
    BY <1>11
  <2>2. ASSUME NEW s \in Shards
        PROVE  pending'[s].count =
                  pending[s].count + (Len(pending'[s].list) - Len(pending[s].list))
                     + (Share(d.window, d.stolen, s) - Share(c.window, c.stolen, s))
                     + (Bit(PushesIn(d, record', s)) - Bit(PushesIn(c, record, s)))
    <3>1. Bit(PushesIn(d, record', s)) = 0 /\ Bit(PushesIn(c, record, s)) = 0
      BY <1>1, <1>8 DEF Bit, PushesIn
    <3>2. /\ Share(c.window, c.stolen, s) = 0
          /\ Share(d.window, d.stolen, s) = IF s = w THEN n ELSE 0
      BY <1>2, <1>8 DEF Share
    <3>3. Len(<<>>) = 0
      BY EmptyRange
    <3>4. PICK p \in Nat : p = pending[s].count
      BY <1>3
    <3>5. PICK k \in Nat : k = Len(pending[s].list)
      BY <1>3
    <3>6. pending'[s].count = p
      BY <3>4, <1>11
    <3>7. CASE s = w
      <4>1. Len(pending'[s].list) = 0 /\ k = n
        BY <3>3, <3>5, <3>7, <1>11, <1>l, <1>n
      <4> QED
        BY <4>1, <3>1, <3>2, <3>4, <3>5, <3>6, <3>7
    <3>8. CASE s # w
      <4>1. Len(pending'[s].list) = k
        BY <3>5, <3>8, <1>11
      <4> QED
        BY <4>1, <3>1, <3>2, <3>4, <3>5, <3>6, <3>8
    <3> QED
      BY <3>7, <3>8
  <2>3. record' = record
    BY <1>1
  <2> QED
    BY <2>1, <2>2, <2>3, <1>8, <1>19, PendingPut
<1>21. IInv(new, nof)'
  <2>1. /\ pending' \in [Shards -> [list : Seq(Records), count : Nat, open : BOOLEAN]]
        /\ bins' \in [Bins -> [Slots -> Seq(Records)]] /\ reclaiming' \in BOOLEAN
        /\ UNCHANGED <<frontier, count, managers, header, record, held, late, arena>>
    BY <1>1, <1>3, <1>11 DEF TypeInv
  <2>2. d.reserved = c.reserved /\ call' = [call EXCEPT ![t] = d]
    BY <1>1, <1>8
  <2> QED
    BY <2>1, <2>2, <1>9, <1>10, <1>16, <1>17, <1>18, <1>20, BatchMoves
<1> QED
  BY <1>21 DEF Inv

LEMMA StolenHolds ==
    ASSUME TypeInv, NEW t \in Threads
    PROVE  /\ Cardinality(Stolen(call[t].window)) \in Nat
           /\ call[t].stolen \in Nat /\ call[t].stolen <= Cardinality(Stolen(call[t].window))
<1> DEFINE n == [u \in Threads |-> call[u].stolen]
           win == [u \in Threads |-> call[u].window]
           s == call[t].window
           rest == UNION {{u} \X (1 .. n[u]) : u \in {v \in Threads \ {t} : win[v] = s}}
<1>1. n \in [Threads -> Nat]
  BY DEF TypeInv, CallType
<1>2. Stolen(s) = Loot(win, n, s)
  BY DEF Stolen, Loot
<1>3. win[t] = s /\ n[t] = call[t].stolen /\ n[t] \in Nat
  BY <1>1
<1> HIDE DEF n, win, rest, s
<1>4. /\ Cardinality(rest) \in Nat
      /\ Cardinality(Loot(win, n, s)) = Cardinality(rest) + Share(win[t], n[t], s)
  BY <1>1, LootParts DEF rest
<1>5. Share(win[t], n[t], s) = n[t]
  BY <1>3 DEF Share
<1> QED
  BY <1>2, <1>3, <1>4, <1>5 DEF s

LEMMA ReducePendingStep ==
    ASSUME NEW kind, NEW of, IInv(kind, of), NEW t \in Threads, ReducePending(t)
    PROVE  IInv(kind, of)'
<1> DEFINE c == call[t]
<1>w. PICK w : w = c.window
  OBVIOUS
<1>n. PICK n : n = c.stolen
  OBVIOUS
<1>p. PICK p : p = IF pending[w].count > n THEN pending[w].count - n ELSE 0
  OBVIOUS
<1>d. PICK d : d = [c EXCEPT !.pc = "steal", !.stolen = 0]
  OBVIOUS
<1>1. /\ c.pc = "reducePending" /\ pending' = [pending EXCEPT ![w].count = p]
      /\ UNCHANGED <<frontier, count, managers, header, record, bins, reclaiming, held, late, arena>>
  BY <1>w, <1>n, <1>p, QuietStart DEF ReducePending
<1>2. /\ TypeInv /\ c \in CallType /\ ShapeOf(c) /\ PlaceOf(c) /\ reclaiming \in BOOLEAN
      /\ pending \in [Shards -> [list : Seq(Records), count : Nat, open : BOOLEAN]]
  BY QuietStart
<1>3. /\ w \in Shards /\ n \in Nat /\ pending[w].count \in Nat
  BY <1>2, <1>w, <1>n DEF CallType
<1>4. p \in Nat
  BY <1>3, <1>p
<1>5. call' = [call EXCEPT ![t] = d]
  <2>1. call \in [Threads -> CallType]
    BY <1>2 DEF TypeInv
  <2>2. call' = [call EXCEPT ![t].pc = "steal", ![t].stolen = 0]
    BY DEF ReducePending
  <2> QED
    BY <2>1, <2>2, <1>d DEF CallType
<1>6. /\ d \in CallType /\ d.pc = "steal" /\ d.md = c.md /\ d.reserved = c.reserved
      /\ d.list = c.list /\ d.batch = c.batch /\ d.stolen = 0 /\ d.stage = c.stage
      /\ d.back = c.back /\ d.window = c.window
  BY <1>2, <1>d DEF CallType, Pcs, WindowPcs
<1>7. c.md = None /\ c.list = <<>> /\ c.batch = <<>>
  BY <1>1, <1>2 DEF ShapeOf, HasMd, Batching
<1>8. Well(d)
  <2>1. ShapeOf(d)
    BY <1>1, <1>2, <1>6, <1>7 DEF ShapeOf, HasMd, HasReserved, Batching, Windowed, FirstPcs, WindowPcs
  <2>2. PlaceOf(d)
    BY <1>6 DEF PlaceOf
  <2> QED
    BY <2>1, <2>2, <1>6 DEF Well
<1>9. Carrier(c) /\ Carrier(d) /\ d.pc # "pushFree"
  BY <1>1, <1>6 DEF Carrier
<1>10. Moves(t, d)
  BY <1>2, <1>5, <1>6, MovesTo
<1>11. /\ pending' \in [Shards -> [list : Seq(Records), count : Nat, open : BOOLEAN]]
       /\ \A s \in Shards : /\ pending'[s].list = pending[s].list
                            /\ pending'[s].count = IF s = w THEN p ELSE pending[s].count
  BY <1>1, <1>2, <1>3, <1>4, PendingCounted
<1>12. /\ kind \in [Records -> Kinds] /\ ThreadPlaces(kind, of)
       /\ PendingAt(kind, of) /\ BinsAt(kind, of)
  BY PlacesTyped, SharedParts
<1>13. Placing(kind, of, kind, of, t, d)
  <2>1. Carries(kind, of, kind, of, t)
    BY DEF Carries
  <2>2. Has(kind, of, t, d)
    BY <1>6, <1>12 DEF Has, ThreadPlaces
  <2>3. \A q \in Records : ~(kind[q] \in {"list", "batch"} /\ of[q] = t)
    BY <1>7, <1>12, EmptyRange DEF ThreadPlaces, In
  <2>4. \A q \in Records : kind[q] = "bin" => record[q].state \in Offered
    BY DEF IInv, StatesAt
  <2> QED
    BY <1>12, <2>1, <2>2, <2>3, <2>4 DEF Placing
<1>14. PendingAt(kind, of)' /\ BinsAt(kind, of)'
  <2>1. PendingAt(kind, of)'
    BY <1>11, <1>12 DEF PendingAt
  <2>2. bins' = bins
    BY <1>1
  <2>3. BinsAt(kind, of)'
    BY <1>12, <2>2 DEF BinsAt
  <2> QED
    BY <2>1, <2>3
<1>15. n <= pending[w].count
  <2>1. pending[w].count = Len(pending[w].list) + Cardinality(Stolen(w)) + Cardinality(Pushing(w))
    BY <1>3 DEF IInv, PendingCounts
  <2>2. Cardinality(Pushing(w)) \in Nat
    BY <1>3, <1>10, <1>1, PushingMoves
  <2>3. Cardinality(Stolen(w)) \in Nat /\ n <= Cardinality(Stolen(w))
    BY <1>2, <1>w, <1>n, StolenHolds
  <2>4. Len(pending[w].list) \in Nat
    BY <1>2, <1>3
  <2> QED
    BY <1>3, <2>1, <2>2, <2>3, <2>4
<1>16. PendingCounts'
  <2>1. \A s \in Shards : pending'[s].list \in Seq(Records)
    BY <1>11
  <2>2. ASSUME NEW s \in Shards
        PROVE  pending'[s].count =
                  pending[s].count + (Len(pending'[s].list) - Len(pending[s].list))
                     + (Share(d.window, d.stolen, s) - Share(c.window, c.stolen, s))
                     + (Bit(PushesIn(d, record', s)) - Bit(PushesIn(c, record, s)))
    <3>1. Bit(PushesIn(d, record', s)) = 0 /\ Bit(PushesIn(c, record, s)) = 0
      BY <1>1, <1>6 DEF Bit, PushesIn
    <3>2. /\ Share(d.window, d.stolen, s) = 0
          /\ Share(c.window, c.stolen, s) = IF s = w THEN n ELSE 0
      BY <1>6, <1>w, <1>n DEF Share
    <3>3. PICK k \in Nat : k = pending[s].count
      BY <1>2
    <3>4. PICK l \in Nat : l = Len(pending[s].list)
      BY <1>2
    <3>5. Len(pending'[s].list) = l
      BY <3>4, <1>11
    <3>6. pending'[s].count = IF s = w THEN k - n ELSE k
      <4>1. CASE s = w
        <5>1. k \in Nat /\ n \in Nat /\ n <= k /\ p = (IF k > n THEN k - n ELSE 0)
          BY <4>1, <1>3, <1>15, <1>p, <3>3
        <5>2. p = k - n
          BY <5>1
        <5> QED
          BY <4>1, <5>2, <1>11
      <4>2. CASE s # w
        BY <4>2, <1>11, <3>3
      <4> QED
        BY <4>1, <4>2
    <3> QED
      BY <3>1, <3>2, <3>3, <3>4, <3>5, <3>6, <1>3
  <2> QED
    BY <2>1, <2>2, <1>1, <1>6, <1>10, PendingPut
<1> QED
  <2>1. /\ bins' \in [Bins -> [Slots -> Seq(Records)]] /\ reclaiming' \in BOOLEAN
        /\ UNCHANGED <<frontier, count, managers, header, record, held, late, arena>>
        /\ d.reserved = c.reserved
    BY <1>1, <1>2, <1>6 DEF TypeInv
  <2> QED
    BY <2>1, <1>5, <1>8, <1>9, <1>11, <1>13, <1>14, <1>16, BatchMoves

LEMMA TrimsStart ==
    ASSUME NEW kind, NEW of, IInv(kind, of)
    PROVE  /\ Trims /\ count \in 0 .. NumRecords
           /\ \A u \in Threads : /\ TrimOf(call[u]) # None => TrimOf(call[u]) \in Managers
                                 /\ ClearOf(call[u]) # None => TrimOf(call[u]) = ClearOf(call[u])
<1>1. TypeInv /\ Control /\ Trims /\ count \in 0 .. NumRecords
  <2>1. TypeInv /\ Control /\ Trims
    BY DEF IInv
  <2> QED
    BY <2>1 DEF TypeInv
<1>2. ASSUME NEW u \in Threads
      PROVE  /\ TrimOf(call[u]) # None => TrimOf(call[u]) \in Managers
             /\ ClearOf(call[u]) # None => TrimOf(call[u]) = ClearOf(call[u])
  <2>1. TrimOf(call[u]) # None => TrimOf(call[u]) \in Managers
    BY <1>1, CallFacts
  <2>2. ClearOf(call[u]) # None => TrimOf(call[u]) = ClearOf(call[u])
    BY DEF TrimOf, ClearOf
  <2> QED
    BY <2>1, <2>2
<1> QED
  BY <1>1, <1>2

LEMMA TrimsClaimed ==
    ASSUME NEW kind, NEW of, IInv(kind, of), NEW t \in Threads, NEW d, Moves(t, d),
           NEW m \in Managers, managers[m].active = 0, ~managers[m].trimming,
           TrimOf(d) = m, ClearOf(d) = None, count' = count,
           \A q \in Managers : /\ managers'[q].active = managers[q].active
                               /\ managers'[q].trimming <=> q = m \/ managers[q].trimming
    PROVE  Trims'
<1>1. /\ Trims
      /\ \A u \in Threads : TrimOf(call[u]) # None => TrimOf(call[u]) \in Managers
  BY TrimsStart
<1>2. \A u \in Threads : TrimOf(call[u]) # m
  BY <1>1, ManagersTyped DEF Trims
<1>3. \A u \in Threads : call'[u] = IF u = t THEN d ELSE call[u]
  BY DEF Moves
<1>4. \A q \in Managers : managers'[q].trimming => managers'[q].active = 0
  BY <1>1 DEF Trims
<1>5. \A u \in Threads : TrimOf(call'[u]) # None => managers'[TrimOf(call'[u])].trimming
  BY <1>1, <1>3 DEF Trims
<1>6. \A u, v \in Threads : u # v /\ TrimOf(call'[u]) # None => TrimOf(call'[u]) # TrimOf(call'[v])
  BY <1>1, <1>2, <1>3 DEF Trims
<1>7. \A u \in Threads : ClearOf(call'[u]) # None => count' <= ClearOf(call'[u]) * RecordsPerManager
  BY <1>1, <1>3 DEF Trims
<1> QED
  BY <1>4, <1>5, <1>6, <1>7 DEF Trims, TrimOf, ClearOf

LEMMA TrimsDone ==
    ASSUME NEW kind, NEW of, IInv(kind, of), NEW t \in Threads, NEW d, Moves(t, d),
           NEW m \in Managers, TrimOf(call[t]) = m, TrimOf(d) = None, ClearOf(d) = None,
           count' = count,
           \A q \in Managers : /\ managers'[q].active = managers[q].active
                               /\ managers'[q].trimming <=> q # m /\ managers[q].trimming
    PROVE  Trims'
<1>1. /\ Trims
      /\ \A u \in Threads : TrimOf(call[u]) # None => TrimOf(call[u]) \in Managers
  BY TrimsStart
<1>2. \A u \in Threads : u # t => TrimOf(call[u]) # m
  BY <1>1, ManagersTyped DEF Trims
<1>3. \A u \in Threads : call'[u] = IF u = t THEN d ELSE call[u]
  BY DEF Moves
<1>4. \A q \in Managers : managers'[q].trimming => managers'[q].active = 0
  BY <1>1 DEF Trims
<1>5. \A u \in Threads : TrimOf(call'[u]) # None => managers'[TrimOf(call'[u])].trimming
  BY <1>1, <1>2, <1>3 DEF Trims
<1>6. \A u, v \in Threads : u # v /\ TrimOf(call'[u]) # None => TrimOf(call'[u]) # TrimOf(call'[v])
  BY <1>1, <1>3 DEF Trims
<1>7. \A u \in Threads : ClearOf(call'[u]) # None => count' <= ClearOf(call'[u]) * RecordsPerManager
  BY <1>1, <1>3 DEF Trims
<1> QED
  BY <1>4, <1>5, <1>6, <1>7 DEF Trims, TrimOf, ClearOf

\* A thread that ends a window, or trims a manager, has nothing in hand.
Trimmer(c) == c.pc \in {"trimClaim", "trimShrink", "trimClear"}

LEMMA TrimmerFacts ==
    ASSUME NEW c, c \in CallType, ShapeOf(c), PlaceOf(c), Trimmer(c)
    PROVE  /\ Rested(c) /\ MdOf(c) = None /\ SeenOf(c) = None
           /\ TransientOf(c) = None /\ GoneOf(c) = None /\ ~Rolls(c)
           /\ ~Fresh(c) /\ ~Advanced(c) /\ ~HasLocked(c)
           /\ c.pc \notin {"lock", "pushPending", "frontAdvance"}
           /\ c.pc # "trimClear" => c.seen - 1 \in Records /\ ManagerFor(c.seen - 1) \in Managers
           /\ c.pc = "trimClear" => c.manager \in Managers
           /\ c.list = <<>> /\ c.batch = <<>> /\ c.md = None /\ c.stolen = 0
<1>1. ~Batching(c) /\ Windowed(c) /\ c.pc \in WindowPcs /\ c.pc \notin FirstPcs
  BY DEF Trimmer, Batching, Windowed, WindowPcs, FirstPcs
<1>2. c.md = None /\ c.list = <<>> /\ c.batch = <<>> /\ c.stolen = 0
  BY <1>1 DEF ShapeOf, HasMd, Trimmer
<1>3. c.reserved # None <=> c.stage # "first"
  BY DEF ShapeOf, HasReserved, Trimmer
<1>4. Rested(c)
  BY <1>1, <1>2, <1>3 DEF Rested, Resting, ShapeOf
<1>5. /\ MdOf(c) = None /\ SeenOf(c) = None /\ TransientOf(c) = None /\ GoneOf(c) = None /\ ~Rolls(c)
      /\ ~Fresh(c) /\ ~Advanced(c) /\ ~HasLocked(c)
      /\ c.pc \notin {"lock", "pushPending", "frontAdvance"}
  BY <1>2 DEF Trimmer, MdOf, SeenOf, TransientOf, GoneOf, RollOf, Rolls, Fresh, Advanced, HasLocked
<1>6. c.pc # "trimClear" => c.seen - 1 \in Records /\ ManagerFor(c.seen - 1) \in Managers
  <2> HAVE c.pc # "trimClear"
  <2>1. c.seen \in 0 .. NumRecords /\ c.seen > 0
    BY DEF CallType, PlaceOf, Trimmer
  <2>2. c.seen - 1 \in Records
    BY <2>1, RecordFacts
  <2> QED
    BY <2>2, ManagerFacts
<1>7. c.pc = "trimClear" => c.manager \in Managers
  BY DEF PlaceOf
<1> QED
  BY <1>2, <1>4, <1>5, <1>6, <1>7

LEMMA TrimmerGoes ==
    ASSUME NEW kind, NEW of, IInv(kind, of), NEW t \in Threads, NEW d,
           Trimmer(call[t]), Well(d), Trimmer(d) \/ Quiet(d), d.pc # "frontAdvance",
           Keeps(call[t], d), ClearOf(d) = ClearOf(call[t]),
           call' = [call EXCEPT ![t] = d],
           UNCHANGED <<frontier, count, header, record, pending, bins, reclaiming, held, late, arena>>,
           managers' \in [Managers -> [free : Seq(Records), active : Nat, trimming : BOOLEAN]],
           \A m \in Managers : /\ managers'[m].free = managers[m].free
                               /\ managers'[m].active = managers[m].active,
           Trims'
    PROVE  IInv(kind, of)'
<1> DEFINE c == call[t]
<1>1. c \in CallType /\ ShapeOf(c) /\ PlaceOf(c) /\ d \in CallType /\ ShapeOf(d) /\ PlaceOf(d)
  BY QuietStart DEF Well
<1>2. /\ MdOf(c) = None /\ SeenOf(c) = None /\ TransientOf(c) = None /\ GoneOf(c) = None
      /\ ~Fresh(c) /\ ~Advanced(c) /\ c.pc \notin {"lock", "pushPending"}
      /\ c.list = <<>> /\ c.batch = <<>> /\ c.md = None /\ c.stolen = 0
  BY <1>1, TrimmerFacts
<1>3. /\ MdOf(d) = None /\ SeenOf(d) = None /\ TransientOf(d) = None /\ GoneOf(d) = None
      /\ ~Rolls(d) /\ ~Fresh(d) /\ ~Advanced(d) /\ ~HasLocked(d)
      /\ d.pc \notin {"lock", "pushPending"}
  <2>1. CASE Trimmer(d)
    BY <2>1, <1>1, TrimmerFacts
  <2>2. CASE Quiet(d)
    BY <2>2, <1>1, QuietFacts
  <2> QED
    BY <2>1, <2>2
<1>4. d.reserved = c.reserved /\ d.list = c.list /\ d.batch = c.batch /\ d.stolen = 0
  BY <1>2 DEF Keeps
<1>5. SameFlight(c, d)
  BY <1>2, <1>3 DEF SameFlight, InFlight
<1>6. \A q \in Records : q # MdOf(c) /\ q \notin Range(c.batch)
  BY <1>2, EmptyRange, RecordFacts
<1>7. /\ Moves(t, d) /\ TypeInv' /\ Control' /\ Places(kind, of)' /\ StatesAt(kind, of)'
      /\ Described' /\ Rolling' /\ LateFrees' /\ Tiling(kind)' /\ Versions'
  <2>1. /\ \A q \in Records : q = MdOf(c) => record[q].state \in MdStates(d)
        /\ \A q \in Records : q \in Range(c.batch) => record[q].state \in BatchStates(d, q)
    BY <1>6
  <2>2. HasLocked(d) => HasLocked(c) /\ d.block = c.block /\ d.md = c.md
    BY <1>3
  <2>3. MdOf(d) = MdOf(c) /\ SeenOf(d) = SeenOf(c) /\ c.pc # "lock" /\ d.pc \notin {"lock", "frontAdvance"}
    BY <1>2, <1>3
  <2> QED
    BY <2>1, <2>2, <2>3, <1>2, <1>3, <1>4, <1>5, PlainStep
<1>8. ManagerCounts'
  <2>1. ManagerCounts /\ TransientOf(d) = TransientOf(c) /\ count' = count
    BY <1>2, <1>3 DEF IInv
  <2> QED
    BY <2>1, <1>7, ManagerCountsSame
<1>9. PendingCounts'
  <2>1. /\ \A s \in Shards : pending'[s].list = pending[s].list /\ pending'[s].count = pending[s].count
        /\ \A u \in Threads : call[u].pc = "pushPending" =>
              record'[call[u].md].shard = record[call[u].md].shard
    OBVIOUS
  <2>2. d.stolen = c.stolen /\ (d.stolen = 0 \/ d.window = c.window)
    BY <1>2, <1>4
  <2> QED
    BY <2>1, <2>2, <1>2, <1>3, <1>7, PendingSame
<1> QED
  BY <1>7, <1>8, <1>9 DEF IInv

LEMMA TrimClaimTakes ==
    ASSUME NEW kind, NEW of, IInv(kind, of), NEW t \in Threads, TrimClaim(t),
           NEW m, m = ManagerFor(call[t].seen - 1),
           managers[m].active = 0 /\ ~managers[m].trimming
    PROVE  IInv(kind, of)'
<1> DEFINE c == call[t]
<1>d. PICK d : d = [c EXCEPT !.pc = "trimShrink"]
  OBVIOUS
<1>1. /\ c.pc = "trimClaim" /\ managers' = [managers EXCEPT ![m].trimming = TRUE]
      /\ call' = [call EXCEPT ![t] = d]
      /\ UNCHANGED <<frontier, count, header, record, pending, bins, reclaiming, held, late, arena>>
  BY <1>d DEF TrimClaim
<1>2. c \in CallType /\ ShapeOf(c) /\ PlaceOf(c)
  BY QuietStart
<1>3. Trimmer(c)
  BY <1>1 DEF Trimmer
<1>4. m \in Managers
  BY <1>1, <1>2, <1>3, TrimmerFacts
<1>5. Rested(c)
  BY <1>2, <1>3, TrimmerFacts
<1>6. /\ d \in CallType /\ d.pc = "trimShrink" /\ d.md = c.md /\ d.reserved = c.reserved
      /\ d.list = c.list /\ d.batch = c.batch /\ d.stolen = c.stolen /\ d.stage = c.stage
      /\ d.back = c.back /\ d.window = c.window /\ d.seen = c.seen
  BY <1>2, <1>d DEF CallType, Pcs, WindowPcs
<1>7. Well(d)
  <2>1. ShapeOf(d)
    BY <1>5, <1>6 DEF ShapeOf, HasMd, HasReserved, Batching, Windowed, FirstPcs, WindowPcs, Rested, Resting
  <2>2. PlaceOf(d)
    BY <1>1, <1>2, <1>6 DEF PlaceOf
  <2> QED
    BY <2>1, <2>2, <1>6 DEF Well
<1>8. Trimmer(d) /\ Keeps(c, d) /\ ClearOf(d) = None /\ ClearOf(c) = None /\ TrimOf(d) = m
  BY <1>1, <1>6 DEF Trimmer, Keeps, ClearOf, TrimOf
<1>9. /\ managers \in [Managers -> [free : Seq(Records), active : Nat, trimming : BOOLEAN]]
      /\ TypeInv
  BY ManagersTyped, QuietStart
<1>10. /\ managers' \in [Managers -> [free : Seq(Records), active : Nat, trimming : BOOLEAN]]
       /\ \A q \in Managers : /\ managers'[q].free = managers[q].free
                              /\ managers'[q].active = managers[q].active
                              /\ managers'[q].trimming <=> q = m \/ managers[q].trimming
  BY <1>1, <1>4, <1>9
<1>11. Moves(t, d)
  BY <1>1, <1>6, <1>9, MovesTo
<1>12. Trims'
  <2>1. count' = count /\ \A q \in Managers : /\ managers'[q].active = managers[q].active
                                              /\ managers'[q].trimming <=> q = m \/ managers[q].trimming
    BY <1>1, <1>10
  <2> QED
    BY <2>1, <1>4, <1>8, <1>11, TrimsClaimed
<1> QED
  BY <1>1, <1>3, <1>6, <1>7, <1>8, <1>10, <1>12, TrimmerGoes

LEMMA TrimShrinkFails ==
    ASSUME NEW kind, NEW of, IInv(kind, of), NEW t \in Threads, TrimShrink(t), count # call[t].seen
    PROVE  IInv(kind, of)'
<1> DEFINE c == call[t]
<1>m. PICK m : m = ManagerFor(c.seen - 1)
  OBVIOUS
<1>d. PICK d : d = Trimming(c)
  OBVIOUS
<1>1. /\ c.pc = "trimShrink" /\ managers' = [managers EXCEPT ![m].trimming = FALSE]
      /\ call' = [call EXCEPT ![t] = d]
      /\ UNCHANGED <<frontier, count, header, record, pending, bins, reclaiming, held, late, arena>>
  BY <1>m, <1>d DEF TrimShrink
<1>2. c \in CallType /\ ShapeOf(c) /\ PlaceOf(c) /\ TypeInv /\ count \in 0 .. NumRecords
  BY QuietStart
<1>3. Trimmer(c)
  BY <1>1 DEF Trimmer
<1>4. m \in Managers /\ Rested(c)
  BY <1>1, <1>2, <1>3, <1>m, TrimmerFacts
<1>5. Well(d) /\ Quiet(d) /\ Keeps(c, d) /\ d.pc # "frontAdvance"
  BY <1>2, <1>4, <1>d, TrimmingFacts
<1>6. TrimOf(d) = None /\ ClearOf(d) = None
  BY <1>5, QuietFacts DEF Well
<1>7. TrimOf(c) = m /\ ClearOf(c) = None
  BY <1>1, <1>m DEF TrimOf, ClearOf
<1>8. managers \in [Managers -> [free : Seq(Records), active : Nat, trimming : BOOLEAN]]
  BY ManagersTyped
<1>9. /\ managers' \in [Managers -> [free : Seq(Records), active : Nat, trimming : BOOLEAN]]
      /\ \A q \in Managers : /\ managers'[q].free = managers[q].free
                             /\ managers'[q].active = managers[q].active
                             /\ managers'[q].trimming <=> q # m /\ managers[q].trimming
  BY <1>1, <1>4, <1>8
<1>10. Moves(t, d)
  BY <1>1, <1>2, <1>5, MovesTo DEF Well
<1>11. Trims'
  <2>1. count' = count /\ \A q \in Managers : /\ managers'[q].active = managers[q].active
                                              /\ managers'[q].trimming <=> q # m /\ managers[q].trimming
    BY <1>1, <1>9
  <2> QED
    BY <2>1, <1>4, <1>6, <1>7, <1>10, TrimsDone
<1> QED
  BY <1>1, <1>3, <1>5, <1>6, <1>7, <1>9, <1>11, TrimmerGoes

\* Records of a stack that is cleared are out of every place.
Freeing(kind, new) ==
    /\ new \in [Records -> Kinds]
    /\ \A q \in Records : new[q] = kind[q] \/ (kind[q] = "free" /\ new[q] = "out")

LEMMA FreeingKeeps ==
    ASSUME NEW kind, NEW of, NEW new, Freeing(kind, new), SharedPlaces(kind, of),
           ThreadPlaces(kind, of), StatesAt(kind, of),
           \A b \in held : header[b].index \in Records
    PROVE  SharedPlaces(new, of) /\ ThreadPlaces(new, of) /\ StatesAt(new, of)
<1>1. \A q \in Records : \A k, o : k \notin {"free", "out"} => (In(new, of, q, k, o) <=> In(kind, of, q, k, o))
  BY DEF Freeing, In
<1>2. \A q \in Records : \A k : k \notin {"free", "out"} => (new[q] = k <=> kind[q] = k)
  BY DEF Freeing
<1>3. SharedPlaces(new, of)
  <2>1. /\ \A s \in Shards, q \in Records : q \in Range(pending[s].list) <=> In(new, of, q, "pending", s)
        /\ \A b \in Bins, k \in Slots, q \in Records :
             q \in Range(bins[b][k]) <=> In(new, of, q, "bin", <<b, k>>)
        /\ \A b \in held : In(new, of, header[b].index, "held", b)
    BY <1>1 DEF SharedPlaces
  <2>2. /\ \A q \in Records : new[q] = "pending" => of[q] \in Shards
        /\ \A q \in Records : new[q] = "bin" => of[q] \in Bins \X Slots
        /\ \A q \in Records : new[q] = "held" => of[q] \in held /\ header[of[q]].index = q
    BY <1>2 DEF SharedPlaces
  <2> QED
    BY <2>1, <2>2 DEF SharedPlaces
<1>4. ThreadPlaces(new, of)
  <2>1. /\ \A t \in Threads, r \in Records : r = MdOf(call[t]) <=> In(new, of, r, "md", t)
        /\ \A t \in Threads, r \in Records : r = call[t].reserved <=> In(new, of, r, "reserved", t)
        /\ \A t \in Threads, r \in Records : r = SeenOf(call[t]) <=> In(new, of, r, "seen", t)
        /\ \A t \in Threads, r \in Records : r \in Range(call[t].list) <=> In(new, of, r, "list", t)
        /\ \A t \in Threads, r \in Records : r \in Range(call[t].batch) <=> In(new, of, r, "batch", t)
    BY <1>1 DEF ThreadPlaces
  <2>2. \A r \in Records : new[r] \in {"md", "reserved", "seen", "list", "batch"} => of[r] \in Threads
    BY <1>2 DEF ThreadPlaces
  <2> QED
    BY <2>1, <2>2 DEF ThreadPlaces
<1>5. StatesAt(new, of)
  <2>1. \A r \in Records : new[r] \in {"free", "reserved", "seen", "out"} =>
           kind[r] \in {"free", "reserved", "seen", "out"}
    BY DEF Freeing
  <2>2. \A r \in Records : /\ kind[r] \notin {"free", "out"} => new[r] = kind[r]
                           /\ new[r] \notin {"free", "out"} => new[r] = kind[r]
    BY DEF Freeing
  <2> QED
    BY <2>1, <2>2 DEF StatesAt
<1> QED
  BY <1>3, <1>4, <1>5

LEMMA TrimmerMoves ==
    ASSUME NEW kind, NEW of, IInv(kind, of), NEW new, Freeing(kind, new), NEW t \in Threads, NEW d,
           Trimmer(call[t]), Well(d), Trimmer(d) \/ Quiet(d), d.pc # "frontAdvance",
           Keeps(call[t], d), call' = [call EXCEPT ![t] = d],
           UNCHANGED <<frontier, header, record, pending, bins, reclaiming, held, late, arena>>,
           managers' \in [Managers -> [free : Seq(Records), active : Nat, trimming : BOOLEAN]],
           count' \in 0 .. NumRecords, count' <= count,
           FreePlaces(new, of)', ManagerCounts', Trims'
    PROVE  IInv(new, of)'
<1> DEFINE c == call[t]
<1>1. c \in CallType /\ ShapeOf(c) /\ PlaceOf(c) /\ d \in CallType /\ ShapeOf(d) /\ PlaceOf(d) /\ TypeInv
  BY QuietStart DEF Well
<1>2. /\ MdOf(c) = None /\ SeenOf(c) = None /\ GoneOf(c) = None
      /\ ~Fresh(c) /\ ~Advanced(c) /\ c.pc \notin {"lock", "pushPending"}
      /\ c.list = <<>> /\ c.batch = <<>> /\ c.md = None /\ c.stolen = 0
  BY <1>1, TrimmerFacts
<1>3. /\ MdOf(d) = None /\ SeenOf(d) = None /\ GoneOf(d) = None
      /\ ~Rolls(d) /\ ~Fresh(d) /\ ~Advanced(d) /\ ~HasLocked(d)
      /\ d.pc \notin {"lock", "pushPending"}
  <2>1. CASE Trimmer(d)
    BY <2>1, <1>1, TrimmerFacts
  <2>2. CASE Quiet(d)
    BY <2>2, <1>1, QuietFacts
  <2> QED
    BY <2>1, <2>2
<1>4. d.reserved = c.reserved /\ d.list = c.list /\ d.batch = c.batch /\ d.stolen = 0
  BY <1>2 DEF Keeps
<1>5. SameFlight(c, d)
  BY <1>2, <1>3 DEF SameFlight, InFlight
<1>6. Moves(t, d) /\ call' \in [Threads -> CallType]
  BY <1>1, MovesTo
<1>7. TypeInv'
  BY <1>1, <1>6 DEF TypeInv
<1>8. Control' /\ Described' /\ Rolling' /\ LateFrees' /\ Tiling(new)' /\ Versions'
  <2>1. Fewer
    BY QuietStart
  <2>2. \A q \in Records : q < count' /\ new[q] # "seen" => q < count /\ kind[q] # "seen"
    <3>1. count \in Nat /\ count' \in Nat /\ \A q \in Records : q \in Nat
      BY <1>1, RecordFacts DEF TypeInv
    <3> QED
      BY <3>1 DEF Freeing
  <2>3. /\ c.pc # "lock" /\ d.pc # "lock"
        /\ HasLocked(d) => HasLocked(c) /\ d.block = c.block /\ d.md = c.md
    BY <1>2, <1>3
  <2> QED
    BY <2>1, <2>2, <2>3, <1>2, <1>3, <1>5, <1>6, Quieter
<1>9. SharedPlaces(new, of) /\ ThreadPlaces(new, of) /\ StatesAt(new, of)
  <2>1. SharedPlaces(kind, of) /\ ThreadPlaces(kind, of) /\ StatesAt(kind, of)
    BY PlacesTyped DEF IInv
  <2>2. \A b \in held : header[b].index \in Records
    BY PlacesTyped
  <2> QED
    BY <2>1, <2>2, FreeingKeeps
<1>10. SharedPlaces(new, of)'
  <2>1. /\ \A s \in Shards : pending'[s].list = pending[s].list
        /\ \A b \in held : header'[b].index = header[b].index
    OBVIOUS
  <2> QED
    BY <2>1, <1>9, SharedPlacesSame
<1>11. ThreadPlaces(new, of)'
  <2>1. MdOf(d) = MdOf(c) /\ SeenOf(d) = SeenOf(c)
    BY <1>2, <1>3
  <2> QED
    BY <2>1, <1>4, <1>6, <1>9, ThreadPlacesSame
<1>12. StatesAt(new, of)'
  <2>1. \A q \in Records : ~In(new, of, q, "md", t) /\ ~In(new, of, q, "batch", t)
    <3>1. \A q \in Records : q # MdOf(c) /\ q \notin Range(c.batch)
      BY <1>2, EmptyRange, RecordFacts
    <3> QED
      BY <3>1, <1>9 DEF ThreadPlaces
  <2>2. \A q \in Records : new[q] \in {"md", "batch"} => of[q] \in Threads
    BY <1>9 DEF ThreadPlaces
  <2>3. \A q \in Records : record'[q].state = record[q].state /\ record'[q].block = record[q].block
    OBVIOUS
  <2>4. /\ \A q \in Records : In(new, of, q, "md", t) => MdStates(d) = MdStates(c)
        /\ \A q \in Records : In(new, of, q, "batch", t) => BatchStates(d, q) = BatchStates(c, q)
    BY <2>1
  <2> QED
    BY <2>2, <2>3, <2>4, <1>6, <1>9, StatesSame
<1>13. PendingCounts'
  <2>1. /\ \A s \in Shards : pending'[s].list = pending[s].list /\ pending'[s].count = pending[s].count
        /\ \A u \in Threads : call[u].pc = "pushPending" =>
              record'[call[u].md].shard = record[call[u].md].shard
    OBVIOUS
  <2>2. d.stolen = c.stolen /\ (d.stolen = 0 \/ d.window = c.window)
    BY <1>2, <1>4
  <2> QED
    BY <2>1, <2>2, <1>2, <1>3, <1>6, PendingSame
<1>14. Places(new, of)'
  BY <1>10, <1>11 DEF Places, Freeing
<1> QED
  BY <1>7, <1>8, <1>12, <1>13, <1>14 DEF IInv

LEMMA TrimShrinkTakes ==
    ASSUME NEW kind, NEW of, IInv(kind, of), NEW t \in Threads, TrimShrink(t), count = call[t].seen
    PROVE  IInv(kind, of)'
<1> DEFINE c == call[t]
<1>m. PICK m : m = ManagerFor(c.seen - 1)
  OBVIOUS
<1>d. PICK d : d = [c EXCEPT !.pc = "trimClear", !.manager = m]
  OBVIOUS
<1>1. /\ c.pc = "trimShrink" /\ count' = m * RecordsPerManager
      /\ UNCHANGED <<frontier, managers, header, record, pending, bins, reclaiming, held, late, arena>>
  BY <1>m DEF TrimShrink
<1>2. c \in CallType /\ ShapeOf(c) /\ PlaceOf(c) /\ TypeInv /\ count \in 0 .. NumRecords
  BY QuietStart
<1>3. Trimmer(c)
  BY <1>1 DEF Trimmer
<1>4. m \in Managers /\ Rested(c) /\ c.seen - 1 \in Records
  BY <1>1, <1>2, <1>3, <1>m, TrimmerFacts
<1>5. call' = [call EXCEPT ![t] = d]
  <2>1. call' = [call EXCEPT ![t].pc = "trimClear", ![t].manager = m]
    BY <1>m DEF TrimShrink
  <2>2. call \in [Threads -> CallType]
    BY <1>2 DEF TypeInv
  <2> QED
    BY <2>1, <2>2, <1>d DEF CallType
<1>6. /\ d \in CallType /\ d.pc = "trimClear" /\ d.md = c.md /\ d.reserved = c.reserved
      /\ d.list = c.list /\ d.batch = c.batch /\ d.stolen = c.stolen /\ d.stage = c.stage
      /\ d.back = c.back /\ d.window = c.window /\ d.manager = m
  <2>1. m \in Nat
    BY <1>4, ManagersTyped
  <2> QED
    BY <2>1, <1>2, <1>d DEF CallType, Pcs, WindowPcs
<1>7. Well(d)
  <2>1. ShapeOf(d)
    BY <1>4, <1>6 DEF ShapeOf, HasMd, HasReserved, Batching, Windowed, FirstPcs, WindowPcs, Rested, Resting
  <2>2. PlaceOf(d)
    BY <1>4, <1>6 DEF PlaceOf
  <2> QED
    BY <2>1, <2>2, <1>6 DEF Well
<1>8. /\ Trimmer(d) /\ Keeps(c, d) /\ ClearOf(d) = m /\ ClearOf(c) = None /\ TrimOf(d) = m
      /\ TrimOf(c) = m /\ TransientOf(c) = None /\ TransientOf(d) = None
  BY <1>1, <1>6, <1>m DEF Trimmer, Keeps, ClearOf, TrimOf, TransientOf
<1>9. Moves(t, d) /\ \A u \in Threads : call'[u] = IF u = t THEN d ELSE call[u]
  <2>1. Moves(t, d)
    BY <1>2, <1>5, <1>6, MovesTo
  <2> QED
    BY <2>1 DEF Moves
<1>10. m # None /\ \A q \in Managers : q # None
  BY <1>4, ManagersTyped
<1>11. managers[m].active = 0
  BY <1>4, <1>8, <1>10, TrimsStart DEF Trims
<1>12. PICK k : k = m * RecordsPerManager
  OBVIOUS
<1>13. /\ k \in 0 .. NumRecords /\ k < count /\ count' = k
       /\ \A q \in Records : ManagerFor(q) = m => k <= q
       /\ \A q \in Records : k <= q /\ q < count => ManagerFor(q) = m
  <2>1. c.seen - 1 \in Nat /\ count - 1 = c.seen - 1 /\ count \in Nat
    BY <1>2, <1>4, RecordFacts
  <2>2. k \in 0 .. NumRecords /\ k <= c.seen - 1
    BY <2>1, <1>4, <1>m, <1>12, ManagerFacts
  <2>3. \A q \in Records : ManagerFor(q) = m => k <= q
    BY <1>12, ManagerFacts, RecordFacts
  <2>4. ASSUME NEW q \in Records, k <= q, q < count
        PROVE  ManagerFor(q) = m
    <3>1. q \in Nat /\ q <= c.seen - 1
      BY <2>1, <2>4, RecordFacts
    <3>2. c.seen - 1 < (m + 1) * RecordsPerManager
      BY <2>1, <1>m, ManagerFacts
    <3>3. PICK n : n = (m + 1) * RecordsPerManager
      OBVIOUS
    <3>4. n \in Int
      <4>1. m + 1 \in Int /\ RecordsPerManager \in Int
        BY <1>4, ManagersTyped, Constants
      <4> QED
        BY <4>1, <3>3
    <3>5. q < n
      BY <2>1, <3>1, <3>2, <3>3, <3>4
    <3>6. m * RecordsPerManager <= q /\ q < (m + 1) * RecordsPerManager
      BY <2>4, <3>3, <3>5, <1>12
    <3> QED
      BY <3>1, <3>6, <1>4, ManagerFacts
  <2> QED
    BY <2>1, <2>2, <2>3, <2>4, <1>1, <1>12
<1>14. \A q \in Records : k <= q /\ q < count => kind[q] = "free" /\ q \notin Taken(m)
  <2> TAKE q \in Records
  <2> HAVE k <= q /\ q < count
  <2>1. q \notin Taken(m)
    BY <1>4, <1>11, Busy
  <2>2. FreePlaces(kind, of) /\ ManagerFor(q) = m
    BY <1>13, PlacesTyped
  <2>3. q \in Taken(m) <=> q < count /\ ManagerFor(q) = m /\ kind[q] # "free"
    BY <2>2, <1>2, <1>4, TakenIs
  <2> QED
    BY <2>1, <2>2, <2>3
<1>15. FreePlaces(kind, of)'
  <2>1. FreePlaces(kind, of) /\ managers' = managers
    BY <1>1, PlacesTyped
  <2>2. \A q \in Records : q \in Nat /\ count \in Nat /\ k \in Nat
    BY <1>2, <1>13, RecordFacts
  <2>3. \A q \in Records : q < count' => kind[q] # "out"
    BY <2>1, <2>2, <1>13 DEF FreePlaces
  <2>4. \A q \in Records : ~(q < count') => kind[q] \in {"out", "free"}
    BY <2>1, <2>2, <1>13, <1>14 DEF FreePlaces
  <2>5. ASSUME NEW q \in Records, ~(q < count'), kind[q] = "free"
        PROVE  \E u \in Threads : ClearOf(call'[u]) = ManagerFor(q)
    <3>1. CASE q < count
      <4>1. ManagerFor(q) = m
        BY <2>2, <2>5, <3>1, <1>13
      <4> QED
        BY <4>1, <1>8, <1>9
    <3>2. CASE ~(q < count)
      <4>1. PICK u \in Threads : ClearOf(call[u]) = ManagerFor(q)
        BY <2>1, <2>5, <3>2 DEF FreePlaces
      <4>2. ManagerFor(q) \in Managers
        BY ManagerFacts
      <4>3. u # t
        BY <4>1, <4>2, <1>8, <1>10
      <4> QED
        BY <4>1, <4>3, <1>9
    <3> QED
      BY <3>1, <3>2
  <2> QED
    BY <2>1, <2>3, <2>4, <2>5 DEF FreePlaces, ClearOf
<1>16. TypeInv'
  <2>1. count' \in 0 .. NumRecords /\ call' \in [Threads -> CallType]
    BY <1>2, <1>5, <1>6, <1>13, MovesTo
  <2> QED
    BY <2>1, <1>1, <1>2 DEF TypeInv
<1>17. ManagerCounts'
  <2>1. \A q \in Managers, x \in Records : x \in Taken(q)' <=> x \in Taken(q)
    <3> TAKE q \in Managers, x \in Records
    <3>1. x \in Taken(q) <=> x < count /\ ManagerFor(x) = q /\ kind[x] # "free"
      BY <1>2, PlacesTyped, TakenIs
    <3>2. x \in Taken(q)' <=> x < count' /\ ManagerFor(x) = q /\ kind[x] # "free"
      BY <1>15, <1>16, TakenThen
    <3>3. x \in Nat /\ count \in Nat /\ k \in Nat
      BY <1>2, <1>13, RecordFacts
    <3> QED
      BY <3>1, <3>2, <3>3, <1>13, <1>14
  <2>2. PICK x \in Records : TRUE
    BY RecordFacts
  <2>3. \A q \in Managers : managers'[q].active =
           managers[q].active + Bit(TransientOf(d) = q) - Bit(TransientOf(c) = q)
                              + Bit(x \in Taken(q)') - Bit(x \in Taken(q))
    <3> TAKE q \in Managers
    <3>1. managers'[q].active = managers[q].active /\ managers[q].active \in Nat
      BY <1>1, ManagersTyped
    <3>2. Bit(TransientOf(d) = q) = 0 /\ Bit(TransientOf(c) = q) = 0
      BY <1>8, <1>10 DEF Bit
    <3>3. PICK b \in {0, 1} : b = Bit(x \in Taken(q))
      BY DEF Bit
    <3>4. Bit(x \in Taken(q)') = b
      BY <2>1, <3>3 DEF Bit
    <3> QED
      BY <3>1, <3>2, <3>3, <3>4
  <2>4. \A q \in Managers, y \in Records : y # x => (y \in Taken(q)' <=> y \in Taken(q))
    BY <2>1
  <2> QED
    BY <2>3, <2>4, <1>9, <1>16, ManagerCountsPut
<1>18. Trims'
  <2>1. /\ Trims /\ managers' = managers /\ count \in Int /\ k \in Int
        /\ \A u \in Threads : ClearOf(call[u]) # None => TrimOf(call[u]) = ClearOf(call[u])
        /\ \A u \in Threads : TrimOf(call[u]) # None => TrimOf(call[u]) \in Managers
    BY <1>1, <1>2, <1>13, TrimsStart
  <2>2. \A q \in Managers : managers'[q].trimming => managers'[q].active = 0
    BY <2>1 DEF Trims
  <2>3. \A u \in Threads : TrimOf(call'[u]) = TrimOf(call[u])
    BY <1>8, <1>9
  <2>4. \A u \in Threads : TrimOf(call'[u]) # None => managers'[TrimOf(call'[u])].trimming
    BY <2>1, <2>3 DEF Trims
  <2>5. \A u, v \in Threads : u # v /\ TrimOf(call'[u]) # None => TrimOf(call'[u]) # TrimOf(call'[v])
    BY <2>1, <2>3 DEF Trims
  <2>6. ASSUME NEW u \in Threads, ClearOf(call'[u]) # None
        PROVE  count' <= ClearOf(call'[u]) * RecordsPerManager
    <3>1. CASE u = t
      BY <2>1, <3>1, <1>8, <1>9, <1>12, <1>13
    <3>2. CASE u # t
      <4>1. ClearOf(call'[u]) = ClearOf(call[u])
        BY <3>2, <1>9
      <4>2. count <= ClearOf(call[u]) * RecordsPerManager /\ ClearOf(call[u]) \in Managers
        BY <4>1, <2>1, <2>6 DEF Trims
      <4>3. PICK n : n = ClearOf(call[u]) * RecordsPerManager
        OBVIOUS
      <4>4. n \in Int
        BY <4>2, <4>3, ManagerFacts
      <4> QED
        BY <2>1, <4>1, <4>2, <4>3, <4>4, <1>13
    <3> QED
      BY <3>1, <3>2
  <2> QED
    BY <2>2, <2>4, <2>5, <2>6 DEF Trims, TrimOf, ClearOf
<1> QED
  <2>1. Freeing(kind, kind)
    BY PlacesTyped DEF Freeing
  <2>2. /\ managers' \in [Managers -> [free : Seq(Records), active : Nat, trimming : BOOLEAN]]
        /\ UNCHANGED <<frontier, header, record, pending, bins, reclaiming, held, late, arena>>
    BY <1>1, ManagersTyped
  <2>3. count' \in 0 .. NumRecords /\ count' <= count
    BY <1>2, <1>13
  <2>4. d.pc # "frontAdvance"
    BY <1>6
  <2> QED
    BY <2>1, <2>2, <2>3, <2>4, <1>3, <1>5, <1>7, <1>8, <1>15, <1>17, <1>18, TrimmerMoves

LEMMA TrimClearStep ==
    ASSUME NEW kind, NEW of, IInv(kind, of), NEW t \in Threads, TrimClear(t)
    PROVE  Inv'
<1> DEFINE c == call[t]
<1>m. PICK m : m = c.manager
  OBVIOUS
<1>e. PICK e : e = [c EXCEPT !.manager = 0]
  OBVIOUS
<1>d. PICK d : d = Trimming(e)
  OBVIOUS
<1>1. /\ c.pc = "trimClear" /\ managers' = [managers EXCEPT ![m].free = <<>>, ![m].trimming = FALSE]
      /\ call' = [call EXCEPT ![t] = d]
      /\ UNCHANGED <<frontier, count, header, record, pending, bins, reclaiming, held, late, arena>>
  BY <1>m, <1>e, <1>d, QuietStart DEF TrimClear, TypeInv
<1>2. c \in CallType /\ ShapeOf(c) /\ PlaceOf(c) /\ TypeInv /\ count \in 0 .. NumRecords
  BY QuietStart
<1>3. Trimmer(c)
  BY <1>1 DEF Trimmer
<1>4. m \in Managers /\ Rested(c)
  BY <1>1, <1>2, <1>3, <1>m, TrimmerFacts
<1>5. /\ Rested(e) /\ e.reserved = c.reserved /\ e.list = c.list /\ e.batch = c.batch
      /\ e.stolen = c.stolen /\ e.window = c.window
  <2>1. /\ e \in CallType /\ e.md = c.md /\ e.stage = c.stage /\ e.back = c.back
        /\ e.reserved = c.reserved /\ e.list = c.list /\ e.batch = c.batch
        /\ e.stolen = c.stolen /\ e.window = c.window
    BY <1>2, <1>e DEF CallType
  <2> QED
    BY <2>1, <1>4 DEF Rested, Resting
<1>6. Well(d) /\ Quiet(d) /\ Keeps(e, d) /\ d.pc # "frontAdvance"
  BY <1>2, <1>5, <1>d, TrimmingFacts
<1>7. Keeps(c, d) /\ TrimOf(d) = None /\ ClearOf(d) = None /\ TransientOf(d) = None
  <2>1. Keeps(c, d)
    BY <1>5, <1>6 DEF Keeps
  <2> QED
    BY <2>1, <1>6, QuietFacts DEF Well
<1>8. TrimOf(c) = m /\ ClearOf(c) = m /\ TransientOf(c) = None
  BY <1>1, <1>m DEF TrimOf, ClearOf, TransientOf
<1>9. /\ managers \in [Managers -> [free : Seq(Records), active : Nat, trimming : BOOLEAN]]
      /\ \A q \in Managers : q # None /\ managers[q].active \in Nat
  BY ManagersTyped
<1>10. /\ managers' \in [Managers -> [free : Seq(Records), active : Nat, trimming : BOOLEAN]]
       /\ \A q \in Managers : /\ managers'[q].free = IF q = m THEN <<>> ELSE managers[q].free
                              /\ managers'[q].active = managers[q].active
                              /\ managers'[q].trimming <=> q # m /\ managers[q].trimming
  <2>1. PICK none \in Seq(Records) : none = <<>>
    <3>1. <<>> \in Seq(Records)
      BY EmptySeq
    <3> QED
      BY <3>1
  <2>2. managers' = [managers EXCEPT ![m].free = none, ![m].trimming = FALSE]
    BY <1>1, <2>1
  <2>3. /\ managers' \in [Managers -> [free : Seq(Records), active : Nat, trimming : BOOLEAN]]
        /\ \A q \in Managers : /\ managers'[q].free = IF q = m THEN none ELSE managers[q].free
                               /\ managers'[q].active = managers[q].active
                               /\ managers'[q].trimming <=> q # m /\ managers[q].trimming
    BY <2>2, <1>4, <1>9
  <2> QED
    BY <2>1, <2>3
<1>11. Moves(t, d) /\ \A u \in Threads : call'[u] = IF u = t THEN d ELSE call[u]
  <2>1. Moves(t, d)
    BY <1>1, <1>2, <1>6, MovesTo DEF Well
  <2> QED
    BY <2>1 DEF Moves
<1>n. PICK new : new = [q \in Records |-> IF kind[q] = "free" /\ of[q] = m THEN "out" ELSE kind[q]]
  OBVIOUS
<1>12. \A q \in Records : new[q] = IF kind[q] = "free" /\ of[q] = m THEN "out" ELSE kind[q]
  BY <1>n
<1>13. Freeing(kind, new)
  <2>1. new \in [Records -> Kinds]
    BY <1>n, PlacesTyped DEF Kinds, ListKinds
  <2> QED
    BY <2>1, <1>12 DEF Freeing
<1>14. FreePlaces(kind, of)
  BY PlacesTyped
<1>15. \A q \in Records : kind[q] = "free" /\ of[q] = m => ~(q < count)
  <2> TAKE q \in Records
  <2> HAVE kind[q] = "free" /\ of[q] = m
  <2>1. ManagerFor(q) = m /\ q \in Nat /\ count \in Nat
    BY <1>2, <1>14, RecordFacts DEF FreePlaces
  <2>2. PICK k : k = m * RecordsPerManager
    OBVIOUS
  <2>3. k \in 0 .. NumRecords /\ k <= q
    BY <2>1, <2>2, <1>4, ManagerFacts
  <2>4. count <= k
    BY <2>2, <1>4, <1>8, <1>9, TrimsStart DEF Trims
  <2> QED
    BY <2>1, <2>3, <2>4
<1>16. FreePlaces(new, of)'
  <2>1. \A q \in Managers : IsInjective(managers'[q].free)
    BY <1>10, <1>14, EmptyRange DEF FreePlaces
  <2>2. \A q \in Managers, r \in Records : r \in Range(managers'[q].free) <=> In(new, of, r, "free", q)
    <3> TAKE q \in Managers, r \in Records
    <3>1. CASE q = m
      <4>1. managers'[q].free = <<>>
        BY <3>1, <1>10
      <4>2. ~In(new, of, r, "free", q)
        BY <3>1, <1>12 DEF In
      <4> QED
        BY <4>1, <4>2, EmptyRange
    <3>2. CASE q # m
      <4>1. managers'[q].free = managers[q].free
        BY <3>2, <1>10
      <4>2. In(new, of, r, "free", q) <=> In(kind, of, r, "free", q)
        BY <3>2, <1>12 DEF In
      <4> QED
        BY <4>1, <4>2, <1>14 DEF FreePlaces
    <3> QED
      BY <3>1, <3>2
  <2>3. \A r \in Records : new[r] = "free" => kind[r] = "free" /\ of[r] # m
    BY <1>12
  <2>4. \A r \in Records : new[r] = "free" => of[r] = ManagerFor(r)
    BY <2>3, <1>14 DEF FreePlaces
  <2>5. count' = count
    BY <1>1
  <2>6. \A r \in Records : r < count' => new[r] # "out"
    BY <2>5, <1>12, <1>14, <1>15 DEF FreePlaces
  <2>7. \A r \in Records : ~(r < count') => new[r] \in {"out", "free"}
    BY <2>5, <1>12, <1>14 DEF FreePlaces
  <2>8. ASSUME NEW r \in Records, ~(r < count'), new[r] = "free"
        PROVE  \E u \in Threads : ClearOf(call'[u]) = ManagerFor(r)
    <3>1. kind[r] = "free" /\ of[r] # m /\ of[r] = ManagerFor(r) /\ ~(r < count)
      BY <2>3, <2>4, <2>5, <2>8
    <3>2. PICK u \in Threads : ClearOf(call[u]) = ManagerFor(r)
      BY <3>1, <1>14 DEF FreePlaces
    <3>3. u # t
      BY <3>1, <3>2, <1>8
    <3> QED
      BY <3>2, <3>3, <1>11
  <2> QED
    BY <2>1, <2>2, <2>4, <2>6, <2>7, <2>8 DEF FreePlaces, ClearOf
<1>17. TypeInv'
  <2>1. call' \in [Threads -> CallType]
    BY <1>1, <1>2, <1>6, MovesTo DEF Well
  <2> QED
    BY <2>1, <1>1, <1>2, <1>10 DEF TypeInv
<1>18. ManagerCounts'
  <2>1. \A q \in Managers, x \in Records : x \in Taken(q)' <=> x \in Taken(q)
    <3> TAKE q \in Managers, x \in Records
    <3>1. x \in Taken(q) <=> x < count /\ ManagerFor(x) = q /\ kind[x] # "free"
      BY <1>2, <1>14, TakenIs
    <3>2. x \in Taken(q)' <=> x < count' /\ ManagerFor(x) = q /\ new[x] # "free"
      BY <1>16, <1>17, TakenThen
    <3>3. count' = count
      BY <1>1
    <3> QED
      BY <3>1, <3>2, <3>3, <1>12, <1>15
  <2>2. PICK x \in Records : TRUE
    BY RecordFacts
  <2>3. \A q \in Managers : managers'[q].active =
           managers[q].active + Bit(TransientOf(d) = q) - Bit(TransientOf(c) = q)
                              + Bit(x \in Taken(q)') - Bit(x \in Taken(q))
    <3> TAKE q \in Managers
    <3>1. managers'[q].active = managers[q].active /\ managers[q].active \in Nat
      BY <1>9, <1>10
    <3>2. Bit(TransientOf(d) = q) = 0 /\ Bit(TransientOf(c) = q) = 0
      BY <1>7, <1>8, <1>9 DEF Bit
    <3>3. PICK b \in {0, 1} : b = Bit(x \in Taken(q))
      BY DEF Bit
    <3>4. Bit(x \in Taken(q)') = b
      BY <2>1, <3>3 DEF Bit
    <3> QED
      BY <3>1, <3>2, <3>3, <3>4
  <2>4. \A q \in Managers, y \in Records : y # x => (y \in Taken(q)' <=> y \in Taken(q))
    BY <2>1
  <2> QED
    BY <2>3, <2>4, <1>11, <1>17, ManagerCountsPut
<1>19. Trims'
  <2>1. count' = count /\ \A q \in Managers : /\ managers'[q].active = managers[q].active
                                              /\ managers'[q].trimming <=> q # m /\ managers[q].trimming
    BY <1>1, <1>10
  <2> QED
    BY <2>1, <1>4, <1>7, <1>8, <1>11, TrimsDone
<1>20. IInv(new, of)'
  <2>1. count' \in 0 .. NumRecords /\ count' <= count
    BY <1>1, <1>2
  <2>2. UNCHANGED <<frontier, header, record, pending, bins, reclaiming, held, late, arena>>
    BY <1>1
  <2> QED
    BY <2>1, <2>2, <1>1, <1>3, <1>6, <1>7, <1>10, <1>13, <1>16, <1>18, <1>19, TrimmerMoves
<1> QED
  BY <1>20 DEF Inv

-----------------------------------------------------------------------------
(* The first state.                                                        *)

LEMMA IdleThread ==
    /\ Idle.pc = "idle" /\ Idle.md = None /\ Idle.reserved = None /\ Idle.list = <<>>
    /\ Idle.batch = <<>> /\ Idle.stolen = 0
    /\ MdOf(Idle) = None /\ SeenOf(Idle) = None /\ ClearOf(Idle) = None /\ TransientOf(Idle) = None
    /\ TrimOf(Idle) = None /\ RollOf(Idle) = None /\ ~Fresh(Idle) /\ ~Advanced(Idle) /\ ~HasLocked(Idle)
<1>1. /\ Idle.pc = "idle" /\ Idle.md = None /\ Idle.reserved = None /\ Idle.list = <<>>
      /\ Idle.batch = <<>> /\ Idle.stolen = 0
  BY DEF Idle
<1> QED
  BY <1>1 DEF MdOf, SeenOf, ClearOf, TransientOf, TrimOf, RollOf, Fresh, Advanced, HasLocked

LEMMA FirstTypes ==
    ASSUME Init
    PROVE  TypeInv /\ Control
<1>1. /\ arena \in Scenarios /\ arena.start \in Blocks /\ 0 \in Blocks /\ arena.start \in Nat
      /\ arena.calls \in [Threads -> Nat]
  BY Constants, BlockFacts DEF Init
<1>2. arena \in [start : Blocks, calls : [Threads -> Nat]]
  BY <1>1, Constants
<1>3. frontier \in Words /\ frontier.at <= arena.start
  BY <1>1 DEF Init, Words, MaybeBlock
<1>4. PICK none \in Seq(Records) : none = <<>>
  <2>1. <<>> \in Seq(Records)
    BY EmptySeq
  <2> QED
    BY <2>1
<1>5. /\ managers \in [Managers -> [free : Seq(Records), active : Nat, trimming : BOOLEAN]]
      /\ pending \in [Shards -> [list : Seq(Records), count : Nat, open : BOOLEAN]]
      /\ bins \in [Bins -> [Slots -> Seq(Records)]]
  BY <1>4 DEF Init
<1>6. header \in [Blocks -> HeaderType]
  BY RecordFacts DEF Init, HeaderType, MaybeBlock
<1>7. record \in [Records -> RecordType]
  <2>1. 0 \in 0 .. VersionLimit - 1
    <3>1. VersionLimit \in Nat /\ VersionLimit > Cardinality(Upcoming(arena.calls))
      BY <1>1, Constants
    <3>2. Cardinality(Upcoming(arena.calls)) \in Nat
      BY <1>1, UpcomingFacts
    <3> QED
      BY <3>1, <3>2
  <2> QED
    BY <2>1, SlotFacts DEF Init, RecordType, MaybeBlock, States
<1>8. call \in [Threads -> CallType]
  BY IdleFacts DEF Init
<1>9. count \in 0 .. NumRecords /\ reclaiming \in BOOLEAN /\ held \subseteq Blocks
  <2>1. 0 \in 0 .. NumRecords
    BY Zeros
  <2> QED
    BY <2>1 DEF Init
<1>10. Control
  <2>1. \A t \in Threads : call[t] = Idle
    BY DEF Init
  <2> QED
    BY <2>1, IdleFacts, IdleThread DEF Control, Room, Well
<1> QED
  BY <1>2, <1>3, <1>5, <1>6, <1>7, <1>8, <1>9, <1>10 DEF TypeInv

LEMMA FirstPlaces ==
    ASSUME Init, NEW kind, kind = [r \in Records |-> "out"], NEW of
    PROVE  Places(kind, of) /\ StatesAt(kind, of)
<1>1. \A r \in Records : kind[r] = "out"
  OBVIOUS
<1>2. kind \in [Records -> Kinds]
  BY DEF Kinds, ListKinds
<1>3. Range(<<>>) = {} /\ IsInjective(<<>>) /\ \A r \in Records : r # None /\ ~(r < 0)
  BY EmptyRange, RecordFacts
<1>4. /\ \A m \in Managers : managers[m].free = <<>>
      /\ \A s \in Shards : pending[s].list = <<>>
      /\ \A b \in Bins, k \in Slots : bins[b][k] = <<>>
      /\ \A t \in Threads : call[t] = Idle
      /\ count = 0 /\ held = {}
      /\ \A r \in Records : record[r].state = "invalid"
  BY DEF Init
<1>5. FreePlaces(kind, of)
  BY <1>1, <1>3, <1>4 DEF FreePlaces, In
<1>6. SharedPlaces(kind, of)
  BY <1>1, <1>3, <1>4 DEF SharedPlaces, In
<1>7. ThreadPlaces(kind, of)
  BY <1>1, <1>3, <1>4, IdleThread DEF ThreadPlaces, In
<1>8. StatesAt(kind, of)
  BY <1>1, <1>4 DEF StatesAt, Unused
<1> QED
  BY <1>2, <1>5, <1>6, <1>7, <1>8 DEF Places

LEMMA FirstTiles ==
    ASSUME Init, NEW kind
    PROVE  Tiling(kind) /\ Described /\ Rolling /\ LateFrees
<1>1. /\ \A t \in Threads : call[t] = Idle
      /\ frontier.at = 0 /\ frontier.pred = None /\ late = {}
      /\ \A r \in Records : record[r].state = "invalid"
  BY DEF Init
<1>2. \A r \in Records : ~Describes(r)
  BY <1>1 DEF Describes, Active
<1>3. PICK End, Pred : End = [b \in Blocks |-> 0] /\ Pred = [b \in Blocks |-> None]
  OBVIOUS
<1>4. Owners({}, <<>>, {}, <<>>)
  BY <1>1, <1>2, IdleThread DEF Owners
<1>5. Extents({}, <<>>, {}, <<>>, End, Pred)
  BY <1>3 DEF Extents, MaybeBlock
<1>6. Cut({} \cup {}, End, Pred)
  BY <1>1 DEF Cut, Ends
<1>7. Middle(kind, {}, {}, <<>>, End)
  BY DEF Middle
<1>8. Tiled(kind, {}, <<>>, {}, <<>>, End, Pred)
  BY <1>4, <1>5, <1>6, <1>7 DEF Tiled
<1>9. Tiling(kind)
  BY <1>8 DEF Tiling
<1>10. Described /\ Rolling /\ LateFrees
  BY <1>1, IdleThread DEF Described, Rolling, LateFrees, Unused
<1> QED
  BY <1>9, <1>10

LEMMA FirstCounts ==
    ASSUME Init
    PROVE  ManagerCounts /\ Trims /\ PendingCounts /\ Versions
<1>1. /\ \A t \in Threads : call[t] = Idle
      /\ \A m \in Managers : managers[m].free = <<>> /\ managers[m].active = 0 /\ ~managers[m].trimming
      /\ \A s \in Shards : pending[s].list = <<>> /\ pending[s].count = 0
      /\ \A r \in Records : record[r].version = 0
      /\ count = 0
  BY DEF Init
<1>2. Cardinality({}) = 0
  BY FS_EmptySet
<1>3. ManagerCounts
  <2> SUFFICES ASSUME NEW m \in Managers PROVE managers[m].active = Cardinality(Waiting(m)) + Cardinality(Taken(m))
    BY DEF ManagerCounts
  <2>1. m # None
    BY Constants DEF Managers, None
  <2>2. Waiting(m) = {}
    BY <2>1, <1>1, IdleThread DEF Waiting
  <2>3. Taken(m) = {}
    BY <1>1 DEF Taken
  <2> QED
    BY <2>2, <2>3, <1>1, <1>2
<1>4. Trims
  BY <1>1, IdleThread DEF Trims
<1>5. PendingCounts
  <2> SUFFICES ASSUME NEW s \in Shards
               PROVE  pending[s].count = Len(pending[s].list) + Cardinality(Stolen(s)) + Cardinality(Pushing(s))
    BY DEF PendingCounts
  <2>1. Stolen(s) = {}
    <3>1. \A t \in Threads : call[t].stolen = 0
      BY <1>1, IdleThread
    <3> QED
      BY <3>1 DEF Stolen
  <2>2. Pushing(s) = {}
    BY <1>1, IdleThread DEF Pushing
  <2>3. Len(<<>>) = 0
    BY EmptyRange
  <2> QED
    BY <2>1, <2>2, <2>3, <1>1, <1>2
<1>6. Versions
  <2>1. Locking = {}
    BY <1>1, IdleThread DEF Locking
  <2>2. arena \in Scenarios
    BY DEF Init
  <2>3. VersionLimit \in Nat /\ VersionLimit > Cardinality(Upcoming(arena.calls)) /\ arena.calls \in [Threads -> Nat]
    BY <2>2, Constants
  <2>4. Cardinality(Upcoming(arena.calls)) \in Nat
    BY <2>3, UpcomingFacts
  <2> QED
    BY <2>1, <2>3, <2>4, <1>1, <1>2 DEF Versions
<1> QED
  BY <1>3, <1>4, <1>5, <1>6

LEMMA FirstInv ==
    ASSUME Init
    PROVE  Inv
<1>1. PICK kind : kind = [r \in Records |-> "out"]
  OBVIOUS
<1>2. IInv(kind, kind)
  BY <1>1, FirstTypes, FirstPlaces, FirstTiles, FirstCounts DEF IInv
<1> QED
  BY <1>2 DEF Inv

-----------------------------------------------------------------------------
(* Every step keeps the invariant.                                         *)

LEMMA AllocatingKeeps ==
    ASSUME NEW kind, NEW of, IInv(kind, of), NEW t \in Threads,
           SearchPop(t) \/ Claim(t) \/ Finish(t) \/ Recycle(t) \/ Release(t) \/ Reserve(t)
           \/ PopRecord(t)
    PROVE  Inv'
<1>1. CASE SearchPop(t)
  <2>1. arena' = arena
    BY <1>1 DEF SearchPop
  <2>2. CASE bins[call[t].bin][SlotAt(call[t].slot, call[t].shard)] = <<>>
    <3>1. IInv(kind, of)'
      BY <1>1, <2>2, <2>1, SearchMisses
    <3> QED
      BY <3>1 DEF Inv
  <2>3. CASE ~(bins[call[t].bin][SlotAt(call[t].slot, call[t].shard)] = <<>>)
    BY <1>1, <2>3, SearchTakes
  <2> QED
    BY <2>2, <2>3
<1>2. CASE Claim(t)
  BY <1>2, ClaimStep
<1>3. CASE Finish(t)
  BY <1>3, FinishStep
<1>4. CASE Recycle(t)
  BY <1>4, RecycleStep
<1>5. CASE Release(t)
  <2>1. IInv(kind, of)'
    BY <1>5, ReleaseStep
  <2> QED
    BY <2>1 DEF Inv
<1>6. CASE Reserve(t)
  <2>1. IInv(kind, of)'
    BY <1>6, ReserveStep
  <2> QED
    BY <2>1 DEF Inv
<1>7. CASE PopRecord(t)
  <2>1. CASE managers[call[t].manager].free = <<>>
    <3>1. IInv(kind, of)'
      BY <1>7, <2>1, PopMisses
    <3> QED
      BY <3>1 DEF Inv
  <2>2. CASE ~(managers[call[t].manager].free = <<>>)
    BY <1>7, <2>2, PopTakes
  <2> QED
    BY <2>1, <2>2
<1> QED
  BY <1>1, <1>2, <1>3, <1>4, <1>5, <1>6, <1>7

LEMMA GrowingKeeps ==
    ASSUME NEW kind, NEW of, IInv(kind, of), NEW t \in Threads,
           GrowReserve(t) \/ GrowCheck(t) \/ Grow(t) \/ GrowRecheck(t) \/ GrowUndo(t)
    PROVE  Inv'
<1>1. CASE GrowReserve(t)
  <2>1. IInv(kind, of)'
    BY <1>1, GrowReserveStep
  <2> QED
    BY <2>1 DEF Inv
<1>2. CASE GrowCheck(t)
  <2>1. IInv(kind, of)'
    BY <1>2, GrowCheckStep
  <2> QED
    BY <2>1 DEF Inv
<1>3. CASE Grow(t)
  <2>1. CASE count = call[t].seen
    BY <1>3, <2>1, GrowTakes
  <2>2. CASE ~(count = call[t].seen)
    <3>1. IInv(kind, of)'
      BY <1>3, <2>2, GrowMisses
    <3> QED
      BY <3>1 DEF Inv
  <2> QED
    BY <2>1, <2>2
<1>4. CASE GrowRecheck(t)
  <2>1. CASE NoRoomFor(call[t].seen)
    <3>1. IInv(kind, of)'
      BY <1>4, <2>1, GrowRecheckFails
    <3> QED
      BY <3>1 DEF Inv
  <2>2. CASE ~(NoRoomFor(call[t].seen))
    BY <1>4, <2>2, GrowRecheckTakes
  <2> QED
    BY <2>1, <2>2
<1>5. CASE GrowUndo(t)
  <2>1. CASE count = call[t].seen + 1
    BY <1>5, <2>1, GrowUndoTakes
  <2>2. CASE ~(count = call[t].seen + 1)
    <3>1. IInv(kind, of)'
      BY <1>5, <2>2, GrowUndoFails
    <3> QED
      BY <3>1 DEF Inv
  <2> QED
    BY <2>1, <2>2
<1> QED
  BY <1>1, <1>2, <1>3, <1>4, <1>5

LEMMA FrontierKeeps ==
    ASSUME NEW kind, NEW of, IInv(kind, of), NEW t \in Threads,
           FrontLook(t) \/ FrontAdvance(t) \/ FrontRecheck(t) \/ FrontUndo(t)
    PROVE  Inv'
<1>1. CASE FrontLook(t)
  <2>1. IInv(kind, of)'
    BY <1>1, FrontLookStep
  <2> QED
    BY <2>1 DEF Inv
<1>2. CASE FrontAdvance(t)
  <2>1. CASE frontier = call[t].word
    <3>1. IInv(kind, of)'
      BY <1>2, <2>1, FrontAdvances
    <3> QED
      BY <3>1 DEF Inv
  <2>2. CASE ~(frontier = call[t].word)
    <3>1. IInv(kind, of)'
      BY <1>2, <2>2, FrontMisses
    <3> QED
      BY <3>1 DEF Inv
  <2> QED
    BY <2>1, <2>2
<1>3. CASE FrontRecheck(t)
  <2>1. CASE OverlapsMetadata(NextFrontier(call[t]))
    <3>1. IInv(kind, of)'
      BY <1>3, <2>1, FrontRecheckDoubts
    <3> QED
      BY <3>1 DEF Inv
  <2>2. CASE ~(OverlapsMetadata(NextFrontier(call[t])))
    <3>1. IInv(kind, of)'
      BY <1>3, <2>2, FrontKeeps
    <3> QED
      BY <3>1 DEF Inv
  <2> QED
    BY <2>1, <2>2
<1>4. CASE FrontUndo(t)
  <2>1. CASE frontier = [at |-> NextFrontier(call[t]), pred |-> call[t].word.at]
    <3>1. IInv(kind, of)'
      BY <1>4, <2>1, FrontUndoes
    <3> QED
      BY <3>1 DEF Inv
  <2>2. CASE ~(frontier = [at |-> NextFrontier(call[t]), pred |-> call[t].word.at])
    <3>1. IInv(kind, of)'
      BY <1>4, <2>2, FrontUndoMisses
    <3> QED
      BY <3>1 DEF Inv
  <2> QED
    BY <2>1, <2>2
<1> QED
  BY <1>1, <1>2, <1>3, <1>4

LEMMA FreeingStepsKeep ==
    ASSUME NEW kind, NEW of, IInv(kind, of), NEW t \in Threads,
           Lock(t) \/ CountPending(t) \/ PushPending(t)
    PROVE  Inv'
<1>1. CASE Lock(t)
  <2>1. CASE Word(call[t].walk) = call[t].expected
    BY <1>1, <2>1, LockWins
  <2>2. CASE ~(Word(call[t].walk) = call[t].expected)
    <3>1. IInv(kind, of)'
      BY <1>1, <2>2, LockLoses
    <3> QED
      BY <3>1 DEF Inv
  <2> QED
    BY <2>1, <2>2
<1>2. CASE CountPending(t)
  <2>1. IInv(kind, of)'
    BY <1>2, CountPendingStep
  <2> QED
    BY <2>1 DEF Inv
<1>3. CASE PushPending(t)
  BY <1>3, PushPendingStep
<1> QED
  BY <1>1, <1>2, <1>3

LEMMA WindowKeeps ==
    ASSUME NEW kind, NEW of, IInv(kind, of), NEW t \in Threads,
           OpenWindow(t) \/ Steal(t) \/ ReclaimBatch(t) \/ BatchScan(t) \/ BatchRoll(t)
           \/ Publish(t) \/ PushFree(t) \/ ReducePending(t)
    PROVE  Inv'
<1>1. CASE OpenWindow(t)
  <2>1. IInv(kind, of)'
    BY <1>1, OpenWindowStep
  <2> QED
    BY <2>1 DEF Inv
<1>2. CASE Steal(t)
  <2>1. CASE pending[call[t].window].list = <<>>
    <3>1. IInv(kind, of)'
      BY <1>2, <2>1, StealMisses
    <3> QED
      BY <3>1 DEF Inv
  <2>2. CASE ~(pending[call[t].window].list = <<>>)
    BY <1>2, <2>2, StealTakes
  <2> QED
    BY <2>1, <2>2
<1>3. CASE ReclaimBatch(t)
  <2>1. IInv(kind, of)'
    BY <1>3, ReclaimBatchStep
  <2> QED
    BY <2>1 DEF Inv
<1>4. CASE BatchScan(t)
  BY <1>4, BatchScanStep
<1>5. CASE BatchRoll(t)
  <2>1. CASE frontier = call[t].word
    BY <1>5, <2>1, BatchRolls
  <2>2. CASE ~(frontier = call[t].word)
    <3>1. IInv(kind, of)'
      BY <1>5, <2>2, BatchRollMisses
    <3> QED
      BY <3>1 DEF Inv
  <2> QED
    BY <2>1, <2>2
<1>6. CASE Publish(t)
  <2>1. IInv(kind, of)'
    BY <1>6, PublishStep
  <2> QED
    BY <2>1 DEF Inv
<1>7. CASE PushFree(t)
  BY <1>7, PushFreeStep
<1>8. CASE ReducePending(t)
  <2>1. IInv(kind, of)'
    BY <1>8, ReducePendingStep
  <2> QED
    BY <2>1 DEF Inv
<1> QED
  BY <1>1, <1>2, <1>3, <1>4, <1>5, <1>6, <1>7, <1>8

LEMMA WalkKeeps ==
    ASSUME NEW kind, NEW of, IInv(kind, of), NEW t \in Threads,
           Reclaim(t) \/ Walk(t) \/ WalkLook(t) \/ WalkClaim(t) \/ WalkRoll(t)
           \/ WalkMark(t) \/ WalkEnd(t)
    PROVE  Inv'
<1>1. CASE Reclaim(t)
  <2>1. IInv(kind, of)'
    BY <1>1, ReclaimStep
  <2> QED
    BY <2>1 DEF Inv
<1>2. CASE Walk(t)
  <2>1. IInv(kind, of)'
    BY <1>2, WalkStep
  <2> QED
    BY <2>1 DEF Inv
<1>3. CASE WalkLook(t)
  <2>1. IInv(kind, of)'
    BY <1>3, WalkLookStep
  <2> QED
    BY <2>1 DEF Inv
<1>4. CASE WalkClaim(t)
  <2>1. CASE Word(call[t].walk) = call[t].expected
    <3>1. IInv(kind, of)'
      BY <1>4, <2>1, WalkClaims
    <3> QED
      BY <3>1 DEF Inv
  <2>2. CASE ~(Word(call[t].walk) = call[t].expected)
    <3>1. IInv(kind, of)'
      BY <1>4, <2>2, WalkClaimMisses
    <3> QED
      BY <3>1 DEF Inv
  <2> QED
    BY <2>1, <2>2
<1>5. CASE WalkRoll(t)
  <2>1. CASE frontier = call[t].word
    <3>1. IInv(kind, of)'
      BY <1>5, <2>1, WalkRolls
    <3> QED
      BY <3>1 DEF Inv
  <2>2. CASE ~(frontier = call[t].word)
    <3>1. IInv(kind, of)'
      BY <1>5, <2>2, WalkRollMisses
    <3> QED
      BY <3>1 DEF Inv
  <2> QED
    BY <2>1, <2>2
<1>6. CASE WalkMark(t)
  <2>1. IInv(kind, of)'
    BY <1>6, WalkMarkStep
  <2> QED
    BY <2>1 DEF Inv
<1>7. CASE WalkEnd(t)
  <2>1. IInv(kind, of)'
    BY <1>7, WalkEndStep
  <2> QED
    BY <2>1 DEF Inv
<1> QED
  BY <1>1, <1>2, <1>3, <1>4, <1>5, <1>6, <1>7

LEMMA TrimKeeps ==
    ASSUME NEW kind, NEW of, IInv(kind, of), NEW t \in Threads,
           TrimClaim(t) \/ TrimShrink(t) \/ TrimClear(t) \/ Close(t)
    PROVE  Inv'
<1>1. CASE TrimClaim(t)
  <2>1. PICK m : m = ManagerFor(call[t].seen - 1)
    OBVIOUS
  <2>2. CASE managers[m].active = 0 /\ ~managers[m].trimming
    <3>1. IInv(kind, of)'
      BY <1>1, <2>1, <2>2, TrimClaimTakes
    <3> QED
      BY <3>1 DEF Inv
  <2>3. CASE ~(managers[m].active = 0 /\ ~managers[m].trimming)
    <3>1. managers' = managers /\ call' = [call EXCEPT ![t] = WindowEnds(call[t])]
      BY <1>1, <2>1, <2>3 DEF TrimClaim
    <3>2. IInv(kind, of)'
      BY <1>1, <3>1, TrimClaimMisses
    <3> QED
      BY <3>2 DEF Inv
  <2> QED
    BY <2>2, <2>3
<1>2. CASE TrimShrink(t)
  <2>1. CASE count = call[t].seen
    <3>1. IInv(kind, of)'
      BY <1>2, <2>1, TrimShrinkTakes
    <3> QED
      BY <3>1 DEF Inv
  <2>2. CASE ~(count = call[t].seen)
    <3>1. IInv(kind, of)'
      BY <1>2, <2>2, TrimShrinkFails
    <3> QED
      BY <3>1 DEF Inv
  <2> QED
    BY <2>1, <2>2
<1>3. CASE TrimClear(t)
  BY <1>3, TrimClearStep
<1>4. CASE Close(t)
  <2>1. IInv(kind, of)'
    BY <1>4, CloseStep
  <2> QED
    BY <2>1 DEF Inv
<1> QED
  BY <1>1, <1>2, <1>3, <1>4

LEMMA BeginKeeps ==
    ASSUME NEW kind, NEW of, IInv(kind, of), NEW t \in Threads, Begin(t)
    PROVE  Inv'
<1>1. TypeInv /\ arena.calls[t] > 0 /\ arena' = [arena EXCEPT !.calls[t] = @ - 1]
  BY QuietStart DEF Begin
<1>2. CASE \E bytes \in RequestSizes, s \in Shards : Allocate(t, bytes, s)
  <2>1. PICK bytes \in RequestSizes, s \in Shards : Allocate(t, bytes, s)
    BY <1>2
  <2>2. Fewer
    BY <1>1, FewerOne
  <2>3. IInv(kind, of)'
    BY <2>1, <2>2, AllocateStep
  <2> QED
    BY <2>3 DEF Inv
<1>3. CASE \E b \in held : Deallocate(t, b)
  <2>1. PICK b \in held : Deallocate(t, b)
    BY <1>3
  <2>2. IInv(kind, of)'
    BY <1>1, <2>1, DeallocateStep
  <2> QED
    BY <2>2 DEF Inv
<1> QED
  BY <1>2, <1>3 DEF Begin

LEMMA StepKeeps ==
    ASSUME NEW kind, NEW of, IInv(kind, of), NEW t \in Threads, Step(t)
    PROVE  Inv'
<1>1. CASE SearchPop(t) \/ Claim(t) \/ Finish(t) \/ Recycle(t) \/ Release(t) \/ Reserve(t) \/ PopRecord(t)
  BY <1>1, AllocatingKeeps
<1>2. CASE GrowReserve(t) \/ GrowCheck(t) \/ Grow(t) \/ GrowRecheck(t) \/ GrowUndo(t)
  BY <1>2, GrowingKeeps
<1>3. CASE FrontLook(t) \/ FrontAdvance(t) \/ FrontRecheck(t) \/ FrontUndo(t)
  BY <1>3, FrontierKeeps
<1>4. CASE Lock(t) \/ CountPending(t) \/ PushPending(t)
  BY <1>4, FreeingStepsKeep
<1>5. CASE \/ OpenWindow(t) \/ Steal(t) \/ ReclaimBatch(t) \/ BatchScan(t) \/ BatchRoll(t)
           \/ Publish(t) \/ PushFree(t) \/ ReducePending(t)
  BY <1>5, WindowKeeps
<1>6. CASE Reclaim(t) \/ Walk(t) \/ WalkLook(t) \/ WalkClaim(t) \/ WalkRoll(t) \/ WalkMark(t) \/ WalkEnd(t)
  BY <1>6, WalkKeeps
<1>7. CASE TrimClaim(t) \/ TrimShrink(t) \/ TrimClear(t) \/ Close(t)
  BY <1>7, TrimKeeps
<1> QED
  BY <1>1, <1>2, <1>3, <1>4, <1>5, <1>6, <1>7 DEF Step

LEMMA StutterKeeps ==
    ASSUME NEW kind, NEW of, IInv(kind, of), UNCHANGED vars
    PROVE  Inv'
<1>1. /\ frontier' = frontier /\ count' = count /\ managers' = managers /\ header' = header
      /\ record' = record /\ pending' = pending /\ bins' = bins /\ reclaiming' = reclaiming
      /\ call' = call /\ held' = held /\ late' = late /\ arena' = arena
  BY DEF vars
<1>2. TypeInv' /\ Control'
  <2>1. TypeInv /\ Control
    BY DEF IInv
  <2>2. TypeInv'
    BY <2>1, <1>1 DEF TypeInv
  <2>3. Control'
    BY <2>1, <1>1 DEF Control, Room
  <2> QED
    BY <2>2, <2>3
<1>3. Places(kind, of)'
  <2>1. Places(kind, of)
    BY DEF IInv
  <2>2. FreePlaces(kind, of)'
    BY <2>1, <1>1 DEF Places, FreePlaces, ClearOf
  <2>3. SharedPlaces(kind, of)'
    BY <2>1, <1>1 DEF Places, SharedPlaces
  <2>4. ThreadPlaces(kind, of)'
    BY <2>1, <1>1 DEF Places, ThreadPlaces
  <2> QED
    BY <2>1, <2>2, <2>3, <2>4 DEF Places
<1>4. StatesAt(kind, of)'
  <2>1. StatesAt(kind, of)
    BY DEF IInv
  <2> QED
    BY <2>1, <1>1 DEF StatesAt
<1>5. Described' /\ Rolling' /\ LateFrees'
  <2>1. Described /\ Rolling /\ LateFrees
    BY DEF IInv
  <2>2. Described'
    BY <2>1, <1>1 DEF Described
  <2>3. Rolling'
    BY <2>1, <1>1 DEF Rolling
  <2>4. LateFrees'
    BY <2>1, <1>1 DEF LateFrees, Word
  <2> QED
    BY <2>2, <2>3, <2>4
<1>6. Tiling(kind)'
  <2>1. PICK W, w, H, h, End, Pred : Tiled(kind, W, w, H, h, End, Pred)
    BY DEF IInv, Tiling
  <2>2. \A r \in Records : Describes(r)' <=> Describes(r)
    BY <1>1 DEF Describes
  <2>3. Owners(W, w, H, h)'
    BY <2>1, <2>2, <1>1 DEF Tiled, Owners
  <2>4. Extents(W, w, H, h, End, Pred)'
    BY <2>1, <1>1 DEF Tiled, Extents
  <2>5. Cut(W \cup H, End, Pred)'
    BY <2>1, <1>1 DEF Tiled, Cut
  <2>6. Middle(kind, W, H, h, End)'
    <3>1. \A r : RecordAt(r)' = RecordAt(r)
      BY <1>1 DEF RecordAt
    <3>2. \A b : Settled(W, H, h, b)' <=> Settled(W, H, h, b)
      BY <1>1 DEF Settled
    <3> QED
      BY <2>1, <3>1, <3>2, <1>1 DEF Tiled, Middle
  <2>7. Tiled(kind, W, w, H, h, End, Pred)'
    BY <2>3, <2>4, <2>5, <2>6 DEF Tiled
  <2> QED
    BY <2>7 DEF Tiling
<1>7. ManagerCounts'
  <2>1. \A m : Waiting(m)' = Waiting(m) /\ Taken(m)' = Taken(m)
    BY <1>1 DEF Waiting, Taken
  <2> QED
    BY <2>1, <1>1 DEF IInv, ManagerCounts
<1>8. Trims'
  <2>1. Trims
    BY DEF IInv
  <2> QED
    BY <2>1, <1>1 DEF Trims
<1>9. PendingCounts'
  <2>1. \A s : Stolen(s)' = Stolen(s) /\ Pushing(s)' = Pushing(s)
    BY <1>1 DEF Stolen, Pushing
  <2> QED
    BY <2>1, <1>1 DEF IInv, PendingCounts
<1>10. Versions'
  <2>1. Locking' = Locking
    BY <1>1 DEF Locking
  <2> QED
    BY <2>1, <1>1 DEF IInv, Versions
<1>11. IInv(kind, of)'
  BY <1>2, <1>3, <1>4, <1>5, <1>6, <1>7, <1>8, <1>9, <1>10 DEF IInv
<1> QED
  BY <1>11 DEF Inv

LEMMA NextKeeps ==
    ASSUME Inv, [Next]_vars
    PROVE  Inv'
<1>1. PICK kind, of : IInv(kind, of)
  BY DEF Inv
<1>2. CASE Next
  <2>1. PICK t \in Threads : Step(t) \/ Begin(t)
    BY <1>2 DEF Next
  <2> QED
    BY <1>1, <2>1, StepKeeps, BeginKeeps
<1>3. CASE UNCHANGED vars
  BY <1>1, <1>3, StutterKeeps
<1> QED
  BY <1>2, <1>3

-----------------------------------------------------------------------------
(* What the invariant says of the tiles.                                   *)

TileAt(W, w, H, h, b) ==
    IF b \in W THEN Written(<<"record", w[b]>>, b)
    ELSE IF Advanced(call[h[b]])
         THEN Tile(<<"thread", h[b]>>, b, NextFrontier(call[h[b]]), call[h[b]].word.pred, FALSE)
         ELSE Written(<<"thread", h[b]>>, b)

LEMMA DescribingIs ==
    ASSUME NEW kind, NEW of, IInv(kind, of)
    PROVE  \A r : r \in Describing <=> r \in Records /\ Describes(r)
<1>1. ASSUME NEW r \in Records
      PROVE  r \in RolledOver <=> \E t \in Threads : GoneOf(call[t]) = r
  <2>1. r # None
    BY RecordFacts
  <2>2. ASSUME r \in RolledOver
        PROVE  \E t \in Threads : GoneOf(call[t]) = r
    <3>1. PICK t \in Threads : \/ call[t].pc = "walkMark" /\ r = call[t].walk
                               \/ call[t].pc = "recycle" /\ call[t].after = "batchScan" /\ r = call[t].md
      BY <2>2 DEF RolledOver, Unsettled
    <3> QED
      BY <3>1 DEF GoneOf, RollOf
  <2>3. ASSUME NEW t \in Threads, GoneOf(call[t]) = r
        PROVE  r \in RolledOver
    <3>1. \/ call[t].pc = "walkMark" /\ r = call[t].walk
          \/ call[t].pc = "recycle" /\ call[t].after = "batchScan" /\ r = call[t].md
      BY <2>1, <2>3 DEF GoneOf, RollOf
    <3> QED
      BY <3>1 DEF RolledOver, Unsettled
  <2> QED
    BY <2>2, <2>3
<1>2. \A r \in Records : Describes(r) <=> record[r].state \in Active /\ r \notin RolledOver
  BY <1>1 DEF Describes
<1> QED
  BY <1>2 DEF Describing, Active

LEMMA TilesAre ==
    ASSUME NEW kind, NEW of, IInv(kind, of), NEW W, NEW w, NEW H, NEW h, Owners(W, w, H, h)
    PROVE  \A q : q \in Tiles <=> \E b \in W \cup H : q = TileAt(W, w, H, h, b)
<1>1. \A r : r \in Describing <=> r \in Records /\ Describes(r)
  BY DescribingIs
<1>2. \A t \in Threads : Fresh(call[t]) <=> t \in {u \in Unsettled({"finish"}) : call[u].md = None}
  BY DEF Fresh, Unsettled
<1>3. \A t \in Threads : Advanced(call[t]) <=> t \in Unsettled({"frontRecheck", "frontUndo"})
  BY DEF Advanced, Unsettled
<1>4. \A t \in Threads : ~(Fresh(call[t]) /\ Advanced(call[t]))
  BY DEF Fresh, Advanced
<1>5. ASSUME NEW q, q \in Tiles
      PROVE  \E b \in W \cup H : q = TileAt(W, w, H, h, b)
  <2>1. \/ \E r \in Describing : q = Written(<<"record", r>>, record[r].block)
        \/ \E t \in {u \in Unsettled({"finish"}) : call[u].md = None} :
              q = Written(<<"thread", t>>, call[t].block)
        \/ \E t \in Unsettled({"frontRecheck", "frontUndo"}) :
              q = Tile(<<"thread", t>>, call[t].block, NextFrontier(call[t]), call[t].word.pred, FALSE)
    BY <1>5 DEF Tiles
  <2>2. CASE \E r \in Describing : q = Written(<<"record", r>>, record[r].block)
    <3>1. PICK r \in Describing : q = Written(<<"record", r>>, record[r].block)
      BY <2>2
    <3>2. record[r].block \in W /\ w[record[r].block] = r
      BY <3>1, <1>1 DEF Owners
    <3> QED
      BY <3>1, <3>2 DEF TileAt
  <2>3. CASE \E t \in {u \in Unsettled({"finish"}) : call[u].md = None} :
                q = Written(<<"thread", t>>, call[t].block)
    <3>1. PICK t \in Threads : Fresh(call[t]) /\ q = Written(<<"thread", t>>, call[t].block)
      BY <2>3, <1>2 DEF Unsettled
    <3>2. call[t].block \in H /\ h[call[t].block] = t /\ call[t].block \notin W
      BY <3>1 DEF Owners
    <3>3. ~Advanced(call[t])
      BY <3>1, <1>4
    <3> QED
      BY <3>1, <3>2, <3>3 DEF TileAt
  <2>4. CASE \E t \in Unsettled({"frontRecheck", "frontUndo"}) :
                q = Tile(<<"thread", t>>, call[t].block, NextFrontier(call[t]), call[t].word.pred, FALSE)
    <3>1. PICK t \in Threads : /\ Advanced(call[t])
                               /\ q = Tile(<<"thread", t>>, call[t].block, NextFrontier(call[t]),
                                           call[t].word.pred, FALSE)
      BY <2>4, <1>3 DEF Unsettled
    <3>2. call[t].block \in H /\ h[call[t].block] = t /\ call[t].block \notin W
      BY <3>1 DEF Owners
    <3> QED
      BY <3>1, <3>2 DEF TileAt
  <2> QED
    BY <2>1, <2>2, <2>3, <2>4
<1>6. ASSUME NEW b \in W \cup H
      PROVE  TileAt(W, w, H, h, b) \in Tiles
  <2>1. CASE b \in W
    <3>1. w[b] \in Describing /\ record[w[b]].block = b
      BY <2>1, <1>1 DEF Owners
    <3>2. TileAt(W, w, H, h, b) = Written(<<"record", w[b]>>, record[w[b]].block)
      BY <2>1, <3>1 DEF TileAt
    <3> QED
      BY <3>1, <3>2 DEF Tiles
  <2>2. CASE b \notin W
    <3>1. /\ b \in H /\ h[b] \in Threads /\ call[h[b]].block = b
          /\ Fresh(call[h[b]]) \/ Advanced(call[h[b]])
      BY <2>2, <1>6 DEF Owners
    <3>2. CASE Advanced(call[h[b]])
      <4>1. TileAt(W, w, H, h, b) =
               Tile(<<"thread", h[b]>>, call[h[b]].block, NextFrontier(call[h[b]]), call[h[b]].word.pred, FALSE)
        BY <2>2, <3>1, <3>2 DEF TileAt
      <4>2. h[b] \in Unsettled({"frontRecheck", "frontUndo"})
        BY <3>1, <3>2, <1>3
      <4> QED
        BY <4>1, <4>2 DEF Tiles
    <3>3. CASE ~Advanced(call[h[b]])
      <4>1. TileAt(W, w, H, h, b) = Written(<<"thread", h[b]>>, call[h[b]].block)
        BY <2>2, <3>1, <3>3 DEF TileAt
      <4>2. h[b] \in {u \in Unsettled({"finish"}) : call[u].md = None}
        BY <3>1, <3>3, <1>2
      <4> QED
        BY <4>1, <4>2 DEF Tiles
    <3> QED
      BY <3>2, <3>3
  <2> QED
    BY <2>1, <2>2
<1> QED
  BY <1>5, <1>6

LEMMA TileFields ==
    ASSUME NEW kind, NEW W, NEW w, NEW H, NEW h, NEW End, NEW Pred, Tiled(kind, W, w, H, h, End, Pred),
           NEW b \in W \cup H, NEW q, q = TileAt(W, w, H, h, b)
    PROVE  /\ q.at = b /\ q.end = End[b] /\ q.pred = Pred[b]
           /\ q.settled => Settled(W, H, h, b)
<1>1. Owners(W, w, H, h) /\ Extents(W, w, H, h, End, Pred)
  BY DEF Tiled
<1>2. CASE b \in W
  <2>1. q = Written(<<"record", w[b]>>, b)
    BY <1>2 DEF TileAt
  <2>2. End[b] = b + header[b].size /\ Pred[b] = header[b].previous
    BY <1>1, <1>2 DEF Extents
  <2> QED
    BY <2>1, <2>2, <1>2 DEF Written, Tile, Settled
<1>3. CASE b \notin W /\ Advanced(call[h[b]])
  <2>1. q = Tile(<<"thread", h[b]>>, b, NextFrontier(call[h[b]]), call[h[b]].word.pred, FALSE)
    BY <1>3 DEF TileAt
  <2>2. End[b] = NextFrontier(call[h[b]]) /\ Pred[b] = call[h[b]].word.pred
    BY <1>1, <1>3 DEF Extents
  <2> QED
    BY <2>1, <2>2 DEF Tile
<1>4. CASE b \notin W /\ ~Advanced(call[h[b]])
  <2>1. q = Written(<<"thread", h[b]>>, b)
    BY <1>4 DEF TileAt
  <2>2. End[b] = b + header[b].size /\ Pred[b] = header[b].previous
    BY <1>1, <1>4 DEF Extents
  <2> QED
    BY <2>1, <2>2, <1>4 DEF Written, Tile, Settled
<1> QED
  BY <1>2, <1>3, <1>4

\* The record of a block a caller holds describes it.
LEMMA HeldDescribed ==
    ASSUME NEW kind, NEW of, IInv(kind, of), NEW b \in held
    PROVE  /\ header[b].index \in Records /\ kind[header[b].index] = "held"
           /\ of[header[b].index] = b
           /\ record[header[b].index].state = "inUse" /\ record[header[b].index].block = b
           /\ Describes(header[b].index) /\ header[b].index < count
<1>1. PICK r : r = header[b].index
  OBVIOUS
<1>2. r \in Records /\ kind[r] = "held" /\ of[r] = b
  BY <1>1, PlacesTyped DEF SharedPlaces, In
<1>3. record[r].state = "inUse" /\ record[r].block = b
  BY <1>2 DEF IInv, StatesAt
<1>4. r < count
  BY <1>2, PlacesTyped
<1>5. ASSUME NEW t \in Threads
      PROVE  GoneOf(call[t]) # r
  <2>1. r # None
    BY <1>2, RecordFacts
  <2>2. RollOf(call[t]) # None => record[RollOf(call[t])].state = "reclaimInProgress"
    BY DEF IInv, Rolling
  <2>3. RollOf(call[t]) # r
    BY <2>1, <2>2, <1>3
  <2> QED
    BY <2>1, <2>3 DEF GoneOf
<1>6. Describes(r)
  BY <1>3, <1>5 DEF Describes, Active
<1> QED
  BY <1>1, <1>2, <1>3, <1>4, <1>6

LEMMA PartitionFollows == Inv => Partition
<1> SUFFICES ASSUME Inv PROVE Partition
  OBVIOUS
<1>1. PICK kind, of : IInv(kind, of)
  BY DEF Inv
<1>2. PICK W, w, H, h, End, Pred : Tiled(kind, W, w, H, h, End, Pred)
  BY <1>1 DEF IInv, Tiling
<1>3. /\ Owners(W, w, H, h) /\ Cut(W \cup H, End, Pred) /\ Middle(kind, W, H, h, End)
      /\ Extents(W, w, H, h, End, Pred)
  BY <1>2 DEF Tiled
<1>4. \A q : q \in Tiles <=> \E b \in W \cup H : q = TileAt(W, w, H, h, b)
  BY <1>1, <1>3, TilesAre
<1>5. \A b \in W \cup H : b \in Int /\ End[b] \in Int
  <2>1. W \cup H \subseteq Blocks /\ \A b \in Blocks : b \in Int
    BY <1>3, BlockFacts DEF Owners
  <2>2. End \in [Blocks -> Int]
    BY <1>3 DEF Extents
  <2> QED
    BY <2>1, <2>2
<1>6. ASSUME NEW q \in Tiles
      PROVE  /\ q.at \in W \cup H /\ q = TileAt(W, w, H, h, q.at) /\ q.end = End[q.at] /\ q.pred = Pred[q.at]
             /\ q.settled => Settled(W, H, h, q.at)
  <2>1. PICK b \in W \cup H : q = TileAt(W, w, H, h, b)
    BY <1>4
  <2>2. /\ q.at = b /\ q.end = End[b] /\ q.pred = Pred[b]
        /\ q.settled => Settled(W, H, h, b)
    BY <1>2, <2>1, TileFields
  <2> QED
    BY <2>1, <2>2
<1>7. ASSUME NEW b, NEW at, Ends(W \cup H, End, b, at)
      PROVE  Links(b, at)
  <2>1. CASE b = None
    BY <2>1, <1>7 DEF Ends, Links
  <2>2. CASE b # None
    <3>1. b \in W \cup H /\ End[b] = at
      BY <2>2, <1>7 DEF Ends
    <3>2. PICK q : q = TileAt(W, w, H, h, b)
      OBVIOUS
    <3>3. q \in Tiles
      BY <1>4, <3>1, <3>2
    <3>4. q.at = b /\ q.end = End[b]
      BY <1>2, <3>1, <3>2, TileFields
    <3> QED
      BY <2>2, <3>1, <3>3, <3>4 DEF Links
  <2> QED
    BY <2>1, <2>2
<1>8. \A p \in Tiles : p.at < p.end /\ p.end <= frontier.at
  BY <1>3, <1>6 DEF Cut
<1>9. ASSUME NEW p \in Tiles, NEW q \in Tiles, p # q
      PROVE  p.end <= q.at \/ q.end <= p.at
  <2>1. p.at # q.at
    BY <1>6, <1>9
  <2>2. p.at < q.at \/ q.at < p.at
    BY <2>1, <1>5, <1>6
  <2> QED
    BY <2>2, <1>3, <1>6 DEF Cut
<1>10. Links(frontier.pred, frontier.at) /\ \A p \in Tiles : Links(p.pred, p.at)
  BY <1>3, <1>6, <1>7 DEF Cut
<1>11. ASSUME NEW p \in Tiles, NEW r \in (0 .. count - 1) \ UnsettledRecords, p.settled
       PROVE  p.end <= RecordAt(r)
  <2>1. TypeInv /\ count \in 0 .. NumRecords
    BY <1>1 DEF IInv, TypeInv
  <2>2. r \in Records /\ r < count
    BY <2>1, RecordFacts
  <2>3. kind[r] # "seen"
    <3> SUFFICES ASSUME kind[r] = "seen" PROVE FALSE
      OBVIOUS
    <3>1. PICK t : t = of[r]
      OBVIOUS
    <3>2. t \in Threads /\ r = SeenOf(call[t])
      BY <2>2, <3>1, <1>1, PlacesTyped DEF ThreadPlaces, In
    <3>3. r # None
      BY <2>2, RecordFacts
    <3>4. call[t].pc \in {"growRecheck", "growUndo"} /\ r = call[t].seen
      BY <3>2, <3>3 DEF SeenOf
    <3>5. r \in UnsettledRecords
      BY <3>2, <3>4 DEF UnsettledRecords, Unsettled
    <3> QED
      BY <3>5
  <2>4. Settled(W, H, h, p.at) /\ p.at \in W \cup H /\ p.end = End[p.at]
    BY <1>6, <1>11
  <2> QED
    BY <2>2, <2>3, <2>4, <1>3 DEF Middle
<1>12. held \subseteq {record[r].block : r \in Describing}
  <2> SUFFICES ASSUME NEW b \in held
               PROVE  b \in {record[r].block : r \in Describing}
    OBVIOUS
  <2>1. /\ header[b].index \in Records /\ Describes(header[b].index)
        /\ record[header[b].index].block = b
    BY <1>1, HeldDescribed
  <2>2. header[b].index \in Describing
    BY <2>1, <1>1, DescribingIs
  <2> QED
    BY <2>1, <2>2
<1> QED
  BY <1>8, <1>9, <1>10, <1>11, <1>12 DEF Partition

-----------------------------------------------------------------------------
(* What the invariant says of the places and the counts.                   *)

LEMMA TypesFollow == Inv => TypeOK
<1> SUFFICES ASSUME Inv PROVE TypeOK
  OBVIOUS
<1>1. PICK kind, of : IInv(kind, of)
  BY DEF Inv
<1>2. TypeInv /\ Trims /\ \A m \in Managers : IsInjective(managers[m].free)
  BY <1>1 DEF IInv, Places, FreePlaces
<1>3. /\ frontier \in [at : Blocks, pred : Blocks \cup {None}]
      /\ reclaiming \in BOOLEAN /\ DOMAIN call = Threads /\ held \subseteq Blocks
  BY <1>2 DEF TypeInv, Words, MaybeBlock
<1>4. count \in 0 .. Cardinality(Records)
  BY <1>2, RecordFacts DEF TypeInv
<1>5. \A m \in Managers : managers[m].active \in Nat /\ (managers[m].trimming => managers[m].active = 0)
  BY <1>2 DEF TypeInv, Trims
<1>6. ASSUME NEW r \in Records
      PROVE  /\ record[r].state \in States
             /\ record[r].block \in Blocks \cup {None}
             /\ record[r].version \in 0 .. VersionLimit - 1
  <2>1. record[r] \in RecordType
    BY <1>2 DEF TypeInv
  <2> QED
    BY <2>1 DEF RecordType, MaybeBlock
<1>7. \A s \in Shards : pending[s].count \in Nat /\ pending[s].open \in BOOLEAN
  BY <1>2 DEF TypeInv
<1> QED
  BY <1>2, <1>3, <1>4, <1>5, <1>6, <1>7 DEF TypeOK

\* What the places of the list at p are called.
Spot(p) == IF p[1] = "bin" THEN <<p[2], p[3]>> ELSE p[2]

LEMMA RangeWithin ==
    ASSUME NEW S, NEW s \in Seq(S)
    PROVE  Range(s) \subseteq S
BY DEF Range

LEMMA SpotFacts ==
    /\ \A m \in Managers : <<"free", m>> \in ListPlaces
    /\ \A s \in Shards : <<"pending", s>> \in ListPlaces
    /\ \A b \in Bins, k \in Slots : <<"bin", b, k>> \in ListPlaces
    /\ \A t \in Threads : <<"list", t>> \in ListPlaces /\ <<"batch", t>> \in ListPlaces
    /\ \A p \in ListPlaces : \/ \E m \in Managers : p = <<"free", m>>
                             \/ \E s \in Shards : p = <<"pending", s>>
                             \/ \E b \in Bins, k \in Slots : p = <<"bin", b, k>>
                             \/ \E t \in Threads : p = <<"list", t>>
                             \/ \E t \in Threads : p = <<"batch", t>>
BY DEF ListPlaces

LEMMA SpotsDiffer ==
    ASSUME NEW p \in ListPlaces, NEW q \in ListPlaces, p[1] = q[1], Spot(p) = Spot(q)
    PROVE  p = q
<1>1. CASE p[1] = "bin"
  <2>1. PICK b \in Bins, k \in Slots : p = <<"bin", b, k>>
    BY <1>1, SpotFacts
  <2>2. PICK d \in Bins, l \in Slots : q = <<"bin", d, l>>
    <3>1. q[1] = "bin"
      BY <1>1
    <3> QED
      BY <3>1, SpotFacts
  <2>3. Spot(p) = <<b, k>> /\ Spot(q) = <<d, l>>
    BY <2>1, <2>2 DEF Spot
  <2> QED
    BY <2>1, <2>2, <2>3
<1>2. CASE p[1] # "bin"
  <2>1. PICK k, o : p = <<k, o>> /\ k # "bin"
    BY <1>2, SpotFacts
  <2>2. PICK l, u : q = <<l, u>> /\ l # "bin"
    <3>1. q[1] # "bin"
      BY <1>2
    <3> QED
      BY <3>1, SpotFacts
  <2>3. k = l /\ Spot(p) = o /\ Spot(q) = u
    BY <2>1, <2>2 DEF Spot
  <2> QED
    BY <2>1, <2>2, <2>3
<1> QED
  BY <1>1, <1>2

LEMMA ListOfIs ==
    ASSUME NEW kind, NEW of, IInv(kind, of), NEW p \in ListPlaces
    PROVE  /\ IsInjective(ListOf(p)) /\ p[1] \in ListKinds
           /\ \A r : r \in Range(ListOf(p)) <=> r \in Records /\ In(kind, of, r, p[1], Spot(p))
<1>1. /\ TypeInv /\ FreePlaces(kind, of) /\ SharedPlaces(kind, of) /\ ThreadPlaces(kind, of)
  BY DEF IInv, Places
<1>2. CASE \E m \in Managers : p = <<"free", m>>
  <2>1. PICK m \in Managers : p = <<"free", m>>
    BY <1>2
  <2>2. ListOf(p) = managers[m].free /\ Spot(p) = m /\ p[1] = "free"
    BY <2>1 DEF ListOf, Spot
  <2>3. managers[m].free \in Seq(Records)
    BY <1>1 DEF TypeInv
  <2>4. Range(managers[m].free) \subseteq Records
    BY <2>3, RangeWithin
  <2> QED
    BY <1>1, <2>2, <2>4 DEF FreePlaces, ListKinds
<1>3. CASE \E s \in Shards : p = <<"pending", s>>
  <2>1. PICK s \in Shards : p = <<"pending", s>>
    BY <1>3
  <2>2. ListOf(p) = pending[s].list /\ Spot(p) = s /\ p[1] = "pending"
    BY <2>1 DEF ListOf, Spot
  <2>3. pending[s].list \in Seq(Records)
    BY <1>1 DEF TypeInv
  <2>4. Range(pending[s].list) \subseteq Records
    BY <2>3, RangeWithin
  <2> QED
    BY <1>1, <2>2, <2>4 DEF SharedPlaces, ListKinds
<1>4. CASE \E b \in Bins, k \in Slots : p = <<"bin", b, k>>
  <2>1. PICK b \in Bins, k \in Slots : p = <<"bin", b, k>>
    BY <1>4
  <2>2. ListOf(p) = bins[b][k] /\ Spot(p) = <<b, k>> /\ p[1] = "bin"
    BY <2>1 DEF ListOf, Spot
  <2>3. bins[b][k] \in Seq(Records)
    BY <1>1 DEF TypeInv
  <2>4. Range(bins[b][k]) \subseteq Records
    BY <2>3, RangeWithin
  <2> QED
    BY <1>1, <2>2, <2>4 DEF SharedPlaces, ListKinds
<1>5. ASSUME NEW t \in Threads
      PROVE  call[t].list \in Seq(Records) /\ call[t].batch \in Seq(Records)
  <2>1. call[t] \in CallType
    BY <1>1 DEF TypeInv
  <2> QED
    BY <2>1 DEF CallType
<1>6. CASE \E t \in Threads : p = <<"list", t>>
  <2>1. PICK t \in Threads : p = <<"list", t>>
    BY <1>6
  <2>2. ListOf(p) = call[t].list /\ Spot(p) = t /\ p[1] = "list"
    BY <2>1 DEF ListOf, Spot
  <2>3. Range(call[t].list) \subseteq Records
    BY <1>5, RangeWithin
  <2> QED
    BY <1>1, <2>2, <2>3 DEF ThreadPlaces, ListKinds
<1>7. CASE \E t \in Threads : p = <<"batch", t>>
  <2>1. PICK t \in Threads : p = <<"batch", t>>
    BY <1>7
  <2>2. ListOf(p) = call[t].batch /\ Spot(p) = t /\ p[1] = "batch"
    BY <2>1 DEF ListOf, Spot
  <2>3. Range(call[t].batch) \subseteq Records
    BY <1>5, RangeWithin
  <2> QED
    BY <1>1, <2>2, <2>3 DEF ThreadPlaces, ListKinds
<1> QED
  BY <1>2, <1>3, <1>4, <1>6, <1>7, SpotFacts

LEMMA ListedIs ==
    ASSUME NEW kind, NEW of, IInv(kind, of)
    PROVE  \A r : r \in Listed <=> r \in Records /\ kind[r] \in ListKinds
<1>1. ASSUME NEW r \in Listed
      PROVE  r \in Records /\ kind[r] \in ListKinds
  <2>1. PICK p \in ListPlaces : r \in Range(ListOf(p))
    BY <1>1 DEF Listed
  <2> QED
    BY <2>1, ListOfIs DEF In
<1>2. ASSUME NEW r \in Records, kind[r] \in ListKinds
      PROVE  r \in Listed
  <2>1. \E p \in ListPlaces : kind[r] = p[1] /\ of[r] = Spot(p)
    <3>1. CASE kind[r] = "free"
      <4>1. of[r] \in Managers
        BY <3>1, ManagerFacts DEF IInv, Places, FreePlaces
      <4>2. <<"free", of[r]>> \in ListPlaces /\ Spot(<<"free", of[r]>>) = of[r]
        BY <4>1, SpotFacts DEF Spot
      <4> QED
        BY <3>1, <4>2
    <3>2. CASE kind[r] = "pending"
      <4>1. of[r] \in Shards
        BY <3>2 DEF IInv, Places, SharedPlaces
      <4>2. <<"pending", of[r]>> \in ListPlaces /\ Spot(<<"pending", of[r]>>) = of[r]
        BY <4>1, SpotFacts DEF Spot
      <4> QED
        BY <3>2, <4>2
    <3>3. CASE kind[r] = "bin"
      <4>1. of[r] \in Bins \X Slots
        BY <3>3 DEF IInv, Places, SharedPlaces
      <4>2. PICK b \in Bins, k \in Slots : of[r] = <<b, k>>
        BY <4>1
      <4>3. <<"bin", b, k>> \in ListPlaces /\ Spot(<<"bin", b, k>>) = <<b, k>>
        BY SpotFacts DEF Spot
      <4> QED
        BY <3>3, <4>2, <4>3
    <3>4. CASE kind[r] \in {"list", "batch"}
      <4>1. of[r] \in Threads
        BY <3>4 DEF IInv, Places, ThreadPlaces
      <4>2. PICK p : p = <<kind[r], of[r]>>
        OBVIOUS
      <4>3. p \in ListPlaces /\ p[1] = kind[r] /\ Spot(p) = of[r]
        BY <3>4, <4>1, <4>2, SpotFacts DEF Spot
      <4> QED
        BY <4>3
    <3> QED
      BY <1>2, <3>1, <3>2, <3>3, <3>4 DEF ListKinds
  <2>2. PICK p \in ListPlaces : kind[r] = p[1] /\ of[r] = Spot(p)
    BY <2>1
  <2>3. r \in Range(ListOf(p))
    BY <2>2, ListOfIs DEF In
  <2> QED
    BY <2>3 DEF Listed
<1> QED
  BY <1>1, <1>2

LEMMA InHandIs ==
    ASSUME NEW kind, NEW of, IInv(kind, of), NEW t \in Threads
    PROVE  \A r : r \in InHand[t] <=> r \in Records /\ kind[r] \in {"md", "reserved"} /\ of[r] = t
<1>1. /\ call[t].md \in MaybeRecord /\ call[t].reserved \in MaybeRecord
      /\ call[t].pc = "batchRoll" => call[t].md \in Range(call[t].batch)
  BY CallFacts DEF IInv, MaybeRecord, ShapeOf
<1>2. \A r \in Records : /\ r = MdOf(call[t]) <=> In(kind, of, r, "md", t)
                         /\ r = call[t].reserved <=> In(kind, of, r, "reserved", t)
                         /\ r \in Range(call[t].batch) <=> In(kind, of, r, "batch", t)
  BY DEF IInv, Places, ThreadPlaces
<1>3. InHand[t] = ({call[t].md, call[t].reserved} \ {None})
                     \ (IF call[t].pc = "batchRoll" THEN {call[t].md} ELSE {})
  BY DEF InHand
<1>4. InHand[t] \subseteq Records
  BY <1>1, <1>3 DEF MaybeRecord
<1>5. ASSUME NEW r \in Records
      PROVE  r \in InHand[t] <=> r = MdOf(call[t]) \/ r = call[t].reserved
  <2>1. r # None
    BY RecordFacts
  <2>2. CASE call[t].pc = "batchRoll"
    <3>1. MdOf(call[t]) = None
      BY <2>2 DEF MdOf
    <3>2. ASSUME r = call[t].reserved
          PROVE  r # call[t].md
      <4>1. kind[r] = "reserved"
        BY <1>2, <3>2 DEF In
      <4>2. r = call[t].md => kind[r] = "batch"
        BY <1>1, <1>2, <2>2 DEF In
      <4> QED
        BY <4>1, <4>2
    <3> QED
      BY <2>1, <2>2, <1>3, <3>1, <3>2
  <2>3. CASE call[t].pc # "batchRoll"
    BY <2>1, <2>3, <1>3 DEF MdOf
  <2> QED
    BY <2>2, <2>3
<1> QED
  BY <1>2, <1>4, <1>5 DEF In

LEMMA OthersAre ==
    ASSUME NEW kind, NEW of, IInv(kind, of)
    PROVE  /\ \A r : r \in WithBlocks <=> r \in Records /\ kind[r] = "held"
           /\ \A r : r \in UnsettledRecords <=> r \in Records /\ kind[r] = "seen"
<1>1. TypeInv /\ SharedPlaces(kind, of) /\ ThreadPlaces(kind, of)
  BY DEF IInv, Places
<1>2. \A b \in held : header[b].index \in Records
  BY <1>1 DEF TypeInv, HeaderType
<1>3. \A r : r \in WithBlocks <=> r \in Records /\ kind[r] = "held"
  BY <1>1, <1>2 DEF WithBlocks, SharedPlaces, In
<1>4. ASSUME NEW t \in Threads, call[t].pc \in {"growRecheck", "growUndo"}
      PROVE  /\ call[t].seen \in Records /\ call[t].seen = SeenOf(call[t])
             /\ kind[call[t].seen] = "seen"
  <2>1. call[t].seen \in Records
    BY <1>4, CallFacts DEF IInv, PlaceOf
  <2>2. call[t].seen = SeenOf(call[t])
    BY <1>4 DEF SeenOf
  <2> QED
    BY <2>1, <2>2, <1>1 DEF ThreadPlaces, In
<1>5. ASSUME NEW r \in Records, kind[r] = "seen"
      PROVE  r \in UnsettledRecords
  <2>1. PICK t \in Threads : r = SeenOf(call[t])
    BY <1>1, <1>5 DEF ThreadPlaces, In
  <2>2. r # None
    BY RecordFacts
  <2>3. call[t].pc \in {"growRecheck", "growUndo"} /\ r = call[t].seen
    BY <2>1, <2>2 DEF SeenOf
  <2> QED
    BY <2>3 DEF UnsettledRecords, Unsettled
<1>6. \A r \in UnsettledRecords : r \in Records /\ kind[r] = "seen"
  BY <1>4 DEF UnsettledRecords, Unsettled
<1> QED
  BY <1>3, <1>5, <1>6

LEMMA AccountedFollows == Inv => Accounted
<1> SUFFICES ASSUME Inv PROVE Accounted
  OBVIOUS
<1>1. PICK kind, of : IInv(kind, of)
  BY DEF Inv
<1>2. TypeInv /\ Control /\ FreePlaces(kind, of) /\ ManagerCounts /\ PendingCounts
  BY <1>1 DEF IInv, Places
<1>3. PICK clearing : clearing = {r \in Records : r >= count /\ \E t \in Unsettled({"trimClear"}) :
                                           call[t].manager = ManagerFor(r)}
  OBVIOUS
<1>4. PICK inHand : inHand = UNION Range(InHand)
  OBVIOUS
<1>5. /\ \A r : r \in Listed <=> r \in Records /\ kind[r] \in ListKinds
      /\ \A r : r \in WithBlocks <=> r \in Records /\ kind[r] = "held"
      /\ \A r : r \in UnsettledRecords <=> r \in Records /\ kind[r] = "seen"
  BY <1>1, ListedIs, OthersAre
<1>6. \A t \in Threads : \A r : r \in InHand[t] <=> r \in Records /\ kind[r] \in {"md", "reserved"} /\ of[r] = t
  BY <1>1, InHandIs
<1>7. \A r : r \in inHand <=> r \in Records /\ kind[r] \in {"md", "reserved"}
  <2>1. \A r : r \in inHand <=> \E t \in Threads : r \in InHand[t]
    BY <1>4 DEF Range, InHand
  <2>2. \A r \in Records : kind[r] \in {"md", "reserved"} => of[r] \in Threads
    BY <1>1 DEF IInv, Places, ThreadPlaces
  <2> QED
    BY <2>1, <2>2, <1>6
<1>8. Listed \cup inHand \cup WithBlocks \cup clearing \cup UnsettledRecords
         = (0 .. count - 1) \cup clearing
  <2>1. \A r : r \in 0 .. count - 1 <=> r \in Records /\ r < count
    BY <1>2, RecordFacts DEF TypeInv
  <2>2. \A r \in Records : r \in Int /\ count \in Int
    BY <1>2, RecordFacts DEF TypeInv
  <2>3. \A r \in Records : kind[r] \in ListKinds \cup {"md", "reserved", "seen", "held", "out"}
    BY <1>1 DEF IInv, Places, Kinds
  <2>4. ASSUME NEW r \in Records, kind[r] # "out", ~(r < count)
        PROVE  r \in clearing
    <3>1. kind[r] = "free"
      BY <2>4, <1>2 DEF FreePlaces
    <3>2. PICK t \in Threads : ClearOf(call[t]) = ManagerFor(r)
      BY <3>1, <2>4, <1>2 DEF FreePlaces
    <3>3. ManagerFor(r) # None
      BY ManagerFacts DEF Managers, None
    <3>4. call[t].pc = "trimClear" /\ call[t].manager = ManagerFor(r)
      BY <3>2, <3>3 DEF ClearOf
    <3>5. r >= count
      BY <2>2, <2>4
    <3> QED
      BY <1>3, <3>4, <3>5 DEF Unsettled
  <2>5. \A r \in Records : r < count => kind[r] # "out"
    BY <1>2 DEF FreePlaces
  <2>6. "out" \notin ListKinds
    BY DEF ListKinds
  <2> QED
    BY <2>1, <2>3, <2>4, <2>5, <2>6, <1>5, <1>7
<1>9. \A p \in ListPlaces : IsInjective(ListOf(p))
  BY <1>1, ListOfIs
<1>10. ASSUME NEW p \in ListPlaces, NEW q \in ListPlaces, p # q
       PROVE  Range(ListOf(p)) \cap Range(ListOf(q)) = {}
  <2>1. \A r : /\ r \in Range(ListOf(p)) <=> r \in Records /\ In(kind, of, r, p[1], Spot(p))
               /\ r \in Range(ListOf(q)) <=> r \in Records /\ In(kind, of, r, q[1], Spot(q))
    BY <1>1, ListOfIs
  <2>2. p[1] # q[1] \/ Spot(p) # Spot(q)
    BY <1>10, SpotsDiffer
  <2> QED
    BY <2>1, <2>2 DEF In
<1>11. \A t, u \in Threads : t # u => InHand[t] \cap InHand[u] = {}
  BY <1>6
<1>12. \A b, d \in held : b # d => header[b].index # header[d].index
  BY <1>1 DEF IInv, Places, SharedPlaces, In
<1>13. /\ Listed \cap (inHand \cup WithBlocks \cup UnsettledRecords) = {}
       /\ inHand \cap (WithBlocks \cup UnsettledRecords) = {}
       /\ WithBlocks \cap UnsettledRecords = {}
  BY <1>5, <1>7 DEF ListKinds
<1>14. \A m \in Managers :
          managers[m].active = Cardinality(Transient(m))
              + Cardinality({r \in 0 .. count - 1 :
                     ManagerFor(r) = m /\ r \notin Range(managers[m].free)})
  <2> TAKE m \in Managers
  <2>1. m # None
    BY DEF Managers, None
  <2>2. Transient(m) = Waiting(m)
    BY <2>1 DEF Transient, Waiting, TransientOf
  <2> QED
    BY <2>2, <1>2 DEF ManagerCounts, Taken
<1>15. \A s \in Shards :
          pending[s].count = Len(pending[s].list)
             + Cardinality(Stolen(s))
             + Cardinality({t \in Unsettled({"pushPending"}) :
                               record[call[t].md].shard % NumShards = s})
  <2> TAKE s \in Shards
  <2>1. ASSUME NEW t \in Threads, call[t].pc = "pushPending"
        PROVE  record[call[t].md].shard % NumShards = record[call[t].md].shard
    <3>1. call[t].md \in Records
      BY <2>1, <1>2, CallFacts DEF ShapeOf, HasMd
    <3>2. record[call[t].md].shard \in Shards
      BY <3>1, <1>2 DEF TypeInv, RecordType
    <3> QED
      BY <3>2, SlotFacts
  <2>2. {t \in Unsettled({"pushPending"}) : record[call[t].md].shard % NumShards = s} = Pushing(s)
    BY <2>1 DEF Unsettled, Pushing
  <2> QED
    BY <2>2, <1>2 DEF PendingCounts
<1>16. /\ Listed \cup inHand \cup WithBlocks \cup clearing \cup UnsettledRecords
             = (0 .. count - 1) \cup clearing
       /\ \A p, q \in ListPlaces : p # q => Range(ListOf(p)) \cap Range(ListOf(q)) = {}
  BY <1>8, <1>10
<1>17. TypeOK
  BY TypesFollow
<1> QED
  BY <1>3, <1>4, <1>9, <1>11, <1>12, <1>13, <1>14, <1>15, <1>16, <1>17 DEF Accounted

LEMMA LateFreesFollow == Inv => LateFreeIsRefused
BY DEF Inv, IInv, LateFrees, LateFreeIsRefused

-----------------------------------------------------------------------------
(* The pieces callers hold.                                                *)

LEMMA HeldExtents ==
    ASSUME NEW kind, NEW of, IInv(kind, of)
    PROVE  /\ arena.start \in Nat /\ arena.start <= LastStart
           /\ \A b \in held : /\ b \in Nat /\ header[b].size \in Int /\ header[b].size > 0
                              /\ header[b].index \in Nat
           /\ \A b, d \in held : b + header[b].size <= RecordAt(header[d].index)
           /\ \A b, d \in held : b # d => \/ b + header[b].size <= d
                                          \/ d + header[d].size <= b
<1>1. PICK W, w, H, h, End, Pred : Tiled(kind, W, w, H, h, End, Pred)
  BY DEF IInv, Tiling
<1>2. /\ Owners(W, w, H, h) /\ Extents(W, w, H, h, End, Pred)
      /\ Cut(W \cup H, End, Pred) /\ Middle(kind, W, H, h, End)
  BY <1>1 DEF Tiled
<1>3. TypeInv
  BY DEF IInv
<1>4. arena.start \in Blocks /\ Blocks \subseteq Nat /\ \A b \in Blocks : b <= LastStart
  <2>1. \A b \in Blocks : b <= LastStart
    BY Largest DEF Blocks
  <2> QED
    BY <2>1, <1>3, BlockFacts DEF TypeInv
<1>5. ASSUME NEW b \in held
      PROVE  /\ b \in Nat /\ header[b].size \in Int /\ header[b].size > 0
             /\ b \in W /\ End[b] = b + header[b].size
             /\ header[b].index \in Records /\ header[b].index < count
             /\ kind[header[b].index] # "seen"
  <2>1. /\ header[b].index \in Records /\ kind[header[b].index] = "held"
        /\ record[header[b].index].block = b /\ Describes(header[b].index)
        /\ header[b].index < count
    BY HeldDescribed
  <2>2. b \in W /\ End[b] = b + header[b].size
    BY <2>1, <1>2 DEF Owners, Extents
  <2>3. b \in Blocks /\ header[b].size \in Int
    BY <1>3 DEF TypeInv, HeaderType
  <2>4. b < End[b]
    BY <2>2, <1>2 DEF Cut
  <2>5. b \in Nat
    BY <2>3, BlockFacts
  <2>6. header[b].size > 0
    BY <2>2, <2>3, <2>4, <2>5
  <2> QED
    BY <2>1, <2>2, <2>3, <2>5, <2>6
<1>6. \A r \in Records : r \in Nat
  BY RecordFacts
<1>7. \A b, d \in held : b + header[b].size <= RecordAt(header[d].index)
  <2> TAKE b, d \in held
  <2>1. Settled(W, H, h, b)
    BY <1>5 DEF Settled
  <2>2. End[b] <= RecordAt(header[d].index)
    BY <2>1, <1>2, <1>5 DEF Middle
  <2> QED
    BY <2>2, <1>5
<1>8. ASSUME NEW b \in held, NEW d \in held, b # d
      PROVE  \/ b + header[b].size <= d
             \/ d + header[d].size <= b
  <2>1. b < d \/ d < b
    BY <1>5, <1>8
  <2>2. b \in W \cup H /\ d \in W \cup H
    BY <1>5
  <2>3. (b < d => End[b] <= d) /\ (d < b => End[d] <= b)
    BY <2>2, <1>2 DEF Cut
  <2> QED
    BY <2>1, <2>3, <1>5
<1> QED
  BY <1>4, <1>5, <1>6, <1>7, <1>8

LEMMA RecordsApart ==
    ASSUME NEW start \in Nat, NEW r \in Nat, NEW q \in Nat, r # q
    PROVE  \/ (start - r * Alignment) + Alignment <= start - q * Alignment
           \/ (start - q * Alignment) + Alignment <= start - r * Alignment
<1>1. Alignment \in Nat
  BY Constants
<1>2. ASSUME NEW x \in Nat, NEW y \in Nat, x < y
      PROVE  (start - y * Alignment) + Alignment <= start - x * Alignment
  <2>1. PICK a \in Nat : a = x * Alignment
    BY <1>1
  <2>2. PICK k \in Nat : y = x + 1 + k
    <3>1. y - x - 1 \in Nat /\ y = x + 1 + (y - x - 1)
      BY <1>2
    <3> QED
      BY <3>1
  <2>3. PICK e \in Nat : e = k * Alignment
    BY <1>1
  <2>4. y * Alignment = a + Alignment + e
    BY <2>1, <2>2, <2>3, <1>1
  <2> QED
    BY <2>1, <2>4, <1>1
<1>3. r < q \/ q < r
  OBVIOUS
<1> QED
  BY <1>2, <1>3

BlockPiece(b) == [at |-> b, size |-> header[b].size]
RecordPiece(b) == [at |-> RecordAt(header[b].index), size |-> Alignment]

LEMMA PiecesAre ==
    \A p : p \in PiecesOut <=> \E b \in held : p = BlockPiece(b) \/ p = RecordPiece(b)
BY DEF PiecesOut, BlockPiece, RecordPiece

LEMMA PiecesApart ==
    ASSUME Inv
    PROVE  /\ \A p \in PiecesOut : Heap!Inside(p)
           /\ \A p, q \in PiecesOut : p # q => ~Heap!Overlap(p, q)
<1>1. PICK kind, of : IInv(kind, of)
  BY DEF Inv
<1>2. /\ arena.start \in Nat /\ arena.start <= LastStart /\ LastStart \in Nat
      /\ \A b \in held : /\ b \in Nat /\ header[b].size \in Int /\ header[b].size > 0
                         /\ header[b].index \in Nat
      /\ \A b, d \in held : b + header[b].size <= RecordAt(header[d].index)
      /\ \A b, d \in held : b # d => \/ b + header[b].size <= d
                                     \/ d + header[d].size <= b
      /\ Alignment \in Nat /\ Alignment > 0
  BY <1>1, HeldExtents, Largest, Constants
<1>3. ASSUME NEW b \in held
      PROVE  RecordAt(header[b].index) \in Int /\ RecordAt(header[b].index) <= LastStart
  <2>1. PICK r \in Nat : r = header[b].index
    BY <1>2
  <2>2. PICK a \in Nat : a = r * Alignment
    BY <1>2
  <2>3. RecordAt(r) = arena.start - a
    BY <2>2 DEF RecordAt
  <2> QED
    BY <2>1, <2>3, <1>2
<1>4. ASSUME NEW b \in held
      PROVE  Heap!Inside(BlockPiece(b)) /\ Heap!Inside(RecordPiece(b))
  <2>1. PICK a, s \in Int : a = RecordAt(header[b].index) /\ s = header[b].size
    BY <1>2, <1>3
  <2>2. b + s <= a /\ s > 0 /\ a <= LastStart
    BY <2>1, <1>2, <1>3
  <2>3. Heap!Inside(BlockPiece(b))
    <3>1. BlockPiece(b).at = b /\ BlockPiece(b).size = s
      BY <2>1 DEF BlockPiece
    <3> QED
      BY <3>1, <2>2, <1>2 DEF Heap!Inside
  <2>4. Heap!Inside(RecordPiece(b))
    <3>1. RecordPiece(b).at = a /\ RecordPiece(b).size = Alignment
      BY <2>1 DEF RecordPiece
    <3> QED
      BY <3>1, <2>2, <1>2 DEF Heap!Inside
  <2> QED
    BY <2>3, <2>4
<1>5. ASSUME NEW b \in held, NEW d \in held, BlockPiece(b) # BlockPiece(d)
      PROVE  ~Heap!Overlap(BlockPiece(b), BlockPiece(d))
  <2>1. b # d
    BY <1>5
  <2>2. /\ BlockPiece(b).at = b /\ BlockPiece(b).size = header[b].size
        /\ BlockPiece(d).at = d /\ BlockPiece(d).size = header[d].size
    BY DEF BlockPiece
  <2> QED
    BY <2>1, <2>2, <1>2 DEF Heap!Overlap
<1>6. ASSUME NEW b \in held, NEW d \in held
      PROVE  /\ ~Heap!Overlap(BlockPiece(b), RecordPiece(d))
             /\ ~Heap!Overlap(RecordPiece(d), BlockPiece(b))
  <2>1. PICK a, s \in Int : a = RecordAt(header[d].index) /\ s = header[b].size
    BY <1>2, <1>3
  <2>2. b + s <= a
    BY <2>1, <1>2
  <2>3. /\ BlockPiece(b).at = b /\ BlockPiece(b).size = s
        /\ RecordPiece(d).at = a /\ RecordPiece(d).size = Alignment
    BY <2>1 DEF BlockPiece, RecordPiece
  <2> QED
    BY <2>2, <2>3, <1>2 DEF Heap!Overlap
<1>7. ASSUME NEW b \in held, NEW d \in held, RecordPiece(b) # RecordPiece(d)
      PROVE  ~Heap!Overlap(RecordPiece(b), RecordPiece(d))
  <2>1. PICK r, q \in Nat : r = header[b].index /\ q = header[d].index
    BY <1>2
  <2>2. r # q
    BY <2>1, <1>7 DEF RecordPiece
  <2>3. PICK a, e \in Int : a = RecordAt(r) /\ e = RecordAt(q)
    BY <2>1, <1>3
  <2>4. a + Alignment <= e \/ e + Alignment <= a
    <3>1. \/ (arena.start - r * Alignment) + Alignment <= arena.start - q * Alignment
          \/ (arena.start - q * Alignment) + Alignment <= arena.start - r * Alignment
      BY <2>2, <1>2, RecordsApart
    <3> QED
      BY <3>1, <2>3 DEF RecordAt
  <2>5. /\ RecordPiece(b).at = a /\ RecordPiece(b).size = Alignment
        /\ RecordPiece(d).at = e /\ RecordPiece(d).size = Alignment
    BY <2>1, <2>3 DEF RecordPiece
  <2> QED
    BY <2>4, <2>5, <1>2 DEF Heap!Overlap
<1>8. \A p \in PiecesOut : Heap!Inside(p)
  BY <1>4, PiecesAre
<1>9. ASSUME NEW p \in PiecesOut, NEW q \in PiecesOut, p # q
      PROVE  ~Heap!Overlap(p, q)
  <2>1. PICK b \in held : p = BlockPiece(b) \/ p = RecordPiece(b)
    BY PiecesAre
  <2>2. PICK d \in held : q = BlockPiece(d) \/ q = RecordPiece(d)
    BY PiecesAre
  <2> QED
    BY <2>1, <2>2, <1>5, <1>6, <1>7, <1>9
<1> QED
  BY <1>8, <1>9

Apart ==
    /\ \A p \in PiecesOut : Heap!Inside(p)
    /\ \A p, q \in PiecesOut : p # q => ~Heap!Overlap(p, q)

LEMMA AllApart == Inv => Apart
BY PiecesApart DEF Apart

LEMMA TakenNotHeld ==
    ASSUME NEW kind, NEW of, IInv(kind, of), NEW t \in Threads, call[t].pc \in {"finish", "frontRecheck"}
    PROVE  call[t].block \notin held
<1> SUFFICES ASSUME call[t].block \in held PROVE FALSE
  OBVIOUS
<1>1. PICK W, w, H, h, End, Pred : Tiled(kind, W, w, H, h, End, Pred)
  BY DEF IInv, Tiling
<1>2. Owners(W, w, H, h)
  BY <1>1 DEF Tiled
<1>3. PICK b \in held : b = call[t].block
  OBVIOUS
<1>4. PICK r \in Records : /\ kind[r] = "held" /\ record[r].block = b /\ Describes(r)
  BY HeldDescribed
<1>5. b \in W /\ w[b] = r
  BY <1>2, <1>4 DEF Owners
<1>6. CASE Fresh(call[t]) \/ Advanced(call[t])
  <2>1. b \in H
    BY <1>2, <1>3, <1>6 DEF Owners
  <2> QED
    BY <2>1, <1>2, <1>5 DEF Owners
<1>7. CASE ~(Fresh(call[t]) \/ Advanced(call[t]))
  <2>1. call[t].pc = "finish" /\ call[t].md # None
    BY <1>7 DEF Fresh, Advanced
  <2>2. PICK m \in Records : m = call[t].md
    BY <2>1, CallFacts DEF IInv
  <2>3. m = MdOf(call[t])
    BY <2>1, <2>2 DEF MdOf
  <2>4. kind[m] = "md" /\ of[m] = t
    BY <2>3, PlacesTyped DEF ThreadPlaces, In
  <2>5. record[m].state = "locked"
    BY <2>1, <2>4 DEF IInv, StatesAt, MdStates
  <2>6. record[m].block = b
    BY <2>1, <2>2, <1>3 DEF IInv, Described, HasLocked
  <2>7. ASSUME NEW u \in Threads
        PROVE  GoneOf(call[u]) # m
    <3>1. m # None
      BY RecordFacts
    <3>2. RollOf(call[u]) # None => record[RollOf(call[u])].state = "reclaimInProgress"
      BY DEF IInv, Rolling
    <3>3. RollOf(call[u]) # m
      BY <3>1, <3>2, <2>5
    <3> QED
      BY <3>1, <3>3 DEF GoneOf
  <2>8. Describes(m)
    BY <2>5, <2>7 DEF Describes, Active
  <2>9. w[b] = m
    BY <2>6, <2>8, <1>2 DEF Owners
  <2> QED
    BY <2>4, <2>9, <1>4, <1>5
<1> QED
  BY <1>6, <1>7

LEMMA PiecesMore ==
    ASSUME held \subseteq held', arena'.start = arena.start,
           \A b \in held : header'[b].index = header[b].index /\ header'[b].size = header[b].size
    PROVE  PiecesOut \subseteq PiecesOut'
<1>1. \A b \in held : BlockPiece(b)' = BlockPiece(b) /\ RecordPiece(b)' = RecordPiece(b)
  BY DEF BlockPiece, RecordPiece, RecordAt
<1>2. ASSUME NEW p \in PiecesOut
      PROVE  p \in PiecesOut'
  <2>1. PICK b \in held : p = BlockPiece(b) \/ p = RecordPiece(b)
    BY PiecesAre
  <2>2. b \in held' /\ (p = BlockPiece(b)' \/ p = RecordPiece(b)')
    BY <2>1, <1>1
  <2> QED
    BY <2>2 DEF PiecesOut, BlockPiece, RecordPiece
<1> QED
  BY <1>2

LEMMA PiecesFewer ==
    ASSUME held' \subseteq held, arena' = arena, header' = header
    PROVE  PiecesOut' \subseteq PiecesOut
BY DEF PiecesOut, RecordAt

LEMMA HeadersStay ==
    ASSUME NEW t \in Threads, Step(t), call[t].pc \notin {"finish", "frontRecheck", "lock"}
    PROVE  UNCHANGED <<header, held, arena>>
<1>1. CASE SearchPop(t) \/ Claim(t) \/ Finish(t) \/ Recycle(t) \/ Release(t) \/ Reserve(t)
           \/ PopRecord(t)
  BY <1>1 DEF SearchPop, Claim, Finish, Recycle, Release, Reserve, PopRecord
<1>2. CASE GrowReserve(t) \/ GrowCheck(t) \/ Grow(t) \/ GrowRecheck(t) \/ GrowUndo(t)
  BY <1>2 DEF GrowReserve, GrowCheck, Grow, GrowRecheck, GrowUndo, shared
<1>3. CASE FrontLook(t) \/ FrontAdvance(t) \/ FrontRecheck(t) \/ FrontUndo(t)
  BY <1>3 DEF FrontLook, FrontAdvance, FrontRecheck, FrontUndo, shared
<1>4. CASE Lock(t) \/ CountPending(t) \/ PushPending(t)
  BY <1>4 DEF Lock, CountPending, PushPending
<1>5. CASE OpenWindow(t) \/ Steal(t) \/ ReclaimBatch(t) \/ BatchScan(t) \/ BatchRoll(t)
           \/ Publish(t) \/ PushFree(t) \/ ReducePending(t)
  BY <1>5 DEF OpenWindow, Steal, ReclaimBatch, BatchScan, BatchRoll, Publish, PushFree, ReducePending
<1>6. CASE Reclaim(t) \/ Walk(t) \/ WalkLook(t) \/ WalkClaim(t) \/ WalkRoll(t)
           \/ WalkMark(t) \/ WalkEnd(t)
  BY <1>6 DEF Reclaim, Walk, WalkLook, WalkClaim, WalkRoll, WalkMark, WalkEnd, shared
<1>7. CASE TrimClaim(t) \/ TrimShrink(t) \/ TrimClear(t) \/ Close(t)
  BY <1>7 DEF TrimClaim, TrimShrink, TrimClear, Close
<1> QED
  BY <1>1, <1>2, <1>3, <1>4, <1>5, <1>6, <1>7 DEF Step

LEMMA StepOf ==
    ASSUME TypeInv, NEW t \in Threads, Step(t)
    PROVE  /\ call[t].pc = "finish" => Finish(t)
           /\ call[t].pc = "frontRecheck" => FrontRecheck(t)
           /\ call[t].pc = "lock" => Lock(t)
<1>1. CASE SearchPop(t) \/ Claim(t) \/ Finish(t) \/ Recycle(t) \/ Release(t) \/ Reserve(t)
           \/ PopRecord(t)
  <2>1. SearchPop(t) \/ Claim(t) => call[t].pc \in {"search", "claim"}
    BY DEF SearchPop, Claim
  <2>2. Recycle(t) \/ Release(t) => call[t].pc \in {"recycle", "release"}
    BY DEF Recycle, Release
  <2>3. Reserve(t) => call[t].pc = "reserve"
    <3>1. PICK c : c = IF call[t].manager = 0 THEN [call[t] EXCEPT !.seen = count] ELSE call[t]
      OBVIOUS
    <3>2. c.pc = call[t].pc
      <4>1. call[t] \in CallType
        BY DEF TypeInv
      <4> QED
        BY <3>1, <4>1 DEF CallType
    <3>3. Reserve(t) => c.pc = "reserve"
      BY <3>1 DEF Reserve
    <3> QED
      BY <3>2, <3>3
  <2>4. PopRecord(t) => call[t].pc = "popRecord"
    BY DEF PopRecord
  <2>5. Finish(t) => call[t].pc = "finish"
    BY DEF Finish
  <2> QED
    BY <1>1, <2>1, <2>2, <2>3, <2>4, <2>5
<1>2. CASE GrowReserve(t) \/ GrowCheck(t) \/ Grow(t) \/ GrowRecheck(t) \/ GrowUndo(t)
  BY <1>2 DEF GrowReserve, GrowCheck, Grow, GrowRecheck, GrowUndo
<1>3. CASE FrontLook(t) \/ FrontAdvance(t) \/ FrontRecheck(t) \/ FrontUndo(t)
  BY <1>3 DEF FrontLook, FrontAdvance, FrontRecheck, FrontUndo
<1>4. CASE Lock(t) \/ CountPending(t) \/ PushPending(t)
  BY <1>4 DEF Lock, CountPending, PushPending
<1>5. CASE OpenWindow(t) \/ Steal(t) \/ ReclaimBatch(t) \/ BatchScan(t) \/ BatchRoll(t)
           \/ Publish(t) \/ PushFree(t) \/ ReducePending(t)
  BY <1>5 DEF OpenWindow, Steal, ReclaimBatch, BatchScan, BatchRoll, Publish, PushFree, ReducePending
<1>6. CASE Reclaim(t) \/ Walk(t) \/ WalkLook(t) \/ WalkClaim(t) \/ WalkRoll(t)
           \/ WalkMark(t) \/ WalkEnd(t)
  BY <1>6 DEF Reclaim, Walk, WalkLook, WalkClaim, WalkRoll, WalkMark, WalkEnd
<1>7. CASE TrimClaim(t) \/ TrimShrink(t) \/ TrimClear(t) \/ Close(t)
  BY <1>7 DEF TrimClaim, TrimShrink, TrimClear, Close
<1> QED
  BY <1>1, <1>2, <1>3, <1>4, <1>5, <1>6, <1>7 DEF Step

LEMMA PiecesChange ==
    ASSUME Inv, [Next]_vars
    PROVE  PiecesOut \subseteq PiecesOut' \/ PiecesOut' \subseteq PiecesOut
<1>1. PICK kind, of : IInv(kind, of)
  BY DEF Inv
<1>2. CASE UNCHANGED vars
  BY <1>2, PiecesFewer DEF vars
<1>3. CASE \E t \in Threads : Begin(t)
  <2>1. PICK t \in Threads : Begin(t)
    BY <1>3
  <2>2. header' = header /\ held' = held /\ arena' = [arena EXCEPT !.calls[t] = @ - 1]
    BY <2>1 DEF Begin, Allocate, Deallocate, shared
  <2>3. arena \in [start : Blocks, calls : [Threads -> Nat]]
    BY <1>1 DEF IInv, TypeInv
  <2>4. arena'.start = arena.start
    BY <2>2, <2>3
  <2> QED
    BY <2>2, <2>4, PiecesMore
<1>4. ASSUME NEW t \in Threads, Step(t)
      PROVE  PiecesOut \subseteq PiecesOut' \/ PiecesOut' \subseteq PiecesOut
  <2>1. CASE call[t].pc \notin {"finish", "frontRecheck", "lock"}
    <3>1. UNCHANGED <<header, held, arena>>
      BY <1>4, <2>1, HeadersStay
    <3> QED
      BY <3>1, PiecesFewer
  <2>2. PICK b : b = call[t].block
    OBVIOUS
  <2>3. CASE call[t].pc = "finish"
    <3>1. Finish(t)
      BY <1>1, <1>4, <2>3, StepOf DEF IInv
    <3>2. PICK r : header' = [header EXCEPT ![b].index = r]
      BY <3>1, <2>2 DEF Finish
    <3>3. held \subseteq held' /\ arena' = arena
      BY <3>1 DEF Finish
    <3>4. b \notin held
      BY <2>2, <2>3, <1>1, TakenNotHeld
    <3>5. \A d \in held : header'[d].index = header[d].index /\ header'[d].size = header[d].size
      <4>1. header \in [Blocks -> HeaderType] /\ held \subseteq Blocks
        BY <1>1 DEF IInv, TypeInv
      <4> QED
        BY <4>1, <3>2, <3>4
    <3> QED
      BY <3>3, <3>5, PiecesMore
  <2>4. CASE call[t].pc = "frontRecheck"
    <3>1. FrontRecheck(t)
      BY <1>1, <1>4, <2>4, StepOf DEF IInv
    <3>2. held' = held /\ arena' = arena
      BY <3>1 DEF FrontRecheck
    <3>3. b \notin held
      BY <2>2, <2>4, <1>1, TakenNotHeld
    <3>4. CASE header' = header
      BY <3>2, <3>4, PiecesFewer
    <3>5. CASE header' # header
      <4>1. Kept(t)
        BY <3>1, <3>5 DEF FrontRecheck
      <4>4. header' = [header EXCEPT ![b].size = NextFrontier(call[t]) - b,
                                     ![b].previous = call[t].word.pred]
        BY <4>1, <2>2 DEF Kept
      <4>2. header \in [Blocks -> HeaderType] /\ held \subseteq Blocks
        BY <1>1 DEF IInv, TypeInv
      <4>3. \A d \in held : header'[d].index = header[d].index /\ header'[d].size = header[d].size
        BY <4>4, <4>2, <3>3
      <4> QED
        BY <4>3, <3>2, PiecesMore
    <3> QED
      BY <3>4, <3>5
  <2>5. CASE call[t].pc = "lock"
    <3>1. Lock(t)
      BY <1>1, <1>4, <2>5, StepOf DEF IInv
    <3>2. held' \subseteq held /\ arena' = arena /\ header' = header
      BY <3>1 DEF Lock
    <3> QED
      BY <3>2, PiecesFewer
  <2> QED
    BY <2>1, <2>3, <2>4, <2>5
<1> QED
  BY <1>2, <1>3, <1>4 DEF Next

LEMMA HeapSteps ==
    ASSUME Inv, Inv', [Next]_vars
    PROVE  [Heap!HandOut \/ Heap!TakeBack]_PiecesOut
<1>1. CASE PiecesOut' \subseteq PiecesOut
  BY <1>1 DEF Heap!TakeBack
<1>2. CASE PiecesOut \subseteq PiecesOut'
  <2>1. Apart'
    BY AllApart, PTL
  <2> QED
    BY <1>2, <2>1 DEF Apart, Heap!HandOut, Heap!Inside, Heap!Overlap
<1> QED
  BY <1>1, <1>2, PiecesChange

-----------------------------------------------------------------------------
(* The theorems.                                                           *)

\* The inductive invariant: every record is in one place with the state that goes with it, the
\* blocks below the frontier are tiles that the links thread, and every count covers what it counts.
THEOREM Invariance == Spec => []Inv
<1>1. Init => Inv
  BY FirstInv
<1>2. Inv /\ [Next]_vars => Inv'
  BY NextKeeps
<1> QED
  BY <1>1, <1>2, PTL DEF Spec

\* get_next_empty_memory_block, grow_metadata_region and the two ways the frontier goes back
\* (try_reclaim_frontier_blocks and reclaim_pending_frontier_batch): the memory below the
\* frontier is cut into blocks that never overlap, each with one record or one thread, their
\* links thread them all, and no settled block reaches a settled record.
THEOREM PartitionHolds == Spec => []Partition
BY Invariance, PartitionFollows, PTL

\* recycle_metadata, get_next_metadata_record_index, trim_metadata_records and the windows: no
\* metadata record is lost or in two places, a manager's count is that of its records out of
\* its stack, and the pending count of a shard is what its windows may still subtract.
THEOREM RecordsAreAccounted == Spec => []Accounted
BY Invariance, AccountedFollows, PTL

\* do_try_deallocate and its exchange of the state word: of the deallocations that saw a block in
\* use one wins, and those that lost cannot free it from whoever holds it next, for a version in
\* the state word does not come back while they are under way.
THEOREM LateFreesAreRefused == Spec => []LateFreeIsRefused
BY Invariance, LateFreesFollow, PTL

\* do_allocate and do_try_deallocate as their callers see them: the pieces handed out lie inside
\* the region, overlap neither each other nor a record in use, and no step of another call, of a
\* window or of the frontier moves or resizes a piece somebody holds.
THEOREM HeapIsImplemented == Spec => ImplementsHeap
<1>1. Init => PiecesOut = {}
  BY DEF Init, PiecesOut
<1>2. Inv /\ Inv' /\ [Next]_vars => [Heap!HandOut \/ Heap!TakeBack]_PiecesOut
  BY HeapSteps
<1> QED
  BY <1>1, <1>2, Invariance, PTL DEF Spec, ImplementsHeap, Heap!Spec, Heap!Init
==============================================================================
