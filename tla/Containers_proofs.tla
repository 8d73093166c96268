--------------------------- MODULE Containers_proofs ---------------------------
(***************************************************************************)
(* What the containers run checks on small instances, for any number of    *)
(* slots, values, threads and nodes, and any modulus of a counter.         *)
(*                                                                         *)
(* The queue: every object is constructed and destroyed once, and an       *)
(* operation of BoundedQueue happens where an index is moved.  The stacks: *)
(* what was read before an exchange that succeeds is still so at it, so    *)
(* that every such exchange is an operation of AtomicStack.  A wrapping    *)
(* counter is enough while it does not go all the way round under one      *)
(* stalled thread, which is in the guards of the two models.               *)
(***************************************************************************)
EXTENDS MCContainers, FunctionTheorems, SequenceTheorems, WellFoundedInduction,
        FiniteSetTheorems, TLAPS

-----------------------------------------------------------------------------
(* The single-producer queue                                               *)

USE SizeAssumption, ValuesAssumption

-----------------------------------------------------------------------------
\* How many slots the window from read_index_ to write_index_ has, and which they are.
Count == IF readIndex <= writeIndex THEN writeIndex - readIndex ELSE writeIndex - readIndex + Size

InWindow(i) == IF readIndex <= writeIndex THEN readIndex <= i /\ i < writeIndex
                                          ELSE readIndex <= i \/ i < writeIndex

\* What each side knows between two of its steps.
Control ==
    /\ ppc = "idle" => value = Raw
    /\ ppc # "idle" => value \in Values /\ alive /\ Succ(writeIndex) # readIndex
    /\ ppc = "publish" => elements[writeIndex] = value
    /\ cpc = "idle" => out = Raw /\ gone = Raw
    /\ cpc # "idle" => alive /\ readIndex # writeIndex
    /\ cpc \in {"move", "destroy"} => gone = Raw
    /\ cpc = "destroy" /\ keep => out = elements[readIndex]
    /\ cpc = "release" => gone \in Values /\ (keep => out = gone)
    /\ epc # "idle" => alive
    /\ epc \in {"idle", "read"}

\* The slots that hold an object.
Constructed(i) ==
    /\ alive
    /\ \/ InWindow(i) /\ ~(i = readIndex /\ cpc = "release")
       \/ i = writeIndex /\ ppc = "publish"

QueueInv ==
    /\ TypeOK /\ Control
    /\ \A i \in Slots : elements[i] # Raw <=> Constructed(i)

-----------------------------------------------------------------------------
\* The arithmetic of the ring.
LEMMA Remainder ==
    ASSUME NEW x \in Nat, x < 2 * Size
    PROVE  x % Size = IF x < Size THEN x ELSE x - Size
<1>1. CASE x < Size
  BY <1>1
<1>2. CASE x >= Size
  BY <1>2
<1> QED
  BY <1>1, <1>2

LEMMA UsedFacts ==
    ASSUME TypeOK
    PROVE  /\ Count \in 0 .. Size - 1 /\ DOMAIN Used = 1 .. Count
           /\ \A d \in 1 .. Count :
                Used[d] = IF readIndex + d - 1 < Size THEN readIndex + d - 1
                                                      ELSE readIndex + d - 1 - Size
           /\ Count = 0 <=> readIndex = writeIndex
           /\ Count > 0 => Used[1] = readIndex
<1> USE DEF TypeOK, Slots, Count
<1>1. Count \in 0 .. Size - 1 /\ (Count = 0 <=> readIndex = writeIndex)
  OBVIOUS
<1>2. (writeIndex - readIndex + Size) % Size = Count
  <2> DEFINE x == writeIndex - readIndex + Size
  <2>1. x \in Nat /\ x < 2 * Size /\ Count = IF x < Size THEN x ELSE x - Size
    OBVIOUS
  <2> HIDE DEF x, TypeOK, Count
  <2>2. x % Size = Count
    BY <2>1, Remainder
  <2> QED
    BY <2>2 DEF x
<1>3. ASSUME NEW d \in 1 .. Count
      PROVE  (readIndex + d - 1) % Size =
                IF readIndex + d - 1 < Size THEN readIndex + d - 1 ELSE readIndex + d - 1 - Size
  <2> DEFINE x == readIndex + d - 1
  <2>1. x \in Nat /\ x < 2 * Size
    BY <1>1
  <2>2. readIndex \in Nat /\ d \in Nat /\ Size \in Nat
    BY <1>1
  <2> HIDE DEF x, TypeOK, Count
  <2>3. x % Size = IF x < Size THEN x ELSE x - Size
    BY <2>1, Remainder
  <2> QED
    BY <2>2, <2>3 DEF x
<1> HIDE DEF Count
<1>4. Used = [d \in 1 .. Count |-> (readIndex + d - 1) % Size]
  BY <1>2 DEF Used
<1>5. DOMAIN Used = 1 .. Count /\ \A d \in 1 .. Count : Used[d] = (readIndex + d - 1) % Size
  BY <1>4
<1>6. Count > 0 => Used[1] = readIndex
  <2>1. Count > 0 => 1 \in 1 .. Count
    BY <1>1
  <2>2. readIndex \in Nat /\ readIndex < Size /\ readIndex + 1 - 1 = readIndex
    OBVIOUS
  <2> QED
    BY <1>3, <1>5, <2>1, <2>2
<1> QED
  BY <1>1, <1>3, <1>5, <1>6

\* The slots of the window.
LEMMA UsedSlots ==
    ASSUME TypeOK
    PROVE  {Used[d] : d \in DOMAIN Used} = {i \in Slots : InWindow(i)}
<1>1. \A d \in 1 .. Count : Used[d] \in Slots /\ InWindow(Used[d])
  BY UsedFacts DEF TypeOK, Slots, Count, InWindow
<1>2. ASSUME NEW i \in Slots, InWindow(i) PROVE \E d \in 1 .. Count : Used[d] = i
  <2> DEFINE d == IF readIndex <= i THEN i - readIndex + 1 ELSE i - readIndex + 1 + Size
  <2>1. d \in 1 .. Count
    BY <1>2 DEF TypeOK, Slots, Count, InWindow
  <2>2. Used[d] = i
    BY <1>2, <2>1, UsedFacts DEF TypeOK, Slots
  <2> QED
    BY <2>1, <2>2
<1> QED
  BY <1>1, <1>2, UsedFacts

-----------------------------------------------------------------------------
LEMMA QueueBegins == Init => QueueInv
BY DEF Init, QueueInv, TypeOK, Control, Constructed, InWindow, Slots, Raw

LEMMA QueueStep == QueueInv /\ [Next]_vars => QueueInv'
<1> SUFFICES ASSUME QueueInv, [Next]_vars PROVE QueueInv'
  OBVIOUS
<1> USE DEF QueueInv, producerVars, consumerVars, estimateVars
<1>1. CASE PushBegin
  BY <1>1 DEF PushBegin, TypeOK, Control, Constructed, InWindow, IsFull, Raw
<1>2. CASE Construct
  <2> USE <1>2 DEF Construct
  <2>1. TypeOK'
    BY DEF TypeOK, Control
  <2>2. Control' /\ ~InWindow(writeIndex) /\ value # Raw
    BY DEF TypeOK, Control, InWindow, Slots, Raw
  <2>3. \A i \in Slots : elements'[i] # Raw <=> Constructed(i)'
    BY <2>2 DEF TypeOK, Control, Constructed, InWindow
  <2> QED
    BY <2>1, <2>2, <2>3
<1>3. CASE Publish
  <2> USE <1>3 DEF Publish
  <2>1. TypeOK'
    BY DEF TypeOK, Succ, Slots
  <2>2. Control'
    BY DEF Control, TypeOK
  <2>3. \A i \in Slots : InWindow(i)' <=> InWindow(i) \/ i = writeIndex
    BY DEF TypeOK, Control, InWindow, Succ, Slots
  <2>4. cpc = "release" => readIndex # writeIndex
    BY DEF Control
  <2>5. \A i \in Slots : elements'[i] # Raw <=> Constructed(i)'
    BY <2>3, <2>4 DEF Control, Constructed
  <2> QED
    BY <2>1, <2>2, <2>5
<1>4. CASE PopBegin
  BY <1>4 DEF PopBegin, TypeOK, Control, Constructed, InWindow
<1>5. CASE Move
  BY <1>5 DEF Move, TypeOK, Control, Constructed, InWindow
<1>6. CASE DestroyFront
  <2> USE <1>6 DEF DestroyFront, DestroyElement
  <2>1. TypeOK' /\ InWindow(readIndex)
    BY DEF TypeOK, Control, InWindow, Slots
  <2>2. gone' \in Values
    BY <2>1 DEF TypeOK, Control, Constructed
  <2>3. Control'
    BY <2>2 DEF TypeOK, Control, Raw
  <2>4. \A i \in Slots : elements'[i] # Raw <=> Constructed(i)'
    BY DEF TypeOK, Control, Constructed, InWindow
  <2> QED
    BY <2>1, <2>3, <2>4
<1>7. CASE Release
  <2> USE <1>7 DEF Release
  <2>1. TypeOK'
    BY DEF TypeOK, Succ, Slots
  <2>2. Control'
    BY DEF Control, TypeOK, Succ, Slots
  <2>3. \A i \in Slots : InWindow(i)' <=> InWindow(i) /\ i # readIndex
    BY DEF TypeOK, Control, InWindow, Succ, Slots
  <2>4. \A i \in Slots : elements'[i] # Raw <=> Constructed(i)'
    BY <2>3 DEF Control, Constructed
  <2> QED
    BY <2>1, <2>2, <2>4
<1>8. CASE EstimateBegin
  BY <1>8 DEF EstimateBegin, TypeOK, Control, Constructed, InWindow
<1>9. CASE EstimateEnd
  <2> USE <1>9 DEF EstimateEnd
  <2>1. TypeOK'
    BY DEF TypeOK, Guess, Slots
  <2>2. Control' /\ \A i \in Slots : elements'[i] # Raw <=> Constructed(i)'
    BY DEF Control, Constructed, InWindow
  <2> QED
    BY <2>1, <2>2
<1>10. CASE Destroy
  <2> USE <1>10 DEF Destroy
  <2>1. \A i \in Slots : elements'[i] = IF InWindow(i) THEN Raw ELSE elements[i]
    BY UsedSlots
  <2>2. TypeOK' /\ Control'
    <3>1. elements' \in [Slots -> Values \cup {Raw}]
      BY DEF TypeOK
    <3> QED
      BY <3>1 DEF TypeOK, Control
  <2>3. \A i \in Slots : elements'[i] # Raw <=> Constructed(i)'
    BY <2>1 DEF Control, Constructed
  <2> QED
    BY <2>2, <2>3
<1>11. CASE UNCHANGED vars
  BY <1>11 DEF vars, TypeOK, Control, Constructed, InWindow
<1> QED
  BY <1>1, <1>2, <1>3, <1>4, <1>5, <1>6, <1>7, <1>8, <1>9, <1>10, <1>11 DEF Next

\* Which slots hold an object says what ObjectLifetimes does.
LEMMA LifetimesFollow == QueueInv => ObjectLifetimes
<1>1. ASSUME QueueInv PROVE ObjectLifetimes
  <2>1. {i \in Slots : elements[i] # Raw} = {i \in Slots : Constructed(i)}
    BY <1>1 DEF QueueInv
  <2>2. TypeOK /\ readIndex \in Slots /\ writeIndex \in Slots
            /\ (ppc = "publish" => ~InWindow(writeIndex))
    BY <1>1 DEF QueueInv, TypeOK, InWindow, Slots
  <2>3. cpc = "release" /\ ppc = "publish" => readIndex # writeIndex
    BY <1>1 DEF QueueInv, Control
  <2> QED
    BY <2>1, <2>2, <2>3, UsedSlots DEF ObjectLifetimes, Constructed
<1> QED
  BY <1>1

-----------------------------------------------------------------------------
\* The queue the callers see: its Count elements, oldest first.
Entry(d) == IF d = 1 /\ cpc = "release" THEN gone ELSE elements[Used[d]]

Queue == IF ~alive THEN <<>> ELSE [d \in DOMAIN Used |-> Entry(d)]

LEMMA FunctionIsSeq ==
    ASSUME NEW n \in Nat, NEW s \in [1 .. n -> Values]
    PROVE  s \in Seq(Values) /\ Len(s) = n
<1>1. s \in Seq(Values)
  BY SeqDef
<1>2. Len(s) \in Nat /\ 1 .. Len(s) = 1 .. n
  BY <1>1, LenProperties
<1> QED
  BY <1>1, <1>2

LEMMA AppendPointwise ==
    ASSUME NEW n \in Nat, NEW s \in [1 .. n -> Values], NEW v \in Values,
           NEW t \in [1 .. n + 1 -> Values], \A d \in 1 .. n : t[d] = s[d], t[n + 1] = v
    PROVE  Len(s) = n /\ t = Append(s, v)
<1>1. s \in Seq(Values) /\ Len(s) = n
  BY FunctionIsSeq
<1>2. t \in Seq(Values) /\ Len(t) = n + 1
  BY FunctionIsSeq
<1>3. Append(s, v) \in Seq(Values) /\ Len(Append(s, v)) = n + 1
  BY <1>1, AppendProperties
<1>4. \A d \in 1 .. n + 1 : t[d] = Append(s, v)[d]
  BY <1>1, AppendProperties
<1> QED
  BY <1>1, <1>2, <1>3, <1>4, SeqEqual

LEMMA TailPointwise ==
    ASSUME NEW n \in Nat, NEW s \in [1 .. n + 1 -> Values],
           NEW t \in [1 .. n -> Values], \A d \in 1 .. n : t[d] = s[d + 1]
    PROVE  s # <<>> /\ Head(s) = s[1] /\ t = Tail(s)
<1>1. s \in Seq(Values) /\ Len(s) = n + 1
  BY FunctionIsSeq, n + 1 \in Nat
<1>2. t \in Seq(Values) /\ Len(t) = n
  BY FunctionIsSeq
<1>3. s # <<>> /\ Head(s) = s[1]
  BY <1>1, EmptySeq
<1>4. Tail(s) \in Seq(Values) /\ Len(Tail(s)) = n /\ \A d \in 1 .. n : Tail(s)[d] = s[d + 1]
  BY <1>1, <1>3, HeadTailProperties
<1> QED
  BY <1>2, <1>3, <1>4, SeqEqual

LEMMA QueueFacts ==
    QueueInv /\ alive =>
        /\ Queue = [d \in 1 .. Count |-> Entry(d)]
        /\ \A d \in 1 .. Count : Entry(d) \in Values
        /\ cpc = "release" => Count > 0
<1> SUFFICES ASSUME QueueInv, alive
             PROVE  /\ Queue = [d \in 1 .. Count |-> Entry(d)]
                    /\ \A d \in 1 .. Count : Entry(d) \in Values
                    /\ cpc = "release" => Count > 0
  OBVIOUS
<1>1. TypeOK /\ Control
  BY DEF QueueInv
<1>2. ASSUME NEW d \in 1 .. Count PROVE Entry(d) \in Values
  <2>1. Used[d] \in Slots /\ InWindow(Used[d])
    BY <1>1, UsedFacts, UsedSlots
  <2>2. d # 1 => Used[d] # readIndex
    BY <1>1, UsedFacts DEF TypeOK, Slots
  <2>3. CASE d = 1 /\ cpc = "release"
    BY <1>1, <2>3 DEF Entry, Control
  <2>4. CASE ~(d = 1 /\ cpc = "release")
    <3>1. elements[Used[d]] # Raw
      BY <2>1, <2>2, <2>4 DEF QueueInv, Constructed
    <3> QED
      BY <1>1, <2>1, <2>4, <3>1 DEF Entry, TypeOK
  <2> QED
    BY <2>3, <2>4
<1>3. cpc = "release" => Count > 0
  BY <1>1, UsedFacts DEF Control
<1> QED
  BY <1>1, <1>2, <1>3, UsedFacts DEF Queue

\* The same in the next state.
LEMMA QueueFactsNext ==
    (QueueInv /\ alive =>
        /\ Queue = [d \in 1 .. Count |-> Entry(d)]
        /\ \A d \in 1 .. Count : Entry(d) \in Values
        /\ cpc = "release" => Count > 0)'
BY QueueFacts, PTL

LEMMA UsedFactsNext ==
    (TypeOK => \A d \in 1 .. Count :
        Used[d] = IF readIndex + d - 1 < Size THEN readIndex + d - 1 ELSE readIndex + d - 1 - Size)'
<1>1. TypeOK => \A d \in 1 .. Count :
        Used[d] = IF readIndex + d - 1 < Size THEN readIndex + d - 1 ELSE readIndex + d - 1 - Size
  BY UsedFacts
<1> QED
  BY <1>1, PTL

LEMMA QueueKept ==
    ASSUME QueueInv, QueueInv', UNCHANGED <<readIndex, writeIndex, alive>>,
           alive => \A d \in 1 .. Count : Entry(d)' = Entry(d)
    PROVE  UNCHANGED Queue
<1>1. Count' = Count
  BY DEF Count
<1>2. CASE alive
  BY <1>1, <1>2, QueueFacts, QueueFactsNext
<1>3. CASE ~alive
  BY <1>3 DEF Queue
<1> QED
  BY <1>2, <1>3

\* An operation of the bounded queue takes place where an index is moved.
LEMMA QueueMoves ==
    ASSUME QueueInv, QueueInv', [Next]_vars
    PROVE  \/ /\ alive = TRUE /\ Len(Queue) < Size - 1
              /\ \E v \in Values : Queue' = Append(Queue, v)
              /\ UNCHANGED <<got, alive>>
           \/ /\ alive = TRUE /\ Queue # <<>> /\ Queue' = Tail(Queue)
              /\ got' = Head(Queue) \/ got' = got
              /\ UNCHANGED alive
           \/ alive = TRUE /\ Queue' = <<>> /\ alive' = FALSE /\ UNCHANGED got
           \/ UNCHANGED <<Queue, got, alive>>
<1> USE DEF producerVars, consumerVars, estimateVars
<1>0. TypeOK /\ Control /\ TypeOK' /\ Control'
  BY DEF QueueInv
<1>1. CASE Publish
  <2>1. alive /\ value \in Values /\ elements[writeIndex] = value /\ Succ(writeIndex) # readIndex
    BY <1>0, <1>1 DEF Publish, Control
  <2>2. alive' /\ alive = TRUE /\ UNCHANGED <<got, alive>>
    BY <1>0, <1>1, <2>1 DEF Publish, TypeOK
  <2>3. Count \in Nat /\ Count' = Count + 1 /\ Count < Size - 1
    BY <1>0, <1>1, <2>1 DEF Publish, Count, TypeOK, Slots, Succ
  <2>4. PICK n \in Nat : n = Count
    BY <2>3
  <2>5. \A d \in 1 .. n + 1 : Used'[d] =
            IF readIndex + d - 1 < Size THEN readIndex + d - 1 ELSE readIndex + d - 1 - Size
    BY <1>0, <1>1, <2>3, <2>4, UsedFactsNext DEF Publish
  <2>6. \A d \in 1 .. n : Used'[d] = Used[d]
    BY <1>0, <2>4, <2>5, UsedFacts
  <2>7. Used'[n + 1] = writeIndex
    BY <1>0, <2>3, <2>4, <2>5 DEF Count, TypeOK, Slots
  <2>8. \A d \in 1 .. n : Entry(d)' = Entry(d)
    BY <1>1, <2>6 DEF Publish, Entry
  <2>9. Entry(n + 1)' = value
    <3>1. n + 1 = 1 => cpc # "release"
      BY <2>1, <2>4, QueueFacts
    <3> QED
      BY <1>1, <2>1, <2>7, <3>1 DEF Publish, Entry
  <2>10. Queue \in [1 .. n -> Values] /\ \A d \in 1 .. n : Queue[d] = Entry(d)
    BY <2>1, <2>4, QueueFacts
  <2>11. Queue' = [d \in 1 .. n + 1 |-> Entry(d)'] /\ \A d \in 1 .. n + 1 : Entry(d)' \in Values
    BY <2>2, <2>3, <2>4, QueueFactsNext
  <2>12. /\ Queue' \in [1 .. n + 1 -> Values] /\ Queue'[n + 1] = value
         /\ \A d \in 1 .. n : Queue'[d] = Queue[d]
    BY <2>8, <2>9, <2>10, <2>11
  <2>13. Queue' = Append(Queue, value) /\ Len(Queue) = n
    BY <2>1, <2>10, <2>12, AppendPointwise
  <2> QED
    BY <2>1, <2>2, <2>3, <2>4, <2>13
<1>2. CASE Release
  <2>1. alive = TRUE /\ alive' /\ UNCHANGED <<alive, writeIndex, elements>>
    BY <1>0, <1>2 DEF Release, TypeOK, Control
  <2>2. Count' \in Nat /\ Count = Count' + 1
    BY <1>0, <1>2 DEF Release, Count, TypeOK, Slots, Succ, Control
  <2>0. PICK n \in Nat : n = Count'
    BY <2>2
  <2>3. \A d \in 1 .. n : Used'[d] = Used[d + 1]
    <3>0. \A d \in 1 .. n : d + 1 \in 1 .. Count /\ readIndex + (d + 1) - 1 = readIndex + d
      <4>1. readIndex \in Nat
        BY <1>0 DEF TypeOK, Slots
      <4>2. Count = n + 1
        BY <2>0, <2>2
      <4>3. ASSUME NEW d \in 1 .. n PROVE d + 1 \in 1 .. n + 1
                       /\ readIndex + (d + 1) - 1 = readIndex + d
        BY <4>1
      <4> QED
        BY <4>2, <4>3
    <3>1. \A d \in 1 .. n : Used'[d] =
              IF readIndex' + d - 1 < Size THEN readIndex' + d - 1 ELSE readIndex' + d - 1 - Size
      BY <1>0, <2>0, UsedFactsNext
    <3>2. \A d \in 1 .. n : Used[d + 1] =
              IF readIndex + d < Size THEN readIndex + d ELSE readIndex + d - Size
      BY <1>0, <3>0, UsedFacts
    <3>3. readIndex \in Nat /\ readIndex < Size /\ readIndex' = Succ(readIndex) /\ n + 1 < Size
      BY <1>0, <1>2, <2>0, <2>1, <2>2 DEF Release, TypeOK, Slots, Count
    <3> QED
      BY <3>1, <3>2, <3>3 DEF Succ
  <2>4. \A d \in 1 .. n : Entry(d)' = Entry(d + 1)
    BY <1>2, <2>1, <2>2, <2>3 DEF Release, Entry
  <2>5. Entry(1) = gone
    BY <1>2 DEF Release, Entry
  <2>6. Queue \in [1 .. n + 1 -> Values] /\ \A d \in 1 .. n + 1 : Queue[d] = Entry(d)
    BY <2>0, <2>1, <2>2, QueueFacts
  <2>7. Queue' = [d \in 1 .. n |-> Entry(d)'] /\ \A d \in 1 .. n : Entry(d)' \in Values
    BY <2>0, <2>1, QueueFactsNext
  <2>8. Queue' \in [1 .. n -> Values] /\ \A d \in 1 .. n : Queue'[d] = Queue[d + 1]
    <3>1. \A d \in 1 .. n : d + 1 \in 1 .. n + 1
      OBVIOUS
    <3> QED
      BY <2>4, <2>6, <2>7, <3>1
  <2>9. Queue # <<>> /\ Head(Queue) = gone /\ Queue' = Tail(Queue)
    BY <2>5, <2>6, <2>8, TailPointwise
  <2>10. got' = gone \/ got' = got
    BY <1>0, <1>2 DEF Release, Control
  <2> QED
    BY <2>1, <2>9, <2>10
<1>3. CASE Destroy
  BY <1>0, <1>3 DEF Destroy, Queue, TypeOK
<1>4. CASE Construct
  <2>1. \A d \in 1 .. Count : Used[d] # writeIndex
    <3>1. ~InWindow(writeIndex)
      BY <1>0 DEF InWindow, TypeOK, Slots
    <3> QED
      BY <1>0, <3>1, UsedFacts, UsedSlots
  <2>2. UNCHANGED <<Used, Count>>
    BY <1>4 DEF Construct, Used, Count
  <2> QED
    BY <1>0, <1>4, <2>1, <2>2, QueueKept, UsedFacts DEF Construct, Entry, TypeOK
<1>5. CASE DestroyFront
  <2>1. UNCHANGED <<readIndex, writeIndex, alive, got, Used, Count>>
    BY <1>5 DEF DestroyFront, Used, Count
  <2>2. \A d \in 1 .. Count : Used[d] \in Slots /\ (d = 1 <=> Used[d] = readIndex)
    <3>1. \A d \in 1 .. Count : Used[d] \in Slots
      BY <1>0, UsedFacts, UsedSlots
    <3>2. ASSUME NEW d \in 1 .. Count, Used[d] = readIndex PROVE d = 1
      <4>1. readIndex \in Nat /\ readIndex < Size /\ Count \in Nat /\ Count < Size
        BY <1>0, UsedFacts DEF TypeOK, Slots
      <4>2. Used[d] = IF readIndex + d - 1 < Size THEN readIndex + d - 1
                                                  ELSE readIndex + d - 1 - Size
        BY <1>0, UsedFacts
      <4> QED
        BY <3>2, <4>1, <4>2
    <3> QED
      BY <1>0, <3>1, <3>2, UsedFacts
  <2>3. \A i \in Slots : i # readIndex => elements'[i] = elements[i]
    BY <1>0, <1>5 DEF DestroyFront, DestroyElement, TypeOK
  <2>4. cpc = "destroy" /\ cpc' = "release" /\ gone' = elements[readIndex]
    BY <1>5 DEF DestroyFront
  <2>5. \A d \in 1 .. Count : Entry(d)' = Entry(d)
    BY <2>1, <2>2, <2>3, <2>4 DEF Entry
  <2> QED
    BY <2>1, <2>5, QueueKept
<1>6. CASE PushBegin \/ PopBegin \/ Move \/ EstimateBegin \/ EstimateEnd \/ UNCHANGED vars
  <2>1. UNCHANGED <<readIndex, writeIndex, elements, alive, got>>
    BY <1>6 DEF PushBegin, PopBegin, Move, EstimateBegin, EstimateEnd, vars
  <2>2. UNCHANGED gone /\ (cpc' = "release" <=> cpc = "release")
    BY <1>6 DEF PushBegin, PopBegin, Move, EstimateBegin, EstimateEnd, vars
  <2>3. UNCHANGED Queue
    BY <2>1, <2>2 DEF Queue, Entry, Used
  <2> QED
    BY <2>1, <2>3
<1> QED
  BY <1>1, <1>2, <1>3, <1>4, <1>5, <1>6 DEF Next

LEMMA QueueBeginsEmpty == Init => Q!QueueInit
<1> SUFFICES ASSUME Init PROVE Q!QueueInit
  OBVIOUS
<1>1. QueueInv /\ alive = TRUE /\ Count = 0
  BY QueueBegins DEF Init, Count
<1>2. Queue = [d \in 1 .. 0 |-> Entry(d)]
  BY <1>1, QueueFacts
<1>3. Queue = <<>>
  BY <1>2
<1>4. got \notin Values
  BY DEF Init, Raw
<1> QED
  BY <1>1, <1>3, <1>4 DEF Q!QueueInit, Queue, Entry

LEMMA QueueStepRefines ==
    QueueInv /\ QueueInv' /\ [Next]_vars => [Q!QueueNext]_(Q!queueVars)
BY QueueMoves DEF Q!QueueNext, Q!queueVars, Q!Push, Q!Pop, Q!Drop, Q!Discard, Queue, Entry

-----------------------------------------------------------------------------
(* The value stack                                                         *)

Wrapped(n) == IF n < GenModulus THEN n ELSE n - GenModulus

\* Only the producer pushes, so that between its read of the state and its exchange the
\* generation stays and the count falls; the slot it writes is above the count.
ProducerControl ==
    /\ vPc[Producer] \in {"idle", "write", "pushCas"}
    /\ vPc[Producer] # "idle" =>
         /\ vValue[Producer] \in vOut
         /\ vState.gen = vOld[Producer].gen /\ vState.count <= vOld[Producer].count
    /\ vPc[Producer] = "pushCas" =>
         /\ vOld[Producer].count < Capacity
         /\ vSlots[vOld[Producer].count] = vValue[Producer]

\* The generation tells how often the stack was pushed to while a consumer was stalled. While
\* it was not, a count that is still the same means that the top slot was not written.
ConsumerControl(c) ==
    /\ vPc[c] \in {"idle", "read", "popCas"}
    /\ vPc[c] # "idle" => vState.gen = Wrapped(vOld[c].gen + vPushes[c])
    /\ vPc[c] # "idle" /\ vPushes[c] = 0 => vState.count <= vOld[c].count
    /\ vPc[c] = "popCas" =>
         /\ vOld[c].count # 0
         /\ vPushes[c] = 0 /\ vState.count = vOld[c].count => vValue[c] = vSlots[vOld[c].count - 1]

StackInv ==
    /\ V!TypeOK /\ ProducerControl
    /\ \A c \in Consumers : ConsumerControl(c)
    /\ \A i \in 0 .. Capacity - 1 : i < vState.count => vSlots[i] \in StackValues

-----------------------------------------------------------------------------
LEMMA StackSizes ==
    /\ Capacity \in Nat /\ Capacity >= 1 /\ GenModulus \in Nat /\ GenModulus >= 2
    /\ Producer \notin Consumers /\ NoValue \notin StackValues /\ Producer \in V!Threads
    /\ V!EmptyState \in V!States /\ V!EmptyState.gen = 0 /\ V!EmptyState.count = 0
<1>1. 0 \in 0 .. GenModulus - 1 /\ 0 \in 0 .. Capacity
  BY ValueStackSizes DEF V!SizesAssumption
<1> QED
  BY <1>1, ValueStackSizes DEF V!SizesAssumption, V!Threads, V!States, V!EmptyState

LEMMA GenFacts ==
    ASSUME NEW n \in 0 .. GenModulus - 1
    PROVE  (n + 1) % GenModulus = Wrapped(n + 1) /\ Wrapped(n + 1) \in 0 .. GenModulus - 1
<1>1. CASE n + 1 < GenModulus
  BY <1>1, StackSizes DEF Wrapped
<1>2. CASE n + 1 = GenModulus
  BY <1>2, StackSizes DEF Wrapped
<1> QED
  BY <1>1, <1>2, StackSizes

-----------------------------------------------------------------------------
LEMMA StackBegins == V!Init => StackInv
<1> SUFFICES ASSUME V!Init PROVE StackInv
  OBVIOUS
<1> USE StackSizes DEF V!Init
<1>1. V!TypeOK
  BY DEF V!TypeOK
<1>2. ProducerControl
  BY DEF ProducerControl
<1>3. \A c \in Consumers : ConsumerControl(c)
  BY DEF ConsumerControl, V!Threads
<1>4. \A i \in 0 .. Capacity - 1 : ~(i < vState.count)
  OBVIOUS
<1> QED
  BY <1>1, <1>2, <1>3, <1>4 DEF StackInv

LEMMA StackStep == StackInv /\ [V!Next]_(V!vars) => StackInv'
<1> SUFFICES ASSUME StackInv, [V!Next]_(V!vars) PROVE StackInv'
  OBVIOUS
<1> DEFINE Filled == \A i \in 0 .. Capacity - 1 : i < vState.count => vSlots[i] \in StackValues
<1> USE DEF StackInv
<1>1. CASE V!PushBegin
  <2> USE <1>1 DEF V!PushBegin, V!Goto, V!ReadState
  <2>1. PICK v \in vOut : vValue' = [vValue EXCEPT ![Producer] = v]
    OBVIOUS
  <2>2. V!TypeOK'
    BY <2>1, StackSizes DEF V!TypeOK
  <2>3. ProducerControl'
    BY <2>1, StackSizes DEF V!TypeOK, ProducerControl, V!States
  <2>4. \A c \in Consumers : ConsumerControl(c)'
    BY <2>1, StackSizes DEF V!TypeOK, ConsumerControl, V!Threads
  <2> QED
    BY <2>2, <2>3, <2>4
<1>2. CASE V!PushFull
  <2> USE <1>2 DEF V!PushFull, V!Goto, V!Finish
  <2>1. V!TypeOK'
    BY StackSizes DEF V!TypeOK
  <2>2. ProducerControl'
    BY StackSizes DEF V!TypeOK, ProducerControl
  <2>3. \A c \in Consumers : ConsumerControl(c)'
    BY StackSizes DEF V!TypeOK, ConsumerControl, V!Threads
  <2> QED
    BY <2>1, <2>2, <2>3
<1>3. CASE V!PushWrite
  <2> USE <1>3 DEF V!PushWrite, V!Goto
  <2> DEFINE k == vOld[Producer].count
  <2>1. k \in 0 .. Capacity - 1 /\ vState.count <= k /\ vValue[Producer] \in StackValues
        /\ vState.count \in Nat
    BY StackSizes DEF V!TypeOK, V!States, ProducerControl, V!IsFull
  <2> HIDE DEF k
  <2>2. /\ vSlots' = [vSlots EXCEPT ![k] = vValue[Producer]]
               /\ vPc' = [vPc EXCEPT ![Producer] = "pushCas"]
        /\ UNCHANGED <<vState, vOut, vOld, vValue, vPushes>> /\ vPc[Producer] = "write"
    BY DEF k
  <2>3. V!TypeOK'
    BY <2>1, <2>2, StackSizes DEF V!TypeOK
  <2>4. ProducerControl'
    BY <2>1, <2>2, StackSizes DEF V!TypeOK, ProducerControl, k
  <2>5. ASSUME NEW c \in Consumers PROVE ConsumerControl(c)'
    <3>1. c # Producer /\ c \in V!Threads
      BY StackSizes DEF V!Threads
    <3>2. vOld[c].count \in Nat /\ vOld[c].count <= Capacity
      BY <3>1, StackSizes DEF V!TypeOK, V!States
    <3>3. vState.count = vOld[c].count
              /\ vOld[c].count # 0 => vSlots'[vOld[c].count - 1] = vSlots[vOld[c].count - 1]
      BY <2>1, <2>2, <3>2, StackSizes DEF V!TypeOK
    <3> QED
      BY <2>2, <3>1, <3>3 DEF ConsumerControl, V!TypeOK
  <2>6. Filled'
    BY <2>1, <2>2 DEF V!TypeOK
  <2> QED
    BY <2>3, <2>4, <2>5, <2>6
<1>4. CASE V!PushCas
  <2> USE <1>4 DEF V!PushCas, V!Goto, V!Finish
  <2> DEFINE k == vState.count
  <2>1. /\ k \in 0 .. Capacity - 1 /\ vState.gen \in 0 .. GenModulus - 1
        /\ vSlots[k] = vValue[Producer] /\ vValue[Producer] \in StackValues
    BY StackSizes DEF V!TypeOK, ProducerControl, V!States
  <2>2. vState' = [gen |-> Wrapped(vState.gen + 1), count |-> k + 1] /\ vState' \in V!States
    BY <2>1, GenFacts, StackSizes DEF V!Pushed, V!States
  <2>3. vState'.gen = Wrapped(vState.gen + 1) /\ vState'.count = k + 1
    BY <2>2
  <2> HIDE DEF k
  <2>4. \A t \in V!Threads : vPushes'[t] \in 0 .. GenModulus - 1
    <3> SUFFICES ASSUME NEW t \in V!Threads PROVE vPushes'[t] \in 0 .. GenModulus - 1
      OBVIOUS
    <3>1. vPc[t] # "idle" /\ t # Producer => vPushes[t] \in Nat /\ vPushes[t] + 1 < GenModulus
      BY DEF V!Threads, V!TypeOK
    <3>2. vPushes'[t] = IF vPc[t] # "idle" /\ t # Producer THEN vPushes[t] + 1 ELSE 0
      OBVIOUS
    <3> QED
      BY <3>1, <3>2, StackSizes
  <2>5. V!TypeOK'
    BY <2>2, <2>4, StackSizes DEF V!TypeOK
  <2>6. ProducerControl'
    BY StackSizes DEF V!TypeOK, ProducerControl
  <2>7. ASSUME NEW c \in Consumers PROVE ConsumerControl(c)'
    <3>1. c # Producer /\ c \in V!Threads
      BY StackSizes DEF V!Threads
    <3>2. vPc'[c] = vPc[c] /\ vOld'[c] = vOld[c] /\ vValue'[c] = vValue[c]
      BY <3>1 DEF V!TypeOK
    <3>3. vPc[c] # "idle" => vPushes'[c] = vPushes[c] + 1 /\ vPushes[c] + 1 < GenModulus
              /\ vPushes[c] \in Nat
      BY <3>1 DEF V!TypeOK
    <3>4. vOld[c].gen \in 0 .. GenModulus - 1
      BY <3>1 DEF V!TypeOK, V!States
    <3>5. vPc[c] # "idle" => vState.gen = Wrapped(vOld[c].gen + vPushes[c])
      BY DEF ConsumerControl
    <3>6. vPc[c] # "idle" => Wrapped(vState.gen + 1) = Wrapped(vOld[c].gen + (vPushes[c] + 1))
      BY <3>3, <3>4, <3>5, StackSizes DEF Wrapped
    <3>7. vPc[c] # "idle" => vPushes'[c] # 0
      BY <3>3
    <3> QED
      BY <2>3, <3>2, <3>3, <3>6, <3>7 DEF ConsumerControl
  <2>8. Filled'
    BY <2>1, <2>3 DEF V!TypeOK, k
  <2> QED
    BY <2>5, <2>6, <2>7, <2>8
<1>5. CASE V!PushRetry
  <2> USE <1>5 DEF V!PushRetry, V!Goto, V!ReadState
  <2>1. V!TypeOK'
    BY StackSizes DEF V!TypeOK
  <2>2. ProducerControl'
    BY StackSizes DEF V!TypeOK, ProducerControl, V!States
  <2>3. \A c \in Consumers : ConsumerControl(c)'
    BY StackSizes DEF V!TypeOK, ConsumerControl, V!Threads
  <2> QED
    BY <2>1, <2>2, <2>3
<1>6. ASSUME NEW c \in Consumers,
                 V!PopBegin(c) \/ V!PopEmpty(c) \/ V!PopRead(c) \/ V!PopRetry(c) PROVE StackInv'
  <2>1. c \in V!Threads /\ c # Producer
    BY StackSizes DEF V!Threads
  <2>2. UNCHANGED <<vState, vSlots, vOut>> /\ vPc'[Producer] = vPc[Producer]
            /\ vOld'[Producer] = vOld[Producer]
        /\ vValue'[Producer] = vValue[Producer]
    BY <1>6, <2>1, StackSizes
       DEF V!TypeOK, V!PopBegin, V!PopEmpty, V!PopRead, V!PopRetry, V!Goto, V!ReadState, V!Finish
  <2>3. vOld[c].count \in 0 .. Capacity /\ vOld[c].gen \in 0 .. GenModulus - 1
        /\ vState.count \in 0 .. Capacity /\ vState.gen \in 0 .. GenModulus - 1
    BY <2>1 DEF V!TypeOK, V!States
  <2>4. V!TypeOK'
    <3>1. CASE V!PopBegin(c) \/ V!PopRetry(c)
      <4>0. 0 \in 0 .. GenModulus - 1
        BY StackSizes
      <4>1. vOld' \in [V!Threads -> V!States] /\ vPushes' \in [V!Threads -> 0 .. GenModulus - 1]
        BY <2>1, <3>1, <4>0 DEF V!TypeOK, V!PopBegin, V!PopRetry, V!ReadState
      <4>3. vPc' \in [V!Threads -> {"idle", "write", "pushCas", "read", "popCas"}]
        BY <2>1, <3>1 DEF V!TypeOK, V!PopBegin, V!PopRetry, V!Goto
      <4>2. vValue' \in [V!Threads -> StackValues \cup {NoValue}]
        BY <2>1, <3>1 DEF V!TypeOK, V!PopBegin, V!PopRetry
      <4> QED
        BY <2>2, <4>1, <4>2, <4>3 DEF V!TypeOK
    <3>2. CASE V!PopEmpty(c)
      BY <2>1, <3>2, StackSizes DEF V!TypeOK, V!PopEmpty, V!Goto, V!Finish
    <3>3. CASE V!PopRead(c)
      <4>1. vOld[c].count - 1 \in 0 .. Capacity - 1
        BY <2>3, <3>3, StackSizes DEF V!PopRead
      <4>2. vSlots[vOld[c].count - 1] \in StackValues \cup {NoValue}
        BY <4>1 DEF V!TypeOK
      <4> QED
        BY <2>1, <3>3, <4>2, StackSizes DEF V!TypeOK, V!PopRead, V!Goto
    <3> QED
      BY <1>6, <3>1, <3>2, <3>3
  <2>5. ProducerControl'
    BY <2>2 DEF ProducerControl
  <2>6. ConsumerControl(c)'
    <3>1. vState.gen = Wrapped(vState.gen + 0)
      BY <2>3, StackSizes DEF Wrapped
    <3>2. CASE V!PopBegin(c) \/ V!PopRetry(c)
      BY <2>1, <2>3, <3>1, <3>2
         DEF V!TypeOK, ConsumerControl, V!PopBegin, V!PopRetry, V!Goto, V!ReadState
    <3>3. CASE V!PopEmpty(c)
      BY <2>1, <3>3 DEF V!TypeOK, ConsumerControl, V!PopEmpty, V!Goto, V!Finish
    <3>4. CASE V!PopRead(c)
      BY <2>1, <3>4 DEF V!TypeOK, ConsumerControl, V!PopRead, V!Goto
    <3> QED
      BY <1>6, <3>2, <3>3, <3>4
  <2>7. ASSUME NEW d \in Consumers, d # c PROVE ConsumerControl(d)'
    <3>1. vPc'[d] = vPc[d] /\ vOld'[d] = vOld[d] /\ vValue'[d] = vValue[d]
              /\ vPushes'[d] = vPushes[d]
      BY <1>6, <2>1, <2>7
         DEF V!Threads, V!TypeOK, V!PopBegin, V!PopEmpty, V!PopRead, V!PopRetry, V!Goto,
             V!ReadState, V!Finish
    <3> QED
      BY <2>2, <3>1 DEF ConsumerControl
  <2> QED
    BY <2>2, <2>4, <2>5, <2>6, <2>7
<1>7. ASSUME NEW c \in Consumers, V!PopCas(c) PROVE StackInv'
  <2> USE <1>7 DEF V!PopCas, V!Goto, V!Finish
  <2>1. c \in V!Threads /\ c # Producer
    BY StackSizes DEF V!Threads
  <2>2. vPushes[c] = 0
    <3>1. vPushes[c] \in 0 .. GenModulus - 1 /\ vOld[c].gen \in 0 .. GenModulus - 1
      BY <2>1 DEF V!TypeOK, V!States
    <3>2. vOld[c].gen = Wrapped(vOld[c].gen + vPushes[c])
      BY DEF ConsumerControl
    <3> QED
      BY <3>1, <3>2, StackSizes DEF Wrapped
  <2>3. /\ vState.count \in 0 .. Capacity /\ vState.count # 0 /\ vState.gen \in 0 .. GenModulus - 1
        /\ vValue[c] = vSlots[vState.count - 1]
    BY <2>2 DEF ConsumerControl, V!TypeOK, V!States
  <2>4. vValue[c] \in StackValues
    <3>1. vState.count - 1 \in 0 .. Capacity - 1 /\ vState.count - 1 < vState.count
      BY <2>3, StackSizes
    <3> QED
      BY <2>3, <3>1
  <2>5. vState'.gen = vState.gen /\ vState'.count = vState.count - 1 /\ vState' \in V!States
    <3>1. vState.count - 1 \in 0 .. Capacity
      BY <2>3, StackSizes
    <3> QED
      BY <2>3, <3>1 DEF V!Popped, V!States
  <2>6. V!TypeOK'
    BY <2>1, <2>4, <2>5, StackSizes DEF V!TypeOK
  <2>7. ProducerControl'
    <3>1. vPc'[Producer] = vPc[Producer] /\ vOld'[Producer] = vOld[Producer]
              /\ vValue'[Producer] = vValue[Producer]
          /\ vOut \subseteq vOut' /\ vSlots' = vSlots /\ vOld[Producer].count \in Nat
      BY <2>1, StackSizes DEF V!TypeOK, V!States
    <3> QED
      BY <2>3, <2>5, <3>1 DEF ProducerControl
  <2>8. ConsumerControl(c)'
    BY <2>1 DEF ConsumerControl, V!TypeOK
  <2>9. ASSUME NEW d \in Consumers, d # c PROVE ConsumerControl(d)'
    <3>1. /\ vPc'[d] = vPc[d] /\ vOld'[d] = vOld[d] /\ vValue'[d] = vValue[d]
                 /\ vPushes'[d] = vPushes[d]
          /\ vSlots' = vSlots /\ d \in V!Threads
      BY <2>9 DEF V!Threads, V!TypeOK
    <3>2. vOld[d].count \in Nat
      BY <3>1 DEF V!TypeOK, V!States
    <3> QED
      BY <2>3, <2>5, <3>1, <3>2 DEF ConsumerControl
  <2>10. Filled'
    BY <2>3, <2>5 DEF V!TypeOK
  <2> QED
    BY <2>6, <2>7, <2>8, <2>9, <2>10
<1>8. CASE UNCHANGED V!vars
  BY <1>8 DEF V!vars, V!TypeOK, ProducerControl, ConsumerControl
<1> QED
  BY <1>1, <1>2, <1>3, <1>4, <1>5, <1>6, <1>7, <1>8 DEF V!Next

\* The abstract stack, and what a push and a pop make of it.
Stack == [d \in 1 .. vState.count |-> vSlots[vState.count - d]]
Outside == [p \in {Producer} |-> vOut]

StackKnown == Stack \in Seq(StackValues) /\ Len(Stack) = vState.count
    /\ vState.count \in 0 .. Capacity

LEMMA StackFacts == StackInv => StackKnown
<1> SUFFICES ASSUME StackInv PROVE StackKnown
  OBVIOUS
<1>1. vState.count \in 0 .. Capacity
  BY DEF StackInv, V!TypeOK, V!States
<1>2. \A d \in 1 .. vState.count : vSlots[vState.count - d] \in StackValues
  BY <1>1, StackSizes DEF StackInv
<1> QED
  BY <1>1, <1>2, StackSizes DEF Stack, StackKnown

LEMMA StackFactsNext == (StackInv => StackKnown)'
BY StackFacts, PTL

LEMMA SameEntries ==
    ASSUME NEW s, NEW t, NEW S, s \in Seq(S), t \in Seq(S), Len(s) = Len(t),
           \A d \in 1 .. Len(s) : s[d] = t[d]
    PROVE  s = t
BY SeqEqual

LEMMA StackRefines ==
    StackInv /\ StackInv' /\ [V!Next]_(V!vars) => [V!A!StackNext]_(V!A!stackVars)
<1> SUFFICES ASSUME StackInv, StackInv', [V!Next]_(V!vars)
             PROVE  V!A!StackNext \/ (Stack' = Stack /\ Outside' = Outside)
  BY DEF V!A!stackVars, Stack, Outside
<1>0. /\ Stack \in Seq(StackValues) /\ Len(Stack) = vState.count /\ vState.count \in 0 .. Capacity
      /\ Stack' \in Seq(StackValues) /\ Len(Stack') = vState'.count
  BY StackFacts, StackFactsNext DEF StackKnown
<1>1. CASE V!PushCas
  <2> DEFINE k == vState.count  v == vValue[Producer]
  <2>1. v \in vOut /\ v \in StackValues /\ vSlots[k] = v /\ vSlots' = vSlots
    BY <1>1, StackSizes DEF V!PushCas, V!Goto, StackInv, V!TypeOK, ProducerControl
  <2>2. vState'.count = k + 1 /\ vOut' = vOut \ {v}
    BY <1>1 DEF V!PushCas, V!Pushed
  <2>3. Stack' = <<v>> \o Stack
    <3>1. <<v>> \o Stack \in Seq(StackValues) /\ Len(<<v>> \o Stack) = k + 1
      BY <1>0, <2>1
    <3>2. \A d \in 1 .. k + 1 : (<<v>> \o Stack)[d] = IF d = 1 THEN v ELSE Stack[d - 1]
      BY <1>0, <2>1
    <3>3. \A d \in 1 .. k + 1 : Stack'[d] = vSlots[k + 1 - d]
      <4>1. \A d \in 1 .. vState'.count : Stack'[d] = vSlots'[vState'.count - d]
        BY DEF Stack
      <4>2. vSlots' = vSlots /\ vState'.count = k + 1
        BY <2>1, <2>2
      <4> QED
        BY <1>0, <4>1, <4>2
    <3>4. \A d \in 1 .. k : Stack[d] = vSlots[k - d]
      BY DEF Stack
    <3>5. \A d \in 1 .. k + 1 : Stack'[d] = (<<v>> \o Stack)[d]
      <4> SUFFICES ASSUME NEW d \in 1 .. k + 1 PROVE Stack'[d] = (<<v>> \o Stack)[d]
        OBVIOUS
      <4>1. CASE d = 1
        <5>1. k + 1 - 1 = k
          BY <1>0
        <5> QED
          BY <2>1, <3>2, <3>3, <4>1, <5>1
      <4>2. CASE d # 1
        <5>1. d - 1 \in 1 .. k /\ k + 1 - d = k - (d - 1)
          BY <1>0, <4>2
        <5> QED
          BY <3>2, <3>3, <3>4, <4>2, <5>1
      <4> QED
        BY <1>0, <4>1, <4>2
    <3> HIDE DEF k, v
    <3> QED
      BY <1>0, <2>2, <3>1, <3>5, SameEntries
  <2>4. Outside' = [Outside EXCEPT ![Producer] = @ \ {v}]
    BY <2>2 DEF Outside
  <2>5. v \in Outside[Producer]
    BY <2>1 DEF Outside
  <2> QED
    BY <2>3, <2>4, <2>5 DEF V!A!StackNext, V!A!Push, Stack, Outside
<1>2. ASSUME NEW c \in Consumers, V!PopCas(c) PROVE V!A!StackNext
  <2> DEFINE k == vState.count
  <2>1. vPushes[c] = 0
    <3>1. /\ vPushes[c] \in 0 .. GenModulus - 1 /\ vOld[c].gen \in 0 .. GenModulus - 1
      BY DEF StackInv, V!TypeOK, V!States, V!Threads
    <3>2. vOld[c].gen = Wrapped(vOld[c].gen + vPushes[c])
      BY <1>2 DEF V!PopCas, V!Goto, StackInv, ConsumerControl
    <3> QED
      BY <3>1, <3>2, StackSizes DEF Wrapped
  <2>2. k # 0 /\ vValue[c] = vSlots[k - 1]
    BY <1>2, <2>1 DEF V!PopCas, V!Goto, StackInv, ConsumerControl
  <2>3. vState'.count = k - 1 /\ vSlots' = vSlots /\ vOut' = vOut \cup {vValue[c]}
    BY <1>2 DEF V!PopCas, V!Popped
  <2>4. Stack # <<>> /\ Head(Stack) = vValue[c]
    BY <1>0, <2>2 DEF Stack
  <2>5. Stack' = Tail(Stack)
    <3>1. Tail(Stack) \in Seq(StackValues) /\ Len(Tail(Stack)) = k - 1
          /\ \A d \in 1 .. k - 1 : Tail(Stack)[d] = Stack[d + 1]
      BY <1>0, <2>2, <2>4
    <3>2. \A d \in 1 .. k - 1 : Stack'[d] = vSlots[k - 1 - d]
      BY <2>3 DEF Stack
    <3>3. \A d \in 1 .. k : Stack[d] = vSlots[k - d]
      BY DEF Stack
    <3>4. \A d \in 1 .. k - 1 : Stack'[d] = Tail(Stack)[d]
      <4> SUFFICES ASSUME NEW d \in 1 .. k - 1 PROVE Stack'[d] = Tail(Stack)[d]
        OBVIOUS
      <4>1. d + 1 \in 1 .. k /\ k - 1 - d = k - (d + 1)
        BY <1>0
      <4> QED
        BY <3>1, <3>2, <3>3, <4>1
    <3> HIDE DEF k
    <3> QED
      BY <1>0, <2>3, <3>1, <3>4, SameEntries
  <2>6. Outside' = [Outside EXCEPT ![Producer] = @ \cup {Head(Stack)}]
    BY <2>3, <2>4 DEF Outside
  <2> QED
    BY <2>4, <2>5, <2>6 DEF V!A!StackNext, V!A!Pop, Stack, Outside
<1>3. CASE V!PushWrite
  <2> DEFINE k == vOld[Producer].count
  <2>1. k \in 0 .. Capacity - 1 /\ vState.count <= k
    BY <1>3, StackSizes
       DEF V!PushWrite, V!Goto, StackInv, V!TypeOK, V!States, ProducerControl, V!IsFull
  <2>2. vSlots' = [vSlots EXCEPT ![k] = vValue[Producer]] /\ UNCHANGED <<vState, vOut>>
    BY <1>3 DEF V!PushWrite
  <2> HIDE DEF k
  <2>3. \A d \in 1 .. vState.count : vSlots'[vState.count - d] = vSlots[vState.count - d]
    BY <1>0, <2>1, <2>2 DEF StackInv, V!TypeOK
  <2> QED
    BY <2>2, <2>3 DEF Stack, Outside
<1>4. CASE UNCHANGED <<vState, vSlots, vOut>>
  BY <1>4 DEF Stack, Outside
<1>5. ASSUME V!PushBegin \/ V!PushFull \/ V!PushRetry PROVE UNCHANGED <<vState, vSlots, vOut>>
  BY <1>5 DEF V!PushBegin, V!PushFull, V!PushRetry
<1>6. ASSUME NEW c \in Consumers, V!PopBegin(c) \/ V!PopEmpty(c) \/ V!PopRead(c) \/ V!PopRetry(c)
      PROVE  UNCHANGED <<vState, vSlots, vOut>>
  BY <1>6 DEF V!PopBegin, V!PopEmpty, V!PopRead, V!PopRetry
<1> QED
  BY <1>1, <1>2, <1>3, <1>4, <1>5, <1>6 DEF V!Next, V!vars

LEMMA StackBeginsEmpty == V!Init => V!A!StackInit
  BY DEF V!Init, V!A!StackInit, V!EmptyState

-----------------------------------------------------------------------------
(* The tagged stack                                                        *)

\* Which nodes the links f reach from n, in the order of s.
Linked(f, s, n) ==
    /\ n = IF s = <<>> THEN Null ELSE s[1]
    /\ \A i \in DOMAIN s : f[s[i]] = IF i < Len(s) THEN s[i + 1] ELSE Null

Distinct(s) == \A i, j \in DOMAIN s : s[i] = s[j] => i = j

\* s is what the stack holds: nobody owns a node of it.
Listed(s) ==
    /\ s \in Seq(Nodes) /\ Distinct(s) /\ Linked(tLink, s, tHead.node)
    /\ \A p \in Procs : \A i \in DOMAIN s : s[i] \notin tHeld[p]

TagWrapped(n) == IF n < CounterModulus THEN n ELSE n - CounterModulus

\* The node that p pushes, or has popped and not yet unlinked, is its own, and so is the link
\* it writes to it.
InHand(p) ==
    /\ tPc[p] \in {"pushLink", "pushCas", "popClear"} => tMine[p] \in tHeld[p]
    /\ tPc[p] = "pushCas" => tLink[tMine[p]] = tSeen[p].node

\* The counter tells how often the head changed since p read it.  While it did not, neither
\* did the link of the node that p is about to take.
AsRead(p) ==
    /\ tHead.tag = TagWrapped(tSeen[p].tag + tChanges[p])
    /\ tChanges[p] = 0 => tSeen[p] = tHead
    /\ tPc[p] = "popCas" =>
          /\ tSeen[p].node # Null
          /\ tChanges[p] = 0 => tNext[p] = tLink[tSeen[p].node]

Apart == \A p, q \in Procs : p # q => tHeld[p] \cap tHeld[q] = {}

TaggedControl == \A p \in Procs : InHand(p) /\ (p \in T!Stalled => AsRead(p))

TaggedInv == T!TypeOK /\ Apart /\ TaggedControl /\ \E s : Listed(s)

-----------------------------------------------------------------------------
\* TaggedStack counts with the operators of FiniteSets.
LEMMA TaggedSets ==
    /\ \A S : T!Cardinality(S) = Cardinality(S)
    /\ \A S : T!IsFiniteSet(S) <=> IsFiniteSet(S)
  BY DEF T!Cardinality, Cardinality, T!IsFiniteSet, IsFiniteSet

LEMMA Owners ==
    /\ InitialHeld \in [Procs -> SUBSET Nodes]
    /\ \A p, q \in Procs : p # q => InitialHeld[p] \cap InitialHeld[q] = {}
    /\ IsFiniteSet(Nodes) /\ Null \notin Nodes
    /\ CounterModulus \in Nat /\ CounterModulus >= 2
BY TaggedStackSizes, TaggedSets DEF T!OwnersAssumption, T!CounterAssumption

\* A list of distinct nodes is one that Chain looks at.
LEMMA DistinctIsShort ==
    ASSUME NEW s \in Seq(Nodes), Distinct(s)
    PROVE  s \in T!SeqOf(Nodes, T!Cardinality(Nodes))
<1>1. Len(s) \in Nat /\ DOMAIN s = 1 .. Len(s) /\ s \in [1 .. Len(s) -> Nodes]
  OBVIOUS
<1>2. IsFiniteSet(1 .. Len(s)) /\ Cardinality(1 .. Len(s)) = Len(s)
  <2>1. 1 \in Int /\ Len(s) \in Int
    BY <1>1
  <2>2. IsFiniteSet(1 .. Len(s)) /\ Cardinality(1 .. Len(s)) = IF 1 > Len(s) THEN 0
            ELSE Len(s) - 1 + 1
    BY <2>1, FS_Interval
  <2> QED
    BY <1>1, <2>2
<1>3. \A i, j \in 1 .. Len(s) : s[i] = s[j] => i = j
  BY <1>1 DEF Distinct
<1>4. s \in Injection(1 .. Len(s), Nodes)
  BY <1>1, <1>3, Fun_IsInj
<1>5. Cardinality(1 .. Len(s)) <= Cardinality(Nodes)
  BY <1>4, Owners, FS_Injection
<1>6. Cardinality(Nodes) \in Nat
  BY Owners, FS_CardinalityType
<1>7. Len(s) \in 0 .. T!Cardinality(Nodes)
  BY <1>1, <1>2, <1>5, <1>6, TaggedSets
<1> QED
  BY <1>1, <1>7 DEF T!SeqOf

\* A nonempty set of naturals has a least member.
LEMMA LeastNatural ==
    ASSUME NEW S, S \subseteq Nat, S # {}
    PROVE  \E m \in S : \A n \in S : m <= n
<1> DEFINE R == OpToRel(<, Nat)
<1>1. \A m, n \in S : n < m => <<n, m>> \in R
  BY DEF OpToRel
<1>2. IsWellFoundedOn(R, Nat)
  BY NatLessThanWellFounded
<1> HIDE DEF R
<1>3. \E m \in S : \A n \in S : ~(<<n, m>> \in R)
  BY <1>2, WFMin
<1>4. \A m, n \in S : m \in Int /\ n \in Int /\ (m <= n \/ n < m)
  OBVIOUS
<1> QED
  BY <1>1, <1>3, <1>4, Zenon

\* The links lead along one list only: where two first differed, the links of one node would.
LEMMA Along ==
    ASSUME NEW f, NEW n, NEW s \in Seq(Nodes), NEW t \in Seq(Nodes), Linked(f, s, n), Linked(f,
               t, n)
    PROVE  \A i \in 1 .. Len(s) : i <= Len(t) /\ s[i] = t[i]
<1> DEFINE Off == {i \in 1 .. Len(s) : ~(i <= Len(t) /\ s[i] = t[i])}
<1>1. SUFFICES ASSUME Off # {} PROVE FALSE
  OBVIOUS
<1>2. Off \subseteq Nat
  OBVIOUS
<1>3. PICK i \in Off : \A j \in Off : i <= j
  BY <1>1, <1>2, LeastNatural
<1>4. i \in 1 .. Len(s) /\ ~(i <= Len(t) /\ s[i] = t[i])
  OBVIOUS
<1>5. i - 1 \notin Off
  BY <1>3, <1>4
<1>6. /\ Len(s) \in Nat /\ DOMAIN s = 1 .. Len(s) /\ \A k \in 1 .. Len(s) : s[k] \in Nodes
      /\ Len(t) \in Nat /\ DOMAIN t = 1 .. Len(t) /\ \A k \in 1 .. Len(t) : t[k] \in Nodes
  OBVIOUS
<1> HIDE DEF Off
<1>7. CASE i = 1
  <2>1. s # <<>>
    BY <1>4, <1>6
  <2>2. n = s[1] /\ n # Null
    BY <1>4, <1>6, <1>7, <2>1, Owners DEF Linked
  <2>3. t # <<>> /\ n = t[1]
    BY <2>2 DEF Linked
  <2> QED
    BY <1>4, <1>6, <1>7, <2>2, <2>3, EmptySeq
<1>8. CASE i # 1
  <2>1. i - 1 \in 1 .. Len(s) /\ i - 1 < Len(s) /\ i - 1 + 1 = i
    BY <1>4, <1>6, <1>8
  <2>2. i - 1 <= Len(t) /\ s[i - 1] = t[i - 1]
    BY <1>5, <2>1 DEF Off
  <2>3. f[s[i - 1]] = s[i] /\ s[i] # Null
    BY <1>4, <1>6, <2>1, Owners DEF Linked
  <2>4. f[t[i - 1]] = IF i - 1 < Len(t) THEN t[i] ELSE Null
    BY <1>6, <2>1, <2>2 DEF Linked
  <2> QED
    BY <1>4, <1>6, <2>1, <2>2, <2>3, <2>4
<1> QED
  BY <1>7, <1>8

LEMMA OneList ==
    ASSUME NEW f, NEW n, NEW s \in Seq(Nodes), NEW t \in Seq(Nodes), Linked(f, s, n), Linked(f,
               t, n)
    PROVE  s = t
<1>1. \A i \in 1 .. Len(s) : i <= Len(t) /\ s[i] = t[i]
  BY Along
<1>2. \A i \in 1 .. Len(t) : i <= Len(s) /\ t[i] = s[i]
  BY Along
<1>3. Len(s) \in Nat /\ Len(t) \in Nat
  OBVIOUS
<1>4. Len(s) <= Len(t)
  BY <1>1, <1>3
<1>5. Len(t) <= Len(s)
  BY <1>2, <1>3
<1> QED
  BY <1>1, <1>3, <1>4, <1>5, SeqEqual

\* Chain finds it.
ListFrom(f, n) == CHOOSE s \in T!SeqOf(Nodes, T!Cardinality(Nodes)) : Linked(f, s, n)

LEMMA ListFound ==
    ASSUME NEW f, NEW n, NEW s \in Seq(Nodes), Distinct(s), Linked(f, s, n)
    PROVE  ListFrom(f, n) = s
<1>1. \E t \in T!SeqOf(Nodes, T!Cardinality(Nodes)) : Linked(f, t, n)
  BY DistinctIsShort
<1>2. ListFrom(f, n) \in T!SeqOf(Nodes, T!Cardinality(Nodes)) /\ Linked(f, ListFrom(f, n), n)
  BY <1>1 DEF ListFrom
<1>3. ASSUME NEW t \in T!SeqOf(Nodes, T!Cardinality(Nodes)) PROVE t \in Seq(Nodes)
  <2>1. T!Cardinality(Nodes) \in Nat
    BY Owners, TaggedSets, FS_CardinalityType
  <2>2. PICK m \in 0 .. T!Cardinality(Nodes) : t \in [1 .. m -> Nodes]
    BY DEF T!SeqOf
  <2> QED
    BY <2>1, <2>2, SeqDef
<1> QED
  BY <1>2, <1>3, OneList

LEMMA ContentsAre ==
    ASSUME NEW s, Listed(s)
    PROVE  T!Contents = s /\ T!Chain(tHead.node) = s
<1>1. T!Contents = ListFrom(tLink, tHead.node) /\ T!Chain(tHead.node) = ListFrom(tLink, tHead.node)
  BY DEF T!Contents, T!Chain, T!Follows, ListFrom, Linked
<1> QED
  BY <1>1, ListFound DEF Listed

LEMMA ContentsAreNext ==
    ASSUME NEW s, Listed(s)'
    PROVE  T!Contents' = s
<1>1. T!Contents' = ListFrom(tLink', tHead'.node)
  BY DEF T!Contents, T!Chain, T!Follows, ListFrom, Linked
<1>2. s \in Seq(Nodes) /\ Distinct(s) /\ Linked(tLink', s, tHead'.node)
  BY DEF Listed, Linked
<1> QED
  BY <1>1, <1>2, ListFound

-----------------------------------------------------------------------------
\* The lists that a push and a pop leave.
LEMMA PushedList ==
    ASSUME NEW f, NEW h, NEW s \in Seq(Nodes), Distinct(s), Linked(f, s, h),
           NEW n \in Nodes, \A i \in DOMAIN s : s[i] # n, f[n] = h
    PROVE  /\ <<n>> \o s \in Seq(Nodes) /\ Distinct(<<n>> \o s) /\ Linked(f, <<n>> \o s, n)
           /\ \A i \in DOMAIN (<<n>> \o s) :
                 (<<n>> \o s)[i] = n \/ \E j \in DOMAIN s : (<<n>> \o s)[i] = s[j]
<1> DEFINE t == <<n>> \o s
<1>1. /\ Len(s) \in Nat /\ DOMAIN s = 1 .. Len(s) /\ \A k \in 1 .. Len(s) : s[k] \in Nodes
      /\ t \in Seq(Nodes) /\ Len(t) = Len(s) + 1 /\ DOMAIN t = 1 .. Len(s) + 1
  OBVIOUS
<1>2. t[1] = n /\ \A k \in 2 .. Len(s) + 1 : k - 1 \in 1 .. Len(s) /\ t[k] = s[k - 1]
  BY <1>1
<1>3. t # <<>>
  BY <1>1
<1> HIDE DEF t
<1>4. Distinct(t)
  <2> SUFFICES ASSUME NEW i \in 1 .. Len(s) + 1, NEW j \in 1 .. Len(s) + 1, t[i] = t[j] PROVE i = j
    BY <1>1 DEF Distinct
  <2>1. CASE i = 1 /\ j = 1
    BY <2>1
  <2>2. CASE i = 1 /\ j # 1
    BY <1>1, <1>2, <2>2
  <2>3. CASE i # 1 /\ j = 1
    BY <1>1, <1>2, <2>3
  <2>4. CASE i # 1 /\ j # 1
    <3>1. s[i - 1] = s[j - 1] /\ i - 1 \in DOMAIN s /\ j - 1 \in DOMAIN s
      BY <1>1, <1>2, <2>4
    <3>2. i - 1 = j - 1
      BY <3>1 DEF Distinct
    <3> QED
      BY <3>2
  <2> QED
    BY <2>1, <2>2, <2>3, <2>4
<1>5. Linked(f, t, n)
  <2>1. h = IF s = <<>> THEN Null ELSE s[1]
    BY DEF Linked
  <2>2. ASSUME NEW i \in 1 .. Len(s) + 1
        PROVE  f[t[i]] = IF i < Len(s) + 1 THEN t[i + 1] ELSE Null
    <3>1. CASE i = 1 /\ s = <<>>
      BY <1>1, <1>2, <2>1, <3>1
    <3>2. CASE i = 1 /\ s # <<>>
      <4>1. Len(s) >= 1
        BY <1>1, <3>2, EmptySeq
      <4>2. t[2] = s[1]
        BY <1>1, <1>2, <4>1
      <4> QED
        BY <1>1, <1>2, <2>1, <3>2, <4>1, <4>2
    <3>3. CASE i # 1
      <4>1. i - 1 \in 1 .. Len(s) /\ t[i] = s[i - 1] /\ i - 1 + 1 = i
        BY <1>1, <1>2, <3>3
      <4>2. f[s[i - 1]] = IF i - 1 < Len(s) THEN s[i] ELSE Null
        BY <1>1, <4>1 DEF Linked
      <4>3. i < Len(s) + 1 => t[i + 1] = s[i]
        BY <1>1, <1>2, <4>1
      <4> QED
        BY <1>1, <4>1, <4>2, <4>3
    <3> QED
      BY <3>1, <3>2, <3>3
  <2> QED
    BY <1>1, <1>2, <1>3, <2>2 DEF Linked
<1>6. \A i \in DOMAIN t : t[i] = n \/ \E j \in DOMAIN s : t[i] = s[j]
  BY <1>1, <1>2
<1> QED
  BY <1>1, <1>4, <1>5, <1>6 DEF t

LEMMA PoppedList ==
    ASSUME NEW f, NEW h, NEW s \in Seq(Nodes), Distinct(s), Linked(f, s, h), h # Null
    PROVE  /\ s # <<>> /\ 1 \in DOMAIN s /\ s[1] = h /\ Head(s) = h
           /\ Tail(s) \in Seq(Nodes) /\ Distinct(Tail(s)) /\ Linked(f, Tail(s), f[h])
           /\ \A i \in DOMAIN Tail(s) : i + 1 \in DOMAIN s /\ Tail(s)[i] = s[i + 1]
                  /\ Tail(s)[i] # h
<1> DEFINE t == Tail(s)
<1>1. s # <<>> /\ s[1] = h
  BY DEF Linked
<1>2. /\ Len(s) \in Nat /\ Len(s) >= 1 /\ DOMAIN s = 1 .. Len(s) /\ Head(s) = h
      /\ t \in Seq(Nodes) /\ Len(t) = Len(s) - 1 /\ DOMAIN t = 1 .. Len(s) - 1
      /\ \A i \in 1 .. Len(s) - 1 : t[i] = s[i + 1]
  BY <1>1, EmptySeq, HeadTailProperties
<1> HIDE DEF t
<1>3. ASSUME NEW i \in 1 .. Len(s) - 1 PROVE i + 1 \in DOMAIN s /\ t[i] = s[i + 1] /\ t[i] # h
  <2>1. i + 1 \in DOMAIN s /\ i + 1 # 1 /\ 1 \in DOMAIN s
    BY <1>2
  <2>2. s[i + 1] # s[1]
    BY <2>1 DEF Distinct
  <2> QED
    BY <1>1, <1>2, <2>1, <2>2
<1>4. Distinct(t)
  <2> SUFFICES ASSUME NEW i \in 1 .. Len(s) - 1, NEW j \in 1 .. Len(s) - 1, t[i] = t[j] PROVE i = j
    BY <1>2 DEF Distinct
  <2>1. i + 1 = j + 1
    BY <1>3 DEF Distinct
  <2> QED
    BY <2>1
<1>5. Linked(f, t, f[h])
  <2>1. \A i \in 1 .. Len(s) : f[s[i]] = IF i < Len(s) THEN s[i + 1] ELSE Null
    BY <1>2 DEF Linked
  <2>2. f[h] = IF t = <<>> THEN Null ELSE t[1]
    <3>1. f[h] = IF 1 < Len(s) THEN s[2] ELSE Null
      BY <1>1, <1>2, <2>1
    <3>2. t = <<>> <=> ~(1 < Len(s))
      BY <1>2, EmptySeq
    <3>3. 1 < Len(s) => t[1] = s[2]
      BY <1>2
    <3> QED
      BY <3>1, <3>2, <3>3
  <2>3. ASSUME NEW i \in 1 .. Len(s) - 1
        PROVE  f[t[i]] = IF i < Len(s) - 1 THEN t[i + 1] ELSE Null
    <3>1. f[s[i + 1]] = IF i + 1 < Len(s) THEN s[i + 2] ELSE Null
      BY <1>2, <2>1
    <3>2. i < Len(s) - 1 => t[i + 1] = s[i + 2]
      BY <1>2
    <3> QED
      BY <1>2, <1>3, <3>1, <3>2
  <2> QED
    BY <1>2, <2>2, <2>3 DEF Linked
<1> QED
  BY <1>1, <1>2, <1>3, <1>4, <1>5 DEF t

-----------------------------------------------------------------------------
LEMMA TaggedTypes ==
    T!TypeOK =>
      /\ tHead.node \in Nodes \cup {Null} /\ tHead.tag \in 0 .. CounterModulus - 1
      /\ \A p \in Procs :
           /\ tSeen[p].node \in Nodes \cup {Null} /\ tSeen[p].tag \in 0 .. CounterModulus - 1
           /\ tMine[p] \in Nodes \cup {Null} /\ tNext[p] \in Nodes \cup {Null}
           /\ tHeld[p] \subseteq Nodes /\ tChanges[p] \in 0 .. CounterModulus - 1
BY DEF T!TypeOK, T!Links, T!Counters

LEMMA TagFacts ==
    ASSUME NEW n \in 0 .. CounterModulus - 1
    PROVE  /\ T!Bumped(n) = TagWrapped(n + 1) /\ TagWrapped(n + 1) \in 0 .. CounterModulus - 1
           /\ TagWrapped(n + 0) = n
<1>1. CASE n + 1 < CounterModulus
  BY <1>1, Owners DEF TagWrapped, T!Bumped
<1>2. CASE n + 1 = CounterModulus
  BY <1>2, Owners DEF TagWrapped, T!Bumped
<1> QED
  BY <1>1, <1>2, Owners

\* A stalled process whose exchange succeeds has missed nothing.
LEMMA NothingMissed ==
    ASSUME TaggedInv, NEW p \in Procs, p \in T!Stalled, tHead = tSeen[p]
    PROVE  tChanges[p] = 0
<1>1. tSeen[p].tag \in 0 .. CounterModulus - 1 /\ tChanges[p] \in 0 .. CounterModulus - 1
  BY TaggedTypes DEF TaggedInv
<1>2. tSeen[p].tag = TagWrapped(tSeen[p].tag + tChanges[p])
  BY DEF TaggedInv, TaggedControl, AsRead
<1> QED
  BY <1>1, <1>2, Owners DEF TagWrapped

\* What a step makes of the list s: a push, a pop, a theft or nothing.
Moved(s, t) ==
    \/ \E p \in Procs : \E n \in tHeld[p] :
          t = <<n>> \o s /\ tHeld' = [tHeld EXCEPT ![p] = @ \ {n}]
    \/ \E p \in Procs :
          s # <<>> /\ t = Tail(s) /\ tHeld' = [tHeld EXCEPT ![p] = @ \cup {Head(s)}]
    \/ \E p \in Procs :
          t = <<>> /\ tHeld' = [tHeld EXCEPT ![p] = @ \cup {s[i] : i \in DOMAIN s}]
    \/ t = s /\ tHeld' = tHeld

LEMMA ListStep ==
    ASSUME TaggedInv, NEW s, Listed(s), T!Next
    PROVE  \E t : Listed(t)' /\ Moved(s, t)
<1>0. T!TypeOK /\ Apart /\ TaggedControl
  BY DEF TaggedInv
<1>1. /\ s \in Seq(Nodes) /\ Distinct(s) /\ Linked(tLink, s, tHead.node)
      /\ \A p \in Procs : \A i \in DOMAIN s : s[i] \notin tHeld[p]
      /\ \A i \in DOMAIN s : s[i] \in Nodes
  BY DEF Listed
<1>2. tHeld \in [Procs -> SUBSET Nodes] /\ tLink \in [Nodes -> Nodes \cup {Null}]
  BY <1>0 DEF T!TypeOK, T!Links
<1>3. ASSUME NEW p \in Procs, T!PushCas(p) PROVE \E t : Listed(t)' /\ Moved(s, t)
  <2>0. PICK n \in Nodes : n = tMine[p] /\ n \in tHeld[p] /\ tLink[n] = tHead.node
    <3>1. tPc[p] = "pushCas" /\ tHead = tSeen[p]
      BY <1>3 DEF T!PushCas, T!Goto
    <3>2. tMine[p] \in tHeld[p] /\ tLink[tMine[p]] = tHead.node
      BY <1>0, <3>1 DEF TaggedControl, InHand
    <3> QED
      BY <1>2, <3>2
  <2>1. /\ tLink' = tLink /\ tHead'.node = n
        /\ tHeld' = [tHeld EXCEPT ![p] = @ \ {n}]
    BY <1>3, <2>0 DEF T!PushCas, T!ChangeHead, T!HeadWord
  <2>2. n \in tHeld[p] /\ tLink[n] = tHead.node
    BY <2>0
  <2>3. \A i \in DOMAIN s : s[i] # n
    BY <1>1, <2>2
  <2>4. /\ <<n>> \o s \in Seq(Nodes) /\ Distinct(<<n>> \o s) /\ Linked(tLink, <<n>> \o s, n)
        /\ \A i \in DOMAIN (<<n>> \o s) :
              (<<n>> \o s)[i] = n \/ \E j \in DOMAIN s : (<<n>> \o s)[i] = s[j]
    BY <1>1, <2>2, <2>3, PushedList
  <2> DEFINE t == <<n>> \o s
  <2>5. ASSUME NEW q \in Procs, NEW i \in DOMAIN t PROVE t[i] \notin tHeld'[q]
    <3>1. tHeld'[q] = IF q = p THEN tHeld[q] \ {n} ELSE tHeld[q]
      BY <1>2, <2>1
    <3>2. n \notin tHeld'[q]
      BY <1>0, <2>2, <3>1 DEF Apart
    <3> QED
      BY <1>1, <2>4, <3>1, <3>2
  <2> HIDE DEF t
  <2>6. Listed(t)'
    BY <2>1, <2>4, <2>5 DEF Listed, t, Linked
  <2>7. Moved(s, t)
    BY <2>1, <2>2 DEF Moved, t
  <2> QED
    BY <2>6, <2>7
<1>4. ASSUME NEW p \in Procs, T!PopCas(p) PROVE \E t : Listed(t)' /\ Moved(s, t)
  <2> DEFINE h == tHead.node  t == Tail(s)
  <2>1. /\ tPc[p] = "popCas" /\ tHead = tSeen[p] /\ tLink' = tLink
        /\ tHeld' = [tHeld EXCEPT ![p] = @ \cup {h}] /\ tHead'.node = tNext[p]
    BY <1>4 DEF T!PopCas, T!Goto, T!ChangeHead, T!HeadWord
  <2>2. p \in T!Stalled
    BY <2>1 DEF T!Stalled
  <2>3. h # Null /\ tNext[p] = tLink[h]
    BY <1>0, <2>1, <2>2, NothingMissed DEF TaggedControl, AsRead
  <2> HIDE DEF h
  <2>4. /\ s # <<>> /\ 1 \in DOMAIN s /\ s[1] = h /\ Head(s) = h
        /\ t \in Seq(Nodes) /\ Distinct(t) /\ Linked(tLink, t, tLink[h])
        /\ \A i \in DOMAIN t : i + 1 \in DOMAIN s /\ t[i] = s[i + 1] /\ t[i] # h
    <3>1. Linked(tLink, s, h)
      BY <1>1 DEF h
    <3> QED
      BY <1>1, <2>3, <3>1, PoppedList
  <2> HIDE DEF t
  <2>5. ASSUME NEW q \in Procs, NEW i \in DOMAIN t PROVE t[i] \notin tHeld'[q]
    <3>1. tHeld'[q] = IF q = p THEN tHeld[q] \cup {h} ELSE tHeld[q]
      BY <1>2, <2>1
    <3> QED
      BY <1>1, <2>4, <3>1
  <2>6. Listed(t)'
    BY <2>1, <2>3, <2>4, <2>5 DEF Listed, Linked
  <2>7. Moved(s, t)
    BY <2>1, <2>4 DEF Moved, t
  <2> QED
    BY <2>6, <2>7
<1>5. ASSUME NEW p \in Procs, T!StealCas(p) PROVE \E t : Listed(t)' /\ Moved(s, t)
  <2>1. /\ tHead = tSeen[p] /\ tLink' = tLink /\ tHead'.node = Null
        /\ tHeld' = [tHeld EXCEPT ![p] = @ \cup T!ToSet(T!Chain(tHead.node))]
    BY <1>5 DEF T!StealCas, T!Goto, T!ChangeHead, T!StolenWord, T!HeadWord
  <2>2. T!ToSet(T!Chain(tHead.node)) = {s[i] : i \in DOMAIN s}
    BY ContentsAre DEF T!ToSet
  <2>3. Listed(<<>>)'
    BY <2>1 DEF Listed, Linked, Distinct
  <2>4. Moved(s, <<>>)
    BY <2>1, <2>2 DEF Moved
  <2> QED
    BY <2>3, <2>4
<1>6. ASSUME NEW p \in Procs, T!PushLink(p) \/ T!PopClear(p) PROVE Listed(s)' /\ Moved(s, s)
  <2>1. UNCHANGED <<tHead, tHeld>> /\ tMine[p] \in tHeld[p]
    BY <1>0, <1>6 DEF T!PushLink, T!PopClear, T!Goto, TaggedControl, InHand
  <2>2. \E x : tLink' = [tLink EXCEPT ![tMine[p]] = x]
    BY <1>6 DEF T!PushLink, T!PopClear
  <2>3. \A i \in DOMAIN s : tLink'[s[i]] = tLink[s[i]]
    BY <1>1, <1>2, <2>1, <2>2
  <2>4. Linked(tLink', s, tHead.node)
    BY <1>1, <2>3 DEF Linked
  <2> QED
    BY <1>1, <2>1, <2>4 DEF Listed, Moved, Linked
<1>7. ASSUME UNCHANGED <<tHead, tLink, tHeld>> PROVE Listed(s)' /\ Moved(s, s)
  BY <1>1, <1>7 DEF Listed, Moved, Linked
<1>8. ASSUME NEW p \in Procs,
             \/ T!PushBegin(p) \/ T!PushRetry(p) \/ T!PopBegin(p) \/ T!PopEmpty(p)
             \/ T!PopLink(p) \/ T!PopRetry(p) \/ T!StealBegin(p) \/ T!StealRetry(p)
      PROVE  UNCHANGED <<tHead, tLink, tHeld>>
  BY <1>8 DEF T!PushBegin, T!PushRetry, T!PopBegin, T!PopEmpty, T!PopLink, T!PopRetry,
              T!StealBegin, T!StealRetry
<1>9. PICK p \in Procs : T!Step(p)
  BY DEF T!Next
<1> QED
  BY <1>3, <1>4, <1>5, <1>6, <1>7, <1>8, <1>9 DEF T!Step

-----------------------------------------------------------------------------
LEMMA TaggedBegins == T!Init => TaggedInv /\ Listed(<<>>)
<1> SUFFICES ASSUME T!Init PROVE TaggedInv /\ Listed(<<>>)
  OBVIOUS
<1> USE DEF T!Init, T!HeadWord
<1>1. T!TypeOK
  <2>1. 0 \in 0 .. CounterModulus - 1
    BY Owners
  <2> QED
    BY <2>1, Owners DEF T!TypeOK, T!Links, T!Counters
<1>2. Apart
  BY Owners DEF Apart
<1>3. TaggedControl
  BY DEF TaggedControl, InHand, T!Stalled
<1>4. Listed(<<>>)
  BY DEF Listed, Linked, Distinct
<1> QED
  BY <1>1, <1>2, <1>3, <1>4 DEF TaggedInv

LEMMA TaggedTypeStep ==
    ASSUME TaggedInv, NEW s, Listed(s), NEW p \in Procs, T!Step(p)
    PROVE  T!TypeOK'
<1> DEFINE Words == [node : T!Links, tag : T!Counters]
<1>0. /\ tHead \in Words /\ tLink \in [Nodes -> T!Links] /\ tMine \in [Procs -> T!Links]
      /\ tSeen \in [Procs -> Words] /\ tNext \in [Procs -> T!Links]
      /\ tHeld \in [Procs -> SUBSET Nodes] /\ tChanges \in [Procs -> T!Counters]
      /\ tPc \in [Procs -> {"idle", "pushLink", "pushCas", "popLink", "popCas",
                            "popClear", "stealCas"}]
  BY DEF TaggedInv, T!TypeOK
<1>1. /\ \A q \in Procs : /\ tHeld[q] \subseteq Nodes /\ tMine[q] \in T!Links
                          /\ tNext[q] \in T!Links /\ tSeen[q].node \in T!Links
                          /\ T!Bumped(tSeen[q].tag) \in T!Counters
      /\ 0 \in T!Counters /\ Null \in T!Links /\ Nodes \subseteq T!Links
      /\ tHead.node \in T!Links
  BY TaggedTypes, TagFacts, Owners DEF TaggedInv, T!Links, T!Counters
<1>2. \A w \in T!Links, k \in T!Counters : T!HeadWord(w, k) \in Words
  BY DEF T!HeadWord
<1>3. \A q \in Procs : tSeen[q].node # Null => tSeen[q].node \in Nodes
  BY <1>1 DEF T!Links
<1>4. \A n \in Nodes : tLink[n] \in T!Links
  BY <1>0
<1>5. {s[i] : i \in DOMAIN s} \subseteq Nodes
  BY DEF Listed
<1>6. ASSUME NEW w, T!ChangeHead(p, w) PROVE tHead' = w /\ tChanges' \in [Procs -> T!Counters]
  <2>1. \A q \in T!Stalled \ {p} : tChanges[q] \in Nat /\ tChanges[q] + 1 < CounterModulus
    BY <1>0, <1>6 DEF T!ChangeHead, T!Stalled, T!Counters
  <2>2. \A q \in Procs : (IF q \in T!Stalled \ {p} THEN tChanges[q] + 1 ELSE 0) \in T!Counters
    BY <1>1, <2>1, Owners DEF T!Counters
  <2> QED
    BY <1>6, <2>2 DEF T!ChangeHead
<1> HIDE DEF Words
<1>7. CASE T!PushBegin(p)
  <2>1. PICK n \in tHeld[p] : tMine' = [tMine EXCEPT ![p] = n]
    BY <1>7 DEF T!PushBegin
  <2>2. n \in T!Links
    BY <1>1
  <2> QED
    BY <1>0, <1>1, <1>7, <2>1, <2>2 DEF T!PushBegin, T!Goto, T!ReadHead, T!TypeOK, Words
<1>8. CASE T!PushLink(p)
  BY <1>0, <1>1, <1>8 DEF T!PushLink, T!Goto, T!TypeOK, Words
<1>9. CASE T!PushCas(p)
  <2>1. T!HeadWord(tMine[p], T!Bumped(tSeen[p].tag)) \in Words
    BY <1>1, <1>2
  <2>2. tHead' \in Words /\ tChanges' \in [Procs -> T!Counters]
    BY <1>6, <1>9, <2>1 DEF T!PushCas
  <2> QED
    BY <1>0, <1>1, <1>9, <2>2 DEF T!PushCas, T!Goto, T!TypeOK, Words
<1>10. CASE T!PushRetry(p) \/ T!PopBegin(p) \/ T!StealBegin(p) \/ T!StealRetry(p)
  <2>1. /\ UNCHANGED <<tHead, tLink, tMine, tNext, tHeld>>
        /\ T!ReadHead(p)
        /\ \E to \in {"pushLink", "popLink", "stealCas"} : tPc' = [tPc EXCEPT ![p] = to]
    BY <1>10 DEF T!PushRetry, T!PopBegin, T!StealBegin, T!StealRetry, T!Goto
  <2>2. tSeen' \in [Procs -> Words] /\ tChanges' \in [Procs -> T!Counters]
    BY <1>0, <1>1, <2>1 DEF T!ReadHead
  <2> QED
    BY <1>0, <2>1, <2>2 DEF T!TypeOK, Words
<1>11. CASE T!PopEmpty(p)
  BY <1>0, <1>1, <1>11 DEF T!PopEmpty, T!Goto, T!TypeOK, Words
<1>12. CASE T!PopLink(p)
  BY <1>0, <1>3, <1>4, <1>12 DEF T!PopLink, T!Goto, T!TypeOK, Words
<1>13. CASE T!PopCas(p)
  <2>1. T!HeadWord(tNext[p], T!Bumped(tSeen[p].tag)) \in Words
    BY <1>1, <1>2
  <2>2. tHead' \in Words /\ tChanges' \in [Procs -> T!Counters]
    BY <1>6, <1>13, <2>1 DEF T!PopCas
  <2>3. tSeen[p].node \in Nodes
    <3>1. tPc[p] = "popCas" /\ p \in T!Stalled
      BY <1>13 DEF T!PopCas, T!Goto, T!Stalled
    <3> QED
      BY <1>3, <3>1 DEF TaggedInv, TaggedControl, AsRead
  <2> QED
    BY <1>0, <1>1, <1>13, <2>2, <2>3 DEF T!PopCas, T!Goto, T!TypeOK, Words
<1>14. CASE T!PopRetry(p)
  BY <1>0, <1>1, <1>14 DEF T!PopRetry, T!Goto, T!ReadHead, T!TypeOK, Words
<1>15. CASE T!PopClear(p)
  BY <1>0, <1>1, <1>15 DEF T!PopClear, T!Goto, T!TypeOK, Words
<1>16. CASE T!StealCas(p)
  <2>1. T!StolenWord(tSeen[p].tag) \in Words
    BY <1>1, <1>2 DEF T!StolenWord
  <2>2. tHead' \in Words /\ tChanges' \in [Procs -> T!Counters]
    BY <1>6, <1>16, <2>1 DEF T!StealCas
  <2>3. T!ToSet(T!Chain(tSeen[p].node)) \subseteq Nodes
    BY <1>5, <1>16, ContentsAre DEF T!StealCas, T!ToSet
  <2> QED
    BY <1>0, <1>1, <1>16, <2>2, <2>3 DEF T!StealCas, T!Goto, T!TypeOK, Words
<1> QED
  BY <1>7, <1>8, <1>9, <1>10, <1>11, <1>12, <1>13, <1>14, <1>15, <1>16 DEF T!Step

LEMMA ApartStep ==
    ASSUME TaggedInv, NEW s, Listed(s), NEW t, Moved(s, t)
    PROVE  Apart'
<1>1. /\ tHeld \in [Procs -> SUBSET Nodes] /\ Apart
      /\ \A p \in Procs : \A i \in DOMAIN s : s[i] \notin tHeld[p]
  BY DEF TaggedInv, T!TypeOK, Listed
<1>2. ASSUME NEW p \in Procs, NEW n \in tHeld[p], tHeld' = [tHeld EXCEPT ![p] = @ \ {n}]
      PROVE  Apart'
  BY <1>1, <1>2 DEF Apart
<1>3. ASSUME NEW p \in Procs, NEW S, tHeld' = [tHeld EXCEPT ![p] = @ \cup S],
             \A x \in S : \A q \in Procs : x \notin tHeld[q]
      PROVE  Apart'
  BY <1>1, <1>3 DEF Apart
<1>4. ASSUME NEW p \in Procs, s # <<>>, tHeld' = [tHeld EXCEPT ![p] = @ \cup {Head(s)}]
      PROVE  Apart'
  <2>1. \A q \in Procs : Head(s) \notin tHeld[q]
    <3>1. s \in Seq(Nodes)
      BY DEF Listed
    <3>2. 1 \in DOMAIN s /\ Head(s) = s[1]
      BY <1>4, <3>1, EmptySeq
    <3> QED
      BY <1>1, <3>2
  <2>2. PICK S : S = {Head(s)}
    OBVIOUS
  <2>3. tHeld' = [tHeld EXCEPT ![p] = @ \cup S]
    BY <1>4, <2>2
  <2>4. \A x \in S : \A q \in Procs : x \notin tHeld[q]
    BY <2>1, <2>2
  <2> QED
    BY <1>3, <2>3, <2>4
<1>5. ASSUME NEW p \in Procs, tHeld' = [tHeld EXCEPT ![p] = @ \cup {s[i] : i \in DOMAIN s}]
      PROVE  Apart'
  <2>1. PICK S : S = {s[i] : i \in DOMAIN s}
    OBVIOUS
  <2>2. \A x \in S : \A q \in Procs : x \notin tHeld[q]
    BY <1>1, <2>1
  <2> QED
    BY <1>3, <1>5, <2>1, <2>2
<1>6. CASE tHeld' = tHeld
  BY <1>1, <1>6 DEF Apart
<1> QED
  BY <1>2, <1>4, <1>5, <1>6 DEF Moved

\* What p reads afresh is what the head is.
LEMMA FreshlyRead ==
    ASSUME TaggedInv, NEW p \in Procs, T!ReadHead(p), UNCHANGED tHead, tPc'[p] # "popCas"
    PROVE  AsRead(p)'
<1>1. tSeen'[p] = tHead /\ tChanges'[p] = 0
  BY DEF T!ReadHead, TaggedInv, T!TypeOK
<1>2. tHead.tag = TagWrapped(tHead.tag + 0)
  BY TaggedTypes, TagFacts DEF TaggedInv
<1> QED
  BY <1>1, <1>2 DEF AsRead

LEMMA OwnControlStep ==
    ASSUME TaggedInv, NEW s, Listed(s), NEW p \in Procs, T!Step(p)
    PROVE  (InHand(p) /\ (p \in T!Stalled => AsRead(p)))'
<1>1. /\ tMine \in [Procs -> T!Links] /\ tNext \in [Procs -> T!Links]
      /\ tPc \in [Procs -> {"idle", "pushLink", "pushCas", "popLink", "popCas",
                            "popClear", "stealCas"}]
      /\ tHeld \in [Procs -> SUBSET Nodes] /\ tLink \in [Nodes -> T!Links]
      /\ InHand(p) /\ (p \in T!Stalled => AsRead(p))
  BY DEF TaggedInv, T!TypeOK, TaggedControl
<1>2. CASE T!PushBegin(p)
  <2>1. InHand(p)' /\ tPc'[p] = "pushLink"
    BY <1>1, <1>2 DEF T!PushBegin, T!Goto, InHand
  <2> QED
    BY <1>2, <2>1, FreshlyRead DEF T!PushBegin
<1>3. CASE T!PushLink(p)
  <2>1. tMine[p] \in tHeld[p] /\ tMine[p] \in Nodes /\ p \in T!Stalled
    BY <1>1, <1>3 DEF T!PushLink, T!Goto, InHand, T!Stalled
  <2>2. InHand(p)' /\ tPc'[p] = "pushCas"
    BY <1>1, <1>3, <2>1 DEF T!PushLink, T!Goto, InHand
  <2> QED
    BY <1>1, <1>3, <2>1, <2>2 DEF T!PushLink, AsRead
<1>4. CASE T!PushRetry(p)
  <2>1. InHand(p)' /\ tPc'[p] = "pushLink"
    BY <1>1, <1>4 DEF T!PushRetry, T!Goto, InHand
  <2> QED
    BY <1>4, <2>1, FreshlyRead DEF T!PushRetry
<1>5. CASE T!PopBegin(p) \/ T!PopRetry(p) \/ T!StealBegin(p) \/ T!StealRetry(p)
  <2>1. tPc'[p] \in {"popLink", "stealCas"} /\ T!ReadHead(p) /\ UNCHANGED tHead
    BY <1>1, <1>5 DEF T!PopBegin, T!PopRetry, T!StealBegin, T!StealRetry, T!Goto
  <2>2. AsRead(p)'
    BY <2>1, FreshlyRead
  <2> QED
    BY <2>1, <2>2 DEF InHand
<1>6. CASE T!PopLink(p)
  <2>1. /\ tPc'[p] = "popCas" /\ p \in T!Stalled /\ tNext'[p] = tLink[tSeen[p].node]
        /\ tSeen[p].node # Null
    BY <1>1, <1>6 DEF T!PopLink, T!Goto, T!Stalled
  <2> QED
    BY <1>1, <1>6, <2>1 DEF T!PopLink, AsRead, InHand
<1>7. CASE T!PopCas(p)
  <2>1. tPc'[p] = "popClear" /\ tMine'[p] \in tHeld'[p]
    BY <1>1, <1>7 DEF T!PopCas, T!Goto
  <2> QED
    BY <2>1 DEF InHand, T!Stalled
<1>8. CASE T!PushCas(p) \/ T!PopEmpty(p) \/ T!PopClear(p) \/ T!StealCas(p)
  <2>1. tPc'[p] = "idle"
    BY <1>1, <1>8 DEF T!PushCas, T!PopEmpty, T!PopClear, T!StealCas, T!Goto
  <2> QED
    BY <2>1 DEF InHand, T!Stalled
<1> QED
  BY <1>2, <1>3, <1>4, <1>5, <1>6, <1>7, <1>8 DEF T!Step

LEMMA OthersControlStep ==
    ASSUME TaggedInv, NEW s, Listed(s), NEW p \in Procs, T!Step(p), NEW q \in Procs, q # p
    PROVE  (InHand(q) /\ (q \in T!Stalled => AsRead(q)))'
<1>1. /\ tMine \in [Procs -> T!Links] /\ tNext \in [Procs -> T!Links]
      /\ tPc \in [Procs -> {"idle", "pushLink", "pushCas", "popLink", "popCas",
                            "popClear", "stealCas"}]
      /\ tSeen \in [Procs -> [node : T!Links, tag : T!Counters]]
      /\ tHeld \in [Procs -> SUBSET Nodes] /\ tLink \in [Nodes -> T!Links]
      /\ tChanges \in [Procs -> T!Counters]
      /\ InHand(p) /\ InHand(q) /\ (q \in T!Stalled => AsRead(q)) /\ (p \in T!Stalled => AsRead(p))
      /\ tHeld[p] \cap tHeld[q] = {}
  BY DEF TaggedInv, T!TypeOK, TaggedControl, Apart
<1>2. /\ tPc'[q] = tPc[q] /\ tMine'[q] = tMine[q] /\ tSeen'[q] = tSeen[q] /\ tNext'[q] = tNext[q]
      /\ tHeld'[q] = tHeld[q]
  BY <1>1 DEF T!Step, T!PushBegin, T!PushLink, T!PushCas, T!PushRetry, T!PopBegin, T!PopEmpty,
       T!PopLink, T!PopCas, T!PopRetry, T!PopClear, T!StealBegin, T!StealCas, T!StealRetry,
       T!Goto, T!ReadHead
\* Only the owner of a node writes its link.
<1>3. \A n \in Nodes : n \notin tHeld[p] => tLink'[n] = tLink[n]
  <2>1. CASE T!PushLink(p) \/ T!PopClear(p)
    <3>1. tMine[p] \in tHeld[p]
      BY <1>1, <2>1 DEF T!PushLink, T!PopClear, T!Goto, InHand
    <3> QED
      BY <1>1, <2>1, <3>1 DEF T!PushLink, T!PopClear
  <2>2. CASE ~(T!PushLink(p) \/ T!PopClear(p))
    BY <2>2 DEF T!Step, T!PushBegin, T!PushCas, T!PushRetry, T!PopBegin, T!PopEmpty,
       T!PopLink, T!PopCas, T!PopRetry, T!StealBegin, T!StealCas, T!StealRetry
  <2> QED
    BY <2>1, <2>2
<1>4. InHand(q)'
  <2>1. tMine[q] \in tHeld[q] => tLink'[tMine[q]] = tLink[tMine[q]]
    BY <1>1, <1>3
  <2> QED
    BY <1>1, <1>2, <2>1 DEF InHand
<1>5. ASSUME q \in T!Stalled, NEW w, T!ChangeHead(p, w), w.tag = T!Bumped(tHead.tag)
      PROVE  AsRead(q)'
  <2>1. tChanges'[q] = tChanges[q] + 1 /\ tChanges[q] + 1 < CounterModulus /\ tHead' = w
    BY <1>5 DEF T!ChangeHead
  <2>2. /\ tChanges[q] \in Nat /\ tSeen[q].tag \in 0 .. CounterModulus - 1
        /\ tHead.tag \in 0 .. CounterModulus - 1
    BY TaggedTypes DEF TaggedInv
  <2>3. tHead'.tag = TagWrapped(tHead.tag + 1)
    BY <1>5, <2>1, <2>2, TagFacts
  <2>4. tHead.tag = TagWrapped(tSeen[q].tag + tChanges[q])
    BY <1>1, <1>5 DEF AsRead
  <2>5. TagWrapped(tHead.tag + 1) = TagWrapped(tSeen[q].tag + (tChanges[q] + 1))
    BY <2>1, <2>2, <2>4, Owners DEF TagWrapped
  <2>6. tChanges'[q] # 0
    BY <2>1, <2>2
  <2> QED
    BY <1>1, <1>2, <1>5, <2>1, <2>3, <2>5, <2>6 DEF AsRead
<1>6. ASSUME q \in T!Stalled, UNCHANGED tHead, tChanges'[q] = tChanges[q]
      PROVE  AsRead(q)'
  <2>1. ASSUME tPc[q] = "popCas", tChanges[q] = 0
        PROVE  tLink'[tSeen[q].node] = tLink[tSeen[q].node]
    <3>1. tHead.node = tSeen[q].node /\ tHead.node # Null
      BY <1>1, <1>6, <2>1 DEF AsRead
    <3>2. 1 \in DOMAIN s /\ s[1] = tHead.node
      BY <3>1, PoppedList DEF Listed
    <3>3. tHead.node \in Nodes /\ tHead.node \notin tHeld[p]
      BY <3>2 DEF Listed
    <3> QED
      BY <1>3, <3>1, <3>3
  <2> QED
    BY <1>1, <1>2, <1>6, <2>1 DEF AsRead
<1>7. CASE T!PushCas(p)
  BY <1>4, <1>5, <1>7, <1>2 DEF T!PushCas, T!HeadWord, T!Stalled
<1>8. CASE T!PopCas(p)
  BY <1>4, <1>5, <1>8, <1>2 DEF T!PopCas, T!HeadWord, T!Stalled
<1>9. CASE T!StealCas(p)
  BY <1>4, <1>5, <1>9, <1>2 DEF T!StealCas, T!StolenWord, T!HeadWord, T!Stalled
<1>10. CASE ~(T!PushCas(p) \/ T!PopCas(p) \/ T!StealCas(p))
  <2>1. UNCHANGED tHead /\ tChanges'[q] = tChanges[q]
    BY <1>1, <1>10 DEF T!Step, T!PushBegin, T!PushLink, T!PushRetry, T!PopBegin, T!PopEmpty,
       T!PopLink, T!PopRetry, T!PopClear, T!StealBegin, T!StealRetry, T!ReadHead
  <2> QED
    BY <1>2, <1>4, <1>6, <2>1 DEF T!Stalled
<1> QED
  BY <1>7, <1>8, <1>9, <1>10

LEMMA TaggedStep == TaggedInv /\ [T!Next]_(T!vars) => TaggedInv'
<1> SUFFICES ASSUME TaggedInv, [T!Next]_(T!vars) PROVE TaggedInv'
  OBVIOUS
<1>1. CASE T!Next
  <2>1. PICK s : Listed(s)
    BY DEF TaggedInv
  <2>2. PICK p \in Procs : T!Step(p)
    BY <1>1 DEF T!Next
  <2>3. PICK t : Listed(t)' /\ Moved(s, t)
    BY <1>1, <2>1, ListStep
  <2>4. T!TypeOK'
    BY <2>1, <2>2, TaggedTypeStep
  <2>5. Apart'
    BY <2>1, <2>3, ApartStep
  <2>6. TaggedControl'
    <3>1. \A q \in Procs : (InHand(q) /\ (q \in T!Stalled => AsRead(q)))'
      BY <2>1, <2>2, OwnControlStep, OthersControlStep
    <3> QED
      BY <3>1 DEF TaggedControl
  <2> QED
    BY <2>3, <2>4, <2>5, <2>6 DEF TaggedInv
<1>2. CASE UNCHANGED T!vars
  <2>1. UNCHANGED <<tHead, tLink, tPc, tMine, tSeen, tNext, tHeld, tChanges>>
    BY <1>2 DEF T!vars
  <2>2. T!TypeOK' /\ Apart'
    BY <2>1 DEF TaggedInv, T!TypeOK, Apart
  <2>3. TaggedControl'
    BY <2>1 DEF TaggedInv, TaggedControl, InHand, T!Stalled, AsRead
  <2>4. PICK s : Listed(s)
    BY DEF TaggedInv
  <2>5. Listed(s)'
    BY <2>1, <2>4 DEF Listed, Linked
  <2> QED
    BY <2>2, <2>3, <2>5 DEF TaggedInv
<1> QED
  BY <1>1, <1>2

\* Each exchange that succeeds is a push, a pop or a theft of the list.
LEMMA TaggedRefines ==
    TaggedInv /\ TaggedInv' /\ [T!Next]_(T!vars) => [T!A!StackNext]_(T!A!stackVars)
<1> SUFFICES ASSUME TaggedInv, [T!Next]_(T!vars)
             PROVE  T!A!StackNext \/ (T!Contents' = T!Contents /\ tHeld' = tHeld)
  BY DEF T!A!stackVars
<1>1. PICK s : Listed(s)
  BY DEF TaggedInv
<1>2. T!Contents = s
  BY <1>1, ContentsAre
<1>3. CASE T!Next
  <2>1. PICK t : Listed(t)' /\ Moved(s, t)
    BY <1>1, <1>3, ListStep
  <2>2. T!Contents' = t
    BY <2>1, ContentsAreNext
  <2>3. ASSUME NEW p \in Procs, NEW n \in tHeld[p], t = <<n>> \o s,
               tHeld' = [tHeld EXCEPT ![p] = @ \ {n}]
        PROVE  T!A!Push(p, n)
    BY <1>2, <2>2, <2>3 DEF T!A!Push
  <2>4. ASSUME NEW p \in Procs, s # <<>>, t = Tail(s),
               tHeld' = [tHeld EXCEPT ![p] = @ \cup {Head(s)}]
        PROVE  T!A!Pop(p)
    BY <1>2, <2>2, <2>4 DEF T!A!Pop
  <2>5. ASSUME NEW p \in Procs, t = <<>>,
               tHeld' = [tHeld EXCEPT ![p] = @ \cup {s[i] : i \in DOMAIN s}]
        PROVE  T!A!StealAll(p)
    BY <1>2, <2>2, <2>5 DEF T!A!StealAll, T!A!ToSet
  <2> QED
    BY <1>2, <2>1, <2>2, <2>3, <2>4, <2>5 DEF Moved, T!A!StackNext
<1>4. CASE UNCHANGED T!vars
  BY <1>4 DEF T!vars, T!Contents, T!Chain, T!Follows
<1> QED
  BY <1>3, <1>4

-----------------------------------------------------------------------------
(* The specification of the run                                            *)

AllInv == QueueInv /\ StackInv /\ TaggedInv

LEMMA AllBegin == AllInit => AllInv
BY QueueBegins, StackBegins, TaggedBegins DEF AllInit, AllInv

\* The behaviour is about one container; the others stay as they were initialised.
LEMMA EachSteps ==
    [AllNext]_allVars => [Next]_vars /\ [V!Next]_(V!vars) /\ [T!Next]_(T!vars)
<1>1. UNCHANGED vVars => UNCHANGED V!vars
  BY DEF vVars, V!vars
<1>2. UNCHANGED tVars => UNCHANGED T!vars
  BY DEF tVars, T!vars
<1> QED
  BY <1>1, <1>2 DEF AllNext, allVars

LEMMA AllStep == AllInv /\ [AllNext]_allVars => AllInv'
BY EachSteps, QueueStep, StackStep, TaggedStep DEF AllInv

\* The three inductive invariants of the containers: which slots of the queue hold an object,
\* what the words that a stalled thread read still say of the slots and of the links, and that
\* the list the links make has no node of any owner.
THEOREM Invariance == AllSpec => []AllInv
BY AllBegin, AllStep, PTL DEF AllSpec

\* The indices, words, links and owners are what their types say, and the size estimate of the
\* queue is a size it could have (size_estimate).
THEOREM TypesHold == AllSpec => []TypesOK
<1>1. AllInv => TypesOK
  BY DEF AllInv, QueueInv, StackInv, TaggedInv, TypesOK
<1> QED
  BY <1>1, Invariance, PTL

\* push_back, pop_front, popFront and the destructor: every object is constructed once and
\* destroyed once, and none survives the queue.
THEOREM ObjectLifetimesHold == AllSpec => []ObjectLifetimes
<1>1. AllInv => ObjectLifetimes
  BY LifetimesFollow DEF AllInv
<1> QED
  BY <1>1, Invariance, PTL

\* The operations of the containers as their callers see them: an operation of a bounded queue
\* takes place where an index is moved, one of an atomic stack where the exchange of a push, a
\* pop or steal_all succeeds, and no other step shows.
THEOREM ContainersAreImplemented == AllSpec => ImplementsContainers
<1>1. AllInit => Q!QueueInit /\ V!A!StackInit /\ T!A!StackInit
  <2>1. AllInit => T!Contents = <<>> /\ tHeld = InitialHeld
    BY TaggedBegins, ContentsAre DEF AllInit, T!Init
  <2> QED
    BY <2>1, QueueBeginsEmpty, StackBeginsEmpty DEF AllInit, T!A!StackInit
<1>2. AllInv /\ AllInv' /\ [AllNext]_allVars =>
        /\ [Q!QueueNext]_(Q!queueVars)
        /\ [V!A!StackNext]_(V!A!stackVars)
        /\ [T!A!StackNext]_(T!A!stackVars)
  BY EachSteps, QueueStepRefines, StackRefines, TaggedRefines DEF AllInv
<1> QED
  BY <1>1, <1>2, Invariance, PTL
     DEF AllSpec, ImplementsContainers, ImplementsQueue, Q!QueueSpec, V!ImplementsStack,
         V!A!StackSpec, T!ImplementsStack, T!A!StackSpec
=============================================================================
