------------------------- MODULE Coordination_proofs -------------------------
(***************************************************************************)
(* What the coordination run checks on small instances, for any number of  *)
(* threads, slots, tokens, words, handles and nested frames.  Each class   *)
(* has an inductive invariant of its own; the last part puts them together *)
(* for the specification of the run.                                       *)
(***************************************************************************)
EXTENDS MCCoordination, FiniteSetTheorems, SequenceTheorems, WellFoundedInduction, TLAPS

-----------------------------------------------------------------------------
(* put_element and get_element                                             *)


Present(t) == pc[t] \in {"putSet", "putOffer"} \/ Waiting(t) \/ Giving(t) \/ Reading(t)

\* The one thread at slot s is the one its state speaks of.
Alone(s, t) ==
    /\ state[s] = "putSetup" => pc[t] = "putSet" \/ (pc[t] = "putOffer" /\ element[s] = value[t])
    /\ state[s] = "waitingGet" => pc[t] = "putWait" /\ element[s] = value[t]
    /\ state[s] = "waitingPut" => pc[t] = "getWait"
    /\ state[s] = "eliminated" =>
          \/ pc[t] \in {"putWait", "putSpin"}
          \/ pc[t] \in {"getWait", "getSpin"} /\ element[s] \in Values
    /\ state[s] = "getCleanup" => Reading(t) /\ (pc[t] = "getLoad" => element[s] \in Values)

\* t waits at slot s, and u has claimed it.
Paired(s, t, u) ==
    /\ state[s] = "eliminatingGet" =>
          /\ pc[t] \in {"putWait", "putSpin"}
          /\ Reading(u) /\ (pc[u] = "getLoad" => element[s] \in Values)
    /\ state[s] = "eliminatingPut" =>
          /\ pc[t] \in {"getWait", "getSpin"}
          /\ Giving(u) /\ (pc[u] = "putGiven" => element[s] = value[u])

SlotControl(s) ==
    /\ state[s] = "empty" => At(s) = {}
    /\ state[s] \in {"putSetup", "waitingGet", "waitingPut", "eliminated", "getCleanup"} =>
          \E t \in Threads : At(s) = {t} /\ Alone(s, t)
    /\ state[s] \in {"eliminatingGet", "eliminatingPut"} =>
          \E t, u \in Threads : t # u /\ At(s) = {t, u} /\ Paired(s, t, u)

ValueControl(t) ==
    /\ IsPut(t) => value[t] \in held[t]
    /\ pc[t] \in {"getClear", "getDone"} => value[t] \in Values

IInv ==
    /\ TypeOK
    /\ \A s \in Slots : SlotControl(s)
    /\ \A t \in Threads : ValueControl(t)

-----------------------------------------------------------------------------
(* What a step of t leaves alone.                                          *)

OthersStay(t) ==
    \A u \in Threads \ {t} :
        pc'[u] = pc[u] /\ slot'[u] = slot[u] /\ value'[u] = value[u] /\ held'[u] = held[u]

\* What Exchange is told of a thread.
Offered(t) == IF IsPut(t) THEN value[t] ELSE Null
Asking(t) == pc[t] # "idle" /\ ~IsPut(t)

\* A thread that is not past the claim of a slot owns what its caller was told it owns.
LEMMA OwnedAbsent ==
    ASSUME NEW t \in Threads, ~Present(t)
    PROVE  Owned(t) = held[t]
  BY DEF Present, Owned, GaveAway, Received, Waiting, Giving, Reading

\* A slot t has nothing to do with stays as it was.
LEMMA SlotKept ==
    ASSUME NEW t \in Threads, OthersStay(t), NEW s \in Slots,
           ~(Present(t) /\ slot[t] = s), ~(Present(t)' /\ slot'[t] = s),
           state'[s] = state[s], element'[s] = element[s], SlotControl(s)
    PROVE  SlotControl(s)' /\ At(s)' = At(s)
<1>1. At(s)' = At(s) /\ t \notin At(s)
  BY DEF At, OthersStay, Present, Waiting, Giving, Reading
<1>2. \A u \in At(s) : u \in Threads /\ pc'[u] = pc[u] /\ value'[u] = value[u]
  BY <1>1 DEF OthersStay, At
<1>3. \A u \in At(s) : Alone(s, u) => Alone(s, u)'
  BY <1>2 DEF Alone, Reading
<1>4. \A u, w \in At(s) : Paired(s, u, w) => Paired(s, u, w)'
  BY <1>2 DEF Paired, Reading, Giving
<1>5. CASE state[s] = "empty"
  BY <1>1, <1>5 DEF SlotControl
<1>6. CASE state[s] \in {"putSetup", "waitingGet", "waitingPut", "eliminated", "getCleanup"}
  <2> PICK u \in Threads : At(s) = {u} /\ Alone(s, u)
    BY <1>6 DEF SlotControl
  <2>1. At(s)' = {u} /\ Alone(s, u)'
    BY <1>1, <1>3
  <2> QED
    BY <1>1, <1>6, <2>1 DEF SlotControl
<1>7. CASE state[s] \in {"eliminatingGet", "eliminatingPut"}
  <2> PICK u \in Threads, w \in Threads : u # w /\ At(s) = {u, w} /\ Paired(s, u, w)
    BY <1>7 DEF SlotControl
  <2>1. At(s)' = {u, w} /\ Paired(s, u, w)'
    BY <1>1, <1>4
  <2> QED
    BY <1>1, <1>7, <2>1 DEF SlotControl
<1> QED
  BY <1>1, <1>5, <1>6, <1>7 DEF SlotControl

\* So does what another thread owns that is not at the slot t is at.
LEMMA OwnedKept ==
    ASSUME NEW t \in Threads, OthersStay(t), NEW u \in Threads \ {t},
           \/ ~Present(u)
           \/ /\ ~(Present(t) /\ slot[t] = slot[u]) /\ ~(Present(t)' /\ slot'[t] = slot[u])
              /\ state'[slot[u]] = state[slot[u]] /\ element'[slot[u]] = element[slot[u]]
    PROVE  Owned(u)' = Owned(u)
<1>1. pc'[u] = pc[u] /\ slot'[u] = slot[u] /\ value'[u] = value[u] /\ held'[u] = held[u]
  BY DEF OthersStay
<1>2. CASE ~Present(u)
  <2>1. ~Present(u)'
    BY <1>1, <1>2 DEF Present, Waiting, Giving, Reading
  <2>2. Owned(u)' = held'[u]
    BY <1>1, <2>1 DEF Present, Owned, GaveAway, Received, Waiting, Giving, Reading
  <2> QED
    BY <1>1, <1>2, <2>2, OwnedAbsent
<1>3. CASE Present(u)
  <2> DEFINE s == slot[u]
  <2>1. At(s)' = At(s) /\ t \notin At(s)
    BY <1>3 DEF At, OthersStay, Present, Waiting, Giving, Reading
  <2>2. \A w \in At(s) : w \in Threads /\ pc'[w] = pc[w] /\ value'[w] = value[w]
    BY <2>1 DEF OthersStay, At
  <2>3. {value'[w] : w \in {x \in At(s)' : Giving(x)'}} = {value[w] : w \in {x \in At(s) : Giving(x)}}
    BY <2>1, <2>2 DEF Giving
  <2>4. state'[slot'[u]] = state[slot[u]] /\ element'[slot'[u]] = element[slot[u]]
    BY <1>1, <1>3
  <2>5. Received(u)' = Received(u)
    BY <1>1, <2>3, <2>4 DEF Received
  <2>6. GaveAway(u)' <=> GaveAway(u)
    BY <1>1, <2>4 DEF GaveAway, Giving
  <2> QED
    BY <1>1, <2>5, <2>6 DEF Owned
<1> QED
  BY <1>2, <1>3

\* A step of t outside all slots.
LEMMA AbsentStep ==
    ASSUME IInv, NEW t \in Threads, OthersStay(t), UNCHANGED <<state, element>>,
           ~Present(t), ~Present(t)'
    PROVE  /\ \A s \in Slots : SlotControl(s)'
           /\ \A u \in Threads \ {t} : Owned(u)' = Owned(u)
           /\ Owned(t) = held[t] /\ Owned(t)' = held'[t]
<1>1. \A s \in Slots : SlotControl(s)'
  BY SlotKept DEF IInv
<1>2. \A u \in Threads \ {t} : Owned(u)' = Owned(u)
  BY OwnedKept
<1>3. Owned(t)' = held'[t]
  BY DEF Present, Owned, GaveAway, Received, Waiting, Giving, Reading
<1> QED
  BY <1>1, <1>2, <1>3, OwnedAbsent

\* A step of t at its slot: what is left to show is that slot and its threads.
LEMMA PresentStep ==
    ASSUME IInv, NEW t \in Threads, OthersStay(t), slot' = slot,
           \A s \in Slots \ {slot[t]} : state'[s] = state[s] /\ element'[s] = element[s]
    PROVE  /\ \A s \in Slots \ {slot[t]} : SlotControl(s)'
           /\ \A u \in Threads \ {t} : u \notin At(slot[t]) => Owned(u)' = Owned(u)
           /\ At(slot[t])' \ {t} = At(slot[t]) \ {t}
<1>1. \A s \in Slots \ {slot[t]} : SlotControl(s)'
  BY SlotKept DEF IInv
<1>2. ASSUME NEW u \in Threads \ {t}, u \notin At(slot[t]) PROVE Owned(u)' = Owned(u)
  <2>1. \/ ~Present(u)
        \/ slot[u] \in Slots \ {slot[t]}
    BY <1>2 DEF At, Present, IInv, TypeOK
  <2> QED
    BY <2>1, OwnedKept
<1>3. At(slot[t])' \ {t} = At(slot[t]) \ {t}
  BY DEF At, OthersStay, Present, Waiting, Giving, Reading
<1> QED
  BY <1>1, <1>2, <1>3

-----------------------------------------------------------------------------
(* The steps of Exchange.                                                  *)

OwnedStays(t) == \A u \in Threads \ {t} : Owned(u)' = Owned(u)

LEMMA OthersTell ==
    ASSUME NEW t \in Threads, OthersStay(t), NEW u \in Threads \ {t}
    PROVE  Offered(u)' = Offered(u) /\ (Asking(u)' <=> Asking(u))
  BY DEF OthersStay, Offered, Asking, IsPut

LEMMA Stutters ==
    ASSUME NEW t \in Threads, OthersStay(t),
           \A u \in Threads : Owned(u)' = Owned(u),
           Offered(t)' = Offered(t), Asking(t)' <=> Asking(t)
    PROVE  UNCHANGED X!exchangeVars
<1>1. \A u \in Threads : Offered(u)' = Offered(u) /\ (Asking(u)' <=> Asking(u))
  BY OthersTell
<1>2. [u \in Threads |-> Owned(u)]' = [u \in Threads |-> Owned(u)]
  OBVIOUS
<1>3. [u \in Threads |-> Offered(u)]' = [u \in Threads |-> Offered(u)]
  BY <1>1
<1>4. {u \in Threads : Asking(u)}' = {u \in Threads : Asking(u)}
  BY <1>1
<1> QED
  BY <1>2, <1>3, <1>4 DEF X!exchangeVars, Offered, Asking

LEMMA Offers ==
    ASSUME NEW t \in Threads, OthersStay(t),
           \A u \in Threads : Owned(u)' = Owned(u),
           NEW v \in Owned(t), Offered(t)' = v, Asking(t)' <=> Asking(t)
    PROVE  X!ExchangeNext
<1>1. \A u \in Threads : u # t => Offered(u)' = Offered(u) /\ (Asking(u)' <=> Asking(u))
  BY OthersTell
<1>2. [u \in Threads |-> Owned(u)]' = [u \in Threads |-> Owned(u)]
  OBVIOUS
<1>3. [u \in Threads |-> Offered(u)]' = [[u \in Threads |-> Offered(u)] EXCEPT ![t] = v]
  BY <1>1
<1>4. {u \in Threads : Asking(u)}' = {u \in Threads : Asking(u)}
  BY <1>1
<1>5. v \in [u \in Threads |-> Owned(u)][t]
  OBVIOUS
<1>6. X!Offer(t, v)
  BY <1>2, <1>3, <1>4, <1>5 DEF X!Offer, Offered, Asking
<1> QED
  BY <1>5, <1>6 DEF X!ExchangeNext

LEMMA EndsOffer ==
    ASSUME NEW t \in Threads, OthersStay(t),
           \A u \in Threads : Owned(u)' = Owned(u),
           Offered(t)' = Null, Asking(t)' <=> Asking(t)
    PROVE  X!ExchangeNext
<1>1. \A u \in Threads : u # t => Offered(u)' = Offered(u) /\ (Asking(u)' <=> Asking(u))
  BY OthersTell
<1>2. [u \in Threads |-> Owned(u)]' = [u \in Threads |-> Owned(u)]
  OBVIOUS
<1>3. [u \in Threads |-> Offered(u)]' = [[u \in Threads |-> Offered(u)] EXCEPT ![t] = Null]
  BY <1>1
<1>4. {u \in Threads : Asking(u)}' = {u \in Threads : Asking(u)}
  BY <1>1
<1>5. X!EndOffer(t)
  BY <1>2, <1>3, <1>4 DEF X!EndOffer, Offered, Asking
<1> QED
  BY <1>5 DEF X!ExchangeNext

\* An ask, and the end of one.
LEMMA Asks ==
    ASSUME NEW t \in Threads, OthersStay(t),
           \A u \in Threads : Owned(u)' = Owned(u),
           Offered(t)' = Offered(t)
    PROVE  X!ExchangeNext
<1>1. \A u \in Threads : u # t => Offered(u)' = Offered(u) /\ (Asking(u)' <=> Asking(u))
  BY OthersTell
<1>2. [u \in Threads |-> Owned(u)]' = [u \in Threads |-> Owned(u)]
  OBVIOUS
<1>3. [u \in Threads |-> Offered(u)]' = [u \in Threads |-> Offered(u)]
  BY <1>1
<1>4. CASE Asking(t)'
  <2>1. {u \in Threads : Asking(u)}' = {u \in Threads : Asking(u)} \cup {t}
    BY <1>1, <1>4
  <2>2. X!Ask(t)
    BY <1>2, <1>3, <2>1 DEF X!Ask, Offered, Asking
  <2> QED
    BY <2>2 DEF X!ExchangeNext
<1>5. CASE ~Asking(t)'
  <2>1. {u \in Threads : Asking(u)}' = {u \in Threads : Asking(u)} \ {t}
    BY <1>1, <1>5
  <2>2. X!EndAsk(t)
    BY <1>2, <1>3, <2>1 DEF X!EndAsk, Offered, Asking
  <2> QED
    BY <2>2 DEF X!ExchangeNext
<1> QED
  BY <1>4, <1>5

\* The element of p passes to q in a step of one of the two.
LEMMA Transfers ==
    ASSUME NEW t \in Threads, OthersStay(t), NEW p \in Threads, NEW q \in Threads, p # q,
           \A u \in Threads \ {p, q} : Owned(u)' = Owned(u),
           Offered(p) \in Owned(p), Asking(q),
           Owned(p)' = Owned(p) \ {Offered(p)}, Owned(q)' = Owned(q) \cup {Offered(p)},
           Offered(t)' = Offered(t), Asking(t)' <=> Asking(t)
    PROVE  X!ExchangeNext
<1>1. \A u \in Threads : Offered(u)' = Offered(u) /\ (Asking(u)' <=> Asking(u))
  BY OthersTell
<1>2. [u \in Threads |-> Owned(u)]' = [[u \in Threads |-> Owned(u)] EXCEPT
           ![p] = @ \ {Offered(p)}, ![q] = @ \cup {Offered(p)}]
  OBVIOUS
<1>3. [u \in Threads |-> Offered(u)]' = [u \in Threads |-> Offered(u)]
  BY <1>1
<1>4. {u \in Threads : Asking(u)}' = {u \in Threads : Asking(u)}
  BY <1>1
<1>5. /\ [u \in Threads |-> Offered(u)][p] = Offered(p) /\ q \in {u \in Threads : Asking(u)}
      /\ [u \in Threads |-> Owned(u)][p] = Owned(p)
  OBVIOUS
<1>6. X!Transfer(p, q)
  BY <1>2, <1>3, <1>4, <1>5 DEF X!Transfer, Offered, Asking
<1> QED
  BY <1>6 DEF X!ExchangeNext

-----------------------------------------------------------------------------
(* Who is at a slot, seen from one of its threads.                         *)

LEMMA AtItsSlot ==
    ASSUME IInv, NEW t \in Threads, Present(t)
    PROVE  slot[t] \in Slots /\ t \in At(slot[t]) /\ SlotControl(slot[t]) /\ state[slot[t]] \in SlotStates
  BY DEF IInv, TypeOK, At, Present

\* Alone, or the waiter or the partner of a pair.
LEMMA Roles ==
    ASSUME IInv, NEW t \in Threads, Present(t), NEW s, s = slot[t]
    PROVE  \/ /\ state[s] \in {"putSetup", "waitingGet", "waitingPut", "eliminated", "getCleanup"}
              /\ At(s) = {t} /\ Alone(s, t)
           \/ /\ state[s] \in {"eliminatingGet", "eliminatingPut"}
              /\ \E u \in Threads \ {t} : At(s) = {t, u} /\ (Paired(s, t, u) \/ Paired(s, u, t))
<1>1. t \in At(s) /\ SlotControl(s) /\ state[s] \in SlotStates
  BY AtItsSlot
<1>2. CASE state[s] \in {"putSetup", "waitingGet", "waitingPut", "eliminated", "getCleanup"}
  <2> PICK u \in Threads : At(s) = {u} /\ Alone(s, u)
    BY <1>1, <1>2 DEF SlotControl
  <2>1. u = t
    BY <1>1
  <2> QED
    BY <1>2, <2>1
<1>3. CASE state[s] \in {"eliminatingGet", "eliminatingPut"}
  <2> PICK u \in Threads, w \in Threads : u # w /\ At(s) = {u, w} /\ Paired(s, u, w)
    BY <1>1, <1>3 DEF SlotControl
  <2>1. u = t \/ w = t
    BY <1>1
  <2> QED
    BY <1>3, <2>1
<1>4. state[s] # "empty"
  BY <1>1 DEF SlotControl
<1> QED
  BY <1>1, <1>2, <1>3, <1>4 DEF SlotStates

LEMMA SettingUp ==
    ASSUME IInv, NEW t \in Threads, NEW s, s = slot[t], pc[t] \in {"putSet", "putOffer"}
    PROVE  /\ state[s] = "putSetup" /\ At(s) = {t}
           /\ pc[t] = "putOffer" => element[s] = value[t]
<1>1. Present(t)
  BY DEF Present
<1> QED
  BY <1>1, Roles DEF Alone, Paired, Reading, Giving

LEMMA PutWaits ==
    ASSUME IInv, NEW t \in Threads, NEW s, s = slot[t], pc[t] \in {"putWait", "putSpin"}
    PROVE  \/ /\ state[s] = "waitingGet" /\ At(s) = {t}
              /\ pc[t] = "putWait" /\ element[s] = value[t]
           \/ state[s] = "eliminated" /\ At(s) = {t}
           \/ /\ state[s] = "eliminatingGet"
              /\ \E u \in Threads \ {t} : At(s) = {t, u} /\ Paired(s, t, u) /\ Reading(u)
<1>1. Present(t)
  BY DEF Present, Waiting
<1> QED
  BY <1>1, Roles DEF Alone, Paired, Reading, Giving

LEMMA GetWaits ==
    ASSUME IInv, NEW t \in Threads, NEW s, s = slot[t], pc[t] \in {"getWait", "getSpin"}
    PROVE  \/ state[s] = "waitingPut" /\ At(s) = {t} /\ pc[t] = "getWait"
           \/ state[s] = "eliminated" /\ At(s) = {t} /\ element[s] \in Values
           \/ /\ state[s] = "eliminatingPut"
              /\ \E u \in Threads \ {t} : At(s) = {t, u} /\ Paired(s, t, u) /\ Giving(u)
<1>1. Present(t)
  BY DEF Present, Waiting
<1> QED
  BY <1>1, Roles DEF Alone, Paired, Reading, Giving

LEMMA Gives ==
    ASSUME IInv, NEW t \in Threads, NEW s, s = slot[t], Giving(t)
    PROVE  /\ state[s] = "eliminatingPut"
           /\ \E u \in Threads \ {t} : At(s) = {t, u} /\ pc[u] \in {"getWait", "getSpin"}
           /\ pc[t] = "putGiven" => element[s] = value[t]
<1>1. Present(t)
  BY DEF Present
<1> QED
  BY <1>1, Roles DEF Alone, Paired, Reading, Giving

LEMMA Reads ==
    ASSUME IInv, NEW t \in Threads, NEW s, s = slot[t], Reading(t)
    PROVE  /\ pc[t] = "getLoad" => element[s] \in Values
           /\ \/ state[s] = "getCleanup" /\ At(s) = {t}
              \/ /\ state[s] = "eliminatingGet"
                 /\ \E u \in Threads \ {t} : At(s) = {t, u} /\ pc[u] \in {"putWait", "putSpin"}
<1>1. Present(t)
  BY DEF Present
<1> QED
  BY <1>1, Roles DEF Alone, Paired, Reading, Giving

\* The invariant, once the slots and the thread that moved are seen to.
LEMMA Kept ==
    ASSUME IInv, NEW t \in Threads, OthersStay(t), TypeOK', ValueControl(t)',
           \A s \in Slots : SlotControl(s)'
    PROVE  IInv'
<1>1. \A u \in Threads \ {t} : ValueControl(u)'
  BY DEF IInv, OthersStay, ValueControl, IsPut
<1> QED
  BY <1>1 DEF IInv

Step == [X!ExchangeNext]_(X!exchangeVars)

-----------------------------------------------------------------------------
(* The steps outside the slots.                                            *)

LEMMA PutBeginStep == ASSUME IInv, NEW t \in Threads, PutBegin(t) PROVE IInv' /\ Step
<1> PICK v \in held[t] : value' = [value EXCEPT ![t] = v]
  BY DEF PutBegin
<1>1. OthersStay(t) /\ ~Present(t) /\ ~Present(t)' /\ UNCHANGED <<state, element, held>>
      /\ value'[t] = v /\ IsPut(t)' /\ pc[t] = "idle" /\ pc'[t] = "putTry"
  BY DEF PutBegin, Begin, Goto, OthersStay, Present, Waiting, Giving, Reading, IsPut, IInv, TypeOK
<1>2. TypeOK' /\ ValueControl(t)'
  BY <1>1 DEF PutBegin, Begin, Goto, IInv, TypeOK, ValueControl
<1>3. IInv'
  BY <1>1, <1>2, AbsentStep, Kept
<1>4. \A u \in Threads : Owned(u)' = Owned(u)
  BY <1>1, AbsentStep
<1>5. v \in Owned(t) /\ Offered(t)' = v /\ (Asking(t)' <=> Asking(t))
  BY <1>1, AbsentStep DEF Offered, Asking, IsPut
<1>6. X!ExchangeNext
  BY <1>1, <1>4, <1>5, Offers
<1> QED
  BY <1>3, <1>6 DEF Step

LEMMA PutMissStep == ASSUME IInv, NEW t \in Threads, PutMiss(t) PROVE IInv' /\ Step
<1>1. OthersStay(t) /\ ~Present(t) /\ ~Present(t)' /\ UNCHANGED <<state, element, held>>
      /\ IsPut(t) /\ IsPut(t)' /\ value' = value
  BY DEF PutMiss, Goto, OthersStay, Present, Waiting, Giving, Reading, IsPut, IInv, TypeOK
<1>2. TypeOK' /\ ValueControl(t)'
  BY <1>1 DEF PutMiss, Goto, IInv, TypeOK, ValueControl, IsPut
<1>3. IInv'
  BY <1>1, <1>2, AbsentStep, Kept
<1>4. \A u \in Threads : Owned(u)' = Owned(u)
  BY <1>1, AbsentStep
<1>5. Offered(t)' = Offered(t) /\ (Asking(t)' <=> Asking(t))
  BY <1>1 DEF Offered, Asking
<1> QED
  BY <1>1, <1>3, <1>4, <1>5, Stutters DEF Step

LEMMA PutNextStep == ASSUME IInv, NEW t \in Threads, PutNext(t) PROVE IInv' /\ Step
<1>1. OthersStay(t) /\ ~Present(t) /\ ~Present(t)' /\ UNCHANGED <<state, element>>
      /\ IsPut(t) /\ held'[t] = held[t]
  BY
     DEF PutNext, NextAttempt, Return, OthersStay, Present, Waiting, Giving, Reading, IsPut, IInv,
         TypeOK
<1>2. TypeOK' /\ ValueControl(t)'
  BY <1>1, ElementsAssumption
     DEF PutNext, NextAttempt, Spent, Return, IInv, TypeOK, ValueControl, IsPut
<1>3. IInv'
  BY <1>1, <1>2, AbsentStep, Kept
<1>4. \A u \in Threads : Owned(u)' = Owned(u)
  BY <1>1, AbsentStep
<1>5. CASE pc'[t] = "idle"
  <2>1. Offered(t)' = Null /\ (Asking(t)' <=> Asking(t))
    BY <1>1, <1>5 DEF Offered, Asking, IsPut
  <2> QED
    BY <1>1, <1>3, <1>4, <2>1, EndsOffer DEF Step
<1>6. CASE pc'[t] # "idle"
  <2>1. Offered(t)' = Offered(t) /\ (Asking(t)' <=> Asking(t))
    BY <1>1, <1>6 DEF PutNext, NextAttempt, Offered, Asking, IsPut, IInv, TypeOK
  <2> QED
    BY <1>1, <1>3, <1>4, <2>1, Stutters DEF Step
<1> QED
  BY <1>5, <1>6

LEMMA GetBeginStep == ASSUME IInv, NEW t \in Threads, GetBegin(t) PROVE IInv' /\ Step
<1>1. OthersStay(t) /\ ~Present(t) /\ ~Present(t)' /\ UNCHANGED <<state, element, held>>
      /\ ~IsPut(t) /\ ~IsPut(t)' /\ pc'[t] = "getTry"
  BY DEF GetBegin, Begin, Goto, OthersStay, Present, Waiting, Giving, Reading, IsPut, IInv, TypeOK
<1>2. TypeOK' /\ ValueControl(t)'
  BY <1>1 DEF GetBegin, Begin, Goto, IInv, TypeOK, ValueControl
<1>3. IInv'
  BY <1>1, <1>2, AbsentStep, Kept
<1>4. \A u \in Threads : Owned(u)' = Owned(u)
  BY <1>1, AbsentStep
<1>5. Offered(t)' = Offered(t)
  BY <1>1 DEF Offered
<1> QED
  BY <1>1, <1>3, <1>4, <1>5, Asks DEF Step

LEMMA GetMissStep == ASSUME IInv, NEW t \in Threads, GetMiss(t) PROVE IInv' /\ Step
<1>1. OthersStay(t) /\ ~Present(t) /\ ~Present(t)' /\ UNCHANGED <<state, element, held>>
      /\ ~IsPut(t) /\ ~IsPut(t)' /\ pc[t] = "getTry" /\ pc'[t] = "getMatch"
  BY DEF GetMiss, Goto, OthersStay, Present, Waiting, Giving, Reading, IsPut, IInv, TypeOK
<1>2. TypeOK' /\ ValueControl(t)'
  BY <1>1 DEF GetMiss, Goto, IInv, TypeOK, ValueControl
<1>3. IInv'
  BY <1>1, <1>2, AbsentStep, Kept
<1>4. \A u \in Threads : Owned(u)' = Owned(u)
  BY <1>1, AbsentStep
<1>5. Offered(t)' = Offered(t) /\ (Asking(t)' <=> Asking(t))
  BY <1>1 DEF Offered, Asking
<1> QED
  BY <1>1, <1>3, <1>4, <1>5, Stutters DEF Step

LEMMA GetNextStep == ASSUME IInv, NEW t \in Threads, GetNext(t) PROVE IInv' /\ Step
<1>1. OthersStay(t) /\ ~Present(t) /\ ~Present(t)' /\ UNCHANGED <<state, element>>
      /\ ~IsPut(t) /\ ~IsPut(t)' /\ held'[t] = held[t]
  BY
     DEF GetNext, NextAttempt, Return, OthersStay, Present, Waiting, Giving, Reading, IsPut, IInv,
         TypeOK
<1>2. TypeOK' /\ ValueControl(t)'
  BY <1>1, ElementsAssumption
     DEF GetNext, NextAttempt, Spent, Return, IInv, TypeOK, ValueControl, IsPut
<1>3. IInv'
  BY <1>1, <1>2, AbsentStep, Kept
<1>4. \A u \in Threads : Owned(u)' = Owned(u)
  BY <1>1, AbsentStep
<1>5. Offered(t)' = Offered(t)
  BY <1>1 DEF Offered
<1> QED
  BY <1>1, <1>3, <1>4, <1>5, Asks DEF Step

-----------------------------------------------------------------------------
(* The steps at a slot: the putter's.                                      *)

LEMMA PutClaimStep == ASSUME IInv, NEW t \in Threads, PutClaim(t) PROVE IInv' /\ Step
<1> DEFINE s == slot[t]
<1>1. /\ OthersStay(t) /\ slot' = slot /\ s \in Slots /\ state[s] = "empty" /\ state'[s] = "putSetup"
      /\ \A r \in Slots \ {s} : state'[r] = state[r] /\ element'[r] = element[r]
      /\ pc[t] = "putTry" /\ pc'[t] = "putSet" /\ UNCHANGED <<held, value>>
  BY DEF PutClaim, Goto, Exchanged, OthersStay, IInv, TypeOK
<1>2. TypeOK' /\ ValueControl(t)'
  BY <1>1 DEF PutClaim, Goto, Exchanged, IInv, TypeOK, ValueControl, IsPut, SlotStates
<1>3. At(s) = {}
  BY <1>1 DEF IInv, SlotControl
<1>4. At(s)' = {t}
  BY <1>1, <1>3, PresentStep DEF At
<1>5. SlotControl(s)'
  BY <1>1, <1>4 DEF SlotControl, Alone
<1>6. IInv'
  BY <1>1, <1>2, <1>5, PresentStep, Kept
<1>7. Owned(t)' = Owned(t)
  BY <1>1 DEF Owned, GaveAway, Received, Giving
<1>8. \A u \in Threads : Owned(u)' = Owned(u)
  BY <1>1, <1>3, <1>7, PresentStep
<1>9. Offered(t)' = Offered(t) /\ (Asking(t)' <=> Asking(t))
  BY <1>1 DEF Offered, Asking, IsPut
<1> QED
  BY <1>1, <1>6, <1>8, <1>9, Stutters DEF Step

LEMMA PutMatchStep == ASSUME IInv, NEW t \in Threads, PutMatch(t) PROVE IInv' /\ Step
<1> DEFINE s == slot[t]
<1>1. /\ OthersStay(t) /\ slot' = slot /\ s \in Slots /\ state[s] = "waitingPut" /\ state'[s] = "eliminatingPut"
      /\ \A r \in Slots \ {s} : state'[r] = state[r] /\ element'[r] = element[r]
      /\ pc[t] = "putMatch" /\ pc'[t] = "putGive" /\ UNCHANGED <<held, value>>
  BY DEF PutMatch, Goto, Exchanged, OthersStay, IInv, TypeOK
<1>2. TypeOK' /\ ValueControl(t)'
  BY <1>1 DEF PutMatch, Goto, Exchanged, IInv, TypeOK, ValueControl, IsPut, SlotStates
<1>3. PICK u \in Threads : At(s) = {u} /\ pc[u] = "getWait"
  BY <1>1 DEF IInv, SlotControl, Alone
<1>4. At(s)' = {u, t} /\ u # t /\ slot[u] = s
  BY <1>1, <1>3, PresentStep DEF At, Giving
<1>5. pc'[u] = "getWait" /\ held'[u] = held[u]
  BY <1>1, <1>3, <1>4 DEF OthersStay
<1>6. SlotControl(s)'
  BY <1>1, <1>4, <1>5 DEF SlotControl, Paired, Giving
<1>7. IInv'
  BY <1>1, <1>2, <1>6, PresentStep, Kept
<1>8. \A w \in Threads \ {t, u} : Owned(w)' = Owned(w)
  BY <1>1, <1>3, PresentStep
<1>9. Owned(t) = held[t] /\ Owned(t)' = held[t] \ {value[t]}
  BY <1>1 DEF Owned, GaveAway, Received, Giving
<1>10. Owned(u) = held[u]
  BY <1>1, <1>3, <1>4 DEF Owned, GaveAway, Received, Giving
<1>11. Owned(u)' = held[u] \cup {value[t]}
  <2>1. {w \in At(s)' : Giving(w)'} = {t}
    BY <1>1, <1>4, <1>5 DEF Giving
  <2>2. {value'[w] : w \in {x \in At(s)' : Giving(x)'}} = {value[t]}
    BY <1>1, <2>1
  <2>3. Received(u)' = {value[t]}
    BY <1>1, <1>4, <1>5, <2>2 DEF Received
  <2>4. ~GaveAway(u)'
    BY <1>5 DEF GaveAway, Giving
  <2> QED
    BY <1>5, <2>3, <2>4 DEF Owned
<1>12. /\ Offered(t) = value[t] /\ value[t] \in held[t] /\ Asking(u)
       /\ Offered(t)' = Offered(t) /\ (Asking(t)' <=> Asking(t))
  BY <1>1, <1>3 DEF Offered, Asking, IsPut, IInv, ValueControl
<1>13. X!ExchangeNext
  BY <1>1, <1>4, <1>8, <1>9, <1>10, <1>11, <1>12, Transfers
<1> QED
  BY <1>7, <1>13 DEF Step

LEMMA PutWriteStep == ASSUME IInv, NEW t \in Threads, PutWrite(t) PROVE IInv' /\ Step
<1> DEFINE s == slot[t]
<1>1. /\ OthersStay(t) /\ slot' = slot /\ s \in Slots /\ state' = state /\ element'[s] = value[t]
      /\ \A r \in Slots \ {s} : state'[r] = state[r] /\ element'[r] = element[r]
      /\ \/ pc[t] = "putSet" /\ pc'[t] = "putOffer"
         \/ pc[t] = "putGive" /\ pc'[t] = "putGiven"
      /\ UNCHANGED <<held, value>>
  BY DEF PutWrite, Goto, OthersStay, IInv, TypeOK
<1>2. TypeOK' /\ ValueControl(t)'
  BY <1>1 DEF PutWrite, Goto, IInv, TypeOK, ValueControl, IsPut
<1>3. At(s)' = At(s)
  BY <1>1, PresentStep DEF At, Giving
<1>4. Offered(t)' = Offered(t) /\ (Asking(t)' <=> Asking(t))
  BY <1>1 DEF Offered, Asking, IsPut
<1>5. Owned(t)' = Owned(t)
  BY <1>1 DEF Owned, GaveAway, Received, Giving
<1>6. SlotControl(s)' /\ \A u \in At(s) \ {t} : Owned(u)' = Owned(u)
  <2>1. CASE pc[t] = "putSet"
    <3>1. state[s] = "putSetup" /\ At(s) = {t}
      BY <2>1, SettingUp
    <3> QED
      BY <1>1, <1>3, <2>1, <3>1 DEF SlotControl, Alone
  <2>2. CASE pc[t] = "putGive"
    <3>1. Giving(t) /\ Giving(t)'
      BY <1>1, <2>2 DEF Giving
    <3>2. state[s] = "eliminatingPut"
      BY <3>1, Gives
    <3> PICK u \in Threads \ {t} : At(s) = {t, u} /\ pc[u] \in {"getWait", "getSpin"}
      BY <3>1, Gives
    <3>3. pc'[u] = pc[u] /\ slot'[u] = slot[u] /\ slot[u] = s /\ held'[u] = held[u] /\ ~Giving(u) /\ ~Giving(u)'
      BY <1>1 DEF OthersStay, At, Giving
    <3>4. SlotControl(s)'
      BY <1>1, <1>3, <2>2, <3>1, <3>2, <3>3 DEF SlotControl, Paired
    <3>5. {value'[w] : w \in {x \in At(s)' : Giving(x)'}} = {value[w] : w \in {x \in At(s) : Giving(x)}}
      BY <1>1, <1>3, <3>1, <3>3
    <3>6. Received(u)' = Received(u)
      BY <1>1, <3>2, <3>3, <3>5 DEF Received
    <3>7. ~GaveAway(u) /\ ~GaveAway(u)'
      BY <3>3 DEF GaveAway, Giving
    <3> QED
      BY <3>3, <3>4, <3>6, <3>7 DEF Owned
  <2> QED
    BY <1>1, <2>1, <2>2
<1>7. IInv'
  BY <1>1, <1>2, <1>6, PresentStep, Kept
<1>8. \A u \in Threads : Owned(u)' = Owned(u)
  BY <1>1, <1>5, <1>6, PresentStep
<1> QED
  BY <1>1, <1>4, <1>7, <1>8, Stutters DEF Step

LEMMA PutOfferStep == ASSUME IInv, NEW t \in Threads, PutOffer(t) PROVE IInv' /\ Step
<1> DEFINE s == slot[t]
<1>1. /\ OthersStay(t) /\ slot' = slot /\ s \in Slots /\ state'[s] = "waitingGet" /\ element' = element
      /\ \A r \in Slots \ {s} : state'[r] = state[r] /\ element'[r] = element[r]
      /\ pc[t] = "putOffer" /\ pc'[t] = "putWait" /\ UNCHANGED <<held, value>>
  BY DEF PutOffer, Goto, OthersStay, IInv, TypeOK
<1>2. TypeOK' /\ ValueControl(t)'
  BY <1>1 DEF PutOffer, Goto, IInv, TypeOK, ValueControl, IsPut, SlotStates
<1>3. At(s) = {t} /\ element[s] = value[t]
  BY <1>1, SettingUp
<1>4. At(s)' = {t}
  BY <1>1, <1>3, PresentStep DEF At, Waiting
<1>5. SlotControl(s)'
  BY <1>1, <1>3, <1>4 DEF SlotControl, Alone
<1>6. IInv'
  BY <1>1, <1>2, <1>5, PresentStep, Kept
<1>7. Owned(t)' = Owned(t)
  BY <1>1 DEF Owned, GaveAway, Received, Giving
<1>8. \A u \in Threads : Owned(u)' = Owned(u)
  BY <1>1, <1>3, <1>7, PresentStep
<1>9. Offered(t)' = Offered(t) /\ (Asking(t)' <=> Asking(t))
  BY <1>1 DEF Offered, Asking, IsPut
<1> QED
  BY <1>1, <1>6, <1>8, <1>9, Stutters DEF Step

LEMMA PutGivenStep == ASSUME IInv, NEW t \in Threads, PutGiven(t) PROVE IInv' /\ Step
<1> DEFINE s == slot[t]
<1>1. /\ OthersStay(t) /\ slot' = slot /\ s \in Slots /\ state'[s] = "eliminated" /\ element' = element
      /\ \A r \in Slots \ {s} : state'[r] = state[r] /\ element'[r] = element[r]
      /\ pc[t] = "putGiven" /\ pc'[t] = "idle" /\ held'[t] = held[t] \ {value[t]}
  BY DEF PutGiven, Goto, Return, OthersStay, IInv, TypeOK
<1>2. TypeOK' /\ ValueControl(t)'
  BY <1>1, ElementsAssumption
     DEF PutGiven, Goto, Return, IInv, TypeOK, ValueControl, IsPut, SlotStates
<1>3. PICK u \in Threads \ {t} : At(s) = {t, u} /\ pc[u] \in {"getWait", "getSpin"}
  BY <1>1, Gives DEF Giving
<1>4. state[s] = "eliminatingPut" /\ element[s] = value[t] /\ value[t] \in Values
  BY <1>1, Gives DEF Giving, IInv, ValueControl, IsPut, TypeOK
<1>5. At(s)' = {u}
  BY <1>1, <1>3, PresentStep DEF At, Waiting, Giving, Reading
<1>6. pc'[u] = pc[u] /\ slot'[u] = slot[u] /\ slot[u] = s /\ held'[u] = held[u] /\ ~Giving(u) /\ Giving(t)
  BY <1>1, <1>3 DEF OthersStay, At, Giving
<1>7. SlotControl(s)'
  BY <1>1, <1>3, <1>4, <1>5, <1>6 DEF SlotControl, Alone
<1>8. IInv'
  BY <1>1, <1>2, <1>7, PresentStep, Kept
<1>9. Owned(t)' = Owned(t)
  BY <1>1 DEF Owned, GaveAway, Received, Giving
<1>10. Owned(u)' = Owned(u)
  <2>1. {value[w] : w \in {x \in At(s) : Giving(x)}} = {value[t]}
    BY <1>3, <1>6
  <2>2. Received(u)' = {value[t]} /\ Received(u) = {value[t]}
    BY <1>1, <1>3, <1>4, <1>6, <2>1 DEF Received
  <2>3. ~GaveAway(u) /\ ~GaveAway(u)'
    BY <1>3, <1>6 DEF GaveAway, Giving
  <2> QED
    BY <1>6, <2>2, <2>3 DEF Owned
<1>11. \A w \in Threads : Owned(w)' = Owned(w)
  BY <1>1, <1>3, <1>9, <1>10, PresentStep
<1>12. Offered(t)' = Null /\ (Asking(t)' <=> Asking(t))
  BY <1>1 DEF Offered, Asking, IsPut
<1> QED
  BY <1>1, <1>8, <1>11, <1>12, EndsOffer DEF Step

LEMMA PutWithdrawStep == ASSUME IInv, NEW t \in Threads, PutWithdraw(t) PROVE IInv' /\ Step
<1> DEFINE s == slot[t]
<1>1. /\ OthersStay(t) /\ slot' = slot /\ s \in Slots /\ state[s] = "waitingGet" /\ state'[s] = "empty"
      /\ \A r \in Slots \ {s} : state'[r] = state[r] /\ element'[r] = element[r]
      /\ pc[t] = "putWait" /\ pc'[t] = "idle" /\ held'[t] = held[t]
  BY DEF PutWithdraw, Unmatched, Goto, Return, OthersStay, IInv, TypeOK
<1>2. TypeOK' /\ ValueControl(t)'
  BY <1>1, ElementsAssumption
     DEF PutWithdraw, Goto, Return, IInv, TypeOK, ValueControl, IsPut, SlotStates
<1>3. At(s) = {t}
  BY <1>1, PutWaits
<1>4. At(s)' = {}
  BY <1>1, <1>3, PresentStep DEF At, Waiting, Giving, Reading
<1>5. SlotControl(s)'
  BY <1>1, <1>4 DEF SlotControl
<1>6. IInv'
  BY <1>1, <1>2, <1>5, PresentStep, Kept
<1>7. Owned(t)' = Owned(t)
  BY <1>1 DEF Owned, GaveAway, Received, Giving
<1>8. \A u \in Threads : Owned(u)' = Owned(u)
  BY <1>1, <1>3, <1>7, PresentStep
<1>9. Offered(t)' = Null /\ (Asking(t)' <=> Asking(t))
  BY <1>1 DEF Offered, Asking, IsPut
<1> QED
  BY <1>1, <1>6, <1>8, <1>9, EndsOffer DEF Step

LEMMA PutMatchedStep == ASSUME IInv, NEW t \in Threads, PutMatched(t) PROVE IInv' /\ Step
<1> DEFINE s == slot[t]
<1>1. /\ OthersStay(t) /\ slot' = slot /\ s \in Slots /\ state[s] # "waitingGet"
      /\ UNCHANGED <<state, element, held, value>>
      /\ pc[t] = "putWait" /\ pc'[t] = "putSpin"
  BY DEF PutMatched, Unmatched, Goto, OthersStay, IInv, TypeOK
<1>2. TypeOK' /\ ValueControl(t)'
  BY <1>1 DEF PutMatched, Goto, IInv, TypeOK, ValueControl, IsPut
<1>3. At(s)' = At(s)
  BY <1>1, PresentStep DEF At, Waiting
<1>4. Owned(t)' = Owned(t)
  BY <1>1 DEF Owned, GaveAway, Received, Giving
<1>5. Offered(t)' = Offered(t) /\ (Asking(t)' <=> Asking(t))
  BY <1>1 DEF Offered, Asking, IsPut
<1>6. SlotControl(s)' /\ \A u \in At(s) \ {t} : Owned(u)' = Owned(u)
  <2>1. CASE state[s] = "eliminated" /\ At(s) = {t}
    BY <1>1, <1>3, <2>1 DEF SlotControl, Alone
  <2>2. CASE state[s] = "eliminatingGet"
    <3> PICK u \in Threads \ {t} : At(s) = {t, u} /\ Paired(s, t, u) /\ Reading(u)
      BY <1>1, <2>2, PutWaits
    <3>1. pc'[u] = pc[u] /\ slot'[u] = slot[u] /\ slot[u] = s /\ held'[u] = held[u]
      BY <1>1 DEF OthersStay, At
    <3>2. Paired(s, t, u)'
      BY <1>1, <2>2, <3>1 DEF Paired, Reading
    <3>3. SlotControl(s)'
      BY <1>1, <1>3, <2>2, <3>2 DEF SlotControl
    <3>4. Owned(u)' = Owned(u)
      BY <1>1, <3>1 DEF Owned, GaveAway, Received, Giving, Reading
    <3> QED
      BY <3>3, <3>4
  <2> QED
    BY <1>1, <2>1, <2>2, PutWaits
<1>7. IInv'
  BY <1>1, <1>2, <1>6, PresentStep, Kept
<1>8. \A u \in Threads : Owned(u)' = Owned(u)
  BY <1>1, <1>4, <1>6, PresentStep
<1> QED
  BY <1>1, <1>5, <1>7, <1>8, Stutters DEF Step

LEMMA PutSpinStep == ASSUME IInv, NEW t \in Threads, PutSpin(t) PROVE IInv' /\ Step
<1> DEFINE s == slot[t]
<1>1. /\ OthersStay(t) /\ slot' = slot /\ s \in Slots /\ state[s] = "eliminated" /\ state'[s] = "empty"
      /\ \A r \in Slots \ {s} : state'[r] = state[r] /\ element'[r] = element[r]
      /\ pc[t] = "putSpin" /\ pc'[t] = "idle" /\ held'[t] = held[t] \ {value[t]}
  BY DEF PutSpin, Exchanged, Goto, Return, OthersStay, IInv, TypeOK
<1>2. TypeOK' /\ ValueControl(t)'
  BY <1>1, ElementsAssumption
     DEF PutSpin, Exchanged, Goto, Return, IInv, TypeOK, ValueControl, IsPut, SlotStates
<1>3. At(s) = {t}
  BY <1>1, PutWaits
<1>4. At(s)' = {}
  BY <1>1, <1>3, PresentStep DEF At, Waiting, Giving, Reading
<1>5. SlotControl(s)'
  BY <1>1, <1>4 DEF SlotControl
<1>6. IInv'
  BY <1>1, <1>2, <1>5, PresentStep, Kept
<1>7. Owned(t)' = Owned(t)
  BY <1>1 DEF Owned, GaveAway, Received, Giving
<1>8. \A u \in Threads : Owned(u)' = Owned(u)
  BY <1>1, <1>3, <1>7, PresentStep
<1>9. Offered(t)' = Null /\ (Asking(t)' <=> Asking(t))
  BY <1>1 DEF Offered, Asking, IsPut
<1> QED
  BY <1>1, <1>6, <1>8, <1>9, EndsOffer DEF Step

-----------------------------------------------------------------------------
(* The getter's.                                                           *)

LEMMA GetClaimStep == ASSUME IInv, NEW t \in Threads, GetClaim(t) PROVE IInv' /\ Step
<1> DEFINE s == slot[t]
<1>1. /\ OthersStay(t) /\ slot' = slot /\ s \in Slots /\ state[s] = "empty" /\ state'[s] = "waitingPut"
      /\ \A r \in Slots \ {s} : state'[r] = state[r] /\ element'[r] = element[r]
      /\ pc[t] = "getTry" /\ pc'[t] = "getWait" /\ UNCHANGED <<held, value>>
  BY DEF GetClaim, Goto, Exchanged, OthersStay, IInv, TypeOK
<1>2. TypeOK' /\ ValueControl(t)'
  BY <1>1 DEF GetClaim, Goto, Exchanged, IInv, TypeOK, ValueControl, IsPut, SlotStates
<1>3. At(s) = {}
  BY <1>1 DEF IInv, SlotControl
<1>4. At(s)' = {t}
  BY <1>1, <1>3, PresentStep DEF At, Waiting
<1>5. SlotControl(s)'
  BY <1>1, <1>4 DEF SlotControl, Alone
<1>6. IInv'
  BY <1>1, <1>2, <1>5, PresentStep, Kept
<1>7. Owned(t)' = Owned(t)
  BY <1>1 DEF Owned, GaveAway, Received, Giving
<1>8. \A u \in Threads : Owned(u)' = Owned(u)
  BY <1>1, <1>3, <1>7, PresentStep
<1>9. Offered(t)' = Offered(t) /\ (Asking(t)' <=> Asking(t))
  BY <1>1 DEF Offered, Asking, IsPut
<1> QED
  BY <1>1, <1>6, <1>8, <1>9, Stutters DEF Step

LEMMA GetMatchStep == ASSUME IInv, NEW t \in Threads, GetMatch(t) PROVE IInv' /\ Step
<1> DEFINE s == slot[t]
<1>1. /\ OthersStay(t) /\ slot' = slot /\ s \in Slots /\ state[s] = "waitingGet" /\ state'[s] = "eliminatingGet"
      /\ \A r \in Slots \ {s} : state'[r] = state[r] /\ element'[r] = element[r]
      /\ pc[t] = "getMatch" /\ pc'[t] = "getLoad" /\ UNCHANGED <<element, held, value>>
  BY DEF GetMatch, Goto, Exchanged, OthersStay, IInv, TypeOK
<1>2. TypeOK' /\ ValueControl(t)'
  BY <1>1 DEF GetMatch, Goto, Exchanged, IInv, TypeOK, ValueControl, IsPut, SlotStates
<1>3. PICK u \in Threads : At(s) = {u} /\ pc[u] = "putWait" /\ element[s] = value[u]
  BY <1>1 DEF IInv, SlotControl, Alone
<1>4. At(s)' = {u, t} /\ u # t /\ slot[u] = s
  BY <1>1, <1>3, PresentStep DEF At, Reading
<1>5. pc'[u] = "putWait" /\ held'[u] = held[u] /\ value'[u] = value[u] /\ slot'[u] = s
  BY <1>1, <1>3, <1>4 DEF OthersStay
<1>6. value[u] \in held[u] /\ value[u] \in Values
  BY <1>3 DEF IInv, ValueControl, IsPut, TypeOK
<1>7. SlotControl(s)'
  BY <1>1, <1>3, <1>4, <1>5, <1>6 DEF SlotControl, Paired, Reading
<1>8. IInv'
  BY <1>1, <1>2, <1>7, PresentStep, Kept
<1>9. \A w \in Threads \ {u, t} : Owned(w)' = Owned(w)
  BY <1>1, <1>3, PresentStep
<1>10. Owned(u) = held[u] /\ Owned(u)' = held[u] \ {value[u]}
  BY <1>1, <1>3, <1>4, <1>5 DEF Owned, GaveAway, Received, Giving
<1>11. Owned(t) = held[t] /\ Owned(t)' = held[t] \cup {value[u]}
  BY <1>1, <1>3 DEF Owned, GaveAway, Received, Giving
<1>12. /\ Offered(u) = value[u] /\ Asking(t)
       /\ Offered(t)' = Offered(t) /\ (Asking(t)' <=> Asking(t))
  BY <1>1, <1>3 DEF Offered, Asking, IsPut
<1>13. X!ExchangeNext
  BY <1>1, <1>4, <1>6, <1>9, <1>10, <1>11, <1>12, Transfers
<1> QED
  BY <1>8, <1>13 DEF Step

LEMMA GetWithdrawStep == ASSUME IInv, NEW t \in Threads, GetWithdraw(t) PROVE IInv' /\ Step
<1> DEFINE s == slot[t]
<1>1. /\ OthersStay(t) /\ slot' = slot /\ s \in Slots /\ state[s] = "waitingPut" /\ state'[s] = "empty"
      /\ \A r \in Slots \ {s} : state'[r] = state[r] /\ element'[r] = element[r]
      /\ pc[t] = "getWait" /\ pc'[t] = "idle" /\ held'[t] = held[t]
  BY DEF GetWithdraw, Unmatched, Goto, Return, OthersStay, IInv, TypeOK
<1>2. TypeOK' /\ ValueControl(t)'
  BY <1>1, ElementsAssumption
     DEF GetWithdraw, Goto, Return, IInv, TypeOK, ValueControl, IsPut, SlotStates
<1>3. At(s) = {t}
  BY <1>1, GetWaits
<1>4. At(s)' = {}
  BY <1>1, <1>3, PresentStep DEF At, Waiting, Giving, Reading
<1>5. SlotControl(s)'
  BY <1>1, <1>4 DEF SlotControl
<1>6. IInv'
  BY <1>1, <1>2, <1>5, PresentStep, Kept
<1>7. Owned(t)' = Owned(t)
  BY <1>1 DEF Owned, GaveAway, Received, Giving
<1>8. \A u \in Threads : Owned(u)' = Owned(u)
  BY <1>1, <1>3, <1>7, PresentStep
<1>9. Offered(t)' = Offered(t)
  BY <1>1 DEF Offered, IsPut
<1> QED
  BY <1>1, <1>6, <1>8, <1>9, Asks DEF Step

LEMMA GetMatchedStep == ASSUME IInv, NEW t \in Threads, GetMatched(t) PROVE IInv' /\ Step
<1> DEFINE s == slot[t]
<1>1. /\ OthersStay(t) /\ slot' = slot /\ s \in Slots /\ state[s] # "waitingPut"
      /\ UNCHANGED <<state, element, held, value>>
      /\ pc[t] = "getWait" /\ pc'[t] = "getSpin"
  BY DEF GetMatched, Unmatched, Goto, OthersStay, IInv, TypeOK
<1>2. TypeOK' /\ ValueControl(t)'
  BY <1>1 DEF GetMatched, Goto, IInv, TypeOK, ValueControl, IsPut
<1>3. At(s)' = At(s)
  BY <1>1, PresentStep DEF At, Waiting
<1>4. Owned(t)' = Owned(t)
  <2>1. {w \in At(s)' : Giving(w)'} = {w \in At(s) : Giving(w)}
    BY <1>1, <1>3 DEF Giving, OthersStay, At
  <2>2. {value'[w] : w \in {x \in At(s)' : Giving(x)'}} = {value[w] : w \in {x \in At(s) : Giving(x)}}
    BY <1>1, <2>1
  <2>3. Received(t)' = Received(t)
    BY <1>1, <2>2 DEF Received
  <2> QED
    BY <1>1, <2>3 DEF Owned, GaveAway, Giving
<1>5. Offered(t)' = Offered(t) /\ (Asking(t)' <=> Asking(t))
  BY <1>1 DEF Offered, Asking, IsPut
<1>6. SlotControl(s)' /\ \A u \in At(s) \ {t} : Owned(u)' = Owned(u)
  <2>1. CASE state[s] = "eliminated" /\ At(s) = {t} /\ element[s] \in Values
    BY <1>1, <1>3, <2>1 DEF SlotControl, Alone
  <2>2. CASE state[s] = "eliminatingPut"
    <3> PICK u \in Threads \ {t} : At(s) = {t, u} /\ Paired(s, t, u) /\ Giving(u)
      BY <1>1, <2>2, GetWaits
    <3>1. pc'[u] = pc[u] /\ slot'[u] = slot[u] /\ slot[u] = s /\ held'[u] = held[u]
      BY <1>1 DEF OthersStay, At
    <3>2. Paired(s, t, u)'
      BY <1>1, <2>2, <3>1 DEF Paired, Giving
    <3>3. SlotControl(s)'
      BY <1>1, <1>3, <2>2, <3>2 DEF SlotControl
    <3>4. Owned(u)' = Owned(u)
      BY <1>1, <3>1 DEF Owned, GaveAway, Received, Giving
    <3> QED
      BY <3>3, <3>4
  <2> QED
    BY <1>1, <2>1, <2>2, GetWaits
<1>7. IInv'
  BY <1>1, <1>2, <1>6, PresentStep, Kept
<1>8. \A u \in Threads : Owned(u)' = Owned(u)
  BY <1>1, <1>4, <1>6, PresentStep
<1> QED
  BY <1>1, <1>5, <1>7, <1>8, Stutters DEF Step

LEMMA GetSpinStep == ASSUME IInv, NEW t \in Threads, GetSpin(t) PROVE IInv' /\ Step
<1> DEFINE s == slot[t]
<1>1. /\ OthersStay(t) /\ slot' = slot /\ s \in Slots /\ state[s] = "eliminated" /\ state'[s] = "getCleanup"
      /\ \A r \in Slots \ {s} : state'[r] = state[r] /\ element'[r] = element[r]
      /\ pc[t] = "getSpin" /\ pc'[t] = "getLoad" /\ UNCHANGED <<element, held, value>>
  BY DEF GetSpin, Exchanged, Goto, OthersStay, IInv, TypeOK
<1>2. TypeOK' /\ ValueControl(t)'
  BY <1>1 DEF GetSpin, Exchanged, Goto, IInv, TypeOK, ValueControl, IsPut, SlotStates
<1>3. At(s) = {t} /\ element[s] \in Values
  BY <1>1, GetWaits
<1>4. At(s)' = {t}
  BY <1>1, <1>3, PresentStep DEF At, Reading
<1>5. SlotControl(s)'
  BY <1>1, <1>3, <1>4 DEF SlotControl, Alone, Reading
<1>6. IInv'
  BY <1>1, <1>2, <1>5, PresentStep, Kept
<1>7. Owned(t)' = Owned(t)
  BY <1>1 DEF Owned, GaveAway, Received, Giving
<1>8. \A u \in Threads : Owned(u)' = Owned(u)
  BY <1>1, <1>3, <1>7, PresentStep
<1>9. Offered(t)' = Offered(t) /\ (Asking(t)' <=> Asking(t))
  BY <1>1 DEF Offered, Asking, IsPut
<1> QED
  BY <1>1, <1>6, <1>8, <1>9, Stutters DEF Step

\* What the partner of a getter that reads is owed does not change meanwhile.
LEMMA WhileReading ==
    ASSUME IInv, NEW t \in Threads, Reading(t), Reading(t)', OthersStay(t), slot' = slot, state' = state,
           \A s \in Slots \ {slot[t]} : element'[s] = element[s],
           pc'[t] = "getLoad" => element'[slot[t]] \in Values
    PROVE  SlotControl(slot[t])' /\ \A u \in At(slot[t]) \ {t} : Owned(u)' = Owned(u)
<1> DEFINE s == slot[t]
<1>1. At(s)' = At(s)
  BY PresentStep DEF At
<1>2. CASE state[s] = "getCleanup" /\ At(s) = {t}
  BY <1>1, <1>2 DEF SlotControl, Alone
<1>3. CASE state[s] = "eliminatingGet"
  <2> PICK u \in Threads \ {t} : At(s) = {t, u} /\ pc[u] \in {"putWait", "putSpin"}
    BY <1>3, Reads
  <2>1. pc'[u] = pc[u] /\ slot'[u] = slot[u] /\ slot[u] = s /\ held'[u] = held[u] /\ value'[u] = value[u]
    BY DEF OthersStay, At
  <2>2. Paired(s, u, t)'
    BY <1>3, <2>1 DEF Paired
  <2>3. SlotControl(s)'
    BY <1>1, <1>3, <2>2 DEF SlotControl
  <2>4. Owned(u)' = Owned(u)
    BY <1>3, <2>1 DEF Owned, GaveAway, Received, Giving
  <2> QED
    BY <2>3, <2>4
<1> QED
  BY <1>2, <1>3, Reads

LEMMA GetLoadStep == ASSUME IInv, NEW t \in Threads, GetLoad(t) PROVE IInv' /\ Step
<1> DEFINE s == slot[t]
<1>1. /\ OthersStay(t) /\ slot' = slot /\ s \in Slots /\ UNCHANGED <<state, element, held>>
      /\ pc[t] = "getLoad" /\ pc'[t] = "getClear" /\ value'[t] = element[s]
  BY DEF GetLoad, Goto, OthersStay, IInv, TypeOK
<1>2. Reading(t) /\ Reading(t)'
  BY <1>1 DEF Reading
<1>3. element[s] \in Values
  BY <1>1, <1>2, Reads
<1>4. TypeOK' /\ ValueControl(t)'
  BY <1>1, <1>3 DEF GetLoad, Goto, IInv, TypeOK, ValueControl, IsPut
<1>5. SlotControl(s)' /\ \A u \in At(s) \ {t} : Owned(u)' = Owned(u)
  BY <1>1, <1>2, WhileReading
<1>6. IInv'
  BY <1>1, <1>4, <1>5, PresentStep, Kept
<1>7. Owned(t)' = Owned(t)
  BY <1>1 DEF Owned, GaveAway, Received, Giving
<1>8. \A u \in Threads : Owned(u)' = Owned(u)
  BY <1>1, <1>5, <1>7, PresentStep
<1>9. Offered(t)' = Offered(t) /\ (Asking(t)' <=> Asking(t))
  BY <1>1 DEF Offered, Asking, IsPut
<1> QED
  BY <1>1, <1>6, <1>8, <1>9, Stutters DEF Step

LEMMA GetClearStep == ASSUME IInv, NEW t \in Threads, GetClear(t) PROVE IInv' /\ Step
<1> DEFINE s == slot[t]
<1>1. /\ OthersStay(t) /\ slot' = slot /\ s \in Slots /\ UNCHANGED <<state, held, value>>
      /\ \A r \in Slots \ {s} : element'[r] = element[r]
      /\ pc[t] = "getClear" /\ pc'[t] = "getDone"
  BY DEF GetClear, Goto, OthersStay, IInv, TypeOK
<1>2. Reading(t) /\ Reading(t)'
  BY <1>1 DEF Reading
<1>3. TypeOK' /\ ValueControl(t)'
  BY <1>1 DEF GetClear, Goto, IInv, TypeOK, ValueControl, IsPut
<1>4. SlotControl(s)' /\ \A u \in At(s) \ {t} : Owned(u)' = Owned(u)
  BY <1>1, <1>2, WhileReading
<1>5. IInv'
  BY <1>1, <1>3, <1>4, PresentStep, Kept
<1>6. Owned(t)' = Owned(t)
  BY <1>1 DEF Owned, GaveAway, Received, Giving
<1>7. \A u \in Threads : Owned(u)' = Owned(u)
  BY <1>1, <1>4, <1>6, PresentStep
<1>8. Offered(t)' = Offered(t) /\ (Asking(t)' <=> Asking(t))
  BY <1>1 DEF Offered, Asking, IsPut
<1> QED
  BY <1>1, <1>5, <1>7, <1>8, Stutters DEF Step

LEMMA GetDoneStep == ASSUME IInv, NEW t \in Threads, GetDone(t) PROVE IInv' /\ Step
<1> DEFINE s == slot[t]
<1>1. /\ OthersStay(t) /\ slot' = slot /\ s \in Slots /\ state'[s] = AfterGet(s) /\ element' = element
      /\ \A r \in Slots \ {s} : state'[r] = state[r] /\ element'[r] = element[r]
      /\ pc[t] = "getDone" /\ pc'[t] = "idle" /\ held'[t] = held[t] \cup {value[t]}
  BY DEF GetDone, Goto, Return, OthersStay, IInv, TypeOK
<1>2. value[t] \in Values /\ Reading(t)
  BY <1>1 DEF IInv, ValueControl, Reading
<1>3. TypeOK' /\ ValueControl(t)'
  BY <1>1, <1>2, ElementsAssumption
     DEF GetDone, Goto, Return, AfterGet, IInv, TypeOK, ValueControl, IsPut, SlotStates
<1>4. At(s)' = At(s) \ {t}
  BY <1>1, PresentStep DEF At, Waiting, Giving, Reading
<1>5. SlotControl(s)' /\ \A u \in At(s) \ {t} : Owned(u)' = Owned(u)
  <2>1. CASE state[s] = "getCleanup" /\ At(s) = {t}
    BY <1>1, <1>4, <2>1 DEF SlotControl, AfterGet
  <2>2. CASE state[s] = "eliminatingGet"
    <3> PICK u \in Threads \ {t} : At(s) = {t, u} /\ pc[u] \in {"putWait", "putSpin"}
      BY <1>2, <2>2, Reads
    <3>1. /\ pc'[u] = pc[u] /\ slot'[u] = slot[u] /\ slot[u] = s /\ held'[u] = held[u]
          /\ value'[u] = value[u]
      BY <1>1 DEF OthersStay, At
    <3>2. At(s)' = {u} /\ state'[s] = "eliminated"
      BY <1>1, <1>4, <2>2 DEF AfterGet
    <3>3. Alone(s, u)'
      BY <1>1, <3>1, <3>2 DEF Alone
    <3>4. SlotControl(s)'
      BY <1>1, <3>2, <3>3 DEF SlotControl
    <3>5. Owned(u)' = Owned(u)
      BY <2>2, <3>1, <3>2 DEF Owned, GaveAway, Received, Giving
    <3> QED
      BY <3>4, <3>5
  <2> QED
    BY <1>2, <2>1, <2>2, Reads
<1>6. IInv'
  BY <1>1, <1>3, <1>5, PresentStep, Kept
<1>7. Owned(t)' = Owned(t)
  BY <1>1 DEF Owned, GaveAway, Received, Giving
<1>8. \A u \in Threads : Owned(u)' = Owned(u)
  BY <1>1, <1>5, <1>7, PresentStep
<1>9. Offered(t)' = Offered(t)
  BY <1>1 DEF Offered, IsPut
<1> QED
  BY <1>1, <1>6, <1>8, <1>9, Asks DEF Step

-----------------------------------------------------------------------------
LEMMA Begins == Init => IInv /\ X!ExchangeInit
<1> SUFFICES ASSUME Init PROVE IInv /\ X!ExchangeInit
  OBVIOUS
<1>1. \A t \in Threads : pc[t] = "idle" /\ ~Present(t) /\ held[t] = InitialHeld[t]
  BY DEF Init, Present, Waiting, Giving, Reading
<1>2. TypeOK
  BY ElementsAssumption DEF Init, TypeOK, SlotStates
<1>3. \A s \in Slots : SlotControl(s)
  BY <1>1 DEF Init, SlotControl, At, Present
<1>4. \A t \in Threads : ValueControl(t)
  BY <1>1 DEF ValueControl, IsPut
<1>5. \A t \in Threads : Owned(t) = InitialHeld[t] /\ Offered(t) = Null /\ ~Asking(t)
  BY <1>1, OwnedAbsent DEF Offered, Asking, IsPut
<1>6. [t \in Threads |-> Owned(t)] = InitialHeld
  BY <1>5, ElementsAssumption
<1>7. X!ExchangeInit
  BY <1>5, <1>6 DEF X!ExchangeInit, Offered, Asking
<1> QED
  BY <1>2, <1>3, <1>4, <1>7 DEF IInv

LEMMA NextStep == ASSUME IInv, [Next]_vars PROVE IInv' /\ Step
<1>1. CASE UNCHANGED vars
  <2>1. IInv'
    BY <1>1 DEF vars, IInv, TypeOK, SlotControl, ValueControl, At, Alone, Paired, Waiting, Giving,
                Reading, IsPut
  <2>2. \A t \in Threads : OthersStay(t) /\ Owned(t)' = Owned(t) /\ Offered(t)' = Offered(t)
                           /\ (Asking(t)' <=> Asking(t))
    BY <1>1 DEF vars, OthersStay, Owned, GaveAway, Received, At, Waiting, Giving, Reading, Offered,
                Asking, IsPut
  <2>3. UNCHANGED X!exchangeVars
    BY <2>2 DEF X!exchangeVars, Offered, Asking
  <2> QED
    BY <2>1, <2>3 DEF Step
<1>2. ASSUME NEW t \in Threads, Operations(t) PROVE IInv' /\ Step
  BY <1>2, PutClaimStep, PutMissStep, PutMatchStep, PutNextStep, PutWriteStep, PutOfferStep,
     PutGivenStep, PutWithdrawStep, PutMatchedStep, PutSpinStep, GetClaimStep, GetMissStep,
     GetMatchStep, GetNextStep, GetWithdrawStep, GetMatchedStep, GetSpinStep, GetLoadStep,
     GetClearStep, GetDoneStep DEF Operations
<1> QED
  BY <1>1, <1>2, PutBeginStep, GetBeginStep DEF Next

-----------------------------------------------------------------------------
(* get_token and release_token                                             *)

\* A thread about to exchange the word saw the bit of its index clear: this is what
\* makes a successful exchange set a bit that nobody else has set.
SawItClear == \A t \in Threads : tokenPc[t] = "cas" => index[t] \notin expected[t]

\* TokensHeldOnce alone is not inductive: nothing in it stops a thread from taking a
\* token that was already out when it read the word.
TokenInv == D!TypeOK /\ D!TokensHeldOnce /\ SawItClear

\* A drawn index is the index of a token, and the counter keeps its width.
LEMMA DrawStaysInRange ==
    ASSUME counter \in 0 .. CounterModulus - 1
    PROVE  D!Drawn \in D!Tokens /\ D!Bumped \in 0 .. CounterModulus - 1
  BY TokenSizes DEF D!SizesAssumption, D!Drawn, D!Bumped, D!Tokens

LEMMA TokensBegin == D!Init => TokenInv
  BY TokenSizes
     DEF D!SizesAssumption, D!Init, TokenInv, D!TypeOK, D!TokensHeldOnce, SawItClear, D!Holders,
         D!Tokens

\* A step of get_token that neither takes nor returns a token leaves the holders, the
\* word and the indices of the holders alone.
LEMMA HoldersUntouched ==
    ASSUME D!TypeOK, D!TokensHeldOnce, NEW t \in Threads,
           tokens' = tokens,
           tokenPc[t] # "held", tokenPc'[t] # "held",
           \A u \in Threads \ {t} : tokenPc'[u] = tokenPc[u] /\ index'[u] = index[u]
    PROVE  D!TokensHeldOnce'
<1>1. D!Holders' = D!Holders
  BY DEF D!Holders
<1>2. \A u \in D!Holders : index'[u] = index[u]
  BY DEF D!Holders
<1>3. {index'[u] : u \in D!Holders} = {index[u] : u \in D!Holders}
  BY <1>2
<1> QED
  BY <1>1, <1>2, <1>3 DEF D!TokensHeldOnce

LEMMA TokensStep == TokenInv /\ [D!Next]_(D!vars) => TokenInv'
<1> SUFFICES ASSUME TokenInv, [D!Next]_(D!vars) PROVE TokenInv'
  OBVIOUS
<1> USE DEF TokenInv
<1>1. ASSUME NEW t \in Threads, D!GetBegin(t) PROVE TokenInv'
  <2>1. D!TypeOK' /\ SawItClear'
    BY <1>1 DEF D!GetBegin, D!Goto, D!TypeOK, SawItClear
  <2>2. D!TokensHeldOnce'
    BY <1>1, <2>1, HoldersUntouched DEF D!GetBegin, D!Goto, D!TypeOK
  <2> QED
    BY <2>1, <2>2
<1>2. ASSUME NEW t \in Threads, D!Draw(t) PROVE TokenInv'
  <2>1. D!Drawn \in D!Tokens /\ D!Bumped \in 0 .. CounterModulus - 1
    BY DrawStaysInRange DEF D!TypeOK
  <2>2. D!TypeOK' /\ SawItClear'
    BY <1>2, <2>1 DEF D!Draw, D!Goto, D!TypeOK, SawItClear
  <2>3. D!TokensHeldOnce'
    BY <1>2, <2>2, HoldersUntouched DEF D!Draw, D!Goto, D!TypeOK
  <2> QED
    BY <2>2, <2>3
<1>3. ASSUME NEW t \in Threads, D!Load(t) PROVE TokenInv'
  <2>1. D!TypeOK' /\ SawItClear'
    BY <1>3 DEF D!Load, D!TypeOK, SawItClear
  <2>2. D!TokensHeldOnce'
    BY <1>3, <2>1, HoldersUntouched DEF D!Load, D!TypeOK
  <2> QED
    BY <2>1, <2>2
<1>4. ASSUME NEW t \in Threads, D!Take(t) PROVE TokenInv'
  <2>1. D!TypeOK' /\ SawItClear'
    BY <1>4 DEF D!Take, D!Goto, D!TypeOK, SawItClear
  <2>2. D!Holders' = D!Holders \cup {t} /\ index' = index /\ t \notin D!Holders
    BY <1>4 DEF D!Take, D!Goto, D!Holders, D!TypeOK
  <2>3. index[t] \notin tokens
    BY <1>4 DEF D!Take, D!Goto, D!UnchangedWord, SawItClear
  <2>4. \A u \in D!Holders : index[u] # index[t]
    BY <2>3 DEF D!TokensHeldOnce
  <2>5. {index[u] : u \in D!Holders \cup {t}} = {index[u] : u \in D!Holders} \cup {index[t]}
    OBVIOUS
  <2>6. D!TokensHeldOnce'
    BY <1>4, <2>2, <2>4, <2>5 DEF D!Take, D!TokensHeldOnce
  <2> QED
    BY <2>1, <2>6
<1>5. ASSUME NEW t \in Threads, D!Lose(t) PROVE TokenInv'
  <2>1. D!TypeOK' /\ SawItClear'
    BY <1>5 DEF D!Lose, D!Goto, D!TypeOK, SawItClear
  <2>2. D!TokensHeldOnce'
    BY <1>5, <2>1, HoldersUntouched DEF D!Lose, D!Goto, D!TypeOK
  <2> QED
    BY <2>1, <2>2
<1>6. ASSUME NEW t \in Threads, D!Release(t) PROVE TokenInv'
  <2>1. D!TypeOK' /\ SawItClear'
    BY <1>6 DEF D!Release, D!Goto, D!TypeOK, SawItClear
  <2>2. D!Holders' = D!Holders \ {t} /\ index' = index /\ t \in D!Holders
    BY <1>6 DEF D!Release, D!Goto, D!Holders, D!TypeOK
  <2>3. \A u \in D!Holders \ {t} : index[u] # index[t]
    BY <2>2 DEF D!TokensHeldOnce
  <2>4. {index[u] : u \in D!Holders} \ {index[t]} = {index[u] : u \in D!Holders \ {t}}
    BY <2>2, <2>3
  <2>5. D!TokensHeldOnce'
    BY <1>6, <2>2, <2>4 DEF D!Release, D!TokensHeldOnce
  <2> QED
    BY <2>1, <2>5
<1>7. CASE UNCHANGED D!vars
  BY <1>7 DEF D!vars, D!TypeOK, D!TokensHeldOnce, SawItClear, D!Holders
<1> QED
  BY <1>1, <1>2, <1>3, <1>4, <1>5, <1>6, <1>7 DEF D!Next

-----------------------------------------------------------------------------
(* store and load                                                          *)

(***************************************************************************)
(* For any number of writers, readers, slots and words, and any even       *)
(* modulus of the sequence numbers: a load returns, whole, a value that    *)
(* was current while it ran.                                               *)
(***************************************************************************)

-----------------------------------------------------------------------------
\* The value v in every word.
Whole(v) == [i \in L!Words |-> v]

\* A store is rewriting slot s: its number is odd.
Open(s) == \E w \in Writers : wpc[w] = "word" /\ target[w] = s

\* One writer at a time is in a store, and it rewrites the slot after the published one.
WriterControl ==
    /\ \A w \in Writers : wpc[w] # "idle" =>
         /\ busy
         /\ \A u \in Writers : wpc[u] # "idle" => u = w
    /\ \A w \in Writers : wpc[w] \in {"word", "publish"} => target[w] = L!NextSlot(current.slot)
    /\ \A w \in Writers : wpc[w] = "word" =>
         \A i \in L!Words : i < word[w] => words[target[w]][i] = stored[w]
    /\ \A w \in Writers : wpc[w] = "publish" => words[target[w]] = Whole(stored[w])

\* The published slot has its number and, in every word, the latest value.
CurrentIntact ==
    /\ seq[current.slot] = current.seq /\ current.stored = latest.stored
    /\ words[current.slot] = Whole(latest.value)

\* How far the number of its slot is ahead of the one reader r looks for.
Ahead(r) == IF Open(published[r].slot) THEN 2 * rewrites[r] - 1 ELSE 2 * rewrites[r]

Looking(r) == rpc[r] \in {"check", "copy", "recheck"}

\* The latest value is one of those that were current during a load.
SeesLatest(r) ==
    /\ rpc[r] # "idle" => latest \in during[r]
    /\ (rpc[r] = "check" => at[r] = 1) /\ (rpc[r] = "copy" => at[r] <= WordCount)

Wrapped(n) == IF n < SeqModulus THEN n ELSE n - SeqModulus

\* The number of a slot tells how often it was rewritten: each rewrite takes two numbers, and
\* those of a load do not make a turn.
Tracks(r) == Looking(r) =>
    /\ rewrites[r] = 0 => ~Open(published[r].slot)
    /\ 2 * rewrites[r] < SeqModulus
    /\ seq[published[r].slot] = Wrapped(published[r].seq + Ahead(r))

\* A slot that was not rewritten still holds the value it was published with.
HoldsPublished(r) == Looking(r) /\ rewrites[r] = 0 =>
    \E p \in during[r] :
       /\ published[r].stored = p.stored /\ words[published[r].slot] = Whole(p.value)
       /\ rpc[r] = "copy" => \A i \in L!Words : i < at[r] => copied[r][i] = p.value
       /\ rpc[r] = "recheck" => copied[r] = Whole(p.value)

ReaderControl == \A r \in Readers : SeesLatest(r) /\ Tracks(r) /\ HoldsPublished(r)

\* What TypeOK leaves out: the history variables.
HistoryTypes ==
    /\ latest \in [value : Stored \cup {Zero}, stored : BOOLEAN]
    /\ rewrites \in [Readers -> Nat] /\ DOMAIN during = Readers

LatestInv == L!TypeOK /\ HistoryTypes /\ WriterControl /\ CurrentIntact /\ ReaderControl
        /\ L!LoadIsLinearizable

-----------------------------------------------------------------------------
\* The arithmetic of slots and sequence numbers.
LEMMA LatestNumbers == L!SizesAssumption =>
    /\ NumSlots \in Nat /\ NumSlots >= 2 /\ WordCount \in Nat /\ WordCount >= 1
    /\ SeqModulus \in Nat /\ SeqModulus >= 2
    /\ 0 \in L!SlotIds /\ 0 \in 0 .. SeqModulus - 1 /\ 1 \in 1 .. WordCount + 1
    /\ L!Initially \in L!Packed
<1> HAVE L!SizesAssumption
<1> USE DEF L!SizesAssumption
<1>1. 0 \in L!SlotIds /\ 0 \in 0 .. SeqModulus - 1
  BY DEF L!SlotIds
<1> QED
  BY <1>1 DEF L!Packed, L!Initially

LEMMA NextSlotFacts ==
    L!SizesAssumption => \A s \in L!SlotIds : L!NextSlot(s) \in L!SlotIds /\ L!NextSlot(s) # s
<1> SUFFICES ASSUME L!SizesAssumption, NEW s \in L!SlotIds PROVE L!NextSlot(s) \in L!SlotIds /\ L!NextSlot(s) # s
  OBVIOUS
<1>1. CASE s + 1 < NumSlots
  BY <1>1, LatestNumbers DEF L!NextSlot, L!SlotIds
<1>2. CASE s + 1 = NumSlots
  BY <1>2, LatestNumbers DEF L!NextSlot, L!SlotIds
<1> QED
  BY <1>1, <1>2, LatestNumbers DEF L!SlotIds

LEMMA BumpedFacts == L!SizesAssumption =>
    \A n \in 0 .. SeqModulus - 1 :
        L!Bumped(n) \in 0 .. SeqModulus - 1 /\ L!Bumped(n) = IF n + 1 < SeqModulus THEN n + 1 ELSE 0
<1> SUFFICES ASSUME L!SizesAssumption, NEW n \in 0 .. SeqModulus - 1
             PROVE  L!Bumped(n) \in 0 .. SeqModulus - 1
                    /\ L!Bumped(n) = IF n + 1 < SeqModulus THEN n + 1 ELSE 0
  OBVIOUS
<1>1. CASE n + 1 < SeqModulus
  BY <1>1, LatestNumbers DEF L!Bumped
<1>2. CASE n + 1 = SeqModulus
  BY <1>2, LatestNumbers DEF L!Bumped
<1> QED
  BY <1>1, <1>2, LatestNumbers

LEMMA HalfATurn ==
    L!SizesAssumption => \A k \in Nat : k + 1 < SeqModulus \div 2 => 2 * (k + 1) < SeqModulus
BY DEF L!SizesAssumption

-----------------------------------------------------------------------------
LEMMA LatestBegins == L!SizesAssumption /\ L!Init => LatestInv
<1> SUFFICES ASSUME L!SizesAssumption, L!Init PROVE LatestInv
  OBVIOUS
<1> USE LatestNumbers DEF L!Init
<1>1. L!TypeOK
  BY DEF L!TypeOK
<1>2. HistoryTypes
  BY DEF HistoryTypes
<1>3. WriterControl /\ ReaderControl /\ L!LoadIsLinearizable
  BY
     DEF WriterControl, ReaderControl, SeesLatest, Tracks, HoldsPublished, L!LoadIsLinearizable,
         Looking
<1>4. CurrentIntact
  BY DEF CurrentIntact, Whole, L!Initially
<1> QED
  BY <1>1, <1>2, <1>3, <1>4 DEF LatestInv

LEMMA StepTypes == L!SizesAssumption /\ LatestInv /\ [L!Next]_(L!vars) => L!TypeOK' /\ HistoryTypes'
<1> SUFFICES ASSUME L!SizesAssumption, L!TypeOK, HistoryTypes, [L!Next]_(L!vars)
             PROVE  L!TypeOK' /\ HistoryTypes'
  BY DEF LatestInv
<1> USE LatestNumbers DEF L!TypeOK, HistoryTypes
<1>1. ASSUME NEW w \in Writers, L!StoreBegin(w) PROVE L!TypeOK' /\ HistoryTypes'
  BY <1>1 DEF L!StoreBegin, L!WGoto, L!readerVars
<1>2. ASSUME NEW w \in Writers, L!StoreMark(w) PROVE L!TypeOK' /\ HistoryTypes'
  <2> DEFINE s == L!NextSlot(current.slot)
  <2>1. s \in L!SlotIds /\ L!Bumped(seq[s]) \in 0 .. SeqModulus - 1 /\ 1 \in 1 .. WordCount + 1
    BY NextSlotFacts, BumpedFacts DEF L!Packed
  <2> HIDE DEF s
  <2>2. seq' = [seq EXCEPT ![s] = L!Bumped(@)] /\ target' = [target EXCEPT ![w] = s] /\ word' = [word EXCEPT ![w] = 1]
        /\ wpc' = [wpc EXCEPT ![w] = "word"] /\ UNCHANGED <<words, current, busy, latest, stored, L!readerVars, during>>
        /\ rewrites' = [r \in Readers |-> IF r \in L!Reached(s) THEN rewrites[r] + 1 ELSE rewrites[r]]
    BY <1>2 DEF L!StoreMark, L!WGoto, s
  <2> QED
    BY <2>1, <2>2 DEF L!readerVars
<1>3. ASSUME NEW w \in Writers, L!StoreWord(w) PROVE L!TypeOK' /\ HistoryTypes'
  BY <1>3 DEF L!StoreWord, L!readerVars, L!Words
<1>4. ASSUME NEW w \in Writers, L!StoreClose(w) PROVE L!TypeOK' /\ HistoryTypes'
  <2>1. L!Bumped(seq[target[w]]) \in 0 .. SeqModulus - 1
    BY BumpedFacts
  <2> QED
    BY <2>1, <1>4 DEF L!StoreClose, L!WGoto, L!readerVars
<1>5. ASSUME NEW w \in Writers, L!StorePublish(w) PROVE L!TypeOK' /\ HistoryTypes'
  BY <1>5 DEF L!StorePublish, L!WGoto, L!readerVars, L!Packed
<1>6. ASSUME NEW w \in Writers, L!StoreEnd(w) PROVE L!TypeOK' /\ HistoryTypes'
  <2>1. 0 \in L!SlotIds /\ 1 \in 1 .. WordCount + 1
    OBVIOUS
  <2> QED
    BY <1>6, <2>1 DEF L!StoreEnd, L!WGoto, L!readerVars
<1>7. ASSUME NEW r \in Readers, L!LoadBegin(r) \/ L!CheckNumber(r) \/ L!Recheck(r) PROVE L!TypeOK' /\ HistoryTypes'
  BY <1>7 DEF L!LoadBegin, L!CheckNumber, L!Recheck, L!RGoto, L!slotVars, L!writerVars
<1>8. ASSUME NEW r \in Readers, L!CopyWord(r) PROVE L!TypeOK' /\ HistoryTypes'
  <2> DEFINE v == words[published[r].slot][at[r]]
  <2>1. at[r] \in L!Words /\ at[r] + 1 \in 1 .. WordCount + 1
    BY <1>8 DEF L!CopyWord, L!Words
  <2>2. published[r].slot \in L!SlotIds
    BY DEF L!Packed
  <2>3. v \in Stored \cup {Zero}
    BY <2>1, <2>2
  <2> HIDE DEF v
  <2>4. /\ copied' = [copied EXCEPT ![r] = [copied[r] EXCEPT ![at[r]] = v]]
        /\ at' = [at EXCEPT ![r] = at[r] + 1]
        /\ rpc' = [rpc EXCEPT ![r] = IF at[r] = WordCount THEN "recheck" ELSE "copy"]
        /\ UNCHANGED <<seq, words, current, busy, latest, wpc, stored, target, word, published, during, rewrites>>
    BY <1>8 DEF L!CopyWord, L!slotVars, L!writerVars, v
  <2>5. copied' \in [Readers -> [L!Words -> Stored \cup {Zero}]]
    BY <2>3, <2>4
  <2>6. at' \in [Readers -> 1 .. WordCount + 1]
    BY <2>1, <2>4
  <2> QED
    BY <2>4, <2>5, <2>6
<1>9. ASSUME NEW r \in Readers, L!ReadCurrent(r) PROVE L!TypeOK' /\ HistoryTypes'
  BY <1>9 DEF L!ReadCurrent, L!RGoto, L!slotVars, L!writerVars
<1>11. ASSUME NEW r \in Readers, L!LoadEnd(r) PROVE L!TypeOK' /\ HistoryTypes'
  <2>1. 0 \in L!SlotIds /\ 0 \in 0 .. SeqModulus - 1 /\ 1 \in 1 .. WordCount + 1
    OBVIOUS
  <2>2. L!Initially \in L!Packed
    OBVIOUS
  <2>3. [i \in L!Words |-> Zero] \in [L!Words -> Stored \cup {Zero}]
    OBVIOUS
  <2>4. copied' \in [Readers -> [L!Words -> Stored \cup {Zero}]]
    BY <1>11, <2>3 DEF L!LoadEnd
  <2>5. published' \in [Readers -> L!Packed]
    BY <1>11, <2>2 DEF L!LoadEnd
  <2>6. at' \in [Readers -> 1 .. WordCount + 1] /\ rewrites' \in [Readers -> Nat]
    BY <1>11, <2>1 DEF L!LoadEnd
  <2> QED
    BY <1>11, <2>4, <2>5, <2>6 DEF L!LoadEnd, L!RGoto, L!slotVars, L!writerVars
<1>10. CASE UNCHANGED L!vars
  BY <1>10 DEF L!vars, L!slotVars, L!writerVars, L!readerVars
<1> QED
  BY <1>1, <1>2, <1>3, <1>4, <1>5, <1>6, <1>7, <1>8, <1>9, <1>10, <1>11
     DEF L!Next, L!Storing, L!Loading

LEMMA StepWriters ==
    L!SizesAssumption /\ LatestInv /\ [L!Next]_(L!vars) => WriterControl' /\ CurrentIntact'
<1> SUFFICES ASSUME L!SizesAssumption, L!TypeOK, WriterControl, CurrentIntact, [L!Next]_(L!vars)
             PROVE  WriterControl' /\ CurrentIntact'
  BY DEF LatestInv
<1>0. current.slot \in L!SlotIds /\ L!NextSlot(current.slot) \in L!SlotIds /\ L!NextSlot(current.slot) # current.slot
  BY NextSlotFacts DEF L!TypeOK, L!Packed
<1>1. ASSUME NEW w \in Writers, L!StoreBegin(w) PROVE WriterControl' /\ CurrentIntact'
  BY <1>1 DEF L!StoreBegin, L!Admitted, L!WGoto, L!TypeOK, WriterControl, CurrentIntact
<1>2. ASSUME NEW w \in Writers, L!StoreMark(w) PROVE WriterControl' /\ CurrentIntact'
  <2> USE <1>2 DEF L!StoreMark, L!WGoto, L!TypeOK
  <2>1. \A i \in L!Words : ~(i < 1)
    BY DEF L!Words
  <2>2. \A u \in Writers : wpc[u] # "idle" => u = w
    BY DEF WriterControl
  <2>3. WriterControl'
    BY <2>1, <2>2 DEF WriterControl
  <2>4. CurrentIntact'
    BY <1>0 DEF CurrentIntact
  <2> QED
    BY <2>3, <2>4
<1>3. ASSUME NEW w \in Writers, L!StoreWord(w) PROVE WriterControl' /\ CurrentIntact'
  <2> USE <1>3 DEF L!StoreWord, L!TypeOK
  <2>1. word[w] \in L!Words /\ \A i \in L!Words : i < word[w] + 1 <=> i < word[w] \/ i = word[w]
    BY DEF L!Words
  <2>2. target[w] = L!NextSlot(current.slot) /\ \A u \in Writers : wpc[u] # "idle" => u = w
    BY DEF WriterControl
  <2>3. \A i \in L!Words : i < word'[w] => words'[target[w]][i] = stored[w]
    BY <2>1 DEF WriterControl
  <2>4. WriterControl'
    BY <2>2, <2>3 DEF WriterControl
  <2>5. CurrentIntact'
    BY <1>0, <2>2 DEF CurrentIntact
  <2> QED
    BY <2>4, <2>5
<1>4. ASSUME NEW w \in Writers, L!StoreClose(w) PROVE WriterControl' /\ CurrentIntact'
  <2> USE <1>4 DEF L!StoreClose, L!WGoto, L!TypeOK
  <2>1. target[w] = L!NextSlot(current.slot) /\ \A u \in Writers : wpc[u] # "idle" => u = w
    BY DEF WriterControl
  <2>2. \A i \in L!Words : i < word[w]
    BY LatestNumbers DEF L!Words
  <2>3. words[target[w]] = Whole(stored[w])
    BY <2>2 DEF WriterControl, Whole
  <2>4. WriterControl'
    BY <2>1, <2>3 DEF WriterControl
  <2>5. CurrentIntact'
    BY <1>0, <2>1 DEF CurrentIntact
  <2> QED
    BY <2>4, <2>5
<1>5. ASSUME NEW w \in Writers, L!StorePublish(w) PROVE WriterControl' /\ CurrentIntact'
  <2> USE <1>5 DEF L!StorePublish, L!WGoto, L!TypeOK
  <2>1. words[target[w]] = Whole(stored[w]) /\ \A u \in Writers : wpc[u] # "idle" => u = w
    BY DEF WriterControl
  <2>2. WriterControl'
    BY <2>1 DEF WriterControl
  <2>3. CurrentIntact'
    BY <2>1 DEF CurrentIntact
  <2> QED
    BY <2>2, <2>3
<1>6. ASSUME NEW w \in Writers, L!StoreEnd(w) PROVE WriterControl' /\ CurrentIntact'
  BY <1>6 DEF L!StoreEnd, L!WGoto, L!TypeOK, WriterControl, CurrentIntact
<1>7. CASE UNCHANGED <<L!slotVars, L!writerVars>>
  BY <1>7 DEF L!slotVars, L!writerVars, WriterControl, CurrentIntact
<1>8. ASSUME NEW r \in Readers, L!LoadBegin(r) \/ L!Loading(r) PROVE WriterControl' /\ CurrentIntact'
  BY <1>7, <1>8
     DEF L!LoadBegin, L!Loading, L!ReadCurrent, L!CheckNumber, L!CopyWord, L!Recheck, L!LoadEnd
<1> QED
  BY <1>1, <1>2, <1>3, <1>4, <1>5, <1>6, <1>7, <1>8 DEF L!Next, L!Storing, L!vars

\* A number that is found unchanged belongs to a slot that was not rewritten.
LEMMA SameNumberSays ==
    ASSUME L!SizesAssumption, L!TypeOK, HistoryTypes, NEW r \in Readers, Looking(r), Tracks(r), L!SameNumber(r)
    PROVE  rewrites[r] = 0
<1> DEFINE k == rewrites[r]  n == published[r].seq  m == seq[published[r].slot]
<1>1. k \in Nat /\ n \in 0 .. SeqModulus - 1 /\ m = n
  BY DEF L!TypeOK, HistoryTypes, L!Packed, L!SameNumber
<1>2. /\ k = 0 => ~Open(published[r].slot)
      /\ 2 * k < SeqModulus
      /\ m = Wrapped(n + Ahead(r))
  BY DEF Tracks
<1>3. Ahead(r) \in {2 * k, 2 * k - 1}
  BY DEF Ahead
<1> HIDE DEF k, n, m
<1>4. k = 0
  BY <1>1, <1>2, <1>3, LatestNumbers DEF Wrapped
<1> QED
  BY <1>4 DEF k

LEMMA StepReaders ==
    L!SizesAssumption /\ LatestInv /\ [L!Next]_(L!vars)
        => ReaderControl' /\ L!LoadIsLinearizable'
<1> DEFINE Returns(r) == rpc[r] = "return" => \E p \in during[r] :
                            copied[r] = [i \in L!Words |-> p.value] /\ published[r].stored = p.stored
           Publishes(r) == SeesLatest(r) /\ Tracks(r) /\ HoldsPublished(r) /\ Returns(r)
<1> SUFFICES ASSUME L!SizesAssumption, L!TypeOK, HistoryTypes,
                    WriterControl, CurrentIntact, ReaderControl, L!LoadIsLinearizable, [L!Next]_(L!vars),
                    NEW r \in Readers
             PROVE  Publishes(r)'
  BY DEF LatestInv, ReaderControl, L!LoadIsLinearizable
<1>0. SeesLatest(r) /\ Tracks(r) /\ HoldsPublished(r) /\ Returns(r)
  BY DEF ReaderControl, L!LoadIsLinearizable
<1>1. ASSUME NEW w \in Writers, L!StoreBegin(w) \/ L!StoreEnd(w) PROVE Publishes(r)'
  <2> USE <1>1 DEF L!StoreBegin, L!StoreEnd, L!WGoto, L!TypeOK, L!readerVars
  <2>1. UNCHANGED <<seq, words, latest, during, rewrites, rpc, published, copied, at>>
    OBVIOUS
  <2>2. \A s \in L!SlotIds : Open(s)' <=> Open(s)
    BY DEF Open
  <2>3. published[r].slot \in L!SlotIds
    BY DEF L!Packed
  <2> QED
    BY <1>0, <2>1, <2>2, <2>3 DEF SeesLatest, Tracks, Ahead, HoldsPublished, Looking
<1>2. ASSUME NEW w \in Writers, L!StoreMark(w) PROVE Publishes(r)'
  <2> DEFINE s == L!NextSlot(current.slot)
  <2>1. s \in L!SlotIds /\ published[r].slot \in L!SlotIds
    BY NextSlotFacts DEF L!TypeOK, L!Packed
  <2> HIDE DEF s
  <2>2. /\ wpc[w] = "mark" /\ wpc' = [wpc EXCEPT ![w] = "word"] /\ target' = [target EXCEPT ![w] = s]
        /\ \A q \in L!Reached(s) : rewrites[q] + 1 < SeqModulus \div 2
        /\ rewrites' = [q \in Readers |-> IF q \in L!Reached(s) THEN rewrites[q] + 1 ELSE rewrites[q]]
        /\ seq' = [seq EXCEPT ![s] = L!Bumped(@)]
        /\ UNCHANGED <<words, latest, during, rpc, published, copied, at>>
    BY <1>2 DEF L!StoreMark, L!WGoto, L!readerVars, s
  <2>3. \A u \in Writers : wpc[u] # "idle" => u = w
    BY <2>2 DEF WriterControl
  <2>4. ~Open(published[r].slot) /\ (Open(published[r].slot)' <=> published[r].slot = s)
    BY <2>2, <2>3 DEF Open, L!TypeOK
  <2>5. r \in L!Reached(s) <=> Looking(r) /\ published[r].slot = s
    BY DEF L!Reached, Looking
  <2>6. CASE Looking(r) /\ published[r].slot = s
    <3> DEFINE k == rewrites[r]  n == published[r].seq
    <3>1. k \in Nat /\ n \in 0 .. SeqModulus - 1 /\ seq[s] \in 0 .. SeqModulus - 1
      BY <2>1 DEF L!TypeOK, HistoryTypes, L!Packed
    <3>2. rewrites'[r] = k + 1 /\ 2 * (k + 1) < SeqModulus
      BY <2>2, <2>5, <2>6, <3>1, HalfATurn
    <3>3. Ahead(r) = 2 * k /\ Ahead(r)' = 2 * (k + 1) - 1
      BY <2>2, <2>4, <2>6, <3>2 DEF Ahead
    <3>4. seq[s] = Wrapped(n + 2 * k)
      BY <1>0, <2>6, <3>3 DEF Tracks
    <3>5. seq'[s] = L!Bumped(seq[s])
      BY <2>1, <2>2 DEF L!TypeOK
    <3> HIDE DEF k, n
    <3>6. seq'[s] = Wrapped(n + (2 * (k + 1) - 1))
      BY <3>1, <3>2, <3>4, <3>5, BumpedFacts, LatestNumbers DEF Wrapped
    <3>7. rewrites'[r] # 0
      BY <3>1, <3>2
    <3>8. Tracks(r)'
      BY <2>2, <2>6, <3>2, <3>3, <3>6, <3>7 DEF Tracks, n
    <3>9. SeesLatest(r)' /\ HoldsPublished(r)' /\ Returns(r)'
      BY <1>0, <2>2, <3>7 DEF SeesLatest, HoldsPublished, Looking
    <3> QED
      BY <3>8, <3>9
  <2>7. CASE ~(Looking(r) /\ published[r].slot = s)
    <3>1. rewrites'[r] = rewrites[r]
      BY <2>2, <2>5, <2>7
    <3>2. Looking(r) => seq'[published[r].slot] = seq[published[r].slot] /\ ~Open(published[r].slot)'
      BY <2>1, <2>2, <2>4, <2>7 DEF L!TypeOK
    <3>3. Tracks(r)'
      BY <1>0, <2>2, <2>4, <3>1, <3>2 DEF Tracks, Ahead, Looking
    <3>4. SeesLatest(r)' /\ HoldsPublished(r)' /\ Returns(r)'
      BY <1>0, <2>2, <3>1 DEF SeesLatest, HoldsPublished, Looking
    <3> QED
      BY <3>3, <3>4
  <2> QED
    BY <2>6, <2>7
<1>3. ASSUME NEW w \in Writers, L!StoreWord(w) PROVE Publishes(r)'
  <2> USE <1>3 DEF L!StoreWord, L!readerVars
  <2>1. Open(target[w])
    BY DEF Open
  <2>2. Looking(r) /\ rewrites[r] = 0 => words'[published[r].slot] = words[published[r].slot]
    BY <1>0, <2>1 DEF Tracks, L!TypeOK, L!Packed
  <2>3. UNCHANGED <<seq, latest, during, rewrites, rpc, published, copied, at, wpc, target>>
    OBVIOUS
  <2>4. Tracks(r)'
    BY <1>0, <2>3 DEF Tracks, Ahead, Open, Looking
  <2>5. SeesLatest(r)' /\ HoldsPublished(r)' /\ Returns(r)'
    BY <1>0, <2>2, <2>3 DEF SeesLatest, HoldsPublished, Looking
  <2> QED
    BY <2>4, <2>5
<1>4. ASSUME NEW w \in Writers, L!StoreClose(w) PROVE Publishes(r)'
  <2> DEFINE s == target[w]
  <2>1. s \in L!SlotIds /\ published[r].slot \in L!SlotIds
    BY DEF L!TypeOK, L!Packed
  <2>2. /\ wpc[w] = "word" /\ wpc' = [wpc EXCEPT ![w] = "publish"]
        /\ seq' = [seq EXCEPT ![s] = L!Bumped(@)]
        /\ UNCHANGED <<words, latest, during, rewrites, rpc, published, copied, at, target>>
    BY <1>4 DEF L!StoreClose, L!WGoto, L!readerVars
  <2>3. \A u \in Writers : wpc[u] # "idle" => u = w
    BY <2>2 DEF WriterControl
  <2>4. ~Open(published[r].slot)' /\ (Open(published[r].slot) <=> published[r].slot = s)
    BY <2>2, <2>3 DEF Open, L!TypeOK
  <2>5. SeesLatest(r)' /\ HoldsPublished(r)' /\ Returns(r)'
    BY <1>0, <2>2 DEF SeesLatest, HoldsPublished, Looking
  <2>6. CASE Looking(r) /\ published[r].slot = s
    <3> DEFINE k == rewrites[r]  n == published[r].seq
    <3>1. k \in Nat /\ n \in 0 .. SeqModulus - 1 /\ seq[s] \in 0 .. SeqModulus - 1
      BY <2>1 DEF L!TypeOK, HistoryTypes, L!Packed
    <3>2. k # 0 /\ 2 * k < SeqModulus
      BY <1>0, <2>4, <2>6 DEF Tracks
    <3>3. Ahead(r) = 2 * k - 1 /\ Ahead(r)' = 2 * k
      BY <2>2, <2>4, <2>6 DEF Ahead
    <3>4. seq[s] = Wrapped(n + (2 * k - 1))
      BY <1>0, <2>6, <3>3 DEF Tracks
    <3>5. seq'[s] = L!Bumped(seq[s])
      BY <2>1, <2>2 DEF L!TypeOK
    <3> HIDE DEF k, n, s
    <3>6. seq'[s] = Wrapped(n + 2 * k)
      BY <3>1, <3>2, <3>4, <3>5, BumpedFacts, LatestNumbers DEF Wrapped
    <3>7. Tracks(r)'
      BY <2>2, <2>4, <2>6, <3>2, <3>3, <3>6 DEF Tracks, k, n
    <3> QED
      BY <2>5, <3>7
  <2>7. CASE ~(Looking(r) /\ published[r].slot = s)
    <3>1. Looking(r) => seq'[published[r].slot] = seq[published[r].slot] /\ ~Open(published[r].slot)
      BY <2>1, <2>2, <2>4, <2>7 DEF L!TypeOK
    <3>2. Tracks(r)'
      BY <1>0, <2>2, <2>4, <3>1 DEF Tracks, Ahead, Looking
    <3> QED
      BY <2>5, <3>2
  <2> QED
    BY <2>6, <2>7
<1>5. ASSUME NEW w \in Writers, L!StorePublish(w) PROVE Publishes(r)'
  <2>1. /\ wpc[w] = "publish" /\ wpc' = [wpc EXCEPT ![w] = "free"]
        /\ UNCHANGED <<seq, words, rewrites, rpc, published, copied, at, target>>
        /\ rpc[r] # "idle" => during'[r] = during[r] \cup {latest'}
    BY <1>5 DEF L!StorePublish, L!WGoto, L!readerVars
  <2>2. \A s \in L!SlotIds : Open(s)' <=> Open(s)
    BY <2>1 DEF Open, L!TypeOK
  <2>3. published[r].slot \in L!SlotIds
    BY DEF L!TypeOK, L!Packed
  <2>4. Tracks(r)'
    BY <1>0, <2>1, <2>2, <2>3 DEF Tracks, Ahead, Looking
  <2>5. SeesLatest(r)' /\ HoldsPublished(r)' /\ Returns(r)'
    BY <1>0, <2>1 DEF SeesLatest, HoldsPublished, Looking
  <2> QED
    BY <2>4, <2>5
<1>6. ASSUME NEW q \in Readers, L!LoadBegin(q) \/ L!Loading(q) PROVE Publishes(r)'
  <2>1. UNCHANGED <<seq, words, current, latest, wpc, target>>
    BY <1>6
       DEF L!LoadBegin, L!Loading, L!ReadCurrent, L!CheckNumber, L!CopyWord, L!Recheck, L!LoadEnd,
           L!slotVars, L!writerVars
  <2>2. \A s : Open(s)' <=> Open(s)
    BY <2>1 DEF Open
  <2>3. CASE q # r
    <3>1. /\ rpc'[r] = rpc[r] /\ published'[r] = published[r] /\ at'[r] = at[r] /\ copied'[r] = copied[r]
          /\ during'[r] = during[r] /\ rewrites'[r] = rewrites[r]
      BY <1>6, <2>3
         DEF L!LoadBegin, L!Loading, L!ReadCurrent, L!CheckNumber, L!CopyWord, L!Recheck,
             L!LoadEnd, L!RGoto, L!TypeOK, HistoryTypes
    <3>2. Tracks(r)'
      BY <1>0, <2>1, <2>2, <3>1 DEF Tracks, Ahead, Looking
    <3>3. SeesLatest(r)' /\ HoldsPublished(r)' /\ Returns(r)'
      BY <1>0, <2>1, <3>1 DEF SeesLatest, HoldsPublished, Looking
    <3> QED
      BY <3>2, <3>3
  <2>4. ASSUME L!LoadBegin(r) \/ L!LoadEnd(r) PROVE Publishes(r)'
    BY <2>1, <2>4
       DEF L!LoadBegin, L!LoadEnd, L!RGoto, L!TypeOK, HistoryTypes, SeesLatest, Tracks,
           HoldsPublished, Looking
  <2>5. ASSUME L!ReadCurrent(r) PROVE Publishes(r)'
    <3>1. /\ rpc'[r] = "check" /\ published'[r] = current /\ rewrites'[r] = 0 /\ at'[r] = 1
          /\ during' = during /\ rpc[r] = "read"
      BY <2>5 DEF L!ReadCurrent, L!RGoto, L!TypeOK, HistoryTypes
    <3>2. ~Open(current.slot)
      BY NextSlotFacts DEF Open, WriterControl, L!TypeOK, L!Packed
    <3>3. latest \in during[r]
      BY <1>0, <3>1 DEF SeesLatest
    <3>4. SeesLatest(r)'
      BY <2>1, <3>1, <3>3 DEF SeesLatest
    <3>5. HoldsPublished(r)'
      BY <2>1, <3>1, <3>3 DEF HoldsPublished, CurrentIntact
    <3>6. seq[current.slot] = current.seq /\ current.seq \in 0 .. SeqModulus - 1
      BY DEF CurrentIntact, L!TypeOK, L!Packed
    <3>7. Ahead(r)' = 0
      BY <2>2, <3>1, <3>2 DEF Ahead
    <3>8. current.seq = Wrapped(current.seq + 0) /\ 2 * 0 < SeqModulus
      BY <3>6, LatestNumbers DEF Wrapped
    <3>9. Tracks(r)'
      BY <2>1, <2>2, <3>1, <3>2, <3>6, <3>7, <3>8 DEF Tracks
    <3> QED
      BY <3>1, <3>4, <3>5, <3>9
  <2>6. ASSUME L!CheckNumber(r) PROVE Publishes(r)'
    <3>1. /\ rpc[r] = "check" /\ rpc'[r] \in {"copy", "read"}
          /\ UNCHANGED <<published, copied, at, during, rewrites>>
      BY <2>6 DEF L!CheckNumber, L!TypeOK
    <3>2. at[r] = 1 /\ \A i \in L!Words : ~(i < 1)
      BY <1>0, <3>1 DEF SeesLatest, L!Words
    <3>3. Tracks(r)'
      BY <1>0, <2>1, <2>2, <3>1 DEF Tracks, Ahead, Looking
    <3>4. SeesLatest(r)' /\ HoldsPublished(r)' /\ Returns(r)'
      BY <1>0, <2>1, <3>1, <3>2, LatestNumbers DEF SeesLatest, HoldsPublished, Looking
    <3> QED
      BY <3>3, <3>4
  <2>7. ASSUME L!CopyWord(r) PROVE Publishes(r)'
    <3> DEFINE j == at[r]
    <3>1. /\ rpc[r] = "copy" /\ j \in L!Words
          /\ rpc'[r] = (IF j = WordCount THEN "recheck" ELSE "copy")
          /\ at'[r] = j + 1 /\ copied'[r] = [copied[r] EXCEPT ![j] = words[published[r].slot][j]]
          /\ UNCHANGED <<published, during, rewrites>>
      BY <2>7 DEF L!CopyWord, L!TypeOK, L!Words
    <3>2. copied[r] \in [L!Words -> Stored \cup {Zero}]
      BY DEF L!TypeOK
    <3> HIDE DEF j
    <3>3. Tracks(r)'
      BY <1>0, <2>1, <2>2, <3>1 DEF Tracks, Ahead, Looking
    <3>4. SeesLatest(r)'
      BY <1>0, <2>1, <3>1, LatestNumbers DEF SeesLatest, L!Words
    <3>5. ASSUME rewrites[r] = 0 PROVE HoldsPublished(r)'
      <4>1. PICK p \in during[r] : /\ published[r].stored = p.stored /\ words[published[r].slot] = Whole(p.value)
                                   /\ \A i \in L!Words : i < j => copied[r][i] = p.value
        BY <1>0, <3>1, <3>5 DEF HoldsPublished, Looking, j
      <4>2. words[published[r].slot][j] = p.value
        BY <3>1, <4>1 DEF Whole
      <4>3. \A i \in L!Words : i < j + 1 => copied'[r][i] = p.value
        <5>1. \A i \in L!Words : i < j + 1 => i < j \/ i = j
          BY <3>1, LatestNumbers DEF L!Words
        <5> QED
          BY <3>1, <3>2, <4>1, <4>2, <5>1
      <4>4. j = WordCount => copied'[r] = Whole(p.value)
        <5>1. j = WordCount => \A i \in L!Words : copied'[r][i] = p.value
          BY <3>1, <4>3, LatestNumbers DEF L!Words
        <5> QED
          BY <3>1, <3>2, <5>1 DEF Whole
      <4> QED
        BY <2>1, <3>1, <4>1, <4>3, <4>4 DEF HoldsPublished
    <3>6. HoldsPublished(r)' /\ Returns(r)'
      BY <3>1, <3>5 DEF HoldsPublished
    <3> QED
      BY <3>3, <3>4, <3>6
  <2>8. ASSUME L!Recheck(r) PROVE Publishes(r)'
    <3>1. /\ rpc[r] = "recheck" /\ rpc'[r] = (IF L!SameNumber(r) THEN "return" ELSE "read")
          /\ UNCHANGED <<published, copied, at, during, rewrites>>
      BY <2>8 DEF L!Recheck, L!TypeOK
    <3>2. L!SameNumber(r) => rewrites[r] = 0
      BY <1>0, <3>1, SameNumberSays DEF Looking
    <3>3. Returns(r)'
      BY <1>0, <3>1, <3>2 DEF HoldsPublished, Looking, Whole
    <3> QED
      BY <1>0, <2>1, <3>1, <3>3 DEF SeesLatest, Tracks, HoldsPublished, Looking
  <2> QED
    BY <1>6, <2>3, <2>4, <2>5, <2>6, <2>7, <2>8 DEF L!Loading
<1>7. CASE UNCHANGED L!vars
  <2>1. UNCHANGED <<seq, words, latest, wpc, target, during, rewrites, rpc, published, copied, at>>
    BY <1>7 DEF L!vars, L!slotVars, L!writerVars, L!readerVars
  <2> QED
    BY <1>0, <2>1 DEF SeesLatest, Tracks, Ahead, Open, HoldsPublished, Looking
<1> QED
  BY <1>1, <1>2, <1>3, <1>4, <1>5, <1>6, <1>7 DEF L!Next, L!Storing

-----------------------------------------------------------------------------
(* lock, unlock and the handles                                            *)

\* Mutex counts with the operators of FiniteSets.
LEMMA CountsAlike == \A S : M!Cardinality(S) = Cardinality(S)
  BY DEF M!Cardinality, Cardinality

LEMMA MutexFacts ==
    /\ Handles # {} /\ IsFiniteSet(Handles)
    /\ Kinds \subseteq {"spin", "recursive"} /\ M!NoOwner \notin Lockers
    /\ MaxDepth \in Nat
<1>1. \A S : M!IsFiniteSet(S) <=> IsFiniteSet(S)
  BY DEF M!IsFiniteSet, IsFiniteSet
<1> QED
  BY <1>1, MutexSizes DEF M!MutexAssumption

Locks == [bound : BOOLEAN, owns : BOOLEAN]
Places == {"idle", "whose", "look", "exchange", "spin", "own", "count", "uncount", "disown", "free"}
Calls == [pc : Places, h : Handles, from : Handles,
          next : {"nothing", "try", "wait", "keep", "destroy", "move", "bare"}]

MutexTypeOK ==
    /\ kind \in {"spin", "recursive"} /\ locked \in BOOLEAN
    /\ owner \in Lockers \cup {M!NoOwner} /\ depth \in Nat
    /\ handle \in [Lockers -> [Handles -> Locks]] /\ bare \in [Lockers -> Nat]
    /\ call \in [Lockers -> Calls]

\* What a thread is in the middle of.
CallControl(t) ==
    LET c == call[t]
        mine == handle[t]
    IN  /\ c.pc \in {"whose", "look", "exchange", "spin", "own", "count"} => ~mine[c.h].owns
        /\ c.pc \in {"look", "exchange", "spin", "own", "count"} => M!Held(t) = 0
        /\ c.pc \in {"uncount", "disown", "free"} =>
              /\ c.next \in {"keep", "destroy", "move", "bare"}
              /\ IF c.next = "bare" THEN bare[t] > 0 ELSE mine[c.h].owns
              /\ c.next = "move" => c.from # c.h
        /\ c.pc \in {"disown", "free"} => M!Held(t) = 1
        /\ kind = "spin" => c.pc \in {"idle", "look", "exchange", "spin", "free"} /\ M!Held(t) <= 1

\* It has the mutex: with a lock counted, or before it is.
Holds(t) == M!Held(t) > 0 \/ call[t].pc \in {"own", "count"}

Possession ==
    /\ \A t, u \in Lockers : Holds(t) /\ Holds(u) => t = u
    /\ locked <=> \E t \in Lockers : Holds(t)
    /\ \A t \in Lockers :
          owner = t <=> kind = "recursive" /\ Holds(t) /\ call[t].pc \notin {"own", "free"}
    /\ \A t \in Lockers :
          kind = "recursive" /\ M!Held(t) > 0 /\ call[t].pc \in {"idle", "whose", "uncount"} =>
             depth = M!Held(t)

MutexInv == MutexTypeOK /\ Possession /\ \A t \in Lockers : CallControl(t)

-----------------------------------------------------------------------------
(* How many locks a thread holds through its handles                       *)

OwnedIn(mine) == {h \in Handles : mine[h].owns}

LEMMA HeldCounts ==
    ASSUME MutexTypeOK, NEW t \in Lockers
    PROVE  /\ M!Held(t) = bare[t] + Cardinality(OwnedIn(handle[t]))
           /\ M!Held(t) \in Nat /\ bare[t] \in Nat /\ Cardinality(OwnedIn(handle[t])) \in Nat
           /\ \A h \in Handles : handle[t][h].owns => M!Held(t) > 0
           /\ bare[t] > 0 => M!Held(t) > 0
<1> DEFINE S == OwnedIn(handle[t])
<1>1. IsFiniteSet(S)
  BY MutexFacts, FS_Subset DEF OwnedIn
<1>2. Cardinality(S) \in Nat
  BY <1>1, FS_CardinalityType
<1>3. M!Held(t) = bare[t] + Cardinality(S) /\ bare[t] \in Nat
  BY CountsAlike DEF M!Held, OwnedIn, MutexTypeOK
<1>4. \A h \in Handles : handle[t][h].owns => Cardinality(S) # 0
  BY <1>1, FS_EmptySet DEF OwnedIn
<1> QED
  BY <1>2, <1>3, <1>4

\* One more handle owns a lock, one less, or another one instead.
LEMMA OneMore ==
    ASSUME NEW mine, NEW new, NEW h \in Handles, ~mine[h].owns,
           OwnedIn(new) = OwnedIn(mine) \cup {h}
    PROVE  Cardinality(OwnedIn(new)) = Cardinality(OwnedIn(mine)) + 1
  BY MutexFacts, FS_Subset, FS_AddElement DEF OwnedIn

LEMMA OneLess ==
    ASSUME NEW mine, NEW new, NEW h \in OwnedIn(mine), OwnedIn(new) = OwnedIn(mine) \ {h}
    PROVE  Cardinality(OwnedIn(new)) = Cardinality(OwnedIn(mine)) - 1
<1>1. IsFiniteSet(OwnedIn(mine))
  BY MutexFacts, FS_Subset DEF OwnedIn
<1> QED
  BY <1>1, FS_RemoveElement

LEMMA OneInstead ==
    ASSUME NEW mine, NEW new, NEW h \in OwnedIn(mine), NEW g \in Handles, ~mine[g].owns,
           OwnedIn(new) = (OwnedIn(mine) \ {h}) \cup {g}
    PROVE  Cardinality(OwnedIn(new)) = Cardinality(OwnedIn(mine))
<1> DEFINE S == OwnedIn(mine) \ {h}
<1>1. IsFiniteSet(OwnedIn(mine))
  BY MutexFacts, FS_Subset DEF OwnedIn
<1>2. IsFiniteSet(S) /\ Cardinality(S) = Cardinality(OwnedIn(mine)) - 1 /\ g \notin S
  BY <1>1, FS_RemoveElement DEF OwnedIn
<1>3. Cardinality(S \cup {g}) = Cardinality(S) + 1
  BY <1>2, FS_AddElement
<1>4. Cardinality(OwnedIn(mine)) \in Nat
  BY <1>1, FS_CardinalityType
<1> QED
  BY <1>2, <1>3, <1>4

-----------------------------------------------------------------------------
(* Every step is of one thread.                                            *)

OthersRest(t) ==
    /\ kind' = kind
    /\ \A u \in Lockers \ {t} : handle'[u] = handle[u] /\ bare'[u] = bare[u] /\ call'[u] = call[u]

LEMMA OthersKept ==
    ASSUME MutexInv, MutexTypeOK', NEW t \in Lockers, OthersRest(t)
    PROVE  \A u \in Lockers \ {t} :
              M!Held(u)' = M!Held(u) /\ (Holds(u)' <=> Holds(u)) /\ CallControl(u)'
<1> SUFFICES ASSUME NEW u \in Lockers \ {t}
             PROVE  M!Held(u)' = M!Held(u) /\ (Holds(u)' <=> Holds(u)) /\ CallControl(u)'
  OBVIOUS
<1>1. handle'[u] = handle[u] /\ bare'[u] = bare[u] /\ call'[u] = call[u] /\ kind' = kind
  BY DEF OthersRest
<1>2. M!Held(u)' = M!Held(u)
  BY <1>1, CountsAlike DEF M!Held
<1>3. CallControl(u)
  BY DEF MutexInv
<1> QED
  BY <1>1, <1>2, <1>3 DEF Holds, CallControl

\* A step after which t holds as much as before, in the same part of what it is doing.
LEMMA NothingChangesHands ==
    ASSUME MutexInv, MutexTypeOK', NEW t \in Lockers, OthersRest(t), UNCHANGED <<locked, owner, depth>>,
           CallControl(t)', M!Held(t)' = M!Held(t),
           M!Held(t) > 0 /\ kind = "recursive" => (call'[t].pc = "free" <=> call[t].pc = "free"),
           call[t].pc \notin {"own", "count"}, call'[t].pc \notin {"own", "count"},
           call'[t].pc \in {"idle", "whose", "uncount"} =>
               call[t].pc \in {"idle", "whose", "uncount"} \/ M!Held(t) = 0
    PROVE  MutexInv'
<1>1. \A u \in Lockers \ {t} :
         M!Held(u)' = M!Held(u) /\ (Holds(u)' <=> Holds(u)) /\ CallControl(u)' /\ call'[u] = call[u]
  BY OthersKept DEF OthersRest
<1>2. kind' = kind /\ Possession /\ MutexTypeOK
  BY DEF OthersRest, MutexInv
<1>3. Holds(t)' <=> Holds(t)
  BY DEF Holds
<1>4. Possession'
  <2>1. \A u, w \in Lockers : Holds(u)' /\ Holds(w)' => u = w
    BY <1>1, <1>2, <1>3 DEF Possession
  <2>2. locked' <=> \E u \in Lockers : Holds(u)'
    BY <1>1, <1>2, <1>3 DEF Possession
  <2>3. \A u \in Lockers :
          owner' = u <=> kind' = "recursive" /\ Holds(u)' /\ call'[u].pc \notin {"own", "free"}
    <3>1. owner' = t <=> kind' = "recursive" /\ Holds(t)' /\ call'[t].pc \notin {"own", "free"}
      BY <1>2, <1>3 DEF Possession, Holds
    <3> QED
      BY <1>1, <1>2, <3>1 DEF Possession
  <2>4. \A u \in Lockers :
          kind' = "recursive" /\ M!Held(u)' > 0 /\ call'[u].pc \in {"idle", "whose", "uncount"} =>
             depth' = M!Held(u)'
    BY <1>1, <1>2, HeldCounts DEF Possession
  <2> QED
    BY <2>1, <2>2, <2>3, <2>4 DEF Possession
<1> QED
  BY <1>1, <1>4 DEF MutexInv

LEMMA Returns ==
    ASSUME MutexTypeOK, NEW t \in Lockers, M!Return(t)
    PROVE  /\ M!Idle.pc = "idle" /\ call'[t] = M!Idle /\ \A u \in Lockers \ {t} : call'[u] = call[u]
           /\ call' \in [Lockers -> Calls]
<1>1. M!SomeHandle \in Handles
  BY MutexFacts DEF M!SomeHandle
<1>2. M!Idle \in Calls /\ M!Idle.pc = "idle"
  BY <1>1 DEF M!Idle, Calls, Places
<1> QED
  BY <1>2 DEF M!Return, MutexTypeOK

LEMMA Goes ==
    ASSUME MutexTypeOK, NEW t \in Lockers, NEW place \in Places, M!Goto(t, place)
    PROVE  /\ call'[t].pc = place /\ call'[t].h = call[t].h /\ call'[t].from = call[t].from
           /\ call'[t].next = call[t].next /\ \A u \in Lockers \ {t} : call'[u] = call[u]
           /\ call' \in [Lockers -> Calls]
<1> DEFINE c == [call[t] EXCEPT !.pc = place]
<1>1. c \in Calls /\ c.pc = place /\ c.h = call[t].h /\ c.from = call[t].from /\ c.next = call[t].next
  BY DEF MutexTypeOK, Calls
<1>2. call' = [call EXCEPT ![t] = c]
  BY DEF M!Goto, MutexTypeOK
<1> HIDE DEF c
<1> QED
  BY <1>1, <1>2 DEF MutexTypeOK

LEMMA Places1 ==
    {"idle", "look", "exchange", "spin", "own", "count", "disown", "free"} \subseteq Places
  BY DEF Places

LEMMA OwnsOne ==
    ASSUME MutexTypeOK, NEW t \in Lockers, handle' = [handle EXCEPT ![t][call[t].h].owns = TRUE]
    PROVE  /\ handle' \in [Lockers -> [Handles -> Locks]]
           /\ \A u \in Lockers \ {t} : handle'[u] = handle[u]
           /\ OwnedIn(handle'[t]) = OwnedIn(handle[t]) \cup {call[t].h}
<1> DEFINE h == call[t].h
           one == [handle[t][h] EXCEPT !.owns = TRUE]
<1>1. h \in Handles /\ handle[t][h] \in Locks
  BY DEF MutexTypeOK, Calls
<1>2. one \in Locks /\ one.owns = TRUE
  BY <1>1 DEF Locks
<1>3. handle' = [handle EXCEPT ![t] = [handle[t] EXCEPT ![h] = one]]
  BY DEF MutexTypeOK
<1> HIDE DEF one
<1> DEFINE mine == [handle[t] EXCEPT ![h] = one]
<1>0. mine \in [Handles -> Locks] /\ mine[h] = one /\ \A g \in Handles \ {h} : mine[g] = handle[t][g]
  BY <1>1, <1>2 DEF MutexTypeOK
<1> HIDE DEF mine
<1>4. /\ handle' \in [Lockers -> [Handles -> Locks]]
      /\ \A u \in Lockers \ {t} : handle'[u] = handle[u]
      /\ handle'[t] = mine
  BY <1>0, <1>3 DEF MutexTypeOK, mine
<1>5. OwnedIn(handle'[t]) = OwnedIn(handle[t]) \cup {h}
  BY <1>0, <1>1, <1>2, <1>4 DEF OwnedIn
<1> QED
  BY <1>4, <1>5

-----------------------------------------------------------------------------
(* lock and try_lock                                                       *)

LEMMA BeginStep ==
    ASSUME MutexInv, NEW t \in Lockers, NEW h \in Handles, NEW try \in BOOLEAN, M!Begin(t, h, try) PROVE MutexInv'
<1> DEFINE c == [pc |-> IF kind = "spin" THEN (IF try THEN "look" ELSE "exchange") ELSE "whose",
                 h |-> h, from |-> h, next |-> IF try THEN "try" ELSE "wait"]
<1>0. c \in Calls /\ c.pc = (IF kind = "spin" THEN (IF try THEN "look" ELSE "exchange") ELSE "whose")
      /\ c.h = h /\ call' = [call EXCEPT ![t] = c]
  BY DEF M!Begin, Calls, Places
<1> HIDE DEF c
<1>1. MutexTypeOK' /\ OthersRest(t) /\ UNCHANGED <<locked, owner, depth>> /\ call[t].pc = "idle"
      /\ call'[t].pc = (IF kind = "spin" THEN (IF try THEN "look" ELSE "exchange") ELSE "whose")
      /\ call'[t].h = h
  BY <1>0 DEF M!Begin, M!At, MutexInv, MutexTypeOK, OthersRest
<1>2. M!Held(t)' = M!Held(t) /\ M!Held(t) \in Nat
  BY HeldCounts, CountsAlike DEF M!Begin, M!Held, MutexInv
<1>3. CallControl(t)'
  BY <1>1, <1>2 DEF M!Begin, MutexInv, MutexTypeOK, CallControl
<1> QED
  BY <1>1, <1>2, <1>3, NothingChangesHands DEF MutexInv, MutexTypeOK

\* A step of a call that leaves everything but the call alone.
LEMMA CallStep ==
    ASSUME MutexInv, NEW t \in Lockers, MutexTypeOK', UNCHANGED <<kind, locked, owner, depth, handle, bare>>,
           NEW place, call'[t].pc = place, call'[t].h = call[t].h \/ place = "idle",
           \A u \in Lockers \ {t} : call'[u] = call[u],
           call[t].pc \in {"whose", "look", "exchange", "spin"},
           place \in {"look", "exchange", "spin", "idle"},
           M!Held(t) = 0
    PROVE  MutexInv'
<1>1. OthersRest(t)
  BY DEF OthersRest
<1>2. M!Held(t)' = M!Held(t)
  BY CountsAlike DEF M!Held
<1>3. CallControl(t)'
  BY <1>2 DEF MutexInv, MutexTypeOK, CallControl
<1> QED
  BY <1>1, <1>2, <1>3, NothingChangesHands

LEMMA NotOwnerStep == ASSUME MutexInv, NEW t \in Lockers, M!NotOwner(t) PROVE MutexInv'
<1> PICK place \in {"look", "exchange"} : M!Goto(t, place)
  BY DEF M!NotOwner
<1>1. /\ call'[t].pc = place /\ call'[t].h = call[t].h /\ \A u \in Lockers \ {t} : call'[u] = call[u]
      /\ call' \in [Lockers -> Calls]
  BY Goes, Places1 DEF MutexInv
<1>2. MutexTypeOK' /\ call[t].pc = "whose"
  BY <1>1 DEF M!NotOwner, M!At, MutexInv, MutexTypeOK
<1>3. M!Held(t) = 0
  BY HeldCounts DEF M!NotOwner, M!At, MutexInv, Possession, Holds, MutexTypeOK, CallControl
<1> QED
  BY <1>1, <1>2, <1>3, CallStep DEF M!NotOwner

\* A step of the loop, or its end without the lock.
LEMMA LoopStep ==
    ASSUME MutexInv, NEW t \in Lockers, call[t].pc \in {"look", "exchange", "spin"},
           M!Return(t) \/ \E place \in {"exchange", "spin"} : M!Goto(t, place),
           UNCHANGED <<kind, locked, owner, depth, handle, bare>>
    PROVE  MutexInv'
<1>1. PICK place \in {"exchange", "spin", "idle"} :
         /\ call'[t].pc = place /\ (call'[t].h = call[t].h \/ place = "idle")
         /\ \A u \in Lockers \ {t} : call'[u] = call[u]
         /\ call' \in [Lockers -> Calls]
  BY Goes, Returns, Places1 DEF MutexInv
<1>2. MutexTypeOK'
  BY <1>1 DEF MutexInv, MutexTypeOK
<1>3. M!Held(t) = 0
  BY DEF MutexInv, CallControl
<1> QED
  BY <1>1, <1>2, <1>3, CallStep

LEMMA ContendedStep == ASSUME MutexInv, NEW t \in Lockers, M!Contended(t) PROVE MutexInv'
  BY LoopStep DEF M!Contended, M!At

LEMMA SpinStep == ASSUME MutexInv, NEW t \in Lockers, M!Spin(t) PROVE MutexInv'
  BY LoopStep DEF M!Spin, M!At

LEMMA LookStep == ASSUME MutexInv, NEW t \in Lockers, M!Look(t) PROVE MutexInv'
  BY LoopStep DEF M!Look, M!At

\* The handle of a call comes to own one lock more.
LEMMA OwnsOneMore ==
    ASSUME MutexInv, MutexTypeOK', NEW t \in Lockers, call[t].pc \in {"whose", "exchange", "count"},
           handle' = [handle EXCEPT ![t][call[t].h].owns = TRUE], bare' = bare
    PROVE  M!Held(t)' = M!Held(t) + 1 /\ M!Held(t) \in Nat
<1> DEFINE h == call[t].h
<1> USE DEF MutexInv
<1>1. h \in Handles
  BY DEF MutexTypeOK, Calls
<1>2. OwnedIn(handle'[t]) = OwnedIn(handle[t]) \cup {h} /\ ~handle[t][h].owns
  BY OwnsOne DEF CallControl
<1>3. Cardinality(OwnedIn(handle'[t])) = Cardinality(OwnedIn(handle[t])) + 1
  BY <1>1, <1>2, OneMore
<1>4. M!Held(t)' = bare'[t] + Cardinality(OwnedIn(handle'[t]))
  BY CountsAlike DEF M!Held, OwnedIn
<1> QED
  BY <1>3, <1>4, HeldCounts

LEMMA ReenterStep == ASSUME MutexInv, NEW t \in Lockers, M!Reenter(t) PROVE MutexInv'
<1>1. MutexTypeOK' /\ OthersRest(t) /\ UNCHANGED <<locked, owner>> /\ call[t].pc = "whose" /\ call'[t].pc = "idle"
      /\ owner = t /\ depth' = depth + 1
  <2>1. /\ call' \in [Lockers -> Calls] /\ call'[t].pc = "idle"
        /\ \A u \in Lockers \ {t} : call'[u] = call[u]
    BY Returns DEF M!Reenter, MutexInv
  <2>2. handle' \in [Lockers -> [Handles -> Locks]] /\ \A u \in Lockers \ {t} : handle'[u] = handle[u]
    BY OwnsOne DEF M!Reenter, M!Owns, MutexInv
  <2> QED
    BY <2>1, <2>2 DEF M!Reenter, M!At, MutexInv, MutexTypeOK, OthersRest
<1>2. M!Held(t)' = M!Held(t) + 1 /\ M!Held(t) \in Nat
  BY <1>1, OwnsOneMore, HeldCounts DEF M!Reenter, M!Owns, MutexInv
<1>3. \A u \in Lockers \ {t} :
         M!Held(u)' = M!Held(u) /\ (Holds(u)' <=> Holds(u)) /\ CallControl(u)' /\ call'[u] = call[u]
  BY <1>1, OthersKept DEF OthersRest
<1>4. kind' = kind /\ kind = "recursive" /\ Holds(t) /\ Holds(t)' /\ depth = M!Held(t)
  BY <1>1, <1>2 DEF OthersRest, MutexInv, Possession, Holds
<1>5. CallControl(t)'
  BY <1>1, <1>4 DEF CallControl
<1>6. \A u \in Lockers \ {t} : ~Holds(u) /\ M!Held(u) \in Nat
  BY <1>4, HeldCounts DEF MutexInv, Possession
<1>7. Possession'
  BY <1>1, <1>2, <1>3, <1>4, <1>6 DEF Possession, Holds, MutexInv
<1> QED
  BY <1>1, <1>3, <1>5, <1>7 DEF MutexInv

LEMMA ExchangeStep == ASSUME MutexInv, NEW t \in Lockers, M!Exchange(t) PROVE MutexInv'
<1>1. MutexTypeOK' /\ OthersRest(t) /\ UNCHANGED <<owner, depth, bare>> /\ call[t].pc = "exchange" /\ locked'
      /\ ~locked
  BY Returns, OwnsOne, Goes, Places1 DEF M!Exchange, M!Owns, M!At, MutexInv, MutexTypeOK, OthersRest
<1>2. \A u \in Lockers \ {t} :
         M!Held(u)' = M!Held(u) /\ (Holds(u)' <=> Holds(u)) /\ CallControl(u)' /\ call'[u] = call[u]
  BY <1>1, OthersKept DEF OthersRest
<1>3. \A u \in Lockers : ~Holds(u) /\ M!Held(u) = 0 /\ owner # u
  BY <1>1, HeldCounts DEF MutexInv, Possession, Holds
<1>4. CASE kind = "spin"
  <2>1. call'[t].pc = "idle" /\ M!Held(t)' = 1
    BY <1>1, <1>3, <1>4, OwnsOneMore, Returns DEF M!Exchange, M!Owns, MutexInv
  <2>2. CallControl(t)' /\ Holds(t)'
    BY <2>1 DEF CallControl, Holds
  <2>3. Possession'
    BY <1>1, <1>2, <1>3, <1>4, <2>1, <2>2 DEF Possession, Holds, OthersRest
  <2> QED
    BY <1>1, <1>2, <2>2, <2>3 DEF MutexInv
<1>5. CASE kind = "recursive"
  <2>1. call'[t].pc = "own" /\ call'[t].h = call[t].h /\ handle' = handle
    BY <1>1, <1>5, Goes, Places1 DEF M!Exchange, MutexInv
  <2>2. M!Held(t)' = 0
    BY <1>1, <1>3, <2>1 DEF M!Held
  <2>3. CallControl(t)' /\ Holds(t)'
    BY <1>1, <1>5, <2>1, <2>2 DEF CallControl, Holds, OthersRest, MutexInv
  <2>4. Possession'
    BY <1>1, <1>2, <1>3, <1>5, <2>1, <2>2, <2>3 DEF Possession, Holds, OthersRest
  <2> QED
    BY <1>1, <1>2, <2>3, <2>4 DEF MutexInv
<1> QED
  BY <1>4, <1>5 DEF MutexInv, MutexTypeOK

LEMMA OwnStep == ASSUME MutexInv, NEW t \in Lockers, M!Own(t) PROVE MutexInv'
<1>1. MutexTypeOK' /\ OthersRest(t) /\ UNCHANGED <<locked, depth, handle, bare>> /\ call[t].pc = "own"
      /\ call'[t].pc = "count" /\ call'[t].h = call[t].h /\ owner' = t
  BY Goes, Places1 DEF M!Own, M!At, MutexInv, MutexTypeOK, OthersRest
<1>2. \A u \in Lockers \ {t} :
         M!Held(u)' = M!Held(u) /\ (Holds(u)' <=> Holds(u)) /\ CallControl(u)' /\ call'[u] = call[u]
  BY <1>1, OthersKept DEF OthersRest
<1>3. M!Held(t)' = M!Held(t) /\ M!Held(t) = 0 /\ kind = "recursive" /\ kind' = kind
  BY <1>1, CountsAlike DEF M!Held, MutexInv, MutexTypeOK, CallControl, OthersRest
<1>4. CallControl(t)' /\ Holds(t) /\ Holds(t)'
  BY <1>1, <1>3 DEF CallControl, Holds, MutexInv
<1>5. \A u \in Lockers \ {t} : ~Holds(u) /\ M!Held(u) \in Nat
  BY <1>4, HeldCounts DEF MutexInv, Possession
<1>6. Possession'
  BY <1>1, <1>2, <1>3, <1>4, <1>5 DEF Possession, Holds, MutexInv
<1> QED
  BY <1>1, <1>2, <1>4, <1>6 DEF MutexInv

LEMMA CountStep == ASSUME MutexInv, NEW t \in Lockers, M!Count(t) PROVE MutexInv'
<1>1. MutexTypeOK' /\ OthersRest(t) /\ UNCHANGED <<locked, owner, bare>> /\ call[t].pc = "count"
      /\ call'[t].pc = "idle" /\ depth' = 1
  BY Returns, OwnsOne DEF M!Count, M!Owns, M!At, MutexInv, MutexTypeOK, OthersRest
<1>2. \A u \in Lockers \ {t} :
         M!Held(u)' = M!Held(u) /\ (Holds(u)' <=> Holds(u)) /\ CallControl(u)' /\ call'[u] = call[u]
  BY <1>1, OthersKept DEF OthersRest
<1>3. M!Held(t) = 0 /\ kind = "recursive" /\ kind' = kind
  BY <1>1 DEF MutexInv, MutexTypeOK, CallControl, OthersRest
<1>4. M!Held(t)' = 1
  <2>1. handle' = [handle EXCEPT ![t][call[t].h].owns = TRUE]
    BY DEF M!Count, M!Owns
  <2>2. M!Held(t)' = M!Held(t) + 1
    BY <1>1, <2>1, OwnsOneMore
  <2> QED
    BY <1>3, <2>2
<1>5. CallControl(t)' /\ Holds(t) /\ Holds(t)'
  BY <1>1, <1>3, <1>4 DEF CallControl, Holds
<1>6. \A u \in Lockers \ {t} : ~Holds(u) /\ M!Held(u) = 0
  BY <1>5, HeldCounts DEF MutexInv, Possession, Holds
<1>7. Possession'
  BY <1>1, <1>2, <1>3, <1>4, <1>5, <1>6 DEF Possession, Holds, MutexInv
<1> QED
  BY <1>1, <1>2, <1>5, <1>7 DEF MutexInv

-----------------------------------------------------------------------------
(* unlock                                                                  *)

LEMMA UnlockStep ==
    ASSUME MutexInv, NEW t \in Lockers, NEW h \in Handles, NEW from \in Handles,
           NEW next \in {"keep", "destroy", "move", "bare"},
           IF next = "bare" THEN bare[t] > 0 ELSE handle[t][h].owns,
           next = "move" => from # h,
           M!Unlock(t, h, next, from)
    PROVE  MutexInv'
<1> DEFINE c == [pc |-> IF kind = "spin" THEN "free" ELSE "uncount", h |-> h, from |-> from, next |-> next]
<1>1. /\ c \in Calls /\ c.pc = (IF kind = "spin" THEN "free" ELSE "uncount")
      /\ c.h = h /\ c.from = from /\ c.next = next /\ call' = [call EXCEPT ![t] = c]
  BY DEF M!Unlock, Calls, Places
<1> HIDE DEF c
<1>2. /\ MutexTypeOK' /\ OthersRest(t) /\ UNCHANGED <<kind, locked, owner, depth, handle, bare>>
      /\ call[t].pc = "idle" /\ call'[t] = c
  BY <1>1 DEF M!Unlock, M!At, MutexInv, MutexTypeOK, OthersRest
<1>3. M!Held(t)' = M!Held(t) /\ M!Held(t) \in Nat /\ M!Held(t) > 0
  BY <1>2, HeldCounts, CountsAlike DEF M!Held, MutexInv
<1>4. kind = "spin" => M!Held(t) = 1
  BY <1>3 DEF MutexInv, CallControl
<1>5. CallControl(t)'
  BY <1>1, <1>2, <1>3, <1>4 DEF CallControl, MutexInv, MutexTypeOK
<1> QED
  BY <1>1, <1>2, <1>3, <1>5, NothingChangesHands DEF MutexInv, MutexTypeOK

LEMMA HandlesSet ==
    ASSUME MutexTypeOK, NEW t \in Lockers, NEW mine \in [Handles -> Locks], handle' = [handle EXCEPT ![t] = mine]
    PROVE  /\ handle' \in [Lockers -> [Handles -> Locks]] /\ handle'[t] = mine
           /\ \A u \in Lockers \ {t} : handle'[u] = handle[u]
  BY DEF MutexTypeOK

LEMMA UnboundType == M!Unbound \in Locks /\ ~M!Unbound.owns /\ ~M!Unbound.bound
  BY DEF M!Unbound, Locks

\* Whatever follows the unlock, its thread holds one lock less.
LEMMA HoldsOneLess ==
    ASSUME MutexInv, NEW t \in Lockers, call[t].pc \in {"uncount", "disown", "free"}, M!Finish(t)
    PROVE  /\ handle' \in [Lockers -> [Handles -> Locks]] /\ bare' \in [Lockers -> Nat]
           /\ call' \in [Lockers -> Calls] /\ call'[t].pc = "idle"
           /\ \A u \in Lockers \ {t} : handle'[u] = handle[u] /\ bare'[u] = bare[u] /\ call'[u] = call[u]
           /\ M!Held(t)' = M!Held(t) - 1
<1> DEFINE h == call[t].h
           from == call[t].from
           next == call[t].next
           mine == handle[t]
<1>1. /\ h \in Handles /\ from \in Handles /\ mine \in [Handles -> Locks] /\ bare[t] \in Nat
      /\ next \in {"keep", "destroy", "move", "bare"}
      /\ next = "bare" => bare[t] > 0
      /\ next # "bare" => h \in OwnedIn(mine)
      /\ next = "move" => from # h
  BY DEF MutexInv, MutexTypeOK, Calls, CallControl, OwnedIn
<1>2. call' \in [Lockers -> Calls] /\ call'[t].pc = "idle" /\ \A u \in Lockers \ {t} : call'[u] = call[u]
  BY Returns DEF M!Finish, MutexInv
<1>3. /\ M!Held(t) = bare[t] + Cardinality(OwnedIn(mine)) /\ Cardinality(OwnedIn(mine)) \in Nat
      /\ M!Held(t)' = bare'[t] + Cardinality(OwnedIn(handle'[t]))
  BY HeldCounts, CountsAlike DEF MutexInv, M!Held, OwnedIn
<1>4. CASE next = "bare"
  <2>1. bare' = [bare EXCEPT ![t] = @ - 1] /\ handle' = [handle EXCEPT ![t] = mine]
    BY <1>4 DEF M!Finish
  <2>2. bare' \in [Lockers -> Nat] /\ bare'[t] = bare[t] - 1 /\ \A u \in Lockers \ {t} : bare'[u] = bare[u]
    BY <1>1, <1>4, <2>1 DEF MutexInv, MutexTypeOK
  <2>3. /\ handle' \in [Lockers -> [Handles -> Locks]] /\ handle'[t] = mine
        /\ \A u \in Lockers \ {t} : handle'[u] = handle[u]
    BY <1>1, <2>1, HandlesSet DEF MutexInv
  <2>4. M!Held(t)' = M!Held(t) - 1
    BY <1>1, <1>3, <2>2, <2>3
  <2> QED
    BY <1>2, <2>2, <2>3, <2>4
<1>5. CASE next # "bare"
  <2>1. bare' = bare
    BY <1>5 DEF M!Finish
  <2> SUFFICES ASSUME NEW new \in [Handles -> Locks], handle' = [handle EXCEPT ![t] = new],
                      \E g \in OwnedIn(mine) : OwnedIn(new) = OwnedIn(mine) \ {g}
               PROVE  /\ handle' \in [Lockers -> [Handles -> Locks]]
                      /\ \A u \in Lockers \ {t} : handle'[u] = handle[u]
                      /\ M!Held(t)' = M!Held(t) - 1
    <3>1. CASE next = "keep"
      <4> DEFINE one == [mine[h] EXCEPT !.owns = FALSE]
                 new == [mine EXCEPT ![h] = one]
      <4>1. one \in Locks /\ ~one.owns
        BY <1>1 DEF Locks
      <4> HIDE DEF one
      <4>2. new \in [Handles -> Locks] /\ OwnedIn(new) = OwnedIn(mine) \ {h}
        BY <1>1, <4>1 DEF OwnedIn
      <4>3. handle' = [handle EXCEPT ![t] = new]
        BY <1>1, <3>1 DEF M!Finish, one
      <4> QED
        BY <1>1, <1>2, <1>5, <2>1, <4>2, <4>3 DEF MutexInv, MutexTypeOK
    <3>2. CASE next = "destroy"
      <4> DEFINE new == [mine EXCEPT ![h] = M!Unbound]
      <4>1. new \in [Handles -> Locks] /\ OwnedIn(new) = OwnedIn(mine) \ {h}
        BY <1>1, UnboundType DEF OwnedIn
      <4>2. handle' = [handle EXCEPT ![t] = new]
        BY <1>1, <3>2 DEF M!Finish
      <4> QED
        BY <1>1, <1>2, <1>5, <2>1, <4>1, <4>2 DEF MutexInv, MutexTypeOK
    <3>3. CASE next = "move"
      <4> DEFINE new == [mine EXCEPT ![h] = mine[from], ![from] = M!Unbound]
      <4>1. new \in [Handles -> Locks]
        BY <1>1, UnboundType
      <4>2. handle' = [handle EXCEPT ![t] = new]
        BY <1>1, <3>3 DEF M!Finish
      <4>3. CASE mine[from].owns
        <5>1. from \in OwnedIn(mine) /\ OwnedIn(new) = OwnedIn(mine) \ {from}
          BY <1>1, <3>3, <4>3, UnboundType DEF OwnedIn
        <5> QED
          BY <1>1, <1>2, <1>5, <2>1, <4>1, <4>2, <5>1 DEF MutexInv, MutexTypeOK
      <4>4. CASE ~mine[from].owns
        <5>1. OwnedIn(new) = OwnedIn(mine) \ {h}
          BY <1>1, <3>3, <4>4, UnboundType DEF OwnedIn
        <5> QED
          BY <1>1, <1>2, <1>5, <2>1, <4>1, <4>2, <5>1 DEF MutexInv, MutexTypeOK
      <4> QED
        BY <4>3, <4>4
    <3> QED
      BY <1>1, <1>5, <3>1, <3>2, <3>3
  <2> PICK g \in OwnedIn(mine) : OwnedIn(new) = OwnedIn(mine) \ {g}
    OBVIOUS
  <2>2. Cardinality(OwnedIn(new)) = Cardinality(OwnedIn(mine)) - 1
    BY OneLess
  <2>3. /\ handle' \in [Lockers -> [Handles -> Locks]] /\ handle'[t] = new
        /\ \A u \in Lockers \ {t} : handle'[u] = handle[u]
    BY HandlesSet DEF MutexInv
  <2>4. bare'[t] = bare[t] /\ Cardinality(OwnedIn(handle'[t])) = Cardinality(OwnedIn(mine)) - 1
    BY <2>1, <2>2, <2>3
  <2>5. M!Held(t)' = M!Held(t) - 1
    BY <1>1, <1>3, <2>4
  <2> QED
    BY <2>3, <2>5
<1> QED
  BY <1>4, <1>5

LEMMA UncountStep == ASSUME MutexInv, NEW t \in Lockers, M!Uncount(t) PROVE MutexInv'
<1>1. UNCHANGED <<kind, locked, owner>> /\ call[t].pc = "uncount" /\ owner = t /\ depth' = depth - 1
  BY DEF M!Uncount, M!At
<1>2. M!Held(t) \in Nat /\ M!Held(t) > 0 /\ Holds(t) /\ kind = "recursive" /\ kind' = kind /\ depth = M!Held(t)
  BY <1>1, HeldCounts DEF MutexInv, MutexTypeOK, Possession, Holds
<1>3. \A u \in Lockers \ {t} : ~Holds(u) /\ M!Held(u) = 0
  BY <1>2, HeldCounts DEF MutexInv, Possession, Holds
<1>4. CASE depth = 1
  <2>1. M!Goto(t, "disown") /\ UNCHANGED <<handle, bare>>
    BY <1>4 DEF M!Uncount
  <2>2. /\ call'[t].pc = "disown" /\ call'[t].h = call[t].h /\ call'[t].from = call[t].from
        /\ call'[t].next = call[t].next /\ call' \in [Lockers -> Calls]
        /\ \A u \in Lockers \ {t} : call'[u] = call[u]
    BY <2>1, Goes, Places1 DEF MutexInv
  <2>3. MutexTypeOK' /\ OthersRest(t)
    BY <1>1, <1>4, <2>1, <2>2 DEF MutexInv, MutexTypeOK, OthersRest
  <2>4. M!Held(t)' = M!Held(t)
    BY <2>1 DEF M!Held
  <2>5. CallControl(t)' /\ Holds(t)'
    BY <1>1, <1>2, <1>4, <2>1, <2>2, <2>4 DEF MutexInv, CallControl, Holds
  <2>6. \A u \in Lockers \ {t} :
           M!Held(u)' = M!Held(u) /\ (Holds(u)' <=> Holds(u)) /\ CallControl(u)' /\ call'[u] = call[u]
    BY <2>3, OthersKept DEF OthersRest
  <2>7. Possession'
    BY <1>1, <1>2, <1>3, <2>2, <2>4, <2>5, <2>6 DEF Possession, MutexInv
  <2> QED
    BY <2>3, <2>5, <2>6, <2>7 DEF MutexInv
<1>5. CASE depth # 1
  <2>1. M!Finish(t)
    BY <1>5 DEF M!Uncount
  <2>2. /\ handle' \in [Lockers -> [Handles -> Locks]] /\ bare' \in [Lockers -> Nat]
        /\ call' \in [Lockers -> Calls] /\ call'[t].pc = "idle"
        /\ \A u \in Lockers \ {t} : handle'[u] = handle[u] /\ bare'[u] = bare[u] /\ call'[u] = call[u]
        /\ M!Held(t)' = M!Held(t) - 1
    BY <1>1, <2>1, HoldsOneLess
  <2>3. MutexTypeOK' /\ OthersRest(t)
    BY <1>1, <1>2, <2>2 DEF MutexInv, MutexTypeOK, OthersRest
  <2>4. CallControl(t)' /\ Holds(t)' /\ depth' = M!Held(t)' /\ M!Held(t)' > 0
    BY <1>1, <1>2, <1>5, <2>2 DEF CallControl, Holds
  <2>5. \A u \in Lockers \ {t} :
           M!Held(u)' = M!Held(u) /\ (Holds(u)' <=> Holds(u)) /\ CallControl(u)' /\ call'[u] = call[u]
    BY <2>3, OthersKept DEF OthersRest
  <2>6. Possession'
    BY <1>1, <1>2, <1>3, <2>2, <2>4, <2>5 DEF Possession, MutexInv
  <2> QED
    BY <2>3, <2>4, <2>5, <2>6 DEF MutexInv
<1> QED
  BY <1>4, <1>5

LEMMA DisownStep == ASSUME MutexInv, NEW t \in Lockers, M!Disown(t) PROVE MutexInv'
<1>1. UNCHANGED <<kind, locked, depth, handle, bare>> /\ call[t].pc = "disown" /\ owner' = M!NoOwner
  BY DEF M!Disown, M!At
<1>2. /\ call'[t].pc = "free" /\ call'[t].h = call[t].h /\ call'[t].from = call[t].from
      /\ call'[t].next = call[t].next /\ call' \in [Lockers -> Calls]
      /\ \A u \in Lockers \ {t} : call'[u] = call[u]
  BY Goes, Places1 DEF M!Disown, MutexInv
<1>3. MutexTypeOK' /\ OthersRest(t)
  BY <1>1, <1>2 DEF MutexInv, MutexTypeOK, OthersRest
<1>4. M!Held(t)' = M!Held(t) /\ M!Held(t) = 1
  BY <1>1, CountsAlike DEF M!Held, MutexInv, CallControl
<1>5. kind = "recursive" /\ Holds(t)
  BY <1>1, <1>4 DEF MutexInv, MutexTypeOK, CallControl, Holds
<1>6. CallControl(t)' /\ Holds(t)'
  BY <1>1, <1>2, <1>4, <1>5 DEF MutexInv, CallControl, Holds
<1>7. \A u \in Lockers \ {t} :
         M!Held(u)' = M!Held(u) /\ (Holds(u)' <=> Holds(u)) /\ CallControl(u)' /\ call'[u] = call[u]
  BY <1>3, OthersKept DEF OthersRest
<1>8. \A u \in Lockers \ {t} : ~Holds(u) /\ M!Held(u) = 0
  BY <1>5, HeldCounts DEF MutexInv, Possession, Holds
<1>9. Possession'
  <2>1. \A u \in Lockers : owner' # u
    BY <1>1, MutexFacts
  <2> QED
    BY <1>1, <1>2, <1>4, <1>5, <1>6, <1>7, <1>8, <2>1 DEF Possession, MutexInv
<1> QED
  BY <1>3, <1>6, <1>7, <1>9 DEF MutexInv

LEMMA FreeStep == ASSUME MutexInv, NEW t \in Lockers, M!Free(t) PROVE MutexInv'
<1>1. UNCHANGED <<kind, owner, depth>> /\ call[t].pc = "free" /\ locked' = FALSE
  BY DEF M!Free, M!At
<1>2. /\ handle' \in [Lockers -> [Handles -> Locks]] /\ bare' \in [Lockers -> Nat]
      /\ call' \in [Lockers -> Calls] /\ call'[t].pc = "idle"
      /\ \A u \in Lockers \ {t} : handle'[u] = handle[u] /\ bare'[u] = bare[u] /\ call'[u] = call[u]
      /\ M!Held(t)' = M!Held(t) - 1
  BY <1>1, HoldsOneLess DEF M!Free
<1>3. MutexTypeOK' /\ OthersRest(t)
  BY <1>1, <1>2 DEF MutexInv, MutexTypeOK, OthersRest
<1>4. M!Held(t) = 1
  BY <1>1 DEF MutexInv, CallControl
<1>5. M!Held(t)' = 0 /\ Holds(t) /\ ~Holds(t)'
  BY <1>2, <1>4 DEF Holds
<1>6. CallControl(t)'
  BY <1>2, <1>5 DEF CallControl
<1>7. \A u \in Lockers \ {t} :
         M!Held(u)' = M!Held(u) /\ (Holds(u)' <=> Holds(u)) /\ CallControl(u)' /\ call'[u] = call[u]
  BY <1>3, OthersKept DEF OthersRest
<1>8. \A u \in Lockers \ {t} : ~Holds(u) /\ M!Held(u) = 0
  BY <1>5, HeldCounts DEF MutexInv, Possession, Holds
<1>9. Possession'
  <2>1. \A u \in Lockers : ~Holds(u)' /\ M!Held(u)' = 0 /\ owner' # u
    BY <1>1, <1>5, <1>7, <1>8 DEF MutexInv, Possession
  <2> QED
    BY <1>1, <2>1 DEF Possession
<1> QED
  BY <1>3, <1>6, <1>7, <1>9 DEF MutexInv

-----------------------------------------------------------------------------
(* What a handle does without the mutex                                    *)

LEMMA HandledStep ==
    ASSUME MutexInv, NEW t \in Lockers, NEW mine \in [Handles -> Locks], M!Handled(t, mine),
           bare' \in [Lockers -> Nat], \A u \in Lockers \ {t} : bare'[u] = bare[u],
           bare'[t] + Cardinality(OwnedIn(mine)) = bare[t] + Cardinality(OwnedIn(handle[t]))
    PROVE  MutexInv'
<1>1. /\ UNCHANGED <<kind, locked, owner, depth, call>> /\ call[t].pc = "idle"
      /\ handle' \in [Lockers -> [Handles -> Locks]] /\ handle'[t] = mine
      /\ \A u \in Lockers \ {t} : handle'[u] = handle[u]
  BY HandlesSet DEF M!Handled, M!At, MutexInv
<1>2. MutexTypeOK' /\ OthersRest(t)
  BY <1>1 DEF MutexInv, MutexTypeOK, OthersRest
<1>3. M!Held(t)' = M!Held(t) /\ M!Held(t) \in Nat
  BY <1>1, HeldCounts, CountsAlike DEF M!Held, OwnedIn, MutexInv
<1>4. CallControl(t)'
  BY <1>1, <1>3 DEF MutexInv, CallControl
<1> QED
  BY <1>1, <1>2, <1>3, <1>4, NothingChangesHands

LEMMA BindStep ==
    ASSUME MutexInv, NEW t \in Lockers, NEW h \in Handles, M!Bind(t, h) PROVE MutexInv'
<1> DEFINE one == [handle[t][h] EXCEPT !.bound = TRUE]
           mine == [handle[t] EXCEPT ![h] = one]
<1>1. handle[t] \in [Handles -> Locks] /\ bare' = bare /\ bare \in [Lockers -> Nat]
  BY DEF M!Bind, MutexInv, MutexTypeOK
<1>2. one \in Locks /\ one.owns = handle[t][h].owns
  BY <1>1 DEF Locks
<1>3. M!Handled(t, mine)
  BY DEF M!Bind
<1> HIDE DEF one
<1>4. mine \in [Handles -> Locks] /\ OwnedIn(mine) = OwnedIn(handle[t])
  BY <1>1, <1>2 DEF OwnedIn
<1> HIDE DEF mine
<1> QED
  BY <1>1, <1>3, <1>4, HandledStep

LEMMA AdoptStep ==
    ASSUME MutexInv, NEW t \in Lockers, NEW h \in Handles, M!Adopt(t, h) PROVE MutexInv'
<1> DEFINE one == [bound |-> TRUE, owns |-> TRUE]
           mine == [handle[t] EXCEPT ![h] = one]
<1>1. /\ handle[t] \in [Handles -> Locks] /\ ~handle[t][h].owns
      /\ bare' = [bare EXCEPT ![t] = @ - 1] /\ bare[t] > 0 /\ M!Handled(t, mine)
  BY UnboundType DEF M!Adopt, MutexInv, MutexTypeOK
<1>2. bare' \in [Lockers -> Nat] /\ bare'[t] = bare[t] - 1 /\ \A u \in Lockers \ {t} : bare'[u] = bare[u]
  BY <1>1 DEF MutexInv, MutexTypeOK
<1>3. one \in Locks /\ one.owns
  BY DEF Locks
<1> HIDE DEF one
<1>4. mine \in [Handles -> Locks] /\ OwnedIn(mine) = OwnedIn(handle[t]) \cup {h}
  BY <1>1, <1>3 DEF OwnedIn
<1> HIDE DEF mine
<1>5. Cardinality(OwnedIn(mine)) = Cardinality(OwnedIn(handle[t])) + 1
  BY <1>1, <1>4, OneMore
<1>6. bare'[t] + Cardinality(OwnedIn(mine)) = bare[t] + Cardinality(OwnedIn(handle[t]))
  BY <1>2, <1>5, HeldCounts DEF MutexInv
<1> QED
  BY <1>1, <1>2, <1>4, <1>6, HandledStep

LEMMA ReleaseStep ==
    ASSUME MutexInv, NEW t \in Lockers, NEW h \in Handles, M!Release(t, h) PROVE MutexInv'
<1> DEFINE mine == [handle[t] EXCEPT ![h] = M!Unbound]
<1>1. /\ handle[t] \in [Handles -> Locks] /\ M!Handled(t, mine)
      /\ bare' = IF handle[t][h].owns THEN [bare EXCEPT ![t] = @ + 1] ELSE bare
  BY DEF M!Release, MutexInv, MutexTypeOK
<1>2. mine \in [Handles -> Locks]
  BY <1>1, UnboundType
<1>3. CASE handle[t][h].owns
  <2>1. OwnedIn(mine) = OwnedIn(handle[t]) \ {h} /\ h \in OwnedIn(handle[t])
    BY <1>1, <1>3, UnboundType DEF OwnedIn
  <2> HIDE DEF mine
  <2>2. Cardinality(OwnedIn(mine)) = Cardinality(OwnedIn(handle[t])) - 1
    BY <2>1, OneLess
  <2>3. bare' \in [Lockers -> Nat] /\ bare'[t] = bare[t] + 1 /\ \A u \in Lockers \ {t} : bare'[u] = bare[u]
    BY <1>1, <1>3 DEF MutexInv, MutexTypeOK
  <2>4. bare'[t] + Cardinality(OwnedIn(mine)) = bare[t] + Cardinality(OwnedIn(handle[t]))
    BY <2>2, <2>3, HeldCounts DEF MutexInv
  <2> QED
    BY <1>1, <1>2, <2>3, <2>4, HandledStep
<1>4. CASE ~handle[t][h].owns
  <2>1. OwnedIn(mine) = OwnedIn(handle[t])
    BY <1>1, <1>4, UnboundType DEF OwnedIn
  <2> HIDE DEF mine
  <2>2. bare' = bare /\ bare \in [Lockers -> Nat]
    BY <1>1, <1>4 DEF MutexInv, MutexTypeOK
  <2> QED
    BY <1>1, <1>2, <2>1, <2>2, HandledStep
<1> QED
  BY <1>3, <1>4

LEMMA MoveStep ==
    ASSUME MutexInv, NEW t \in Lockers, NEW h \in Handles, NEW g \in Handles, M!Move(t, h, g) PROVE MutexInv'
<1> DEFINE mine == [handle[t] EXCEPT ![h] = handle[t][g], ![g] = M!Unbound]
<1>1. /\ handle[t] \in [Handles -> Locks] /\ M!Handled(t, mine) /\ bare' = bare /\ bare \in [Lockers -> Nat]
      /\ h # g /\ ~handle[t][h].owns
  BY DEF M!Move, MutexInv, MutexTypeOK
<1>2. mine \in [Handles -> Locks]
  BY <1>1, UnboundType
<1>3. Cardinality(OwnedIn(mine)) = Cardinality(OwnedIn(handle[t]))
  <2>1. CASE handle[t][g].owns
    <3>1. g \in OwnedIn(handle[t]) /\ OwnedIn(mine) = (OwnedIn(handle[t]) \ {g}) \cup {h}
      BY <1>1, <2>1, UnboundType DEF OwnedIn
    <3> HIDE DEF mine
    <3> QED
      BY <1>1, <3>1, OneInstead
  <2>2. CASE ~handle[t][g].owns
    <3>1. OwnedIn(mine) = OwnedIn(handle[t])
      BY <1>1, <2>2, UnboundType DEF OwnedIn
    <3> QED
      BY <3>1
  <2> QED
    BY <2>1, <2>2
<1> HIDE DEF mine
<1> QED
  BY <1>1, <1>2, <1>3, HandledStep

LEMMA SwapStep ==
    ASSUME MutexInv, NEW t \in Lockers, NEW h \in Handles, NEW g \in Handles, M!Swap(t, h, g) PROVE MutexInv'
<1> DEFINE mine == [handle[t] EXCEPT ![h] = handle[t][g], ![g] = handle[t][h]]
<1>1. handle[t] \in [Handles -> Locks] /\ M!Handled(t, mine) /\ bare' = bare /\ bare \in [Lockers -> Nat]
  BY DEF M!Swap, MutexInv, MutexTypeOK
<1>2. mine \in [Handles -> Locks]
  BY <1>1
<1>3. Cardinality(OwnedIn(mine)) = Cardinality(OwnedIn(handle[t]))
  <2>1. ASSUME NEW x \in Handles, NEW y \in Handles, handle[t][x].owns, ~handle[t][y].owns, {x, y} = {h, g}
        PROVE  Cardinality(OwnedIn(mine)) = Cardinality(OwnedIn(handle[t]))
    <3>1. x \in OwnedIn(handle[t]) /\ OwnedIn(mine) = (OwnedIn(handle[t]) \ {x}) \cup {y}
      BY <1>1, <2>1 DEF OwnedIn
    <3> HIDE DEF mine
    <3> QED
      BY <2>1, <3>1, OneInstead
  <2>2. CASE handle[t][h].owns <=> handle[t][g].owns
    <3>1. OwnedIn(mine) = OwnedIn(handle[t])
      BY <1>1, <2>2 DEF OwnedIn
    <3> QED
      BY <3>1
  <2> QED
    BY <2>1, <2>2
<1> HIDE DEF mine
<1> QED
  BY <1>1, <1>2, <1>3, HandledStep

-----------------------------------------------------------------------------
LEMMA MutexBegins == M!Init => MutexInv
<1> SUFFICES ASSUME M!Init PROVE MutexInv
  OBVIOUS
<1>1. M!SomeHandle \in Handles
  BY MutexFacts DEF M!SomeHandle
<1>2. M!Idle \in Calls /\ M!Idle.pc = "idle"
  BY <1>1 DEF M!Idle, Calls, Places
<1>3. MutexTypeOK
  BY <1>2, MutexFacts, UnboundType DEF M!Init, MutexTypeOK
<1>4. \A t \in Lockers : M!Held(t) = 0 /\ call[t].pc = "idle"
  <2> SUFFICES ASSUME NEW t \in Lockers PROVE M!Held(t) = 0 /\ call[t].pc = "idle"
    OBVIOUS
  <2>1. OwnedIn(handle[t]) = {}
    BY UnboundType DEF M!Init, OwnedIn
  <2>2. Cardinality(OwnedIn(handle[t])) = 0
    BY <2>1, FS_EmptySet
  <2> QED
    BY <1>2, <1>3, <2>2, HeldCounts DEF M!Init
<1>5. \A t \in Lockers : CallControl(t) /\ ~Holds(t)
  BY <1>4 DEF CallControl, Holds
<1>6. Possession
  BY <1>4, <1>5, MutexFacts DEF M!Init, Possession
<1> QED
  BY <1>3, <1>5, <1>6 DEF MutexInv

LEMMA MutexStep == ASSUME MutexInv, [M!Next]_(M!vars) PROVE MutexInv'
<1>1. CASE UNCHANGED M!vars
  <2>1. \A t \in Lockers : M!Held(t)' = M!Held(t) /\ (Holds(t)' <=> Holds(t))
    BY <1>1, CountsAlike DEF M!vars, M!Held, Holds
  <2>2. MutexTypeOK' /\ \A t \in Lockers : CallControl(t)'
    BY <1>1, <2>1 DEF M!vars, MutexInv, MutexTypeOK, CallControl
  <2>3. Possession'
    BY <1>1, <2>1 DEF M!vars, MutexInv, Possession
  <2> QED
    BY <2>2, <2>3 DEF MutexInv
<1>2. ASSUME NEW t \in Lockers, NEW h \in Handles, NEW next \in {"keep", "destroy"},
             handle[t][h].owns, M!Unlock(t, h, next, h)
      PROVE  MutexInv'
  BY <1>2, UnlockStep
<1>3. ASSUME NEW t \in Lockers, NEW h \in Handles, NEW g \in Handles \ {h},
             handle[t][h].owns, M!Unlock(t, h, "move", g)
      PROVE  MutexInv'
  BY <1>3, UnlockStep
<1>4. ASSUME NEW t \in Lockers, bare[t] > 0, M!Unlock(t, M!SomeHandle, "bare", M!SomeHandle)
      PROVE  MutexInv'
  BY <1>4, UnlockStep, MutexFacts DEF M!SomeHandle
<1> QED
  BY <1>1, <1>2, <1>3, <1>4, BeginStep, BindStep, AdoptStep, ReleaseStep, MoveStep, SwapStep,
     ReenterStep, NotOwnerStep, ExchangeStep, ContendedStep, SpinStep, LookStep, OwnStep,
     CountStep, UncountStep, DisownStep, FreeStep DEF M!Next

LEMMA MutexExcludes == MutexInv => M!LocksExclude
<1> SUFFICES ASSUME MutexInv PROVE M!LocksExclude
  OBVIOUS
<1>1. \A t \in Lockers : M!Held(t) \in Nat
  BY HeldCounts DEF MutexInv
<1>2. \A t \in Lockers : M!Held(t) > 0 =>
        /\ locked
        /\ \A u \in Lockers \ {t} : M!Held(u) = 0
        /\ kind = "recursive" /\ call[t].pc = "idle" => owner = t /\ depth = M!Held(t)
  BY <1>1 DEF MutexInv, Possession, Holds
<1>3. (\A t \in Lockers : M!Held(t) = 0 /\ call[t].pc = "idle") => ~locked /\ owner = M!NoOwner
  BY DEF MutexInv, MutexTypeOK, Possession, Holds
<1> QED
  BY <1>2, <1>3 DEF M!LocksExclude, M!At

-----------------------------------------------------------------------------
(* The platform                                                            *)

\* An inner frame was opened with interrupts off, the outermost with the state of the start.
FramesRestore ==
    /\ frames = <<>> => enabled = startedEnabled
    /\ frames # <<>> => ~enabled /\ frames[1].saved = startedEnabled
    /\ \A i \in 2 .. Len(frames) : ~frames[i].saved

PlatformInv == P!TypeOK /\ FramesRestore

LEMMA Opening == ASSUME PlatformInv, NEW k \in {"guard", "handler"}, P!Opens(k) PROVE PlatformInv'
<1> DEFINE f == [kind |-> k, saved |-> enabled]
           n == Len(frames)
<1>1. frames \in Seq(P!Frames) /\ enabled \in BOOLEAN
  BY DEF PlatformInv, P!TypeOK
<1>2. f \in P!Frames /\ f.saved = enabled
  BY <1>1 DEF P!Frames
<1>3. frames' = Append(frames, f) /\ enabled' = FALSE /\ UNCHANGED <<machine, topology, startedEnabled>>
  BY DEF P!Opens
<1> HIDE DEF f
<1>4. frames' \in Seq(P!Frames) /\ Len(frames') = n + 1 /\ n \in Nat
  BY <1>1, <1>2, <1>3
<1>5. /\ \A i \in 1 .. n : frames'[i] = frames[i]
      /\ frames'[n + 1] = f
  BY <1>1, <1>2, <1>3
<1>6. P!TypeOK'
  BY <1>3, <1>4 DEF PlatformInv, P!TypeOK
<1>7. frames' # <<>> /\ (frames = <<>> <=> n = 0)
  BY <1>1, <1>4
<1>8. FramesRestore
  BY DEF PlatformInv
<1> HIDE DEF n
<1>9. ASSUME NEW i \in 2 .. n + 1 PROVE ~frames'[i].saved
  BY <1>2, <1>4, <1>5, <1>7, <1>8 DEF FramesRestore, n
<1>10. frames'[1].saved = startedEnabled
  <2>1. CASE n = 0
    BY <2>1, <1>2, <1>5, <1>7, <1>8 DEF FramesRestore
  <2>2. CASE n > 0
    BY <2>2, <1>4, <1>5, <1>7, <1>8 DEF FramesRestore
  <2> QED
    BY <2>1, <2>2, <1>4
<1>11. FramesRestore'
  BY <1>3, <1>4, <1>7, <1>9, <1>10 DEF FramesRestore
<1> QED
  BY <1>6, <1>11 DEF PlatformInv

LEMMA Closing == ASSUME PlatformInv, NEW k \in {"guard", "handler"}, P!Closes(k) PROVE PlatformInv'
<1> DEFINE n == Len(frames)
<1>1. frames \in Seq(P!Frames) /\ enabled \in BOOLEAN /\ n \in Nat
  BY DEF PlatformInv, P!TypeOK
<1>2. frames # <<>> /\ enabled' = frames[n].saved /\ frames' = SubSeq(frames, 1, n - 1)
      /\ UNCHANGED <<machine, topology, startedEnabled>>
  BY DEF P!Closes, P!RestoreInterrupts, P!Last, P!Front
<1>3. n >= 1
  BY <1>1, <1>2
<1>4. frames[n] \in P!Frames
  BY <1>1, <1>3
<1>5. frames' \in Seq(P!Frames) /\ Len(frames') = n - 1 /\ \A i \in 1 .. n - 1 : frames'[i] = frames[i]
  <2>1. \A i \in 1 .. n - 1 : frames[i] \in P!Frames
    BY <1>1
  <2> HIDE DEF n
  <2>2. /\ SubSeq(frames, 1, n - 1) \in Seq(P!Frames)
        /\ Len(SubSeq(frames, 1, n - 1)) = IF 1 <= n - 1 THEN n - 1 - 1 + 1 ELSE 0
        /\ \A i \in 1 .. n - 1 - 1 + 1 : SubSeq(frames, 1, n - 1)[i] = frames[1 + i - 1]
    BY <1>1, <2>1, SubSeqProperties
  <2> QED
    BY <1>1, <1>2, <1>3, <2>2
<1>9. P!TypeOK'
  BY <1>2, <1>4, <1>5 DEF PlatformInv, P!TypeOK, P!Frames
<1>10. FramesRestore /\ (frames' = <<>> <=> n = 1)
  BY <1>3, <1>1, <1>5 DEF PlatformInv
<1> HIDE DEF n
<1>11. CASE n = 1
  <2>1. frames' = <<>> /\ enabled' = startedEnabled'
    BY <1>2, <1>10, <1>11 DEF FramesRestore
  <2> QED
    BY <2>1, <1>5, <1>9, <1>11 DEF FramesRestore, PlatformInv
<1>12. CASE n # 1
  <2>1. frames' # <<>> /\ ~enabled'
    BY <1>1, <1>2, <1>3, <1>10, <1>12 DEF FramesRestore, n
  <2>2. frames'[1].saved = startedEnabled'
    BY <1>1, <1>2, <1>3, <1>5, <1>10, <1>12 DEF FramesRestore
  <2>3. \A i \in 2 .. n - 1 : ~frames'[i].saved
    BY <1>1, <1>5, <1>10 DEF FramesRestore, n
  <2> QED
    BY <2>1, <2>2, <2>3, <1>5, <1>9 DEF FramesRestore, PlatformInv
<1> QED
  BY <1>9, <1>11, <1>12 DEF PlatformInv

LEMMA PlatformBegins == P!Init => PlatformInv
  BY PlatformSizes DEF P!MachinesAssumption, P!Init, PlatformInv, P!TypeOK, FramesRestore

LEMMA PlatformStep == PlatformInv /\ [P!Next]_(P!vars) => PlatformInv'
<1> SUFFICES ASSUME PlatformInv, [P!Next]_(P!vars) PROVE PlatformInv'
  OBVIOUS
<1>1. CASE UNCHANGED P!vars
  BY <1>1 DEF P!vars, PlatformInv, P!TypeOK, FramesRestore
<1> QED
  BY <1>1, Opening, Closing
     DEF P!Next, P!DisableInterrupts, P!DestroyGuard, P!TakeInterrupt, P!ReturnFromHandler

LEMMA NumberOf ==
    ASSUME NEW m \in Machines, NEW c \in m.cores, NEW t \in (IF m.multithreaded THEN {0, 1} ELSE {0})
    PROVE  P!CpuIdFromMpidr(P!Mpidr(m, c, t)) = c[2] + c[1] * 256
<1>1. PICK a \in P!Bytes, b \in P!Bytes : c = <<a, b>>
  BY PlatformSizes DEF P!MachinesAssumption, P!MachinesAssumption
<1>2. m.multithreaded \in BOOLEAN /\ a \in 0..255 /\ b \in 0..255
  BY PlatformSizes DEF P!MachinesAssumption, P!MachinesAssumption, P!Bytes
<1>3. CASE m.multithreaded
  <2> DEFINE w == 16777216 + a * 65536 + b * 256 + t
  <2>1. t \in {0, 1}
    BY <1>3
  <2>2. (w \div 16777216) % 2 # 0 /\ (w \div 256) % 256 = b /\ (w \div 65536) % 256 = a
    BY <1>2, <2>1
  <2>3. P!Mpidr(m, c, t) = w
    BY <1>1, <1>3 DEF P!Mpidr
  <2> QED
    BY <1>1, <2>2, <2>3 DEF P!CpuIdFromMpidr, P!Byte
<1>4. CASE ~m.multithreaded
  <2> DEFINE w == a * 256 + b
  <2>1. (w \div 16777216) % 2 = 0 /\ (w \div 256) % 256 = a /\ (w \div 1) % 256 = b
    BY <1>2
  <2>2. P!Mpidr(m, c, t) = w
    BY <1>1, <1>4 DEF P!Mpidr
  <2> QED
    BY <1>1, <2>1, <2>2 DEF P!CpuIdFromMpidr, P!Byte
<1> QED
  BY <1>2, <1>3, <1>4

\* A nonempty set of naturals has a least member.
LEMMA LeastNatural ==
    ASSUME NEW T, T \subseteq Nat, T # {}
    PROVE  \E m \in T : \A n \in T : m <= n
<1> DEFINE R == OpToRel(<, Nat)
<1>1. \A m, n \in T : n < m => <<n, m>> \in R
  BY DEF OpToRel
<1>2. IsWellFoundedOn(R, Nat)
  BY NatLessThanWellFounded
<1> HIDE DEF R
<1>3. \E m \in T : \A n \in T : ~(<<n, m>> \in R)
  BY <1>2, WFMin
<1>4. \A m, n \in T : m \in Int /\ n \in Int /\ (m <= n \/ n < m)
  OBVIOUS
<1> QED
  BY <1>1, <1>3, <1>4, Zenon

LEMMA Counted == ASSUME NEW t \in Topologies PROVE P!GetCpuCount(t) >= 1
<1> DEFINE n == Len(t.levels)
           core == P!CoreLevel(t.levels)
           count == IF core = {} THEN 0 ELSE t.levels[P!Min(core)][2]
<1>1. t.logical \in Nat /\ t.levels \in Seq(Nat \X Nat) /\ n \in Nat
  BY PlatformSizes DEF P!MachinesAssumption, P!MachinesAssumption
<1>2. P!Min({8, n}) = IF n <= 8 THEN n ELSE 8
  BY <1>1 DEF P!Min
<1>3. \A i \in core : i \in 1 .. n
  BY <1>1, <1>2 DEF P!CoreLevel
<1> HIDE DEF core
<1>4. ASSUME core # {} PROVE P!Min(core) \in core
  <2>1. core \subseteq Nat
    BY <1>1, <1>3
  <2>2. PICK i \in core : \A j \in core : i <= j
    BY <1>4, <2>1, LeastNatural
  <2> QED
    BY <2>2 DEF P!Min
<1>5. ASSUME core # {} PROVE t.levels[P!Min(core)] \in Nat \X Nat
  BY <1>1, <1>3, <1>4, <1>5
<1>6. count \in Nat
  BY <1>5
<1> QED
  BY <1>1, <1>6 DEF P!GetCpuCount, core

LEMMA BackOff ==
    ASSUME NEW unit \in Nat, NEW r \in Nat
    PROVE  P!SpinCount(r, unit) \in unit .. P!SpinCount(r + 1, unit) /\ P!SpinCount(r, unit) <= 257 * unit
<1>1. P!Min({r, 256}) = IF r <= 256 THEN r ELSE 256
  BY DEF P!Min
<1>2. P!Min({r + 1, 256}) = IF r + 1 <= 256 THEN r + 1 ELSE 256
  BY DEF P!Min
<1> QED
  BY <1>1, <1>2 DEF P!SpinCount

LEMMA Told == PlatformInv => P!CpusAreTold /\ P!GuardsHold
<1> SUFFICES ASSUME PlatformInv PROVE P!CpusAreTold /\ P!GuardsHold
  OBVIOUS
<1>1. P!GuardsHold
  BY DEF PlatformInv, P!TypeOK, FramesRestore, P!GuardsHold
<1>2. ASSUME NEW c \in machine.cores, NEW d \in machine.cores,
             NEW t \in (IF machine.multithreaded THEN {0, 1} ELSE {0}),
             NEW u \in (IF machine.multithreaded THEN {0, 1} ELSE {0})
      PROVE  (P!CpuIdFromMpidr(P!Mpidr(machine, c, t)) = P!CpuIdFromMpidr(P!Mpidr(machine, d, u))) = (c = d)
  <2>1. /\ P!CpuIdFromMpidr(P!Mpidr(machine, c, t)) = c[2] + c[1] * 256
        /\ P!CpuIdFromMpidr(P!Mpidr(machine, d, u)) = d[2] + d[1] * 256
    BY NumberOf DEF P!MachinesAssumption, PlatformInv, P!TypeOK
  <2>2. PICK a \in P!Bytes, b \in P!Bytes : c = <<a, b>>
    BY PlatformSizes DEF P!MachinesAssumption, PlatformInv, P!TypeOK
  <2>3. PICK e \in P!Bytes, f \in P!Bytes : d = <<e, f>>
    BY PlatformSizes DEF P!MachinesAssumption, PlatformInv, P!TypeOK
  <2>4. b + a * 256 = f + e * 256 <=> a = e /\ b = f
    BY <2>2, <2>3 DEF P!Bytes
  <2> QED
    BY <2>1, <2>2, <2>3, <2>4
<1>3. P!GetCpuCount(topology) >= 1
  BY Counted DEF PlatformInv, P!TypeOK
<1>4. \A unit \in {2, 32}, r \in {0, 1, 255, 256, 257, 100000} :
          P!SpinCount(r, unit) \in unit..P!SpinCount(r + 1, unit) /\ P!SpinCount(r, unit) <= 257 * unit
  <2> SUFFICES ASSUME NEW unit \in {2, 32}, NEW r \in {0, 1, 255, 256, 257, 100000}
               PROVE  P!SpinCount(r, unit) \in unit..P!SpinCount(r + 1, unit) /\ P!SpinCount(r, unit) <= 257 * unit
    OBVIOUS
  <2>1. unit \in Nat /\ r \in Nat
    OBVIOUS
  <2> QED
    BY <2>1, BackOff
<1> QED
  BY <1>1, <1>2, <1>3, <1>4 DEF P!CpusAreTold

-----------------------------------------------------------------------------
(* The specification of the run                                            *)


Inv == IInv /\ TokenInv /\ LatestInv /\ MutexInv /\ PlatformInv

LEMMA AllBegin == AllInit => Inv
  BY Begins, TokensBegin, LatestBegins, LatestSizes, MutexBegins, PlatformBegins DEF AllInit, Inv

\* The invariants look at the variables of their own class only.
LEMMA AllStep == Inv /\ [AllNext]_allVars => Inv'
<1> SUFFICES ASSUME Inv, [AllNext]_allVars PROVE Inv'
  OBVIOUS
<1>1. [Next]_vars
  BY DEF AllNext, allVars
<1>2. [D!Next]_(D!vars)
  BY DEF AllNext, allVars, dVars, D!vars
<1>3. [L!Next]_(L!vars)
  BY DEF AllNext, allVars, lVars, L!vars, L!slotVars, L!writerVars, L!readerVars
<1>4. [M!Next]_(M!vars)
  BY DEF AllNext, allVars, mVars, M!vars
<1>5. [P!Next]_(P!vars)
  BY DEF AllNext, allVars, pVars, P!vars
<1>6. IInv'
  BY <1>1, NextStep DEF Inv
<1>7. TokenInv'
  BY <1>2, TokensStep DEF Inv
<1>8. LatestInv'
  BY <1>3, StepTypes, StepWriters, StepReaders, LatestSizes DEF Inv, LatestInv
<1>9. MutexInv'
  BY <1>4, MutexStep DEF Inv
<1>10. PlatformInv'
  BY <1>5, PlatformStep DEF Inv
<1> QED
  BY <1>6, <1>7, <1>8, <1>9, <1>10 DEF Inv

\* The five invariants hold in every state of every behaviour.
THEOREM Invariance == AllSpec => []Inv
  BY AllBegin, AllStep, PTL DEF AllSpec

\* A token is never out twice, and its bit is set exactly while somebody holds it: get_token and
\* release_token, for any number of threads and tokens, wherever the counter wraps.
THEOREM TokensAreHeldOnce == AllSpec => []TokensHeldOnce
<1>1. Inv => TokensHeldOnce
  BY DEF Inv, TokenInv, TokensHeldOnce
<1> QED
  BY <1>1, Invariance, PTL

\* A load returns the whole of one value (the loop of load), which was current at some moment
\* while it ran, as long as no reader is stalled over a whole turn of the sequence numbers.
THEOREM LoadsAreLinearizable == AllSpec => []LoadIsLinearizable
<1>1. Inv => LoadIsLinearizable
  BY DEF Inv, LatestInv, LoadIsLinearizable
<1> QED
  BY <1>1, Invariance, PTL

\* A mutex has one holder, who can enter again, and is free when nobody holds it, through any
\* moves of the handles (spin_mutex, recursive_spin_mutex, unique_lock); CPUs are told apart, and
\* no interrupt is taken while a guard lives (get_cpu_id, basic_interrupt_guard).
THEOREM SectionsAreExclusive == AllSpec => []SectionsExclude
<1>1. Inv => SectionsExclude
  BY MutexExcludes, Told DEF Inv, SectionsExclude
<1> QED
  BY <1>1, Invariance, PTL

\* put_element and get_element implement the exchange: an element passes from one caller to the
\* other in one moment, for any number of threads and slots.
THEOREM ElementsAreExchanged == AllSpec => ElementsPassOnce
<1>1. AllInit => X!ExchangeInit
  BY Begins DEF AllInit
<1>2. Inv /\ [AllNext]_allVars => [X!ExchangeNext]_(X!exchangeVars)
  <2> SUFFICES ASSUME Inv, [AllNext]_allVars PROVE [X!ExchangeNext]_(X!exchangeVars)
    OBVIOUS
  <2>1. [Next]_vars
    BY DEF AllNext, allVars
  <2> QED
    BY <2>1, NextStep DEF Inv, Step
<1>3. Inv => TypeOK
  BY DEF Inv, IInv
<1> QED
  BY <1>1, <1>2, <1>3, Invariance, PTL
     DEF AllSpec, ElementsPassOnce, ImplementsExchange, X!ExchangeSpec
=============================================================================
