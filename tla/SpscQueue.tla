----------------------------- MODULE SpscQueue -----------------------------
(***************************************************************************)
(* spsc_queue: a ring of slots, one index moved by the producer, the other *)
(* by the consumer.  An element is constructed before write_index_ passes  *)
(* it and destroyed before read_index_ does; one slot stays empty.         *)
(***************************************************************************)
EXTENDS Integers, Sequences

CONSTANTS
    Size,                   \* size_: slots of the buffer
    Values

ASSUME SizeAssumption == Size \in Nat /\ Size >= 2

ASSUME ValuesAssumption == Values \subseteq Nat \ {0}

Slots == 0 .. Size - 1

\* A slot that holds no object; the consumer that has popped nothing yet.
Raw == 0

VARIABLES
    readIndex, writeIndex,
    elements,               \* what each slot of elements_ holds
    ppc, value,             \* the producer: where it is, what it pushes
    cpc, keep,              \* the consumer: where it is, whether it wants the element
    out,                    \* what it moved from the slot
    gone,                   \* history: the element it destroys
    got,                    \* what its last pop_front returned
    epc, writeSeen, estimate,  \* a thread in size_estimate
    alive                   \* the queue has not been destroyed

vars == <<readIndex, writeIndex, elements, ppc, value, cpc, keep, out, gone, got,
          epc, writeSeen, estimate, alive>>
producerVars == <<writeIndex, ppc, value>>
consumerVars == <<readIndex, cpc, keep, out, gone, got>>
estimateVars == <<epc, writeSeen, estimate>>

Init ==
    /\ readIndex = 0 /\ writeIndex = 0
    /\ elements = [i \in Slots |-> Raw]
    /\ ppc = "idle" /\ value = Raw
    /\ cpc = "idle" /\ keep = TRUE /\ out = Raw /\ gone = Raw /\ got = Raw
    /\ epc = "idle" /\ writeSeen = 0 /\ estimate = 0
    /\ alive = TRUE

Succ(i) == IF i + 1 = Size THEN 0 ELSE i + 1

-----------------------------------------------------------------------------
\* push_back

\* The load of read_index_ that decides: the queue full or room for one more.
IsFull(next) == next = readIndex

PushBegin ==
    /\ alive /\ ppc = "idle" /\ ~IsFull(Succ(writeIndex))
    /\ \E v \in Values : value' = v
    /\ ppc' = "construct"
    /\ UNCHANGED <<writeIndex, consumerVars, elements, estimateVars, alive>>

Construct ==
    /\ ppc = "construct"
    /\ elements' = [elements EXCEPT ![writeIndex] = value]
    /\ ppc' = "publish"
    /\ UNCHANGED <<writeIndex, value, consumerVars, estimateVars, alive>>

Publish ==
    /\ ppc = "publish"
    /\ writeIndex' = Succ(writeIndex)
    /\ ppc' = "idle" /\ value' = Raw
    /\ UNCHANGED <<consumerVars, elements, estimateVars, alive>>

-----------------------------------------------------------------------------
\* pop_front (keep) and popFront (~keep).  front() reads the slot at read_index_
\* and changes nothing.

PopBegin ==
    /\ alive /\ cpc = "idle" /\ readIndex # writeIndex
    /\ keep' \in BOOLEAN
    /\ cpc' = IF keep' THEN "move" ELSE "destroy"
    /\ UNCHANGED <<readIndex, out, gone, got, producerVars, elements, estimateVars, alive>>

Move ==
    /\ cpc = "move"
    /\ out' = elements[readIndex]
    /\ cpc' = "destroy"
    /\ UNCHANGED <<readIndex, keep, gone, got, producerVars, elements, estimateVars, alive>>

DestroyNever(i) == elements' = elements

DestroyElement(i) == elements' = [elements EXCEPT ![i] = Raw]

DestroyFront ==
    /\ cpc = "destroy"
    /\ DestroyElement(readIndex)
    /\ gone' = elements[readIndex]
    /\ cpc' = "release"
    /\ UNCHANGED <<readIndex, keep, out, got, producerVars, estimateVars, alive>>

Release ==
    /\ cpc = "release"
    /\ readIndex' = Succ(readIndex)
    /\ got' = IF keep THEN out ELSE got
    /\ out' = Raw /\ gone' = Raw /\ cpc' = "idle" /\ keep' = TRUE
    /\ UNCHANGED <<producerVars, elements, estimateVars, alive>>

-----------------------------------------------------------------------------
\* size_estimate, by any thread: the indices are read one after the other.

EstimateBegin ==
    /\ alive /\ epc = "idle"
    /\ writeSeen' = writeIndex
    /\ epc' = "read"
    /\ UNCHANGED <<estimate, producerVars, consumerVars, elements, alive>>

GuessUnwrapped(guess) == guess

Guess(guess) == IF guess < 0 THEN guess + Size ELSE guess

EstimateEnd ==
    /\ epc = "read"
    /\ estimate' = Guess(writeSeen - readIndex)
    /\ writeSeen' = 0 /\ epc' = "idle"
    /\ UNCHANGED <<producerVars, consumerVars, elements, alive>>

\* The slots from read_index_ up to write_index_, oldest first.
Used == [d \in 1 .. (writeIndex - readIndex + Size) % Size |-> (readIndex + d - 1) % Size]

\* The destructor, once nobody uses the queue: nothing follows it.
Destroy ==
    /\ alive /\ ppc = "idle" /\ cpc = "idle" /\ epc = "idle"
    /\ elements' = [i \in Slots |-> IF \E d \in DOMAIN Used : Used[d] = i THEN Raw ELSE elements[i]]
    /\ alive' = FALSE
    /\ UNCHANGED <<producerVars, consumerVars, estimateVars>>

Next ==
    \/ PushBegin \/ Construct \/ Publish
    \/ PopBegin \/ Move \/ DestroyFront \/ Release
    \/ EstimateBegin \/ EstimateEnd
    \/ Destroy

Spec == Init /\ [][Next]_vars

-----------------------------------------------------------------------------
TypeOK ==
    /\ readIndex \in Slots /\ writeIndex \in Slots
    /\ elements \in [Slots -> Values \cup {Raw}]
    /\ ppc \in {"idle", "construct", "publish"} /\ value \in Values \cup {Raw}
    /\ cpc \in {"idle", "move", "destroy", "release"} /\ keep \in BOOLEAN
    /\ out \in Values \cup {Raw} /\ gone \in Values \cup {Raw} /\ got \in Values \cup {Raw}
    /\ writeSeen \in Slots /\ alive \in BOOLEAN
    /\ estimate \in 0 .. Size - 1         \* a size the queue could have

\* Every object has been constructed once and is destroyed once: a slot holds an
\* object exactly while it is between the indices or in the producer's hands, less
\* the one the consumer has just destroyed; none survives the queue.
ObjectLifetimes ==
    {i \in Slots : elements[i] # Raw} =
       IF alive
          THEN ({Used[d] : d \in DOMAIN Used} \ {i \in {readIndex} : cpc = "release"})
               \cup {i \in {writeIndex} : ppc = "publish"}
          ELSE {}

\* What the callers see is a bounded first-in first-out queue.  An element leaves it
\* when read_index_ passes.
Q == INSTANCE BoundedQueue WITH
        Capacity <- Size - 1, open <- alive,
        queue <- IF ~alive THEN <<>> ELSE [d \in DOMAIN Used |->
                     IF d = 1 /\ cpc = "release" THEN gone ELSE elements[Used[d]]]

ImplementsQueue == Q!QueueSpec
=============================================================================
