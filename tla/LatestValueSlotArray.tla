------------------------ MODULE LatestValueSlotArray ------------------------
(***************************************************************************)
(* latest_value_slot_array: the most recent value, several words long, in  *)
(* a ring of slots.  A store takes writer_busy_ or fails, rewrites the     *)
(* slot after the published one between an odd and an even sequence        *)
(* number, and publishes it in current_.  A load copies the published slot *)
(* and starts again unless the slot has the published number before and    *)
(* after the copy.                                                         *)
(***************************************************************************)
EXTENDS Naturals

CONSTANTS
    Writers, Readers,
    NumSlots,               \* NUM_SLOTS
    WordCount,              \* WORD_COUNT
    Values, Zero,           \* what is stored; the zero value
    SeqModulus,             \* 2^32: sequence_number_ wraps
    BoundedAt               \* where a reader is not stalled over a whole turn of the numbers

SizesAssumption ==
    /\ NumSlots \in Nat /\ NumSlots >= 2
    /\ WordCount \in Nat \ {0}
    /\ SeqModulus \in Nat /\ SeqModulus >= 2 /\ SeqModulus % 2 = 0
    /\ Zero \notin Values /\ BoundedAt \subseteq {"check", "copy", "recheck"}

SlotIds == 0 .. NumSlots - 1
Words == 1 .. WordCount
Packed == [seq : 0 .. SeqModulus - 1, slot : SlotIds, stored : BOOLEAN]

VARIABLES
    seq, words,             \* sequence_number_ and buffer_in_words_ of each slot
    current, busy,          \* current_ and writer_busy_
    latest,                 \* history: what a load that ran at once would return
    wpc, value, target, word,          \* per writer: what it stores, where, its next word
    rpc, published, copied, at,        \* per reader: what it read of current_, its copy, its next word
    during,                 \* history: the contents published since its load began
    rewrites                \* rewrites of its slot it was stalled over

slotVars == <<seq, words, current, busy, latest>>
writerVars == <<wpc, value, target, word>>
readerVars == <<rpc, published, copied, at>>
vars == <<slotVars, writerVars, readerVars, during, rewrites>>

Initially == [seq |-> 0, slot |-> 0, stored |-> FALSE]

Init ==
    /\ seq = [s \in SlotIds |-> 0] /\ words = [s \in SlotIds |-> [i \in Words |-> Zero]]
    /\ current = Initially /\ busy = FALSE /\ latest = [value |-> Zero, stored |-> FALSE]
    /\ wpc = [w \in Writers |-> "idle"] /\ value = [w \in Writers |-> Zero]
    /\ target = [w \in Writers |-> 0] /\ word = [w \in Writers |-> 1]
    /\ rpc = [r \in Readers |-> "idle"] /\ published = [r \in Readers |-> Initially]
    /\ copied = [r \in Readers |-> [i \in Words |-> Zero]] /\ at = [r \in Readers |-> 1]
    /\ during = [r \in Readers |-> {}] /\ rewrites = [r \in Readers |-> 0]

WGoto(w, from, to) == wpc[w] = from /\ wpc' = [wpc EXCEPT ![w] = to]
RGoto(r, from, to) == rpc[r] = from /\ rpc' = [rpc EXCEPT ![r] = to]

-----------------------------------------------------------------------------
\* store.  One that finds writer_busy_ set returns FAILURE and changes nothing.

Admitted == ~busy

StoreBegin(w) ==
    /\ WGoto(w, "idle", "mark")
    /\ Admitted
    /\ busy' = TRUE
    /\ \E v \in Values : value' = [value EXCEPT ![w] = v]
    /\ UNCHANGED <<seq, words, current, latest, target, word, readerVars, during, rewrites>>

NextSlot(s) == (s + 1) % NumSlots

Bumped(n) == (n + 1) % SeqModulus

Reached(s) == {r \in Readers : rpc[r] \in BoundedAt /\ published[r].slot = s}

\* The slot's number becomes odd.  No reader is stalled over a turn of the numbers.
StoreMark(w) ==
    LET s == NextSlot(current.slot) IN
    /\ WGoto(w, "mark", "word")
    /\ \A r \in Reached(s) : rewrites[r] + 1 < SeqModulus \div 2
    /\ rewrites' = [r \in Readers |-> IF r \in Reached(s) THEN rewrites[r] + 1 ELSE rewrites[r]]
    /\ target' = [target EXCEPT ![w] = s] /\ word' = [word EXCEPT ![w] = 1]
    /\ seq' = [seq EXCEPT ![s] = Bumped(@)]
    /\ UNCHANGED <<words, current, busy, latest, value, readerVars, during>>

StoreWord(w) ==
    /\ wpc[w] = "word" /\ word[w] <= WordCount
    /\ words' = [words EXCEPT ![target[w]][word[w]] = value[w]]
    /\ word' = [word EXCEPT ![w] = @ + 1]
    /\ UNCHANGED <<seq, current, busy, latest, wpc, value, target, readerVars, during, rewrites>>

StoreClose(w) ==
    /\ WGoto(w, "word", "publish") /\ word[w] > WordCount
    /\ seq' = [seq EXCEPT ![target[w]] = Bumped(@)]
    /\ UNCHANGED <<words, current, busy, latest, value, target, word, readerVars, during, rewrites>>

StorePublish(w) ==
    /\ WGoto(w, "publish", "free")
    /\ current' = [seq |-> seq[target[w]], slot |-> target[w], stored |-> TRUE]
    /\ latest' = [value |-> value[w], stored |-> TRUE]
    /\ during' = [r \in Readers |-> IF rpc[r] = "idle" THEN {} ELSE during[r] \cup {latest'}]
    /\ UNCHANGED <<seq, words, busy, value, target, word, readerVars, rewrites>>

StoreEnd(w) ==
    /\ WGoto(w, "free", "idle")
    /\ busy' = FALSE
    /\ value' = [value EXCEPT ![w] = Zero] /\ target' = [target EXCEPT ![w] = 0]
    /\ word' = [word EXCEPT ![w] = 1]
    /\ UNCHANGED <<seq, words, current, latest, readerVars, during, rewrites>>

-----------------------------------------------------------------------------
\* load

LoadBegin(r) ==
    /\ RGoto(r, "idle", "read")
    /\ during' = [during EXCEPT ![r] = {latest}]
    /\ UNCHANGED <<slotVars, writerVars, published, copied, at, rewrites>>

ReadCurrent(r) ==
    /\ RGoto(r, "read", "check")
    /\ published' = [published EXCEPT ![r] = current]
    /\ rewrites' = [rewrites EXCEPT ![r] = 0] /\ at' = [at EXCEPT ![r] = 1]
    /\ UNCHANGED <<slotVars, writerVars, copied, during>>

\* Does the slot still have the number it was published with?
SameEven(r) == seq[published[r].slot] % 2 = 0

SameNumber(r) == seq[published[r].slot] = published[r].seq

CheckNumber(r) ==
    /\ rpc[r] = "check"
    /\ rpc' = [rpc EXCEPT ![r] = IF SameNumber(r) THEN "copy" ELSE "read"]
    /\ UNCHANGED <<slotVars, writerVars, published, copied, at, during, rewrites>>

CopyWord(r) ==
    /\ rpc[r] = "copy" /\ at[r] <= WordCount
    /\ copied' = [copied EXCEPT ![r][at[r]] = words[published[r].slot][at[r]]]
    /\ at' = [at EXCEPT ![r] = @ + 1]
    /\ rpc' = [rpc EXCEPT ![r] = IF at[r] = WordCount THEN "recheck" ELSE "copy"]
    /\ UNCHANGED <<slotVars, writerVars, published, during, rewrites>>

Recheck(r) ==
    /\ rpc[r] = "recheck"
    /\ rpc' = [rpc EXCEPT ![r] = IF SameNumber(r) THEN "return" ELSE "read"]
    /\ UNCHANGED <<slotVars, writerVars, published, copied, at, during, rewrites>>

LoadEnd(r) ==
    /\ RGoto(r, "return", "idle")
    /\ during' = [during EXCEPT ![r] = {}] /\ at' = [at EXCEPT ![r] = 1]
    /\ published' = [published EXCEPT ![r] = Initially]
    /\ copied' = [copied EXCEPT ![r] = [i \in Words |-> Zero]]
    /\ rewrites' = [rewrites EXCEPT ![r] = 0]
    /\ UNCHANGED <<slotVars, writerVars>>

-----------------------------------------------------------------------------
Storing(w) ==
    StoreMark(w) \/ StoreWord(w) \/ StoreClose(w) \/ StorePublish(w) \/ StoreEnd(w)

Loading(r) == ReadCurrent(r) \/ CheckNumber(r) \/ CopyWord(r) \/ Recheck(r) \/ LoadEnd(r)

Next ==
    \/ \E w \in Writers : StoreBegin(w) \/ Storing(w)
    \/ \E r \in Readers : LoadBegin(r) \/ Loading(r)

\* Readers keep running; a writer may be preempted anywhere and never come back.
Spec == Init /\ [][Next]_vars /\ \A r \in Readers : WF_vars(Loading(r))

-----------------------------------------------------------------------------
TypeOK ==
    /\ seq \in [SlotIds -> 0 .. SeqModulus - 1]
    /\ words \in [SlotIds -> [Words -> Values \cup {Zero}]]
    /\ current \in Packed /\ busy \in BOOLEAN
    /\ wpc \in [Writers -> {"idle", "mark", "word", "publish", "free"}]
    /\ value \in [Writers -> Values \cup {Zero}] /\ target \in [Writers -> SlotIds]
    /\ word \in [Writers -> 1 .. WordCount + 1]
    /\ rpc \in [Readers -> {"idle", "read", "check", "copy", "recheck", "return"}]
    /\ published \in [Readers -> Packed] /\ copied \in [Readers -> [Words -> Values \cup {Zero}]]
    /\ at \in [Readers -> 1 .. WordCount + 1]

\* A load returns, whole, what was published at some moment while it ran, and EMPTY
\* only if that was before the first store (lines 33 to 41): never words of two
\* values, never a value that a store has written and not yet published.
LoadIsLinearizable ==
    \A r \in Readers : rpc[r] = "return" =>
        \E p \in during[r] :
           /\ copied[r] = [i \in Words |-> p.value]
           /\ published[r].stored = p.stored

\* A writer that is preempted in the middle of a store never stalls a reader: a load
\* that keeps running ends unless it is lapped again and again (lines 62 and 63).
ReadersNeverStalled ==
    \A r \in Readers :
       \/ []<>(rpc[r] = "idle")
       \/ []<><<\E w \in Writers : StoreMark(w)>>_vars
=============================================================================
