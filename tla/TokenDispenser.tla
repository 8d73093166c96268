--------------------------- MODULE TokenDispenser ---------------------------
(***************************************************************************)
(* token_dispenser: a fixed number of tokens, one bit each in a word.  A   *)
(* thread draws an index from a shared counter, looks at the word, and     *)
(* sets the bit of its index by compare-exchange; a set bit or a failed    *)
(* exchange makes it draw again.                                           *)
(***************************************************************************)
EXTENDS Integers

CONSTANTS
    Threads,
    NumberOfTokens,         \* number_of_tokens_
    CounterModulus          \* 2^64: token_counter_ wraps, and need not be a multiple of the tokens

SizesAssumption ==
    /\ NumberOfTokens \in Nat \ {0}
    /\ CounterModulus \in Nat \ {0} /\ CounterModulus >= NumberOfTokens

Tokens == 0 .. NumberOfTokens - 1

VARIABLES
    tokens,                 \* tokens_: the bits that are set
    counter,                \* token_counter_
    pc,
    index,                  \* token_index: what a thread drew, or holds
    expected                \* expected_value: the word as it read it

vars == <<tokens, counter, pc, index, expected>>

Init ==
    /\ tokens = {} /\ counter = 0
    /\ pc = [t \in Threads |-> "idle"]
    /\ index = [t \in Threads |-> 0]
    /\ expected = [t \in Threads |-> {}]

Goto(t, from, to) == pc[t] = from /\ pc' = [pc EXCEPT ![t] = to]

-----------------------------------------------------------------------------
\* get_token

GetBegin(t) ==
    /\ Goto(t, "idle", "draw")
    /\ UNCHANGED <<tokens, counter, index, expected>>

Drawn == counter % NumberOfTokens

Bumped == (counter + 1) % CounterModulus

Draw(t) ==
    /\ Goto(t, "draw", "load")
    /\ index' = [index EXCEPT ![t] = Drawn]
    /\ counter' = Bumped
    /\ UNCHANGED <<tokens, expected>>

Load(t) ==
    /\ pc[t] = "load"
    /\ expected' = [expected EXCEPT ![t] = tokens]
    /\ pc' = [pc EXCEPT ![t] = IF index[t] \in tokens THEN "draw" ELSE "cas"]
    /\ UNCHANGED <<tokens, counter, index>>

UnchangedWordAny(t) == TRUE

UnchangedWord(t) == tokens = expected[t]

Take(t) ==
    /\ Goto(t, "cas", "held")
    /\ UnchangedWord(t)
    /\ tokens' = tokens \cup {index[t]}
    /\ UNCHANGED <<counter, index, expected>>

Lose(t) ==
    /\ Goto(t, "cas", "draw")
    /\ ~UnchangedWord(t)
    /\ UNCHANGED <<tokens, counter, index, expected>>

\* release_token, from the destructor of the token.
Release(t) ==
    /\ Goto(t, "held", "idle")
    /\ tokens' = tokens \ {index[t]}
    /\ UNCHANGED <<counter, index, expected>>

-----------------------------------------------------------------------------
Next == \E t \in Threads :
    GetBegin(t) \/ Draw(t) \/ Load(t) \/ Take(t) \/ Lose(t) \/ Release(t)

\* Only that some thread moves.
Spec == Init /\ [][Next]_vars /\ WF_vars(Next)

-----------------------------------------------------------------------------
TypeOK ==
    /\ tokens \in SUBSET Tokens /\ counter \in 0 .. CounterModulus - 1
    /\ pc \in [Threads -> {"idle", "draw", "load", "cas", "held"}]
    /\ index \in [Threads -> Tokens] /\ expected \in [Threads -> SUBSET Tokens]

Holders == {t \in Threads : pc[t] = "held"}

\* A token is out once: two threads that hold tokens hold different ones, and a bit
\* is set exactly for the tokens that are held, so none is lost by a lost exchange.
TokensHeldOnce ==
    /\ \A t, u \in Holders : index[t] = index[u] => t = u
    /\ tokens = {index[t] : t \in Holders}

\* While a thread is in get_token and a token is free, tokens keep being taken,
\* however the threads share the draws of the counter and wherever it wraps.
LockFree ==
    \/ []<>(tokens = Tokens \/ \A t \in Threads : pc[t] \in {"idle", "held"})
    \/ []<><<\E t \in Threads : Take(t)>>_vars
=============================================================================
