------------------------------ MODULE Exchange ------------------------------
(***************************************************************************)
(* The promise of an elimination array: an element passes at one moment    *)
(* from a thread that offers it to a thread that asks for one, and an      *)
(* operation that finds no partner changes nothing.                        *)
(***************************************************************************)
EXTENDS Naturals

CONSTANTS Procs, InitialHeld, None

VARIABLES held,           \* the elements each thread owns
          offers,         \* the element a thread is putting, or None
          asks            \* the threads that are getting

exchangeVars == <<held, offers, asks>>

ExchangeInit == held = InitialHeld /\ offers = [p \in Procs |-> None] /\ asks = {}

Offer(p, v) == v \in held[p] /\ offers' = [offers EXCEPT ![p] = v] /\ UNCHANGED <<held, asks>>
EndOffer(p) == offers' = [offers EXCEPT ![p] = None] /\ UNCHANGED <<held, asks>>
Ask(p) == asks' = asks \cup {p} /\ UNCHANGED <<held, offers>>
EndAsk(p) == asks' = asks \ {p} /\ UNCHANGED <<held, offers>>

\* Both are in their calls when the element passes.
Transfer(p, q) ==
    /\ offers[p] \in held[p] /\ q \in asks
    /\ held' = [held EXCEPT ![p] = @ \ {offers[p]}, ![q] = @ \cup {offers[p]}]
    /\ UNCHANGED <<offers, asks>>

ExchangeNext ==
    \E p \in Procs :
       \/ \E v \in held[p] : Offer(p, v)
       \/ EndOffer(p) \/ Ask(p) \/ EndAsk(p)
       \/ \E q \in Procs \ {p} : Transfer(p, q)

ExchangeSpec == ExchangeInit /\ [][ExchangeNext]_exchangeVars
=============================================================================
