--------------------------- MODULE KeyedCreation ---------------------------
(***************************************************************************)
(* What creating an invoice under an idempotency key promises the client:  *)
(* a key makes at most one invoice, what the worker is given and what the  *)
(* client is told are invoices that were made, and a client is told only   *)
(* of the invoice its own key made from the very payload it sent.  Nothing *)
(* is said of the rows that hold the keys, of how often a request is sent, *)
(* or of which attempts fail.                                              *)
(***************************************************************************)
CONSTANTS Keys, Payloads, Ids

VARIABLES
    made,         \* invoices, with the key and the payload of each
    dispatched,   \* ids whose job was queued
    answers       \* what clients were told

vars == <<made, dispatched, answers>>

Init == made = {} /\ dispatched = {} /\ answers = {}

Make(id, k, p) ==
    /\ \A m \in made : m.id # id /\ m.key # k
    /\ made' = made \cup {[id |-> id, key |-> k, payload |-> p]}
    /\ UNCHANGED <<dispatched, answers>>

Dispatch(m) ==
    /\ dispatched' = dispatched \cup {m.id}
    /\ UNCHANGED <<made, answers>>

Answer(m) ==
    /\ answers' = answers \cup {[key |-> m.key, payload |-> m.payload, invoice |-> m.id]}
    /\ UNCHANGED <<made, dispatched>>

Next ==
    \/ \E id \in Ids, k \in Keys, p \in Payloads : Make(id, k, p)
    \/ \E m \in made : Dispatch(m) \/ Answer(m)

Spec == Init /\ [][Next]_vars
=============================================================================
