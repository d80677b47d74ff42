------------------------------- MODULE Ledger -------------------------------
(***************************************************************************)
(* What the payment path promises the tenant.  Money paid at a gateway the *)
(* service asks (Khalti) is credited when it was paid, with the amount and *)
(* to the invoice it was paid for.  Money a callback reports (eSewa) is    *)
(* credited to the invoice its id names, with the amount reported, and     *)
(* nothing is promised about that report.  Either is credited once, and a  *)
(* reference is confirmed only when it is on record.  Nothing is said of   *)
(* how many callbacks arrive, what they read, or which of them fail.       *)
(***************************************************************************)
EXTENDS Integers

CONSTANTS
    Invoices, LookedUp, Reported,  \* transactions of the two kinds
    InvoiceOf,                     \* the invoice the id of a reported one names
    Refs, RefOf,                   \* references; those of the looked-up ones
    Amounts, NotPaid,
    Unnamed                        \* a report without a reference

VARIABLES
    bill,        \* what was paid for a looked-up transaction, and for which invoice
    credited,    \* transactions that have been credited
    references,  \* the references they were credited under
    balance,     \* the total credited to each invoice
    confirmed    \* references a caller was told are on record

vars == <<bill, credited, references, balance, confirmed>>

Init ==
    /\ bill = [t \in LookedUp |-> NotPaid]
    /\ credited = {}
    /\ references = {}
    /\ balance = [i \in Invoices |-> 0]
    /\ confirmed = {}

Pay(t, i, amount) ==
    /\ bill[t] = NotPaid
    /\ bill' = [bill EXCEPT ![t] = [invoice |-> i, amount |-> amount]]
    /\ UNCHANGED <<credited, references, balance, confirmed>>

Credit(t, i, amount, ref) ==
    /\ t \notin credited
    /\ credited' = credited \cup {t}
    /\ references' = references \cup {ref}
    /\ balance' = [balance EXCEPT ![i] = @ + amount]
    /\ UNCHANGED <<bill, confirmed>>

CreditPaid(t) ==
    /\ bill[t] # NotPaid
    /\ Credit(t, bill[t].invoice, bill[t].amount, RefOf[t])

CreditReported(t, amount, ref) == Credit(t, InvoiceOf[t], amount, ref)

Confirm(ref) ==
    /\ \E onRecord \in references : ref \in {onRecord, Unnamed}
    /\ confirmed' = confirmed \cup {ref}
    /\ UNCHANGED <<bill, credited, references, balance>>

Next ==
    \/ \E t \in LookedUp, i \in Invoices, amount \in Amounts : Pay(t, i, amount)
    \/ \E t \in LookedUp : CreditPaid(t)
    \/ \E t \in Reported, amount \in Amounts, ref \in Refs \cup {Unnamed} :
         CreditReported(t, amount, ref)
    \/ \E ref \in Refs \cup {Unnamed} : Confirm(ref)

Spec == Init /\ [][Next]_vars
=============================================================================
