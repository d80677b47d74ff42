----------------------------- MODULE MCPayments -----------------------------
(* Instances of Payments for TLC.                                          *)
EXTENDS Payments, TLC

CONSTANTS i1, u1, k1, r1, r2, n1, n2, p1, p2, h1, h2

\* One invoice of 2 paisa.
OneInvoiceTenant == [i \in {i1} |-> n1]
OneInvoiceAmount == [i \in {i1} |-> 2]

\* Every transaction_uuid names the invoice.
OneInvoiceOf == [u \in Uuids |-> i1]

\* Khalti's reference of a pidx; an eSewa payload may name it, another or none.
MCRefOf == [k \in Pidxs |-> r1]

\* Row ids and request slots are interchangeable.
Symmetry == Permutations(PaymentIds) \cup Permutations(Handlers)

\* Between requests the status of an invoice is the one its Payment rows add
\* up to: what reconcileInvoiceStatus is for.  A partly paid invoice may have
\* been swept to OVERDUE.
StatusMatchesPayments ==
    (\A h \in Handlers : pc[h] = "idle") =>
        \A i \in {j \in Invoices : RowsOf(j) # {}} :
            LET total == Total(RowsOf(i))
            IN  \/ status[i] = ComputeStatus(total, Amount[i])
                \/ status[i] = "OVERDUE" /\ total < Amount[i]
=============================================================================
