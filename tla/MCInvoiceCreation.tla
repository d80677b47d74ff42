------------------------- MODULE MCInvoiceCreation -------------------------
(* Instances of InvoiceCreation for TLC.                                   *)
EXTENDS InvoiceCreation, TLC

CONSTANTS n1, n2, e1, e2, v1, v2, v3, h1, h2, k1, k2

Of(n, e) == [tenant |-> n, email |-> e]

Pay(n, by, c) == [tenant |-> n, by |-> by, customer |-> c]

\* A new customer of n1, the same e-mail at n2, a customer of n1 named by its
\* own organization and by the other.
ManyPayloads == {Pay(n1, "data", Of(n1, e1)), Pay(n2, "data", Of(n2, e1)),
                 Pay(n1, "id", Of(n1, e2)), Pay(n2, "id", Of(n1, e2))}

OneTenantPayloads == {Pay(n1, "data", Of(n1, e1)), Pay(n1, "id", Of(n1, e2))}

Known == {Of(n1, e2)}

Symmetry == Permutations(InvoiceIds) \cup Permutations(Handlers)
=============================================================================
