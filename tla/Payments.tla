------------------------------ MODULE Payments ------------------------------
(***************************************************************************)
(* The payment path: PaymentService (eSewa and Khalti), the nightly sweep  *)
(* of InvoiceCronService, and the rows and cache keys they share.          *)
(*                                                                         *)
(* A handler is one in-flight callback request.  Node.js runs a request    *)
(* without interruption from one await to the next, so an action is the    *)
(* code between two awaits, and it includes the database, Redis, queue or  *)
(* gateway call that the first of the two waits for.                       *)
(*                                                                         *)
(* Amounts are in paisa.  The eSewa form carries amount / 100 rupees and   *)
(* the callback multiplies by 100 and rounds: for the 32-bit Int columns   *)
(* of the schema that round trip gives back the number of paisa.           *)
(*                                                                         *)
(* initiateEsewaPayment reads an invoice and signs a form: it changes no   *)
(* state, and the callback does not depend on it, so it is no action here. *)
(***************************************************************************)
EXTENDS Integers, FiniteSets

CONSTANTS
    Invoices,          \* invoice ids
    Tenants,           \* tenant ids
    TenantOf,          \* Invoice.tenant_id
    Amount,            \* Invoice.amount (any Int: the DTO asks for a number only)
    InitialStatuses,   \* the statuses invoices are created with
    Uuids,             \* values of eSewa's transaction_uuid
    InvoiceOf,         \* the invoice id cut out of a transaction_uuid
    Pidxs,             \* Khalti transactions (pidx)
    Refs,              \* gateway references, one column for both gateways
    RefOf,             \* the transaction_id Khalti's lookup gives for a pidx
    PaidAmounts,       \* the totals a callback or a lookup may report
    PaymentIds,        \* ids of Payment rows (cuid)
    Handlers,          \* concurrent callback requests
    MaxFaults,         \* bound on failed calls and process crashes
    None

STATUS == {"DRAFT", "SENT", "PARTIALLY_PAID", "PAID", "OVERDUE", "CANCELLED"}
CreationStatus == STATUS \ {"PARTIALLY_PAID"}

\* Payment.transaction_id holds either.
Txns == Uuids \cup Pidxs

ASSUME PaymentsAssumption ==
    /\ TenantOf \in [Invoices -> Tenants]
    /\ Amount \in [Invoices -> Int]
    /\ InitialStatuses \subseteq CreationStatus
    /\ InvoiceOf \in [Uuids -> Invoices]
    /\ RefOf \in [Pidxs -> Refs]
    /\ PaidAmounts \subseteq Nat
    /\ MaxFaults \in Nat
    /\ None \notin STATUS \cup Refs \cup [invoice : Invoices, amount : Nat]

\* A pidx is one word; a transaction_uuid with an invoice in it has two hyphens.
ASSUME GatewaysAreApart == Uuids \cap Pidxs = {}

VARIABLES
    status,        \* Invoice.status
    pastDue,       \* Invoice.due_date < now
    paid,          \* the sum of Payment.amount over the rows of an invoice
    payments,      \* rows of Payment
    checkout,      \* Khalti's view of its transactions
    pc,            \* the await a handler stands at
    req,           \* a handler's local variables
    cronPc,        \* the await the sweep stands at
    cronTenants,   \* affectedInvoices of the sweep
    payVersion,    \* Redis: invoice:version:<tenant>; 0 when the key is absent
    receipts,      \* send-payment-receipt jobs dispatched so far
    revenue,       \* the revenue counter of this process
    acked,         \* references a caller was told are recorded
    faults         \* failures so far

dbVars == <<status, paid, payments>>
handlerVars == <<pc, req>>
cronVars == <<cronPc, cronTenants>>
replyVars == <<receipts, revenue, acked>>
vars == <<dbVars, pastDue, checkout, handlerVars, cronVars, payVersion, replyVars, faults>>

Checkout == [state : {"none", "open", "completed"}, invoice : Invoices \cup {None},
             amount : Nat]
Payment == [id : PaymentIds, invoice_id : Invoices, transaction_id : Txns,
            gateway_ref_id : Refs \cup {None}, amount : Nat]
Request == [txn : Txns, order : Invoices, tenant : Tenants, ref : Refs \cup {None},
            amount : Nat, newStatus : STATUS \cup {None}, version : Nat]

\* A job stands for the row it is about; transaction_id is that row's.
ReceiptJob == [paymentId : PaymentIds, transaction_id : Txns]

\* Where a handler is once it has verified its callback; the last five
\* come after the Payment row is written.
Recording == {"reconcileRead", "reconcileWrite", "bumpGet", "bumpSet", "queueReceipt"}
Verified == {"findInvoice", "findExisting", "create"} \cup Recording

TypeOK ==
    /\ status \in [Invoices -> STATUS]
    /\ pastDue \in [Invoices -> BOOLEAN]
    /\ paid \in [Invoices -> Nat]
    /\ payments \subseteq Payment
    /\ checkout \in [Pidxs -> Checkout]
    /\ pc \in [Handlers -> {"idle", "lookup"} \cup Verified]
    /\ req \in [Handlers -> Request \cup {None}]
    /\ cronPc \in {"idle", "update", "invalidate"}
    /\ cronTenants \subseteq Tenants
    /\ payVersion \in [Tenants -> Nat]
    /\ receipts \subseteq ReceiptJob
    /\ revenue \in Nat
    /\ acked \subseteq Refs \cup {None}
    /\ faults \in 0..MaxFaults

Init ==
    /\ status \in [Invoices -> InitialStatuses]
    /\ pastDue = [i \in Invoices |-> FALSE]
    /\ paid = [i \in Invoices |-> 0]
    /\ payments = {}
    /\ checkout = [t \in Pidxs |-> [state |-> "none", invoice |-> None, amount |-> 0]]
    /\ pc = [h \in Handlers |-> "idle"]
    /\ req = [h \in Handlers |-> None]
    /\ cronPc = "idle"
    /\ cronTenants = {}
    /\ payVersion = [n \in Tenants |-> 0]
    /\ receipts = {}
    /\ revenue = 0
    /\ acked = {}
    /\ faults = 0

-----------------------------------------------------------------------------
(* Checkout at Khalti, whose gateway is external.                          *)

KhaltiRefuses(i) == status[i] = "PAID"

\* A refused or failed initiate call opens nothing and changes nothing here.
InitiateKhaltiPayment(i, n, t) ==
    /\ TenantOf[i] = n
    /\ ~KhaltiRefuses(i)
    /\ checkout[t].state = "none"
    /\ checkout' = [checkout EXCEPT ![t] = [state |-> "open", invoice |-> i, amount |-> 0]]
    /\ UNCHANGED <<dbVars, pastDue, handlerVars, cronVars, payVersion, replyVars, faults>>

\* External: the customer pays at Khalti.  The services never compare the
\* total the gateway reports with the invoice's amount.
CompleteCheckout(t, amount) ==
    /\ checkout[t].state = "open"
    /\ checkout' = [checkout EXCEPT ![t].state = "completed", ![t].amount = amount]
    /\ UNCHANGED <<dbVars, pastDue, handlerVars, cronVars, payVersion, replyVars, faults>>

\* External: the due date of an invoice passes.
FallDue(i) ==
    /\ ~pastDue[i]
    /\ pastDue' = [pastDue EXCEPT ![i] = TRUE]
    /\ UNCHANGED <<dbVars, checkout, handlerVars, cronVars, payVersion, replyVars, faults>>

-----------------------------------------------------------------------------
(* The callbacks.  The gateway redirects the customer's browser, which may  *)
(* load the URL any number of times, at any moment.                         *)

Goto(h, label) == pc' = [pc EXCEPT ![h] = label]

Finish(h) == pc' = [pc EXCEPT ![h] = "idle"] /\ req' = [req EXCEPT ![h] = None]

NewRequest(t, i, n, ref, amount) ==
    [txn |-> t, order |-> i, tenant |-> n, ref |-> ref, amount |-> amount,
     newStatus |-> None, version |-> 0]

\* What a COMPLETE payload that passes verifyEsewaCallback may say.  The
\* signature covers the fields the payload lists in signed_field_names, whichever
\* they are, so it ties none of these to the others or to a form that was signed.
\* A payload need not carry a reference (None).  Other payloads are answered at
\* once, or fail before they write anything.
AcceptedPayloads ==
    [transaction_uuid : Uuids, transaction_code : Refs \cup {None}, total_amount : PaidAmounts]

\* Decoding and verifying wait for nothing.  tenant_id is what the URL says, and
\* the invoice id is cut out of transaction_uuid.
EsewaCallback(h, payload, n) ==
    LET t == payload.transaction_uuid
    IN  /\ pc[h] = "idle"
        /\ req' = [req EXCEPT ![h] = NewRequest(t, InvoiceOf[t], n, payload.transaction_code,
                                                payload.total_amount)]
        /\ Goto(h, "findInvoice")
        /\ UNCHANGED <<dbVars, pastDue, checkout, cronVars, payVersion, replyVars, faults>>

\* pidx, purchase_order_id and tenant_id are what the URL says.
KhaltiCallback(h, t, i, n) ==
    /\ pc[h] = "idle"
    /\ checkout[t].state # "none"
    /\ req' = [req EXCEPT ![h] = NewRequest(t, i, n, None, 0)]
    /\ Goto(h, "lookup")
    /\ UNCHANGED <<dbVars, pastDue, checkout, cronVars, payVersion, replyVars, faults>>

\* Mutant: a lookup of the order will do, Completed or not.
KhaltiVerifiesAny(t, i) == checkout[t].state # "none" /\ checkout[t].invoice = i

\* The lookup says Completed, for the order the URL names.
KhaltiVerifies(t, i) == checkout[t].state = "completed" /\ checkout[t].invoice = i

\* What is recorded is what the lookup says, not what the URL says.
KhaltiLookup(h) ==
    LET t == req[h].txn
    IN  /\ pc[h] = "lookup"
        /\ IF KhaltiVerifies(t, req[h].order)
             THEN /\ req' = [req EXCEPT ![h].ref = RefOf[t], ![h].amount = checkout[t].amount]
                  /\ Goto(h, "findInvoice")
             ELSE Finish(h)
        /\ UNCHANGED <<dbVars, pastDue, checkout, cronVars, payVersion, replyVars, faults>>

FindInvoice(h) ==
    /\ pc[h] = "findInvoice"
    /\ IF TenantOf[req[h].order] = req[h].tenant
         THEN Goto(h, "findExisting") /\ UNCHANGED req
         ELSE Finish(h)
    /\ UNCHANGED <<dbVars, pastDue, checkout, cronVars, payVersion, replyVars, faults>>

\* Prisma leaves an undefined field out of the filter: without a reference, any
\* row is found.
AlreadyRecorded(ref) == \E p \in payments : ref \in {p.gateway_ref_id, None}

\* Mutant: a repeated callback is counted again.
FindExistingCountsAgain(h) ==
    /\ pc[h] = "findExisting"
    /\ Goto(h, IF AlreadyRecorded(req[h].ref) THEN "queueReceipt" ELSE "create")
    /\ UNCHANGED <<dbVars, pastDue, checkout, req, cronVars, payVersion, replyVars, faults>>

\* An existing row is answered with success at once: no reconciliation, no
\* receipt.
FindExisting(h) ==
    /\ pc[h] = "findExisting"
    /\ IF AlreadyRecorded(req[h].ref)
         THEN acked' = acked \cup {req[h].ref} /\ Finish(h)
         ELSE Goto(h, "create") /\ UNCHANGED <<req, acked>>
    /\ UNCHANGED <<dbVars, pastDue, checkout, cronVars, payVersion, receipts, revenue, faults>>

\* Mutant: the database has no unique index.
NoUniqueIndex(t) == TRUE

\* Payment.transaction_id is @unique.
UniqueTransaction(t) == \A p \in payments : p.transaction_id # t

\* payment.create fails the request when the unique index refuses the row.
CreatePayment(h) ==
    LET t == req[h].txn
        i == req[h].order
    IN  /\ pc[h] = "create"
        /\ IF UniqueTransaction(t)
             THEN \E id \in PaymentIds :
                    /\ \A p \in payments : p.id # id
                    /\ payments' = payments \cup
                         {[id |-> id, invoice_id |-> i, transaction_id |-> t,
                           gateway_ref_id |-> req[h].ref, amount |-> req[h].amount]}
                    /\ paid' = [paid EXCEPT ![i] = @ + req[h].amount]
                    /\ Goto(h, "reconcileRead")
                    /\ UNCHANGED req
             ELSE Finish(h) /\ UNCHANGED <<payments, paid>>
        /\ UNCHANGED <<status, pastDue, checkout, cronVars, payVersion, replyVars, faults>>

-----------------------------------------------------------------------------
(* reconcileInvoiceStatus, bumpInvoiceVersion, queueReceiptEmail           *)

\* Mutants: a status the enum does not have; any payment pays.
ComputeStatusOverpaid(totalPaid, amount) ==
    IF totalPaid > amount THEN "OVERPAID" ELSE "PARTIALLY_PAID"

ComputeStatusAnyPays(totalPaid, amount) == IF totalPaid > 0 THEN "PAID" ELSE None

ComputeStatus(totalPaid, amount) ==
    IF totalPaid >= amount THEN "PAID"
    ELSE IF totalPaid > 0 THEN "PARTIALLY_PAID" ELSE None

\* Mutant: the status is computed from this payment alone.
ReconcileReadOwnPayment(h) ==
    LET i == req[h].order
        new == ComputeStatus(req[h].amount, Amount[i])
    IN  /\ pc[h] = "reconcileRead"
        /\ IF new \notin {None, status[i]}
             THEN Goto(h, "reconcileWrite") /\ req' = [req EXCEPT ![h].newStatus = new]
             ELSE Goto(h, "queueReceipt") /\ UNCHANGED req
        /\ UNCHANGED <<dbVars, pastDue, checkout, cronVars, payVersion, replyVars, faults>>

\* Mutant: an unchanged status ends the request before the receipt.
ReconcileReadReturns(h) ==
    LET i == req[h].order
        new == ComputeStatus(paid[i], Amount[i])
    IN  /\ pc[h] = "reconcileRead"
        /\ IF new \notin {None, status[i]}
             THEN Goto(h, "reconcileWrite") /\ req' = [req EXCEPT ![h].newStatus = new]
             ELSE Finish(h)
        /\ UNCHANGED <<dbVars, pastDue, checkout, cronVars, payVersion, replyVars, faults>>

\* findUnique reads the invoice and its payments in one snapshot.
ReconcileRead(h) ==
    LET i == req[h].order
        new == ComputeStatus(paid[i], Amount[i])
    IN  /\ pc[h] = "reconcileRead"
        /\ IF new \notin {None, status[i]}
             THEN Goto(h, "reconcileWrite") /\ req' = [req EXCEPT ![h].newStatus = new]
             ELSE Goto(h, "queueReceipt") /\ UNCHANGED req
        /\ UNCHANGED <<dbVars, pastDue, checkout, cronVars, payVersion, replyVars, faults>>

ReconcileWrite(h) ==
    /\ pc[h] = "reconcileWrite"
    /\ status' = [status EXCEPT ![req[h].order] = req[h].newStatus]
    /\ Goto(h, "bumpGet")
    /\ UNCHANGED <<paid, payments, pastDue, checkout, req, cronVars, payVersion, replyVars, faults>>

BumpGet(h) ==
    /\ pc[h] = "bumpGet"
    /\ req' = [req EXCEPT ![h].version = payVersion[req[h].tenant]]
    /\ Goto(h, "bumpSet")
    /\ UNCHANGED <<dbVars, pastDue, checkout, cronVars, payVersion, replyVars, faults>>

BumpSet(h) ==
    /\ pc[h] = "bumpSet"
    /\ payVersion' = [payVersion EXCEPT ![req[h].tenant] = req[h].version + 1]
    /\ Goto(h, "queueReceipt")
    /\ UNCHANGED <<dbVars, pastDue, checkout, req, cronVars, replyVars, faults>>

\* The counters are incremented, then the job is added; an error of the
\* queue is logged and swallowed, and the caller is told of success.
QueueReceipt(h) ==
    LET t == req[h].txn
    IN  /\ pc[h] = "queueReceipt"
        /\ revenue' = revenue + req[h].amount
        /\ acked' = acked \cup {req[h].ref}
        /\ \/ /\ \E p \in payments :
                   /\ p.transaction_id = t
                   /\ receipts' = receipts \cup {[paymentId |-> p.id, transaction_id |-> t]}
              /\ UNCHANGED faults
           \/ /\ faults < MaxFaults
              /\ faults' = faults + 1
              /\ UNCHANGED receipts
        /\ Finish(h)
        /\ UNCHANGED <<dbVars, pastDue, checkout, cronVars, payVersion>>

-----------------------------------------------------------------------------
(* markOverdueInvoices                                                     *)

\* Mutant: paid invoices are swept as well.
OverdueEvenPaid(i) == status[i] \in {"SENT", "PARTIALLY_PAID", "PAID"} /\ pastDue[i]

\* Mutant: every invoice that is not paid is swept.
OverdueEvenCancelled(i) == status[i] \notin {"DRAFT", "PAID", "OVERDUE"} /\ pastDue[i]

Overdue(i) == status[i] \in {"SENT", "PARTIALLY_PAID"} /\ pastDue[i]

CronFindAffected ==
    /\ cronPc = "idle"
    /\ cronPc' = "update"
    /\ cronTenants' = {TenantOf[i] : i \in {j \in Invoices : Overdue(j)}}
    /\ UNCHANGED <<dbVars, pastDue, checkout, handlerVars, payVersion, replyVars, faults>>

\* Mutant: the update forgets partly paid invoices.
CronUpdateSentOnly ==
    /\ cronPc = "update"
    /\ status' = [i \in Invoices |->
                    IF status[i] = "SENT" /\ pastDue[i] THEN "OVERDUE" ELSE status[i]]
    /\ cronPc' = "idle"
    /\ cronTenants' = {}
    /\ UNCHANGED <<paid, payments, pastDue, checkout, handlerVars, payVersion, replyVars, faults>>

\* One updateMany: it selects and writes the rows in one statement.
CronUpdate ==
    LET swept == {i \in Invoices : Overdue(i)}
        invalidates == swept # {} /\ cronTenants # {}
    IN  /\ cronPc = "update"
        /\ status' = [i \in Invoices |-> IF i \in swept THEN "OVERDUE" ELSE status[i]]
        /\ cronPc' = IF invalidates THEN "invalidate" ELSE "idle"
        /\ cronTenants' = IF invalidates THEN cronTenants ELSE {}
        /\ UNCHANGED <<paid, payments, pastDue, checkout, handlerVars, payVersion, replyVars, faults>>

\* The dels run concurrently: they take effect in any order.
CronInvalidate(n) ==
    /\ cronPc = "invalidate"
    /\ n \in cronTenants
    /\ payVersion' = [payVersion EXCEPT ![n] = 0]
    /\ cronTenants' = cronTenants \ {n}
    /\ cronPc' = IF cronTenants = {n} THEN "idle" ELSE "invalidate"
    /\ UNCHANGED <<dbVars, pastDue, checkout, handlerVars, replyVars, faults>>

-----------------------------------------------------------------------------
(* Failures                                                                *)

\* The call a handler waits for is rejected: the request ends with an error.
Fail(h) ==
    /\ pc[h] # "idle"
    /\ faults < MaxFaults
    /\ faults' = faults + 1
    /\ Finish(h)
    /\ UNCHANGED <<dbVars, pastDue, checkout, cronVars, payVersion, replyVars>>

CronFail ==
    /\ cronPc # "idle"
    /\ faults < MaxFaults
    /\ faults' = faults + 1
    /\ cronPc' = "idle"
    /\ cronTenants' = {}
    /\ UNCHANGED <<dbVars, pastDue, checkout, handlerVars, payVersion, replyVars>>

\* The API process dies and restarts: PostgreSQL, Redis and the queue stay.
Crash ==
    /\ faults < MaxFaults
    /\ faults' = faults + 1
    /\ pc' = [h \in Handlers |-> "idle"]
    /\ req' = [h \in Handlers |-> None]
    /\ cronPc' = "idle"
    /\ cronTenants' = {}
    /\ revenue' = 0
    /\ UNCHANGED <<dbVars, pastDue, checkout, payVersion, receipts, acked>>

-----------------------------------------------------------------------------
HandlerStep(h) ==
    \/ KhaltiLookup(h) \/ FindInvoice(h) \/ FindExisting(h) \/ CreatePayment(h)
    \/ ReconcileRead(h) \/ ReconcileWrite(h) \/ BumpGet(h) \/ BumpSet(h)
    \/ QueueReceipt(h)

CronStep == CronFindAffected \/ CronUpdate \/ (\E n \in Tenants : CronInvalidate(n))

Environment ==
    \/ \E i \in Invoices, n \in Tenants, t \in Pidxs : InitiateKhaltiPayment(i, n, t)
    \/ \E t \in Pidxs, amount \in PaidAmounts : CompleteCheckout(t, amount)
    \/ \E i \in Invoices : FallDue(i)

Arrival(h) ==
    \/ \E payload \in AcceptedPayloads, n \in Tenants : EsewaCallback(h, payload, n)
    \/ \E t \in Pidxs, i \in Invoices, n \in Tenants : KhaltiCallback(h, t, i, n)

Next ==
    \/ Environment
    \/ \E h \in Handlers : Arrival(h) \/ HandlerStep(h) \/ Fail(h)
    \/ CronStep
    \/ CronFail
    \/ Crash

\* Node.js resumes every request whose call has been answered, and the
\* scheduler runs the sweep every day.  Nobody has to open, pay or return
\* from a checkout, and nothing has to fail.
Fairness == (\A h \in Handlers : WF_vars(HandlerStep(h))) /\ WF_vars(CronStep)

Spec == Init /\ [][Next]_vars
FairSpec == Spec /\ Fairness

-----------------------------------------------------------------------------
(* Properties                                                              *)

\* Two callbacks for one transaction, however they interleave, leave one Payment
\* row, and one request that goes on to reconcile, count and send a receipt: what
\* the check before payment.create misses, the unique index catches.
NoDoubleRecording ==
    /\ \A p, q \in payments : p.transaction_id = q.transaction_id => p = q
    /\ \A g, h \in Handlers :
         pc[g] \in Recording /\ pc[h] \in Recording /\ req[g].txn = req[h].txn => g = h

\* What a row rests on.  Khalti's row is a completed checkout's, for its order
\* with the total and the reference of the lookup.  eSewa's is a payload's that
\* passed the check, which is only known to name the invoice.
Backed(p) ==
    \/ /\ p.transaction_id \in Pidxs
       /\ checkout[p.transaction_id].state = "completed"
       /\ p.invoice_id = checkout[p.transaction_id].invoice
       /\ p.amount = checkout[p.transaction_id].amount
       /\ p.gateway_ref_id = RefOf[p.transaction_id]
    \/ /\ p.transaction_id \in Uuids
       /\ p.invoice_id = InvoiceOf[p.transaction_id]
       /\ p.amount \in PaidAmounts

\* No row is anything else, whatever the callback URLs say and however requests
\* overlap: in particular no Khalti row without a completed payment.
RowsAreBacked == \A p \in payments : Backed(p)

\* However stale the sum a reconciliation read, an invoice that was not
\* created PAID is PAID only if its payments cover it, and PARTIALLY_PAID only
\* if it has payments: reconcileInvoiceStatus reads before it writes.
StatusIsEarned ==
    \A i \in Invoices :
        /\ status[i] = "PAID" => paid[i] >= Amount[i] \/ "PAID" \in InitialStatuses
        /\ status[i] = "PARTIALLY_PAID" => paid[i] > 0

\* A caller told of success, by either reply, finds a row with the reference it
\* came with, also after a crash.  The reply says nothing of the transaction: one
\* that came without a reference only knows that some row is there.
AcknowledgedIsRecorded ==
    \A ref \in acked : \E p \in payments : ref \in {p.gateway_ref_id, None}

\* A transaction has at most one receipt job, and only if it was recorded.
OneReceiptPerTransaction ==
    /\ \A r, s \in receipts : r.transaction_id = s.transaction_id => r = s
    /\ \A r \in receipts : \E p \in payments :
         p.id = r.paymentId /\ p.transaction_id = r.transaction_id

\* What a set of Payment rows adds up to, counted paisa by paisa.
Paisa(rows) == UNION {{p} \X (1..p.amount) : p \in rows}
Total(rows) == Cardinality(Paisa(rows))

RowsOf(i) == {p \in payments : p.invoice_id = i}

\* The sum a reconciliation reads is that of the invoice's rows.
SumsAreTrue == \A i \in Invoices : paid[i] = Total(RowsOf(i))

\* The revenue counter, one for all invoices, never exceeds what the rows add up
\* to: no repeated callback adds to it again, and a restart only lowers it.
RevenueNotOvercounted == revenue <= Total(payments)

\* Neither the sweep nor a later payment takes PAID away from an invoice: it is
\* lost only to a reconciliation that read its sum before the last payment.
PaidIsLostToStaleSums ==
    [][\A i \in Invoices : status[i] = "PAID" /\ status'[i] # "PAID" =>
         \E h \in Handlers : /\ pc[h] = "reconcileWrite"
                             /\ req[h].order = i
                             /\ req[h].newStatus = "PARTIALLY_PAID"
                             /\ paid[i] >= Amount[i]]_vars

\* Neither callback looks at the status, so a cancelled invoice may be paid; but
\* only a payment recorded for it takes CANCELLED away, and never the sweep,
\* whatever the sweep's earlier read of the affected tenants said.
CancelledNeedsPayment ==
    [][\A i \in Invoices : status[i] = "CANCELLED" /\ status'[i] # "CANCELLED" =>
         /\ status'[i] \in {"PAID", "PARTIALLY_PAID"}
         /\ \E p \in RowsOf(i) : Backed(p)]_vars

\* When no call fails, an invoice whose payments come to cover it is PAID at
\* some moment: the callback that records last reconciles after every row is
\* there.  (A stale write may take PAID away again.)
FullPaymentIsSeen ==
    \A i \in Invoices :
        <>((\E p \in payments : p.invoice_id = i) /\ paid[i] >= Amount[i])
            => <>(status[i] = "PAID")

\* When no call fails, every recorded payment gets its receipt job.
RecordedIsReceipted ==
    \A t \in Txns : (\E p \in payments : p.transaction_id = t)
                        ~> \E r \in receipts : r.transaction_id = t

\* An unpaid invoice past its due date is swept or paid, whatever the
\* callbacks do meanwhile.
OverdueIsSwept == \A i \in Invoices : Overdue(i) ~> ~Overdue(i)

\* What Khalti took, what was credited and the references on record, as the
\* ledger sees them.
Bill == [t \in Pidxs |->
           IF checkout[t].state = "completed"
             THEN [invoice |-> checkout[t].invoice, amount |-> checkout[t].amount]
             ELSE None]
Credited == {p.transaction_id : p \in payments}
References == {p.gateway_ref_id : p \in payments}

L == INSTANCE Ledger WITH
       LookedUp <- Pidxs, Reported <- Uuids, Amounts <- PaidAmounts, NotPaid <- None,
       Unnamed <- None, bill <- Bill, credited <- Credited, references <- References,
       balance <- paid, confirmed <- acked

\* The callbacks implement the ledger: a Khalti transaction is credited only when
\* it was paid, with what was paid, where it was paid for; an eSewa one where its
\* id says, with what its callback says; either at most once; and only recorded
\* references are confirmed, under every interleaving, failure and crash.
ImplementsLedger == L!Spec
=============================================================================
