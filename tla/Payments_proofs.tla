--------------------------- MODULE Payments_proofs ---------------------------
(***************************************************************************)
(* Theorems about Payments, for every number of invoices, tenants,         *)
(* transactions, concurrent requests and failures.                         *)
(***************************************************************************)
EXTENDS Payments, FiniteSetTheorems, TLAPS

-----------------------------------------------------------------------------
(* Type correctness needs two facts more than TypeOK says: a handler that   *)
(* is at work has a request, of Khalti's when it stands at the lookup and   *)
(* with a status to write when it stands at the write, and an open or       *)
(* completed checkout names an invoice.                                     *)

ActiveHasRequest ==
    \A h \in Handlers :
        /\ pc[h] # "idle" => req[h] \in Request
        /\ pc[h] = "lookup" => req[h].txn \in Pidxs
        /\ pc[h] = "reconcileWrite" => req[h].newStatus \in STATUS

CompletedHasInvoice ==
    \A t \in Pidxs : checkout[t].state # "none" => checkout[t].invoice \in Invoices

TypeInv == TypeOK /\ ActiveHasRequest /\ CompletedHasInvoice

\* Every initial state is well typed.
LEMMA InitTypeInv == Init => TypeInv
<1> SUFFICES ASSUME Init PROVE TypeInv
  OBVIOUS
<1>1. status \in [Invoices -> STATUS]
  BY PaymentsAssumption DEF Init, CreationStatus
<1>2. checkout \in [Pidxs -> Checkout]
  BY DEF Init, Checkout
<1>3. faults \in 0..MaxFaults
  BY PaymentsAssumption DEF Init
<1>4. TypeOK
  BY <1>1, <1>2, <1>3 DEF Init, TypeOK
<1>5. QED
  BY <1>4 DEF Init, TypeInv, ActiveHasRequest, CompletedHasInvoice

\* The checkouts keep their type, and no handler notices.
LEMMA EnvironmentTypeInv == TypeInv /\ Environment => TypeInv'
<1> SUFFICES ASSUME TypeInv, Environment PROVE TypeInv'
  OBVIOUS
<1> USE PaymentsAssumption
        DEF TypeInv, TypeOK, ActiveHasRequest, CompletedHasInvoice, Checkout, dbVars,
            handlerVars, cronVars, replyVars
<1>1. ASSUME NEW i \in Invoices, NEW n \in Tenants, NEW t \in Pidxs,
             InitiateKhaltiPayment(i, n, t)
      PROVE  TypeInv'
  <2>1. [state |-> "open", invoice |-> i, amount |-> 0] \in Checkout
    OBVIOUS
  <2>2. QED
    BY <1>1, <2>1 DEF InitiateKhaltiPayment
<1>2. ASSUME NEW t \in Pidxs, NEW amount \in PaidAmounts, CompleteCheckout(t, amount)
      PROVE  TypeInv'
  <2> DEFINE c == checkout[t]
  <2>1. [c EXCEPT !.state = "completed", !.amount = amount] \in Checkout
    <3>1. c \in Checkout /\ amount \in Nat
      OBVIOUS
    <3>2. QED
      BY <3>1
  <2>2. checkout' \in [Pidxs -> Checkout] /\ CompletedHasInvoice'
    BY <1>2, <2>1 DEF CompleteCheckout
  <2>3. QED
    BY <1>2, <2>2 DEF CompleteCheckout
<1>3. ASSUME NEW i \in Invoices, FallDue(i)
      PROVE  TypeInv'
  BY <1>3 DEF FallDue
<1>4. QED
  BY <1>1, <1>2, <1>3 DEF Environment

\* A request slot goes from one well-typed state to the next.
LEMMA ArrivalTypeInv ==
    ASSUME NEW h \in Handlers, TypeInv, Arrival(h)
    PROVE  TypeInv'
<1> USE PaymentsAssumption
        DEF TypeInv, TypeOK, ActiveHasRequest, CompletedHasInvoice, Request, NewRequest,
            dbVars, handlerVars, cronVars, replyVars, Goto, Verified, Recording, Txns
<1>1. ASSUME NEW payload \in AcceptedPayloads, NEW n \in Tenants,
             EsewaCallback(h, payload, n)
      PROVE  TypeInv'
  <2> DEFINE t == payload.transaction_uuid
  <2>1. NewRequest(t, InvoiceOf[t], n, payload.transaction_code, payload.total_amount)
          \in Request
    BY DEF AcceptedPayloads
  <2>2. QED
    BY <1>1, <2>1 DEF EsewaCallback
<1>2. ASSUME NEW t \in Pidxs, NEW i \in Invoices, NEW n \in Tenants,
             KhaltiCallback(h, t, i, n)
      PROVE  TypeInv'
  <2>1. NewRequest(t, i, n, None, 0) \in Request /\ NewRequest(t, i, n, None, 0).txn = t
    OBVIOUS
  <2>2. QED
    BY <1>2, <2>1 DEF KhaltiCallback
<1>3. QED
  BY <1>1, <1>2 DEF Arrival

\* Every step of a handler, one by one.
LEMMA HandlerTypeInv ==
    ASSUME NEW h \in Handlers, TypeInv, HandlerStep(h)
    PROVE  TypeInv'
<1> USE DEF TypeInv, TypeOK, ActiveHasRequest, CompletedHasInvoice, dbVars, handlerVars,
            cronVars, replyVars, Goto, Finish, Verified, Recording
<1>1. CASE KhaltiLookup(h)
  <2> DEFINE t == req[h].txn
             looked == [req[h] EXCEPT !.ref = RefOf[t], !.amount = checkout[t].amount]
  <2>1. req[h] \in Request /\ t \in Pidxs
    BY <1>1 DEF KhaltiLookup
  <2>2. RefOf[t] \in Refs /\ checkout[t].amount \in Nat
    BY <2>1, PaymentsAssumption DEF Checkout
  <2>3. looked \in Request
    BY <2>1, <2>2 DEF Request
  <2>4. CASE KhaltiVerifies(t, req[h].order)
    <3>1. req' = [req EXCEPT ![h] = looked] /\ pc' = [pc EXCEPT ![h] = "findInvoice"]
      BY <1>1, <2>4 DEF KhaltiLookup
    <3>2. QED
      BY <1>1, <2>3, <3>1 DEF KhaltiLookup
  <2>5. CASE ~KhaltiVerifies(t, req[h].order)
    BY <1>1, <2>5 DEF KhaltiLookup
  <2>6. QED
    BY <2>4, <2>5
<1>2. CASE FindInvoice(h)
  BY <1>2 DEF FindInvoice
<1>3. CASE FindExisting(h)
  BY <1>3 DEF FindExisting, Request
<1>4. CASE CreatePayment(h)
  <2>1. req[h] \in Request /\ req[h].amount \in Nat
    BY <1>4 DEF CreatePayment, Request
  <2>2. payments' \subseteq Payment /\ paid' \in [Invoices -> Nat]
    BY <1>4, <2>1 DEF CreatePayment, Payment, Request
  <2>3. pc' \in [Handlers -> {"idle", "lookup"} \cup Verified]
    BY <1>4 DEF CreatePayment
  <2>4. req' \in [Handlers -> Request \cup {None}] /\ ActiveHasRequest'
    BY <1>4 DEF CreatePayment
  <2>5. QED
    BY <1>4, <2>2, <2>3, <2>4 DEF CreatePayment
<1>5. CASE ReconcileRead(h)
  <2> DEFINE new == ComputeStatus(paid[req[h].order], Amount[req[h].order])
  <2>1. req[h] \in Request
    BY <1>5 DEF ReconcileRead
  <2>2. new \in STATUS \cup {None}
    BY DEF ComputeStatus, STATUS
  <2>3. [req[h] EXCEPT !.newStatus = new] \in Request
    BY <2>1, <2>2 DEF Request
  <2>4. [req[h] EXCEPT !.newStatus = new].newStatus = new
    BY <2>1 DEF Request
  <2>5. CASE new \in {None, status[req[h].order]}
    BY <1>5, <2>5 DEF ReconcileRead
  <2>6. CASE new \notin {None, status[req[h].order]}
    <3>1. req' = [req EXCEPT ![h] = [req[h] EXCEPT !.newStatus = new]]
      BY <1>5, <2>6 DEF ReconcileRead
    <3>2. new \in STATUS
      BY <2>2, <2>6
    <3>3. ActiveHasRequest' /\ req' \in [Handlers -> Request \cup {None}]
      BY <1>5, <2>6, <2>3, <2>4, <3>1, <3>2 DEF ReconcileRead
    <3>4. QED
      BY <1>5, <2>6, <3>3 DEF ReconcileRead
  <2>7. QED
    BY <2>5, <2>6
<1>6. CASE ReconcileWrite(h)
  <2>1. req[h] \in Request
    BY <1>6 DEF ReconcileWrite
  <2>2. QED
    BY <1>6, <2>1 DEF ReconcileWrite, Request
<1>7. CASE BumpGet(h)
  <2>1. req[h] \in Request
    BY <1>7 DEF BumpGet
  <2>2. [req[h] EXCEPT !.version = payVersion[req[h].tenant]] \in Request
    BY <2>1 DEF Request
  <2>3. QED
    BY <1>7, <2>1, <2>2 DEF BumpGet
<1>8. CASE BumpSet(h)
  <2>1. req[h].version + 1 \in Nat
    BY <1>8 DEF BumpSet, Request
  <2>2. QED
    BY <1>8, <2>1 DEF BumpSet
<1>9. CASE QueueReceipt(h)
  <2>1. req[h].txn \in Txns /\ req[h].amount \in Nat /\ req[h].ref \in Refs \cup {None}
    BY <1>9 DEF QueueReceipt, Request
  <2>2. receipts' \subseteq ReceiptJob /\ faults' \in 0..MaxFaults
    BY <1>9, <2>1, PaymentsAssumption DEF QueueReceipt, ReceiptJob, Payment
  <2>3. QED
    BY <1>9, <2>1, <2>2 DEF QueueReceipt
<1>10. QED
  BY <1>1, <1>2, <1>3, <1>4, <1>5, <1>6, <1>7, <1>8, <1>9 DEF HandlerStep

\* The sweep, and everything that can fail.
LEMMA OtherTypeInv ==
    ASSUME TypeInv,
           CronStep \/ CronFail \/ Crash \/ (\E h \in Handlers : Fail(h))
    PROVE  TypeInv'
<1> USE PaymentsAssumption
        DEF TypeInv, TypeOK, ActiveHasRequest, CompletedHasInvoice, dbVars, handlerVars,
            cronVars, replyVars
<1>1. CASE CronFindAffected
  BY <1>1 DEF CronFindAffected
<1>2. CASE CronUpdate
  BY <1>2 DEF CronUpdate, STATUS
<1>3. ASSUME NEW n \in Tenants, CronInvalidate(n) PROVE TypeInv'
  BY <1>3 DEF CronInvalidate
<1>4. CASE CronFail
  BY <1>4 DEF CronFail
<1>5. CASE Crash
  BY <1>5 DEF Crash
<1>6. ASSUME NEW h \in Handlers, Fail(h) PROVE TypeInv'
  BY <1>6 DEF Fail, Finish
<1>7. QED
  BY <1>1, <1>2, <1>3, <1>4, <1>5, <1>6 DEF CronStep

\* Every step keeps the types.
LEMMA NextTypeInv == TypeInv /\ [Next]_vars => TypeInv'
<1> SUFFICES ASSUME TypeInv, [Next]_vars PROVE TypeInv'
  OBVIOUS
<1>1. CASE UNCHANGED vars
  BY <1>1 DEF vars, dbVars, handlerVars, cronVars, replyVars, TypeInv, TypeOK,
              ActiveHasRequest, CompletedHasInvoice
<1>2. CASE Next
  BY <1>2, EnvironmentTypeInv, ArrivalTypeInv, HandlerTypeInv, OtherTypeInv DEF Next
<1>3. QED
  BY <1>1, <1>2

\* Every reachable state is well typed: in particular no handler works on a
\* request it does not have.
THEOREM TypeCorrect == Spec => []TypeOK
<1>1. TypeInv => TypeOK
  BY DEF TypeInv
<1>2. QED
  BY InitTypeInv, NextTypeInv, <1>1, PTL DEF Spec

-----------------------------------------------------------------------------
(* The safety invariants hold by one induction.  They are inductive once    *)
(* they say what a handler knows at each await: a verified request of       *)
(* Khalti's has what the completed checkout says, one of eSewa's has the    *)
(* invoice its id names, a recorded one has its row, and the status a       *)
(* handler is about to write was earned when it was computed.               *)

RowsAreUnique ==
    \A p, q \in payments : p.transaction_id = q.transaction_id => p = q

VerifiedRequest(h) ==
    pc[h] \in Verified =>
        \/ /\ req[h].txn \in Pidxs
           /\ checkout[req[h].txn].state = "completed"
           /\ checkout[req[h].txn].invoice = req[h].order
           /\ checkout[req[h].txn].amount = req[h].amount
           /\ req[h].ref = RefOf[req[h].txn]
        \/ /\ req[h].txn \in Uuids
           /\ req[h].order = InvoiceOf[req[h].txn]
           /\ req[h].amount \in PaidAmounts

\* The row of a request that has written it.
IsRowOf(p, h) ==
    /\ p.transaction_id = req[h].txn /\ p.invoice_id = req[h].order
    /\ p.gateway_ref_id = req[h].ref /\ p.amount = req[h].amount

RecordedRequest(h) == pc[h] \in Recording => \E p \in payments : IsRowOf(p, h)

EarnedWrite(h) ==
    pc[h] = "reconcileWrite" =>
        /\ req[h].newStatus = "PAID" => paid[req[h].order] >= Amount[req[h].order]
        /\ req[h].newStatus = "PARTIALLY_PAID" => paid[req[h].order] > 0

HandlerInv ==
    \A h \in Handlers : VerifiedRequest(h) /\ RecordedRequest(h) /\ EarnedWrite(h)

Safety ==
    /\ RowsAreUnique
    /\ HandlerInv
    /\ RowsAreBacked
    /\ StatusIsEarned
    /\ AcknowledgedIsRecorded
    /\ OneReceiptPerTransaction

IInv == TypeInv /\ Safety

\* Nothing is recorded at first.
LEMMA InitSafety == Init => Safety
BY PaymentsAssumption
   DEF Init, Safety, RowsAreUnique, HandlerInv, VerifiedRequest,
       RecordedRequest, IsRowOf, EarnedWrite, RowsAreBacked, Backed, StatusIsEarned,
       AcknowledgedIsRecorded, OneReceiptPerTransaction, CreationStatus, Verified, Recording

\* A checkout that is completed stays as it is, so what is said of completed
\* checkouts is not disturbed by the others.
LEMMA EnvironmentSafety ==
    ASSUME TypeInv, Safety, Environment
    PROVE  Safety'
<1>1. UNCHANGED <<dbVars, handlerVars, replyVars>>
  BY DEF Environment, InitiateKhaltiPayment,
         CompleteCheckout, FallDue
<1>2. \A t \in Pidxs : checkout[t].state = "completed" => checkout'[t] = checkout[t]
  BY DEF Environment, InitiateKhaltiPayment,
         CompleteCheckout, FallDue, TypeInv, TypeOK
<1>3. RowsAreBacked'
  BY <1>1, <1>2 DEF Safety, RowsAreBacked, Backed, TypeInv, TypeOK, Payment, dbVars
<1>4. HandlerInv'
  <2> SUFFICES ASSUME NEW h \in Handlers
               PROVE  (VerifiedRequest(h) /\ RecordedRequest(h) /\ EarnedWrite(h))'
    BY DEF HandlerInv
  <2>1. VerifiedRequest(h)'
    BY <1>1, <1>2 DEF Safety, HandlerInv, VerifiedRequest, handlerVars
  <2>2. RecordedRequest(h)' /\ EarnedWrite(h)'
    BY <1>1 DEF Safety, HandlerInv, RecordedRequest, IsRowOf, EarnedWrite, handlerVars,
                dbVars
  <2>3. QED
    BY <2>1, <2>2
<1>5. QED
  BY <1>1, <1>3, <1>4
     DEF Safety, RowsAreUnique, StatusIsEarned, AcknowledgedIsRecorded,
         OneReceiptPerTransaction, dbVars, replyVars

\* The steps in which handlers only move, or leave: they write no row, no
\* status, no job and confirm nothing.
LEMMA MovingSafety ==
    ASSUME TypeInv, Safety, UNCHANGED <<dbVars, checkout, receipts, acked>>, HandlerInv'
    PROVE  Safety'
BY DEF Safety, RowsAreUnique, RowsAreBacked, Backed, StatusIsEarned,
       AcknowledgedIsRecorded, OneReceiptPerTransaction, dbVars

\* A handler that leaves one of the others alone leaves what it knows alone.
LEMMA OtherHandlers ==
    ASSUME TypeInv, Safety, UNCHANGED <<dbVars, checkout>>, NEW h \in Handlers,
           \A g \in Handlers \ {h} : pc'[g] = pc[g] /\ req'[g] = req[g],
           (VerifiedRequest(h) /\ RecordedRequest(h) /\ EarnedWrite(h))'
    PROVE  HandlerInv'
BY DEF Safety, HandlerInv, VerifiedRequest, RecordedRequest, IsRowOf, EarnedWrite, dbVars

\* A request of eSewa's comes in with the invoice its id names, one of Khalti's
\* with nothing verified.
LEMMA ArrivalSafety ==
    ASSUME NEW h \in Handlers, TypeInv, Safety, Arrival(h)
    PROVE  Safety'
<1> USE DEF dbVars, replyVars, Goto
<1>1. UNCHANGED <<dbVars, checkout, receipts, acked>>
  BY DEF Arrival, EsewaCallback, KhaltiCallback
<1>2. \A g \in Handlers \ {h} : pc'[g] = pc[g] /\ req'[g] = req[g]
  BY DEF Arrival, EsewaCallback, KhaltiCallback, TypeInv, TypeOK
<1>3. (VerifiedRequest(h) /\ RecordedRequest(h) /\ EarnedWrite(h))'
  <2>1. ASSUME NEW payload \in AcceptedPayloads, NEW n \in Tenants,
               EsewaCallback(h, payload, n)
        PROVE  (VerifiedRequest(h) /\ RecordedRequest(h) /\ EarnedWrite(h))'
    BY <2>1 DEF EsewaCallback, AcceptedPayloads, NewRequest, VerifiedRequest,
                RecordedRequest, EarnedWrite, TypeInv, TypeOK, Verified, Recording
  <2>2. CASE \E t \in Pidxs, i \in Invoices, n \in Tenants : KhaltiCallback(h, t, i, n)
    BY <2>2 DEF KhaltiCallback, VerifiedRequest, RecordedRequest, EarnedWrite, TypeInv,
                TypeOK, Verified, Recording
  <2>3. QED
    BY <2>1, <2>2 DEF Arrival
<1>4. QED
  BY <1>1, <1>2, <1>3, OtherHandlers, MovingSafety

\* The lookup lets a request pass only for a completed checkout of the order, and
\* with the total and the reference of that checkout.
LEMMA LookupSafety ==
    ASSUME NEW h \in Handlers, TypeInv, Safety, KhaltiLookup(h) \/ FindInvoice(h)
    PROVE  Safety'
<1> USE DEF dbVars, replyVars, Goto, Finish
<1>1. UNCHANGED <<dbVars, checkout, receipts, acked>>
  BY DEF KhaltiLookup, FindInvoice
<1>2. \A g \in Handlers \ {h} : pc'[g] = pc[g] /\ req'[g] = req[g]
  BY DEF KhaltiLookup, FindInvoice, TypeInv, TypeOK
<1>3. (VerifiedRequest(h) /\ RecordedRequest(h) /\ EarnedWrite(h))'
  <2>1. CASE FindInvoice(h)
    BY <2>1 DEF FindInvoice, Safety, HandlerInv, VerifiedRequest, RecordedRequest,
                EarnedWrite, TypeInv, TypeOK, Verified, Recording
  <2>2. CASE KhaltiLookup(h)
    <3> DEFINE t == req[h].txn
    <3>1. req[h] \in Request /\ t \in Pidxs
      BY <2>2 DEF KhaltiLookup, TypeInv, ActiveHasRequest
    <3>2. CASE KhaltiVerifies(t, req[h].order)
      <4>1. /\ req'[h].txn = t /\ req'[h].order = req[h].order
            /\ req'[h].ref = RefOf[t] /\ req'[h].amount = checkout[t].amount
            /\ pc'[h] = "findInvoice"
        BY <2>2, <3>1, <3>2 DEF KhaltiLookup, Request, TypeInv, TypeOK
      <4>2. VerifiedRequest(h)'
        BY <1>1, <3>1, <3>2, <4>1 DEF VerifiedRequest, KhaltiVerifies
      <4>3. QED
        BY <4>1, <4>2 DEF RecordedRequest, EarnedWrite, Recording
    <3>3. CASE ~KhaltiVerifies(t, req[h].order)
      BY <2>2, <3>3 DEF KhaltiLookup, VerifiedRequest, RecordedRequest, EarnedWrite, TypeInv,
                        TypeOK, Verified, Recording
    <3>4. QED
      BY <3>2, <3>3
  <2>3. QED
    BY <2>1, <2>2
<1>4. QED
  BY <1>1, <1>2, <1>3, OtherHandlers, MovingSafety

\* The row found has the reference the request came with.
LEMMA FindExistingSafety ==
    ASSUME NEW h \in Handlers, TypeInv, Safety, FindExisting(h)
    PROVE  Safety'
<1> USE DEF dbVars, Goto, Finish
<1>1. UNCHANGED <<dbVars, checkout, receipts>>
  BY DEF FindExisting
<1>2. \A g \in Handlers \ {h} : pc'[g] = pc[g] /\ req'[g] = req[g]
  BY DEF FindExisting, TypeInv, TypeOK
<1>3. (VerifiedRequest(h) /\ RecordedRequest(h) /\ EarnedWrite(h))'
  BY DEF FindExisting, Safety, HandlerInv, VerifiedRequest, RecordedRequest, IsRowOf,
         EarnedWrite,
         TypeInv, TypeOK, Verified, Recording
<1>4. HandlerInv'
  BY <1>1, <1>2, <1>3, OtherHandlers
<1>5. AcknowledgedIsRecorded'
  BY DEF FindExisting, AlreadyRecorded, Safety, AcknowledgedIsRecorded
<1>6. QED
  BY <1>1, <1>4, <1>5
     DEF Safety, RowsAreUnique, RowsAreBacked, Backed, StatusIsEarned,
         OneReceiptPerTransaction

\* The unique index keeps the rows apart; the row added is what its request carries;
\* and a larger sum takes nothing away from what was earned.
LEMMA CreatePaymentSafety ==
    ASSUME NEW h \in Handlers, TypeInv, Safety, CreatePayment(h)
    PROVE  Safety'
<1> USE DEF Goto, Finish, replyVars
<1> DEFINE t == req[h].txn
           i == req[h].order
<1>1. req[h] \in Request /\ t \in Txns /\ i \in Invoices /\ req[h].amount \in Nat
  BY DEF CreatePayment, TypeInv, ActiveHasRequest, Request
<1>2. \A g \in Handlers \ {h} : pc'[g] = pc[g] /\ req'[g] = req[g]
  BY DEF CreatePayment, TypeInv, TypeOK
<1>3. UNCHANGED <<status, checkout, receipts, acked>>
  BY DEF CreatePayment
<1>4. CASE ~UniqueTransaction(t)
  <2>1. UNCHANGED dbVars /\ pc'[h] = "idle"
    BY <1>4 DEF CreatePayment, dbVars, TypeInv, TypeOK
  <2>2. (VerifiedRequest(h) /\ RecordedRequest(h) /\ EarnedWrite(h))'
    BY <2>1 DEF VerifiedRequest, RecordedRequest, IsRowOf, EarnedWrite, Verified, Recording
  <2>3. QED
    BY <1>2, <1>3, <2>1, <2>2, OtherHandlers, MovingSafety
<1>5. CASE UniqueTransaction(t)
  <2>1. PICK id \in PaymentIds :
            payments' = payments \cup
              {[id |-> id, invoice_id |-> i, transaction_id |-> t,
                gateway_ref_id |-> req[h].ref, amount |-> req[h].amount]}
    BY <1>5 DEF CreatePayment
  <2>2. /\ paid' = [paid EXCEPT ![i] = @ + req[h].amount]
        /\ pc'[h] = "reconcileRead"
        /\ req' = req
    BY <1>5 DEF CreatePayment, TypeInv, TypeOK
  <2>3. /\ paid' \in [Invoices -> Nat]
        /\ \A j \in Invoices : paid'[j] >= paid[j]
    <3>1. paid \in [Invoices -> Nat]
      BY DEF TypeInv, TypeOK
    <3>2. paid[i] + req[h].amount \in Nat
      BY <3>1, <1>1
    <3>3. QED
      BY <3>1, <3>2, <2>2, <1>1
  <2>4. RowsAreUnique'
    BY <2>1, <1>5 DEF Safety, RowsAreUnique, UniqueTransaction
  <2>6. VerifiedRequest(h)
    BY DEF Safety, HandlerInv
  <2>7. RowsAreBacked'
    BY <2>1, <2>6, <1>3 DEF Safety, RowsAreBacked, Backed, VerifiedRequest, CreatePayment,
                            Verified
  <2>8. StatusIsEarned'
    <3>1. Amount \in [Invoices -> Int] /\ paid \in [Invoices -> Nat]
      BY PaymentsAssumption DEF TypeInv, TypeOK
    <3>2. QED
      BY <3>1, <2>3, <1>3 DEF Safety, StatusIsEarned
  <2>9. AcknowledgedIsRecorded' /\ OneReceiptPerTransaction'
    BY <2>1, <1>3 DEF Safety, AcknowledgedIsRecorded, OneReceiptPerTransaction
  <2>10. ASSUME NEW g \in Handlers
         PROVE  (VerifiedRequest(g) /\ RecordedRequest(g) /\ EarnedWrite(g))'
    <3>1. CASE g = h
      <4>1. VerifiedRequest(h)'
        BY <2>2, <2>6, <1>3 DEF VerifiedRequest, CreatePayment, Verified
      <4> DEFINE row == [id |-> id, invoice_id |-> i, transaction_id |-> t,
                         gateway_ref_id |-> req[h].ref, amount |-> req[h].amount]
      <4>2. /\ row \in payments'
            /\ row.transaction_id = t /\ row.invoice_id = i
            /\ row.gateway_ref_id = req[h].ref /\ row.amount = req[h].amount
        BY <2>1
      <4>3. RecordedRequest(h)'
        BY <4>2, <2>2 DEF RecordedRequest, IsRowOf
      <4>4. QED
        BY <3>1, <4>1, <4>3, <2>2 DEF EarnedWrite
    <3>2. CASE g # h
      <4>1. VerifiedRequest(g) /\ RecordedRequest(g) /\ EarnedWrite(g)
        BY DEF Safety, HandlerInv
      <4>2. VerifiedRequest(g)' /\ RecordedRequest(g)'
        BY <3>2, <4>1, <1>2, <1>3, <2>1 DEF VerifiedRequest, RecordedRequest, IsRowOf
      <4>3. pc[g] = "reconcileWrite" => req[g].order \in Invoices
        BY DEF TypeInv, ActiveHasRequest, Request
      <4>4. Amount \in [Invoices -> Int] /\ paid \in [Invoices -> Nat]
        BY PaymentsAssumption DEF TypeInv, TypeOK
      <4>5. EarnedWrite(g)'
        BY <3>2, <4>1, <4>3, <4>4, <1>2, <2>3 DEF EarnedWrite
      <4>6. QED
        BY <4>2, <4>5
    <3>3. QED
      BY <3>1, <3>2
  <2>11. HandlerInv'
    BY <2>10 DEF HandlerInv
  <2>12. QED
    BY <2>4, <2>7, <2>8, <2>9, <2>11 DEF Safety
<1>6. QED
  BY <1>4, <1>5

\* The status computed is earned by the sum it was computed from.
LEMMA ReconcileReadSafety ==
    ASSUME NEW h \in Handlers, TypeInv, Safety, ReconcileRead(h)
    PROVE  Safety'
<1> DEFINE i == req[h].order
           new == ComputeStatus(paid[i], Amount[i])
<1>1. UNCHANGED <<dbVars, checkout, receipts, acked>>
  BY DEF ReconcileRead, replyVars
<1>2. \A g \in Handlers \ {h} : pc'[g] = pc[g] /\ req'[g] = req[g]
  BY DEF ReconcileRead, Goto, TypeInv, TypeOK
<1>3. req[h] \in Request /\ i \in Invoices
  BY DEF ReconcileRead, TypeInv, ActiveHasRequest, Request
<1>4. /\ req'[h].txn = req[h].txn /\ req'[h].order = i
      /\ req'[h].ref = req[h].ref /\ req'[h].amount = req[h].amount
      /\ pc'[h] = "reconcileWrite" => req'[h].newStatus = new /\ new # None
      /\ pc'[h] \in {"reconcileWrite", "queueReceipt"}
  BY <1>3 DEF ReconcileRead, Goto, Request, TypeInv, TypeOK
<1>5. (VerifiedRequest(h) /\ RecordedRequest(h))'
  BY <1>1, <1>4 DEF Safety, HandlerInv, VerifiedRequest, RecordedRequest, IsRowOf,
                    ReconcileRead,
                    Verified, Recording, dbVars
<1>6. EarnedWrite(h)'
  <2>1. paid[i] \in Nat /\ Amount[i] \in Int
    BY <1>3, PaymentsAssumption DEF TypeInv, TypeOK
  <2>2. new # None => /\ new = "PAID" => paid[i] >= Amount[i]
                      /\ new = "PARTIALLY_PAID" => paid[i] > 0
    BY <2>1 DEF ComputeStatus
  <2>3. QED
    BY <1>1, <1>4, <2>2 DEF EarnedWrite, dbVars
<1>7. QED
  BY <1>1, <1>2, <1>5, <1>6, OtherHandlers, MovingSafety

\* The status written was earned when its sum was read, and sums only grow.
LEMMA ReconcileWriteSafety ==
    ASSUME NEW h \in Handlers, TypeInv, Safety, ReconcileWrite(h)
    PROVE  Safety'
<1>1. UNCHANGED <<paid, payments, checkout, req, receipts, acked>>
  BY DEF ReconcileWrite, replyVars
<1>2. pc' = [pc EXCEPT ![h] = "bumpGet"] /\ pc[h] = "reconcileWrite"
  BY DEF ReconcileWrite, Goto
<1>3. HandlerInv'
  BY <1>1, <1>2 DEF Safety, HandlerInv, VerifiedRequest, RecordedRequest, IsRowOf,
                    EarnedWrite,
                    TypeInv, TypeOK, Verified, Recording
<1>4. StatusIsEarned'
  <2>1. req[h].order \in Invoices
    BY <1>2 DEF TypeInv, ActiveHasRequest, Request
  <2>2. EarnedWrite(h)
    BY DEF Safety, HandlerInv
  <2>3. QED
    BY <1>1, <1>2, <2>1, <2>2
       DEF ReconcileWrite, EarnedWrite, Safety, StatusIsEarned, TypeInv, TypeOK
<1>5. QED
  BY <1>1, <1>3, <1>4
     DEF Safety, RowsAreUnique, RowsAreBacked, Backed,
         AcknowledgedIsRecorded, OneReceiptPerTransaction

\* The cache key of the tenant is of no consequence to the rows.
LEMMA BumpSafety ==
    ASSUME NEW h \in Handlers, TypeInv, Safety, BumpGet(h) \/ BumpSet(h)
    PROVE  Safety'
<1>1. UNCHANGED <<dbVars, checkout, receipts, acked>>
  BY DEF BumpGet, BumpSet, replyVars
<1>2. \A g \in Handlers \ {h} : pc'[g] = pc[g] /\ req'[g] = req[g]
  BY DEF BumpGet, BumpSet, Goto, TypeInv, TypeOK
<1>3. /\ req'[h].txn = req[h].txn /\ req'[h].order = req[h].order
      /\ req'[h].ref = req[h].ref /\ req'[h].amount = req[h].amount
      /\ pc[h] \in {"bumpGet", "bumpSet"}
      /\ pc'[h] \in {"bumpSet", "queueReceipt"}
  BY DEF BumpGet, BumpSet, Goto, TypeInv, TypeOK, ActiveHasRequest, Request
<1>4. (VerifiedRequest(h) /\ RecordedRequest(h) /\ EarnedWrite(h))'
  BY <1>1, <1>3 DEF Safety, HandlerInv, VerifiedRequest, RecordedRequest, IsRowOf,
                    EarnedWrite,
                    Verified, Recording, dbVars
<1>5. QED
  BY <1>1, <1>2, <1>4, OtherHandlers, MovingSafety

\* The job names the row of the transaction, and rows are unique.
LEMMA QueueReceiptSafety ==
    ASSUME NEW h \in Handlers, TypeInv, Safety, QueueReceipt(h)
    PROVE  Safety'
<1> DEFINE t == req[h].txn
<1>1. UNCHANGED <<dbVars, checkout>>
  BY DEF QueueReceipt
<1>2. \A g \in Handlers \ {h} : pc'[g] = pc[g] /\ req'[g] = req[g]
  BY DEF QueueReceipt, Finish, TypeInv, TypeOK
<1>3. (VerifiedRequest(h) /\ RecordedRequest(h) /\ EarnedWrite(h))'
  BY DEF QueueReceipt, Finish, VerifiedRequest, RecordedRequest, IsRowOf, EarnedWrite,
         TypeInv,
         TypeOK, Verified, Recording
<1>4. HandlerInv'
  BY <1>1, <1>2, <1>3, OtherHandlers
<1>5. PICK p \in payments : p.transaction_id = t /\ p.gateway_ref_id = req[h].ref
  BY DEF Safety, HandlerInv, RecordedRequest, IsRowOf, QueueReceipt, Recording
<1>6. AcknowledgedIsRecorded'
  BY <1>1, <1>5 DEF Safety, AcknowledgedIsRecorded, QueueReceipt, dbVars
<1>7. OneReceiptPerTransaction'
  <2>1. receipts' \subseteq receipts \cup {[paymentId |-> p.id, transaction_id |-> t]}
    BY <1>5 DEF QueueReceipt, Safety, RowsAreUnique
  <2>2. ASSUME NEW r \in receipts, r.transaction_id = t
        PROVE  r = [paymentId |-> p.id, transaction_id |-> t]
    <3>1. r.paymentId = p.id
      BY <1>5, <2>2 DEF Safety, OneReceiptPerTransaction, RowsAreUnique
    <3>2. QED
      BY <2>2, <3>1 DEF TypeInv, TypeOK, ReceiptJob
  <2>3. QED
    BY <1>1, <1>5, <2>1, <2>2 DEF Safety, OneReceiptPerTransaction, dbVars
<1>8. QED
  BY <1>1, <1>4, <1>6, <1>7
     DEF Safety, RowsAreUnique, RowsAreBacked, Backed, StatusIsEarned, dbVars

\* The sweep writes OVERDUE and nothing else; a failure only makes handlers
\* forget.
LEMMA OtherSafety ==
    ASSUME TypeInv, Safety,
           CronStep \/ CronFail \/ Crash \/ (\E h \in Handlers : Fail(h))
    PROVE  Safety'
<1>1. UNCHANGED <<paid, payments, checkout, receipts, acked>>
  BY DEF CronStep, CronFindAffected, CronUpdate, CronInvalidate, CronFail, Crash, Fail,
         dbVars, replyVars
<1>2. \A h \in Handlers : \/ pc'[h] = pc[h] /\ req'[h] = req[h]
                          \/ pc'[h] = "idle"
  BY DEF CronStep, CronFindAffected, CronUpdate, CronInvalidate, CronFail, Crash, Fail,
         Finish, handlerVars, TypeInv, TypeOK
<1>3. \A i \in Invoices : status'[i] \in {status[i], "OVERDUE"}
  BY DEF CronStep, CronFindAffected, CronUpdate, CronInvalidate, CronFail, Crash, Fail,
         dbVars, TypeInv, TypeOK
<1>4. HandlerInv'
  BY <1>1, <1>2 DEF Safety, HandlerInv, VerifiedRequest, RecordedRequest, IsRowOf,
                    EarnedWrite,
                    Verified, Recording
<1>5. StatusIsEarned'
  BY <1>1, <1>3 DEF Safety, StatusIsEarned
<1>6. QED
  BY <1>1, <1>4, <1>5
     DEF Safety, RowsAreUnique, RowsAreBacked, Backed,
         AcknowledgedIsRecorded, OneReceiptPerTransaction

\* Every step keeps the invariant.
LEMMA NextIInv == IInv /\ [Next]_vars => IInv'
<1> SUFFICES ASSUME TypeInv, Safety, [Next]_vars PROVE Safety'
  BY NextTypeInv DEF IInv
<1>1. CASE UNCHANGED vars
  BY <1>1 DEF vars, dbVars, handlerVars, replyVars, Safety, RowsAreUnique,
              HandlerInv, VerifiedRequest, RecordedRequest, IsRowOf, EarnedWrite,
              RowsAreBacked, Backed, StatusIsEarned, AcknowledgedIsRecorded,
              OneReceiptPerTransaction
<1>2. ASSUME NEW h \in Handlers, HandlerStep(h) PROVE Safety'
  BY <1>2, LookupSafety, FindExistingSafety, CreatePaymentSafety, ReconcileReadSafety,
     ReconcileWriteSafety, BumpSafety, QueueReceiptSafety DEF HandlerStep
<1>3. CASE Next
  BY <1>2, <1>3, EnvironmentSafety, ArrivalSafety, OtherSafety DEF Next
<1>4. QED
  BY <1>1, <1>3

\* The invariant holds in every reachable state.
LEMMA Inductive == Spec => []IInv
<1>1. Init => IInv
  BY InitTypeInv, InitSafety DEF IInv
<1>2. QED
  BY <1>1, NextIInv, PTL DEF Spec

\* Every row rests on what its gateway's check establishes: Khalti's on a
\* completed checkout, eSewa's on the invoice its id names, however they overlap.
THEOREM EveryRowIsBacked == Spec => []RowsAreBacked
<1>1. IInv => RowsAreBacked
  BY DEF IInv, Safety
<1>2. QED
  BY <1>1, Inductive, PTL

\* No caller is told of success without a row that bears its reference,
\* whichever of several callbacks wrote it.
THEOREM AcknowledgedAreRecorded == Spec => []AcknowledgedIsRecorded
<1>1. IInv => AcknowledgedIsRecorded
  BY DEF IInv, Safety
<1>2. QED
  BY <1>1, Inductive, PTL

\* No transaction gets two receipt jobs, however its callbacks repeat and overlap.
THEOREM ReceiptsAreSingle == Spec => []OneReceiptPerTransaction
<1>1. IInv => OneReceiptPerTransaction
  BY DEF IInv, Safety
<1>2. QED
  BY <1>1, Inductive, PTL

\* A status that says money came in is backed by rows, although the sum a
\* reconciliation writes from may be stale when it writes.
THEOREM PaidIsEarned == Spec => []StatusIsEarned
<1>1. IInv => StatusIsEarned
  BY DEF IInv, Safety
<1>2. QED
  BY <1>1, Inductive, PTL

-----------------------------------------------------------------------------
(* What a step may do to a status.  A reconciliation writes PAID or          *)
(* PARTIALLY_PAID, and its request has a row of the invoice.                 *)

WritesPayment(h) ==
    pc[h] = "reconcileWrite" => req[h].newStatus \in {"PAID", "PARTIALLY_PAID"}

StatusInv == \A h \in Handlers : WritesPayment(h)

\* Only the write of a reconciliation and the sweep change a status.
LEMMA StatusSteps ==
    ASSUME TypeInv, [Next]_vars
    PROVE  \/ UNCHANGED status
           \/ CronUpdate
           \/ \E h \in Handlers : ReconcileWrite(h)
BY DEF Next, Environment, InitiateKhaltiPayment,
       CompleteCheckout, FallDue, Arrival, EsewaCallback, KhaltiCallback, HandlerStep,
       KhaltiLookup, FindInvoice, FindExisting, CreatePayment, ReconcileRead, BumpGet,
       BumpSet, QueueReceipt, Fail, CronStep, CronFindAffected, CronInvalidate, CronFail,
       Crash, vars, dbVars

\* What the write of a reconciliation does to a status.
LEMMA ReconcileWriteStatus ==
    ASSUME TypeInv, StatusInv, NEW h \in Handlers, ReconcileWrite(h), NEW i \in Invoices,
           status'[i] # status[i]
    PROVE  /\ pc[h] = "reconcileWrite" /\ req[h].order = i
           /\ req[h].newStatus \in {"PAID", "PARTIALLY_PAID"}
           /\ status'[i] = req[h].newStatus
BY DEF ReconcileWrite, StatusInv, WritesPayment, TypeInv, TypeOK

\* What a handler is about to write was computed by the read before it.
LEMMA WritesPaymentStep ==
    ASSUME TypeInv, StatusInv, [Next]_vars, NEW h \in Handlers
    PROVE  WritesPayment(h)'
<1> SUFFICES ASSUME pc'[h] = "reconcileWrite"
             PROVE  req'[h].newStatus \in {"PAID", "PARTIALLY_PAID"}
  BY DEF WritesPayment
<1>1. CASE pc'[h] = pc[h] /\ req'[h] = req[h]
  BY <1>1 DEF StatusInv, WritesPayment
<1>2. CASE ReconcileRead(h)
  <2> DEFINE new == ComputeStatus(paid[req[h].order], Amount[req[h].order])
  <2>1. new \notin {None, status[req[h].order]}
    BY <1>2 DEF ReconcileRead, Goto, TypeInv, TypeOK
  <2>2. new \in {"PAID", "PARTIALLY_PAID"}
    BY <2>1 DEF ComputeStatus
  <2>3. req[h] \in Request
    BY <1>2 DEF ReconcileRead, TypeInv, ActiveHasRequest, Verified, Recording
  <2>4. req'[h] = [req[h] EXCEPT !.newStatus = new]
    BY <1>2, <2>1 DEF ReconcileRead, TypeInv, TypeOK
  <2>5. req'[h].newStatus = new
    BY <2>3, <2>4 DEF Request
  <2>6. QED
    BY <2>2, <2>5
<1>3. ASSUME NEW g \in Handlers,
             \/ Arrival(g) \/ KhaltiLookup(g) \/ FindInvoice(g) \/ FindExisting(g)
             \/ CreatePayment(g) \/ ReconcileWrite(g) \/ BumpGet(g) \/ BumpSet(g)
             \/ QueueReceipt(g) \/ Fail(g)
      PROVE  pc'[h] = pc[h] /\ req'[h] = req[h]
  <2>1. pc'[g] # "reconcileWrite"
    BY <1>3 DEF Arrival, EsewaCallback, KhaltiCallback, KhaltiLookup, FindInvoice,
                FindExisting, CreatePayment, ReconcileWrite, BumpGet, BumpSet, QueueReceipt,
                Fail, Goto, Finish, TypeInv, TypeOK
  <2>2. \A f \in Handlers \ {g} : pc'[f] = pc[f] /\ req'[f] = req[f]
    BY <1>3 DEF Arrival, EsewaCallback, KhaltiCallback, KhaltiLookup, FindInvoice,
                FindExisting, CreatePayment, ReconcileWrite, BumpGet, BumpSet, QueueReceipt,
                Fail, Goto, Finish, TypeInv, TypeOK
  <2>3. QED
    BY <2>1, <2>2
<1>4. ASSUME NEW g \in Handlers, g # h, ReconcileRead(g)
      PROVE  pc'[h] = pc[h] /\ req'[h] = req[h]
  BY <1>4 DEF ReconcileRead, Goto, TypeInv, TypeOK
<1>5. CASE Environment \/ CronStep \/ CronFail \/ UNCHANGED vars
  <2>1. UNCHANGED handlerVars
    BY <1>5 DEF Environment, InitiateKhaltiPayment,
                CompleteCheckout, FallDue, CronStep, CronFindAffected, CronUpdate,
                CronInvalidate, CronFail, vars
  <2>2. QED
    BY <1>1, <2>1 DEF handlerVars
<1>6. CASE Crash
  BY <1>6 DEF Crash
<1>7. QED
  BY <1>1, <1>2, <1>3, <1>4, <1>5, <1>6 DEF Next, HandlerStep

LEMMA StatusInvInductive == Spec => []StatusInv
<1>1. Init => StatusInv
  BY DEF Init, StatusInv, WritesPayment
<1>2. TypeInv /\ StatusInv /\ [Next]_vars => StatusInv'
  BY WritesPaymentStep DEF StatusInv
<1>3. QED
  BY <1>1, <1>2, InitTypeInv, NextTypeInv, PTL DEF Spec

\* Unless invoices are created PAID, neither the sweep nor a payment, however
\* callbacks overlap, takes PAID from an invoice but for a sum read too early.
THEOREM PaidIsLostOnlyToStaleSums ==
    ASSUME "PAID" \notin InitialStatuses
    PROVE  Spec => PaidIsLostToStaleSums
<1> DEFINE Lost(i) ==
      \E h \in Handlers : /\ pc[h] = "reconcileWrite"
                          /\ req[h].order = i
                          /\ req[h].newStatus = "PARTIALLY_PAID"
                          /\ paid[i] >= Amount[i]
<1>1. ASSUME TypeInv, Safety, StatusInv, [Next]_vars, NEW i \in Invoices,
             status[i] = "PAID", status'[i] # "PAID"
      PROVE  Lost(i)
  <2>1. paid[i] >= Amount[i]
    BY <1>1 DEF Safety, StatusIsEarned
  <2>2. ~CronUpdate
    BY <1>1 DEF CronUpdate, Overdue
  <2>3. PICK h \in Handlers : ReconcileWrite(h)
    BY <1>1, <2>2, StatusSteps
  <2>4. QED
    BY <1>1, <2>1, <2>3, ReconcileWriteStatus
<1>2. IInv /\ StatusInv /\ [Next]_vars =>
        [\A i \in Invoices : status[i] = "PAID" /\ status'[i] # "PAID" => Lost(i)]_vars
  BY <1>1 DEF IInv
<1>3. QED
  BY <1>2, Inductive, StatusInvInductive, PTL DEF PaidIsLostToStaleSums, Spec

\* A cancelled invoice leaves CANCELLED for a payment recorded for it only, and
\* never by the sweep, however stale what the writer read.
THEOREM CancelledNeedPayment == Spec => CancelledNeedsPayment
<1> DEFINE PaidFor(i) == /\ status'[i] \in {"PAID", "PARTIALLY_PAID"}
                         /\ \E p \in RowsOf(i) : Backed(p)
<1>1. ASSUME TypeInv, Safety, StatusInv, [Next]_vars, NEW i \in Invoices,
             status[i] = "CANCELLED", status'[i] # "CANCELLED"
      PROVE  PaidFor(i)
  <2>1. ~CronUpdate
    BY <1>1 DEF CronUpdate, Overdue
  <2>2. PICK h \in Handlers : ReconcileWrite(h)
    BY <1>1, <2>1, StatusSteps
  <2>3. /\ pc[h] = "reconcileWrite" /\ req[h].order = i
        /\ status'[i] \in {"PAID", "PARTIALLY_PAID"}
    BY <1>1, <2>2, ReconcileWriteStatus
  <2>4. PICK p \in payments : IsRowOf(p, h)
    BY <1>1, <2>3 DEF Safety, HandlerInv, RecordedRequest, Recording
  <2>5. p \in RowsOf(i)
    BY <2>3, <2>4 DEF IsRowOf, RowsOf
  <2>6. Backed(p)
    BY <1>1 DEF Safety, RowsAreBacked
  <2>7. QED
    BY <2>3, <2>5, <2>6
<1>2. IInv /\ StatusInv /\ [Next]_vars =>
        [\A i \in Invoices : status[i] = "CANCELLED" /\ status'[i] # "CANCELLED" =>
           PaidFor(i)]_vars
  BY <1>1 DEF IInv
<1>3. QED
  BY <1>2, Inductive, StatusInvInductive, PTL DEF CancelledNeedsPayment, Spec

-----------------------------------------------------------------------------
(* What the rows add up to.  A set of rows is counted as the set of its      *)
(* paisa, so that a sum grows with the rows it is taken over.                *)

\* One row has as many paisa as its amount says.
LEMMA PaisaOfOne ==
    ASSUME NEW p, NEW n \in Nat
    PROVE  IsFiniteSet({p} \X (1..n)) /\ Cardinality({p} \X (1..n)) = n
<1>1. IsFiniteSet(1..n) /\ Cardinality(1..n) = n
  <2>1. 1 \in Int /\ n \in Int
    OBVIOUS
  <2>2. IsFiniteSet(1..n) /\ Cardinality(1..n) = IF 1 > n THEN 0 ELSE n - 1 + 1
    BY <2>1, FS_Interval
  <2>3. QED
    BY <2>2
<1>2. IsFiniteSet({p}) /\ Cardinality({p}) = 1
  BY FS_Singleton
<1>3. IsFiniteSet({p} \X (1..n)) /\ Cardinality({p} \X (1..n)) = 1 * n
  BY <1>1, <1>2, FS_Product
<1>4. QED
  BY <1>3

\* The paisa of finitely many rows are finitely many.
LEMMA FinitePaisa ==
    ASSUME NEW rows, IsFiniteSet(rows), \A p \in rows : p.amount \in Nat
    PROVE  IsFiniteSet(Paisa(rows)) /\ Total(rows) \in Nat
<1> DEFINE Of(p) == {p} \X (1..p.amount)
           all == {Of(p) : p \in rows}
           f == [p \in rows |-> Of(p)]
<1>1. IsFiniteSet(all)
  <2>1. f \in Surjection(rows, all)
    BY DEF Surjection
  <2> HIDE DEF f, all
  <2>2. QED
    BY <2>1, FS_Surjection
<1>2. ASSUME NEW p \in rows PROVE IsFiniteSet(Of(p))
  BY PaisaOfOne
<1>3. \A part \in all : IsFiniteSet(part)
  BY <1>2
<1>4. IsFiniteSet(UNION all)
  <2> HIDE DEF all
  <2>1. QED
    BY <1>1, <1>3, FS_UNION
<1>5. Paisa(rows) = UNION all
  BY DEF Paisa
<1>6. QED
  BY <1>4, <1>5, FS_CardinalityType DEF Total

\* A row more adds its amount.
LEMMA TotalOfOneMore ==
    ASSUME NEW rows, IsFiniteSet(rows), \A p \in rows : p.amount \in Nat,
           NEW p, p \notin rows, p.amount \in Nat
    PROVE  Total(rows \cup {p}) = Total(rows) + p.amount
<1> DEFINE own == {p} \X (1..p.amount)
<1>1. IsFiniteSet(own) /\ Cardinality(own) = p.amount
  BY PaisaOfOne
<1>2. IsFiniteSet(Paisa(rows)) /\ Cardinality(Paisa(rows)) \in Nat
  BY FinitePaisa DEF Total
<1>3. Paisa(rows \cup {p}) = Paisa(rows) \cup own
  BY DEF Paisa
<1>4. Paisa(rows) \cap own = {}
  BY DEF Paisa
<1> HIDE DEF own
<1>5. Cardinality(Paisa(rows) \cup own) =
        Cardinality(Paisa(rows)) + Cardinality(own) - Cardinality(Paisa(rows) \cap own)
  BY <1>1, <1>2, FS_Union
<1>6. Cardinality(Paisa(rows) \cap own) = 0
  BY <1>4, FS_EmptySet
<1>7. Total(rows \cup {p}) = Cardinality(Paisa(rows)) + p.amount - 0
  BY <1>1, <1>3, <1>5, <1>6 DEF Total
<1>8. QED
  BY <1>2, <1>7 DEF Total

\* Fewer rows do not add up to more.
LEMMA TotalOfFewer ==
    ASSUME NEW rows, IsFiniteSet(rows), \A p \in rows : p.amount \in Nat,
           NEW fewer \in SUBSET rows
    PROVE  Total(fewer) \in Nat /\ Total(fewer) <= Total(rows)
<1>1. IsFiniteSet(Paisa(rows))
  BY FinitePaisa
<1>2. Paisa(fewer) \in SUBSET Paisa(rows)
  BY DEF Paisa
<1>3. IsFiniteSet(Paisa(fewer)) /\ Cardinality(Paisa(fewer)) <= Cardinality(Paisa(rows))
  BY <1>1, <1>2, FS_Subset
<1>4. QED
  BY <1>3, FS_CardinalityType DEF Total

\* A row whose request has not come to the revenue counter yet.
UnderWay(p) == \E h \in Handlers : pc[h] \in Recording /\ req[h].txn = p.transaction_id

Counted == {p \in payments : ~UnderWay(p)}

OneRecorder ==
    \A g, h \in Handlers :
        pc[g] \in Recording /\ pc[h] \in Recording /\ req[g].txn = req[h].txn => g = h

TotalsInv ==
    /\ IsFiniteSet(payments)
    /\ OneRecorder
    /\ SumsAreTrue
    /\ revenue <= Total(Counted)

\* The amounts of rows are natural numbers.
LEMMA AmountsAreNat ==
    ASSUME TypeInv
    PROVE  \A p \in payments : p.amount \in Nat
BY DEF TypeInv, TypeOK, Payment

LEMMA InitTotals == Init => TotalsInv
<1> SUFFICES ASSUME Init PROVE TotalsInv
  OBVIOUS
<1>1. Total({}) = 0
  BY FS_EmptySet DEF Total, Paisa
<1>2. IsFiniteSet(payments) /\ OneRecorder
  BY FS_EmptySet DEF Init, OneRecorder, Recording
<1>3. SumsAreTrue
  <2>1. \A i \in Invoices : paid[i] = 0 /\ RowsOf(i) = {}
    BY DEF Init, RowsOf
  <2>2. QED
    BY <1>1, <2>1 DEF SumsAreTrue
<1>4. revenue <= Total(Counted)
  <2>1. Counted = {} /\ revenue = 0
    BY DEF Init, Counted
  <2>2. QED
    BY <1>1, <2>1
<1>5. QED
  BY <1>2, <1>3, <1>4 DEF TotalsInv

\* When requests only move on short of the counter, or are lost, no row turns
\* from counted to under way.
LEMMA MovingTotals ==
    ASSUME TypeInv, TotalsInv, UNCHANGED <<payments, paid>>, revenue' \in {revenue, 0},
           \A h \in Handlers : pc'[h] \in Recording =>
             pc[h] \in Recording /\ req'[h].txn = req[h].txn
    PROVE  TotalsInv'
<1>1. IsFiniteSet(payments) /\ IsFiniteSet(payments') /\ \A p \in payments' : p.amount \in Nat
  BY AmountsAreNat DEF TotalsInv
<1>2. OneRecorder'
  BY DEF TotalsInv, OneRecorder
<1>3. SumsAreTrue'
  BY DEF TotalsInv, SumsAreTrue, RowsOf
<1>4. (revenue <= Total(Counted))'
  <2>1. PICK before : before = Counted
    OBVIOUS
  <2>2. PICK after : after = Counted'
    OBVIOUS
  <2>3. before \subseteq after /\ after \subseteq payments
    BY <2>1, <2>2 DEF Counted, UnderWay
  <2>4. IsFiniteSet(after) /\ \A p \in after : p.amount \in Nat
    BY <2>3, <1>1, FS_Subset
  <2>5. Total(before) \in Nat /\ Total(after) \in Nat /\ Total(before) <= Total(after)
    BY <2>3, <2>4, TotalOfFewer, FinitePaisa
  <2>6. revenue \in Nat /\ revenue <= Total(before)
    BY <2>1 DEF TypeInv, TypeOK, TotalsInv
  <2>7. revenue' <= Total(after)
    BY <2>5, <2>6
  <2>8. QED
    BY <2>2, <2>7 DEF Total, Paisa
<1>5. QED
  BY <1>1, <1>2, <1>3, <1>4 DEF TotalsInv

\* The row written is its invoice's, and its request is the only one that will
\* come to the counter with it.
LEMMA CreatePaymentTotals ==
    ASSUME NEW h \in Handlers, IInv, TotalsInv, CreatePayment(h)
    PROVE  TotalsInv'
<1> DEFINE t == req[h].txn
           i == req[h].order
<1> USE DEF IInv
<1>1. t \in Txns /\ i \in Invoices /\ req[h].amount \in Nat
  BY DEF CreatePayment, TypeInv, ActiveHasRequest, Request
<1>2. revenue' = revenue
  BY DEF CreatePayment, replyVars
<1>3. CASE ~UniqueTransaction(t)
  <2>1. UNCHANGED <<payments, paid>>
    BY <1>3 DEF CreatePayment
  <2>2. \A g \in Handlers : pc'[g] \in Recording =>
          pc[g] \in Recording /\ req'[g].txn = req[g].txn
    BY <1>3 DEF CreatePayment, Finish, TypeInv, TypeOK, Recording
  <2>3. QED
    BY <1>2, <2>1, <2>2, MovingTotals
<1>4. CASE UniqueTransaction(t)
  <2>1. PICK id \in PaymentIds : payments' = payments \cup
            {[id |-> id, invoice_id |-> i, transaction_id |-> t,
              gateway_ref_id |-> req[h].ref, amount |-> req[h].amount]}
    BY <1>4 DEF CreatePayment
  <2>2. PICK row : /\ payments' = payments \cup {row}
                   /\ row.transaction_id = t /\ row.invoice_id = i
                   /\ row.amount = req[h].amount
    <3> DEFINE new == [id |-> id, invoice_id |-> i, transaction_id |-> t,
                       gateway_ref_id |-> req[h].ref, amount |-> req[h].amount]
    <3>1. /\ payments' = payments \cup {new}
          /\ new.transaction_id = t /\ new.invoice_id = i
          /\ new.amount = req[h].amount
      BY <2>1
    <3> HIDE DEF new
    <3>2. QED
      BY <3>1
  <2>3. row \notin payments
    BY <2>2, <1>4 DEF UniqueTransaction
  <2>4. /\ paid' = [paid EXCEPT ![i] = @ + req[h].amount]
        /\ pc' = [pc EXCEPT ![h] = "reconcileRead"]
        /\ req' = req
    BY <1>4 DEF CreatePayment, Goto
  <2>5. \A g \in Handlers : pc[g] \in Recording => req[g].txn # t
    BY <1>4 DEF UniqueTransaction, Safety, HandlerInv, RecordedRequest, IsRowOf
  <2>6. IsFiniteSet(payments')
    BY <2>2, FS_AddElement DEF TotalsInv
  <2>7. OneRecorder'
    BY <2>4, <2>5 DEF TotalsInv, OneRecorder, TypeInv, TypeOK
  <2>8. Counted' = Counted
    <3>1. UnderWay(row)'
      BY <2>2, <2>4 DEF UnderWay, Recording, TypeInv, TypeOK
    <3>2. ASSUME NEW p \in payments PROVE UnderWay(p)' <=> UnderWay(p)
      <4>1. p.transaction_id # t
        BY <1>4 DEF UniqueTransaction
      <4>2. ~(pc[h] \in Recording) /\ pc[h] = "create"
        BY DEF CreatePayment, Recording
      <4>3. QED
        BY <4>1, <4>2, <2>4 DEF UnderWay, TypeInv, TypeOK
    <3>3. QED
      BY <2>2, <3>1, <3>2 DEF Counted
  <2>9. SumsAreTrue'
    <3> SUFFICES ASSUME NEW j \in Invoices PROVE paid'[j] = Total(RowsOf(j))'
      BY DEF SumsAreTrue
    <3>1. PICK before : before = RowsOf(j)
      OBVIOUS
    <3>2. PICK after : after = RowsOf(j)'
      OBVIOUS
    <3>3. after = IF j = i THEN before \cup {row} ELSE before
      BY <2>2, <3>1, <3>2 DEF RowsOf
    <3>4. before \subseteq payments
      BY <3>1 DEF RowsOf
    <3>5. IsFiniteSet(before) /\ (\A p \in before : p.amount \in Nat) /\ row \notin before
      BY <2>3, <3>4, FS_Subset, AmountsAreNat DEF TotalsInv
    <3>6. Total(before \cup {row}) = Total(before) + row.amount
      BY <3>5, <2>2, <1>1, TotalOfOneMore
    <3>7. paid[j] = Total(before)
      BY <3>1 DEF TotalsInv, SumsAreTrue
    <3>8. paid'[j] = IF j = i THEN paid[j] + row.amount ELSE paid[j]
      BY <2>2, <2>4, <1>1 DEF TypeInv, TypeOK
    <3>9. paid'[j] = Total(after)
      BY <3>3, <3>6, <3>7, <3>8
    <3>10. QED
      BY <3>2, <3>9 DEF Total, Paisa
  <2>10. (revenue <= Total(Counted))'
    BY <1>2, <2>8 DEF TotalsInv, Total, Paisa
  <2>11. QED
    BY <2>6, <2>7, <2>9, <2>10 DEF TotalsInv
<1>5. QED
  BY <1>3, <1>4

\* The request that comes to the counter is the only one with its row, so the
\* row turns from under way to counted.
LEMMA QueueReceiptTotals ==
    ASSUME NEW h \in Handlers, IInv, TotalsInv, QueueReceipt(h)
    PROVE  TotalsInv'
<1> DEFINE t == req[h].txn
<1> USE DEF IInv
<1>1. UNCHANGED <<payments, paid>> /\ revenue' = revenue + req[h].amount
  BY DEF QueueReceipt, dbVars
<1>2. pc[h] = "queueReceipt" /\ pc'[h] = "idle"
  BY DEF QueueReceipt, Finish, TypeInv, TypeOK
<1>3. \A g \in Handlers \ {h} : pc'[g] = pc[g] /\ req'[g] = req[g]
  BY DEF QueueReceipt, Finish, TypeInv, TypeOK
<1>4. PICK row \in payments : row.transaction_id = t /\ row.amount = req[h].amount
  BY <1>2 DEF Safety, HandlerInv, RecordedRequest, IsRowOf, Recording
<1>5. row.amount = req[h].amount /\ row.amount \in Nat
  BY <1>4, AmountsAreNat
<1>6. IsFiniteSet(payments') /\ SumsAreTrue'
  BY <1>1 DEF TotalsInv, SumsAreTrue, RowsOf
<1>7. OneRecorder'
  BY <1>2, <1>3 DEF TotalsInv, OneRecorder, Recording
<1>8. (revenue <= Total(Counted))'
  <2>1. PICK before : before = Counted
    OBVIOUS
  <2>2. PICK after : after = Counted'
    OBVIOUS
  <2>3. row \notin before
    BY <1>2, <1>4, <2>1 DEF Counted, UnderWay, Recording
  <2>4. ~UnderWay(row)'
    BY <1>2, <1>3, <1>4 DEF UnderWay, TotalsInv, OneRecorder, Recording
  <2>5. before \cup {row} \subseteq after
    <3>1. \A p \in payments : ~UnderWay(p) => ~UnderWay(p)'
      BY <1>2, <1>3 DEF UnderWay, Recording
    <3>2. QED
      BY <1>1, <1>4, <2>1, <2>2, <2>4, <3>1 DEF Counted
  <2>6. after \subseteq payments
    BY <1>1, <2>2 DEF Counted
  <2>7. IsFiniteSet(after) /\ \A p \in after : p.amount \in Nat
    BY <2>6, FS_Subset, AmountsAreNat DEF TotalsInv
  <2>8. IsFiniteSet(before) /\ \A p \in before : p.amount \in Nat
    BY <2>5, <2>7, FS_Subset
  <2>9. Total(before \cup {row}) = Total(before) + row.amount
    BY <2>3, <2>8, <1>5, TotalOfOneMore
  <2>10. Total(before \cup {row}) <= Total(after) /\ Total(after) \in Nat
    BY <2>5, <2>7, TotalOfFewer, FinitePaisa
  <2>11. revenue \in Nat /\ revenue <= Total(before) /\ Total(before) \in Nat
    BY <2>1, <2>8, FinitePaisa DEF TypeInv, TypeOK, TotalsInv
  <2>12. revenue' <= Total(after)
    BY <1>1, <1>5, <2>9, <2>10, <2>11
  <2>13. QED
    BY <2>2, <2>12 DEF Total, Paisa
<1>9. QED
  BY <1>6, <1>7, <1>8 DEF TotalsInv

\* Every step keeps the totals.
LEMMA NextTotals == IInv /\ TotalsInv /\ [Next]_vars => TotalsInv'
<1> SUFFICES ASSUME IInv, TotalsInv, [Next]_vars PROVE TotalsInv'
  OBVIOUS
<1> USE DEF IInv
<1>1. ASSUME NEW h \in Handlers, CreatePayment(h) \/ QueueReceipt(h) PROVE TotalsInv'
  BY <1>1, CreatePaymentTotals, QueueReceiptTotals
<1>2. ASSUME NEW h \in Handlers,
             \/ Arrival(h) \/ KhaltiLookup(h) \/ FindInvoice(h) \/ FindExisting(h)
             \/ ReconcileWrite(h) \/ BumpSet(h) \/ Fail(h)
      PROVE  TotalsInv'
  <2>1. UNCHANGED <<payments, paid, revenue>>
    BY <1>2 DEF Arrival, EsewaCallback, KhaltiCallback, KhaltiLookup, FindInvoice,
                FindExisting, ReconcileWrite, BumpSet, Fail, dbVars, replyVars
  <2>2. \A g \in Handlers : pc'[g] \in Recording =>
          pc[g] \in Recording /\ req'[g].txn = req[g].txn
    BY <1>2 DEF Arrival, EsewaCallback, KhaltiCallback, KhaltiLookup, FindInvoice,
                FindExisting, ReconcileWrite, BumpSet, Fail, Goto, Finish, Recording,
                TypeInv, TypeOK
  <2>3. QED
    BY <2>1, <2>2, MovingTotals
<1>3. ASSUME NEW h \in Handlers, ReconcileRead(h) \/ BumpGet(h) PROVE TotalsInv'
  <2>1. UNCHANGED <<payments, paid, revenue>>
    BY <1>3 DEF ReconcileRead, BumpGet, dbVars, replyVars
  <2>2. \A g \in Handlers : pc'[g] \in Recording =>
          pc[g] \in Recording /\ req'[g].txn = req[g].txn
    BY <1>3 DEF ReconcileRead, BumpGet, Goto, Recording, TypeInv, TypeOK, ActiveHasRequest,
                Request
  <2>3. QED
    BY <2>1, <2>2, MovingTotals
<1>4. CASE Environment \/ CronStep \/ CronFail \/ UNCHANGED vars
  <2>1. UNCHANGED <<payments, paid, revenue, pc, req>>
    BY <1>4 DEF Environment, InitiateKhaltiPayment,
                CompleteCheckout, FallDue, CronStep, CronFindAffected, CronUpdate,
                CronInvalidate, CronFail, vars, dbVars, handlerVars, replyVars
  <2>2. QED
    BY <2>1, MovingTotals
<1>5. CASE Crash
  <2>1. UNCHANGED <<payments, paid>> /\ revenue' = 0 /\ \A h \in Handlers : pc'[h] = "idle"
    BY <1>5 DEF Crash, dbVars
  <2>2. QED
    BY <2>1, MovingTotals DEF Recording
<1>6. QED
  BY <1>1, <1>2, <1>3, <1>4, <1>5 DEF Next, HandlerStep

LEMMA TotalsInductive == Spec => []TotalsInv
BY InitTotals, NextTotals, Inductive, PTL DEF Spec

\* However many callbacks arrive for a transaction, in whatever order they
\* interleave and fail, it has one row and one request that goes on with it.
THEOREM NeverRecordedTwice == Spec => []NoDoubleRecording
<1>1. Safety /\ TotalsInv => NoDoubleRecording
  BY DEF Safety, RowsAreUnique, TotalsInv, OneRecorder, NoDoubleRecording
<1>2. QED
  BY <1>1, Inductive, TotalsInductive, PTL DEF IInv

\* The sum reconcileInvoiceStatus computes a status from is what the rows of the
\* invoice add up to, in every reachable state.
THEOREM PaidIsTheSumOfRows == Spec => []SumsAreTrue
<1>1. TotalsInv => SumsAreTrue
  BY DEF TotalsInv
<1>2. QED
  BY <1>1, TotalsInductive, PTL

\* However callbacks repeat, overlap, fail and restart, the counter of the process
\* is at most what all rows add up to.
THEOREM RevenueIsNotOvercounted == Spec => []RevenueNotOvercounted
<1>1. ASSUME TypeInv, TotalsInv PROVE RevenueNotOvercounted
  <2>1. Counted \in SUBSET payments
    BY DEF Counted
  <2>2. Total(Counted) \in Nat /\ Total(Counted) <= Total(payments)
    BY <1>1, <2>1, AmountsAreNat, TotalOfFewer DEF TotalsInv
  <2>3. Total(payments) \in Nat
    BY <1>1, AmountsAreNat, FinitePaisa DEF TotalsInv
  <2>4. QED
    BY <1>1, <2>2, <2>3 DEF RevenueNotOvercounted, TotalsInv, TypeInv, TypeOK
<1>2. QED
  BY <1>1, Inductive, TotalsInductive, PTL DEF IInv

-----------------------------------------------------------------------------
(* The safety halves of the liveness properties: without faults, what is     *)
(* still due is always in the hands of a request, which fairness then makes  *)
(* move on.                                                                  *)

Receipted(p) == \E r \in receipts : r.transaction_id = p.transaction_id

\* When no call has failed, a recorded payment has its receipt job or a request
\* that will dispatch it.
NoReceiptIsForgotten ==
    faults = 0 => \A p \in payments : UnderWay(p) \/ Receipted(p)

Reconciling(h, i) == pc[h] \in {"reconcileRead", "reconcileWrite"} /\ req[h].order = i

\* An invoice whose payments cover it is about to be read, or to be written PAID.
CoverIsToBeSeen(i) ==
    RowsOf(i) # {} /\ paid[i] >= Amount[i] =>
        \E h \in Handlers : /\ Reconciling(h, i)
                            /\ pc[h] = "reconcileWrite" => req[h].newStatus = "PAID"

\* At most one request reconciles the invoice at a time.
Serial(i) ==
    \A g, h \in Handlers : Reconciling(g, i) /\ Reconciling(h, i) => g = h

\* The status is the one the rows of the invoice add up to, or the sweep's.
Matches(i) ==
    LET new == ComputeStatus(Total(RowsOf(i)), Amount[i])
    IN  \/ new \in {None, status[i]}
        \/ status[i] = "OVERDUE" /\ new = "PARTIALLY_PAID"

\* While nobody reconciles an invoice that was paid for, its status is right.
MatchesAtRest(i) ==
    RowsOf(i) # {} => Matches(i) \/ \E h \in Handlers : Reconciling(h, i)

\* The steps that are no fault.
LEMMA FaultFreeSteps ==
    ASSUME TypeInv, [Next]_vars, faults' = 0
    PROVE  /\ faults = 0
           /\ \/ Environment \/ CronStep \/ UNCHANGED vars
              \/ \E h \in Handlers : Arrival(h) \/ HandlerStep(h)
<1>1. faults \in Nat
  BY PaymentsAssumption DEF TypeInv, TypeOK
<1>2. CASE CronFail \/ Crash \/ \E h \in Handlers : Fail(h)
  BY <1>1, <1>2 DEF CronFail, Crash, Fail
<1>3. CASE \E h \in Handlers : QueueReceipt(h)
  BY <1>1, <1>3 DEF QueueReceipt, HandlerStep
<1>4. CASE \/ Environment \/ CronStep \/ UNCHANGED vars
           \/ \E h \in Handlers : Arrival(h) \/ (HandlerStep(h) /\ ~QueueReceipt(h))
  <2>1. faults' = faults
    BY <1>4 DEF Environment, InitiateKhaltiPayment,
       CompleteCheckout, FallDue, CronStep, CronFindAffected, CronUpdate, CronInvalidate,
       Arrival, EsewaCallback, KhaltiCallback, HandlerStep, KhaltiLookup, FindInvoice,
       FindExisting, CreatePayment, ReconcileRead, ReconcileWrite, BumpGet, BumpSet, vars
  <2>2. QED
    BY <1>4, <2>1
<1>5. QED
  BY <1>2, <1>3, <1>4 DEF Next

\* A request keeps its transaction and its order from step to step.
LEMMA RequestsAreKept ==
    ASSUME TypeInv, NEW g \in Handlers, Arrival(g) \/ HandlerStep(g), NEW h \in Handlers,
           pc[h] # "idle", pc'[h] # "idle"
    PROVE  req'[h].txn = req[h].txn /\ req'[h].order = req[h].order
<1>1. req[h] \in Request /\ req \in [Handlers -> Request \cup {None}]
  BY DEF TypeInv, TypeOK, ActiveHasRequest
<1>2. CASE g # h
  BY <1>1, <1>2 DEF Arrival, EsewaCallback, KhaltiCallback, HandlerStep, KhaltiLookup,
     FindInvoice, FindExisting, CreatePayment, ReconcileRead, ReconcileWrite, BumpGet,
     BumpSet, QueueReceipt, Finish
<1>3. CASE g = h
  <2>1. ~Arrival(h)
    BY DEF Arrival, EsewaCallback, KhaltiCallback
  <2>2. CASE KhaltiLookup(h) \/ ReconcileRead(h) \/ BumpGet(h)
    BY <1>1, <2>2 DEF KhaltiLookup, ReconcileRead, BumpGet, Finish, Request, TypeInv, TypeOK
  <2>3. CASE \/ FindInvoice(h) \/ FindExisting(h) \/ CreatePayment(h)
             \/ ReconcileWrite(h) \/ BumpSet(h) \/ QueueReceipt(h)
    BY <2>3 DEF KhaltiLookup, FindInvoice, FindExisting, CreatePayment, ReconcileWrite,
       BumpSet, QueueReceipt, Finish, TypeInv, TypeOK
  <2>4. QED
    BY <1>3, <2>1, <2>2, <2>3 DEF HandlerStep
<1>4. QED
  BY <1>2, <1>3

\* What happens elsewhere leaves the requests alone.
LEMMA RequestsAreUntouched ==
    ASSUME Environment \/ CronStep \/ UNCHANGED vars
    PROVE  UNCHANGED <<pc, req, paid, payments, receipts>>
BY DEF Environment, InitiateKhaltiPayment,
       CompleteCheckout, FallDue, CronStep, CronFindAffected, CronUpdate, CronInvalidate,
       vars, dbVars, handlerVars, replyVars

LEMMA ReceiptsStep ==
    ASSUME IInv, NoReceiptIsForgotten, [Next]_vars
    PROVE  NoReceiptIsForgotten'
<1> SUFFICES ASSUME faults' = 0, NEW p \in payments'
             PROVE  (UnderWay(p) \/ Receipted(p))'
  BY DEF NoReceiptIsForgotten
<1> USE DEF IInv
<1>1. p \in payments => UnderWay(p) \/ Receipted(p)
  BY FaultFreeSteps DEF NoReceiptIsForgotten
<1>2. CASE Environment \/ CronStep \/ UNCHANGED vars
  BY <1>1, <1>2, RequestsAreUntouched DEF UnderWay, Receipted
<1>3. ASSUME NEW h \in Handlers, CreatePayment(h), p \notin payments
      PROVE  UnderWay(p)'
  BY <1>3 DEF CreatePayment, Goto, UnderWay, Recording, TypeInv, TypeOK
<1>4. ASSUME NEW h \in Handlers, Arrival(h) \/ HandlerStep(h), p \in payments
      PROVE  (UnderWay(p) \/ Receipted(p))'
  <2>1. receipts \subseteq receipts'
    BY <1>4 DEF Arrival, EsewaCallback, KhaltiCallback, HandlerStep, KhaltiLookup,
       FindInvoice, FindExisting, CreatePayment, ReconcileRead, ReconcileWrite, BumpGet,
       BumpSet, QueueReceipt, replyVars
  <2>2. CASE Receipted(p)
    BY <2>1, <2>2 DEF Receipted
  <2>3. CASE UnderWay(p)
    <3>1. PICK g \in Handlers : pc[g] \in Recording /\ req[g].txn = p.transaction_id
      BY <2>3 DEF UnderWay
    <3>2. CASE QueueReceipt(g)
      <4>1. faults' # faults + 1
        BY FaultFreeSteps
      <4>2. PICK q \in payments : /\ q.transaction_id = req[g].txn
                                  /\ receipts' = receipts \cup
                                       {[paymentId |-> q.id, transaction_id |-> req[g].txn]}
        BY <3>2, <4>1 DEF QueueReceipt
      <4>3. [paymentId |-> q.id, transaction_id |-> req[g].txn].transaction_id
              = p.transaction_id
        BY <3>1
      <4>4. QED
        BY <4>2, <4>3 DEF Receipted
    <3>3. CASE ~QueueReceipt(g)
      <4>1. pc'[g] \in Recording
        BY <1>4, <3>1, <3>3 DEF Arrival, EsewaCallback, KhaltiCallback, HandlerStep,
           KhaltiLookup, FindInvoice, FindExisting, CreatePayment, ReconcileRead,
           ReconcileWrite, BumpGet, BumpSet, QueueReceipt, Goto, Finish, Recording,
           TypeInv, TypeOK
      <4>2. req'[g].txn = req[g].txn
        BY <1>4, <3>1, <4>1, RequestsAreKept DEF Recording
      <4>3. QED
        BY <3>1, <4>1, <4>2 DEF UnderWay
    <3>4. QED
      BY <3>2, <3>3
  <2>4. QED
    BY <1>1, <1>4, <2>2, <2>3
<1>5. ASSUME NEW h \in Handlers, Arrival(h) \/ HandlerStep(h), ~CreatePayment(h)
      PROVE  payments' = payments
  BY <1>5 DEF Arrival, EsewaCallback, KhaltiCallback, HandlerStep, KhaltiLookup,
     FindInvoice, FindExisting, ReconcileRead, ReconcileWrite, BumpGet, BumpSet,
     QueueReceipt, dbVars
<1>6. QED
  BY <1>2, <1>3, <1>4, <1>5, FaultFreeSteps

\* Without faults no receipt is forgotten, whichever of several callbacks of a
\* transaction wrote its row: the safety half of RecordedIsReceipted.
THEOREM ReceiptsAreNotForgotten == Spec => []NoReceiptIsForgotten
<1>1. Init => NoReceiptIsForgotten
  BY DEF Init, NoReceiptIsForgotten
<1>2. IInv /\ NoReceiptIsForgotten /\ [Next]_vars => NoReceiptIsForgotten'
  BY ReceiptsStep
<1>3. QED
  BY <1>1, <1>2, Inductive, PTL DEF Spec

\* A row of the invoice is written, and its request is to read the sum.
RowWritten(i, h) ==
    /\ pc'[h] = "reconcileRead" /\ req'[h].order = i
    /\ status'[i] = status[i]
    /\ \A g \in Handlers \ {h} : pc'[g] = pc[g] /\ req'[g] = req[g]

SumRead(i, h) ==
    LET new == ComputeStatus(paid[i], Amount[i])
    IN  /\ UNCHANGED <<paid, payments, status>>
        /\ pc[h] = "reconcileRead" /\ req[h].order = i
        /\ req'[h].order = i
        /\ \/ /\ new \in {None, status[i]}
              /\ pc'[h] = "queueReceipt"
           \/ /\ new \notin {None, status[i]}
              /\ pc'[h] = "reconcileWrite" /\ req'[h].newStatus = new
        /\ \A g \in Handlers \ {h} : pc'[g] = pc[g] /\ req'[g] = req[g]

StatusWritten(i, h) ==
    /\ UNCHANGED <<paid, payments, req>>
    /\ pc[h] = "reconcileWrite" /\ req[h].order = i
    /\ status'[i] = req[h].newStatus
    /\ pc'[h] = "bumpGet"
    /\ \A g \in Handlers \ {h} : pc'[g] = pc[g]

\* What a step that is no fault does to one invoice.
LEMMA InvoiceSteps ==
    ASSUME TypeInv, [Next]_vars, faults' = 0, NEW i \in Invoices
    PROVE  \/ /\ status'[i] = status[i]
              /\ paid'[i] = paid[i]
              /\ RowsOf(i)' = RowsOf(i)
              /\ \A h \in Handlers : Reconciling(h, i) \/ Reconciling(h, i)' =>
                   pc'[h] = pc[h] /\ req'[h] = req[h]
           \/ CronUpdate
           \/ \E h \in Handlers : \/ RowWritten(i, h) \/ SumRead(i, h)
                                  \/ StatusWritten(i, h)
<1> DEFINE Still == /\ status'[i] = status[i]
                    /\ paid'[i] = paid[i]
                    /\ RowsOf(i)' = RowsOf(i)
                    /\ \A h \in Handlers : Reconciling(h, i) \/ Reconciling(h, i)' =>
                         pc'[h] = pc[h] /\ req'[h] = req[h]
<1>1. CASE Environment \/ (CronStep /\ ~CronUpdate) \/ UNCHANGED vars
  <2>1. UNCHANGED <<pc, req, paid, payments>>
    BY <1>1, RequestsAreUntouched
  <2>2. UNCHANGED status
    BY <1>1 DEF Environment, InitiateKhaltiPayment,
       CompleteCheckout, FallDue, CronStep, CronFindAffected, CronInvalidate, vars, dbVars
  <2>3. Still
    BY <2>1, <2>2 DEF RowsOf
  <2>4. QED
    BY <2>3
<1>2. ASSUME NEW h \in Handlers,
             \/ Arrival(h) \/ KhaltiLookup(h) \/ FindInvoice(h) \/ FindExisting(h)
             \/ BumpGet(h) \/ BumpSet(h) \/ QueueReceipt(h)
      PROVE  Still
  <2>1. UNCHANGED dbVars
    BY <1>2 DEF Arrival, EsewaCallback, KhaltiCallback, KhaltiLookup, FindInvoice,
       FindExisting, BumpGet, BumpSet, QueueReceipt
  <2>2. \A g \in Handlers \ {h} : pc'[g] = pc[g] /\ req'[g] = req[g]
    BY <1>2 DEF Arrival, EsewaCallback, KhaltiCallback, KhaltiLookup, FindInvoice,
       FindExisting, BumpGet, BumpSet, QueueReceipt, Goto, Finish, TypeInv, TypeOK
  <2>3. ~Reconciling(h, i) /\ ~Reconciling(h, i)'
    BY <1>2 DEF Arrival, EsewaCallback, KhaltiCallback, KhaltiLookup, FindInvoice,
       FindExisting, BumpGet, BumpSet, QueueReceipt, Goto, Finish, TypeInv, TypeOK,
       Reconciling
  <2>4. QED
    BY <2>1, <2>2, <2>3 DEF dbVars, RowsOf
<1>3. ASSUME NEW h \in Handlers,
             CreatePayment(h) \/ ReconcileRead(h) \/ ReconcileWrite(h), req[h].order # i
      PROVE  Still
  <2>1. \A g \in Handlers \ {h} : pc'[g] = pc[g] /\ req'[g] = req[g]
    BY <1>3 DEF CreatePayment, ReconcileRead, ReconcileWrite, Goto, Finish, TypeInv, TypeOK
  <2>2. req[h] \in Request
    BY <1>3 DEF CreatePayment, ReconcileRead, ReconcileWrite, TypeInv, ActiveHasRequest
  <2>3. pc'[h] # "idle" => req'[h].order = req[h].order
    BY <1>3, RequestsAreKept DEF CreatePayment, ReconcileRead, ReconcileWrite, HandlerStep
  <2>4. ~Reconciling(h, i) /\ ~Reconciling(h, i)'
    BY <1>3, <2>3 DEF Reconciling
  <2>5. status'[i] = status[i] /\ paid'[i] = paid[i]
    BY <1>3, <2>2 DEF CreatePayment, ReconcileRead, ReconcileWrite, TypeInv, TypeOK, Request,
       dbVars
  <2>6. RowsOf(i)' = RowsOf(i)
    BY <1>3 DEF CreatePayment, ReconcileRead, ReconcileWrite, dbVars, RowsOf
  <2>7. QED
    BY <2>1, <2>4, <2>5, <2>6
<1>4. ASSUME NEW h \in Handlers, CreatePayment(h), req[h].order = i
      PROVE  Still \/ RowWritten(i, h)
  <2>1. \A g \in Handlers \ {h} : pc'[g] = pc[g] /\ req'[g] = req[g]
    BY <1>4 DEF CreatePayment, Goto, Finish, TypeInv, TypeOK
  <2>2. CASE UniqueTransaction(req[h].txn)
    BY <1>4, <2>1, <2>2 DEF CreatePayment, RowWritten, Goto, TypeInv, TypeOK
  <2>3. CASE ~UniqueTransaction(req[h].txn)
    BY <1>4, <2>1, <2>3 DEF CreatePayment, Finish, Reconciling, RowsOf, TypeInv, TypeOK
  <2>4. QED
    BY <2>2, <2>3
<1>5. ASSUME NEW h \in Handlers, ReconcileRead(h), req[h].order = i
      PROVE  SumRead(i, h)
  <2> DEFINE new == ComputeStatus(paid[i], Amount[i])
  <2>1. req[h] \in Request
    BY <1>5 DEF ReconcileRead, TypeInv, ActiveHasRequest
  <2>2. \A g \in Handlers \ {h} : pc'[g] = pc[g] /\ req'[g] = req[g]
    BY <1>5 DEF ReconcileRead, Goto, TypeInv, TypeOK
  <2>3. UNCHANGED <<paid, payments, status>> /\ pc[h] = "reconcileRead"
    BY <1>5 DEF ReconcileRead, dbVars
  <2>4. CASE new \in {None, status[i]}
    BY <1>5, <2>2, <2>3, <2>4 DEF ReconcileRead, Goto, SumRead, TypeInv, TypeOK
  <2>5. CASE new \notin {None, status[i]}
    <3>1. req'[h] = [req[h] EXCEPT !.newStatus = new] /\ pc'[h] = "reconcileWrite"
      BY <1>5, <2>5 DEF ReconcileRead, Goto, TypeInv, TypeOK
    <3>2. req'[h].order = i /\ req'[h].newStatus = new
      BY <1>5, <2>1, <3>1 DEF Request
    <3>3. QED
      BY <1>5, <2>2, <2>3, <2>5, <3>1, <3>2 DEF SumRead
  <2>6. QED
    BY <2>4, <2>5
<1>6. ASSUME NEW h \in Handlers, ReconcileWrite(h), req[h].order = i
      PROVE  StatusWritten(i, h)
  BY <1>6 DEF ReconcileWrite, Goto, StatusWritten, TypeInv, TypeOK
<1>7. QED
  BY <1>1, <1>2, <1>3, <1>4, <1>5, <1>6, FaultFreeSteps DEF HandlerStep

\* CronUpdate moves no request and writes no row.
LEMMA SweepLeavesRequests ==
    ASSUME CronUpdate, NEW i \in Invoices
    PROVE  /\ UNCHANGED <<pc, req, paid>> /\ RowsOf(i)' = RowsOf(i)
           /\ Overdue(i) => status'[i] = "OVERDUE"
           /\ ~Overdue(i) => status'[i] = status[i]
BY DEF CronUpdate, handlerVars, RowsOf

LEMMA CoverStep ==
    ASSUME TypeInv, [Next]_vars, NEW i \in Invoices, CoverIsToBeSeen(i),
           faults' = 0, status[i] # "PAID", status'[i] # "PAID"
    PROVE  CoverIsToBeSeen(i)'
<1> DEFINE ToSee(h) == /\ Reconciling(h, i)
                       /\ pc[h] = "reconcileWrite" => req[h].newStatus = "PAID"
<1> SUFFICES ASSUME RowsOf(i)' # {}, paid'[i] >= Amount[i]
             PROVE  \E h \in Handlers : ToSee(h)'
  BY DEF CoverIsToBeSeen
<1>1. ASSUME NEW h \in Handlers, RowWritten(i, h) PROVE ToSee(h)'
  BY <1>1 DEF RowWritten, Reconciling
<1>2. ASSUME RowsOf(i)' = RowsOf(i), paid'[i] = paid[i]
      PROVE  \E h \in Handlers : ToSee(h)
  BY <1>2 DEF CoverIsToBeSeen
<1>3. CASE /\ RowsOf(i)' = RowsOf(i) /\ paid'[i] = paid[i]
           /\ \A h \in Handlers : Reconciling(h, i) \/ Reconciling(h, i)' =>
                pc'[h] = pc[h] /\ req'[h] = req[h]
  BY <1>2, <1>3 DEF Reconciling
<1>4. CASE CronUpdate
  BY <1>2, <1>4, SweepLeavesRequests DEF Reconciling
<1>5. ASSUME NEW g \in Handlers, SumRead(i, g) PROVE \E h \in Handlers : ToSee(h)'
  <2>1. RowsOf(i)' = RowsOf(i) /\ paid'[i] = paid[i]
    BY <1>5 DEF SumRead, RowsOf
  <2>2. ComputeStatus(paid[i], Amount[i]) = "PAID"
    BY <2>1 DEF ComputeStatus
  <2>3. "PAID" \notin {None, status[i]}
    BY PaymentsAssumption DEF STATUS
  <2>4. ToSee(g)'
    BY <1>5, <2>2, <2>3 DEF SumRead, Reconciling
  <2>5. QED
    BY <2>4
<1>6. ASSUME NEW g \in Handlers, StatusWritten(i, g) PROVE \E h \in Handlers : ToSee(h)'
  <2>1. RowsOf(i)' = RowsOf(i) /\ paid'[i] = paid[i]
    BY <1>6 DEF StatusWritten, RowsOf
  <2>2. PICK h \in Handlers : ToSee(h)
    BY <1>2, <2>1
  <2>3. h # g
    BY <1>6, <2>2 DEF StatusWritten
  <2>4. ToSee(h)'
    BY <1>6, <2>2, <2>3 DEF StatusWritten, Reconciling
  <2>5. QED
    BY <2>4
<1>7. QED
  BY <1>1, <1>3, <1>4, <1>5, <1>6, InvoiceSteps

\* Without faults an invoice that never becomes PAID is never covered behind the
\* back of every request: the safety half of FullPaymentIsSeen.
THEOREM CoverIsSeen ==
    ASSUME NEW i \in Invoices
    PROVE  Spec /\ [](faults = 0 /\ status[i] # "PAID") => []CoverIsToBeSeen(i)
<1>1. Init => CoverIsToBeSeen(i)
  BY DEF Init, CoverIsToBeSeen, RowsOf
<1>2. /\ TypeInv /\ CoverIsToBeSeen(i) /\ [Next]_vars
      /\ faults = 0 /\ status[i] # "PAID" /\ (faults = 0 /\ status[i] # "PAID")'
      => CoverIsToBeSeen(i)'
  BY CoverStep
<1>3. QED
  BY <1>1, <1>2, InitTypeInv, NextTypeInv, PTL DEF Spec

\* What a request is about to write is what the rows now add up to, and an
\* invoice whose status they do not add up to is being reconciled.
Reconciled(i) ==
    LET new == ComputeStatus(paid[i], Amount[i])
    IN  /\ \A h \in Handlers : Reconciling(h, i) /\ pc[h] = "reconcileWrite" =>
             req[h].newStatus = new
        /\ \/ RowsOf(i) = {}
           \/ new \in {None, status[i]}
           \/ status[i] = "OVERDUE" /\ new = "PARTIALLY_PAID"
           \/ \E h \in Handlers : Reconciling(h, i)

LEMMA ReconciledStep ==
    ASSUME TypeInv, [Next]_vars, NEW i \in Invoices, Reconciled(i), faults' = 0,
           Serial(i), Serial(i)'
    PROVE  Reconciled(i)'
<1> DEFINE new == ComputeStatus(paid[i], Amount[i])
<1>1. \A h \in Handlers : Reconciling(h, i) /\ pc[h] = "reconcileWrite" =>
        req[h].newStatus = new
  BY DEF Reconciled
<1>2. CASE /\ status'[i] = status[i] /\ paid'[i] = paid[i] /\ RowsOf(i)' = RowsOf(i)
           /\ \A h \in Handlers : Reconciling(h, i) \/ Reconciling(h, i)' =>
                pc'[h] = pc[h] /\ req'[h] = req[h]
  <2>1. \A h \in Handlers : Reconciling(h, i)' <=> Reconciling(h, i)
    BY <1>2 DEF Reconciling
  <2>2. QED
    BY <1>2, <2>1 DEF Reconciled
<1>3. CASE CronUpdate
  <2>1. /\ UNCHANGED <<pc, req>> /\ paid'[i] = paid[i] /\ RowsOf(i)' = RowsOf(i)
        /\ status'[i] = IF Overdue(i) THEN "OVERDUE" ELSE status[i]
    BY <1>3, SweepLeavesRequests
  <2>2. \A h \in Handlers : Reconciling(h, i)' <=> Reconciling(h, i)
    BY <2>1 DEF Reconciling
  <2>3. Overdue(i) /\ new = status[i] => new = "PARTIALLY_PAID" \/ new = None
    BY DEF Overdue, ComputeStatus
  <2>4. QED
    BY <2>1, <2>2, <2>3 DEF Reconciled, Overdue
<1>4. ASSUME NEW h \in Handlers, RowWritten(i, h) PROVE Reconciled(i)'
  <2>1. Reconciling(h, i)' /\ pc'[h] = "reconcileRead"
    BY <1>4 DEF RowWritten, Reconciling
  <2>2. \A g \in Handlers : Reconciling(g, i)' => g = h
    BY <2>1 DEF Serial
  <2>3. QED
    BY <2>1, <2>2 DEF Reconciled
<1>5. ASSUME NEW h \in Handlers, SumRead(i, h) PROVE Reconciled(i)'
  <2>1. paid'[i] = paid[i] /\ status'[i] = status[i]
    BY <1>5 DEF SumRead
  <2>2. Reconciling(h, i)
    BY <1>5 DEF SumRead, Reconciling
  <2>3. \A g \in Handlers : Reconciling(g, i)' => g = h
    BY <1>5, <2>2 DEF Serial, SumRead, Reconciling
  <2>4. CASE new \in {None, status[i]}
    <3>1. \A g \in Handlers : ~Reconciling(g, i)'
      BY <1>5, <2>3, <2>4 DEF SumRead, Reconciling
    <3>2. QED
      BY <2>1, <2>4, <3>1 DEF Reconciled
  <2>5. CASE new \notin {None, status[i]}
    <3>1. Reconciling(h, i)' /\ req'[h].newStatus = new
      BY <1>5, <2>5 DEF SumRead, Reconciling
    <3>2. QED
      BY <2>1, <2>3, <3>1 DEF Reconciled
  <2>6. QED
    BY <2>4, <2>5
<1>6. ASSUME NEW h \in Handlers, StatusWritten(i, h) PROVE Reconciled(i)'
  <2>1. Reconciling(h, i)
    BY <1>6 DEF StatusWritten, Reconciling
  <2>2. status'[i] = new /\ paid'[i] = paid[i]
    BY <1>1, <1>6, <2>1 DEF StatusWritten
  <2>3. \A g \in Handlers : ~Reconciling(g, i)'
    BY <1>6, <2>1 DEF Serial, StatusWritten, Reconciling
  <2>4. QED
    BY <2>2, <2>3 DEF Reconciled
<1>7. QED
  BY <1>2, <1>3, <1>4, <1>5, <1>6, InvoiceSteps

\* What StatusMatchesPayments says of every invoice holds of those whose
\* reconciliations do not overlap and meet no fault: only an overlap or a fault
\* leaves a wrong status behind.
THEOREM SerialReconciliationsMatch ==
    ASSUME NEW i \in Invoices
    PROVE  Spec /\ [](faults = 0 /\ Serial(i)) => []MatchesAtRest(i)
<1>1. Init => Reconciled(i)
  BY DEF Init, Reconciled, Reconciling, RowsOf
<1>2. /\ TypeInv /\ Reconciled(i) /\ [Next]_vars
      /\ faults = 0 /\ Serial(i) /\ (faults = 0 /\ Serial(i))'
      => Reconciled(i)'
  BY ReconciledStep
<1>3. TotalsInv /\ Reconciled(i) => MatchesAtRest(i)
  BY DEF TotalsInv, SumsAreTrue, Reconciled, MatchesAtRest, Matches
<1>4. QED
  BY <1>1, <1>2, <1>3, InitTypeInv, NextTypeInv, TotalsInductive, PTL DEF Spec

-----------------------------------------------------------------------------
(* Refinement: the callbacks implement the ledger.                          *)

\* Initial states map to the empty ledger.
LEMMA InitLedger == Init => L!Init
BY DEF Init, L!Init, Bill, Credited, References

\* Paying at the gateway is the ledger's Pay; opening a checkout is nothing.
LEMMA EnvironmentLedger ==
    ASSUME IInv, Environment
    PROVE  [L!Next]_L!vars
<1>1. UNCHANGED <<Credited, References, paid, acked>>
  BY DEF Environment, InitiateKhaltiPayment,
         CompleteCheckout, FallDue, Credited, References, dbVars, replyVars
<1>2. ASSUME NEW t \in Pidxs, NEW amount \in PaidAmounts, CompleteCheckout(t, amount)
      PROVE  L!Pay(t, checkout[t].invoice, amount) /\ checkout[t].invoice \in Invoices
  <2>1. checkout[t].state = "open" /\ checkout[t].invoice \in Invoices
    BY <1>2 DEF CompleteCheckout, IInv, TypeInv, CompletedHasInvoice
  <2>2. checkout \in [Pidxs -> Checkout]
    BY DEF IInv, TypeInv, TypeOK
  <2>3. checkout' = [checkout EXCEPT ![t] =
                       [@ EXCEPT !.state = "completed", !.amount = amount]]
    BY <1>2, <2>2 DEF CompleteCheckout
  <2>4. checkout'[t].state = "completed" /\ checkout'[t].amount = amount
          /\ checkout'[t].invoice = checkout[t].invoice
    BY <2>2, <2>3 DEF Checkout
  <2>5. Bill[t] = None
    BY <2>1 DEF Bill
  <2>6. Bill' = [Bill EXCEPT ![t] = [invoice |-> checkout[t].invoice, amount |-> amount]]
    BY <2>2, <2>3, <2>4 DEF Bill
  <2>7. QED
    BY <1>1, <2>1, <2>5, <2>6 DEF L!Pay
<1>3. CASE \E i \in Invoices, n \in Tenants, t \in Pidxs : InitiateKhaltiPayment(i, n, t)
  <2>1. Bill' = Bill
    BY <1>3 DEF InitiateKhaltiPayment, Bill, IInv, TypeInv, TypeOK
  <2>2. QED
    BY <1>1, <2>1 DEF L!vars
<1>4. CASE \E i \in Invoices : FallDue(i)
  BY <1>1, <1>4 DEF FallDue, Bill, L!vars
<1>5. QED
  BY <1>2, <1>3, <1>4 DEF Environment, L!Next

\* Writing the row is the ledger's credit: of what was paid for Khalti, of what is
\* reported for eSewa.
LEMMA CreatePaymentLedger ==
    ASSUME IInv, NEW h \in Handlers, CreatePayment(h)
    PROVE  [L!Next]_L!vars
<1> DEFINE t == req[h].txn
           i == req[h].order
           amount == req[h].amount
           ref == req[h].ref
<1>1. i \in Invoices /\ amount \in Nat /\ ref \in Refs \cup {None}
  BY DEF CreatePayment, IInv, TypeInv, ActiveHasRequest, Request
<1>2. Bill' = Bill /\ UNCHANGED acked
  BY DEF CreatePayment, Bill, replyVars
<1>3. CASE ~UniqueTransaction(t)
  BY <1>2, <1>3 DEF CreatePayment, Credited, References, L!vars
<1>4. CASE UniqueTransaction(t)
  <2>1. paid' = [paid EXCEPT ![i] = @ + amount]
    BY <1>4 DEF CreatePayment
  <2>2. Credited' = Credited \cup {t} /\ References' = References \cup {ref}
    <3>1. PICK id \in PaymentIds : payments' = payments \cup
              {[id |-> id, invoice_id |-> i, transaction_id |-> t,
                gateway_ref_id |-> ref, amount |-> amount]}
      BY <1>4 DEF CreatePayment
    <3> DEFINE row == [id |-> id, invoice_id |-> i, transaction_id |-> t,
                       gateway_ref_id |-> ref, amount |-> amount]
    <3>2. /\ payments' = payments \cup {row}
          /\ row.transaction_id = t /\ row.gateway_ref_id = ref
      BY <3>1
    <3> HIDE DEF row
    <3>3. QED
      BY <3>2 DEF Credited, References
  <2>3. t \notin Credited
    BY <1>4 DEF UniqueTransaction, Credited
  <2>4. L!Credit(t, i, amount, ref)
    BY <1>2, <2>1, <2>2, <2>3 DEF L!Credit
  <2>5. VerifiedRequest(h) /\ pc[h] \in Verified
    BY DEF IInv, Safety, HandlerInv, CreatePayment, Verified
  <2>6. CASE t \in Pidxs
    <3>1. /\ checkout[t].state = "completed" /\ checkout[t].invoice = i
          /\ checkout[t].amount = amount /\ ref = RefOf[t]
      BY <2>5, <2>6, GatewaysAreApart DEF VerifiedRequest
    <3>2. Bill[t] = [invoice |-> i, amount |-> amount]
      BY <2>6, <3>1 DEF Bill
    <3>3. Bill[t] # None
      BY <1>1, <3>2, PaymentsAssumption
    <3>4. L!CreditPaid(t)
      BY <2>4, <3>1, <3>2, <3>3 DEF L!CreditPaid
    <3>5. QED
      BY <2>6, <3>4 DEF L!Next
  <2>7. CASE t \in Uuids
    <3>1. i = InvoiceOf[t] /\ amount \in PaidAmounts
      BY <2>5, <2>7, GatewaysAreApart DEF VerifiedRequest
    <3>2. L!CreditReported(t, amount, ref)
      BY <2>4, <3>1 DEF L!CreditReported
    <3>3. QED
      BY <1>1, <2>7, <3>1, <3>2 DEF L!Next
  <2>8. QED
    BY <2>5, <2>6, <2>7 DEF VerifiedRequest
<1>5. QED
  BY <1>3, <1>4

\* Telling the caller is the ledger's Confirm.
LEMMA ReplyLedger ==
    ASSUME IInv, NEW h \in Handlers, FindExisting(h) \/ QueueReceipt(h), Safety'
    PROVE  [L!Next]_L!vars
<1> DEFINE ref == req[h].ref
<1>1. UNCHANGED <<Bill, Credited, References, paid>>
  BY DEF FindExisting, QueueReceipt, Bill, Credited, References, dbVars
<1>2. ref \in Refs \cup {None}
  BY DEF FindExisting, QueueReceipt, IInv, TypeInv, ActiveHasRequest, Request
<1>3. acked' = acked \/ acked' = acked \cup {ref}
  BY DEF FindExisting, QueueReceipt
<1>4. ref \in acked' => \E onRecord \in References : ref \in {onRecord, None}
  <2>1. payments' = payments
    BY DEF FindExisting, QueueReceipt, dbVars
  <2>2. QED
    BY <2>1 DEF Safety, AcknowledgedIsRecorded, References
<1>5. QED
  BY <1>1, <1>2, <1>3, <1>4 DEF L!Next, L!Confirm, L!vars

\* Nothing else touches what the ledger sees.
LEMMA StutterLedger ==
    ASSUME UNCHANGED <<paid, payments, checkout, acked>>
    PROVE  UNCHANGED L!vars
BY DEF L!vars, Bill, Credited, References

\* Every step maps to a step of the ledger, or to a stutter.
LEMMA NextLedger == IInv /\ IInv' /\ [Next]_vars => [L!Next]_L!vars
<1> SUFFICES ASSUME IInv, IInv', [Next]_vars PROVE [L!Next]_L!vars
  OBVIOUS
<1>1. CASE UNCHANGED vars
  BY <1>1, StutterLedger DEF vars, dbVars, replyVars
<1>2. CASE Environment
  BY <1>2, EnvironmentLedger
<1>3. ASSUME NEW h \in Handlers, HandlerStep(h) PROVE [L!Next]_L!vars
  <2>1. CASE CreatePayment(h)
    BY <2>1, CreatePaymentLedger
  <2>2. CASE FindExisting(h) \/ QueueReceipt(h)
    BY <2>2, ReplyLedger DEF IInv
  <2>3. CASE \/ KhaltiLookup(h) \/ FindInvoice(h) \/ ReconcileRead(h)
             \/ ReconcileWrite(h) \/ BumpGet(h) \/ BumpSet(h)
    BY <2>3, StutterLedger DEF KhaltiLookup, FindInvoice, ReconcileRead, ReconcileWrite,
       BumpGet, BumpSet, dbVars, replyVars
  <2>4. QED
    BY <1>3, <2>1, <2>2, <2>3 DEF HandlerStep
<1>4. ASSUME NEW h \in Handlers, Arrival(h) \/ Fail(h) PROVE [L!Next]_L!vars
  BY <1>4, StutterLedger DEF Arrival, EsewaCallback, KhaltiCallback, Fail, dbVars, replyVars
<1>5. CASE CronStep \/ CronFail \/ Crash
  BY <1>5, StutterLedger DEF CronStep, CronFindAffected, CronUpdate, CronInvalidate,
     CronFail, Crash, dbVars, replyVars
<1>6. QED
  BY <1>1, <1>2, <1>3, <1>4, <1>5 DEF Next

\* The payment path implements the ledger: Khalti's transactions credit what was
\* paid where it was paid for, eSewa's what is reported where their id says, each
\* at most once, and only recorded references are confirmed.
THEOREM PaymentsImplementLedger == Spec => ImplementsLedger
BY InitLedger, NextLedger, Inductive, PTL DEF Spec, ImplementsLedger, L!Spec
=============================================================================
