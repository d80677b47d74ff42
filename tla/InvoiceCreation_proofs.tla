----------------------- MODULE InvoiceCreation_proofs -----------------------
(***************************************************************************)
(* Theorems about InvoiceCreation, for every number of keys, payloads,     *)
(* concurrent requests, crashes and failed calls.                          *)
(***************************************************************************)
EXTENDS InvoiceCreation, FiniteSetTheorems, TLAPS

-----------------------------------------------------------------------------
(* Types: a request at work has its locals, after the transaction also the  *)
(* invoice it made.                                                         *)

ActiveRequest(h) ==
    /\ pc[h] # "idle" => req[h] \in Request
    /\ pc[h] \in Committed => req[h].invoice \in InvoiceIds

DoneHasResponse ==
    \A k \in Keys : keys[k] # None /\ keys[k].status = "DONE" => keys[k].response \in InvoiceIds

TypeInv == TypeOK /\ (\A h \in Handlers : ActiveRequest(h)) /\ DoneHasResponse

\* The empty tables are well typed.
LEMMA InitTypeInv == Init => TypeInv
BY InvoiceCreationAssumption
   DEF Init, TypeInv, TypeOK, ActiveRequest, DoneHasResponse, Labels, Committed

\* The row claimKeyIfNotExists inserts is a row of the schema.
LEMMA NewKeyRowType ==
    ASSUME NEW p \in Payloads
    PROVE  NewKeyRow(p) \in KeyRow /\ NewKeyRow(p).status # "DONE"
BY DEF NewKeyRow, KeyRow

\* A request starts with its key and payload, and no invoice.
LEMMA ReceiveTypeInv ==
    ASSUME TypeInv, NEW h \in Handlers, NEW k \in Keys, NEW p \in Payloads, Receive(h, k, p)
    PROVE  TypeInv'
<1> DEFINE r == [key |-> k, payload |-> p, invoice |-> None, version |-> 0]
<1>1. r \in Request
  BY InvoiceCreationAssumption DEF Request
<1>2. req' = [req EXCEPT ![h] = r] /\ pc' = [pc EXCEPT ![h] = "claim"]
  BY DEF Receive, Goto
<1>3. req' \in [Handlers -> Request \cup {None}] /\ pc' \in [Handlers -> Labels]
  BY <1>1, <1>2 DEF TypeInv, TypeOK, Labels
<1>4. \A g \in Handlers : ActiveRequest(g)'
  BY <1>1, <1>2 DEF TypeInv, TypeOK, ActiveRequest, Committed
<1>5. QED
  BY <1>3, <1>4 DEF Receive, TypeInv, TypeOK, DoneHasResponse, storeVars, faultVars

\* A claim writes a typed row, or none.
LEMMA ClaimTypeInv ==
    ASSUME TypeInv, NEW h \in Handlers, Claim(h) \/ ClaimError(h)
    PROVE  TypeInv'
<1>1. req[h] \in Request /\ pc[h] = "claim" /\ req' = req
  BY DEF Claim, ClaimError, TypeInv, ActiveRequest
<1>2. req[h].payload \in Payloads /\ req[h].key \in Keys
  BY <1>1 DEF Request
<1>3. keys' = keys \/ keys' = [keys EXCEPT ![req[h].key] = NewKeyRow(req[h].payload)]
  BY DEF Claim, ClaimError
<1>4. keys' \in [Keys -> KeyRow \cup {None}] /\ DoneHasResponse'
  BY <1>2, <1>3, NewKeyRowType DEF TypeInv, TypeOK, DoneHasResponse
<1>5. pc' \in [Handlers -> Labels] /\ \A g \in Handlers : ActiveRequest(g)'
  BY <1>1 DEF Claim, ClaimError, Goto, TypeInv, TypeOK, ActiveRequest, Labels, Committed
<1>6. claimErrors' \in 0..MaxClaimErrors
  BY InvoiceCreationAssumption DEF Claim, ClaimError, TypeInv, TypeOK, faultVars
<1>7. QED
  BY <1>1, <1>4, <1>5, <1>6 DEF Claim, ClaimError, TypeInv, TypeOK, faultVars

\* A replayed response is an invoice id.
LEMMA ReadKeyTypeInv ==
    ASSUME TypeInv, NEW h \in Handlers, ReadKey(h)
    PROVE  TypeInv'
<1>1. req[h] \in Request /\ req[h].key \in Keys
  BY DEF ReadKey, TypeInv, ActiveRequest, Request
<1>2. answers' \subseteq Answer
  BY <1>1 DEF ReadKey, Respond, Answer, TypeInv, TypeOK, DoneHasResponse, Request
<1>3. /\ pc' \in [Handlers -> Labels]
      /\ req' \in [Handlers -> Request \cup {None}]
      /\ \A g \in Handlers : ActiveRequest(g)'
  BY <1>1 DEF ReadKey, Goto, Finish, TypeInv, TypeOK, ActiveRequest, Labels, Committed
<1>4. QED
  BY <1>2, <1>3 DEF ReadKey, TypeInv, TypeOK, DoneHasResponse, storeVars, faultVars

\* A committed request has the invoice it made.
LEMMA TransactionTypeInv ==
    ASSUME TypeInv, NEW h \in Handlers, Transaction(h)
    PROVE  TypeInv'
<1> DEFINE p == req[h].payload
<1>1. req[h] \in Request /\ req[h].key \in Keys /\ p \in Payloads
  BY DEF Transaction, TypeInv, ActiveRequest, Request
<1>2. p.customer \in Customer
  BY <1>1, InvoiceCreationAssumption DEF Payload
<1>3. CASE Finish(h) /\ UNCHANGED <<invoices, customers>>
  BY <1>1, <1>3 DEF Transaction, Finish, TypeInv, TypeOK, ActiveRequest, DoneHasResponse,
     Labels, Committed, faultVars
<1>4. ASSUME NEW id \in InvoiceIds,
             invoices' = invoices \cup {[id |-> id, key |-> req[h].key, payload |-> p]},
             customers' = customers \cup {p.customer},
             req' = [req EXCEPT ![h].invoice = id],
             Goto(h, "markDone")
      PROVE  TypeInv'
  <2>1. req' = [req EXCEPT ![h] = [req[h] EXCEPT !.invoice = id]]
    BY <1>4
  <2>2. [req[h] EXCEPT !.invoice = id] \in Request
    BY <1>1 DEF Request
  <2>3. [req[h] EXCEPT !.invoice = id].invoice = id
    BY <1>1 DEF Request
  <2>4. /\ pc' \in [Handlers -> Labels]
        /\ req' \in [Handlers -> Request \cup {None}]
        /\ \A g \in Handlers : ActiveRequest(g)'
    BY <1>4, <2>1, <2>2, <2>3 DEF Goto, TypeInv, TypeOK, ActiveRequest, Labels, Committed
  <2>5. invoices' \subseteq Invoice /\ customers' \subseteq Customer
    BY <1>1, <1>2, <1>4 DEF TypeInv, TypeOK, Invoice
  <2>6. QED
    BY <2>4, <2>5 DEF Transaction, TypeInv, TypeOK, DoneHasResponse, faultVars
<1>5. QED
  BY <1>3, <1>4 DEF Transaction

\* A key becomes DONE with a response.
LEMMA MarkDoneTypeInv ==
    ASSUME TypeInv, NEW h \in Handlers, MarkDone(h)
    PROVE  TypeInv'
<1> DEFINE k == req[h].key
<1>1. req[h] \in Request /\ k \in Keys /\ req[h].invoice \in InvoiceIds
  BY DEF MarkDone, TypeInv, ActiveRequest, Request, Committed
<1>2. /\ pc' \in [Handlers -> Labels]
      /\ req' \in [Handlers -> Request \cup {None}]
      /\ \A g \in Handlers : ActiveRequest(g)'
  BY <1>1 DEF MarkDone, Goto, Finish, TypeInv, TypeOK, ActiveRequest, Labels, Committed
<1>3. keys' \in [Keys -> KeyRow \cup {None}] /\ DoneHasResponse'
  <2>1. CASE keys[k] = None
    BY <2>1 DEF MarkDone, TypeInv, TypeOK, DoneHasResponse
  <2>2. CASE keys[k] # None
    <3> DEFINE row == [keys[k] EXCEPT !.status = "DONE", !.response = req[h].invoice]
    <3>1. keys[k] \in KeyRow
      BY <1>1, <2>2 DEF TypeInv, TypeOK
    <3>2. row \in KeyRow /\ row.response \in InvoiceIds
      BY <1>1, <3>1 DEF KeyRow
    <3>3. keys' = [keys EXCEPT ![k] = row]
      BY <2>2 DEF MarkDone
    <3> HIDE DEF row
    <3>4. QED
      BY <1>1, <3>2, <3>3 DEF TypeInv, TypeOK, DoneHasResponse
  <2>3. QED
    BY <2>1, <2>2
<1>4. QED
  BY <1>2, <1>3 DEF MarkDone, TypeInv, TypeOK, faultVars

\* The job is of the invoice made.
LEMMA EnqueueTypeInv ==
    ASSUME TypeInv, NEW h \in Handlers, Enqueue(h)
    PROVE  TypeInv'
BY DEF Enqueue, Goto, TypeInv, TypeOK, ActiveRequest, DoneHasResponse, Request, Labels,
       Committed, faultVars

\* The list version stays within its bound.
LEMMA BumpTypeInv ==
    ASSUME TypeInv, NEW h \in Handlers, BumpGet(h) \/ BumpInit(h) \/ BumpSet(h)
    PROVE  TypeInv'
<1>1. /\ req[h] \in Request
      /\ req[h].payload.tenant \in Tenants
      /\ req[h].invoice \in InvoiceIds
  BY InvoiceCreationAssumption
     DEF BumpGet, BumpInit, BumpSet, TypeInv, ActiveRequest, Request, Committed, Payload
<1>2. CASE BumpGet(h)
  <2> DEFINE v == listVersion[req[h].payload.tenant]
             w == IF v = 0 THEN 1 ELSE v
             r == [req[h] EXCEPT !.version = w]
  <2>1. w \in 0..MaxVersion
    BY <1>1, InvoiceCreationAssumption DEF TypeInv, TypeOK
  <2>2. r \in Request /\ r.invoice = req[h].invoice
    BY <1>1, <2>1 DEF Request
  <2>3. req' = [req EXCEPT ![h] = r]
    BY <1>2 DEF BumpGet
  <2> HIDE DEF r
  <2>4. /\ pc' \in [Handlers -> Labels]
        /\ req' \in [Handlers -> Request \cup {None}]
        /\ \A g \in Handlers : ActiveRequest(g)'
    BY <1>1, <1>2, <2>2, <2>3 DEF BumpGet, Goto, TypeInv, TypeOK, ActiveRequest, Labels,
       Committed
  <2>5. QED
    BY <1>2, <2>4 DEF BumpGet, TypeInv, TypeOK, DoneHasResponse, storeVars, faultVars
<1>3. CASE BumpInit(h)
  <2>1. 1 \in 0..MaxVersion
    BY InvoiceCreationAssumption
  <2>2. QED
    BY <1>1, <1>3, <2>1 DEF BumpInit, Goto, TypeInv, TypeOK, ActiveRequest,
       DoneHasResponse, Labels, Committed, faultVars
<1>4. CASE BumpSet(h)
  <2>1. (IF req[h].version < MaxVersion THEN req[h].version + 1 ELSE req[h].version)
            \in 0..MaxVersion
    BY <1>1, InvoiceCreationAssumption DEF Request
  <2>2. listVersion' \in [Tenants -> 0..MaxVersion]
    BY <1>1, <1>4, <2>1 DEF BumpSet, TypeInv, TypeOK
  <2>3. answers' \subseteq Answer
    BY <1>1, <1>4 DEF BumpSet, Respond, TypeInv, TypeOK, Answer, Request
  <2>4. QED
    BY <1>4, <2>2, <2>3 DEF BumpSet, Finish, TypeInv, TypeOK, ActiveRequest,
       DoneHasResponse, Labels, Committed, faultVars
<1>5. QED
  BY <1>2, <1>3, <1>4

\* What can fail or expire keeps the types.
LEMMA FaultTypeInv ==
    ASSUME TypeInv,
           Crash \/ (\E h \in Handlers : Fail(h)) \/ (\E n \in Tenants : VersionExpires(n))
    PROVE  TypeInv'
<1> USE InvoiceCreationAssumption
        DEF TypeInv, TypeOK, ActiveRequest, DoneHasResponse, Labels, Committed, storeVars,
            handlerVars, faultVars
<1>1. CASE Crash
  BY <1>1 DEF Crash
<1>2. ASSUME NEW h \in Handlers, Fail(h) PROVE TypeInv'
  BY <1>2 DEF Fail, Finish
<1>3. ASSUME NEW n \in Tenants, VersionExpires(n) PROVE TypeInv'
  BY <1>3 DEF VersionExpires
<1>4. QED
  BY <1>1, <1>2, <1>3

\* Every step keeps the types.
LEMMA NextTypeInv == TypeInv /\ [Next]_vars => TypeInv'
<1> SUFFICES ASSUME TypeInv, [Next]_vars PROVE TypeInv'
  OBVIOUS
<1>1. CASE UNCHANGED vars
  BY <1>1 DEF vars, storeVars, handlerVars, faultVars, TypeInv, TypeOK, ActiveRequest,
              DoneHasResponse
<1>2. ASSUME NEW h \in Handlers, HandlerStep(h) \/ ClaimError(h) PROVE TypeInv'
  BY <1>2, ClaimTypeInv, ReadKeyTypeInv, TransactionTypeInv, MarkDoneTypeInv,
     EnqueueTypeInv, BumpTypeInv DEF HandlerStep
<1>3. CASE Next
  BY <1>2, <1>3, ReceiveTypeInv, FaultTypeInv DEF Next
<1>4. QED
  BY <1>1, <1>3

\* Every reachable state is well typed: a request answers and queues only
\* invoices it has, and a DONE key has a response.
THEOREM TypeCorrect == Spec => []TypeOK
<1>1. TypeInv => TypeOK
  BY DEF TypeInv
<1>2. QED
  BY InitTypeInv, NextTypeInv, <1>1, PTL DEF Spec

-----------------------------------------------------------------------------
(* What holds whatever fails: an answer, like a key and a handler that has  *)
(* committed, names an invoice made under its own key.                      *)

MadeUnder(id, k) == \E i \in invoices : i.id = id /\ i.key = k

Real ==
    /\ \A h \in Handlers : pc[h] \in Committed => MadeUnder(req[h].invoice, req[h].key)
    /\ \A k \in Keys : keys[k] # None /\ keys[k].status = "DONE" =>
           MadeUnder(keys[k].response, k)
    /\ AnswersAreReal
    /\ CustomerIsOwn

\* There are no answers at first.
LEMMA InitReal == Init => Real
BY DEF Init, Real, Committed, AnswersAreReal, CustomerIsOwn

\* Steps that write no row and answer nobody: the handlers go on, or leave.
LEMMA MovingReal ==
    ASSUME Real, UNCHANGED <<keys, invoices, customers, answers>>,
           \A h \in Handlers : pc'[h] \in Committed =>
               /\ pc[h] \in Committed
               /\ req'[h].invoice = req[h].invoice
               /\ req'[h].key = req[h].key
    PROVE  Real'
BY DEF Real, MadeUnder, AnswersAreReal, CustomerIsOwn

\* A claimed key has no response yet.
LEMMA ClaimReal ==
    ASSUME TypeInv, Real, NEW h \in Handlers, Claim(h) \/ ClaimError(h)
    PROVE  Real'
<1>1. UNCHANGED <<invoices, customers, answers, req>>
  BY DEF Claim, ClaimError
<1>2. \A g \in Handlers : pc'[g] \in Committed => pc[g] \in Committed
  BY DEF Claim, ClaimError, Goto, TypeInv, TypeOK, Committed
<1>3. req[h].key \in Keys /\ req[h].payload \in Payloads
  BY DEF Claim, ClaimError, TypeInv, ActiveRequest, Request
<1>4. keys' = keys \/ keys' = [keys EXCEPT ![req[h].key] = NewKeyRow(req[h].payload)]
  BY DEF Claim, ClaimError
<1>5. \A k \in Keys : keys'[k] # None /\ keys'[k].status = "DONE" => keys'[k] = keys[k]
  BY <1>3, <1>4, NewKeyRowType DEF TypeInv, TypeOK
<1>6. QED
  BY <1>1, <1>2, <1>5 DEF Real, MadeUnder, AnswersAreReal, CustomerIsOwn

\* A replay names the DONE row's invoice.
LEMMA ReadKeyReal ==
    ASSUME TypeInv, Real, NEW h \in Handlers, ReadKey(h)
    PROVE  Real'
<1>1. UNCHANGED <<keys, invoices, customers>>
  BY DEF ReadKey, storeVars
<1>2. \A g \in Handlers : pc'[g] \in Committed => pc'[g] = pc[g] /\ req'[g] = req[g]
  BY DEF ReadKey, Goto, Finish, TypeInv, TypeOK, Committed
<1>3. req[h].key \in Keys
  BY DEF ReadKey, TypeInv, ActiveRequest, Request
<1>4. AnswersAreReal'
  BY <1>1, <1>3 DEF ReadKey, Respond, Real, MadeUnder, AnswersAreReal
<1>5. QED
  BY <1>1, <1>2, <1>4 DEF Real, MadeUnder, CustomerIsOwn

\* A transaction commits with a customer of the caller's organization.
LEMMA TransactionReal ==
    ASSUME TypeInv, Real, NEW h \in Handlers, Transaction(h)
    PROVE  Real'
<1> DEFINE p == req[h].payload
<1>1. p \in Payloads /\ req[h] \in Request
  BY DEF Transaction, TypeInv, ActiveRequest, Request
<1>2. UNCHANGED <<keys, answers>>
  BY DEF Transaction
<1>3. CASE Finish(h) /\ UNCHANGED <<invoices, customers>>
  <2>1. \A g \in Handlers : pc'[g] \in Committed => pc'[g] = pc[g] /\ req'[g] = req[g]
    BY <1>3 DEF Finish, TypeInv, TypeOK, Committed
  <2>2. QED
    BY <1>2, <1>3, <2>1, MovingReal
<1>4. ASSUME NEW id \in InvoiceIds,
             IF p.by = "id" THEN OwnsCustomer(p) ELSE CanUpsert(p),
             invoices' = invoices \cup {[id |-> id, key |-> req[h].key, payload |-> p]},
             customers' = customers \cup {p.customer},
             req' = [req EXCEPT ![h].invoice = id],
             Goto(h, "markDone")
      PROVE  Real'
  <2> DEFINE new == [id |-> id, key |-> req[h].key, payload |-> p]
  <2>1. new \in invoices' /\ new.id = id /\ new.key = req[h].key
    BY <1>4
  <2>2. req'[h].invoice = id /\ req'[h].key = req[h].key
    BY <1>1, <1>4 DEF TypeInv, TypeOK, Request
  <2>3. MadeUnder(req[h].invoice, req[h].key)'
    BY <2>1, <2>2 DEF MadeUnder
  <2>4. \A g \in Handlers \ {h} : pc'[g] = pc[g] /\ req'[g] = req[g]
    BY <1>4 DEF Goto, TypeInv, TypeOK
  <2>5. invoices \subseteq invoices'
    BY <1>4
  <2>6. ASSUME NEW g \in Handlers, pc'[g] \in Committed
        PROVE  MadeUnder(req[g].invoice, req[g].key)'
    <3>1. CASE g = h
      BY <3>1, <2>3
    <3>2. CASE g # h
      BY <3>2, <2>4, <2>5, <2>6 DEF Real, MadeUnder
    <3>3. QED
      BY <3>1, <3>2
  <2>8. CustomerIsOwn'
    <3>1. p.customer.tenant = p.tenant
      BY <1>1, <1>4, InvoiceCreationAssumption DEF OwnsCustomer, Payload
    <3>2. new.payload = p /\ p.customer \in customers'
      BY <1>4
    <3>3. invoices' = invoices \cup {new} /\ customers \subseteq customers'
      BY <1>4
    <3> HIDE DEF new
    <3>4. QED
      BY <3>1, <3>2, <3>3 DEF Real, CustomerIsOwn
  <2>9. AnswersAreReal'
    BY <1>2, <1>4 DEF Real, AnswersAreReal
  <2>10. (\A k \in Keys : keys[k] # None /\ keys[k].status = "DONE" =>
            MadeUnder(keys[k].response, k))'
    BY <1>2, <2>5 DEF Real, MadeUnder
  <2>11. QED
    BY <2>6, <2>8, <2>9, <2>10 DEF Real
<1>5. QED
  BY <1>3, <1>4 DEF Transaction

\* The stored response is the request's own invoice.
LEMMA MarkDoneReal ==
    ASSUME TypeInv, Real, NEW h \in Handlers, MarkDone(h)
    PROVE  Real'
<1> DEFINE k == req[h].key
<1>1. k \in Keys /\ pc[h] = "markDone"
  BY DEF MarkDone, TypeInv, ActiveRequest, Request
<1>2. UNCHANGED <<invoices, customers, answers>>
  BY DEF MarkDone
<1>3. \A g \in Handlers : pc'[g] \in Committed => pc[g] \in Committed /\ req'[g] = req[g]
  BY DEF MarkDone, Goto, Finish, TypeInv, TypeOK, Committed
<1>4. MadeUnder(req[h].invoice, k)
  BY <1>1 DEF Real, Committed
<1>5. \A j \in Keys : \/ keys'[j] = keys[j]
                      \/ j = k /\ keys'[j].response = req[h].invoice
  <2>1. CASE keys[k] = None
    BY <2>1 DEF MarkDone
  <2>2. CASE keys[k] # None
    <3>1. keys[k] \in KeyRow
      BY <1>1, <2>2 DEF TypeInv, TypeOK
    <3>2. keys' = [keys EXCEPT ![k] = [keys[k] EXCEPT !.status = "DONE", !.response = req[h].invoice]]
      BY <2>2 DEF MarkDone
    <3>3. QED
      BY <1>1, <3>1, <3>2 DEF TypeInv, TypeOK, KeyRow
  <2>3. QED
    BY <2>1, <2>2
<1>6. QED
  BY <1>2, <1>3, <1>4, <1>5 DEF Real, MadeUnder, AnswersAreReal, CustomerIsOwn

\* The request answers with the invoice it made.
LEMMA BumpSetReal ==
    ASSUME TypeInv, Real, NEW h \in Handlers, BumpSet(h)
    PROVE  Real'
<1>1. UNCHANGED <<keys, invoices, customers>>
  BY DEF BumpSet
<1>2. \A g \in Handlers : pc'[g] \in Committed => pc'[g] = pc[g] /\ req'[g] = req[g]
  BY DEF BumpSet, Finish, TypeInv, TypeOK, Committed
<1>3. MadeUnder(req[h].invoice, req[h].key)
  BY DEF BumpSet, Real, Committed
<1>4. AnswersAreReal'
  BY <1>1, <1>3 DEF BumpSet, Respond, Real, MadeUnder, AnswersAreReal
<1>5. QED
  BY <1>1, <1>2, <1>4 DEF Real, MadeUnder, CustomerIsOwn

\* The steps between two awaits that only move the handler.
LEMMA OtherReal ==
    ASSUME TypeInv, Real,
           \/ \E h \in Handlers, k \in Keys, p \in Payloads : Receive(h, k, p)
           \/ \E h \in Handlers : Enqueue(h) \/ BumpGet(h) \/ BumpInit(h) \/ Fail(h)
           \/ \E n \in Tenants : VersionExpires(n)
           \/ Crash
    PROVE  Real'
<1>1. UNCHANGED <<keys, invoices, customers, answers>>
  BY DEF Receive, Enqueue, BumpGet, BumpInit, Fail, VersionExpires, Crash, storeVars
<1>2. \A h \in Handlers : pc'[h] \in Committed =>
               /\ pc[h] \in Committed
               /\ req'[h].invoice = req[h].invoice
               /\ req'[h].key = req[h].key
  BY DEF Receive, Enqueue, BumpGet, BumpInit, Fail, Finish, Goto, VersionExpires, Crash,
         handlerVars, storeVars, TypeInv, TypeOK, Committed, ActiveRequest, Request
<1>3. QED
  BY <1>1, <1>2, MovingReal

\* Every step keeps what answers rest on.
LEMMA NextReal == TypeInv /\ Real /\ [Next]_vars => Real'
<1> SUFFICES ASSUME TypeInv, Real, [Next]_vars PROVE Real'
  OBVIOUS
<1>1. CASE UNCHANGED vars
  BY <1>1, MovingReal DEF vars, storeVars, handlerVars
<1>2. CASE Next
  BY <1>2, ClaimReal, ReadKeyReal, TransactionReal, MarkDoneReal, BumpSetReal, OtherReal
     DEF Next, HandlerStep
<1>3. QED
  BY <1>1, <1>2

LEMMA RealHolds == Spec => []Real
<1>1. Init => TypeInv /\ Real
  BY InitTypeInv, InitReal
<1>2. TypeInv /\ Real /\ [Next]_vars => (TypeInv /\ Real)'
  BY NextTypeInv, NextReal
<1>3. QED
  BY <1>1, <1>2, PTL DEF Spec

\* Whatever fails, a successful response names a committed invoice made under
\* the caller's key.
THEOREM ResponsesAreReal == Spec => []AnswersAreReal
<1>1. Real => AnswersAreReal
  BY DEF Real
<1>2. QED
  BY <1>1, RealHolds, PTL

\* However lookups, upserts and commits of tenants interleave, no invoice is
\* written for another tenant's customer.
THEOREM CustomersAreOwn == Spec => []CustomerIsOwn
<1>1. Real => CustomerIsOwn
  BY DEF Real
<1>2. QED
  BY <1>1, RealHolds, PTL

-----------------------------------------------------------------------------
(* At most once, as long as no insert of a key fails.  The handler that      *)
(* inserted the row owns the key until the row is DONE: nobody else gets     *)
(* past readKey, and a key without a row has no invoice.                     *)

Owns(h) == pc[h] \in {"transaction", "markDone"}

\* What a handler knows of its key.
KeyFacts(h) ==
    /\ pc[h] \in {"readKey", "transaction"} \cup Committed => keys[req[h].key] # None
    /\ Owns(h) => /\ keys[req[h].key].status = "PROCESSING"
                  /\ keys[req[h].key].requestHash = req[h].payload
    /\ pc[h] = "transaction" => \A i \in invoices : i.key # req[h].key
    /\ pc[h] = "markDone" => \E i \in invoices : /\ i.id = req[h].invoice
                                                /\ i.key = req[h].key
                                                /\ i.payload = req[h].payload
    /\ pc[h] \in Committed \ {"markDone"} =>
           keys[req[h].key] = [requestHash |-> req[h].payload, status |-> "DONE",
                               response |-> req[h].invoice]

OneOwner ==
    \A g, h \in Handlers : Owns(g) /\ Owns(h) /\ req[g].key = req[h].key => g = h

FreeKeysAreUnused == \A i \in invoices : keys[i.key] # None

AnswersAreStored ==
    \A a \in answers : keys[a.key] = [requestHash |-> a.payload, status |-> "DONE",
                                     response |-> a.invoice]

Once ==
    /\ \A h \in Handlers : KeyFacts(h)
    /\ OneOwner
    /\ FreeKeysAreUnused
    /\ AtMostOncePerKey
    /\ DoneIsBacked
    /\ AnswersAreStored
    /\ JobsAreDone

\* At first no key has an owner or an invoice.
LEMMA InitOnce == Init => Once
BY DEF Init, Once, KeyFacts, Owns, OneOwner, FreeKeysAreUnused, AtMostOncePerKey,
       DoneIsBacked, AnswersAreStored, JobsAreDone, Committed

\* Steps that touch no key and no invoice.
LEMMA MovingOnce ==
    ASSUME TypeInv, Once, UNCHANGED <<keys, invoices>>,
           \A h \in Handlers :
               \/ pc'[h] = pc[h] /\ req'[h] = req[h]
               \/ pc'[h] \in {"idle", "claim"}
               \/ /\ pc[h] \in Committed \ {"markDone"}
                  /\ pc'[h] \in Committed \ {"markDone"}
                  /\ req'[h].key = req[h].key
                  /\ req'[h].payload = req[h].payload
                  /\ req'[h].invoice = req[h].invoice,
           AnswersAreStored', JobsAreDone'
    PROVE  Once'
<1>1. ASSUME NEW h \in Handlers PROVE KeyFacts(h)'
  <2>1. KeyFacts(h)
    BY DEF Once
  <2>2. QED
    BY <2>1 DEF KeyFacts, Owns, Committed
<1>2. OneOwner'
  BY DEF Once, OneOwner, Owns, Committed
<1>3. FreeKeysAreUnused' /\ AtMostOncePerKey' /\ DoneIsBacked'
  BY DEF Once, FreeKeysAreUnused, AtMostOncePerKey, DoneIsBacked
<1>4. QED
  BY <1>1, <1>2, <1>3 DEF Once

\* The insert succeeds for one handler only, and for a key nobody has used.
LEMMA ClaimOnce ==
    ASSUME TypeInv, Once, NEW h \in Handlers, Claim(h)
    PROVE  Once'
<1> DEFINE k == req[h].key
           p == req[h].payload
<1>1. k \in Keys /\ p \in Payloads /\ pc[h] = "claim"
  BY DEF Claim, TypeInv, ActiveRequest, Request
<1>2. UNCHANGED <<invoices, req, answers, jobs>>
  BY DEF Claim
<1>3. CASE KeyIsFree(k)
  <2>1. keys' = [keys EXCEPT ![k] = NewKeyRow(p)] /\ pc' = [pc EXCEPT ![h] = "transaction"]
    BY <1>3 DEF Claim, Goto
  <2>2. keys[k] = None /\ \A j \in Keys \ {k} : keys'[j] = keys[j]
    BY <1>3, <2>1 DEF KeyIsFree, TypeInv, TypeOK
  <2>3. /\ keys'[k] # None
        /\ keys'[k].status = "PROCESSING"
        /\ keys'[k].requestHash = p
    <3>1. keys'[k] = NewKeyRow(p)
      BY <1>1, <2>1 DEF TypeInv, TypeOK
    <3>2. NewKeyRow(p) # None
      BY <1>1, NewKeyRowType, InvoiceCreationAssumption DEF KeyRow
    <3>3. QED
      BY <3>1, <3>2 DEF NewKeyRow
  <2>4. \A i \in invoices : i.key # k
    BY <2>2 DEF Once, FreeKeysAreUnused
  <2>5. ASSUME NEW g \in Handlers \ {h} PROVE KeyFacts(g)' /\ pc'[g] = pc[g] /\ (Owns(g) => req[g].key # k)
    <3>1. KeyFacts(g) /\ pc'[g] = pc[g]
      BY <2>1 DEF Once, TypeInv, TypeOK
    <3>2. pc[g] \in {"readKey", "transaction"} \cup Committed => req[g].key \in Keys \ {k}
      BY <2>2, <3>1 DEF KeyFacts, TypeInv, ActiveRequest, Request, Committed
    <3>3. KeyFacts(g)'
      BY <1>2, <2>2, <3>1, <3>2 DEF KeyFacts, Owns, Committed
    <3>4. QED
      BY <3>1, <3>2, <3>3 DEF Owns, Committed
  <2>6. KeyFacts(h)'
    BY <1>2, <2>1, <2>3, <2>4 DEF KeyFacts, Owns, Committed, TypeInv, TypeOK
  <2>7. OneOwner'
    BY <1>2, <2>5 DEF Once, OneOwner, Owns
  <2>8. FreeKeysAreUnused' /\ AtMostOncePerKey'
    BY <1>2, <2>2, <2>3
       DEF Once, FreeKeysAreUnused, AtMostOncePerKey, TypeInv, TypeOK, Invoice
  <2>9. DoneIsBacked'
    BY <1>2, <2>2, <2>3 DEF Once, DoneIsBacked
  <2>10. AnswersAreStored'
    <3>1. ASSUME NEW a \in answers PROVE a.key # k
      <4>1. keys[a.key] = [requestHash |-> a.payload, status |-> "DONE", response |-> a.invoice]
        BY DEF Once, AnswersAreStored
      <4>2. a.payload \in Payloads /\ a.invoice \in InvoiceIds
        BY DEF TypeInv, TypeOK, Answer
      <4>3. keys[a.key] \in KeyRow
        BY <4>1, <4>2 DEF KeyRow
      <4>4. QED
        BY <4>3, <2>2, InvoiceCreationAssumption DEF KeyRow
    <3>2. QED
      BY <1>2, <2>2, <3>1 DEF Once, AnswersAreStored, TypeInv, TypeOK, Answer
  <2>11. JobsAreDone'
    BY <1>2, <2>2 DEF Once, JobsAreDone
  <2>12. QED
    BY <2>5, <2>6, <2>7, <2>8, <2>9, <2>10, <2>11 DEF Once
<1>4. CASE ~KeyIsFree(k)
  <2>1. UNCHANGED keys /\ pc' = [pc EXCEPT ![h] = "readKey"] /\ keys[k] # None
    BY <1>4 DEF Claim, Goto, KeyIsFree
  <2>2. ASSUME NEW g \in Handlers PROVE KeyFacts(g)'
    BY <1>2, <2>1 DEF Once, KeyFacts, Owns, Committed, TypeInv, TypeOK
  <2>3. OneOwner'
    BY <1>2, <2>1 DEF Once, OneOwner, Owns, TypeInv, TypeOK
  <2>4. QED
    BY <1>2, <2>1, <2>2, <2>3
       DEF Once, FreeKeysAreUnused, AtMostOncePerKey, DoneIsBacked, AnswersAreStored,
           JobsAreDone
<1>5. QED
  BY <1>3, <1>4

\* A DONE key replays the invoice its stored payload made; every other row
\* turns the request away.
LEMMA ReadKeyOnce ==
    ASSUME TypeInv, Once, NEW h \in Handlers, ReadKey(h)
    PROVE  Once'
<1> DEFINE k == req[h].key
           p == req[h].payload
<1>1. UNCHANGED <<keys, invoices, jobs>>
  BY DEF ReadKey, storeVars
<1>2. k \in Keys /\ p \in Payloads /\ keys[k] # None
  BY DEF ReadKey, TypeInv, ActiveRequest, Request, Once, KeyFacts
<1>3. pc' = [pc EXCEPT ![h] = "idle"] /\ req' = [req EXCEPT ![h] = None]
  BY <1>2 DEF ReadKey, Finish
<1>4. \A g \in Handlers : (pc'[g] = pc[g] /\ req'[g] = req[g]) \/ pc'[g] \in {"idle", "claim"}
  BY <1>3 DEF TypeInv, TypeOK
<1>5. AnswersAreStored'
  <2>1. CASE UNCHANGED answers
    BY <1>1, <2>1 DEF Once, AnswersAreStored
  <2>2. CASE keys[k].status = "DONE" /\ SameRequest(k, p) /\ Respond(h, keys[k].response)
    <3>1. keys[k] \in KeyRow
      BY <1>2 DEF TypeInv, TypeOK
    <3>2. keys[k] = [requestHash |-> p, status |-> "DONE", response |-> keys[k].response]
      BY <2>2, <3>1 DEF SameRequest, KeyRow
    <3> DEFINE new == [key |-> k, payload |-> p, invoice |-> keys[k].response]
    <3>3. answers' = answers \cup {new}
      BY <2>2 DEF Respond
    <3>4. keys[new.key] = [requestHash |-> new.payload, status |-> "DONE", response |-> new.invoice]
      BY <3>2
    <3> HIDE DEF new
    <3>5. QED
      BY <1>1, <3>3, <3>4 DEF Once, AnswersAreStored
  <2>3. QED
    BY <1>2, <2>1, <2>2 DEF ReadKey
<1>6. JobsAreDone'
  BY <1>1 DEF Once, JobsAreDone
<1>7. QED
  BY <1>1, <1>4, <1>5, <1>6, MovingOnce

\* Only the owner of a key makes an invoice, and it makes the first.
LEMMA TransactionOnce ==
    ASSUME TypeInv, Once, NEW h \in Handlers, Transaction(h)
    PROVE  Once'
<1> DEFINE k == req[h].key
           p == req[h].payload
<1>1. k \in Keys /\ p \in Payloads /\ req[h] \in Request /\ pc[h] = "transaction"
  BY DEF Transaction, TypeInv, ActiveRequest, Request
<1>2. UNCHANGED <<keys, answers, jobs>>
  BY DEF Transaction
<1>3. AnswersAreStored' /\ JobsAreDone'
  BY <1>2 DEF Once, AnswersAreStored, JobsAreDone
<1>4. CASE Finish(h) /\ UNCHANGED <<invoices, customers>>
  <2>1. \A g \in Handlers : (pc'[g] = pc[g] /\ req'[g] = req[g]) \/ pc'[g] \in {"idle", "claim"}
    BY <1>4 DEF Finish, TypeInv, TypeOK
  <2>2. QED
    BY <1>2, <1>3, <1>4, <2>1, MovingOnce
<1>5. ASSUME NEW id \in InvoiceIds,
             invoices' = invoices \cup {[id |-> id, key |-> k, payload |-> p]},
             req' = [req EXCEPT ![h].invoice = id],
             Goto(h, "markDone")
      PROVE  Once'
  <2> DEFINE new == [id |-> id, key |-> k, payload |-> p]
  <2>1. invoices' = invoices \cup {new} /\ new.id = id /\ new.key = k /\ new.payload = p
    BY <1>5
  <2>2. /\ req'[h].key = k /\ req'[h].payload = p /\ req'[h].invoice = id
        /\ pc'[h] = "markDone"
        /\ \A g \in Handlers \ {h} : pc'[g] = pc[g] /\ req'[g] = req[g]
    BY <1>1, <1>5 DEF Goto, TypeInv, TypeOK, Request
  <2> HIDE DEF new
  <2>3. KeyFacts(h) /\ Owns(h)
    BY <1>1 DEF Once, Owns
  <2>4. keys[k] # None /\ keys[k].status = "PROCESSING" /\ keys[k].requestHash = p
          /\ \A i \in invoices : i.key # k
    BY <1>1, <2>3 DEF KeyFacts, Owns
  <2>5. KeyFacts(h)'
    BY <1>2, <2>1, <2>2, <2>4 DEF KeyFacts, Owns, Committed
  <2>6. ASSUME NEW g \in Handlers \ {h} PROVE KeyFacts(g)'
    <3>1. KeyFacts(g)
      BY DEF Once
    <3>2. Owns(g) => req[g].key # k
      BY <2>3 DEF Once, OneOwner
    <3>3. QED
      BY <1>2, <2>1, <2>2, <3>1, <3>2 DEF KeyFacts, Owns, Committed
  <2>7. OneOwner'
    BY <2>2, <2>3 DEF Once, OneOwner, Owns
  <2>8. FreeKeysAreUnused' /\ AtMostOncePerKey' /\ DoneIsBacked'
    BY <1>2, <2>1, <2>4 DEF Once, FreeKeysAreUnused, AtMostOncePerKey, DoneIsBacked
  <2>9. QED
    BY <1>3, <2>5, <2>6, <2>7, <2>8 DEF Once
<1>6. QED
  BY <1>4, <1>5 DEF Transaction

\* The owner's invoice is the one the key replays from now on.
LEMMA MarkDoneOnce ==
    ASSUME TypeInv, Once, NEW h \in Handlers, MarkDone(h)
    PROVE  Once'
<1> DEFINE k == req[h].key
           row == [requestHash |-> req[h].payload, status |-> "DONE",
                   response |-> req[h].invoice]
<1>1. k \in Keys /\ pc[h] = "markDone" /\ KeyFacts(h) /\ Owns(h)
  BY DEF MarkDone, TypeInv, ActiveRequest, Request, Once, Owns
<1>2. UNCHANGED <<invoices, answers, jobs>>
  BY DEF MarkDone
<1>3. keys[k] # None /\ keys[k].requestHash = req[h].payload /\ keys[k].status = "PROCESSING"
  BY <1>1 DEF KeyFacts, Owns, Committed
<1>4. UNCHANGED req /\ pc' = [pc EXCEPT ![h] = "enqueue"]
  BY <1>3 DEF MarkDone, Goto
<1>5. keys' = [keys EXCEPT ![k] = row]
  <2>1. keys[k] \in KeyRow
    BY <1>1, <1>3 DEF TypeInv, TypeOK
  <2>2. keys' = [keys EXCEPT ![k] = [keys[k] EXCEPT !.status = "DONE", !.response = req[h].invoice]]
    BY <1>3 DEF MarkDone
  <2>3. [keys[k] EXCEPT !.status = "DONE", !.response = req[h].invoice] = row
    <3> DEFINE e == [keys[k] EXCEPT !.status = "DONE", !.response = req[h].invoice]
    <3>1. req[h].invoice \in InvoiceIds
      BY <1>1 DEF TypeInv, ActiveRequest, Committed
    <3>2. e \in KeyRow /\ e.status = "DONE" /\ e.response = req[h].invoice
            /\ e.requestHash = req[h].payload
      BY <1>3, <2>1, <3>1 DEF KeyRow
    <3> HIDE DEF e
    <3>3. e = row
      BY <3>2 DEF KeyRow
    <3>4. QED
      BY <3>3 DEF e
  <2>4. QED
    BY <2>2, <2>3
<1>6. /\ row.status = "DONE" /\ row.response = req[h].invoice
      /\ row.requestHash = req[h].payload
  OBVIOUS
<1>7. row # None
  <2>1. req[h].payload \in Payloads /\ req[h].invoice \in InvoiceIds
    BY <1>1 DEF TypeInv, ActiveRequest, Request, Committed
  <2>2. QED
    BY <2>1, InvoiceCreationAssumption
<1>8. KeyFacts(h)'
  BY <1>1, <1>4, <1>5, <1>7 DEF KeyFacts, Owns, Committed, TypeInv, TypeOK
<1> HIDE DEF row
<1>9. keys'[k] = row /\ \A j \in Keys \ {k} : keys'[j] = keys[j]
  BY <1>1, <1>5 DEF TypeInv, TypeOK
<1>10. ASSUME NEW g \in Handlers \ {h} PROVE KeyFacts(g)'
  <2>1. KeyFacts(g) /\ pc'[g] = pc[g] /\ req'[g] = req[g]
    BY <1>4 DEF Once, TypeInv, TypeOK
  <2>2. Owns(g) => req[g].key # k
    BY <1>1 DEF Once, OneOwner
  <2>3. pc[g] \in Committed \ {"markDone"} => req[g].key # k
    <3>1. ASSUME pc[g] \in Committed \ {"markDone"}, req[g].key = k PROVE FALSE
      <4>1. keys[k].status = "DONE"
        BY <2>1, <3>1 DEF KeyFacts
      <4>2. QED
        BY <1>3, <4>1
    <3>2. QED
      BY <3>1
  <2>4. pc[g] # "idle" => req[g].key \in Keys
    BY DEF TypeInv, ActiveRequest, Request
  <2>5. QED
    BY <1>2, <1>7, <1>9, <2>1, <2>2, <2>3, <2>4 DEF KeyFacts, Owns, Committed
<1>11. OneOwner'
  BY <1>4 DEF Once, OneOwner, Owns, TypeInv, TypeOK
<1>12. FreeKeysAreUnused' /\ AtMostOncePerKey'
  BY <1>2, <1>7, <1>9
     DEF Once, FreeKeysAreUnused, AtMostOncePerKey, TypeInv, TypeOK, Invoice
<1>13. DoneIsBacked'
  <2>1. \E i \in invoices : i.id = row.response /\ i.key = k /\ i.payload = row.requestHash
    BY <1>1, <1>6 DEF KeyFacts
  <2>2. QED
    BY <1>2, <1>9, <2>1 DEF Once, DoneIsBacked
<1>14. \A a \in answers : a.key \in Keys \ {k}
  <2>1. ASSUME NEW a \in answers, a.key = k PROVE FALSE
    <3> DEFINE done == [requestHash |-> a.payload, status |-> "DONE", response |-> a.invoice]
    <3>1. keys[k] = done
      BY <2>1 DEF Once, AnswersAreStored
    <3>2. done.status = "DONE"
      OBVIOUS
    <3> HIDE DEF done
    <3>3. QED
      BY <1>3, <3>1, <3>2
  <2>2. QED
    BY <2>1 DEF TypeInv, TypeOK, Answer
<1>15. AnswersAreStored'
  BY <1>2, <1>9, <1>14 DEF Once, AnswersAreStored
<1>16. JobsAreDone'
  BY <1>2, <1>3, <1>9 DEF Once, JobsAreDone
<1>17. QED
  BY <1>8, <1>10, <1>11, <1>12, <1>13, <1>15, <1>16 DEF Once

\* The job is added, and later the invoice returned, under a DONE key.
LEMMA AfterDoneOnce ==
    ASSUME TypeInv, Once, NEW h \in Handlers,
           Enqueue(h) \/ BumpGet(h) \/ BumpInit(h) \/ BumpSet(h)
    PROVE  Once'
<1> DEFINE k == req[h].key
           row == [requestHash |-> req[h].payload, status |-> "DONE",
                   response |-> req[h].invoice]
<1>1. UNCHANGED <<keys, invoices>> /\ pc[h] \in Committed \ {"markDone"}
  BY DEF Enqueue, BumpGet, BumpInit, BumpSet, Committed, storeVars
<1>2. k \in Keys /\ keys[k] = row /\ keys[k] # None
  BY <1>1 DEF TypeInv, ActiveRequest, Request, Once, KeyFacts, Committed
<1>3. \A g \in Handlers :
         \/ pc'[g] = pc[g] /\ req'[g] = req[g]
         \/ pc'[g] \in {"idle", "claim"}
         \/ /\ pc[g] \in Committed \ {"markDone"}
            /\ pc'[g] \in Committed \ {"markDone"}
            /\ req'[g].key = req[g].key
            /\ req'[g].payload = req[g].payload
            /\ req'[g].invoice = req[g].invoice
  BY DEF Enqueue, BumpGet, BumpInit, BumpSet, Goto, Finish, Committed, TypeInv, TypeOK,
         ActiveRequest, Request
<1>4. AnswersAreStored'
  <2>1. CASE UNCHANGED answers
    BY <1>1, <2>1 DEF Once, AnswersAreStored
  <2>2. CASE BumpSet(h)
    <3> DEFINE new == [key |-> k, payload |-> req[h].payload, invoice |-> req[h].invoice]
    <3>1. answers' = answers \cup {new}
      BY <2>2 DEF BumpSet, Respond
    <3>2. keys[new.key] = [requestHash |-> new.payload, status |-> "DONE", response |-> new.invoice]
      BY <1>2
    <3> HIDE DEF new
    <3>3. QED
      BY <1>1, <3>1, <3>2 DEF Once, AnswersAreStored
  <2>3. QED
    BY <2>1, <2>2 DEF Enqueue, BumpGet, BumpInit, storeVars
<1>5. JobsAreDone'
  <2>1. keys[k].status = "DONE" /\ keys[k].response = req[h].invoice
    BY <1>2
  <2>2. jobs' \subseteq jobs \cup {req[h].invoice}
    BY DEF Enqueue, BumpGet, BumpInit, BumpSet, storeVars
  <2>3. QED
    BY <1>1, <1>2, <2>1, <2>2 DEF Once, JobsAreDone
<1>6. QED
  BY <1>1, <1>3, <1>4, <1>5, MovingOnce

\* Arrivals, expiry and failures: at most an owner goes away.
LEMMA OtherOnce ==
    ASSUME TypeInv, Once,
           \/ \E h \in Handlers, k \in Keys, p \in Payloads : Receive(h, k, p)
           \/ \E h \in Handlers : Fail(h)
           \/ \E n \in Tenants : VersionExpires(n)
           \/ Crash
    PROVE  Once'
<1>1. UNCHANGED <<keys, invoices, jobs, answers>>
  BY DEF Receive, Fail, VersionExpires, Crash, storeVars
<1>2. \A h \in Handlers : (pc'[h] = pc[h] /\ req'[h] = req[h]) \/ pc'[h] \in {"idle", "claim"}
  BY DEF Receive, Fail, Finish, Goto, VersionExpires, Crash, handlerVars, TypeInv, TypeOK
<1>3. AnswersAreStored' /\ JobsAreDone'
  BY <1>1 DEF Once, AnswersAreStored, JobsAreDone
<1>4. QED
  BY <1>1, <1>2, <1>3, MovingOnce

\* Every step keeps one owner and one invoice to a key.
LEMMA NextOnce ==
    ASSUME MaxClaimErrors = 0
    PROVE  TypeInv /\ Once /\ [Next]_vars => Once'
<1> SUFFICES ASSUME TypeInv, Once, [Next]_vars PROVE Once'
  OBVIOUS
<1>1. CASE UNCHANGED vars
  <2>1. AnswersAreStored' /\ JobsAreDone'
    BY <1>1 DEF vars, storeVars, Once, AnswersAreStored, JobsAreDone
  <2>2. QED
    BY <1>1, <2>1, MovingOnce DEF vars, storeVars, handlerVars
<1>2. \A h \in Handlers : ~ClaimError(h)
  BY DEF ClaimError, TypeInv, TypeOK
<1>3. CASE Next
  BY <1>2, <1>3, ClaimOnce, ReadKeyOnce, TransactionOnce, MarkDoneOnce, AfterDoneOnce,
     OtherOnce DEF Next, HandlerStep
<1>4. QED
  BY <1>1, <1>3

\* The ownership invariant, where inserts fail only as duplicates.
LEMMA OnceHolds ==
    ASSUME MaxClaimErrors = 0
    PROVE  Spec => [](TypeInv /\ Once)
<1>1. Init => TypeInv /\ Once
  BY InitTypeInv, InitOnce
<1>2. TypeInv /\ Once /\ [Next]_vars => (TypeInv /\ Once)'
  BY NextTypeInv, NextOnce
<1>3. QED
  BY <1>1, <1>2, PTL DEF Spec

\* If no insert of a key fails, then however often a client sends a request
\* and wherever the attempts crash or fail, a key makes at most one invoice.
THEOREM AtMostOnce ==
    ASSUME MaxClaimErrors = 0
    PROVE  Spec => []AtMostOncePerKey
<1>1. TypeInv /\ Once => AtMostOncePerKey
  BY DEF Once
<1>2. QED
  BY <1>1, OnceHolds, PTL

\* Under the same assumption a DONE key replays an invoice made for the payload it
\* was claimed with.
THEOREM DoneKeysAreBacked ==
    ASSUME MaxClaimErrors = 0
    PROVE  Spec => []DoneIsBacked
<1>1. TypeInv /\ Once => DoneIsBacked
  BY DEF Once
<1>2. QED
  BY <1>1, OnceHolds, PTL

\* Under the same assumption the queue hears only of invoices their key replays.
THEOREM QueuedAreDone ==
    ASSUME MaxClaimErrors = 0
    PROVE  Spec => []JobsAreDone
<1>1. TypeInv /\ Once => JobsAreDone
  BY DEF Once
<1>2. QED
  BY <1>1, OnceHolds, PTL

\* Under the same assumption all successful responses to a key agree, on an
\* invoice made for the payload each of them answers.
THEOREM ResponsesAgree ==
    ASSUME MaxClaimErrors = 0
    PROVE  Spec => []AnswersAgree
<1>1. ASSUME TypeInv, Once PROVE AnswersAgree
  <2>1. ASSUME NEW a \in answers
        PROVE  \E i \in invoices : i.id = a.invoice /\ i.key = a.key /\ i.payload = a.payload
    <3>1. keys[a.key] = [requestHash |-> a.payload, status |-> "DONE", response |-> a.invoice]
      BY <1>1 DEF Once, AnswersAreStored
    <3>2. a.key \in Keys /\ a.payload \in Payloads /\ a.invoice \in InvoiceIds
      BY <1>1 DEF TypeInv, TypeOK, Answer
    <3>3. keys[a.key] # None
      BY <3>1, <3>2, InvoiceCreationAssumption
    <3>4. QED
      BY <1>1, <3>1, <3>2, <3>3 DEF Once, DoneIsBacked
  <2>2. ASSUME NEW a \in answers, NEW b \in answers, a.key = b.key PROVE a = b
    <3> DEFINE rowOf(x) == [requestHash |-> x.payload, status |-> "DONE",
                            response |-> x.invoice]
    <3>0. rowOf(a) = rowOf(b)
      BY <1>1, <2>2 DEF Once, AnswersAreStored
    <3>1. a.payload = b.payload /\ a.invoice = b.invoice
      <4>1. rowOf(a).requestHash = a.payload /\ rowOf(a).response = a.invoice
        OBVIOUS
      <4>2. rowOf(b).requestHash = b.payload /\ rowOf(b).response = b.invoice
        OBVIOUS
      <4> HIDE DEF rowOf
      <4>3. QED
        BY <3>0, <4>1, <4>2
    <3>2. QED
      BY <1>1, <2>2, <3>1 DEF TypeInv, TypeOK, Answer
  <2>3. QED
    BY <2>1, <2>2 DEF AnswersAgree
<1>2. QED
  BY <1>1, OnceHolds, PTL

-----------------------------------------------------------------------------
(* Refinement: the transaction makes, the queue dispatches, and a response  *)
(* answers, with the invoice its key has; every other step is a stutter.    *)

\* The empty tables are the abstract initial state.
LEMMA InitKeyed == Init => K!Init
BY DEF Init, K!Init

\* A request that has committed has the invoice of its own key and payload.
LEMMA CommittedInvoice ==
    ASSUME TypeInv, Once, NEW h \in Handlers, pc[h] \in Committed
    PROVE  \E m \in invoices :
               m.id = req[h].invoice /\ m.key = req[h].key /\ m.payload = req[h].payload
<1> DEFINE k == req[h].key
           row == [requestHash |-> req[h].payload, status |-> "DONE",
                   response |-> req[h].invoice]
<1>1. CASE pc[h] = "markDone"
  BY <1>1 DEF Once, KeyFacts
<1>2. CASE pc[h] # "markDone"
  <2>1. k \in Keys
    BY DEF TypeInv, ActiveRequest, Request, Committed
  <2>2. keys[k] = row /\ keys[k] # None
    BY <1>2 DEF Once, KeyFacts
  <2>3. /\ row.status = "DONE" /\ row.response = req[h].invoice
        /\ row.requestHash = req[h].payload
    OBVIOUS
  <2> HIDE DEF row
  <2>4. QED
    BY <2>1, <2>2, <2>3 DEF Once, DoneIsBacked
<1>3. QED
  BY <1>1, <1>2

\* The transaction runs for the owner of a key, which has made nothing yet.
LEMMA TransactionKeyed ==
    ASSUME TypeInv, Once, NEW h \in Handlers, Transaction(h)
    PROVE  [K!Next]_(K!vars)
<1>1. req[h].key \in Keys /\ req[h].payload \in Payloads /\ pc[h] = "transaction"
  BY DEF Transaction, TypeInv, ActiveRequest, Request
<1>2. \A m \in invoices : m.key # req[h].key
  BY <1>1 DEF Once, KeyFacts, Owns
<1>3. CASE UNCHANGED invoices
  BY <1>3 DEF Transaction, K!vars
<1>4. ASSUME NEW id \in InvoiceIds,
             \A m \in invoices : m.id # id,
             invoices' = invoices \cup {[id |-> id, key |-> req[h].key, payload |-> req[h].payload]}
      PROVE  K!Next
  <2>1. K!Make(id, req[h].key, req[h].payload)
    BY <1>2, <1>4 DEF Transaction, K!Make
  <2>2. QED
    BY <1>1, <2>1 DEF K!Next
<1>5. QED
  BY <1>3, <1>4 DEF Transaction

\* The worker is given the invoice of the request.
LEMMA EnqueueKeyed ==
    ASSUME TypeInv, Once, NEW h \in Handlers, Enqueue(h)
    PROVE  K!Next
<1>1. PICK m \in invoices : m.id = req[h].invoice
  BY CommittedInvoice DEF Enqueue, Committed
<1>2. K!Dispatch(m)
  BY <1>1 DEF Enqueue, K!Dispatch
<1>3. QED
  BY <1>2 DEF K!Next

\* A response, replayed from the key or given at the end, is of an invoice made
\* for the caller.
LEMMA ResponseKeyed ==
    ASSUME TypeInv, Once, NEW h \in Handlers, ReadKey(h) \/ BumpSet(h)
    PROVE  [K!Next]_(K!vars)
<1>1. UNCHANGED <<invoices, jobs>>
  BY DEF ReadKey, BumpSet, storeVars
<1>2. CASE UNCHANGED answers
  BY <1>1, <1>2 DEF K!vars
<1>3. ASSUME NEW m \in invoices, m.key = req[h].key, m.payload = req[h].payload,
             Respond(h, m.id)
      PROVE  K!Next
  <2>1. K!Answer(m)
    BY <1>1, <1>3 DEF Respond, K!Answer
  <2>2. QED
    BY <2>1 DEF K!Next
<1>4. CASE BumpSet(h)
  <2>1. PICK m \in invoices :
            m.id = req[h].invoice /\ m.key = req[h].key /\ m.payload = req[h].payload
    BY <1>4, CommittedInvoice DEF BumpSet, Committed
  <2>2. QED
    BY <1>3, <1>4, <2>1 DEF BumpSet
<1>5. CASE ReadKey(h) /\ answers' # answers
  <2> DEFINE k == req[h].key
  <2>1. k \in Keys
    BY <1>5 DEF ReadKey, TypeInv, ActiveRequest, Request
  <2>2. /\ keys[k] # None /\ keys[k].status = "DONE"
        /\ SameRequest(k, req[h].payload)
        /\ Respond(h, keys[k].response)
    BY <1>5 DEF ReadKey
  <2>3. PICK m \in invoices :
            m.id = keys[k].response /\ m.key = k /\ m.payload = keys[k].requestHash
    BY <2>1, <2>2 DEF Once, DoneIsBacked
  <2>4. QED
    BY <1>3, <2>2, <2>3 DEF SameRequest
<1>6. QED
  BY <1>2, <1>4, <1>5

\* Every step is a step of the abstract specification, or none at all.
LEMMA NextKeyed ==
    ASSUME MaxClaimErrors = 0
    PROVE  TypeInv /\ Once /\ [Next]_vars => [K!Next]_(K!vars)
<1> SUFFICES ASSUME TypeInv, Once, [Next]_vars PROVE [K!Next]_(K!vars)
  OBVIOUS
<1>1. CASE UNCHANGED <<invoices, jobs, answers>>
  BY <1>1 DEF K!vars
<1>2. ASSUME NEW h \in Handlers,
             Transaction(h) \/ Enqueue(h) \/ ReadKey(h) \/ BumpSet(h)
      PROVE  [K!Next]_(K!vars)
  BY <1>2, TransactionKeyed, EnqueueKeyed, ResponseKeyed
<1>3. ASSUME NEW h \in Handlers,
             Claim(h) \/ MarkDone(h) \/ BumpGet(h) \/ BumpInit(h) \/ ClaimError(h) \/ Fail(h)
      PROVE  UNCHANGED <<invoices, jobs, answers>>
  BY <1>3 DEF Claim, MarkDone, BumpGet, BumpInit, ClaimError, Fail, storeVars
<1>4. ASSUME \/ \E h \in Handlers, k \in Keys, p \in Payloads : Receive(h, k, p)
             \/ \E n \in Tenants : VersionExpires(n)
             \/ Crash
             \/ UNCHANGED vars
      PROVE  UNCHANGED <<invoices, jobs, answers>>
  BY <1>4 DEF Receive, VersionExpires, Crash, vars, storeVars
<1>5. QED
  BY <1>1, <1>2, <1>3, <1>4 DEF Next, HandlerStep

\* If inserts of keys fail only as duplicates, createInvoice implements creation by key: whatever
\* is retried, crashes or runs at the same time, clients see one creation per key.
THEOREM InvoicesAreCreatedOnce ==
    ASSUME MaxClaimErrors = 0
    PROVE  Spec => ImplementsKeyedCreation
<1>1. TypeInv /\ Once /\ [Next]_vars => [K!Next]_(K!vars)
  BY NextKeyed
<1>2. QED
  BY InitKeyed, <1>1, OnceHolds, PTL DEF Spec, ImplementsKeyedCreation, K!Spec

-----------------------------------------------------------------------------
(* Duplicates, when inserts of a key may fail.  An invoice of a key, and a  *)
(* request that is going to make one, costs the claim of the key or a       *)
(* failed insert: one that reads no row was sent there by a failed insert.  *)

Made(k) == {i \in invoices : i.key = k}

Going(k) ==
    {h \in Handlers : /\ pc[h] = "transaction" \/ (pc[h] = "readKey" /\ keys[k] = None)
                      /\ req[h].key = k}

Due(k) == Cardinality(Made(k)) + Cardinality(Going(k))
Paid(k) == IF keys[k] = None THEN claimErrors ELSE claimErrors + 1

Counted(k) == IsFiniteSet(Made(k)) /\ IsFiniteSet(Going(k)) /\ Due(k) <= Paid(k)

CountInv == \A k \in Keys : Counted(k)

LEMMA InitCount == Init => CountInv
<1> SUFFICES ASSUME Init, NEW k \in Keys
             PROVE  Counted(k)
  BY DEF CountInv
<1>1. Made(k) = {} /\ Going(k) = {}
  BY DEF Init, Made, Going
<1>2. QED
  BY <1>1, FS_EmptySet DEF Init, Counted, Due, Paid

LEMMA PaidType ==
    ASSUME TypeInv
    PROVE  claimErrors \in Nat /\ \A k \in Keys : Paid(k) \in Nat
<1>1. claimErrors \in Nat
  BY InvoiceCreationAssumption DEF TypeInv, TypeOK
<1>2. QED
  BY <1>1 DEF Paid

LEMMA NextPaidType ==
    ASSUME TypeInv'
    PROVE  \A k \in Keys : Paid(k)' \in Nat
<1>1. claimErrors' \in 0..MaxClaimErrors
  BY DEF TypeInv, TypeOK
<1>2. claimErrors' \in Nat
  BY <1>1, InvoiceCreationAssumption
<1>3. \A k \in Keys : Paid(k)' = IF keys'[k] = None THEN claimErrors' ELSE claimErrors' + 1
  BY DEF Paid
<1>4. QED
  BY <1>2, <1>3

\* Nothing is made, and nobody new is going to make an invoice.
LEMMA NoneStarted ==
    ASSUME TypeInv, TypeInv', NEW k \in Keys, Counted(k), invoices' = invoices,
           \A g \in Going(k)' : g \in Going(k), Paid(k)' >= Paid(k)
    PROVE  Counted(k)'
<1> DEFINE A == Going(k)
           B == Going(k)'
           M == Made(k)
<1>1. IsFiniteSet(A) /\ IsFiniteSet(M) /\ Cardinality(M) + Cardinality(A) <= Paid(k)
  BY DEF Counted, Due
<1>2. B \subseteq A
  OBVIOUS
<1>3. Made(k)' = M
  BY DEF Made
<1> HIDE DEF A, B, M
<1>4. /\ IsFiniteSet(B) /\ Cardinality(B) <= Cardinality(A)
      /\ Cardinality(A) \in Nat /\ Cardinality(B) \in Nat /\ Cardinality(M) \in Nat
  BY <1>1, <1>2, FS_Subset, FS_CardinalityType
<1>5. Paid(k) \in Nat /\ Paid(k)' \in Nat
  BY PaidType, NextPaidType
<1>6. Cardinality(M) + Cardinality(B) <= Paid(k)'
  BY <1>1, <1>4, <1>5
<1>7. QED
  BY <1>1, <1>3, <1>4, <1>6 DEF Counted, Due, B

\* One more request is going to make an invoice, and has paid for it.
LEMMA OneStarted ==
    ASSUME TypeInv, TypeInv', NEW k \in Keys, Counted(k), NEW h \in Handlers,
           invoices' = invoices, \A g \in Going(k)' : g = h \/ g \in Going(k),
           Paid(k)' >= Paid(k) + 1
    PROVE  Counted(k)'
<1> DEFINE A == Going(k)
           B == Going(k)'
           M == Made(k)
<1>1. IsFiniteSet(A) /\ IsFiniteSet(M) /\ Cardinality(M) + Cardinality(A) <= Paid(k)
  BY DEF Counted, Due
<1>2. B \subseteq A \cup {h}
  OBVIOUS
<1>3. Made(k)' = M
  BY DEF Made
<1> HIDE DEF A, B, M
<1>4. /\ IsFiniteSet(A \cup {h}) /\ Cardinality(A) \in Nat /\ Cardinality(M) \in Nat
      /\ Cardinality(A \cup {h}) <= Cardinality(A) + 1
  <2>1. Cardinality(A) \in Nat /\ Cardinality(M) \in Nat
    BY <1>1, FS_CardinalityType
  <2>2. /\ IsFiniteSet(A \cup {h})
        /\ Cardinality(A \cup {h}) = IF h \in A THEN Cardinality(A) ELSE Cardinality(A) + 1
    BY <1>1, FS_AddElement
  <2>3. QED
    BY <2>1, <2>2
<1>5. /\ IsFiniteSet(B) /\ Cardinality(B) <= Cardinality(A \cup {h})
      /\ Cardinality(B) \in Nat /\ Cardinality(A \cup {h}) \in Nat
  BY <1>2, <1>4, FS_Subset, FS_CardinalityType
<1>6. Paid(k) \in Nat /\ Paid(k)' \in Nat
  BY PaidType, NextPaidType
<1>7. Cardinality(M) + Cardinality(B) <= Paid(k)'
  BY <1>1, <1>4, <1>5, <1>6
<1>8. QED
  BY <1>1, <1>3, <1>5, <1>7 DEF Counted, Due, B

\* A request that was going to make an invoice has made it.
LEMMA OneMade ==
    ASSUME TypeInv, TypeInv', NEW k \in Keys, Counted(k), NEW h \in Going(k), NEW i,
           invoices' = invoices \cup {i}, i.key = k,
           h \notin Going(k)', \A g \in Going(k)' : g \in Going(k), Paid(k)' = Paid(k)
    PROVE  Counted(k)'
<1> DEFINE A == Going(k)
           B == Going(k)'
           M == Made(k)
<1>1. IsFiniteSet(A) /\ IsFiniteSet(M) /\ Cardinality(M) + Cardinality(A) <= Paid(k)
  BY DEF Counted, Due
<1>2. B \subseteq A \ {h} /\ h \in A
  OBVIOUS
<1>3. Made(k)' = M \cup {i}
  BY DEF Made
<1> HIDE DEF A, B, M
<1>4. /\ IsFiniteSet(A \ {h}) /\ Cardinality(A \ {h}) = Cardinality(A) - 1
      /\ Cardinality(A) \in Nat
  BY <1>1, <1>2, FS_RemoveElement, FS_CardinalityType
<1>5. IsFiniteSet(B) /\ Cardinality(B) <= Cardinality(A \ {h}) /\ Cardinality(B) \in Nat
  BY <1>2, <1>4, FS_Subset, FS_CardinalityType
<1>6. /\ IsFiniteSet(M \cup {i}) /\ Cardinality(M \cup {i}) <= Cardinality(M) + 1
      /\ Cardinality(M) \in Nat /\ Cardinality(M \cup {i}) \in Nat
  <2>1. Cardinality(M) \in Nat
    BY <1>1, FS_CardinalityType
  <2>2. /\ IsFiniteSet(M \cup {i})
        /\ Cardinality(M \cup {i}) = IF i \in M THEN Cardinality(M) ELSE Cardinality(M) + 1
    BY <1>1, FS_AddElement
  <2>3. QED
    BY <2>1, <2>2
<1>7. Paid(k) \in Nat
  BY PaidType
<1>8. Cardinality(M \cup {i}) + Cardinality(B) <= Paid(k)
  BY <1>1, <1>4, <1>5, <1>6, <1>7
<1>9. QED
  BY <1>3, <1>5, <1>6, <1>8 DEF Counted, Due, B

\* Both ways through claimKeyIfNotExists.
LEMMA ClaimCount ==
    ASSUME TypeInv, TypeInv', CountInv, NEW h \in Handlers, Claim(h) \/ ClaimError(h),
           NEW k \in Keys
    PROVE  Counted(k)'
<1> DEFINE c == req[h].key
<1>1. c \in Keys /\ req[h].payload \in Payloads /\ pc[h] = "claim"
  BY DEF Claim, ClaimError, TypeInv, ActiveRequest, Request
<1>2. NewKeyRow(req[h].payload) # None
  BY <1>1, NewKeyRowType, InvoiceCreationAssumption DEF KeyRow
<1>3. Counted(k) /\ invoices' = invoices /\ req' = req
  BY DEF CountInv, Claim, ClaimError
<1>4. claimErrors \in Nat /\ Paid(k) \in Nat
  BY PaidType
<1>5. \A g \in Handlers : g # h => pc'[g] = pc[g]
  BY DEF Claim, ClaimError, Goto, TypeInv, TypeOK
<1>6. keys'[k] = keys[k] \/ (k = c /\ keys[k] = None /\ keys'[k] # None)
  BY <1>1, <1>2 DEF Claim, ClaimError, KeyIsFree, TypeInv, TypeOK
<1>7. claimErrors' = claimErrors \/ (ClaimError(h) /\ claimErrors' = claimErrors + 1)
  BY DEF Claim, ClaimError, faultVars
<1>8. Paid(k)' >= Paid(k)
  BY <1>4, <1>6, <1>7 DEF Paid
<1>9. \A g \in Going(k)' : g = h \/ g \in Going(k)
  BY <1>3, <1>5, <1>6 DEF Going
<1>10. CASE h \notin Going(k)'
  BY <1>3, <1>8, <1>9, <1>10, NoneStarted
<1>11. CASE h \in Going(k)'
  <2>1. k = c
    BY <1>3, <1>11 DEF Going
  <2>2. CASE Claim(h)
    <3>1. keys[k] = None /\ keys'[k] # None
      BY <1>1, <1>2, <1>11, <2>1, <2>2 DEF Claim, KeyIsFree, Goto, Going, TypeInv, TypeOK
    <3>2. claimErrors' = claimErrors
      BY <2>2 DEF Claim, faultVars
    <3>3. QED
      BY <1>3, <1>4, <1>9, <3>1, <3>2, OneStarted DEF Paid
  <2>3. CASE ClaimError(h)
    <3>1. claimErrors' = claimErrors + 1
      BY <2>3 DEF ClaimError
    <3>2. QED
      BY <1>3, <1>4, <1>6, <1>9, <3>1, OneStarted DEF Paid
  <2>4. QED
    BY <2>2, <2>3
<1>12. QED
  BY <1>10, <1>11

LEMMA TransactionCount ==
    ASSUME TypeInv, TypeInv', CountInv, NEW h \in Handlers, Transaction(h), NEW k \in Keys
    PROVE  Counted(k)'
<1> DEFINE c == req[h].key
<1>1. /\ Counted(k) /\ pc[h] = "transaction" /\ c \in Keys
      /\ keys' = keys /\ claimErrors' = claimErrors
  BY DEF CountInv, Transaction, TypeInv, ActiveRequest, Request, faultVars
<1>2. Paid(k)' = Paid(k) /\ Paid(k) \in Nat
  BY <1>1, PaidType DEF Paid
<1>3. /\ \A g \in Handlers : g # h => pc'[g] = pc[g] /\ req'[g] = req[g]
      /\ pc'[h] \in {"idle", "markDone"}
  BY DEF Transaction, Goto, Finish, TypeInv, TypeOK
<1>4. h \notin Going(k)' /\ \A g \in Going(k)' : g \in Going(k)
  BY <1>1, <1>3 DEF Going
<1>5. CASE invoices' = invoices
  BY <1>1, <1>2, <1>4, <1>5, NoneStarted
<1>6. ASSUME NEW id \in InvoiceIds,
             invoices' = invoices \cup {[id |-> id, key |-> c, payload |-> req[h].payload]}
      PROVE  Counted(k)'
  <2> DEFINE i == [id |-> id, key |-> c, payload |-> req[h].payload]
  <2>1. i.key = c /\ invoices' = invoices \cup {i}
    BY <1>6
  <2> HIDE DEF i
  <2>2. CASE k = c
    <3>1. h \in Going(k)
      BY <1>1, <2>2 DEF Going
    <3>2. QED
      BY <1>1, <1>2, <1>4, <2>1, <2>2, <3>1, OneMade
  <2>3. CASE k # c
    <3>1. Made(k)' = Made(k)
      BY <2>1, <2>3 DEF Made
    <3>2. Going(k)' = Going(k)
      BY <1>1, <1>3, <2>3 DEF Going
    <3>3. QED
      BY <1>1, <1>2, <3>1, <3>2 DEF Counted, Due
  <2>4. QED
    BY <2>2, <2>3
<1>7. QED
  BY <1>5, <1>6 DEF Transaction

\* Whatever else happens makes no invoice and starts none.
LEMMA OtherCount ==
    ASSUME TypeInv, TypeInv', CountInv, NEW k \in Keys,
           \/ Crash
           \/ \E n \in Tenants : VersionExpires(n)
           \/ \E h \in Handlers :
                \/ Fail(h) \/ \E c \in Keys, p \in Payloads : Receive(h, c, p)
                \/ ReadKey(h) \/ MarkDone(h) \/ Enqueue(h)
                \/ BumpGet(h) \/ BumpInit(h) \/ BumpSet(h)
    PROVE  Counted(k)'
<1>1. invoices' = invoices /\ claimErrors' = claimErrors
  BY DEF Crash, VersionExpires, Fail, Receive, ReadKey, MarkDone, Enqueue, BumpGet, BumpInit,
     BumpSet, storeVars, faultVars
<1>2. Counted(k) /\ claimErrors \in Nat
  BY PaidType DEF CountInv
<1>3. keys[k] # None => keys'[k] # None
  <2>1. ASSUME NEW h \in Handlers, MarkDone(h), keys[k] # None
        PROVE  keys'[k] # None
    <3>1. keys' \in [Keys -> KeyRow \cup {None}] /\ keys[k] \in KeyRow
      BY <2>1 DEF TypeInv, TypeOK
    <3>2. CASE k # req[h].key
      BY <2>1, <3>2 DEF MarkDone, TypeInv, TypeOK
    <3>3. CASE k = req[h].key
      <4> DEFINE row == [keys[k] EXCEPT !.status = "DONE", !.response = req[h].invoice]
      <4>1. keys'[k] = row
        BY <2>1, <3>3 DEF MarkDone, TypeInv, TypeOK
      <4>2. req[h].invoice \in InvoiceIds
        BY <2>1 DEF MarkDone, TypeInv, ActiveRequest, Committed
      <4>3. row \in KeyRow
        BY <3>1, <4>2 DEF KeyRow
      <4>4. QED
        BY <4>1, <4>3, InvoiceCreationAssumption DEF KeyRow
    <3>4. QED
      BY <3>2, <3>3
  <2>2. (\E h \in Handlers : MarkDone(h)) \/ keys' = keys
    BY DEF Crash, VersionExpires, Fail, Receive, ReadKey, Enqueue, BumpGet, BumpInit, BumpSet,
       storeVars
  <2>3. QED
    BY <2>1, <2>2
<1>4. Paid(k)' >= Paid(k)
  BY <1>1, <1>2, <1>3 DEF Paid
<1>5. CASE Crash \/ \E n \in Tenants : VersionExpires(n)
  <2>1. \A g \in Going(k)' : g \in Going(k)
    BY <1>5 DEF Crash, VersionExpires, Going, handlerVars
  <2>2. QED
    BY <1>1, <1>2, <1>4, <2>1, NoneStarted
<1>6. ASSUME NEW h \in Handlers,
             \/ Fail(h) \/ \E c \in Keys, p \in Payloads : Receive(h, c, p)
             \/ ReadKey(h) \/ MarkDone(h) \/ Enqueue(h)
             \/ BumpGet(h) \/ BumpInit(h) \/ BumpSet(h)
      PROVE  Counted(k)'
  <2>1. \A g \in Handlers : g # h => pc'[g] = pc[g] /\ req'[g] = req[g]
    <3>1. CASE Fail(h) \/ ReadKey(h) \/ MarkDone(h) \/ Enqueue(h)
      BY <3>1 DEF Fail, ReadKey, MarkDone, Enqueue, Goto, Finish, TypeInv, TypeOK
    <3>2. CASE BumpGet(h) \/ BumpInit(h) \/ BumpSet(h)
      BY <3>2 DEF BumpGet, BumpInit, BumpSet, Goto, Finish, TypeInv, TypeOK
    <3>3. CASE \E c \in Keys, p \in Payloads : Receive(h, c, p)
      BY <3>3 DEF Receive, Goto, TypeInv, TypeOK
    <3>4. QED
      BY <1>6, <3>1, <3>2, <3>3
  <2>2. \/ pc'[h] \notin {"transaction", "readKey"}
        \/ ReadKey(h) /\ keys[req[h].key] = None /\ req' = req /\ pc'[h] = "transaction"
    <3>1. CASE Fail(h) \/ MarkDone(h) \/ Enqueue(h)
      BY <3>1 DEF Fail, MarkDone, Enqueue, Goto, Finish, TypeInv, TypeOK
    <3>2. CASE ReadKey(h)
      BY <3>2 DEF ReadKey, Goto, Finish, TypeInv, TypeOK
    <3>3. CASE BumpGet(h) \/ BumpInit(h) \/ BumpSet(h)
      BY <3>3 DEF BumpGet, BumpInit, BumpSet, Goto, Finish, TypeInv, TypeOK
    <3>4. CASE \E c \in Keys, p \in Payloads : Receive(h, c, p)
      BY <3>4 DEF Receive, Goto, TypeInv, TypeOK
    <3>5. QED
      BY <1>6, <3>1, <3>2, <3>3, <3>4
  <2>3. h \in Going(k)' => h \in Going(k)
    BY <2>2 DEF Going, ReadKey
  <2>4. \A g \in Going(k)' : g \in Going(k)
    BY <1>3, <2>1, <2>3 DEF Going
  <2>5. QED
    BY <1>1, <1>2, <1>4, <2>4, NoneStarted
<1>7. QED
  BY <1>5, <1>6

LEMMA NextCount == TypeInv /\ TypeInv' /\ CountInv /\ [Next]_vars => CountInv'
<1> SUFFICES ASSUME TypeInv, TypeInv', CountInv, [Next]_vars, NEW k \in Keys
             PROVE  Counted(k)'
  BY DEF CountInv
<1>1. CASE UNCHANGED vars
  BY <1>1 DEF vars, storeVars, handlerVars, faultVars, CountInv, Counted, Due, Paid, Made, Going
<1>2. CASE Next
  BY <1>2, ClaimCount, TransactionCount, OtherCount DEF Next, HandlerStep
<1>3. QED
  BY <1>1, <1>2

\* However many inserts of a key fail, and however requests retry, crash and
\* overlap, a key makes at most one invoice more than inserts have failed.
THEOREM DuplicatesArePaidFor == Spec => []DuplicatesNeedClaimErrors
<1>1. Init => TypeInv /\ CountInv
  BY InitTypeInv, InitCount
<1>2. TypeInv /\ CountInv /\ [Next]_vars => (TypeInv /\ CountInv)'
  BY NextTypeInv, NextCount
<1>3. TypeInv /\ CountInv => DuplicatesNeedClaimErrors
  <2> SUFFICES ASSUME TypeInv, CountInv, NEW k \in Keys
               PROVE  Cardinality({i \in invoices : i.key = k}) <= 1 + claimErrors
    BY DEF DuplicatesNeedClaimErrors
  <2>1. Counted(k) /\ claimErrors \in Nat
    BY PaidType DEF CountInv
  <2>2. Cardinality(Made(k)) \in Nat /\ Cardinality(Going(k)) \in Nat
    BY <2>1, FS_CardinalityType DEF Counted
  <2>3. Cardinality(Made(k)) <= 1 + claimErrors
    BY <2>1, <2>2 DEF Counted, Due, Paid
  <2>4. QED
    BY <2>3 DEF Made
<1>4. QED
  BY <1>1, <1>2, <1>3, PTL DEF Spec

-----------------------------------------------------------------------------
(* The safety half of InvoiceIsDispatched: while nothing failed, an invoice *)
(* whose job is not queued is held by a request on its way to the queue,   *)
(* and the key that request is going to mark DONE is there.                *)

NothingFailed == crashes = 0 /\ errors = 0 /\ claimErrors = 0

OnItsWay(id) ==
    \E h \in Handlers : pc[h] \in {"markDone", "enqueue"} /\ req[h].invoice = id

\* Every invoice has its job queued, or a request that is going to queue it.
NoInvoiceIsForgotten ==
    NothingFailed => \A i \in invoices : i.id \in jobs \/ OnItsWay(i.id)

ClaimedKeysExist ==
    claimErrors = 0 =>
        \A h \in Handlers : pc[h] \in {"readKey", "transaction", "markDone"} =>
            keys[req[h].key] # None

OnItsWayInv == NoInvoiceIsForgotten /\ ClaimedKeysExist

LEMMA InitOnItsWay == Init => OnItsWayInv
BY DEF Init, OnItsWayInv, NoInvoiceIsForgotten, ClaimedKeysExist

\* Failures are counted, and the counts never go down.
LEMMA FailuresAreCounted ==
    ASSUME TypeInv, [Next]_vars
    PROVE  /\ claimErrors' = 0 => claimErrors = 0 /\ \A h \in Handlers : ~ClaimError(h)
           /\ NothingFailed' => NothingFailed /\ ~Crash /\ \A h \in Handlers : ~Fail(h)
<1>1. crashes \in Nat /\ errors \in Nat /\ claimErrors \in Nat
  BY InvoiceCreationAssumption DEF TypeInv, TypeOK
<1>2. \A h \in Handlers : ClaimError(h) => claimErrors' = claimErrors + 1
  BY DEF ClaimError
<1>3. \A h \in Handlers : Fail(h) => errors' = errors + 1
  BY DEF Fail
<1>4. Crash => crashes' = crashes + 1
  BY DEF Crash
<1>5. /\ crashes' \in {crashes, crashes + 1}
      /\ errors' \in {errors, errors + 1}
      /\ claimErrors' \in {claimErrors, claimErrors + 1}
  BY DEF Next, vars, faultVars, Receive, HandlerStep, Claim, ClaimError, ReadKey, Transaction,
         MarkDone, Enqueue, BumpGet, BumpInit, BumpSet, Fail, VersionExpires, Crash
<1>6. QED
  BY <1>1, <1>2, <1>3, <1>4, <1>5 DEF NothingFailed

\* A key is claimed, or found claimed, before a request goes on; rows stay.
LEMMA KeysStep ==
    ASSUME TypeInv, OnItsWayInv, [Next]_vars
    PROVE  ClaimedKeysExist'
<1> SUFFICES ASSUME claimErrors' = 0, NEW g \in Handlers,
                    pc'[g] \in {"readKey", "transaction", "markDone"}
             PROVE  keys'[req'[g].key] # None
  BY DEF ClaimedKeysExist
<1>1. /\ \A h \in Handlers : ~ClaimError(h)
      /\ \A h \in Handlers : pc[h] \in {"readKey", "transaction", "markDone"} =>
             keys[req[h].key] # None
  BY FailuresAreCounted DEF OnItsWayInv, ClaimedKeysExist
<1>2. \A h \in Handlers : pc[h] # "idle" =>
          req[h] \in Request /\ req[h].key \in Keys /\ req[h].payload \in Payloads
  BY DEF TypeInv, ActiveRequest, Request
<1>3. ASSUME UNCHANGED keys,
             pc[g] \in {"readKey", "transaction", "markDone"}, req'[g].key = req[g].key
      PROVE  keys'[req'[g].key] # None
  BY <1>1, <1>3
<1>4. ASSUME NEW h \in Handlers, Claim(h) PROVE keys'[req'[g].key] # None
  <2> DEFINE k == req[h].key
             row == NewKeyRow(req[h].payload)
  <2>1. k \in Keys /\ req[h].payload \in Payloads /\ req' = req
    BY <1>2, <1>4 DEF Claim
  <2>2. row # None
    BY <2>1, InvoiceCreationAssumption DEF NewKeyRow
  <2>3. keys' = [keys EXCEPT ![k] = row] \/ (keys' = keys /\ keys[k] # None)
    BY <1>4 DEF Claim, KeyIsFree
  <2> HIDE DEF row
  <2>4. keys'[k] # None /\ \A j \in Keys : keys[j] # None => keys'[j] # None
    BY <2>1, <2>2, <2>3 DEF TypeInv, TypeOK
  <2>5. g = h \/ pc'[g] = pc[g]
    BY <1>4 DEF Claim, Goto, TypeInv, TypeOK
  <2>6. QED
    BY <1>1, <1>2, <2>1, <2>4, <2>5
<1>5. ASSUME NEW h \in Handlers, ReadKey(h) \/ Transaction(h)
      PROVE  keys'[req'[g].key] # None
  <2>1. UNCHANGED keys /\ pc[h] \in {"readKey", "transaction"}
    BY <1>5 DEF ReadKey, Transaction, storeVars
  <2>2. CASE g = h
    <3>1. keys[req[h].key] # None
      BY <1>1, <2>1
    <3>2. req'[h].key = req[h].key
      BY <1>2, <1>5, <2>1, <2>2, <3>1
         DEF ReadKey, Transaction, Finish, Goto, TypeInv, TypeOK, Request
    <3>3. QED
      BY <2>1, <2>2, <3>1, <3>2
  <2>3. CASE g # h
    BY <1>3, <1>5, <2>1, <2>3 DEF ReadKey, Transaction, Finish, Goto, TypeInv, TypeOK
  <2>4. QED
    BY <2>2, <2>3
<1>6. ASSUME NEW h \in Handlers, MarkDone(h) PROVE keys'[req'[g].key] # None
  <2> DEFINE k == req[h].key
             row == [keys[k] EXCEPT !.status = "DONE", !.response = req[h].invoice]
  <2>1. k \in Keys /\ keys[k] # None /\ req[h].invoice \in InvoiceIds
    BY <1>1, <1>2, <1>6 DEF MarkDone, TypeInv, ActiveRequest, Committed
  <2>2. row \in KeyRow
    BY <2>1 DEF TypeInv, TypeOK, KeyRow
  <2>3. row # None
    BY <2>2, InvoiceCreationAssumption DEF KeyRow
  <2>4. keys' = [keys EXCEPT ![k] = row] /\ pc'[h] = "enqueue" /\ UNCHANGED req
    BY <1>6, <2>1 DEF MarkDone, Goto, TypeInv, TypeOK
  <2>5. g # h /\ pc'[g] = pc[g]
    BY <1>6, <2>1, <2>4 DEF MarkDone, Goto, TypeInv, TypeOK
  <2> HIDE DEF row
  <2>6. QED
    BY <1>1, <1>2, <2>1, <2>3, <2>4, <2>5 DEF TypeInv, TypeOK
<1>7. ASSUME NEW h \in Handlers, Enqueue(h) \/ BumpGet(h) \/ BumpInit(h) \/ BumpSet(h) \/ Fail(h)
      PROVE  keys'[req'[g].key] # None
  BY <1>1, <1>7 DEF Enqueue, BumpGet, BumpInit, BumpSet, Fail, Finish, Goto, storeVars,
     TypeInv, TypeOK
<1>8. ASSUME NEW h \in Handlers, NEW k \in Keys, NEW p \in Payloads, Receive(h, k, p)
      PROVE  keys'[req'[g].key] # None
  BY <1>1, <1>8 DEF Receive, Goto, storeVars, TypeInv, TypeOK
<1>9. ASSUME Crash \/ (\E n \in Tenants : VersionExpires(n)) \/ UNCHANGED vars
      PROVE  keys'[req'[g].key] # None
  BY <1>1, <1>9 DEF Crash, VersionExpires, vars, storeVars, handlerVars
<1>10. QED
  BY <1>1, <1>4, <1>5, <1>6, <1>7, <1>8, <1>9 DEF Next, HandlerStep

\* An invoice is made by a request that goes on to mark its key, and then to queue.
LEMMA CarriedStep ==
    ASSUME TypeInv, OnItsWayInv, [Next]_vars
    PROVE  NoInvoiceIsForgotten'
<1> SUFFICES ASSUME NothingFailed', NEW i \in invoices'
             PROVE  i.id \in jobs' \/ OnItsWay(i.id)'
  BY DEF NoInvoiceIsForgotten
<1>1. /\ NothingFailed /\ ~Crash
      /\ \A h \in Handlers : ~Fail(h) /\ ~ClaimError(h)
      /\ \A j \in invoices : j.id \in jobs \/ OnItsWay(j.id)
      /\ \A h \in Handlers : pc[h] = "markDone" => keys[req[h].key] # None
  BY FailuresAreCounted DEF OnItsWayInv, NoInvoiceIsForgotten, ClaimedKeysExist, NothingFailed
<1>2. ASSUME i \in invoices, jobs \subseteq jobs',
             \A h \in Handlers : pc[h] \in {"markDone", "enqueue"} =>
                 pc'[h] = pc[h] /\ req'[h] = req[h]
      PROVE  i.id \in jobs' \/ OnItsWay(i.id)'
  BY <1>1, <1>2 DEF OnItsWay
<1>3. ASSUME NEW h \in Handlers,
             Claim(h) \/ ReadKey(h) \/ BumpGet(h) \/ BumpInit(h) \/ BumpSet(h)
      PROVE  i.id \in jobs' \/ OnItsWay(i.id)'
  <2>1. UNCHANGED <<invoices, jobs>> /\ pc[h] \notin {"markDone", "enqueue"}
    BY <1>3 DEF Claim, ReadKey, BumpGet, BumpInit, BumpSet, storeVars
  <2>2. \A f \in Handlers \ {h} : pc'[f] = pc[f] /\ req'[f] = req[f]
    BY <1>3 DEF Claim, ReadKey, BumpGet, BumpInit, BumpSet, Finish, Goto, TypeInv, TypeOK
  <2>3. QED
    BY <1>2, <2>1, <2>2
<1>4. ASSUME NEW h \in Handlers, Transaction(h)
      PROVE  i.id \in jobs' \/ OnItsWay(i.id)'
  <2>1. pc[h] = "transaction" /\ UNCHANGED jobs /\ req[h] \in Request
    BY <1>4 DEF Transaction, TypeInv, ActiveRequest
  <2>2. \A f \in Handlers \ {h} : pc'[f] = pc[f] /\ req'[f] = req[f]
    BY <1>4 DEF Transaction, Finish, Goto, TypeInv, TypeOK
  <2>3. CASE i \in invoices
    BY <1>2, <2>1, <2>2, <2>3
  <2>4. CASE i \notin invoices
    <3>1. pc'[h] = "markDone" /\ req'[h].invoice = i.id
      BY <1>4, <2>1, <2>4 DEF Transaction, Goto, TypeInv, TypeOK, Request
    <3>2. QED
      BY <3>1 DEF OnItsWay
  <2>5. QED
    BY <2>3, <2>4
<1>5. ASSUME NEW h \in Handlers, MarkDone(h)
      PROVE  i.id \in jobs' \/ OnItsWay(i.id)'
  <2>1. UNCHANGED <<invoices, jobs, req>> /\ pc' = [pc EXCEPT ![h] = "enqueue"]
    BY <1>1, <1>5 DEF MarkDone, Goto
  <2>2. i.id \in jobs \/ OnItsWay(i.id)
    BY <1>1, <2>1
  <2>3. QED
    BY <2>1, <2>2 DEF OnItsWay, TypeInv, TypeOK
<1>6. ASSUME NEW h \in Handlers, Enqueue(h)
      PROVE  i.id \in jobs' \/ OnItsWay(i.id)'
  <2>1. /\ UNCHANGED <<invoices, req>> /\ jobs' = jobs \cup {req[h].invoice}
        /\ pc' = [pc EXCEPT ![h] = "bumpGet"]
    BY <1>6 DEF Enqueue, Goto
  <2>2. i.id \in jobs \/ OnItsWay(i.id)
    BY <1>1, <2>1
  <2>3. QED
    BY <2>1, <2>2 DEF OnItsWay, TypeInv, TypeOK
<1>7. ASSUME NEW h \in Handlers, NEW k \in Keys, NEW p \in Payloads, Receive(h, k, p)
      PROVE  i.id \in jobs' \/ OnItsWay(i.id)'
  <2>1. UNCHANGED <<invoices, jobs>> /\ pc[h] = "idle"
    BY <1>7 DEF Receive, storeVars
  <2>2. \A f \in Handlers \ {h} : pc'[f] = pc[f] /\ req'[f] = req[f]
    BY <1>7 DEF Receive, Goto, TypeInv, TypeOK
  <2>3. QED
    BY <1>2, <2>1, <2>2
<1>8. ASSUME (\E n \in Tenants : VersionExpires(n)) \/ UNCHANGED vars
      PROVE  i.id \in jobs' \/ OnItsWay(i.id)'
  BY <1>2, <1>8 DEF VersionExpires, vars, storeVars, handlerVars
<1>9. QED
  BY <1>1, <1>3, <1>4, <1>5, <1>6, <1>7, <1>8 DEF Next, HandlerStep

\* Until a call fails or the process dies, no invoice is without its job and
\* without a request that is about to queue it: what InvoiceIsDispatched needs
\* besides fairness.
THEOREM InvoicesAreNotForgotten == Spec => []NoInvoiceIsForgotten
<1>1. TypeInv /\ OnItsWayInv /\ [Next]_vars => OnItsWayInv'
  BY KeysStep, CarriedStep DEF OnItsWayInv
<1>2. OnItsWayInv => NoInvoiceIsForgotten
  BY DEF OnItsWayInv
<1>3. QED
  BY InitTypeInv, NextTypeInv, InitOnItsWay, <1>1, <1>2, PTL DEF Spec
=============================================================================
