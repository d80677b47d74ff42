-------------------------- MODULE InvoiceCreation --------------------------
(***************************************************************************)
(* POST /invoice/new: InvoiceService.createInvoice with the               *)
(* IdempotencyService it claims keys from, the transaction that writes the *)
(* customer and the invoice, the job it queues and the list version it     *)
(* bumps.                                                                  *)
(*                                                                         *)
(* A handler is one in-flight request; an action is the code between two   *)
(* awaits with the call the first of them waits for.  Clients send any     *)
(* payload under any key, again and again: after an error, after a crash,  *)
(* or while the first attempt is still running.                            *)
(*                                                                         *)
(* A payload stands for the DTO and the tenant, which is what              *)
(* computeRequestHash hashes: equal hashes are equal payloads.             *)
(***************************************************************************)
EXTENDS Integers, FiniteSets

CONSTANTS
    Keys,              \* idempotency keys
    Payloads,          \* [tenant, by, customer]: see Payload
    Tenants,
    Emails,
    InvoiceIds,        \* ids of Invoice rows (cuid)
    ExistingCustomers, \* customers there from the start
    Handlers,          \* concurrent requests
    MaxCrashes,        \* bound on process crashes
    MaxErrors,         \* bound on failed database, queue and cache calls
    MaxClaimErrors,    \* bound on failed inserts of a key
    MaxVersion,        \* bound on the list version
    None

\* The schema identifies a customer by tenant and e-mail.
Customer == [tenant : Tenants, email : Emails]

\* by = "id": dto.customerId names a customer; by = "data": dto.customerData
\* describes one of the caller's own.
Payload == [tenant : Tenants, by : {"id", "data"}, customer : Customer]

ASSUME InvoiceCreationAssumption ==
    /\ Payloads \subseteq {p \in Payload : p.by = "data" => p.customer.tenant = p.tenant}
    /\ ExistingCustomers \subseteq Customer
    /\ MaxCrashes \in Nat /\ MaxErrors \in Nat /\ MaxClaimErrors \in Nat
    /\ MaxVersion \in Nat \ {0}
    /\ None \notin InvoiceIds
    /\ None \notin [requestHash : Payloads, status : {"PROCESSING", "DONE"},
                    response : InvoiceIds \cup {None}]

VARIABLES
    keys,         \* rows of Idempotencykey
    invoices,     \* rows of Invoice, with the key each was made under
    customers,    \* rows of Customer
    jobs,         \* invoices whose generate-and-send-invoice job was added
    listVersion,  \* Redis: tenant:<tenant>:invoices:version; 0 when absent
    pc,           \* the await a handler stands at
    req,          \* a handler's local variables
    answers,      \* successful responses given so far
    crashes,
    errors,
    claimErrors

storeVars == <<keys, invoices, customers, jobs, listVersion>>
handlerVars == <<pc, req>>
faultVars == <<crashes, errors, claimErrors>>
vars == <<storeVars, handlerVars, answers, faultVars>>

KeyRow == [requestHash : Payloads, status : {"PROCESSING", "DONE"},
           response : InvoiceIds \cup {None}]
Invoice == [id : InvoiceIds, key : Keys, payload : Payloads]
Request == [key : Keys, payload : Payloads, invoice : InvoiceIds \cup {None},
            version : 0..MaxVersion]
Answer == [key : Keys, payload : Payloads, invoice : InvoiceIds]

\* The awaits after the transaction has committed.
Committed == {"markDone", "enqueue", "bumpGet", "bumpInit", "bumpSet"}
Labels == {"idle", "claim", "readKey", "transaction"} \cup Committed

TypeOK ==
    /\ keys \in [Keys -> KeyRow \cup {None}]
    /\ invoices \subseteq Invoice
    /\ customers \subseteq Customer
    /\ jobs \subseteq InvoiceIds
    /\ listVersion \in [Tenants -> 0..MaxVersion]
    /\ pc \in [Handlers -> Labels]
    /\ req \in [Handlers -> Request \cup {None}]
    /\ answers \subseteq Answer
    /\ crashes \in 0..MaxCrashes
    /\ errors \in 0..MaxErrors
    /\ claimErrors \in 0..MaxClaimErrors

Init ==
    /\ keys = [k \in Keys |-> None]
    /\ invoices = {}
    /\ customers = ExistingCustomers
    /\ jobs = {}
    /\ listVersion = [n \in Tenants |-> 0]
    /\ pc = [h \in Handlers |-> "idle"]
    /\ req = [h \in Handlers |-> None]
    /\ answers = {}
    /\ crashes = 0
    /\ errors = 0
    /\ claimErrors = 0

-----------------------------------------------------------------------------
Goto(h, label) == pc' = [pc EXCEPT ![h] = label]

Finish(h) == pc' = [pc EXCEPT ![h] = "idle"] /\ req' = [req EXCEPT ![h] = None]

Respond(h, id) ==
    answers' = answers \cup {[key |-> req[h].key, payload |-> req[h].payload, invoice |-> id]}

\* A client sends a payload under a key.  (Without a key or a tenant the
\* request is refused at once.)
Receive(h, k, p) ==
    /\ pc[h] = "idle"
    /\ req' = [req EXCEPT ![h] = [key |-> k, payload |-> p, invoice |-> None, version |-> 0]]
    /\ Goto(h, "claim")
    /\ UNCHANGED <<storeVars, answers, faultVars>>

\* Mutant: the row starts with a status nothing handles.
NewKeyRowFailed(p) == [requestHash |-> p, status |-> "FAILED", response |-> None]

NewKeyRow(p) == [requestHash |-> p, status |-> "PROCESSING", response |-> None]

\* Mutant: an upsert takes over a row that is not DONE.
KeyIsFreeUnlessDone(k) == ~(keys[k] # None /\ keys[k].status = "DONE")

\* The primary key refuses a second row.
KeyIsFree(k) == keys[k] = None

\* claimKeyIfNotExists, first half: insert the row, or go and read it.
Claim(h) ==
    LET k == req[h].key
    IN  /\ pc[h] = "claim"
        /\ IF KeyIsFree(k)
             THEN keys' = [keys EXCEPT ![k] = NewKeyRow(req[h].payload)] /\ Goto(h, "transaction")
             ELSE UNCHANGED keys /\ Goto(h, "readKey")
        /\ UNCHANGED <<invoices, customers, jobs, listVersion, req, answers, faultVars>>

\* Any error of the insert is taken for a duplicate: also a failed call, whose
\* row may or may not have been written.
ClaimError(h) ==
    LET k == req[h].key
    IN  /\ pc[h] = "claim"
        /\ claimErrors < MaxClaimErrors
        /\ claimErrors' = claimErrors + 1
        /\ \/ UNCHANGED keys
           \/ KeyIsFree(k) /\ keys' = [keys EXCEPT ![k] = NewKeyRow(req[h].payload)]
        /\ Goto(h, "readKey")
        /\ UNCHANGED <<invoices, customers, jobs, listVersion, req, answers, crashes, errors>>

\* Mutant: the stored hash is not compared.
AnyRequest(k, p) == TRUE

SameRequest(k, p) == keys[k].requestHash = p

\* Mutant: only a DONE row stops a request.
ReadKeyOnlyReplays(h) ==
    LET k == req[h].key
        done == keys[k] # None /\ keys[k].status = "DONE"
    IN  /\ pc[h] = "readKey"
        /\ \/ ~done /\ Goto(h, "transaction") /\ UNCHANGED <<req, answers>>
           \/ done /\ Respond(h, keys[k].response) /\ Finish(h)
        /\ UNCHANGED <<storeVars, faultVars>>

\* Mutant: any row is replayed, whatever its status.
ReadKeyReplaysAnything(h) ==
    LET k == req[h].key
    IN  /\ pc[h] = "readKey"
        /\ \/ keys[k] = None /\ Goto(h, "transaction") /\ UNCHANGED <<req, answers>>
           \/ keys[k] # None /\ Respond(h, keys[k].response) /\ Finish(h)
        /\ UNCHANGED <<storeVars, faultVars>>

\* Second half, and what createInvoice makes of the row: DONE is replayed for
\* the same payload and a conflict for another, PROCESSING is a conflict, and
\* no row at all falls through to the transaction.
ReadKey(h) ==
    LET k == req[h].key
    IN  /\ pc[h] = "readKey"
        /\ \/ /\ keys[k] = None
              /\ Goto(h, "transaction")
              /\ UNCHANGED <<req, answers>>
           \/ /\ keys[k] # None
              /\ IF keys[k].status = "DONE" /\ SameRequest(k, req[h].payload)
                   THEN Respond(h, keys[k].response)
                   ELSE UNCHANGED answers
              /\ Finish(h)
        /\ UNCHANGED <<storeVars, faultVars>>

\* Mutant: the lookup does not filter by tenant.
AnyonesCustomer(p) == p.customer \in customers

\* customerId must be a customer of the caller's organization.
OwnsCustomer(p) == p.customer \in customers /\ p.customer.tenant = p.tenant

\* The upsert finds the customer or inserts it; Customer.email is unique over
\* all tenants.
CanUpsert(p) == \A c \in customers : c.email = p.customer.email => c.tenant = p.tenant

\* prisma.$transaction commits both rows or none.  An exception ends the
\* request and leaves the key as it is.
Transaction(h) ==
    LET p == req[h].payload
        accepted == IF p.by = "id" THEN OwnsCustomer(p) ELSE CanUpsert(p)
    IN  /\ pc[h] = "transaction"
        /\ IF accepted
             THEN \E id \in InvoiceIds :
                    /\ \A i \in invoices : i.id # id
                    /\ invoices' = invoices \cup {[id |-> id, key |-> req[h].key, payload |-> p]}
                    /\ customers' = customers \cup {p.customer}
                    /\ req' = [req EXCEPT ![h].invoice = id]
                    /\ Goto(h, "markDone")
             ELSE Finish(h) /\ UNCHANGED <<invoices, customers>>
        /\ UNCHANGED <<keys, jobs, listVersion, answers, faultVars>>

\* Mutant: the job is not queued.
MarkDoneSkipsQueue(h) ==
    LET k == req[h].key
    IN  /\ pc[h] = "markDone"
        /\ IF keys[k] = None
             THEN Finish(h) /\ UNCHANGED keys
             ELSE /\ keys' = [keys EXCEPT ![k].status = "DONE", ![k].response = req[h].invoice]
                  /\ Goto(h, "bumpGet")
                  /\ UNCHANGED req
        /\ UNCHANGED <<invoices, customers, jobs, listVersion, answers, faultVars>>

\* The update fails when there is no row to update.
MarkDone(h) ==
    LET k == req[h].key
    IN  /\ pc[h] = "markDone"
        /\ IF keys[k] = None
             THEN Finish(h) /\ UNCHANGED keys
             ELSE /\ keys' = [keys EXCEPT ![k].status = "DONE", ![k].response = req[h].invoice]
                  /\ Goto(h, "enqueue")
                  /\ UNCHANGED req
        /\ UNCHANGED <<invoices, customers, jobs, listVersion, answers, faultVars>>

Enqueue(h) ==
    /\ pc[h] = "enqueue"
    /\ jobs' = jobs \cup {req[h].invoice}
    /\ Goto(h, "bumpGet")
    /\ UNCHANGED <<keys, invoices, customers, listVersion, req, answers, faultVars>>

-----------------------------------------------------------------------------
(* bumpInvoiceVersion: getInvoiceVersion, which sets a missing version to 1, *)
(* then a set of the version read plus one.                                 *)

BumpGet(h) ==
    LET v == listVersion[req[h].payload.tenant]
    IN  /\ pc[h] = "bumpGet"
        /\ req' = [req EXCEPT ![h].version = IF v = 0 THEN 1 ELSE v]
        /\ Goto(h, IF v = 0 THEN "bumpInit" ELSE "bumpSet")
        /\ UNCHANGED <<storeVars, answers, faultVars>>

BumpInit(h) ==
    /\ pc[h] = "bumpInit"
    /\ listVersion' = [listVersion EXCEPT ![req[h].payload.tenant] = 1]
    /\ Goto(h, "bumpSet")
    /\ UNCHANGED <<keys, invoices, customers, jobs, req, answers, faultVars>>

\* The version is bounded by MaxVersion, the last request keeping it there.
BumpSet(h) ==
    LET v == req[h].version
    IN  /\ pc[h] = "bumpSet"
        /\ listVersion' = [listVersion EXCEPT ![req[h].payload.tenant] =
                             IF v < MaxVersion THEN v + 1 ELSE v]
        /\ Respond(h, req[h].invoice)
        /\ Finish(h)
        /\ UNCHANGED <<keys, invoices, customers, jobs, faultVars>>

\* External: the version key lives for 24 hours.
VersionExpires(n) ==
    /\ listVersion[n] # 0
    /\ listVersion' = [listVersion EXCEPT ![n] = 0]
    /\ UNCHANGED <<keys, invoices, customers, jobs, handlerVars, answers, faultVars>>

-----------------------------------------------------------------------------
\* A call fails, before or after its effect (then the handler stands at the
\* next await): the client gets an error.  Nothing releases the key.
Fail(h) ==
    /\ pc[h] \notin {"idle", "claim"}
    /\ errors < MaxErrors
    /\ errors' = errors + 1
    /\ Finish(h)
    /\ UNCHANGED <<storeVars, answers, crashes, claimErrors>>

Crash ==
    /\ crashes < MaxCrashes
    /\ crashes' = crashes + 1
    /\ pc' = [h \in Handlers |-> "idle"]
    /\ req' = [h \in Handlers |-> None]
    /\ UNCHANGED <<storeVars, answers, errors, claimErrors>>

HandlerStep(h) ==
    \/ Claim(h) \/ ReadKey(h) \/ Transaction(h) \/ MarkDone(h) \/ Enqueue(h)
    \/ BumpGet(h) \/ BumpInit(h) \/ BumpSet(h)

Next ==
    \/ \E h \in Handlers, k \in Keys, p \in Payloads : Receive(h, k, p)
    \/ \E h \in Handlers : HandlerStep(h) \/ ClaimError(h) \/ Fail(h)
    \/ \E n \in Tenants : VersionExpires(n)
    \/ Crash

\* A request whose call was answered is resumed.
Fairness == \A h \in Handlers : WF_vars(HandlerStep(h))

Spec == Init /\ [][Next]_vars
FairSpec == Spec /\ Fairness

-----------------------------------------------------------------------------
(* Properties                                                              *)

\* "Unique UUID / key to guarantee at-most-once processing": retries,
\* duplicates, crashes and failed calls make at most one invoice per key, as
\* long as the insert of the key itself does not fail.
AtMostOncePerKey == \A i, j \in invoices : i.key = j.key => i = j

\* Each failed insert of a key costs at most one duplicate of its invoice.
DuplicatesNeedClaimErrors ==
    \A k \in Keys : Cardinality({i \in invoices : i.key = k}) <= 1 + claimErrors

\* Every successful response to a key names one invoice, made under that key
\* for the very payload the caller sent, whether it was made or replayed.
AnswersAgree ==
    \A a \in answers :
        /\ \E i \in invoices : i.id = a.invoice /\ i.key = a.key /\ i.payload = a.payload
        /\ \A b \in answers : a.key = b.key => a = b

\* Whatever fails, a successful response names a committed invoice that was
\* made under the caller's key.
AnswersAreReal == \A a \in answers : \E i \in invoices : i.id = a.invoice /\ i.key = a.key

\* Keys in use by one tenant or payload never answer another: the stored
\* response of a DONE key is an invoice made for the stored hash.
DoneIsBacked ==
    \A k \in Keys : keys[k] # None /\ keys[k].status = "DONE" =>
        \E i \in invoices : /\ i.id = keys[k].response
                            /\ i.key = k
                            /\ i.payload = keys[k].requestHash

\* The queue hears only of invoices that their key already replays, so the
\* job of an invoice nobody can be answered with is never added.
JobsAreDone ==
    \A id \in jobs : \E k \in Keys :
        keys[k] # None /\ keys[k].status = "DONE" /\ keys[k].response = id

\* An invoice is never written for another tenant's customer.
CustomerIsOwn ==
    \A i \in invoices : i.payload.customer \in customers /\ i.payload.customer.tenant = i.payload.tenant

\* When no call fails and no process dies, the job of every invoice is queued.
\* A request whose insert failed has no key to mark DONE, and ends before the
\* queue.
InvoiceIsDispatched ==
    \A id \in InvoiceIds :
        (\E i \in invoices : i.id = id) ~> (id \in jobs \/ claimErrors > 0)

-----------------------------------------------------------------------------
(* The abstract specification.                                             *)

K == INSTANCE KeyedCreation WITH Ids <- InvoiceIds, made <- invoices, dispatched <- jobs

\* createInvoice does what a client of idempotency keys relies on: retries,
\* crashes and concurrent attempts are stutters of one creation per key.
\* It takes inserts of a key that fail only as duplicates.
ImplementsKeyedCreation == K!Spec
=============================================================================
