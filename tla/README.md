# Formal models of the invoicing backend

TLA+ models of the multi-tenant invoicing API in `src/` (NestJS, Prisma over
PostgreSQL, Redis through cache-manager, BullMQ), the TLC runs that check them
on small instances, and the theorems the TLA+ proof system checks for instances
of every size. The models follow the code; where code and comments disagree,
the model follows the code and a run shows the difference.

Paths below are relative to `src/src/`.

## 1. The system

| Component | Code | State it keeps | Operations that change state |
| --- | --- | --- | --- |
| Payments | `payment/payment.service.ts`, `payment.controller.ts` | `Payment` rows, `Invoice.status`, Redis `invoice:version:<tenant>`, payment-queue, Prometheus counters | initiate eSewa / Khalti, the two gateway callbacks |
| Overdue sweep | `invoice/invoice-cron.service.ts` | `Invoice.status`, Redis `invoice:version:<tenant>` | `markOverdueInvoices`, every midnight |
| Invoices | `invoice/invoice.service.ts`, `invoice.controller.ts` | `Invoice` and `Customer` rows, Redis `tenant:<tenant>:invoices:version` and the pages stored under it, invoice-queue | `createInvoice`; `findAll` and `getInvoiceByCustomerEmail` fill the cache |
| Idempotency keys | `common/idempotency/` | `Idempotencykey` rows | `claimKeyIfNotExists`, `markDone` |
| API keys | `api-key/` | `ApiKey` rows, Redis `apikey:hash:<hash>` | create, revoke, roll, validate |
| Sessions | `auth/auth.service.ts`, `auth/strategies/` | `User.hashedRefreshToken`, `password_reset_*`, Redis `user:profile:<id>` | login, refresh, logout, forgot, reset, register |
| Customers, users, tenants | `customer/`, `user/`, `tenant/` | their rows, one Redis version key and entries each | create, update, remove; the readers fill the caches |
| Queue workers | `payment/payment.processor.ts`, `invoice/invoice.processor.ts`, `common/pdf/` | BullMQ's jobs, the mails sent, the Chromium processes open | `process`, retried by BullMQ |
| The rest | guards, filters, logging and idempotency interceptors, `health`, `tracer.ts`, configuration | none | none |

**How they interact.** Everything meets in three stores: PostgreSQL rows, Redis
keys and BullMQ queues. There are no locks. Node.js runs a request without
interruption from one `await` to the next, and any other request, the sweep or
a worker may run in between. A gateway talks to the API only through the
customer's browser, which may load a callback URL at any time and any number of
times, and through Khalti's lookup call.

**What is hard about it.**

- *Read, await, write.* `reconcileInvoiceStatus` (`payment.service.ts:113`)
  reads a sum and later writes the status it computed from it; version keys are
  bumped by a get and a set (`:73`, `invoice.service.ts:38`); `validateApiKey`
  reads a row and later writes a cache entry.
- *Partial failure.* A request is a chain of calls to different stores with no
  transaction around it: each await is a place where a call may fail or the
  process may die, and what was done stays done.
- *Retries.* Gateways' redirects are reloaded, clients repeat a POST under the
  same idempotency key while the first attempt runs or after it failed.
- *Caches.* Entries outlive what they were made from; invalidation is by
  version keys that two services name differently.
- *Time.* Due dates, expiry dates and TTLs pass between any two steps.

**What would make it correct**, component by component:

- Payments: a transaction is recorded once, on the invoice it was made for, with
  the amount the gateway reported, and the caller hears of success only then; the
  status of an invoice agrees with
  its payments; a receipt per payment; the sweep never undoes a payment.
- Invoices and keys: one invoice per idempotency key; all replies under a key
  agree; a key is not left PROCESSING; no invoice for another tenant's customer;
  every invoice is dispatched.
- Lists: no list that was asked for after a write was answered misses the write.
- API keys: a revoked or replaced key is refused from then on.
- Sessions: a refresh token works once, and not after logout or reset; a reset
  token works once.
- Accounts: one per e-mail, whoever makes it.
- Caches: what a writer was answered for is shown, or at least shown in the end.
- Workers: a job that is done has been mailed, a fault costs at most one more
  mail and one more open browser, no single fault gives a job up, and every job
  ends.

`PROJECT.json` lists the hazards at the lines where they bite, each with the
properties that watch it or the reason why none does.

## 2. Modules

| Module | What it is |
| --- | --- |
| `Payments` | the payment path and the sweep, await by await, with failures |
| `Ledger` | the abstract specification of the payment path: pay, credit, confirm |
| `InvoiceCreation` | `createInvoice` and the idempotency keys |
| `KeyedCreation` | the abstract specification of invoice creation: make, dispatch, answer |
| `InvoiceLists` | the cached lists, their version key, and the three writers of invoices |
| `ApiKeys` | the API keys and their cache |
| `AuthSessions` | registration, login, refresh, logout and password reset |
| `VersionedCache` | the caches of customers, users, tenants and profiles |
| `MailJobs` | the workers of both queues over BullMQ's delivery, with their PDFs |
| `Delivery` | the abstract specification of the workers: accept, mail, complete, give up |
| `Payments_proofs`, `InvoiceCreation_proofs`, `InvoiceLists_proofs`, `ApiKeys_proofs`, `AuthSessions_proofs`, `VersionedCache_proofs`, `VersionedLists_proofs`, `MailJobs_proofs` | theorems |
| `MC*` | constants and symmetry for TLC, and the property that is violated by stale sums |

Conventions shared by the models of requests (all but `MailJobs`, which has
workers in their place):

- A *handler* is a slot for one in-flight request: `pc[h]` names the await it
  stands at, `req[h]` holds its local variables, and "idle" slots are reused, so
  a retry is simply another arrival. An action is the code between two awaits
  together with the call the first one waits for. The arrival of a request is
  merged with its first call where the code before that call waits for nothing.
- A *failed call* ends the request at its await (`Fail`). If the call had taken
  effect first, that is the same as failing at the next await. A *crash* ends
  all requests at once; the stores keep their state. Both draw on a bound
  (`MaxFaults`, or `MaxCrashes`, `MaxErrors`, `MaxClaimErrors`), which can be 0.
  `MailJobs` bounds the faults of each job separately.
  `InvoiceLists` needs no bound: there a request may fail at any time.
- Rejections that change nothing (a signature that fails, an unknown id) are actions
  that end the request, or are left out where the request has not begun.
- Expressions whose name says "mutant" in a comment are not part of the models.
  Each is a plausible bug in the definition it replaces, kept to show that the
  property checked would notice it (`PROJECT.json`, "mutants").

### Payments

| Variable | In the code |
| --- | --- |
| `status`, `pastDue`, `payments` | `Invoice.status`, `due_date < now`, rows of `Payment` |
| `paid` | the sum reconcile's `findUnique` computes over an invoice's payments, kept with the rows |
| `checkout` | Khalti's records: transaction opened, completed, with which total |
| `pc`, `req` | a callback request; Khalti starts at `lookup`, eSewa at `findInvoice`, both share the rest |
| `cronPc`, `cronTenants` | the sweep, and `affectedInvoices` |
| `payVersion`, `receipts`, `revenue`, `acked` | the Redis key, jobs, counter, and replies with success |

`EsewaCallback`, `KhaltiCallback`, `KhaltiLookup`, `FindInvoice`,
`FindExisting`, `CreatePayment`, `ReconcileRead`, `ReconcileWrite`, `BumpGet`,
`BumpSet`, `QueueReceipt` are the awaits of the two callbacks in order;
`CronFindAffected`, `CronUpdate`, `CronInvalidate` those of the sweep. Amounts
are in paisa. The eSewa form divides by 100 and the callback multiplies and
rounds: for 32-bit columns that gives the same number of paisa back. Invoices
are there from the start, with any status the DTO allows.

The two gateways are trusted differently. For Khalti the service asks
(`KhaltiLookup`), and what it records is the answer. For eSewa it checks the
signature the payload carries, over the fields the payload lists
(`payment.service.ts:92`). That check ties a payload's fields neither to each other
nor to a form `initiateEsewaPayment` signed nor to a payment, so the model has no
eSewa checkout: `AcceptedPayloads` is every combination of a transaction id, a
reference or none, and a total, and `EsewaCallback` takes any of them for any
tenant. Everything after the check is as in the code, and what the properties say
of eSewa is what holds for all of these: at most one row per `transaction_uuid`, on
the invoice that id names, with the total the callback reported. That the money was
received is not among it. `initiateEsewaPayment` itself reads an invoice and
returns a form; it changes no state and is no action.

Two details of `findFirst` on `gateway_ref_id` (`:263`) are kept. The column has no
unique index and both gateways share it, so a callback whose reference is on the row
of another transaction is answered as a repeat. And Prisma leaves an undefined field
out of a filter, so a callback without a reference is answered as a repeat once
there is any row (`AlreadyRecorded`).

`Ledger` says what a tenant may rely on, without callbacks, races or failures.
The mapping (end of `Payments`) takes a completed Khalti checkout as a bill, the
transactions of the rows as the credited ones, their references as those on record,
and the sums reconcile reads as balances. A Khalti transaction is credited as it was
billed, an eSewa one as it was reported, either once; a reference is confirmed only
when it is on record.

### InvoiceCreation

`keys`, `invoices`, `customers` are rows, `jobs` the jobs added, `listVersion`
the Redis key, `answers` the successful responses. `Claim` and `ClaimError` are
the two outcomes of `claimKeyIfNotExists`' insert, `ReadKey` its `findUnique`
with the branches of `createInvoice` on the row, then `Transaction`, `MarkDone`,
`Enqueue`, `BumpGet`, `BumpInit`, `BumpSet`. A payload is what
`computeRequestHash` hashes: the body and the tenant.

`KeyedCreation` is what a client that repeats its POST may rely on: a key makes one
invoice, and what is queued or answered under the key is that invoice, made from
that client's payload. The mapping takes the rows, the jobs and the answers as they
are, and hides the keys' rows, the customers and the version. It holds as long as no
insert of a key fails for another reason than the key being there;
`DuplicatesNeedClaimErrors` says what is left otherwise.

### InvoiceLists

One tenant, one page. A page is abstracted to what its reader saw: how many
creations and how many changes of status its query came after. `version` is the
key lists are stored under, `payVersion` the one payments bump and the sweep
deletes. `settled` and `regressed` are ghosts: what finished writers have
written, and whether `version` has ever moved backwards (a late initialisation,
a stale bump, or its 24 hours). `Create` to `BumpSet` are `createInvoice`, whose
key and job this module leaves to `InvoiceCreation`; `Pay` to `PayBumpSet` a
callback; `SweepFind` to `SweepEvict` the sweep; `List` to `SetPage` a reader.

### ApiKeys

`rows`, `cached` are the table and the Redis entries, `past` the dates that have
passed, `active` the ACTIVE tenants. The hash of a key stands for the key. The
actions are the awaits of create, revoke, roll and validate; a roll's
transaction is one action. `rolledFrom` is a ghost: the code records the old key
only in the name of the new one. The `last_used_at` updates nobody awaits are
left out: nothing reads them.

### AuthSessions

| Variable | In the code |
| --- | --- |
| `rows` | `User.email`, `tenant_id`, `hashedRefreshToken` (`session`), `password_reset_token` (`reset`) |
| `tenants`, `active` | `Tenant.email`, `Tenant.status` |
| `issued`, `mailed`, `lapsed` | tokens made, reset tokens that were mailed, those whose 15 minutes are over |
| `current`, `raced` | ghosts: tokens of sessions begun after the last logout or reset of their user; users whose last one overlapped a login or refresh |

`Register` and `CreateAccount` are the check of the e-mail and the transaction of
`register`; `Login` is `validateUser` with `login`'s token, `RefreshTokens` the
lookup by hash, and `StoreToken` the update both end with, which does not look at
what the row has become. `Logout` and `ClearSession`, `ForgotPassword`,
`StoreReset` and `SendMail`, `ResetPassword` and `StorePassword` are the other
handlers. `CreateUser`, `ChangeEmail`, `RemoveUser`, `CreateTenant` and
`SetTenantStatus` are what `UserService` and `TenantService` do to the rows
meanwhile. `Lower` is `toLowerCase().trim()`: `AuthService` looks up the lower
case of what is typed (`auth.service.ts:35`), `UserService` stores what it is
given (`user.service.ts:78`), so an account it makes with a capital is one that no
login finds (`IsFound`), beside which the same address may be registered.
`EmailsAreUnique` speaks of one spelling. A token stands for its hash. A user that
was deleted is `Gone`: ids are not used again. `EndedSessionsStayEnded` and
`SpentStaysSpent` say what holds although `login`'s update has no condition: the
session a logout or reset ended comes back only by a login or refresh that was
already past its lookup, and two refreshes with one token may both be answered,
after which one of the two successors is of no use.

### VersionedCache

Four services keep a list version, pages under it and an entry per row, by the
same functions in a different order. An operation is a sequence of awaits
(`UsersRemove` is `findOne`'s three, the eviction, the bump, the deletion), and a
handler's `todo` is what remains of it; `GetVersionKey` to `Evict` are the steps,
`Operations` says which service does what. The mapped lines name, for each step,
one of the services that have it. Keys and tables of the four are disjoint, so a
behaviour is of one `service`, and their initial states are the choice.
Pages and entries are abstracted to the number of the last write their read came
after. `Lagging` names the two operations whose caller is answered although a
cache still shows the old state: `CustomerService.create` bumps no version
(`customer.service.ts:44`), and `UserService.remove` invalidates before it
deletes (`user.service.ts:190`). `late` and `regressed` name the overlaps: a
reader that stores an entry it read before the write that evicted it, and a
version that moves back. `CachesCatchUp` bounds the harm of all of them by the
life of an entry. `WriteElsewhere` are the writes other services make without
telling: `register`'s users and tenants, `createInvoice`'s customers, the
invoices in a customer's entry, the user changes in a profile.

### MailJobs

| Variable | In the code |
| --- | --- |
| `state`, `attempts`, `stalls`, `lock` | BullMQ: a job's state, its failed attempts, how often it was taken back, who holds its lock |
| `run` | the job a worker runs, and the await it stands at |
| `browsers` | Chromium processes started by `PdfService` and not closed |
| `mails` | how often the mail of a job left |

The two workers differ in the first await (`findInvoice`) and the number of
attempts (5 and 3); the rest, `LaunchBrowser`, `Render`, `CloseBrowser`,
`SendMail`, `Resolve`, `Reject`, is one. The queues share nothing: a behaviour is
of one of them. BullMQ is external: `Take`, `BackoffEnds`, `LockLapses`,
`TakeBack` are what its documentation of locks and stalled jobs says a worker may
rely on, with `maxStalledCount` at its default of 1, as no code sets it. A worker
whose lock lapsed goes on with its run, so two workers may send one mail. That
the invoice of a job is there is not an assumption: no code deletes one. Nothing
catches an error between the launch and `browser.close()`
(`common/pdf/pdf.service.ts:67`), so a failed render leaves a browser until the
process dies.

`Delivery` is what a caller that queues a job may rely on; the mapping takes every
state between queued and ended as pending.

## 3. What the runs check

| Run | Result | What it shows |
| --- | --- | --- |
| `payments_concurrent` | holds | types; nothing is recorded twice; PAID is earned; one receipt per transaction; the counter never exceeds the rows; PAID is lost only to a stale sum; an invoice leaves CANCELLED only with a recorded payment of it; the ledger is implemented: Khalti's transactions are credited as they were paid, eSewa's as they were reported, either once, and only recorded references are confirmed |
| `payments_liveness` | holds | full payment is noticed, receipts are queued, overdue invoices are swept |
| `payments_stale_reconcile` | violated | two callbacks leave a fully paid invoice PARTIALLY_PAID |
| `invoice_retries` | holds | one invoice per key under retries, a crash and a failed call; customers are the tenant's own; keyed creation is implemented: jobs and replies are for what the caller's key made from the caller's payload |
| `invoice_faults` | holds | a failed insert of a key costs at most one duplicate; replies stay real; every invoice is dispatched |
| `apikeys_concurrent` | holds | a replaced key is revoked; a revocation takes hold; dead keys stay dead; a key past its date or of an inactive tenant that is shut out stays out |
| `lists_concurrent` | holds | a list shows what was created before it was asked for; all lists catch up |
| `lists_swept` | violated | the sweep deletes a key no list is stored under |
| `auth_sessions` | holds | one account per e-mail; an ended session stays ended but for an overlapping login or refresh; a spent token stays spent |
| `caches_concurrent` | holds | lists and entries show what answered writers wrote, but for the named writers and overlaps |
| `caches_catch_up` | holds | every write is shown in the end, whatever invalidation is missing, early or lost |
| `mail_jobs` | holds | done means mailed; mails of a job and browsers open in all are bounded by the faults; no single fault gives a job up; every job ends |

The violated runs are the findings of `PROJECT.json`. Where the code breaks a
promise, a passing run states what is left of it:

| What the code does | What holds |
| --- | --- |
| A reconciliation writes a status from an old sum (`payment.service.ts:113`) | `StatusIsEarned`, `PaidIsLostToStaleSums` |
| A failure between the row and the status is never repaired: retries return early (`:267`) | `ImplementsLedger`, `StatusIsEarned` |
| Khalti's initiate takes cancelled invoices (`:331`), and neither callback looks at the status | `CancelledNeedsPayment` |
| An eSewa signature covers the fields its payload lists (`:92`) | `NoDoubleRecording`; `ImplementsLedger`, which promises for eSewa only what is said in section 2 |
| The check before the insert is by a reference no index guards (`:263`) | `NoDoubleRecording`, by the index on the transaction id |
| Every error of the key's insert is taken for a duplicate (`idempotency.service.ts:37`) | `DuplicatesNeedClaimErrors`, `AnswersAreReal` |
| A refused transaction leaves its key PROCESSING (`invoice.service.ts:94`) | `AtMostOncePerKey` |
| A validation stores an entry after the revocation's eviction (`api-key.service.ts:274`) | `RevocationTakesHold`, `DeadStaysDead` |
| Deactivating a tenant evicts none of its keys' entries (`tenant.service.ts:155`), and an entry outlives the key's date (`api-key.service.ts:223`) | `InactiveStaysOut`: once an entry has lapsed, no other is made |
| The sweep and payments touch a version no list is stored under | `ListsCatchUp` |
| A login or refresh past its lookup outlives a logout or reset (`auth.service.ts:237`) | `EndedSessionsStayEnded` |
| New customers are in no version, users are evicted before they are deleted | `CachesCatchUp` |
| A mail is sent again by a retry or a second worker (`payment.processor.ts:106`) | `MailsAreAccounted` |

### Bounds

- *Two handlers* everywhere races are looked for: every hazard here is between
  a request and one other actor, and the sweep comes on top.
- *Payments*: one invoice of 2 paisa and payments of 1 or 2, so that partial,
  exact, over- and repeated payment occur; one transaction of each gateway, so
  that two rows meet in one sum; one reference, which they share or eSewa's lacks
  (the liveness run has two, so that the rows need not share one); a second tenant
  for callbacks with the wrong one; one fault at any await. Row ids and slots are
  symmetric in the safety run only. The liveness run has one tenant and payments
  of 1.
- *InvoiceCreation*: two keys; four payloads chosen so that the same e-mail
  occurs in two tenants and one customer is named by its own and by the other
  tenant; a crash and a failed call. `MaxVersion` (2) keeps the version key
  finite, and the last bump keeps it there: no property of that module reads it.
- *InvoiceLists*: two creators, for lost and reordered bumps, one payer, the
  sweep and one reader; `MaxCreations` 2 and `MaxChanges` 1 bound the versions.
  With one reader slot, a reader that stores an old page after a bump and a
  later request that hits it are two uses of the slot.
- *ApiKeys*: two keys, which is what a roll needs, one expiry date, one tenant
  that is deactivated and back, one fault.
- *AuthSessions*: two users, two spellings of one e-mail, one tenant, three
  tokens: a session, the successor of a refresh and a reset token, or two
  refreshes of one token. Users, tenants and slots are symmetric; there is no
  liveness in the run.
- *VersionedCache*: all four services, one after the other; two writes, so that
  two bumps meet and one write can come between the read and the eviction of
  another; one fault. One write in the liveness run: a second one only hides the
  first.
- *MailJobs*: both queues, two instances, two jobs. Five faults on one job use up
  the five attempts of the payment queue, and more than the invoice queue's three
  with a lost lock; the other job has none, so that what it meets is the first
  one's doing.

### Fairness

Only what the platform gives: Node.js resumes a request whose call was answered
(weak fairness on the steps of each handler), the scheduler runs the sweep
(weak fairness on its steps), Redis drops an entry when its time is up (weak
fairness on expiry). Arrivals, payments, revocations and failures are never
fair: nobody has to do them. `payments_liveness` is checked with no faults,
since a failed request is not resumed by anybody; `invoice_faults` allows failed
inserts, which the property names. In `caches_catch_up` entries and pages lapse,
the version key need not. In `mail_jobs` BullMQ hands a waiting job to an idle
worker and ends delays, lapsed locks and stalls (its scheduler does that for ever),
and every call of a run is answered or times out, as Puppeteer's and the mailer's
do; faults are not fair. Deadlock is not checked there: when every job has ended
the queue is empty and the workers wait.

## 4. What is proved

The theorems hold for every value of the constants that meets the named
assumptions of the modules: any number of invoices, transactions, tenants, keys,
concurrent requests, failures and crashes.

Some of the properties proved are in no run. `RowsAreBacked` and
`AcknowledgedIsRecorded` follow from `ImplementsLedger`, and `AnswersAgree` from
`ImplementsKeyedCreation`; a key that is DONE without its invoice (`DoneIsBacked`)
would soon break the latter, and the job of a key that is not DONE (`JobsAreDone`)
takes another order of the awaits. The induction needs them, or they are what a
reader looks for.

**Liveness and its safety halves.** The properties that something happens in the
end rest on fairness, which is out of the provers' reach, and on a fact about
safety, which is not: that whatever must still happen is always in the hands of
some actor that fairness moves, or that what must go away is not replaced. TLC
checks the whole on small instances; the facts are proved for all of them:

| Checked by TLC | Proved |
| --- | --- |
| `RecordedIsReceipted` | `ReceiptsAreNotForgotten`: while no call failed, a recorded payment has its receipt job or a request under way that will queue it |
| `FullPaymentIsSeen` | `CoverIsSeen`: while no call failed and an invoice is not PAID, payments that cover it are about to be read, or a PAID to be written |
| `InvoiceIsDispatched` | `InvoicesAreNotForgotten`: while nothing failed, an invoice has its job or a request about to queue it |
| `RevocationTakesHold` | `RevokedEntriesRunOut`: only requests that found the key ACTIVE, or made it, add an entry of it after the revocation, each at most once |
| `ListsCatchUp` | `StalePagesRunOut`: only readers that had read before a change store a page without it, each at most once |
| `CachesCatchUp` | `StaleEntriesRunOut`, `StaleListsRunOut`: the same for entries and pages of the four services, whatever has become of the version |
| `EveryJobEnds` | `UnhitJobsRunAlone`: a job no fault has hit and that is active has one worker, which holds its lock |

For `OverdueIsSwept` there is nothing to add to fairness: the sweep's update selects
and writes in one statement.

**Payments** (`PaymentsAssumption`, and `GatewaysAreApart`: a `pidx` is not a
`transaction_uuid` with an invoice in it, as the two share a column). Of the
former, `PaidAmounts \subseteq Nat` is what gateways report and not what the code
checks. `TypeInv` adds to `TypeOK` that a handler past its arrival has a request.
`Safety` is the inductive core. Its parts: rows are backed (`RowsAreBacked`); rows
of one transaction are one row, which `UniqueTransaction` gives; what a handler
knows at each await (verified: what it is about to record would be backed; after
the insert: its row exists); and for `reconcileWrite`, that the status about to be
written is one the *current* sum earns. The last is why a stale read cannot make
PAID unearned: sums only grow. Theorems: `TypeCorrect`, `NeverRecordedTwice`,
`EveryRowIsBacked`, `AcknowledgedAreRecorded`, `ReceiptsAreSingle`,
`PaidIsEarned`, and `PaymentsImplementLedger`, the refinement: `CompleteCheckout`
maps to `Pay`, a successful insert to `CreditPaid` or `CreditReported`, the two
replies to `Confirm` or a stutter, everything else to a stutter. The two action
properties need `StatusInv` besides: what a reconciliation is about to write is
PAID or PARTIALLY_PAID. `PaidIsLostOnlyToStaleSums` assumes that no invoice is
created PAID. `CancelledNeedPayment` takes the row its write needs from `Safety`:
a request at `reconcileWrite` has inserted one.

A sum over rows is a fold, whose unfolding would take induction over data. `Total`
is instead the number of paisa, each counted as a pair of its row and a number up
to the amount (`Paisa`), so that the library's facts about finite sets do the
arithmetic. `PaidIsTheSumOfRows` says that the sum the model keeps for each invoice
is that of its rows, which makes what the other theorems say of `paid` a fact about
rows. For `RevenueIsNotOvercounted`, `TotalsInv` says that the counter is at most the
total of the rows a request has gone on from since they were inserted (`Counted`),
which leaves room for each row whose request is still to count it.

`StatusMatchesPayments` is violated, and `SerialReconciliationsMatch` says by what
alone: of an invoice whose reconciliations never overlap, while no call fails, the
status at rest is the one its rows add up to, or the sweep's OVERDUE over a partial
payment.

**InvoiceCreation** (`InvoiceCreationAssumption`). `Real` is inductive for any
failures and gives `ResponsesAreReal` and `CustomersAreOwn`. `AtMostOnce`,
`DoneKeysAreBacked`, `QueuedAreDone` and `ResponsesAgree` assume
`MaxClaimErrors = 0`; without it they are false, as a request whose insert failed
runs beside the one that holds the key.
Their invariant `Once` is about ownership: the handler that inserted the row is
the only one past `readKey` under that key until the row is DONE, and a key
without a row has no invoice. A crash removes an owner and never makes one,
which is both why keys make at most one invoice and why they get stuck.
`DuplicatesArePaidFor` drops the assumption and counts: the invoices of a key and
the requests that are on their way to making one are at most the failed inserts,
plus one once the key has its row (`CountInv`).
`InvoicesAreCreatedOnce` is the refinement, from `TypeInv` and `Once` and under the
same assumption: a committed `Transaction` is a `Make` as its key has no invoice,
`Enqueue` a `Dispatch` of the invoice its request committed, the replies of `ReadKey`
and of the last await are an `Answer` of the invoice the key made from the payload
whose hash was compared, and every other step changes nothing abstract.
For `InvoicesAreNotForgotten` the invariant adds that keys whose insert did not fail
have their row (`ClaimedKeysExist`), so that `MarkDone` finds one to update and the
request goes on to the queue.

**ApiKeys** (`ApiKeysAssumption`). The invariant adds to the types that the row a
request found is still there when it writes to it (rows are never deleted) and
that a roll knows its tenant. `RolledKeysAreRevoked` follows by the one
transaction of a roll; `RevocationIsPermanent` is the action property
`DeadStaysDead`: a step that puts a handler on its way to the cache has either
found its key ACTIVE or just made it. `InactiveAreRefused` is the same argument
for a key whose date has passed or whose tenant is not ACTIVE, whatever its row
says, and `RevokedEntriesRunOut` for the requests that were on their way already
(`Sources`): nobody joins them, and one that adds the entry leaves them.

**InvoiceLists** (`InvoiceListsAssumption`). `TypeInv` counts: a version plus the
creators that have yet to bump never exceeds the creations plus one, so that
versions stay within `Versions` although bumps overwrite each other. For
`ListsShowCreations` (`CreationsAreListed`), `ListInv` says that no page is
stored, and no request is, past the current version; that the pages under the
current version, stored or about to be, show all that has settled; that those
under the version a creator is about to make current show what it created; and
that those a request goes on with show what it needs. A version is first reached
after the creation that bumps to it, and every page under it is read later still.
That is the argument, and it breaks exactly where `regressed` becomes true.
`WrittenInv` keeps what is asked for and settled below what the table holds.
`StalePagesRunOut` needs the types only, and holds for the changes of status that
bump no version any list is stored under: `StaleReaders` never gains a member, and a
page that misses a change comes from one of them, which ceases to be one.

**AuthSessions** (`AuthSessionsAssumption`). `TypeOK` is inductive as it says which
handlers hold a token and a user. `OneAccountPerEmail` follows from the unique
index, which every step that writes an e-mail looks at. For `EndedStayEnded` the
invariant adds `StoresAreCurrent`: a handler about to store a token for a user
who is not `raced` stores one that is `current`. A logout or reset that finds such
a handler makes the user `raced`, and one that finds none ends all there was.
`SpentTokensStaySpent` needs no invariant but the types: a step that gives a token
to a row or a handler found it in one (`HeldBefore`, `StoredBefore`) or made it.

**MailJobs** (`MailJobsAssumption`). `TypeInv` adds `Structure`: who runs a job,
who holds its lock, and that a worker at `render` or `close` has a browser, which
is why closing one never takes the count below zero. `Accounted` counts: the mails
of a job, those that went out and those its runs are about to send (`Due`), are at
most one more than the faults that hit it, and no more than the faults while the
job waits for another run; failed attempts and stalls together are at most the
faults, whichever of two workers met them. `MailsAreBounded` and
`OneFaultSurvives` follow, and `WorkersImplementDelivery` is the refinement: a
worker that lost its lock ends no job, so an end is final, and `Resolve` comes
after the mail. `BrowsersAreBounded` compares totals over all processes and needs
no strengthening: a browser more is a worker more that renders, and a worker fewer
is a browser fewer or a fault more; the counts of all processes and jobs are
compared as sets of units (`Units`). `UnhitJobsRunAlone` is inductive over the
types: a lock lapses or a job is taken back only when its worker is gone, which
took a fault of that job.

**VersionedCache** (`VersionedCacheAssumption`). The proofs speak of an operation
only by its shape, that is by which await may come before which; that each of the
fourteen has the shape follows from the parts it is put together from
(`OperationsAreSound`, `OperationsAreListSound`), and what remains of a plan after a
step keeps it. `EntryInv` says that unless `late` the entry shows what is settled,
and so does every request about to store one; and that a request which is to settle
the entry either has its eviction still to come or is itself shown. A new
operation that changes the row and does not evict after it would fail its shape.
For lists, `CountInv` first counts: writes done, and versions reached or about to
be, plus the requests that have yet to write or to bump, are at most the writers
begun, although bumps overwrite each other, which gives `TypeCorrect`. `ListInv` is
the argument of `InvoiceLists` for all four services: nothing is stored, nor held,
past the version; pages from the current version on show what is settled, those from
the version a writer is about to set on show what it wrote, and those from the
version a reader asked for on show what was settled when it asked.
`ListsShowWhatIsSettled` follows, as long as the version has not moved back.
`StaleEntriesRunOut` and `StaleListsRunOut` make no such reservation: a request
about to store has just read, so that what it stores is out of date only if the
change came in between.

**Checked by TLC only.** The liveness properties as such, that is what fairness adds
to the table above; `ENABLED` and fairness are out of the provers' reach. Of the
invariants and action properties of the passing runs, every one is a theorem; those
of the two violated runs are false.

## 5. What is not modelled

- `IdempotencyInterceptor` and the Redis lock of `IdempotencyService`: nothing
  installs the interceptor (`main.ts:89`). The API-key guard and middleware are
  modelled as far as `validateApiKey`, which they call; no route uses them.
- Signatures, HTTP shapes, and the layout of mails and PDFs: abstracted to the
  payloads the check may accept, whether a job was queued, and whether a mail left.
  Whether an eSewa row stands for money received depends on the check alone and is
  outside of what is claimed.
- The recipient of an invoice: `createInvoice` by `customerId` queues its mail for
  `customer@example.com` (`invoice.service.ts:157`), which is visible in one line
  of code and has no state to explore.
- bcrypt, JWT signing and the 15 minutes of an access token: a request behind
  `JwtAuthGuard` may come at any time for any user the strategy lets pass.
- Guards, filters, logging, tracing, health checks, configuration: no state.
- Metrics other than the revenue counter.
- A database that fails over or loses a commit, a Redis that loses BullMQ's keys,
  and clocks that jump.
- The modules are not composed into one: what they share is a row that one
  writes and the others read (`active` tenants, `Invoice.status`, jobs added), and
  each module has the other's writes as actions of its own or of its environment.

## 6. Plan

Done: `Payments` with `Ledger` first, as the system's core, then
`InvoiceCreation`, `ApiKeys`, `InvoiceLists`, then `AuthSessions`,
`VersionedCache`, and `MailJobs` with `Delivery`; proofs of all of them; then
`KeyedCreation` and its refinement, sums, browsers, and the safety halves of the
liveness properties.

What would come next:

1. What overlaps cost in numbers where a theorem now only names them: how many
   sessions outlive a logout, and how many pages are out of date at once.
2. A composition of `Payments` with `MailJobs`, from the row to the mail, if a
   property appears that neither half can state.
