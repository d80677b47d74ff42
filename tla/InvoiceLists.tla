---------------------------- MODULE InvoiceLists ----------------------------
(***************************************************************************)
(* The cached invoice list: InvoiceService.findAll and                     *)
(* getInvoiceByCustomerEmail with the version key their entries are stored *)
(* under, next to the three writers of invoices: createInvoice, the        *)
(* payment callbacks and the nightly sweep.                                *)
(*                                                                         *)
(* Keys and rows of different tenants never meet: the module is one        *)
(* tenant, and one page of its list.  What a page shows is abstracted to   *)
(* how many creations and how many changes of status its read came after.  *)
(***************************************************************************)
EXTENDS Naturals, FiniteSets

CONSTANTS
    Creators,      \* concurrent createInvoice requests
    Payers,        \* concurrent payment callbacks
    Readers,       \* concurrent list requests
    Cron,          \* the sweep
    MaxCreations,  \* bound on creations
    MaxChanges,    \* bound on changes of status
    None

Handlers == Creators \cup Payers \cup Readers \cup {Cron}
Versions == 1..(MaxCreations + 1)
Page == [creations : 0..MaxCreations, changes : 0..MaxChanges]

ASSUME InvoiceListsAssumption ==
    /\ MaxCreations \in Nat
    /\ MaxChanges \in Nat
    /\ None \notin Page
    /\ IsFiniteSet(Creators)
    /\ Creators \cap Readers = {}

VARIABLES
    table,       \* what a read of the table shows now
    settled,     \* what writers that have finished have written
    version,     \* Redis: tenant:<tenant>:invoices:version; 0 when absent
    payVersion,  \* Redis: invoice:version:<tenant>; 0 when absent
    pages,       \* Redis: v:<version>:tenant:<tenant>:invoices:...
    regressed,   \* version has moved backwards, or lapsed
    pc,          \* the await a handler stands at
    req          \* a handler's local variables

handlerVars == <<pc, req>>
vars == <<table, settled, version, payVersion, pages, regressed, handlerVars>>

\* need: what was settled when the request came; page: what the request has
\* written to, or read from, the table; version: the version it has read.
Request == [need : Page, page : Page, version : Nat]
Nothing == [creations |-> 0, changes |-> 0]
NoRequest == [need |-> Nothing, page |-> Nothing, version |-> 0]

Labels == {"idle", "getVersion", "initVersion", "setVersion", "getPayVersion", "setPayVersion",
           "getPage", "readTable", "setPage", "sweepUpdate", "sweepOthers", "sweepEvict"}

TypeOK ==
    /\ table \in Page
    /\ settled \in Page
    /\ version \in {0} \cup Versions
    /\ payVersion \in Nat
    /\ pages \in [Versions -> Page \cup {None}]
    /\ regressed \in BOOLEAN
    /\ pc \in [Handlers -> Labels]
    /\ req \in [Handlers -> Request]

Init ==
    /\ table = Nothing
    /\ settled = Nothing
    /\ version = 0
    /\ payVersion = 0
    /\ pages = [v \in Versions |-> None]
    /\ regressed = FALSE
    /\ pc = [h \in Handlers |-> "idle"]
    /\ req = [h \in Handlers |-> NoRequest]

-----------------------------------------------------------------------------
Goto(h, label) == pc' = [pc EXCEPT ![h] = label]

Finish(h) == Goto(h, "idle") /\ req' = [req EXCEPT ![h] = NoRequest]

Larger(m, n) == IF m > n THEN m ELSE n

\* The writer is done: from now on lists should show what it wrote.
Settle(page) ==
    settled' = [creations |-> Larger(page.creations, settled.creations),
                changes |-> Larger(page.changes, settled.changes)]

MoveVersion(v) == version' = v /\ regressed' = (regressed \/ v < version)

-----------------------------------------------------------------------------
(* getInvoiceVersion, which createInvoice and the readers call             *)

Continues(h) == IF h \in Creators THEN "setVersion" ELSE "getPage"

\* The version found, or 1 where there is none.
ReadVersion(h, request) ==
    /\ req' = [req EXCEPT ![h] = [request EXCEPT !.version = IF version = 0 THEN 1 ELSE version]]
    /\ Goto(h, IF version = 0 THEN "initVersion" ELSE Continues(h))

\* A version set meanwhile is overwritten.
InitVersion(h) ==
    /\ pc[h] = "initVersion"
    /\ MoveVersion(1)
    /\ Goto(h, Continues(h))
    /\ UNCHANGED <<table, settled, payVersion, pages, req>>

-----------------------------------------------------------------------------
(* createInvoice: the transaction, then bumpInvoiceVersion.  The key it     *)
(* marks DONE and the job it adds in between are InvoiceCreation's.         *)

Create(h) ==
    /\ pc[h] = "idle"
    /\ table.creations < MaxCreations
    /\ table' = [table EXCEPT !.creations = @ + 1]
    /\ req' = [req EXCEPT ![h].page.creations = table.creations + 1]
    /\ Goto(h, "getVersion")
    /\ UNCHANGED <<settled, version, payVersion, pages, regressed>>

BumpGet(h) ==
    /\ pc[h] = "getVersion"
    /\ ReadVersion(h, req[h])
    /\ UNCHANGED <<table, settled, version, payVersion, pages, regressed>>

\* Mutants: the version stays what it was; it grows without the transaction's
\* having asked for it.
BumpSetSame(h) ==
    /\ pc[h] = "setVersion"
    /\ MoveVersion(req[h].version)
    /\ Settle(req[h].page)
    /\ Finish(h)
    /\ UNCHANGED <<table, payVersion, pages>>

BumpSetTwice(h) ==
    /\ pc[h] = "setVersion"
    /\ MoveVersion(req[h].version + 2)
    /\ Settle(req[h].page)
    /\ Finish(h)
    /\ UNCHANGED <<table, payVersion, pages>>

BumpSet(h) ==
    /\ pc[h] = "setVersion"
    /\ MoveVersion(req[h].version + 1)
    /\ Settle(req[h].page)
    /\ Finish(h)
    /\ UNCHANGED <<table, payVersion, pages>>

-----------------------------------------------------------------------------
(* The payment callbacks: the update of the status, then PaymentService's  *)
(* own bumpInvoiceVersion                                                  *)

Pay(h) ==
    /\ pc[h] = "idle"
    /\ table.changes < MaxChanges
    /\ table' = [table EXCEPT !.changes = @ + 1]
    /\ req' = [req EXCEPT ![h].page.changes = table.changes + 1]
    /\ Goto(h, "getPayVersion")
    /\ UNCHANGED <<settled, version, payVersion, pages, regressed>>

PayBumpGet(h) ==
    /\ pc[h] = "getPayVersion"
    /\ req' = [req EXCEPT ![h].version = payVersion]
    /\ Goto(h, "setPayVersion")
    /\ UNCHANGED <<table, settled, version, payVersion, pages, regressed>>

PayBumpSet(h) ==
    /\ pc[h] = "setPayVersion"
    /\ payVersion' = req[h].version + 1
    /\ Settle(req[h].page)
    /\ Finish(h)
    /\ UNCHANGED <<table, version, pages, regressed>>

-----------------------------------------------------------------------------
(* markOverdueInvoices, for the invoices of the tenant                     *)

\* The tenant is among the affected ones, or has nothing overdue yet.
SweepFind ==
    /\ pc[Cron] = "idle"
    /\ Goto(Cron, "sweepUpdate") \/ Goto(Cron, "sweepOthers")
    /\ UNCHANGED <<table, settled, version, payVersion, pages, regressed, req>>

\* updateMany selects again: it may find more invoices, or none.
SweepUpdate ==
    /\ pc[Cron] \in {"sweepUpdate", "sweepOthers"}
    /\ \/ Finish(Cron) /\ UNCHANGED <<table, settled>>
       \/ /\ table.changes < MaxChanges
          /\ table' = [table EXCEPT !.changes = @ + 1]
          /\ IF pc[Cron] = "sweepUpdate"
               THEN /\ req' = [req EXCEPT ![Cron].page.changes = table.changes + 1]
                    /\ Goto(Cron, "sweepEvict")
                    /\ UNCHANGED settled
               ELSE /\ Settle([Nothing EXCEPT !.changes = table.changes + 1])
                    /\ Finish(Cron)
    /\ UNCHANGED <<version, payVersion, pages, regressed>>

SweepEvict ==
    /\ pc[Cron] = "sweepEvict"
    /\ payVersion' = 0
    /\ Settle(req[Cron].page)
    /\ Finish(Cron)
    /\ UNCHANGED <<table, version, pages, regressed>>

-----------------------------------------------------------------------------
(* findAll and getInvoiceByCustomerEmail                                   *)

List(h) ==
    /\ pc[h] = "idle"
    /\ ReadVersion(h, [NoRequest EXCEPT !.need = settled])
    /\ UNCHANGED <<table, settled, version, payVersion, pages, regressed>>

\* Mutant: a hit is stored again, with a new time to live.
GetPageSliding(h) ==
    /\ pc[h] = "getPage"
    /\ IF pages[req[h].version] = None
         THEN Goto(h, "readTable") /\ UNCHANGED req
         ELSE /\ req' = [req EXCEPT ![h].page = pages[req[h].version]]
              /\ Goto(h, "setPage")
    /\ UNCHANGED <<table, settled, version, payVersion, pages, regressed>>

\* A hit is the answer.
GetPage(h) ==
    /\ pc[h] = "getPage"
    /\ IF pages[req[h].version] = None
         THEN Goto(h, "readTable") /\ UNCHANGED req
         ELSE Finish(h)
    /\ UNCHANGED <<table, settled, version, payVersion, pages, regressed>>

ReadTable(h) ==
    /\ pc[h] = "readTable"
    /\ req' = [req EXCEPT ![h].page = table]
    /\ Goto(h, "setPage")
    /\ UNCHANGED <<table, settled, version, payVersion, pages, regressed>>

\* The entry goes under the version the request has read, whatever the
\* version is by now.
SetPage(h) ==
    /\ pc[h] = "setPage"
    /\ pages' = [pages EXCEPT ![req[h].version] = req[h].page]
    /\ Finish(h)
    /\ UNCHANGED <<table, settled, version, payVersion, regressed>>

-----------------------------------------------------------------------------
\* External: the version key lives for 24 hours, an entry for five minutes.
VersionExpires ==
    /\ version # 0
    /\ MoveVersion(0)
    /\ UNCHANGED <<table, settled, payVersion, pages, handlerVars>>

PageExpires(v) ==
    /\ pages[v] # None
    /\ pages' = [pages EXCEPT ![v] = None]
    /\ UNCHANGED <<table, settled, version, payVersion, regressed, handlerVars>>

\* The call a request waits for is rejected, or the process dies: then every
\* request fails, one after the other.
Fail(h) ==
    /\ pc[h] # "idle"
    /\ Finish(h)
    /\ UNCHANGED <<table, settled, version, payVersion, pages, regressed>>

CreatorStep(h) == BumpGet(h) \/ InitVersion(h) \/ BumpSet(h)
PayerStep(h) == PayBumpGet(h) \/ PayBumpSet(h)
ReaderStep(h) == InitVersion(h) \/ GetPage(h) \/ ReadTable(h) \/ SetPage(h)

Next ==
    \/ \E h \in Creators : Create(h) \/ CreatorStep(h)
    \/ \E h \in Payers : Pay(h) \/ PayerStep(h)
    \/ \E h \in Readers : List(h) \/ ReaderStep(h)
    \/ SweepFind \/ SweepUpdate \/ SweepEvict
    \/ \E h \in Handlers : Fail(h)
    \/ VersionExpires
    \/ \E v \in Versions : PageExpires(v)

\* A request whose call was answered is resumed, and Redis drops an entry
\* when its time is up.
Fairness ==
    /\ \A h \in Readers : WF_vars(ReaderStep(h))
    /\ \A v \in Versions : WF_vars(PageExpires(v))

Spec == Init /\ [][Next]_vars
FairSpec == Spec /\ Fairness

-----------------------------------------------------------------------------
(* Properties                                                              *)

\* The entry a request is about to be answered with.
Hit(h) == pc[h] = "getPage" /\ pages[req[h].version] # None

\* While the version key has not moved backwards, a list shows every invoice
\* whose creation was answered before the list was asked for, however the
\* requests overlap: what bumpInvoiceVersion is for.
CreationsAreListed ==
    ~regressed =>
        \A h \in Readers : Hit(h) => pages[req[h].version].creations >= req[h].need.creations

\* "Then bumps Redis cache versions for all affected tenants so stale data is
\* never served to clients": the same for changes of status.
ChangesAreListed ==
    ~regressed =>
        \A h \in Readers : Hit(h) => pages[req[h].version].changes >= req[h].need.changes

\* Whatever the version keys miss, a list is out of date for the life of an
\* entry only: every change reaches all lists for good.
ListsCatchUp ==
    \A n \in 1..MaxChanges :
        table.changes >= n ~>
            [](\A v \in Versions : pages[v] # None => pages[v].changes >= n)
=============================================================================
