--------------------------- MODULE VersionedCache ---------------------------
(***************************************************************************)
(* The caches of CustomerService, UserService, TenantService and of        *)
(* AuthService's profile: list pages stored under a version, and an entry  *)
(* for one row, over the table they are read from.                         *)
(*                                                                         *)
(* The four keep disjoint keys and tables, and a tenant's keys do not meet *)
(* another's: the module is one service, one tenant, one page and one row. *)
(* An operation is the sequence of its awaits, and a step of a handler is  *)
(* the code from one to the next.  What a page or an entry shows is        *)
(* abstracted to the number of the last write its read came after.         *)
(***************************************************************************)
EXTENDS Naturals, Sequences

CONSTANTS
    Services,    \* the services considered
    Handlers,    \* concurrent requests
    MaxWrites,   \* bound on requests that write, and on writes elsewhere
    MaxFaults,   \* bound on failed calls and process crashes
    None

Stamps == 0..MaxWrites
Versions == 1..(MaxWrites + 1)

ASSUME VersionedCacheAssumption ==
    /\ Services \subseteq {"customers", "users", "tenants", "profiles"}
    /\ MaxWrites \in Nat /\ MaxFaults \in Nat
    /\ None \notin Nat

VARIABLES
    service,      \* the service of this behaviour
    table,        \* the number of the last write
    row,          \* the number of the last write to the row
    gone,         \* the row was deleted
    version,      \* Redis: the version of the lists; 0 when absent
    pages,        \* Redis: the page stored under a version
    entry,        \* Redis: the entry of the row
    todo,         \* the awaits a handler has before it, the next one first
    req,          \* a handler's local variables
    listSettled,  \* ghost: what finished requests have made lists show
    rowSettled,   \* ghost: what finished requests have made the entry show
    regressed,    \* ghost: the version has moved backwards, or lapsed
    late,         \* ghost: the last eviction of the entry overlapped an older read
    begun,        \* writes begun so far
    faults        \* failures so far

dbVars == <<table, row, gone>>
cacheVars == <<version, pages, entry>>
handlerVars == <<todo, req>>
ghostVars == <<listSettled, rowSettled, regressed, late>>
boundVars == <<begun, faults>>
vars == <<service, dbVars, cacheVars, handlerVars, ghostVars, boundVars>>

-----------------------------------------------------------------------------
(* The operations, await by await                                          *)

GetVersion == <<"getVersion", "initVersion">>
BumpVersion == GetVersion \o <<"setVersion">>
List == GetVersion \o <<"getPage", "readTable", "setPage">>
FindOne == <<"getEntry", "readRow", "setEntry">>

\* CustomerService.
CustomersCreate == <<"insert">>
CustomersUpdate == FindOne \o <<"write">> \o BumpVersion \o <<"evict">>
CustomersRemove == FindOne \o <<"delete">> \o BumpVersion \o <<"evict">>

\* Mutant: the list version is not bumped.
UsersCreateQuietly == <<"check", "insert">>

\* Mutant: the entry is evicted before the write.
UsersUpdateEvictsFirst == FindOne \o <<"evict", "write">> \o BumpVersion

\* UserService.  The row is deleted last.
UsersCreate == <<"check", "insert">> \o BumpVersion
UsersUpdate == FindOne \o <<"write", "evict">> \o BumpVersion
UsersRemove == FindOne \o <<"evict">> \o BumpVersion \o <<"delete">>

\* TenantService.  A tenant is not deleted, its status is set.
TenantsCreate == <<"check", "insert">> \o BumpVersion
TenantsUpdateEmail == FindOne \o <<"check", "write", "evict">> \o BumpVersion
TenantsUpdate == FindOne \o <<"write", "evict">> \o BumpVersion
TenantsRemove == FindOne \o <<"write", "evict">> \o BumpVersion

\* AuthService: getProfile, and the eviction logout and resetPassword end with.
ProfilesFindOne == FindOne
ProfilesEvict == <<"evict">>

Operations == [
    customers |-> {List, FindOne, CustomersCreate, CustomersUpdate, CustomersRemove},
    users     |-> {List, FindOne, UsersCreate, UsersUpdate, UsersRemove},
    tenants   |-> {List, FindOne, TenantsCreate, TenantsUpdateEmail, TenantsUpdate,
                   TenantsRemove},
    profiles  |-> {ProfilesFindOne, ProfilesEvict}]

Has(op, labels) == \E i \in DOMAIN op : op[i] \in labels
Writing == {"insert", "write", "delete"}

\* The writers whose caller may still be shown the old state by a cache when it
\* is answered: a new customer is in no list, and a user's entry and lists are
\* invalidated before the row is deleted.
Lagging == {CustomersCreate, UsersRemove}

\* The caches a request has brought up to date when it is answered.
Settles(op) ==
    IF op \in Lagging THEN {}
    ELSE (IF Has(op, Writing) THEN {"lists"} ELSE {})
           \cup (IF Has(op, {"write", "delete"}) THEN {"entry"} ELSE {})

-----------------------------------------------------------------------------
Labels == {"getVersion", "initVersion", "setVersion", "getPage", "readTable", "setPage",
           "getEntry", "readRow", "setEntry", "check", "evict"} \cup Writing

\* version: the version it has read; due: what was settled then; seen: what it has
\* read; wrote: the number of its write; settles: the caches its end settles.
Request == [version : Versions \cup {0}, due : Stamps, seen : Stamps, wrote : Stamps,
            settles : SUBSET {"lists", "entry"}]
NoRequest == [version |-> 0, due |-> 0, seen |-> 0, wrote |-> 0, settles |-> {}]

At(h, label) == todo[h] # <<>> /\ Head(todo[h]) = label

TypeOK ==
    /\ service \in Services
    /\ table \in Stamps /\ row \in 0..table /\ gone \in BOOLEAN
    /\ version \in Versions \cup {0}
    /\ pages \in [Versions -> Stamps \cup {None}]
    /\ entry \in Stamps \cup {None}
    /\ \A h \in Handlers : \A i \in DOMAIN todo[h] : todo[h][i] \in Labels
    /\ req \in [Handlers -> Request]
    /\ listSettled \in 0..table /\ rowSettled \in 0..row
    /\ regressed \in BOOLEAN /\ late \in BOOLEAN
    /\ begun \in Stamps /\ faults \in 0..MaxFaults

Init ==
    /\ service \in Services
    /\ table = 0 /\ row = 0 /\ gone = FALSE
    /\ version = 0 /\ pages = [v \in Versions |-> None] /\ entry = None
    /\ todo = [h \in Handlers |-> <<>>]
    /\ req = [h \in Handlers |-> NoRequest]
    /\ listSettled = 0 /\ rowSettled = 0 /\ regressed = FALSE /\ late = FALSE
    /\ begun = 0 /\ faults = 0

-----------------------------------------------------------------------------
(* A step does the first of the awaits in plan, for the request r of h, and *)
(* leaves the handler with what remains of them.                           *)

\* The end of a request with an error, or with no more to do.
Stop(h) ==
    /\ todo' = [todo EXCEPT ![h] = <<>>]
    /\ req' = [req EXCEPT ![h] = NoRequest]

Later(s, t) == IF s < t THEN t ELSE s

\* Ghosts: a request that is answered has settled what it wrote.
Answered(r) ==
    /\ listSettled' = IF "lists" \in r.settles THEN Later(listSettled, r.wrote) ELSE listSettled
    /\ rowSettled' = IF "entry" \in r.settles THEN Later(rowSettled, r.wrote) ELSE rowSettled

\* On to the n-th await of plan; or the answer.
Skip(h, plan, n, r) ==
    IF n > Len(plan)
      THEN Stop(h) /\ Answered(r)
      ELSE /\ todo' = [todo EXCEPT ![h] = SubSeq(plan, n, Len(plan))]
           /\ req' = [req EXCEPT ![h] = r]
           /\ UNCHANGED <<listSettled, rowSettled>>

Continue(h, plan, r) == Skip(h, plan, 2, r)

\* An answer now, of a request that has changed nothing.
Answer(h) == Stop(h) /\ UNCHANGED <<listSettled, rowSettled>>

-----------------------------------------------------------------------------
(* The version of the lists                                                *)

SetVersionTo(v) ==
    /\ version' = v
    /\ regressed' = (regressed \/ v < version)

\* A version that is there is used; one that is not becomes 1.
GetVersionKey(h, plan, r) ==
    LET due == IF Has(plan, {"getPage"}) THEN listSettled ELSE 0
        got == [r EXCEPT !.version = version, !.due = due]
    IN  /\ Head(plan) = "getVersion"
        /\ IF version = 0 THEN Continue(h, plan, got) ELSE Skip(h, plan, 3, got)
        /\ UNCHANGED <<dbVars, cacheVars, regressed, late>>

InitVersion(h, plan, r) ==
    /\ Head(plan) = "initVersion"
    /\ SetVersionTo(1)
    /\ Continue(h, plan, [r EXCEPT !.version = 1])
    /\ UNCHANGED <<dbVars, pages, entry, late>>

\* Mutant: a bump skips a version.
SetVersionTwice(h, plan, r) ==
    /\ Head(plan) = "setVersion"
    /\ SetVersionTo(r.version + 2)
    /\ Continue(h, plan, [r EXCEPT !.version = 0])
    /\ UNCHANGED <<dbVars, pages, entry, late>>

SetVersion(h, plan, r) ==
    /\ Head(plan) = "setVersion"
    /\ SetVersionTo(r.version + 1)
    /\ Continue(h, plan, [r EXCEPT !.version = 0])
    /\ UNCHANGED <<dbVars, pages, entry, late>>

-----------------------------------------------------------------------------
(* The readers                                                             *)

\* Mutant: a hit stores the page again, and with it a new life.
GetPageSliding(h, plan, r) ==
    LET page == pages[r.version]
    IN  /\ Head(plan) = "getPage"
        /\ IF page = None THEN Continue(h, plan, [r EXCEPT !.due = 0])
           ELSE Skip(h, plan, 3, [r EXCEPT !.seen = page])
        /\ UNCHANGED <<dbVars, cacheVars, regressed, late>>

GetPage(h, plan, r) ==
    /\ Head(plan) = "getPage"
    /\ IF pages[r.version] = None THEN Continue(h, plan, [r EXCEPT !.due = 0]) ELSE Answer(h)
    /\ UNCHANGED <<dbVars, cacheVars, regressed, late>>

ReadTable(h, plan, r) ==
    /\ Head(plan) = "readTable"
    /\ Continue(h, plan, [r EXCEPT !.seen = table])
    /\ UNCHANGED <<dbVars, cacheVars, regressed, late>>

SetPage(h, plan, r) ==
    /\ Head(plan) = "setPage"
    /\ pages' = [pages EXCEPT ![r.version] = r.seen]
    /\ Continue(h, plan, r)
    /\ UNCHANGED <<dbVars, version, entry, regressed, late>>

\* An update that finds an entry goes on, whatever has become of the row.
GetEntry(h, plan, r) ==
    /\ Head(plan) = "getEntry"
    /\ IF entry = None THEN Continue(h, plan, r) ELSE Skip(h, plan, 4, r)
    /\ UNCHANGED <<dbVars, cacheVars, regressed, late>>

ReadRow(h, plan, r) ==
    /\ Head(plan) = "readRow"
    /\ IF gone THEN Answer(h) ELSE Continue(h, plan, [r EXCEPT !.seen = row])
    /\ UNCHANGED <<dbVars, cacheVars, regressed, late>>

SetEntry(h, plan, r) ==
    /\ Head(plan) = "setEntry"
    /\ entry' = r.seen
    /\ Continue(h, plan, [r EXCEPT !.seen = 0])
    /\ UNCHANGED <<dbVars, version, pages, regressed, late>>

-----------------------------------------------------------------------------
(* The writers                                                             *)

\* The e-mail is taken, or not.
Check(h, plan, r) ==
    /\ Head(plan) = "check"
    /\ Continue(h, plan, r) \/ Answer(h)
    /\ UNCHANGED <<dbVars, cacheVars, regressed, late>>

Written(r) == [r EXCEPT !.wrote = IF r.settles = {} THEN 0 ELSE table + 1]

\* Another row of the table.  It may be refused, as its e-mail may be taken.
Insert(h, plan, r) ==
    /\ Head(plan) = "insert"
    /\ \/ /\ table' = table + 1
          /\ Continue(h, plan, Written(r))
       \/ Answer(h) /\ UNCHANGED table
    /\ UNCHANGED <<row, gone, cacheVars, regressed, late>>

\* Refused when the row is gone, or the database will not have it: an e-mail that
\* is taken, or a customer that has invoices.
Change(h, plan, r) ==
    /\ Head(plan) \in {"write", "delete"}
    /\ \/ /\ ~gone
          /\ table' = table + 1 /\ row' = table + 1
          /\ gone' = (Head(plan) = "delete")
          /\ Continue(h, plan, Written(r))
       \/ Answer(h) /\ UNCHANGED dbVars
    /\ UNCHANGED <<cacheVars, regressed, late>>

Evict(h, plan, r) ==
    /\ Head(plan) = "evict"
    /\ entry' = None
    /\ late' = \E g \in Handlers : At(g, "setEntry") /\ req[g].seen < row
    /\ Continue(h, plan, r)
    /\ UNCHANGED <<dbVars, version, pages, regressed>>

Step(h, plan, r) ==
    \/ GetVersionKey(h, plan, r) \/ InitVersion(h, plan, r) \/ SetVersion(h, plan, r)
    \/ GetPage(h, plan, r) \/ ReadTable(h, plan, r) \/ SetPage(h, plan, r)
    \/ GetEntry(h, plan, r) \/ ReadRow(h, plan, r) \/ SetEntry(h, plan, r)
    \/ Check(h, plan, r) \/ Insert(h, plan, r) \/ Change(h, plan, r) \/ Evict(h, plan, r)

\* A request comes in and does the first of its awaits.
Arrival(h, op) ==
    /\ todo[h] = <<>>
    /\ Step(h, op, [NoRequest EXCEPT !.settles = Settles(op)])
    /\ \/ Has(op, Writing) /\ begun < MaxWrites /\ begun' = begun + 1
       \/ ~Has(op, Writing) /\ UNCHANGED begun
    /\ UNCHANGED <<service, faults>>

HandlerStep(h) ==
    /\ todo[h] # <<>>
    /\ Step(h, todo[h], req[h])
    /\ UNCHANGED <<service, boundVars>>

\* What other services write: register makes users and tenants, createInvoice
\* makes customers, invoices and payments show in a customer's entry, and a
\* profile shows what UserService and TenantService change.
WriteElsewhere ==
    /\ begun < MaxWrites /\ begun' = begun + 1
    /\ table' = table + 1
    /\ row' \in (IF gone THEN {row} ELSE {row, table + 1})
    /\ UNCHANGED <<service, gone, cacheVars, handlerVars, ghostVars, faults>>

-----------------------------------------------------------------------------
(* Redis, and failures                                                     *)

\* External: a page lives for 1 or 5 minutes.
PageExpires(v) ==
    /\ pages[v] # None
    /\ pages' = [pages EXCEPT ![v] = None]
    /\ UNCHANGED <<service, dbVars, version, entry, handlerVars, ghostVars, boundVars>>

\* External: an entry lives for between a minute and 24 hours.
EntryExpires ==
    /\ entry # None
    /\ entry' = None
    /\ UNCHANGED <<service, dbVars, version, pages, handlerVars, ghostVars, boundVars>>

\* External: the version lives for 24 hours after it was last set.
VersionExpires ==
    /\ version # 0
    /\ SetVersionTo(0)
    /\ UNCHANGED <<service, dbVars, pages, entry, handlerVars, listSettled, rowSettled, late,
                   boundVars>>

\* The call a request waits for is rejected.
Fail(h) ==
    /\ todo[h] # <<>>
    /\ faults < MaxFaults
    /\ faults' = faults + 1
    /\ Stop(h)
    /\ UNCHANGED <<service, dbVars, cacheVars, ghostVars, begun>>

\* The API process dies and restarts.
Crash ==
    /\ faults < MaxFaults
    /\ faults' = faults + 1
    /\ todo' = [h \in Handlers |-> <<>>]
    /\ req' = [h \in Handlers |-> NoRequest]
    /\ UNCHANGED <<service, dbVars, cacheVars, ghostVars, begun>>

-----------------------------------------------------------------------------
Next ==
    \/ \E h \in Handlers, op \in Operations[service] : Arrival(h, op)
    \/ \E h \in Handlers : HandlerStep(h) \/ Fail(h)
    \/ WriteElsewhere
    \/ \E v \in Versions : PageExpires(v)
    \/ EntryExpires
    \/ VersionExpires
    \/ Crash

\* A request whose call was answered is resumed, and Redis drops a page or an
\* entry when its time is up.
Fairness ==
    /\ \A h \in Handlers : WF_vars(HandlerStep(h))
    /\ \A v \in Versions : WF_vars(PageExpires(v))
    /\ WF_vars(EntryExpires)

Spec == Init /\ [][Next]_vars
FairSpec == Spec /\ Fairness

-----------------------------------------------------------------------------
(* Properties                                                              *)

\* "Invalidate all paginated lists for this tenant": a page a list request is
\* served from shows what every writer answered before it had asked, but for
\* the lagging ones, however bumps overlap and readers store late, as long as
\* the version has not moved back.
ListsShowSettled ==
    regressed \/ \A h \in Handlers :
        At(h, "getPage") /\ pages[req[h].version] # None => pages[req[h].version] >= req[h].due

\* An entry shows what every writer answered so far wrote to the row, but for
\* the lagging ones, unless the last eviction overlapped a read from before the
\* write.
EntryShowsSettled == late \/ entry = None \/ entry >= rowSettled

\* A write nobody announces, an invalidation that came too early, and a reader
\* that stores what is no longer so, cost the life of an entry at most: what
\* was written is shown in the end, and a deleted row is not shown again.
CachesCatchUp ==
    \A s \in 1..MaxWrites :
        /\ table = s ~> [](\A v \in Versions : pages[v] = None \/ pages[v] >= s)
        /\ row = s ~> [](entry = None \/ entry >= s)
=============================================================================
