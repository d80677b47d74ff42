------------------------------ MODULE ApiKeys ------------------------------
(***************************************************************************)
(* ApiKeyService: creating, revoking, rolling and validating API keys over *)
(* the ApiKey table and the Redis entries validation trusts.               *)
(*                                                                         *)
(* A handler is one in-flight request.  An action is the code between two  *)
(* awaits with the call the first of them waits for; the first action of a *)
(* request is its arrival with the first call it makes.  The hash of a key *)
(* is the key: raw keys are random and hashes do not collide.  An entry of *)
(* Redis holds the id, tenant and name of a row, which never change.  The  *)
(* last_used_at updates nobody waits for are left out: nothing reads them. *)
(***************************************************************************)
EXTENDS Naturals

CONSTANTS
    KeyIds,      \* ids of ApiKey rows, one raw key each
    Tenants,
    Dates,       \* expiry dates keys are given
    Handlers,    \* concurrent requests
    MaxFaults,   \* bound on failed calls and process crashes
    None

APIKEYSTATUS == {"ACTIVE", "REVOKED", "EXPIRED"}

\* rolledFrom is a ghost: of the key it replaces, a rolled key's row has only
\* the name, "<name> (Rolled)".
KeyRow == [tenant : Tenants, status : APIKEYSTATUS, expires : Dates \cup {None},
           rolledFrom : KeyIds \cup {None}]

ASSUME ApiKeysAssumption ==
    /\ MaxFaults \in Nat
    /\ None \notin KeyIds
    /\ None \notin KeyRow

VARIABLES
    rows,     \* the table
    past,     \* dates that have passed
    active,   \* tenants whose status is ACTIVE
    cached,   \* Redis: apikey:hash:<hash>
    pc,       \* the await a handler stands at
    req,      \* a handler's local variables
    faults    \* failures so far

handlerVars == <<pc, req>>
worldVars == <<past, active>>
vars == <<rows, worldVars, cached, handlerVars, faults>>

\* The caller's tenant, the key a request is about and the one it has made.
Request == [tenant : Tenants \cup {None}, key : KeyIds \cup {None}, new : KeyIds \cup {None}]
NoRequest == [tenant |-> None, key |-> None, new |-> None]

\* The awaits of a request about a key.
OnKey == {"revokeUpdate", "revokeEvict", "rollTransaction", "rollEvict",
          "validateFind", "validateExpire", "validateCache"}

TypeOK ==
    /\ rows \in [KeyIds -> KeyRow \cup {None}]
    /\ past \subseteq Dates
    /\ active \subseteq Tenants
    /\ cached \subseteq KeyIds
    /\ pc \in [Handlers -> {"idle", "issueCache"} \cup OnKey]
    /\ req \in [Handlers -> Request]
    /\ \A h \in Handlers : pc[h] \in OnKey => req[h].key \in KeyIds
    /\ \A h \in Handlers : pc[h] \in {"rollEvict", "issueCache"} => req[h].new \in KeyIds
    /\ faults \in 0..MaxFaults

Init ==
    /\ rows = [k \in KeyIds |-> None]
    /\ past = {}
    /\ active = Tenants
    /\ cached = {}
    /\ pc = [h \in Handlers |-> "idle"]
    /\ req = [h \in Handlers |-> NoRequest]
    /\ faults = 0

-----------------------------------------------------------------------------
Goto(h, label) == pc' = [pc EXCEPT ![h] = label]

Finish(h) == Goto(h, "idle") /\ req' = [req EXCEPT ![h] = NoRequest]

Begin(h, label, request) ==
    /\ pc[h] = "idle"
    /\ req' = [req EXCEPT ![h] = request]
    /\ Goto(h, label)

-----------------------------------------------------------------------------
(* createApiKey                                                            *)

ActiveRow(n, d, from) ==
    [tenant |-> n, status |-> "ACTIVE", expires |-> d, rolledFrom |-> from]

CreateApiKey(h, n, d) ==
    /\ \E k \in KeyIds :
         /\ rows[k] = None
         /\ rows' = [rows EXCEPT ![k] = ActiveRow(n, d, None)]
         /\ Begin(h, "issueCache", [NoRequest EXCEPT !.new = k])
    /\ UNCHANGED <<worldVars, cached, faults>>

\* createApiKey and rollApiKey seed the cache with the key they have made.
IssueCache(h) ==
    /\ pc[h] = "issueCache"
    /\ cached' = cached \cup {req[h].new}
    /\ Finish(h)
    /\ UNCHANGED <<rows, worldVars, faults>>

-----------------------------------------------------------------------------
(* revokeApiKey and rollApiKey                                             *)

\* The lookup of a key by its id and the caller's tenant.
Owns(k, n) == rows[k] # None /\ rows[k].tenant = n

\* A key that is not found is answered with an error.  The status of the row
\* found is not looked at.
BeginOnOwn(h, label, n, k) ==
    /\ Owns(k, n)
    /\ Begin(h, label, [NoRequest EXCEPT !.tenant = n, !.key = k])
    /\ UNCHANGED <<rows, worldVars, cached, faults>>

RevokeApiKey(h, n, k) == BeginOnOwn(h, "revokeUpdate", n, k)

RollApiKey(h, n, k) == BeginOnOwn(h, "rollTransaction", n, k)

\* Mutant: a status the enum does not have.
RevokeUpdateDisabled(h) ==
    /\ pc[h] = "revokeUpdate"
    /\ rows' = [rows EXCEPT ![req[h].key].status = "DISABLED"]
    /\ Goto(h, "revokeEvict")
    /\ UNCHANGED <<worldVars, cached, req, faults>>

RevokeUpdate(h) ==
    /\ pc[h] = "revokeUpdate"
    /\ rows' = [rows EXCEPT ![req[h].key].status = "REVOKED"]
    /\ Goto(h, "revokeEvict")
    /\ UNCHANGED <<worldVars, cached, req, faults>>

RevokeEvict(h) ==
    /\ pc[h] = "revokeEvict"
    /\ cached' = cached \ {req[h].key}
    /\ Finish(h)
    /\ UNCHANGED <<rows, worldVars, faults>>

\* Mutant: the update is missing from the transaction.
RollTransactionCreatesOnly(h) ==
    LET k == req[h].key
    IN  /\ pc[h] = "rollTransaction"
        /\ \E new \in KeyIds :
             /\ rows[new] = None
             /\ rows' = [rows EXCEPT ![new] = ActiveRow(req[h].tenant, rows[k].expires, k)]
             /\ req' = [req EXCEPT ![h].new = new]
        /\ Goto(h, "rollEvict")
        /\ UNCHANGED <<worldVars, cached, faults>>

\* One transaction: the key is revoked and its replacement made, or neither.
RollTransaction(h) ==
    LET k == req[h].key
    IN  /\ pc[h] = "rollTransaction"
        /\ \E new \in KeyIds :
             /\ rows[new] = None
             /\ rows' = [rows EXCEPT ![k].status = "REVOKED",
                                     ![new] = ActiveRow(req[h].tenant, rows[k].expires, k)]
             /\ req' = [req EXCEPT ![h].new = new]
        /\ Goto(h, "rollEvict")
        /\ UNCHANGED <<worldVars, cached, faults>>

RollEvict(h) ==
    /\ pc[h] = "rollEvict"
    /\ cached' = cached \ {req[h].key}
    /\ Goto(h, "issueCache")
    /\ req' = [req EXCEPT ![h] = [NoRequest EXCEPT !.new = req[h].new]]
    /\ UNCHANGED <<rows, worldVars, faults>>

-----------------------------------------------------------------------------
(* validateApiKey                                                          *)

\* A malformed key is refused at once.  An entry is believed: the request is
\* accepted without a look at the row or its tenant.
ValidateApiKey(h, k) ==
    /\ k \notin cached
    /\ Begin(h, "validateFind", [NoRequest EXCEPT !.key = k])
    /\ UNCHANGED <<rows, worldVars, cached, faults>>

\* Mutant: the status of the row is not checked.
IsKnown(k) == rows[k] # None

IsActive(k) == rows[k] # None /\ rows[k].status = "ACTIVE"

\* Mutant: the date is not looked at.
NeverExpires(k) == FALSE

HasExpired(k) == rows[k].expires \in past

TenantIsActive(k) == rows[k].tenant \in active

ValidateFind(h) ==
    LET k == req[h].key
    IN  /\ pc[h] = "validateFind"
        /\ \/ /\ IsActive(k) /\ HasExpired(k)
              /\ Goto(h, "validateExpire")
              /\ UNCHANGED req
           \/ /\ IsActive(k) /\ ~HasExpired(k) /\ TenantIsActive(k)
              /\ Goto(h, "validateCache")
              /\ UNCHANGED req
           \/ /\ IsActive(k) => ~HasExpired(k) /\ ~TenantIsActive(k)
              /\ Finish(h)
        /\ UNCHANGED <<rows, worldVars, cached, faults>>

\* Whatever the status has become meanwhile.
ValidateExpire(h) ==
    /\ pc[h] = "validateExpire"
    /\ rows' = [rows EXCEPT ![req[h].key].status = "EXPIRED"]
    /\ Finish(h)
    /\ UNCHANGED <<worldVars, cached, faults>>

\* Whatever has happened to the row since it was read.
ValidateCache(h) ==
    /\ pc[h] = "validateCache"
    /\ cached' = cached \cup {req[h].key}
    /\ Finish(h)
    /\ UNCHANGED <<rows, worldVars, faults>>

-----------------------------------------------------------------------------
(* The world around the service, and failures                              *)

\* External: an entry lives for 24 hours.
CacheExpires(k) ==
    /\ k \in cached
    /\ cached' = cached \ {k}
    /\ UNCHANGED <<rows, worldVars, handlerVars, faults>>

\* External: time passes.
DatePasses(d) ==
    /\ d \notin past
    /\ past' = past \cup {d}
    /\ UNCHANGED <<rows, active, cached, handlerVars, faults>>

\* TenantService writes the status of a tenant; it evicts no entry of a key.
SetTenantStatus(n) ==
    /\ active' = IF n \in active THEN active \ {n} ELSE active \cup {n}
    /\ UNCHANGED <<rows, past, cached, handlerVars, faults>>

\* The call a request waits for is rejected.
Fail(h) ==
    /\ pc[h] # "idle"
    /\ faults < MaxFaults
    /\ faults' = faults + 1
    /\ Finish(h)
    /\ UNCHANGED <<rows, worldVars, cached>>

\* The API process dies and restarts.
Crash ==
    /\ faults < MaxFaults
    /\ faults' = faults + 1
    /\ pc' = [h \in Handlers |-> "idle"]
    /\ req' = [h \in Handlers |-> NoRequest]
    /\ UNCHANGED <<rows, worldVars, cached>>

-----------------------------------------------------------------------------
Arrival(h) ==
    \/ \E n \in Tenants, d \in Dates \cup {None} : CreateApiKey(h, n, d)
    \/ \E n \in Tenants, k \in KeyIds : RevokeApiKey(h, n, k) \/ RollApiKey(h, n, k)
    \/ \E k \in KeyIds : ValidateApiKey(h, k)

HandlerStep(h) ==
    \/ IssueCache(h) \/ RevokeUpdate(h) \/ RevokeEvict(h) \/ RollTransaction(h) \/ RollEvict(h)
    \/ ValidateFind(h) \/ ValidateExpire(h) \/ ValidateCache(h)

Next ==
    \/ \E h \in Handlers : Arrival(h) \/ HandlerStep(h) \/ Fail(h)
    \/ \E k \in KeyIds : CacheExpires(k)
    \/ \E d \in Dates : DatePasses(d)
    \/ \E n \in Tenants : SetTenantStatus(n)
    \/ Crash

\* A request whose call was answered is resumed, and Redis drops an entry
\* when its time is up.
Fairness ==
    /\ \A h \in Handlers : WF_vars(HandlerStep(h))
    /\ \A k \in KeyIds : WF_vars(CacheExpires(k))

Spec == Init /\ [][Next]_vars
FairSpec == Spec /\ Fairness

-----------------------------------------------------------------------------
(* Properties                                                              *)

AboutToCache(h, k) ==
    \/ pc[h] = "issueCache" /\ req[h].new = k
    \/ pc[h] = "rollEvict" /\ req[h].new = k
    \/ pc[h] = "validateCache" /\ req[h].key = k

\* A key no request can be served with any more.
Dead(k) ==
    /\ rows[k] # None
    /\ rows[k].status # "ACTIVE"
    /\ k \notin cached
    /\ \A h \in Handlers : ~AboutToCache(h, k)

\* "Permanently revokes the API key": once the row is no longer ACTIVE, the
\* entry gone and every request that read the row before answered, nothing
\* brings the key back: no validation, roll, or late write of EXPIRED.
DeadStaysDead == [][\A k \in KeyIds : Dead(k) => Dead(k)']_vars

\* "Atomically revokes the specified API key and generates a new active
\* replacement": wherever a roll stops, a key with a replacement is not ACTIVE.
ReplacedIsRevoked ==
    \A k \in KeyIds : rows[k] # None =>
        LET from == rows[k].rolledFrom
        IN  from # None => rows[from] # None /\ rows[from].status # "ACTIVE"

\* A key past its date, or of a tenant that is not ACTIVE.
Barred(k) == rows[k].expires \in past \/ rows[k].tenant \notin active

\* A barred key with no entry and no request under way that may add one.
ShutOut(k) ==
    /\ rows[k] # None
    /\ Barred(k)
    /\ k \notin cached
    /\ \A h \in Handlers : ~AboutToCache(h, k)

\* Neither a date that passes nor a tenant that is deactivated evicts an entry.
\* But once the entries have lapsed, a key past its date is refused for good, and
\* a tenant's keys until the tenant is ACTIVE again: no validation, roll or
\* creation under way lets one back in, although the row may still be ACTIVE.
InactiveStaysOut ==
    [][\A k \in KeyIds : ShutOut(k) /\ Barred(k)' => ShutOut(k)']_vars

\* A revocation takes hold: entries written by requests that were under way,
\* or left by one that failed, are believed for a day at most, and then the key
\* is refused for good.
RevocationTakesHold ==
    \A k \in KeyIds : (rows[k] # None /\ rows[k].status = "REVOKED") ~> []Dead(k)
=============================================================================
