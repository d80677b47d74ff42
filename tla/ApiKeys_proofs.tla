--------------------------- MODULE ApiKeys_proofs ---------------------------
(***************************************************************************)
(* Theorems about ApiKeys, for every number of keys, tenants, dates,       *)
(* concurrent requests, failed calls and crashes.                          *)
(***************************************************************************)
EXTENDS ApiKeys, TLAPS

-----------------------------------------------------------------------------
(* The inductive invariant: rows are never deleted, so the row a request    *)
(* found is still there when it writes to it; a roll knows its tenant.      *)

FoundTheRow == {"revokeUpdate", "rollTransaction", "validateExpire"}

RowsStay ==
    \A h \in Handlers :
        /\ pc[h] \in FoundTheRow => rows[req[h].key] # None
        /\ pc[h] = "rollTransaction" => req[h].tenant \in Tenants

IInv == TypeOK /\ RowsStay /\ ReplacedIsRevoked

\* An empty table satisfies the invariant.
LEMMA InitIInv == Init => IInv
BY ApiKeysAssumption
   DEF Init, IInv, TypeOK, RowsStay, FoundTheRow, ReplacedIsRevoked, Request, NoRequest, OnKey

\* The rows createApiKey and rollApiKey write are ACTIVE rows of the table.
LEMMA ActiveRowType ==
    ASSUME NEW n \in Tenants, NEW d \in Dates \cup {None}, NEW from \in KeyIds \cup {None}
    PROVE  /\ ActiveRow(n, d, from) \in KeyRow
           /\ ActiveRow(n, d, from).rolledFrom = from
           /\ ActiveRow(n, d, from).status = "ACTIVE"
BY DEF ActiveRow, KeyRow, APIKEYSTATUS

\* Writing a status other than ACTIVE to a row that exists keeps the table
\* typed, and its rolled keys revoked.
LEMMA StatusWrite ==
    ASSUME IInv, NEW k \in KeyIds, rows[k] # None, NEW s \in {"REVOKED", "EXPIRED"},
           rows' = [rows EXCEPT ![k].status = s]
    PROVE  /\ rows' \in [KeyIds -> KeyRow \cup {None}]
           /\ \A j \in KeyIds : rows[j] # None => rows'[j] # None
           /\ ReplacedIsRevoked'
<1> DEFINE row == [rows[k] EXCEPT !.status = s]
<1>1. rows[k] \in KeyRow
  BY DEF IInv, TypeOK
<1>2. row \in KeyRow /\ row.status = s /\ row.rolledFrom = rows[k].rolledFrom
  BY <1>1 DEF KeyRow, APIKEYSTATUS
<1>3. rows' = [rows EXCEPT ![k] = row]
  OBVIOUS
<1> HIDE DEF row
<1>4. row # None
  BY <1>2, ApiKeysAssumption
<1>5. rows' \in [KeyIds -> KeyRow \cup {None}]
  BY <1>2, <1>3 DEF IInv, TypeOK
<1>6. \A j \in KeyIds : rows[j] # None => rows'[j] # None
  BY <1>3, <1>4 DEF IInv, TypeOK
<1>7. ASSUME NEW j \in KeyIds, rows'[j] # None, rows'[j].rolledFrom # None
      PROVE  /\ rows'[rows'[j].rolledFrom] # None
             /\ rows'[rows'[j].rolledFrom].status # "ACTIVE"
  <2> DEFINE from == rows[j].rolledFrom
  <2>1. rows[j] # None /\ rows'[j].rolledFrom = from
    BY <1>2, <1>3, <1>7 DEF IInv, TypeOK
  <2>2. from \in KeyIds /\ rows[from] # None /\ rows[from].status # "ACTIVE"
    BY <1>7, <2>1 DEF IInv, TypeOK, KeyRow, ReplacedIsRevoked
  <2> HIDE DEF from
  <2>3. rows'[from] # None /\ rows'[from].status # "ACTIVE"
    BY <1>2, <1>3, <1>4, <2>2 DEF IInv, TypeOK
  <2>4. QED
    BY <2>1, <2>3
<1>8. QED
  BY <1>5, <1>6, <1>7 DEF ReplacedIsRevoked

\* A new ACTIVE row keeps the table typed, whatever key it replaces, when that
\* key is no longer ACTIVE.
LEMMA RowInsert ==
    ASSUME NEW t, t \in [KeyIds -> KeyRow \cup {None}],
           \A j \in KeyIds : t[j] # None /\ t[j].rolledFrom # None =>
               t[t[j].rolledFrom] # None /\ t[t[j].rolledFrom].status # "ACTIVE",
           NEW k \in KeyIds, t[k] = None, NEW n \in Tenants, NEW d \in Dates \cup {None},
           NEW from \in KeyIds \cup {None},
           from # None => t[from] # None /\ t[from].status # "ACTIVE",
           rows' = [t EXCEPT ![k] = ActiveRow(n, d, from)]
    PROVE  /\ rows' \in [KeyIds -> KeyRow \cup {None}]
           /\ \A j \in KeyIds : t[j] # None => rows'[j] # None
           /\ ReplacedIsRevoked'
<1> DEFINE row == ActiveRow(n, d, from)
<1>1. row \in KeyRow /\ row.rolledFrom = from
  BY ActiveRowType
<1> HIDE DEF row
<1>2. row # None
  BY <1>1, ApiKeysAssumption
<1>3. rows' = [t EXCEPT ![k] = row]
  BY DEF row
<1>4. rows' \in [KeyIds -> KeyRow \cup {None}]
  BY <1>1, <1>3
<1>5. \A j \in KeyIds : t[j] # None => rows'[j] # None
  BY <1>2, <1>3
<1>6. ASSUME NEW j \in KeyIds, rows'[j] # None, rows'[j].rolledFrom # None
      PROVE  /\ rows'[rows'[j].rolledFrom] # None
             /\ rows'[rows'[j].rolledFrom].status # "ACTIVE"
  <2>1. CASE j = k
    <3>1. rows'[j].rolledFrom = from /\ from \in KeyIds /\ from # k
      BY <1>1, <1>3, <1>6, <2>1
    <3>2. rows'[from] = t[from]
      BY <1>3, <3>1
    <3>3. QED
      BY <1>6, <3>1, <3>2
  <2>2. CASE j # k
    <3> DEFINE f == t[j].rolledFrom
    <3>1. rows'[j] = t[j]
      BY <1>3, <2>2
    <3>2. t[j] \in KeyRow
      BY <1>6, <3>1
    <3>3. f \in KeyIds
      BY <1>6, <3>1, <3>2 DEF KeyRow
    <3>4. t[f] # None /\ t[f].status # "ACTIVE" /\ f # k
      BY <1>6, <3>1
    <3>5. rows'[f] = t[f]
      BY <1>3, <3>3, <3>4
    <3>6. QED
      BY <3>1, <3>4, <3>5
  <2>3. QED
    BY <2>1, <2>2
<1>7. QED
  BY <1>4, <1>5, <1>6 DEF ReplacedIsRevoked

-----------------------------------------------------------------------------
\* A request that comes in finds the row it will write to.
LEMMA ArrivalIInv ==
    ASSUME IInv, NEW h \in Handlers, Arrival(h)
    PROVE  IInv'
<1>1. ASSUME NEW n \in Tenants, NEW d \in Dates \cup {None}, CreateApiKey(h, n, d)
      PROVE  IInv'
  <2>1. PICK k \in KeyIds : /\ rows[k] = None
                            /\ rows' = [rows EXCEPT ![k] = ActiveRow(n, d, None)]
                            /\ Begin(h, "issueCache", [NoRequest EXCEPT !.new = k])
    BY <1>1 DEF CreateApiKey
  <2>2. /\ rows' \in [KeyIds -> KeyRow \cup {None}]
        /\ \A j \in KeyIds : rows[j] # None => rows'[j] # None
        /\ ReplacedIsRevoked'
    BY <2>1, RowInsert DEF IInv, TypeOK, ReplacedIsRevoked
  <2> DEFINE r == [NoRequest EXCEPT !.new = k]
  <2>a. r = [tenant |-> None, key |-> None, new |-> k]
    BY DEF NoRequest
  <2>b. r \in Request /\ r.new = k
    BY <2>a DEF Request
  <2> HIDE DEF r
  <2>3. req' = [req EXCEPT ![h] = r]
    BY <2>1 DEF Begin, r
  <2>4. pc' = [pc EXCEPT ![h] = "issueCache"]
    BY <2>1 DEF Begin, Goto
  <2>5. TypeOK'
    BY <1>1, <2>2, <2>b, <2>3, <2>4 DEF CreateApiKey, IInv, TypeOK, OnKey, worldVars
  <2>6. RowsStay'
    BY <2>2, <2>3, <2>4 DEF IInv, TypeOK, RowsStay, FoundTheRow, OnKey
  <2>7. QED
    BY <2>2, <2>5, <2>6 DEF IInv
<1>2. ASSUME NEW n \in Tenants, NEW k \in KeyIds,
             RevokeApiKey(h, n, k) \/ RollApiKey(h, n, k)
      PROVE  IInv'
  <2>1. PICK label \in {"revokeUpdate", "rollTransaction"} : BeginOnOwn(h, label, n, k)
    BY <1>2 DEF RevokeApiKey, RollApiKey
  <2> DEFINE r == [NoRequest EXCEPT !.tenant = n, !.key = k]
  <2>a. [NoRequest EXCEPT !.tenant = n] = [tenant |-> n, key |-> None, new |-> None]
    BY DEF NoRequest
  <2>b. r \in Request /\ r.key = k /\ r.tenant = n
    BY <2>a DEF Request
  <2> HIDE DEF r
  <2>2. /\ rows[k] # None
        /\ req' = [req EXCEPT ![h] = r]
        /\ pc' = [pc EXCEPT ![h] = label]
    BY <2>1 DEF BeginOnOwn, Begin, Goto, Owns, r
  <2>3. TypeOK' /\ RowsStay' /\ ReplacedIsRevoked'
    BY <2>1, <2>b, <2>2 DEF BeginOnOwn, IInv, TypeOK, RowsStay, FoundTheRow, ReplacedIsRevoked,
       OnKey, worldVars
  <2>4. QED
    BY <2>3 DEF IInv
<1>3. ASSUME NEW k \in KeyIds, ValidateApiKey(h, k)
      PROVE  IInv'
  <2> DEFINE r == [NoRequest EXCEPT !.key = k]
  <2>a. r = [tenant |-> None, key |-> k, new |-> None]
    BY DEF NoRequest
  <2>b. r \in Request /\ r.key = k
    BY <2>a DEF Request
  <2> HIDE DEF r
  <2>1. req' = [req EXCEPT ![h] = r] /\ pc' = [pc EXCEPT ![h] = "validateFind"]
    BY <1>3 DEF ValidateApiKey, Begin, Goto, r
  <2>2. QED
    BY <1>3, <2>b, <2>1 DEF ValidateApiKey, IInv, TypeOK, RowsStay, FoundTheRow,
       ReplacedIsRevoked, OnKey, worldVars
<1>4. QED
  BY <1>1, <1>2, <1>3 DEF Arrival

\* The two updates of a status that stand alone.
LEMMA UpdateIInv ==
    ASSUME IInv, NEW h \in Handlers, RevokeUpdate(h) \/ ValidateExpire(h)
    PROVE  IInv'
<1> DEFINE k == req[h].key
<1>1. k \in KeyIds /\ rows[k] # None
  BY DEF RevokeUpdate, ValidateExpire, IInv, TypeOK, RowsStay, FoundTheRow, OnKey
<1>2. PICK s \in {"REVOKED", "EXPIRED"} : rows' = [rows EXCEPT ![k].status = s]
  BY DEF RevokeUpdate, ValidateExpire
<1>3. /\ rows' \in [KeyIds -> KeyRow \cup {None}]
      /\ \A j \in KeyIds : rows[j] # None => rows'[j] # None
      /\ ReplacedIsRevoked'
  BY <1>1, <1>2, StatusWrite
<1>4. CASE RevokeUpdate(h)
  <2>1. pc' = [pc EXCEPT ![h] = "revokeEvict"] /\ req' = req /\ pc[h] = "revokeUpdate"
    BY <1>4 DEF RevokeUpdate, Goto
  <2>2. TypeOK'
    BY <1>3, <1>4, <2>1 DEF RevokeUpdate, IInv, TypeOK, OnKey, worldVars
  <2>3. RowsStay'
    BY <1>3, <2>1 DEF IInv, TypeOK, RowsStay, FoundTheRow, OnKey
  <2>4. QED
    BY <1>3, <2>2, <2>3 DEF IInv
<1>5. CASE ValidateExpire(h)
  <2>1. pc' = [pc EXCEPT ![h] = "idle"] /\ req' = [req EXCEPT ![h] = NoRequest]
    BY <1>5 DEF ValidateExpire, Finish, Goto
  <2>2. TypeOK'
    BY <1>3, <1>5, <2>1 DEF ValidateExpire, IInv, TypeOK, OnKey, worldVars, Request, NoRequest
  <2>3. RowsStay'
    BY <1>3, <2>1 DEF IInv, TypeOK, RowsStay, FoundTheRow, OnKey
  <2>4. QED
    BY <1>3, <2>2, <2>3 DEF IInv
<1>6. QED
  BY <1>4, <1>5

\* A roll writes its two rows together: the old key is revoked before anybody
\* sees the new one.
LEMMA RollIInv ==
    ASSUME IInv, NEW h \in Handlers, RollTransaction(h)
    PROVE  IInv'
<1> DEFINE k == req[h].key
           n == req[h].tenant
           revoked == [rows EXCEPT ![k] = [rows[k] EXCEPT !.status = "REVOKED"]]
<1>1. PICK new \in KeyIds :
        /\ rows[new] = None
        /\ rows' = [rows EXCEPT ![k].status = "REVOKED",
                                ![new] = ActiveRow(n, rows[k].expires, k)]
        /\ req' = [req EXCEPT ![h].new = new]
  BY DEF RollTransaction
<1>2. k \in KeyIds /\ rows[k] # None /\ k # new
  BY <1>1 DEF RollTransaction, IInv, TypeOK, RowsStay, FoundTheRow, OnKey
<1>3. rows[k] \in KeyRow /\ n \in Tenants /\ rows[k].expires \in Dates \cup {None}
  BY <1>2 DEF RollTransaction, IInv, TypeOK, RowsStay, KeyRow
<1> DEFINE row == [rows[k] EXCEPT !.status = "REVOKED"]
<1>4. row \in KeyRow /\ row.status = "REVOKED" /\ row.rolledFrom = rows[k].rolledFrom
  BY <1>3 DEF KeyRow, APIKEYSTATUS
<1>5. row # None
  BY <1>4, ApiKeysAssumption
<1> HIDE DEF row
<1> DEFINE t == [rows EXCEPT ![k] = row]
<1>6. t \in [KeyIds -> KeyRow \cup {None}] /\ t[new] = None /\ t[k] = row
  BY <1>1, <1>2, <1>4 DEF IInv, TypeOK
<1>7. \A j \in KeyIds : rows[j] # None => t[j] # None
  BY <1>5 DEF IInv, TypeOK
<1>8. ASSUME NEW j \in KeyIds, t[j] # None, t[j].rolledFrom # None
      PROVE  t[t[j].rolledFrom] # None /\ t[t[j].rolledFrom].status # "ACTIVE"
  <2> DEFINE from == rows[j].rolledFrom
  <2>1. rows[j] # None /\ t[j].rolledFrom = from
    BY <1>2, <1>4, <1>8 DEF IInv, TypeOK
  <2>2. from \in KeyIds /\ rows[from] # None /\ rows[from].status # "ACTIVE"
    BY <1>8, <2>1 DEF IInv, TypeOK, KeyRow, ReplacedIsRevoked
  <2> HIDE DEF from
  <2>3. t[from] # None /\ t[from].status # "ACTIVE"
    BY <1>4, <1>5, <2>2 DEF IInv, TypeOK
  <2>4. QED
    BY <2>1, <2>3
<1>9. rows' = [t EXCEPT ![new] = ActiveRow(n, rows[k].expires, k)]
  BY <1>1 DEF row
<1>10. /\ rows' \in [KeyIds -> KeyRow \cup {None}]
       /\ \A j \in KeyIds : t[j] # None => rows'[j] # None
       /\ ReplacedIsRevoked'
  <2> HIDE DEF t, k, n
  <2>1. k # None => t[k] # None /\ t[k].status # "ACTIVE"
    BY <1>4, <1>5, <1>6
  <2>2. k \in KeyIds \cup {None} /\ rows[k].expires \in Dates \cup {None}
    BY <1>2, <1>3
  <2>3. QED
    BY <1>3, <1>6, <1>8, <1>9, <2>1, <2>2, RowInsert
<1>11. TypeOK'
  <2>1. [req[h] EXCEPT !.new = new] \in Request /\ [req[h] EXCEPT !.new = new].key = k
    BY DEF IInv, TypeOK, Request
  <2>2. [req[h] EXCEPT !.new = new].new = new
    BY DEF IInv, TypeOK, Request
  <2>3. pc' = [pc EXCEPT ![h] = "rollEvict"]
    BY DEF RollTransaction, Goto
  <2>4. QED
    BY <1>1, <1>2, <1>10, <2>1, <2>2, <2>3 DEF RollTransaction, IInv, TypeOK, OnKey, worldVars
<1>12. RowsStay'
  <2>1. pc' = [pc EXCEPT ![h] = "rollEvict"]
    BY DEF RollTransaction, Goto
  <2>2. \A j \in KeyIds : rows[j] # None => rows'[j] # None
    BY <1>7, <1>10
  <2>3. QED
    BY <1>1, <2>1, <2>2 DEF IInv, TypeOK, RowsStay, FoundTheRow, OnKey
<1>13. QED
  BY <1>10, <1>11, <1>12 DEF IInv

\* The other steps of a request write no row; validateFind reads the one it
\* may expire.
LEMMA ReadingIInv ==
    ASSUME IInv, NEW h \in Handlers,
           \/ IssueCache(h) \/ RevokeEvict(h) \/ RollEvict(h)
           \/ ValidateFind(h) \/ ValidateCache(h)
    PROVE  IInv'
<1>1. CASE IssueCache(h) \/ RevokeEvict(h) \/ ValidateCache(h)
  BY <1>1 DEF IssueCache, RevokeEvict, ValidateCache, Finish, Goto, IInv, TypeOK, RowsStay,
     FoundTheRow, ReplacedIsRevoked, OnKey, worldVars, Request, NoRequest
<1>2. CASE RollEvict(h)
  <2> DEFINE r == [NoRequest EXCEPT !.new = req[h].new]
  <2>1. r \in Request /\ r.new = req[h].new
    BY <1>2 DEF RollEvict, IInv, TypeOK, Request, NoRequest
  <2> HIDE DEF r
  <2>2. req' = [req EXCEPT ![h] = r] /\ pc' = [pc EXCEPT ![h] = "issueCache"]
    BY <1>2 DEF RollEvict, Goto, r
  <2>3. QED
    BY <1>2, <2>1, <2>2 DEF RollEvict, IInv, TypeOK, RowsStay, FoundTheRow, ReplacedIsRevoked,
       OnKey, worldVars
<1>3. CASE ValidateFind(h)
  <2>1. \/ IsActive(req[h].key) /\ pc' = [pc EXCEPT ![h] = "validateExpire"] /\ req' = req
        \/ pc' = [pc EXCEPT ![h] = "validateCache"] /\ req' = req
        \/ pc' = [pc EXCEPT ![h] = "idle"] /\ req' = [req EXCEPT ![h] = NoRequest]
    BY <1>3 DEF ValidateFind, Goto, Finish
  <2>2. NoRequest \in Request /\ pc[h] = "validateFind"
    BY <1>3 DEF ValidateFind, NoRequest, Request
  <2>3. QED
    BY <1>3, <2>1, <2>2 DEF ValidateFind, IsActive, IInv, TypeOK, RowsStay, FoundTheRow,
       ReplacedIsRevoked, OnKey, worldVars
<1>4. QED
  BY <1>1, <1>2, <1>3

\* The world, and failures, touch no row.
LEMMA OtherIInv ==
    ASSUME IInv,
           \/ \E h \in Handlers : Fail(h)
           \/ \E k \in KeyIds : CacheExpires(k)
           \/ \E d \in Dates : DatePasses(d)
           \/ \E n \in Tenants : SetTenantStatus(n)
           \/ Crash
           \/ UNCHANGED vars
    PROVE  IInv'
<1>1. NoRequest \in Request
  BY DEF NoRequest, Request
<1>2. CASE \E h \in Handlers : Fail(h)
  BY <1>1, <1>2, ApiKeysAssumption DEF Fail, Finish, Goto, IInv, TypeOK, RowsStay, FoundTheRow,
     ReplacedIsRevoked, OnKey, worldVars
<1>3. CASE \/ \E k \in KeyIds : CacheExpires(k)
           \/ \E d \in Dates : DatePasses(d)
           \/ \E n \in Tenants : SetTenantStatus(n)
           \/ UNCHANGED vars
  BY <1>3 DEF CacheExpires, DatePasses, SetTenantStatus, vars, IInv, TypeOK, RowsStay,
     ReplacedIsRevoked, handlerVars, worldVars
<1>4. CASE Crash
  BY <1>1, <1>4, ApiKeysAssumption DEF Crash, IInv, TypeOK, RowsStay, FoundTheRow,
     ReplacedIsRevoked, OnKey, worldVars
<1>5. QED
  BY <1>2, <1>3, <1>4

\* Every step keeps the invariant.
LEMMA NextIInv == IInv /\ [Next]_vars => IInv'
<1> SUFFICES ASSUME IInv, [Next]_vars
             PROVE  IInv'
  OBVIOUS
<1>1. ASSUME NEW h \in Handlers, Arrival(h)
      PROVE  IInv'
  BY <1>1, ArrivalIInv
<1>2. ASSUME NEW h \in Handlers, HandlerStep(h)
      PROVE  IInv'
  BY <1>2, UpdateIInv, RollIInv, ReadingIInv DEF HandlerStep
<1>3. QED
  BY <1>1, <1>2, OtherIInv DEF Next

\* The invariant holds in every reachable state.
LEMMA Inductive == Spec => []IInv
<1>1. QED
  BY InitIInv, NextIInv, PTL DEF Spec

\* Every reachable state of the API keys is well typed.
THEOREM TypeCorrect == Spec => []TypeOK
<1>1. IInv => TypeOK
  BY DEF IInv
<1>2. QED
  BY Inductive, <1>1, PTL

\* "Revokes current key and issues a new replacement atomically": wherever a
\* roll is interrupted, and however many rolls, revocations and validations
\* overlap, a key with a replacement is not ACTIVE.
THEOREM RolledKeysAreRevoked == Spec => []ReplacedIsRevoked
<1>1. IInv => ReplacedIsRevoked
  BY DEF IInv
<1>2. QED
  BY Inductive, <1>1, PTL

-----------------------------------------------------------------------------
(* No request gets on its way to cache a key that validation would refuse:  *)
(* a step that puts a handler there found its key and tenant ACTIVE and the *)
(* date not passed, or made the key.  So the entry of such a key comes only *)
(* from the requests already on their way, each of which adds it once.      *)

Sources(k) == {h \in Handlers : AboutToCache(h, k)}

Known(k) == rows[k] # None
Refused(k) == ~IsActive(k) \/ Barred(k)

\* What every step leaves of a key that is refused.
Kept(k) ==
    /\ Known(k)'
    /\ rows'[k].tenant = rows[k].tenant
    /\ rows[k].status # "ACTIVE" => rows'[k].status # "ACTIVE"
    /\ Sources(k)' \subseteq Sources(k)
    /\ k \in cached' \ cached => Sources(k)' # Sources(k)

\* Enough when the row of a key is not written and no entry added.
LEMMA StaysRefused ==
    ASSUME NEW k \in KeyIds, Known(k), rows'[k] = rows[k], cached' \subseteq cached,
           \A h \in Handlers : AboutToCache(h, k)' => AboutToCache(h, k)
    PROVE  Kept(k)
BY DEF Known, Kept, Sources

\* A request that comes in is not about to cache a key that has a row.
LEMMA ArrivalRefused ==
    ASSUME IInv, NEW k \in KeyIds, Known(k), Refused(k), NEW h \in Handlers, Arrival(h)
    PROVE  Kept(k)
<1>1. CASE \E n \in Tenants, d \in Dates \cup {None} : CreateApiKey(h, n, d)
  <2>1. PICK j \in KeyIds, n \in Tenants, d \in Dates \cup {None} :
          /\ rows[j] = None
          /\ rows' = [rows EXCEPT ![j] = ActiveRow(n, d, None)]
          /\ pc' = [pc EXCEPT ![h] = "issueCache"]
          /\ req' = [req EXCEPT ![h] = [NoRequest EXCEPT !.new = j]]
          /\ cached' = cached
    BY <1>1 DEF CreateApiKey, Begin, Goto
  <2> DEFINE r == [NoRequest EXCEPT !.new = j]
  <2>2. r.new = j
    BY DEF NoRequest
  <2> HIDE DEF r
  <2>3. req' = [req EXCEPT ![h] = r]
    BY <2>1 DEF r
  <2>4. j # k
    BY <2>1 DEF Known, Kept, Sources
  <2>5. rows'[k] = rows[k]
    BY <2>1, <2>4 DEF IInv, TypeOK
  <2>6. \A g \in Handlers : AboutToCache(g, k)' => AboutToCache(g, k)
    BY <2>1, <2>2, <2>3, <2>4 DEF AboutToCache, IInv, TypeOK
  <2>7. QED
    BY <2>1, <2>5, <2>6, StaysRefused
<1>2. CASE \/ \E n \in Tenants, j \in KeyIds : RevokeApiKey(h, n, j) \/ RollApiKey(h, n, j)
           \/ \E j \in KeyIds : ValidateApiKey(h, j)
  <2>1. PICK label \in {"revokeUpdate", "rollTransaction", "validateFind"} :
          /\ pc' = [pc EXCEPT ![h] = label]
          /\ \E r : req' = [req EXCEPT ![h] = r]
    BY <1>2 DEF RevokeApiKey, RollApiKey, BeginOnOwn, ValidateApiKey, Begin, Goto
  <2>2. rows' = rows /\ cached' = cached
    BY <1>2 DEF RevokeApiKey, RollApiKey, BeginOnOwn, ValidateApiKey
  <2>3. \A g \in Handlers : AboutToCache(g, k)' => AboutToCache(g, k)
    BY <2>1 DEF AboutToCache, IInv, TypeOK
  <2>4. QED
    BY <2>2, <2>3, StaysRefused
<1>3. QED
  BY <1>1, <1>2 DEF Arrival

\* The writes of a status never write ACTIVE to a row there is, nor a tenant.
LEMMA WriterRefused ==
    ASSUME IInv, NEW k \in KeyIds, Known(k), Refused(k), NEW h \in Handlers,
           RevokeUpdate(h) \/ ValidateExpire(h) \/ RollTransaction(h)
    PROVE  Kept(k)
<1> DEFINE j == req[h].key
<1>1. j \in KeyIds /\ rows[j] # None /\ rows[j] \in KeyRow
  BY DEF RevokeUpdate, ValidateExpire, RollTransaction, IInv, TypeOK, RowsStay, FoundTheRow,
     OnKey
<1>2. CASE RevokeUpdate(h) \/ ValidateExpire(h)
  <2>1. PICK s \in {"REVOKED", "EXPIRED"} : rows' = [rows EXCEPT ![j].status = s]
    BY <1>2 DEF RevokeUpdate, ValidateExpire
  <2> DEFINE row == [rows[j] EXCEPT !.status = s]
  <2>2. row \in KeyRow /\ row.status = s /\ row.tenant = rows[j].tenant
    BY <1>1 DEF KeyRow, APIKEYSTATUS
  <2>3. rows' = [rows EXCEPT ![j] = row]
    BY <2>1
  <2> HIDE DEF row
  <2>4. /\ rows'[k] # None /\ rows'[k].tenant = rows[k].tenant
        /\ rows[k].status # "ACTIVE" => rows'[k].status # "ACTIVE"
    BY <2>2, <2>3, ApiKeysAssumption DEF Known, IInv, TypeOK
  <2>5. cached' = cached
    BY <1>2 DEF RevokeUpdate, ValidateExpire
  <2>6. pc' = [pc EXCEPT ![h] = "revokeEvict"] \/ pc' = [pc EXCEPT ![h] = "idle"]
    BY <1>2 DEF RevokeUpdate, ValidateExpire, Finish, Goto
  <2>7. \A g \in Handlers : g # h => req'[g] = req[g]
    BY <1>2 DEF RevokeUpdate, ValidateExpire, Finish, IInv, TypeOK
  <2>8. \A g \in Handlers : AboutToCache(g, k)' => AboutToCache(g, k)
    BY <2>6, <2>7 DEF AboutToCache, IInv, TypeOK
  <2>9. QED
    BY <2>4, <2>5, <2>8 DEF Known, Kept, Sources
<1>3. CASE RollTransaction(h)
  <2>1. PICK new \in KeyIds :
          /\ rows[new] = None
          /\ rows' = [rows EXCEPT ![j].status = "REVOKED",
                                  ![new] = ActiveRow(req[h].tenant, rows[j].expires, j)]
          /\ req' = [req EXCEPT ![h].new = new]
    BY <1>3 DEF RollTransaction
  <2> DEFINE row == [rows[j] EXCEPT !.status = "REVOKED"]
             made == ActiveRow(req[h].tenant, rows[j].expires, j)
  <2>2. row \in KeyRow /\ row.status = "REVOKED" /\ row.tenant = rows[j].tenant
    BY <1>1 DEF KeyRow, APIKEYSTATUS
  <2>3. rows' = [[rows EXCEPT ![j] = row] EXCEPT ![new] = made]
    BY <2>1
  <2> HIDE DEF row, made
  <2>4. new # k
    BY <2>1 DEF Known, Kept, Sources
  <2>5. /\ rows'[k] # None /\ rows'[k].tenant = rows[k].tenant
        /\ rows[k].status # "ACTIVE" => rows'[k].status # "ACTIVE"
    BY <2>2, <2>3, <2>4, ApiKeysAssumption DEF Known, IInv, TypeOK
  <2>6. [req[h] EXCEPT !.new = new].new = new
    BY DEF IInv, TypeOK, Request
  <2>7. pc' = [pc EXCEPT ![h] = "rollEvict"] /\ cached' = cached
    BY <1>3 DEF RollTransaction, Goto
  <2>8. \A g \in Handlers : AboutToCache(g, k)' => AboutToCache(g, k)
    BY <2>1, <2>4, <2>6, <2>7 DEF AboutToCache, IInv, TypeOK
  <2>9. QED
    BY <2>5, <2>7, <2>8 DEF Known, Kept, Sources
<1>4. QED
  BY <1>2, <1>3

\* The entry a request adds is not a refused key's, and the row a validation goes
\* on with is ACTIVE, and so is its tenant.
LEMMA CacheRefused ==
    ASSUME IInv, NEW k \in KeyIds, Known(k), Refused(k), NEW h \in Handlers,
           \/ IssueCache(h) \/ RevokeEvict(h) \/ RollEvict(h)
           \/ ValidateFind(h) \/ ValidateCache(h)
    PROVE  Kept(k)
<1>1. CASE IssueCache(h) \/ RevokeEvict(h) \/ ValidateCache(h)
  <2>1. pc' = [pc EXCEPT ![h] = "idle"] /\ \A g \in Handlers : g # h => req'[g] = req[g]
    BY <1>1 DEF IssueCache, RevokeEvict, ValidateCache, Finish, Goto, IInv, TypeOK
  <2>2. \A g \in Handlers : AboutToCache(g, k)' => AboutToCache(g, k)
    BY <2>1 DEF AboutToCache, IInv, TypeOK
  <2>3. rows' = rows /\ (k \in cached' \ cached => AboutToCache(h, k))
    BY <1>1 DEF IssueCache, RevokeEvict, ValidateCache, AboutToCache
  <2>4. ~AboutToCache(h, k)'
    BY <2>1 DEF AboutToCache, IInv, TypeOK
  <2>5. QED
    BY <2>2, <2>3, <2>4 DEF Known, Kept, Sources
<1>2. CASE RollEvict(h)
  <2> DEFINE r == [NoRequest EXCEPT !.new = req[h].new]
  <2>1. r.new = req[h].new
    BY DEF NoRequest
  <2> HIDE DEF r
  <2>2. /\ req' = [req EXCEPT ![h] = r]
        /\ pc' = [pc EXCEPT ![h] = "issueCache"]
        /\ pc[h] = "rollEvict" /\ rows' = rows /\ cached' \subseteq cached
    BY <1>2 DEF RollEvict, Goto, r
  <2>3. \A g \in Handlers : AboutToCache(g, k)' => AboutToCache(g, k)
    BY <2>1, <2>2 DEF AboutToCache, IInv, TypeOK
  <2>4. QED
    BY <2>2, <2>3, StaysRefused
<1>3. CASE ValidateFind(h)
  <2>1. rows' = rows /\ cached' = cached
    BY <1>3 DEF ValidateFind
  <2>2. \/ pc' = [pc EXCEPT ![h] = "validateExpire"] /\ req' = req
        \/ /\ pc' = [pc EXCEPT ![h] = "validateCache"] /\ req' = req
           /\ IsActive(req[h].key) /\ ~Barred(req[h].key)
        \/ pc' = [pc EXCEPT ![h] = "idle"] /\ req' = [req EXCEPT ![h] = NoRequest]
    BY <1>3 DEF ValidateFind, Goto, Finish, Barred, HasExpired, TenantIsActive
  <2>3. \A g \in Handlers : AboutToCache(g, k)' => AboutToCache(g, k)
    BY <2>2 DEF AboutToCache, IsActive, Refused, IInv, TypeOK
  <2>4. QED
    BY <2>1, <2>3, StaysRefused
<1>4. QED
  BY <1>1, <1>2, <1>3

\* The world, and failures, bring no key back.
LEMMA OtherRefused ==
    ASSUME IInv, NEW k \in KeyIds, Known(k), Refused(k),
           \/ \E h \in Handlers : Fail(h)
           \/ \E j \in KeyIds : CacheExpires(j)
           \/ \E d \in Dates : DatePasses(d)
           \/ \E n \in Tenants : SetTenantStatus(n)
           \/ Crash
           \/ UNCHANGED vars
    PROVE  Kept(k)
<1>1. rows' = rows /\ cached' \subseteq cached
  BY DEF Fail, CacheExpires, DatePasses, SetTenantStatus, Crash, vars
<1>2. CASE \E h \in Handlers : Fail(h)
  <2>1. \A g \in Handlers : AboutToCache(g, k)' => AboutToCache(g, k)
    BY <1>2 DEF Fail, Finish, Goto, AboutToCache, IInv, TypeOK
  <2>2. QED
    BY <1>1, <2>1, StaysRefused
<1>3. CASE Crash
  BY <1>1, <1>3, StaysRefused DEF Crash, AboutToCache
<1>4. CASE pc' = pc /\ req' = req
  BY <1>1, <1>4, StaysRefused DEF AboutToCache
<1>5. QED
  BY <1>2, <1>3, <1>4 DEF CacheExpires, DatePasses, SetTenantStatus, vars, handlerVars

\* No step puts a request on the way to cache a key that is refused.
LEMMA NextKeeps ==
    ASSUME IInv, [Next]_vars, NEW k \in KeyIds, Known(k), Refused(k)
    PROVE  Kept(k)
<1>1. ASSUME NEW h \in Handlers, Arrival(h)
      PROVE  Kept(k)
  BY <1>1, ArrivalRefused
<1>2. ASSUME NEW h \in Handlers, HandlerStep(h)
      PROVE  Kept(k)
  BY <1>2, WriterRefused, CacheRefused DEF HandlerStep
<1>3. QED
  BY <1>1, <1>2, OtherRefused DEF Next

\* "Permanently revokes the API key": once a key has no entry and no request
\* under way that found it ACTIVE, nothing revives it, whatever overlaps,
\* fails or restarts.
THEOREM RevocationIsPermanent == Spec => DeadStaysDead
<1>1. IInv /\ [Next]_vars => \A k \in KeyIds : Dead(k) => Dead(k)'
  <2> SUFFICES ASSUME IInv, [Next]_vars, NEW k \in KeyIds, Dead(k)
               PROVE  Dead(k)'
    OBVIOUS
  <2>1. Known(k) /\ Refused(k) /\ rows[k].status # "ACTIVE"
    BY DEF Dead, Known, Refused, IsActive
  <2>2. Kept(k)
    BY <2>1, NextKeeps
  <2>3. QED
    BY <2>1, <2>2 DEF Kept, Known, Sources, Dead
<1>2. QED
  BY Inductive, <1>1, PTL DEF Spec, DeadStaysDead

\* A key whose date passes or whose tenant is deactivated is believed while its
\* entry lasts; once shut out, it stays out for as long as the one or the other
\* bars it, whatever requests about it overlap, fail or restart.
THEOREM InactiveAreRefused == Spec => InactiveStaysOut
<1>1. IInv /\ [Next]_vars =>
        \A k \in KeyIds : ShutOut(k) /\ Barred(k)' => ShutOut(k)'
  <2> SUFFICES ASSUME IInv, [Next]_vars, NEW k \in KeyIds, ShutOut(k), Barred(k)'
               PROVE  ShutOut(k)'
    OBVIOUS
  <2>1. Known(k) /\ Refused(k)
    BY DEF ShutOut, Known, Refused
  <2>2. Kept(k)
    BY <2>1, NextKeeps
  <2>3. QED
    BY <2>2 DEF Kept, Known, Sources, ShutOut
<1>2. QED
  BY Inductive, <1>1, PTL DEF Spec, InactiveStaysOut

-----------------------------------------------------------------------------
(* The safety half of RevocationTakesHold: what fairness has to wait for    *)
(* before a revoked key is dead only ever gets less.                        *)

OnlyOldSources(k) ==
    /\ rows'[k] # None /\ rows'[k].status # "ACTIVE"
    /\ Sources(k)' \subseteq Sources(k)
    /\ k \in cached' \ cached => Sources(k)' # Sources(k)

\* No step adds a request that may bring a revoked key's entry back.
EntriesRunOut ==
    [][\A k \in KeyIds : rows[k] # None /\ rows[k].status # "ACTIVE" => OnlyOldSources(k)]_vars

\* From the moment its row is no longer ACTIVE, a key gets its entry back only
\* from requests that had found or made it ACTIVE before, from each of them at most
\* once, and no request joins them.
THEOREM RevokedEntriesRunOut == Spec => EntriesRunOut
<1>1. IInv /\ [Next]_vars =>
        \A k \in KeyIds : rows[k] # None /\ rows[k].status # "ACTIVE" => OnlyOldSources(k)
  <2> SUFFICES ASSUME IInv, [Next]_vars, NEW k \in KeyIds, Known(k), rows[k].status # "ACTIVE"
               PROVE  OnlyOldSources(k)
    BY DEF Known
  <2>1. Kept(k)
    BY NextKeeps DEF Refused, IsActive
  <2>2. QED
    BY <2>1 DEF Kept, Known, OnlyOldSources
<1>2. QED
  BY Inductive, <1>1, PTL DEF Spec, EntriesRunOut
=============================================================================
