------------------------ MODULE InvoiceLists_proofs ------------------------
(***************************************************************************)
(* Theorems about InvoiceLists, for every number of creations, changes,    *)
(* concurrent requests, failures and lapsed entries.                       *)
(***************************************************************************)
EXTENDS InvoiceLists, FiniteSetTheorems, TLAPS

-----------------------------------------------------------------------------
(* Types.  That versions stay within Versions takes counting: every bump    *)
(* adds one for a creation of its own, and a creator that has yet to bump    *)
(* has one to add.                                                          *)

\* The version a request that reads now goes on with.
Current == IF version = 0 THEN 1 ELSE version

Bumping == {h \in Creators : pc[h] \in {"getVersion", "initVersion", "setVersion"}}

HasRead(h) == pc[h] \in {"initVersion", "setVersion"}

Reading(h) == pc[h] \in {"initVersion", "getPage", "readTable", "setPage"}

Bounded(v) == v + Cardinality(Bumping) <= 1 + table.creations

TypeInv ==
    /\ TypeOK
    /\ Bounded(Current)
    /\ \A h \in Creators : HasRead(h) => req[h].version \in Versions /\ Bounded(req[h].version)
    /\ \A h \in Readers : Reading(h) => req[h].version \in Versions

\* The creators about to bump can be counted.
LEMMA BumpingFinite ==
    /\ IsFiniteSet(Bumping) /\ Cardinality(Bumping) \in Nat
    /\ \A h \in Bumping : Cardinality(Bumping) >= 1
<1>1. IsFiniteSet(Bumping)
  BY FS_Subset, InvoiceListsAssumption DEF Bumping
<1>2. Cardinality(Bumping) \in Nat
  BY <1>1, FS_CardinalityType
<1>3. \A h \in Bumping : Cardinality(Bumping) # 0
  BY <1>1, FS_EmptySet
<1>4. QED
  BY <1>1, <1>2, <1>3

\* Nothing has happened at first.
LEMMA InitTypeInv == Init => TypeInv
<1> SUFFICES ASSUME Init
             PROVE  TypeInv
  OBVIOUS
<1>1. Nothing \in Page /\ NoRequest \in Request
  BY InvoiceListsAssumption DEF Nothing, NoRequest, Page, Request
<1>2. Bumping = {}
  BY DEF Init, Bumping, Handlers
<1>3. Bounded(Current)
  BY <1>2, FS_EmptySet, InvoiceListsAssumption DEF Bounded, Current, Init, Nothing
<1>4. QED
  BY <1>1, <1>3 DEF Init, TypeInv, TypeOK, Handlers, Labels, HasRead, Reading

\* While nobody joins the creators about to bump, a bounded version stays so.
LEMMA BoundedKept ==
    ASSUME TypeInv, table'.creations \in Nat, table.creations <= table'.creations,
           Bumping' \subseteq Bumping, NEW v \in Nat, Bounded(v)
    PROVE  Bounded(v)'
<1>1. IsFiniteSet(Bumping) /\ Cardinality(Bumping) \in Nat
  BY BumpingFinite
<1>2. Cardinality(Bumping') <= Cardinality(Bumping) /\ Cardinality(Bumping') \in Nat
  BY <1>1, FS_Subset, FS_CardinalityType
<1>3. table.creations \in Nat
  BY DEF TypeInv, TypeOK, Page
<1>4. QED
  BY <1>1, <1>2, <1>3 DEF Bounded

\* Steps in which no creator moves on, and no version moves: what is left to
\* show is the type of what changed.
LEMMA QuietTypeInv ==
    ASSUME TypeInv, TypeOK', Current' = Current,
           table.creations <= table'.creations,
           \A h \in Creators : \/ pc'[h] = pc[h] /\ req'[h].version = req[h].version
                               \/ ~HasRead(h)' /\ h \notin Bumping',
           \A h \in Readers : Reading(h)' => req'[h].version \in Versions
    PROVE  TypeInv'
<1>1. Bumping' \subseteq Bumping
  BY DEF Bumping
<1>2. table'.creations \in Nat
  BY DEF TypeOK, Page
<1>3. Current \in Nat
  BY DEF Current, TypeInv, TypeOK, Versions
<1>4. Bounded(Current)'
  BY <1>1, <1>2, <1>3, BoundedKept DEF TypeInv, Bounded
<1>5. ASSUME NEW h \in Creators, HasRead(h)'
      PROVE  (req[h].version \in Versions /\ Bounded(req[h].version))'
  <2>1. HasRead(h) /\ req'[h].version = req[h].version
    BY <1>5 DEF HasRead
  <2>2. req[h].version \in Versions /\ req[h].version \in Nat /\ Bounded(req[h].version)
    BY <2>1 DEF TypeInv, Versions
  <2>3. QED
    BY <1>1, <1>2, <2>1, <2>2, BoundedKept DEF Bounded
<1>6. QED
  BY <1>4, <1>5 DEF TypeInv

\* A creation, and its creator about to bump.
LEMMA CreateTypeInv ==
    ASSUME TypeInv, NEW h \in Creators, Create(h)
    PROVE  TypeInv'
<1>1. /\ h \in Handlers /\ table \in Page /\ req[h] \in Request
      /\ table' = [table EXCEPT !.creations = @ + 1]
      /\ table.creations < MaxCreations
      /\ pc' = [pc EXCEPT ![h] = "getVersion"] /\ pc[h] = "idle"
  BY DEF Create, Goto, TypeInv, TypeOK, Handlers
<1>2. table' \in Page /\ table'.creations = table.creations + 1 /\ table.creations \in Nat
  BY <1>1, InvoiceListsAssumption DEF Page
<1> DEFINE r == [req[h] EXCEPT !.page.creations = table.creations + 1]
<1>3. r \in Request
  BY <1>1, <1>2, InvoiceListsAssumption DEF Request, Page
<1>4. req' = [req EXCEPT ![h] = r]
  BY DEF Create
<1> HIDE DEF r
<1>5. TypeOK'
  BY <1>1, <1>2, <1>3, <1>4 DEF Create, TypeInv, TypeOK, Labels
<1>6. Bumping' = Bumping \cup {h} /\ h \notin Bumping
  BY <1>1 DEF Bumping, TypeInv, TypeOK
<1>7. Cardinality(Bumping') = Cardinality(Bumping) + 1 /\ Cardinality(Bumping) \in Nat
  BY <1>6, BumpingFinite, FS_AddElement
<1>8. Current' = Current /\ Current \in Nat
  BY DEF Create, Current, TypeInv, TypeOK, Versions
<1>9. Bounded(Current)'
  BY <1>2, <1>7, <1>8 DEF TypeInv, Bounded
<1>10. ASSUME NEW g \in Creators, HasRead(g)'
       PROVE  (req[g].version \in Versions /\ Bounded(req[g].version))'
  <2>1. g # h /\ HasRead(g) /\ req'[g] = req[g]
    BY <1>1, <1>4, <1>10 DEF HasRead, TypeInv, TypeOK, Handlers
  <2>2. req[g].version \in Nat
    BY <2>1 DEF TypeInv, Versions
  <2>3. QED
    BY <1>2, <1>7, <2>1, <2>2 DEF TypeInv, Bounded
<1>11. ASSUME NEW g \in Readers, Reading(g)'
       PROVE  req'[g].version \in Versions
  <2>1. g # h /\ Reading(g) /\ req'[g] = req[g]
    BY <1>1, <1>4, <1>11, InvoiceListsAssumption DEF Reading, TypeInv, TypeOK, Handlers
  <2>2. QED
    BY <2>1 DEF TypeInv
<1>12. QED
  BY <1>5, <1>9, <1>10, <1>11 DEF TypeInv

\* A bump takes its creator off the list, and the version one up at most.
LEMMA BumpSetTypeInv ==
    ASSUME TypeInv, NEW h \in Creators, BumpSet(h)
    PROVE  TypeInv'
<1> DEFINE w == req[h].version
<1>1. /\ h \in Handlers /\ HasRead(h) /\ h \in Bumping
      /\ version' = w + 1 /\ table' = table
      /\ pc' = [pc EXCEPT ![h] = "idle"] /\ req' = [req EXCEPT ![h] = NoRequest]
  BY DEF BumpSet, MoveVersion, Finish, Goto, HasRead, Bumping, Handlers
<1>2. w \in Versions /\ Bounded(w)
  BY <1>1 DEF TypeInv
<1>3. Bumping' = Bumping \ {h}
  BY <1>1 DEF Bumping, TypeInv, TypeOK
<1>4. Cardinality(Bumping') = Cardinality(Bumping) - 1 /\ Cardinality(Bumping) \in Nat
      /\ Cardinality(Bumping) >= 1
  BY <1>1, <1>3, BumpingFinite, FS_RemoveElement
<1>5. table.creations \in 0..MaxCreations
  BY DEF TypeInv, TypeOK, Page
<1>6. w \in Nat /\ w <= table.creations /\ w + 1 \in Versions /\ w + 1 # 0
  BY <1>2, <1>4, <1>5, InvoiceListsAssumption DEF Bounded, Versions
<1>7. NoRequest \in Request
  BY InvoiceListsAssumption DEF NoRequest, Nothing, Request, Page
<1>8. settled' \in Page
  BY <1>1, InvoiceListsAssumption
     DEF BumpSet, Settle, Larger, TypeInv, TypeOK, Request, Page
<1>9. TypeOK'
  BY <1>1, <1>6, <1>7, <1>8 DEF BumpSet, MoveVersion, TypeInv, TypeOK, Labels
<1>10. Bounded(Current)'
  BY <1>1, <1>2, <1>4, <1>5, <1>6 DEF Bounded, Current
<1>11. ASSUME NEW g \in Creators, HasRead(g)'
       PROVE  (req[g].version \in Versions /\ Bounded(req[g].version))'
  <2>1. g # h /\ HasRead(g) /\ req'[g] = req[g]
    BY <1>1, <1>11 DEF HasRead, TypeInv, TypeOK, Handlers
  <2>2. req[g].version \in Nat
    BY <2>1 DEF TypeInv, Versions
  <2>3. QED
    BY <1>1, <1>4, <1>5, <2>1, <2>2 DEF TypeInv, Bounded
<1>12. ASSUME NEW g \in Readers, Reading(g)'
       PROVE  req'[g].version \in Versions
  <2>1. g # h /\ Reading(g) /\ req'[g] = req[g]
    BY <1>1, <1>12, InvoiceListsAssumption DEF Reading, TypeInv, TypeOK, Handlers
  <2>2. QED
    BY <2>1 DEF TypeInv
<1>13. QED
  BY <1>9, <1>10, <1>11, <1>12 DEF TypeInv

\* The current version is one a request may go on with.
LEMMA CurrentType ==
    ASSUME TypeInv
    PROVE  Current \in Versions
BY InvoiceListsAssumption DEF Current, TypeInv, TypeOK, Versions

\* A creator or a reader reads the version.
LEMMA ReadTypeInv ==
    ASSUME TypeInv, NEW h \in Creators \cup Readers, NEW r \in Request,
           h \in Readers \/ pc[h] = "getVersion",
           ReadVersion(h, r), UNCHANGED <<table, settled, version, payVersion, pages, regressed>>
    PROVE  TypeInv'
<1> DEFINE q == [r EXCEPT !.version = Current]
<1>1. Current \in Versions /\ Current' = Current
  BY CurrentType DEF Current
<1>2. q \in Request /\ q.version = Current
  BY <1>1 DEF Request, Versions
<1>3. req' = [req EXCEPT ![h] = q]
  BY DEF ReadVersion, Current
<1>4. PICK l \in {"initVersion", "setVersion", "getPage"} : pc' = [pc EXCEPT ![h] = l]
  BY DEF ReadVersion, Goto, Continues
<1> HIDE DEF q
<1>5. TypeOK'
  BY <1>2, <1>3, <1>4 DEF TypeInv, TypeOK, Labels, Handlers
<1>6. Bumping' \subseteq Bumping
  BY <1>4, InvoiceListsAssumption DEF Bumping, TypeInv, TypeOK, Handlers
<1>7. table'.creations \in Nat /\ table' = table
  BY DEF TypeInv, TypeOK, Page
<1>8. Current \in Nat
  BY <1>1 DEF Versions
<1>9. Bounded(Current)'
  BY <1>1, <1>6, <1>7, <1>8, BoundedKept DEF TypeInv, Bounded
<1>10. ASSUME NEW g \in Creators, HasRead(g)'
       PROVE  (req[g].version \in Versions /\ Bounded(req[g].version))'
  <2>1. CASE g = h
    BY <1>1, <1>2, <1>3, <1>9, <2>1 DEF TypeInv, TypeOK, Bounded, Handlers
  <2>2. CASE g # h
    <3>1. HasRead(g) /\ req'[g] = req[g]
      BY <1>3, <1>4, <1>10, <2>2 DEF HasRead, TypeInv, TypeOK, Handlers
    <3>2. req[g].version \in Versions /\ req[g].version \in Nat /\ Bounded(req[g].version)
      BY <3>1 DEF TypeInv, Versions
    <3>3. QED
      BY <1>6, <1>7, <3>1, <3>2, BoundedKept DEF Bounded
  <2>3. QED
    BY <2>1, <2>2
<1>11. ASSUME NEW g \in Readers, Reading(g)'
       PROVE  req'[g].version \in Versions
  BY <1>1, <1>2, <1>3, <1>4, <1>11 DEF Reading, TypeInv, TypeOK, Handlers
<1>12. QED
  BY <1>5, <1>9, <1>10, <1>11 DEF TypeInv

\* A late initialisation brings the version back to where it is for one who
\* finds none.
LEMMA InitVersionTypeInv ==
    ASSUME TypeInv, NEW h \in Creators \cup Readers, InitVersion(h)
    PROVE  TypeInv'
<1>1. /\ version' = 1 /\ Current' = 1 /\ table' = table /\ req' = req
      /\ pc[h] = "initVersion"
  BY DEF InitVersion, MoveVersion, Current
<1>2. PICK l \in {"setVersion", "getPage"} :
        pc' = [pc EXCEPT ![h] = l] /\ (h \in Readers => l = "getPage")
  BY InvoiceListsAssumption DEF InitVersion, Goto, Continues
<1>3. 1 \in Versions /\ 1 <= Current
  BY InvoiceListsAssumption DEF Versions, Current, TypeInv, TypeOK
<1>4. TypeOK'
  BY <1>1, <1>2, <1>3 DEF InitVersion, MoveVersion, TypeInv, TypeOK, Labels, Handlers
<1>5. Bumping' = Bumping
  BY <1>1, <1>2, InvoiceListsAssumption DEF InitVersion, Goto, Continues, Bumping, TypeInv,
     TypeOK, Handlers
<1>6. Cardinality(Bumping) \in Nat /\ table.creations \in Nat /\ Current \in Nat
  BY BumpingFinite DEF TypeInv, TypeOK, Page, Current, Versions
<1>7. Bounded(Current)'
  BY <1>1, <1>3, <1>5, <1>6 DEF TypeInv, Bounded
<1>8. \A g \in Creators : HasRead(g)' => HasRead(g)
  BY <1>1, <1>2 DEF HasRead, TypeInv, TypeOK, Handlers
<1>9. \A g \in Readers : Reading(g)' => Reading(g)
  BY <1>1, <1>2 DEF Reading, TypeInv, TypeOK, Handlers
<1>10. QED
  BY <1>1, <1>4, <1>5, <1>7, <1>8, <1>9 DEF TypeInv, Bounded

\* A change of status, and what its writer stores.
LEMMA PayTypeInv ==
    ASSUME TypeInv, NEW h \in Payers, Pay(h) \/ PayBumpGet(h) \/ PayBumpSet(h)
    PROVE  TypeInv'
<1>1. h \in Handlers /\ req[h] \in Request /\ table \in Page /\ settled \in Page
  BY DEF TypeInv, TypeOK, Handlers
<1>2. NoRequest \in Request
  BY InvoiceListsAssumption DEF NoRequest, Nothing, Request, Page
<1>3. PICK r \in Request, l \in {"getPayVersion", "setPayVersion", "idle"} :
        req' = [req EXCEPT ![h] = r] /\ pc' = [pc EXCEPT ![h] = l]
  <2>1. CASE Pay(h)
    <3> DEFINE r == [req[h] EXCEPT !.page.changes = table.changes + 1]
    <3>1. r \in Request
      BY <1>1, <2>1, InvoiceListsAssumption DEF Pay, Request, Page
    <3>2. req' = [req EXCEPT ![h] = r]
      BY <2>1 DEF Pay
    <3>3. pc' = [pc EXCEPT ![h] = "getPayVersion"]
      BY <2>1 DEF Pay, Goto
    <3>4. QED
      BY <3>1, <3>2, <3>3
  <2>2. CASE PayBumpGet(h)
    <3> DEFINE r == [req[h] EXCEPT !.version = payVersion]
    <3>1. r \in Request
      BY <1>1 DEF Request, TypeInv, TypeOK
    <3>2. req' = [req EXCEPT ![h] = r]
      BY <2>2 DEF PayBumpGet
    <3>3. pc' = [pc EXCEPT ![h] = "setPayVersion"]
      BY <2>2 DEF PayBumpGet, Goto
    <3>4. QED
      BY <3>1, <3>2, <3>3
  <2>3. CASE PayBumpSet(h)
    BY <1>2, <2>3 DEF PayBumpSet, Finish, Goto
  <2>4. QED
    BY <2>1, <2>2, <2>3
<1>4. table' \in Page /\ table.creations <= table'.creations
  BY <1>1, InvoiceListsAssumption DEF Pay, PayBumpGet, PayBumpSet, Page
<1>5. settled' \in Page
  BY <1>1, InvoiceListsAssumption DEF Pay, PayBumpGet, PayBumpSet, Settle, Larger, Request, Page
<1>6. payVersion' \in Nat
  BY <1>1 DEF Pay, PayBumpGet, PayBumpSet, Request, TypeInv, TypeOK
<1>7. UNCHANGED <<version, pages, regressed>>
  BY DEF Pay, PayBumpGet, PayBumpSet
<1>8. TypeOK'
  BY <1>3, <1>4, <1>5, <1>6, <1>7 DEF TypeInv, TypeOK, Labels
<1>9. Current' = Current
  BY <1>7 DEF Current
<1>10. \A g \in Creators : \/ pc'[g] = pc[g] /\ req'[g].version = req[g].version
                           \/ ~HasRead(g)' /\ g \notin Bumping'
  BY <1>1, <1>3 DEF HasRead, Bumping, TypeInv, TypeOK
<1>11. \A g \in Readers : Reading(g)' => req'[g].version \in Versions
  BY <1>1, <1>3 DEF Reading, TypeInv, TypeOK, Handlers
<1>12. QED
  BY <1>4, <1>8, <1>9, <1>10, <1>11, QuietTypeInv

\* The sweep, and what it stores.
LEMMA SweepTypeInv ==
    ASSUME TypeInv, SweepFind \/ SweepUpdate \/ SweepEvict
    PROVE  TypeInv'
<1>1. Cron \in Handlers /\ req[Cron] \in Request /\ table \in Page /\ settled \in Page
  BY DEF TypeInv, TypeOK, Handlers
<1>2. NoRequest \in Request
  BY InvoiceListsAssumption DEF NoRequest, Nothing, Request, Page
<1>3. PICK r \in Request, l \in {"sweepUpdate", "sweepOthers", "sweepEvict", "idle"} :
        req' = [req EXCEPT ![Cron] = r] /\ pc' = [pc EXCEPT ![Cron] = l]
  <2>1. CASE SweepFind
    BY <1>1, <2>1 DEF SweepFind, Goto, TypeInv, TypeOK
  <2>2. CASE SweepUpdate /\ pc' = [pc EXCEPT ![Cron] = "sweepEvict"] /\ table.changes < MaxChanges
             /\ req' = [req EXCEPT ![Cron].page.changes = table.changes + 1]
    <3> DEFINE r == [req[Cron] EXCEPT !.page.changes = table.changes + 1]
    <3>1. r \in Request
      BY <1>1, <2>2, InvoiceListsAssumption DEF Request, Page
    <3>2. req' = [req EXCEPT ![Cron] = r]
      BY <2>2
    <3>3. QED
      BY <2>2, <3>1, <3>2
  <2>3. CASE (SweepUpdate \/ SweepEvict) /\ Finish(Cron)
    BY <1>2, <2>3 DEF Finish, Goto
  <2>4. QED
    BY <2>1, <2>2, <2>3 DEF SweepUpdate, SweepEvict, Goto
<1>4. table' \in Page /\ table.creations <= table'.creations
  BY <1>1, InvoiceListsAssumption DEF SweepFind, SweepUpdate, SweepEvict, Page
<1>5. settled' \in Page
  <2>1. CASE SweepUpdate
    <3> DEFINE page == [Nothing EXCEPT !.changes = table.changes + 1]
    <3>1. table.changes < MaxChanges => page \in Page
      BY <1>1, InvoiceListsAssumption DEF Nothing, Page
    <3>2. settled' = settled \/ (table.changes < MaxChanges /\ Settle(page))
      BY <2>1 DEF SweepUpdate
    <3> HIDE DEF page
    <3>3. QED
      BY <1>1, <3>1, <3>2, InvoiceListsAssumption DEF Settle, Larger, Page
  <2>2. QED
    BY <1>1, <2>1, InvoiceListsAssumption DEF SweepFind, SweepEvict, Settle, Larger, Request, Page
<1>6. payVersion' \in Nat
  BY DEF SweepFind, SweepUpdate, SweepEvict, TypeInv, TypeOK
<1>7. UNCHANGED <<version, pages, regressed>>
  BY DEF SweepFind, SweepUpdate, SweepEvict
<1>8. TypeOK'
  BY <1>3, <1>4, <1>5, <1>6, <1>7 DEF TypeInv, TypeOK, Labels
<1>9. Current' = Current
  BY <1>7 DEF Current
<1>10. \A g \in Creators : \/ pc'[g] = pc[g] /\ req'[g].version = req[g].version
                           \/ ~HasRead(g)' /\ g \notin Bumping'
  BY <1>1, <1>3 DEF HasRead, Bumping, TypeInv, TypeOK
<1>11. \A g \in Readers : Reading(g)' => req'[g].version \in Versions
  BY <1>1, <1>3 DEF Reading, TypeInv, TypeOK, Handlers
<1>12. QED
  BY <1>4, <1>8, <1>9, <1>10, <1>11, QuietTypeInv
\* The requests for a list, past the version.
LEMMA ListTypeInv ==
    ASSUME TypeInv, NEW h \in Readers, GetPage(h) \/ ReadTable(h) \/ SetPage(h)
    PROVE  TypeInv'
<1>1. h \in Handlers /\ req[h] \in Request /\ table \in Page
  BY DEF TypeInv, TypeOK, Handlers
<1>2. Reading(h) /\ req[h].version \in Versions
  BY DEF GetPage, ReadTable, SetPage, Reading, TypeInv
<1>3. NoRequest \in Request
  BY InvoiceListsAssumption DEF NoRequest, Nothing, Request, Page
<1>4. PICK r \in Request, l \in {"readTable", "setPage", "idle"} :
        /\ req' = [req EXCEPT ![h] = r] /\ pc' = [pc EXCEPT ![h] = l]
        /\ l = "idle" \/ r.version = req[h].version
  <2>1. CASE GetPage(h) /\ req' = req /\ pc' = [pc EXCEPT ![h] = "readTable"]
    BY <1>1, <2>1 DEF TypeInv, TypeOK
  <2>2. CASE ReadTable(h)
    <3> DEFINE r == [req[h] EXCEPT !.page = table]
    <3>1. r \in Request /\ r.version = req[h].version
      BY <1>1 DEF Request
    <3>2. req' = [req EXCEPT ![h] = r] /\ pc' = [pc EXCEPT ![h] = "setPage"]
      BY <2>2 DEF ReadTable, Goto
    <3>3. QED
      BY <3>1, <3>2
  <2>3. CASE (GetPage(h) \/ SetPage(h)) /\ Finish(h)
    BY <1>3, <2>3 DEF Finish, Goto
  <2>4. QED
    BY <2>1, <2>2, <2>3 DEF GetPage, SetPage, Goto
<1>5. pages' \in [Versions -> Page \cup {None}]
  BY <1>1 DEF GetPage, ReadTable, SetPage, Request, TypeInv, TypeOK
<1>6. UNCHANGED <<table, settled, version, payVersion, regressed>>
  BY DEF GetPage, ReadTable, SetPage
<1>7. TypeOK'
  BY <1>1, <1>4, <1>5, <1>6 DEF TypeInv, TypeOK, Labels
<1>8. Current' = Current /\ table'.creations = table.creations /\ table.creations \in Nat
  BY <1>1, <1>6 DEF Current, Page
<1>9. \A g \in Creators : \/ pc'[g] = pc[g] /\ req'[g].version = req[g].version
                          \/ ~HasRead(g)' /\ g \notin Bumping'
  BY <1>1, <1>4, InvoiceListsAssumption DEF TypeInv, TypeOK
<1>10. \A g \in Readers : Reading(g)' => req'[g].version \in Versions
  BY <1>1, <1>2, <1>4 DEF Reading, TypeInv, TypeOK, Handlers
<1>11. QED
  BY <1>7, <1>8, <1>9, <1>10, QuietTypeInv

\* A request that ends before its time.
LEMMA FailTypeInv ==
    ASSUME TypeInv, NEW h \in Handlers, Fail(h)
    PROVE  TypeInv'
<1>1. /\ pc' = [pc EXCEPT ![h] = "idle"] /\ req' = [req EXCEPT ![h] = NoRequest]
      /\ UNCHANGED <<table, settled, version, payVersion, pages, regressed>>
  BY DEF Fail, Finish, Goto
<1>2. NoRequest \in Request
  BY InvoiceListsAssumption DEF NoRequest, Nothing, Request, Page
<1>3. TypeOK'
  BY <1>1, <1>2 DEF TypeInv, TypeOK, Labels
<1>4. Current' = Current /\ table'.creations = table.creations /\ table.creations \in Nat
  BY <1>1 DEF Current, TypeInv, TypeOK, Page
<1>5. \A g \in Creators : \/ pc'[g] = pc[g] /\ req'[g].version = req[g].version
                          \/ ~HasRead(g)' /\ g \notin Bumping'
  BY <1>1 DEF HasRead, Bumping, TypeInv, TypeOK, Handlers
<1>6. \A g \in Readers : Reading(g)' => req'[g].version \in Versions
  BY <1>1 DEF Reading, TypeInv, TypeOK, Handlers
<1>7. QED
  BY <1>3, <1>4, <1>5, <1>6, QuietTypeInv

\* Redis drops an entry, or the version; or nothing happens.
LEMMA ExpiryTypeInv ==
    ASSUME TypeInv,
           \/ VersionExpires
           \/ \E v \in Versions : PageExpires(v)
           \/ UNCHANGED vars
    PROVE  TypeInv'
<1>1. /\ UNCHANGED <<table, pc, req>>
      /\ version' = version \/ version' = 0
  BY DEF VersionExpires, PageExpires, MoveVersion, handlerVars, vars
<1>2. TypeOK'
  BY DEF VersionExpires, PageExpires, MoveVersion, handlerVars, vars, TypeInv, TypeOK
<1>3. Current' <= Current /\ Current' \in Nat /\ Current \in Nat
  <2>1. version \in Nat /\ version' \in Nat
    BY <1>2 DEF TypeInv, TypeOK, Versions
  <2>2. QED
    BY <1>1, <2>1 DEF Current
<1>4. Bumping' = Bumping /\ Cardinality(Bumping) \in Nat /\ table.creations \in Nat
  BY <1>1, BumpingFinite DEF Bumping, TypeInv, TypeOK, Page
<1>5. Bounded(Current)'
  BY <1>1, <1>3, <1>4 DEF TypeInv, Bounded
<1>6. QED
  BY <1>1, <1>2, <1>4, <1>5 DEF TypeInv, Bounded, HasRead, Reading

\* One step of the invariant behind the types.
LEMMA NextTypeInv == TypeInv /\ [Next]_vars => TypeInv'
<1> SUFFICES ASSUME TypeInv, [Next]_vars
             PROVE  TypeInv'
  OBVIOUS
<1>1. ASSUME NEW h \in Creators, Create(h)
      PROVE  TypeInv'
  BY <1>1, CreateTypeInv
<1>2. ASSUME NEW h \in Creators, BumpGet(h)
      PROVE  TypeInv'
  <2>1. req[h] \in Request /\ pc[h] = "getVersion"
    BY <1>2 DEF BumpGet, TypeInv, TypeOK, Handlers
  <2>2. QED
    BY <1>2, <2>1, ReadTypeInv DEF BumpGet
<1>3. ASSUME NEW h \in Creators \cup Readers, InitVersion(h)
      PROVE  TypeInv'
  BY <1>3, InitVersionTypeInv
<1>4. ASSUME NEW h \in Creators, BumpSet(h)
      PROVE  TypeInv'
  BY <1>4, BumpSetTypeInv
<1>5. ASSUME NEW h \in Payers, Pay(h) \/ PayerStep(h)
      PROVE  TypeInv'
  BY <1>5, PayTypeInv DEF PayerStep
<1>6. ASSUME NEW h \in Readers, List(h)
      PROVE  TypeInv'
  <2>1. [NoRequest EXCEPT !.need = settled] \in Request
    BY InvoiceListsAssumption DEF NoRequest, Nothing, Request, Page, TypeInv, TypeOK
  <2>2. QED
    BY <1>6, <2>1, ReadTypeInv DEF List
<1>7. ASSUME NEW h \in Readers, GetPage(h) \/ ReadTable(h) \/ SetPage(h)
      PROVE  TypeInv'
  BY <1>7, ListTypeInv
<1>8. CASE SweepFind \/ SweepUpdate \/ SweepEvict
  BY <1>8, SweepTypeInv
<1>9. ASSUME NEW h \in Handlers, Fail(h)
      PROVE  TypeInv'
  BY <1>9, FailTypeInv
<1>10. CASE VersionExpires \/ (\E v \in Versions : PageExpires(v)) \/ UNCHANGED vars
  BY <1>10, ExpiryTypeInv
<1>11. QED
  BY <1>1, <1>2, <1>3, <1>4, <1>5, <1>6, <1>7, <1>8, <1>9, <1>10
     DEF Next, CreatorStep, ReaderStep

\* Every variable keeps its type; above all, the version never outgrows the
\* creations: getInvoiceVersion and bumpInvoiceVersion only ever count them.
THEOREM TypeCorrect == Spec => []TypeOK
<1>1. TypeInv => TypeOK
  BY DEF TypeInv
<1>2. QED
  BY <1>1, InitTypeInv, NextTypeInv, PTL DEF Spec
-----------------------------------------------------------------------------
(* What lists show.  The pages under a version, stored or about to be, show  *)
(* whatever had settled when the version was first reached: so a request     *)
(* needs no more than the pages under the version it goes on with.           *)

\* The pages under version v show n creations.
Shows(v, n) ==
    /\ pages[v] # None => pages[v].creations >= n
    /\ \A h \in Readers :
          pc[h] = "setPage" /\ req[h].version = v => req[h].page.creations >= n

\* The labels of handlers that have created nothing.
Elsewhere == {"idle", "getPayVersion", "setPayVersion", "sweepUpdate", "sweepOthers", "sweepEvict"}

\* Nobody has settled, seen or asked for more creations than there are.
WrittenInv ==
    /\ settled.creations <= table.creations
    /\ \A h \in Handlers :
          /\ req[h].page.creations <= table.creations
          /\ req[h].need.creations <= settled.creations
          /\ pc[h] \in Elsewhere => req[h].page.creations = 0

\* Nothing is stored, and nobody is, past the current version; its pages show
\* what has settled, those a creator is about to make current show what it
\* created, and those a request goes on with show what it needs.
ListInv ==
    /\ \A v \in Versions : pages[v] # None => v <= Current
    /\ \A h \in Readers : Reading(h) => req[h].version <= Current
    /\ \A h \in Creators : HasRead(h) => req[h].version <= Current
    /\ Shows(Current, settled.creations)
    /\ \A h \in Creators : HasRead(h) =>
          \A v \in Versions : v = req[h].version + 1 => Shows(v, req[h].page.creations)
    /\ \A h \in Readers : Reading(h) => Shows(req[h].version, req[h].need.creations)

IInv == TypeInv /\ WrittenInv /\ (~regressed => ListInv)

\* Nothing is written, and nothing stored, at first.
LEMMA InitLists == Init => WrittenInv /\ ListInv
<1> SUFFICES ASSUME Init
             PROVE  WrittenInv /\ ListInv
  OBVIOUS
<1>1. Current = 1 /\ 1 \in Versions
  BY InvoiceListsAssumption DEF Init, Current, Versions
<1>2. WrittenInv
  BY DEF WrittenInv, Init, NoRequest, Nothing
<1>3. ListInv
  BY <1>1 DEF ListInv, Init, Shows, Reading, HasRead, Handlers
<1>4. QED
  BY <1>2, <1>3

\* A request that stores a page has read the table before, and pages change
\* only by being stored, or dropped.
Stores ==
    /\ \A v \in Versions : pages'[v] # None =>
          \/ pages'[v] = pages[v]
          \/ \E h \in Readers : /\ pc[h] = "setPage" /\ req[h].version = v
                                /\ pages'[v] = req[h].page
    /\ \A h \in Readers : pc'[h] = "setPage" =>
          \/ pc[h] = "setPage" /\ req'[h] = req[h]
          \/ Reading(h) /\ req'[h].version = req[h].version /\ req'[h].page = table

\* What the pages under a version show, they go on showing.
LEMMA ShowsKept ==
    ASSUME TypeInv, WrittenInv, Stores, NEW v \in Versions,
           NEW n \in Nat, n <= table.creations, Shows(v, n)
    PROVE  Shows(v, n)'
<1>1. ASSUME pages'[v] # None
      PROVE  pages'[v].creations >= n
  BY <1>1 DEF Stores, Shows
<1>2. ASSUME NEW h \in Readers, pc'[h] = "setPage", req'[h].version = v
      PROVE  req'[h].page.creations >= n
  <2>1. table.creations \in Nat
    BY DEF TypeInv, TypeOK, Page
  <2>2. QED
    BY <1>2, <2>1 DEF Stores, Shows
<1>3. QED
  BY <1>1, <1>2 DEF Shows

\* How handlers move: on from the version they had read, or to the current
\* one.
Moves ==
    /\ \A h \in Creators : HasRead(h)' =>
          \/ HasRead(h) /\ req'[h].version = req[h].version /\ req'[h].page = req[h].page
          \/ req'[h].version = Current'
    /\ \A h \in Readers : Reading(h)' =>
          \/ Reading(h) /\ req'[h].version = req[h].version /\ req'[h].need = req[h].need
          \/ req'[h].version = Current' /\ req'[h].need = settled'

\* A step that moves the version forward, if at all, keeps the invariant.
LEMMA ListInvKept ==
    ASSUME TypeInv, TypeInv', WrittenInv, ListInv, Stores, Moves,
           Current <= Current', Shows(Current, settled.creations)'
    PROVE  ListInv'
<1>1. Current \in Nat /\ Current' \in Nat
  BY CurrentType DEF Current, TypeInv, TypeOK, Versions
<1>2. \A v \in Versions : v \in Nat
  BY DEF Versions
<1>3. ASSUME NEW v \in Versions, pages'[v] # None
      PROVE  v <= Current'
  <2>1. v <= Current
    BY <1>3 DEF Stores, ListInv, Reading
  <2>2. QED
    BY <1>1, <1>2, <2>1
<1>4. ASSUME NEW h \in Readers, Reading(h)'
      PROVE  req'[h].version <= Current'
  <2>1. CASE Reading(h) /\ req'[h].version = req[h].version
    <3>1. req[h].version <= Current /\ req[h].version \in Nat
      BY <1>2, <2>1 DEF ListInv, TypeInv
    <3>2. QED
      BY <1>1, <2>1, <3>1
  <2>2. QED
    BY <1>1, <1>4, <2>1 DEF Moves
<1>5. ASSUME NEW h \in Creators, HasRead(h)'
      PROVE  req'[h].version <= Current'
  <2>1. CASE HasRead(h) /\ req'[h].version = req[h].version
    <3>1. req[h].version <= Current /\ req[h].version \in Nat
      BY <1>2, <2>1 DEF ListInv, TypeInv
    <3>2. QED
      BY <1>1, <2>1, <3>1
  <2>2. QED
    BY <1>1, <1>5, <2>1 DEF Moves
<1>6. ASSUME NEW h \in Creators, HasRead(h)', NEW v \in Versions, v = req'[h].version + 1
      PROVE  Shows(v, req[h].page.creations)'
  <2>1. CASE HasRead(h) /\ req'[h].version = req[h].version /\ req'[h].page = req[h].page
    <3>1. h \in Handlers /\ req[h] \in Request
      BY DEF Handlers, TypeInv, TypeOK
    <3>2. req[h].page.creations \in Nat /\ req[h].page.creations <= table.creations
      BY <3>1 DEF WrittenInv, Request, Page
    <3>3. Shows(v, req[h].page.creations)
      BY <1>6, <2>1 DEF ListInv
    <3>4. QED
      BY <2>1, <3>2, <3>3, ShowsKept DEF Shows
  <2>2. CASE req'[h].version = Current'
    <3>1. ~(v <= Current')
      BY <1>1, <1>6, <2>2
    <3>2. pages'[v] = None
      BY <1>3, <3>1
    <3>3. \A g \in Readers : ~(pc'[g] = "setPage" /\ req'[g].version = v)
      BY <1>4, <3>1 DEF Reading
    <3>4. QED
      BY <3>2, <3>3 DEF Shows
  <2>3. QED
    BY <1>6, <2>1, <2>2 DEF Moves
<1>7. ASSUME NEW h \in Readers, Reading(h)'
      PROVE  Shows(req[h].version, req[h].need.creations)'
  <2>1. CASE Reading(h) /\ req'[h].version = req[h].version /\ req'[h].need = req[h].need
    <3>1. h \in Handlers /\ req[h] \in Request /\ table \in Page /\ settled \in Page
      BY DEF Handlers, TypeInv, TypeOK
    <3>2. req[h].need.creations \in Nat /\ req[h].need.creations <= table.creations
      BY <3>1 DEF WrittenInv, Request, Page
    <3>3. Shows(req[h].version, req[h].need.creations) /\ req[h].version \in Versions
      BY <2>1 DEF ListInv, TypeInv
    <3>4. QED
      BY <2>1, <3>2, <3>3, ShowsKept DEF Shows
  <2>2. CASE req'[h].version = Current' /\ req'[h].need = settled'
    BY <2>2 DEF Shows
  <2>3. QED
    BY <1>7, <2>1, <2>2 DEF Moves
<1>8. QED
  BY <1>3, <1>4, <1>5, <1>6, <1>7 DEF ListInv
\* A step of one handler keeps count of what is written.
LEMMA WrittenKept ==
    ASSUME TypeInv, TypeInv', WrittenInv,
           NEW h \in Handlers, NEW r \in Request, NEW l \in Labels,
           pc' = [pc EXCEPT ![h] = l], req' = [req EXCEPT ![h] = r],
           table.creations <= table'.creations,
           settled.creations <= settled'.creations, settled'.creations <= table'.creations,
           r.page.creations <= table'.creations, r.need.creations <= settled'.creations,
           l \in Elsewhere => r.page.creations = 0
    PROVE  WrittenInv'
<1>1. /\ table.creations \in Nat /\ table'.creations \in Nat
      /\ settled.creations \in Nat /\ settled'.creations \in Nat
  BY DEF TypeInv, TypeOK, Page
<1>2. ASSUME NEW g \in Handlers
      PROVE  /\ req'[g].page.creations <= table'.creations
             /\ req'[g].need.creations <= settled'.creations
             /\ pc'[g] \in Elsewhere => req'[g].page.creations = 0
  <2>1. CASE g = h
    BY <2>1 DEF TypeInv, TypeOK
  <2>2. CASE g # h
    <3>1. req'[g] = req[g] /\ pc'[g] = pc[g] /\ req[g] \in Request
      BY <2>2 DEF TypeInv, TypeOK
    <3>2. req[g].page.creations \in Nat /\ req[g].need.creations \in Nat
      BY <3>1 DEF Request, Page
    <3>3. QED
      BY <1>1, <3>1, <3>2 DEF WrittenInv
  <2>3. QED
    BY <2>1, <2>2
<1>3. QED
  BY <1>2 DEF WrittenInv

\* A step of one handler that settles no creation and leaves the current
\* version where it is.
LEMMA HandlerStep ==
    ASSUME IInv, TypeInv',
           NEW h \in Handlers, NEW r \in Request, NEW l \in Labels,
           pc' = [pc EXCEPT ![h] = l], req' = [req EXCEPT ![h] = r],
           table.creations <= table'.creations,
           settled'.creations = settled.creations,
           ~regressed' => ~regressed /\ Current' = Current,
           r.page.creations <= table'.creations, r.need.creations <= settled.creations,
           l \in Elsewhere => r.page.creations = 0,
           Stores,
           h \in Creators /\ l \in {"initVersion", "setVersion"} =>
               \/ HasRead(h) /\ r.version = req[h].version /\ r.page = req[h].page
               \/ r.version = Current,
           h \in Readers /\ l \in {"initVersion", "getPage", "readTable", "setPage"} =>
               \/ Reading(h) /\ r.version = req[h].version /\ r.need = req[h].need
               \/ r.version = Current /\ r.need = settled'
    PROVE  IInv'
<1>1. /\ table.creations \in Nat /\ table'.creations \in Nat /\ settled.creations \in Nat
      /\ settled.creations <= table.creations
  BY DEF IInv, WrittenInv, TypeInv, TypeOK, Page
<1>2. WrittenInv'
  <2>1. TypeInv /\ WrittenInv
    BY DEF IInv
  <2>2. /\ settled.creations <= settled'.creations
        /\ settled'.creations <= table'.creations
        /\ r.need.creations <= settled'.creations
    BY <1>1
  <2>3. QED
    BY <2>1, <2>2, WrittenKept
<1>3. ASSUME ~regressed'
      PROVE  ListInv'
  <2>1. ListInv /\ Current' = Current
    BY <1>3 DEF IInv
  <2>2. Current \in Versions /\ Current \in Nat
    BY CurrentType DEF IInv, Versions
  <2>3. Shows(Current, settled.creations)'
    BY <1>1, <2>1, <2>2, ShowsKept DEF IInv, ListInv, Shows
  <2>4. Moves
    <3>1. \A g \in Handlers \ {h} : req'[g] = req[g] /\ pc'[g] = pc[g]
      OBVIOUS
    <3>2. req'[h] = r /\ pc'[h] = l
      BY DEF IInv, TypeInv, TypeOK
    <3>3. \A g \in Creators \cup Readers : g \in Handlers
      BY DEF Handlers
    <3>4. ASSUME NEW g \in Creators, HasRead(g)'
          PROVE  \/ HasRead(g) /\ req'[g].version = req[g].version /\ req'[g].page = req[g].page
                 \/ req'[g].version = Current'
      BY <2>1, <3>1, <3>2, <3>3, <3>4 DEF HasRead
    <3>5. ASSUME NEW g \in Readers, Reading(g)'
          PROVE  \/ Reading(g) /\ req'[g].version = req[g].version /\ req'[g].need = req[g].need
                 \/ req'[g].version = Current' /\ req'[g].need = settled'
      BY <2>1, <3>1, <3>2, <3>3, <3>5 DEF Reading
    <3>6. QED
      BY <3>4, <3>5 DEF Moves
  <2>5. QED
    BY <2>1, <2>2, <2>3, <2>4, ListInvKept DEF IInv
<1>4. QED
  BY <1>2, <1>3 DEF IInv

\* A step of one handler that stores nothing, and is not about to.
LEMMA StoresNothing ==
    ASSUME TypeInv, NEW h \in Handlers, NEW l \in Labels, NEW r, l # "setPage",
           pc' = [pc EXCEPT ![h] = l], req' = [req EXCEPT ![h] = r], pages' = pages
    PROVE  Stores
<1>1. \A g \in Readers : g \in Handlers
  BY DEF Handlers
<1>2. QED
  BY <1>1 DEF Stores, TypeInv, TypeOK

\* A creation: more for lists to show, though not yet.
LEMMA CreateLists ==
    ASSUME IInv, TypeInv', NEW h \in Creators, Create(h)
    PROVE  IInv'
<1> DEFINE r == [req[h] EXCEPT !.page.creations = table.creations + 1]
<1>1. h \in Handlers /\ req[h] \in Request /\ table \in Page /\ table' \in Page
  BY DEF IInv, TypeInv, TypeOK, Handlers
<1>2. /\ pc' = [pc EXCEPT ![h] = "getVersion"] /\ req' = [req EXCEPT ![h] = r]
      /\ UNCHANGED <<settled, version, pages, regressed>>
  BY DEF Create, Goto
<1>3. table.creations \in Nat /\ table'.creations = table.creations + 1
  BY <1>1 DEF Create, Page
<1>4. r \in Request /\ r.page.creations = table.creations + 1 /\ r.need = req[h].need
  <2>1. table.creations + 1 \in 0..MaxCreations
    BY <1>1, <1>3, InvoiceListsAssumption DEF Create, Page
  <2>2. QED
    BY <1>1, <2>1 DEF Request, Page
<1> HIDE DEF r
<1>5. Stores
  BY <1>1, <1>2, StoresNothing DEF IInv, Labels
<1>6. Current' = Current
  BY <1>2 DEF Current
<1>7. r.need.creations <= settled.creations
  BY <1>1, <1>4 DEF IInv, WrittenInv
<1>8. h \notin Readers
  BY InvoiceListsAssumption
<1>9. "getVersion" \in Labels /\ "getVersion" \notin Elsewhere
  BY DEF Labels, Elsewhere
<1>10. /\ table.creations <= table'.creations
       /\ settled'.creations = settled.creations
       /\ r.page.creations <= table'.creations
       /\ ~regressed' => ~regressed /\ Current' = Current
  BY <1>2, <1>3, <1>4, <1>6
<1>11. QED
  BY <1>1, <1>2, <1>4, <1>5, <1>7, <1>8, <1>9, <1>10, HandlerStep
\* A creator or a reader reads the version, and goes on with the current one.
LEMMA ReadLists ==
    ASSUME IInv, TypeInv', NEW h \in Creators \cup Readers, NEW q \in Request,
           ReadVersion(h, q), UNCHANGED <<table, settled, version, pages, regressed>>,
           q.page.creations <= table.creations, q.need.creations <= settled.creations,
           h \in Readers => q.need = settled
    PROVE  IInv'
<1> DEFINE r == [q EXCEPT !.version = Current]
<1>1. h \in Handlers /\ Current \in Versions /\ Current' = Current /\ TypeInv
  BY CurrentType DEF IInv, Current, Handlers
<1>2. r \in Request /\ r.version = Current /\ r.page = q.page /\ r.need = q.need
  BY <1>1 DEF Request, Versions
<1>3. req' = [req EXCEPT ![h] = r]
  BY DEF ReadVersion, Current
<1>4. PICK l \in {"initVersion", "setVersion", "getPage"} : pc' = [pc EXCEPT ![h] = l]
  BY DEF ReadVersion, Goto, Continues
<1> HIDE DEF r
<1>5. l \in Labels /\ l \notin Elsewhere /\ l # "setPage"
  BY DEF Labels, Elsewhere
<1>6. Stores
  BY <1>1, <1>3, <1>4, <1>5, StoresNothing
<1>7. /\ table.creations <= table'.creations /\ settled'.creations = settled.creations
      /\ r.page.creations <= table'.creations /\ r.need.creations <= settled.creations
      /\ ~regressed' => ~regressed /\ Current' = Current
  BY <1>1, <1>2 DEF TypeInv, TypeOK, Page
<1>8. h \in Readers => r.version = Current /\ r.need = settled'
  BY <1>2
<1>9. QED
  BY <1>1, <1>2, <1>3, <1>4, <1>5, <1>6, <1>7, <1>8, HandlerStep

\* A late initialisation of a version that has moved on moves it backwards.
LEMMA InitVersionLists ==
    ASSUME IInv, TypeInv', NEW h \in Creators \cup Readers, InitVersion(h)
    PROVE  IInv'
<1>1. h \in Handlers /\ TypeInv /\ req[h] \in Request /\ req \in [Handlers -> Request]
  BY DEF IInv, TypeInv, TypeOK, Handlers
<1>2. PICK l \in {"setVersion", "getPage"} : pc' = [pc EXCEPT ![h] = l]
  BY DEF InitVersion, Goto, Continues
<1>3. /\ req' = [req EXCEPT ![h] = req[h]] /\ UNCHANGED <<table, settled, pages>>
      /\ pc[h] = "initVersion"
  BY <1>1 DEF InitVersion
<1>4. l \in Labels /\ l \notin Elsewhere /\ l # "setPage"
  BY DEF Labels, Elsewhere
<1>5. Stores
  BY <1>1, <1>2, <1>3, <1>4, StoresNothing
<1>6. ~regressed' => ~regressed /\ Current' = Current
  <2>1. version \in Nat
    BY <1>1 DEF TypeInv, TypeOK, Versions
  <2>2. version' = 1 /\ (~regressed' => ~regressed /\ ~(1 < version))
    BY DEF InitVersion, MoveVersion
  <2>3. QED
    BY <2>1, <2>2 DEF Current
<1>7. /\ table.creations <= table'.creations /\ settled'.creations = settled.creations
      /\ req[h].page.creations <= table'.creations /\ req[h].need.creations <= settled.creations
  BY <1>1, <1>3 DEF IInv, WrittenInv, TypeInv, TypeOK, Page
<1>8. HasRead(h) /\ Reading(h)
  BY <1>3 DEF HasRead, Reading
<1>9. QED
  BY <1>1, <1>2, <1>3, <1>4, <1>5, <1>6, <1>7, <1>8, HandlerStep

\* A bump to the current version, or past it: its pages show what its creator
\* created, and what had settled.
LEMMA BumpSetLists ==
    ASSUME IInv, TypeInv', NEW h \in Creators, BumpSet(h)
    PROVE  IInv'
<1> DEFINE w == req[h].version
           n == req[h].page.creations
<1>1. /\ h \in Handlers /\ TypeInv /\ req[h] \in Request /\ HasRead(h)
      /\ table \in Page /\ settled \in Page
  BY DEF IInv, TypeInv, TypeOK, Handlers, BumpSet, HasRead
<1>2. /\ version' = w + 1 /\ regressed' = (regressed \/ w + 1 < version)
      /\ pc' = [pc EXCEPT ![h] = "idle"] /\ req' = [req EXCEPT ![h] = NoRequest]
      /\ UNCHANGED <<table, pages>>
      /\ settled'.creations = Larger(n, settled.creations)
  BY DEF BumpSet, MoveVersion, Finish, Goto, Settle
<1>3. /\ n \in Nat /\ settled.creations \in Nat /\ table.creations \in Nat
      /\ n <= table.creations /\ settled.creations <= table.creations
  BY <1>1 DEF IInv, WrittenInv, Request, Page
<1>4. /\ settled.creations <= settled'.creations /\ settled'.creations <= table'.creations
      /\ settled'.creations \in Nat
  BY <1>2, <1>3 DEF Larger
<1>5. /\ NoRequest \in Request /\ NoRequest.page.creations = 0 /\ NoRequest.need.creations = 0
      /\ "idle" \in Labels /\ "idle" # "setPage"
  BY InvoiceListsAssumption DEF NoRequest, Nothing, Request, Page, Labels
<1>6. WrittenInv'
  <2>1. WrittenInv /\ table.creations <= table'.creations
    BY <1>2, <1>3 DEF IInv
  <2>2. /\ NoRequest.page.creations <= table'.creations
        /\ NoRequest.need.creations <= settled'.creations
    BY <1>2, <1>3, <1>4, <1>5
  <2>3. QED
    BY <1>1, <1>2, <1>4, <1>5, <2>1, <2>2, WrittenKept
<1>7. Stores
  BY <1>1, <1>2, <1>5, StoresNothing
<1>8. ASSUME ~regressed'
      PROVE  ListInv'
  <2>1. ListInv /\ ~(w + 1 < version)
    BY <1>2, <1>8 DEF IInv
  <2>2. w \in Nat /\ w <= Current /\ Current \in Nat /\ version \in Nat
    BY <1>1, <2>1, CurrentType DEF ListInv, TypeInv, TypeOK, Versions
  <2>3. Current' = w + 1 /\ Current <= w + 1 /\ (w + 1 = Current \/ ~(w + 1 <= Current))
    BY <1>1, <1>2, <2>1, <2>2 DEF Current, TypeInv, Versions
  <2>4. w + 1 \in Versions
    BY <2>3, CurrentType, InvoiceListsAssumption DEF Current, TypeInv, TypeOK, Versions
  <2>5. Shows(w + 1, n)
    BY <1>1, <2>1, <2>4 DEF ListInv
  <2>6. Shows(w + 1, settled.creations)
    <3>1. CASE w + 1 = Current
      BY <2>1, <3>1 DEF ListInv
    <3>2. CASE ~(w + 1 <= Current)
      BY <2>1, <2>4, <3>2 DEF ListInv, Shows, Reading
    <3>3. QED
      BY <2>3, <3>1, <3>2
  <2>7. Shows(w + 1, settled'.creations)
    BY <1>2, <1>3, <2>5, <2>6 DEF Larger
  <2>8. Shows(Current, settled.creations)'
    <3>1. \A m \in Nat, v \in Versions :
            m <= table.creations /\ Shows(v, m) => /\ pages'[v] # None => pages'[v].creations >= m
                                                   /\ \A g \in Readers :
                                                        pc'[g] = "setPage" /\ req'[g].version = v
                                                          => req'[g].page.creations >= m
      BY <1>1, <1>7, ShowsKept DEF IInv, Shows
    <3>2. QED
      BY <1>2, <1>4, <2>3, <2>4, <2>7, <3>1 DEF Shows
  <2>9. Moves
    BY <1>1, <1>2, InvoiceListsAssumption DEF Moves, HasRead, Reading, TypeInv, TypeOK, Handlers
  <2>10. QED
    BY <1>1, <1>7, <2>1, <2>3, <2>8, <2>9, ListInvKept DEF IInv
<1>9. QED
  BY <1>6, <1>8 DEF IInv
\* The writers of statuses, and requests that end before their time, neither
\* create nor store.
LEMMA OtherLists ==
    ASSUME IInv, TypeInv', NEW h \in Handlers,
           \/ Pay(h) \/ PayBumpGet(h) \/ PayBumpSet(h) \/ Fail(h)
           \/ h = Cron /\ (SweepFind \/ SweepUpdate \/ SweepEvict)
    PROVE  IInv'
<1>1. /\ TypeInv /\ h \in Handlers /\ req[h] \in Request /\ req \in [Handlers -> Request]
      /\ table \in Page /\ settled \in Page
  BY DEF IInv, TypeInv, TypeOK
<1>2. /\ table.creations \in Nat /\ settled.creations \in Nat
      /\ req[h].need.creations <= settled.creations
      /\ pc[h] \in Elsewhere => req[h].page.creations = 0
  BY <1>1 DEF IInv, WrittenInv, Page
<1>3. NoRequest \in Request /\ NoRequest.page.creations = 0 /\ NoRequest.need.creations = 0
  BY InvoiceListsAssumption DEF NoRequest, Nothing, Request, Page
<1>4. UNCHANGED <<version, pages, regressed>> /\ table'.creations = table.creations
  BY <1>1 DEF Pay, PayBumpGet, PayBumpSet, Fail, SweepFind, SweepUpdate, SweepEvict, Page
<1>5. ~Fail(h) => pc[h] \in Elsewhere
  BY DEF Pay, PayBumpGet, PayBumpSet, SweepFind, SweepUpdate, SweepEvict, Elsewhere
<1>6. settled'.creations = settled.creations
  <2>1. CASE Fail(h)
    BY <2>1 DEF Fail
  <2>2. CASE ~Fail(h)
    <3>1. req[h].page.creations = 0 /\ Nothing.creations = 0
      BY <1>2, <1>5, <2>2 DEF Nothing
    <3>2. \A page : page.creations = 0 /\ Settle(page) => settled'.creations = settled.creations
      BY <1>2 DEF Settle, Larger
    <3>3. \A n \in Nat : [Nothing EXCEPT !.changes = n].creations = 0
      BY DEF Nothing
    <3>4. table.changes + 1 \in Nat
      BY <1>1 DEF Page
    <3>5. QED
      BY <2>2, <3>1, <3>2, <3>3, <3>4
         DEF Pay, PayBumpGet, PayBumpSet, SweepFind, SweepUpdate, SweepEvict
  <2>3. QED
    BY <2>1, <2>2
<1>7. PICK r \in Request, l \in Elsewhere :
        /\ req' = [req EXCEPT ![h] = r] /\ pc' = [pc EXCEPT ![h] = l]
        /\ r.page.creations = 0 /\ r.need.creations <= settled.creations
  <2>1. CASE PayBumpSet(h) \/ Fail(h) \/ Finish(h)
    <3>1. req' = [req EXCEPT ![h] = NoRequest] /\ pc' = [pc EXCEPT ![h] = "idle"]
      BY <2>1 DEF PayBumpSet, Fail, Finish, Goto
    <3>2. NoRequest.need.creations <= settled.creations /\ "idle" \in Elsewhere
      BY <1>2, <1>3 DEF Elsewhere
    <3>3. QED
      BY <1>3, <3>1, <3>2
  <2>2. CASE /\ table.changes < MaxChanges /\ pc[h] \in Elsewhere
             /\ req' = [req EXCEPT ![h].page.changes = table.changes + 1]
             /\ \/ pc' = [pc EXCEPT ![h] = "getPayVersion"]
                \/ pc' = [pc EXCEPT ![h] = "sweepEvict"]
    <3> DEFINE r == [req[h] EXCEPT !.page.changes = table.changes + 1]
    <3>1. req' = [req EXCEPT ![h] = r]
      BY <2>2
    <3>2. r \in Request /\ r.page.creations = req[h].page.creations /\ r.need = req[h].need
      BY <1>1, <2>2, InvoiceListsAssumption DEF Request, Page
    <3> HIDE DEF r
    <3>3. QED
      BY <1>2, <2>2, <3>1, <3>2 DEF Elsewhere
  <2>3. CASE PayBumpGet(h)
    <3> DEFINE r == [req[h] EXCEPT !.version = payVersion]
    <3>1. r \in Request /\ r.page = req[h].page /\ r.need = req[h].need
      BY <1>1 DEF Request, TypeInv, TypeOK
    <3>2. req' = [req EXCEPT ![h] = r] /\ pc' = [pc EXCEPT ![h] = "setPayVersion"]
      BY <2>3 DEF PayBumpGet, Goto
    <3>3. pc[h] \in Elsewhere
      BY <2>3 DEF PayBumpGet, Elsewhere
    <3> HIDE DEF r
    <3>4. QED
      BY <1>2, <3>1, <3>2, <3>3 DEF Elsewhere
  <2>4. CASE h = Cron /\ SweepFind
    <3>1. req' = [req EXCEPT ![h] = req[h]] /\ pc[h] \in Elsewhere
      BY <1>1, <2>4 DEF SweepFind, Elsewhere
    <3>2. QED
      BY <1>1, <1>2, <2>4, <3>1 DEF SweepFind, Goto, Elsewhere
  <2>5. CASE Pay(h)
    BY <2>2, <2>5 DEF Pay, Goto, Elsewhere
  <2>6. CASE h = Cron /\ (SweepUpdate \/ SweepEvict)
    BY <2>1, <2>2, <2>6 DEF SweepUpdate, SweepEvict, Goto, Elsewhere
  <2>7. QED
    BY <2>1, <2>3, <2>4, <2>5, <2>6
<1>8. l \in Labels /\ l # "setPage"
      /\ l \notin {"initVersion", "setVersion", "getPage", "readTable", "setPage"}
  BY DEF Labels, Elsewhere
<1>9. Stores
  BY <1>1, <1>4, <1>7, <1>8, StoresNothing
<1>10. /\ table.creations <= table'.creations /\ r.page.creations <= table'.creations
       /\ ~regressed' => ~regressed /\ Current' = Current
  BY <1>2, <1>4, <1>7 DEF Current
<1>11. QED
  BY <1>1, <1>6, <1>7, <1>8, <1>9, <1>10, HandlerStep

\* A request for a list stores what it has read, where it said it would.
LEMMA ListLists ==
    ASSUME IInv, TypeInv', NEW h \in Readers, GetPage(h) \/ ReadTable(h) \/ SetPage(h)
    PROVE  IInv'
<1>1. /\ h \in Handlers /\ TypeInv /\ req[h] \in Request /\ req \in [Handlers -> Request]
      /\ table \in Page /\ h \notin Creators /\ pc \in [Handlers -> Labels]
      /\ pages \in [Versions -> Page \cup {None}]
  BY InvoiceListsAssumption DEF IInv, TypeInv, TypeOK, Handlers
<1>2. /\ UNCHANGED <<table, settled, version, regressed>> /\ Reading(h)
      /\ table.creations <= table'.creations /\ settled'.creations = settled.creations
      /\ ~regressed' => ~regressed /\ Current' = Current
  BY <1>1 DEF GetPage, ReadTable, SetPage, Reading, Current, Page
<1>3. /\ table.creations \in Nat /\ settled.creations \in Nat
      /\ req[h].page.creations <= table'.creations /\ req[h].need.creations <= settled.creations
  BY <1>1, <1>2 DEF IInv, WrittenInv, TypeInv, TypeOK, Page
<1>4. \A g \in Readers : g \in Handlers
  BY DEF Handlers
<1>5. CASE (GetPage(h) \/ SetPage(h)) /\ Finish(h)
  <2>1. /\ pc' = [pc EXCEPT ![h] = "idle"] /\ req' = [req EXCEPT ![h] = NoRequest]
        /\ "idle" \in Labels
        /\ "idle" \notin {"initVersion", "setVersion", "getPage", "readTable", "setPage"}
    BY <1>5 DEF Finish, Goto, Labels
  <2>2. /\ NoRequest \in Request /\ NoRequest.page.creations = 0
        /\ NoRequest.page.creations <= table'.creations
        /\ NoRequest.need.creations <= settled.creations
    BY <1>2, <1>3, InvoiceListsAssumption DEF NoRequest, Nothing, Request, Page
  <2>3. Stores
    <3>1. \A v \in Versions : \/ pages'[v] = pages[v]
                              \/ /\ pc[h] = "setPage" /\ req[h].version = v
                                 /\ pages'[v] = req[h].page
      BY <1>1, <1>5 DEF GetPage, SetPage, TypeInv
    <3>2. \A g \in Readers : pc'[g] = "setPage" => pc[g] = "setPage" /\ req'[g] = req[g]
      BY <1>1, <1>4, <2>1
    <3>3. QED
      BY <3>1, <3>2 DEF Stores
  <2>4. QED
    BY <1>1, <1>2, <2>1, <2>2, <2>3, HandlerStep
<1>6. CASE GetPage(h) /\ ~Finish(h)
  <2>1. /\ pc' = [pc EXCEPT ![h] = "readTable"] /\ req' = [req EXCEPT ![h] = req[h]]
        /\ pages' = pages
        /\ "readTable" \in Labels \ Elsewhere /\ "readTable" # "setPage"
    BY <1>1, <1>6 DEF GetPage, Goto, Labels, Elsewhere
  <2>2. Stores
    BY <1>1, <2>1, StoresNothing
  <2>3. QED
    BY <1>1, <1>2, <1>3, <2>1, <2>2, HandlerStep
<1>7. CASE ReadTable(h)
  <2> DEFINE r == [req[h] EXCEPT !.page = table]
  <2>1. r \in Request /\ r.version = req[h].version /\ r.need = req[h].need /\ r.page = table
    BY <1>1 DEF Request
  <2>2. /\ pc' = [pc EXCEPT ![h] = "setPage"] /\ req' = [req EXCEPT ![h] = r]
        /\ pages' = pages /\ "setPage" \in Labels \ Elsewhere
    BY <1>7 DEF ReadTable, Goto, Labels, Elsewhere
  <2> HIDE DEF r
  <2>3. Stores
    BY <1>1, <1>2, <1>4, <2>1, <2>2 DEF Stores
  <2>4. r.page.creations <= table'.creations /\ r.need.creations <= settled.creations
    BY <1>2, <1>3, <2>1
  <2>5. QED
    BY <1>1, <1>2, <2>1, <2>2, <2>3, <2>4, HandlerStep
<1>8. QED
  BY <1>5, <1>6, <1>7 DEF SetPage

\* Dropping an entry changes nothing for lists, and a version that lapses has
\* moved backwards.
LEMMA ExpiryLists ==
    ASSUME IInv, TypeInv',
           \/ VersionExpires
           \/ \E v \in Versions : PageExpires(v)
           \/ UNCHANGED vars
    PROVE  IInv'
<1>1. /\ TypeInv /\ version \in {0} \cup Versions /\ UNCHANGED <<table, settled, pc, req>>
      /\ table.creations \in Nat /\ settled.creations \in Nat
  BY DEF IInv, TypeInv, TypeOK, Page, VersionExpires, PageExpires, handlerVars, vars
<1>2. WrittenInv'
  BY <1>1 DEF IInv, WrittenInv
<1>3. ASSUME ~regressed'
      PROVE  ListInv'
  <2>1. ~VersionExpires
    <3>1. version # 0 => 0 < version
      BY <1>1 DEF Versions
    <3>2. QED
      BY <1>3, <3>1 DEF VersionExpires, MoveVersion
  <2>2. /\ UNCHANGED <<version, regressed>>
        /\ \A v \in Versions : pages'[v] # None => pages'[v] = pages[v]
    BY <2>1 DEF PageExpires, vars, TypeInv, TypeOK, IInv
  <2>3. ListInv /\ Current' = Current
    BY <1>3, <2>2 DEF IInv, Current
  <2>4. Current \in Versions
    BY <1>1, CurrentType
  <2>5. \A n : \A v \in Versions : Shows(v, n) =>
            /\ pages'[v] # None => pages'[v].creations >= n
            /\ \A h \in Readers : pc[h] = "setPage" /\ req[h].version = v
                                      => req[h].page.creations >= n
    BY <2>2 DEF Shows
  <2>6. \A h \in Readers : Reading(h) => req[h].version \in Versions
    BY <1>1 DEF TypeInv
  <2>7. QED
    BY <1>1, <2>2, <2>3, <2>4, <2>5, <2>6 DEF ListInv, Shows, Reading, HasRead
<1>4. QED
  BY <1>2, <1>3 DEF IInv

\* One step of the whole invariant.
LEMMA NextLists == IInv /\ [Next]_vars => IInv'
<1> SUFFICES ASSUME IInv, [Next]_vars
             PROVE  IInv'
  OBVIOUS
<1>1. TypeInv /\ TypeInv'
  BY NextTypeInv DEF IInv
<1>2. ASSUME NEW h \in Creators, Create(h)
      PROVE  IInv'
  BY <1>1, <1>2, CreateLists
<1>3. ASSUME NEW h \in Creators, BumpGet(h)
      PROVE  IInv'
  <2>1. h \in Handlers /\ req[h] \in Request /\ h \notin Readers
    BY <1>1, InvoiceListsAssumption DEF TypeInv, TypeOK, Handlers
  <2>2. req[h].page.creations <= table.creations /\ req[h].need.creations <= settled.creations
    BY <2>1 DEF IInv, WrittenInv
  <2>3. QED
    BY <1>1, <1>3, <2>1, <2>2, ReadLists DEF BumpGet
<1>4. ASSUME NEW h \in Creators \cup Readers, InitVersion(h)
      PROVE  IInv'
  BY <1>1, <1>4, InitVersionLists
<1>5. ASSUME NEW h \in Creators, BumpSet(h)
      PROVE  IInv'
  BY <1>1, <1>5, BumpSetLists
<1>6. ASSUME NEW h \in Readers, List(h)
      PROVE  IInv'
  <2> DEFINE q == [NoRequest EXCEPT !.need = settled]
  <2>1. settled \in Page /\ settled.creations \in Nat /\ table.creations \in Nat
    BY <1>1 DEF TypeInv, TypeOK, Page
  <2>2. q \in Request /\ q.need = settled /\ q.page.creations = 0
    BY <2>1, InvoiceListsAssumption DEF NoRequest, Nothing, Request, Page
  <2>3. ReadVersion(h, q) /\ UNCHANGED <<table, settled, version, pages, regressed>>
    BY <1>6 DEF List
  <2> HIDE DEF q
  <2>4. q.page.creations <= table.creations /\ q.need.creations <= settled.creations
    BY <2>1, <2>2
  <2>5. QED
    BY <1>1, <2>2, <2>3, <2>4, ReadLists
<1>7. ASSUME NEW h \in Readers, GetPage(h) \/ ReadTable(h) \/ SetPage(h)
      PROVE  IInv'
  BY <1>1, <1>7, ListLists
<1>8. ASSUME NEW h \in Payers, Pay(h) \/ PayerStep(h)
      PROVE  IInv'
  BY <1>1, <1>8, OtherLists DEF PayerStep, Handlers
<1>9. CASE SweepFind \/ SweepUpdate \/ SweepEvict
  BY <1>1, <1>9, OtherLists DEF Handlers
<1>10. ASSUME NEW h \in Handlers, Fail(h)
       PROVE  IInv'
  BY <1>1, <1>10, OtherLists
<1>11. CASE VersionExpires \/ (\E v \in Versions : PageExpires(v)) \/ UNCHANGED vars
  BY <1>1, <1>11, ExpiryLists
<1>12. QED
  BY <1>2, <1>3, <1>4, <1>5, <1>6, <1>7, <1>8, <1>9, <1>10, <1>11
     DEF Next, CreatorStep, ReaderStep

\* A list request that came after createInvoice had answered is answered with
\* that invoice, whatever overlaps and fails, until the version key lapses or
\* moves backwards.
THEOREM ListsShowCreations == Spec => []CreationsAreListed
<1>1. Init => IInv
  BY InitTypeInv, InitLists DEF IInv
<1>2. IInv => CreationsAreListed
  <2> SUFFICES ASSUME IInv, ~regressed, NEW h \in Readers, Hit(h)
               PROVE  pages[req[h].version].creations >= req[h].need.creations
    BY DEF CreationsAreListed
  <2>1. Reading(h) /\ pages[req[h].version] # None
    BY DEF Hit, Reading
  <2>2. Shows(req[h].version, req[h].need.creations)
    BY <2>1 DEF IInv, ListInv
  <2>3. QED
    BY <2>1, <2>2 DEF Shows
<1>3. QED
  BY <1>1, <1>2, NextLists, PTL DEF Spec

-----------------------------------------------------------------------------
(* The safety half of ListsCatchUp: a page out of date comes from a reader  *)
(* that read the table before the change, and there are ever fewer of them. *)

StaleReaders(n) == {h \in Handlers : pc[h] = "setPage" /\ req[h].page.changes < n}

StalePages(n) == {v \in Versions : pages[v] # None /\ pages[v].changes < n}

OnlyOldReads(n) ==
    /\ table'.changes >= n
    /\ StaleReaders(n)' \subseteq StaleReaders(n)
    /\ StalePages(n)' \subseteq StalePages(n) \/ StaleReaders(n)' # StaleReaders(n)

\* No step adds a reader that may store a page without a change that was made.
StalenessRunsOut ==
    [][\A n \in 1..MaxChanges : table.changes >= n => OnlyOldReads(n)]_vars

\* A handler that goes on to anything but a setPage, and stores nothing.
LEMMA NothingStored ==
    ASSUME TypeInv, NEW n \in Nat, n <= table.changes, table.changes <= table'.changes,
           table' \in Page, pages' = pages,
           NEW h \in Handlers, pc'[h] # "setPage",
           \A g \in Handlers \ {h} : pc'[g] = pc[g] /\ req'[g] = req[g]
    PROVE  OnlyOldReads(n)
<1>1. table \in Page
  BY DEF TypeInv, TypeOK
<1>2. table'.changes >= n
  BY <1>1, InvoiceListsAssumption DEF Page
<1>3. QED
  BY <1>2 DEF OnlyOldReads, StaleReaders, StalePages

\* Changes are never undone.
LEMMA ChangesStay ==
    ASSUME TypeInv, [Next]_vars
    PROVE  table' \in Page /\ table.changes <= table'.changes
<1>1. table \in Page
  BY DEF TypeInv, TypeOK
<1>2. table' \in Page
  BY NextTypeInv DEF TypeInv, TypeOK
<1>3. \/ table' = table
      \/ table' = [table EXCEPT !.creations = @ + 1]
      \/ table' = [table EXCEPT !.changes = @ + 1]
  BY DEF Next, vars, CreatorStep, PayerStep, ReaderStep, Create, BumpGet, InitVersion, BumpSet,
         Pay, PayBumpGet, PayBumpSet, List, GetPage, ReadTable, SetPage, SweepFind, SweepUpdate,
         SweepEvict, Fail, VersionExpires, PageExpires
<1>4. QED
  BY <1>1, <1>2, <1>3, InvoiceListsAssumption DEF Page

\* The readers: what is read now shows every change made so far.
LEMMA ReadersStep ==
    ASSUME TypeInv, [Next]_vars, NEW n \in Nat, n <= table.changes,
           NEW h \in Readers, List(h) \/ ReaderStep(h)
    PROVE  OnlyOldReads(n)
<1>1. /\ table \in Page /\ h \in Handlers /\ table' = table /\ table'.changes >= n
      /\ pc \in [Handlers -> Labels] /\ req \in [Handlers -> Request]
      /\ pages \in [Versions -> Page \cup {None}]
  BY InvoiceListsAssumption
     DEF TypeInv, TypeOK, Page, Handlers, List, ReaderStep, InitVersion, GetPage, ReadTable, SetPage
<1>2. \A g \in Handlers \ {h} : pc'[g] = pc[g] /\ req'[g] = req[g]
  BY <1>1 DEF List, ReadVersion, ReaderStep, InitVersion, GetPage, ReadTable, SetPage, Finish, Goto
<1>3. CASE List(h) \/ InitVersion(h) \/ GetPage(h)
  <2>1. pc'[h] # "setPage" /\ pages' = pages
    BY <1>1, <1>3 DEF List, ReadVersion, InitVersion, GetPage, Finish, Goto, Continues
  <2>2. QED
    BY <1>1, <1>2, <2>1, ChangesStay, NothingStored
<1>4. CASE ReadTable(h)
  <2>1. pages' = pages /\ req'[h].page = table
    BY <1>1, <1>4 DEF ReadTable, Request
  <2>2. h \notin StaleReaders(n)'
    BY <1>1, <2>1, InvoiceListsAssumption DEF StaleReaders, Page
  <2>3. QED
    BY <1>1, <1>2, <2>1, <2>2 DEF OnlyOldReads, StaleReaders, StalePages
<1>5. CASE SetPage(h)
  <2>1. /\ pc[h] = "setPage" /\ pc'[h] = "idle"
        /\ pages' = [pages EXCEPT ![req[h].version] = req[h].page]
    BY <1>1, <1>5 DEF SetPage, Finish, Goto
  <2>2. StaleReaders(n)' \subseteq StaleReaders(n) /\ h \notin StaleReaders(n)'
    BY <1>2, <2>1 DEF StaleReaders
  <2>3. CASE h \in StaleReaders(n)
    BY <1>1, <2>2, <2>3 DEF OnlyOldReads
  <2>4. CASE h \notin StaleReaders(n)
    <3>1. req[h].page \in Page /\ ~(req[h].page.changes < n)
      BY <1>1, <2>1, <2>4 DEF StaleReaders, Request
    <3>2. \A v \in Versions : pages'[v] = pages[v] \/ pages'[v] = req[h].page
      BY <1>1, <2>1
    <3>3. StalePages(n)' \subseteq StalePages(n)
      BY <3>1, <3>2 DEF StalePages
    <3>4. QED
      BY <1>1, <2>2, <3>3 DEF OnlyOldReads
  <2>5. QED
    BY <2>3, <2>4
<1>6. QED
  BY <1>3, <1>4, <1>5 DEF ReaderStep

\* The writers and the sweep store no page.
LEMMA WritersStep ==
    ASSUME TypeInv, [Next]_vars, NEW n \in Nat, n <= table.changes, NEW h \in Handlers,
           \/ h \in Creators /\ (Create(h) \/ CreatorStep(h))
           \/ Pay(h) \/ PayerStep(h) \/ Fail(h)
           \/ h = Cron /\ (SweepFind \/ SweepUpdate \/ SweepEvict)
    PROVE  OnlyOldReads(n)
<1>1. /\ pc \in [Handlers -> Labels] /\ req \in [Handlers -> Request] /\ pages' = pages
  BY DEF TypeInv, TypeOK, CreatorStep, PayerStep, Create, BumpGet, InitVersion, BumpSet, Pay,
         PayBumpGet, PayBumpSet, SweepFind, SweepUpdate, SweepEvict, Fail
<1>2. pc'[h] # "setPage" /\ \A g \in Handlers \ {h} : pc'[g] = pc[g]
  BY <1>1 DEF CreatorStep, PayerStep, Create, BumpGet, ReadVersion, Continues, InitVersion,
     BumpSet, Pay, PayBumpGet, PayBumpSet, SweepFind, SweepUpdate, SweepEvict, Fail, Finish, Goto
<1>3. \A g \in Handlers \ {h} : req'[g] = req[g]
  BY <1>1 DEF CreatorStep, PayerStep, Create, BumpGet, ReadVersion, InitVersion,
     BumpSet, Pay, PayBumpGet, PayBumpSet, SweepFind, SweepUpdate, SweepEvict, Fail, Finish
<1>4. QED
  BY <1>1, <1>2, <1>3, ChangesStay, NothingStored

\* From the moment a change of status is in the table, a page that misses it is
\* stored only by a request that had read the table before, by each of them at
\* most once, and no request joins them.
THEOREM StalePagesRunOut == Spec => StalenessRunsOut
<1>1. TypeInv /\ [Next]_vars =>
        \A n \in 1..MaxChanges : table.changes >= n => OnlyOldReads(n)
  <2> SUFFICES ASSUME TypeInv, [Next]_vars, NEW n \in Nat, n <= table.changes
               PROVE  OnlyOldReads(n)
    BY InvoiceListsAssumption DEF TypeInv, TypeOK, Page
  <2>1. ASSUME NEW h \in Handlers,
               \/ h \in Creators /\ (Create(h) \/ CreatorStep(h))
               \/ Pay(h) \/ PayerStep(h) \/ Fail(h)
               \/ h = Cron /\ (SweepFind \/ SweepUpdate \/ SweepEvict)
        PROVE  OnlyOldReads(n)
    BY <2>1, WritersStep
  <2>2. ASSUME NEW h \in Readers, List(h) \/ ReaderStep(h)
        PROVE  OnlyOldReads(n)
    BY <2>2, ReadersStep
  <2>3. ASSUME VersionExpires \/ (\E v \in Versions : PageExpires(v)) \/ UNCHANGED vars
        PROVE  OnlyOldReads(n)
    <3>1. UNCHANGED <<table, pc, req>> /\ table \in Page
      BY <2>3 DEF VersionExpires, PageExpires, vars, handlerVars, TypeInv, TypeOK
    <3>2. \A v \in Versions : pages'[v] \in {pages[v], None}
      BY <2>3 DEF VersionExpires, PageExpires, vars, TypeInv, TypeOK
    <3>3. QED
      BY <3>1, <3>2, InvoiceListsAssumption DEF OnlyOldReads, StaleReaders, StalePages, Page
  <2>4. CASE Next
    BY <2>1, <2>2, <2>3, <2>4 DEF Next, Handlers
  <2>5. QED
    BY <2>3, <2>4
<1>2. QED
  BY InitTypeInv, NextTypeInv, <1>1, PTL DEF Spec, StalenessRunsOut
=============================================================================
