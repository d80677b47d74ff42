------------------------ MODULE AuthSessions_proofs ------------------------
(***************************************************************************)
(* Theorems about AuthSessions, for every number of users, tenants,        *)
(* requests, tokens and faults: types, one account per e-mail, that an     *)
(* ended session stays ended, and that a spent token stays spent.          *)
(***************************************************************************)
EXTENDS AuthSessions, TLAPS

-----------------------------------------------------------------------------
(* What a step does to the User table: at most one row changes.             *)

Becomes(u, row) ==
    \/ /\ rows[u] = None
       /\ \E e \in Emails, n \in Tenants : EmailIsFree(e) /\ row = NewRow(e, n)
    \/ /\ Exists(u)
       /\ \/ row = Gone
          \/ \E e \in Emails : EmailIsFree(e) /\ row = [rows[u] EXCEPT !.email = e]
          \/ row = [rows[u] EXCEPT !.session = None]
          \/ row = [rows[u] EXCEPT !.session = None, !.reset = None]
          \/ \E h \in Handlers :
               /\ pc[h] = "storeToken" /\ req[h].user = u
               /\ row = [rows[u] EXCEPT !.session = req[h].token]
          \/ \E h \in Handlers :
               /\ pc[h] = "storeReset" /\ req[h].user = u
               /\ row = [rows[u] EXCEPT !.reset = req[h].token]

RowsStep == \E u \in Users : \E row : Becomes(u, row) /\ rows' = [rows EXCEPT ![u] = row]

LEMMA EnvironmentRows ==
    ASSUME TypeOK, Environment
    PROVE  rows' = rows \/ RowsStep
<1>1. ASSUME NEW n \in Tenants, NEW e \in Emails, CreateUser(e, n)
      PROVE  RowsStep
  BY <1>1 DEF CreateUser, RowsStep, Becomes
<1>2. ASSUME NEW u \in Users, RemoveUser(u)
      PROVE  RowsStep
  BY <1>2 DEF RemoveUser, RowsStep, Becomes
<1>3. ASSUME NEW u \in Users, NEW e \in Emails, ChangeEmail(u, e)
      PROVE  RowsStep
  <2>1. rows' = [rows EXCEPT ![u] = [rows[u] EXCEPT !.email = e]]
    BY <1>3 DEF ChangeEmail
  <2>2. Becomes(u, [rows[u] EXCEPT !.email = e])
    BY <1>3 DEF ChangeEmail, Becomes
  <2>3. QED
    BY <2>1, <2>2 DEF RowsStep
<1>4. QED
  BY <1>1, <1>2, <1>3
     DEF Environment, ResetLapses, SetTenantStatus, CreateTenant, ChangeTenantEmail

LEMMA HandlerRows ==
    ASSUME TypeOK, NEW h \in Handlers, HandlerStep(h)
    PROVE  rows' = rows \/ RowsStep
<1> DEFINE u == req[h].user
<1>1. CASE CreateAccount(h)
  <2>1. req[h].email \in Emails
    BY <1>1 DEF CreateAccount, TypeOK
  <2>2. QED
    BY <1>1, <2>1 DEF CreateAccount, Refused, RowsStep, Becomes
<1>2. ASSUME NEW row, u \in Users, UpdateRow(u, row), Exists(u) => Becomes(u, row)
      PROVE  rows' = rows \/ RowsStep
  BY <1>2 DEF UpdateRow, RowsStep
<1>3. CASE StoreToken(h)
  <2>1. u \in Users
    BY <1>3 DEF StoreToken, TypeOK, OnUser, WithToken
  <2>2. QED
    BY <1>2, <1>3, <2>1 DEF StoreToken, Becomes
<1>4. CASE ClearSession(h)
  <2>1. u \in Users
    BY <1>4 DEF ClearSession, TypeOK, OnUser, WithToken
  <2>2. QED
    BY <1>2, <1>4, <2>1 DEF ClearSession, EndWith, Becomes
<1>5. CASE StoreReset(h)
  <2>1. u \in Users
    BY <1>5 DEF StoreReset, TypeOK, OnUser, WithToken
  <2>2. QED
    BY <1>2, <1>5, <2>1 DEF StoreReset, Becomes
<1>6. CASE StorePassword(h)
  <2>1. u \in Users
    BY <1>6 DEF StorePassword, TypeOK, OnUser, WithToken
  <2>2. QED
    BY <1>2, <1>6, <2>1 DEF StorePassword, EndWith, Becomes
<1>7. QED
  BY <1>1, <1>3, <1>4, <1>5, <1>6 DEF HandlerStep, SendMail

LEMMA NextRows ==
    ASSUME TypeOK, Next
    PROVE  rows' = rows \/ RowsStep
<1>1. ASSUME NEW h \in Handlers, Arrival(h)
      PROVE  rows' = rows
  BY <1>1 DEF Arrival, Register, Login, RefreshTokens, BeginWithToken, Logout, Authenticated,
     ForgotPassword, ResetPassword
<1>2. QED
  BY <1>1, EnvironmentRows, HandlerRows DEF Next, Fail, Crash

LEMMA RowType ==
    ASSUME TypeOK, NEW u \in Users, Exists(u)
    PROVE  rows[u] \in Row
BY DEF TypeOK, Exists

LEMMA TokenType ==
    ASSUME TypeOK, NEW h \in Handlers, pc[h] \in WithToken
    PROVE  req[h].token \in Tokens /\ req[h].token \in 1..issued /\ issued \in Nat
<1>1. req[h].token \in 1..issued /\ issued \in 0..MaxTokens
  BY DEF TypeOK
<1>2. QED
  BY <1>1, AuthSessionsAssumption DEF Tokens

\* The fields of a row that changed.
LEMMA BecomesType ==
    ASSUME TypeOK, NEW u \in Users, NEW row, Becomes(u, row)
    PROVE  /\ row \in Row \cup {Gone}
           /\ row \in Row =>
                /\ (Exists(u) /\ row.email = rows[u].email) \/ EmailIsFree(row.email)
                /\ \/ row.session = None
                   \/ Exists(u) /\ row.session = rows[u].session
                   \/ \E h \in Handlers :
                        pc[h] = "storeToken" /\ req[h].user = u /\ row.session = req[h].token
                /\ \/ row.reset = None
                   \/ Exists(u) /\ row.reset = rows[u].reset
                   \/ \E h \in Handlers : pc[h] = "storeReset" /\ row.reset = req[h].token
<1>1. CASE rows[u] = None
  <2>1. PICK e \in Emails, n \in Tenants : EmailIsFree(e) /\ row = NewRow(e, n)
    BY <1>1 DEF Becomes, Exists
  <2>2. QED
    BY <2>1 DEF NewRow, Row
<1>2. CASE Exists(u)
  <2>1. rows[u] \in Row
    BY <1>2, RowType
  <2>2. CASE row = Gone
    BY <2>2, AuthSessionsAssumption
  <2>3. ASSUME NEW e \in Emails, EmailIsFree(e), row = [rows[u] EXCEPT !.email = e]
        PROVE  /\ row \in Row /\ EmailIsFree(row.email)
               /\ row.session = rows[u].session /\ row.reset = rows[u].reset
    BY <2>1, <2>3 DEF Row
  <2>4. CASE \/ row = [rows[u] EXCEPT !.session = None]
             \/ row = [rows[u] EXCEPT !.session = None, !.reset = None]
    <3>1. /\ row \in Row /\ row.email = rows[u].email
          /\ row.session = None /\ row.reset \in {None, rows[u].reset}
      BY <2>1, <2>4 DEF Row
    <3>2. QED
      BY <1>2, <3>1
  <2>5. ASSUME NEW h \in Handlers, pc[h] = "storeToken", req[h].user = u,
               row = [rows[u] EXCEPT !.session = req[h].token]
        PROVE  /\ row \in Row /\ row.email = rows[u].email
               /\ row.session = req[h].token /\ row.reset = rows[u].reset
    <3>1. req[h].token \in Tokens
      BY <2>5, TokenType DEF WithToken
    <3>2. QED
      BY <2>1, <2>5, <3>1 DEF Row
  <2>6. ASSUME NEW h \in Handlers, pc[h] = "storeReset",
               row = [rows[u] EXCEPT !.reset = req[h].token]
        PROVE  /\ row \in Row /\ row.email = rows[u].email
               /\ row.session = rows[u].session /\ row.reset = req[h].token
    <3>1. req[h].token \in Tokens
      BY <2>6, TokenType DEF WithToken
    <3>2. QED
      BY <2>1, <2>6, <3>1 DEF Row
  <2>7. CASE \E e \in Emails : EmailIsFree(e) /\ row = [rows[u] EXCEPT !.email = e]
    BY <1>2, <2>3, <2>7
  <2>8. CASE \E h \in Handlers : /\ pc[h] = "storeToken" /\ req[h].user = u
                                 /\ row = [rows[u] EXCEPT !.session = req[h].token]
    BY <1>2, <2>5, <2>8
  <2>9. CASE \E h \in Handlers : /\ pc[h] = "storeReset" /\ req[h].user = u
                                 /\ row = [rows[u] EXCEPT !.reset = req[h].token]
    BY <1>2, <2>6, <2>9
  <2>10. QED
    BY <1>2, <2>2, <2>4, <2>7, <2>8, <2>9 DEF Becomes, Exists
<1>3. QED
  BY <1>1, <1>2 DEF Becomes

-----------------------------------------------------------------------------
(* What a step does to a request: it moves one, or ends them all.           *)

Goes(h, label, r) ==
    \/ label = "idle" /\ r = NoRequest
    \/ /\ label \in {"createAccount", "clearSession"}
       /\ r \in Request
       /\ label = "createAccount" => r.email \in Emails
       /\ label = "clearSession" => r.user \in Users
    \/ /\ label \in {"storeToken", "storeReset"}
       /\ issued < MaxTokens /\ issued' = issued + 1
       /\ \E u \in Users : r = [NoRequest EXCEPT !.user = u, !.token = issued + 1]
    \/ /\ label = "storePassword"
       /\ \E u \in Users, t \in (mailed \ lapsed) \cap (1..issued) :
            /\ Exists(u) /\ rows[u].reset = t
            /\ r = [NoRequest EXCEPT !.user = u, !.token = t]
    \/ label = "sendMail" /\ pc[h] = "storeReset" /\ r = req[h]

HandlersStep ==
    \E h \in Handlers : \E label, r :
        /\ Goes(h, label, r)
        /\ pc' = [pc EXCEPT ![h] = label] /\ req' = [req EXCEPT ![h] = r]

AllIdle == pc' = [h \in Handlers |-> "idle"] /\ req' = [h \in Handlers |-> NoRequest]

LEMMA FinishGoes ==
    ASSUME NEW h \in Handlers, Finish(h)
    PROVE  HandlersStep
BY DEF Finish, Goto, HandlersStep, Goes

LEMMA ArrivalGoes ==
    ASSUME TypeOK, NEW h \in Handlers, Arrival(h)
    PROVE  HandlersStep
<1>1. ASSUME NEW label, NEW r, Begin(h, label, r), Goes(h, label, r)
      PROVE  HandlersStep
  BY <1>1 DEF Begin, Goto, HandlersStep
<1>2. ASSUME NEW e \in Emails, NEW n \in Tenants \cup {None}, Register(h, e, n)
      PROVE  HandlersStep
  <2> DEFINE r == [NoRequest EXCEPT !.email = Lower[e], !.tenant = n]
  <2>1. r \in Request /\ r.email \in Emails
    BY AuthSessionsAssumption DEF NoRequest, Request
  <2>2. Begin(h, "createAccount", r)
    BY <1>2 DEF Register
  <2> HIDE DEF r
  <2>3. QED
    BY <1>1, <2>1, <2>2 DEF Goes
<1>3. ASSUME NEW u \in Users, NEW label \in {"storeToken", "storeReset"},
             BeginWithToken(h, label, u)
      PROVE  HandlersStep
  BY <1>1, <1>3 DEF BeginWithToken, FreshToken, Goes
<1>4. ASSUME NEW u \in Users, Logout(h, u)
      PROVE  HandlersStep
  <2> DEFINE r == [NoRequest EXCEPT !.user = u]
  <2>1. r \in Request /\ r.user = u
    BY DEF NoRequest, Request
  <2>2. Begin(h, "clearSession", r)
    BY <1>4 DEF Logout, Authenticated
  <2> HIDE DEF r
  <2>3. QED
    BY <1>1, <2>1, <2>2 DEF Goes
<1>5. ASSUME NEW t \in 1..issued, ResetPassword(h, t)
      PROVE  HandlersStep
  BY <1>1, <1>5 DEF ResetPassword, Goes
<1>6. QED
  BY <1>2, <1>3, <1>4, <1>5 DEF Arrival, Login, ForgotPassword, RefreshTokens

LEMMA NextGoes ==
    ASSUME TypeOK, Next
    PROVE  UNCHANGED <<pc, req>> \/ AllIdle \/ HandlersStep
<1>1. ASSUME NEW h \in Handlers, StoreReset(h)
      PROVE  HandlersStep
  <2>1. CASE Finish(h)
    BY <2>1, FinishGoes
  <2>2. CASE Goto(h, "sendMail") /\ UNCHANGED req
    <3>1. req' = [req EXCEPT ![h] = req[h]]
      BY <2>2 DEF TypeOK
    <3>2. QED
      BY <1>1, <2>2, <3>1 DEF StoreReset, Goto, HandlersStep, Goes
  <2>3. QED
    BY <1>1, <2>1, <2>2 DEF StoreReset
<1>2. ASSUME NEW h \in Handlers, HandlerStep(h)
      PROVE  HandlersStep
  BY <1>1, <1>2, FinishGoes DEF HandlerStep, CreateAccount, StoreToken, ClearSession, EndWith,
     SendMail, StorePassword
<1>3. CASE Environment
  BY <1>3 DEF Environment, CreateUser, ChangeEmail, RemoveUser, CreateTenant,
     ChangeTenantEmail, SetTenantStatus, ResetLapses, handlerVars
<1>4. CASE Crash
  BY <1>4 DEF Crash, AllIdle
<1>5. ASSUME NEW h \in Handlers, Fail(h)
      PROVE  HandlersStep
  BY <1>5, FinishGoes DEF Fail
<1>6. QED
  BY <1>2, <1>3, <1>4, <1>5, ArrivalGoes DEF Next

-----------------------------------------------------------------------------
(* Types.                                                                   *)

RequestsOK ==
    /\ pc \in [Handlers -> {"idle", "createAccount"} \cup OnUser]
    /\ req \in [Handlers -> Request]
    /\ \A h \in Handlers : pc[h] \in OnUser => req[h].user \in Users
    /\ \A h \in Handlers : pc[h] \in WithToken => req[h].token \in 1..issued
    /\ \A h \in Handlers : pc[h] = "createAccount" => req[h].email \in Emails

\* Tokens are counted up, and their ghosts follow.
TokensStep ==
    /\ \/ UNCHANGED <<issued, ghostVars>>
       \/ /\ issued < MaxTokens /\ issued' = issued + 1 /\ raced' = raced
          /\ \/ UNCHANGED current
             \/ \E u \in Users : current' = [current EXCEPT ![u] = @ \cup {issued + 1}]
       \/ issued' = issued /\ \E u \in Users : EndSessions(u)
    /\ mailed' = mailed \/ \E h \in Handlers : SendMail(h)
    /\ lapsed' = lapsed \/ \E u \in Users : ResetLapses(u)
    /\ faults' = faults \/ (faults < MaxFaults /\ faults' = faults + 1)

LEMMA NextTokens ==
    ASSUME TypeOK, Next
    PROVE  TokensStep
<1>1. ASSUME NEW h \in Handlers, Arrival(h)
      PROVE  TokensStep
  <2>1. CASE \E e \in Emails, n \in Tenants \cup {None} : Register(h, e, n)
    BY <2>1 DEF Register, TokensStep, tokenVars, ghostVars
  <2>2. CASE \E u \in Users : Login(h, u) \/ ForgotPassword(h, u)
    BY <2>2 DEF Login, ForgotPassword, BeginWithToken, FreshToken, TokensStep
  <2>3. CASE \E t \in 1..issued : RefreshTokens(h, t)
    BY <2>3 DEF RefreshTokens, BeginWithToken, FreshToken, TokensStep
  <2>4. CASE \E u \in Users : Logout(h, u)
    BY <2>4 DEF Logout, Authenticated, TokensStep, tokenVars, ghostVars
  <2>5. CASE \E t \in 1..issued : ResetPassword(h, t)
    BY <2>5 DEF ResetPassword, TokensStep, tokenVars, ghostVars
  <2>6. QED
    BY <1>1, <2>1, <2>2, <2>3, <2>4, <2>5 DEF Arrival
<1>2. ASSUME NEW h \in Handlers, HandlerStep(h)
      PROVE  TokensStep
  <2>1. CASE CreateAccount(h) \/ StoreToken(h) \/ StoreReset(h)
    BY <2>1 DEF CreateAccount, StoreToken, StoreReset, TokensStep, tokenVars, ghostVars
  <2>2. CASE SendMail(h)
    BY <2>2 DEF SendMail, TokensStep, ghostVars
  <2>3. CASE ClearSession(h) \/ StorePassword(h)
    <3>1. req[h].user \in Users
      BY <2>3 DEF ClearSession, StorePassword, TypeOK, OnUser, WithToken
    <3>2. QED
      BY <2>3, <3>1 DEF ClearSession, StorePassword, EndWith, TokensStep, tokenVars
  <2>4. QED
    BY <1>2, <2>1, <2>2, <2>3 DEF HandlerStep
<1>3. CASE Environment
  <2>1. CASE \E u \in Users : ResetLapses(u)
    BY <2>1 DEF ResetLapses, TokensStep, ghostVars
  <2>2. QED
    BY <1>3, <2>1 DEF Environment, CreateUser, ChangeEmail, RemoveUser, CreateTenant,
       ChangeTenantEmail, SetTenantStatus, TokensStep, tokenVars, ghostVars
<1>4. CASE Crash \/ \E h \in Handlers : Fail(h)
  BY <1>4 DEF Crash, Fail, TokensStep, tokenVars, ghostVars
<1>5. QED
  BY <1>1, <1>2, <1>3, <1>4 DEF Next

LEMMA IssuedGrows ==
    ASSUME TypeOK, TokensStep
    PROVE  issued' \in 0..MaxTokens /\ issued' >= issued /\ 1..issued \subseteq 1..(issued')
BY AuthSessionsAssumption DEF TypeOK, TokensStep

LEMMA RequestsType ==
    ASSUME TypeOK, Next
    PROVE  RequestsOK'
<1>1. issued \in Nat /\ issued' \in Nat /\ issued' >= issued
  BY NextTokens, IssuedGrows, AuthSessionsAssumption DEF TypeOK
<1>2. MaxTokens \in Nat /\ NoRequest \in Request
  BY AuthSessionsAssumption DEF NoRequest, Request
<1>3. CASE UNCHANGED <<pc, req>>
  BY <1>1, <1>3 DEF RequestsOK, TypeOK
<1>4. CASE AllIdle
  BY <1>2, <1>4 DEF AllIdle, RequestsOK, OnUser, WithToken
<1>5. CASE HandlersStep
  <2>1. PICK h \in Handlers : \E label, r :
          /\ Goes(h, label, r)
          /\ pc' = [pc EXCEPT ![h] = label] /\ req' = [req EXCEPT ![h] = r]
    BY <1>5 DEF HandlersStep
  <2>2. PICK label, r : /\ Goes(h, label, r)
                        /\ pc' = [pc EXCEPT ![h] = label] /\ req' = [req EXCEPT ![h] = r]
    BY <2>1
  <2>3. /\ r \in Request
        /\ label \in {"idle", "createAccount"} \cup OnUser
        /\ label \in OnUser => r.user \in Users
        /\ label \in WithToken => r.token \in 1..issued'
        /\ label = "createAccount" => r.email \in Emails
    <3>1. CASE label \in {"idle", "createAccount", "clearSession"}
      BY <1>2, <2>2, <3>1 DEF Goes, OnUser, WithToken
    <3>2. ASSUME NEW u \in Users, NEW t \in Tokens,
                 r = [NoRequest EXCEPT !.user = u, !.token = t]
          PROVE  r \in Request /\ r.user = u /\ r.token = t
      BY <3>2 DEF NoRequest, Request
    <3>3. CASE label \in {"storeToken", "storeReset"}
      <4>1. PICK u \in Users : r = [NoRequest EXCEPT !.user = u, !.token = issued + 1]
        BY <2>2, <3>3 DEF Goes
      <4>2. issued < MaxTokens /\ issued' = issued + 1
        BY <2>2, <3>3 DEF Goes
      <4>3. issued + 1 \in Tokens /\ issued + 1 \in 1..issued'
        BY <1>1, <1>2, <4>2 DEF Tokens
      <4>4. QED
        BY <3>2, <3>3, <4>1, <4>3 DEF OnUser, WithToken
    <3>4. CASE label = "storePassword"
      <4>1. PICK u \in Users, t \in (mailed \ lapsed) \cap (1..issued) :
              r = [NoRequest EXCEPT !.user = u, !.token = t]
        BY <2>2, <3>4 DEF Goes
      <4>2. t \in Tokens /\ t \in 1..issued'
        BY <1>1, <4>1 DEF TypeOK
      <4>3. QED
        BY <3>2, <3>4, <4>1, <4>2 DEF OnUser, WithToken
    <3>5. CASE label = "sendMail"
      <4>1. pc[h] = "storeReset" /\ r = req[h]
        BY <2>2, <3>5 DEF Goes
      <4>2. QED
        BY <1>1, <3>5, <4>1 DEF TypeOK, OnUser, WithToken
    <3>6. QED
      BY <2>2, <3>1, <3>3, <3>4, <3>5 DEF Goes
  <2>4. ASSUME NEW g \in Handlers, g # h
        PROVE  pc'[g] = pc[g] /\ req'[g] = req[g]
    BY <2>2, <2>4 DEF TypeOK
  <2>5. pc'[h] = label /\ req'[h] = r
    BY <2>2 DEF TypeOK
  <2>6. pc' \in [Handlers -> {"idle", "createAccount"} \cup OnUser] /\ req' \in [Handlers -> Request]
    BY <2>2, <2>3 DEF TypeOK
  <2>7. \A g \in Handlers : pc[g] \in WithToken => req[g].token \in 1..issued'
    BY <1>1 DEF TypeOK
  <2>8. QED
    BY <2>3, <2>4, <2>5, <2>6, <2>7 DEF RequestsOK, TypeOK
<1>6. QED
  BY <1>3, <1>4, <1>5, NextGoes

LEMMA InitType == Init => TypeOK
BY AuthSessionsAssumption
   DEF Init, TypeOK, Request, NoRequest, OnUser, WithToken, Tokens

LEMMA WorldType ==
    ASSUME TypeOK, Next
    PROVE  tenants' \in [Tenants -> Emails \cup {None}] /\ active' \subseteq Tenants
<1>1. ASSUME NEW h \in Handlers, CreateAccount(h)
      PROVE  tenants' \in [Tenants -> Emails \cup {None}] /\ active' \subseteq Tenants
  <2>1. req[h].email \in Emails
    BY <1>1 DEF CreateAccount, TypeOK
  <2>2. QED
    BY <1>1, <2>1 DEF CreateAccount, worldVars, TypeOK
<1>2. ASSUME NEW h \in Handlers, Arrival(h)
      PROVE  UNCHANGED worldVars
  BY <1>2 DEF Arrival, Register, Login, RefreshTokens, BeginWithToken, Logout, Authenticated,
     ForgotPassword, ResetPassword
<1>3. ASSUME NEW h \in Handlers, HandlerStep(h), ~CreateAccount(h)
      PROVE  UNCHANGED worldVars
  BY <1>3 DEF HandlerStep, StoreToken, ClearSession, StoreReset, SendMail, StorePassword, EndWith
<1>4. CASE UNCHANGED worldVars
  BY <1>4 DEF worldVars, TypeOK
<1>5. CASE Environment
  BY <1>5 DEF Environment, CreateUser, ChangeEmail, RemoveUser, CreateTenant,
     ChangeTenantEmail, SetTenantStatus, ResetLapses, worldVars, TypeOK
<1>6. CASE Crash \/ \E h \in Handlers : Fail(h)
  BY <1>6 DEF Crash, Fail, worldVars, TypeOK
<1>7. QED
  BY <1>1, <1>2, <1>3, <1>4, <1>5, <1>6 DEF Next

LEMMA GhostsType ==
    ASSUME TypeOK, TokensStep
    PROVE  current' \in [Users -> SUBSET (1..issued')] /\ raced' \subseteq Users
<1>1. issued \in Nat /\ issued' \in Nat /\ issued' >= issued
  BY IssuedGrows, AuthSessionsAssumption DEF TypeOK
<1>2. current \in [Users -> SUBSET (1..issued')]
  <2>1. \A n \in 1..issued : n \in 1..issued'
    BY <1>1
  <2>2. QED
    BY <2>1 DEF TypeOK
<1>3. CASE UNCHANGED <<issued, ghostVars>>
  BY <1>2, <1>3 DEF ghostVars, TypeOK
<1>4. CASE issued' = issued + 1 /\ raced' = raced /\ current' = current
  BY <1>2, <1>4 DEF TypeOK
<1>5. ASSUME NEW u \in Users, issued' = issued + 1, raced' = raced,
             current' = [current EXCEPT ![u] = @ \cup {issued + 1}]
      PROVE  current' \in [Users -> SUBSET (1..issued')] /\ raced' \subseteq Users
  <2>1. issued + 1 \in 1..issued'
    BY <1>1, <1>5
  <2>2. QED
    BY <1>2, <1>5, <2>1 DEF TypeOK
<1>6. ASSUME NEW u \in Users, EndSessions(u)
      PROVE  current' \in [Users -> SUBSET (1..issued')] /\ raced' \subseteq Users
  BY <1>2, <1>6 DEF EndSessions, TypeOK
<1>7. QED
  BY <1>3, <1>4, <1>5, <1>6 DEF TokensStep

LEMMA NextType == TypeOK /\ [Next]_vars => TypeOK'
<1> SUFFICES ASSUME TypeOK, [Next]_vars
             PROVE  TypeOK'
  OBVIOUS
<1>1. CASE UNCHANGED vars
  BY <1>1 DEF vars, worldVars, tokenVars, handlerVars, ghostVars, TypeOK
<1>2. CASE Next
  <2>1. TokensStep /\ RequestsOK'
    BY <1>2, NextTokens, RequestsType
  <2>2. rows' \in [Users -> Row \cup {None, Gone}]
    BY <1>2, NextRows, BecomesType DEF RowsStep, TypeOK
  <2>3. issued' \in 0..MaxTokens
    BY <2>1, IssuedGrows
  <2>4. mailed' \subseteq Tokens
    BY <2>1, TokenType DEF TokensStep, SendMail, TypeOK, WithToken
  <2>5. lapsed' \subseteq Tokens
    <3>1. ASSUME NEW u \in Users, ResetLapses(u)
          PROVE  lapsed' \subseteq Tokens
      <4>1. rows[u].reset \in Tokens
        BY <3>1, RowType DEF ResetLapses, Row
      <4>2. QED
        BY <3>1, <4>1 DEF ResetLapses, TypeOK
    <3>2. QED
      BY <2>1, <3>1 DEF TokensStep, TypeOK
  <2>6. faults' \in 0..MaxFaults
    BY <2>1, AuthSessionsAssumption DEF TokensStep, TypeOK
  <2>7. QED
    BY <1>2, <2>1, <2>2, <2>3, <2>4, <2>5, <2>6, GhostsType, WorldType DEF TypeOK, RequestsOK
<1>3. QED
  BY <1>1, <1>2

LEMMA TypeInductive == Spec => []TypeOK
BY InitType, NextType, PTL DEF Spec

\* Every reachable state of the authentication service is well typed: a request
\* that is about to write has a user and, where it carries one, an issued token.
THEOREM TypeCorrect == Spec => []TypeOK
BY TypeInductive

-----------------------------------------------------------------------------
(* One account for an e-mail.                                               *)

\* A row keeps its e-mail or takes one that is free.
LEMMA RowsEmails ==
    ASSUME TypeOK, EmailsAreUnique, RowsStep
    PROVE  EmailsAreUnique'
<1>1. PICK u \in Users : \E row : Becomes(u, row) /\ rows' = [rows EXCEPT ![u] = row]
  BY DEF RowsStep
<1>2. PICK row : Becomes(u, row) /\ rows' = [rows EXCEPT ![u] = row]
  BY <1>1
<1>3. rows'[u] = row /\ \A v \in Users : v # u => rows'[v] = rows[v]
  BY <1>2 DEF TypeOK
<1>4. \A v \in Users : v # u /\ Exists(v)' => Exists(v)
  BY <1>3 DEF Exists
<1>5. ASSUME Exists(u)'
      PROVE  \A v \in Users : v # u /\ Exists(v) => rows[v].email # row.email
  <2>1. row \in Row
    BY <1>2, <1>3, <1>5, BecomesType DEF Exists
  <2>2. (Exists(u) /\ row.email = rows[u].email) \/ EmailIsFree(row.email)
    BY <1>2, <2>1, BecomesType
  <2>3. QED
    BY <2>2 DEF EmailIsFree, EmailsAreUnique
<1>6. QED
  BY <1>3, <1>4, <1>5 DEF EmailsAreUnique

LEMMA NextEmails == TypeOK /\ EmailsAreUnique /\ [Next]_vars => EmailsAreUnique'
<1>1. rows' = rows /\ EmailsAreUnique => EmailsAreUnique'
  BY DEF EmailsAreUnique, Exists
<1>2. QED
  BY <1>1, NextRows, RowsEmails DEF vars

\* However registrations, new users and changes of an e-mail interleave and fail,
\* no e-mail has two accounts.
THEOREM OneAccountPerEmail == Spec => []EmailsAreUnique
<1>1. Init => EmailsAreUnique
  BY DEF Init, EmailsAreUnique, Exists
<1>2. QED
  BY <1>1, NextEmails, TypeInductive, PTL DEF Spec

-----------------------------------------------------------------------------
(* Ended sessions.  A token that is about to be stored belongs to a session *)
(* that was not ended, or its user's last end raced with it.                *)

StoresAreCurrent ==
    \A h \in Handlers : pc[h] = "storeToken" /\ req[h].user \notin raced =>
        req[h].token \in current[req[h].user]

IInv == TypeOK /\ EndedSessionsStayEnded /\ StoresAreCurrent

\* No request comes to the point of storing a token.
NoNewStore ==
    \A h \in Handlers : pc'[h] = "storeToken" => pc[h] = "storeToken" /\ req'[h] = req[h]

LEMMA FinishStores ==
    ASSUME TypeOK, NEW h \in Handlers, NEW label, label # "storeToken",
           pc' = [pc EXCEPT ![h] = label],
           \E r : req' = [req EXCEPT ![h] = r]
    PROVE  NoNewStore
BY DEF NoNewStore, TypeOK

\* A login or a refresh begins.
LEMMA StartSessions ==
    ASSUME IInv, NEW h \in Handlers,
           \/ \E u \in Users : Login(h, u)
           \/ \E t \in 1..issued : RefreshTokens(h, t)
    PROVE  EndedSessionsStayEnded' /\ StoresAreCurrent'
<1> DEFINE T == issued + 1
<1>1. PICK v \in Users :
        /\ BeginWithToken(h, "storeToken", v)
        /\ \/ current' = [current EXCEPT ![v] = @ \cup {T}]
           \/ v \in raced /\ current' = current
  <2>1. CASE \E u \in Users : Login(h, u)
    BY <2>1 DEF Login, FreshToken
  <2>2. ASSUME NEW t \in 1..issued, RefreshTokens(h, t)
        PROVE  \E v \in Users :
                 /\ BeginWithToken(h, "storeToken", v)
                 /\ \/ current' = [current EXCEPT ![v] = @ \cup {T}]
                    \/ v \in raced /\ current' = current
    <3>1. PICK v \in Users :
            /\ MayEnter(v) /\ rows[v].session = t
            /\ BeginWithToken(h, "storeToken", v)
            /\ current' = IF t \in current[v]
                            THEN [current EXCEPT ![v] = @ \cup {T}] ELSE current
      BY <2>2 DEF RefreshTokens, FreshToken
    <3>2. t # None
      BY AuthSessionsAssumption
    <3>3. t \in current[v] \/ v \in raced
      BY <3>1, <3>2 DEF MayEnter, IInv, EndedSessionsStayEnded
    <3>4. QED
      BY <3>1, <3>3
  <2>3. QED
    BY <2>1, <2>2
<1>2. /\ rows' = rows /\ raced' = raced
      /\ pc' = [pc EXCEPT ![h] = "storeToken"]
      /\ req' = [req EXCEPT ![h] = [NoRequest EXCEPT !.user = v, !.token = T]]
  BY <1>1 DEF BeginWithToken, Begin, Goto, FreshToken
<1>3. \A w \in Users : current[w] \subseteq current'[w]
  BY <1>1 DEF IInv, TypeOK
<1>4. EndedSessionsStayEnded'
  BY <1>2, <1>3 DEF IInv, EndedSessionsStayEnded, Exists
<1>5. StoresAreCurrent'
  <2>1. /\ req'[h].user = v /\ req'[h].token = T
        /\ \A g \in Handlers : g # h => pc'[g] = pc[g] /\ req'[g] = req[g]
    BY <1>2 DEF IInv, TypeOK, NoRequest
  <2>2. v \notin raced => T \in current'[v]
    BY <1>1 DEF IInv, TypeOK
  <2>3. \A g \in Handlers : pc[g] = "storeToken" => req[g].user \in Users
    BY DEF IInv, TypeOK, OnUser, WithToken
  <2>4. QED
    BY <1>2, <1>3, <2>1, <2>2, <2>3 DEF IInv, StoresAreCurrent
<1>6. QED
  BY <1>4, <1>5

\* Sessions end: the user has none, and what is still to be stored has raced.
LEMMA EndSessionsOf ==
    ASSUME IInv, NEW h \in Handlers, ClearSession(h) \/ StorePassword(h)
    PROVE  EndedSessionsStayEnded' /\ StoresAreCurrent'
<1> DEFINE u == req[h].user
<1>1. u \in Users
  BY DEF ClearSession, StorePassword, IInv, TypeOK, OnUser, WithToken
<1>2. PICK row : /\ EndWith(h, u, row)
                 /\ \/ row = [rows[u] EXCEPT !.session = None]
                    \/ row = [rows[u] EXCEPT !.session = None, !.reset = None]
  BY DEF ClearSession, StorePassword
<1>3. Exists(u) => row \in Row /\ row.session = None
  BY <1>1, <1>2, RowType DEF IInv, Row
<1>4. /\ \A v \in Users : v # u => rows'[v] = rows[v]
      /\ rows'[u] = IF Exists(u) THEN row ELSE rows[u]
  BY <1>1, <1>2 DEF EndWith, UpdateRow, IInv, TypeOK
<1>5. /\ \A v \in Users : v # u => current'[v] = current[v]
      /\ raced' = raced \cup {u} \/ raced' = raced \ {u}
      /\ u \notin raced' => \A g \in Handlers : ~(pc[g] = "storeToken" /\ req[g].user = u)
  BY <1>1, <1>2 DEF EndWith, EndSessions, IInv, TypeOK
<1>6. EndedSessionsStayEnded'
  BY <1>3, <1>4, <1>5 DEF IInv, EndedSessionsStayEnded, Exists
<1>7. NoNewStore
  BY <1>2, FinishStores DEF EndWith, Finish, Goto, IInv
<1>8. \A g \in Handlers : pc[g] = "storeToken" => req[g].user \in Users
  BY DEF IInv, TypeOK, OnUser, WithToken
<1>9. StoresAreCurrent'
  BY <1>5, <1>7, <1>8 DEF IInv, StoresAreCurrent, NoNewStore
<1>10. QED
  BY <1>6, <1>9

\* Whatever else happens: a row gets no session but one that was to be stored.
LEMMA OtherSessions ==
    ASSUME IInv, UNCHANGED ghostVars, NoNewStore, rows' = rows \/ RowsStep
    PROVE  EndedSessionsStayEnded' /\ StoresAreCurrent'
<1>1. StoresAreCurrent'
  BY DEF IInv, StoresAreCurrent, NoNewStore, ghostVars
<1>2. CASE rows' = rows
  BY <1>1, <1>2 DEF IInv, EndedSessionsStayEnded, Exists, ghostVars
<1>3. CASE RowsStep
  <2>1. PICK u \in Users : \E row : Becomes(u, row) /\ rows' = [rows EXCEPT ![u] = row]
    BY <1>3 DEF RowsStep
  <2>2. PICK row : Becomes(u, row) /\ rows' = [rows EXCEPT ![u] = row]
    BY <2>1
  <2>3. rows'[u] = row /\ \A v \in Users : v # u => rows'[v] = rows[v]
    BY <2>2 DEF IInv, TypeOK
  <2>4. ASSUME Exists(u)', u \notin raced, row.session # None
        PROVE  row.session \in current[u]
    <3>1. row \in Row
      BY <2>2, <2>3, <2>4, BecomesType DEF Exists, IInv
    <3>2. \/ Exists(u) /\ row.session = rows[u].session
          \/ \E h \in Handlers :
               pc[h] = "storeToken" /\ req[h].user = u /\ row.session = req[h].token
      BY <2>2, <2>4, <3>1, BecomesType DEF IInv
    <3>3. QED
      BY <2>4, <3>2 DEF IInv, EndedSessionsStayEnded, StoresAreCurrent
  <2>5. QED
    BY <1>1, <2>3, <2>4 DEF IInv, EndedSessionsStayEnded, Exists, ghostVars
<1>4. QED
  BY <1>2, <1>3

LEMMA NextSessions == IInv /\ [Next]_vars => EndedSessionsStayEnded' /\ StoresAreCurrent'
<1> SUFFICES ASSUME IInv, [Next]_vars
             PROVE  EndedSessionsStayEnded' /\ StoresAreCurrent'
  OBVIOUS
<1>1. CASE UNCHANGED vars
  BY <1>1 DEF vars, handlerVars, ghostVars, IInv, EndedSessionsStayEnded, StoresAreCurrent, Exists
<1>2. CASE Next
  <2>1. rows' = rows \/ RowsStep
    BY <1>2, NextRows DEF IInv
  <2>2. ASSUME NEW h \in Handlers, Arrival(h)
        PROVE  EndedSessionsStayEnded' /\ StoresAreCurrent'
    <3>1. CASE \E e \in Emails, n \in Tenants \cup {None} : Register(h, e, n)
      BY <2>1, <3>1, FinishStores, OtherSessions DEF Register, Begin, Goto, IInv
    <3>2. ASSUME NEW u \in Users, Logout(h, u) \/ ForgotPassword(h, u)
          PROVE  EndedSessionsStayEnded' /\ StoresAreCurrent'
      BY <2>1, <3>2, FinishStores, OtherSessions
         DEF Logout, Authenticated, ForgotPassword, BeginWithToken, Begin, Goto, IInv, ghostVars
    <3>3. CASE \E t \in 1..issued : ResetPassword(h, t)
      BY <2>1, <3>3, FinishStores, OtherSessions DEF ResetPassword, Begin, Goto, IInv
    <3>4. CASE \/ \E u \in Users : Login(h, u)
               \/ \E t \in 1..issued : RefreshTokens(h, t)
      BY <3>4, StartSessions
    <3>5. QED
      BY <2>2, <3>1, <3>2, <3>3, <3>4 DEF Arrival
  <2>3. ASSUME NEW h \in Handlers, HandlerStep(h)
        PROVE  EndedSessionsStayEnded' /\ StoresAreCurrent'
    <3>1. CASE CreateAccount(h) \/ StoreToken(h) \/ SendMail(h)
      BY <2>1, <3>1, FinishStores, OtherSessions
         DEF CreateAccount, StoreToken, SendMail, Finish, Goto, IInv
    <3>2. CASE StoreReset(h)
      <4>1. req' = req => req' = [req EXCEPT ![h] = req[h]]
        BY DEF IInv, TypeOK
      <4>2. NoNewStore
        BY <3>2, <4>1, FinishStores DEF StoreReset, Finish, Goto, IInv
      <4>3. QED
        BY <2>1, <3>2, <4>2, OtherSessions DEF StoreReset
    <3>3. QED
      BY <2>3, <3>1, <3>2, EndSessionsOf DEF HandlerStep
  <2>4. CASE Environment
    <3>1. UNCHANGED <<handlerVars, ghostVars>>
      BY <2>4 DEF Environment, CreateUser, ChangeEmail, RemoveUser, CreateTenant,
         ChangeTenantEmail, SetTenantStatus, ResetLapses
    <3>2. QED
      BY <2>1, <3>1, OtherSessions DEF NoNewStore, handlerVars
  <2>5. CASE Crash
    BY <2>1, <2>5, OtherSessions DEF Crash, NoNewStore
  <2>6. ASSUME NEW h \in Handlers, Fail(h)
        PROVE  EndedSessionsStayEnded' /\ StoresAreCurrent'
    BY <2>1, <2>6, FinishStores, OtherSessions DEF Fail, Finish, Goto, IInv
  <2>7. QED
    BY <1>2, <2>2, <2>3, <2>4, <2>5, <2>6 DEF Next
<1>3. QED
  BY <1>1, <1>2

\* After a logout or a reset no token of an earlier session is the user's again,
\* through any number of refreshes, failures and crashes, but for a login or a
\* refresh that overlapped it.
THEOREM EndedStayEnded == Spec => []EndedSessionsStayEnded
<1>1. Init => IInv
  BY InitType DEF Init, IInv, EndedSessionsStayEnded, StoresAreCurrent, Exists
<1>2. IInv /\ [Next]_vars => IInv'
  BY NextType, NextSessions DEF IInv
<1>3. IInv => EndedSessionsStayEnded
  BY DEF IInv
<1>4. QED
  BY <1>1, <1>2, <1>3, PTL DEF Spec

-----------------------------------------------------------------------------
(* Spent tokens.                                                            *)

\* A token a request carries was carried before, is new, or was found to be some
\* user's, mailed and not lapsed.
LEMMA HeldBefore ==
    ASSUME TypeOK, Next, NEW t \in 1..issued, NEW h \in Handlers, HoldsToken(h, t)'
    PROVE  \/ \E g \in Handlers : HoldsToken(g, t)
           \/ t \notin lapsed /\ \E u \in Users : Exists(u) /\ rows[u].reset = t
<1>1. CASE UNCHANGED <<pc, req>>
  BY <1>1 DEF HoldsToken
<1>2. CASE AllIdle
  BY <1>2 DEF AllIdle, HoldsToken, WithToken
<1>3. CASE HandlersStep
  <2>1. PICK g \in Handlers : \E label, r :
          /\ Goes(g, label, r)
          /\ pc' = [pc EXCEPT ![g] = label] /\ req' = [req EXCEPT ![g] = r]
    BY <1>3 DEF HandlersStep
  <2>2. PICK label, r : /\ Goes(g, label, r)
                        /\ pc' = [pc EXCEPT ![g] = label] /\ req' = [req EXCEPT ![g] = r]
    BY <2>1
  <2>3. CASE g # h
    BY <2>2, <2>3 DEF HoldsToken, TypeOK
  <2>4. CASE g = h
    <3>1. label \in WithToken /\ r.token = t
      BY <2>2, <2>4 DEF HoldsToken, TypeOK
    <3>2. issued \in Nat /\ t # issued + 1
      BY AuthSessionsAssumption DEF TypeOK
    <3>3. ASSUME NEW u \in Users, NEW s, r = [NoRequest EXCEPT !.user = u, !.token = s]
          PROVE  r.token = s
      BY <3>3 DEF NoRequest
    <3>4. label \notin {"storeToken", "storeReset"}
      BY <2>2, <3>1, <3>2, <3>3 DEF Goes
    <3>5. CASE label = "storePassword"
      <4>1. PICK u \in Users, s \in (mailed \ lapsed) \cap (1..issued) :
              /\ Exists(u) /\ rows[u].reset = s
              /\ r = [NoRequest EXCEPT !.user = u, !.token = s]
        BY <2>2, <3>5 DEF Goes
      <4>2. s = t
        BY <3>1, <3>3, <4>1
      <4>3. QED
        BY <4>1, <4>2
    <3>6. CASE label = "sendMail"
      BY <2>2, <2>4, <3>1, <3>6 DEF Goes, HoldsToken, WithToken
    <3>7. QED
      BY <3>1, <3>4, <3>5, <3>6 DEF WithToken
  <2>5. QED
    BY <2>3, <2>4
<1>4. QED
  BY <1>1, <1>2, <1>3, NextGoes

\* A token of a row was a row's before, or a request's that stored it.
LEMMA StoredBefore ==
    ASSUME TypeOK, Next, NEW t \in 1..issued, NEW u \in Users, Exists(u)'
    PROVE  /\ rows'[u].session = t =>
                \/ Exists(u) /\ rows[u].session = t
                \/ \E h \in Handlers : HoldsToken(h, t)
           /\ rows'[u].reset = t =>
                \/ Exists(u) /\ rows[u].reset = t
                \/ \E h \in Handlers : HoldsToken(h, t)
<1>1. CASE rows'[u] = rows[u]
  BY <1>1 DEF Exists
<1>2. CASE rows'[u] # rows[u]
  <2>1. PICK row : Becomes(u, row) /\ rows'[u] = row
    BY <1>2, NextRows DEF RowsStep, TypeOK
  <2>2. row \in Row
    BY <2>1, BecomesType DEF Exists
  <2>3. t # None
    BY AuthSessionsAssumption
  <2>4. QED
    BY <2>1, <2>2, <2>3, BecomesType DEF HoldsToken, WithToken
<1>3. QED
  BY <1>1, <1>2

LEMMA SpentStep == TypeOK /\ [Next]_vars => [\A t \in Tokens : Spent(t) => Spent(t)']_vars
<1> SUFFICES ASSUME TypeOK, Next, NEW t \in Tokens, Spent(t)
             PROVE  Spent(t)'
  OBVIOUS
<1>1. t \in 1..issued /\ t \in 1..issued'
  BY NextTokens, IssuedGrows DEF Spent
<1>2. \A h \in Handlers : ~HoldsToken(h, t)'
  BY <1>1, HeldBefore DEF Spent
<1>3. lapsed \subseteq lapsed'
  BY NextTokens DEF TokensStep, ResetLapses
<1>4. ASSUME NEW u \in Users, Exists(u)'
      PROVE  rows'[u].session # t /\ (rows'[u].reset = t => t \in lapsed')
  BY <1>1, <1>3, <1>4, StoredBefore DEF Spent
<1>5. QED
  BY <1>1, <1>2, <1>4 DEF Spent

\* A refresh token that was replaced, a reset token that was used, and every token
\* no row and no request has any more, is never accepted again.
THEOREM SpentTokensStaySpent == Spec => SpentStaysSpent
BY SpentStep, TypeInductive, PTL DEF Spec, SpentStaysSpent
=============================================================================
