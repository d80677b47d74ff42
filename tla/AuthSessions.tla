---------------------------- MODULE AuthSessions ----------------------------
(***************************************************************************)
(* AuthService: registration, login, refresh-token rotation, logout and    *)
(* password reset, over the User table.                                    *)
(*                                                                         *)
(* A handler is one in-flight request; an action is the code between two   *)
(* awaits with the call the first of them waits for.  bcrypt is part of    *)
(* the action before it.  Refresh and reset tokens are random: a token is  *)
(* the number of its making, and its hash is the token.  Whether a         *)
(* password matches is the caller's choice.  A JWT is believed until its   *)
(* 15 minutes are over, so that any user may call with one.  No code       *)
(* writes User.is_enabled, which is true.  The profile's cache entry,      *)
(* which logout and reset delete last, is in VersionedCache.               *)
(***************************************************************************)
EXTENDS Naturals

CONSTANTS
    Users,       \* ids of User rows
    Emails,      \* e-mails as they may be spelled
    Lower,       \* an e-mail in lower case, without spaces around it
    Tenants,
    Handlers,    \* concurrent requests
    MaxTokens,   \* bound on the tokens made
    MaxFaults,   \* bound on failed calls and process crashes
    None,
    Gone         \* the row of a user that was deleted

Tokens == 1..MaxTokens

Row == [email : Emails, tenant : Tenants, session : Tokens \cup {None},
        reset : Tokens \cup {None}]

ASSUME AuthSessionsAssumption ==
    /\ Lower \in [Emails -> Emails]
    /\ MaxTokens \in Nat /\ MaxFaults \in Nat
    /\ None \notin Users \cup Emails \cup Tenants \cup Nat
    /\ None # Gone
    /\ {None, Gone} \cap Row = {}

VARIABLES
    rows,      \* the User table
    tenants,   \* Tenant.email; None where there is no row
    active,    \* tenants whose status is ACTIVE
    issued,    \* tokens made so far
    mailed,    \* reset tokens that were mailed
    lapsed,    \* reset tokens whose 15 minutes are over
    pc,        \* the await a handler stands at
    req,       \* a handler's local variables
    current,   \* ghost: tokens of sessions begun after their user's last logout or reset
    raced,     \* ghost: users whose last logout or reset overlapped a login or refresh
    faults     \* failures so far

worldVars == <<tenants, active>>
tokenVars == <<issued, mailed, lapsed>>
handlerVars == <<pc, req>>
ghostVars == <<current, raced>>
vars == <<rows, worldVars, tokenVars, handlerVars, ghostVars, faults>>

Request == [user : Users \cup {None}, token : Tokens \cup {None},
            email : Emails \cup {None}, tenant : Tenants \cup {None}]
NoRequest == [user |-> None, token |-> None, email |-> None, tenant |-> None]

WithToken == {"storeToken", "storeReset", "sendMail", "storePassword"}
OnUser == WithToken \cup {"clearSession"}

TypeOK ==
    /\ rows \in [Users -> Row \cup {None, Gone}]
    /\ tenants \in [Tenants -> Emails \cup {None}]
    /\ active \subseteq Tenants
    /\ issued \in 0..MaxTokens
    /\ mailed \subseteq Tokens /\ lapsed \subseteq Tokens
    /\ pc \in [Handlers -> {"idle", "createAccount"} \cup OnUser]
    /\ req \in [Handlers -> Request]
    /\ \A h \in Handlers : pc[h] \in OnUser => req[h].user \in Users
    /\ \A h \in Handlers : pc[h] \in WithToken => req[h].token \in 1..issued
    /\ \A h \in Handlers : pc[h] = "createAccount" => req[h].email \in Emails
    /\ current \in [Users -> SUBSET (1..issued)]
    /\ raced \subseteq Users
    /\ faults \in 0..MaxFaults

Init ==
    /\ rows = [u \in Users |-> None]
    /\ tenants = [n \in Tenants |-> None] /\ active = {}
    /\ issued = 0 /\ mailed = {} /\ lapsed = {}
    /\ pc = [h \in Handlers |-> "idle"]
    /\ req = [h \in Handlers |-> NoRequest]
    /\ current = [u \in Users |-> {}]
    /\ raced = {}
    /\ faults = 0

-----------------------------------------------------------------------------
Exists(u) == rows[u] \notin {None, Gone}

\* The checks of validateUser, refreshTokens and the JWT strategy.
MayEnter(u) == Exists(u) /\ rows[u].tenant \in active

\* AuthService finds an account by the lower case of what is typed; UserService
\* stores what it is given.
IsFound(u) == Exists(u) /\ \E e \in Emails : rows[u].email = Lower[e]

Goto(h, label) == pc' = [pc EXCEPT ![h] = label]

Finish(h) == Goto(h, "idle") /\ req' = [req EXCEPT ![h] = NoRequest]

Begin(h, label, request) ==
    /\ pc[h] = "idle"
    /\ req' = [req EXCEPT ![h] = request]
    /\ Goto(h, label)

\* Mutant: the last token is handed out again.
LastToken == IF issued = 0 THEN 1 ELSE issued

FreshToken == issued + 1

\* A request that has made a token and is about to store it for u.
BeginWithToken(h, label, u) ==
    /\ issued < MaxTokens
    /\ issued' = FreshToken
    /\ Begin(h, label, [NoRequest EXCEPT !.user = u, !.token = FreshToken])
    /\ UNCHANGED <<rows, worldVars, mailed, lapsed, raced, faults>>

-----------------------------------------------------------------------------
(* Registration                                                            *)

Register(h, e, n) ==
    /\ \A u \in Users : Exists(u) => rows[u].email # Lower[e]
    /\ Begin(h, "createAccount", [NoRequest EXCEPT !.email = Lower[e], !.tenant = n])
    /\ UNCHANGED <<rows, worldVars, tokenVars, ghostVars, faults>>

\* Mutant: the user is made without its tenant.
NewRowWithoutTenant(e, n) == [email |-> e, tenant |-> None, session |-> None, reset |-> None]

NewRow(e, n) == [email |-> e, tenant |-> n, session |-> None, reset |-> None]

\* Mutant: no unique index on User.email.
NoUniqueIndex(e) == TRUE

EmailIsFree(e) == \A u \in Users : Exists(u) => rows[u].email # e

\* The unique index on Tenant.email.
TenantEmailIsFree(e) == \A n \in Tenants : tenants[n] # e

\* What the transaction is refused for, and undone whole.
Refused(e, named) ==
    \/ ~EmailIsFree(e)
    \/ named = None /\ ~TenantEmailIsFree(e)
    \/ named # None /\ tenants[named] = None

\* One transaction: a tenant is made unless the request names one, and the user
\* with it.
CreateAccount(h) ==
    LET e == req[h].email
        named == req[h].tenant
    IN  /\ pc[h] = "createAccount"
        /\ \/ /\ ~Refused(e, named)
              /\ \E u \in Users, n \in Tenants :
                   /\ rows[u] = None
                   /\ rows' = [rows EXCEPT ![u] = NewRow(e, n)]
                   /\ \/ /\ named = None /\ tenants[n] = None
                         /\ tenants' = [tenants EXCEPT ![n] = e]
                         /\ active' = active \cup {n}
                      \/ named = n /\ UNCHANGED worldVars
           \/ Refused(e, named) /\ UNCHANGED <<rows, worldVars>>
        /\ Finish(h)
        /\ UNCHANGED <<tokenVars, ghostVars, faults>>

-----------------------------------------------------------------------------
(* Sessions: a user has one, the refresh token of its row                  *)

\* validateUser, then login.
Login(h, u) ==
    /\ IsFound(u) /\ MayEnter(u)
    /\ BeginWithToken(h, "storeToken", u)
    /\ current' = [current EXCEPT ![u] = @ \cup {FreshToken}]

\* The lookup by the token's hash.  Refused when it finds no one.
RefreshTokens(h, t) ==
    \E u \in Users :
        /\ MayEnter(u) /\ rows[u].session = t
        /\ BeginWithToken(h, "storeToken", u)
        /\ current' = IF t \in current[u]
                        THEN [current EXCEPT ![u] = @ \cup {FreshToken}]
                        ELSE current

\* An update by the user's id.  A row that is gone is an error.
UpdateRow(u, row) == rows' = IF Exists(u) THEN [rows EXCEPT ![u] = row] ELSE rows

\* login's update, whatever the row has become.
StoreToken(h) ==
    LET u == req[h].user
    IN  /\ pc[h] = "storeToken"
        /\ UpdateRow(u, [rows[u] EXCEPT !.session = req[h].token])
        /\ Finish(h)
        /\ UNCHANGED <<worldVars, tokenVars, ghostVars, faults>>

\* Requests behind JwtAuthGuard begin with its lookup of the user.
Authenticated(h, label, u) ==
    /\ MayEnter(u)
    /\ Begin(h, label, [NoRequest EXCEPT !.user = u])
    /\ UNCHANGED <<rows, worldVars, tokenVars, ghostVars, faults>>

Logout(h, u) == Authenticated(h, "clearSession", u)

\* Ghosts, when the sessions of u are ended.
EndSessions(u) ==
    /\ current' = [current EXCEPT ![u] = {}]
    /\ raced' = IF \E g \in Handlers : pc[g] = "storeToken" /\ req[g].user = u
                  THEN raced \cup {u} ELSE raced \ {u}

\* The end of a session, and of the request but for its profile's entry.
EndWith(h, u, row) ==
    /\ UpdateRow(u, row)
    /\ EndSessions(u)
    /\ Finish(h)
    /\ UNCHANGED <<worldVars, tokenVars, faults>>

ClearSession(h) ==
    LET u == req[h].user
    IN  /\ pc[h] = "clearSession"
        /\ EndWith(h, u, [rows[u] EXCEPT !.session = None])

-----------------------------------------------------------------------------
(* Password reset                                                          *)

\* The status of the tenant is not looked at.
ForgotPassword(h, u) ==
    /\ IsFound(u)
    /\ BeginWithToken(h, "storeReset", u)
    /\ UNCHANGED current

StoreReset(h) ==
    LET u == req[h].user
    IN  /\ pc[h] = "storeReset"
        /\ UpdateRow(u, [rows[u] EXCEPT !.reset = req[h].token])
        /\ \/ Exists(u) /\ Goto(h, "sendMail") /\ UNCHANGED req
           \/ ~Exists(u) /\ Finish(h)
        /\ UNCHANGED <<worldVars, tokenVars, ghostVars, faults>>

\* An error of the mailer is swallowed.
SendMail(h) ==
    /\ pc[h] = "sendMail"
    /\ mailed' = mailed \cup {req[h].token}
    /\ Finish(h)
    /\ UNCHANGED <<rows, worldVars, issued, lapsed, ghostVars, faults>>

\* The lookup by the token's hash.  A token is known from its mail.
ResetPassword(h, t) ==
    /\ t \in mailed \ lapsed
    /\ \E u \in Users :
         /\ Exists(u) /\ rows[u].reset = t
         /\ Begin(h, "storePassword", [NoRequest EXCEPT !.user = u, !.token = t])
    /\ UNCHANGED <<rows, worldVars, tokenVars, ghostVars, faults>>

\* Mutant: the new password ends no session.
StorePasswordKeepsSession(h) ==
    LET u == req[h].user
    IN  /\ pc[h] = "storePassword"
        /\ EndWith(h, u, [rows[u] EXCEPT !.reset = None])

\* By the user's id: the reset token of the row may be another one by now.
StorePassword(h) ==
    LET u == req[h].user
    IN  /\ pc[h] = "storePassword"
        /\ EndWith(h, u, [rows[u] EXCEPT !.session = None, !.reset = None])

-----------------------------------------------------------------------------
(* The world around the service, and failures                              *)

\* UserService.create: the insert, which the check of the e-mail may precede by
\* as much as register's does.
CreateUser(e, n) ==
    /\ EmailIsFree(e) /\ tenants[n] # None
    /\ \E u \in Users :
         /\ rows[u] = None
         /\ rows' = [rows EXCEPT ![u] = NewRow(e, n)]
    /\ UNCHANGED <<worldVars, tokenVars, handlerVars, ghostVars, faults>>

\* UserService.update, which ends no session: another e-mail.
ChangeEmail(u, e) ==
    /\ Exists(u) /\ EmailIsFree(e)
    /\ rows' = [rows EXCEPT ![u].email = e]
    /\ UNCHANGED <<worldVars, tokenVars, handlerVars, ghostVars, faults>>

RemoveUser(u) ==
    /\ Exists(u)
    /\ rows' = [rows EXCEPT ![u] = Gone]
    /\ UNCHANGED <<worldVars, tokenVars, handlerVars, ghostVars, faults>>

\* TenantService.create, which makes no user.
CreateTenant(n, e) ==
    /\ tenants[n] = None /\ TenantEmailIsFree(e)
    /\ tenants' = [tenants EXCEPT ![n] = e]
    /\ active' = active \cup {n}
    /\ UNCHANGED <<rows, tokenVars, handlerVars, ghostVars, faults>>

ChangeTenantEmail(n, e) ==
    /\ tenants[n] # None /\ TenantEmailIsFree(e)
    /\ tenants' = [tenants EXCEPT ![n] = e]
    /\ UNCHANGED <<rows, active, tokenVars, handlerVars, ghostVars, faults>>

SetTenantStatus(n) ==
    /\ tenants[n] # None
    /\ active' = IF n \in active THEN active \ {n} ELSE active \cup {n}
    /\ UNCHANGED <<rows, tenants, tokenVars, handlerVars, ghostVars, faults>>

\* External: 15 minutes pass.
ResetLapses(u) ==
    /\ Exists(u) /\ rows[u].reset \notin lapsed \cup {None}
    /\ lapsed' = lapsed \cup {rows[u].reset}
    /\ UNCHANGED <<rows, worldVars, issued, mailed, handlerVars, ghostVars, faults>>

\* The call a request waits for is rejected.
Fail(h) ==
    /\ pc[h] # "idle"
    /\ faults < MaxFaults
    /\ faults' = faults + 1
    /\ Finish(h)
    /\ UNCHANGED <<rows, worldVars, tokenVars, ghostVars>>

\* The API process dies and restarts.
Crash ==
    /\ faults < MaxFaults
    /\ faults' = faults + 1
    /\ pc' = [h \in Handlers |-> "idle"]
    /\ req' = [h \in Handlers |-> NoRequest]
    /\ UNCHANGED <<rows, worldVars, tokenVars, ghostVars>>

-----------------------------------------------------------------------------
Arrival(h) ==
    \/ \E e \in Emails, n \in Tenants \cup {None} : Register(h, e, n)
    \/ \E u \in Users : Login(h, u) \/ Logout(h, u) \/ ForgotPassword(h, u)
    \/ \E t \in 1..issued : RefreshTokens(h, t) \/ ResetPassword(h, t)

HandlerStep(h) ==
    \/ CreateAccount(h) \/ StoreToken(h) \/ ClearSession(h)
    \/ StoreReset(h) \/ SendMail(h) \/ StorePassword(h)

Environment ==
    \/ \E u \in Users : RemoveUser(u) \/ ResetLapses(u) \/ \E e \in Emails : ChangeEmail(u, e)
    \/ \E n \in Tenants : SetTenantStatus(n)
    \/ \E n \in Tenants, e \in Emails :
         CreateTenant(n, e) \/ ChangeTenantEmail(n, e) \/ CreateUser(e, n)

Next ==
    \/ \E h \in Handlers : Arrival(h) \/ HandlerStep(h) \/ Fail(h)
    \/ Environment
    \/ Crash

Spec == Init /\ [][Next]_vars

-----------------------------------------------------------------------------
(* Properties                                                              *)

\* "A user with this email address already exists": two registrations of one
\* e-mail, or a registration and an administrator's new user or change, however
\* they interleave, leave one account with it: what the check before the
\* transaction misses, the unique index catches.
EmailsAreUnique ==
    \A u, v \in Users : Exists(u) /\ Exists(v) /\ rows[u].email = rows[v].email => u = v

\* "Invalidate all active refresh sessions": the session a user has was begun
\* after the last logout or reset, through any number of refreshes, unless a
\* login or refresh was about to store its token when that logout or reset was
\* written.
EndedSessionsStayEnded ==
    \A u \in Users : Exists(u) /\ u \notin raced /\ rows[u].session # None =>
        rows[u].session \in current[u]

HoldsToken(h, t) == pc[h] \in WithToken /\ req[h].token = t

\* A refresh token that was replaced or cleared, or a reset token that was used,
\* replaced or has lapsed, and that no request under way still carries.
Spent(t) ==
    /\ t \in 1..issued
    /\ \A u \in Users : Exists(u) => rows[u].session # t /\ (rows[u].reset = t => t \in lapsed)
    /\ \A h \in Handlers : ~HoldsToken(h, t)

\* "Validates provided refresh token, invalidates it" and "one-time token": a
\* spent token stays spent, whatever is refreshed, reset, removed or registered
\* later.
SpentStaysSpent == [][\A t \in Tokens : Spent(t) => Spent(t)']_vars
=============================================================================
