------------------------------ MODULE Sessions ------------------------------
(***************************************************************************)
(* Accounts, organisations and sessions of the API: login, refresh and     *)
(* logout, the authentication every request passes, the administration of  *)
(* users and the platform administration of organisations                  *)
(* (api/routers/auth.py, api/routers/platform.py, api/dependencies/auth.py *)
(* and api/services/auth_service.py over the tables users, tenants,        *)
(* refresh_tokens and platform_audit_log).                                 *)
(*                                                                         *)
(* Access tokens are never stored or revoked: what one is worth is decided *)
(* by the rows a request reads.  A transaction is READ COMMITTED, so every *)
(* statement reads what is committed when it runs, and what a transaction  *)
(* writes appears at its commit; an UPDATE waits for the row's writer.  A  *)
(* handler's last write and its commit are one step.  A request that is    *)
(* refused writes nothing: its refusal is the end of its request.          *)
(***************************************************************************)
EXTENDS FiniteSets

CONSTANTS Users,      \* accounts, existing or to be created
          Tenants,    \* organisations, existing or to be founded
          Home,       \* the organisation of an account (users.tenant_id)
          Email,      \* the address of an account; several accounts may share one
          Slug,       \* the slug of an organisation; a deleted one's may be used again
          Passwords,  \* passwords in use
          Logins,     \* sign-ins, each of which yields one refresh token
          Requests,   \* requests in progress
          Accounts0,  \* the accounts at the start
          Founded,    \* the organisations at the start
          Bodies,     \* the requests that occur, of those Body lists
          Entered,    \* those a super-admin has already entered
          None

Roles == {"partner", "it_admin", "associate"}
Managers == {"partner", "it_admin"}
UserStatus == {"absent", "active", "suspended"}
Account == [status: UserStatus, role: Roles, super: BOOLEAN, pwd: Passwords, must: BOOLEAN]
Organisation == [status: {"absent", "active", "suspended"}, deleted: BOOLEAN]
Token == [user: Users, act: Tenants \union {None}]

VARIABLES acct,     \* users
          org,      \* tenants
          refresh,  \* refresh_tokens: the state of the token of each sign-in
          login,    \* sign-ins: the account found, the password verified
          access,   \* the access tokens handed out and still in use
          req,      \* requests being served
          audited,  \* platform_audit_log: the operations on record
          lacking   \* rights a request has lacked ever since it started

vars == <<acct, org, refresh, login, access, req, audited, lacking>>

ManagerKinds == {"update_user", "reset_password", "create_user"}
PlatformKinds == {"enter", "update_tenant", "delete_tenant", "reset_user", "create_tenant"}
Kinds == {"work", "me", "own_password", "logout", "refresh"} \union ManagerKinds \union PlatformKinds

\* PASSWORD_CHANGE_ALLOWED: what an account that must change its password may call.
PasswordChangeAllowed == {"me", "own_password", "logout"}

\* Requests by kind, what they are about, and the value they set.
Body ==
  [kind: {"work", "me"}, on: {None}, new: {None}]
    \union [kind: {"own_password"}, on: {None}, new: Passwords]
    \union [kind: {"logout"}, on: Logins, new: {None}]
    \union [kind: {"update_user"}, on: Users, new: (UserStatus \ {"absent"}) \union Roles]
    \union [kind: {"reset_password", "create_user", "reset_user", "create_tenant"},
            on: Users, new: Passwords]
    \union [kind: {"enter", "delete_tenant"}, on: Tenants, new: {None}]
    \union [kind: {"update_tenant"}, on: Tenants, new: {"active", "suspended"}]

ASSUME SessionsAssumption ==
  /\ Home \in [Users -> Tenants]
  /\ Accounts0 \in [Users -> Account]
  /\ Founded \subseteq Tenants /\ Entered \subseteq Founded
  /\ \A u \in Users: /\ Accounts0[u].status # "absent" => Home[u] \in Founded
                     /\ Accounts0[u].super => Accounts0[u].status # "absent"
  /\ \A s, t \in Founded: Slug[s] = Slug[t] => s = t
  /\ Bodies \subseteq Body
  /\ None \notin Users \union Tenants \union Logins \union Passwords

Stages == {"idle", "renewing", "acting", "admitted", "checked", "locked", "served", "refused"}
Request == [pc: Stages, kind: Kinds, user: Users \union {None}, act: Tenants \union {None},
            role: Roles, on: Users \union Tenants \union Logins \union {None},
            new: Passwords \union UserStatus \union Roles \union {None}]
NoRequest == [pc |-> "idle", kind |-> "work", user |-> None, act |-> None,
              role |-> "associate", on |-> None, new |-> None]
NoLogin == [pc |-> "idle", user |-> None, pwd |-> None, overtaken |-> FALSE]
Rights == {"account", "organisation", "target", "super", "role", "password", "token"}

TypeOK ==
  /\ acct \in [Users -> Account]
  /\ org \in [Tenants -> Organisation]
  /\ refresh \in [Logins -> {"none", "live", "revoked"}]
  /\ login \in [Logins -> [pc: {"idle", "verified", "done"}, user: Users \union {None},
                           pwd: Passwords \union {None}, overtaken: BOOLEAN]]
  /\ access \subseteq Token
  /\ req \in [Requests -> Request]
  /\ audited \subseteq PlatformKinds \X (Users \union Tenants)
  /\ lacking \in [Requests -> SUBSET Rights]
-----------------------------------------------------------------------------
\* _ensure_active and authenticate_token: the organisation is neither suspended nor deleted.
Open(o) == o.status = "active" /\ ~o.deleted

\* The rights q lacks when accounts, organisations and refresh tokens are a, o and t.
Lacked(q, a, o, t) == {c \in Rights:
  \/ c = "account" /\ a[q.user].status # "active"
  \/ c = "organisation" /\ ~Open(o[Home[q.user]])
  \/ c = "target" /\ q.act # None /\ ~Open(o[q.act])
  \/ c = "super" /\ (q.act # None \/ q.kind \in PlatformKinds) /\ ~a[q.user].super
  \/ c = "role" /\ q.kind \in ManagerKinds /\ a[q.user].role \notin Managers
  \/ c = "password" /\ q.kind \notin PasswordChangeAllowed \union {"refresh"} /\ a[q.user].must
  \/ c = "token" /\ q.kind = "refresh" /\ t[q.on] # "live"}

\* tenant_db: the organisation whose rows a request sees.
Context(q) == IF q.act = None THEN Home[q.user] ELSE q.act

\* get_user_by_id under row-level security.
Visible(q, u) == acct[u].status # "absent" /\ Home[u] = Context(q)

\* An it_admin may not touch a partner.
MayManage(q, u) == ~(q.role = "it_admin" /\ acct[u].role = "partner")

\* The row of u is held by the UPDATE of a transaction that has not committed.
Subject(q) == IF q.kind = "own_password" THEN q.user ELSE q.on
RowLocked(u) == \E r \in Requests: req[r].pc = "locked" /\ Subject(req[r]) = u

Move(r, stage) == req' = [req EXCEPT ![r].pc = stage]
Finish(r, stage) == req' = [req EXCEPT ![r] = [NoRequest EXCEPT !.pc = stage]]
Log(kind, thing) == audited' = audited \union {<<kind, thing>>}

Init ==
  /\ acct = Accounts0
  /\ org = [t \in Tenants |-> [status |-> IF t \in Founded THEN "active" ELSE "absent",
                               deleted |-> FALSE]]
  /\ refresh = [l \in Logins |-> "none"]
  /\ login = [l \in Logins |-> NoLogin]
  /\ access = {[user |-> u, act |-> None]: u \in {v \in Users: Accounts0[v].status # "absent"}}
       \union {[user |-> u, act |-> t]: u \in {v \in Users: Accounts0[v].super}, t \in Entered}
  /\ req = [r \in Requests |-> NoRequest]
  /\ audited = {<<"enter", t>>: t \in Entered}
  /\ lacking = [r \in Requests |-> {}]
-----------------------------------------------------------------------------
\* The accounts of an address whose password is w, at the host of one organisation or at
\* the universal one.
Matches(email, w, host) ==
  {u \in Users: /\ acct[u].status # "absent" /\ Email[u] = email /\ acct[u].pwd = w
                /\ ~org[Home[u]].deleted
                /\ host = None \/ Slug[Home[u]] = host}

\* login, first transaction: the only account the password fits.  Several are refused
\* as ambiguous, none as wrong.
Verify(l, u, w, host) ==
  /\ login[l].pc = "idle"
  /\ Matches(Email[u], w, host) = {u}
  /\ Open(org[Home[u]]) /\ acct[u].status = "active"
  /\ login' = [login EXCEPT ![l] = [pc |-> "verified", user |-> u, pwd |-> w,
                                    overtaken |-> FALSE]]
  /\ UNCHANGED <<acct, org, refresh, access, req, audited>>

\* login, second transaction: the refresh token is inserted, then last_login_at of the
\* account is set, for which the UPDATE waits.
Store(l) ==
  /\ login[l].pc = "verified"
  /\ ~RowLocked(login[l].user)
  /\ login' = [login EXCEPT ![l].pc = "done"]
  /\ refresh' = [refresh EXCEPT ![l] = "live"]
  /\ access' = access \union {[user |-> login[l].user, act |-> None]}
  /\ UNCHANGED <<acct, org, req, audited>>

\* Mutant: the query lost its AND NOT revoked.
VerifyRevoked(r, l) ==
  /\ req[r].pc = "idle"
  /\ refresh[l] # "none"
  /\ req' = [req EXCEPT ![r] = [NoRequest EXCEPT !.pc = "renewing", !.kind = "refresh",
                                                 !.user = login[l].user, !.on = l]]
  /\ UNCHANGED <<acct, org, refresh, login, access, audited>>

\* refresh: verify_refresh_token finds a token that is not revoked.
VerifyRefresh(r, l) ==
  /\ req[r].pc = "idle"
  /\ refresh[l] = "live"
  /\ req' = [req EXCEPT ![r] = [NoRequest EXCEPT !.pc = "renewing", !.kind = "refresh",
                                                 !.user = login[l].user, !.on = l]]
  /\ UNCHANGED <<acct, org, refresh, login, access, audited>>

\* refresh: get_identity, _ensure_active, and the new access token.
Renew(r) ==
  LET q == req[r]
      good == acct[q.user].status = "active" /\ Open(org[Home[q.user]])
  IN /\ q.pc = "renewing"
     /\ Finish(r, IF good THEN "served" ELSE "refused")
     /\ access' = IF good THEN access \union {[user |-> q.user, act |-> None]} ELSE access
     /\ UNCHANGED <<acct, org, refresh, login, audited>>
-----------------------------------------------------------------------------
\* authenticate_token reads account and organisation in one statement, in a transaction
\* of its own; a token for another organisation has that one read next.
Authenticate(r, token, body) ==
  LET q == [pc |-> IF token.act = None THEN "admitted" ELSE "acting",
            kind |-> body.kind, user |-> token.user, act |-> token.act,
            role |-> acct[token.user].role, on |-> body.on, new |-> body.new]
  IN /\ req[r].pc = "idle"
     /\ token \in access
     /\ acct[token.user].status = "active" /\ Open(org[Home[token.user]])
     /\ token.act # None => acct[token.user].super
     /\ acct[token.user].must => body.kind \in PasswordChangeAllowed
     /\ body.kind \in ManagerKinds => acct[token.user].role \in Managers
     /\ body.kind \in PlatformKinds => acct[token.user].super
     /\ req' = [req EXCEPT ![r] = q]
     /\ UNCHANGED <<acct, org, refresh, login, access, audited>>

\* authenticate_token: the organisation acted in is active.
ReadTarget(r) ==
  /\ req[r].pc = "acting"
  /\ IF Open(org[req[r].act]) THEN Move(r, "admitted") ELSE Finish(r, "refused")
  /\ UNCHANGED <<acct, org, refresh, login, access, audited>>

\* Any other route, GET /auth/me, PUT /auth/me/locale.
Answer(r) ==
  /\ req[r].pc = "admitted" /\ req[r].kind \in {"work", "me"}
  /\ Finish(r, "served")
  /\ UNCHANGED <<acct, org, refresh, login, access, audited>>

\* Mutant: the token's row is deleted instead of marked.
LogoutDeletes(r) ==
  LET q == req[r] IN
  /\ q.pc = "admitted" /\ q.kind = "logout"
  /\ refresh' = [refresh EXCEPT ![q.on] = "deleted"]
  /\ Finish(r, "served")
  /\ UNCHANGED <<acct, org, login, access, audited>>

\* logout: whoever's the token given is, it is revoked, if row-level security lets the
\* organisation of the caller see it; in platform mode, when acting elsewhere, always.
Logout(r) ==
  LET q == req[r]
      seen == q.act # None \/ Home[login[q.on].user] = Home[q.user]
  IN /\ q.pc = "admitted" /\ q.kind = "logout"
     /\ refresh' = [refresh EXCEPT ![q.on] = IF @ = "live" /\ seen THEN "revoked" ELSE @]
     /\ Finish(r, "served")
     /\ UNCHANGED <<acct, org, login, access, audited>>

\* update_existing_user, reset_password: the account is read and may be managed;
\* create_new_user: the address is free.
CheckUser(r) ==
  LET q == req[r] IN
  /\ q.pc = "admitted" /\ q.kind \in ManagerKinds
  /\ LET fine == IF q.kind = "create_user"
                 THEN acct[q.on].status = "absent" /\ Home[q.on] = Context(q)
                 ELSE Visible(q, q.on) /\ MayManage(q, q.on)
     IN IF fine THEN Move(r, "checked") ELSE Finish(r, "refused")
  /\ UNCHANGED <<acct, org, refresh, login, access, audited>>

\* Mutant: the whole row is written back, from a copy read long ago.
UpdateWholeRow(r) ==
  LET q == req[r] IN
  /\ q.pc = "checked" /\ q.kind = "update_user"
  /\ ~RowLocked(q.on)
  /\ acct' = [acct EXCEPT ![q.on] = [Accounts0[q.on] EXCEPT
                 !.role = IF q.new \in Roles THEN q.new ELSE @,
                 !.status = IF q.new \in Roles THEN acct[q.on].status ELSE q.new]]
  /\ Finish(r, "served")
  /\ UNCHANGED <<org, refresh, login, access, audited>>

\* update_user: only the columns given are written.
UpdateUser(r) ==
  LET q == req[r] IN
  /\ q.pc = "checked" /\ q.kind = "update_user"
  /\ ~RowLocked(q.on)
  /\ acct' = IF q.new \in Roles THEN [acct EXCEPT ![q.on].role = q.new]
                                ELSE [acct EXCEPT ![q.on].status = q.new]
  /\ Finish(r, "served")
  /\ UNCHANGED <<org, refresh, login, access, audited>>

\* create_user: the unique index refuses a second account with the address; a generated
\* password has to be changed.
InsertUser(r) ==
  LET q == req[r] IN
  /\ q.pc = "checked" /\ q.kind = "create_user"
  /\ \/ /\ acct[q.on].status = "absent"
        /\ \E temporary \in BOOLEAN, role \in Roles:
             /\ q.role = "it_admin" => role # "partner"
             /\ acct' = [acct EXCEPT ![q.on] = [status |-> "active", role |-> role, super |-> FALSE,
                                                pwd |-> q.new, must |-> temporary]]
        /\ Finish(r, "served")
     \/ /\ acct[q.on].status # "absent"
        /\ Finish(r, "refused")
        /\ UNCHANGED acct
  /\ UNCHANGED <<org, refresh, login, access, audited>>
-----------------------------------------------------------------------------
PasswordKinds == {"own_password", "reset_password", "reset_user"}

\* change_password: the row of the account is updated, and held until the commit.
ChangePassword(r) ==
  LET q == req[r] IN
  /\ q.kind \in PasswordKinds
  /\ q.pc = IF q.kind = "own_password" THEN "admitted" ELSE "checked"
  /\ ~RowLocked(Subject(q))
  /\ Move(r, "locked")
  /\ UNCHANGED <<acct, org, refresh, login, access, audited>>

\* A password somebody else has set has to be changed.
MustChange(q) == q.kind = "reset_user" \/ (q.kind = "reset_password" /\ q.on # q.user)

SetPassword(q) ==
  acct' = [acct EXCEPT ![Subject(q)].pwd = q.new, ![Subject(q)].must = MustChange(q)]

\* Sign-ins of u that have verified a password and not stored their token yet.
Overtake(u) ==
  login' = [l \in Logins |-> IF login[l].pc = "verified" /\ login[l].user = u
                             THEN [login[l] EXCEPT !.overtaken = TRUE] ELSE login[l]]

\* Mutant: the tokens of the account are left alone.
RevokeNothing(r) ==
  LET q == req[r] IN
  /\ q.pc = "locked"
  /\ SetPassword(q)
  /\ Overtake(Subject(q))
  /\ IF q.kind = "reset_user" THEN Log(q.kind, q.on) ELSE UNCHANGED audited
  /\ Finish(r, "served")
  /\ UNCHANGED <<org, refresh, access>>

\* revoke_all_user_tokens, the audit row of the platform's reset, and the commit of both
\* UPDATEs.  A transaction that has not committed is out of the revocation's sight.
RevokeSessions(r) ==
  LET q == req[r] IN
  /\ q.pc = "locked"
  /\ SetPassword(q)
  /\ Overtake(Subject(q))
  /\ refresh' = [l \in Logins |-> IF refresh[l] = "live" /\ login[l].user = Subject(q)
                                  THEN "revoked" ELSE refresh[l]]
  /\ IF q.kind = "reset_user" THEN Log(q.kind, q.on) ELSE UNCHANGED audited
  /\ Finish(r, "served")
  /\ UNCHANGED <<org, access>>
-----------------------------------------------------------------------------
InBeing(t) == org[t].status # "absent" /\ ~org[t].deleted

\* slug_taken.
SlugTaken(t) == \E s \in Tenants: Slug[s] = Slug[t] /\ InBeing(s)

\* The reads and checks of the platform panel on the organisation (or its user).
TenantCheck(q) ==
  CASE q.kind = "enter" -> Open(org[q.on])
    [] q.kind = "update_tenant" -> /\ InBeing(q.on)
                                   /\ ~(q.new = "suspended" /\ q.on = Home[q.user])
    [] q.kind = "delete_tenant" -> InBeing(q.on) /\ q.on # Home[q.user]
    [] q.kind = "reset_user" -> acct[q.on].status # "absent"
    [] OTHER -> org[Home[q.on]].status = "absent" /\ ~SlugTaken(Home[q.on])

CheckTenant(r) ==
  /\ req[r].pc = "admitted" /\ req[r].kind \in PlatformKinds
  /\ IF TenantCheck(req[r]) THEN Move(r, "checked") ELSE Finish(r, "refused")
  /\ UNCHANGED <<acct, org, refresh, login, access, audited>>

\* Mutant: the token is handed out without the audit row.
EnterUnlogged(r) ==
  LET q == req[r] IN
  /\ q.pc = "checked" /\ q.kind = "enter"
  /\ access' = access \union {[user |-> q.user, act |-> q.on]}
  /\ Finish(r, "served")
  /\ UNCHANGED <<acct, org, refresh, login, audited>>

\* enter_tenant: the audit row is committed, then the token issued.
Enter(r) ==
  LET q == req[r] IN
  /\ q.pc = "checked" /\ q.kind = "enter"
  /\ Log("enter", q.on)
  /\ access' = access \union {[user |-> q.user, act |-> q.on]}
  /\ Finish(r, "served")
  /\ UNCHANGED <<acct, org, refresh, login>>

\* Mutant: the UPDATE lost its WHERE deleted_at IS NULL.
UpdateAnyTenant(r) ==
  LET q == req[r] IN
  /\ q.pc = "checked" /\ q.kind = "update_tenant"
  /\ org' = [org EXCEPT ![q.on].status = q.new]
  /\ Log("update_tenant", q.on)
  /\ Finish(r, "served")
  /\ UNCHANGED <<acct, refresh, login, access>>

\* update_tenant: UPDATE ... WHERE deleted_at IS NULL, and the audit row in either case.
UpdateTenant(r) ==
  LET q == req[r] IN
  /\ q.pc = "checked" /\ q.kind = "update_tenant"
  /\ org' = IF org[q.on].deleted THEN org ELSE [org EXCEPT ![q.on].status = q.new]
  /\ Log("update_tenant", q.on)
  /\ Finish(r, "served")
  /\ UNCHANGED <<acct, refresh, login, access>>

\* soft_delete_tenant, and the audit row in either case.
DeleteTenant(r) ==
  LET q == req[r] IN
  /\ q.pc = "checked" /\ q.kind = "delete_tenant"
  /\ org' = [org EXCEPT ![q.on].deleted = TRUE]
  /\ Log("delete_tenant", q.on)
  /\ Finish(r, "served")
  /\ UNCHANGED <<acct, refresh, login, access>>

\* Mutant: no unique index stands behind the check of the slug.
CreateUnindexed(r) ==
  LET q == req[r]
      t == Home[q.on]
  IN /\ q.pc = "checked" /\ q.kind = "create_tenant"
     /\ org[t].status = "absent"
     /\ org' = [org EXCEPT ![t].status = "active"]
     /\ acct' = [acct EXCEPT ![q.on] = [status |-> "active", role |-> "partner", super |-> FALSE,
                                        pwd |-> q.new, must |-> TRUE]]
     /\ Log("create_tenant", t)
     /\ Finish(r, "served")
     /\ UNCHANGED <<refresh, login, access>>

\* create_tenant: organisation, first admin and audit row in one transaction, which the
\* unique index on the slug of live organisations rolls back.
CreateTenant(r) ==
  LET q == req[r]
      t == Home[q.on]
  IN /\ q.pc = "checked" /\ q.kind = "create_tenant"
     /\ \/ /\ ~SlugTaken(t) /\ org[t].status = "absent"
           /\ org' = [org EXCEPT ![t].status = "active"]
           /\ acct' = [acct EXCEPT ![q.on] = [status |-> "active", role |-> "partner",
                                              super |-> FALSE, pwd |-> q.new, must |-> TRUE]]
           /\ Log("create_tenant", t)
           /\ Finish(r, "served")
        \/ /\ SlugTaken(t) \/ org[t].status # "absent"
           /\ Finish(r, "refused")
           /\ UNCHANGED <<org, acct, audited>>
     /\ UNCHANGED <<refresh, login, access>>

\* Outside the program: an operator takes the super-admin right away in the database.
TakeSuper(u) ==
  /\ acct[u].super
  /\ acct' = [acct EXCEPT ![u].super = FALSE]
  /\ UNCHANGED <<org, refresh, login, access, req, audited>>
-----------------------------------------------------------------------------
\* The rights a request has lacked at every moment since its first read.
Watch == lacking' = [r \in Requests |->
  CASE req'[r].pc \in {"idle", "refused"} -> {}
    [] req'[r].pc = "served" -> lacking[r]
    [] OTHER -> LET now == Lacked(req'[r], acct', org', refresh')
                IN IF req[r].pc = "idle" THEN now ELSE lacking[r] \intersect now]

Next ==
  \/ \E l \in Logins, u \in Users, w \in Passwords:
       \E host \in {None} \union {Slug[t]: t \in Tenants}: Verify(l, u, w, host) /\ Watch
  \/ \E l \in Logins: Store(l) /\ Watch
  \/ \E r \in Requests, l \in Logins: VerifyRefresh(r, l) /\ Watch
  \/ \E r \in Requests: Renew(r) /\ Watch
  \/ \E r \in Requests, token \in access, body \in Bodies: Authenticate(r, token, body) /\ Watch
  \/ \E r \in Requests: ReadTarget(r) /\ Watch
  \/ \E r \in Requests: Answer(r) /\ Watch
  \/ \E r \in Requests: Logout(r) /\ Watch
  \/ \E r \in Requests: CheckUser(r) /\ Watch
  \/ \E r \in Requests: UpdateUser(r) /\ Watch
  \/ \E r \in Requests: InsertUser(r) /\ Watch
  \/ \E r \in Requests: ChangePassword(r) /\ Watch
  \/ \E r \in Requests: RevokeSessions(r) /\ Watch
  \/ \E r \in Requests: CheckTenant(r) /\ Watch
  \/ \E r \in Requests: Enter(r) /\ Watch
  \/ \E r \in Requests: UpdateTenant(r) /\ Watch
  \/ \E r \in Requests: DeleteTenant(r) /\ Watch
  \/ \E r \in Requests: CreateTenant(r) /\ Watch
  \/ \E u \in Users: TakeSuper(u) /\ Watch

Spec == Init /\ [][Next]_vars
-----------------------------------------------------------------------------
\* A request is never served on a right (active account, open organisation, super-admin,
\* role, unrevoked refresh token, no password to change) that it has lacked ever since it
\* started, however old its token: suspension works at once (authenticate_token).
NothingServedWithoutRights ==
  \A r \in Requests: req[r].pc \in {"admitted", "checked", "locked", "served"} => lacking[r] = {}

\* A session outlives a change of its account's password only if its sign-in had verified
\* the old password and not yet stored its token when the change was committed: login and
\* change_password serialise on the row of the account.
StaleSessionsWereOvertaken ==
  \A l \in Logins: refresh[l] = "live" /\ login[l].pwd # acct[login[l].user].pwd
                     => login[l].overtaken

\* Only a password request changes the password of an account, and the demand to change
\* it is lifted only by its owner's, whatever updates of the account run meanwhile.
PasswordsChangeOnRequest ==
  [][\A u \in Users:
       \/ acct[u].status = "absent"
       \/ acct'[u].pwd = acct[u].pwd /\ acct'[u].must = acct[u].must
       \/ \E r \in Requests: /\ req[r].pc = "locked" /\ req'[r].pc = "served"
                              /\ Subject(req[r]) = u
                              /\ (acct[u].must => acct'[u].must \/ req[r].user = u)]_vars

\* A deleted organisation's row never changes again, although every handler decides on a
\* row it read before.
DeletedIsFinal == [][\A t \in Tenants: org[t].deleted => org'[t] = org[t]]_vars

\* Two organisations in being never share a slug, which is what sends a host to one of them.
SlugsDistinct == \A s, t \in {t \in Tenants: InBeing(t)}: Slug[s] = Slug[t] => s = t

\* What the platform panel does is on record: no token for another organisation, and no
\* organisation founded, suspended or deleted, without its audit row.
PlatformActsOnRecord ==
  /\ \A token \in access: token.act # None => <<"enter", token.act>> \in audited
  /\ \A t \in Tenants: org[t].deleted => <<"delete_tenant", t>> \in audited
  /\ \A t \in Tenants: org[t].status = "suspended" => <<"update_tenant", t>> \in audited
  /\ \A t \in Tenants \ Founded: org[t].status # "absent" => <<"create_tenant", t>> \in audited

\* What reset_password says of itself: all the sessions of the account end with its password.
SessionsEndWithPassword ==
  \A l \in Logins: refresh[l] = "live" => login[l].pwd = acct[login[l].user].pwd
=============================================================================
