--------------------------- MODULE SessionsProofs ---------------------------
(***************************************************************************)
(* Safety of accounts, organisations and sessions, for any number of       *)
(* accounts, organisations, sign-ins and requests.                         *)
(***************************************************************************)
EXTENDS Sessions, TLAPS

Busy == {"renewing", "acting", "admitted", "checked", "locked"}
Granted == {"admitted", "checked", "locked"}
There(u) == acct[u].status # "absent"
Stands(t) == org[t].status # "absent"

\* What a request carries fits its kind.
Fit(q) == q.pc \in Busy =>
  /\ q.user \in Users
  /\ q.kind \in {"logout", "refresh"} => q.on \in Logins
  /\ q.kind \in ManagerKinds \union {"reset_user", "create_tenant"} => q.on \in Users
  /\ q.kind \in {"enter", "delete_tenant", "update_tenant"} => q.on \in Tenants
  /\ q.kind \in PasswordKinds \union {"create_user", "create_tenant"} => q.new \in Passwords
  /\ q.kind = "update_user" => q.new \in (UserStatus \ {"absent"}) \union Roles
  /\ q.kind = "update_tenant" => q.new \in {"active", "suspended"}
  /\ q.pc = "renewing" <=> q.kind = "refresh"
  /\ q.pc = "renewing" => q.act = None
  /\ q.pc = "acting" => q.act # None
  /\ q.pc = "locked" => q.kind \in PasswordKinds

\* What a request has found in being still is: nothing that exists ceases to.
Exists(q) == q.pc \in Busy =>
  /\ There(q.user)
  /\ q.pc \in Granted /\ q.act # None => Stands(q.act)
  /\ q.pc \in {"checked", "locked"} /\ q.kind \in {"update_user", "reset_password", "reset_user"}
       => There(q.on)
  /\ q.pc = "checked" /\ q.kind = "create_user" => Stands(Home[q.on])
  /\ q.pc = "checked" /\ q.kind \in {"enter", "update_tenant", "delete_tenant"} => Stands(q.on)

RequestsFit == \A r \in Requests: Fit(req[r])
LoginsFit ==
  \A l \in Logins: /\ login[l].pc # "idle" => login[l].user \in Users
                   /\ refresh[l] # "none" => login[l].pc = "done"

RequestsExist == \A r \in Requests: Exists(req[r])
TablesExist ==
  /\ \A u \in Users: There(u) => Stands(Home[u])
  /\ \A t \in Tenants: org[t].deleted => Stands(t)
  /\ \A token \in access: There(token.user)
  /\ \A l \in Logins: login[l].pc # "idle" => There(login[l].user)

\* A sign-in nobody has overtaken goes by the password its account has.
LoginsFresh ==
  \A l \in Logins: (login[l].pc = "verified" \/ refresh[l] = "live") /\ ~login[l].overtaken
                     => login[l].pwd = acct[login[l].user].pwd

\* What a request may still have lacked so far: before the organisation acted in is read,
\* that; before the account is read, what it lacks now.
LackInv ==
  \A r \in Requests:
    /\ req[r].pc \in Granted \union {"served"} => lacking[r] = {}
    /\ req[r].pc = "acting" => lacking[r] \subseteq {"target"}
    /\ req[r].pc = "renewing" =>
         lacking[r] \subseteq Lacked(req[r], acct, org, refresh) \intersect {"account", "organisation"}

\* The inductive invariant.
TypeInv == TypeOK /\ RequestsFit /\ LoginsFit
ExistInv == RequestsExist /\ TablesExist
IInv == TypeInv /\ ExistInv /\ LackInv /\ LoginsFresh /\ SlugsDistinct /\ PlatformActsOnRecord

\* Nothing that exists ceases to, and its password stays.
Grows == /\ \A u \in Users: There(u) => acct'[u].status # "absent"
         /\ \A t \in Tenants: Stands(t) => org'[t].status # "absent"
PasswordsStay == \A u \in Users: There(u) => acct'[u].pwd = acct[u].pwd

-----------------------------------------------------------------------------
\* How a request ends, and how it moves on.
LEMMA FinishIs ==
  ASSUME TypeOK, NEW r \in Requests, NEW stage \in {"served", "refused"}, Finish(r, stage)
  PROVE  /\ req' \in [Requests -> Request]
         /\ req'[r].pc = stage
         /\ \A s \in Requests: s # r => req'[s] = req[s]
<1>1. [NoRequest EXCEPT !.pc = stage] \in Request /\ [NoRequest EXCEPT !.pc = stage].pc = stage
  BY DEF NoRequest, Request, Stages, Kinds, Roles
<1>2. QED
  BY <1>1 DEF Finish, TypeOK

LEMMA MoveIs ==
  ASSUME TypeOK, NEW r \in Requests, NEW stage \in Stages, Move(r, stage)
  PROVE  /\ req' \in [Requests -> Request]
         /\ req'[r].pc = stage
         /\ req'[r].kind = req[r].kind /\ req'[r].user = req[r].user /\ req'[r].act = req[r].act
         /\ req'[r].on = req[r].on /\ req'[r].new = req[r].new /\ req'[r].role = req[r].role
         /\ \A s \in Requests: s # r => req'[s] = req[s]
<1>1. req[r] \in Request
  BY DEF TypeOK
<1>2. [req[r] EXCEPT !.pc = stage] \in Request
  BY <1>1 DEF Request
<1>3. req' = [req EXCEPT ![r] = [req[r] EXCEPT !.pc = stage]]
  BY DEF Move, TypeOK
<1>4. req'[r] = [req[r] EXCEPT !.pc = stage] /\ \A s \in Requests: s # r => req'[s] = req[s]
  BY <1>3 DEF TypeOK
<1>5. req' \in [Requests -> Request]
  BY <1>2, <1>3 DEF TypeOK
<1>6. QED
  BY <1>1, <1>4, <1>5 DEF Request

LEMMA LackedType ==
  ASSUME NEW q, NEW a, NEW o, NEW t
  PROVE  Lacked(q, a, o, t) \subseteq Rights
BY DEF Lacked

\* Requests that do not move stay fit and about things that exist.
LEMMA RequestsKeep ==
  ASSUME IInv, Grows, req' \in [Requests -> Request],
         \A s \in Requests: req'[s] = req[s] \/ (Fit(req[s])' /\ Exists(req[s])')
  PROVE  RequestsFit' /\ RequestsExist'
<1>1. RequestsFit'
  BY DEF IInv, TypeInv, RequestsFit, Fit
<1>2. ASSUME NEW s \in Requests, req'[s] = req[s]
      PROVE  Exists(req[s])'
  <2>1. Fit(req[s]) /\ Exists(req[s]) /\ req[s] \in Request
    BY DEF IInv, TypeInv, TypeOK, RequestsFit, ExistInv, RequestsExist
  <2>2. SUFFICES ASSUME req[s].pc \in Busy
                 PROVE  Exists(req[s])'
    BY <1>2 DEF Exists
  <2>3. req[s].user \in Users /\ req[s].act \in Tenants \union {None}
    BY <2>1, <2>2 DEF Fit, Request
  <2>4. There(req[s].user)'
    BY <1>2, <2>1, <2>2, <2>3 DEF Exists, Grows, There
  <2>5. req[s].pc \in Granted /\ req[s].act # None => Stands(req[s].act)'
    BY <1>2, <2>1, <2>2, <2>3 DEF Exists, Grows, Stands
  <2>6. req[s].pc \in {"checked", "locked"} /\ req[s].kind \in {"update_user", "reset_password", "reset_user"}
          => There(req[s].on)'
    BY <1>2, <2>1, <2>2 DEF Exists, Fit, Grows, There, ManagerKinds
  <2>7. req[s].pc = "checked" /\ req[s].kind = "create_user" => Stands(Home[req[s].on])'
    BY <1>2, <2>1, <2>2, SessionsAssumption DEF Exists, Fit, Grows, Stands, ManagerKinds
  <2>8. req[s].pc = "checked" /\ req[s].kind \in {"enter", "update_tenant", "delete_tenant"}
          => Stands(req[s].on)'
    BY <1>2, <2>1, <2>2 DEF Exists, Fit, Grows, Stands
  <2>9. QED
    BY <1>2, <2>4, <2>5, <2>6, <2>7, <2>8 DEF Exists
<1>3. QED
  BY <1>1, <1>2 DEF RequestsExist

\* A request never comes to lack a right again that it has had.
Settles(s) ==
  LET now == Lacked(req'[s], acct', org', refresh') IN
  /\ req'[s].pc = "served" => lacking[s] = {}
  /\ req'[s].pc \in Granted => (IF req[s].pc = "idle" THEN now ELSE lacking[s] \intersect now) = {}
  /\ req'[s].pc = "acting" => req[s].pc = "idle" /\ now \subseteq {"target"}
  /\ req'[s].pc = "renewing" => req[s].pc = "idle" /\ now \subseteq {"account", "organisation"}

LEMMA LackKeeps ==
  ASSUME IInv, Watch, req' \in [Requests -> Request],
         \A s \in Requests: req'[s] = req[s] \/ Settles(s)
  PROVE  LackInv' /\ lacking' \in [Requests -> SUBSET Rights]
<1> DEFINE now(s) == Lacked(req'[s], acct', org', refresh')
<1>1. /\ DOMAIN lacking' = Requests
      /\ lacking' = [s \in Requests |-> lacking'[s]]
      /\ \A s \in Requests:
           /\ req'[s].pc \in {"idle", "refused"} => lacking'[s] = {}
           /\ req'[s].pc = "served" => lacking'[s] = lacking[s]
           /\ req'[s].pc \in Busy =>
                lacking'[s] = IF req[s].pc = "idle" THEN now(s) ELSE lacking[s] \intersect now(s)
  BY DEF Watch, Busy
<1>2. \A s \in Requests: now(s) \subseteq Rights
  BY LackedType
<1>3. \A s \in Requests: lacking[s] \subseteq Rights /\ req[s].pc \in Stages /\ req'[s].pc \in Stages
  BY DEF IInv, TypeInv, TypeOK, Request
<1>4. lacking' \in [Requests -> SUBSET Rights]
  <2>1. \A s \in Requests: lacking'[s] \subseteq Rights
    BY <1>1, <1>2, <1>3 DEF Stages, Busy
  <2>2. QED
    BY <1>1, <2>1
<1>5. ASSUME NEW s \in Requests
      PROVE  /\ req'[s].pc \in Granted \union {"served"} => lacking'[s] = {}
             /\ req'[s].pc = "acting" => lacking'[s] \subseteq {"target"}
             /\ req'[s].pc = "renewing" =>
                  lacking'[s] \subseteq now(s) \intersect {"account", "organisation"}
  <2> HIDE DEF now
  <2>1. CASE req'[s] = req[s]
    BY <1>1, <2>1 DEF IInv, LackInv, Granted, Busy
  <2>2. CASE Settles(s)
    BY <1>1, <2>2 DEF Settles, Granted, Busy, now
  <2>3. QED
    BY <2>1, <2>2
<1>6. QED
  BY <1>4, <1>5 DEF LackInv

\* A step of one request, as far as the requests go.
RequestsStep ==
  /\ req' \in [Requests -> Request]
  /\ \A s \in Requests: req'[s] = req[s] \/ (Fit(req[s])' /\ Exists(req[s])' /\ Settles(s))

LEMMA Ends ==
  ASSUME IInv, NEW r \in Requests, NEW stage \in {"served", "refused"}, Finish(r, stage),
         stage = "served" => lacking[r] = {}
  PROVE  RequestsStep
<1>1. /\ req' \in [Requests -> Request] /\ req'[r].pc = stage
      /\ \A s \in Requests: s # r => req'[s] = req[s]
  BY FinishIs DEF IInv, TypeInv
<1>2. Fit(req[r])' /\ Exists(req[r])'
  BY <1>1 DEF Fit, Exists, Busy
<1>3. Settles(r)
  BY <1>1 DEF Settles, Granted
<1>4. QED
  BY <1>1, <1>2, <1>3 DEF RequestsStep

\* A request that was granted what it needs moves on.
LEMMA Moves ==
  ASSUME IInv, Grows, NEW r \in Requests, NEW stage \in {"checked", "locked"}, Move(r, stage),
         req[r].pc \in Granted,
         stage = "locked" => req[r].kind \in PasswordKinds,
         Exists(req[r])'
  PROVE  RequestsStep
<1>1. /\ req' \in [Requests -> Request]
      /\ req'[r].pc = stage
      /\ req'[r].kind = req[r].kind /\ req'[r].user = req[r].user /\ req'[r].act = req[r].act
      /\ req'[r].on = req[r].on /\ req'[r].new = req[r].new
      /\ \A s \in Requests: s # r => req'[s] = req[s]
  BY MoveIs DEF IInv, TypeInv, Stages
<1>2. Fit(req[r])'
  BY <1>1 DEF IInv, TypeInv, RequestsFit, Fit, Busy, Granted
<1>3. Settles(r)
  BY <1>1 DEF IInv, LackInv, Settles, Granted
<1>4. QED
  BY <1>1, <1>2, <1>3 DEF RequestsStep

LEMMA LoginsKeep ==
  ASSUME IInv, Grows, PasswordsStay, UNCHANGED login,
         \A l \in Logins: /\ refresh'[l] = "live" => refresh[l] = "live"
                          /\ refresh'[l] # "none" => refresh[l] # "none"
  PROVE  /\ LoginsFit' /\ LoginsFresh'
         /\ \A l \in Logins: login'[l].pc # "idle" => There(login[l].user)'
<1>1. LoginsFit'
  BY DEF IInv, TypeInv, LoginsFit
<1>2. \A l \in Logins: login[l].pc # "idle" => login[l].user \in Users /\ There(login[l].user)
  BY DEF IInv, TypeInv, LoginsFit, ExistInv, TablesExist
<1>3. \A l \in Logins: login'[l].pc # "idle" => There(login[l].user)'
  BY <1>2 DEF Grows, There
<1>4. LoginsFresh'
  BY <1>2 DEF IInv, TypeInv, LoginsFit, LoginsFresh, PasswordsStay
<1>5. QED
  BY <1>1, <1>3, <1>4

LEMMA TablesKeep ==
  ASSUME IInv, Grows,
         \A u \in Users: There(u)' => There(u) \/ Stands(Home[u])',
         \A t \in Tenants: org'[t].deleted => org[t].deleted \/ Stands(t),
         access' \subseteq Token,
         \A token \in access': token \in access \/ There(token.user)',
         \A l \in Logins: login'[l].pc # "idle" => There(login[l].user)'
  PROVE  TablesExist'
<1>1. \A u \in Users: Home[u] \in Tenants
  BY SessionsAssumption
<1>2. \A u \in Users: There(u)' => Stands(Home[u])'
  BY <1>1 DEF IInv, ExistInv, TablesExist, Grows, Stands
<1>3. \A t \in Tenants: org'[t].deleted => Stands(t)'
  BY DEF IInv, ExistInv, TablesExist, Grows, Stands
<1>4. \A token \in access': There(token.user)'
  BY DEF IInv, ExistInv, TablesExist, Grows, There, Token
<1>5. QED
  BY <1>2, <1>3, <1>4 DEF TablesExist

LEMMA RecordKeeps ==
  ASSUME PlatformActsOnRecord, audited \subseteq audited',
         \A token \in access': \/ token \in access
                               \/ token.act = None
                               \/ <<"enter", token.act>> \in audited',
         \A t \in Tenants:
           \/ org'[t] = org[t]
           \/ /\ org'[t].deleted => org[t].deleted \/ <<"delete_tenant", t>> \in audited'
              /\ org'[t].status = "suspended" =>
                   org[t].status = "suspended" \/ <<"update_tenant", t>> \in audited'
              /\ org'[t].status # "absent" => Stands(t) \/ <<"create_tenant", t>> \in audited'
  PROVE  PlatformActsOnRecord'
<1>1. \A token \in access': token.act # None => <<"enter", token.act>> \in audited'
  BY DEF PlatformActsOnRecord
<1>2. \A t \in Tenants: org'[t].deleted => <<"delete_tenant", t>> \in audited'
  BY DEF PlatformActsOnRecord
<1>3. \A t \in Tenants: org'[t].status = "suspended" => <<"update_tenant", t>> \in audited'
  BY DEF PlatformActsOnRecord
<1>4. \A t \in Tenants \ Founded: org'[t].status # "absent" => <<"create_tenant", t>> \in audited'
  BY DEF PlatformActsOnRecord, Stands
<1>5. QED
  BY <1>1, <1>2, <1>3, <1>4 DEF PlatformActsOnRecord

\* A step that leaves accounts, organisations and sign-ins as they are; tokens may be
\* handed out or revoked and the log may grow.
LEMMA RequestOnly ==
  ASSUME IInv, Watch, RequestsStep, UNCHANGED <<acct, org, login>>,
         refresh' \in [Logins -> {"none", "live", "revoked"}],
         \A l \in Logins: /\ refresh'[l] = "live" => refresh[l] = "live"
                          /\ refresh'[l] # "none" => refresh[l] # "none",
         audited \subseteq audited', audited' \subseteq PlatformKinds \X (Users \union Tenants),
         access' \subseteq Token,
         \A token \in access':
           token \in access \/ (/\ There(token.user)
                                /\ token.act = None \/ <<"enter", token.act>> \in audited')
  PROVE  IInv'
<1>1. Grows /\ PasswordsStay
  BY DEF Grows, PasswordsStay, There, Stands
<1>2. RequestsFit' /\ RequestsExist'
  BY <1>1, RequestsKeep DEF RequestsStep
<1>3. LackInv' /\ lacking' \in [Requests -> SUBSET Rights]
  BY LackKeeps DEF RequestsStep
<1>4. /\ LoginsFit' /\ LoginsFresh'
      /\ \A l \in Logins: login'[l].pc # "idle" => There(login[l].user)'
  BY <1>1, LoginsKeep
<1>5. TablesExist'
  <2>1. \A u \in Users: There(u)' => There(u)
    BY DEF There
  <2>2. \A t \in Tenants: org'[t].deleted => org[t].deleted
    OBVIOUS
  <2>3. \A token \in access': token \in access \/ There(token.user)'
    BY DEF There
  <2>4. QED
    BY <1>1, <1>4, <2>1, <2>2, <2>3, TablesKeep
<1>6. PlatformActsOnRecord'
  <2>1. \A t \in Tenants: org'[t] = org[t]
    OBVIOUS
  <2>2. \A token \in access': \/ token \in access \/ token.act = None
                              \/ <<"enter", token.act>> \in audited'
    OBVIOUS
  <2>3. QED
    BY <2>1, <2>2, RecordKeeps DEF IInv
<1>7. SlugsDistinct'
  BY DEF IInv, SlugsDistinct, InBeing
<1>8. TypeOK'
  BY <1>3 DEF IInv, TypeInv, TypeOK, RequestsStep
<1>9. QED
  BY <1>2, <1>3, <1>4, <1>5, <1>6, <1>7, <1>8 DEF IInv, TypeInv, ExistInv
-----------------------------------------------------------------------------
\* What is known of a request under way.
LEMMA Known ==
  ASSUME IInv, NEW r \in Requests
  PROVE  req[r] \in Request /\ Fit(req[r]) /\ Exists(req[r])
BY DEF IInv, TypeInv, TypeOK, RequestsFit, ExistInv, RequestsExist

\* A request whose tokens, tables and log stay as they are.
LEMMA Quiet ==
  ASSUME IInv, Watch, RequestsStep, UNCHANGED <<acct, org, refresh, login, access, audited>>
  PROVE  IInv'
<1>1. /\ refresh' \in [Logins -> {"none", "live", "revoked"}]
      /\ audited' \subseteq PlatformKinds \X (Users \union Tenants) /\ access' \subseteq Token
  BY DEF IInv, TypeInv, TypeOK
<1>2. QED
  BY <1>1, RequestOnly

LEMMA VerifyRefreshInv ==
  ASSUME IInv, NEW r \in Requests, NEW l \in Logins, VerifyRefresh(r, l), Watch
  PROVE  IInv'
<1> DEFINE q == [NoRequest EXCEPT !.pc = "renewing", !.kind = "refresh",
                                  !.user = login[l].user, !.on = l]
<1>1. login[l].user \in Users /\ There(login[l].user)
  BY DEF VerifyRefresh, IInv, TypeInv, LoginsFit, ExistInv, TablesExist
<1>2. /\ q \in Request /\ q.pc = "renewing" /\ q.kind = "refresh" /\ q.user = login[l].user
      /\ q.on = l /\ q.act = None
  BY <1>1 DEF NoRequest, Request, Stages, Kinds, Roles
<1>3. /\ req' \in [Requests -> Request] /\ req'[r] = q
      /\ \A s \in Requests: s # r => req'[s] = req[s]
      /\ UNCHANGED <<acct, org, refresh, login, access, audited>>
      /\ req[r].pc = "idle" /\ refresh[l] = "live"
  BY <1>2 DEF VerifyRefresh, IInv, TypeInv, TypeOK
<1> HIDE DEF q
<1>4. Fit(req[r])' /\ Exists(req[r])'
  BY <1>1, <1>2, <1>3 DEF Fit, Exists, There, Granted, ManagerKinds, PasswordKinds
<1>5. Settles(r)
  BY <1>2, <1>3 DEF Settles, Lacked, Rights, Granted, ManagerKinds, PlatformKinds
<1>6. RequestsStep
  BY <1>3, <1>4, <1>5 DEF RequestsStep
<1>7. QED
  BY <1>3, <1>6, Quiet

LEMMA RenewInv ==
  ASSUME IInv, NEW r \in Requests, Renew(r), Watch
  PROVE  IInv'
<1> DEFINE q == req[r]
           good == acct[q.user].status = "active" /\ Open(org[Home[q.user]])
<1>1. /\ q.pc = "renewing" /\ Finish(r, IF good THEN "served" ELSE "refused")
      /\ access' = (IF good THEN access \union {[user |-> q.user, act |-> None]} ELSE access)
      /\ UNCHANGED <<acct, org, refresh, login, audited>>
  BY DEF Renew
<1>2. q.user \in Users /\ There(q.user) /\ q.kind = "refresh" /\ q.act = None
  BY <1>1, Known DEF Fit, Exists, Busy
<1>3. good => lacking[r] = {}
  BY <1>1, <1>2 DEF IInv, LackInv, Lacked
<1>4. RequestsStep
  BY <1>1, <1>3, Ends
<1>5. access' \subseteq Token
      /\ \A token \in access': token \in access \/ (There(token.user)' /\ token.act = None)
  BY <1>1, <1>2 DEF IInv, TypeInv, TypeOK, Token, There
<1>6. /\ refresh' \in [Logins -> {"none", "live", "revoked"}]
      /\ audited' \subseteq PlatformKinds \X (Users \union Tenants)
  BY <1>1 DEF IInv, TypeInv, TypeOK
<1>7. \A token \in access': token \in access \/ (There(token.user) /\ token.act = None)
  BY <1>1, <1>5 DEF There
<1>8. QED
  BY <1>1, <1>4, <1>5, <1>6, <1>7, RequestOnly

LEMMA AuthenticateInv ==
  ASSUME IInv, NEW r \in Requests, NEW token \in access, NEW body \in Bodies,
         Authenticate(r, token, body), Watch
  PROVE  IInv'
<1> DEFINE q == [pc |-> IF token.act = None THEN "admitted" ELSE "acting",
            kind |-> body.kind, user |-> token.user, act |-> token.act,
            role |-> acct[token.user].role, on |-> body.on, new |-> body.new]
<1>1. token.user \in Users /\ token.act \in Tenants \union {None} /\ There(token.user)
  BY DEF IInv, TypeInv, TypeOK, Token, ExistInv, TablesExist
<1>2. body \in Body
  BY SessionsAssumption
<1>3. /\ body.kind \in Kinds /\ body.kind # "refresh"
      /\ body.on \in Users \union Tenants \union Logins \union {None}
      /\ body.new \in Passwords \union UserStatus \union Roles \union {None}
  BY <1>2 DEF Body, Kinds, ManagerKinds, PlatformKinds, UserStatus, Roles
<1>4. /\ body.kind = "logout" => body.on \in Logins
      /\ body.kind \in ManagerKinds \union {"reset_user", "create_tenant"} => body.on \in Users
      /\ body.kind \in {"enter", "delete_tenant", "update_tenant"} => body.on \in Tenants
      /\ body.kind \in PasswordKinds \union {"create_user", "create_tenant"} => body.new \in Passwords
      /\ body.kind = "update_user" => body.new \in (UserStatus \ {"absent"}) \union Roles
      /\ body.kind = "update_tenant" => body.new \in {"active", "suspended"}
  BY <1>2 DEF Body, ManagerKinds, PasswordKinds
<1>5. acct[token.user].role \in Roles
  BY <1>1 DEF IInv, TypeInv, TypeOK, Account
<1>6. q \in Request
  BY <1>1, <1>3, <1>5 DEF Request, Stages
<1>7. /\ req' \in [Requests -> Request] /\ req'[r] = q
      /\ \A s \in Requests: s # r => req'[s] = req[s]
      /\ UNCHANGED <<acct, org, refresh, login, access, audited>>
      /\ req[r].pc = "idle"
  BY <1>6 DEF Authenticate, IInv, TypeInv, TypeOK
<1>8. /\ acct[token.user].status = "active" /\ Open(org[Home[token.user]])
      /\ token.act # None => acct[token.user].super
      /\ acct[token.user].must => body.kind \in PasswordChangeAllowed
      /\ body.kind \in ManagerKinds => acct[token.user].role \in Managers
      /\ body.kind \in PlatformKinds => acct[token.user].super
  BY DEF Authenticate
<1>9. Fit(req[r])'
  BY <1>1, <1>3, <1>4, <1>7 DEF Fit
<1>10. Exists(req[r])'
  BY <1>1, <1>7 DEF Exists, Granted, There
<1>11. Settles(r)
  <2>1. Lacked(q, acct, org, refresh) \subseteq {"target"}
    BY <1>3, <1>8 DEF Lacked, Rights
  <2>2. token.act = None => Lacked(q, acct, org, refresh) = {}
    BY <2>1 DEF Lacked
  <2> HIDE DEF q
  <2>3. q.pc = IF token.act = None THEN "admitted" ELSE "acting"
    BY DEF q
  <2>4. QED
    BY <1>7, <2>1, <2>2, <2>3 DEF Settles, Granted
<1>12. RequestsStep
  BY <1>7, <1>9, <1>10, <1>11 DEF RequestsStep
<1>13. QED
  BY <1>7, <1>12, Quiet

LEMMA ReadTargetInv ==
  ASSUME IInv, NEW r \in Requests, ReadTarget(r), Watch
  PROVE  IInv'
<1>1. req[r].pc = "acting" /\ UNCHANGED <<acct, org, refresh, login, access, audited>>
  BY DEF ReadTarget
<1>2. CASE Finish(r, "refused")
  <2>1. RequestsStep
    BY <1>2, Ends
  <2>2. QED
    BY <1>1, <2>1, Quiet
<1>3. CASE Open(org[req[r].act]) /\ Move(r, "admitted")
  <2>1. /\ req' \in [Requests -> Request] /\ req'[r].pc = "admitted"
        /\ req'[r].kind = req[r].kind /\ req'[r].user = req[r].user /\ req'[r].act = req[r].act
        /\ req'[r].on = req[r].on /\ req'[r].new = req[r].new
        /\ \A s \in Requests: s # r => req'[s] = req[s]
    BY <1>3, MoveIs DEF IInv, TypeInv, Stages
  <2>2. Fit(req[r])'
    BY <1>1, <2>1, Known DEF Fit, Busy
  <2>3. Exists(req[r])'
    BY <1>1, <1>3, <2>1, Known DEF Exists, Busy, There, Stands, Open
  <2>4. Settles(r)
    <3>1. lacking[r] \subseteq {"target"}
      BY <1>1 DEF IInv, LackInv
    <3>2. "target" \notin Lacked(req'[r], acct', org', refresh')
      BY <1>1, <1>3, <2>1 DEF Lacked
    <3>3. QED
      BY <1>1, <2>1, <3>1, <3>2 DEF Settles
  <2>5. RequestsStep
    BY <2>1, <2>2, <2>3, <2>4 DEF RequestsStep
  <2>6. QED
    BY <1>1, <2>5, Quiet
<1>4. QED
  BY <1>2, <1>3 DEF ReadTarget

LEMMA AnswerInv ==
  ASSUME IInv, NEW r \in Requests, Answer(r), Watch
  PROVE  IInv'
<1>1. lacking[r] = {}
  BY DEF Answer, IInv, LackInv, Granted
<1>2. RequestsStep
  BY <1>1, Ends DEF Answer
<1>3. QED
  BY <1>2, Quiet DEF Answer

LEMMA LogoutInv ==
  ASSUME IInv, NEW r \in Requests, Logout(r), Watch
  PROVE  IInv'
<1>1. lacking[r] = {}
  BY DEF Logout, IInv, LackInv, Granted
<1>2. RequestsStep
  BY <1>1, Ends DEF Logout
<1>3. req[r].on \in Logins
  BY Known DEF Logout, Fit, Busy
<1>4. /\ refresh' \in [Logins -> {"none", "live", "revoked"}]
      /\ \A l \in Logins: /\ refresh'[l] = "live" => refresh[l] = "live"
                          /\ refresh'[l] # "none" => refresh[l] # "none"
  BY <1>3 DEF Logout, IInv, TypeInv, TypeOK
<1>5. audited \subseteq PlatformKinds \X (Users \union Tenants) /\ access \subseteq Token
  BY DEF IInv, TypeInv, TypeOK
<1>6. UNCHANGED <<acct, org, login, access, audited>>
  BY DEF Logout
<1>7. QED
  BY <1>2, <1>4, <1>5, <1>6, RequestOnly

LEMMA CheckUserInv ==
  ASSUME IInv, NEW r \in Requests, CheckUser(r), Watch
  PROVE  IInv'
<1> DEFINE q == req[r]
<1>1. /\ q.pc = "admitted" /\ q.kind \in ManagerKinds
      /\ UNCHANGED <<acct, org, refresh, login, access, audited>>
  BY DEF CheckUser
<1>2. CASE Finish(r, "refused")
  <2>1. RequestsStep
    BY <1>2, Ends
  <2>2. QED
    BY <1>1, <2>1, Quiet
<1>3. CASE /\ Move(r, "checked")
           /\ IF q.kind = "create_user" THEN acct[q.on].status = "absent" /\ Home[q.on] = Context(q)
                                        ELSE Visible(q, q.on) /\ MayManage(q, q.on)
  <2>1. /\ req'[r].pc = "checked"
        /\ req'[r].kind = q.kind /\ req'[r].user = q.user /\ req'[r].act = q.act
        /\ req'[r].on = q.on
    BY <1>3, MoveIs DEF IInv, TypeInv, Stages
  <2>2. q.kind # "create_user" => There(q.on)
    BY <1>3 DEF Visible, There
  <2>3. q.kind = "create_user" => Stands(Home[q.on])
    <3>1. q.user \in Users /\ There(q.user) /\ (q.act # None => Stands(q.act))
      BY <1>1, Known DEF Fit, Exists, Busy, Granted
    <3>2. Stands(Context(q))
      BY <3>1 DEF Context, IInv, ExistInv, TablesExist
    <3>3. QED
      BY <1>3, <3>2
  <2>4. Exists(req[r])'
    BY <1>1, <2>1, <2>2, <2>3, Known DEF Exists, Busy, Granted, There, Stands, ManagerKinds
  <2>5. Grows
    BY <1>1 DEF Grows, There, Stands
  <2>6. RequestsStep
    BY <1>1, <1>3, <2>4, <2>5, Moves DEF Granted
  <2>7. QED
    BY <1>1, <2>6, Quiet
<1>4. QED
  BY <1>2, <1>3 DEF CheckUser

LEMMA CheckTenantInv ==
  ASSUME IInv, NEW r \in Requests, CheckTenant(r), Watch
  PROVE  IInv'
<1> DEFINE q == req[r]
<1>1. /\ q.pc = "admitted" /\ q.kind \in PlatformKinds
      /\ UNCHANGED <<acct, org, refresh, login, access, audited>>
  BY DEF CheckTenant
<1>2. CASE Finish(r, "refused")
  <2>1. RequestsStep
    BY <1>2, Ends
  <2>2. QED
    BY <1>1, <2>1, Quiet
<1>3. CASE TenantCheck(q) /\ Move(r, "checked")
  <2>1. /\ req'[r].pc = "checked"
        /\ req'[r].kind = q.kind /\ req'[r].user = q.user /\ req'[r].act = q.act
        /\ req'[r].on = q.on
    BY <1>3, MoveIs DEF IInv, TypeInv, Stages
  <2>2. q.kind = "reset_user" => There(q.on)
    BY <1>3 DEF TenantCheck, There
  <2>3. q.kind \in {"enter", "update_tenant", "delete_tenant"} => Stands(q.on)
    BY <1>3 DEF TenantCheck, Stands, InBeing, Open
  <2>4. Exists(req[r])'
    BY <1>1, <2>1, <2>2, <2>3, Known DEF Exists, Busy, Granted, There, Stands, PlatformKinds
  <2>5. Grows
    BY <1>1 DEF Grows, There, Stands
  <2>6. RequestsStep
    BY <1>1, <1>3, <2>4, <2>5, Moves DEF Granted
  <2>7. QED
    BY <1>1, <2>6, Quiet
<1>4. QED
  BY <1>2, <1>3 DEF CheckTenant

LEMMA ChangePasswordInv ==
  ASSUME IInv, NEW r \in Requests, ChangePassword(r), Watch
  PROVE  IInv'
<1> DEFINE q == req[r]
<1>1. /\ q.kind \in PasswordKinds /\ Move(r, "locked")
      /\ q.pc = IF q.kind = "own_password" THEN "admitted" ELSE "checked"
      /\ UNCHANGED <<acct, org, refresh, login, access, audited>>
  BY DEF ChangePassword
<1>2. /\ req'[r].pc = "locked"
      /\ req'[r].kind = q.kind /\ req'[r].user = q.user /\ req'[r].act = q.act
      /\ req'[r].on = q.on
  BY <1>1, MoveIs DEF IInv, TypeInv, Stages
<1>3. Exists(req[r])'
  BY <1>1, <1>2, Known DEF Exists, Busy, Granted, There, Stands, PasswordKinds
<1>4. Grows
  BY <1>1 DEF Grows, There, Stands
<1>5. RequestsStep
  BY <1>1, <1>3, <1>4, Moves DEF Granted
<1>6. QED
  BY <1>1, <1>5, Quiet

LEMMA EnterInv ==
  ASSUME IInv, NEW r \in Requests, Enter(r), Watch
  PROVE  IInv'
<1> DEFINE q == req[r]
<1>1. /\ q.pc = "checked" /\ q.kind = "enter" /\ Finish(r, "served")
      /\ audited' = audited \union {<<"enter", q.on>>}
      /\ access' = access \union {[user |-> q.user, act |-> q.on]}
      /\ UNCHANGED <<acct, org, refresh, login>>
  BY DEF Enter, Log
<1>2. q.user \in Users /\ There(q.user) /\ q.on \in Tenants
  BY <1>1, Known DEF Fit, Exists, Busy
<1>3. RequestsStep
  BY <1>1, Ends DEF IInv, LackInv, Granted
<1>4. /\ access' \subseteq Token /\ audited' \subseteq PlatformKinds \X (Users \union Tenants)
      /\ refresh' \in [Logins -> {"none", "live", "revoked"}]
  BY <1>1, <1>2 DEF IInv, TypeInv, TypeOK, Token, PlatformKinds
<1>5. \A token \in access':
        token \in access \/ (There(token.user) /\ <<"enter", token.act>> \in audited')
  BY <1>1, <1>2
<1>6. QED
  BY <1>1, <1>3, <1>4, <1>5, RequestOnly
-----------------------------------------------------------------------------
\* A step that leaves sign-ins and tokens as they are.
LEMMA TablesStep ==
  ASSUME IInv, Watch, RequestsStep, Grows, PasswordsStay, UNCHANGED <<refresh, login, access>>,
         acct' \in [Users -> Account], org' \in [Tenants -> Organisation],
         audited \subseteq audited', audited' \subseteq PlatformKinds \X (Users \union Tenants),
         \A u \in Users: There(u)' => There(u) \/ Stands(Home[u])',
         \A t \in Tenants:
           \/ org'[t] = org[t]
           \/ /\ org'[t].deleted => (org[t].deleted \/ Stands(t))
              /\ org'[t].deleted => (org[t].deleted \/ <<"delete_tenant", t>> \in audited')
              /\ org'[t].status = "suspended" =>
                   (org[t].status = "suspended" \/ <<"update_tenant", t>> \in audited')
              /\ org'[t].status # "absent" => (Stands(t) \/ <<"create_tenant", t>> \in audited'),
         SlugsDistinct'
  PROVE  IInv'
<1>1. RequestsFit' /\ RequestsExist'
  BY RequestsKeep DEF RequestsStep
<1>2. LackInv' /\ lacking' \in [Requests -> SUBSET Rights]
  BY LackKeeps DEF RequestsStep
<1>3. /\ LoginsFit' /\ LoginsFresh'
      /\ \A l \in Logins: login'[l].pc # "idle" => There(login[l].user)'
  BY LoginsKeep
<1>4. access' \subseteq Token
  BY DEF IInv, TypeInv, TypeOK
<1>5. TablesExist'
  <2>1. \A t \in Tenants: org'[t].deleted => org[t].deleted \/ Stands(t)
    OBVIOUS
  <2>2. \A token \in access': token \in access
    OBVIOUS
  <2>3. QED
    BY <1>3, <1>4, <2>1, <2>2, TablesKeep
<1>6. PlatformActsOnRecord'
  <2>1. \A token \in access': token \in access
    OBVIOUS
  <2>2. PlatformActsOnRecord
    BY DEF IInv
  <2>3. QED
    BY <2>1, <2>2, RecordKeeps
<1>7. TypeOK'
  BY <1>2 DEF IInv, TypeInv, TypeOK, RequestsStep
<1>8. QED
  BY <1>1, <1>2, <1>3, <1>5, <1>6, <1>7 DEF IInv, TypeInv, ExistInv

\* A step that changes accounts only.
LEMMA AccountsStep ==
  ASSUME IInv, Watch, RequestsStep, UNCHANGED <<org, refresh, login, access, audited>>,
         acct' \in [Users -> Account],
         \A u \in Users: There(u) => acct'[u].status # "absent" /\ acct'[u].pwd = acct[u].pwd,
         \A u \in Users: There(u)' => There(u) \/ Stands(Home[u])
  PROVE  IInv'
<1>1. Grows /\ PasswordsStay
  BY DEF Grows, PasswordsStay, Stands
<1>2. \A u \in Users: There(u)' => There(u) \/ Stands(Home[u])'
  BY DEF Stands
<1>3. SlugsDistinct'
  BY DEF IInv, SlugsDistinct, InBeing
<1>4. org' \in [Tenants -> Organisation] /\ audited' \subseteq PlatformKinds \X (Users \union Tenants)
  BY DEF IInv, TypeInv, TypeOK
<1>5. (\A t \in Tenants: org'[t] = org[t]) /\ audited \subseteq audited'
  OBVIOUS
<1>6. QED
  BY <1>1, <1>2, <1>3, <1>4, <1>5, TablesStep

LEMMA UpdateUserInv ==
  ASSUME IInv, NEW r \in Requests, UpdateUser(r), Watch
  PROVE  IInv'
<1> DEFINE q == req[r]
<1>1. /\ q.pc = "checked" /\ q.kind = "update_user" /\ Finish(r, "served")
      /\ acct' = (IF q.new \in Roles THEN [acct EXCEPT ![q.on].role = q.new]
                                     ELSE [acct EXCEPT ![q.on].status = q.new])
      /\ UNCHANGED <<org, refresh, login, access, audited>>
  BY DEF UpdateUser
<1>2. q.on \in Users /\ There(q.on) /\ q.new \in (UserStatus \ {"absent"}) \union Roles
  BY <1>1, Known DEF Fit, Exists, Busy, ManagerKinds
<1>3. acct \in [Users -> Account]
  BY DEF IInv, TypeInv, TypeOK
<1>4. /\ acct' \in [Users -> Account]
      /\ \A u \in Users: acct'[u].pwd = acct[u].pwd
      /\ \A u \in Users: There(u) => acct'[u].status # "absent"
      /\ \A u \in Users: acct'[u].status # "absent" => There(u)
  <2>1. CASE q.new \in Roles
    BY <1>1, <1>2, <1>3, <2>1 DEF Account, There
  <2>2. CASE q.new \notin Roles
    BY <1>1, <1>2, <1>3, <2>2 DEF Account, There
  <2>3. QED
    BY <2>1, <2>2
<1>5. RequestsStep
  BY <1>1, Ends DEF IInv, LackInv, Granted
<1>6. \A u \in Users: There(u)' => There(u)
  BY <1>4 DEF There
<1>7. QED
  BY <1>1, <1>4, <1>5, <1>6, AccountsStep

LEMMA InsertUserInv ==
  ASSUME IInv, NEW r \in Requests, InsertUser(r), Watch
  PROVE  IInv'
<1> DEFINE q == req[r]
<1>1. /\ q.pc = "checked" /\ q.kind = "create_user"
      /\ UNCHANGED <<org, refresh, login, access, audited>>
  BY DEF InsertUser
<1>2. q.on \in Users /\ Stands(Home[q.on]) /\ q.new \in Passwords
  BY <1>1, Known DEF Fit, Exists, Busy, ManagerKinds
<1>3. acct \in [Users -> Account] /\ lacking[r] = {}
  BY <1>1 DEF IInv, TypeInv, TypeOK, LackInv, Granted
<1>4. ASSUME acct[q.on].status = "absent", Finish(r, "served"),
             NEW temporary \in BOOLEAN, NEW role \in Roles,
             acct' = [acct EXCEPT ![q.on] = [status |-> "active", role |-> role, super |-> FALSE,
                                             pwd |-> q.new, must |-> temporary]]
      PROVE  IInv'
  <2>1. RequestsStep
    BY <1>3, <1>4, Ends
  <2>2. acct' \in [Users -> Account]
    BY <1>2, <1>3, <1>4 DEF Account, UserStatus
  <2>3. \A u \in Users: u # q.on => acct'[u] = acct[u]
    BY <1>3, <1>4
  <2>4. \A u \in Users: There(u) => acct'[u].status # "absent" /\ acct'[u].pwd = acct[u].pwd
    BY <1>4, <2>3 DEF There
  <2>5. \A u \in Users: There(u)' => There(u) \/ Stands(Home[u])
    BY <1>2, <2>3 DEF There
  <2>6. QED
    BY <1>1, <2>1, <2>2, <2>4, <2>5, AccountsStep
<1>5. CASE Finish(r, "refused") /\ UNCHANGED acct
  <2>1. RequestsStep
    BY <1>5, Ends
  <2>2. QED
    BY <1>1, <1>5, <2>1, Quiet
<1>6. QED
  BY <1>4, <1>5 DEF InsertUser

LEMMA TakeSuperInv ==
  ASSUME IInv, NEW u \in Users, TakeSuper(u), Watch
  PROVE  IInv'
<1>1. /\ acct' = [acct EXCEPT ![u].super = FALSE]
      /\ UNCHANGED <<org, refresh, login, access, req, audited>>
  BY DEF TakeSuper
<1>2. /\ acct' \in [Users -> Account]
      /\ \A v \in Users: acct'[v].status = acct[v].status /\ acct'[v].pwd = acct[v].pwd
  <2>1. acct \in [Users -> Account] /\ acct[u] \in Account
    BY DEF IInv, TypeInv, TypeOK
  <2>2. /\ [acct[u] EXCEPT !.super = FALSE] \in Account
        /\ [acct[u] EXCEPT !.super = FALSE].status = acct[u].status
        /\ [acct[u] EXCEPT !.super = FALSE].pwd = acct[u].pwd
    BY <2>1 DEF Account
  <2>3. acct' = [acct EXCEPT ![u] = [acct[u] EXCEPT !.super = FALSE]]
    BY <1>1, <2>1
  <2>4. QED
    BY <2>1, <2>2, <2>3
<1>3. RequestsStep
  BY <1>1 DEF IInv, TypeInv, TypeOK, RequestsStep
<1>4. /\ \A v \in Users: There(v) => acct'[v].status # "absent" /\ acct'[v].pwd = acct[v].pwd
      /\ \A v \in Users: There(v)' => There(v)
  BY <1>2 DEF There
<1>5. QED
  BY <1>1, <1>2, <1>3, <1>4, AccountsStep

\* A step that changes the status of one organisation, and records it.
LEMMA OrganisationStep ==
  ASSUME IInv, Watch, NEW r \in Requests, NEW kind \in PlatformKinds, NEW t \in Tenants,
         req[r].pc = "checked", Finish(r, "served"), Stands(t), NEW o \in Organisation,
         org' = [org EXCEPT ![t] = o],
         audited' = audited \union {<<kind, t>>},
         UNCHANGED <<acct, refresh, login, access>>,
         o.status # "absent", org[t].deleted => o.deleted,
         o.deleted => org[t].deleted \/ kind = "delete_tenant",
         o.status = "suspended" => org[t].status = "suspended" \/ kind = "update_tenant"
  PROVE  IInv'
<1>1. RequestsStep
  BY Ends DEF IInv, LackInv, Granted
<1>2. org \in [Tenants -> Organisation] /\ acct' \in [Users -> Account]
      /\ audited' \subseteq PlatformKinds \X (Users \union Tenants)
  BY DEF IInv, TypeInv, TypeOK
<1>3. org' \in [Tenants -> Organisation] /\ \A s \in Tenants: org'[s] = IF s = t THEN o ELSE org[s]
  BY <1>2
<1>4. Grows /\ PasswordsStay
  BY <1>3 DEF Grows, PasswordsStay, There, Stands
<1>5. SlugsDistinct'
  BY <1>3 DEF IInv, SlugsDistinct, InBeing, Stands
<1>6. \A s \in Tenants:
        \/ org'[s] = org[s]
        \/ /\ org'[s].deleted => (org[s].deleted \/ Stands(s))
           /\ org'[s].deleted => (org[s].deleted \/ <<"delete_tenant", s>> \in audited')
           /\ org'[s].status = "suspended" =>
                (org[s].status = "suspended" \/ <<"update_tenant", s>> \in audited')
           /\ org'[s].status # "absent" => (Stands(s) \/ <<"create_tenant", s>> \in audited')
  BY <1>3
<1>7. (\A u \in Users: There(u)' => There(u)) /\ audited \subseteq audited'
  BY DEF There
<1>8. QED
  BY <1>1, <1>2, <1>3, <1>4, <1>5, <1>6, <1>7, TablesStep

LEMMA UpdateTenantInv ==
  ASSUME IInv, NEW r \in Requests, UpdateTenant(r), Watch
  PROVE  IInv'
<1> DEFINE t == req[r].on
           o == IF org[t].deleted THEN org[t] ELSE [org[t] EXCEPT !.status = req[r].new]
<1>1. /\ req[r].pc = "checked" /\ req[r].kind = "update_tenant" /\ Finish(r, "served")
      /\ org' = (IF org[t].deleted THEN org ELSE [org EXCEPT ![t].status = req[r].new])
      /\ audited' = audited \union {<<"update_tenant", t>>}
      /\ UNCHANGED <<acct, refresh, login, access>>
  BY DEF UpdateTenant, Log
<1>2. t \in Tenants /\ Stands(t) /\ req[r].new \in {"active", "suspended"}
  BY <1>1, Known DEF Fit, Exists, Busy
<1>3. org \in [Tenants -> Organisation] /\ org[t] \in Organisation
  BY <1>2 DEF IInv, TypeInv, TypeOK
<1>4. org' = [org EXCEPT ![t] = o]
  BY <1>1, <1>2, <1>3
<1>5. o \in Organisation /\ o.status # "absent" /\ o.deleted = org[t].deleted
  BY <1>2, <1>3 DEF Organisation, Stands
<1>6. "update_tenant" \in PlatformKinds
  BY DEF PlatformKinds
<1>7. (org[t].deleted => o.deleted) /\ (o.deleted => org[t].deleted)
  BY <1>5
<1> HIDE DEF o, t
<1>8. QED
  BY <1>1, <1>2, <1>4, <1>5, <1>6, <1>7, OrganisationStep

LEMMA DeleteTenantInv ==
  ASSUME IInv, NEW r \in Requests, DeleteTenant(r), Watch
  PROVE  IInv'
<1> DEFINE t == req[r].on
           o == [org[t] EXCEPT !.deleted = TRUE]
<1>1. /\ req[r].pc = "checked" /\ req[r].kind = "delete_tenant" /\ Finish(r, "served")
      /\ org' = [org EXCEPT ![t].deleted = TRUE]
      /\ audited' = audited \union {<<"delete_tenant", t>>}
      /\ UNCHANGED <<acct, refresh, login, access>>
  BY DEF DeleteTenant, Log
<1>2. t \in Tenants /\ Stands(t)
  BY <1>1, Known DEF Fit, Exists, Busy
<1>3. org \in [Tenants -> Organisation] /\ org[t] \in Organisation
  BY <1>2 DEF IInv, TypeInv, TypeOK
<1>4. org' = [org EXCEPT ![t] = o]
  BY <1>1, <1>2, <1>3
<1>5. o \in Organisation /\ o.status = org[t].status /\ o.deleted = TRUE
  BY <1>2, <1>3 DEF Organisation
<1>6. "delete_tenant" \in PlatformKinds /\ o.status # "absent"
  BY <1>2, <1>5 DEF PlatformKinds, Stands
<1> HIDE DEF o
<1>7. QED
  BY <1>1, <1>2, <1>4, <1>5, <1>6, OrganisationStep

LEMMA CreateTenantInv ==
  ASSUME IInv, NEW r \in Requests, CreateTenant(r), Watch
  PROVE  IInv'
<1> DEFINE q == req[r]
           t == Home[q.on]
           o == [org[t] EXCEPT !.status = "active"]
           a == [status |-> "active", role |-> "partner", super |-> FALSE, pwd |-> q.new, must |-> TRUE]
<1>1. q.pc = "checked" /\ q.kind = "create_tenant" /\ UNCHANGED <<refresh, login, access>>
  BY DEF CreateTenant
<1>2. q.on \in Users /\ t \in Tenants /\ q.new \in Passwords
  BY <1>1, Known, SessionsAssumption DEF Fit, Busy
<1>3. /\ org \in [Tenants -> Organisation] /\ org[t] \in Organisation /\ acct \in [Users -> Account]
      /\ audited \subseteq PlatformKinds \X (Users \union Tenants)
      /\ lacking[r] = {}
  BY <1>1, <1>2 DEF IInv, TypeInv, TypeOK, LackInv, Granted
<1>4. CASE /\ ~SlugTaken(t) /\ org[t].status = "absent"
           /\ org' = [org EXCEPT ![t].status = "active"]
           /\ acct' = [acct EXCEPT ![q.on] = a]
           /\ Log("create_tenant", t) /\ Finish(r, "served")
  <2>1. RequestsStep
    BY <1>3, <1>4, Ends
  <2>2. o \in Organisation /\ o.status = "active" /\ o.deleted = org[t].deleted
    BY <1>3 DEF Organisation
  <2>3. org' = [org EXCEPT ![t] = o]
    BY <1>2, <1>3, <1>4
  <2> HIDE DEF o
  <2>4. org' \in [Tenants -> Organisation] /\ \A s \in Tenants: org'[s] = IF s = t THEN o ELSE org[s]
    BY <1>2, <1>3, <2>2, <2>3
  <2>5. acct' \in [Users -> Account] /\ \A u \in Users: u # q.on => acct'[u] = acct[u]
    BY <1>2, <1>3, <1>4 DEF Account, UserStatus, Roles
  <2>6. ~There(q.on) /\ ~org[t].deleted /\ ~Stands(t)
    BY <1>2, <1>4 DEF IInv, ExistInv, TablesExist, Stands
  <2>7. Grows /\ PasswordsStay
    BY <2>2, <2>4, <2>5, <2>6 DEF Grows, PasswordsStay, There, Stands
  <2>8. \A u \in Users: There(u)' => There(u) \/ Stands(Home[u])'
    BY <1>2, <2>2, <2>4, <2>5 DEF There, Stands
  <2>9. SlugsDistinct'
    <3>1. \A s \in Tenants: s # t /\ InBeing(s)' => InBeing(s) /\ Slug[s] # Slug[t]
      BY <1>4, <2>4 DEF InBeing, SlugTaken
    <3>2. QED
      BY <3>1 DEF IInv, SlugsDistinct
  <2>10. audited \subseteq audited' /\ <<"create_tenant", t>> \in audited'
         /\ audited' \subseteq PlatformKinds \X (Users \union Tenants)
    BY <1>2, <1>3, <1>4 DEF Log, PlatformKinds
  <2>11. \A s \in Tenants:
        \/ org'[s] = org[s]
        \/ /\ org'[s].deleted => (org[s].deleted \/ Stands(s))
           /\ org'[s].deleted => (org[s].deleted \/ <<"delete_tenant", s>> \in audited')
           /\ org'[s].status = "suspended" =>
                (org[s].status = "suspended" \/ <<"update_tenant", s>> \in audited')
           /\ org'[s].status # "absent" => (Stands(s) \/ <<"create_tenant", s>> \in audited')
    BY <2>2, <2>4, <2>10
  <2>12. QED
    BY <1>1, <2>1, <2>4, <2>5, <2>7, <2>8, <2>9, <2>10, <2>11, TablesStep
<1>5. CASE Finish(r, "refused") /\ UNCHANGED <<org, acct, audited>>
  <2>1. RequestsStep
    BY <1>5, Ends
  <2>2. QED
    BY <1>1, <1>5, <2>1, Quiet
<1>6. QED
  BY <1>4, <1>5 DEF CreateTenant
-----------------------------------------------------------------------------
\* A sign-in finds an account that is there, and has verified its password.
LEMMA VerifyInv ==
  ASSUME IInv, NEW l \in Logins, NEW u \in Users, NEW w \in Passwords, NEW host,
         Verify(l, u, w, host), Watch
  PROVE  IInv'
<1> DEFINE x == [pc |-> "verified", user |-> u, pwd |-> w, overtaken |-> FALSE]
<1>1. /\ login[l].pc = "idle" /\ u \in Matches(Email[u], w, host)
      /\ login' = [login EXCEPT ![l] = x]
      /\ UNCHANGED <<acct, org, refresh, access, req, audited>>
  BY DEF Verify
<1>2. There(u) /\ acct[u].pwd = w
  BY <1>1 DEF Matches, There
<1>3. \A m \in Logins: login'[m] = IF m = l THEN x ELSE login[m]
  BY <1>1 DEF IInv, TypeInv, TypeOK
<1>4. refresh[l] = "none"
  BY <1>1 DEF IInv, TypeInv, LoginsFit
<1>5. req' \in [Requests -> Request] /\ \A s \in Requests: req'[s] = req[s]
  BY <1>1 DEF IInv, TypeInv, TypeOK
<1>6. LackInv' /\ lacking' \in [Requests -> SUBSET Rights]
  BY <1>5, LackKeeps
<1>7. TypeOK'
  BY <1>1, <1>6 DEF IInv, TypeInv, TypeOK
<1>8. LoginsFit' /\ LoginsFresh'
  BY <1>1, <1>2, <1>3, <1>4 DEF IInv, TypeInv, LoginsFit, LoginsFresh
<1>9. Grows
  BY <1>1 DEF Grows, There, Stands
<1>10. RequestsFit' /\ RequestsExist'
  BY <1>5, <1>9, RequestsKeep
<1>11. TablesExist'
  BY <1>1, <1>2, <1>3 DEF IInv, ExistInv, TablesExist, There, Stands
<1>12. SlugsDistinct' /\ PlatformActsOnRecord'
  BY <1>1 DEF IInv, SlugsDistinct, PlatformActsOnRecord, InBeing
<1>13. QED
  BY <1>6, <1>7, <1>8, <1>10, <1>11, <1>12 DEF IInv, TypeInv, ExistInv

LEMMA StoreInv ==
  ASSUME IInv, NEW l \in Logins, Store(l), Watch
  PROVE  IInv'
<1> DEFINE u == login[l].user
           x == [login[l] EXCEPT !.pc = "done"]
<1>1. /\ login[l].pc = "verified"
      /\ login' = [login EXCEPT ![l].pc = "done"]
      /\ refresh' = [refresh EXCEPT ![l] = "live"]
      /\ access' = access \union {[user |-> u, act |-> None]}
      /\ UNCHANGED <<acct, org, req, audited>>
  BY DEF Store
<1>2. u \in Users /\ There(u)
  BY <1>1 DEF IInv, TypeInv, LoginsFit, ExistInv, TablesExist
<1>3. /\ login[l] \in [pc: {"idle", "verified", "done"}, user: Users \union {None},
                       pwd: Passwords \union {None}, overtaken: BOOLEAN]
      /\ login \in [Logins -> [pc: {"idle", "verified", "done"}, user: Users \union {None},
                               pwd: Passwords \union {None}, overtaken: BOOLEAN]]
  BY DEF IInv, TypeInv, TypeOK
<1>4. /\ x \in [pc: {"idle", "verified", "done"}, user: Users \union {None},
                pwd: Passwords \union {None}, overtaken: BOOLEAN]
      /\ x.pc = "done" /\ x.user = u /\ x.pwd = login[l].pwd /\ x.overtaken = login[l].overtaken
  BY <1>3
<1>5. login' = [login EXCEPT ![l] = x]
  BY <1>1, <1>3
<1> HIDE DEF x
<1>6. \A m \in Logins: /\ login'[m] = IF m = l THEN x ELSE login[m]
                       /\ refresh'[m] = IF m = l THEN "live" ELSE refresh[m]
  BY <1>1, <1>3, <1>5 DEF IInv, TypeInv, TypeOK
<1>7. req' \in [Requests -> Request] /\ \A s \in Requests: req'[s] = req[s]
  BY <1>1 DEF IInv, TypeInv, TypeOK
<1>8. LackInv' /\ lacking' \in [Requests -> SUBSET Rights]
  BY <1>7, LackKeeps
<1>9. TypeOK'
  BY <1>1, <1>2, <1>3, <1>4, <1>5, <1>8 DEF IInv, TypeInv, TypeOK, Token
<1>10. LoginsFit'
  BY <1>2, <1>4, <1>6 DEF IInv, TypeInv, LoginsFit
<1>11. LoginsFresh'
  BY <1>1, <1>4, <1>6 DEF IInv, LoginsFresh
<1>12. Grows
  BY <1>1 DEF Grows, There, Stands
<1>13. RequestsFit' /\ RequestsExist'
  BY <1>7, <1>12, RequestsKeep
<1>14. TablesExist'
  BY <1>1, <1>2, <1>4, <1>6 DEF IInv, ExistInv, TablesExist, There, Stands
<1>15. SlugsDistinct' /\ PlatformActsOnRecord'
  BY <1>1 DEF IInv, SlugsDistinct, PlatformActsOnRecord, InBeing
<1>16. QED
  BY <1>8, <1>9, <1>10, <1>11, <1>13, <1>14, <1>15 DEF IInv, TypeInv, ExistInv

\* The account, the sign-ins and the tokens after a change of password.
LEMMA RevokeIs ==
  ASSUME IInv, NEW r \in Requests, RevokeSessions(r)
  PROVE  LET u == Subject(req[r]) IN
         /\ u \in Users /\ There(u) /\ req[r].new \in Passwords /\ req[r].kind \in PasswordKinds
         /\ acct' \in [Users -> Account]
         /\ \A v \in Users: v # u => acct'[v] = acct[v]
         /\ acct'[u].status = acct[u].status /\ acct'[u].must = MustChange(req[r])
<1> DEFINE q == req[r]
           u == Subject(q)
           x == [acct[u] EXCEPT !.pwd = q.new, !.must = MustChange(q)]
<1>1. q.pc = "locked" /\ acct' = [acct EXCEPT ![u].pwd = q.new, ![u].must = MustChange(q)]
  BY DEF RevokeSessions, SetPassword
<1>2. /\ q \in Request /\ q.kind \in PasswordKinds /\ q.user \in Users /\ There(q.user)
      /\ q.new \in Passwords
      /\ q.kind # "own_password" => q.on \in Users /\ There(q.on)
  BY <1>1, Known DEF Fit, Exists, Busy, PasswordKinds, ManagerKinds
<1>3. u \in Users /\ There(u)
  BY <1>2 DEF Subject
<1>4. acct \in [Users -> Account] /\ acct[u] \in Account
  BY <1>3 DEF IInv, TypeInv, TypeOK
<1>5. MustChange(q) \in BOOLEAN
  BY DEF MustChange
<1>6. x \in Account /\ x.status = acct[u].status /\ x.must = MustChange(q)
  BY <1>2, <1>4, <1>5 DEF Account
<1>7. acct' = [acct EXCEPT ![u] = x]
  BY <1>1, <1>3, <1>4
<1> HIDE DEF x
<1>8. QED
  BY <1>2, <1>3, <1>4, <1>6, <1>7

LEMMA RevokeSessionsInv ==
  ASSUME IInv, NEW r \in Requests, RevokeSessions(r), Watch
  PROVE  IInv'
<1> DEFINE q == req[r]
           u == Subject(q)
           hit(l) == login[l].pc = "verified" /\ login[l].user = u
           x(l) == [login[l] EXCEPT !.overtaken = TRUE]
           Signin == [pc: {"idle", "verified", "done"}, user: Users \union {None},
                      pwd: Passwords \union {None}, overtaken: BOOLEAN]
<1>1. /\ q.pc = "locked" /\ Finish(r, "served")
      /\ login' = [l \in Logins |-> IF hit(l) THEN x(l) ELSE login[l]]
      /\ refresh' = [l \in Logins |-> IF refresh[l] = "live" /\ login[l].user = u
                                      THEN "revoked" ELSE refresh[l]]
      /\ audited' = audited \/ (q.kind = "reset_user" /\ audited' = audited \union {<<"reset_user", q.on>>})
      /\ UNCHANGED <<org, access>>
  BY DEF RevokeSessions, Overtake, Log
<1>2. /\ u \in Users /\ There(u)
      /\ acct' \in [Users -> Account]
      /\ \A v \in Users: v # u => acct'[v] = acct[v]
      /\ acct'[u].status = acct[u].status
  BY RevokeIs
<1>3. \A v \in Users: acct'[v].status = acct[v].status
  BY <1>2
<1>4. \A l \in Logins: login[l] \in Signin
  BY DEF IInv, TypeInv, TypeOK
<1>5. \A l \in Logins: /\ x(l) \in Signin /\ x(l).overtaken = TRUE
                       /\ x(l).pc = login[l].pc /\ x(l).user = login[l].user /\ x(l).pwd = login[l].pwd
  BY <1>4
<1> HIDE DEF x
<1>6. /\ login' \in [Logins -> Signin]
      /\ \A l \in Logins: /\ login'[l].pc = login[l].pc /\ login'[l].user = login[l].user
                          /\ login'[l].pwd = login[l].pwd
                          /\ hit(l) => login'[l].overtaken
                          /\ ~hit(l) => login'[l] = login[l]
  BY <1>1, <1>4, <1>5
<1>7. refresh \in [Logins -> {"none", "live", "revoked"}]
  BY DEF IInv, TypeInv, TypeOK
<1>8. /\ refresh' \in [Logins -> {"none", "live", "revoked"}]
      /\ \A l \in Logins: /\ refresh'[l] = "live" => refresh[l] = "live" /\ login[l].user # u
                          /\ refresh'[l] # "none" => refresh[l] # "none"
  BY <1>1, <1>7
<1>9. audited \subseteq audited' /\ audited' \subseteq PlatformKinds \X (Users \union Tenants)
  <2>1. q.kind = "reset_user" => q.on \in Users
    BY <1>1, Known DEF Fit, Busy
  <2>2. QED
    BY <1>1, <2>1 DEF IInv, TypeInv, TypeOK, PlatformKinds
<1>10. RequestsStep
  BY <1>1, Ends DEF IInv, LackInv, Granted
<1>11. Grows
  BY <1>1, <1>3 DEF Grows, There, Stands
<1>12. RequestsFit' /\ RequestsExist'
  BY <1>10, <1>11, RequestsKeep DEF RequestsStep
<1>13. LackInv' /\ lacking' \in [Requests -> SUBSET Rights]
  BY <1>10, LackKeeps DEF RequestsStep
<1>14. TypeOK'
  BY <1>1, <1>2, <1>6, <1>8, <1>9, <1>10, <1>13 DEF IInv, TypeInv, TypeOK, RequestsStep
<1>15. LoginsFit'
  BY <1>6, <1>8 DEF IInv, TypeInv, LoginsFit
<1>16. LoginsFresh'
  <2> SUFFICES ASSUME NEW l \in Logins, login'[l].pc = "verified" \/ refresh'[l] = "live",
                      ~login'[l].overtaken
               PROVE  login'[l].pwd = acct'[login'[l].user].pwd
    BY DEF LoginsFresh
  <2>1. ~hit(l) /\ login'[l] = login[l]
    BY <1>6
  <2>2. login[l].pc = "verified" \/ refresh[l] = "live"
    BY <1>8, <2>1
  <2>3. login[l].user # u /\ login[l].user \in Users
    BY <1>8, <2>1, <2>2 DEF IInv, TypeInv, LoginsFit
  <2>4. login[l].pwd = acct[login[l].user].pwd
    BY <2>1, <2>2 DEF IInv, LoginsFresh
  <2>5. QED
    BY <1>2, <2>1, <2>3, <2>4
<1>17. TablesExist'
  <2>1. \A l \in Logins: login'[l].pc # "idle" => There(login'[l].user)
    BY <1>6 DEF IInv, ExistInv, TablesExist
  <2>2. \A l \in Logins: login'[l].pc # "idle" => login'[l].user \in Users
    BY <1>6 DEF IInv, TypeInv, LoginsFit
  <2>3. \A l \in Logins: login'[l].pc # "idle" => There(login[l].user)'
    BY <1>3, <2>1, <2>2 DEF There
  <2>4. access' \subseteq Token /\ (\A token \in access': token \in access)
    BY <1>1 DEF IInv, TypeInv, TypeOK
  <2>5. /\ \A v \in Users: There(v)' => There(v)
        /\ \A t \in Tenants: org'[t].deleted => org[t].deleted
    BY <1>1, <1>3 DEF There
  <2>6. QED
    BY <1>11, <2>3, <2>4, <2>5, TablesKeep
<1>18. SlugsDistinct'
  BY <1>1 DEF IInv, SlugsDistinct, InBeing
<1>19. PlatformActsOnRecord'
  BY <1>1, <1>9 DEF IInv, PlatformActsOnRecord
<1>20. QED
  BY <1>12, <1>13, <1>14, <1>15, <1>16, <1>17, <1>18, <1>19 DEF IInv, TypeInv, ExistInv
-----------------------------------------------------------------------------
LEMMA InitInv == Init => IInv
<1> SUFFICES ASSUME Init PROVE IInv
  OBVIOUS
<1>1. NoRequest \in Request /\ NoRequest.pc = "idle"
  BY DEF NoRequest, Request, Stages, Kinds, Roles
<1>2. \A r \in Requests: req[r].pc = "idle" /\ lacking[r] = {}
  BY <1>1 DEF Init
<1>3. \A l \in Logins: login[l].pc = "idle" /\ refresh[l] = "none"
  BY DEF Init, NoLogin
<1>4. \A t \in Tenants: /\ org[t] \in Organisation /\ ~org[t].deleted /\ org[t].status # "suspended"
                        /\ Stands(t) <=> t \in Founded
  BY DEF Init, Organisation, Stands
<1>5. \A token \in access: /\ token \in Token /\ There(token.user)
                           /\ token.act # None => token.act \in Entered
  <2>1. /\ \A u \in Users: Accounts0[u].super => Accounts0[u].status # "absent"
        /\ Entered \subseteq Tenants
    BY SessionsAssumption
  <2>2. \A u \in Users: Accounts0[u].status # "absent" => There(u)
    BY DEF Init, There
  <2>3. QED
    BY <2>1, <2>2 DEF Init, Token
<1>6. audited \subseteq PlatformKinds \X (Users \union Tenants)
  BY SessionsAssumption DEF Init, PlatformKinds
<1>7. TypeOK
  <2>1. req \in [Requests -> Request] /\ lacking \in [Requests -> SUBSET Rights]
    BY <1>1 DEF Init
  <2>2. acct \in [Users -> Account] /\ org \in [Tenants -> Organisation]
    BY <1>4, SessionsAssumption DEF Init
  <2>3. /\ refresh \in [Logins -> {"none", "live", "revoked"}]
        /\ login \in [Logins -> [pc: {"idle", "verified", "done"}, user: Users \union {None},
                                 pwd: Passwords \union {None}, overtaken: BOOLEAN]]
    BY DEF Init, NoLogin
  <2>4. access \subseteq Token
    BY <1>5
  <2>5. QED
    BY <1>6, <2>1, <2>2, <2>3, <2>4 DEF TypeOK
<1>8. RequestsFit /\ RequestsExist /\ LackInv
  BY <1>2 DEF RequestsFit, Fit, RequestsExist, Exists, LackInv, Busy, Granted
<1>9. LoginsFit /\ LoginsFresh
  BY <1>3 DEF LoginsFit, LoginsFresh
<1>10. TablesExist
  <2>1. \A u \in Users: There(u) => Stands(Home[u])
    BY <1>4, SessionsAssumption DEF Init, There
  <2>2. QED
    BY <1>3, <1>4, <1>5, <2>1 DEF TablesExist
<1>11. SlugsDistinct
  BY <1>4, SessionsAssumption DEF SlugsDistinct, InBeing, Stands
<1>12. PlatformActsOnRecord
  <2>1. \A token \in access: token.act # None => <<"enter", token.act>> \in audited
    BY <1>5 DEF Init
  <2>2. QED
    BY <1>4, <2>1 DEF PlatformActsOnRecord, Stands
<1>13. QED
  BY <1>7, <1>8, <1>9, <1>10, <1>11, <1>12 DEF IInv, TypeInv, ExistInv

\* Nothing changes.
LEMMA StutterInv ==
  ASSUME IInv, UNCHANGED vars
  PROVE  IInv'
<1>1. TypeOK' /\ LoginsFit' /\ LoginsFresh'
  BY DEF vars, IInv, TypeInv, TypeOK, LoginsFit, LoginsFresh
<1>2. RequestsFit' /\ RequestsExist'
  BY DEF vars, IInv, TypeInv, RequestsFit, ExistInv, RequestsExist, Fit, Exists, There, Stands
<1>3. TablesExist'
  BY DEF vars, IInv, ExistInv, TablesExist, There, Stands
<1>4. LackInv'
  BY DEF vars, IInv, LackInv, Lacked, Open
<1>5. SlugsDistinct' /\ PlatformActsOnRecord'
  BY DEF vars, IInv, SlugsDistinct, InBeing, PlatformActsOnRecord
<1>6. QED
  BY <1>1, <1>2, <1>3, <1>4, <1>5 DEF IInv, TypeInv, ExistInv

LEMMA StepInv ==
  ASSUME IInv, [Next]_vars
  PROVE  IInv'
<1>1. CASE UNCHANGED vars
  BY <1>1, StutterInv
<1>2. CASE \E l \in Logins, u \in Users, w \in Passwords:
             \E host \in {None} \union {Slug[t]: t \in Tenants}: Verify(l, u, w, host) /\ Watch
  BY <1>2, VerifyInv
<1>3. CASE \E l \in Logins: Store(l) /\ Watch
  BY <1>3, StoreInv
<1>4. CASE \E r \in Requests, l \in Logins: VerifyRefresh(r, l) /\ Watch
  BY <1>4, VerifyRefreshInv
<1>5. CASE \E r \in Requests: Renew(r) /\ Watch
  BY <1>5, RenewInv
<1>6. CASE \E r \in Requests, token \in access, body \in Bodies: Authenticate(r, token, body) /\ Watch
  BY <1>6, AuthenticateInv
<1>7. CASE \E r \in Requests: ReadTarget(r) /\ Watch
  BY <1>7, ReadTargetInv
<1>8. CASE \E r \in Requests: Answer(r) /\ Watch
  BY <1>8, AnswerInv
<1>9. CASE \E r \in Requests: Logout(r) /\ Watch
  BY <1>9, LogoutInv
<1>10. CASE \E r \in Requests: CheckUser(r) /\ Watch
  BY <1>10, CheckUserInv
<1>11. CASE \E r \in Requests: UpdateUser(r) /\ Watch
  BY <1>11, UpdateUserInv
<1>12. CASE \E r \in Requests: InsertUser(r) /\ Watch
  BY <1>12, InsertUserInv
<1>13. CASE \E r \in Requests: ChangePassword(r) /\ Watch
  BY <1>13, ChangePasswordInv
<1>14. CASE \E r \in Requests: RevokeSessions(r) /\ Watch
  BY <1>14, RevokeSessionsInv
<1>15. CASE \E r \in Requests: CheckTenant(r) /\ Watch
  BY <1>15, CheckTenantInv
<1>16. CASE \E r \in Requests: Enter(r) /\ Watch
  BY <1>16, EnterInv
<1>17. CASE \E r \in Requests: UpdateTenant(r) /\ Watch
  BY <1>17, UpdateTenantInv
<1>18. CASE \E r \in Requests: DeleteTenant(r) /\ Watch
  BY <1>18, DeleteTenantInv
<1>19. CASE \E r \in Requests: CreateTenant(r) /\ Watch
  BY <1>19, CreateTenantInv
<1>20. CASE \E u \in Users: TakeSuper(u) /\ Watch
  BY <1>20, TakeSuperInv
<1>21. QED
  BY <1>1, <1>2, <1>3, <1>4, <1>5, <1>6, <1>7, <1>8, <1>9, <1>10, <1>11, <1>12, <1>13, <1>14,
     <1>15, <1>16, <1>17, <1>18, <1>19, <1>20 DEF Next

LEMMA Invariance == Spec => []IInv
<1>1. IInv /\ [Next]_vars => IInv'
  BY StepInv
<1>2. QED
  BY InitInv, <1>1, PTL DEF Spec

\* Tables, sign-ins and requests keep the types the columns and the code give them.
THEOREM TypeCorrect == Spec => []TypeOK
<1>1. IInv => TypeOK
  BY DEF IInv, TypeInv
<1>2. QED
  BY Invariance, <1>1, PTL

\* No request is served on a right it has lacked ever since it started, whatever suspends,
\* degrades or deletes around it (authenticate_token, refresh).
THEOREM RightsCorrect == Spec => []NothingServedWithoutRights
<1>1. IInv => NothingServedWithoutRights
  BY DEF IInv, LackInv, NothingServedWithoutRights, Granted
<1>2. QED
  BY Invariance, <1>1, PTL

\* Only a sign-in that the change of a password overtook leaves a session of the old one
\* (login, revoke_all_user_tokens).
THEOREM SessionsCorrect == Spec => []StaleSessionsWereOvertaken
<1>1. IInv => StaleSessionsWereOvertaken
  BY DEF IInv, LoginsFresh, StaleSessionsWereOvertaken
<1>2. QED
  BY Invariance, <1>1, PTL

\* A slug leads to one organisation in being at most, although the check of a new slug and
\* its insertion are apart (create_tenant and the unique index).
THEOREM SlugsCorrect == Spec => []SlugsDistinct
<1>1. IInv => SlugsDistinct
  BY DEF IInv
<1>2. QED
  BY Invariance, <1>1, PTL

\* What the platform panel does to organisations is on record (platform_audit_log).
THEOREM RecordCorrect == Spec => []PlatformActsOnRecord
<1>1. IInv => PlatformActsOnRecord
  BY DEF IInv
<1>2. QED
  BY Invariance, <1>1, PTL

\* A step that may change an account's password: the end of a password request.
LEMMA PasswordsStep ==
  ASSUME IInv, [Next]_vars, NEW u \in Users
  PROVE  \/ acct[u].status = "absent"
         \/ acct'[u].pwd = acct[u].pwd /\ acct'[u].must = acct[u].must
         \/ \E r \in Requests: /\ req[r].pc = "locked" /\ req'[r].pc = "served"
                               /\ Subject(req[r]) = u
                               /\ (acct[u].must => acct'[u].must \/ req[r].user = u)
<1> DEFINE Same == acct'[u].pwd = acct[u].pwd /\ acct'[u].must = acct[u].must
<1>1. acct \in [Users -> Account] /\ acct[u] \in Account
  BY DEF IInv, TypeInv, TypeOK
<1>2. ASSUME NEW r \in Requests, UpdateUser(r)
      PROVE  Same
  BY <1>1, <1>2, Known DEF UpdateUser, Account
<1>3. ASSUME NEW v \in Users, TakeSuper(v)
      PROVE  Same
  BY <1>1, <1>3 DEF TakeSuper, Account
<1>4. ASSUME NEW r \in Requests, InsertUser(r)
      PROVE  acct[u].status = "absent" \/ Same
  BY <1>1, <1>4 DEF InsertUser
<1>5. ASSUME NEW r \in Requests, CreateTenant(r)
      PROVE  acct[u].status = "absent" \/ Same
  <2>1. req[r].on \in Users
    BY <1>5, Known DEF CreateTenant, Fit, Busy
  <2>2. CASE UNCHANGED acct
    BY <2>2
  <2>3. CASE org[Home[req[r].on]].status = "absent" /\ u = req[r].on
    BY <2>1, <2>3 DEF IInv, ExistInv, TablesExist, There, Stands
  <2>4. CASE u # req[r].on
    BY <1>1, <1>5, <2>4 DEF CreateTenant
  <2>5. QED
    BY <1>5, <2>2, <2>3, <2>4 DEF CreateTenant
<1>6. ASSUME NEW r \in Requests, RevokeSessions(r)
      PROVE  \/ Same
             \/ /\ req[r].pc = "locked" /\ req'[r].pc = "served" /\ Subject(req[r]) = u
                /\ (acct[u].must => acct'[u].must \/ req[r].user = u)
  <2>1. req[r].pc = "locked" /\ Finish(r, "served")
    BY <1>6 DEF RevokeSessions
  <2>2. req'[r].pc = "served"
    BY <2>1, FinishIs DEF IInv, TypeInv
  <2>3. CASE Subject(req[r]) # u
    BY <1>6, <2>3, RevokeIs
  <2>4. CASE Subject(req[r]) = u
    <3>1. acct'[u].must = MustChange(req[r]) /\ req[r].kind \in PasswordKinds
      BY <1>6, <2>4, RevokeIs
    <3>2. MustChange(req[r]) \/ req[r].user = u
      BY <2>4, <3>1 DEF MustChange, Subject, PasswordKinds
    <3>3. QED
      BY <2>1, <2>2, <2>4, <3>1, <3>2
  <2>5. QED
    BY <2>3, <2>4
<1>7. CASE UNCHANGED acct
  BY <1>7
<1>8. \/ UNCHANGED acct
      \/ \E r \in Requests: UpdateUser(r) \/ InsertUser(r) \/ CreateTenant(r) \/ RevokeSessions(r)
      \/ \E v \in Users: TakeSuper(v)
  BY DEF Next, vars, Verify, Store, VerifyRefresh, Renew, Authenticate, ReadTarget, Answer, Logout,
         CheckUser, ChangePassword, CheckTenant, Enter, UpdateTenant, DeleteTenant
<1>9. QED
  BY <1>2, <1>3, <1>4, <1>5, <1>6, <1>7, <1>8

\* Passwords, and the demand to change them, follow password requests only (update_user
\* writes the columns it was given).
THEOREM PasswordsCorrect == Spec => PasswordsChangeOnRequest
<1> DEFINE Step == \A u \in Users:
       \/ acct[u].status = "absent"
       \/ acct'[u].pwd = acct[u].pwd /\ acct'[u].must = acct[u].must
       \/ \E r \in Requests: /\ req[r].pc = "locked" /\ req'[r].pc = "served"
                              /\ Subject(req[r]) = u
                              /\ (acct[u].must => acct'[u].must \/ req[r].user = u)
<1>1. IInv /\ [Next]_vars => [Step]_vars
  BY PasswordsStep
<1>2. PasswordsChangeOnRequest <=> [][Step]_vars
  BY DEF PasswordsChangeOnRequest
<1> HIDE DEF Step
<1>3. QED
  BY Invariance, <1>1, <1>2, PTL DEF Spec

LEMMA DeletedStep ==
  ASSUME IInv, [Next]_vars, NEW t \in Tenants, org[t].deleted
  PROVE  org'[t] = org[t]
<1>1. org \in [Tenants -> Organisation] /\ org[t] \in Organisation /\ Stands(t)
  BY DEF IInv, TypeInv, TypeOK, ExistInv, TablesExist
<1>2. ASSUME NEW r \in Requests, UpdateTenant(r)
      PROVE  org'[t] = org[t]
  BY <1>1, <1>2 DEF UpdateTenant
<1>3. ASSUME NEW r \in Requests, DeleteTenant(r)
      PROVE  org'[t] = org[t]
  BY <1>1, <1>3 DEF DeleteTenant, Organisation
<1>4. ASSUME NEW r \in Requests, CreateTenant(r)
      PROVE  org'[t] = org[t]
  BY <1>1, <1>4 DEF CreateTenant, Stands
<1>5. \/ UNCHANGED org
      \/ \E r \in Requests: UpdateTenant(r) \/ DeleteTenant(r) \/ CreateTenant(r)
  BY DEF Next, vars, Verify, Store, VerifyRefresh, Renew, Authenticate, ReadTarget, Answer, Logout,
         CheckUser, UpdateUser, InsertUser, ChangePassword, RevokeSessions, CheckTenant, Enter,
         TakeSuper
<1>6. QED
  BY <1>2, <1>3, <1>4, <1>5

\* A deleted organisation's row is never written again, although handlers decide on rows
\* they read before (update_tenant, soft_delete_tenant).
THEOREM DeletedCorrect == Spec => DeletedIsFinal
<1> DEFINE Step == \A t \in Tenants: org[t].deleted => org'[t] = org[t]
<1>1. IInv /\ [Next]_vars => [Step]_vars
  BY DeletedStep
<1>2. DeletedIsFinal <=> [][Step]_vars
  BY DEF DeletedIsFinal
<1> HIDE DEF Step
<1>3. QED
  BY Invariance, <1>1, <1>2, PTL DEF Spec
=============================================================================
