---------------------------- MODULE GatewayAuth ----------------------------
(***************************************************************************)
(* Authentication of a request at the gateway (gateway/auth_middleware.py, *)
(* with the reads of gateway/database.py).  A JWT names a session: user,   *)
(* tenant of the token, tenant acted in.  The verdict about its account is *)
(* cached per session for TTL seconds; an API key and the organisation's   *)
(* status are read afresh by each request.  asyncio interleaves requests   *)
(* at every await, that is around each database read.  All the requests of *)
(* the model address one organisation: different ones share the cache only.*)
(***************************************************************************)
EXTENDS Naturals, FiniteSets

CONSTANTS Users,      \* the accounts
          Kinds,      \* the kinds of token in use, of "home", "enter", "foreign"
          Accounts,   \* the states of an account that occur
          ApiKeys,    \* API keys
          Requests,   \* requests in progress at once
          TTL,        \* _USER_CACHE_TTL
          CacheMax,   \* _USER_CACHE_MAX
          MaxTime     \* bound on the clock

\* A token's claims are fixed when it is issued; "enter" is the super-admin's token for
\* another organisation, "foreign" one whose tenant is not the account's.
Sessions == Users \X Kinds
Credentials == Sessions \union ApiKeys

ASSUME AuthAssumption ==
  /\ Kinds \subseteq {"home", "enter", "foreign"}
  /\ Accounts \subseteq [active: BOOLEAN, super: BOOLEAN, mustChange: BOOLEAN]
  /\ Accounts # {} /\ Credentials # {}
  /\ ApiKeys \intersect Sessions = {}
  /\ TTL \in Nat \ {0} /\ CacheMax \in Nat \ {0} /\ MaxTime \in Nat

VARIABLES now,       \* time.monotonic()
          account,   \* users: status, is_super_admin, must_change_password
          keyValid,  \* the API keys that are active and not expired
          orgActive, \* tenants: the organisation is active and not deleted
          since,     \* when the true verdict on a credential last changed
          cache,     \* _user_cache
          request    \* AuthMiddleware.dispatch of each request

vars == <<now, account, keyValid, orgActive, since, cache, request>>
truth == <<account, keyValid, orgActive, since>>

Verdicts == {"ok", "inactive", "wrong_tenant", "acting_denied", "password_change"}
Entry == [until: Nat, verdict: Verdicts]

TypeOK ==
  /\ now \in 0..MaxTime
  /\ account \in [Users -> Accounts]
  /\ keyValid \in SUBSET ApiKeys
  /\ orgActive \in BOOLEAN
  /\ since \in [Credentials -> 0..MaxTime]
  /\ \E K \in SUBSET Credentials: cache \in [K -> Entry]
  /\ request \in [Requests -> [pc: {"idle", "fetching", "fetched", "checked", "admitted"},
                               cred: Credentials, started: 0..MaxTime, verdict: Verdicts]]
-----------------------------------------------------------------------------
\* Mutant: no verdict is set for an account that is not active.
AccountVerdictUnset(a, kind) ==
  IF ~a.active THEN "unset" ELSE IF a.mustChange THEN "password_change" ELSE "ok"

\* _check_user on the row it read (a deleted account is one that is not active).
AccountVerdict(a, kind) ==
  CASE ~a.active                         -> "inactive"
    [] a.active /\ kind = "enter" /\ ~a.super -> "acting_denied"
    [] a.active /\ kind = "foreign"      -> "wrong_tenant"
    [] OTHER -> IF a.mustChange THEN "password_change" ELSE "ok"

\* The verdict of a read made now.
Verdict(accounts, keys, c) ==
  IF c \in ApiKeys THEN IF c \in keys THEN "ok" ELSE "inactive"
                   ELSE AccountVerdict(accounts[c[1]], c[2])

Truth(c) == Verdict(account, keyValid, c)

Idle == [pc |-> "idle", cred |-> CHOOSE c \in Credentials: TRUE, started |-> 0,
         verdict |-> "inactive"]

NoEntries == [c \in {} |-> c]

Init ==
  /\ now = 0
  /\ account \in [Users -> Accounts]
  /\ keyValid = ApiKeys
  /\ orgActive = TRUE
  /\ since = [c \in Credentials |-> 0]
  /\ cache = NoEntries
  /\ request = [r \in Requests |-> Idle]

Tick ==
  /\ now < MaxTime
  /\ now' = now + 1
  /\ UNCHANGED <<truth, cache, request>>
-----------------------------------------------------------------------------
\* The panel's API changes the rows under the gateway's feet.

SinceAfter(accounts, keys) ==
  [c \in Credentials |-> IF Verdict(accounts, keys, c) = Truth(c) THEN since[c] ELSE now]

ChangeAccount(u, a) ==
  /\ a # account[u]
  /\ account' = [account EXCEPT ![u] = a]
  /\ since' = SinceAfter(account', keyValid)
  /\ UNCHANGED <<now, keyValid, orgActive, cache, request>>

\* Deactivated, or past expires_at.
EndKey(k) ==
  /\ k \in keyValid
  /\ keyValid' = keyValid \ {k}
  /\ since' = SinceAfter(account, keyValid')
  /\ UNCHANGED <<now, account, orgActive, cache, request>>

ChangeOrganisation ==
  /\ orgActive' = ~orgActive
  /\ UNCHANGED <<now, account, keyValid, since, cache, request>>
-----------------------------------------------------------------------------
\* dispatch

Advance(r, q) ==
  /\ request' = [request EXCEPT ![r] = q]
  /\ UNCHANGED <<now, truth>>

\* A live cache entry answers at once.
Hit(c) == c \in DOMAIN cache /\ cache[c].until > now

Arrive(r, c) ==
  /\ request[r].pc = "idle"
  /\ IF Hit(c)
     THEN Advance(r, [pc |-> "checked", cred |-> c, started |-> now,
                      verdict |-> cache[c].verdict])
     ELSE Advance(r, [pc |-> "fetching", cred |-> c, started |-> now, verdict |-> "inactive"])
  /\ UNCHANGED cache

\* The database answers fetch_user_auth or the query of _verify_api_key, ...
Fetch(r) ==
  /\ request[r].pc = "fetching"
  /\ Advance(r, [request[r] EXCEPT !.pc = "fetched", !.verdict = Truth(request[r].cred)])
  /\ UNCHANGED cache

\* Mutant: the entry's life is counted from the end of the fetch.
ExpiryFromNow(q) == now + TTL

\* `now` is read before the await: the entry's life starts with the request.
Expiry(q) == q.started + TTL

\* Mutant: the cache is never emptied.
RoomForever == cache

\* At the limit the whole cache is dropped, before the insertion.
Room == IF Cardinality(DOMAIN cache) >= CacheMax THEN NoEntries ELSE cache

\* Mutant: _verify_api_key remembers its answers too.
CachedAll(c) == TRUE

Cached(c) == c \in Sessions

\* ... and the request resumes.
Resume(r) ==
  LET q == request[r]
  IN /\ q.pc = "fetched"
     /\ Advance(r, [q EXCEPT !.pc = "checked"])
     /\ cache' = IF Cached(q.cred)
                 THEN [c \in DOMAIN Room \union {q.cred} |->
                         IF c = q.cred THEN [until |-> Expiry(q), verdict |-> q.verdict]
                                       ELSE Room[c]]
                 ELSE cache

\* fetch_tenant_status, read afresh by every request.
Admit(r) ==
  /\ request[r].pc = "checked"
  /\ request[r].verdict = "ok"
  /\ orgActive
  /\ Advance(r, [request[r] EXCEPT !.pc = "admitted"])
  /\ UNCHANGED cache

\* 401 or 403: a bad verdict, an inactive organisation, or a read that failed; a failed
\* read leaves the cache alone.
Reject(r) ==
  /\ \/ request[r].pc = "fetching"
     \/ request[r].pc = "checked"
  /\ Advance(r, Idle)
  /\ UNCHANGED cache

\* The handler behind the middleware has answered.
Finish(r) ==
  /\ request[r].pc = "admitted"
  /\ Advance(r, Idle)
  /\ UNCHANGED cache

Next ==
  \/ Tick
  \/ \E u \in Users, a \in Accounts: ChangeAccount(u, a)
  \/ \E k \in ApiKeys: EndKey(k)
  \/ ChangeOrganisation
  \/ \E r \in Requests:
       \/ \E c \in Credentials: Arrive(r, c)
       \/ Fetch(r) \/ Resume(r) \/ Admit(r) \/ Reject(r) \/ Finish(r)

Spec == Init /\ [][Next]_vars
-----------------------------------------------------------------------------
\* "Zablokowanie konta dziala najpozniej po _USER_CACHE_TTL sekundach": no request is
\* judged by a verdict that stopped being true TTL or more before it started, be it
\* the block of an account or its return, however the fetches overlap.
VerdictsExpire ==
  \A r \in Requests:
    LET q == request[r]
    IN q.pc \in {"checked", "admitted"} /\ q.cred \in Sessions /\ q.verdict # Truth(q.cred)
         => q.started < since[q.cred] + TTL

\* API keys are not cached: a request that starts after its key was revoked, or has
\* expired, is never admitted.
RevocationIsImmediate ==
  \A r \in Requests:
    LET q == request[r]
    IN q.pc = "admitted" /\ q.cred \in ApiKeys /\ q.cred \notin keyValid
         => q.started <= since[q.cred]

\* The cache never holds more than _USER_CACHE_MAX entries.
CacheBounded == Cardinality(DOMAIN cache) <= CacheMax
=============================================================================
