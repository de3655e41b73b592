------------------------- MODULE GatewayAuthProofs -------------------------
(***************************************************************************)
(* How stale the gateway's knowledge of an account or a key may be, for    *)
(* any number of accounts, keys and requests and any TTL and cache size.   *)
(***************************************************************************)
EXTENDS GatewayAuth, TLAPS, FiniteSetTheorems

\* The inductive invariant.  An outdated verdict is never younger than the change
\* that outdated it: a request carries it only if it started by then, an entry only
\* if it dies within TTL of it.
SinceIsPast == \A c \in Credentials: since[c] <= now
StartedInPast == \A r \in Requests: request[r].started <= now
EntriesAge ==
  \A c \in DOMAIN cache:
    /\ cache[c].until <= now + TTL
    /\ cache[c].verdict # Truth(c) => cache[c].until <= since[c] + TTL
Known(q) == q.pc = "fetched" \/ (q.pc \in {"checked", "admitted"} /\ q.cred \in ApiKeys)
FetchesAge ==
  \A r \in Requests:
    LET q == request[r]
    IN Known(q) /\ q.verdict # Truth(q.cred) => q.started <= since[q.cred]
OnlySessionsCached == DOMAIN cache \subseteq Sessions
AdmittedWithOk == \A r \in Requests: request[r].pc = "admitted" => request[r].verdict = "ok"

AgeInv ==
  /\ SinceIsPast /\ StartedInPast /\ EntriesAge /\ FetchesAge
  /\ OnlySessionsCached /\ AdmittedWithOk /\ VerdictsExpire

IInv == TypeOK /\ AgeInv

Rows == [pc: {"idle", "fetching", "fetched", "checked", "admitted"},
         cred: Credentials, started: 0..MaxTime, verdict: Verdicts]

\* A request that moves on stays a request.
LEMMA RequestMoves ==
  ASSUME request \in [Requests -> Rows], NEW r \in Requests, NEW q \in Rows, Advance(r, q)
  PROVE  request' \in [Requests -> Rows]
BY DEF Advance

LEMMA RowMoves ==
  ASSUME NEW q \in Rows, NEW pc \in {"fetched", "checked"}, NEW v \in Verdicts
  PROVE  [q EXCEPT !.pc = pc, !.verdict = v] \in Rows /\ [q EXCEPT !.pc = pc] \in Rows
BY DEF Rows

LEMMA VerdictType ==
  ASSUME NEW accounts \in [Users -> Accounts], NEW keys, NEW c \in Credentials
  PROVE  Verdict(accounts, keys, c) \in Verdicts
<1>1. CASE c \in ApiKeys
  BY <1>1 DEF Verdict, Verdicts
<1>2. CASE c \notin ApiKeys
  <2>1. AccountVerdict(accounts[c[1]], c[2]) \in Verdicts
    BY DEF AccountVerdict, Verdicts
  <2>2. QED
    BY <1>2, <2>1 DEF Verdict
<1>3. QED
  BY <1>1, <1>2

\* A change of the rows keeps what it does not change, and dates what it does.
LEMMA SinceAfterFacts ==
  ASSUME TypeOK, NEW accounts, NEW keys, NEW c \in Credentials,
         since' = SinceAfter(accounts, keys)
  PROVE  since'[c] = IF Verdict(accounts, keys, c) = Truth(c) THEN since[c] ELSE now
BY DEF SinceAfter

LEMMA TypeInductive == TypeOK /\ [Next]_vars => TypeOK'
<1> SUFFICES ASSUME TypeOK, [Next]_vars PROVE TypeOK'
  OBVIOUS
<1> USE AuthAssumption DEF TypeOK, truth
<1>1. \A c \in Credentials: Truth(c) \in Verdicts
  BY VerdictType DEF Truth
<1>2. CASE Tick
  BY <1>2 DEF Tick
<1>3. ASSUME NEW u \in Users, NEW a \in Accounts, ChangeAccount(u, a) PROVE TypeOK'
  BY <1>3 DEF ChangeAccount, SinceAfter
<1>4. ASSUME NEW k \in ApiKeys, EndKey(k) PROVE TypeOK'
  BY <1>4 DEF EndKey, SinceAfter
<1>5. CASE ChangeOrganisation
  BY <1>5 DEF ChangeOrganisation
<1> DEFINE RequestsTyped == request \in [Requests -> Rows]
<1>0. RequestsTyped
  BY DEF Rows
<1>6. ASSUME NEW r \in Requests, NEW c \in Credentials, Arrive(r, c) PROVE TypeOK'
  <2>1. CASE Hit(c)
    <3>1. cache[c].verdict \in Verdicts
      BY <2>1 DEF Hit, Entry
    <3>2. [pc |-> "checked", cred |-> c, started |-> now, verdict |-> cache[c].verdict] \in Rows
      BY <3>1 DEF Rows
    <3>3. RequestsTyped'
      BY <1>0, <1>6, <2>1, <3>2, RequestMoves DEF Arrive
    <3>4. QED
      BY <1>6, <2>1, <3>3 DEF Arrive, Advance, Rows
  <2>2. CASE ~Hit(c)
    <3>1. [pc |-> "fetching", cred |-> c, started |-> now, verdict |-> "inactive"] \in Rows
      BY DEF Rows, Verdicts
    <3>2. RequestsTyped'
      BY <1>0, <1>6, <2>2, <3>1, RequestMoves DEF Arrive
    <3>3. QED
      BY <1>6, <2>2, <3>2 DEF Arrive, Advance, Rows
  <2>3. QED
    BY <2>1, <2>2
<1>7. ASSUME NEW r \in Requests, Fetch(r) PROVE TypeOK'
  <2>1. [request[r] EXCEPT !.pc = "fetched", !.verdict = Truth(request[r].cred)] \in Rows
    <3>1. request[r] \in Rows /\ Truth(request[r].cred) \in Verdicts
      BY <1>0, <1>1 DEF Rows
    <3>2. QED
      BY ONLY <3>1, RowMoves
  <2>2. RequestsTyped'
    BY <1>0, <1>7, <2>1, RequestMoves DEF Fetch
  <2>3. QED
    BY <1>7, <2>2 DEF Fetch, Advance, Rows
<1>8. ASSUME NEW r \in Requests, Resume(r) PROVE TypeOK'
  <2> DEFINE q == request[r]
  <2>1. RequestsTyped'
    <3>1. q \in Rows /\ q.verdict \in Verdicts
      BY <1>0 DEF Rows
    <3>2. [q EXCEPT !.pc = "checked"] \in Rows
      BY ONLY <3>1, RowMoves
    <3>3. QED
      BY <1>0, <1>8, <3>2, RequestMoves DEF Resume
  <2>2. \E K \in SUBSET Credentials: Room \in [K -> Entry]
    BY DEF Room, NoEntries
  <2>3. [until |-> Expiry(q), verdict |-> q.verdict] \in Entry
    BY DEF Expiry, Entry
  <2>4. \E K \in SUBSET Credentials: cache' \in [K -> Entry]
    <3>1. PICK K \in SUBSET Credentials: Room \in [K -> Entry]
      BY <2>2
    <3>2. CASE Cached(q.cred)
      <4>1. cache' \in [K \union {q.cred} -> Entry]
        BY <1>8, <2>3, <3>1, <3>2 DEF Resume
      <4>2. QED
        BY <4>1
    <3>3. CASE ~Cached(q.cred)
      BY <1>8, <3>3 DEF Resume
    <3>4. QED
      BY <3>2, <3>3
  <2>5. QED
    BY <1>8, <2>1, <2>4 DEF Resume, Advance, Rows
<1>9. ASSUME NEW r \in Requests, Admit(r) \/ Reject(r) \/ Finish(r) PROVE TypeOK'
  <2>1. Idle \in [pc: {"idle", "fetching", "fetched", "checked", "admitted"},
                  cred: Credentials, started: 0..MaxTime, verdict: Verdicts]
    BY DEF Idle, Verdicts
  <2>2. QED
    BY <1>9, <2>1 DEF Admit, Reject, Finish, Advance
<1>10. CASE UNCHANGED vars
  BY <1>10 DEF vars
<1>11. QED
  BY <1>2, <1>3, <1>4, <1>5, <1>6, <1>7, <1>8, <1>9, <1>10 DEF Next

LEMMA InitIInv == Init => IInv
<1> SUFFICES ASSUME Init PROVE IInv
  OBVIOUS
<1> USE AuthAssumption DEF Init
<1>1. Idle \in [pc: {"idle", "fetching", "fetched", "checked", "admitted"},
                cred: Credentials, started: 0..MaxTime, verdict: Verdicts]
  BY DEF Idle, Verdicts
<1>2. cache \in [{} -> Entry]
  BY DEF NoEntries
<1>3. TypeOK
  <2>1. \E K \in SUBSET Credentials: cache \in [K -> Entry]
    BY <1>2
  <2>2. QED
    BY <1>1, <2>1 DEF TypeOK
<1>4. DOMAIN cache = {}
  BY DEF NoEntries
<1>5. \A r \in Requests: request[r].pc = "idle" /\ request[r].started = 0
  BY DEF Idle
<1>6. SinceIsPast /\ StartedInPast /\ EntriesAge /\ OnlySessionsCached
  BY <1>4, <1>5 DEF SinceIsPast, StartedInPast, EntriesAge, OnlySessionsCached
<1>7. FetchesAge /\ AdmittedWithOk /\ VerdictsExpire
  BY <1>5 DEF FetchesAge, Known, AdmittedWithOk, VerdictsExpire
<1>8. QED
  BY <1>3, <1>6, <1>7 DEF IInv, AgeInv

\* A change of the rows outdates verdicts at the present moment: nothing in flight or
\* cached is younger.
LEMMA RowsChange ==
  ASSUME IInv, NEW accounts, NEW keys,
         account' = accounts, keyValid' = keys,
         since' = SinceAfter(accounts, keys),
         UNCHANGED <<now, cache, request>>
  PROVE  AgeInv'
<1> USE AuthAssumption DEF IInv, AgeInv, TypeOK
<1>1. \A c \in Credentials: Truth(c)' = Verdict(accounts, keys, c)
  BY DEF Truth
<1>2. \A c \in Credentials:
        since'[c] = IF Truth(c)' = Truth(c) THEN since[c] ELSE now
  BY <1>1 DEF SinceAfter
<1>3. SinceIsPast' /\ StartedInPast' /\ OnlySessionsCached' /\ AdmittedWithOk'
  BY <1>2 DEF SinceIsPast, StartedInPast, OnlySessionsCached, AdmittedWithOk
<1>4. EntriesAge'
  BY <1>2 DEF EntriesAge, Entry
<1>5. FetchesAge'
  BY <1>2 DEF FetchesAge, Known, StartedInPast
<1>6. VerdictsExpire'
  BY <1>2 DEF VerdictsExpire, StartedInPast
<1>7. QED
  BY <1>3, <1>4, <1>5, <1>6

\* Time alone outdates nothing; it only lets entries die.
LEMMA TimePasses ==
  ASSUME IInv, now \in Nat, now' \in Nat, now <= now',
         UNCHANGED <<account, keyValid, since, cache, request>>
  PROVE  AgeInv'
<1> USE AuthAssumption DEF IInv, AgeInv, TypeOK
<1>1. \A c \in Credentials: Truth(c)' = Truth(c)
  BY DEF Truth
<1>2. SinceIsPast' /\ StartedInPast' /\ OnlySessionsCached' /\ AdmittedWithOk'
  BY DEF SinceIsPast, StartedInPast, OnlySessionsCached, AdmittedWithOk
<1>3. EntriesAge'
  BY <1>1 DEF EntriesAge, Entry
<1>4. FetchesAge' /\ VerdictsExpire'
  BY <1>1 DEF FetchesAge, Known, VerdictsExpire
<1>5. QED
  BY <1>2, <1>3, <1>4

\* A step of one request is safe if what it leaves that request with is.
LEMMA RequestSteps ==
  ASSUME IInv, NEW r \in Requests, NEW q, Advance(r, q), UNCHANGED cache,
         q.started \in Nat, q.started <= now,
         Known(q)
           => q.verdict = Truth(q.cred) \/ q.started <= since[q.cred],
         q.pc = "admitted" => q.verdict = "ok",
         q.pc \in {"checked", "admitted"} /\ q.cred \in Sessions
           => q.verdict = Truth(q.cred) \/ q.started < since[q.cred] + TTL
  PROVE  AgeInv'
<1> USE AuthAssumption DEF IInv, AgeInv, TypeOK, Advance, truth
<1>1. \A c \in Credentials: Truth(c)' = Truth(c)
  BY DEF Truth
<1>2. \A p \in Requests: request'[p] = IF p = r THEN q ELSE request[p]
  OBVIOUS
<1>3. SinceIsPast' /\ StartedInPast' /\ OnlySessionsCached' /\ AdmittedWithOk'
  BY <1>2 DEF SinceIsPast, StartedInPast, OnlySessionsCached, AdmittedWithOk
<1>4. EntriesAge'
  BY <1>1 DEF EntriesAge
<1>5. FetchesAge'
  BY <1>1, <1>2 DEF FetchesAge, Known, Truth
<1>6. VerdictsExpire'
  BY <1>1, <1>2 DEF VerdictsExpire, Truth
<1>7. QED
  BY <1>3, <1>4, <1>5, <1>6

LEMMA ArriveStep ==
  ASSUME IInv, NEW r \in Requests, NEW c \in Credentials, Arrive(r, c)
  PROVE  AgeInv'
<1> USE AuthAssumption DEF IInv, AgeInv, TypeOK
<1>1. CASE Hit(c)
  <2> DEFINE q == [pc |-> "checked", cred |-> c, started |-> now, verdict |-> cache[c].verdict]
  <2>1. Advance(r, q) /\ UNCHANGED cache
    BY <1>1 DEF Arrive
  <2>2. c \in Sessions /\ c \in DOMAIN cache /\ cache[c].until > now
    BY <1>1 DEF Hit, OnlySessionsCached
  <2>3. cache[c].until \in Nat
    BY <2>2 DEF Entry
  <2>4. q.verdict = Truth(c) \/ now < since[c] + TTL
    BY <2>2, <2>3 DEF EntriesAge
  <2>5. now \in Nat /\ c \notin ApiKeys
    BY <2>2
  <2>6. q.pc = "checked" /\ q.cred = c /\ q.started = now
    OBVIOUS
  <2> HIDE DEF q
  <2>7. QED
    BY ONLY <2>1, <2>4, <2>5, <2>6, RequestSteps, IInv DEF Known
<1>2. CASE ~Hit(c)
  <2> DEFINE q == [pc |-> "fetching", cred |-> c, started |-> now, verdict |-> "inactive"]
  <2>1. Advance(r, q) /\ UNCHANGED cache
    BY <1>2 DEF Arrive
  <2>2. q.pc = "fetching" /\ q.started = now /\ now \in Nat
    OBVIOUS
  <2> HIDE DEF q
  <2>3. QED
    BY ONLY <2>1, <2>2, RequestSteps, IInv DEF Known
<1>3. QED
  BY <1>1, <1>2

\* Fetch, Admit, Reject and Finish leave the cache alone and carry over what they judge.
LEMMA OtherSteps ==
  ASSUME IInv, NEW r \in Requests, Fetch(r) \/ Admit(r) \/ Reject(r) \/ Finish(r)
  PROVE  AgeInv'
<1> USE AuthAssumption DEF IInv, AgeInv, TypeOK
<1> DEFINE q == request[r]
<1>1. q.started \in Nat /\ q.started <= now
  BY DEF StartedInPast
<1>2. CASE Fetch(r)
  <2> DEFINE p == [q EXCEPT !.pc = "fetched", !.verdict = Truth(q.cred)]
  <2>1. Advance(r, p) /\ UNCHANGED cache
    BY <1>2 DEF Fetch
  <2>2. p.pc = "fetched" /\ p.started = q.started /\ p.cred = q.cred /\ p.verdict = Truth(q.cred)
    OBVIOUS
  <2>3. QED
    BY ONLY <1>1, <2>1, <2>2, RequestSteps, IInv DEF Known
<1>3. CASE Admit(r)
  <2> DEFINE p == [q EXCEPT !.pc = "admitted"]
  <2>1. Advance(r, p) /\ UNCHANGED cache /\ q.pc = "checked" /\ q.verdict = "ok"
    BY <1>3 DEF Admit
  <2>2. p.pc = "admitted" /\ p.started = q.started /\ p.cred = q.cred /\ p.verdict = q.verdict
    OBVIOUS
  <2>3. q.cred \in ApiKeys => q.verdict = Truth(q.cred) \/ q.started <= since[q.cred]
    BY <2>1 DEF FetchesAge, Known
  <2>4. q.cred \in Sessions => q.verdict = Truth(q.cred) \/ q.started < since[q.cred] + TTL
    BY <2>1 DEF VerdictsExpire
  <2>5. QED
    BY ONLY <1>1, <2>1, <2>2, <2>3, <2>4, RequestSteps, IInv DEF Known
<1>4. CASE Reject(r) \/ Finish(r)
  <2>1. Advance(r, Idle) /\ UNCHANGED cache
    BY <1>4 DEF Reject, Finish
  <2>2. Idle.pc = "idle" /\ Idle.started = 0
    BY DEF Idle
  <2>3. 0 <= now
    OBVIOUS
  <2>4. QED
    BY ONLY <2>1, <2>2, <2>3, RequestSteps, IInv DEF Known
<1>5. QED
  BY <1>2, <1>3, <1>4

\* The entry a fetch stores lives TTL from the request's start, and so dies within TTL
\* of whatever outdated it.
LEMMA ResumeStep ==
  ASSUME IInv, NEW r \in Requests, Resume(r)
  PROVE  AgeInv'
<1> USE AuthAssumption DEF IInv, AgeInv, TypeOK
<1> DEFINE q == request[r]
           e == [until |-> Expiry(q), verdict |-> q.verdict]
<1>1. /\ q.pc = "fetched" /\ q.cred \in Credentials
      /\ q.started \in Nat /\ q.started <= now /\ now \in Nat
      /\ \A c \in Credentials: since[c] \in Nat
  BY DEF Resume, StartedInPast
<1>2. q.verdict = Truth(q.cred) \/ q.started <= since[q.cred]
  BY <1>1 DEF FetchesAge, Known
<1>3. \A c \in Credentials: Truth(c)' = Truth(c)
  BY DEF Truth, Resume, Advance, truth
<1>4. \A p \in Requests: request'[p] = IF p = r THEN [q EXCEPT !.pc = "checked"] ELSE request[p]
  BY DEF Resume, Advance
<1>5. UNCHANGED <<now, since>>
  BY DEF Resume, Advance, truth
<1>6. SinceIsPast' /\ StartedInPast' /\ AdmittedWithOk'
  BY <1>1, <1>4, <1>5 DEF SinceIsPast, StartedInPast, AdmittedWithOk
<1>7. FetchesAge'
  BY <1>1, <1>2, <1>3, <1>4, <1>5 DEF FetchesAge, Known, Truth
<1>8. VerdictsExpire'
  <2> SUFFICES ASSUME NEW p \in Requests,
                      request'[p].pc \in {"checked", "admitted"},
                      request'[p].cred \in Sessions,
                      request'[p].verdict # Truth(request'[p].cred)
               PROVE  request'[p].started < since[request'[p].cred] + TTL
    BY <1>3, <1>5 DEF VerdictsExpire, Truth, Credentials
  <2>1. CASE p = r
    <3>1. /\ request'[p].started = q.started /\ request'[p].cred = q.cred
          /\ request'[p].verdict = q.verdict
      BY <1>4, <2>1
    <3>2. q.started <= since[q.cred]
      BY <1>2, <3>1
    <3>3. since[q.cred] \in Nat
      BY <1>1
    <3>4. QED
      BY <1>1, <3>1, <3>2, <3>3
  <2>2. CASE p # r
    BY <1>4, <2>2 DEF VerdictsExpire
  <2>3. QED
    BY <2>1, <2>2
<1>9. \A c \in DOMAIN Room: c \in DOMAIN cache /\ Room[c] = cache[c]
  BY DEF Room, NoEntries
<1>10. \A c \in DOMAIN cache':
         \/ c = q.cred /\ q.cred \in Sessions /\ cache'[c] = e
         \/ c \in DOMAIN cache /\ cache'[c] = cache[c]
  BY <1>9 DEF Resume, Cached
<1>11. OnlySessionsCached'
  BY <1>10 DEF OnlySessionsCached
<1>12. e.until <= now + TTL /\ (e.verdict # Truth(q.cred) => e.until <= since[q.cred] + TTL)
  BY <1>1, <1>2 DEF Expiry
<1>13. EntriesAge'
  BY <1>1, <1>3, <1>5, <1>10, <1>12 DEF EntriesAge
<1>14. QED
  BY <1>6, <1>7, <1>8, <1>11, <1>13

LEMMA InductiveIInv == IInv /\ [Next]_vars => IInv'
<1> SUFFICES ASSUME IInv, [Next]_vars PROVE AgeInv'
  BY TypeInductive DEF IInv
<1>1. CASE Tick
  BY <1>1, TimePasses DEF Tick, truth, IInv, TypeOK
<1>2. ASSUME NEW u \in Users, NEW a \in Accounts, ChangeAccount(u, a) PROVE AgeInv'
  BY <1>2, RowsChange DEF ChangeAccount
<1>3. ASSUME NEW k \in ApiKeys, EndKey(k) PROVE AgeInv'
  BY <1>3, RowsChange DEF EndKey
<1>4. CASE ChangeOrganisation
  BY <1>4, TimePasses DEF ChangeOrganisation, IInv, TypeOK
<1>5. ASSUME NEW r \in Requests, NEW c \in Credentials, Arrive(r, c) PROVE AgeInv'
  BY <1>5, ArriveStep
<1>6. ASSUME NEW r \in Requests, Resume(r) PROVE AgeInv'
  BY <1>6, ResumeStep
<1>7. ASSUME NEW r \in Requests, Fetch(r) \/ Admit(r) \/ Reject(r) \/ Finish(r) PROVE AgeInv'
  BY <1>7, OtherSteps
<1>8. CASE UNCHANGED vars
  BY <1>8, TimePasses DEF vars, IInv, TypeOK
<1>9. QED
  BY <1>1, <1>2, <1>3, <1>4, <1>5, <1>6, <1>7, <1>8 DEF Next

\* The invariant holds in every reachable state.
THEOREM Invariance == Spec => []IInv
BY InitIInv, InductiveIInv, PTL DEF Spec

\* Every variable always holds a value of the kind the code gives it.
THEOREM TypeCorrect == Spec => []TypeOK
<1>1. IInv => TypeOK
  BY DEF IInv
<1>2. QED
  BY <1>1, Invariance, PTL

\* The promise on _USER_CACHE_TTL: no request is judged by a verdict about an account
\* that stopped being true TTL or more before the request started.
THEOREM ExpiryCorrect == Spec => []VerdictsExpire
<1>1. IInv => VerdictsExpire
  BY DEF IInv, AgeInv
<1>2. QED
  BY <1>1, Invariance, PTL

\* A revoked or expired API key admits no request that starts afterwards.
THEOREM RevocationCorrect == Spec => []RevocationIsImmediate
<1>1. ASSUME IInv PROVE RevocationIsImmediate
  <2> SUFFICES ASSUME NEW r \in Requests, request[r].pc = "admitted",
                      request[r].cred \in ApiKeys, request[r].cred \notin keyValid
               PROVE  request[r].started <= since[request[r].cred]
    BY DEF RevocationIsImmediate
  <2>1. request[r].verdict = "ok"
    BY <1>1 DEF IInv, AgeInv, AdmittedWithOk
  <2>2. Truth(request[r].cred) = "inactive"
    BY DEF Truth, Verdict
  <2>3. QED
    BY <1>1, <2>1, <2>2 DEF IInv, AgeInv, FetchesAge, Known
<1>2. QED
  BY <1>1, Invariance, PTL

\* The cache is finite and within its limit before and after every store.
Bounded == IsFiniteSet(DOMAIN cache) /\ CacheBounded

LEMMA BoundedInductive == Bounded /\ [Next]_vars => Bounded'
<1> SUFFICES ASSUME Bounded, [Next]_vars PROVE Bounded'
  OBVIOUS
<1> USE AuthAssumption DEF Bounded, CacheBounded
<1>1. ASSUME NEW r \in Requests, Resume(r), Cached(request[r].cred) PROVE Bounded'
  <2>1. IsFiniteSet(DOMAIN Room) /\ Cardinality(DOMAIN Room) < CacheMax
    <3>1. CASE Cardinality(DOMAIN cache) >= CacheMax
      BY <3>1, FS_EmptySet DEF Room, NoEntries
    <3>2. CASE ~(Cardinality(DOMAIN cache) >= CacheMax)
      BY <3>2, FS_CardinalityType DEF Room
    <3>3. QED
      BY <3>1, <3>2
  <2>2. DOMAIN cache' = DOMAIN Room \union {request[r].cred}
    BY <1>1 DEF Resume
  <2>3. /\ IsFiniteSet(DOMAIN cache')
        /\ Cardinality(DOMAIN cache') <= Cardinality(DOMAIN Room) + 1
    <3> DEFINE S == DOMAIN Room
               x == request[r].cred
    <3>1. IsFiniteSet(S) /\ Cardinality(S) \in Nat
      BY <2>1, FS_CardinalityType
    <3> HIDE DEF S, x
    <3>2. IsFiniteSet(S \union {x}) /\ Cardinality(S \union {x}) <= Cardinality(S) + 1
      <4>1. /\ IsFiniteSet(S \union {x})
            /\ Cardinality(S \union {x}) = IF x \in S THEN Cardinality(S) ELSE Cardinality(S) + 1
        BY ONLY <3>1, FS_AddElement, Zenon
      <4> DEFINE m == Cardinality(S)
                 n == Cardinality(S \union {x})
      <4>2. (n = m \/ n = m + 1) /\ m \in Nat
        BY <3>1, <4>1
      <4> HIDE DEF m, n
      <4>3. n <= m + 1
        BY ONLY <4>2
      <4>4. QED
        BY <4>1, <4>3 DEF m, n
    <3>3. QED
      BY <2>2, <3>2 DEF S, x
  <2>4. /\ Cardinality(DOMAIN Room) \in Nat
        /\ Cardinality(DOMAIN cache') \in Nat
    BY <2>1, <2>3, FS_CardinalityType
  <2>5. QED
    BY <2>1, <2>3, <2>4
<1>2. CASE UNCHANGED cache
  BY <1>2
<1>3. ASSUME NEW r \in Requests, Resume(r), ~Cached(request[r].cred) PROVE UNCHANGED cache
  BY <1>3 DEF Resume
<1>4. QED
  BY <1>1, <1>2, <1>3
     DEF Next, Tick, ChangeAccount, EndKey, ChangeOrganisation, Arrive, Fetch, Admit, Reject,
         Finish, vars

\* However the fetches overlap, the cache never holds more than _USER_CACHE_MAX entries.
THEOREM BoundCorrect == Spec => []CacheBounded
<1>1. Init => Bounded
  BY FS_EmptySet, AuthAssumption DEF Init, NoEntries, Bounded, CacheBounded
<1>2. Bounded => CacheBounded
  BY DEF Bounded
<1>3. QED
  BY <1>1, <1>2, BoundedInductive, PTL DEF Spec
=============================================================================
