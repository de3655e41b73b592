# GovAI: a TLA+ model of the governance gateway and its API

GovAI stands between a company's AI agents and the language models they call. Every call goes
through a **gateway** (`src/gateway`), which knows the registered agents, scans for personal data,
applies the organisation's policies, sends some calls to a human and records them all. The
**API** (`src/api`) is the panel behind which people register agents, edit policies and decide
what the gateway has put aside. Both are asyncio processes (FastAPI, one process each) over one
PostgreSQL database; they talk through its rows and through Redis channels. Agents use an **SDK**
(`src/sdk`) that polls the API for a human's decision.

What makes this hard is not in any single function. Handlers of one process interleave at every
`await`; handlers of the two processes interleave at every statement and commit; background loops
write what handlers read; a row is committed before the event that tells of it, and the event
may be lost; memory is lost with the process and the rows are not. The modules below are about
those interleavings.

## 1. Inventory

For each component: the state it keeps, its operations, what is hard, what makes it correct.

**Human-oversight queue** (`gateway/oversight.py`, `api/routers/oversight.py`,
`api/repositories/oversight_repository.py`, `sdk/govai_sdk/client.py`; modelled in `Oversight`).
State: rows of `oversight_queue` (status, reviewer, `ttl_expires_at`). Operations: the gateway
inserts a pending task and publishes `oversight:pending`; reviewers start a review and submit a
decision; a loop escalates expired tasks once a minute and publishes `oversight:escalated`; the SDK
polls until the status is not `pending`. Hard: two requests deciding one task (the check and the
UPDATE are apart), a decision against the escalation, failures between commit and publish, an SDK
that has acted on a decision that is replaced. Correct when: a settled decision stands, only a
reviewer who saw the task pending replaces one, events never run ahead of commits, outcomes are
accounted for, every task is decided.

**Gateway authentication** (`gateway/auth_middleware.py`, reads of `gateway/database.py`; modelled
in `GatewayAuth`). State: a dictionary of account verdicts with a life of 30 s and at most 10 000
entries. Operations: `dispatch` for JWTs (cached verdict) and API keys (a query every time), then
the status of the organisation (a query every time). Hard: answers of overlapping fetches are
stored out of order; the limit of the cache is reached while fetches are under way. Correct when:
a stale verdict is bounded by the TTL, revocation of a key is immediate, the cache stays in bounds.

**Policy rule cache** (`gateway/policy_engine.py`, `_policy_refresh_loop` of `gateway/main.py`;
modelled in `PolicyCache`). State: deny rules per organisation, a lock per organisation.
Operations: lazy first load under the lock, refresh of what is loaded without the lock, evaluate.
Hard: two writers with an await before the write, failing reads, restarts. Correct when: calls are
judged by their own organisation's rules and never by none, rules never go back in time, changes
come into force, nobody waits for ever.

**Gateway call pipeline and audit** (`gateway/proxy.py`, `PolicyEngine.evaluate`,
`gateway/audit_logger.py`; modelled in `GatewayCall`). State: rows of `agents`, `policies`,
`audit_log`; background tasks of the process. Operations: `handle_chat_completion` with its ten
kinds of answer, `write_audit`. Hard: changes of agent and policies between the awaits; exits that
audit nothing; tasks that are lost. Correct when: a prompt goes out only if it was permitted, a
denial wins over everything that follows it, the log tells the truth, the feed follows the log.

**Login, sessions, accounts** (`api/routers/auth.py`, `api/services/auth_service.py`,
`api/dependencies/auth.py`) and **organisations** (`api/routers/platform.py`); modelled in `Sessions`.
State: users, tenants, refresh tokens, the platform's audit log; access tokens are stored nowhere.
Operations: login, refresh, logout, the authentication of every request, administration of users,
password changes and resets, creation, change, deletion and entering of organisations. Hard: login
verifies the password in one transaction and stores the session in another, while a password change
revokes all sessions in between; every handler decides on rows it read in an earlier statement; an
access token outlives what it was issued on. Correct when: a token is never worth more than the
rows say, a session outlives its password only in the one window the code leaves, slugs stay
distinct, a deleted organisation stays as it is, what the platform does is on record.

**Providers, and what goes to them** (`api/routers/providers.py`, `gateway/services/provider_selector.py`,
`gateway/pii_scanner.py`, `gateway/services/data_sensitivity.py`, `api/services/llm_client.py`;
modelled in `Providers`). State: the rows of `providers`, of the platform and of organisations, with
their keys, and the platform's keys in the environment; `audit_log` refers to the rows. Operations:
create, PATCH, health, delete; on the other side scan, classify, select, resolve the key, forward,
record. Hard: validation against a row read earlier; rows older than the validation; a provider
deleted between selection and record; three places that look for a key, of which the last,
litellm's own, is outside the repository; classification after redaction, which may lower a level or
raise it. Correct when: keys stay where they belong, contents go only where their sensitivity may
go, writers touch only their own rows, the log keeps the providers it names.

**The panel's requests** (`api/database.py`, `api/routers/policies.py`, `agents.py`, `compliance.py`,
`settings.py`, `reports.py`, `demo.py` with their services and repositories; modelled in `Registry`
and `Panel`). State: the rows of policies, agents, requirements, parameters and their history; a
pool of connections; a cache of the parameters per process. Operations: 23 kinds of request,
the refresh loop. Hard: each request holds one connection for its whole length and some take a
second inside it; read, check, write at different moments (toggle, keywords, history, fleets); the
cache is written before the commit and by a loop with an older snapshot; deletions cascade. Correct
when: a request has done what it was asked to unless it was overtaken, policies name agents that are
there, the cache comes to agree with the database, and nothing but an exhausted pool stops a request.

**Dashboard and its WebSocket**, **framework adapters of the SDK**, **panel, website, translations,
deployment**: read-only queries, a relay, stateless wrappers, user interface. Not modelled.
`PROJECT.json` lists each with its files and the reason, and the hazards with their lines.

## 2. Modules

| module | role |
|---|---|
| `Oversight` | the queue, its reviewers, the escalation loop, the SDK's polling |
| `OversightLifecycle` | abstract: the life of a task, as everyone outside relies on it |
| `OversightProofs` | proofs about `Oversight`, the refinement among them |
| `GatewayAuth`, `GatewayAuthProofs` | the authentication middleware and its verdict cache |
| `PolicyCache`, `PolicyCacheProofs` | the rule cache: first loads, refresh loop, restarts |
| `GatewayCall` | one call through the gateway, and the records it leaves |
| `CallLedger` | abstract: what the gateway promises of every call, to its caller and to an auditor |
| `GatewayCallProofs` | proofs about `GatewayCall`, the refinement of `CallLedger` among them |
| `Sessions`, `SessionsProofs` | accounts, organisations and sessions of the API, with the authentication of requests |
| `Providers`, `ProvidersProofs` | rows of providers under concurrent changes, and the calls that use them |
| `Registry` | the panel's rows and what is computed from them alone: PATCHes, assessment, recommendations, fleet |
| `Panel` | the panel's requests on those rows, over a bounded pool and beside a refresh loop |
| `PanelProofs` | proofs about `Panel` and the operators of `Registry` |
| `MC*` | instances for TLC, with a `.cfg` for each question |

The modules meet at narrow interfaces. `GatewayCall` pushes a task (`PushTask`, `AnnounceTask`): the
first two actions of `Oversight`, whose `PushFails` is `GatewayCall`'s `Fail` at "announce".
`GatewayCall` reads the policies through a cache that lags behind the database: `ReadRules`, `StoreRules`
and `RefreshFails` are what one organisation's entry goes through in `PolicyCache`, one read at a time,
which is what `OneWriter` there has proved, and `FetchFails` of a first load is `RulesUnavailable`; that a refresh comes round again is
`ChangesComeIntoForce`, not assumed here. A request reaches
`GatewayCall` after `Admit` of `GatewayAuth`. `Providers` opens what `GatewayCall` leaves open as `Route`
and `Complete`: which provider, with which key, with which contents. `Panel` leaves out who may ask
what, which is `Sessions` (its `Authenticate` is the first step of every request here); its `Enqueue` is
`InsertTask` of `Oversight`; its writes of agents and policies are `ChangeAgent` and `ChangePolicy` of
`GatewayCall` and `ChangePolicies` of `PolicyCache`.

### How state and actions correspond to the code

Steps. In the gateway an action runs from one `await` to the next; in a database transaction it is
one statement, and the last statement is taken together with the COMMIT: between the two, other
writers of the row wait for its lock and readers still see the old row, as they do before the
step. `NOW()` is the start of the transaction, so the escalation loop has a step of its own for BEGIN
(`MonitorWakes` fixes what is expired) and the UPDATE checks `pending` again on the rows it meets.

*Oversight.* `status` and `reviewer` are the columns; `expired` is the set of tasks whose
`ttl_expires_at` has passed; `push` is `push_oversight_task` between INSERT and publish; `claim` is a
review request between its read and its UPDATE (`ClaimTask`, the 404/409 check; `SubmitReview`, the
UPDATE, which has no condition on the status; `ReleaseTask`, a `start_review` that ends or a request
that is rolled back); `monitor` is `ttl_monitor_loop`; `client` is `wait_for_oversight`, where `polls`
stands for `elapsed`. `review_start_at` and `reviewed_at` are not read by any of this and are left
to a later module.

*GatewayAuth.* A session is an account and the kind of its token ("home"; "enter", the
super-admin's token for another organisation; "foreign", a token whose tenant is not the
account's). `AccountVerdict` is the decision of `_check_user`; `request` is `dispatch` with its
awaits around the query (`Arrive`, `Fetch`, `Resume`), then the organisation (`Admit`, `Reject`);
`Expiry` is the code's `now + _USER_CACHE_TTL`, with the `now` read before the await. `since` is
history: when the true verdict on a credential last changed.

*PolicyCache.* A rule set is known by its owner and the version of the policies it was read from.
`call` is `ensure_loaded` and `evaluate`, `loop` is `refresh_all`; a fetch has two moments, when the
database answers and when the coroutine resumes, since what happens between them is what could go
wrong. `judged` is history: the newest version any call of this process was judged by, which a
judgement by older rules does not lower.

*GatewayCall.* A policy is known by its type and the contents it matches. `policies` are the committed
rows, `rules` the entry of `_deny_rules`, `reading` what a fetch under way will bring; `Decide` looks at
`rules` only. `call` is the handler; the
answers are its exits, of which `Audited` are those that start an audit task. `Fail` stands for every
exception nobody handles and for the client hanging up. `task` is the background task of
`write_audit`. `since` is history: what has been true at some moment since the call came and, of the
policies, since the read that brought the rules in force when it came (each read carries what
has been true since, `seen`). `CallLedger` sees of
all this the answers, what was sent and queued, the log and the feed: `InsertRow` is its `Record`, `PublishRow` its `Show`, an
exit its `Answer`, `Route` and `PushTask` its `Send` and `Queue`, and everything else a stutter.

*Sessions.* An access token is an account and the organisation it acts in (`act`); nothing else in it
decides anything. `login` is a sign-in between its two transactions (`Verify`, `Store`), `req` a request:
"acting" between the two statements of `authenticate_token`, "admitted" before the handler,
"checked" after the handler's reads, "locked" between the UPDATE of a password and its commit,
when the row of the account makes others wait, `Store` among them, whose last statement updates
`last_login_at`. The first statement of a request is taken with its arrival, and a request refused
there is not in the model: it writes nothing. Expiry of tokens only takes behaviours away. The
rows of organisations, of their first administrators and of the audit are one commit, as in the
code. `Logout` ends whatever refresh token it is given, the caller's or another's. `TakeSuper` is external: no operation of the API takes that right away. `lacking` and `overtaken`
are history.

*Providers.* A row has the columns that decide something: who owns it, own address, name of a
platform key, own key (none, good, or one the gateway cannot decrypt), ceiling, models, active, health,
priority. `Read` is `_get_writable` and the validation, `Update` and `Delete` the statement that follows and its
commit. A message is plain or structured, has recognised personal data or not, and a level of
sensitivity. `Route` is scan, classification and selection, one step, since the handler awaits once,
in the query of the rows; `Redacted` leaves a redacted message at its level, a lower one (what gave the
level is gone) or the confidential one (the marks `[PL_PESEL]` and `[PL_ID_CARD]` contain keywords of it).
`ResolvedKey` is `resolve_api_key`, `KeyOf` adds the default keys of `handle_chat_completion`, and `KeySent`
is the key the call is made with: external, since it is litellm that looks into the environment when it is given none, and
`docker-compose.yml:94-95` puts the keys of Anthropic and DeepSeek there; `Forward` is the request to the provider, `Record` the audit row, with the
foreign key that refuses it when the provider is gone. `Consult` is a report's client, which takes the
organisation's own key, or the platform's when that row cannot be used. `unchecked` is history: rows whose last write no validation saw as a whole.

*Registry and Panel.* A request takes a connection to authenticate and gives it back, takes one for its
transaction (`Open`), reads (`Look`), may wait for a second one (`Nest`, `CommitNested`), and writes and commits.
`Refused` is every 400, 403 and 404 of the handlers. Rows held by a transaction that has not
committed make others wait: `Held` (agents of a fleet under deletion, and the policies that go with
them) and `SettingHeld`; a DELETE that has waited looks at the fleet marker again, as PostgreSQL does with the rows it
meets (`Clear`). A rollback is `Abort`, possible until the commit, except while waiting for
the second connection, a wait that nothing ends. `LoadDefaults`, `LoadOverrides`, `StoreLoaded`, `LoadFails` are
`settings_service.load`, run by the loop and by `reload`. A report is what it was computed from: the agent, or
the agents, read first, the requirements read later. The fifty agents of a fleet are written in one
statement and deleted in one: one row represents them, of any kind `FleetRows` has. `overtaken` is
history: another request has written, since this one read, what it goes by. The fleet marker is a part of `compliance_decl`, which a PATCH of the claims replaces as a
whole, marker included (`RegisteredAgent`). One organisation: rows of others
are out of sight by row-level security, those of the platform are in the model.

## 3. Runs

| run | instance | checks | distinct states |
|---|---|---|---|
| `oversight` | 2 tasks, 2 reviewers' requests, 1 poll, fair | type, events, outcomes, the two action properties, refinement of `OversightLifecycle`, every task is decided | 534 274 |
| `oversight_final` | 1 task, 2 requests | **violated**: a decision is final | (stops early) |
| `gateway_auth` | 1 account, 3 kinds of token, 1 key, 2 requests, TTL 2, cache of 1, clock 0..2 | type, expiry of verdicts, revocation, bound | 3 690 892 |
| `policy_cache` | 2 organisations, 2 calls, 1 change each, fair | type, own rules, no regress, one writer, changes come into force, waiters move on | 9 773 |
| `gateway_call` | 1 agent, 1 content, 2 calls | type, permission, denial, audit, refinement of `CallLedger` | 578 456 |
| `audit_complete` | 1 call | **violated**: every call is recorded | (stops early) |
| `oversight_rules` | 1 call | **violated**: oversight rules apply | (stops early) |
| `sessions` | 4 organisations (2 founded), 5 accounts (2 existing), 1 sign-in, 2 requests, 2 passwords | type, rights, stale sessions, slugs, records, passwords, deletion | 164 730 |
| `sessions_revoked` | the same | **violated**: sessions end with the password | (stops early) |
| `providers` | 4 rows (1 to be created), 2 organisations, 3 administrators, 2 requests, 1 call | type, keys, contents, validation, log, ownership | 1 144 862 |
| `providers_keys` | the same | **violated**: the platform's keys go to the provider | (stops early) |
| `panel` | 2 requests of 23 kinds, pool of 2, the loop, 2 agents, 2 policies, 2 requirements, fair | type, foreign key, answers, cache, termination | 137 232 |

Why the bounds are enough. *Oversight:* tasks meet only in the batch of one escalation, for which two
are enough; two requests can hold one task, the second overwriting the first, and a third adds
nothing to either; one poll before the timeout gives a client that sees the task pending, then
decided, and one that runs out. *GatewayAuth:* verdicts of one session go wrong by two overlapping
fetches, so two requests; a cache of one overflows with the second session; a TTL of 2 on a
clock of 0..2 lets an entry be stored late, be hit, and end. *PolicyCache:* two organisations to
mix up rules, two calls to overlap first loads, one change for an answer that is old. *GatewayCall:*
calls meet only through the records; one agent and one content suffice since a call reads one of
each, and both can change between any two of its steps, and one read of the policies at a time is all the cache has. *Sessions:* the race of a sign-in is with one
password request, and the handlers' races are between two requests; the organisations and accounts
are those that can collide: two of one slug to be founded, a super-admin and a partner with one
address, an organisation already entered. *Providers:* a row is spoilt by two overlapping PATCHes, the
record is lost by one deletion beside one call, and the rows are one of each kind: the platform's, an
organisation's with its own key, one older than the validation, and the two that may be created, of another type and
with an own address; the contents have a message that redaction may lower and one it leaves alone. *Panel:* the answers go wrong by two
requests on one row, and a pool of two is exhausted by two; a third request adds no kind of
interleaving of reads and writes, since each request reads and writes once.

Deadlock is checked in the runs of `Oversight`, `GatewayAuth`, `PolicyCache` and `GatewayCall`: the loops and the panel never stop. In `sessions`, `sessions_revoked`,
`providers`, `providers_keys` and `panel` a request, a call or a sign-in is one occurrence and is not used again, so the
instance comes to its end when all have ended: `CHECK_DEADLOCK FALSE`. In `panel` a real deadlock, the
jammed pool, is what `RequestsEndUnlessJammed` speaks of.

Symmetry is used where calls or requests are interchangeable and no liveness is checked
(`gateway_auth`, `gateway_call`, `sessions`, `providers`).

### What the runs show

Seven runs pass. Five properties that the repository states of itself are violated:

* `oversight_final`: *"Zadanie już rozpatrzone"* (already decided) is answered by a check that the
  UPDATE does not repeat; of two requests that both read `pending` the second replaces the decision,
  and the SDK may have returned the first. What does hold is `SettledDecisionStands` and
  `DecisionReplacedByClaimant`: the window closes when the last request that saw the task pending
  has ended, and the escalation never replaces a decision.
* `audit_complete`: the README promises a record of *każdego wywołania* (every call); the record is a
  background task that can be lost, and some exits have none. What does hold is `AuditTellsTruth`:
  a row that exists says what happened.
* `oversight_rules`: the README lists `oversight_required` among the rules that are enforced; policies
  of that type can be stored and are dropped on loading. Only the flag of the agent leads to oversight.
* `sessions_revoked`: the docstring of `reset_password` says that all sessions of the account end
  (*"unieważnia wszystkie jego sesje"*); a sign-in that has verified the old password stores its token after
  them. What does hold is `StaleSessionsWereOvertaken`: no other session survives, because `change_password` and the second
  transaction of `login` meet on the row of the account.
* `providers_keys`: a comment in `proxy.py` says that the platform's default key is never for a provider with an
  address of its own; the code leaves the key out, and litellm, given none, takes the one in the environment and
  sends it to that address. This rests on litellm's key lookup, which is external. What does hold is
  `KeysStayHome`, of the keys the gateway hands over itself: an organisation's goes nowhere but with its own row, the
  platform's never to an own address, and reports, whose client is always given a key, are free of the fallback.

Of the properties that hold, some say less than one might wish, and the conditions in them are what the
code does: a deny policy binds the calls that come after a refresh has read it, up to a minute later, or longer if
refreshes fail, while the status of an agent is read for every call (`ForwardingWasPermitted`: the agent permitted at some
moment of the call, the content at some moment since the rules in force were read); a toggle, new keywords, a seeded fleet, an enterprise report and a row of the history are what their request was told unless
another request came between its read and its write (`AnswersHoldUnlessOvertaken`; two seeds at once leave
two fleets, though `seed_fleet` calls itself idempotent); a provider's row may hold a configuration the panel
would refuse, after two PATCHes (`InvalidOnlyIfOvertaken`), and it is the gateway's second check that
does not hand it a key of the platform (`KeysStayHome`); the audit row of a call is lost when its provider is deleted meanwhile
(`LogKeepsItsProviders`), one reason among those of `GatewayCall`; and two requests that each wait for a second connection stop the panel
(`RequestsEndUnlessJammed`), with a pool of 20, twenty.

Seen while modelling and outside the model: `collect_enterprise_data` compares the costs of agents with
`cost_alert_threshold_eur`, a column its query does not select (`api/services/enterprise_report.py:95-97`, `:199`), so
its list of budget alerts is always empty; `fetch_active_policies` (`gateway/database.py:141`) ignores the level and the
agent of a policy, so a deny policy written for one agent denies the calls of the organisation.

## 4. Fairness

Only three runs assume fairness, and only of the program's own loops and of the database.

* `Oversight`: the loop's steps are weakly fair, since its body catches every exception and the
  `sleep` ends (`gateway/oversight.py:115-144`); the clock reaches `ttl_expires_at`; the UPDATE
  is strongly fair: an outage of the database (`MonitorFails` instead of `MonitorEscalates`) is not
  permanent. Nothing is assumed of reviewers, callers or pollers.
* `PolicyCache`: the refresh loop and the loading calls go on (`command_timeout=5` of the gateway's
  pool: the database answers or the query fails; `app_settings.load`, which runs before each
  refresh, catches its exceptions: that a failed load of the settings leaves the loop alive is assumed here and checked nowhere); strong fairness on taking the lock, because `asyncio.Lock`
  serves its waiters in order; strong fairness on the loop's reads and stores, per organisation:
  an outage is not permanent. Nothing is assumed of callers or of who edits policies.
* `Panel`: a request that can take its next step takes it or another of its own (every statement has
  `command_timeout=30`, the narratives and the gateway's answer have time limits of their clients); strong fairness on
  connections, because asyncpg's pool serves those who wait in turn; strong fairness on the loop's reads and
  on its store: an outage of the database is not permanent, and the loop catches its exceptions.
  Nothing is assumed of who sends requests.

## 5. Proofs

TLAPS proves, for every value of the constants, the type invariant and every safety property that
the passing runs check, of seven modules:

* `Oversight`. The inductive invariant adds to the properties that a row exists exactly when its INSERT
  has committed (`RowIffInserted`), that a claim is on a task that exists (`ClaimsExist`), that the batch to be
  published was decided (`BatchDecided`) and expired (`BatchExpired`), and that every decision was earned
  (`DecisionsEarned`: a reviewer on record, or escalated and expired). Without the last, nothing
  relates what a poll returned to the row it read. The two action properties follow from the guards
  of single actions and need only the type of `claim`. `Refinement`: initial states map to initial
  states, and each action maps to a step of `OversightLifecycle` or to a stutter; the escalation of
  a batch is one abstract step.
* `GatewayAuth`. `VerdictsExpire` is not inductive: the invariant says how old a verdict may be in each place
  it passes through. An entry of the cache lives at most TTL from now, and one whose verdict is outdated dies at most TTL
  after the change that outdated it (`EntriesAge`: `until <= since + TTL`); an outdated answer on its way to
  the cache belongs to a request that started no later than that change (`FetchesAge`: `started <= since`),
  because the database is read in one step at some moment of the request; and nothing but sessions is
  cached (`OnlySessionsCached`), which is what makes revocation of a key immediate. `SinceIsPast`
  and `StartedInPast` keep the clock ahead of both, `AdmittedWithOk` says that nothing but the verdict "ok" admits.
  `CacheBounded` is proved on its own, with the library's facts on cardinalities.
* `PolicyCache`. `OneWriter` rests on "a call that loads holds the lock of its organisation, which is not
  loaded" and "the loop works on loaded organisations only" (`LoadersHoldLock`, `LoopOnLoaded`): hence
  the two writers cannot overlap. `RulesNeverRegress` then needs that versions on the way to the cache are between
  what is in it and what is in the database (`VersionsGrow`), and that no call has been judged yet in an
  organisation that is not loaded: a first load cannot undo anything.
* `GatewayCall`. The invariant speaks of one call at a time. `FlowInv`: where a call is says what has been
  done for it (no background task before an answer, a request to the model exactly at
  "model", a review queued exactly at "announce", an audited answer that agrees with what was queued and sent).
  `MomentInv`: what the handler has read (a deny rule matches, the agent is stopped...) was true at some
  moment of the call, the present included: the moment may be gone when the
  handler acts on it, so the properties cannot speak of the present alone. `RulesInv` is the same of the cache: a content that
  the rules in force, or those being read, do not deny was undenied at some moment since they were read, and whatever
  a call in progress may come to be judged by has seen no more than the call has. `RowInv`: rows and events follow
  from the state of the background task. Every exit of the handler is one of two lemmas, an answer that is recorded
  (`AuditedKeeps`) and one that is not (`UnauditedKeeps`); a step of one call disturbs no other
  (`Untouched`), and the panel only adds moments (`PanelKeeps`). `Refinement` needs besides that an answer comes with
  the end of the call and that an event waits for one publication (`AnswersComeLast`); then each action is a step of
  `CallLedger` or a stutter, and `LedgerAnswers` is the one lemma for all exits. `RecordsCorrect` says where exactly the
  promise of `audit_complete` breaks: a forwarded call that is through is in the log unless its handler failed or its task was
  lost. `FeedFollowsAudit`, which the ledger implies, is also stated on its own.
* `Sessions`. The invariant has four parts besides the properties. `RequestsFit`, `LoginsFit`: what a request or
  sign-in carries fits its kind, as far as its stage uses it. `RequestsExist`, `TablesExist`: what a
  request has found in being still is, because nothing that exists ceases to (`Grows`; a deletion only marks). On
  this rest `DeletedIsFinal`, `SlugsDistinct` and `PasswordsChangeOnRequest`: a founding writes rows that
  nobody else holds. `LackInv`: the rights a request has lacked so far are none once it is granted, "target" at
  most before the organisation acted in is read, and part of what it lacks now before the account
  behind a refresh token is read; without the last clause, an account suspended and restored in between could not
  be told from one suspended all along. `LoginsFresh`: a sign-in nobody overtook goes by the password its account
  has; stored or not, which is what makes `StaleSessionsWereOvertaken` inductive. The actions are grouped by what they
  disturb (`Quiet`, `RequestOnly`, `AccountsStep`, `OrganisationStep`, `TablesStep`).
* `Providers`. `InvalidOnlyIfOvertaken` needs that the patch of a request that was not overtaken still
  makes an acceptable row of the row that is there (`PatchesFit`), and that a change of health is none of the
  configuration (`HealthHarmless`). `OwnersOnly` and the calls' half of `KeysStayHome` rest on
  `RequestsMayWrite`: a patch leaves the owner of a row (`PatchedType`), so what was checked at the read holds at the
  write. `KeysStayHome` speaks of the key a call is made with, the one from the environment included, and is
  proved of all three places that look for one. What a call carries is settled when it is routed (`RouteGood`, `ConsultGood`); later changes of rows
  leave it true (`WriteKeepsCalls`).

* `Panel`. The invariant is in three parts. Of the process (`ProcessInv`): what a request carries fits its kind and its stage (`StageFits`,
  `SawFits`), a load belongs to who asked for it (`LoadsFit`), and a connection is held exactly at the stages that give
  it back (`ConnectionsHeld`), which makes the bound of the pool inductive. Of the tables (`TablesInv`): rows are of their kind, the row of a request
  that has not ended is not there (`RowsAreNew`), so an INSERT overwrites nothing, and `PoliciesNameAgents`. Of what both say
  (`ReadsHold`): what a request goes by and no other has written since is still so. From the last, `AnswersHoldUnlessOvertaken`
  is a fact about one step. `Told` and `ReadsKeep` carry it through a step of another request: a write that tells whom it
  overtakes leaves the reads of the others true; so every action has to tell enough, which is what the proof checks.
  `CascadeKeeps` is the deletion of a fleet with the policies that name it. Two theorems answer what
  `RequestsEndUnlessJammed` leaves open: a jam takes as many requests waiting for a second connection as the pool has
  connections (`JamsCorrect`), so fewer requests at once than the pool's `max_size` cannot jam it, and it never clears (`JamsForEver`): in a jam no
  request has a step and the loop cannot load. `FleetStory` and `AskingMore` are about the operators of `Registry`.

Where a model was changed for the proofs: in `Panel` a change of an agent's status no longer counts as one of what the reset of a
fleet goes by, since it leaves the fleet's marker alone (`AnswersHoldUnlessOvertaken` says more so); the kinds of the columns of a body are written
down (`Fits`, `Columns`).

The assumptions are those of each module's ASSUME (constants are of the right kind, "nobody" is no
call, a TTL is positive; accounts at the start have their organisation, and organisations at the start
distinct slugs, as the foreign key and the unique index of the schema require; in `Panel` the identifiers of new rows are new,
as `gen_random_uuid` makes them, the policies at the start name agents that are there, and the body of a request has the columns its handler's
model requires): nothing is assumed finite.

Model-checked only: the liveness properties (`EveryTaskDecided`, `ChangesComeIntoForce`, `WaitersMoveOn`,
`SettingsConverge`, `RequestsEndUnlessJammed`), since
liveness under fairness and ENABLED are out of the prover's reach, and the five violated properties, whose
counterexamples are the point. Also out of reach are inductions over data and anything behind a RECURSIVE
operator; no module uses one.

## 6. Abstractions, and what is not modelled

* Contents, names, reasons, costs, latencies and translations: not told apart by any property.
* What the model answers: an open choice of `Complete`. `GatewayCall` leaves the provider open too; `Providers` does not.
* The regular expressions and keyword lists that recognise personal data and sensitivity: a message has both or not.
* Passwords, tokens and keys are values; hashing and encryption are "fits" and "can be decrypted".
* The API's own checks of API keys, locales, last logins, copies of template policies, the totals over the audit log
  that dashboard and reports show: no other operation reads them.
* The columns `review_start_at` and `reviewed_at` of the oversight queue: only the alert on quick reviews reads them.
* The gateway's copy of the parameters (`gateway/app_settings.py`): one writer, its loop, which replaces both parts
  as `StoreLoaded` does; the API's copy has the writers that make it hard.
* `Panel` serves one organisation and one process: what another organisation's requests do to it is to take connections.
* Time: `Oversight` has "expired or not", `PolicyCache` none, `GatewayAuth` a clock, because its property is
  about an age.
* Row-level security, constraints and triggers of the database (`db/migrations/015`): taken as given.
* Gateway and API run as one process each, as `docker-compose.yml` and the Dockerfiles start them.
* Client disconnects are in `GatewayCall` and `PolicyCache`; in `GatewayAuth` a request that disappears is
  one that takes no further step.

## 7. Plan

Done: the modules above, their runs, and the proofs of section 5. Next, in this order:

1. The composition of `GatewayCall` with `Oversight`; `GatewayCall` has the delay of `PolicyCache` already.
2. `ReviewTiming`, if a document comes to say whose opening of a task counts.
