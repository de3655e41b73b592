---------------------------- MODULE PolicyCache ----------------------------
(***************************************************************************)
(* The policy rules the gateway judges calls by (gateway/policy_engine.py, *)
(* the refresh loop of gateway/main.py, fetch_active_policies).  Rules are *)
(* kept per organisation: loaded by the first call that needs them, under  *)
(* a lock of the organisation, then replaced by the refresh loop, which    *)
(* takes no lock.  What a fetch returns is known by the organisation it    *)
(* asked for and the version of the policies it saw.  asyncio interleaves  *)
(* calls and loop at the awaits: the lock and the two moments of a fetch.  *)
(***************************************************************************)
EXTENDS Naturals, FiniteSets

CONSTANTS Tenants,     \* organisations
          Calls,       \* gateway calls in progress at once
          NoCall,      \* a lock nobody holds
          NoRules,     \* no entry in _deny_rules
          MaxVersion   \* bound on the changes of one organisation's policies

Rules == [owner: Tenants, version: 0..MaxVersion]

ASSUME CacheAssumption ==
  /\ NoCall \notin Calls
  /\ NoRules \notin Rules
  /\ MaxVersion \in Nat
  /\ Tenants # {}

VARIABLES policies,  \* version of the active policies of an organisation in the database
          deny,      \* _deny_rules
          lock,      \* _locks: who holds the organisation's lock
          call,      \* ensure_loaded, then evaluate, of each call
          loop,      \* refresh_all in _policy_refresh_loop
          judged     \* history: the newest version a call of this process was judged by

vars == <<policies, deny, lock, call, loop, judged>>

CallStates == {"idle", "waiting", "fetching", "fetched", "judged"}
LoopStates == {"asleep", "refreshing", "fetching", "fetched"}

TypeOK ==
  /\ policies \in [Tenants -> 0..MaxVersion]
  /\ deny \in [Tenants -> Rules \union {NoRules}]
  /\ lock \in [Tenants -> Calls \union {NoCall}]
  /\ call \in [Calls -> [pc: CallStates, tenant: Tenants, got: Rules \union {NoRules}]]
  /\ loop \in [pc: LoopStates, todo: SUBSET Tenants, tenant: Tenants,
               got: Rules \union {NoRules}]
  /\ judged \in [Tenants -> 0..MaxVersion]

SomeTenant == CHOOSE t \in Tenants: TRUE
IdleCall == [pc |-> "idle", tenant |-> SomeTenant, got |-> NoRules]
AsleepLoop == [pc |-> "asleep", todo |-> {}, tenant |-> SomeTenant, got |-> NoRules]

Loaded(t) == deny[t] # NoRules
Fetched(t) == [owner |-> t, version |-> policies[t]]
Newer(v, w) == IF v < w THEN w ELSE v

Init ==
  /\ policies = [t \in Tenants |-> 0]
  /\ deny = [t \in Tenants |-> NoRules]
  /\ lock = [t \in Tenants |-> NoCall]
  /\ call = [c \in Calls |-> IdleCall]
  /\ loop = AsleepLoop
  /\ judged = [t \in Tenants |-> 0]

\* The API commits a change to the policies of an organisation.
ChangePolicies(t) ==
  /\ policies[t] < MaxVersion
  /\ policies' = [policies EXCEPT ![t] = @ + 1]
  /\ UNCHANGED <<deny, lock, call, loop, judged>>

\* The process restarts: the calls in progress die with its memory.
Restart ==
  /\ deny' = [t \in Tenants |-> NoRules]
  /\ lock' = [t \in Tenants |-> NoCall]
  /\ call' = [c \in Calls |-> IdleCall]
  /\ loop' = AsleepLoop
  /\ judged' = [t \in Tenants |-> 0]
  /\ UNCHANGED policies
-----------------------------------------------------------------------------
\* ensure_loaded.  It returns into evaluate without an await: a call is judged by
\* the rules in the cache at that moment.

Judge(c, t, rules) ==
  /\ call' = [call EXCEPT ![c] = [pc |-> "judged", tenant |-> t, got |-> rules]]
  /\ judged' = [judged EXCEPT ![t] = Newer(@, rules.version)]

CallLoaded(c, t) ==
  /\ call[c].pc = "idle"
  /\ Loaded(t)
  /\ Judge(c, t, deny[t])
  /\ UNCHANGED <<policies, deny, lock, loop>>

CallUnloaded(c, t) ==
  /\ call[c].pc = "idle"
  /\ ~Loaded(t)
  /\ call' = [call EXCEPT ![c] = [pc |-> "waiting", tenant |-> t, got |-> NoRules]]
  /\ UNCHANGED <<policies, deny, lock, loop, judged>>

\* The lock is taken, and the cache looked at again: another call has filled it ...
AcquireLoaded(c) ==
  LET t == call[c].tenant
  IN /\ call[c].pc = "waiting"
     /\ lock[t] = NoCall
     /\ Loaded(t)
     /\ Judge(c, t, deny[t])
     /\ UNCHANGED <<policies, deny, lock, loop>>

\* Mutant: the lock is the call's own, not the organisation's.
AcquireOwnLock(c) ==
  LET t == call[c].tenant
  IN /\ call[c].pc = "waiting"
     /\ ~Loaded(t)
     /\ call' = [call EXCEPT ![c].pc = "fetching"]
     /\ UNCHANGED <<policies, deny, lock, loop, judged>>

\* ... or it is still empty, and this call fetches.
AcquireUnloaded(c) ==
  LET t == call[c].tenant
  IN /\ call[c].pc = "waiting"
     /\ lock[t] = NoCall
     /\ ~Loaded(t)
     /\ lock' = [lock EXCEPT ![t] = c]
     /\ call' = [call EXCEPT ![c].pc = "fetching"]
     /\ UNCHANGED <<policies, deny, loop, judged>>

\* The database answers the query, ...
Fetch(c) ==
  LET t == call[c].tenant
  IN /\ call[c].pc = "fetching"
     /\ call' = [call EXCEPT ![c] = [pc |-> "fetched", tenant |-> t, got |-> Fetched(t)]]
     /\ UNCHANGED <<policies, deny, lock, loop, judged>>

\* ... and the call resumes: load_rules, release, evaluate.
Store(c) ==
  LET t == call[c].tenant
  IN /\ call[c].pc = "fetched"
     /\ deny' = [deny EXCEPT ![t] = call[c].got]
     /\ lock' = [lock EXCEPT ![t] = NoCall]
     /\ Judge(c, t, call[c].got)
     /\ UNCHANGED <<policies, loop>>

\* Mutant: the exception leaves the lock taken.
FetchFailsLocked(c) ==
  /\ call[c].pc \in {"fetching", "fetched"}
  /\ call' = [call EXCEPT ![c] = IdleCall]
  /\ UNCHANGED <<policies, deny, lock, loop, judged>>

\* The read fails, or the client is gone: 503, and nothing is judged.
FetchFails(c) ==
  /\ call[c].pc \in {"fetching", "fetched"}
  /\ call' = [call EXCEPT ![c] = IdleCall]
  /\ lock' = [lock EXCEPT ![call[c].tenant] = NoCall]
  /\ UNCHANGED <<policies, deny, loop, judged>>

\* The rest of the call, which reads no rules.
Finish(c) ==
  /\ call[c].pc = "judged"
  /\ call' = [call EXCEPT ![c] = IdleCall]
  /\ UNCHANGED <<policies, deny, lock, loop, judged>>
-----------------------------------------------------------------------------
\* refresh_all, over the organisations loaded when it starts.

\* Mutant: every organisation is refreshed, loaded or not.
LoopWakesForAll ==
  /\ loop.pc = "asleep"
  /\ loop' = [loop EXCEPT !.pc = "refreshing", !.todo = Tenants]
  /\ UNCHANGED <<policies, deny, lock, call, judged>>

LoopWakes ==
  /\ loop.pc = "asleep"
  /\ loop' = [loop EXCEPT !.pc = "refreshing", !.todo = {t \in Tenants: Loaded(t)}]
  /\ UNCHANGED <<policies, deny, lock, call, judged>>

LoopPicks(t) ==
  /\ loop.pc = "refreshing"
  /\ t \in loop.todo
  /\ loop' = [loop EXCEPT !.pc = "fetching", !.todo = @ \ {t}, !.tenant = t]
  /\ UNCHANGED <<policies, deny, lock, call, judged>>

LoopFetches(t) ==
  /\ loop.pc = "fetching"
  /\ loop.tenant = t
  /\ loop' = [loop EXCEPT !.pc = "fetched", !.got = Fetched(t)]
  /\ UNCHANGED <<policies, deny, lock, call, judged>>

\* Mutant: what was fetched replaces the rules of every organisation in the cache.
LoopStoresAll ==
  /\ loop.pc = "fetched"
  /\ deny' = [t \in Tenants |-> IF Loaded(t) THEN loop.got ELSE NoRules]
  /\ loop' = [loop EXCEPT !.pc = "refreshing"]
  /\ UNCHANGED <<policies, lock, call, judged>>

LoopStores ==
  /\ loop.pc = "fetched"
  /\ deny' = [deny EXCEPT ![loop.tenant] = loop.got]
  /\ loop' = [loop EXCEPT !.pc = "refreshing", !.got = NoRules]
  /\ UNCHANGED <<policies, lock, call, judged>>

\* Mutant: without the try/except the first error ends the loop.
LoopDies ==
  /\ loop.pc \in {"fetching", "fetched"}
  /\ loop' = [loop EXCEPT !.pc = "dead"]
  /\ UNCHANGED <<policies, deny, lock, call, judged>>

\* The organisation keeps its old rules; the others are still refreshed.
LoopFetchFails ==
  /\ loop.pc \in {"fetching", "fetched"}
  /\ loop' = [loop EXCEPT !.pc = "refreshing", !.got = NoRules]
  /\ UNCHANGED <<policies, deny, lock, call, judged>>

LoopSleeps ==
  /\ loop.pc = "refreshing"
  /\ loop.todo = {}
  /\ loop' = AsleepLoop
  /\ UNCHANGED <<policies, deny, lock, call, judged>>
-----------------------------------------------------------------------------
Loading(c) ==
  \/ AcquireLoaded(c) \/ AcquireUnloaded(c)
  \/ Fetch(c) \/ Store(c) \/ FetchFails(c)

Refreshing ==
  \/ LoopWakes \/ LoopStores \/ LoopFetchFails \/ LoopSleeps
  \/ \E t \in Tenants: LoopPicks(t) \/ LoopFetches(t)

Next ==
  \/ \E t \in Tenants: ChangePolicies(t)
  \/ \E c \in Calls:
       \/ \E t \in Tenants: CallLoaded(c, t) \/ CallUnloaded(c, t)
       \/ Loading(c) \/ Finish(c)
  \/ Refreshing
  \/ Restart

(***************************************************************************)
(* The loop goes on, and a call goes on: the database answers or fails.    *)
(* SF on the lock: asyncio.Lock serves its waiters in turn.  SF on the     *)
(* reads of the loop: an outage of the database is not permanent.  Nothing *)
(* is assumed of the callers or of who edits the policies.                 *)
(***************************************************************************)
Fairness ==
  /\ WF_vars(Refreshing)
  /\ \A t \in Tenants:
       SF_vars(LoopFetches(t)) /\ SF_vars(loop.tenant = t /\ LoopStores)
  /\ \A c \in Calls: WF_vars(Loading(c)) /\ SF_vars(AcquireLoaded(c) \/ AcquireUnloaded(c))

Spec == Init /\ [][Next]_vars
FairSpec == Spec /\ Fairness
-----------------------------------------------------------------------------
\* No call is judged by another organisation's rules, nor without rules: a failed read
\* refuses the call (fail closed).
JudgedByOwnRules ==
  \A c \in Calls: call[c].pc = "judged" =>
    call[c].got \in Rules /\ call[c].got.owner = call[c].tenant

\* The rules in force never go back behind the newest version a call was judged by in
\* this process, although first loads and the refresh loop both write them after an
\* await: neither a late first load nor a late refresh undoes what is already enforced.
RulesNeverRegress == \A t \in Tenants: Loaded(t) => deny[t].version >= judged[t]

\* One first load of an organisation at a time, and never beside a refresh of it: the
\* writes of the cache cannot overlap, though the loop takes no lock.
OneWriter ==
  \A t \in Tenants:
    LET loading == {c \in Calls: call[c].tenant = t /\ call[c].pc \in {"fetching", "fetched"}}
    IN /\ Cardinality(loading) <= 1
       /\ loading # {} => ~(loop.pc \in {"fetching", "fetched"} /\ loop.tenant = t)

\* A committed change of the policies comes into force without a restart, even past
\* failed refreshes.
ChangesComeIntoForce ==
  \A t \in Tenants: \A v \in 1..MaxVersion:
    (Loaded(t) /\ policies[t] >= v) ~> (~Loaded(t) \/ deny[t].version >= v)

\* A call that waits for the rules is judged or refused; it does not wait for ever
\* behind a load that failed.
WaitersMoveOn == \A c \in Calls: (call[c].pc = "waiting") ~> (call[c].pc # "waiting")
=============================================================================
