------------------------- MODULE PolicyCacheProofs -------------------------
(***************************************************************************)
(* Safety of the policy cache for any number of organisations, calls and   *)
(* changes.                                                                *)
(***************************************************************************)
EXTENDS PolicyCache, FiniteSetTheorems, TLAPS

Loads(c, t) == call[c].tenant = t /\ call[c].pc \in {"fetching", "fetched"}
LoopBusy(t) == loop.tenant = t /\ loop.pc \in {"fetching", "fetched"}

\* The inductive invariant.  Who loads an organisation holds its lock and finds it
\* unloaded; the loop only handles loaded ones; so the two never meet, and whatever
\* is still to be stored is at least as new as what it replaces.
LoadersHoldLock ==
  \A c \in Calls, t \in Tenants: Loads(c, t) => lock[t] = c /\ ~Loaded(t)
LoopOnLoaded ==
  /\ \A t \in loop.todo: Loaded(t)
  /\ \A t \in Tenants: LoopBusy(t) => Loaded(t)
FetchesOwned ==
  /\ \A c \in Calls: call[c].pc = "fetched" =>
       call[c].got \in Rules /\ call[c].got.owner = call[c].tenant
  /\ loop.pc = "fetched" => loop.got \in Rules /\ loop.got.owner = loop.tenant
CacheOwned == \A t \in Tenants: Loaded(t) => deny[t].owner = t
VersionsGrow ==
  /\ \A t \in Tenants: Loaded(t) => deny[t].version <= policies[t]
  /\ \A t \in Tenants: ~Loaded(t) => judged[t] = 0
  /\ loop.pc = "fetched" => deny[loop.tenant].version <= loop.got.version
  /\ loop.pc = "fetched" => loop.got.version <= policies[loop.tenant]
  /\ \A c \in Calls: call[c].pc = "fetched" => call[c].got.version <= policies[call[c].tenant]

WriterInv == LoadersHoldLock /\ LoopOnLoaded
OwnerInv == FetchesOwned /\ CacheOwned /\ JudgedByOwnRules
VersionInv == VersionsGrow /\ RulesNeverRegress

IInv == TypeOK /\ WriterInv /\ OwnerInv /\ VersionInv

LEMMA TenantsExist == SomeTenant \in Tenants
BY CacheAssumption DEF SomeTenant

LEMMA JudgeType ==
  ASSUME TypeOK, NEW c \in Calls, NEW t \in Tenants, NEW r \in Rules, Judge(c, t, r)
  PROVE  /\ call' \in [Calls -> [pc: CallStates, tenant: Tenants, got: Rules \union {NoRules}]]
         /\ judged' \in [Tenants -> 0..MaxVersion]
<1>1. r.version \in 0..MaxVersion
  BY DEF Rules
<1>2. QED
  BY <1>1 DEF TypeOK, Judge, Newer, CallStates

LEMMA TypeInductive == IInv /\ [Next]_vars => TypeOK'
<1> SUFFICES ASSUME TypeOK, FetchesOwned, [Next]_vars PROVE TypeOK'
  BY DEF IInv, OwnerInv
<1> USE CacheAssumption DEF TypeOK, CallStates, LoopStates
<1>1. IdleCall \in [pc: CallStates, tenant: Tenants, got: Rules \union {NoRules}]
  BY TenantsExist DEF IdleCall
<1>2. AsleepLoop \in [pc: LoopStates, todo: SUBSET Tenants, tenant: Tenants,
                      got: Rules \union {NoRules}]
  BY TenantsExist DEF AsleepLoop
<1>3. \A t \in Tenants: Fetched(t) \in Rules
  BY DEF Fetched, Rules
<1>4. \A t \in Tenants: Loaded(t) => deny[t] \in Rules
  BY DEF Loaded
<1>5. ASSUME NEW t \in Tenants, ChangePolicies(t) PROVE TypeOK'
  BY <1>5 DEF ChangePolicies
<1>6. ASSUME NEW c \in Calls, NEW t \in Tenants, CallLoaded(c, t) PROVE TypeOK'
  BY <1>4, <1>6, JudgeType DEF CallLoaded
<1>7. ASSUME NEW c \in Calls, NEW t \in Tenants, CallUnloaded(c, t) PROVE TypeOK'
  BY <1>7 DEF CallUnloaded
<1>8. ASSUME NEW c \in Calls, AcquireLoaded(c) PROVE TypeOK'
  <2>1. call[c].tenant \in Tenants
    OBVIOUS
  <2>2. QED
    BY <1>4, <1>8, <2>1, JudgeType DEF AcquireLoaded
<1>9. ASSUME NEW c \in Calls, AcquireUnloaded(c) PROVE TypeOK'
  BY <1>9 DEF AcquireUnloaded
<1>10. ASSUME NEW c \in Calls, Fetch(c) PROVE TypeOK'
  BY <1>3, <1>10 DEF Fetch
<1>11. ASSUME NEW c \in Calls, Store(c) PROVE TypeOK'
  <2>1. call[c].tenant \in Tenants /\ call[c].got \in Rules
    BY <1>11 DEF Store, FetchesOwned
  <2>2. QED
    BY <1>11, <2>1, JudgeType DEF Store
<1>12. ASSUME NEW c \in Calls, FetchFails(c) \/ Finish(c) PROVE TypeOK'
  <2>1. CASE FetchFails(c)
    BY <1>1, <2>1 DEF FetchFails
  <2>2. CASE Finish(c)
    BY <1>1, <2>2 DEF Finish
  <2>3. QED
    BY <1>12, <2>1, <2>2
<1>13. CASE LoopWakes
  BY <1>13 DEF LoopWakes
<1>14. ASSUME NEW t \in Tenants, LoopPicks(t) \/ LoopFetches(t) PROVE TypeOK'
  <2>1. CASE LoopPicks(t)
    BY <2>1 DEF LoopPicks
  <2>2. CASE LoopFetches(t)
    BY <1>3, <2>2 DEF LoopFetches
  <2>3. QED
    BY <1>14, <2>1, <2>2
<1>15. CASE LoopStores \/ LoopFetchFails \/ LoopSleeps
  BY <1>2, <1>15 DEF LoopStores, LoopFetchFails, LoopSleeps
<1>16. CASE Restart
  BY <1>1, <1>2, <1>16 DEF Restart
<1>17. CASE UNCHANGED vars
  BY <1>17 DEF vars
<1>18. QED
  BY <1>5, <1>6, <1>7, <1>8, <1>9, <1>10, <1>11, <1>12, <1>13, <1>14, <1>15, <1>16, <1>17
     DEF Next, Loading, Refreshing

LEMMA InitIInv == Init => IInv
<1> SUFFICES ASSUME Init PROVE IInv
  OBVIOUS
<1> USE CacheAssumption, TenantsExist DEF Init, IdleCall, AsleepLoop
<1>1. TypeOK
  BY DEF TypeOK, CallStates, LoopStates
<1>2. WriterInv
  BY DEF WriterInv, LoadersHoldLock, LoopOnLoaded, Loads, LoopBusy
<1>3. OwnerInv
  BY DEF OwnerInv, FetchesOwned, CacheOwned, JudgedByOwnRules, Loaded
<1>4. VersionInv
  BY DEF VersionInv, VersionsGrow, RulesNeverRegress, Loaded
<1>5. QED
  BY <1>1, <1>2, <1>3, <1>4 DEF IInv

\* First loads and refreshes exclude each other, action by action.
LEMMA WriterInductive == IInv /\ [Next]_vars => WriterInv'
<1> SUFFICES ASSUME TypeOK, WriterInv, FetchesOwned, [Next]_vars PROVE WriterInv'
  BY DEF IInv, OwnerInv
<1> USE CacheAssumption
    DEF TypeOK, WriterInv, LoadersHoldLock, LoopOnLoaded, Loads, LoopBusy, Loaded, CallStates, LoopStates
<1>1. ASSUME NEW t \in Tenants, ChangePolicies(t) PROVE WriterInv'
  BY <1>1 DEF ChangePolicies
<1>2. ASSUME NEW c \in Calls, NEW t \in Tenants, CallLoaded(c, t) PROVE WriterInv'
  BY <1>2 DEF CallLoaded, Judge
<1>3. ASSUME NEW c \in Calls, NEW t \in Tenants, CallUnloaded(c, t) PROVE WriterInv'
  BY <1>3 DEF CallUnloaded
<1>4. ASSUME NEW c \in Calls, AcquireLoaded(c) PROVE WriterInv'
  BY <1>4 DEF AcquireLoaded, Judge
<1>5. ASSUME NEW c \in Calls, AcquireUnloaded(c) PROVE WriterInv'
  BY <1>5 DEF AcquireUnloaded
<1>6. ASSUME NEW c \in Calls, Fetch(c) PROVE WriterInv'
  BY <1>6 DEF Fetch
<1>7. ASSUME NEW c \in Calls, Store(c) PROVE WriterInv'
  BY <1>7 DEF Store, Judge
<1>8. ASSUME NEW c \in Calls, FetchFails(c) PROVE WriterInv'
  BY <1>8 DEF FetchFails, IdleCall
<1>9. ASSUME NEW c \in Calls, Finish(c) PROVE WriterInv'
  BY <1>9 DEF Finish, IdleCall
<1>10. CASE LoopWakes
  BY <1>10 DEF LoopWakes
<1>11. ASSUME NEW t \in Tenants, LoopPicks(t) \/ LoopFetches(t) PROVE WriterInv'
  <2>1. CASE LoopPicks(t)
    <3>1. loop'.todo = loop.todo \ {t} /\ loop'.tenant = t /\ Loaded(t)
      BY <2>1 DEF LoopPicks
    <3>2. QED
      BY <2>1, <3>1 DEF LoopPicks
  <2>2. CASE LoopFetches(t)
    <3>1. loop'.todo = loop.todo /\ loop'.tenant = t /\ Loaded(t)
      BY <2>2 DEF LoopFetches
    <3>2. QED
      BY <2>2, <3>1 DEF LoopFetches
  <2>3. QED
    BY <1>11, <2>1, <2>2
<1>12. CASE LoopStores
  <2>1. loop.got # NoRules /\ loop.pc = "fetched"
    BY <1>12 DEF LoopStores, FetchesOwned
  <2>2. loop'.pc = "refreshing" /\ loop'.todo = loop.todo
    BY <1>12 DEF LoopStores
  <2>3. \A t \in Tenants: Loaded(t)' <=> Loaded(t)
    BY <1>12, <2>1 DEF LoopStores
  <2>4. QED
    BY <1>12, <2>2, <2>3 DEF LoopStores
<1>13. CASE LoopFetchFails \/ LoopSleeps
  <2>1. loop'.todo \subseteq loop.todo /\ loop'.pc \notin {"fetching", "fetched"}
    <3>1. CASE LoopFetchFails
      BY <3>1 DEF LoopFetchFails
    <3>2. CASE LoopSleeps
      BY <3>2 DEF LoopSleeps, AsleepLoop
    <3>3. QED
      BY <1>13, <3>1, <3>2
  <2>2. UNCHANGED <<deny, lock, call>>
    BY <1>13 DEF LoopFetchFails, LoopSleeps
  <2>3. QED
    BY <2>1, <2>2
<1>14. CASE Restart
  BY <1>14 DEF Restart, IdleCall, AsleepLoop
<1>15. CASE UNCHANGED vars
  BY <1>15 DEF vars
<1>16. QED
  BY <1>1, <1>2, <1>3, <1>4, <1>5, <1>6, <1>7, <1>8, <1>9, <1>10, <1>11, <1>12, <1>13, <1>14, <1>15
     DEF Next, Loading, Refreshing

\* Rules stay with the organisation they were read for.
LEMMA OwnerInductive == IInv /\ [Next]_vars => OwnerInv'
<1> SUFFICES ASSUME TypeOK, OwnerInv, [Next]_vars PROVE OwnerInv'
  BY DEF IInv
<1> USE CacheAssumption
    DEF TypeOK, OwnerInv, FetchesOwned, CacheOwned, JudgedByOwnRules, Loaded, CallStates, LoopStates
<1>1. \A t \in Tenants: Fetched(t) \in Rules /\ Fetched(t).owner = t
  BY DEF Fetched, Rules
<1>2. ASSUME NEW t \in Tenants, ChangePolicies(t) PROVE OwnerInv'
  BY <1>2 DEF ChangePolicies
<1>3. ASSUME NEW c \in Calls, NEW t \in Tenants, CallLoaded(c, t) PROVE OwnerInv'
  BY <1>3 DEF CallLoaded, Judge
<1>4. ASSUME NEW c \in Calls, NEW t \in Tenants, CallUnloaded(c, t) PROVE OwnerInv'
  BY <1>4 DEF CallUnloaded
<1>5. ASSUME NEW c \in Calls, AcquireLoaded(c) PROVE OwnerInv'
  BY <1>5 DEF AcquireLoaded, Judge
<1>6. ASSUME NEW c \in Calls, AcquireUnloaded(c) PROVE OwnerInv'
  BY <1>6 DEF AcquireUnloaded
<1>7. ASSUME NEW c \in Calls, Fetch(c) PROVE OwnerInv'
  <2>1. Fetched(call[c].tenant) \in Rules /\ Fetched(call[c].tenant).owner = call[c].tenant
    BY <1>1
  <2>2. QED
    BY <1>7, <2>1 DEF Fetch
<1>8. ASSUME NEW c \in Calls, Store(c) PROVE OwnerInv'
  BY <1>8 DEF Store, Judge
<1>9. ASSUME NEW c \in Calls, FetchFails(c) PROVE OwnerInv'
  BY <1>9 DEF FetchFails, IdleCall
<1>10. ASSUME NEW c \in Calls, Finish(c) PROVE OwnerInv'
  BY <1>10 DEF Finish, IdleCall
<1>11. CASE LoopWakes
  BY <1>11 DEF LoopWakes
<1>12. ASSUME NEW t \in Tenants, LoopPicks(t) PROVE OwnerInv'
  BY <1>12 DEF LoopPicks
<1>13. ASSUME NEW t \in Tenants, LoopFetches(t) PROVE OwnerInv'
  BY <1>1, <1>13 DEF LoopFetches
<1>14. CASE LoopStores
  BY <1>14 DEF LoopStores
<1>15. CASE LoopFetchFails \/ LoopSleeps
  <2>1. loop'.pc # "fetched" /\ UNCHANGED <<deny, call>>
    <3>1. CASE LoopFetchFails
      BY <3>1 DEF LoopFetchFails
    <3>2. CASE LoopSleeps
      BY <3>2 DEF LoopSleeps, AsleepLoop
    <3>3. QED
      BY <1>15, <3>1, <3>2
  <2>2. QED
    BY <2>1
<1>16. CASE Restart
  BY <1>16 DEF Restart, IdleCall, AsleepLoop
<1>17. CASE UNCHANGED vars
  BY <1>17 DEF vars
<1>18. QED
  BY <1>2, <1>3, <1>4, <1>5, <1>6, <1>7, <1>8, <1>9, <1>10, <1>11, <1>12, <1>13, <1>14, <1>15,
     <1>16, <1>17
     DEF Next, Loading, Refreshing

\* What is about to be stored is not older than what it replaces, nor than what a call
\* has been judged by.
LEMMA VersionInductive == IInv /\ [Next]_vars => VersionInv'
<1> SUFFICES ASSUME TypeOK, WriterInv, OwnerInv, VersionInv, [Next]_vars PROVE VersionInv'
  BY DEF IInv
<1> USE CacheAssumption
    DEF TypeOK, VersionInv, VersionsGrow, RulesNeverRegress, Loaded, Newer, CallStates, LoopStates
<1>1. \A t \in Tenants: Fetched(t) \in Rules /\ Fetched(t).version = policies[t]
  BY DEF Fetched, Rules
<1>2. \A r \in Rules: r.version \in Nat
  BY DEF Rules
<1>3. FetchesOwned
  BY DEF OwnerInv
<1>4. ASSUME NEW t \in Tenants, ChangePolicies(t) PROVE VersionInv'
  <2>1. \A u \in Tenants: policies[u] \in Nat /\ policies'[u] \in Nat /\ policies[u] <= policies'[u]
    BY <1>4 DEF ChangePolicies
  <2>2. UNCHANGED <<deny, lock, call, loop, judged>>
    BY <1>4 DEF ChangePolicies
  <2>3. QED
    BY <1>2, <1>3, <2>1, <2>2 DEF FetchesOwned
<1>5. ASSUME NEW c \in Calls, NEW t \in Tenants, CallLoaded(c, t) PROVE VersionInv'
  BY <1>2, <1>5 DEF CallLoaded, Judge
<1>6. ASSUME NEW c \in Calls, NEW t \in Tenants, CallUnloaded(c, t) PROVE VersionInv'
  BY <1>6 DEF CallUnloaded
<1>7. ASSUME NEW c \in Calls, AcquireLoaded(c) PROVE VersionInv'
  BY <1>2, <1>7 DEF AcquireLoaded, Judge
<1>8. ASSUME NEW c \in Calls, AcquireUnloaded(c) PROVE VersionInv'
  BY <1>8 DEF AcquireUnloaded
<1>9. ASSUME NEW c \in Calls, Fetch(c) PROVE VersionInv'
  <2>1. Fetched(call[c].tenant).version = policies[call[c].tenant]
    BY <1>1
  <2>2. QED
    BY <1>9, <2>1 DEF Fetch
<1>10. ASSUME NEW c \in Calls, Store(c) PROVE VersionInv'
  <2> DEFINE t == call[c].tenant
             r == call[c].got
  <2>1. t \in Tenants /\ r \in Rules /\ r.version \in Nat /\ r.version <= policies[t]
    BY <1>2, <1>3, <1>10 DEF Store, FetchesOwned
  <2>2. judged[t] = 0
    BY <1>10, <2>1 DEF Store, WriterInv, LoadersHoldLock, Loads
  <2>3. deny' = [deny EXCEPT ![t] = r] /\ judged' = [judged EXCEPT ![t] = r.version]
    <3>1. Newer(judged[t], r.version) = r.version
      BY ONLY <2>1, <2>2 DEF Newer
    <3>2. QED
      BY <1>10, <3>1 DEF Store, Judge
  <2>4. loop.pc = "fetched" => loop.tenant # t
    BY <1>10 DEF Store, WriterInv, LoadersHoldLock, LoopOnLoaded, Loads, LoopBusy
  <2>5. call' = [call EXCEPT ![c] = [pc |-> "judged", tenant |-> t, got |-> r]]
    BY <1>10 DEF Store, Judge
  <2>6. UNCHANGED <<policies, loop>> /\ r # NoRules
    BY <1>10, <2>1 DEF Store
  <2> HIDE DEF t, r
  <2>7. QED
    BY <2>1, <2>3, <2>4, <2>5, <2>6
<1>11. ASSUME NEW c \in Calls, FetchFails(c) PROVE VersionInv'
  BY <1>11 DEF FetchFails, IdleCall
<1>12. ASSUME NEW c \in Calls, Finish(c) PROVE VersionInv'
  BY <1>12 DEF Finish, IdleCall
<1>13. CASE LoopWakes
  BY <1>13 DEF LoopWakes
<1>14. ASSUME NEW t \in Tenants, LoopPicks(t) PROVE VersionInv'
  BY <1>14 DEF LoopPicks
<1>15. ASSUME NEW t \in Tenants, LoopFetches(t) PROVE VersionInv'
  <2>1. Loaded(t) /\ loop.tenant = t
    BY <1>15 DEF LoopFetches, WriterInv, LoopOnLoaded, LoopBusy
  <2>2. deny[t].version <= policies[t] /\ Fetched(t).version = policies[t]
    BY <1>1, <2>1
  <2>3. loop'.got = Fetched(t) /\ loop'.tenant = t
    BY <1>15 DEF LoopFetches
  <2>4. UNCHANGED <<policies, deny, call, judged>>
    BY <1>15 DEF LoopFetches
  <2>5. QED
    BY <2>1, <2>2, <2>3, <2>4
<1>16. CASE LoopStores
  <2> DEFINE t == loop.tenant
             r == loop.got
  <2>1. t \in Tenants /\ r \in Rules /\ r.version \in Nat /\ r # NoRules
    BY <1>2, <1>3, <1>16 DEF LoopStores, FetchesOwned
  <2>2. Loaded(t) /\ deny[t].version \in Nat
    BY <1>2, <1>16 DEF LoopStores, WriterInv, LoopOnLoaded, LoopBusy
  <2>3. judged[t] <= r.version /\ r.version <= policies[t]
    BY <1>16, <2>1, <2>2 DEF LoopStores
  <2>4. deny' = [deny EXCEPT ![t] = r] /\ loop'.pc = "refreshing"
    BY <1>16 DEF LoopStores
  <2>5. UNCHANGED <<policies, call, judged>>
    BY <1>16 DEF LoopStores
  <2> HIDE DEF t, r
  <2>6. QED
    BY <2>1, <2>2, <2>3, <2>4, <2>5
<1>17. CASE LoopFetchFails
  BY <1>17 DEF LoopFetchFails
<1>18. CASE LoopSleeps
  BY <1>18 DEF LoopSleeps, AsleepLoop
<1>19. CASE Restart
  BY <1>19 DEF Restart, IdleCall, AsleepLoop
<1>20. CASE UNCHANGED vars
  BY <1>20 DEF vars
<1>21. QED
  BY <1>4, <1>5, <1>6, <1>7, <1>8, <1>9, <1>10, <1>11, <1>12, <1>13, <1>14, <1>15, <1>16, <1>17,
     <1>18, <1>19, <1>20
     DEF Next, Loading, Refreshing

\* The invariant holds in every reachable state.
THEOREM Invariance == Spec => []IInv
<1>1. IInv /\ [Next]_vars => IInv'
  BY TypeInductive, WriterInductive, OwnerInductive, VersionInductive DEF IInv
<1>2. QED
  BY <1>1, InitIInv, PTL DEF Spec

\* Every variable always holds a value of the kind the code gives it.
THEOREM TypeCorrect == Spec => []TypeOK
<1>1. IInv => TypeOK
  BY DEF IInv
<1>2. QED
  BY <1>1, Invariance, PTL

\* No call is judged by another organisation's rules, and none without rules.
THEOREM OwnRulesCorrect == Spec => []JudgedByOwnRules
<1>1. IInv => JudgedByOwnRules
  BY DEF IInv, OwnerInv
<1>2. QED
  BY <1>1, Invariance, PTL

\* The rules in force are never older than what a call was already judged by.
THEOREM NoRegressCorrect == Spec => []RulesNeverRegress
<1>1. IInv => RulesNeverRegress
  BY DEF IInv, VersionInv
<1>2. QED
  BY <1>1, Invariance, PTL

\* First loads of an organisation exclude each other and its refresh.
THEOREM OneWriterCorrect == Spec => []OneWriter
<1>1. ASSUME IInv PROVE OneWriter
  <2> SUFFICES ASSUME NEW t \in Tenants
      PROVE LET loading == {c \in Calls: Loads(c, t)}
            IN Cardinality(loading) <= 1 /\ (loading # {} => ~LoopBusy(t))
    BY DEF OneWriter, Loads, LoopBusy
  <2> DEFINE loading == {c \in Calls: Loads(c, t)}
  <2>1. \A c \in loading: lock[t] = c /\ ~Loaded(t)
    BY <1>1 DEF IInv, WriterInv, LoadersHoldLock
  <2>2. loading # {} => ~LoopBusy(t)
    BY <1>1, <2>1 DEF IInv, WriterInv, LoopOnLoaded
  <2>3. Cardinality(loading) <= 1
    <3>1. CASE loading = {}
      BY <3>1, FS_EmptySet
    <3>2. CASE loading # {}
      <4>1. PICK c: loading = {c}
        BY <2>1, <3>2
      <4>2. Cardinality({c}) = 1
        BY FS_Singleton
      <4> HIDE DEF loading
      <4>3. QED
        BY <4>1, <4>2
    <3>3. QED
      BY <3>1, <3>2
  <2>4. QED
    BY <2>2, <2>3
<1>2. QED
  BY <1>1, Invariance, PTL
=============================================================================
