------------------------------- MODULE Panel --------------------------------
(***************************************************************************)
(* The requests of one organisation's panel on its policies, its registry  *)
(* of agents, the requirements of the EU AI Act, its parameters, its       *)
(* reports and its demonstration data, served by one process of the API.   *)
(*                                                                         *)
(* A request takes a connection to authenticate, gives it back, and takes  *)
(* one for the transaction it runs in from beginning to end (tenant_db).   *)
(* Rows of the platform are written in a transaction of their own, on a    *)
(* second connection of the same pool, while the first is held             *)
(* (platform_db).  Each statement sees what is committed when it starts: a *)
(* handler reads a row in one statement and writes it in a later one.  A   *)
(* statement and the commit after it are one step where nothing between    *)
(* them can be seen.  The parameters are cached in the process.            *)
(***************************************************************************)
EXTENDS Registry, FiniteSets

CONSTANTS Requests,       \* requests, which also name the rows they create
          PoolSize,       \* connections of the pool
          Bodies,         \* what requests ask for
          Policies0, Agents0, Requirements0,  \* the rows at the start
          Stored0,        \* the parameters at the start
          Allowed,        \* the values within the bounds of a parameter
          Classified,     \* what the model's classifications come to
          Fleet,          \* the rows one of which stands for a fleet
          Queued          \* agents whose calls are put before a human

Loop == "loop"
Scopes == {"own", "platform"}  \* a parameter organisations set, and one of the platform

PolicyKinds == {"update_policy", "update_keywords", "toggle_policy", "deactivate_policy"}
AgentKinds == {"update_status", "update_registry"}
RequirementKinds == {"update_requirement", "delete_requirement"}
FleetKinds == {"seed_fleet", "reset_fleet", "reset_demo"}
RowKinds == PolicyKinds \union AgentKinds \union RequirementKinds
              \union {"get_compliance", "agent_report"}
ReportKinds == {"get_compliance", "agent_report", "enterprise_report", "run_scenario"}
Kinds == PolicyKinds \union AgentKinds \union RequirementKinds \union FleetKinds
           \union ReportKinds
           \union {"create_policy", "register_agent", "create_requirement", "seed_demo",
                   "set_value", "set_default", "reload"}

\* A request about a row names it; a body gives columns, the required ones among them.
Fits(body) ==
  LET given == DOMAIN body.patch IN
  /\ body.kind \in Kinds /\ body.super \in BOOLEAN
  /\ body.on \in IF body.kind \in RowKinds THEN Ids ELSE {None}
  /\ \A c \in given: c \in DOMAIN Columns /\ body.patch[c] \in Columns[c]
  /\ body.kind = "create_policy" => {"agent", "condition"} \subseteq given
  /\ body.kind = "update_keywords" => "keywords" \in given
  /\ body.kind = "update_status" => "status" \in given
  /\ "fleet" \in given => "claims" \in given
  /\ body.kind = "create_requirement" => {"platform", "risk", "key", "severity"} \subseteq given
  /\ body.kind \in {"set_value", "set_default"} => "value" \in given

\* Identifiers of new rows are new (gen_random_uuid), and the foreign keys hold at the start.
ASSUME PanelAssumption ==
  /\ Requests \subseteq Ids /\ Loop \notin Requests
  /\ PoolSize \in Nat \ {0}
  /\ \A body \in Bodies: Fits(body)
  /\ DOMAIN Agents0 \union DOMAIN Policies0 \union DOMAIN Requirements0 \subseteq Ids \ Requests
  /\ \A i \in DOMAIN Agents0: Agents0[i] \in Agent
  /\ \A i \in DOMAIN Policies0: /\ Policies0[i] \in Policy
                                /\ Policies0[i].agent \in DOMAIN Agents0 \union {None}
  /\ \A i \in DOMAIN Requirements0: Requirements0[i] \in Requirement
  /\ Stored0 \in [Scopes -> Values] /\ Allowed \subseteq Values
  /\ Classified \subseteq Classifications \union {Fallback}
  /\ Fleet \subseteq FleetRows

VARIABLES policies, agents, requirements,  \* the tables: by identifier a row or None
          tasks,      \* agents with rows in oversight_queue
          log,        \* rows of the demonstration agents in the log and the queue: who wrote them
          stored,     \* app_settings, app_settings_values: the parameters
          history,    \* app_settings_audit: the last change of each parameter
          cache,      \* _defaults and _overrides of the process
          conns,      \* connections in use: whose, and which of their two
          req,        \* requests
          load        \* loads of the cache

tables == <<policies, agents, requirements, tasks, log, stored, history>>
vars == <<tables, cache, conns, req, load>>

Idle == [pc |-> "idle"]
NoLoad == [pc |-> "idle", own |-> None, platform |-> None]

\* What a request has read so far: a row, agents of the fleet, rows of agents, the log.
Unread == [row |-> None, fleet |-> {}, rows |-> {}, log |-> {}]

TypeOK ==
  /\ policies \in [Ids -> Policy \union {None}]
  /\ agents \in [Ids -> Agent \union {None}]
  /\ requirements \in [Ids -> Requirement \union {None}]
  /\ tasks \subseteq Ids /\ log \subseteq Requests \union {"calls"}
  /\ stored \in [Scopes -> Values] /\ cache \in [Scopes -> Values]
  /\ history \in [Scopes -> [old: Values, new: Values] \union {None}]
  /\ conns \subseteq (Requests \union {Loop}) \X {"outer", "inner"}
  /\ Cardinality(conns) <= PoolSize
  /\ \A r \in Requests: req[r] # Idle =>
       /\ req[r].pc \in {"arrived", "identified", "open", "read", "locked", "nested",
                         "written", "ended"}
       /\ req[r].body \in Bodies /\ req[r].overtaken \in BOOLEAN
       /\ req[r].answer \in {"none", "refused", "failed", "done"}
  /\ \A w \in Requests \union {Loop}:
       load[w] \in [pc: {"idle", "half", "full"}, own: Values \union {None},
                    platform: Values \union {None}]
-----------------------------------------------------------------------------
Table(rows) == [i \in Ids |-> IF i \in DOMAIN rows THEN rows[i] ELSE None]

Init ==
  /\ policies = Table(Policies0)
  /\ agents = Table(Agents0)
  /\ requirements = Table(Requirements0)
  /\ tasks = {}
  /\ log = {"calls"}
  /\ stored = Stored0 /\ cache = Stored0
  /\ history = [s \in Scopes |-> None]
  /\ conns = {}
  /\ req = [r \in Requests |-> Idle]
  /\ load = [w \in Requests \union {Loop} |-> NoLoad]

\* Mutant: one connection too many.
FreeAtLimit == Cardinality(conns) <= PoolSize

\* init_pool: the pool gives a connection while one is left; else one waits, without limit.
Free == Cardinality(conns) < PoolSize

At(r, pc, kinds) == req[r].pc = pc /\ req[r].body.kind \in kinds
Present(table) == {i \in Ids: table[i] # None}
Marked == {a \in Present(agents): agents[a].fleet}
Registered == {agents[a]: a \in Present(agents)}

\* Rows another transaction has written and not committed: agents being deleted, with
\* the policies that go with them, and the organisation's parameter.
Held(a, r) ==
  \E s \in Requests \ {r}: At(s, "locked", FleetKinds) /\ a \in req[s].saw.fleet
SettingHeld == \E s \in Requests: At(s, "locked", {"set_value"})

\* What request q goes by that others may write meanwhile.
Reads(q) ==
  CASE q.body.kind \in PolicyKinds -> {<<"policies", q.body.on>>}
    [] q.body.kind \in AgentKinds -> {<<"agents", q.body.on>>}
    [] q.body.kind \in RequirementKinds -> {<<"requirements", q.body.on>>}
    [] q.body.kind \in FleetKinds -> {<<"fleet", None>>}
    [] q.body.kind \in {"get_compliance", "agent_report"}
         -> {<<"agents", q.body.on>>, <<"requirements", None>>}
    [] q.body.kind = "enterprise_report" -> {<<"agents", None>>, <<"requirements", None>>}
    [] q.body.kind \in {"set_value", "set_default"} -> {<<"settings", q.body.kind>>}
    [] OTHER -> {}

Written(table, ids) == {<<table, i>>: i \in ids \union {None}}

\* Request r becomes q.
Goes(r, q) == req' = [req EXCEPT ![r] = q]

\* The same, after a write: those that go by what it has written are overtaken.
Move(r, q, wrote) ==
  req' = [s \in Requests |->
    CASE s = r -> q
      [] s # r /\ req[s] # Idle /\ req[s].pc \in {"read", "locked", "nested"}
           /\ Reads(req[s]) \intersect wrote # {} -> [req[s] EXCEPT !.overtaken = TRUE]
      [] OTHER -> req[s]]

\* The end of the request and of its transaction; its connections go back to the pool.
End(r, answer, wrote) ==
  /\ Move(r, [req[r] EXCEPT !.pc = "ended", !.answer = answer], wrote)
  /\ conns' = {c \in conns: c[1] # r}
  /\ UNCHANGED <<cache, load>>

\* The same, with nothing written.
Leave(r, answer) == End(r, answer, {}) /\ UNCHANGED tables
-----------------------------------------------------------------------------
Start(r, body) ==
  /\ req[r] = Idle
  /\ Goes(r, [pc |-> "arrived", body |-> body, saw |-> Unread, overtaken |-> FALSE,
              answer |-> "none", report |-> None])
  /\ UNCHANGED <<tables, cache, conns, load>>

\* authenticate_token: a connection for a transaction of the platform, taken and given back.
Authenticate(r) ==
  /\ req[r].pc = "arrived" /\ Free
  /\ Goes(r, [req[r] EXCEPT !.pc = "identified"])
  /\ UNCHANGED <<tables, cache, conns, load>>

\* get_current_user: tenant_db for the rest of the request.
Open(r) ==
  /\ req[r].pc = "identified" /\ Free
  /\ Goes(r, [req[r] EXCEPT !.pc = "open"])
  /\ conns' = conns \union {<<r, "outer">>}
  /\ UNCHANGED <<tables, cache, load>>

\* The request is about a row of the platform, or a parameter of it.
OfPlatform(r) ==
  LET body == req[r].body IN
  \/ body.kind = "set_default"
  \/ body.kind = "create_requirement" /\ body.patch.platform
  \/ body.kind \in RequirementKinds /\ requirements[body.on] # None
       /\ requirements[body.on].platform

\* 404, 403 and 400: the row is not there, it is the platform's and the user no
\* super-admin, the value is out of bounds, there is nothing to change.
Refused(r) ==
  LET body == req[r].body IN
  \/ body.kind \in PolicyKinds /\ policies[body.on] = None
  \/ body.kind \in AgentKinds \union {"get_compliance", "agent_report"}
       /\ agents[body.on] = None
  \/ body.kind \in RequirementKinds /\ requirements[body.on] = None
  \/ body.kind \in {"update_policy", "update_registry", "update_requirement"}
       /\ DOMAIN body.patch = {}
  \/ body.kind = "create_policy" /\ body.patch.agent \notin Present(agents) \union {None}
  \/ body.kind \in {"set_value", "set_default"} /\ body.patch.value \notin Allowed
  \/ OfPlatform(r) /\ ~body.super

\* Mutant: a refused request keeps its connection.
RefuseKeeps(r) ==
  /\ req[r].pc = "open" /\ Refused(r)
  /\ Goes(r, [req[r] EXCEPT !.pc = "ended", !.answer = "refused"])
  /\ UNCHANGED <<tables, cache, conns, load>>

Refuse(r) ==
  /\ req[r].pc = "open" /\ Refused(r)
  /\ Leave(r, "refused")

\* The first statements of a handler: what it decides on and later writes by.
Look(r) ==
  LET body == req[r].body
      seen(saw) == /\ Goes(r, [req[r] EXCEPT !.pc = "read", !.saw = saw])
                   /\ UNCHANGED <<tables, cache, conns, load>>
  IN /\ req[r].pc = "open" /\ ~Refused(r)
     /\ \/ body.kind \in PolicyKinds /\ seen([Unread EXCEPT !.row = policies[body.on]])
        \/ body.kind \in AgentKinds \union {"get_compliance", "agent_report"}
             /\ seen([Unread EXCEPT !.row = agents[body.on]])
        \/ body.kind \in RequirementKinds /\ seen([Unread EXCEPT !.row = requirements[body.on]])
        \/ body.kind = "enterprise_report"
             /\ seen([Unread EXCEPT !.rows = Registered])
        \/ body.kind = "set_value" /\ seen([Unread EXCEPT !.row = stored["own"]])
        \/ body.kind = "register_agent"
             /\ \E found \in Classified: seen([Unread EXCEPT !.row = found])
        \/ body.kind \in FleetKinds /\ seen([Unread EXCEPT !.fleet = Marked, !.log = log])
        \/ body.kind \in {"create_policy", "create_requirement", "seed_demo", "set_default",
                          "run_scenario", "reload"} /\ seen(Unread)

\* An error of the database, or a statement past command_timeout: the transaction is
\* rolled back.  Nothing ends the wait for a second connection, and load catches errors.
NeedsSecond(r) ==
  /\ req[r].pc = "read" /\ load[r] = NoLoad
  /\ \/ req[r].body.kind \in {"set_default", "reload"}
     \/ req[r].body.kind = "create_requirement" /\ req[r].body.patch.platform
     \/ req[r].body.kind \in RequirementKinds /\ req[r].saw.row.platform

Abort(r) ==
  /\ req[r].pc \in {"read", "locked", "nested"} /\ ~NeedsSecond(r)
  /\ req[r].body.kind # "reload"
  /\ Leave(r, "failed")
-----------------------------------------------------------------------------
\* Mutant: the database does not look the agent up again.
CreateUnchecked(r) ==
  LET patch == req[r].body.patch IN
  /\ At(r, "read", {"create_policy"})
  /\ patch.agent = None \/ ~Held(patch.agent, r)
  /\ policies' = [policies EXCEPT ![r] = NewPolicy(patch)]
  /\ End(r, "done", Written("policies", {r}))
  /\ UNCHANGED <<agents, requirements, tasks, log, stored, history>>

\* create_policy: the foreign key looks the agent up again, and waits for who deletes it.
CreatePolicy(r) ==
  LET patch == req[r].body.patch IN
  /\ At(r, "read", {"create_policy"})
  /\ patch.agent = None \/ ~Held(patch.agent, r)
  /\ IF patch.agent \in Present(agents) \union {None}
     THEN /\ policies' = [policies EXCEPT ![r] = NewPolicy(patch)]
          /\ End(r, "done", Written("policies", {r}))
          /\ UNCHANGED <<agents, requirements, tasks, log, stored, history>>
     ELSE Leave(r, "failed")

\* update_policy, update_keywords, toggle_policy, deactivate_policy.  A policy deleted
\* with its agent is not there to be updated: the first two then fail to return it.
WritePolicy(r) ==
  LET body == req[r].body
      row == policies[body.on]
      read == req[r].saw.row
      write(new) == /\ policies' = [policies EXCEPT ![body.on] = new]
                    /\ End(r, "done", Written("policies", {body.on}))
                    /\ UNCHANGED <<agents, requirements, tasks, log, stored, history>>
  IN /\ At(r, "read", PolicyKinds)
     /\ read.agent = None \/ ~Held(read.agent, r)
     /\ \/ row # None /\ body.kind = "update_policy" /\ write(UpdatedPolicy(row, body.patch))
        \/ row # None /\ body.kind = "update_keywords"
             /\ write(KeywordedPolicy(row, read, body.patch.keywords))
        \/ row # None /\ body.kind = "toggle_policy" /\ write(ToggledPolicy(row, read))
        \/ row # None /\ body.kind = "deactivate_policy" /\ write(DeactivatedPolicy(row))
        \/ row = None /\ Leave(r, IF body.kind \in {"update_policy", "update_keywords"}
                                  THEN "failed" ELSE "done")

\* register_agent, after the model's answer: a level of risk it made up is no risk_level.
RegisterAgent(r) ==
  LET found == req[r].saw.row IN
  /\ At(r, "read", {"register_agent"})
  /\ IF found.risk \in Risks
     THEN /\ agents' = [agents EXCEPT ![r] = NewAgent(found)]
          /\ End(r, "done", Written("agents", {r}))
          /\ UNCHANGED <<policies, requirements, tasks, log, stored, history>>
     ELSE Leave(r, "failed")

\* update_status and update_registry of a row that may have been deleted.
WriteAgent(r) ==
  LET body == req[r].body
      row == agents[body.on]
  IN /\ At(r, "read", AgentKinds)
     /\ ~Held(body.on, r)
     /\ IF row = None THEN Leave(r, IF body.kind = "update_status" THEN "done" ELSE "failed")
        ELSE /\ agents' = [agents EXCEPT ![body.on] =
                  IF body.kind = "update_status" THEN [row EXCEPT !.status = body.patch.status]
                  ELSE RegisteredAgent(row, body.patch)]
             /\ End(r, "done", Written("agents", {body.on})
                 \union IF body.kind = "update_registry" THEN Written("fleet", {}) ELSE {})
             /\ UNCHANGED <<policies, requirements, tasks, log, stored, history>>

\* The row of a requirement after a request about it.
RequirementAfter(body, row) ==
  IF body.kind = "create_requirement" THEN NewRequirement(body.patch)
  ELSE IF body.kind = "delete_requirement" \/ row = None THEN None
  ELSE UpdatedRequirement(row, body.patch)

\* A row that is gone cannot be returned.
Outcome(body, row) == IF body.kind = "update_requirement" /\ row = None THEN "failed" ELSE "done"

\* create_requirement, update_requirement, delete_requirement: a row of the organisation
\* in the request's transaction.
WriteRequirement(r) ==
  LET body == req[r].body
      id == IF body.on = None THEN r ELSE body.on
  IN /\ At(r, "read", RequirementKinds \union {"create_requirement"}) /\ ~NeedsSecond(r)
     /\ requirements' = [requirements EXCEPT ![id] = RequirementAfter(body, @)]
     /\ End(r, Outcome(body, requirements[id]), Written("requirements", {id}))
     /\ UNCHANGED <<policies, agents, tasks, log, stored, history>>

\* platform_db inside the request: a second connection.
Nest(r) ==
  /\ req[r].pc = "read" /\ NeedsSecond(r) /\ Free /\ req[r].body.kind # "reload"
  /\ Goes(r, [req[r] EXCEPT !.pc = "nested",
                            !.saw.row = IF req[r].body.kind = "set_default"
                                        THEN stored["platform"] ELSE @])
  /\ conns' = conns \union {<<r, "inner">>}
  /\ UNCHANGED <<tables, cache, load>>

\* The second transaction is committed, its connection given back, the request goes on.
CommitNested(r) ==
  LET body == req[r].body
      id == IF body.on = None THEN r ELSE body.on
  IN /\ req[r].pc = "nested"
     /\ IF body.kind = "set_default"
        THEN /\ stored' = [stored EXCEPT !["platform"] = body.patch.value]
             /\ history' = [history EXCEPT !["platform"] = [old |-> req[r].saw.row,
                                                            new |-> body.patch.value]]
             /\ UNCHANGED requirements
        ELSE /\ requirements' = [requirements EXCEPT ![id] = RequirementAfter(body, @)]
             /\ UNCHANGED <<stored, history>>
     /\ Move(r, [req[r] EXCEPT !.pc = "written", !.answer = Outcome(body, requirements[id])],
             IF body.kind = "set_default" THEN {<<"settings", "set_default">>}
             ELSE Written("requirements", {id}))
     /\ conns' = conns \ {<<r, "inner">>}
     /\ UNCHANGED <<policies, agents, tasks, log, cache, load>>

\* The rest of the request: set_default puts the value into the cache of the process.
Finish(r) ==
  LET body == req[r].body IN
  /\ req[r].pc = "written"
  /\ cache' = IF body.kind = "set_default" THEN [cache EXCEPT !["platform"] = body.patch.value]
              ELSE cache
  /\ Goes(r, [req[r] EXCEPT !.pc = "ended"])
  /\ conns' = {c \in conns: c[1] # r}
  /\ UNCHANGED <<tables, load>>
-----------------------------------------------------------------------------
\* set_value: the row is written, and locked until the request ends; the cache has the
\* value before it is committed.
Upsert(r) ==
  /\ At(r, "read", {"set_value"}) /\ ~SettingHeld
  /\ Goes(r, [req[r] EXCEPT !.pc = "locked"])
  /\ cache' = [cache EXCEPT !["own"] = req[r].body.patch.value]
  /\ UNCHANGED <<tables, conns, load>>

\* The commit of the value and of its row in the history.
CommitValue(r) ==
  LET value == req[r].body.patch.value IN
  /\ At(r, "locked", {"set_value"})
  /\ stored' = [stored EXCEPT !["own"] = value]
  /\ history' = [history EXCEPT !["own"] = [old |-> req[r].saw.row, new |-> value]]
  /\ End(r, "done", {<<"settings", "set_value">>})
  /\ UNCHANGED <<policies, agents, requirements, tasks, log>>

\* Who loads the cache: the refresh loop, or a request for a reload.
Loads(w) == IF w = Loop THEN TRUE ELSE At(w, "read", {"reload"})

\* load: a transaction of the platform; the defaults are read.
LoadDefaults(w) ==
  /\ Loads(w) /\ load[w] = NoLoad /\ Free
  /\ conns' = conns \union {<<w, "inner">>}
  /\ load' = [load EXCEPT ![w] = [pc |-> "half", own |-> None, platform |-> stored["platform"]]]
  /\ UNCHANGED <<tables, cache, req>>

\* The values of the organisations are read.
LoadOverrides(w) ==
  /\ load[w].pc = "half"
  /\ load' = [load EXCEPT ![w].pc = "full", ![w].own = stored["own"]]
  /\ UNCHANGED <<tables, cache, conns, req>>

\* The end of a load, and of the request for it.
Unload(w) ==
  /\ load' = [load EXCEPT ![w] = NoLoad]
  /\ conns' = {c \in conns: c[1] # w}
  /\ IF w = Loop THEN UNCHANGED req
     ELSE Goes(w, [req[w] EXCEPT !.pc = "ended", !.answer = "done"])
  /\ UNCHANGED tables

\* Mutant: the new values of the organisations are merged into the old ones.
StoreDefaults(w) ==
  /\ load[w].pc = "full"
  /\ cache' = [cache EXCEPT !["platform"] = load[w].platform]
  /\ Unload(w)

\* Both parts of the cache are replaced by what was read.
StoreLoaded(w) ==
  /\ load[w].pc = "full"
  /\ cache' = [own |-> load[w].own, platform |-> load[w].platform]
  /\ Unload(w)

\* An error leaves the cache as it is.
LoadFails(w) ==
  /\ load[w].pc # "idle"
  /\ Unload(w)
  /\ UNCHANGED cache
-----------------------------------------------------------------------------
\* The DELETE of a fleet: of the rows it found when it started those that, once it need not
\* wait for who deletes them, still are of a fleet.  It fails on an agent with tasks in the
\* queue of human oversight.
Clear(r) ==
  LET gone == req[r].saw.fleet \intersect Marked IN
  /\ At(r, "read", FleetKinds)
  /\ \A a \in req[r].saw.fleet: ~Held(a, r)
  /\ IF gone \intersect tasks # {} THEN Leave(r, "failed")
     ELSE /\ Goes(r, [req[r] EXCEPT !.pc = "locked", !.saw.fleet = gone])
          /\ UNCHANGED <<tables, cache, conns, load>>

\* Agents are gone, and with them, by ON DELETE CASCADE, the policies that name them.
Without(gone) ==
  policies' = [p \in Ids |-> IF policies[p] # None /\ policies[p].agent \in gone THEN None
                             ELSE policies[p]]

\* seed_fleet: the new fleet in place of the one that was found.
SeedFleet(r) ==
  LET gone == req[r].saw.fleet IN
  /\ At(r, "locked", {"seed_fleet"})
  /\ \E row \in Fleet:
       agents' = [a \in Ids |-> IF a = r THEN row ELSE IF a \in gone THEN None ELSE agents[a]]
  /\ Without(gone)
  /\ End(r, "done", Written("agents", gone \union {r}) \union Written("fleet", {})
                      \union Written("policies",
                                     {p \in Present(policies): policies[p].agent \in gone}))
  /\ UNCHANGED <<requirements, tasks, log, stored, history>>

\* reset_fleet, and reset_demo_data, which deletes the log's rows it found besides.
ResetFleet(r) ==
  LET gone == req[r].saw.fleet IN
  /\ At(r, "locked", {"reset_fleet", "reset_demo"})
  /\ agents' = [a \in Ids |-> IF a \in gone THEN None ELSE agents[a]]
  /\ Without(gone)
  /\ log' = IF req[r].body.kind = "reset_demo" THEN log \ req[r].saw.log ELSE log
  /\ End(r, "done", Written("agents", gone) \union Written("fleet", {})
                      \union Written("policies",
                                     {p \in Present(policies): policies[p].agent \in gone}))
  /\ UNCHANGED <<requirements, tasks, stored, history>>

\* seed_demo_data.
SeedDemo(r) ==
  /\ At(r, "read", {"seed_demo"})
  /\ log' = log \union {r}
  /\ End(r, "done", {})
  /\ UNCHANGED <<policies, agents, requirements, tasks, stored, history>>

\* push_oversight_task: a call of an agent is put before a human.
Enqueue(a) ==
  /\ a \in Queued \ tasks /\ agents[a] # None /\ ~Held(a, None)
  /\ tasks' = tasks \union {a}
  /\ UNCHANGED <<policies, agents, requirements, log, stored, history, cache, conns, req, load>>
-----------------------------------------------------------------------------
\* A report is given, the narrative in it or the gateway's answer waited for with the
\* connection held.
Tell(r, report) ==
  /\ Move(r, [req[r] EXCEPT !.pc = "ended", !.answer = "done", !.report = report], {})
  /\ conns' = {c \in conns: c[1] # r}
  /\ UNCHANGED <<tables, cache, load>>

\* get_compliance: the requirements are read after the agent.
GetCompliance(r) ==
  LET agent == req[r].saw.row IN
  /\ At(r, "read", {"get_compliance"})
  /\ Tell(r, Assess(agent, Asked(requirements, agent.risk)))

\* get_agent_report_data, generate_narrative.
AgentReport(r) ==
  LET agent == req[r].saw.row IN
  /\ At(r, "read", {"agent_report"})
  /\ Tell(r, Assess(agent, Asked(requirements, agent.risk)))

\* collect_enterprise_data, generate_enterprise_narrative.
EnterpriseReport(r) ==
  /\ At(r, "read", {"enterprise_report"})
  /\ Tell(r, <<Recommendations(req[r].saw.rows), Asked(requirements, "high")>>)

\* run_scenario: what the gateway answers, or that it does not.
RunScenario(r) ==
  /\ At(r, "read", {"run_scenario"})
  /\ Tell(r, None)
-----------------------------------------------------------------------------
Acquire(r) == Authenticate(r) \/ Open(r) \/ Nest(r) \/ LoadDefaults(r)

Loading(w) == LoadOverrides(w) \/ StoreLoaded(w) \/ LoadFails(w)

Step(r) ==
  \/ Refuse(r) \/ Look(r) \/ Abort(r)
  \/ CreatePolicy(r) \/ WritePolicy(r) \/ RegisterAgent(r) \/ WriteAgent(r)
  \/ WriteRequirement(r) \/ CommitNested(r) \/ Finish(r)
  \/ Upsert(r) \/ CommitValue(r) \/ Loading(r)
  \/ Clear(r) \/ SeedFleet(r) \/ ResetFleet(r) \/ SeedDemo(r)
  \/ GetCompliance(r) \/ AgentReport(r) \/ EnterpriseReport(r) \/ RunScenario(r)

Next ==
  \/ \E r \in Requests, body \in Bodies: Start(r, body)
  \/ \E r \in Requests: Acquire(r) \/ Step(r)
  \/ LoadDefaults(Loop) \/ Loading(Loop)
  \/ \E a \in Ids: Enqueue(a)

(***************************************************************************)
(* A request that can go on goes on, and so does the loop.  SF on the      *)
(* connections: asyncpg serves those who wait in turn.  SF on the loop's   *)
(* reads: an outage of the database is not permanent.  No request need     *)
(* ever come.                                                              *)
(***************************************************************************)
Fairness ==
  /\ \A r \in Requests: WF_vars(Step(r)) /\ SF_vars(Acquire(r))
  /\ SF_vars(LoadDefaults(Loop)) /\ SF_vars(LoadOverrides(Loop)) /\ SF_vars(StoreLoaded(Loop))

Spec == Init /\ [][Next]_vars
FairSpec == Spec /\ Fairness
-----------------------------------------------------------------------------
\* Every policy of an agent names one that is there, though a fleet is deleted while
\* policies are written for its agents (the foreign keys of policies).
PoliciesNameAgents ==
  \A p \in Present(policies): policies[p].agent \in Present(agents) \union {None}

\* What a request has done it has done to what it read, unless another request wrote
\* that in between: a toggle turns the policy over, new keywords keep the rest of the
\* condition, a seeded fleet is the only one and a reset leaves none, the history tells
\* the value that was replaced, an assessment is that of the agent and the requirements as
\* they are, and the recommendations are those for the agents as they are.
AnswersHoldUnlessOvertaken ==
  [][\A r \in Requests:
       LET q == req[r]
           on == q.body.on
           kind == q.body.kind
       IN q # Idle /\ q.pc # "ended" /\ ~q.overtaken
          /\ req'[r].pc = "ended" /\ req'[r].answer = "done" =>
            /\ kind = "toggle_policy" => policies'[on].active = ~policies[on].active
            /\ kind = "update_keywords" =>
                 policies'[on].condition.rest = policies[on].condition.rest
            /\ kind = "seed_fleet" => Marked' = {r}
            /\ kind \in {"reset_fleet", "reset_demo"} => Marked' = {}
            /\ kind = "set_value" => history'["own"].old = stored["own"]
            /\ kind \in {"get_compliance", "agent_report"} =>
                 req'[r].report = Assess(agents[on], Asked(requirements, agents[on].risk))
            /\ kind = "enterprise_report" =>
                 req'[r].report = <<Recommendations(Registered), Asked(requirements, "high")>>]_vars

\* When no request is under way the cache comes to hold what is stored, whatever a value
\* that was rolled back or a load that read too early has left in it.
Quiet == \A r \in Requests: req[r].pc \in {"idle", "ended"}
SettingsConverge == <>[]Quiet => <>[](cache = stored)

\* Every connection is held by a request that waits for its second one.
Jammed ==
  /\ ~Free
  /\ \A c \in conns: c[1] # Loop /\ NeedsSecond(c[1])

\* Every request comes to its end, so that again and again none is under way, unless the
\* pool is exhausted by requests that each hold a connection and wait for another: nothing
\* else stops the panel, and that does.
RequestsEndUnlessJammed == []<>(Quiet \/ Jammed)
=============================================================================
