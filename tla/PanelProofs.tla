---------------------------- MODULE PanelProofs ----------------------------
(***************************************************************************)
(* Safety of the panel for any sets of requests, rows and parameters and   *)
(* for a pool of any size.                                                 *)
(***************************************************************************)
EXTENDS Panel, TLAPS, FiniteSetTheorems

Asking == {"open", "read", "locked", "nested", "written"}
Under == {"read", "locked", "nested"}

\* A request that has come has all its fields.
Formed(q) == q = Idle \/
  /\ DOMAIN q = {"pc", "body", "saw", "overtaken", "answer", "report"}
  /\ DOMAIN q.saw = {"row", "fleet", "rows", "log"}
  /\ q.pc \in {"arrived", "identified", "ended"} \union Asking
  /\ q.body \in Bodies /\ q.overtaken \in BOOLEAN
  /\ q.answer \in {"none", "refused", "failed", "done"}

\* The stages at which a request under way can be, by its kind.
StageFits(q) ==
  LET kind == q.body.kind IN
  /\ q.pc = "locked" => kind \in FleetKinds \union {"set_value"}
  /\ q.pc \in {"nested", "written"} =>
       kind \in RequirementKinds \union {"create_requirement", "set_default"}

\* What a request under way has read is of the kind it asked for.
SawFits(q) == q.pc \in Under =>
  LET kind == q.body.kind IN
  /\ kind \in PolicyKinds => q.saw.row \in Policy
  /\ kind \in AgentKinds \union {"get_compliance", "agent_report"} => q.saw.row \in Agent
  /\ kind = "register_agent" => q.saw.row \in Classifications
  /\ kind = "set_value" \/ (kind = "set_default" /\ q.pc = "nested") => q.saw.row \in Values

RequestFits(q) == Formed(q) /\ (q # Idle => StageFits(q) /\ SawFits(q))
RequestsFit == req = [r \in Requests |-> req[r]] /\ \A r \in Requests: RequestFits(req[r])

\* A load holds what it has read; one that a request asked for is that request's.
LoadsFit ==
  \A w \in Requests \union {Loop}:
    /\ load[w].pc = "idle" => load[w] = NoLoad
    /\ load[w].pc # "idle" => load[w].platform \in Values /\ Loads(w)
    /\ load[w].pc = "full" => load[w].own \in Values

\* Connections are held by whom the code gives them to, and by nobody else.
ConnectionsHeld ==
  /\ \A r \in Requests: /\ <<r, "outer">> \in conns <=> req[r].pc \in Asking
                        /\ <<r, "inner">> \in conns <=> req[r].pc = "nested" \/ load[r].pc # "idle"
  /\ <<Loop, "outer">> \notin conns
  /\ <<Loop, "inner">> \in conns <=> load[Loop].pc # "idle"

\* A request makes its row in its last step.
RowsAreNew == \A r \in Requests: req[r].pc # "ended" => agents[r] = None

\* What a request has read and goes by is so, unless another has written it.
SawTrue(q) ==
  LET kind == q.body.kind IN
  /\ kind \in PolicyKinds => q.saw.row = policies[q.body.on]
  /\ kind \in {"get_compliance", "agent_report"} => q.saw.row = agents[q.body.on]
  /\ kind = "enterprise_report" => q.saw.rows = Registered
  /\ kind \in FleetKinds => q.saw.fleet = Marked
  /\ kind = "set_value" => q.saw.row = stored["own"]
ReadsHold == \A r \in Requests: req[r].pc \in Under /\ ~req[r].overtaken => SawTrue(req[r])

\* The inductive invariant: of the process, of the tables, and of what both say.
ProcessTyped ==
  /\ cache \in [Scopes -> Values]
  /\ conns \subseteq (Requests \union {Loop}) \X {"outer", "inner"}
  /\ Cardinality(conns) <= PoolSize /\ IsFiniteSet(conns)
  /\ load \in [Requests \union {Loop} ->
               [pc: {"idle", "half", "full"}, own: Values \union {None},
                platform: Values \union {None}]]
TablesTyped ==
  /\ policies \in [Ids -> Policy \union {None}]
  /\ agents \in [Ids -> Agent \union {None}]
  /\ requirements \in [Ids -> Requirement \union {None}]
  /\ tasks \subseteq Ids /\ log \subseteq Requests \union {"calls"}
  /\ stored \in [Scopes -> Values]
  /\ history \in [Scopes -> [old: Values, new: Values] \union {None}]

ProcessInv == ProcessTyped /\ RequestsFit /\ LoadsFit /\ ConnectionsHeld
TablesInv == TablesTyped /\ RowsAreNew /\ PoliciesNameAgents
IInv == ProcessInv /\ TablesInv /\ ReadsHold
-----------------------------------------------------------------------------
\* What the columns of a body may be.
LEMMA BodyIs ==
  ASSUME NEW b \in Bodies
  PROVE  /\ b.kind \in Kinds
         /\ b.kind \in RowKinds => b.on \in Ids
         /\ b.kind \notin RowKinds => b.on = None
         /\ "condition" \in DOMAIN b.patch => b.patch["condition"] \in Condition
         /\ "active" \in DOMAIN b.patch => b.patch["active"] \in BOOLEAN
         /\ "claims" \in DOMAIN b.patch => b.patch["claims"] \in [Keys -> Claims]
         /\ "fleet" \in DOMAIN b.patch => b.patch["fleet"] \in BOOLEAN
         /\ "key" \in DOMAIN b.patch => b.patch["key"] \in Keys \union {None}
         /\ "severity" \in DOMAIN b.patch => b.patch["severity"] \in Severities
         /\ b.kind = "create_policy" =>
              b.patch.agent \in Ids \union {None} /\ b.patch.condition \in Condition
         /\ b.kind = "update_keywords" => b.patch.keywords \in Words
         /\ b.kind = "update_status" => b.patch.status \in Statuses
         /\ b.kind = "create_requirement" =>
              /\ b.patch.platform \in BOOLEAN /\ b.patch.risk \in Risks
              /\ b.patch.key \in Keys \union {None} /\ b.patch.severity \in Severities
         /\ b.kind \in {"set_value", "set_default"} => b.patch.value \in Values
<1>1. Fits(b)
  BY PanelAssumption
<1>2. \A c \in DOMAIN b.patch: b.patch[c] \in Columns[c]
  BY <1>1 DEF Fits
<1>3. QED
  BY <1>1, <1>2 DEF Fits, Columns

\* The rows that are written are rows, and a policy stays its agent's.
LEMMA PolicyRows ==
  ASSUME NEW b \in Bodies, NEW row \in Policy, NEW read \in Policy
  PROVE  /\ UpdatedPolicy(row, b.patch) \in Policy
         /\ UpdatedPolicy(row, b.patch).agent = row.agent
         /\ b.kind = "update_keywords" =>
              /\ KeywordedPolicy(row, read, b.patch.keywords) \in Policy
              /\ KeywordedPolicy(row, read, b.patch.keywords).agent = row.agent
         /\ ToggledPolicy(row, read) \in Policy /\ ToggledPolicy(row, read).agent = row.agent
         /\ ToggledPolicy(row, read).active = ~read.active
         /\ DeactivatedPolicy(row) \in Policy /\ DeactivatedPolicy(row).agent = row.agent
<1>1. UpdatedPolicy(row, b.patch) \in Policy /\ UpdatedPolicy(row, b.patch).agent = row.agent
  BY BodyIs DEF UpdatedPolicy, Revised, Given, Policy
<1>2. ASSUME b.kind = "update_keywords"
      PROVE  /\ KeywordedPolicy(row, read, b.patch.keywords) \in Policy
             /\ KeywordedPolicy(row, read, b.patch.keywords).agent = row.agent
  BY <1>2, BodyIs DEF KeywordedPolicy, Revised, Policy, Condition
<1>3. /\ ToggledPolicy(row, read) \in Policy /\ ToggledPolicy(row, read).agent = row.agent
      /\ ToggledPolicy(row, read).active = ~read.active
  BY DEF ToggledPolicy, Revised, Policy
<1>4. DeactivatedPolicy(row) \in Policy /\ DeactivatedPolicy(row).agent = row.agent
  BY DEF DeactivatedPolicy, Policy
<1>5. QED
  BY <1>1, <1>2, <1>3, <1>4

LEMMA KeywordsKeepRest ==
  ASSUME NEW row \in Policy, NEW read \in Policy, NEW words \in Words
  PROVE  KeywordedPolicy(row, read, words).condition.rest = read.condition.rest
BY DEF KeywordedPolicy, Revised, Policy, Condition

LEMMA NewPolicyRow ==
  ASSUME NEW b \in Bodies, b.kind = "create_policy"
  PROVE  NewPolicy(b.patch) \in Policy /\ NewPolicy(b.patch).agent = b.patch.agent
BY BodyIs DEF NewPolicy, Policy

LEMMA AgentRows ==
  ASSUME NEW b \in Bodies, NEW row \in Agent
  PROVE  /\ b.kind = "update_status" =>
              /\ [row EXCEPT !.status = b.patch.status] \in Agent
              /\ [row EXCEPT !.status = b.patch.status].fleet = row.fleet
         /\ RegisteredAgent(row, b.patch) \in Agent
<1>1. b.kind = "update_status" =>
        /\ [row EXCEPT !.status = b.patch.status] \in Agent
        /\ [row EXCEPT !.status = b.patch.status].fleet = row.fleet
  BY BodyIs DEF Agent
<1>2. RegisteredAgent(row, b.patch) \in Agent
  BY BodyIs DEF RegisteredAgent, Given, Agent
<1>3. QED
  BY <1>1, <1>2

LEMMA NewAgentRow ==
  ASSUME NEW found \in Classifications, found.risk \in Risks
  PROVE  NewAgent(found) \in Agent /\ NewAgent(found).fleet = FALSE
BY DEF NewAgent, Agent, Classifications, Undeclared, Statuses, Claims

LEMMA FleetRowsAreAgents ==
  ASSUME NEW row \in FleetRows
  PROVE  row \in Agent /\ row.fleet = TRUE
<1>1. \A risk \in Risks, x \in BOOLEAN, y \in BOOLEAN:
        FleetAgent(risk, x, y) \in Agent /\ FleetAgent(risk, x, y).fleet = TRUE
  <2> TAKE risk \in Risks, x \in BOOLEAN, y \in BOOLEAN
  <2>1. SelfDeclaration(risk, x, y) \in [Keys -> Claims]
    BY DEF SelfDeclaration, Undeclared, Keys, Claims
  <2>2. QED
    BY <2>1 DEF FleetAgent, Agent, Statuses
<1>2. QED
  BY <1>1 DEF FleetRows, Risks

LEMMA RequirementRows ==
  ASSUME NEW b \in Bodies, NEW row \in Requirement \union {None}
  PROVE  RequirementAfter(b, row) \in Requirement \union {None}
<1>1. b.kind = "create_requirement" => NewRequirement(b.patch) \in Requirement
  BY BodyIs DEF NewRequirement, Requirement
<1>2. row \in Requirement => UpdatedRequirement(row, b.patch) \in Requirement
  BY BodyIs DEF UpdatedRequirement, Given, Requirement
<1>3. QED
  BY <1>1, <1>2 DEF RequirementAfter
-----------------------------------------------------------------------------
\* The other requests when one moves after a write: they stay where they are, and those
\* not overtaken do not go by what was written.
Others(r, wrote) ==
  /\ req' = [s \in Requests |-> req'[s]]
  /\ \A s \in Requests \ {r}:
       /\ RequestFits(req[s])'
       /\ req[s].pc = "idle" => req'[s] = req[s]
       /\ req'[s].pc = req[s].pc /\ req'[s].body = req[s].body /\ req'[s].saw = req[s].saw
       /\ req'[s].pc \in Under /\ ~req'[s].overtaken =>
            ~req[s].overtaken /\ Reads(req[s]) \intersect wrote = {}

LEMMA FitsIdle == RequestFits(Idle) /\ Idle.pc = "idle"
BY DEF RequestFits, Formed, Idle

LEMMA IdleOnly ==
  ASSUME NEW q, RequestFits(q)
  PROVE  q = Idle <=> q.pc = "idle"
BY DEF RequestFits, Formed, Idle, Asking

\* One field of a request is changed.
LEMMA Overtaken ==
  ASSUME NEW q, RequestFits(q), q # Idle
  PROVE  LET n == [q EXCEPT !.overtaken = TRUE]
         IN /\ RequestFits(n) /\ n.pc = q.pc /\ n.body = q.body /\ n.saw = q.saw
            /\ n.overtaken = TRUE
<1> DEFINE n == [q EXCEPT !.overtaken = TRUE]
<1>1. /\ DOMAIN n = DOMAIN q /\ n.pc = q.pc /\ n.body = q.body /\ n.saw = q.saw
      /\ n.answer = q.answer /\ n.overtaken = TRUE
  BY DEF RequestFits, Formed
<1> HIDE DEF n
<1>2. Formed(n)
  BY <1>1 DEF RequestFits, Formed
<1>3. StageFits(n) /\ SawFits(n)
  BY <1>1 DEF RequestFits, StageFits, SawFits
<1>4. QED
  BY <1>1, <1>2, <1>3 DEF RequestFits, n

LEMMA GoesIs ==
  ASSUME RequestsFit, NEW r \in Requests, NEW q, Goes(r, q)
  PROVE  req'[r] = q /\ Others(r, {}) /\ \A s \in Requests \ {r}: req'[s] = req[s]
<1>1. req' = [s \in Requests |-> IF s = r THEN q ELSE req[s]]
  BY DEF Goes, RequestsFit
<1>2. req' = [s \in Requests |-> req'[s]]
  BY <1>1
<1>3. QED
  BY <1>1, <1>2 DEF Others, RequestsFit, RequestFits, Formed, StageFits, SawFits

LEMMA MoveIs ==
  ASSUME RequestsFit, NEW r \in Requests, NEW q, NEW wrote, Move(r, q, wrote)
  PROVE  req'[r] = q /\ Others(r, wrote)
<1>1. req'[r] = q /\ req' = [s \in Requests |-> req'[s]]
  BY DEF Move
<1>2. ASSUME NEW s \in Requests \ {r}
      PROVE  /\ RequestFits(req[s])'
             /\ req[s].pc = "idle" => req'[s] = req[s]
             /\ req'[s].pc = req[s].pc /\ req'[s].body = req[s].body /\ req'[s].saw = req[s].saw
             /\ req'[s].pc \in Under /\ ~req'[s].overtaken =>
                  ~req[s].overtaken /\ Reads(req[s]) \intersect wrote = {}
  <2> DEFINE hit == /\ req[s] # Idle /\ req[s].pc \in {"read", "locked", "nested"}
                    /\ Reads(req[s]) \intersect wrote # {}
  <2>0. RequestFits(req[s])
    BY DEF RequestsFit
  <2>1. CASE hit
    <3>1. req'[s] = [req[s] EXCEPT !.overtaken = TRUE]
      BY <2>1 DEF Move
    <3>2. /\ RequestFits(req'[s]) /\ req'[s].pc = req[s].pc /\ req'[s].body = req[s].body
          /\ req'[s].saw = req[s].saw /\ req'[s].overtaken = TRUE
      BY <2>0, <2>1, <3>1, Overtaken
    <3>3. RequestFits(req[s])'
      BY <3>2 DEF RequestFits, Formed, StageFits, SawFits
    <3>4. QED
      BY <2>1, <3>2, <3>3
  <2>2. CASE ~hit
    <3>1. req'[s] = req[s]
      BY <2>2 DEF Move
    <3>2. req[s].pc \in Under => Reads(req[s]) \intersect wrote = {}
      BY <2>0, <2>2, IdleOnly DEF Under
    <3>3. RequestFits(req[s])'
      BY <2>0, <3>1 DEF RequestFits, Formed, StageFits, SawFits
    <3>4. QED
      BY <3>1, <3>2, <3>3
  <2>3. QED
    BY <2>1, <2>2
<1>3. QED
  BY <1>1, <1>2 DEF Others
-----------------------------------------------------------------------------
\* The requests of an action, one by one.
LEMMA RequestsKeep ==
  ASSUME NEW r \in Requests, NEW wrote, Others(r, wrote), RequestFits(req'[r])
  PROVE  RequestsFit'
<1>1. req' = [s \in Requests |-> req'[s]]
  BY DEF Others
<1>2. \A s \in Requests: RequestFits(req[s])'
  BY DEF Others, RequestFits, Formed, StageFits, SawFits
<1>3. QED
  BY <1>1, <1>2 DEF RequestsFit

\* A request that has ended fits, whatever it has told.
LEMMA EndedFits ==
  ASSUME NEW q, RequestFits(q), q # Idle, NEW n, DOMAIN n = DOMAIN q, n.pc = "ended",
         n.body = q.body, n.saw = q.saw, n.overtaken = q.overtaken,
         n.answer \in {"refused", "failed", "done"}
  PROVE  RequestFits(n)
BY DEF RequestFits, Formed, StageFits, SawFits, Under

\* Connections come one by one while one is left, and go.
LEMMA ConnectionsGo ==
  ASSUME ProcessTyped, conns' \subseteq conns, PoolSize \in Nat
  PROVE  /\ conns' \subseteq (Requests \union {Loop}) \X {"outer", "inner"}
         /\ Cardinality(conns') <= PoolSize /\ IsFiniteSet(conns')
<1>1. IsFiniteSet(conns') /\ Cardinality(conns') <= Cardinality(conns)
  BY FS_Subset DEF ProcessTyped
<1>2. Cardinality(conns') \in Nat /\ Cardinality(conns) \in Nat
  BY <1>1, FS_CardinalityType DEF ProcessTyped
<1>3. QED
  BY <1>1, <1>2 DEF ProcessTyped

LEMMA ConnectionComes ==
  ASSUME ProcessTyped, Free, PoolSize \in Nat, NEW w \in Requests \union {Loop},
         NEW which \in {"outer", "inner"}, conns' = conns \union {<<w, which>>}
  PROVE  /\ conns' \subseteq (Requests \union {Loop}) \X {"outer", "inner"}
         /\ Cardinality(conns') <= PoolSize /\ IsFiniteSet(conns')
<1>1. IsFiniteSet(conns') /\ (Cardinality(conns') = Cardinality(conns) \/ Cardinality(conns') = Cardinality(conns) + 1)
  BY FS_AddElement DEF ProcessTyped
<1>2. Cardinality(conns) \in Nat
  BY FS_CardinalityType DEF ProcessTyped
<1>3. Cardinality(conns') <= PoolSize
  BY <1>1, <1>2 DEF Free
<1>4. QED
  BY <1>1, <1>3 DEF ProcessTyped

\* A request that moves takes nothing from the loads of others.
LEMMA LoadsKeep ==
  ASSUME ProcessInv, NEW r \in Requests, NEW wrote, Others(r, wrote), load' = load,
         load[r].pc = "idle"
  PROVE  LoadsFit'
<1> SUFFICES ASSUME NEW w \in Requests \union {Loop}
             PROVE  /\ load[w].pc = "idle" => load[w] = NoLoad
                    /\ load[w].pc # "idle" => load[w].platform \in Values /\ Loads(w)'
                    /\ load[w].pc = "full" => load[w].own \in Values
  BY DEF LoadsFit
<1>1. CASE w = Loop
  BY <1>1 DEF ProcessInv, LoadsFit, Loads
<1>2. CASE w # Loop /\ w # r
  <2>1. req'[w].pc = req[w].pc /\ req'[w].body = req[w].body
    BY <1>2 DEF Others
  <2>2. QED
    BY <1>2, <2>1 DEF ProcessInv, LoadsFit, Loads, At
<1>3. CASE w = r
  BY <1>3 DEF ProcessInv, LoadsFit
<1>4. QED
  BY <1>1, <1>2, <1>3
-----------------------------------------------------------------------------
\* The process: requests, loads and connections.
LEMMA NotLoading ==
  ASSUME ProcessInv, NEW r \in Requests, ~At(r, "read", {"reload"})
  PROVE  load[r].pc = "idle" /\ load[r] = NoLoad
<1>1. r # Loop
  BY PanelAssumption
<1>2. QED
  BY <1>1 DEF ProcessInv, LoadsFit, Loads

LEMMA Departs ==
  ASSUME ProcessInv, NEW r \in Requests, NEW wrote, Others(r, wrote), RequestFits(req'[r]),
         req'[r].pc = "ended", conns' = {c \in conns: c[1] # r}, load' = load,
         ~At(r, "read", {"reload"}), cache' \in [Scopes -> Values]
  PROVE  ProcessInv'
<1>1. RequestsFit'
  BY RequestsKeep
<1>2. load[r].pc = "idle"
  BY NotLoading
<1>3. LoadsFit'
  BY <1>2, LoadsKeep
<1>4. ProcessTyped'
  BY ConnectionsGo, PanelAssumption DEF ProcessTyped, ProcessInv
<1>5. ConnectionsHeld'
  <2>1. ASSUME NEW s \in Requests
        PROVE  /\ <<s, "outer">> \in conns' <=> req'[s].pc \in Asking
               /\ <<s, "inner">> \in conns' <=> req'[s].pc = "nested" \/ load[s].pc # "idle"
    <3>1. CASE s = r
      BY <1>2, <3>1 DEF Asking
    <3>2. CASE s # r
      BY <3>2 DEF ProcessInv, ConnectionsHeld, Others
    <3>3. QED
      BY <3>1, <3>2
  <2>2. r # Loop
    BY PanelAssumption
  <2>3. QED
    BY <2>1, <2>2 DEF ProcessInv, ConnectionsHeld
<1>6. QED
  BY <1>1, <1>3, <1>4, <1>5 DEF ProcessInv

LEMMA Stays ==
  ASSUME ProcessInv, NEW r \in Requests, NEW wrote, Others(r, wrote), RequestFits(req'[r]),
         req'[r].pc \in Asking <=> req[r].pc \in Asking,
         req[r].pc # "nested", req'[r].pc # "nested",
         UNCHANGED <<conns, load>>, ~At(r, "read", {"reload"}), cache' \in [Scopes -> Values]
  PROVE  ProcessInv'
<1>1. RequestsFit'
  BY RequestsKeep
<1>2. load[r].pc = "idle"
  BY NotLoading
<1>3. LoadsFit'
  BY <1>2, LoadsKeep
<1>4. ProcessTyped'
  BY DEF ProcessTyped, ProcessInv
<1>5. ConnectionsHeld'
  BY DEF ProcessInv, ConnectionsHeld, Others
<1>6. QED
  BY <1>1, <1>3, <1>4, <1>5 DEF ProcessInv

\* A request takes a connection.
LEMMA Takes ==
  ASSUME ProcessInv, NEW r \in Requests, NEW wrote, Others(r, wrote), RequestFits(req'[r]), Free,
         \/ /\ req[r].pc = "identified" /\ req'[r].pc = "open"
            /\ conns' = conns \union {<<r, "outer">>}
         \/ /\ req[r].pc = "read" /\ req'[r].pc = "nested"
            /\ conns' = conns \union {<<r, "inner">>},
         load' = load, ~At(r, "read", {"reload"}), cache' = cache
  PROVE  ProcessInv'
<1>1. RequestsFit'
  BY RequestsKeep
<1>2. load[r].pc = "idle"
  BY NotLoading
<1>3. LoadsFit'
  BY <1>2, LoadsKeep
<1>4. ProcessTyped'
  BY ConnectionComes, PanelAssumption DEF ProcessTyped, ProcessInv
<1>5. ConnectionsHeld'
  <2>1. ASSUME NEW s \in Requests
        PROVE  /\ <<s, "outer">> \in conns' <=> req'[s].pc \in Asking
               /\ <<s, "inner">> \in conns' <=> req'[s].pc = "nested" \/ load[s].pc # "idle"
    <3>1. CASE s = r
      BY <1>2, <3>1 DEF ProcessInv, ConnectionsHeld, Asking
    <3>2. CASE s # r
      BY <3>2 DEF ProcessInv, ConnectionsHeld, Others
    <3>3. QED
      BY <3>1, <3>2
  <2>2. r # Loop
    BY PanelAssumption
  <2>3. QED
    BY <2>1, <2>2 DEF ProcessInv, ConnectionsHeld
<1>6. QED
  BY <1>1, <1>3, <1>4, <1>5 DEF ProcessInv

\* A request in a transaction ends it, having done it or not.
LEMMA EndIs ==
  ASSUME ProcessInv, NEW r \in Requests, NEW answer \in {"refused", "failed", "done"}, NEW wrote,
         End(r, answer, wrote), req[r].pc \in {"open"} \union Under, ~At(r, "read", {"reload"})
  PROVE  ProcessInv' /\ Others(r, wrote) /\ req'[r].pc = "ended" /\ req'[r].answer = answer
<1>1. RequestsFit /\ RequestFits(req[r]) /\ req[r] # Idle
  BY IdleOnly DEF ProcessInv, RequestsFit, Under
<1>2. req'[r] = [req[r] EXCEPT !.pc = "ended", !.answer = answer] /\ Others(r, wrote)
  BY <1>1, MoveIs DEF End
<1>3. RequestFits(req'[r]) /\ req'[r].pc = "ended" /\ req'[r].answer = answer
  <2>1. /\ DOMAIN req'[r] = DOMAIN req[r] /\ req'[r].pc = "ended" /\ req'[r].body = req[r].body
        /\ req'[r].saw = req[r].saw /\ req'[r].overtaken = req[r].overtaken
        /\ req'[r].answer = answer
    BY <1>1, <1>2 DEF RequestFits, Formed
  <2>2. QED
    BY <1>1, <2>1, EndedFits
<1>4. ProcessInv'
  BY <1>2, <1>3, Departs DEF End, ProcessInv, ProcessTyped
<1>5. QED
  BY <1>2, <1>3, <1>4

LEMMA TellIs ==
  ASSUME ProcessInv, NEW r \in Requests, NEW report, Tell(r, report),
         req[r].pc = "read", ~At(r, "read", {"reload"})
  PROVE  ProcessInv' /\ Others(r, {}) /\ req'[r].pc = "ended" /\ req'[r].report = report
<1>1. RequestsFit /\ RequestFits(req[r]) /\ req[r] # Idle
  BY IdleOnly DEF ProcessInv, RequestsFit
<1>2. /\ req'[r] = [req[r] EXCEPT !.pc = "ended", !.answer = "done", !.report = report]
      /\ Others(r, {})
  BY <1>1, MoveIs DEF Tell
<1>3. RequestFits(req'[r]) /\ req'[r].pc = "ended" /\ req'[r].report = report
  <2>1. /\ DOMAIN req'[r] = DOMAIN req[r] /\ req'[r].pc = "ended" /\ req'[r].body = req[r].body
        /\ req'[r].saw = req[r].saw /\ req'[r].overtaken = req[r].overtaken
        /\ req'[r].answer = "done" /\ req'[r].report = report
    BY <1>1, <1>2 DEF RequestFits, Formed
  <2>2. QED
    BY <1>1, <2>1, EndedFits
<1>4. ProcessInv'
  BY <1>2, <1>3, Departs DEF Tell, ProcessInv, ProcessTyped
<1>5. QED
  BY <1>2, <1>3, <1>4
-----------------------------------------------------------------------------
\* What is written is told to those who go by it.
Told(wrote) ==
  /\ \A i \in Ids: policies'[i] = policies[i] \/ <<"policies", i>> \in wrote
  /\ \A i \in Ids: agents'[i] = agents[i] \/ <<"agents", i>> \in wrote
  /\ agents' = agents \/ <<"agents", None>> \in wrote
  /\ Marked' = Marked \/ <<"fleet", None>> \in wrote
  /\ stored'["own"] = stored["own"] \/ <<"settings", "set_value">> \in wrote

\* What the requests beside one that writes go by, still is so.
LEMMA ReadsKeep ==
  ASSUME RequestsFit, ReadsHold, NEW r \in Requests, NEW wrote, Others(r, wrote), Told(wrote),
         req'[r].pc \in Under /\ ~req'[r].overtaken => SawTrue(req[r])'
  PROVE  ReadsHold'
<1> SUFFICES ASSUME NEW s \in Requests, s # r, req'[s].pc \in Under, ~req'[s].overtaken
             PROVE  SawTrue(req[s])'
  BY DEF ReadsHold
<1> DEFINE kind == req[s].body.kind
           on == req[s].body.on
<1>1. /\ req'[s].pc = req[s].pc /\ req'[s].body = req[s].body /\ req'[s].saw = req[s].saw
      /\ ~req[s].overtaken /\ Reads(req[s]) \intersect wrote = {}
  BY DEF Others
<1>2. SawTrue(req[s])
  BY <1>1 DEF ReadsHold
<1>3. req[s].body \in Bodies
  BY <1>1, IdleOnly DEF RequestsFit, RequestFits, Formed, Under, Idle
<1>4. CASE kind \in PolicyKinds
  <2>1. Reads(req[s]) = {<<"policies", on>>}
    BY <1>4 DEF Reads, PolicyKinds, AgentKinds, RequirementKinds, FleetKinds
  <2>2. on \in Ids
    BY <1>3, <1>4, BodyIs DEF RowKinds
  <2>3. policies'[on] = policies[on]
    BY <1>1, <2>1, <2>2 DEF Told
  <2>4. QED
    BY <1>1, <1>2, <1>4, <2>3 DEF SawTrue, PolicyKinds, FleetKinds
<1>5. CASE kind \in {"get_compliance", "agent_report"}
  <2>1. <<"agents", on>> \in Reads(req[s])
    BY <1>5 DEF Reads, PolicyKinds, AgentKinds, RequirementKinds, FleetKinds
  <2>2. on \in Ids
    BY <1>3, <1>5, BodyIs DEF RowKinds
  <2>3. agents'[on] = agents[on]
    BY <1>1, <2>1, <2>2 DEF Told
  <2>4. QED
    BY <1>1, <1>2, <1>5, <2>3 DEF SawTrue, PolicyKinds, FleetKinds
<1>6. CASE kind \in FleetKinds
  <2>1. Reads(req[s]) = {<<"fleet", None>>}
    BY <1>6 DEF Reads, PolicyKinds, AgentKinds, RequirementKinds, FleetKinds
  <2>2. Marked' = Marked
    BY <1>1, <2>1 DEF Told
  <2>3. QED
    BY <1>1, <1>2, <1>6, <2>2 DEF SawTrue, PolicyKinds, FleetKinds
<1>7. CASE kind = "set_value"
  <2>1. Reads(req[s]) = {<<"settings", "set_value">>}
    BY <1>7 DEF Reads, PolicyKinds, AgentKinds, RequirementKinds, FleetKinds
  <2>2. stored'["own"] = stored["own"]
    BY <1>1, <2>1 DEF Told
  <2>3. QED
    BY <1>1, <1>2, <1>7, <2>2 DEF SawTrue, PolicyKinds, FleetKinds
<1>8. CASE kind = "enterprise_report"
  <2>1. <<"agents", None>> \in Reads(req[s])
    BY <1>8 DEF Reads, PolicyKinds, AgentKinds, RequirementKinds, FleetKinds
  <2>2. agents' = agents
    BY <1>1, <2>1 DEF Told
  <2>3. Registered' = Registered
    BY <2>2 DEF Registered, Present
  <2>4. QED
    BY <1>1, <1>2, <1>8, <2>3 DEF SawTrue, PolicyKinds, FleetKinds
<1>9. CASE kind \notin PolicyKinds \union FleetKinds
                         \union {"get_compliance", "agent_report", "enterprise_report", "set_value"}
  BY <1>1, <1>9 DEF SawTrue
<1>10. QED
  BY <1>4, <1>5, <1>6, <1>7, <1>8, <1>9

\* A step that writes no table.
LEMMA TablesStay ==
  ASSUME TablesInv, UNCHANGED tables, NEW r \in Requests, NEW wrote, Others(r, wrote),
         req[r].pc # "ended"
  PROVE  TablesInv' /\ Told(wrote)
<1>1. UNCHANGED <<policies, agents, requirements, tasks, log, stored, history>>
  BY DEF tables
<1>2. TablesTyped' /\ PoliciesNameAgents'
  BY <1>1 DEF TablesInv, TablesTyped, PoliciesNameAgents, Present
<1>3. RowsAreNew'
  BY <1>1 DEF TablesInv, RowsAreNew, Others
<1>4. Told(wrote)
  BY <1>1 DEF Told, Marked, Present
<1>5. QED
  BY <1>2, <1>3, <1>4 DEF TablesInv

\* A step that writes no table and of which nothing has to be found out.
LEMMA QuietKeeps ==
  ASSUME IInv, UNCHANGED tables, NEW r \in Requests, NEW wrote, Others(r, wrote),
         req[r].pc # "ended", ProcessInv',
         req'[r].pc \in Under /\ ~req'[r].overtaken => SawTrue(req[r])'
  PROVE  IInv'
<1>1. TablesInv' /\ Told(wrote)
  BY TablesStay DEF IInv
<1>2. ReadsHold'
  BY <1>1, ReadsKeep DEF IInv, ProcessInv
<1>3. QED
  BY <1>1, <1>2 DEF IInv

\* A request that ends without writing.
LEMMA LeaveKeeps ==
  ASSUME IInv, NEW r \in Requests, NEW answer \in {"refused", "failed", "done"}, Leave(r, answer),
         req[r].pc \in {"open"} \union Under, ~At(r, "read", {"reload"})
  PROVE  IInv'
<1>1. ProcessInv' /\ Others(r, {}) /\ req'[r].pc = "ended"
  BY EndIs DEF IInv, Leave
<1>2. QED
  BY <1>1, QuietKeeps DEF Leave, Under

LEMMA TellKeeps ==
  ASSUME IInv, NEW r \in Requests, NEW report, Tell(r, report),
         req[r].pc = "read", ~At(r, "read", {"reload"})
  PROVE  IInv'
<1>1. ProcessInv' /\ Others(r, {}) /\ req'[r].pc = "ended"
  BY TellIs DEF IInv
<1>2. QED
  BY <1>1, QuietKeeps DEF Tell, Under

\* A request that ends with what it has written.
LEMMA EndKeeps ==
  ASSUME IInv, NEW r \in Requests, NEW wrote, NEW answer \in {"failed", "done"},
         End(r, answer, wrote), req[r].pc \in Under, ~At(r, "read", {"reload"}),
         Told(wrote), TablesTyped', PoliciesNameAgents',
         \A s \in Requests \ {r}: agents[s] = None => agents'[s] = None
  PROVE  IInv'
<1>1. ProcessInv' /\ Others(r, wrote) /\ req'[r].pc = "ended"
  BY EndIs DEF IInv
<1>2. RowsAreNew'
  BY <1>1 DEF IInv, TablesInv, RowsAreNew, Others
<1>3. ReadsHold'
  BY <1>1, ReadsKeep DEF IInv, ProcessInv, Under
<1>4. QED
  BY <1>1, <1>2, <1>3 DEF IInv, TablesInv
-----------------------------------------------------------------------------
\* One lemma per action.
LEMMA Underway ==
  ASSUME IInv, NEW r \in Requests, req[r].pc # "idle"
  PROVE  /\ RequestsFit /\ RequestFits(req[r]) /\ req[r] # Idle /\ Formed(req[r])
         /\ StageFits(req[r]) /\ SawFits(req[r]) /\ req[r].body \in Bodies
BY IdleOnly DEF IInv, ProcessInv, RequestsFit, RequestFits, Formed

LEMMA StartKeeps == ASSUME IInv, NEW r \in Requests, NEW body \in Bodies, Start(r, body) PROVE IInv'
<1> DEFINE q == [pc |-> "arrived", body |-> body, saw |-> Unread, overtaken |-> FALSE,
                 answer |-> "none", report |-> None]
<1>1. /\ DOMAIN q = {"pc", "body", "saw", "overtaken", "answer", "report"}
      /\ DOMAIN q.saw = {"row", "fleet", "rows", "log"}
      /\ q.pc = "arrived" /\ q.body = body /\ q.overtaken = FALSE /\ q.answer = "none"
  BY DEF Unread
<1>2. RequestsFit /\ Goes(r, q) /\ req[r] = Idle /\ UNCHANGED <<tables, cache, conns, load>>
  BY DEF Start, IInv, ProcessInv
<1> HIDE DEF q
<1>3. RequestFits(q)
  BY <1>1 DEF RequestFits, Formed, StageFits, SawFits, Under
<1>4. req'[r] = q /\ Others(r, {})
  BY <1>2, GoesIs
<1>5. ProcessInv'
  BY <1>1, <1>2, <1>3, <1>4, Stays DEF IInv, ProcessInv, ProcessTyped, Asking, Idle, At
<1>6. QED
  BY <1>1, <1>2, <1>4, <1>5, QuietKeeps DEF Idle, Under

LEMMA AuthenticateKeeps == ASSUME IInv, NEW r \in Requests, Authenticate(r) PROVE IInv'
<1>1. RequestFits(req[r]) /\ req[r] # Idle /\ RequestsFit
  BY Underway DEF Authenticate
<1>2. req'[r] = [req[r] EXCEPT !.pc = "identified"] /\ Others(r, {})
  BY <1>1, GoesIs DEF Authenticate
<1>3. /\ DOMAIN req'[r] = DOMAIN req[r] /\ req'[r].pc = "identified" /\ req'[r].body = req[r].body
      /\ req'[r].saw = req[r].saw /\ req'[r].overtaken = req[r].overtaken
      /\ req'[r].answer = req[r].answer
  BY <1>1, <1>2 DEF RequestFits, Formed
<1>4. RequestFits(req'[r])
  BY <1>1, <1>3 DEF RequestFits, Formed, StageFits, SawFits, Under
<1>5. ProcessInv'
  BY <1>2, <1>3, <1>4, Stays DEF Authenticate, IInv, ProcessInv, ProcessTyped, Asking, At
<1>6. QED
  BY <1>2, <1>3, <1>5, QuietKeeps DEF Authenticate, Under

LEMMA OpenKeeps == ASSUME IInv, NEW r \in Requests, Open(r) PROVE IInv'
<1>1. RequestFits(req[r]) /\ req[r] # Idle /\ RequestsFit
  BY Underway DEF Open
<1>2. req'[r] = [req[r] EXCEPT !.pc = "open"] /\ Others(r, {})
  BY <1>1, GoesIs DEF Open
<1>3. /\ DOMAIN req'[r] = DOMAIN req[r] /\ req'[r].pc = "open" /\ req'[r].body = req[r].body
      /\ req'[r].saw = req[r].saw /\ req'[r].overtaken = req[r].overtaken
      /\ req'[r].answer = req[r].answer
  BY <1>1, <1>2 DEF RequestFits, Formed
<1>4. RequestFits(req'[r])
  BY <1>1, <1>3 DEF RequestFits, Formed, StageFits, SawFits, Under, Asking
<1>5. ProcessInv'
  BY <1>2, <1>3, <1>4, Takes DEF Open, IInv, At
<1>6. QED
  BY <1>2, <1>3, <1>5, QuietKeeps DEF Open, Under

LEMMA RefusalKeeps == ASSUME IInv, NEW r \in Requests, Refuse(r) PROVE IInv'
BY LeaveKeeps DEF Refuse, At

LEMMA AbortKeeps == ASSUME IInv, NEW r \in Requests, Abort(r) PROVE IInv'
BY LeaveKeeps DEF Abort, At, Under

\* What a request finds first is of its kind, and so at that moment.
LEMMA LookKeeps == ASSUME IInv, NEW r \in Requests, Look(r) PROVE IInv'
<1> DEFINE body == req[r].body
           kind == body.kind
<1>1. /\ RequestFits(req[r]) /\ req[r] # Idle /\ RequestsFit /\ body \in Bodies
      /\ req[r].pc = "open" /\ ~Refused(r)
  BY Underway DEF Look
<1>2. PICK saw:
        /\ Goes(r, [req[r] EXCEPT !.pc = "read", !.saw = saw])
        /\ UNCHANGED <<tables, cache, conns, load>>
        /\ DOMAIN saw = {"row", "fleet", "rows", "log"}
        /\ kind \in PolicyKinds => saw.row = policies[body.on]
        /\ kind \in AgentKinds \union {"get_compliance", "agent_report"} => saw.row = agents[body.on]
        /\ kind = "register_agent" => saw.row \in Classified
        /\ kind = "set_value" => saw.row = stored["own"]
        /\ kind = "enterprise_report" => saw.rows = Registered
        /\ kind \in FleetKinds => saw.fleet = Marked
  <2> DEFINE Found(saw) ==
        /\ Goes(r, [req[r] EXCEPT !.pc = "read", !.saw = saw])
        /\ UNCHANGED <<tables, cache, conns, load>>
        /\ DOMAIN saw = {"row", "fleet", "rows", "log"}
        /\ kind \in PolicyKinds => saw.row = policies[body.on]
        /\ kind \in AgentKinds \union {"get_compliance", "agent_report"} => saw.row = agents[body.on]
        /\ kind = "register_agent" => saw.row \in Classified
        /\ kind = "set_value" => saw.row = stored["own"]
        /\ kind = "enterprise_report" => saw.rows = Registered
        /\ kind \in FleetKinds => saw.fleet = Marked
      Seen(saw) == /\ Goes(r, [req[r] EXCEPT !.pc = "read", !.saw = saw])
                   /\ UNCHANGED <<tables, cache, conns, load>>
  <2>1. \A row: LET saw == [Unread EXCEPT !.row = row]
                IN DOMAIN saw = {"row", "fleet", "rows", "log"} /\ saw.row = row
    BY DEF Unread
  <2>2. \/ kind \in PolicyKinds /\ Seen([Unread EXCEPT !.row = policies[body.on]])
        \/ kind \in AgentKinds \union {"get_compliance", "agent_report"}
             /\ Seen([Unread EXCEPT !.row = agents[body.on]])
        \/ kind \in RequirementKinds /\ Seen([Unread EXCEPT !.row = requirements[body.on]])
        \/ kind = "enterprise_report"
             /\ Seen([Unread EXCEPT !.rows = Registered])
        \/ kind = "set_value" /\ Seen([Unread EXCEPT !.row = stored["own"]])
        \/ kind = "register_agent"
             /\ \E found \in Classified: Seen([Unread EXCEPT !.row = found])
        \/ kind \in FleetKinds /\ Seen([Unread EXCEPT !.fleet = Marked, !.log = log])
        \/ kind \in {"create_policy", "create_requirement", "seed_demo", "set_default",
                     "run_scenario", "reload"} /\ Seen(Unread)
    BY DEF Look
  <2> USE DEF PolicyKinds, AgentKinds, RequirementKinds, FleetKinds
  <2>3. CASE kind \in PolicyKinds /\ Seen([Unread EXCEPT !.row = policies[body.on]])
    <3>1. Found([Unread EXCEPT !.row = policies[body.on]])
      BY <2>1, <2>3
    <3>2. QED
      BY <3>1
  <2>4. CASE /\ kind \in AgentKinds \union {"get_compliance", "agent_report"}
             /\ Seen([Unread EXCEPT !.row = agents[body.on]])
    <3>1. Found([Unread EXCEPT !.row = agents[body.on]])
      BY <2>1, <2>4
    <3>2. QED
      BY <3>1
  <2>5. CASE kind \in RequirementKinds /\ Seen([Unread EXCEPT !.row = requirements[body.on]])
    <3>1. Found([Unread EXCEPT !.row = requirements[body.on]])
      BY <2>1, <2>5
    <3>2. QED
      BY <3>1
  <2>6. CASE /\ kind = "enterprise_report"
             /\ Seen([Unread EXCEPT !.rows = Registered])
    <3>1. /\ DOMAIN [Unread EXCEPT !.rows = Registered] = {"row", "fleet", "rows", "log"}
          /\ [Unread EXCEPT !.rows = Registered].rows = Registered
      BY DEF Unread
    <3>2. Found([Unread EXCEPT !.rows = Registered])
      BY <2>6, <3>1
    <3>3. QED
      BY <3>2
  <2>7. CASE kind = "set_value" /\ Seen([Unread EXCEPT !.row = stored["own"]])
    <3>1. Found([Unread EXCEPT !.row = stored["own"]])
      BY <2>1, <2>7
    <3>2. QED
      BY <3>1
  <2>8. CASE kind = "register_agent" /\ \E found \in Classified: Seen([Unread EXCEPT !.row = found])
    <3>1. PICK found \in Classified: Seen([Unread EXCEPT !.row = found])
      BY <2>8
    <3>2. Found([Unread EXCEPT !.row = found])
      BY <2>1, <2>8, <3>1
    <3>3. QED
      BY <3>2
  <2>9. CASE kind \in FleetKinds /\ Seen([Unread EXCEPT !.fleet = Marked, !.log = log])
    <3>1. /\ DOMAIN [Unread EXCEPT !.fleet = Marked, !.log = log] = {"row", "fleet", "rows", "log"}
          /\ [Unread EXCEPT !.fleet = Marked, !.log = log].fleet = Marked
      BY DEF Unread
    <3>2. Found([Unread EXCEPT !.fleet = Marked, !.log = log])
      BY <2>9, <3>1
    <3>3. QED
      BY <3>2
  <2>10. CASE /\ kind \in {"create_policy", "create_requirement", "seed_demo", "set_default",
                           "run_scenario", "reload"}
              /\ Seen(Unread)
    <3>1. DOMAIN Unread = {"row", "fleet", "rows", "log"}
      BY DEF Unread
    <3>2. Found(Unread)
      BY <2>10, <3>1
    <3>3. QED
      BY <3>2
  <2>11. QED
    BY <2>2, <2>3, <2>4, <2>5, <2>6, <2>7, <2>8, <2>9, <2>10
<1>3. req'[r] = [req[r] EXCEPT !.pc = "read", !.saw = saw] /\ Others(r, {})
  BY <1>1, <1>2, GoesIs
<1>4. /\ DOMAIN req'[r] = DOMAIN req[r] /\ req'[r].pc = "read" /\ req'[r].body = body
      /\ req'[r].saw = saw /\ req'[r].overtaken = req[r].overtaken
      /\ req'[r].answer = req[r].answer
  BY <1>1, <1>3 DEF RequestFits, Formed
<1>5. SawFits(req'[r])
  <2>1. kind \in PolicyKinds => saw.row \in Policy
    BY <1>1, <1>2, BodyIs DEF Refused, RowKinds, IInv, TablesInv, TablesTyped
  <2>2. kind \in AgentKinds \union {"get_compliance", "agent_report"} => saw.row \in Agent
    BY <1>1, <1>2, BodyIs DEF Refused, RowKinds, IInv, TablesInv, TablesTyped
  <2>3. kind = "register_agent" => saw.row \in Classifications
    <3>1. Fallback \in Classifications
      BY DEF Classifications, Fallback, Risks
    <3>2. QED
      BY <1>2, <3>1, PanelAssumption
  <2>4. kind = "set_value" => saw.row \in Values
    BY <1>2 DEF IInv, TablesInv, TablesTyped, Scopes
  <2>5. QED
    BY <1>4, <2>1, <2>2, <2>3, <2>4 DEF SawFits
<1>6. RequestFits(req'[r])
  BY <1>1, <1>2, <1>4, <1>5 DEF RequestFits, Formed, StageFits, Asking
<1>7. ProcessInv'
  BY <1>1, <1>2, <1>3, <1>4, <1>6, Stays DEF IInv, ProcessInv, ProcessTyped, Asking, At
<1>8. SawTrue(req[r])'
  <2>1. /\ Marked' = Marked /\ Registered' = Registered
        /\ policies' = policies /\ agents' = agents /\ stored' = stored
    BY <1>2 DEF tables, Marked, Registered, Present
  <2>2. QED
    BY <1>2, <1>4, <2>1 DEF SawTrue
<1>9. QED
  BY <1>1, <1>2, <1>3, <1>7, <1>8, QuietKeeps
\* A policy is written, for an agent that is there or for all.
LEMMA PolicyWritten ==
  ASSUME IInv, NEW r \in Requests, NEW on \in Ids, NEW new \in Policy,
         new.agent \in Present(agents) \union {None},
         policies' = [policies EXCEPT ![on] = new], End(r, "done", Written("policies", {on})),
         UNCHANGED <<agents, requirements, tasks, log, stored, history>>,
         req[r].pc = "read", ~At(r, "read", {"reload"})
  PROVE  IInv'
<1>1. TablesTyped'
  BY DEF IInv, TablesInv, TablesTyped
<1>2. policies \in [Ids -> Policy \union {None}] /\ PoliciesNameAgents
  BY DEF IInv, TablesInv, TablesTyped
<1>3. PoliciesNameAgents'
  BY <1>2 DEF PoliciesNameAgents, Present
<1>4. Told(Written("policies", {on}))
  BY <1>2 DEF Told, Written, Marked, Present
<1>5. QED
  BY <1>1, <1>3, <1>4, EndKeeps DEF Under

LEMMA CreatePolicyKeeps == ASSUME IInv, NEW r \in Requests, CreatePolicy(r) PROVE IInv'
<1> DEFINE patch == req[r].body.patch
<1>1. req[r].body \in Bodies /\ req[r].pc = "read" /\ req[r].body.kind = "create_policy"
  BY Underway DEF CreatePolicy, At
<1>2. ~At(r, "read", {"reload"}) /\ r \in Ids
  BY <1>1, PanelAssumption DEF At
<1>3. CASE patch.agent \in Present(agents) \union {None}
  <2>1. NewPolicy(patch) \in Policy /\ NewPolicy(patch).agent = patch.agent
    BY <1>1, NewPolicyRow
  <2>2. /\ policies' = [policies EXCEPT ![r] = NewPolicy(patch)]
        /\ End(r, "done", Written("policies", {r}))
        /\ UNCHANGED <<agents, requirements, tasks, log, stored, history>>
    BY <1>3 DEF CreatePolicy
  <2> HIDE DEF patch
  <2>3. QED
    BY <1>1, <1>2, <1>3, <2>1, <2>2, PolicyWritten
<1>4. CASE ~(patch.agent \in Present(agents) \union {None})
  BY <1>1, <1>2, <1>4, LeaveKeeps DEF CreatePolicy, Under
<1>5. QED
  BY <1>3, <1>4

LEMMA WritePolicyKeeps == ASSUME IInv, NEW r \in Requests, WritePolicy(r) PROVE IInv'
<1> DEFINE body == req[r].body
           row == policies[body.on]
           read == req[r].saw.row
           Writes(new) == /\ policies' = [policies EXCEPT ![body.on] = new]
                          /\ End(r, "done", Written("policies", {body.on}))
                          /\ UNCHANGED <<agents, requirements, tasks, log, stored, history>>
<1>1. body \in Bodies /\ req[r].pc = "read" /\ body.kind \in PolicyKinds /\ SawFits(req[r])
  BY Underway DEF WritePolicy, At
<1>2. ~At(r, "read", {"reload"}) /\ body.on \in Ids /\ read \in Policy
  BY <1>1, BodyIs DEF At, RowKinds, SawFits, Under, PolicyKinds
<1>3. row # None => row \in Policy /\ row.agent \in Present(agents) \union {None}
  BY <1>2 DEF IInv, TablesInv, TablesTyped, PoliciesNameAgents, Present
<1>4. \/ row # None /\ body.kind = "update_policy" /\ Writes(UpdatedPolicy(row, body.patch))
      \/ row # None /\ body.kind = "update_keywords"
           /\ Writes(KeywordedPolicy(row, read, body.patch.keywords))
      \/ row # None /\ body.kind = "toggle_policy" /\ Writes(ToggledPolicy(row, read))
      \/ row # None /\ body.kind = "deactivate_policy" /\ Writes(DeactivatedPolicy(row))
      \/ Leave(r, IF body.kind \in {"update_policy", "update_keywords"} THEN "failed" ELSE "done")
  BY DEF WritePolicy
<1>5. ASSUME NEW new \in Policy, new.agent = row.agent, row # None, Writes(new)
      PROVE  IInv'
  BY <1>1, <1>2, <1>3, <1>5, PolicyWritten
<1>6. Leave(r, IF body.kind \in {"update_policy", "update_keywords"} THEN "failed" ELSE "done")
        => IInv'
  BY <1>1, <1>2, LeaveKeeps DEF Under
<1> HIDE DEF Writes, row, read
<1>7. ASSUME row # None
      PROVE  /\ UpdatedPolicy(row, body.patch) \in Policy
             /\ UpdatedPolicy(row, body.patch).agent = row.agent
             /\ body.kind = "update_keywords" =>
                  /\ KeywordedPolicy(row, read, body.patch.keywords) \in Policy
                  /\ KeywordedPolicy(row, read, body.patch.keywords).agent = row.agent
             /\ ToggledPolicy(row, read) \in Policy /\ ToggledPolicy(row, read).agent = row.agent
             /\ DeactivatedPolicy(row) \in Policy /\ DeactivatedPolicy(row).agent = row.agent
  <2>1. body \in Bodies /\ row \in Policy /\ read \in Policy
    BY <1>1, <1>2, <1>3, <1>7
  <2> HIDE DEF body
  <2>2. QED
    BY <2>1, PolicyRows
<1>8. CASE row # None /\ body.kind = "update_policy" /\ Writes(UpdatedPolicy(row, body.patch))
  BY <1>5, <1>7, <1>8
<1>9. CASE /\ row # None /\ body.kind = "update_keywords"
           /\ Writes(KeywordedPolicy(row, read, body.patch.keywords))
  BY <1>5, <1>7, <1>9
<1>10. CASE row # None /\ body.kind = "toggle_policy" /\ Writes(ToggledPolicy(row, read))
  BY <1>5, <1>7, <1>10
<1>11. CASE row # None /\ body.kind = "deactivate_policy" /\ Writes(DeactivatedPolicy(row))
  BY <1>5, <1>7, <1>11
<1>12. QED
  BY <1>4, <1>6, <1>8, <1>9, <1>10, <1>11

\* The agent in a row is another, or a new one.
LEMMA AgentWritten ==
  ASSUME IInv, NEW r \in Requests, NEW on \in Ids, NEW new \in Agent, NEW wrote,
         on = r \/ agents[on] # None,
         agents' = [agents EXCEPT ![on] = new], End(r, "done", wrote),
         UNCHANGED <<policies, requirements, tasks, log, stored, history>>,
         req[r].pc = "read", ~At(r, "read", {"reload"}),
         {<<"agents", on>>, <<"agents", None>>} \subseteq wrote,
         Marked' = Marked \/ <<"fleet", None>> \in wrote
  PROVE  IInv'
<1>1. agents \in [Ids -> Agent \union {None}] /\ PoliciesNameAgents /\ None \notin Agent
  BY NoneAssumption DEF IInv, TablesInv, TablesTyped
<1>2. TablesTyped'
  BY DEF IInv, TablesInv, TablesTyped
<1>3. Present(agents) \subseteq Present(agents')
  BY <1>1 DEF Present
<1>4. PoliciesNameAgents'
  BY <1>1, <1>3 DEF PoliciesNameAgents, Present
<1>5. Told(wrote)
  BY <1>1 DEF Told
<1>6. \A s \in Requests \ {r}: agents[s] = None => agents'[s] = None
  BY <1>1
<1>7. QED
  BY <1>2, <1>4, <1>5, <1>6, EndKeeps DEF Under

\* What the marker of the fleet is on, as rows of agents come to be written.
LEMMA MarkedKeep ==
  ASSUME NEW on \in Ids, agents \in [Ids -> Agent \union {None}], NEW new \in Agent,
         agents' = [agents EXCEPT ![on] = new],
         new.fleet = IF agents[on] = None THEN FALSE ELSE agents[on].fleet
  PROVE  Marked' = Marked
<1>1. None \notin Agent
  BY NoneAssumption
<1>2. ASSUME NEW i \in Ids PROVE i \in Marked' <=> i \in Marked
  <2>1. CASE i = on
    BY <1>1, <2>1 DEF Marked, Present
  <2>2. CASE i # on
    BY <2>2 DEF Marked, Present
  <2>3. QED
    BY <2>1, <2>2
<1>3. QED
  BY <1>2 DEF Marked, Present

LEMMA RegisterAgentKeeps == ASSUME IInv, NEW r \in Requests, RegisterAgent(r) PROVE IInv'
<1> DEFINE found == req[r].saw.row
<1>1. req[r].pc = "read" /\ req[r].body.kind = "register_agent" /\ found \in Classifications
  BY Underway DEF RegisterAgent, At, SawFits, Under
<1>2. ~At(r, "read", {"reload"}) /\ r \in Ids
  BY <1>1, PanelAssumption DEF At
<1>3. CASE found.risk \in Risks
  <2>1. NewAgent(found) \in Agent /\ NewAgent(found).fleet = FALSE
    BY <1>1, <1>3, NewAgentRow
  <2>2. /\ agents' = [agents EXCEPT ![r] = NewAgent(found)]
        /\ End(r, "done", Written("agents", {r}))
        /\ UNCHANGED <<policies, requirements, tasks, log, stored, history>>
    BY <1>3 DEF RegisterAgent
  <2> HIDE DEF found
  <2>3. agents[r] = None /\ agents \in [Ids -> Agent \union {None}]
    BY <1>1 DEF IInv, TablesInv, RowsAreNew, TablesTyped
  <2>4. Marked' = Marked
    BY <1>2, <2>1, <2>2, <2>3, MarkedKeep
  <2>5. {<<"agents", r>>, <<"agents", None>>} \subseteq Written("agents", {r})
    BY DEF Written
  <2>6. QED
    BY <1>1, <1>2, <2>1, <2>2, <2>4, <2>5, AgentWritten
<1>4. CASE ~(found.risk \in Risks)
  BY <1>1, <1>2, <1>4, LeaveKeeps DEF RegisterAgent, Under
<1>5. QED
  BY <1>3, <1>4

LEMMA WriteAgentKeeps == ASSUME IInv, NEW r \in Requests, WriteAgent(r) PROVE IInv'
<1> DEFINE body == req[r].body
           row == agents[body.on]
           wrote == Written("agents", {body.on})
                      \union IF body.kind = "update_registry" THEN Written("fleet", {}) ELSE {}
           new == IF body.kind = "update_status" THEN [row EXCEPT !.status = body.patch.status]
                  ELSE RegisteredAgent(row, body.patch)
<1>1. req[r].pc = "read" /\ body.kind \in AgentKinds /\ body \in Bodies
  BY Underway DEF WriteAgent, At
<1>2. ~At(r, "read", {"reload"}) /\ body.on \in Ids
  BY <1>1, BodyIs DEF At, AgentKinds, RowKinds
<1>3. CASE row = None
  BY <1>1, <1>2, <1>3, LeaveKeeps DEF WriteAgent, Under
<1>4. CASE row # None
  <2>1. agents \in [Ids -> Agent \union {None}] /\ row \in Agent
    BY <1>2, <1>4 DEF IInv, TablesInv, TablesTyped
  <2>2. new \in Agent /\ (body.kind = "update_status" => new.fleet = row.fleet)
    BY <1>1, <2>1, AgentRows
  <2>3. /\ agents' = [agents EXCEPT ![body.on] = new] /\ End(r, "done", wrote)
        /\ UNCHANGED <<policies, requirements, tasks, log, stored, history>>
    BY <1>4 DEF WriteAgent
  <2>4. {<<"agents", body.on>>, <<"agents", None>>} \subseteq wrote
    BY DEF Written
  <2>5. body.kind = "update_registry" => <<"fleet", None>> \in wrote
    BY DEF Written
  <2> HIDE DEF new, wrote
  <2>6. body.kind = "update_status" => Marked' = Marked
    BY <1>2, <1>4, <2>1, <2>2, <2>3, MarkedKeep
  <2>7. QED
    BY <1>1, <1>2, <1>4, <2>2, <2>3, <2>4, <2>5, <2>6, AgentWritten DEF AgentKinds
<1>5. QED
  BY <1>3, <1>4
\* The row of a requirement, in the request's transaction.
LEMMA WriteRequirementKeeps == ASSUME IInv, NEW r \in Requests, WriteRequirement(r) PROVE IInv'
<1> DEFINE body == req[r].body
           id == IF body.on = None THEN r ELSE body.on
           answer == Outcome(body, requirements[id])
           wrote == Written("requirements", {id})
<1>1. /\ req[r].pc = "read" /\ body.kind \in RequirementKinds \union {"create_requirement"}
      /\ body \in Bodies
  BY Underway DEF WriteRequirement, At
<1>2. ~At(r, "read", {"reload"}) /\ id \in Ids
  BY <1>1, BodyIs, PanelAssumption DEF At, RequirementKinds, RowKinds
<1>3. /\ requirements' = [requirements EXCEPT ![id] = RequirementAfter(body, requirements[id])]
      /\ End(r, answer, wrote)
      /\ UNCHANGED <<policies, agents, tasks, log, stored, history>>
  BY DEF WriteRequirement
<1>4. answer \in {"failed", "done"}
  BY DEF Outcome
<1> HIDE DEF id, answer, wrote
<1>5. RequirementAfter(body, requirements[id]) \in Requirement \union {None}
  BY <1>1, <1>2, RequirementRows DEF IInv, TablesInv, TablesTyped
<1>6. TablesTyped'
  BY <1>2, <1>3, <1>5 DEF IInv, TablesInv, TablesTyped
<1>7. PoliciesNameAgents' /\ Told(wrote)
  BY <1>3 DEF IInv, TablesInv, PoliciesNameAgents, Present, Told, Marked
<1>8. QED
  BY <1>1, <1>2, <1>3, <1>4, <1>6, <1>7, EndKeeps DEF Under

\* A second connection for rows of the platform.
LEMMA NestKeeps == ASSUME IInv, NEW r \in Requests, Nest(r) PROVE IInv'
<1> DEFINE kind == req[r].body.kind
<1>1. /\ req[r].pc = "read" /\ kind # "reload" /\ Free /\ RequestsFit /\ RequestFits(req[r])
      /\ req[r] # Idle
  BY Underway DEF Nest
<1>2. kind \in RequirementKinds \union {"create_requirement", "set_default"}
  BY DEF Nest, NeedsSecond
<1>3. /\ req'[r] = [req[r] EXCEPT !.pc = "nested",
                                  !.saw.row = IF kind = "set_default"
                                              THEN stored["platform"] ELSE req[r].saw.row]
      /\ Others(r, {})
  BY <1>1, GoesIs DEF Nest
<1>4. /\ DOMAIN req'[r] = DOMAIN req[r] /\ req'[r].pc = "nested" /\ req'[r].body = req[r].body
      /\ req'[r].overtaken = req[r].overtaken /\ req'[r].answer = req[r].answer
      /\ DOMAIN req'[r].saw = DOMAIN req[r].saw
      /\ kind = "set_default" => req'[r].saw.row = stored["platform"]
  BY <1>1, <1>3 DEF RequestFits, Formed
<1>5. stored["platform"] \in Values
  BY DEF IInv, TablesInv, TablesTyped, Scopes
<1>6. RequestFits(req'[r])
  <2>1. Formed(req'[r]) /\ StageFits(req'[r])
    BY <1>1, <1>2, <1>4 DEF RequestFits, Formed, StageFits, Asking
  <2>2. SawFits(req'[r])
    BY <1>2, <1>4, <1>5 DEF SawFits, RequirementKinds, PolicyKinds, AgentKinds
  <2>3. QED
    BY <2>1, <2>2 DEF RequestFits
<1>7. ProcessInv'
  BY <1>1, <1>3, <1>4, <1>6, Takes DEF Nest, IInv, At
<1>8. SawTrue(req[r])'
  BY <1>2, <1>4 DEF SawTrue, RequirementKinds, PolicyKinds, FleetKinds
<1>9. QED
  BY <1>1, <1>3, <1>7, <1>8, QuietKeeps DEF Nest

LEMMA CommitNestedKeeps == ASSUME IInv, NEW r \in Requests, CommitNested(r) PROVE IInv'
<1> DEFINE body == req[r].body
           kind == body.kind
           id == IF body.on = None THEN r ELSE body.on
           answer == Outcome(body, requirements[id])
           wrote == IF body.kind = "set_default" THEN {<<"settings", "set_default">>}
                    ELSE Written("requirements", {id})
<1>1. /\ req[r].pc = "nested" /\ RequestsFit /\ RequestFits(req[r]) /\ req[r] # Idle
      /\ body \in Bodies /\ SawFits(req[r]) /\ StageFits(req[r])
  BY Underway DEF CommitNested
<1>2. kind \in RequirementKinds \union {"create_requirement", "set_default"}
  BY <1>1 DEF StageFits
<1>3. id \in Ids /\ ~At(r, "read", {"reload"})
  BY <1>1, <1>2, BodyIs, PanelAssumption DEF At, RequirementKinds, RowKinds
<1>4. /\ conns' = conns \ {<<r, "inner">>} /\ load' = load /\ cache' = cache
      /\ UNCHANGED <<policies, agents, tasks, log>>
  BY DEF CommitNested
<1>5. /\ req'[r] = [req[r] EXCEPT !.pc = "written", !.answer = answer]
      /\ Others(r, wrote)
  BY <1>1, MoveIs DEF CommitNested
<1>6. answer \in {"failed", "done"}
  BY DEF Outcome
<1>7. TablesTyped' /\ stored'["own"] = stored["own"]
  <2>1. TablesTyped
    BY DEF IInv, TablesInv
  <2>2. CASE kind = "set_default"
    <3>1. body.patch.value \in Values /\ req[r].saw.row \in Values
      BY <1>1, <2>2, BodyIs DEF SawFits, Under
    <3>2. /\ stored' = [stored EXCEPT !["platform"] = body.patch.value]
          /\ history' = [history EXCEPT !["platform"] = [old |-> req[r].saw.row,
                                                         new |-> body.patch.value]]
          /\ UNCHANGED requirements
      BY <2>2 DEF CommitNested
    <3>3. QED
      BY <1>4, <2>1, <3>1, <3>2 DEF TablesTyped, Scopes
  <2>3. CASE kind # "set_default"
    <3>1. /\ requirements' = [requirements EXCEPT ![id] = RequirementAfter(body, requirements[id])]
          /\ UNCHANGED <<stored, history>>
      BY <2>3 DEF CommitNested
    <3>2. RequirementAfter(body, requirements[id]) \in Requirement \union {None}
      BY <1>1, <1>3, <2>1, RequirementRows DEF TablesTyped
    <3>3. QED
      BY <1>3, <1>4, <2>1, <3>1, <3>2 DEF TablesTyped
  <2>4. QED
    BY <2>2, <2>3
<1> HIDE DEF id, answer, wrote
<1>8. /\ DOMAIN req'[r] = DOMAIN req[r] /\ req'[r].pc = "written" /\ req'[r].body = req[r].body
      /\ req'[r].saw = req[r].saw /\ req'[r].overtaken = req[r].overtaken
      /\ req'[r].answer = answer
  BY <1>1, <1>5 DEF RequestFits, Formed
<1>9. RequestFits(req'[r])
  BY <1>1, <1>2, <1>6, <1>8 DEF RequestFits, Formed, StageFits, SawFits, Asking, Under
<1>10. ProcessInv'
  <2>1. RequestsFit'
    BY <1>5, <1>9, RequestsKeep
  <2>2. load[r].pc = "idle"
    BY <1>3, NotLoading DEF IInv
  <2>3. LoadsFit'
    BY <1>4, <1>5, <2>2, LoadsKeep DEF IInv
  <2>4. ProcessTyped'
    BY <1>4, ConnectionsGo, PanelAssumption DEF IInv, ProcessInv, ProcessTyped
  <2>5. ConnectionsHeld'
    <3>1. ASSUME NEW s \in Requests
          PROVE  /\ <<s, "outer">> \in conns' <=> req'[s].pc \in Asking
                 /\ <<s, "inner">> \in conns' <=> req'[s].pc = "nested" \/ load[s].pc # "idle"
      <4>1. CASE s = r
        BY <1>1, <1>4, <1>8, <2>2, <4>1 DEF IInv, ProcessInv, ConnectionsHeld, Asking
      <4>2. CASE s # r
        BY <1>4, <1>5, <4>2 DEF IInv, ProcessInv, ConnectionsHeld, Others
      <4>3. QED
        BY <4>1, <4>2
    <3>2. r # Loop
      BY PanelAssumption
    <3>3. QED
      BY <1>4, <3>1, <3>2 DEF IInv, ProcessInv, ConnectionsHeld
  <2>6. QED
    BY <2>1, <2>3, <2>4, <2>5 DEF ProcessInv
<1>11. RowsAreNew'
  BY <1>1, <1>4, <1>5 DEF IInv, TablesInv, RowsAreNew, Others
<1>12. PoliciesNameAgents' /\ Told(wrote)
  BY <1>4, <1>7 DEF IInv, TablesInv, PoliciesNameAgents, Present, Told, Marked
<1>13. ReadsHold'
  BY <1>1, <1>5, <1>8, <1>12, ReadsKeep DEF IInv, Under
<1>14. QED
  BY <1>7, <1>10, <1>11, <1>12, <1>13 DEF IInv, TablesInv

LEMMA FinishKeeps == ASSUME IInv, NEW r \in Requests, Finish(r) PROVE IInv'
<1> DEFINE body == req[r].body
<1>1. /\ req[r].pc = "written" /\ RequestsFit /\ RequestFits(req[r]) /\ req[r] # Idle
      /\ body \in Bodies /\ StageFits(req[r])
  BY Underway DEF Finish
<1>2. req'[r] = [req[r] EXCEPT !.pc = "ended"] /\ Others(r, {})
  BY <1>1, GoesIs DEF Finish
<1>3. /\ DOMAIN req'[r] = DOMAIN req[r] /\ req'[r].pc = "ended" /\ req'[r].body = req[r].body
      /\ req'[r].saw = req[r].saw /\ req'[r].overtaken = req[r].overtaken
      /\ req'[r].answer = req[r].answer
  BY <1>1, <1>2 DEF RequestFits, Formed
<1>4. RequestFits(req'[r])
  BY <1>1, <1>3 DEF RequestFits, Formed, StageFits, SawFits, Under
<1>5. cache' \in [Scopes -> Values]
  <2>1. body.kind = "set_default" => body.patch.value \in Values
    BY <1>1, BodyIs
  <2>2. QED
    BY <2>1 DEF Finish, IInv, ProcessInv, ProcessTyped
<1>6. ProcessInv'
  BY <1>1, <1>2, <1>3, <1>4, <1>5, Departs DEF Finish, IInv, At
<1>7. QED
  BY <1>1, <1>2, <1>3, <1>6, QuietKeeps DEF Finish, Under

\* A parameter of the organisation.
LEMMA UpsertKeeps == ASSUME IInv, NEW r \in Requests, Upsert(r) PROVE IInv'
<1> DEFINE body == req[r].body
<1>1. /\ req[r].pc = "read" /\ RequestsFit /\ RequestFits(req[r]) /\ req[r] # Idle
      /\ body \in Bodies /\ body.kind = "set_value"
  BY Underway DEF Upsert, At
<1>2. req'[r] = [req[r] EXCEPT !.pc = "locked"] /\ Others(r, {})
  BY <1>1, GoesIs DEF Upsert
<1>3. /\ DOMAIN req'[r] = DOMAIN req[r] /\ req'[r].pc = "locked" /\ req'[r].body = req[r].body
      /\ req'[r].saw = req[r].saw /\ req'[r].overtaken = req[r].overtaken
      /\ req'[r].answer = req[r].answer
  BY <1>1, <1>2 DEF RequestFits, Formed
<1>4. RequestFits(req'[r])
  BY <1>1, <1>3 DEF RequestFits, Formed, StageFits, SawFits, Under, Asking
<1>5. cache' \in [Scopes -> Values]
  BY <1>1, BodyIs DEF Upsert, IInv, ProcessInv, ProcessTyped
<1>6. ProcessInv'
  BY <1>1, <1>2, <1>3, <1>4, <1>5, Stays DEF Upsert, IInv, At, Asking
<1>7. ~req[r].overtaken => SawTrue(req[r])'
  <2>1. UNCHANGED <<policies, agents, stored>> /\ UNCHANGED <<Marked, Registered>>
    BY DEF Upsert, tables, Marked, Registered, Present
  <2>2. ~req[r].overtaken => SawTrue(req[r])
    BY <1>1 DEF IInv, ReadsHold, Under
  <2>3. QED
    BY <1>3, <2>1, <2>2 DEF SawTrue
<1>8. QED
  BY <1>1, <1>2, <1>3, <1>6, <1>7, QuietKeeps DEF Upsert

LEMMA CommitValueKeeps == ASSUME IInv, NEW r \in Requests, CommitValue(r) PROVE IInv'
<1> DEFINE value == req[r].body.patch.value
           wrote == {<<"settings", "set_value">>}
<1>1. req[r].pc = "locked" /\ value \in Values /\ req[r].saw.row \in Values
  BY Underway, BodyIs DEF CommitValue, At, SawFits, Under
<1>2. /\ stored' = [stored EXCEPT !["own"] = value]
      /\ history' = [history EXCEPT !["own"] = [old |-> req[r].saw.row, new |-> value]]
      /\ End(r, "done", wrote)
      /\ UNCHANGED <<policies, agents, requirements, tasks, log>>
  BY DEF CommitValue
<1>3. TablesTyped'
  BY <1>1, <1>2 DEF IInv, TablesInv, TablesTyped, Scopes
<1>4. PoliciesNameAgents' /\ Told(wrote)
  BY <1>2 DEF IInv, TablesInv, PoliciesNameAgents, Present, Told, Marked
<1>5. QED
  BY <1>1, <1>2, <1>3, <1>4, EndKeeps DEF Under, At
\* Loads of the cache.  A step that changes neither tables nor requests.
LEMMA StillKeeps ==
  ASSUME IInv, UNCHANGED <<tables, req>>, ProcessInv'
  PROVE  IInv'
<1>1. UNCHANGED <<policies, agents, requirements, tasks, log, stored, history, req>>
  BY DEF tables
<1>2. TablesInv'
  BY <1>1 DEF IInv, TablesInv, TablesTyped, PoliciesNameAgents, Present, RowsAreNew
<1>3. ReadsHold'
  BY <1>1 DEF IInv, ReadsHold, SawTrue, Marked, Registered, Present
<1>4. QED
  BY <1>2, <1>3 DEF IInv

LEMMA LoadDefaultsKeeps ==
  ASSUME IInv, NEW w \in Requests \union {Loop}, LoadDefaults(w)
  PROVE  IInv'
<1> DEFINE new == [pc |-> "half", own |-> None, platform |-> stored["platform"]]
<1>1. /\ Loads(w) /\ load[w] = NoLoad /\ Free /\ conns' = conns \union {<<w, "inner">>}
      /\ load' = [load EXCEPT ![w] = new] /\ UNCHANGED <<tables, cache, req>>
  BY DEF LoadDefaults
<1>2. ProcessTyped /\ RequestsFit /\ LoadsFit /\ ConnectionsHeld
  BY DEF IInv, ProcessInv
<1>3. stored["platform"] \in Values
  BY DEF IInv, TablesInv, TablesTyped, Scopes
<1>4. ProcessTyped'
  <2>1. load' \in [Requests \union {Loop} ->
                     [pc: {"idle", "half", "full"}, own: Values \union {None},
                      platform: Values \union {None}]]
    BY <1>1, <1>2, <1>3 DEF ProcessTyped
  <2>2. QED
    BY <1>1, <1>2, <2>1, ConnectionComes, PanelAssumption DEF ProcessTyped
<1>5. RequestsFit'
  BY <1>1, <1>2 DEF RequestsFit, RequestFits, Formed, StageFits, SawFits
<1>6. load'[w] = new /\ \A v \in Requests \union {Loop}: v # w => load'[v] = load[v]
  BY <1>1, <1>2 DEF ProcessTyped
<1>7. \A v \in Requests \union {Loop}: Loads(v)' <=> Loads(v)
  BY <1>1 DEF Loads, At
<1>8. LoadsFit'
  BY <1>1, <1>2, <1>3, <1>6, <1>7 DEF LoadsFit
<1>9. ConnectionsHeld'
  <2>1. load[w].pc = "idle"
    BY <1>1 DEF NoLoad
  <2>2. w \in Requests => req[w].pc = "read" /\ w # Loop
    BY <1>1, PanelAssumption DEF Loads, At
  <2>3. Loop \notin Requests
    BY PanelAssumption
  <2>4. QED
    BY <1>1, <1>2, <1>6, <2>1, <2>2, <2>3 DEF ConnectionsHeld
<1>10. QED
  BY <1>1, <1>4, <1>5, <1>8, <1>9, StillKeeps DEF ProcessInv

LEMMA LoadOverridesKeeps ==
  ASSUME IInv, NEW w \in Requests \union {Loop}, LoadOverrides(w)
  PROVE  IInv'
<1>1. /\ load[w].pc = "half" /\ load' = [load EXCEPT ![w].pc = "full", ![w].own = stored["own"]]
      /\ UNCHANGED <<tables, cache, conns, req>>
  BY DEF LoadOverrides
<1>2. ProcessTyped /\ RequestsFit /\ LoadsFit /\ ConnectionsHeld
  BY DEF IInv, ProcessInv
<1>3. stored["own"] \in Values
  BY DEF IInv, TablesInv, TablesTyped, Scopes
<1>4. /\ load' \in [Requests \union {Loop} ->
                     [pc: {"idle", "half", "full"}, own: Values \union {None},
                      platform: Values \union {None}]]
      /\ load'[w].pc = "full" /\ load'[w].own = stored["own"] /\ load'[w].platform = load[w].platform
      /\ \A v \in Requests \union {Loop}: v # w => load'[v] = load[v]
  BY <1>1, <1>2, <1>3 DEF ProcessTyped
<1>5. ProcessTyped'
  BY <1>1, <1>2, <1>4 DEF ProcessTyped
<1>6. RequestsFit'
  BY <1>1, <1>2 DEF RequestsFit, RequestFits, Formed, StageFits, SawFits
<1>7. \A v \in Requests \union {Loop}: Loads(v)' <=> Loads(v)
  BY <1>1 DEF Loads, At
<1>8. LoadsFit'
  BY <1>1, <1>2, <1>3, <1>4, <1>7 DEF LoadsFit
<1>9. ConnectionsHeld'
  BY <1>1, <1>2, <1>4 DEF ConnectionsHeld
<1>10. QED
  BY <1>1, <1>5, <1>6, <1>8, <1>9, StillKeeps DEF ProcessInv

LEMMA UnloadKeeps ==
  ASSUME IInv, NEW w \in Requests \union {Loop}, Unload(w), load[w].pc # "idle",
         cache' \in [Scopes -> Values]
  PROVE  IInv'
<1>1. /\ load' = [load EXCEPT ![w] = NoLoad] /\ conns' = {c \in conns: c[1] # w}
      /\ UNCHANGED tables
  BY DEF Unload
<1>2. ProcessTyped /\ RequestsFit /\ LoadsFit /\ ConnectionsHeld /\ Loop \notin Requests
  BY PanelAssumption DEF IInv, ProcessInv
<1>3. load'[w] = NoLoad /\ \A v \in Requests \union {Loop}: v # w => load'[v] = load[v]
  BY <1>1, <1>2 DEF ProcessTyped
<1>4. ProcessTyped'
  <2>1. load' \in [Requests \union {Loop} ->
                     [pc: {"idle", "half", "full"}, own: Values \union {None},
                      platform: Values \union {None}]]
    BY <1>1, <1>2 DEF ProcessTyped, NoLoad
  <2>2. QED
    BY <1>1, <1>2, <2>1, ConnectionsGo, PanelAssumption DEF ProcessTyped
<1>5. CASE w = Loop
  <2>1. req' = req
    BY <1>5 DEF Unload
  <2>2. RequestsFit'
    BY <1>2, <2>1 DEF RequestsFit, RequestFits, Formed, StageFits, SawFits
  <2>3. \A v \in Requests \union {Loop}: Loads(v)' <=> Loads(v)
    BY <2>1 DEF Loads, At
  <2>4. LoadsFit'
    BY <1>2, <1>3, <2>3 DEF LoadsFit, NoLoad
  <2>5. ConnectionsHeld'
    BY <1>1, <1>2, <1>3, <1>5, <2>1 DEF ConnectionsHeld, NoLoad
  <2>6. QED
    BY <1>1, <1>4, <2>1, <2>2, <2>4, <2>5, StillKeeps DEF ProcessInv
<1>6. CASE w # Loop
  <2>1. w \in Requests /\ req[w].pc = "read" /\ RequestFits(req[w]) /\ req[w] # Idle
    BY <1>2, <1>6, Underway DEF LoadsFit, Loads, At
  <2>2. req'[w] = [req[w] EXCEPT !.pc = "ended", !.answer = "done"] /\ Others(w, {})
    BY <1>2, <1>6, <2>1, GoesIs DEF Unload
  <2>3. /\ DOMAIN req'[w] = DOMAIN req[w] /\ req'[w].pc = "ended" /\ req'[w].body = req[w].body
        /\ req'[w].saw = req[w].saw /\ req'[w].overtaken = req[w].overtaken
        /\ req'[w].answer = "done"
    BY <2>1, <2>2 DEF RequestFits, Formed
  <2>4. RequestFits(req'[w])
    BY <2>1, <2>3, EndedFits
  <2>5. RequestsFit'
    BY <2>1, <2>2, <2>4, RequestsKeep
  <2>6. LoadsFit'
    <3>1. \A v \in Requests \union {Loop}: v # w => (Loads(v)' <=> Loads(v))
      BY <2>2 DEF Loads, At, Others
    <3>2. QED
      BY <1>2, <1>3, <3>1 DEF LoadsFit, NoLoad
  <2>7. ConnectionsHeld'
    <3>1. ASSUME NEW s \in Requests
          PROVE  /\ <<s, "outer">> \in conns' <=> req'[s].pc \in Asking
                 /\ <<s, "inner">> \in conns' <=> req'[s].pc = "nested" \/ load'[s].pc # "idle"
      <4>1. CASE s = w
        BY <1>1, <1>3, <2>3, <4>1 DEF Asking, NoLoad
      <4>2. CASE s # w
        BY <1>1, <1>2, <1>3, <2>2, <4>2 DEF ConnectionsHeld, Others
      <4>3. QED
        BY <4>1, <4>2
    <3>2. QED
      BY <1>1, <1>2, <1>3, <1>6, <3>1 DEF ConnectionsHeld
  <2>8. ProcessInv'
    BY <1>4, <2>5, <2>6, <2>7 DEF ProcessInv
  <2>9. QED
    BY <1>1, <2>1, <2>2, <2>3, <2>8, QuietKeeps DEF Under
<1>7. QED
  BY <1>5, <1>6

LEMMA LoadingKeeps ==
  ASSUME IInv, NEW w \in Requests \union {Loop}, Loading(w)
  PROVE  IInv'
<1>1. CASE LoadOverrides(w)
  BY <1>1, LoadOverridesKeeps
<1>2. CASE StoreLoaded(w)
  <2>1. load[w].own \in Values /\ load[w].platform \in Values
    BY <1>2 DEF StoreLoaded, IInv, ProcessInv, LoadsFit
  <2>2. cache' \in [Scopes -> Values]
    BY <1>2, <2>1 DEF StoreLoaded, Scopes
  <2>3. QED
    BY <1>2, <2>2, UnloadKeeps DEF StoreLoaded
<1>3. CASE LoadFails(w)
  BY <1>3, UnloadKeeps DEF LoadFails, IInv, ProcessInv, ProcessTyped
<1>4. QED
  BY <1>1, <1>2, <1>3 DEF Loading
\* The fleet: what is locked is what was found, less what is gone since.
LEMMA ClearKeeps == ASSUME IInv, NEW r \in Requests, Clear(r) PROVE IInv'
<1> DEFINE gone == req[r].saw.fleet \intersect Marked
<1>1. /\ req[r].pc = "read" /\ RequestsFit /\ RequestFits(req[r]) /\ req[r] # Idle
      /\ req[r].body.kind \in FleetKinds
  BY Underway DEF Clear, At
<1>2. ~At(r, "read", {"reload"})
  BY <1>1 DEF At, FleetKinds
<1>3. CASE gone \intersect tasks # {}
  BY <1>1, <1>2, <1>3, LeaveKeeps DEF Clear, Under
<1>4. CASE gone \intersect tasks = {}
  <2>1. Goes(r, [req[r] EXCEPT !.pc = "locked", !.saw.fleet = gone])
        /\ UNCHANGED <<tables, cache, conns, load>>
    BY <1>4 DEF Clear
  <2>2. req'[r] = [req[r] EXCEPT !.pc = "locked", !.saw.fleet = gone] /\ Others(r, {})
    BY <1>1, <2>1, GoesIs
  <2> HIDE DEF gone
  <2>3. /\ DOMAIN req'[r] = DOMAIN req[r] /\ req'[r].pc = "locked" /\ req'[r].body = req[r].body
        /\ req'[r].overtaken = req[r].overtaken /\ req'[r].answer = req[r].answer
        /\ DOMAIN req'[r].saw = DOMAIN req[r].saw /\ req'[r].saw.fleet = gone
    BY <1>1, <2>2 DEF RequestFits, Formed
  <2>4. Formed(req'[r]) /\ StageFits(req'[r])
    BY <1>1, <2>3 DEF RequestFits, Formed, StageFits, Asking
  <2>5. SawFits(req'[r])
    BY <1>1, <2>3 DEF SawFits, FleetKinds, PolicyKinds, AgentKinds
  <2>6. ProcessInv'
    BY <1>1, <1>2, <2>1, <2>2, <2>3, <2>4, <2>5, Stays
       DEF IInv, ProcessInv, ProcessTyped, Asking, RequestFits
  <2>7. ~req[r].overtaken => SawTrue(req[r])'
    <3>1. Marked' = Marked
      BY <2>1 DEF tables, Marked, Present
    <3>2. ~req[r].overtaken => req[r].saw.fleet = Marked
      BY <1>1 DEF IInv, ReadsHold, SawTrue, Under
    <3>3. ~req[r].overtaken => gone = Marked
      BY <3>2 DEF gone
    <3>4. QED
      BY <1>1, <2>3, <3>1, <3>3 DEF SawTrue, FleetKinds, PolicyKinds
  <2>8. QED
    BY <1>1, <2>1, <2>2, <2>3, <2>6, <2>7, QuietKeeps
<1>5. QED
  BY <1>3, <1>4

\* Agents go together with the policies that name them.
LEMMA CascadeKeeps ==
  ASSUME IInv, NEW r \in Requests, NEW gone, NEW row \in Agent \union {None}, NEW wrote,
         agents' = [a \in Ids |-> IF a = r /\ row # None THEN row
                                  ELSE IF a \in gone THEN None ELSE agents[a]],
         Without(gone), End(r, "done", wrote), req[r].pc = "locked",
         UNCHANGED <<requirements, tasks, stored, history>>, log' \subseteq log,
         Written("fleet", {}) \subseteq wrote,
         Written("agents", gone) \subseteq wrote, row # None => <<"agents", r>> \in wrote,
         Written("policies", {p \in Present(policies): policies[p].agent \in gone}) \subseteq wrote
  PROVE  IInv'
<1>1. TablesTyped /\ PoliciesNameAgents /\ None \notin Agent /\ None \notin Policy
  BY NoneAssumption DEF IInv, TablesInv
<1>2. policies' \in [Ids -> Policy \union {None}] /\ agents' \in [Ids -> Agent \union {None}]
  BY <1>1 DEF Without, TablesTyped
<1>3. TablesTyped'
  BY <1>1, <1>2 DEF TablesTyped
<1>4. PoliciesNameAgents'
  <2> SUFFICES ASSUME NEW p \in Ids, policies'[p] # None, policies'[p].agent # None
               PROVE  policies'[p].agent \in Ids /\ agents'[policies'[p].agent] # None
    BY DEF PoliciesNameAgents, Present
  <2>1. policies[p] # None /\ policies'[p] = policies[p] /\ policies[p].agent \notin gone
    BY DEF Without
  <2>2. policies[p].agent \in Ids /\ agents[policies[p].agent] # None
    BY <1>1, <2>1 DEF PoliciesNameAgents, Present
  <2>3. QED
    BY <1>1, <2>1, <2>2
<1>5. Told(wrote)
  <2>1. \A i \in Ids: policies'[i] = policies[i] \/ <<"policies", i>> \in wrote
    <3> SUFFICES ASSUME NEW i \in Ids, policies'[i] # policies[i]
                 PROVE  <<"policies", i>> \in wrote
      OBVIOUS
    <3>1. policies[i] # None /\ policies[i].agent \in gone
      BY DEF Without
    <3>2. QED
      BY <3>1 DEF Written, Present
  <2>2. \A i \in Ids: agents'[i] = agents[i] \/ <<"agents", i>> \in wrote
    BY DEF Written
  <2>3. <<"fleet", None>> \in wrote /\ <<"agents", None>> \in wrote
    BY DEF Written
  <2>4. QED
    BY <2>1, <2>2, <2>3 DEF Told
<1>6. \A s \in Requests \ {r}: agents[s] = None => agents'[s] = None
  BY PanelAssumption
<1>7. QED
  BY <1>3, <1>4, <1>5, <1>6, EndKeeps DEF Under, At

LEMMA SeedFleetKeeps == ASSUME IInv, NEW r \in Requests, SeedFleet(r) PROVE IInv'
<1> DEFINE gone == req[r].saw.fleet
           cascade == {p \in Present(policies): policies[p].agent \in gone}
           wrote == Written("agents", gone \union {r}) \union Written("fleet", {})
                      \union Written("policies", cascade)
<1>1. PICK row \in Fleet:
        agents' = [a \in Ids |-> IF a = r THEN row ELSE IF a \in gone THEN None ELSE agents[a]]
  BY DEF SeedFleet
<1>2. row \in Agent /\ row # None
  BY PanelAssumption, FleetRowsAreAgents, NoneAssumption
<1>3. /\ Without(gone) /\ End(r, "done", wrote) /\ req[r].pc = "locked"
      /\ UNCHANGED <<requirements, tasks, stored, history>> /\ log' = log
  BY DEF SeedFleet, At
<1>4. /\ Written("fleet", {}) \subseteq wrote /\ Written("agents", gone) \subseteq wrote
      /\ <<"agents", r>> \in wrote /\ Written("policies", cascade) \subseteq wrote
  BY DEF Written
<1> HIDE DEF wrote
<1>5. QED
  BY <1>1, <1>2, <1>3, <1>4, CascadeKeeps

LEMMA ResetFleetKeeps == ASSUME IInv, NEW r \in Requests, ResetFleet(r) PROVE IInv'
<1> DEFINE gone == req[r].saw.fleet
           cascade == {p \in Present(policies): policies[p].agent \in gone}
           wrote == Written("agents", gone) \union Written("fleet", {})
                      \union Written("policies", cascade)
<1>1. /\ agents' = [a \in Ids |-> IF a \in gone THEN None ELSE agents[a]]
      /\ Without(gone) /\ End(r, "done", wrote) /\ req[r].pc = "locked"
      /\ UNCHANGED <<requirements, tasks, stored, history>> /\ log' \subseteq log
      /\ req[r].body.kind # "seed_fleet"
  BY DEF ResetFleet, At
<1>2. /\ Written("fleet", {}) \subseteq wrote /\ Written("agents", gone) \subseteq wrote
      /\ Written("policies", cascade) \subseteq wrote
  OBVIOUS
<1>3. agents' = [a \in Ids |-> IF a = r /\ None # None THEN None
                               ELSE IF a \in gone THEN None ELSE agents[a]]
  BY <1>1
<1> HIDE DEF wrote
<1>4. QED
  BY <1>1, <1>2, <1>3, CascadeKeeps

LEMMA SeedDemoKeeps == ASSUME IInv, NEW r \in Requests, SeedDemo(r) PROVE IInv'
<1>1. /\ req[r].pc = "read" /\ ~At(r, "read", {"reload"}) /\ log' = log \union {r}
      /\ End(r, "done", {}) /\ UNCHANGED <<policies, agents, requirements, tasks, stored, history>>
  BY DEF SeedDemo, At
<1>2. TablesTyped' /\ PoliciesNameAgents' /\ Told({})
  BY <1>1 DEF IInv, TablesInv, TablesTyped, PoliciesNameAgents, Present, Told, Marked
<1>3. QED
  BY <1>1, <1>2, EndKeeps DEF Under

LEMMA EnqueueKeeps == ASSUME IInv, NEW a \in Ids, Enqueue(a) PROVE IInv'
<1>1. UNCHANGED <<policies, agents, requirements, log, stored, history, cache, conns, req, load>>
      /\ tasks' = tasks \union {a}
  BY DEF Enqueue
<1>2. TablesInv'
  BY <1>1 DEF IInv, TablesInv, TablesTyped, PoliciesNameAgents, Present, RowsAreNew
<1>3. ReadsHold'
  BY <1>1 DEF IInv, ReadsHold, SawTrue, Marked, Registered, Present
<1>4. ProcessTyped' /\ ConnectionsHeld'
  BY <1>1 DEF IInv, ProcessInv, ProcessTyped, ConnectionsHeld
<1>5. RequestsFit' /\ LoadsFit'
  BY <1>1 DEF IInv, ProcessInv, RequestsFit, RequestFits, Formed, StageFits, SawFits, LoadsFit,
              Loads, At
<1>6. QED
  BY <1>2, <1>3, <1>4, <1>5 DEF IInv, ProcessInv

LEMMA ReportsKeep ==
  ASSUME IInv, NEW r \in Requests,
         GetCompliance(r) \/ AgentReport(r) \/ EnterpriseReport(r) \/ RunScenario(r)
  PROVE  IInv'
BY TellKeeps DEF GetCompliance, AgentReport, EnterpriseReport, RunScenario, At
-----------------------------------------------------------------------------
\* The start: the rows there are, no request, no connection.
LEMMA InitInv == Init => IInv
<1> SUFFICES ASSUME Init PROVE IInv
  OBVIOUS
<1>1. TablesTyped
  BY PanelAssumption DEF Init, TablesTyped, Table, Scopes
<1>2. RowsAreNew
  BY PanelAssumption DEF Init, RowsAreNew, Table
<1>3. PoliciesNameAgents
  BY PanelAssumption, NoneAssumption DEF Init, PoliciesNameAgents, Present, Table
<1>4. ProcessTyped
  <2>1. IsFiniteSet({}) /\ Cardinality({}) = 0
    BY FS_EmptySet
  <2>2. QED
    BY <2>1, PanelAssumption DEF Init, ProcessTyped, NoLoad
<1>5. RequestsFit
  BY FitsIdle DEF Init, RequestsFit
<1>6. LoadsFit /\ ConnectionsHeld
  BY PanelAssumption, FitsIdle DEF Init, LoadsFit, ConnectionsHeld, NoLoad, Asking
<1>7. ReadsHold
  BY FitsIdle DEF Init, ReadsHold, Under
<1>8. QED
  BY <1>1, <1>2, <1>3, <1>4, <1>5, <1>6, <1>7 DEF IInv, ProcessInv, TablesInv

\* Every step of the panel.
LEMMA StepInv == IInv /\ [Next]_vars => IInv'
<1> SUFFICES ASSUME IInv, [Next]_vars PROVE IInv'
  OBVIOUS
<1>1. ASSUME NEW r \in Requests, NEW body \in Bodies, Start(r, body) PROVE IInv'
  BY <1>1, StartKeeps
<1>2. ASSUME NEW r \in Requests, Acquire(r) PROVE IInv'
  BY <1>2, AuthenticateKeeps, OpenKeeps, NestKeeps, LoadDefaultsKeeps DEF Acquire
<1>3. ASSUME NEW r \in Requests, Step(r) PROVE IInv'
  <2>1. CASE Refuse(r) \/ Look(r) \/ Abort(r)
    BY <2>1, RefusalKeeps, LookKeeps, AbortKeeps
  <2>2. CASE CreatePolicy(r) \/ WritePolicy(r) \/ RegisterAgent(r) \/ WriteAgent(r)
    BY <2>2, CreatePolicyKeeps, WritePolicyKeeps, RegisterAgentKeeps, WriteAgentKeeps
  <2>3. CASE WriteRequirement(r) \/ CommitNested(r) \/ Finish(r)
    BY <2>3, WriteRequirementKeeps, CommitNestedKeeps, FinishKeeps
  <2>4. CASE Upsert(r) \/ CommitValue(r) \/ Loading(r)
    BY <2>4, UpsertKeeps, CommitValueKeeps, LoadingKeeps
  <2>5. CASE Clear(r) \/ SeedFleet(r) \/ ResetFleet(r) \/ SeedDemo(r)
    BY <2>5, ClearKeeps, SeedFleetKeeps, ResetFleetKeeps, SeedDemoKeeps
  <2>6. CASE GetCompliance(r) \/ AgentReport(r) \/ EnterpriseReport(r) \/ RunScenario(r)
    BY <2>6, ReportsKeep
  <2>7. QED
    BY <1>3, <2>1, <2>2, <2>3, <2>4, <2>5, <2>6 DEF Step
<1>4. CASE LoadDefaults(Loop) \/ Loading(Loop)
  BY <1>4, LoadDefaultsKeeps, LoadingKeeps
<1>5. ASSUME NEW a \in Ids, Enqueue(a) PROVE IInv'
  BY <1>5, EnqueueKeeps
<1>6. CASE UNCHANGED vars
  <2>1. UNCHANGED <<tables, cache, conns, req, load>>
    BY <1>6 DEF vars
  <2>2. ProcessInv'
    BY <2>1 DEF IInv, ProcessInv, ProcessTyped, ConnectionsHeld, RequestsFit, RequestFits, Formed,
                StageFits, SawFits, LoadsFit, Loads, At
  <2>3. QED
    BY <2>1, <2>2, StillKeeps
<1>7. QED
  BY <1>1, <1>2, <1>3, <1>4, <1>5, <1>6 DEF Next

\* Every state of the panel satisfies the inductive invariant.
THEOREM Invariance == Spec => []IInv
<1>1. QED
  BY InitInv, StepInv, PTL DEF Spec

\* Every variable holds a value of the kind the code gives it, and no more connections are
\* in use than there are.
THEOREM TypeCorrect == Spec => []TypeOK
<1>1. IInv => TypeOK
  BY IdleOnly DEF IInv, ProcessInv, ProcessTyped, TablesInv, TablesTyped, RequestsFit, RequestFits,
                  Formed, Asking, TypeOK
<1>2. QED
  BY <1>1, Invariance, PTL

\* A policy of an agent names one that is there, though fleets are deleted meanwhile.
THEOREM PoliciesCorrect == Spec => []PoliciesNameAgents
<1>1. IInv => PoliciesNameAgents
  BY DEF IInv, TablesInv
<1>2. QED
  BY <1>1, Invariance, PTL

\* No connection leaks: whoever holds one is at a stage that gives it back.
THEOREM ConnectionsCorrect == Spec => []ConnectionsHeld
<1>1. IInv => ConnectionsHeld
  BY DEF IInv, ProcessInv
<1>2. QED
  BY <1>1, Invariance, PTL
-----------------------------------------------------------------------------
\* Only the request whose step it is comes to its end in it.
LEMMA OnlyActor ==
  ASSUME IInv, NEW w \in Requests,
         Acquire(w) \/ Step(w) \/ \E body \in Bodies: Start(w, body),
         NEW r \in Requests, r # w
  PROVE  req'[r].pc = req[r].pc
<1>1. RequestsFit /\ w # Loop
  BY PanelAssumption DEF IInv, ProcessInv
<1>2. ASSUME NEW q, Goes(w, q) PROVE req'[r].pc = req[r].pc
  BY <1>1, <1>2, GoesIs
<1>3. ASSUME NEW q, NEW wrote, Move(w, q, wrote) PROVE req'[r].pc = req[r].pc
  BY <1>1, <1>3, MoveIs DEF Others
<1>4. ASSUME NEW answer, NEW wrote, End(w, answer, wrote) PROVE req'[r].pc = req[r].pc
  BY <1>3, <1>4 DEF End
<1>5. ASSUME NEW answer, Leave(w, answer) PROVE req'[r].pc = req[r].pc
  BY <1>4, <1>5 DEF Leave
<1>6. CASE Acquire(w)
  BY <1>2, <1>6 DEF Acquire, Authenticate, Open, Nest, LoadDefaults
<1>7. CASE \E body \in Bodies: Start(w, body)
  BY <1>2, <1>7 DEF Start
<1>8. CASE Step(w)
  <2>1. CASE Refuse(w) \/ Look(w) \/ Abort(w)
    BY <1>2, <1>5, <2>1 DEF Refuse, Look, Abort
  <2>2. CASE CreatePolicy(w) \/ RegisterAgent(w) \/ WriteAgent(w)
    BY <1>4, <1>5, <2>2 DEF CreatePolicy, RegisterAgent, WriteAgent
  <2>3. CASE WritePolicy(w)
    BY <1>4, <1>5, <2>3 DEF WritePolicy
  <2>4. CASE WriteRequirement(w) \/ CommitNested(w) \/ Finish(w)
    BY <1>2, <1>3, <1>4, <2>4 DEF WriteRequirement, CommitNested, Finish
  <2>5. CASE Upsert(w) \/ CommitValue(w)
    BY <1>2, <1>4, <2>5 DEF Upsert, CommitValue
  <2>6. CASE Loading(w)
    BY <1>1, <1>2, <2>6 DEF Loading, LoadOverrides, StoreLoaded, LoadFails, Unload
  <2>7. CASE Clear(w) \/ SeedFleet(w) \/ ResetFleet(w) \/ SeedDemo(w)
    BY <1>2, <1>4, <1>5, <2>7 DEF Clear, SeedFleet, ResetFleet, SeedDemo
  <2>8. CASE GetCompliance(w) \/ AgentReport(w) \/ EnterpriseReport(w) \/ RunScenario(w)
    BY <1>3, <2>8 DEF GetCompliance, AgentReport, EnterpriseReport, RunScenario, Tell
  <2>9. QED
    BY <1>8, <2>1, <2>2, <2>3, <2>4, <2>5, <2>6, <2>7, <2>8 DEF Step
<1>9. QED
  BY <1>6, <1>7, <1>8

\* What a request that is done has done, if nobody overtook it.
Promise(r) ==
  LET q == req[r]
      on == q.body.on
      kind == q.body.kind
  IN /\ kind = "toggle_policy" => policies'[on].active = ~policies[on].active
     /\ kind = "update_keywords" => policies'[on].condition.rest = policies[on].condition.rest
     /\ kind = "seed_fleet" => Marked' = {r}
     /\ kind \in {"reset_fleet", "reset_demo"} => Marked' = {}
     /\ kind = "set_value" => history'["own"].old = stored["own"]
     /\ kind \in {"get_compliance", "agent_report"} =>
          req'[r].report = Assess(agents[on], Asked(requirements, agents[on].risk))
     /\ kind = "enterprise_report" =>
          req'[r].report = <<Recommendations(Registered), Asked(requirements, "high")>>

\* The kinds of which something is promised.
Promising == {"toggle_policy", "update_keywords", "get_compliance", "agent_report",
              "enterprise_report", "set_value"} \union FleetKinds

LEMMA PolicyPromise ==
  ASSUME IInv, NEW r \in Requests, WritePolicy(r), ~req[r].overtaken, req'[r].answer = "done"
  PROVE  Promise(r)
<1> DEFINE body == req[r].body
           row == policies[body.on]
           read == req[r].saw.row
<1>1. body \in Bodies /\ req[r].pc = "read" /\ body.kind \in PolicyKinds /\ SawFits(req[r])
  BY Underway DEF WritePolicy, At
<1>2. body.on \in Ids /\ read \in Policy /\ read = row /\ row # None
  <2>1. SawTrue(req[r])
    BY <1>1 DEF IInv, ReadsHold, Under
  <2>2. QED
    BY <1>1, <2>1, BodyIs, NoneAssumption DEF RowKinds, SawFits, SawTrue, Under
<1>3. policies \in [Ids -> Policy \union {None}]
  BY DEF IInv, TablesInv, TablesTyped
<1>4. body.kind = "toggle_policy" => policies'[body.on].active = ~policies[body.on].active
  <2>1. SUFFICES ASSUME body.kind = "toggle_policy"
                 PROVE  policies'[body.on].active = ~row.active
    OBVIOUS
  <2>2. policies' = [policies EXCEPT ![body.on] = ToggledPolicy(row, read)]
    BY <1>2, <2>1 DEF WritePolicy
  <2>3. policies'[body.on] = ToggledPolicy(row, read)
    BY <1>2, <1>3, <2>2
  <2> HIDE DEF row, read, body
  <2>4. ToggledPolicy(row, read).active = ~read.active
    BY <1>1, <1>2, PolicyRows
  <2>5. QED
    BY <1>2, <2>3, <2>4
<1>5. body.kind = "update_keywords" =>
        policies'[body.on].condition.rest = policies[body.on].condition.rest
  <2>1. SUFFICES ASSUME body.kind = "update_keywords"
                 PROVE  policies'[body.on].condition.rest = row.condition.rest
    OBVIOUS
  <2>2. policies' = [policies EXCEPT ![body.on] = KeywordedPolicy(row, read, body.patch.keywords)]
    BY <1>2, <2>1 DEF WritePolicy
  <2>3. policies'[body.on] = KeywordedPolicy(row, read, body.patch.keywords)
    BY <1>2, <1>3, <2>2
  <2>4. row \in Policy /\ read \in Policy /\ body.patch.keywords \in Words
    BY <1>1, <1>2, <2>1, BodyIs
  <2> HIDE DEF row, read, body
  <2>5. KeywordedPolicy(row, read, body.patch.keywords).condition.rest = read.condition.rest
    BY <2>4, KeywordsKeepRest
  <2>6. QED
    BY <1>2, <2>3, <2>5
<1>6. QED
  BY <1>1, <1>4, <1>5 DEF Promise, PolicyKinds

LEMMA FleetPromise ==
  ASSUME IInv, NEW r \in Requests, SeedFleet(r) \/ ResetFleet(r), ~req[r].overtaken
  PROVE  Promise(r)
<1> DEFINE gone == req[r].saw.fleet
<1>1. req[r].pc = "locked" /\ req[r].body.kind \in FleetKinds
  BY DEF SeedFleet, ResetFleet, At, FleetKinds
<1>2. gone = Marked
  BY <1>1 DEF IInv, ReadsHold, SawTrue, Under
<1>3. r \in Ids /\ None \notin Agent
  BY PanelAssumption, NoneAssumption
<1>4. CASE SeedFleet(r)
  <2>1. PICK row \in Fleet:
          agents' = [a \in Ids |-> IF a = r THEN row ELSE IF a \in gone THEN None ELSE agents[a]]
    BY <1>4 DEF SeedFleet
  <2>2. row # None /\ row.fleet = TRUE
    BY <1>3, PanelAssumption, FleetRowsAreAgents
  <2>3. \A i \in Ids: i \in Marked' <=> i = r
    BY <1>2, <1>3, <2>1, <2>2 DEF Marked, Present
  <2>4. Marked' = {r}
    BY <1>3, <2>3 DEF Marked, Present
  <2>5. QED
    BY <1>4, <2>4 DEF SeedFleet, At, Promise
<1>5. CASE ResetFleet(r)
  <2>1. agents' = [a \in Ids |-> IF a \in gone THEN None ELSE agents[a]]
    BY <1>5 DEF ResetFleet
  <2>2. Marked' = {}
    BY <1>2, <2>1 DEF Marked, Present
  <2>3. QED
    BY <1>5, <2>2 DEF ResetFleet, At, Promise
<1>6. QED
  BY <1>4, <1>5

LEMMA ReportPromise ==
  ASSUME IInv, NEW r \in Requests, GetCompliance(r) \/ AgentReport(r), ~req[r].overtaken
  PROVE  Promise(r)
<1> DEFINE agent == req[r].saw.row
           on == req[r].body.on
           report == Assess(agent, Asked(requirements, agent.risk))
<1>1. /\ req[r].pc = "read" /\ req[r].body.kind \in {"get_compliance", "agent_report"}
      /\ Tell(r, report) /\ ~At(r, "read", {"reload"})
  BY DEF GetCompliance, AgentReport, At
<1>2. agent = agents[on]
  BY <1>1 DEF IInv, ReadsHold, SawTrue, Under
<1> HIDE DEF report
<1>3. req'[r].report = report
  BY <1>1, TellIs DEF IInv
<1>4. QED
  BY <1>1, <1>2, <1>3 DEF Promise, report

LEMMA EnterprisePromise ==
  ASSUME IInv, NEW r \in Requests, EnterpriseReport(r), ~req[r].overtaken
  PROVE  Promise(r)
<1> DEFINE report == <<Recommendations(req[r].saw.rows), Asked(requirements, "high")>>
<1>1. /\ req[r].pc = "read" /\ req[r].body.kind = "enterprise_report"
      /\ Tell(r, report) /\ ~At(r, "read", {"reload"})
  BY DEF EnterpriseReport, At
<1>2. req[r].saw.rows = Registered
  BY <1>1 DEF IInv, ReadsHold, SawTrue, Under
<1> HIDE DEF report
<1>3. req'[r].report = report
  BY <1>1, TellIs DEF IInv
<1>4. QED
  BY <1>1, <1>2, <1>3 DEF Promise, report

LEMMA ValuePromise ==
  ASSUME IInv, NEW r \in Requests, CommitValue(r), ~req[r].overtaken
  PROVE  Promise(r)
<1>1. req[r].pc = "locked" /\ req[r].body.kind = "set_value"
  BY DEF CommitValue, At
<1>2. req[r].saw.row = stored["own"]
  BY <1>1 DEF IInv, ReadsHold, SawTrue, Under
<1>3. history' = [history EXCEPT !["own"] = [old |-> req[r].saw.row,
                                             new |-> req[r].body.patch.value]]
  BY DEF CommitValue
<1>4. history'["own"].old = stored["own"]
  BY <1>2, <1>3 DEF IInv, TablesInv, TablesTyped, Scopes
<1>5. QED
  BY <1>1, <1>4 DEF Promise

\* A request that comes to its end in a step of its own, done and not overtaken, keeps what
\* its kind promises.
LEMMA ActorPromise ==
  ASSUME IInv, NEW r \in Requests, Acquire(r) \/ Step(r) \/ \E body \in Bodies: Start(r, body),
         req[r] # Idle, req[r].pc # "ended", req'[r].pc = "ended", req'[r].answer = "done",
         ~req[r].overtaken
  PROVE  Promise(r)
<1> DEFINE q == req[r]
           kind == req[r].body.kind
<1>1. /\ RequestsFit /\ RequestFits(q) /\ q # Idle /\ q.pc # "idle" /\ StageFits(q)
      /\ DOMAIN q = {"pc", "body", "saw", "overtaken", "answer", "report"} /\ r # Loop
  BY IdleOnly, PanelAssumption DEF IInv, ProcessInv, RequestsFit, RequestFits, Formed
<1>2. kind \notin Promising => Promise(r)
  BY DEF Promise, Promising, FleetKinds
<1>3. ASSUME NEW n, Goes(r, n) PROVE req'[r] = n
  BY <1>1, <1>3, GoesIs
<1>4. ASSUME NEW answer, Leave(r, answer) PROVE req'[r].answer = answer
  <2>1. req'[r] = [q EXCEPT !.pc = "ended", !.answer = answer]
    BY <1>1, <1>4, MoveIs DEF Leave, End
  <2>2. QED
    BY <1>1, <2>1
<1>5. CASE \E body \in Bodies: Start(r, body)
  BY <1>5 DEF Start
<1>6. CASE Acquire(r)
  BY <1>1, <1>3, <1>6 DEF Acquire, Authenticate, Open, Nest, LoadDefaults
<1>7. CASE Step(r)
  <2>1. CASE Refuse(r) \/ Abort(r)
    BY <1>4, <2>1 DEF Refuse, Abort
  <2>2. CASE Look(r)
    <3>1. PICK saw: Goes(r, [q EXCEPT !.pc = "read", !.saw = saw])
      BY <2>2 DEF Look
    <3>2. req'[r].pc = "read"
      BY <1>1, <1>3, <3>1
    <3>3. QED
      BY <3>2
  <2>3. CASE CreatePolicy(r) \/ RegisterAgent(r) \/ WriteAgent(r) \/ WriteRequirement(r)
    BY <1>2, <2>3 DEF CreatePolicy, RegisterAgent, WriteAgent, WriteRequirement, At, Promising,
                      AgentKinds, RequirementKinds, FleetKinds
  <2>4. CASE WritePolicy(r)
    BY <2>4, PolicyPromise
  <2>5. CASE CommitNested(r) \/ Finish(r)
    BY <1>1, <1>2, <2>5 DEF CommitNested, Finish, StageFits, Promising, RequirementKinds, FleetKinds
  <2>6. CASE Upsert(r)
    BY <1>1, <1>3, <2>6 DEF Upsert
  <2>7. CASE CommitValue(r)
    BY <2>7, ValuePromise
  <2>8. CASE Loading(r)
    <3>1. load[r].pc # "idle"
      BY <2>8 DEF Loading, LoadOverrides, StoreLoaded, LoadFails
    <3>2. kind = "reload"
      BY <1>1, <3>1, NotLoading DEF IInv, At
    <3>3. QED
      BY <1>2, <3>2 DEF Promising, FleetKinds
  <2>9. CASE Clear(r)
    <3>1. CASE Leave(r, "failed")
      BY <1>4, <3>1
    <3>2. CASE ~Leave(r, "failed")
      BY <1>1, <1>3, <2>9, <3>2 DEF Clear
    <3>3. QED
      BY <3>1, <3>2
  <2>10. CASE SeedFleet(r) \/ ResetFleet(r)
    BY <2>10, FleetPromise
  <2>11. CASE SeedDemo(r) \/ RunScenario(r)
    BY <1>2, <2>11 DEF SeedDemo, RunScenario, At, Promising, FleetKinds
  <2>12. CASE GetCompliance(r) \/ AgentReport(r) \/ EnterpriseReport(r)
    BY <2>12, ReportPromise, EnterprisePromise
  <2>13. QED
    BY <1>7, <2>1, <2>2, <2>3, <2>4, <2>5, <2>6, <2>7, <2>8, <2>9, <2>10, <2>11, <2>12 DEF Step
<1>8. QED
  BY <1>5, <1>6, <1>7

\* What a request has done it has done to what it read, unless another wrote that meanwhile.
THEOREM AnswersCorrect == Spec => AnswersHoldUnlessOvertaken
<1> DEFINE Answers(r) ==
             LET q == req[r]
                 on == q.body.on
                 kind == q.body.kind
             IN q # Idle /\ q.pc # "ended" /\ ~q.overtaken
                /\ req'[r].pc = "ended" /\ req'[r].answer = "done" =>
                  /\ kind = "toggle_policy" => policies'[on].active = ~policies[on].active
                  /\ kind = "update_keywords" =>
                       policies'[on].condition.rest = policies[on].condition.rest
                  /\ kind = "seed_fleet" => Marked' = {r}
                  /\ kind \in {"reset_fleet", "reset_demo"} => Marked' = {}
                  /\ kind = "set_value" => history'["own"].old = stored["own"]
                  /\ kind \in {"get_compliance", "agent_report"} =>
                       req'[r].report = Assess(agents[on], Asked(requirements, agents[on].risk))
                  /\ kind = "enterprise_report" =>
                       req'[r].report = <<Recommendations(Registered),
                                          Asked(requirements, "high")>>
           Kept == \A r \in Requests: Answers(r)
<1>1. ASSUME NEW r \in Requests,
             (/\ req[r] # Idle /\ req[r].pc # "ended" /\ req'[r].pc = "ended"
              /\ req'[r].answer = "done" /\ ~req[r].overtaken) => Promise(r)
      PROVE  Answers(r)
  BY <1>1 DEF Promise
<1>2. IInv /\ [Next]_vars => [Kept]_vars
  <2> SUFFICES ASSUME IInv, Next, NEW r \in Requests, req[r] # Idle, req[r].pc # "ended",
                      req'[r].pc = "ended", req'[r].answer = "done", ~req[r].overtaken
               PROVE  Promise(r)
    BY <1>1
  <2>1. ASSUME NEW w \in Requests, Acquire(w) \/ Step(w) \/ \E body \in Bodies: Start(w, body)
        PROVE  Promise(r)
    <3>1. w = r
      BY <2>1, OnlyActor
    <3>2. QED
      BY <2>1, <3>1, ActorPromise
  <2>2. CASE LoadDefaults(Loop) \/ Loading(Loop)
    <3>1. req' = req
      BY <2>2 DEF LoadDefaults, Loading, LoadOverrides, StoreLoaded, LoadFails, Unload
    <3>2. QED
      BY <3>1
  <2>3. CASE \E a \in Ids: Enqueue(a)
    BY <2>3 DEF Enqueue
  <2>4. QED
    BY <2>1, <2>2, <2>3 DEF Next
<1>3. AnswersHoldUnlessOvertaken <=> [][Kept]_vars
  BY DEF AnswersHoldUnlessOvertaken
<1> HIDE DEF Kept
<1>4. QED
  BY <1>2, <1>3, Invariance, PTL DEF Spec
-----------------------------------------------------------------------------
\* In a jam whoever holds a connection waits for another, and nobody loads the cache.
LEMMA JamIs ==
  ASSUME IInv, Jammed
  PROVE  /\ \A r \in Requests: req[r].pc \in Asking => NeedsSecond(r)
         /\ \A w \in Requests \union {Loop}: load[w].pc = "idle"
<1>1. ConnectionsHeld /\ Loop \notin Requests
  BY PanelAssumption DEF IInv, ProcessInv
<1>2. ASSUME NEW r \in Requests, req[r].pc \in Asking PROVE NeedsSecond(r)
  <2>1. <<r, "outer">> \in conns
    BY <1>1, <1>2 DEF ConnectionsHeld
  <2>2. QED
    BY <2>1 DEF Jammed
<1>3. ASSUME NEW r \in Requests PROVE load[r].pc = "idle"
  <2>1. CASE <<r, "inner">> \in conns
    BY <2>1 DEF Jammed, NeedsSecond, NoLoad
  <2>2. CASE <<r, "inner">> \notin conns
    BY <1>1, <2>2 DEF ConnectionsHeld
  <2>3. QED
    BY <2>1, <2>2
<1>4. load[Loop].pc = "idle"
  <2>1. <<Loop, "inner">> \notin conns
    BY DEF Jammed
  <2>2. QED
    BY <1>1, <2>1 DEF ConnectionsHeld
<1>5. QED
  BY <1>2, <1>3, <1>4

\* A request that waits for its second connection has no other step.
LEMMA WaitersWait ==
  ASSUME IInv, Jammed, NEW r \in Requests
  PROVE  ~Acquire(r) /\ ~Step(r)
<1>1. /\ req[r].pc \in Asking => NeedsSecond(r)
      /\ load[r].pc = "idle"
  BY JamIs
<1>2. ~Free
  BY DEF Jammed
<1>3. ~Acquire(r)
  BY <1>2 DEF Acquire, Authenticate, Open, Nest, LoadDefaults
<1>4. req[r].pc \notin {"open", "locked", "nested", "written"}
  BY <1>1 DEF Asking, NeedsSecond
<1>5. req[r].pc = "read" =>
        /\ NeedsSecond(r)
        /\ req[r].body.kind \in {"set_default", "reload", "create_requirement"} \union RequirementKinds
  BY <1>1 DEF Asking, NeedsSecond
<1>6. ~Refuse(r) /\ ~Look(r) /\ ~Abort(r)
  BY <1>4, <1>5 DEF Refuse, Look, Abort
<1>7. ~CreatePolicy(r) /\ ~WritePolicy(r) /\ ~RegisterAgent(r) /\ ~WriteAgent(r)
  BY <1>5 DEF CreatePolicy, WritePolicy, RegisterAgent, WriteAgent, At, PolicyKinds, AgentKinds,
              RequirementKinds
<1>8. ~WriteRequirement(r) /\ ~CommitNested(r) /\ ~Finish(r)
  BY <1>4, <1>5 DEF WriteRequirement, CommitNested, Finish, At
<1>9. ~Upsert(r) /\ ~CommitValue(r) /\ ~Loading(r)
  BY <1>1, <1>4, <1>5 DEF Upsert, CommitValue, Loading, LoadOverrides, StoreLoaded, LoadFails, At,
                          RequirementKinds
<1>10. ~Clear(r) /\ ~SeedFleet(r) /\ ~ResetFleet(r) /\ ~SeedDemo(r)
  BY <1>4, <1>5 DEF Clear, SeedFleet, ResetFleet, SeedDemo, At, FleetKinds, RequirementKinds
<1>11. ~GetCompliance(r) /\ ~AgentReport(r) /\ ~EnterpriseReport(r) /\ ~RunScenario(r)
  BY <1>5 DEF GetCompliance, AgentReport, EnterpriseReport, RunScenario, At, RequirementKinds
<1>12. QED
  BY <1>3, <1>6, <1>7, <1>8, <1>9, <1>10, <1>11 DEF Step

\* A jam takes as many requests, each waiting for its second connection, as the pool has
\* connections: with fewer requests than connections platform_db never waits for ever.
JamTakesAll ==
  Jammed => \E W \in SUBSET Requests: Cardinality(W) = PoolSize /\ \A r \in W: NeedsSecond(r)

\* A jam is of requests that hold the whole pool between them.
THEOREM JamsCorrect == Spec => []JamTakesAll
<1>1. ASSUME IInv, Jammed
      PROVE  \E W \in SUBSET Requests: Cardinality(W) = PoolSize /\ \A r \in W: NeedsSecond(r)
  <2> DEFINE W == {r \in Requests: <<r, "outer">> \in conns}
             f == [r \in W |-> <<r, "outer">>]
  <2>1. /\ conns \subseteq (Requests \union {Loop}) \X {"outer", "inner"}
        /\ IsFiniteSet(conns) /\ Cardinality(conns) <= PoolSize /\ ConnectionsHeld
    BY <1>1 DEF IInv, ProcessInv, ProcessTyped
  <2>2. ASSUME NEW c \in conns PROVE c[1] \in W /\ c = <<c[1], "outer">>
    <3>1. c[1] \in Requests /\ NeedsSecond(c[1])
      BY <1>1, <2>1 DEF Jammed
    <3>2. req[c[1]].pc = "read" /\ load[c[1]].pc = "idle"
      BY <1>1, <3>1, JamIs DEF NeedsSecond
    <3>3. <<c[1], "inner">> \notin conns
      BY <2>1, <3>1, <3>2 DEF ConnectionsHeld
    <3>4. c = <<c[1], "outer">> \/ c = <<c[1], "inner">>
      BY <2>1
    <3>5. c = <<c[1], "outer">>
      BY <3>3, <3>4
    <3>6. QED
      BY <3>1, <3>5
  <2>3. f \in Injection(W, conns) /\ f \in Surjection(W, conns)
    <3>1. f \in [W -> conns]
      OBVIOUS
    <3>2. \A a, b \in W: f[a] = f[b] => a = b
      OBVIOUS
    <3>3. \A c \in conns: \E r \in W: f[r] = c
      BY <2>2
    <3>4. QED
      BY <3>1, <3>2, <3>3 DEF Injection, IsInjective, Surjection
  <2>4. Cardinality(W) = Cardinality(conns)
    BY <2>1, <2>3, FS_Injection
  <2>5. Cardinality(conns) = PoolSize
    <3>1. Cardinality(conns) \in Nat
      BY <2>1, FS_CardinalityType
    <3>2. QED
      BY <1>1, <2>1, <3>1, PanelAssumption DEF Jammed, Free
  <2>6. \A r \in W: NeedsSecond(r)
    BY <1>1 DEF Jammed
  <2>7. W \in SUBSET Requests
    OBVIOUS
  <2> HIDE DEF W
  <2>8. QED
    BY <2>4, <2>5, <2>6, <2>7
<1>2. IInv => JamTakesAll
  BY <1>1 DEF JamTakesAll
<1>3. QED
  BY <1>2, Invariance, PTL

\* A jam never clears: not a request comes on in it, nothing gives a connection back, and
\* the loop never loads the parameters again (pool.acquire is given no time limit).
JamStays == [][Jammed => Jammed' /\ \A r \in Requests: req[r] # Idle => req'[r] = req[r]]_vars

\* Nothing ends the wait for a second connection once the pool has jammed.
THEOREM JamsForEver == Spec => JamStays
<1> DEFINE Stuck == Jammed' /\ \A r \in Requests: req[r] # Idle => req'[r] = req[r]
<1>1. ASSUME IInv, Jammed, Next
      PROVE  /\ conns' = conns /\ load' = load
             /\ \A r \in Requests: req[r] # Idle => req'[r] = req[r]
  <2>1. ASSUME NEW w \in Requests, NEW body \in Bodies, Start(w, body)
        PROVE  /\ conns' = conns /\ load' = load
               /\ \A r \in Requests: req[r] # Idle => req'[r] = req[r]
    BY <1>1, <2>1, GoesIs DEF Start, IInv, ProcessInv
  <2>2. ASSUME NEW a \in Ids, Enqueue(a)
        PROVE  conns' = conns /\ load' = load /\ req' = req
    BY <2>2 DEF Enqueue
  <2>3. ~LoadDefaults(Loop) /\ ~Loading(Loop)
    BY <1>1, JamIs DEF Jammed, LoadDefaults, Loading, LoadOverrides, StoreLoaded, LoadFails
  <2>4. \A r \in Requests: ~Acquire(r) /\ ~Step(r)
    BY <1>1, WaitersWait
  <2>5. QED
    BY <1>1, <2>1, <2>2, <2>3, <2>4 DEF Next
<1>2. ASSUME IInv, Jammed, Next PROVE Stuck
  <2>1. /\ conns' = conns /\ load' = load
        /\ \A r \in Requests: req[r] # Idle => req'[r] = req[r]
    BY <1>1, <1>2
  <2>2. \A c \in conns: c[1] \in Requests /\ req'[c[1]] = req[c[1]]
    <3>1. conns \subseteq (Requests \union {Loop}) \X {"outer", "inner"}
      BY <1>2 DEF IInv, ProcessInv, ProcessTyped
    <3>2. ASSUME NEW c \in conns PROVE c[1] \in Requests /\ req[c[1]] # Idle
      BY <1>2, <3>1 DEF Jammed, NeedsSecond, Idle
    <3>3. QED
      BY <2>1, <3>2
  <2>3. QED
    BY <1>2, <2>1, <2>2 DEF Jammed, NeedsSecond, Free
<1>3. IInv /\ [Next]_vars => [Jammed => Stuck]_vars
  BY <1>2
<1>4. QED
  BY <1>3, Invariance, PTL DEF Spec, JamStays
-----------------------------------------------------------------------------
\* What an agent of the demonstration fleet declares on human oversight is what the
\* assessment finds in its registry (_self_decl's promise, the two tabs telling one story).
THEOREM FleetStory == FleetTellsOneStory
<1> DEFINE key == "art14_human_oversight"
           Agrees(b) == b.claims[key] \in {"undeclared", AutoCheck(b, key)}
<1> SUFFICES ASSUME NEW a \in FleetRows PROVE Agrees(a)
  BY DEF FleetTellsOneStory
<1>1. ASSUME NEW risk \in Risks, NEW noOversight \in BOOLEAN, NEW noLegal \in BOOLEAN,
             risk = "high" \/ noOversight
      PROVE  Agrees(FleetAgent(risk, noOversight, noLegal))
  BY <1>1 DEF SelfDeclaration, FleetAgent, AutoCheck, Undeclared, Keys
<1>2. ASSUME NEW risk \in {"limited", "minimal"}
      PROVE  Agrees(FleetAgent(risk, FALSE, FALSE))
  BY <1>2 DEF SelfDeclaration, FleetAgent, Undeclared, Keys
<1> HIDE DEF Agrees
<1>3. CASE a = FleetAgent("unacceptable", TRUE, TRUE)
  BY <1>1, <1>3 DEF Risks
<1>4. CASE \E n, l \in BOOLEAN: a = FleetAgent("high", n, l)
  BY <1>1, <1>4 DEF Risks
<1>5. CASE \E risk \in {"limited", "minimal"}: a = FleetAgent(risk, FALSE, FALSE)
  BY <1>2, <1>5
<1>6. QED
  BY <1>3, <1>4, <1>5 DEF FleetRows

\* How bad an assessment is.
Rank(status) == CASE status = "compliant" -> 0 [] status = "gaps_found" -> 1 [] OTHER -> 2

\* An assessment that is asked for more never gets better: it is worse or the same as soon
\* as a requirement is added (assess_compliance).
THEOREM AskingMore ==
  ASSUME NEW agent, NEW more, NEW asked \in SUBSET more
  PROVE  Rank(Assess(agent, asked)) <= Rank(Assess(agent, more))
<1>1. Gaps(agent, asked) \subseteq Gaps(agent, more)
  BY DEF Gaps
<1>2. CASE Gaps(agent, asked) = {}
  BY <1>2 DEF Assess, Rank
<1>3. CASE \E q \in Gaps(agent, asked): q.severity = "critical"
  <2>1. Assess(agent, asked) = "critical" /\ Assess(agent, more) = "critical"
    BY <1>1, <1>3 DEF Assess
  <2>2. QED
    BY <2>1 DEF Rank
<1>4. CASE Gaps(agent, asked) # {} /\ ~\E q \in Gaps(agent, asked): q.severity = "critical"
  <2>1. Assess(agent, asked) = "gaps_found" /\ Assess(agent, more) \in {"critical", "gaps_found"}
    BY <1>1, <1>4 DEF Assess
  <2>2. QED
    BY <2>1 DEF Rank
<1>5. QED
  BY <1>2, <1>3, <1>4
=============================================================================
