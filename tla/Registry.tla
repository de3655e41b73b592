------------------------------ MODULE Registry ------------------------------
(***************************************************************************)
(* The rows the panel keeps - policies, agents, requirements of the EU AI  *)
(* Act, parameters - and what is computed from them alone: the row a PATCH *)
(* leaves, the assessment of an agent, the recommendations of the report   *)
(* of the organisation and the agents of the demonstration fleet.          *)
(***************************************************************************)
EXTENDS Naturals

CONSTANTS Ids,      \* identifiers of rows
          Values,   \* values of a parameter
          Words,    \* lists of keywords
          Rests,    \* what else the condition of a policy says
          None

Risks == {"minimal", "limited", "high", "unacceptable"}
Severities == {"critical", "major", "minor"}
Statuses == {"active", "suspended", "quarantined", "retired"}

\* The articles an agent can be asked about: one its registry decides, one that always
\* holds, and two that it declares itself.
Keys == {"art14_human_oversight", "art26_6_log_retention", "art11_technical_docs",
         "art9_risk_management"}
Claims == {"yes", "partial", "no", "na", "undeclared"}

Condition == [keywords: Words, rest: Rests]
Policy == [agent: Ids \union {None}, condition: Condition, active: BOOLEAN, version: Nat]
Agent == [status: Statuses, risk: Risks, oversight: BOOLEAN, claims: [Keys -> Claims],
          fleet: BOOLEAN]
Requirement == [platform: BOOLEAN, risk: Risks, key: Keys \union {None},
                severity: Severities, active: BOOLEAN]

ASSUME NoneAssumption ==
  None \notin Ids \union Values \union Policy \union Agent \union Requirement

\* What the body of a request may give, and of which kind.
Columns ==
  [agent |-> Ids \union {None}, condition |-> Condition, keywords |-> Words,
   status |-> Statuses, claims |-> [Keys -> Claims], fleet |-> BOOLEAN,
   platform |-> BOOLEAN, risk |-> Risks, key |-> Keys \union {None},
   severity |-> Severities, active |-> BOOLEAN, value |-> Values]
-----------------------------------------------------------------------------
Given(patch, column, old) == IF column \in DOMAIN patch THEN patch[column] ELSE old

\* insert_policy: active, in its first version.
NewPolicy(patch) ==
  [agent |-> patch.agent, condition |-> patch.condition, active |-> TRUE, version |-> 1]

\* A policy is written, in its next version.
Revised(row, condition, active) ==
  [agent |-> row.agent, condition |-> condition, active |-> active, version |-> row.version + 1]

\* update_policy: the columns given; the condition is replaced as a whole.
UpdatedPolicy(row, patch) ==
  Revised(row, Given(patch, "condition", row.condition), Given(patch, "active", row.active))

\* Mutant: the condition is written anew.
KeywordsAlone(row, read, words) ==
  Revised(row, [keywords |-> words, rest |-> CHOOSE r \in Rests: r # row.condition.rest],
          row.active)

\* update_keywords writes the condition that was read, with other keywords.
KeywordedPolicy(row, read, words) ==
  Revised(row, [read.condition EXCEPT !.keywords = words], row.active)

\* toggle_policy writes the negation of what was read.
ToggledPolicy(row, read) == Revised(row, row.condition, ~read.active)

\* deactivate_policy leaves the version alone.
DeactivatedPolicy(row) == [row EXCEPT !.active = FALSE]

Undeclared == [k \in Keys |-> "undeclared"]

\* insert_agent: an active agent as the model classified it.
NewAgent(found) ==
  [status |-> "active", risk |-> found.risk, oversight |-> found.oversight,
   claims |-> Undeclared, fleet |-> FALSE]

\* classify_risk: the answer as the model gave it, its risk unchecked; whatever fails is
\* "minimal".
Classifications ==
  [risk: Risks \union {"unknown"}, oversight: BOOLEAN]
Fallback == [risk |-> "minimal", oversight |-> FALSE]

\* update_registry: compliance_decl is replaced as a whole, and the marker of the fleet, which
\* is in it, stays only if it is given again.
RegisteredAgent(row, patch) ==
  [row EXCEPT !.claims = Given(patch, "claims", @),
              !.fleet = IF "claims" \in DOMAIN patch THEN Given(patch, "fleet", FALSE) ELSE @]

\* insert_requirement.
NewRequirement(patch) ==
  [platform |-> patch.platform, risk |-> patch.risk, key |-> patch.key,
   severity |-> patch.severity, active |-> TRUE]

\* update_requirement: the columns given.
UpdatedRequirement(row, patch) ==
  [row EXCEPT !.key = Given(patch, "key", @), !.severity = Given(patch, "severity", @),
              !.active = Given(patch, "active", @)]

-----------------------------------------------------------------------------
\* _AUTO_CHECKS: what the registry says whatever the agent declares.
AutoCheck(agent, key) ==
  CASE key = "art14_human_oversight" -> IF agent.oversight THEN "yes" ELSE "no"
    [] key = "art26_6_log_retention" -> "yes"
    [] OTHER -> None

\* The status of a requirement: the check, else what is declared, else undeclared.
StatusOf(agent, requirement) ==
  LET check == AutoCheck(agent, requirement.key)
  IN CASE check # None -> check
       [] check = None /\ requirement.key # None -> agent.claims[requirement.key]
       [] OTHER -> "undeclared"

Gaps(agent, asked) ==
  {q \in asked: StatusOf(agent, q) \in {"no", "partial", "undeclared"}}

\* assess_compliance.
Assess(agent, asked) ==
  CASE Gaps(agent, asked) = {} -> "compliant"
    [] \E q \in Gaps(agent, asked): q.severity = "critical" -> "critical"
    [] OTHER -> "gaps_found"

\* list_requirements: the active ones of a level of risk, of the platform and own.
Asked(table, risk) ==
  {table[q]: q \in {i \in DOMAIN table:
                      table[i] # None /\ table[i].risk = risk /\ table[i].active}}

\* _build_recommendations, as far as the agents decide.
Recommendations(agents) ==
  LET risky == {a \in agents: a.risk \in {"high", "unacceptable"}}
      found == {x \in {"suspendUnacceptable", "missingTechnicalDocs", "implementOversight"}:
        \/ x = "suspendUnacceptable" /\ \E a \in agents: a.risk = "unacceptable"
        \/ x = "missingTechnicalDocs" /\ \E a \in risky: a.claims["art11_technical_docs"] # "yes"
        \/ x = "implementOversight"
             /\ \E a \in risky: a.claims["art14_human_oversight"] \notin {"yes", "partial"}}
  IN IF found = {} THEN {"keepMonitoring"} ELSE found
-----------------------------------------------------------------------------
\* _self_decl: what an agent of the fleet declares, by its risk and its gaps.
SelfDeclaration(risk, noOversight, noLegal) ==
  IF risk \in {"high", "unacceptable"}
  THEN [Undeclared EXCEPT !["art9_risk_management"] = IF noLegal THEN "partial" ELSE "yes",
                          !["art11_technical_docs"] = "partial",
                          !["art14_human_oversight"] = IF noOversight THEN "no" ELSE "yes"]
  ELSE Undeclared

\* _gen_fleet_agents: forbidden agents and those of low risk have no oversight, those of
\* high risk lack it, the legal basis, both or neither.
FleetAgent(risk, noOversight, noLegal) ==
  [status |-> "active", risk |-> risk,
   oversight |-> risk = "high" /\ ~noOversight,
   claims |-> SelfDeclaration(risk, noOversight, noLegal), fleet |-> TRUE]
FleetRows ==
  {FleetAgent("unacceptable", TRUE, TRUE)}
    \union {FleetAgent("high", gaps[1], gaps[2]): gaps \in BOOLEAN \X BOOLEAN}
    \union {FleetAgent(risk, FALSE, FALSE): risk \in {"limited", "minimal"}}

\* What an agent of the fleet declares on oversight is what the assessment finds: the
\* two tabs tell one story (_self_decl's promise).
FleetTellsOneStory ==
  \A a \in FleetRows:
    a.claims["art14_human_oversight"] \in {"undeclared", AutoCheck(a, "art14_human_oversight")}
=============================================================================
