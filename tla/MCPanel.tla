------------------------------ MODULE MCPanel -------------------------------
(* Two requests on a pool of two connections; an agent a of the registry and  *)
(* an agent f of a fleet, each with a policy, a requirement w of the          *)
(* organisation and one of the platform, art, and one value of each parameter   *)
(* that can be set to two others.                                             *)
EXTENDS Panel, TLC

CONSTANTS r1, r2, a, f, p, art, w, low, high, none, some, strict, lax

MCPolicies0 == f :> [agent |-> f, active |-> TRUE, version |-> 1,
                     condition |-> [keywords |-> none, rest |-> strict]]
               @@ p :> [agent |-> None, active |-> TRUE, version |-> 1,
                        condition |-> [keywords |-> none, rest |-> strict]]
MCAgents0 == f :> FleetAgent("high", TRUE, FALSE)
             @@ a :> [status |-> "active", risk |-> "high", oversight |-> TRUE,
                      claims |-> [Undeclared EXCEPT !["art11_technical_docs"] = "yes"],
                      fleet |-> FALSE]
MCRequirements0 ==
  art :> [platform |-> TRUE, risk |-> "high", key |-> "art14_human_oversight",
        severity |-> "critical", active |-> TRUE]
  @@ w :> [platform |-> FALSE, risk |-> "high", key |-> "art11_technical_docs",
           severity |-> "major", active |-> TRUE]

MCFleet == {FleetAgent("high", FALSE, TRUE)}
MCClassified == {Fallback, [risk |-> "high", oversight |-> TRUE],
                 [risk |-> "unknown", oversight |-> FALSE]}
MCStored0 == [s \in Scopes |-> low]

Ask(kind, on, patch) == [kind |-> kind, on |-> on, super |-> FALSE, patch |-> patch]
BySuper(kind, on, patch) == [kind |-> kind, on |-> on, super |-> TRUE, patch |-> patch]

\* Every request of the panel at least once, those that can overtake each other on the
\* same row.
MCBodies ==
  {Ask("create_policy", None, "agent" :> f @@ "condition" :> [keywords |-> some, rest |-> lax]),
   Ask("update_policy", f, "condition" :> [keywords |-> some, rest |-> lax] @@ "active" :> FALSE),
   Ask("update_keywords", p, "keywords" :> some),
   Ask("toggle_policy", p, <<>>),
   Ask("deactivate_policy", p, <<>>),
   Ask("register_agent", None, <<>>),
   Ask("update_status", f, "status" :> "suspended"),
   Ask("update_registry", a, "claims" :> Undeclared @@ "fleet" :> TRUE),
   Ask("update_registry", f, "claims" :> Undeclared),
   BySuper("create_requirement", None, "platform" :> TRUE @@ "risk" :> "high"
              @@ "key" :> None @@ "severity" :> "minor"),
   Ask("update_requirement", w, "active" :> FALSE),
   BySuper("update_requirement", art, "severity" :> "minor"),
   Ask("update_requirement", art, "severity" :> "minor"),
   Ask("delete_requirement", w, <<>>),
   Ask("set_value", None, "value" :> high),
   BySuper("set_default", None, "value" :> high),
   BySuper("reload", None, <<>>),
   Ask("seed_fleet", None, <<>>),
   Ask("seed_demo", None, <<>>), Ask("reset_demo", None, <<>>),
   Ask("get_compliance", a, <<>>), Ask("agent_report", f, <<>>),
   Ask("enterprise_report", None, <<>>), Ask("run_scenario", None, <<>>)}
=============================================================================
