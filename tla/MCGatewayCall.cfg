\* Two calls of one agent with one content: registered, suspended, put under oversight,
\* denied and permitted again between any two awaits of either call.
CONSTANTS
  Agents = {a1}
  Prompts = {p1}
  Calls = {c1, c2}
  RuleTypes = {"deny"}
  NoAgent = none
  NoRules = unloaded
SPECIFICATION Spec
INVARIANTS TypeOK ForwardingWasPermitted DenialWins AuditTellsTruth
PROPERTY KeepsLedger
SYMMETRY CallsAlike
