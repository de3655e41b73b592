CONSTANTS
  Agents = {a1}
  Prompts = {p1}
  Calls = {c1}
  RuleTypes = {"deny", "require_oversight"}
  NoAgent = none
  NoRules = unloaded
SPECIFICATION Spec
INVARIANT OversightRulesApply
