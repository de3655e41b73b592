SPECIFICATION FairSpec
CONSTANTS
  r1 = r1
  r2 = r2
  a = a
  f = f
  p = p
  art = art
  w = w
  low = low
  high = high
  none = none
  some = some
  strict = strict
  lax = lax
  None = None
  Requests = {r1, r2}
  Ids = {r1, r2, a, f, p, art, w}
  Values = {low, high}
  Allowed = {low, high}
  Words = {none, some}
  Rests = {strict, lax}
  PoolSize = 2
  Bodies <- MCBodies
  Policies0 <- MCPolicies0
  Agents0 <- MCAgents0
  Requirements0 <- MCRequirements0
  Stored0 <- MCStored0
  Classified <- MCClassified
  Fleet <- MCFleet
  Queued = {f}
CHECK_DEADLOCK FALSE
INVARIANTS TypeOK PoliciesNameAgents
PROPERTIES AnswersHoldUnlessOvertaken SettingsConverge RequestsEndUnlessJammed
