\* Two organisations, so that rules could be mixed up; two calls, so that first loads
\* overlap; one change, so that an old answer can arrive after a newer one.
CONSTANTS
  Tenants = {t1, t2}
  Calls = {c1, c2}
  NoCall = nobody
  NoRules = none
  MaxVersion = 1
SPECIFICATION FairSpec
INVARIANTS TypeOK JudgedByOwnRules RulesNeverRegress OneWriter
PROPERTIES ChangesComeIntoForce WaitersMoveOn
