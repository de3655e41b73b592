\* Three sessions of one account and a cache for one, so that it overflows; one API
\* key; two requests, so that fetches of one session overlap.
CONSTANTS
  Users = {u1}
  Kinds <- MCKinds
  Accounts <- MCAccounts
  ApiKeys = {k1}
  Requests = {q1, q2}
  TTL = 2
  CacheMax = 1
  MaxTime = 2
SPECIFICATION Spec
INVARIANTS TypeOK VerdictsExpire RevocationIsImmediate CacheBounded
SYMMETRY RequestsAlike
