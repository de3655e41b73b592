SPECIFICATION Spec
CONSTANTS
  A = A
  B = B
  g = g
  h = h
  l = l
  n = n
  big = big
  small = small
  r1 = r1
  r2 = r2
  c1 = c1
  None = None
  Providers = {g, h, l, n}
  Tenants = {A, B}
  Users <- MCUsers
  Models = {big, small}
  Requests = {r1, r2}
  Calls = {c1}
  Rows0 <- MCRows0
  NewRows <- MCNewRows
  Patches <- MCPatches
  Contents <- MCContents
SYMMETRY RequestsAlike
CHECK_DEADLOCK FALSE
INVARIANTS TypeOK KeysStayHome ContentFitsProvider InvalidOnlyIfOvertaken LogKeepsItsProviders
PROPERTY OwnersOnly
