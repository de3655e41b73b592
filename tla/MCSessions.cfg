CONSTANTS
  A = A
  B = B
  C = C
  E = E
  s = s
  p = p
  d = d
  c = c
  e = e
  x = x
  y = y
  None = None
  Users <- MCUsers
  Tenants <- MCTenants
  Home <- MCHome
  Email <- MCEmail
  Slug <- MCSlug
  Accounts0 <- MCAccounts0
  Founded = {A, B}
  Entered = {B}
  Bodies <- MCBodies
  Passwords = {x, y}
  Logins = {l1}
  Requests = {r1, r2}
SPECIFICATION Spec
INVARIANTS TypeOK NothingServedWithoutRights StaleSessionsWereOvertaken SlugsDistinct PlatformActsOnRecord
PROPERTIES PasswordsChangeOnRequest DeletedIsFinal
SYMMETRY RequestsAlike
CHECK_DEADLOCK FALSE
