SPECIFICATION Spec
CONSTANTS
  u1 = u1
  u2 = u2
  u3 = u3
  old = old
  e1 = e1
  e2 = e2
  e3 = e3
  v1 = v1
  s1 = s1
  s2 = s2
  Null = Null
  Uids = {u1, u2, u3}
  Old = {old}
  Emails = {e1, e2, e3}
  Servers = {v1}
  Slots = {s1, s2}
  TTL = 2
  Lookup = 1
  MaxTime = 3
  MaxChanges = 2
  Offers <- Given
  FirstRows <- Listed
  FirstLogins <- Logins
INVARIANTS
  RowHasLogin
PROPERTIES
  RevokedSoonOut
SYMMETRY Symmetry
CHECK_DEADLOCK FALSE
