\* Two requests at a time on the accounts of an owner and one more.
SPECIFICATION Spec
CONSTANTS
  User = {u1, u2}
  Owner = u1
  NoUser = NoUser
  Email = {e1, e2}
  Chosen = {a, b}
  Weak = {b}
  Temporary = t
  Keep = 2
  Limit = {0, 2}
  GlobalLimit = 2
  Lockout = 1
  LastTime = 1
  Request = {p1, p2}
  MaxServed = 3
  MaxGiven = 2
SYMMETRY Identities
INVARIANTS TypeOK NeverTorn LockoutEngages RecentNotReused PolicyInForce
PROPERTY LockHolds
CHECK_DEADLOCK FALSE
