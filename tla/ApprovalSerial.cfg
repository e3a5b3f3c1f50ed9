\* One approver at a time, crashes, and edits of templates and staff at any moment.
SPECIFICATION Spec
CONSTANTS
  Workflow = {wA, wB}
  Seeded = wA
  LastStep = 3
  SeedSteps = 3
  LastLink = 3
  Role = {manager}
  NoRole = NoRole
  Admin = {a1}
  MaxEdits = 2
  User = {u1}
  Booking = {b1}
  NoBooking = NoBooking
  Instance = {i1}
  NoInstance = NoInstance
  MaxTask = 2
  Request = {p1}
  Crashes = TRUE
INVARIANTS TypeOK OneTask TrailLeadsHere
PROPERTY ClosedStaysClosed
CHECK_DEADLOCK FALSE
