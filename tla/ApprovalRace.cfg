\* Two approvers at a time on one approval of four steps.
SPECIFICATION FairSpec
CONSTANTS
  Workflow = {wA}
  Seeded = wA
  LastStep = 3
  SeedSteps = 4
  LastLink = 3
  Role = {manager}
  NoRole = NoRole
  Admin = {}
  MaxEdits = 0
  User = {u1}
  Booking = {b1}
  NoBooking = NoBooking
  Instance = {i1}
  NoInstance = NoInstance
  MaxTask = 4
  Request = {p1, p2}
  Crashes = FALSE
INVARIANT NoStepSkipped
PROPERTY VerdictReachesBooking
CHECK_DEADLOCK FALSE
