SPECIFICATION Spec
CONSTANTS
    e1 = e1
    e2 = e2
    Guest = {g1, g2}
    NoGuest = NoGuest
    Profile = {c1, c2, c3}
    NoProfile = NoProfile
    Org = {o1, o2}
    NoOrg = NoOrg
    Email = {e1, e2}
    Address = {{e1, e2}}
    IdNumber = {n1}
    Blank = Blank
    NoId = NoId
    Request = {rq1, rq2}
    MaxServed = 5
SYMMETRY Symmetry
INVARIANTS
    TypeOK
    SeenOnlyWhereStayed
    RegisteredIsWhole
PROPERTIES
    EditsStayHome
    ResetHolds
CHECK_DEADLOCK FALSE
