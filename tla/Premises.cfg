\* Two organisations, edited by two requests at a time.
CONSTANTS
    Org = {o1, o2}
    NoOrg = NoOrg
    Branch = {b1, b2}
    NoBranch = NoBranch
    Code = {main, east}
    Main = main
    Detail = {d1}
    Request = {p1, p2}
    Item = {i1, i2}
    Name = {n1}
    Room = {r1}
    Picture = {x1}
    MaxDay = 2
    MaxServed = 5

SYMMETRY Interchangeable
SPECIFICATION Spec
CHECK_DEADLOCK FALSE

INVARIANTS
    TypeOK
    SettingsKept
    MenuIsItsOwn
    ListsAgree
    PicturesStay

PROPERTIES
    MenuKeepsItsBranch
    DefaultsUntouched
