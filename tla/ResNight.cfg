SPECIFICATION Spec
CONSTANTS
    Booking = {b1, b2}
    Room = {r1}
    Client = {cl1}
    Company = {co1}
    NoBooking = NoBooking
    NoCompany = NoCompany
    Request = {rq1}
    MaxDay = 3
    MaxGuests = 2
    Handlers = {"individual", "corporate", "status", "cancel", "delete", "clear", "job"}
    Serial = TRUE
SYMMETRY Symmetry
INVARIANTS
    OverlapsExplained
    DueAtCheckOut
PROPERTIES
    JobOnlyExtends
CHECK_DEADLOCK FALSE
