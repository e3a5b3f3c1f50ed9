SPECIFICATION Spec
CONSTANTS
    Booking = {b1, b2}
    Room = {r1}
    Client = {cl1}
    Company = {co1}
    NoBooking = NoBooking
    NoCompany = NoCompany
    Request = {rq1, rq2}
    MaxDay = 1
    MaxGuests = 1
    Handlers = {"individual"}
    Serial = FALSE
SYMMETRY Symmetry
INVARIANTS
    NoDoubleBooking
CHECK_DEADLOCK FALSE
