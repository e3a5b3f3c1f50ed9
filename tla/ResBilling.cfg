\* Two requests in any interleaving, two bookings of one room, one company.
CONSTANTS
    Booking = {b1, b2}
    NoBooking = NoBooking
    Room = {r1}
    Client = {cl1}
    Company = {co1}
    NoCompany = NoCompany
    Request = {rq1, rq2}
    MaxDay = 1
    MaxGuests = 2
    Serial = FALSE
    Handlers = {"individual", "corporate", "status", "delete", "guest", "approval", "cancel", "crash"}

SYMMETRY Symmetry
SPECIFICATION Spec
CHECK_DEADLOCK FALSE

INVARIANTS
    TypeOK
    StagesInOrder
    BilledAtMostOnce
