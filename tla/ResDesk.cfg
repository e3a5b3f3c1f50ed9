SPECIFICATION Spec
CONSTANTS
    Booking = {b1, b2}
    Room = {r1, r2}
    Client = {cl1}
    Company = {co1}
    NoBooking = NoBooking
    NoCompany = NoCompany
    Request = {rq1}
    MaxDay = 2
    MaxGuests = 1
    Handlers = {"individual", "guest", "update", "status", "cancel", "delete", "clear"}
    Serial = TRUE
SYMMETRY Symmetry
INVARIANTS
    RoomChargeMatchesStay
    ConfirmedIsInvoiced
PROPERTIES
    ImplementsLedger
    LegalTransitions
CHECK_DEADLOCK FALSE
