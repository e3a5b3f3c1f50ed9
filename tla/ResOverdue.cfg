SPECIFICATION FairSpec
CONSTANTS
    Booking = {b1}
    Room = {r1}
    Client = {cl1}
    Company = {co1}
    NoBooking = NoBooking
    NoCompany = NoCompany
    Request = {rq1}
    MaxDay = 3
    MaxGuests = 1
    Handlers = {"individual", "status", "update", "job"}
    Serial = FALSE
PROPERTIES
    OverdueIsResolved
CHECK_DEADLOCK FALSE
