SPECIFICATION Spec
CONSTANTS
    Booking = {b1}
    CompanyGuest = {}
    Company = co1
    NoBooking = NoBooking
    Order = {o1}
    NoOrder = NoOrder
    Item = {i1, i2}
    NoItem = NoItem
    Request = {rq1, rq2}
    MaxNights = 2
    Handlers = {"order", "add", "remove", "room", "status"}
SYMMETRY Symmetry
INVARIANTS
    TotalsSettle
    IssuedBeforePaid
CHECK_DEADLOCK FALSE
