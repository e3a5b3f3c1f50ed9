SPECIFICATION Spec
CONSTANTS
    Booking = {b1, g1}
    CompanyGuest = {g1}
    Company = co1
    NoBooking = NoBooking
    Order = {o1}
    NoOrder = NoOrder
    Item = {i1, i2}
    NoItem = NoItem
    Request = {rq1, rq2}
    MaxNights = 1
    Handlers = {"order", "walk_in", "add", "remove", "close"}
SYMMETRY Symmetry
INVARIANTS
    TypeOK
    OrderedIsBilled
    BilledToTheGuest
CHECK_DEADLOCK FALSE
