----------------------------- MODULE BookingRules -----------------------------
(***************************************************************************)
(* The rules about one booking and one stay that every part of the lodge   *)
(* system shares: the booking statuses and the transitions between them    *)
(* (internal/models/booking.go), and the arithmetic of stays that the SQL  *)
(* of the booking repository and the invoice service compute.              *)
(***************************************************************************)
EXTENDS Integers

Status == {"pending", "confirmed", "checked_in", "checked_out", "cancelled"}

\* The statuses that occupy the room: IsRoomAvailable and
\* HasActiveBookingForClient select exactly these rows.
ActiveStatus == {"pending", "confirmed", "checked_in"}

\* The map of models/booking.go, as the set of its <<from, to>> pairs.
ValidBookingTransitions ==
    { <<"pending", "confirmed">>,    <<"pending", "cancelled">>,
      <<"confirmed", "checked_in">>, <<"confirmed", "cancelled">>,
      <<"checked_in", "checked_out">> }

CanTransition(from, to) == <<from, to>> \in ValidBookingTransitions

(***************************************************************************)
(* A stay is the half-open interval [checkIn, checkOut) of whole days: a   *)
(* guest may check in on the day the previous one leaves.                  *)
(***************************************************************************)
Overlaps(in1, out1, in2, out2) == in1 < out2 /\ out1 > in2

\* int(math.Ceil(hours / 24)) over whole days, at least one night.
Nights(checkIn, checkOut) ==
    IF checkOut - checkIn < 1 THEN 1 ELSE checkOut - checkIn
===============================================================================
