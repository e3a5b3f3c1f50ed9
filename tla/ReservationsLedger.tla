-------------------------- MODULE ReservationsLedger --------------------------
(***************************************************************************)
(* The booking desk implements the room ledger.  A booking holds its room  *)
(* while its status is active; deleted, cancelled and checked-out bookings *)
(* have let it go.                                                         *)
(***************************************************************************)
EXTENDS Reservations

LedgerNever == [held |-> "never"]
LedgerPast  == [held |-> "past"]

LedgerEntry(b) ==
    IF bookings[b].status = "unused" THEN LedgerNever
    ELSE IF Active(b)
         THEN [held |-> "now", room |-> bookings[b].room,
               checkIn |-> bookings[b].checkIn,
               checkOut |-> bookings[b].checkOut]
         ELSE LedgerPast

entries == [b \in Booking |-> LedgerEntry(b)]

Ledger == INSTANCE RoomLedger WITH ledger <- entries

\* With handlers that run one at a time, every step of the booking desk is a
\* step of the ledger or leaves it alone: rooms are given out only where
\* they fit, and a booking that let its room go never takes it back.
ImplementsLedger == Ledger!Spec
===============================================================================
