---------------------------- MODULE MCReservations ----------------------------
(***************************************************************************)
(* Instances of the booking desk for TLC.  Every run takes its constants   *)
(* from its .cfg; bookings, clients, companies and requests are            *)
(* interchangeable, days and rooms' dates are not.                         *)
(***************************************************************************)
EXTENDS ReservationsLedger, TLC

Symmetry ==
    Permutations(Booking) \cup Permutations(Client) \cup
    Permutations(Company) \cup Permutations(Request) \cup Permutations(Room)
===============================================================================
