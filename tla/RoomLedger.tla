------------------------------ MODULE RoomLedger ------------------------------
(***************************************************************************)
(* What the booking desk promises, with everything else left out: a ledger *)
(* in which a booking holds one room for one stay, in which no room is     *)
(* held twice for the same night, and from which a booking that was let go *)
(* never comes back.                                                       *)
(***************************************************************************)
EXTENDS BookingRules

CONSTANTS Booking, Room, MaxDay

VARIABLE ledger

Never == [held |-> "never"]
Past  == [held |-> "past"]

Held == [held : {"now"}, room : Room, checkIn : 0 .. MaxDay,
         checkOut : 0 .. MaxDay]

Hold(room, in, out) ==
    [held |-> "now", room |-> room, checkIn |-> in, checkOut |-> out]

IsHeld(b) == ledger[b].held = "now"

\* The stay fits beside every other booking that holds the room.
Fits(room, in, out, b) ==
    /\ in < out
    /\ \A c \in Booking \ {b} :
          IsHeld(c) /\ ledger[c].room = room
              => ~Overlaps(ledger[c].checkIn, ledger[c].checkOut, in, out)

Reserve(b) ==
    /\ ledger[b] = Never
    /\ \E room \in Room, in \in 0 .. MaxDay, out \in 0 .. MaxDay :
         /\ Fits(room, in, out, b)
         /\ ledger' = [ledger EXCEPT ![b] = Hold(room, in, out)]

\* The dates of a stay change, its room does not.
Amend(b) ==
    /\ IsHeld(b)
    /\ \E in \in 0 .. MaxDay, out \in 0 .. MaxDay :
         /\ Fits(ledger[b].room, in, out, b)
         /\ ledger' = [ledger EXCEPT ![b] = Hold(ledger[b].room, in, out)]

Release(b) ==
    /\ IsHeld(b)
    /\ ledger' = [ledger EXCEPT ![b] = Past]

Init == ledger = [b \in Booking |-> Never]

Next == \E b \in Booking : Reserve(b) \/ Amend(b) \/ Release(b)

Spec == Init /\ [][Next]_ledger

\* No room is held twice for the same night.
Exclusive ==
    \A b, c \in Booking :
        b # c /\ IsHeld(b) /\ IsHeld(c) /\ ledger[b].room = ledger[c].room
            => ~Overlaps(ledger[b].checkIn, ledger[b].checkOut,
                         ledger[c].checkIn, ledger[c].checkOut)
===============================================================================
