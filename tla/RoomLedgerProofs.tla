--------------------------- MODULE RoomLedgerProofs ---------------------------
(***************************************************************************)
(* The room ledger keeps its promise for any number of bookings, rooms and *)
(* days.  With ImplementsLedger this is what the booking desk inherits.    *)
(***************************************************************************)
EXTENDS RoomLedger, TLAPS

\* Every entry of the ledger is a stay with dates, or none.
LedgerTypeOK == ledger \in [Booking -> Held \cup {Never, Past}]

LEMMA OverlapsIsSymmetric ==
    ASSUME NEW in1 \in Int, NEW out1 \in Int, NEW in2 \in Int, NEW out2 \in Int
    PROVE  Overlaps(in1, out1, in2, out2) <=> Overlaps(in2, out2, in1, out1)
  BY DEF Overlaps

LEMMA HoldIsHeld ==
    ASSUME NEW room \in Room, NEW in \in 0 .. MaxDay, NEW out \in 0 .. MaxDay
    PROVE  /\ Hold(room, in, out) \in Held
           /\ Hold(room, in, out).held = "now"
           /\ Hold(room, in, out).room = room
           /\ Hold(room, in, out).checkIn = in
           /\ Hold(room, in, out).checkOut = out
  BY DEF Hold, Held

LEMMA EntriesHaveDates ==
    ASSUME LedgerTypeOK, NEW b \in Booking, IsHeld(b)
    PROVE  ledger[b] \in Held
  <1>1. ledger[b] \in Held \cup {Never, Past}
    BY DEF LedgerTypeOK
  <1>2. ledger[b] # Never /\ ledger[b] # Past
    BY DEF IsHeld, Never, Past
  <1> QED  BY <1>1, <1>2

\* Giving b a stay that fits beside the others keeps the ledger exclusive.
LEMMA FittingStayIsExclusive ==
    ASSUME LedgerTypeOK, Exclusive,
           NEW b \in Booking, NEW room \in Room,
           NEW in \in 0 .. MaxDay, NEW out \in 0 .. MaxDay,
           Fits(room, in, out, b),
           ledger' = [ledger EXCEPT ![b] = Hold(room, in, out)]
    PROVE  LedgerTypeOK' /\ Exclusive'
  <1>1. LedgerTypeOK'
    BY HoldIsHeld DEF LedgerTypeOK
  <1>2. ASSUME NEW c \in Booking, NEW d \in Booking, c # d,
               IsHeld(c)', IsHeld(d)', ledger'[c].room = ledger'[d].room
        PROVE  ~Overlaps(ledger'[c].checkIn, ledger'[c].checkOut,
                         ledger'[d].checkIn, ledger'[d].checkOut)
    <2>1. ledger'[b] = Hold(room, in, out)
      BY DEF LedgerTypeOK
    <2>2. \A e \in Booking \ {b} : ledger'[e] = ledger[e]
      BY DEF LedgerTypeOK
    <2>3. CASE c # b /\ d # b
      BY <1>2, <2>2, <2>3 DEF Exclusive, IsHeld
    <2>4. CASE c = b
      <3>1. IsHeld(d) /\ ledger[d].room = room /\ ledger'[d] = ledger[d]
        BY <1>2, <2>1, <2>2, <2>4, HoldIsHeld DEF IsHeld
      <3>2. ledger[d].checkIn \in Int /\ ledger[d].checkOut \in Int
        BY <3>1, EntriesHaveDates DEF Held
      <3>3. ~Overlaps(ledger[d].checkIn, ledger[d].checkOut, in, out)
        BY <1>2, <2>4, <3>1 DEF Fits
      <3>4. ~Overlaps(in, out, ledger[d].checkIn, ledger[d].checkOut)
        BY <3>2, <3>3, OverlapsIsSymmetric
      <3> QED  BY <2>1, <2>4, <3>1, <3>4, HoldIsHeld
    <2>5. CASE d = b
      <3>1. IsHeld(c) /\ ledger[c].room = room /\ ledger'[c] = ledger[c]
        BY <1>2, <2>1, <2>2, <2>5, HoldIsHeld DEF IsHeld
      <3>2. ~Overlaps(ledger[c].checkIn, ledger[c].checkOut, in, out)
        BY <1>2, <2>5, <3>1 DEF Fits
      <3> QED  BY <2>1, <2>5, <3>1, <3>2, HoldIsHeld
    <2> QED  BY <2>3, <2>4, <2>5
  <1>3. Exclusive'
    BY <1>2 DEF Exclusive, IsHeld
  <1> QED  BY <1>1, <1>3

LEMMA LedgerInit == Init => LedgerTypeOK /\ Exclusive
  <1> SUFFICES ASSUME Init PROVE LedgerTypeOK /\ Exclusive
    OBVIOUS
  <1>1. LedgerTypeOK
    BY DEF Init, LedgerTypeOK
  <1>2. \A b \in Booking : ~IsHeld(b)
    BY DEF Init, IsHeld, Never
  <1> QED  BY <1>1, <1>2 DEF Exclusive

LEMMA LedgerStep ==
    LedgerTypeOK /\ Exclusive /\ [Next]_ledger => LedgerTypeOK' /\ Exclusive'
  <1> SUFFICES ASSUME LedgerTypeOK, Exclusive, [Next]_ledger
               PROVE  LedgerTypeOK' /\ Exclusive'
    OBVIOUS
  <1>1. ASSUME NEW b \in Booking, Reserve(b) PROVE LedgerTypeOK' /\ Exclusive'
    BY <1>1, FittingStayIsExclusive DEF Reserve
  <1>2. ASSUME NEW b \in Booking, Amend(b) PROVE LedgerTypeOK' /\ Exclusive'
    <2>1. ledger[b].room \in Room
      BY <1>2, EntriesHaveDates DEF Amend, Held
    <2> QED  BY <1>2, <2>1, FittingStayIsExclusive DEF Amend
  <1>3. ASSUME NEW b \in Booking, Release(b) PROVE LedgerTypeOK' /\ Exclusive'
    <2>1. LedgerTypeOK'
      BY <1>3 DEF Release, LedgerTypeOK
    <2>2. \A c \in Booking : IsHeld(c)' => IsHeld(c) /\ ledger'[c] = ledger[c]
      BY <1>3 DEF Release, LedgerTypeOK, IsHeld, Past
    <2> QED  BY <2>1, <2>2 DEF Exclusive, IsHeld
  <1>4. CASE UNCHANGED ledger
    BY <1>4 DEF LedgerTypeOK, Exclusive, IsHeld
  <1> QED  BY <1>1, <1>2, <1>3, <1>4 DEF Next

\* No room is ever held twice for the same night: what Reserve and Amend
\* admit leaves nothing to overlap, however the holds come and go.
THEOREM LedgerIsExclusive == Spec => []Exclusive
  <1>1. Spec => [](LedgerTypeOK /\ Exclusive)
    BY LedgerInit, LedgerStep, PTL DEF Spec
  <1> QED  BY <1>1, PTL
===============================================================================
