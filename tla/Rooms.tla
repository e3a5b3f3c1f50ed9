--------------------------------- MODULE Rooms ---------------------------------
(***************************************************************************)
(* The rooms of an organisation: their rows, their pictures, the flag that *)
(* takes them off the market, and the lists of rooms and dates that staff  *)
(* and guests are shown before they book.                                  *)
(*                                                                         *)
(* Type, capacity, price and description are left out.  Bookings are here  *)
(* as what the lists read of them; how they come about, statement by       *)
(* statement, is the module Reservations.                                  *)
(***************************************************************************)
EXTENDS Organisations, BookingRules

CONSTANTS Room, Picture, MaxDay

VARIABLES
    rooms,  \* the rooms table
    stays,  \* the bookings of every room
    hung    \* the pictures that were uploaded last (history)

roomTables == <<rooms, stays, hung>>

ASSUME RoomsAssumption == MaxDay \in Nat

Day == 0 .. MaxDay
Period == {d \in Day \X Day : d[1] < d[2]}

RoomRow == [org : Org, branch : Branch \cup {NoBranch}, name : Name,
            open : BOOLEAN, images : SUBSET Picture]
Stay == [from : Day, to : Day, status : Status]

-------------------------------------------------------------------------------
(***************************************************************************)
(* Queries.                                                                *)
(***************************************************************************)
RoomsOf(o) == {r \in Room : InTable(rooms[r]) /\ rooms[r].org = o}

\* A name is unique in its organisation.
RoomFits(r, row) ==
    row.org \in Organisation /\ \A q \in RoomsOf(row.org) \ {r} : rooms[q].name # row.name

\* What a booking asks before it is inserted, whatever the flag says.
IsRoomAvailable(r, in, out) ==
    \A s \in stays[r] : s.status \in ActiveStatus => ~Overlaps(s.from, s.to, in, out)

\* Mistake: a guest who leaves on the day of arrival is in the way.
ListAvailableInclusive(o, br, in, out) ==
    {r \in RoomsOf(o) :
        /\ rooms[r].open /\ br \in {NoBranch, rooms[r].branch}
        /\ ~\E s \in stays[r] : s.status \in ActiveStatus /\ s.from < out /\ s.to >= in}

\* The rooms that a search by dates finds, in a branch or in all of them.
ListAvailable(o, br, in, out) ==
    {r \in RoomsOf(o) :
        /\ rooms[r].open /\ br \in {NoBranch, rooms[r].branch}
        /\ ~\E s \in stays[r] : s.status \in ActiveStatus /\ s.from < out /\ s.to > in}

\* The periods that are shown as taken beside a room.
GetBookedDates(r) ==
    {<<s.from, s.to>> : s \in {t \in stays[r] : t.status \in {"pending", "confirmed", "checked_in"}}}

-------------------------------------------------------------------------------
(***************************************************************************)
(* Edits.  Each looks the room up before it writes; an edit writes the     *)
(* whole row but the pictures, with the flag as the request has it.        *)
(***************************************************************************)
CreateRoom(p) == MayStart(p) /\ \E o \in Working, r \in Room, name \in Name :
    \E br \in BranchGiven, images \in SUBSET Picture :
        LET row == [org |-> o, branch |-> br, name |-> name, open |-> TRUE, images |-> images]
        IN  /\ AtOnce(p)
            /\ rooms[r] = Unused /\ RoomFits(r, row) /\ BranchKnown(br)
            /\ rooms' = [rooms EXCEPT ![r] = row]
            /\ hung' = [hung EXCEPT ![r] = images]
            /\ UNCHANGED <<orgTables, overtaken, asked, stays>>

\* name: as it is given, or as it was read.
UpdateRoom(p) == MayStart(p) /\ \E o \in Working, name \in Name, open \in BOOLEAN :
    \E r \in RoomsOf(o) :
        /\ Starts(p, [Idle EXCEPT !.pc = "room", !.org = o, !.id = r,
                        !.row = [rooms[r] EXCEPT !.name = name, !.open = open]])
        /\ UNCHANGED roomTables

EditRoom(p, pc) ==
    /\ Continues(p, pc) /\ Return(p)
    /\ UNCHANGED <<orgTables, overtaken, asked, stays>>

\* Mistake: the pictures are written back as they were read.
WriteRoomWhole(p) ==
    LET r == req[p].id
    IN  /\ EditRoom(p, "room")
        /\ rooms' = IF r \in RoomsOf(req[p].org) /\ RoomFits(r, req[p].row)
                      THEN [rooms EXCEPT ![r].name = req[p].row.name,
                                         ![r].open = req[p].row.open,
                                         ![r].images = req[p].row.images] ELSE rooms
        /\ UNCHANGED hung

WriteRoom(p) ==
    LET r == req[p].id
    IN  /\ EditRoom(p, "room")
        /\ rooms' = IF r \in RoomsOf(req[p].org) /\ RoomFits(r, req[p].row)
                      THEN [rooms EXCEPT ![r].name = req[p].row.name,
                                         ![r].open = req[p].row.open] ELSE rooms
        /\ UNCHANGED hung

UpdateImages(p) == MayStart(p) /\ \E o \in Working, images \in SUBSET Picture :
    \E r \in RoomsOf(o) :
        /\ Starts(p, [Idle EXCEPT !.pc = "images", !.org = o, !.id = r, !.row = [images |-> images]])
        /\ UNCHANGED roomTables

WriteImages(p) ==
    LET r == req[p].id
    IN  /\ EditRoom(p, "images")
        /\ IF r \in RoomsOf(req[p].org)
             THEN /\ rooms' = [rooms EXCEPT ![r].images = req[p].row.images]
                  /\ hung' = [hung EXCEPT ![r] = req[p].row.images]
             ELSE UNCHANGED <<rooms, hung>>

SetAvailability(p) == MayStart(p) /\ \E o \in Working, open \in BOOLEAN :
    \E r \in RoomsOf(o) :
        /\ Starts(p, [Idle EXCEPT !.pc = "open", !.org = o, !.id = r, !.row = [open |-> open]])
        /\ UNCHANGED roomTables

WriteAvailability(p) ==
    LET r == req[p].id
    IN  /\ EditRoom(p, "open")
        /\ rooms' = IF r \in RoomsOf(req[p].org)
                      THEN [rooms EXCEPT ![r].open = req[p].row.open] ELSE rooms
        /\ UNCHANGED hung

\* A room that a booking names, of whatever status, stays.
DeleteRoom(p) == MayStart(p) /\ \E o \in Working : \E r \in RoomsOf(o) :
    /\ AtOnce(p)
    /\ stays[r] = {}
    /\ rooms' = [rooms EXCEPT ![r] = Deleted]
    /\ UNCHANGED <<orgTables, overtaken, asked, stays, hung>>

-------------------------------------------------------------------------------
(***************************************************************************)
(* Bookings, one at a time.  Those with an invoice cannot be deleted: the  *)
(* attempt has no effect.                                                  *)
(***************************************************************************)
Book(p) == MayStart(p) /\ \E o \in Working, d \in Period : \E r \in RoomsOf(o) :
    /\ AtOnce(p)
    /\ IsRoomAvailable(r, d[1], d[2])
    /\ stays' = [stays EXCEPT ![r] = @ \cup {[from |-> d[1], to |-> d[2], status |-> "pending"]}]
    /\ UNCHANGED <<orgTables, overtaken, asked, rooms, hung>>

UpdateStatus(p) == MayStart(p) /\ \E r \in Room, to \in Status : \E s \in stays[r] :
    /\ AtOnce(p)
    /\ CanTransition(s.status, to)
    /\ stays' = [stays EXCEPT ![r] = (@ \ {s}) \cup {[s EXCEPT !.status = to]}]
    /\ UNCHANGED <<orgTables, overtaken, asked, rooms, hung>>

\* Bookings of one room that look alike are one element of stays: with it the
\* last of them goes.
DeleteBooking(p) == MayStart(p) /\ \E o \in Working : \E r \in RoomsOf(o) :
    \E s \in stays[r] :
        /\ AtOnce(p)
        /\ s.status # "checked_in"
        /\ stays' = [stays EXCEPT ![r] = @ \ {s}]
        /\ UNCHANGED <<orgTables, overtaken, asked, rooms, hung>>

\* A branch that is deleted leaves its rooms to the organisation, and an
\* organisation that has rooms is not deleted.
RoomsFollow ==
    /\ \A r \in Room : InTable(rooms[r]) => InTable(orgs'[rooms[r].org])
    /\ rooms' = [r \in Room |->
          IF InTable(rooms[r]) /\ rooms[r].branch # NoBranch /\ ~InTable(branches'[rooms[r].branch])
            THEN [rooms[r] EXCEPT !.branch = NoBranch] ELSE rooms[r]]
    /\ UNCHANGED <<stays, hung>>

RoomsInit ==
    /\ rooms = [r \in Room |-> Unused]
    /\ stays = [r \in Room |-> {}]
    /\ hung = [r \in Room |-> {}]

RoomsNext(p) ==
    \/ CreateRoom(p) \/ UpdateRoom(p) \/ UpdateImages(p) \/ SetAvailability(p) \/ DeleteRoom(p)
    \/ WriteRoom(p) \/ WriteImages(p) \/ WriteAvailability(p)
    \/ Book(p) \/ UpdateStatus(p) \/ DeleteBooking(p)

-------------------------------------------------------------------------------
(***************************************************************************)
(* Properties.                                                             *)
(***************************************************************************)

\* The three queries that say when a room is taken agree: a search by dates
\* finds exactly the rooms on the market that a booking of these dates would
\* get, and those are the rooms beside which no taken period overlaps them.
ListsAgree ==
    \A o \in Organisation, d \in Period :
        /\ ListAvailable(o, NoBranch, d[1], d[2]) =
              {r \in RoomsOf(o) : rooms[r].open /\ IsRoomAvailable(r, d[1], d[2])}
        /\ \A r \in RoomsOf(o) : IsRoomAvailable(r, d[1], d[2]) <=>
              \A t \in GetBookedDates(r) : t[2] <= d[1] \/ d[2] <= t[1]

\* A room shows the pictures that were uploaded last: an edit that read the
\* room before an upload and writes after it does not bring the old ones back.
PicturesStay ==
    \A r \in Room : InTable(rooms[r]) => rooms[r].images = hung[r]
===============================================================================
