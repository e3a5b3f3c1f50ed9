-------------------------------- MODULE Clients --------------------------------
(***************************************************************************)
(* The people who stay: accounts of guests, which belong to no             *)
(* organisation, and client profiles, which belong to one.  A guest's      *)
(* profile has no organisation until the guest books; every booking then   *)
(* moves it to the organisation booked with.  Desks create, edit and       *)
(* delete the profiles of their own organisation.                          *)
(*                                                                         *)
(* Every statement is a step: nothing of this runs in a transaction.       *)
(* Names, phones and notes are left out; a booking is reduced to whose it  *)
(* is and where; whether its room was free is chosen freely.               *)
(***************************************************************************)
EXTENDS Integers, FiniteSets

CONSTANTS
    Guest, NoGuest,      \* identities that guest accounts can get
    Profile, NoProfile,  \* identities that profiles can get, never reused
    Org, NoOrg,
    Email,
    Address,             \* the e-mails that differ in case or blanks only, as sets
    IdNumber, Blank, NoId,  \* numbers, the empty one, and NULL
    Request,
    MaxServed            \* bound: requests served in a behaviour

ASSUME ClientsAssumption ==
    /\ NoGuest \notin Guest /\ NoProfile \notin Profile
    /\ NoOrg \notin Org /\ {Blank, NoId} \cap IdNumber = {} /\ Blank # NoId
    /\ UNION Address = Email /\ MaxServed \in Nat

VARIABLES
    guests,    \* the guests table
    profiles,  \* the individual_profiles table
    stays,     \* whose bookings were inserted, and where (deleted ones included)
    cut,       \* guests whose registration was cut short (history)
    req,       \* the local state of every request in flight
    served     \* how many requests were accepted (bounded)

tables == <<guests, profiles, stays>>
vars == <<tables, cut, req, served>>

-------------------------------------------------------------------------------
(***************************************************************************)
(* Rows.                                                                   *)
(***************************************************************************)
Unused  == [row |-> "unused"]
Deleted == [row |-> "deleted"]
InTable(row) == row \notin {Unused, Deleted}

\* "chosen" by the guest, or "mailed" by a reset.
GuestRow == [email : Email, password : {"chosen", "mailed"}]

ProfileRow == [guest : Guest \cup {NoGuest}, org : Org \cup {NoOrg},
               email : Email, id : IdNumber \cup {Blank, NoId}]

Account == {g \in Guest : InTable(guests[g])}
Client  == {c \in Profile : InTable(profiles[c])}

\* The guest's profile, if the guest has one.
ProfilesOf(g) == {c \in Client : profiles[c].guest = g}

\* E-mail and ID number are unique in an organisation; NULL equals nothing,
\* the empty number equals itself.
\* Mistake: the e-mail is unique among all profiles, as it was at first.
FitsEmailAnywhere(c, row) ==
    \A d \in Client \ {c} :
        /\ profiles[d].email # row.email
        /\ profiles[d].org = row.org /\ row.org # NoOrg => profiles[d].id # row.id

Fits(c, row) ==
    \A d \in Client \ {c} : profiles[d].org = row.org /\ row.org # NoOrg =>
        /\ profiles[d].email # row.email
        /\ profiles[d].id # row.id \/ row.id = NoId

-------------------------------------------------------------------------------
(***************************************************************************)
(* Requests.  pc is the next statement; row is the copy of the row that    *)
(* will be written.                                                        *)
(***************************************************************************)
Idle == [pc |-> "idle", guest |-> NoGuest, client |-> NoProfile, org |-> NoOrg,
         id |-> NoId, row |-> Unused]

MayStart(p) == req[p] = Idle /\ served < MaxServed
Starts(p, local) ==
    /\ MayStart(p)
    /\ served' = served + 1
    /\ req' = [req EXCEPT ![p] = local]
    /\ UNCHANGED <<tables, cut>>

Continues(p, pc) == req[p].pc = pc /\ UNCHANGED <<served, cut>>
Advance(p, pc) == req' = [req EXCEPT ![p].pc = pc]
Return(p) == req' = [req EXCEPT ![p] = Idle]

\* A request of one statement.
AtOnce == served < MaxServed /\ served' = served + 1 /\ UNCHANGED <<cut, req>>

-------------------------------------------------------------------------------
(***************************************************************************)
(* Guest accounts.                                                         *)
(***************************************************************************)
EmailExists(email) == \E g \in Account : guests[g].email = email

\* The accounts a query by e-mail may find: case and blanks do not count.
GetByEmail(email) ==
    {g \in Account : \E same \in Address : {email, guests[g].email} \subseteq same}

Register(p) == \E g \in Guest, email \in Email :
    /\ guests[g] = Unused /\ ~EmailExists(email)
    /\ Starts(p, [Idle EXCEPT !.pc = "create", !.guest = g,
                    !.row = [email |-> email, password |-> "chosen"]])

\* Mistake: the registration goes on although the account was refused.
CreateAndGoOn(p) == LET g == req[p].guest IN
    /\ Continues(p, "create")
    /\ guests' = IF guests[g] = Unused /\ ~EmailExists(req[p].row.email)
                 THEN [guests EXCEPT ![g] = req[p].row] ELSE guests
    /\ Advance(p, "profile")
    /\ UNCHANGED <<profiles, stays>>

\* The e-mail is unique; an account that came first fails the registration.
Create(p) == LET g == req[p].guest IN
    /\ Continues(p, "create")
    /\ IF guests[g] = Unused /\ ~EmailExists(req[p].row.email)
         THEN guests' = [guests EXCEPT ![g] = req[p].row] /\ Advance(p, "profile")
         ELSE UNCHANGED guests /\ Return(p)
    /\ UNCHANGED <<profiles, stays>>

NewProfile(g, org, email, id) == [guest |-> g, org |-> org, email |-> email, id |-> id]

\* The account stays when the profile is refused, as it never is: nothing
\* clashes with a profile that has no organisation.
CreateIndividualProfile(p) == \E c \in Profile :
    LET row == NewProfile(req[p].guest, NoOrg, req[p].row.email, NoId) IN
    /\ Continues(p, "profile")
    /\ profiles[c] = Unused
    /\ profiles' = IF Fits(c, row) THEN [profiles EXCEPT ![c] = row] ELSE profiles
    /\ Return(p)
    /\ UNCHANGED <<guests, stays>>

ResetPassword(p) == \E email \in Email : \E g \in GetByEmail(email) :
    Starts(p, [Idle EXCEPT !.pc = "password", !.guest = g])

UpdatePassword(p) ==
    /\ Continues(p, "password")
    /\ guests' = [guests EXCEPT ![req[p].guest].password = "mailed"]
    /\ Return(p)
    /\ UNCHANGED <<profiles, stays>>

UpdateProfile(p) == \E g \in Account :
    Starts(p, [Idle EXCEPT !.pc = "guest", !.guest = g, !.row = guests[g]])

\* The row goes back as it was read, but for the password.
\* Mistake: the password goes back too.
WrittenWhole(p) == req[p].row
Written(p) == [req[p].row EXCEPT !.password = guests[req[p].guest].password]

UpdateGuest(p) ==
    /\ Continues(p, "guest")
    /\ guests' = [guests EXCEPT ![req[p].guest] = Written(p)]
    /\ Return(p)
    /\ UNCHANGED <<profiles, stays>>

-------------------------------------------------------------------------------
(***************************************************************************)
(* Bookings of guests.  A guest without a profile is refused.  An ID       *)
(* number that the booking gives and the profile has not is saved first.   *)
(***************************************************************************)
\* Mistake: the profile is moved before the room is known to be free.
BookStampFirst(p) ==
    \E g \in Account, org \in Org, id \in IdNumber \cup {NoId} :
    \E c \in ProfilesOf(g) :
        Starts(p, [Idle EXCEPT !.pc = "org", !.guest = g, !.client = c,
                     !.org = org, !.id = id])

Book(p) == \E g \in Account, org \in Org, id \in IdNumber \cup {NoId} :
    \E c \in ProfilesOf(g) :
        Starts(p, [Idle EXCEPT
            !.pc = IF id # NoId /\ id # profiles[c].id THEN "id" ELSE "insert",
            !.guest = g, !.client = c, !.org = org, !.id = id])

\* No row is matched when the profile is gone; a number in use is an error.
UpdateIDPassport(p) ==
    LET c == req[p].client
        row == [profiles[c] EXCEPT !.id = req[p].id]
    IN  /\ Continues(p, "id")
        /\ IF InTable(profiles[c]) /\ Fits(c, row)
             THEN profiles' = [profiles EXCEPT ![c] = row]
             ELSE UNCHANGED profiles
        /\ IF InTable(profiles[c]) /\ ~Fits(c, row)
             THEN Return(p) ELSE Advance(p, "insert")
        /\ UNCHANGED <<guests, stays>>

RoomTaken(p) ==
    /\ Continues(p, "insert")
    /\ Return(p)
    /\ UNCHANGED tables

\* No foreign key ties the booking to the profile, which may be gone by now.
InsertBooking(p) ==
    /\ Continues(p, "insert")
    /\ stays' = stays \cup {<<req[p].client, req[p].org>>}
    /\ IF req[p].guest = NoGuest THEN Return(p) ELSE Advance(p, "org")
    /\ UNCHANGED <<guests, profiles>>

\* A profile that clashes with a client of the organisation stays where it is.
UpdateProfileOrg(p) ==
    LET Moved(c) == [profiles[c] EXCEPT !.org = req[p].org]
    IN  /\ Continues(p, "org")
        /\ profiles' = [c \in Profile |->
              IF c \in ProfilesOf(req[p].guest) /\ Fits(c, Moved(c))
                THEN Moved(c) ELSE profiles[c]]
        /\ Return(p)
        /\ UNCHANGED <<guests, stays>>

-------------------------------------------------------------------------------
(***************************************************************************)
(* The desk of an organisation.                                            *)
(***************************************************************************)
InsertIndividual(c, org, email, id) ==
    LET row == NewProfile(NoGuest, org, email, id) IN
    /\ profiles[c] = Unused /\ Fits(c, row)
    /\ profiles' = [profiles EXCEPT ![c] = row]
    /\ UNCHANGED <<guests, stays>>

\* The desk must give a number.
CreateIndividual(p) == \E c \in Profile, org \in Org, email \in Email, id \in IdNumber :
    /\ req[p] = Idle /\ AtOnce
    /\ InsertIndividual(c, org, email, id)

\* A desk books for a client that it finds, or that it creates first and
\* keeps when the booking is refused.
BookForClient(p) == \E c \in Client :
    /\ profiles[c].org # NoOrg
    /\ Starts(p, [Idle EXCEPT !.pc = "insert", !.client = c, !.org = profiles[c].org])

BookForNewClient(p) ==
    \E c \in Profile, org \in Org, email \in Email, id \in IdNumber \cup {Blank} :
    /\ req[p] = Idle /\ served < MaxServed /\ served' = served + 1
    /\ InsertIndividual(c, org, email, id)
    /\ req' = [req EXCEPT ![p] = [Idle EXCEPT !.pc = "insert", !.client = c, !.org = org]]
    /\ UNCHANGED cut

\* What the request does not give is written back as it was read: a NULL
\* number is read as the empty one.
UpdateIndividual(p) == \E c \in Client, email \in Email :
    LET row  == profiles[c]
        kept == IF row.id = NoId THEN Blank ELSE row.id
    IN  \E id \in IdNumber \cup {kept} :
    /\ row.org # NoOrg
    /\ Starts(p, [Idle EXCEPT !.pc = "client", !.client = c, !.org = row.org,
                    !.row = [row EXCEPT !.email = email, !.id = id]])

\* Mistake: the organisation is only checked when the client is read.
MatchesAnyOrg(p) == InTable(profiles[req[p].client])
\* The UPDATE matches the client only while it is in the desk's organisation.
Matches(p) == LET c == req[p].client IN
    InTable(profiles[c]) /\ profiles[c].org = req[p].org

\* Link and organisation are not among the columns that are written.
WriteIndividual(p) ==
    LET c == req[p].client
        row == [profiles[c] EXCEPT !.email = req[p].row.email, !.id = req[p].row.id]
    IN  /\ Continues(p, "client")
        /\ IF Matches(p) /\ Fits(c, row)
             THEN profiles' = [profiles EXCEPT ![c] = row]
             ELSE UNCHANGED profiles
        /\ Return(p)
        /\ UNCHANGED <<guests, stays>>

\* Nothing asks whether the client has bookings, or is a guest's profile.
DeleteIndividual(p) == \E c \in Client :
    /\ profiles[c].org # NoOrg
    /\ req[p] = Idle /\ served < MaxServed /\ served' = served + 1
    /\ profiles' = [profiles EXCEPT ![c] = Deleted]
    /\ cut' = cut \cup ({profiles[c].guest} \ {NoGuest})
    /\ UNCHANGED <<guests, stays, req>>

-------------------------------------------------------------------------------
Crash ==
    /\ req' = [p \in Request |-> Idle]
    /\ cut' = cut \cup {req[p].guest : p \in {q \in Request : req[q].pc = "profile"}}
    /\ UNCHANGED <<tables, served>>

Init ==
    /\ guests = [g \in Guest |-> Unused]
    /\ profiles = [c \in Profile |-> Unused]
    /\ stays = {} /\ cut = {}
    /\ req = [p \in Request |-> Idle]
    /\ served = 0

Accept(p) ==
    \/ Register(p) \/ ResetPassword(p) \/ UpdateProfile(p) \/ Book(p)
    \/ CreateIndividual(p) \/ UpdateIndividual(p) \/ DeleteIndividual(p)
    \/ BookForClient(p) \/ BookForNewClient(p)

Continue(p) ==
    \/ Create(p) \/ CreateIndividualProfile(p) \/ UpdatePassword(p) \/ UpdateGuest(p)
    \/ UpdateIDPassport(p) \/ RoomTaken(p) \/ InsertBooking(p) \/ UpdateProfileOrg(p)
    \/ WriteIndividual(p)

Next == Crash \/ \E p \in Request : (MayStart(p) /\ Accept(p)) \/ Continue(p)

Spec == Init /\ [][Next]_vars

-------------------------------------------------------------------------------
(***************************************************************************)
(* Properties.                                                             *)
(***************************************************************************)
Local == [pc : {"idle", "create", "profile", "password", "guest", "id", "insert",
                "org", "client"},
          guest : Guest \cup {NoGuest}, client : Profile \cup {NoProfile},
          org : Org \cup {NoOrg}, id : IdNumber \cup {NoId},
          row : GuestRow \cup ProfileRow \cup {Unused}]

\* Types; what a request is about to write is a row of the table it writes.
TypeOK ==
    /\ guests \in [Guest -> GuestRow \cup {Unused}]
    /\ profiles \in [Profile -> ProfileRow \cup {Unused, Deleted}]
    /\ stays \subseteq Profile \X Org /\ cut \subseteq Guest
    /\ req \in [Request -> Local] /\ served \in 0 .. MaxServed
    /\ \A p \in Request :
        /\ req[p].pc \in {"create", "profile", "guest"} => req[p].row \in GuestRow
        /\ req[p].pc = "client" => req[p].row \in ProfileRow
        /\ req[p].pc \in {"profile", "password", "guest", "org"} =>
              req[p].guest \in Account

\* An organisation gets to see, edit and delete the profile of a guest only
\* once the guest has had a booking with it, however bookings overlap.
SeenOnlyWhereStayed ==
    \A c \in Client : profiles[c].guest # NoGuest =>
        profiles[c].org = NoOrg \/ <<c, profiles[c].org>> \in stays

\* Account and profile are two inserts.  A guest is without a profile, which
\* cannot be created later, only when the registration was cut short between
\* them or a desk deleted the profile; and no guest has two.
RegisteredIsWhole ==
    \A g \in Account :
        /\ Cardinality(ProfilesOf(g)) <= 1
        /\ ProfilesOf(g) = {} =>
              g \in cut \/ \E p \in Request : req[p].pc = "profile" /\ req[p].guest = g

\* A desk that has read a client before the guest booked elsewhere does not
\* change the profile any more: an edit lands only in the desk's organisation.
EditsStayHome == [][\A p \in Request, c \in Profile :
    req[p].pc = "client" /\ req'[p] # req[p] /\ profiles'[c] # profiles[c] =>
        profiles[c].org = req[p].org]_vars

\* A reset holds: no edit of the account, from however old a copy, brings the
\* old password back.
ResetHolds == [][\A g \in Account :
    guests[g].password = "mailed" => guests'[g].password = "mailed"]_vars
===============================================================================
