---------------------------- MODULE ClientsProofs ----------------------------
(***************************************************************************)
(* Theorems about guests and client profiles, for any number of guests,    *)
(* profiles, organisations and requests in flight.  Every statement is a   *)
(* step of its own, so what a request is about to write was read earlier;  *)
(* the inductive invariants say what of it still holds when it is written. *)
(***************************************************************************)
EXTENDS Clients, FiniteSetTheorems, TLAPS

-------------------------------------------------------------------------------
(***************************************************************************)
(* Rows and requests.                                                      *)
(***************************************************************************)
LEMMA RowsInTable ==
    /\ \A row \in GuestRow \cup ProfileRow : InTable(row)
    /\ ~InTable(Unused) /\ ~InTable(Deleted)
<1>1. ASSUME NEW row \in GuestRow \cup ProfileRow PROVE InTable(row)
  <2>1. "email" \in DOMAIN row
    BY DEF GuestRow, ProfileRow
  <2>2. "email" \notin DOMAIN Unused /\ "email" \notin DOMAIN Deleted
    BY DEF Unused, Deleted
  <2>3. QED
    BY <2>1, <2>2 DEF InTable
<1>2. QED
  BY <1>1 DEF InTable

\* An account or client that is there has the columns of its table.
LEMMA RowTypes ==
    ASSUME TypeOK
    PROVE  /\ \A g \in Account : guests[g] \in GuestRow
           /\ \A c \in Client : profiles[c] \in ProfileRow
           /\ \A c \in Profile : InTable(profiles[c]) => profiles[c] \in ProfileRow
BY DEF TypeOK, Account, Client, InTable

LEMMA ProfileRows ==
    ASSUME TypeOK
    PROVE  /\ \A g \in Guest \cup {NoGuest}, org \in Org \cup {NoOrg}, email \in Email,
                 id \in IdNumber \cup {Blank, NoId} :
                 NewProfile(g, org, email, id) \in ProfileRow
           /\ \A row \in ProfileRow :
                 /\ \A org \in Org : [row EXCEPT !.org = org] \in ProfileRow
                 /\ \A id \in IdNumber \cup {Blank, NoId} :
                       /\ [row EXCEPT !.id = id] \in ProfileRow
                       /\ \A email \in Email :
                             [row EXCEPT !.email = email, !.id = id] \in ProfileRow
BY DEF NewProfile, ProfileRow

\* What a request keeps of the rows it read, and will use.
Typed(r, accounts) ==
    /\ r \in Local
    /\ r.pc \in {"create", "profile", "guest"} => r.row \in GuestRow
    /\ r.pc = "create" => r.guest \in Guest
    /\ r.pc = "client" => r.row \in ProfileRow
    /\ r.pc \in {"profile", "password", "guest", "org"} => r.guest \in accounts
    /\ r.pc \in {"id", "insert"} => r.guest \in accounts \cup {NoGuest}
    /\ r.pc \in {"id", "insert", "org", "client"} => r.client \in Profile /\ r.org \in Org

TypeInv == TypeOK /\ \A p \in Request : Typed(req[p], Account)

RequestsTyped ==
    /\ req \in [Request -> Local]
    /\ \A p \in Request : Typed(req[p], Account)

TablesTyped ==
    /\ guests \in [Guest -> GuestRow \cup {Unused}]
    /\ profiles \in [Profile -> ProfileRow \cup {Unused, Deleted}]
    /\ stays \subseteq Profile \X Org

LEMMA TypeParts ==
    ASSUME TablesTyped', RequestsTyped', cut' \subseteq Guest, served' \in 0 .. MaxServed
    PROVE  TypeInv'
BY DEF TablesTyped, RequestsTyped, TypeInv, TypeOK, Typed

\* One request takes a step, and accounts are never lost.
LEMMA StepTyped ==
    ASSUME TypeInv, Account \subseteq Account', NEW p \in Request, NEW local,
           Typed(local, Account'), req' = [req EXCEPT ![p] = local]
    PROVE  RequestsTyped'
<1>1. local \in Local
  BY DEF Typed, Local
<1>2. req' \in [Request -> Local]
  BY <1>1 DEF TypeInv, TypeOK
<1>3. ASSUME NEW q \in Request PROVE Typed(req'[q], Account')
  <2>1. CASE q = p
    BY <2>1 DEF TypeInv, TypeOK
  <2>2. CASE q # p
    <3>1. req'[q] = req[q] /\ Typed(req[q], Account)
      BY <2>2 DEF TypeInv, TypeOK
    <3>2. QED
      BY <3>1 DEF Typed, Local, GuestRow, ProfileRow
  <2>3. QED
    BY <2>1, <2>2
<1>4. QED
  BY <1>2, <1>3 DEF RequestsTyped

LEMMA IdleTyped == \A accounts : Typed(Idle, accounts)
BY DEF Typed, Idle, Local

LEMMA ReturnTyped ==
    ASSUME TypeInv, Account \subseteq Account', NEW p \in Request, Return(p)
    PROVE  RequestsTyped'
BY IdleTyped, StepTyped DEF Return

\* A request that only moves on keeps what it has read.
LEMMA AdvanceTyped ==
    ASSUME TypeInv, Account \subseteq Account', NEW p \in Request, NEW pc,
           Advance(p, pc),
           \/ req[p].pc = "create" /\ pc = "profile" /\ req[p].guest \in Account'
           \/ req[p].pc = "id" /\ pc = "insert"
           \/ req[p].pc = "insert" /\ pc = "org" /\ req[p].guest \in Account'
    PROVE  RequestsTyped'
<1> DEFINE local == [req[p] EXCEPT !.pc = pc]
<1>1. req[p] \in Local /\ Typed(req[p], Account)
  BY DEF TypeInv, TypeOK
<1>2. Typed(local, Account')
  BY <1>1 DEF Typed, Local
<1>3. req' = [req EXCEPT ![p] = local]
  BY DEF Advance
<1> HIDE DEF local
<1>4. QED
  BY <1>2, <1>3, StepTyped

LEMMA StartsTyped ==
    ASSUME TypeInv, NEW p \in Request, NEW local, Starts(p, local),
           Typed(local, Account)
    PROVE  TypeInv'
<1>1. Account' = Account
  BY DEF Starts, tables, Account
<1>2. RequestsTyped'
  BY <1>1, StepTyped DEF Starts
<1>3. TablesTyped' /\ cut' \subseteq Guest
  BY DEF Starts, tables, TypeInv, TypeOK, TablesTyped
<1>4. served' \in 0 .. MaxServed
  BY ClientsAssumption DEF Starts, MayStart, TypeInv, TypeOK
<1>5. QED
  BY <1>2, <1>3, <1>4, TypeParts

-------------------------------------------------------------------------------
(***************************************************************************)
(* Types: the steps that accept a request.                                 *)
(***************************************************************************)
LEMMA AcceptTyped ==
    ASSUME TypeInv, NEW p \in Request, MayStart(p), Accept(p)
    PROVE  TypeInv'
<1>0. TypeOK
  BY DEF TypeInv
<1>1. CASE Register(p)
  <2>1. PICK g \in Guest, email \in Email :
          Starts(p, [Idle EXCEPT !.pc = "create", !.guest = g,
                       !.row = [email |-> email, password |-> "chosen"]])
    BY <1>1 DEF Register
  <2>2. Typed([Idle EXCEPT !.pc = "create", !.guest = g,
                 !.row = [email |-> email, password |-> "chosen"]], Account)
    BY DEF Typed, Local, Idle, GuestRow
  <2>3. QED
    BY <2>1, <2>2, StartsTyped
<1>2. CASE ResetPassword(p)
  <2>1. PICK g \in Account : Starts(p, [Idle EXCEPT !.pc = "password", !.guest = g])
    BY <1>2 DEF ResetPassword, GetByEmail
  <2>2. Typed([Idle EXCEPT !.pc = "password", !.guest = g], Account)
    BY DEF Typed, Local, Idle, Account
  <2>3. QED
    BY <2>1, <2>2, StartsTyped
<1>3. CASE UpdateProfile(p)
  <2>1. PICK g \in Account :
          Starts(p, [Idle EXCEPT !.pc = "guest", !.guest = g, !.row = guests[g]])
    BY <1>3 DEF UpdateProfile
  <2>2. guests[g] \in GuestRow /\ g \in Guest
    BY <1>0, RowTypes DEF Account
  <2>3. Typed([Idle EXCEPT !.pc = "guest", !.guest = g, !.row = guests[g]], Account)
    BY <2>2 DEF Typed, Local, Idle
  <2>4. QED
    BY <2>1, <2>3, StartsTyped
<1>4. CASE Book(p)
  <2>1. PICK g \in Account, org \in Org, id \in IdNumber \cup {NoId}, c \in Client,
             pc \in {"id", "insert"} :
          Starts(p, [Idle EXCEPT !.pc = pc, !.guest = g, !.client = c,
                       !.org = org, !.id = id])
    BY <1>4 DEF Book, ProfilesOf
  <2>2. Typed([Idle EXCEPT !.pc = pc, !.guest = g, !.client = c,
                 !.org = org, !.id = id], Account)
    BY DEF Typed, Local, Idle, Account, Client
  <2>3. QED
    BY <2>1, <2>2, StartsTyped
<1>5. CASE CreateIndividual(p) \/ DeleteIndividual(p)
  <2>1. Account' = Account /\ req' = req /\ served' \in 0 .. MaxServed
    BY <1>0, <1>5, ClientsAssumption
    DEF CreateIndividual, DeleteIndividual, AtOnce, InsertIndividual, TypeOK, Account
  <2>2. TablesTyped'
    <3>1. CASE CreateIndividual(p)
      <4>1. PICK c \in Profile, org \in Org, email \in Email, id \in IdNumber :
              InsertIndividual(c, org, email, id)
        BY <3>1 DEF CreateIndividual
      <4>2. QED
        BY <1>0, <4>1, ProfileRows DEF InsertIndividual, TypeOK, TablesTyped
    <3>2. CASE DeleteIndividual(p)
      BY <1>0, <3>2 DEF DeleteIndividual, TypeOK, TablesTyped, Client
    <3>3. QED
      BY <1>5, <3>1, <3>2
  <2>3. cut' \subseteq Guest
    BY <1>0, <1>5, RowTypes
    DEF CreateIndividual, DeleteIndividual, AtOnce, TypeOK, ProfileRow
  <2>4. RequestsTyped'
    BY <2>1 DEF TypeInv, TypeOK, RequestsTyped, Typed
  <2>5. QED
    BY <2>1, <2>2, <2>3, <2>4, TypeParts
<1>6. CASE UpdateIndividual(p)
  <2>1. PICK c \in Client, email \in Email, id \in IdNumber \cup {Blank, NoId} :
          /\ profiles[c].org # NoOrg
          /\ id \in IdNumber \cup {IF profiles[c].id = NoId THEN Blank ELSE profiles[c].id}
          /\ Starts(p, [Idle EXCEPT !.pc = "client", !.client = c, !.org = profiles[c].org,
                          !.row = [profiles[c] EXCEPT !.email = email, !.id = id]])
    BY <1>0, <1>6, RowTypes DEF UpdateIndividual, ProfileRow
  <2>2. /\ c \in Profile /\ profiles[c].org \in Org
        /\ [profiles[c] EXCEPT !.email = email, !.id = id] \in ProfileRow
    BY <1>0, <2>1, RowTypes, ProfileRows DEF Client, ProfileRow
  <2>3. Typed([Idle EXCEPT !.pc = "client", !.client = c, !.org = profiles[c].org,
                 !.row = [profiles[c] EXCEPT !.email = email, !.id = id]], Account)
    BY <2>2 DEF Typed, Local, Idle
  <2>4. QED
    BY <2>1, <2>3, StartsTyped
<1>7. CASE BookForClient(p)
  <2>1. PICK c \in Client :
          /\ profiles[c].org # NoOrg
          /\ Starts(p, [Idle EXCEPT !.pc = "insert", !.client = c, !.org = profiles[c].org])
    BY <1>7 DEF BookForClient
  <2>2. c \in Profile /\ profiles[c].org \in Org
    BY <1>0, <2>1, RowTypes DEF Client, ProfileRow
  <2>3. Typed([Idle EXCEPT !.pc = "insert", !.client = c, !.org = profiles[c].org], Account)
    BY <2>2 DEF Typed, Local, Idle
  <2>4. QED
    BY <2>1, <2>3, StartsTyped
<1>8. CASE BookForNewClient(p)
  <2>1. PICK c \in Profile, org \in Org, email \in Email, id \in IdNumber \cup {Blank} :
          /\ InsertIndividual(c, org, email, id)
          /\ req' = [req EXCEPT ![p] = [Idle EXCEPT !.pc = "insert", !.client = c,
                                          !.org = org]]
          /\ served < MaxServed /\ served' = served + 1 /\ UNCHANGED cut
    BY <1>8 DEF BookForNewClient
  <2>2. Typed([Idle EXCEPT !.pc = "insert", !.client = c, !.org = org], Account)
    BY DEF Typed, Local, Idle
  <2>3. Account' = Account
    BY <2>1 DEF InsertIndividual, Account
  <2>4. RequestsTyped'
    BY <2>1, <2>2, <2>3, StepTyped
  <2>5. TablesTyped'
    BY <1>0, <2>1, ProfileRows DEF InsertIndividual, TypeOK, TablesTyped
  <2>6. cut' \subseteq Guest /\ served' \in 0 .. MaxServed
    BY <1>0, <2>1, ClientsAssumption DEF TypeOK
  <2>7. QED
    BY <2>4, <2>5, <2>6, TypeParts
<1>9. QED
  BY <1>1, <1>2, <1>3, <1>4, <1>5, <1>6, <1>7, <1>8 DEF Accept

-------------------------------------------------------------------------------
(***************************************************************************)
(* Types: the statements of a request, and a crash.                        *)
(***************************************************************************)
\* Passwords and accounts are written to accounts that are there.
LEMMA AccountWritten ==
    ASSUME TypeInv, NEW p \in Request, UpdatePassword(p) \/ UpdateGuest(p)
    PROVE  /\ \E row \in GuestRow : guests' = [guests EXCEPT ![req[p].guest] = row]
           /\ Account \subseteq Account'
<1> DEFINE g == req[p].guest
<1>1. /\ TypeOK /\ g \in Account /\ g \in Guest /\ guests[g] \in GuestRow
      /\ Typed(req[p], Account)
  BY RowTypes DEF UpdatePassword, UpdateGuest, Continues, TypeInv, Typed, Account
<1>2. PICK row \in GuestRow : guests' = [guests EXCEPT ![g] = row]
  <2>1. CASE UpdatePassword(p)
    <3>1. guests' = [guests EXCEPT ![g] = [guests[g] EXCEPT !.password = "mailed"]]
      BY <1>1, <2>1 DEF UpdatePassword, TypeOK
    <3>2. [guests[g] EXCEPT !.password = "mailed"] \in GuestRow
      BY <1>1 DEF GuestRow
    <3>3. QED
      BY <3>1, <3>2
  <2>2. CASE UpdateGuest(p)
    <3>1. req[p].row \in GuestRow
      BY <1>1, <2>2 DEF UpdateGuest, Continues, Typed
    <3>2. Written(p) \in GuestRow
      BY <1>1, <3>1 DEF Written, GuestRow
    <3>3. QED
      BY <2>2, <3>2 DEF UpdateGuest
  <2>3. QED
    BY <2>1, <2>2
<1>3. Account \subseteq Account'
  BY <1>1, <1>2, RowsInTable DEF TypeOK, Account
<1>4. QED
  BY <1>2, <1>3

LEMMA ContinueTyped ==
    ASSUME TypeInv, NEW p \in Request, Continue(p)
    PROVE  TypeInv'
<1> DEFINE g == req[p].guest  c == req[p].client
<1>0. /\ TypeOK /\ Typed(req[p], Account) /\ req[p] \in Local
      /\ cut' \subseteq Guest /\ served' \in 0 .. MaxServed
  BY DEF TypeInv, TypeOK, Continue, Continues, Create, CreateIndividualProfile,
         UpdatePassword, UpdateGuest, UpdateIDPassport, RoomTaken, InsertBooking,
         UpdateProfileOrg, WriteIndividual
<1>1. CASE Create(p)
  <2>1. req[p].row \in GuestRow /\ g \in Guest /\ InTable(req[p].row)
    BY <1>0, <1>1, RowsInTable DEF Create, Continues, Typed
  <2>2. CASE guests' = [guests EXCEPT ![g] = req[p].row] /\ Advance(p, "profile")
    <3>1. Account \subseteq Account' /\ g \in Account'
      BY <1>0, <2>1, <2>2 DEF TypeOK, Account
    <3>2. RequestsTyped'
      BY <1>1, <2>2, <3>1, AdvanceTyped DEF Create, Continues
    <3>3. TablesTyped'
      BY <1>0, <1>1, <2>1, <2>2 DEF Create, TypeOK, TablesTyped
    <3>4. QED
      BY <1>0, <3>2, <3>3, TypeParts
  <2>3. CASE UNCHANGED guests /\ Return(p)
    <3>1. Account' = Account
      BY <2>3 DEF Account
    <3>2. RequestsTyped'
      BY <2>3, <3>1, ReturnTyped
    <3>3. TablesTyped'
      BY <1>0, <1>1, <2>3 DEF Create, TypeOK, TablesTyped
    <3>4. QED
      BY <1>0, <3>2, <3>3, TypeParts
  <2>4. QED
    BY <1>1, <2>2, <2>3 DEF Create
<1>2. CASE CreateIndividualProfile(p)
  <2>1. Account' = Account /\ Return(p)
    BY <1>2 DEF CreateIndividualProfile, Account
  <2>2. g \in Guest /\ req[p].row.email \in Email
    BY <1>0, <1>2 DEF CreateIndividualProfile, Continues, Typed, Account, GuestRow
  <2>3. NewProfile(g, NoOrg, req[p].row.email, NoId) \in ProfileRow
    BY <1>0, <2>2, ProfileRows
  <2>4. TablesTyped'
    BY <1>0, <1>2, <2>3 DEF CreateIndividualProfile, TypeOK, TablesTyped
  <2>5. RequestsTyped'
    BY <2>1, ReturnTyped
  <2>6. QED
    BY <1>0, <2>4, <2>5, TypeParts
<1>3. CASE UpdatePassword(p) \/ UpdateGuest(p)
  <2>1. RequestsTyped'
    BY <1>3, AccountWritten, ReturnTyped DEF UpdatePassword, UpdateGuest
  <2>2. TablesTyped'
    BY <1>0, <1>3, AccountWritten DEF UpdatePassword, UpdateGuest, TypeOK, TablesTyped
  <2>3. QED
    BY <1>0, <2>1, <2>2, TypeParts
<1>4. CASE UpdateIDPassport(p)
  <2>1. c \in Profile /\ req[p].id \in IdNumber \cup {Blank, NoId} /\ req[p].pc = "id"
    BY <1>0, <1>4 DEF UpdateIDPassport, Continues, Typed, Local
  <2>2. InTable(profiles[c]) => [profiles[c] EXCEPT !.id = req[p].id] \in ProfileRow
    BY <1>0, <2>1, RowTypes, ProfileRows
  <2>3. TablesTyped'
    BY <1>0, <1>4, <2>1, <2>2 DEF UpdateIDPassport, TypeOK, TablesTyped
  <2>4. Account' = Account
    BY <1>4 DEF UpdateIDPassport, Account
  <2>5. RequestsTyped'
    BY <1>4, <2>1, <2>4, ReturnTyped, AdvanceTyped DEF UpdateIDPassport
  <2>6. QED
    BY <1>0, <2>3, <2>5, TypeParts
<1>5. CASE RoomTaken(p)
  <2>1. Account' = Account /\ Return(p) /\ UNCHANGED tables
    BY <1>5 DEF RoomTaken, tables, Account
  <2>2. RequestsTyped' /\ TablesTyped'
    BY <1>0, <2>1, ReturnTyped DEF tables, TypeOK, TablesTyped
  <2>3. QED
    BY <1>0, <2>2, TypeParts
<1>6. CASE InsertBooking(p)
  <2>1. Account' = Account /\ req[p].pc = "insert" /\ c \in Profile /\ req[p].org \in Org
        /\ req[p].guest \in Account \cup {NoGuest}
    BY <1>0, <1>6 DEF InsertBooking, Continues, Account, Typed
  <2>2. TablesTyped'
    BY <1>0, <1>6, <2>1 DEF InsertBooking, TypeOK, TablesTyped
  <2>3. RequestsTyped'
    BY <1>0, <1>6, <2>1, ReturnTyped, AdvanceTyped DEF InsertBooking
  <2>4. QED
    BY <1>0, <2>2, <2>3, TypeParts
<1>7. CASE UpdateProfileOrg(p)
  <2>1. Account' = Account /\ Return(p) /\ req[p].org \in Org
    BY <1>0, <1>7 DEF UpdateProfileOrg, Continues, Account, Typed
  <2>2. \A d \in Client : [profiles[d] EXCEPT !.org = req[p].org] \in ProfileRow
    BY <1>0, <2>1, RowTypes, ProfileRows
  <2>3. TablesTyped'
    BY <1>0, <1>7, <2>2 DEF UpdateProfileOrg, TypeOK, TablesTyped, ProfilesOf
  <2>4. RequestsTyped'
    BY <2>1, ReturnTyped
  <2>5. QED
    BY <1>0, <2>3, <2>4, TypeParts
<1>8. CASE WriteIndividual(p)
  <2>1. Account' = Account /\ Return(p) /\ c \in Profile /\ req[p].row \in ProfileRow
    BY <1>0, <1>8 DEF WriteIndividual, Continues, Account, Typed
  <2>2. InTable(profiles[c]) =>
          [profiles[c] EXCEPT !.email = req[p].row.email, !.id = req[p].row.id]
              \in ProfileRow
    BY <1>0, <2>1, RowTypes, ProfileRows DEF ProfileRow
  <2>3. TablesTyped'
    BY <1>0, <1>8, <2>1, <2>2 DEF WriteIndividual, Matches, TypeOK, TablesTyped
  <2>4. RequestsTyped'
    BY <2>1, ReturnTyped
  <2>5. QED
    BY <1>0, <2>3, <2>4, TypeParts
<1>9. QED
  BY <1>1, <1>2, <1>3, <1>4, <1>5, <1>6, <1>7, <1>8 DEF Continue

LEMMA CrashTyped == TypeInv /\ Crash => TypeInv'
<1> SUFFICES ASSUME TypeInv, Crash PROVE TypeInv'
  OBVIOUS
<1>1. RequestsTyped'
  BY IdleTyped DEF Crash, RequestsTyped, Typed
<1>2. TablesTyped' /\ served' \in 0 .. MaxServed
  BY DEF Crash, tables, TypeInv, TypeOK, TablesTyped
<1>3. cut' \subseteq Guest
  BY DEF Crash, TypeInv, TypeOK, Typed, Account
<1>4. QED
  BY <1>1, <1>2, <1>3, TypeParts

LEMMA StutterTyped == TypeInv /\ UNCHANGED vars => TypeInv'
BY DEF vars, tables, TypeInv, TypeOK, Typed, Account

-------------------------------------------------------------------------------
LEMMA ClientsTyped == Spec => []TypeInv
<1>1. Init => TypeInv
  BY IdleTyped, ClientsAssumption DEF Init, TypeInv, TypeOK, Typed, Idle, Local
<1>2. TypeInv /\ [Next]_vars => TypeInv'
  BY AcceptTyped, ContinueTyped, CrashTyped, StutterTyped DEF Next
<1>3. QED
  BY <1>1, <1>2, PTL DEF Spec

\* Tables and requests are well typed: an account that a request refers to is
\* there when it is written, and what is written is a row of its table.
THEOREM ClientsTypeCorrect == Spec => []TypeOK
<1>1. TypeInv => TypeOK
  BY DEF TypeInv
<1>2. QED
  BY <1>1, ClientsTyped, PTL

-------------------------------------------------------------------------------
(***************************************************************************)
(* Who is linked to what.  A profile of a guest belongs to an account that *)
(* is there, and no guest has two; a registration that has yet to insert   *)
(* its profile is the only request about its guest; and the profile that a *)
(* booking in flight was made for is the only one its guest can have, so   *)
(* that the last statement moves that one or none.                         *)
(***************************************************************************)
Linked ==
    \A c \in Client : profiles[c].guest # NoGuest =>
        /\ profiles[c].guest \in Account
        /\ \A d \in Client : profiles[d].guest = profiles[c].guest => c = d

InBooking == {"id", "insert", "org"}

RequestLinked(p) ==
    /\ req[p].pc = "profile" =>
          /\ \A c \in Client : profiles[c].guest # req[p].guest
          /\ \A q \in Request \ {p} :
                req[q].pc \in InBooking \cup {"profile"} => req[q].guest # req[p].guest
    /\ req[p].pc \in InBooking /\ req[p].guest # NoGuest =>
          \A c \in Client : profiles[c].guest = req[p].guest => c = req[p].client
    /\ req[p].pc = "org" => <<req[p].client, req[p].org>> \in stays

LinksInv == Linked /\ \A p \in Request : RequestLinked(p)

\* No profile of a guest appears, and none changes hands.
LinksKept ==
    /\ Account \subseteq Account' /\ stays \subseteq stays'
    /\ \A c \in Client' : \/ profiles'[c].guest = NoGuest
                          \/ c \in Client /\ profiles'[c].guest = profiles[c].guest

\* A step of a request that neither creates an account nor a guest's profile.
Harmless(q) ==
    \/ req'[q] = req[q]
    \/ req'[q].pc \notin InBooking \cup {"profile"}
    \/ /\ req'[q].pc \in {"id", "insert"}
       /\ req'[q].guest # NoGuest =>
             \E c \in Client : profiles[c].guest = req'[q].guest /\ c = req'[q].client
    \/ /\ req[q].pc \in InBooking /\ req'[q].pc \in InBooking
       /\ req'[q].guest = req[q].guest /\ req'[q].client = req[q].client
       /\ req'[q].pc = "org" => <<req'[q].client, req'[q].org>> \in stays'

LEMMA HarmlessKeepsLinks ==
    ASSUME TypeInv, TypeInv', LinksInv, LinksKept, \A q \in Request : Harmless(q)
    PROVE  LinksInv'
<1>1. \A c \in Client', g \in Guest : profiles'[c].guest = g =>
          c \in Client /\ profiles[c].guest = g
  BY ClientsAssumption DEF LinksKept
<1>2. Linked'
  BY DEF LinksInv, Linked, LinksKept
<1>3. ASSUME NEW p \in Request PROVE RequestLinked(p)'
  <2>0. /\ RequestLinked(p) /\ Typed(req[p], Account) /\ Typed(req'[p], Account')
        /\ Account' \subseteq Guest
    BY DEF LinksInv, TypeInv, Account
  <2>1. ASSUME req'[p].pc = "profile"
        PROVE  /\ \A c \in Client' : profiles'[c].guest # req'[p].guest
               /\ \A q \in Request \ {p} :
                     req'[q].pc \in InBooking \cup {"profile"} =>
                         req'[q].guest # req'[p].guest
    <3>1. req'[p] = req[p] /\ req[p].guest \in Guest
      BY <2>0, <2>1 DEF Harmless, InBooking, Typed
    <3>2. \A c \in Client : profiles[c].guest # req[p].guest
      BY <2>0, <2>1, <3>1 DEF RequestLinked
    <3>3. ASSUME NEW q \in Request \ {p}, req'[q].pc \in InBooking \cup {"profile"}
          PROVE  req'[q].guest # req'[p].guest
      <4>1. req[q].pc \in InBooking \cup {"profile"} => req[q].guest # req[p].guest
        BY <2>0, <2>1, <3>1 DEF RequestLinked
      <4>2. \/ req[q].pc \in InBooking \cup {"profile"} /\ req'[q].guest = req[q].guest
            \/ req'[q].guest = NoGuest
            \/ \E c \in Client : profiles[c].guest = req'[q].guest
        BY <3>3 DEF Harmless, InBooking
      <4>3. QED
        BY <3>1, <3>2, <4>1, <4>2, ClientsAssumption
    <3>4. QED
      BY <1>1, <3>1, <3>2, <3>3
  <2>2. ASSUME req'[p].pc \in InBooking, req'[p].guest # NoGuest
        PROVE  \A c \in Client' : profiles'[c].guest = req'[p].guest => c = req'[p].client
    <3>1. req'[p].guest \in Guest
      BY <2>0, <2>2 DEF Typed, InBooking
    <3>2. CASE /\ req[p].pc \in InBooking
               /\ req'[p].guest = req[p].guest /\ req'[p].client = req[p].client
      BY <1>1, <2>0, <2>2, <3>1, <3>2 DEF RequestLinked
    <3>3. CASE \E c \in Client : profiles[c].guest = req'[p].guest /\ c = req'[p].client
      BY <1>1, <2>2, <3>1, <3>3 DEF LinksInv, Linked
    <3>4. QED
      BY <2>2, <3>2, <3>3 DEF Harmless, InBooking
  <2>3. ASSUME req'[p].pc = "org"
        PROVE  <<req'[p].client, req'[p].org>> \in stays'
    BY <2>0, <2>3 DEF Harmless, InBooking, RequestLinked, LinksKept
  <2>4. QED
    BY <2>1, <2>2, <2>3 DEF RequestLinked
<1>4. QED
  BY <1>2, <1>3 DEF LinksInv

\* Other requests stay as they are when one steps.
LEMMA OthersHarmless ==
    ASSUME TypeInv, NEW p \in Request, NEW local, req' = [req EXCEPT ![p] = local],
           req'[p] = local => Harmless(p)
    PROVE  \A q \in Request : Harmless(q)
BY DEF TypeInv, TypeOK, Harmless

LEMMA ReturnHarmless ==
    ASSUME TypeInv, NEW p \in Request, Return(p)
    PROVE  \A q \in Request : Harmless(q)
BY DEF TypeInv, TypeOK, Return, Harmless, Idle, InBooking

-------------------------------------------------------------------------------
(***************************************************************************)
(* The links, step by step.                                                *)
(***************************************************************************)
\* A desk's edit leaves link and organisation alone, and writes no other profile.
LEMMA WrittenProfile ==
    ASSUME TypeOK, NEW p \in Request, WriteIndividual(p), NEW c \in Profile,
           profiles'[c] # profiles[c]
    PROVE  /\ c \in Client /\ c = req[p].client /\ Matches(p)
           /\ profiles'[c].guest = profiles[c].guest
           /\ profiles'[c].org = profiles[c].org
<1> DEFINE row == [profiles[c] EXCEPT !.email = req[p].row.email, !.id = req[p].row.id]
<1>1. c = req[p].client /\ Matches(p) /\ profiles'[c] = row
  BY DEF WriteIndividual, TypeOK
<1>2. c \in Client /\ profiles[c] \in ProfileRow
  BY <1>1, RowTypes DEF Matches, Client
<1>3. row.guest = profiles[c].guest /\ row.org = profiles[c].org
  BY <1>2 DEF ProfileRow
<1>4. QED
  BY <1>1, <1>2, <1>3

LEMMA AcceptOthers ==
    ASSUME TypeOK, NEW p \in Request, Accept(p)
    PROVE  \A q \in Request \ {p} : req'[q] = req[q]
BY DEF TypeOK, Accept, Starts, Register, ResetPassword, UpdateProfile, Book,
       CreateIndividual, UpdateIndividual, DeleteIndividual, BookForClient,
       BookForNewClient, AtOnce

LEMMA AcceptLinked ==
    ASSUME TypeInv, TypeInv', LinksInv, NEW p \in Request, MayStart(p), Accept(p)
    PROVE  LinksInv'
<1>0. /\ TypeOK /\ \A q \in Request \ {p} : Harmless(q)
      /\ UNCHANGED tables => LinksKept
  BY AcceptOthers DEF TypeInv, Harmless, tables, LinksKept, Account, Client
<1>1. CASE Register(p) \/ ResetPassword(p) \/ UpdateProfile(p) \/ UpdateIndividual(p)
  <2>1. UNCHANGED tables /\ req'[p].pc \in {"create", "password", "guest", "client"}
    <3>1. CASE Register(p)
      BY <1>0, <3>1 DEF Register, Starts, Idle, TypeOK
    <3>2. CASE ResetPassword(p)
      BY <1>0, <3>2 DEF ResetPassword, Starts, Idle, TypeOK
    <3>3. CASE UpdateProfile(p)
      BY <1>0, <3>3 DEF UpdateProfile, Starts, Idle, TypeOK
    <3>4. CASE UpdateIndividual(p)
      BY <1>0, <3>4 DEF UpdateIndividual, Starts, Idle, TypeOK
    <3>5. QED
      BY <1>1, <3>1, <3>2, <3>3, <3>4
  <2>2. QED
    BY <1>0, <2>1, HarmlessKeepsLinks DEF Harmless, InBooking
<1>2. CASE Book(p)
  <2>1. PICK g \in Account, c \in Client :
          /\ profiles[c].guest = g
          /\ UNCHANGED tables /\ req'[p].pc \in {"id", "insert"}
          /\ req'[p].guest = g /\ req'[p].client = c
    BY <1>0, <1>2 DEF Book, ProfilesOf, Starts, Idle, TypeOK
  <2>2. Harmless(p)
    BY <2>1 DEF Harmless
  <2>3. QED
    BY <1>0, <2>1, <2>2, HarmlessKeepsLinks
<1>3. CASE BookForClient(p)
  <2>1. UNCHANGED tables /\ req'[p].pc = "insert" /\ req'[p].guest = NoGuest
    BY <1>0, <1>3 DEF BookForClient, Starts, Idle, TypeOK
  <2>2. QED
    BY <1>0, <2>1, HarmlessKeepsLinks DEF Harmless
<1>4. CASE CreateIndividual(p) \/ BookForNewClient(p)
  <2>1. PICK c \in Profile, org \in Org, email \in Email, id \in IdNumber \cup {Blank} :
          InsertIndividual(c, org, email, id)
    BY <1>4 DEF CreateIndividual, BookForNewClient
  <2>2. LinksKept
    BY <1>0, <2>1 DEF InsertIndividual, NewProfile, LinksKept, Account, Client, TypeOK
  <2>3. Harmless(p)
    <3>1. CASE CreateIndividual(p)
      BY <3>1 DEF CreateIndividual, AtOnce, Harmless
    <3>2. CASE BookForNewClient(p)
      <4>1. req'[p].pc = "insert" /\ req'[p].guest = NoGuest
        BY <1>0, <3>2 DEF BookForNewClient, Idle, TypeOK
      <4>2. QED
        BY <4>1 DEF Harmless
    <3>3. QED
      BY <1>4, <3>1, <3>2
  <2>4. QED
    BY <1>0, <2>2, <2>3, HarmlessKeepsLinks
<1>5. CASE DeleteIndividual(p)
  <2>1. LinksKept
    BY <1>0, <1>5, RowsInTable DEF DeleteIndividual, LinksKept, Account, Client, TypeOK
  <2>2. \A q \in Request : Harmless(q)
    BY <1>5 DEF DeleteIndividual, Harmless
  <2>3. QED
    BY <2>1, <2>2, HarmlessKeepsLinks
<1>6. QED
  BY <1>1, <1>2, <1>3, <1>4, <1>5 DEF Accept

\* A new account has no profile, no booking and no other registration.
LEMMA CreateLinked ==
    ASSUME TypeInv, LinksInv, NEW p \in Request, Create(p),
           guests[req[p].guest] = Unused, Advance(p, "profile"),
           guests' = [guests EXCEPT ![req[p].guest] = req[p].row]
    PROVE  LinksInv'
<1> DEFINE g == req[p].guest
<1>1. /\ TypeOK /\ req[p].pc = "create" /\ g \in Guest \ Account
      /\ UNCHANGED <<profiles, stays>>
  BY RowsInTable DEF TypeInv, TypeOK, Create, Continues, Typed, Account
<1>2. /\ req'[p].pc = "profile" /\ req'[p].guest = g
      /\ \A q \in Request \ {p} : req'[q] = req[q]
  BY DEF Advance, TypeInv, TypeOK, Local
<1>3. Client' = Client /\ Account \subseteq Account'
  BY <1>1, RowsInTable DEF Client, Account, TypeOK
<1>4. \A c \in Client : profiles[c].guest # g
  BY <1>1, ClientsAssumption DEF LinksInv, Linked
<1>5. Linked'
  BY <1>1, <1>3 DEF LinksInv, Linked
<1>6. ASSUME NEW q \in Request \ {p}, req[q].pc \in InBooking \cup {"profile"}
      PROVE  req[q].guest # g
  BY <1>1, <1>6, ClientsAssumption DEF TypeInv, Typed, InBooking
<1>7. ASSUME NEW q \in Request PROVE RequestLinked(q)'
  <2>1. CASE q = p
    BY <1>1, <1>2, <1>3, <1>4, <1>6, <2>1 DEF RequestLinked, InBooking
  <2>2. CASE q # p
    BY <1>1, <1>2, <1>3, <1>6, <2>2 DEF RequestLinked, LinksInv, InBooking
  <2>3. QED
    BY <2>1, <2>2
<1>8. QED
  BY <1>5, <1>7 DEF LinksInv

\* The profile of a registration is the first of its guest.
LEMMA CreateProfileLinked ==
    ASSUME TypeInv, LinksInv, NEW p \in Request, CreateIndividualProfile(p)
    PROVE  LinksInv'
<1> DEFINE g == req[p].guest
<1>1. /\ TypeOK /\ req[p].pc = "profile" /\ g \in Account /\ g \in Guest
      /\ RequestLinked(p) /\ UNCHANGED <<guests, stays>> /\ Account' = Account
  BY DEF TypeInv, CreateIndividualProfile, Continues, Typed, Account, LinksInv
<1>2. PICK c \in Profile :
        /\ profiles[c] = Unused
        /\ \/ profiles' = profiles
           \/ /\ \A d \in Profile \ {c} : profiles'[d] = profiles[d]
              /\ profiles'[c].guest = g
  <2>1. PICK c \in Profile, row \in {NewProfile(g, NoOrg, req[p].row.email, NoId)} :
          /\ profiles[c] = Unused
          /\ profiles' = IF Fits(c, row) THEN [profiles EXCEPT ![c] = row] ELSE profiles
    BY DEF CreateIndividualProfile
  <2>2. row.guest = g
    BY DEF NewProfile
  <2>3. QED
    BY <1>1, <2>1, <2>2 DEF TypeOK
<1>3. \A d \in Client' \ {c} : d \in Client /\ profiles'[d] = profiles[d]
  BY <1>1, <1>2 DEF Client, TypeOK
<1>4. c \in Client' => profiles'[c].guest = g
  BY <1>1, <1>2, RowsInTable DEF Client, TypeOK
<1>5. \A d \in Client : profiles[d].guest # g
  BY <1>1 DEF RequestLinked
<1>6. Linked'
  BY <1>1, <1>3, <1>4, <1>5 DEF LinksInv, Linked
<1>7. req'[p].pc = "idle" /\ \A q \in Request \ {p} : req'[q] = req[q]
  BY <1>1 DEF CreateIndividualProfile, Return, Idle, TypeOK
<1>8. \A q \in Request \ {p} :
        req[q].pc \in InBooking \cup {"profile"} => req[q].guest # g
  BY <1>1 DEF RequestLinked
<1>9. ASSUME NEW q \in Request PROVE RequestLinked(q)'
  <2>1. CASE q = p
    BY <1>7, <2>1 DEF RequestLinked, InBooking
  <2>2. CASE q # p
    BY <1>1, <1>3, <1>4, <1>7, <1>8, <2>2 DEF RequestLinked, LinksInv, InBooking
  <2>3. QED
    BY <2>1, <2>2
<1>10. QED
  BY <1>6, <1>9 DEF LinksInv

LEMMA ContinueLinked ==
    ASSUME TypeInv, TypeInv', LinksInv, NEW p \in Request, Continue(p)
    PROVE  LinksInv'
<1>0. TypeOK
  BY DEF TypeInv
<1>1. CASE Create(p)
  <2>1. CASE UNCHANGED guests /\ Return(p)
    <3>1. LinksKept
      BY <1>1, <2>1 DEF Create, LinksKept, Account, Client
    <3>2. QED
      BY <2>1, <3>1, ReturnHarmless, HarmlessKeepsLinks
  <2>2. QED
    BY <1>1, <2>1, CreateLinked DEF Create
<1>2. CASE CreateIndividualProfile(p)
  BY <1>2, CreateProfileLinked
<1>3. CASE UpdatePassword(p) \/ UpdateGuest(p)
  <2>1. Account \subseteq Account'
    BY <1>3, AccountWritten
  <2>2. LinksKept
    BY <1>3, <2>1 DEF UpdatePassword, UpdateGuest, LinksKept, Client
  <2>3. QED
    BY <1>3, <2>2, ReturnHarmless, HarmlessKeepsLinks DEF UpdatePassword, UpdateGuest
<1>4. CASE UpdateIDPassport(p)
  <2>1. LinksKept
    BY <1>0, <1>4, RowTypes DEF UpdateIDPassport, LinksKept, Client, Account, TypeOK, ProfileRow
  <2>2. \A q \in Request : Harmless(q)
    <3>1. CASE Return(p)
      BY <3>1, ReturnHarmless
    <3>2. CASE Advance(p, "insert")
      BY <1>0, <1>4, <3>2 DEF UpdateIDPassport, Continues, Advance, TypeOK, Local,
                              Harmless, InBooking
    <3>3. QED
      BY <1>4, <3>1, <3>2 DEF UpdateIDPassport
  <2>3. QED
    BY <2>1, <2>2, HarmlessKeepsLinks
<1>5. CASE RoomTaken(p)
  <2>1. LinksKept /\ Return(p)
    BY <1>5 DEF RoomTaken, tables, LinksKept, Account, Client
  <2>2. QED
    BY <2>1, ReturnHarmless, HarmlessKeepsLinks
<1>6. CASE InsertBooking(p)
  <2>1. LinksKept
    BY <1>6 DEF InsertBooking, LinksKept, Account, Client
  <2>2. \A q \in Request : Harmless(q)
    <3>1. CASE Return(p)
      BY <3>1, ReturnHarmless
    <3>2. CASE Advance(p, "org")
      BY <1>0, <1>6, <3>2 DEF InsertBooking, Continues, Advance, TypeOK, Local,
                              Harmless, InBooking
    <3>3. QED
      BY <1>6, <3>1, <3>2 DEF InsertBooking
  <2>3. QED
    BY <2>1, <2>2, HarmlessKeepsLinks
<1>7. CASE UpdateProfileOrg(p)
  <2>1. LinksKept
    BY <1>0, <1>7, RowTypes DEF UpdateProfileOrg, LinksKept, Client, Account, TypeOK,
                                ProfileRow, ProfilesOf
  <2>2. QED
    BY <1>7, <2>1, ReturnHarmless, HarmlessKeepsLinks DEF UpdateProfileOrg
<1>8. CASE WriteIndividual(p)
  <2>1. \A c \in Profile : \/ profiles'[c] = profiles[c]
                           \/ c \in Client /\ profiles'[c].guest = profiles[c].guest
    BY <1>0, <1>8, WrittenProfile DEF TypeOK
  <2>2. LinksKept
    BY <1>8, <2>1 DEF WriteIndividual, LinksKept, Client, Account
  <2>3. QED
    BY <1>8, <2>2, ReturnHarmless, HarmlessKeepsLinks DEF WriteIndividual
<1>9. QED
  BY <1>1, <1>2, <1>3, <1>4, <1>5, <1>6, <1>7, <1>8 DEF Continue

LEMMA ClientsLinked == Spec => []LinksInv
<1>1. Init => LinksInv
  BY DEF Init, LinksInv, Linked, RequestLinked, Client, InTable, Idle, InBooking
<1>2. TypeInv /\ TypeInv' /\ LinksInv /\ [Next]_vars => LinksInv'
  <2> SUFFICES ASSUME TypeInv, TypeInv', LinksInv, [Next]_vars PROVE LinksInv'
    OBVIOUS
  <2>1. CASE Crash
    <3>1. LinksKept /\ \A q \in Request : Harmless(q)
      BY <2>1 DEF Crash, tables, LinksKept, Account, Client, Harmless, Idle, InBooking
    <3>2. QED
      BY <3>1, HarmlessKeepsLinks
  <2>2. CASE UNCHANGED vars
    BY <2>2 DEF vars, tables, LinksInv, Linked, RequestLinked, Client, Account
  <2>3. QED
    BY <2>1, <2>2, AcceptLinked, ContinueLinked DEF Next
<1>3. QED
  BY <1>1, <1>2, ClientsTyped, PTL DEF Spec

-------------------------------------------------------------------------------
(***************************************************************************)
(* An organisation sees a guest's profile only where the guest has stayed. *)
(***************************************************************************)
\* Where a profile may be after a step.
SeenStep(c) ==
    \/ profiles'[c].guest = NoGuest \/ profiles'[c].org = NoOrg
    \/ <<c, profiles'[c].org>> \in stays'
    \/ /\ c \in Client
       /\ profiles'[c].guest = profiles[c].guest /\ profiles'[c].org = profiles[c].org

LEMMA SeenKept ==
    ASSUME SeenOnlyWhereStayed, stays \subseteq stays', \A c \in Client' : SeenStep(c)
    PROVE  SeenOnlyWhereStayed'
BY DEF SeenOnlyWhereStayed, SeenStep

\* The last statement of a guest's booking moves the booked profile or none.
LEMMA MovedIsBooked ==
    ASSUME TypeInv, LinksInv, NEW p \in Request, UpdateProfileOrg(p), NEW c \in Client'
    PROVE  SeenStep(c)
<1> DEFINE Moved == [profiles[c] EXCEPT !.org = req[p].org]
<1>1. /\ TypeOK /\ RequestLinked(p) /\ req[p].pc = "org" /\ req[p].guest \in Account
      /\ stays' = stays /\ c \in Profile
      /\ \/ profiles'[c] = profiles[c]
         \/ c \in ProfilesOf(req[p].guest) /\ profiles'[c] = Moved
  BY DEF TypeInv, LinksInv, UpdateProfileOrg, Continues, Client, Typed
<1>2. CASE profiles'[c] = profiles[c]
  BY <1>1, <1>2 DEF SeenStep, Client
<1>3. CASE c \in ProfilesOf(req[p].guest) /\ profiles'[c] = Moved
  <2>1. c \in Client /\ profiles[c].guest = req[p].guest /\ profiles[c] \in ProfileRow
    BY <1>1, <1>3, RowTypes DEF ProfilesOf
  <2>2. c = req[p].client /\ <<c, req[p].org>> \in stays
    BY <1>1, <2>1, ClientsAssumption DEF RequestLinked, InBooking, Account
  <2>3. Moved.org = req[p].org
    BY <2>1 DEF ProfileRow
  <2>4. QED
    BY <1>1, <1>3, <2>2, <2>3 DEF SeenStep
<1>4. QED
  BY <1>1, <1>2, <1>3

LEMMA AcceptSeen ==
    ASSUME TypeInv, SeenOnlyWhereStayed, NEW p \in Request, Accept(p)
    PROVE  SeenOnlyWhereStayed'
<1>0. TypeOK
  BY DEF TypeInv
<1>1. CASE UNCHANGED <<profiles, stays>>
  BY <1>1 DEF SeenOnlyWhereStayed, Client
<1>2. CASE CreateIndividual(p) \/ BookForNewClient(p)
  <2>1. PICK c \in Profile, org \in Org, email \in Email, id \in IdNumber \cup {Blank} :
          InsertIndividual(c, org, email, id)
    BY <1>2 DEF CreateIndividual, BookForNewClient
  <2>2. stays' = stays /\ profiles'[c].guest = NoGuest
    BY <1>0, <2>1 DEF InsertIndividual, NewProfile, TypeOK
  <2>3. \A d \in Client' : SeenStep(d)
    BY <1>0, <2>1, <2>2 DEF InsertIndividual, SeenStep, Client, TypeOK
  <2>4. QED
    BY <2>2, <2>3, SeenKept
<1>3. CASE DeleteIndividual(p)
  <2>1. \A d \in Client' : SeenStep(d)
    BY <1>0, <1>3, RowsInTable DEF DeleteIndividual, SeenStep, Client, TypeOK
  <2>2. QED
    BY <1>3, <2>1, SeenKept DEF DeleteIndividual
<1>4. QED
  BY <1>1, <1>2, <1>3
  DEF Accept, Register, ResetPassword, UpdateProfile, Book, UpdateIndividual,
      BookForClient, Starts, tables

LEMMA ContinueSeen ==
    ASSUME TypeInv, LinksInv, SeenOnlyWhereStayed, NEW p \in Request, Continue(p)
    PROVE  SeenOnlyWhereStayed'
<1>0. TypeOK /\ Typed(req[p], Account)
  BY DEF TypeInv
<1>1. CASE UNCHANGED profiles /\ stays \subseteq stays'
  <2>1. \A c \in Client' : SeenStep(c)
    BY <1>1 DEF SeenStep, Client
  <2>2. QED
    BY <1>1, <2>1, SeenKept
<1>2. CASE CreateIndividualProfile(p)
  <2>1. PICK c \in Profile, row \in {NewProfile(req[p].guest, NoOrg, req[p].row.email, NoId)} :
          /\ stays' = stays
          /\ profiles' = IF Fits(c, row) THEN [profiles EXCEPT ![c] = row] ELSE profiles
    BY <1>2 DEF CreateIndividualProfile
  <2>2. row.org = NoOrg
    BY DEF NewProfile
  <2>3. \A d \in Client' : SeenStep(d)
    BY <1>0, <2>1, <2>2 DEF SeenStep, Client, TypeOK
  <2>4. QED
    BY <2>1, <2>3, SeenKept
<1>3. CASE UpdateIDPassport(p)
  <2>1. \A d \in Client' : SeenStep(d)
    BY <1>0, <1>3, RowTypes DEF UpdateIDPassport, SeenStep, Client, TypeOK, ProfileRow
  <2>2. QED
    BY <1>3, <2>1, SeenKept DEF UpdateIDPassport
<1>4. CASE UpdateProfileOrg(p)
  BY <1>4, MovedIsBooked, SeenKept DEF UpdateProfileOrg
<1>5. CASE WriteIndividual(p)
  <2>1. \A d \in Client' : SeenStep(d)
    BY <1>0, <1>5, WrittenProfile DEF SeenStep, Client
  <2>2. QED
    BY <1>5, <2>1, SeenKept DEF WriteIndividual
<1>6. QED
  BY <1>1, <1>2, <1>3, <1>4, <1>5
  DEF Continue, Create, UpdatePassword, UpdateGuest, RoomTaken, InsertBooking, tables

\* A guest's profile is only ever in an organisation that a booking of that
\* very profile was inserted for, however many bookings, edits and deletions
\* are in flight: what the last statement of CreateGuest moves is what its
\* INSERT booked.
THEOREM AlwaysSeenOnlyWhereStayed == Spec => []SeenOnlyWhereStayed
<1>1. Init => SeenOnlyWhereStayed
  BY DEF Init, SeenOnlyWhereStayed, Client, InTable
<1>2. TypeInv /\ LinksInv /\ SeenOnlyWhereStayed /\ [Next]_vars => SeenOnlyWhereStayed'
  <2> SUFFICES ASSUME TypeInv, LinksInv, SeenOnlyWhereStayed, [Next]_vars
               PROVE  SeenOnlyWhereStayed'
    OBVIOUS
  <2>1. CASE Crash \/ UNCHANGED vars
    BY <2>1 DEF Crash, vars, tables, SeenOnlyWhereStayed, Client
  <2>2. QED
    BY <2>1, AcceptSeen, ContinueSeen DEF Next
<1>3. QED
  BY <1>1, <1>2, ClientsTyped, ClientsLinked, PTL DEF Spec

-------------------------------------------------------------------------------
(***************************************************************************)
(* A registration is whole, or was cut short.                              *)
(***************************************************************************)
Pending(g) == \E p \in Request : req[p].pc = "profile" /\ req[p].guest = g

NoneForgotten ==
    \A g \in Account : g \in cut \/ Pending(g) \/ \E c \in Client : profiles[c].guest = g

\* Profiles stay with their guests, but for those that are cut off.
ProfilesStay ==
    /\ Account' = Account /\ cut \subseteq cut'
    /\ \A c \in Client :
          \/ c \in Client' /\ profiles'[c].guest = profiles[c].guest
          \/ profiles[c].guest \in cut' \cup {NoGuest}

LEMMA NoneForgottenKept ==
    ASSUME NoneForgotten, ProfilesStay,
           \A p \in Request : req[p].pc = "profile" => req'[p] = req[p]
    PROVE  NoneForgotten'
BY ClientsAssumption DEF NoneForgotten, ProfilesStay, Pending, Account

LEMMA AcceptWhole ==
    ASSUME TypeInv, NoneForgotten, NEW p \in Request, MayStart(p), Accept(p)
    PROVE  NoneForgotten'
<1>0. TypeOK /\ \A q \in Request : req[q].pc = "profile" => req'[q] = req[q]
  BY AcceptOthers DEF TypeInv, MayStart, Idle
<1>1. CASE CreateIndividual(p) \/ BookForNewClient(p)
  <2>1. PICK c \in Profile :
          /\ profiles[c] = Unused /\ UNCHANGED <<guests, cut>>
          /\ \E row : profiles' = [profiles EXCEPT ![c] = row]
    BY <1>1 DEF CreateIndividual, BookForNewClient, InsertIndividual, AtOnce
  <2>2. ProfilesStay
    BY <1>0, <2>1, RowsInTable DEF ProfilesStay, Client, Account, TypeOK
  <2>3. QED
    BY <1>0, <2>2, NoneForgottenKept
<1>2. CASE DeleteIndividual(p)
  <2>1. ProfilesStay
    BY <1>0, <1>2 DEF DeleteIndividual, ProfilesStay, Client, Account, TypeOK
  <2>2. QED
    BY <1>0, <2>1, NoneForgottenKept
<1>3. CASE UNCHANGED tables /\ UNCHANGED cut
  <2>1. ProfilesStay
    BY <1>3 DEF tables, ProfilesStay, Client, Account
  <2>2. QED
    BY <1>0, <2>1, NoneForgottenKept
<1>4. QED
  BY <1>1, <1>2, <1>3
  DEF Accept, Register, ResetPassword, UpdateProfile, Book, UpdateIndividual,
      BookForClient, Starts

\* The account that was inserted still waits for its profile.
LEMMA CreateWhole ==
    ASSUME TypeInv, NoneForgotten, NEW p \in Request, Create(p)
    PROVE  NoneForgotten'
<1> DEFINE g == req[p].guest
<1>1. /\ TypeOK /\ g \in Guest /\ req[p].pc = "create"
      /\ UNCHANGED <<profiles, cut>> /\ Client' = Client
  BY DEF TypeInv, Create, Continues, Typed, Client
<1>2. \A q \in Request : req[q].pc = "profile" => req'[q] = req[q]
  BY <1>1 DEF Create, Advance, Return, TypeOK
<1>3. CASE UNCHANGED guests
  <2>1. ProfilesStay
    BY <1>1, <1>3 DEF ProfilesStay, Account
  <2>2. QED
    BY <1>2, <2>1, NoneForgottenKept
<1>4. CASE guests' = [guests EXCEPT ![g] = req[p].row] /\ Advance(p, "profile")
  <2>1. Account' \subseteq Account \cup {g}
    BY <1>1, <1>4 DEF Account, TypeOK
  <2>2. Pending(g)'
    <3>1. req'[p].pc = "profile" /\ req'[p].guest = g
      BY <1>1, <1>4 DEF Advance, TypeOK, Local
    <3>2. QED
      BY <3>1 DEF Pending
  <2>3. \A h \in Account : Pending(h) => Pending(h)'
    BY <1>2 DEF Pending
  <2>4. QED
    <3>1. ASSUME NEW h \in Account'
          PROVE  h \in cut' \/ Pending(h)' \/ \E c \in Client' : profiles'[c].guest = h
      <4>1. CASE h = g
        BY <4>1, <1>1, <1>4 DEF Pending, Advance, TypeOK, Local
      <4>2. CASE h # g
        BY <1>1, <2>1, <2>3, <4>2 DEF NoneForgotten
      <4>3. QED
        BY <4>1, <4>2
    <3>2. QED
      BY <3>1 DEF NoneForgotten
<1>5. QED
  BY <1>3, <1>4 DEF Create

\* The profile of the registration is inserted, for nothing clashes with it.
LEMMA CreateProfileWhole ==
    ASSUME TypeInv, NoneForgotten, NEW p \in Request, CreateIndividualProfile(p)
    PROVE  NoneForgotten'
<1> DEFINE g == req[p].guest
<1>1. /\ TypeOK /\ Account' = Account /\ cut' = cut /\ Return(p)
      /\ g \in Guest /\ req[p].row \in GuestRow
  BY DEF TypeInv, CreateIndividualProfile, Continues, Account, Typed
<1>2. PICK c \in Profile :
        /\ profiles[c] = Unused
        /\ profiles' = [profiles EXCEPT
              ![c] = NewProfile(g, NoOrg, req[p].row.email, NoId)]
  BY DEF CreateIndividualProfile, Fits, NewProfile
<1>3. NewProfile(g, NoOrg, req[p].row.email, NoId) \in ProfileRow
  BY <1>1, ProfileRows DEF GuestRow
<1>4. c \in Client' /\ profiles'[c].guest = g
  BY <1>1, <1>2, <1>3, RowsInTable DEF Client, NewProfile, TypeOK
<1>5. \A d \in Client : d \in Client' /\ profiles'[d].guest = profiles[d].guest
  BY <1>1, <1>2, RowsInTable DEF Client, TypeOK
<1>6. \A h \in Account \ {g} : Pending(h) => Pending(h)'
  BY <1>1 DEF Pending, Return, TypeOK
<1>7. QED
  BY <1>1, <1>4, <1>5, <1>6 DEF NoneForgotten

LEMMA ContinueWhole ==
    ASSUME TypeInv, TypeInv', NoneForgotten, NEW p \in Request, Continue(p)
    PROVE  NoneForgotten'
<1>0. TypeOK
  BY DEF TypeInv
<1>1. CASE Create(p) \/ CreateIndividualProfile(p)
  BY <1>1, CreateWhole, CreateProfileWhole
<1>2. CASE ~(Create(p) \/ CreateIndividualProfile(p))
  <2>1. /\ cut' = cut /\ req[p].pc # "profile"
        /\ \A q \in Request \ {p} : req'[q] = req[q]
    BY <1>0, <1>2 DEF Continue, Continues, UpdatePassword, UpdateGuest, UpdateIDPassport,
        RoomTaken, InsertBooking, UpdateProfileOrg, WriteIndividual, Return, Advance, TypeOK
  <2>2. Account' = Account
    <3>1. CASE UpdatePassword(p) \/ UpdateGuest(p)
      <4>1. \A g \in Guest : guests'[g] = guests[g] \/ g = req[p].guest
        BY <1>0, <3>1 DEF UpdatePassword, UpdateGuest, TypeOK
      <4>2. req[p].guest \in Account
        BY <3>1 DEF UpdatePassword, UpdateGuest, Continues, TypeInv, Typed
      <4>3. Account \subseteq Account'
        BY <3>1, AccountWritten
      <4>4. QED
        BY <4>1, <4>2, <4>3 DEF Account
    <3>2. CASE UNCHANGED guests
      BY <3>2 DEF Account
    <3>3. QED
      BY <1>2, <3>1, <3>2
      DEF Continue, UpdateIDPassport, RoomTaken, InsertBooking, UpdateProfileOrg,
          WriteIndividual, tables
  <2>3. \A c \in Client : c \in Client' /\ profiles'[c].guest = profiles[c].guest
    <3>1. CASE UNCHANGED profiles
      BY <3>1 DEF Client
    <3>2. CASE UpdateIDPassport(p)
      <4> DEFINE d == req[p].client  row == [profiles[d] EXCEPT !.id = req[p].id]
      <4>1. \/ profiles' = profiles
            \/ d \in Client /\ profiles' = [profiles EXCEPT ![d] = row]
        BY <1>0, <3>2 DEF UpdateIDPassport, Continues, TypeInv, Typed, Client
      <4>2. req[p].id \in IdNumber \cup {NoId}
        BY <1>0 DEF TypeOK, Local
      <4>3. d \in Client => row \in ProfileRow /\ row.guest = profiles[d].guest
        BY <1>0, <4>2, RowTypes DEF ProfileRow
      <4>4. QED
        BY <1>0, <4>1, <4>3, RowsInTable DEF Client, TypeOK
    <3>3. CASE UpdateProfileOrg(p)
      <4>1. req[p].org \in Org
        BY <3>3 DEF UpdateProfileOrg, Continues, TypeInv, Typed
      <4>2. ASSUME NEW c \in Client
            PROVE  profiles'[c] \in ProfileRow /\ profiles'[c].guest = profiles[c].guest
        <5>1. profiles[c] \in ProfileRow /\ c \in Profile
          BY <1>0, RowTypes DEF Client
        <5>2. profiles'[c] \in {profiles[c], [profiles[c] EXCEPT !.org = req[p].org]}
          BY <3>3, <5>1 DEF UpdateProfileOrg
        <5>3. QED
          BY <4>1, <5>1, <5>2 DEF ProfileRow
      <4>3. QED
        BY <4>2, RowsInTable DEF Client
    <3>4. CASE WriteIndividual(p)
      <4> DEFINE d == req[p].client
                 row == [profiles[d] EXCEPT !.email = req[p].row.email, !.id = req[p].row.id]
      <4>1. /\ req[p].row \in ProfileRow
            /\ \/ profiles' = profiles
               \/ d \in Client /\ profiles' = [profiles EXCEPT ![d] = row]
        BY <1>0, <3>4 DEF WriteIndividual, Matches, Continues, TypeInv, Typed, Client
      <4>2. d \in Client => row \in ProfileRow /\ row.guest = profiles[d].guest
        BY <1>0, <4>1, RowTypes DEF ProfileRow
      <4>3. QED
        BY <1>0, <4>1, <4>2, RowsInTable DEF Client, TypeOK
    <3>5. QED
      BY <1>2, <3>1, <3>2, <3>3, <3>4
      DEF Continue, UpdatePassword, UpdateGuest, RoomTaken, InsertBooking, tables
  <2>4. ProfilesStay
    BY <2>1, <2>2, <2>3 DEF ProfilesStay
  <2>5. QED
    BY <2>1, <2>4, NoneForgottenKept
<1>3. QED
  BY <1>1, <1>2

\* Every account has one profile or none, and has one from the statement
\* after its own INSERT on; only a crash between the two, or a desk that
\* deletes the profile, leaves an account without.
THEOREM AlwaysRegisteredIsWhole == Spec => []RegisteredIsWhole
<1>1. Init => NoneForgotten
  BY DEF Init, NoneForgotten, Account, InTable
<1>2. TypeInv /\ TypeInv' /\ NoneForgotten /\ [Next]_vars => NoneForgotten'
  <2> SUFFICES ASSUME TypeInv, TypeInv', NoneForgotten, [Next]_vars
               PROVE  NoneForgotten'
    OBVIOUS
  <2>1. CASE Crash
    <3>1. /\ Account' = Account /\ Client' = Client /\ UNCHANGED profiles
          /\ cut \subseteq cut' /\ \A g \in Account : Pending(g) => g \in cut'
      BY <2>1 DEF Crash, tables, Account, Client, Pending
    <3>2. QED
      BY <3>1 DEF NoneForgotten
  <2>2. CASE UNCHANGED vars
    BY <2>2 DEF vars, tables, NoneForgotten, Account, Client, Pending
  <2>3. QED
    BY <2>1, <2>2, AcceptWhole, ContinueWhole DEF Next
<1>3. TypeInv /\ LinksInv /\ NoneForgotten => RegisteredIsWhole
  <2> SUFFICES ASSUME LinksInv, NoneForgotten, NEW g \in Account
               PROVE  /\ Cardinality(ProfilesOf(g)) <= 1
                      /\ ProfilesOf(g) = {} => g \in cut \/ Pending(g)
    BY DEF RegisteredIsWhole, Pending
  <2>1. ASSUME NEW c \in ProfilesOf(g) PROVE ProfilesOf(g) = {c}
    BY <2>1, ClientsAssumption DEF LinksInv, Linked, ProfilesOf, Account
  <2>2. Cardinality(ProfilesOf(g)) <= 1
    <3>1. CASE ProfilesOf(g) = {}
      BY <3>1, FS_EmptySet
    <3>2. CASE \E c \in ProfilesOf(g) : ProfilesOf(g) = {c}
      BY <3>2, FS_Singleton
    <3>3. QED
      BY <2>1, <3>1, <3>2
  <2>3. ProfilesOf(g) = {} => g \in cut \/ Pending(g)
    BY DEF NoneForgotten, ProfilesOf
  <2>4. QED
    BY <2>2, <2>3
<1>4. QED
  BY <1>1, <1>2, <1>3, ClientsTyped, ClientsLinked, PTL DEF Spec

-------------------------------------------------------------------------------
(***************************************************************************)
(* What no step does.                                                      *)
(***************************************************************************)
\* An edit that began when the client was the desk's is dropped when the
\* client has moved: the UPDATE itself names the organisation.
THEOREM EditsAlwaysStayHome == Spec => EditsStayHome
<1>1. ASSUME TypeInv, [Next]_vars, NEW p \in Request, NEW c \in Profile,
             req[p].pc = "client", req'[p] # req[p], profiles'[c] # profiles[c]
      PROVE  profiles[c].org = req[p].org
  <2>1. CASE Crash \/ UNCHANGED vars
    BY <1>1, <2>1 DEF Crash, vars, tables
  <2>2. CASE \E q \in Request : MayStart(q) /\ Accept(q)
    BY <1>1, <2>2, AcceptOthers DEF MayStart, Idle, TypeInv
  <2>3. CASE \E q \in Request : Continue(q)
    <3>1. PICK q \in Request : Continue(q)
      BY <2>3
    <3>2. q = p
      BY <1>1, <3>1 DEF TypeInv, TypeOK, Continue, Create, CreateIndividualProfile,
          UpdatePassword, UpdateGuest, UpdateIDPassport, RoomTaken, InsertBooking,
          UpdateProfileOrg, WriteIndividual, Return, Advance
    <3>3. WriteIndividual(p)
      BY <1>1, <3>1, <3>2 DEF Continue, Continues, Create, CreateIndividualProfile,
          UpdatePassword, UpdateGuest, UpdateIDPassport, RoomTaken, InsertBooking,
          UpdateProfileOrg
    <3>4. QED
      BY <1>1, <3>3, WrittenProfile DEF Matches, TypeInv
  <2>4. QED
    BY <1>1, <2>1, <2>2, <2>3 DEF Next
<1>2. TypeInv /\ [Next]_vars =>
        [\A p \in Request, c \in Profile :
            req[p].pc = "client" /\ req'[p] # req[p] /\ profiles'[c] # profiles[c] =>
                profiles[c].org = req[p].org]_vars
  BY <1>1
<1>3. QED
  BY <1>2, ClientsTyped, PTL DEF Spec, EditsStayHome

\* A password that a reset has mailed is never replaced by the one that an
\* edit of the account read before the reset.
THEOREM ResetAlwaysHolds == Spec => ResetHolds
<1>1. ASSUME TypeInv, [Next]_vars, NEW g \in Account, guests[g].password = "mailed"
      PROVE  guests'[g].password = "mailed"
  <2>0. TypeOK /\ g \in Guest /\ guests[g] \in GuestRow
    BY <1>1, RowTypes DEF TypeInv, Account
  <2>1. CASE guests'[g] = guests[g]
    BY <1>1, <2>1
  <2>2. ASSUME NEW p \in Request, Create(p) PROVE guests'[g] = guests[g]
    BY <2>0, <2>2 DEF Create, Account, InTable, TypeOK
  <2>3. ASSUME NEW p \in Request, UpdatePassword(p) PROVE guests'[g].password = "mailed"
    BY <1>1, <2>0, <2>3 DEF UpdatePassword, TypeOK, GuestRow
  <2>4. ASSUME NEW p \in Request, UpdateGuest(p) PROVE guests'[g].password = "mailed"
    <3>1. req[p].row \in GuestRow
      BY <1>1, <2>4 DEF UpdateGuest, Continues, TypeInv, Typed
    <3>2. Written(p).password = guests[req[p].guest].password
      BY <3>1 DEF Written, GuestRow
    <3>3. QED
      BY <1>1, <2>0, <2>4, <3>2 DEF UpdateGuest, TypeOK
  <2>5. ASSUME NEW p \in Request, Accept(p) PROVE guests' = guests
    BY <2>5 DEF Accept, Starts, tables, Register, ResetPassword, UpdateProfile, Book,
        CreateIndividual, UpdateIndividual, DeleteIndividual, BookForClient,
        BookForNewClient, InsertIndividual
  <2>6. ASSUME NEW p \in Request, Continue(p)
        PROVE  guests' = guests \/ Create(p) \/ UpdatePassword(p) \/ UpdateGuest(p)
    BY <2>6 DEF Continue, CreateIndividualProfile, UpdateIDPassport, RoomTaken, tables,
        InsertBooking, UpdateProfileOrg, WriteIndividual
  <2>7. Crash \/ UNCHANGED vars => guests' = guests
    BY DEF Crash, vars, tables
  <2>8. QED
    BY <1>1, <2>1, <2>2, <2>3, <2>4, <2>5, <2>6, <2>7 DEF Next
<1>2. TypeInv /\ [Next]_vars =>
        [\A g \in Account : guests[g].password = "mailed" =>
                                guests'[g].password = "mailed"]_vars
  BY <1>1
<1>3. QED
  BY <1>2, ClientsTyped, PTL DEF Spec, ResetHolds
==============================================================================
