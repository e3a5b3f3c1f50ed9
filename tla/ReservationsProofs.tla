-------------------------- MODULE ReservationsProofs --------------------------
(***************************************************************************)
(* Theorems about the booking desk, for any number of bookings, rooms,     *)
(* clients, companies and requests in flight and a calendar of any length. *)
(***************************************************************************)
EXTENDS Reservations, FiniteSetTheorems, TLAPS

-------------------------------------------------------------------------------
(***************************************************************************)
(* Facts about the rules and the rows.                                     *)
(***************************************************************************)

\* The arithmetic of stays yields a positive number of nights.
LEMMA NightsPositive ==
    ASSUME NEW in \in Day, NEW out \in Day
    PROVE  Nights(in, out) \in Nat /\ Nights(in, out) > 0
BY ConstantsAssumption DEF Nights, Day

\* A transition leads from a status to a status.
LEMMA TransitionTypes ==
    ASSUME NEW from, NEW to, CanTransition(from, to)
    PROVE  from \in Status /\ to \in Status
BY DEF CanTransition, ValidBookingTransitions, Status

\* A row that exists has a row's type; no other identity has a status.
LEMMA ExistingIsRow ==
    ASSUME TypeOK, NEW b \in Booking, Exists(b)
    PROVE  bookings[b] \in Row
BY DEF TypeOK, Exists, Unused, Deleted, Status

\* A free slot, and the idle job, are well typed.
LEMMA IdleTypes ==
    Idle \in Local /\ JobIdle \in Job
BY ConstantsAssumption
DEF Idle, Local, JobIdle, Job, Step, Status, NoNights, NoDue, Day

\* The row a creating handler inserts is a row.
LEMMA NewRowType ==
    ASSUME NEW room \in Room, NEW client \in Client,
           NEW company \in Company \cup {NoCompany},
           NEW in \in Day, NEW out \in Day
    PROVE  NewRow(room, client, company, in, out) \in Row
BY DEF NewRow, Row, Status

\* What TypeOK says of the requests, and that storing a well-typed local
\* state keeps it.
RequestsOK ==
    /\ req \in [Request -> Local]
    /\ \A p \in Request : req[p].pc \in OnBooking => req[p].b \in Booking

LEMMA GotoType ==
    ASSUME TypeOK, NEW p \in Request, NEW local \in Local, Goto(p, local),
           local.pc \in OnBooking => local.b \in Booking
    PROVE  RequestsOK'
BY DEF TypeOK, Goto, RequestsOK

LEMMA ReturnType ==
    ASSUME TypeOK, NEW p \in Request, Return(p)
    PROVE  RequestsOK'
BY IdleTypes, GotoType DEF Return, Idle, OnBooking

LEMMA InitTypeOK == Init => TypeOK
<1>1. IsFiniteSet({})
  BY FS_EmptySet
<1>2. QED
  BY <1>1, IdleTypes, ConstantsAssumption
  DEF Init, TypeOK, Day, Idle, JobIdle, OnBooking

-------------------------------------------------------------------------------
(***************************************************************************)
(* One lemma for the handlers' first steps, ...                            *)
(***************************************************************************)
LEMMA StartTypeOK ==
    ASSUME TypeOK, NEW p \in Request, Start(p)
    PROVE  TypeOK'
<1>0. UNCHANGED <<bookings, history, invoices, approvals, job, today>>
  BY DEF Start, CreateIndividual, GuestCreate, CreateCorporate, ProcessAction,
         UpdateStatus, GuestCancel, Update, Delete
<1>1. SUFFICES RequestsOK'
  BY <1>0 DEF TypeOK, RequestsOK
<1>2. CASE CreateIndividual(p)
  <2>1. PICK room \in Room, client \in Client, in \in Day, out \in Day :
           Goto(p, [Idle EXCEPT !.pc = "duplicate",
                      !.draft = {NewRow(room, client, NoCompany, in, out)}])
    BY <1>2 DEF CreateIndividual
  <2>2. NewRow(room, client, NoCompany, in, out) \in Row
    BY NewRowType
  <2>3. QED
    BY <2>1, <2>2, IdleTypes, GotoType DEF Idle, Local, Step, OnBooking
<1>3. CASE GuestCreate(p)
  <2>1. PICK room \in Room, client \in Client, in \in Day, out \in Day :
           Goto(p, [Idle EXCEPT !.pc = "guest_insert",
                      !.draft = {NewRow(room, client, NoCompany, in, out)}])
    BY <1>3 DEF GuestCreate
  <2>2. NewRow(room, client, NoCompany, in, out) \in Row
    BY NewRowType
  <2>3. QED
    BY <2>1, <2>2, IdleTypes, GotoType DEF Idle, Local, Step, OnBooking
<1>4. CASE CreateCorporate(p)
  <2>1. PICK company \in Company : \E list \in GuestLists(company) :
           Goto(p, [Idle EXCEPT !.pc = "corporate_commit",
                      !.company = company, !.draft = list])
    BY <1>4 DEF CreateCorporate
  <2>2. PICK list \in GuestLists(company) :
           Goto(p, [Idle EXCEPT !.pc = "corporate_commit",
                      !.company = company, !.draft = list])
    BY <2>1
  <2>3. list \subseteq Row
    BY <2>2, NewRowType DEF GuestLists
  <2>4. QED
    BY <2>2, <2>3, IdleTypes, GotoType DEF Idle, Local, Step, OnBooking
<1>5. CASE ProcessAction(p)
  BY <1>5, IdleTypes, GotoType DEF ProcessAction, TypeOK, Local, Step, OnBooking, Status
<1>6. CASE UpdateStatus(p)
  <2>1. PICK b \in Booking, to \in Status :
           /\ Exists(b)
           /\ Goto(p, [Idle EXCEPT !.pc = "status_write", !.b = b, !.to = to,
                                   !.company = bookings[b].company])
    BY <1>6 DEF UpdateStatus
  <2>2. bookings[b].company \in Company \cup {NoCompany}
    BY <2>1, ExistingIsRow DEF Row
  <2>3. QED
    BY <2>1, <2>2, IdleTypes, GotoType DEF Idle, Local, Step, OnBooking
<1>7. CASE GuestCancel(p)
  BY <1>7, IdleTypes, GotoType DEF GuestCancel, Local, Step, OnBooking, Status
<1>8. CASE Update(p)
  <2>1. PICK b \in Booking, in \in Day, out \in Day, dated \in BOOLEAN :
           /\ Active(b)
           /\ Goto(p, [Idle EXCEPT !.pc = "update_check", !.b = b,
                         !.checkIn = in, !.checkOut = out, !.dated = dated,
                         !.draft = {bookings[b]}])
    BY <1>8 DEF Update
  <2>2. bookings[b] \in Row
    BY <2>1, ExistingIsRow DEF Active, Exists, ActiveStatus, Status
  <2>3. PICK local :
           /\ Goto(p, local)
           /\ local = [Idle EXCEPT !.pc = "update_check", !.b = b,
                         !.checkIn = in, !.checkOut = out, !.dated = dated,
                         !.draft = {bookings[b]}]
    BY <2>1
  <2>4. local \in Local
    BY <2>2, <2>3, IdleTypes DEF Local, Step
  <2>5. local.b = b
    BY <2>3 DEF Idle
  <2>6. QED
    BY <2>3, <2>4, <2>5, GotoType
<1>9. CASE Delete(p)
  BY <1>9, IdleTypes, GotoType DEF Delete, Local, Step
<1>10. QED
  BY <1>2, <1>3, <1>4, <1>5, <1>6, <1>7, <1>8, <1>9 DEF Start

(***************************************************************************)
(* ... for the statements they share, ...                                  *)
(***************************************************************************)
LEMMA InsertRowsType ==
    ASSUME TypeOK, NEW ids \in SUBSET Booking, NEW new \in [ids -> Row],
           InsertRows(new)
    PROVE  /\ bookings' \in [Booking -> Row \cup {Unused, Deleted}]
           /\ history' \in [Booking -> SUBSET (Status \cup {"overstayed"})]
BY DEF TypeOK, InsertRows, Status

LEMMA SetStatusType ==
    ASSUME TypeOK, NEW b \in Booking \cup {NoBooking}, NEW to \in Status,
           SetStatus(b, to), Exists(b) => b \in Booking
    PROVE  /\ bookings' \in [Booking -> Row \cup {Unused, Deleted}]
           /\ history' \in [Booking -> SUBSET (Status \cup {"overstayed"})]
<1>1. CASE ~Exists(b)
  BY <1>1 DEF SetStatus, TypeOK
<1>2. CASE Exists(b)
  <2>1. bookings[b] \in Row
    BY <1>2, ExistingIsRow
  <2>2. [bookings[b] EXCEPT !.status = to] \in Row
    BY <2>1 DEF Row
  <2>3. QED
    BY <1>2, <2>2 DEF SetStatus, TypeOK
<1>3. QED
  BY <1>1, <1>2

LEMMA SetDatesType ==
    ASSUME TypeOK, NEW b \in Booking \cup {NoBooking},
           NEW in \in Day, NEW out \in Day,
           SetDates(b, in, out), Exists(b) => b \in Booking
    PROVE  bookings' \in [Booking -> Row \cup {Unused, Deleted}]
<1>1. CASE ~Exists(b)
  BY <1>1 DEF SetDates, TypeOK
<1>2. CASE Exists(b)
  <2>1. bookings[b] \in Row
    BY <1>2, ExistingIsRow
  <2>2. [bookings[b] EXCEPT !.checkIn = in, !.checkOut = out] \in Row
    BY <2>1 DEF Row
  <2>3. QED
    BY <1>2, <2>2 DEF SetDates, TypeOK
<1>3. QED
  BY <1>1, <1>2

\* An UPDATE of the invoices table leaves a finite table of invoices.
LEMMA EditInvoicesType ==
    ASSUME TypeOK, NEW edit \in [invoices -> Invoice],
           invoices' = {edit[i] : i \in invoices}
    PROVE  invoices' \subseteq Invoice /\ IsFiniteSet(invoices')
<1>1. edit \in Surjection(invoices, invoices')
  BY DEF Surjection
<1>2. QED
  BY <1>1, FS_Surjection DEF TypeOK

(***************************************************************************)
(* ... one for the steps that follow, ...                                  *)
(***************************************************************************)
LEMMA ContinueTypeOK ==
    ASSUME TypeOK, NEW p \in Request, Continue(p)
    PROVE  TypeOK'
<1>0. /\ req[p] \in Local
      /\ req[p].pc \in OnBooking => req[p].b \in Booking
  BY DEF TypeOK
<1>1. UNCHANGED <<job, today>>
  BY DEF Continue, CheckDuplicate, InsertBooking, GuestInsert,
         InitiateWorkflow, CloseInstance, UpdateEntityStatus, CommitCorporate,
         GenerateCorporateInvoice, UpdateStatusTx, GenerateForBooking,
         GenerateInvoiceNumber, InsertInvoice, UpdateCheckRoom, UpdateWrite,
         RecalculateRoomCharge, UpdateRoomLineItem, DeleteRow
<1>2. SUFFICES /\ RequestsOK'
               /\ bookings' \in [Booking -> Row \cup {Unused, Deleted}]
               /\ history' \in [Booking -> SUBSET (Status \cup {"overstayed"})]
               /\ invoices' \subseteq Invoice /\ IsFiniteSet(invoices')
               /\ approvals' \subseteq Booking
  BY <1>1 DEF TypeOK, RequestsOK
<1>3. CASE CheckDuplicate(p)
  BY <1>0, <1>3, ReturnType, GotoType
  DEF CheckDuplicate, TypeOK, Local, Step, OnBooking
<1>4. CASE InsertBooking(p)
  <2>1. CASE NoIdentityLeft(1) /\ UNCHANGED <<bookings, history>>
    BY <1>4, <2>1, ReturnType DEF InsertBooking, TypeOK
  <2>2. CASE \E b \in Unborn, r \in req[p].draft : InsertRows([x \in {b} |-> r])
    <3>1. PICK b \in Unborn, r \in req[p].draft : InsertRows([x \in {b} |-> r])
      BY <2>2
    <3>2. {b} \in SUBSET Booking /\ [x \in {b} |-> r] \in [{b} -> Row]
      BY <1>0, <3>1 DEF Unborn, Local
    <3>3. QED
      BY <1>4, <3>1, <3>2, InsertRowsType, ReturnType DEF InsertBooking, TypeOK
  <2>3. QED
    BY <1>4, <2>1, <2>2 DEF InsertBooking
<1>5. CASE GuestInsert(p)
  <2>1. CASE NoIdentityLeft(1) /\ Return(p) /\ UNCHANGED <<bookings, history>>
    BY <1>5, <2>1, ReturnType DEF GuestInsert, TypeOK
  <2>2. CASE \E b \in Unborn, r \in req[p].draft :
               /\ InsertRows([x \in {b} |-> r])
               /\ Goto(p, [Idle EXCEPT !.pc = "initiate", !.b = b])
    <3>1. PICK b \in Unborn, r \in req[p].draft :
               /\ InsertRows([x \in {b} |-> r])
               /\ Goto(p, [Idle EXCEPT !.pc = "initiate", !.b = b])
      BY <2>2
    <3>2. {b} \in SUBSET Booking /\ [x \in {b} |-> r] \in [{b} -> Row]
      BY <1>0, <3>1 DEF Unborn, Local
    <3>3. RequestsOK'
      BY <3>1, <3>2, IdleTypes, GotoType DEF Idle, Local, Step, OnBooking
    <3>4. QED
      BY <1>5, <3>1, <3>2, <3>3, InsertRowsType DEF GuestInsert, TypeOK
  <2>3. QED
    BY <1>5, <2>1, <2>2 DEF GuestInsert
<1>6. CASE InitiateWorkflow(p)
  BY <1>0, <1>6, ReturnType DEF InitiateWorkflow, At, OnBooking, TypeOK
<1>7. CASE CloseInstance(p)
  <2>1. RequestsOK'
    BY <1>0, <1>7, GotoType DEF CloseInstance, At, Local, Step, OnBooking
  <2>2. QED
    BY <1>7, <2>1 DEF CloseInstance, TypeOK
<1>8. CASE UpdateEntityStatus(p)
  BY <1>0, <1>8, SetStatusType, ReturnType
  DEF UpdateEntityStatus, At, OnBooking, Local, TypeOK
<1>9. CASE CommitCorporate(p)
  <2>1. CASE /\ NoIdentityLeft(Cardinality(req[p].draft)) /\ Return(p)
             /\ UNCHANGED <<bookings, history>>
    BY <1>9, <2>1, ReturnType DEF CommitCorporate, TypeOK
  <2>2. CASE \E ids \in SUBSET Unborn : \E new \in [ids -> req[p].draft] :
               /\ InsertRows(new)
               /\ Goto(p, [Idle EXCEPT !.pc = "corporate_invoice",
                             !.company = req[p].company, !.batch = ids])
    <3>1. PICK ids \in SUBSET Unborn : \E new \in [ids -> req[p].draft] :
               /\ InsertRows(new)
               /\ Goto(p, [Idle EXCEPT !.pc = "corporate_invoice",
                             !.company = req[p].company, !.batch = ids])
      BY <2>2
    <3>2. PICK new \in [ids -> req[p].draft] :
               /\ InsertRows(new)
               /\ Goto(p, [Idle EXCEPT !.pc = "corporate_invoice",
                             !.company = req[p].company, !.batch = ids])
      BY <3>1
    <3>3. ids \in SUBSET Booking /\ new \in [ids -> Row]
      BY <1>0, <3>2 DEF Unborn, Local
    <3>4. RequestsOK'
      <4>1. PICK local :
               /\ Goto(p, local)
               /\ local = [Idle EXCEPT !.pc = "corporate_invoice",
                             !.company = req[p].company, !.batch = ids]
        BY <3>2
      <4>2. local \in Local
        BY <1>0, <3>3, <4>1, IdleTypes DEF Local, Step
      <4>3. local.pc \notin OnBooking
        BY <4>1 DEF Idle, OnBooking
      <4>4. QED
        BY <4>1, <4>2, <4>3, GotoType
    <3>5. QED
      BY <1>9, <3>2, <3>3, <3>4, InsertRowsType DEF CommitCorporate, TypeOK
  <2>3. QED
    BY <1>9, <2>1, <2>2 DEF CommitCorporate
<1>10. CASE GenerateCorporateInvoice(p)
  <2>1. RequestsOK'
    <3>1. CASE Return(p)
      BY <3>1, ReturnType
    <3>2. CASE ~Return(p)
      <4>1. PICK found, local :
               /\ found = {b \in req[p].batch : Exists(b)}
               /\ Goto(p, local)
               /\ local = [req[p] EXCEPT
                    !.pc = "invoice_number",
                    !.nights = [b \in Booking |->
                        IF b \in found
                        THEN Nights(bookings[b].checkIn, bookings[b].checkOut)
                        ELSE 0]]
        BY <1>10, <3>2 DEF GenerateCorporateInvoice
      <4>2. ASSUME NEW b \in Booking
            PROVE  (IF b \in found
                    THEN Nights(bookings[b].checkIn, bookings[b].checkOut)
                    ELSE 0) \in Nat
        BY <4>1, <4>2, ExistingIsRow, NightsPositive DEF Row
      <4>3. local \in Local
        BY <1>0, <4>1, <4>2 DEF Local, Step
      <4>4. local.pc \notin OnBooking
        BY <1>0, <4>1 DEF Local, OnBooking
      <4>5. QED
        BY <4>1, <4>3, <4>4, GotoType
    <3>3. QED
      BY <3>1, <3>2
  <2>2. QED
    BY <1>10, <2>1 DEF GenerateCorporateInvoice, TypeOK
<1>11. CASE UpdateStatusTx(p)
  <2>1. req[p].b \in Booking /\ req[p].to \in Status
    BY <1>0, <1>11 DEF UpdateStatusTx, At, OnBooking, Local
  <2>2. RequestsOK'
    BY <1>11, <2>1, IdleTypes, ReturnType, GotoType
    DEF UpdateStatusTx, Idle, Local, Step, OnBooking
  <2>3. QED
    BY <1>11, <2>1, <2>2, SetStatusType DEF UpdateStatusTx, TypeOK
<1>12. CASE GenerateForBooking(p)
  <2>1. RequestsOK'
    <3>1. CASE Return(p)
      BY <3>1, ReturnType
    <3>2. CASE ~Return(p)
      <4>0. req[p].b \in Booking
        BY <1>0, <1>12 DEF GenerateForBooking, At, OnBooking
      <4>1. PICK local :
               /\ Exists(req[p].b)
               /\ Goto(p, local)
               /\ local = [req[p] EXCEPT
                    !.pc = "invoice_number",
                    !.nights = [NoNights EXCEPT ![req[p].b] =
                        Nights(bookings[req[p].b].checkIn,
                               bookings[req[p].b].checkOut)],
                    !.due = bookings[req[p].b].checkOut]
        BY <1>12, <3>2 DEF GenerateForBooking
      <4>2. bookings[req[p].b].checkIn \in Day /\ bookings[req[p].b].checkOut \in Day
        BY <4>0, <4>1, ExistingIsRow DEF Row
      <4>3. [NoNights EXCEPT ![req[p].b] =
                        Nights(bookings[req[p].b].checkIn,
                               bookings[req[p].b].checkOut)] \in [Booking -> Nat]
        BY <4>2, NightsPositive DEF NoNights
      <4>4. local \in Local
        BY <1>0, <4>1, <4>2, <4>3 DEF Local, Step
      <4>5. local.b = req[p].b
        BY <1>0, <4>1 DEF Local
      <4>6. QED
        BY <4>0, <4>1, <4>4, <4>5, GotoType
    <3>3. QED
      BY <3>1, <3>2
  <2>2. QED
    BY <1>12, <2>1 DEF GenerateForBooking, TypeOK
<1>13. CASE GenerateInvoiceNumber(p)
  <2>1. Cardinality(invoices) + 1 \in Nat
    BY FS_CardinalityType DEF TypeOK
  <2>2. PICK local :
           /\ Goto(p, local)
           /\ local = [req[p] EXCEPT !.pc = "invoice_insert",
                                     !.number = Cardinality(invoices) + 1]
    BY <1>13 DEF GenerateInvoiceNumber
  <2>3. local \in Local
    BY <1>0, <2>1, <2>2 DEF Local, Step
  <2>4. local.pc \notin OnBooking
    BY <1>0, <2>2 DEF Local, OnBooking
  <2>5. QED
    BY <1>13, <2>2, <2>3, <2>4, GotoType DEF GenerateInvoiceNumber, TypeOK
<1>14. CASE InsertInvoice(p)
  <2>1. RequestsOK'
    BY <1>14, ReturnType DEF InsertInvoice
  <2>2. CASE UNCHANGED invoices
    BY <1>14, <2>1, <2>2 DEF InsertInvoice, TypeOK
  <2>3. CASE invoices' = invoices \cup
                {[number |-> req[p].number, booking |-> req[p].b,
                  company |-> req[p].company, nights |-> req[p].nights,
                  due |-> req[p].due]}
    <3>1. [number |-> req[p].number, booking |-> req[p].b,
           company |-> req[p].company, nights |-> req[p].nights,
           due |-> req[p].due] \in Invoice
      BY <1>0 DEF Local, Invoice, NoDue
    <3>2. invoices' \subseteq Invoice /\ IsFiniteSet(invoices')
      BY <2>3, <3>1, FS_AddElement DEF TypeOK
    <3>3. QED
      BY <1>14, <2>1, <3>2 DEF InsertInvoice, TypeOK
  <2>4. QED
    BY <1>14, <2>2, <2>3 DEF InsertInvoice
<1>15. CASE UpdateCheckRoom(p)
  <2>1. req[p].b \in Booking
    BY <1>0, <1>15 DEF UpdateCheckRoom, At, OnBooking
  <2>2. [req[p] EXCEPT !.pc = "update_write", !.draft = {}] \in Local
    BY <1>0 DEF Local, Step
  <2>3. [req[p] EXCEPT !.pc = "update_write", !.draft = {}].b = req[p].b
    BY <1>0 DEF Local
  <2>4. RequestsOK'
    BY <1>15, <2>1, <2>2, <2>3, ReturnType, GotoType DEF UpdateCheckRoom
  <2>5. QED
    BY <1>15, <2>4 DEF UpdateCheckRoom, TypeOK
<1>16. CASE UpdateWrite(p)
  <2>1. /\ req[p].b \in Booking
        /\ req[p].checkIn \in Day
        /\ req[p].checkOut \in Day
    BY <1>0, <1>16 DEF UpdateWrite, At, OnBooking, Local
  <2>2. RequestsOK'
    BY <1>16, <2>1, IdleTypes, ReturnType, GotoType
    DEF UpdateWrite, Idle, Local, Step, OnBooking
  <2>3. QED
    BY <1>16, <2>1, <2>2, SetDatesType DEF UpdateWrite, TypeOK
<1>17. CASE RecalculateRoomCharge(p)
  <2>1. req[p].b \in Booking
    BY <1>0, <1>17 DEF RecalculateRoomCharge, At, OnBooking
  <2>2. RequestsOK'
    <3>1. CASE Return(p)
      BY <3>1, ReturnType
    <3>2. CASE ~Return(p)
      <4>1. PICK local :
               /\ Exists(req[p].b)
               /\ Goto(p, local)
               /\ local = [req[p] EXCEPT
                    !.pc = "room_line",
                    !.nights = [NoNights EXCEPT ![req[p].b] =
                        Nights(bookings[req[p].b].checkIn,
                               bookings[req[p].b].checkOut)]]
        BY <1>17, <3>2 DEF RecalculateRoomCharge
      <4>2. bookings[req[p].b].checkIn \in Day /\ bookings[req[p].b].checkOut \in Day
        BY <2>1, <4>1, ExistingIsRow DEF Row
      <4>3. [NoNights EXCEPT ![req[p].b] =
                        Nights(bookings[req[p].b].checkIn,
                               bookings[req[p].b].checkOut)] \in [Booking -> Nat]
        BY <4>2, NightsPositive DEF NoNights
      <4>4. local \in Local
        BY <1>0, <4>1, <4>3 DEF Local, Step
      <4>5. local.b = req[p].b
        BY <1>0, <4>1 DEF Local
      <4>6. QED
        BY <2>1, <4>1, <4>4, <4>5, GotoType
    <3>3. QED
      BY <3>1, <3>2
  <2>3. QED
    BY <1>17, <2>2 DEF RecalculateRoomCharge, TypeOK
<1>18. CASE UpdateRoomLineItem(p)
  <2> DEFINE edit == [i \in invoices |->
                 IF i.booking = req[p].b
                 THEN [i EXCEPT !.nights = req[p].nights, !.due = today]
                 ELSE i]
  <2>1. ASSUME NEW i \in Invoice
        PROVE  [i EXCEPT !.nights = req[p].nights, !.due = today] \in Invoice
    BY <1>0 DEF TypeOK, Local, Invoice
  <2>2. edit \in [invoices -> Invoice]
    BY <2>1 DEF TypeOK
  <2>3. invoices' = {edit[i] : i \in invoices}
    BY <1>18 DEF UpdateRoomLineItem
  <2>4. invoices' \subseteq Invoice /\ IsFiniteSet(invoices')
    BY <2>2, <2>3, EditInvoicesType
  <2>5. QED
    BY <1>18, <2>4, ReturnType DEF UpdateRoomLineItem, TypeOK
<1>19. CASE DeleteRow(p)
  BY <1>19, ReturnType DEF DeleteRow, TypeOK
<1>20. QED
  BY <1>3, <1>4, <1>5, <1>6, <1>7, <1>8, <1>9, <1>10, <1>11, <1>12, <1>13,
     <1>14, <1>15, <1>16, <1>17, <1>18, <1>19 DEF Continue

(***************************************************************************)
(* ... and one for what no request does.                                   *)
(***************************************************************************)
LEMMA JobTypeOK ==
    ASSUME TypeOK, JobStep
    PROVE  TypeOK'
<1>0. /\ job \in Job
      /\ job.pc \in {"mark", "due"} => job.cur \in Booking
  BY DEF TypeOK
<1>1. ASSUME NEW refs \in SUBSET Booking, JobNext(refs)
      PROVE  job' \in Job /\ (job'.pc \in {"mark", "due"} => job'.cur \in Booking)
  <2>1. CASE refs = {}
    BY <1>1, <2>1, IdleTypes DEF JobNext, JobIdle
  <2>2. CASE refs # {}
    BY <1>0, <1>1, <2>2 DEF JobNext, Job
  <2>3. QED
    BY <2>1, <2>2
<1>2. CASE JobScan
  <2>1. /\ job' \in Job
        /\ job'.pc = "extend"
    BY <1>2, IdleTypes DEF JobScan, FindOverdueCheckouts, Job, TypeOK
  <2>2. QED
    BY <1>2, <2>1 DEF JobScan, TypeOK
<1>3. CASE ExtendCheckout
  <2>1. PICK b \in job.refs :
           IF Exists(b) /\ bookings[b].checkIn >= job.day
           THEN JobNext(job.refs \ {b}) /\ UNCHANGED bookings
           ELSE /\ IF Exists(b)
                   THEN bookings' = [bookings EXCEPT ![b].checkOut = job.day]
                   ELSE UNCHANGED bookings
                /\ job' = [job EXCEPT !.pc = "mark", !.cur = b]
    BY <1>3 DEF ExtendCheckout
  <2>2. b \in Booking /\ job.day \in Day /\ job.refs \ {b} \in SUBSET Booking
    BY <1>0, <2>1 DEF Job
  <2>3. job' \in Job /\ (job'.pc \in {"mark", "due"} => job'.cur \in Booking)
    <3>1. CASE JobNext(job.refs \ {b})
      BY <1>1, <2>2, <3>1
    <3>2. CASE job' = [job EXCEPT !.pc = "mark", !.cur = b]
      BY <1>0, <2>2, <3>2 DEF Job
    <3>3. QED
      BY <2>1, <3>1, <3>2
  <2>4. bookings' \in [Booking -> Row \cup {Unused, Deleted}]
    <3>1. CASE UNCHANGED bookings
      BY <3>1 DEF TypeOK
    <3>2. CASE /\ Exists(b)
               /\ bookings' = [bookings EXCEPT ![b].checkOut = job.day]
      <4>1. [bookings[b] EXCEPT !.checkOut = job.day] \in Row
        BY <2>2, <3>2, ExistingIsRow DEF Row
      <4>2. QED
        BY <2>2, <3>2, <4>1 DEF TypeOK
    <3>3. QED
      BY <2>1, <3>1, <3>2
  <2>5. QED
    BY <1>3, <2>3, <2>4 DEF ExtendCheckout, TypeOK
<1>4. CASE MarkOverstayed
  <2>1. job.cur \in Booking
    BY <1>0, <1>4 DEF MarkOverstayed
  <2>2. job' \in Job /\ job'.cur \in Booking
    BY <1>0, <1>4, <2>1 DEF MarkOverstayed, Job
  <2>3. CASE ~Exists(job.cur)
    BY <1>4, <2>2, <2>3 DEF MarkOverstayed, TypeOK
  <2>4. CASE Exists(job.cur)
    <3>1. [bookings[job.cur] EXCEPT !.overstayed = TRUE] \in Row
      BY <2>1, <2>4, ExistingIsRow DEF Row
    <3>2. /\ bookings' \in [Booking -> Row \cup {Unused, Deleted}]
          /\ history' \in [Booking -> SUBSET (Status \cup {"overstayed"})]
      BY <1>4, <2>1, <2>4, <3>1 DEF MarkOverstayed, TypeOK
    <3>3. QED
      BY <1>4, <2>2, <3>2 DEF MarkOverstayed, TypeOK
  <2>5. QED
    BY <2>3, <2>4
<1>5. CASE UpdateDueDate
  <2> DEFINE edit == [i \in invoices |->
                 IF i.booking = job.cur THEN [i EXCEPT !.due = job.day] ELSE i]
  <2>1. ASSUME NEW i \in Invoice
        PROVE  [i EXCEPT !.due = job.day] \in Invoice
    BY <1>0 DEF Job, Invoice
  <2>2. edit \in [invoices -> Invoice]
    BY <2>1 DEF TypeOK
  <2>3. invoices' = {edit[i] : i \in invoices}
    BY <1>5 DEF UpdateDueDate
  <2>4. invoices' \subseteq Invoice /\ IsFiniteSet(invoices')
    BY <2>2, <2>3, EditInvoicesType
  <2>5. job' \in Job /\ (job'.pc \in {"mark", "due"} => job'.cur \in Booking)
    BY <1>0, <1>1, <1>5 DEF UpdateDueDate, Job
  <2>6. QED
    BY <1>5, <2>4, <2>5 DEF UpdateDueDate, TypeOK
<1>6. QED
  BY <1>2, <1>3, <1>4, <1>5 DEF JobStep

LEMMA OthersTypeOK ==
    ASSUME TypeOK, ClearOverstayed \/ Tick \/ Crash
    PROVE  TypeOK'
<1>1. CASE ClearOverstayed
  <2>1. PICK b \in Booking :
           Exists(b) /\ bookings' = [bookings EXCEPT ![b].overstayed = FALSE]
    BY <1>1 DEF ClearOverstayed
  <2>2. [bookings[b] EXCEPT !.overstayed = FALSE] \in Row
    BY <2>1, ExistingIsRow DEF Row
  <2>3. QED
    BY <1>1, <2>1, <2>2 DEF ClearOverstayed, TypeOK
<1>2. CASE Tick
  <2>1. today' \in Day
    BY <1>2, ConstantsAssumption DEF Tick, TypeOK, Day
  <2>2. QED
    BY <1>2, <2>1 DEF Tick, TypeOK
<1>3. CASE Crash
  <2>1. Idle.pc \notin OnBooking /\ JobIdle.pc = "idle"
    BY DEF Idle, OnBooking, JobIdle
  <2>2. QED
    BY <1>3, <2>1, IdleTypes DEF Crash, TypeOK
<1>4. QED
  BY <1>1, <1>2, <1>3

LEMMA StepTypeOK ==
    TypeOK /\ [Next]_vars => TypeOK'
<1>1. SUFFICES ASSUME TypeOK, [Next]_vars
               PROVE  TypeOK'
  OBVIOUS
<1>2. CASE \E p \in Request : Start(p) \/ Continue(p)
  BY <1>1, <1>2, StartTypeOK, ContinueTypeOK
<1>3. CASE JobStep
  BY <1>1, <1>3, JobTypeOK
<1>4. CASE ClearOverstayed \/ Tick \/ Crash
  BY <1>1, <1>4, OthersTypeOK
<1>5. CASE UNCHANGED vars
  BY <1>1, <1>5 DEF vars, TypeOK
<1>6. QED
  BY <1>1, <1>2, <1>3, <1>4, <1>5 DEF Next

(***************************************************************************)
(* Type correctness of the whole desk: in every interleaving of any number *)
(* of handlers, the nightly job and crashes, every table and every request *)
(* in flight keeps its type, and no statement runs on a booking it does    *)
(* not name.                                                               *)
(***************************************************************************)
THEOREM TypeCorrect == Spec => []TypeOK
<1>1. Init => TypeOK
  BY InitTypeOK
<1>2. TypeOK /\ [Next]_vars => TypeOK'
  BY StepTypeOK
<1>3. QED
  BY <1>1, <1>2, PTL DEF Spec

-------------------------------------------------------------------------------
(***************************************************************************)
(* StagesInOrder holds in every interleaving: no handler, however late it  *)
(* writes, makes a stay skip a stage.  It is not inductive alone, because  *)
(* a handler writes a status it chose before; what makes the late write    *)
(* harmless is that the statuses a booking has had are never forgotten, so *)
(* that a stage which had been reached when a handler looked is still      *)
(* reached when it writes.                                                 *)
(***************************************************************************)

\* A row's status is part of its history, and an identity that was never
\* used has none.
TableStaged ==
    /\ \A b \in Booking : Exists(b) => bookings[b].status \in history[b]
    /\ \A b \in Unborn : history[b] = {}

ApprovalsStaged == \A b \in approvals : "pending" \in history[b]

\* What a request is about to write was allowed from a status that the
\* booking has had; what it is about to insert is pending.
RequestStaged(p) ==
    /\ req[p].pc \in {"duplicate", "insert", "guest_insert", "corporate_commit"}
           => \A row \in req[p].draft : row.status = "pending"
    /\ req[p].pc = "status_write"
           => \E s \in history[req[p].b] : CanTransition(s, req[p].to)
    /\ req[p].pc \in {"initiate", "close", "entity"}
           => "pending" \in history[req[p].b]
    /\ req[p].pc \in {"close", "entity"} => req[p].to \in {"confirmed", "cancelled"}

JobStaged ==
    /\ \A b \in job.refs : "checked_in" \in history[b]
    /\ job.pc \in {"mark", "due"} => job.cur \in job.refs

StagesInv ==
    /\ StagesInOrder
    /\ TableStaged
    /\ ApprovalsStaged
    /\ \A p \in Request : RequestStaged(p)
    /\ JobStaged
-------------------------------------------------------------------------------
(***************************************************************************)
(* How the statements that write a status keep the table staged.           *)
(***************************************************************************)

\* INSERT gives an unused identity its first status.
LEMMA InsertStaged ==
    ASSUME TypeOK, StagesInv, NEW ids \in SUBSET Unborn, NEW new \in [ids -> Row],
           \A b \in ids : new[b].status = "pending", InsertRows(new)
    PROVE  /\ TableStaged' /\ StagesInOrder'
           /\ \A b \in Booking : history[b] \subseteq history'[b]
<1>1. /\ ids \subseteq Booking
      /\ \A b \in Booking : bookings'[b] = IF b \in ids THEN new[b] ELSE bookings[b]
      /\ \A b \in Booking : history'[b] = IF b \in ids THEN {"pending"} ELSE history[b]
      /\ \A b \in ids : history[b] = {}
  BY DEF InsertRows, Unborn, StagesInv, TableStaged
<1>2. TableStaged'
  BY <1>1 DEF StagesInv, TableStaged, Exists, Unborn, Status
<1>3. StagesInOrder'
  BY <1>1 DEF StagesInv, StagesInOrder
<1>4. QED
  BY <1>1, <1>2, <1>3

\* UPDATE ... SET status adds a status that followed one the booking had.
LEMMA SetStatusStaged ==
    ASSUME TypeOK, StagesInv, NEW b \in Booking, NEW to \in Status,
           \E s \in history[b] : CanTransition(s, to), SetStatus(b, to)
    PROVE  /\ TableStaged' /\ StagesInOrder'
           /\ \A c \in Booking : history[c] \subseteq history'[c]
<1>1. CASE ~Exists(b)
  BY <1>1 DEF SetStatus, StagesInv, TableStaged, StagesInOrder, Exists, Unborn
<1>2. CASE Exists(b)
  <2>1. bookings[b] \in Row
    BY <1>2, ExistingIsRow
  <2>2. /\ bookings'[b].status = to
        /\ history'[b] = history[b] \cup {to}
        /\ \A c \in Booking \ {b} : /\ bookings'[c] = bookings[c]
                                    /\ history'[c] = history[c]
    BY <1>2, <2>1 DEF SetStatus, TypeOK, Row
  <2>3. TableStaged'
    BY <2>2 DEF StagesInv, TableStaged, Exists, Unborn, Status
  <2>4. /\ to \in {"confirmed", "cancelled", "checked_in", "checked_out"}
        /\ to = "checked_in" => "confirmed" \in history[b]
        /\ to = "checked_out" => "checked_in" \in history[b]
        /\ history[b] # {}
    BY DEF CanTransition, ValidBookingTransitions
  <2>5. StagesInOrder'
    BY <2>2, <2>4 DEF StagesInv, StagesInOrder
  <2>6. QED
    BY <2>2, <2>3, <2>5
<1>3. QED
  BY <1>1, <1>2

\* What leaves every status alone, or deletes rows, keeps the table staged.
LEMMA TableKept ==
    ASSUME StagesInv, UNCHANGED history,
           \A b \in Booking :
               bookings'[b].status \in {bookings[b].status, "deleted"}
    PROVE  TableStaged' /\ StagesInOrder'
BY DEF StagesInv, TableStaged, StagesInOrder, Exists, Unborn, Status

\* A history that only grows keeps what was decided on it.
LEMMA DecisionsKept ==
    ASSUME TypeOK, StagesInv, \A b \in Booking : history[b] \subseteq history'[b]
    PROVE  /\ approvals' \subseteq approvals => ApprovalsStaged'
           /\ job' = job => JobStaged'
           /\ \A p \in Request : req'[p] = req[p] => RequestStaged(p)'
<1>1. approvals' \subseteq approvals => ApprovalsStaged'
  BY DEF StagesInv, ApprovalsStaged, TypeOK
<1>2. job' = job => JobStaged'
  BY DEF StagesInv, JobStaged, TypeOK, Job
<1>3. ASSUME NEW p \in Request, req'[p] = req[p]
      PROVE  RequestStaged(p)'
  <2>1. /\ RequestStaged(p)
        /\ req[p].pc \in OnBooking => history[req[p].b] \subseteq history'[req[p].b]
    BY DEF StagesInv, TypeOK
  <2>2. QED
    BY <1>3, <2>1 DEF RequestStaged, OnBooking
<1>4. QED
  BY <1>1, <1>2, <1>3

\* A request that returns decides nothing any more.
LEMMA ReturnStaged ==
    ASSUME TypeOK, NEW p \in Request, Return(p)
    PROVE  RequestStaged(p)' /\ req'[p].pc = "idle"
<1>1. req'[p] = Idle
  BY DEF TypeOK, Return, Goto
<1>2. QED
  BY <1>1 DEF Idle, RequestStaged

-------------------------------------------------------------------------------
(***************************************************************************)
(* The steps.  A handler that starts decides on what it reads now.         *)
(***************************************************************************)
LEMMA StartStaged ==
    ASSUME TypeOK, StagesInv, NEW p \in Request, Start(p)
    PROVE  StagesInv'
<1>0. UNCHANGED <<bookings, history, invoices, approvals, job, today>>
  BY DEF Start, CreateIndividual, GuestCreate, CreateCorporate, ProcessAction,
         UpdateStatus, GuestCancel, Update, Delete
<1>1. TableStaged' /\ StagesInOrder' /\ ApprovalsStaged' /\ JobStaged'
  BY <1>0, DecisionsKept, TableKept
<1>2. \A q \in Request \ {p} : req'[q] = req[q]
  BY DEF Start, CreateIndividual, GuestCreate, CreateCorporate, ProcessAction,
         UpdateStatus, GuestCancel, Update, Delete, Goto, TypeOK
<1>3. SUFFICES RequestStaged(p)'
  BY <1>0, <1>1, <1>2, DecisionsKept DEF StagesInv
<1>4. CASE CreateIndividual(p)
  <2>1. PICK room \in Room, client \in Client, in \in Day, out \in Day :
           Goto(p, [Idle EXCEPT !.pc = "duplicate",
                      !.draft = {NewRow(room, client, NoCompany, in, out)}])
    BY <1>4 DEF CreateIndividual
  <2>2. /\ req'[p].pc = "duplicate"
        /\ req'[p].draft = {NewRow(room, client, NoCompany, in, out)}
    BY <2>1 DEF Goto, TypeOK, Idle
  <2>3. NewRow(room, client, NoCompany, in, out).status = "pending"
    BY DEF NewRow
  <2>4. QED
    BY <2>2, <2>3 DEF RequestStaged
<1>5. CASE GuestCreate(p)
  <2>1. PICK room \in Room, client \in Client, in \in Day, out \in Day :
           Goto(p, [Idle EXCEPT !.pc = "guest_insert",
                      !.draft = {NewRow(room, client, NoCompany, in, out)}])
    BY <1>5 DEF GuestCreate
  <2>2. /\ req'[p].pc = "guest_insert"
        /\ req'[p].draft = {NewRow(room, client, NoCompany, in, out)}
    BY <2>1 DEF Goto, TypeOK, Idle
  <2>3. NewRow(room, client, NoCompany, in, out).status = "pending"
    BY DEF NewRow
  <2>4. QED
    BY <2>2, <2>3 DEF RequestStaged
<1>6. CASE CreateCorporate(p)
  <2>1. PICK company \in Company : \E list \in GuestLists(company) :
           req'[p] = [Idle EXCEPT !.pc = "corporate_commit",
                        !.company = company, !.draft = list]
    BY <1>6 DEF CreateCorporate, Goto, TypeOK
  <2>2. PICK list \in GuestLists(company) :
           req'[p] = [Idle EXCEPT !.pc = "corporate_commit",
                        !.company = company, !.draft = list]
    BY <2>1
  <2>3. \A row \in list : row.status = "pending"
    BY <2>2 DEF GuestLists, NewRow
  <2>4. req'[p].pc = "corporate_commit" /\ req'[p].draft = list
    BY <2>2 DEF Idle
  <2>5. QED
    BY <2>3, <2>4 DEF RequestStaged
<1>7. CASE ProcessAction(p)
  <2>1. PICK b \in approvals, to \in {"confirmed", "cancelled"} :
           req'[p] = [Idle EXCEPT !.pc = "close", !.b = b, !.to = to]
    BY <1>7 DEF ProcessAction, Goto, TypeOK
  <2>2. req'[p].pc = "close" /\ req'[p].b = b /\ req'[p].to = to
    BY <2>1 DEF Idle
  <2>3. "pending" \in history[b]
    BY <2>1 DEF StagesInv, ApprovalsStaged
  <2>4. QED
    BY <1>0, <2>1, <2>2, <2>3 DEF RequestStaged
<1>8. CASE UpdateStatus(p)
  <2>1. PICK b \in Booking, to \in Status :
           /\ Exists(b) /\ CanTransition(bookings[b].status, to)
           /\ req'[p] = [Idle EXCEPT !.pc = "status_write", !.b = b, !.to = to,
                                     !.company = bookings[b].company]
    BY <1>8 DEF UpdateStatus, Goto, TypeOK
  <2>2. req'[p].pc = "status_write" /\ req'[p].b = b /\ req'[p].to = to
    BY <2>1 DEF Idle
  <2>3. \E s \in history[b] : CanTransition(s, to)
    BY <2>1 DEF StagesInv, TableStaged
  <2>4. QED
    BY <1>0, <2>2, <2>3 DEF RequestStaged
<1>9. CASE GuestCancel(p)
  <2>1. PICK b \in Booking :
           /\ Exists(b) /\ CanTransition(bookings[b].status, "cancelled")
           /\ req'[p] = [Idle EXCEPT !.pc = "status_write", !.b = b,
                                     !.to = "cancelled"]
    BY <1>9 DEF GuestCancel, Goto, TypeOK
  <2>2. req'[p].pc = "status_write" /\ req'[p].b = b /\ req'[p].to = "cancelled"
    BY <2>1 DEF Idle
  <2>3. \E s \in history[b] : CanTransition(s, "cancelled")
    BY <2>1 DEF StagesInv, TableStaged
  <2>4. QED
    BY <1>0, <2>2, <2>3 DEF RequestStaged
<1>10. CASE Update(p)
  <2>1. req'[p].pc = "update_check"
    BY <1>10 DEF Update, Goto, TypeOK, Idle
  <2>2. QED
    BY <2>1 DEF RequestStaged
<1>11. CASE Delete(p)
  <2>1. req'[p].pc = "delete"
    BY <1>11 DEF Delete, Goto, TypeOK, Idle
  <2>2. QED
    BY <2>1 DEF RequestStaged
<1>12. QED
  BY <1>4, <1>5, <1>6, <1>7, <1>8, <1>9, <1>10, <1>11 DEF Start

(***************************************************************************)
(* A handler that goes on writes what it decided on.                       *)
(***************************************************************************)
LEMMA ContinueStaged ==
    ASSUME TypeOK, StagesInv, NEW p \in Request, Continue(p)
    PROVE  StagesInv'
<1>0. /\ UNCHANGED job
      /\ \A q \in Request \ {p} : req'[q] = req[q]
  BY DEF Continue, CheckDuplicate, InsertBooking, GuestInsert,
         InitiateWorkflow, CloseInstance, UpdateEntityStatus, CommitCorporate,
         GenerateCorporateInvoice, UpdateStatusTx, GenerateForBooking,
         GenerateInvoiceNumber, InsertInvoice, UpdateCheckRoom, UpdateWrite,
         RecalculateRoomCharge, UpdateRoomLineItem, DeleteRow,
         Goto, Return, TypeOK
<1>1. /\ req[p] \in Local
      /\ req[p].pc \in OnBooking => req[p].b \in Booking
      /\ RequestStaged(p)
  BY DEF TypeOK, StagesInv
\* It is enough that the table stays staged, that no history shrinks, and
\* that the request itself and the approvals are staged afterwards.
<1>2. SUFFICES /\ TableStaged' /\ StagesInOrder'
               /\ \A b \in Booking : history[b] \subseteq history'[b]
               /\ RequestStaged(p)'
               /\ ApprovalsStaged'
  BY <1>0, DecisionsKept DEF StagesInv
<1>3. ASSUME UNCHANGED <<bookings, history>>
      PROVE  /\ TableStaged' /\ StagesInOrder'
             /\ \A b \in Booking : history[b] \subseteq history'[b]
  BY <1>3, TableKept
<1>4. ASSUME UNCHANGED approvals, \A b \in Booking : history[b] \subseteq history'[b]
      PROVE  ApprovalsStaged'
  BY <1>4, DecisionsKept
<1>5. CASE /\ UNCHANGED <<bookings, history, approvals>>
           /\ Return(p)
  BY <1>3, <1>4, <1>5, ReturnStaged
<1>6. CASE CheckDuplicate(p)
  <2>1. CASE req'[p] = [req[p] EXCEPT !.pc = "insert"]
    <3>1. req'[p].pc = "insert" /\ req'[p].draft = req[p].draft
      BY <1>1, <2>1 DEF Local
    <3>2. RequestStaged(p)'
      BY <1>1, <1>6, <3>1 DEF CheckDuplicate, At, RequestStaged
    <3>3. QED
      BY <1>3, <1>4, <1>6, <3>2 DEF CheckDuplicate
  <2>2. QED
    BY <1>5, <1>6, <2>1 DEF CheckDuplicate, Goto, TypeOK
<1>7. CASE InsertBooking(p)
  <2>1. CASE UNCHANGED <<bookings, history>>
    BY <1>5, <1>7, <2>1 DEF InsertBooking
  <2>2. CASE \E b \in Unborn, r \in req[p].draft : InsertRows([x \in {b} |-> r])
    <3>1. PICK b \in Unborn, r \in req[p].draft : InsertRows([x \in {b} |-> r])
      BY <2>2
    <3>2. /\ {b} \in SUBSET Unborn /\ [x \in {b} |-> r] \in [{b} -> Row]
          /\ r.status = "pending"
      BY <1>1, <1>7, <3>1 DEF InsertBooking, At, Local, RequestStaged
    <3>3. /\ TableStaged' /\ StagesInOrder'
          /\ \A c \in Booking : history[c] \subseteq history'[c]
      BY <3>1, <3>2, InsertStaged
    <3>4. QED
      BY <1>4, <1>7, <3>3, ReturnStaged DEF InsertBooking
  <2>3. QED
    BY <1>7, <2>1, <2>2 DEF InsertBooking
<1>8. CASE GuestInsert(p)
  <2>1. CASE UNCHANGED <<bookings, history>> /\ Return(p)
    BY <1>5, <1>8, <2>1 DEF GuestInsert
  <2>2. CASE \E b \in Unborn, r \in req[p].draft :
               /\ InsertRows([x \in {b} |-> r])
               /\ Goto(p, [Idle EXCEPT !.pc = "initiate", !.b = b])
    <3>1. PICK b \in Unborn, r \in req[p].draft :
               /\ InsertRows([x \in {b} |-> r])
               /\ Goto(p, [Idle EXCEPT !.pc = "initiate", !.b = b])
      BY <2>2
    <3>2. /\ {b} \in SUBSET Unborn /\ [x \in {b} |-> r] \in [{b} -> Row]
          /\ r.status = "pending"
      BY <1>1, <1>8, <3>1 DEF GuestInsert, At, Local, RequestStaged
    <3>3. /\ TableStaged' /\ StagesInOrder'
          /\ \A c \in Booking : history[c] \subseteq history'[c]
      BY <3>1, <3>2, InsertStaged
    <3>4. req'[p].pc = "initiate" /\ req'[p].b = b
      BY <3>1 DEF Goto, TypeOK, Idle
    <3>5. "pending" \in history'[b]
      BY <3>1 DEF InsertRows, Unborn
    <3>6. RequestStaged(p)'
      BY <3>4, <3>5 DEF RequestStaged
    <3>7. QED
      BY <1>4, <1>8, <3>3, <3>6 DEF GuestInsert
  <2>3. QED
    BY <1>8, <2>1, <2>2 DEF GuestInsert
<1>9. CASE InitiateWorkflow(p)
  <2>1. "pending" \in history[req[p].b] /\ req[p].b \in Booking
    BY <1>1, <1>9 DEF InitiateWorkflow, At, RequestStaged, OnBooking
  <2>2. ApprovalsStaged'
    BY <1>9, <2>1 DEF InitiateWorkflow, StagesInv, ApprovalsStaged
  <2>3. QED
    BY <1>3, <1>9, <2>2, ReturnStaged DEF InitiateWorkflow
<1>10. CASE CloseInstance(p)
  <2>1. /\ req'[p].pc = "entity"
        /\ req'[p].b = req[p].b
        /\ req'[p].to = req[p].to
    BY <1>1, <1>10 DEF CloseInstance, Goto, TypeOK, Local
  <2>2. RequestStaged(p)'
    BY <1>1, <1>10, <2>1 DEF CloseInstance, At, RequestStaged
  <2>3. ApprovalsStaged'
    BY <1>3, <1>10, DecisionsKept DEF CloseInstance
  <2>4. QED
    BY <1>3, <1>10, <2>2, <2>3 DEF CloseInstance
<1>11. CASE UpdateEntityStatus(p)
  <2>1. /\ req[p].b \in Booking /\ req[p].to \in Status
        /\ "pending" \in history[req[p].b]
        /\ req[p].to \in {"confirmed", "cancelled"}
    BY <1>1, <1>11 DEF UpdateEntityStatus, At, OnBooking, Local, RequestStaged
  <2>2. CanTransition("pending", req[p].to)
    BY <2>1 DEF CanTransition, ValidBookingTransitions
  <2>3. /\ TableStaged' /\ StagesInOrder'
        /\ \A b \in Booking : history[b] \subseteq history'[b]
    BY <1>11, <2>1, <2>2, SetStatusStaged DEF UpdateEntityStatus
  <2>4. QED
    BY <1>4, <1>11, <2>3, ReturnStaged DEF UpdateEntityStatus
<1>12. CASE CommitCorporate(p)
  <2>1. CASE UNCHANGED <<bookings, history>> /\ Return(p)
    BY <1>5, <1>12, <2>1 DEF CommitCorporate
  <2>2. CASE \E ids \in SUBSET Unborn : \E new \in [ids -> req[p].draft] :
               /\ InsertRows(new)
               /\ Goto(p, [Idle EXCEPT !.pc = "corporate_invoice",
                             !.company = req[p].company, !.batch = ids])
    <3>1. PICK ids \in SUBSET Unborn : \E new \in [ids -> req[p].draft] :
               /\ InsertRows(new)
               /\ Goto(p, [Idle EXCEPT !.pc = "corporate_invoice",
                             !.company = req[p].company, !.batch = ids])
      BY <2>2
    <3>2. PICK new \in [ids -> req[p].draft] :
               /\ InsertRows(new)
               /\ Goto(p, [Idle EXCEPT !.pc = "corporate_invoice",
                             !.company = req[p].company, !.batch = ids])
      BY <3>1
    <3>3. /\ new \in [ids -> Row]
          /\ \A b \in ids : new[b].status = "pending"
      BY <1>1, <1>12, <3>2 DEF CommitCorporate, At, Local, RequestStaged
    <3>4. /\ TableStaged' /\ StagesInOrder'
          /\ \A b \in Booking : history[b] \subseteq history'[b]
      BY <3>2, <3>3, InsertStaged
    <3>5. req'[p].pc = "corporate_invoice"
      BY <3>2 DEF Goto, TypeOK, Idle
    <3>6. RequestStaged(p)'
      BY <3>5 DEF RequestStaged
    <3>7. QED
      BY <1>4, <1>12, <3>4, <3>6 DEF CommitCorporate
  <2>3. QED
    BY <1>12, <2>1, <2>2 DEF CommitCorporate
<1>13. CASE UpdateStatusTx(p)
  <2>1. /\ req[p].b \in Booking /\ req[p].to \in Status
        /\ \E s \in history[req[p].b] : CanTransition(s, req[p].to)
    BY <1>1, <1>13 DEF UpdateStatusTx, At, OnBooking, Local, RequestStaged
  <2>2. /\ TableStaged' /\ StagesInOrder'
        /\ \A b \in Booking : history[b] \subseteq history'[b]
    BY <1>13, <2>1, SetStatusStaged DEF UpdateStatusTx
  <2>3. req'[p].pc \in {"generate", "idle"}
    <3>1. \/ Return(p)
          \/ Goto(p, [Idle EXCEPT !.pc = "generate", !.b = req[p].b])
      BY <1>13 DEF UpdateStatusTx
    <3>2. QED
      BY <3>1, ReturnStaged DEF Goto, TypeOK, Idle
  <2>4. RequestStaged(p)'
    BY <2>3 DEF RequestStaged
  <2>5. QED
    BY <1>4, <1>13, <2>2, <2>4 DEF UpdateStatusTx
\* The other steps go on to steps that decide nothing about a status.
<1>14. ASSUME req'[p].pc \in {"idle", "invoice_number", "invoice_insert",
                              "update_write", "recalculate", "room_line"}
       PROVE  RequestStaged(p)'
  BY <1>14 DEF RequestStaged
<1>15. CASE GenerateCorporateInvoice(p) \/ GenerateForBooking(p)
  <2>1. \/ Return(p)
        \/ \E nights : Goto(p, [req[p] EXCEPT !.pc = "invoice_number",
                                              !.nights = nights])
        \/ \E nights, due : Goto(p, [req[p] EXCEPT !.pc = "invoice_number",
                                                   !.nights = nights,
                                                   !.due = due])
    BY <1>15 DEF GenerateCorporateInvoice, GenerateForBooking
  <2>2. req'[p].pc \in {"idle", "invoice_number"}
    <3>1. CASE Return(p)
      BY <3>1, ReturnStaged
    <3>2. CASE ~Return(p)
      <4>1. PICK nights, due :
               \/ Goto(p, [req[p] EXCEPT !.pc = "invoice_number",
                                         !.nights = nights])
               \/ Goto(p, [req[p] EXCEPT !.pc = "invoice_number",
                                         !.nights = nights, !.due = due])
        BY <2>1, <3>2
      <4>2. CASE Goto(p, [req[p] EXCEPT !.pc = "invoice_number",
                                        !.nights = nights])
        BY <1>1, <4>2 DEF Goto, TypeOK, Local
      <4>3. CASE Goto(p, [req[p] EXCEPT !.pc = "invoice_number",
                                        !.nights = nights, !.due = due])
        BY <1>1, <4>3 DEF Goto, TypeOK, Local
      <4>4. QED
        BY <4>1, <4>2, <4>3
    <3>3. QED
      BY <3>1, <3>2
  <2>3. QED
    BY <1>3, <1>4, <1>14, <1>15, <2>2
    DEF GenerateCorporateInvoice, GenerateForBooking
<1>16. CASE GenerateInvoiceNumber(p)
  <2>1. req'[p].pc = "invoice_insert"
    BY <1>1, <1>16 DEF GenerateInvoiceNumber, Goto, TypeOK, Local
  <2>2. QED
    BY <1>3, <1>4, <1>14, <1>16, <2>1 DEF GenerateInvoiceNumber
<1>17. CASE InsertInvoice(p) \/ UpdateRoomLineItem(p)
  BY <1>5, <1>17 DEF InsertInvoice, UpdateRoomLineItem
<1>18. CASE UpdateCheckRoom(p) \/ RecalculateRoomCharge(p)
  <2>1. req'[p].pc \in {"idle", "update_write", "room_line"}
    <3>1. \/ Return(p)
          \/ Goto(p, [req[p] EXCEPT !.pc = "update_write", !.draft = {}])
          \/ \E nights : Goto(p, [req[p] EXCEPT !.pc = "room_line",
                                                !.nights = nights])
      BY <1>18 DEF UpdateCheckRoom, RecalculateRoomCharge
    <3>2. CASE Return(p)
      BY <3>2, ReturnStaged
    <3>3. CASE ~Return(p)
      BY <1>1, <3>1, <3>3 DEF Goto, TypeOK, Local
    <3>4. QED
      BY <3>2, <3>3
  <2>2. QED
    BY <1>3, <1>4, <1>14, <1>18, <2>1 DEF UpdateCheckRoom, RecalculateRoomCharge
<1>19. CASE UpdateWrite(p)
  <2>1. \A b \in Booking : bookings'[b].status = bookings[b].status
    <3>1. CASE UNCHANGED bookings
      BY <3>1
    <3>2. CASE /\ Exists(req[p].b)
               /\ bookings' = [bookings EXCEPT ![req[p].b].checkIn = req[p].checkIn,
                                              ![req[p].b].checkOut = req[p].checkOut]
      <4>1. bookings[req[p].b] \in Row
        BY <1>1, <1>19, <3>2, ExistingIsRow DEF UpdateWrite, At, OnBooking
      <4>2. [bookings[req[p].b] EXCEPT !.checkIn = req[p].checkIn,
               !.checkOut = req[p].checkOut].status = bookings[req[p].b].status
        BY <4>1 DEF Row
      <4>3. QED
        BY <3>2, <4>2 DEF TypeOK
    <3>3. QED
      BY <1>19, <3>1, <3>2 DEF UpdateWrite, SetDates
  <2>2. TableStaged' /\ StagesInOrder'
    BY <1>19, <2>1, TableKept DEF UpdateWrite
  <2>3. req'[p].pc \in {"idle", "recalculate"}
    <3>1. \/ Return(p)
          \/ Goto(p, [Idle EXCEPT !.pc = "recalculate", !.b = req[p].b])
      BY <1>19 DEF UpdateWrite
    <3>2. QED
      BY <3>1, ReturnStaged DEF Goto, TypeOK, Idle
  <2>4. QED
    BY <1>4, <1>14, <1>19, <2>2, <2>3 DEF UpdateWrite
<1>20. CASE DeleteRow(p)
  <2>1. \A b \in Booking : bookings'[b].status \in {bookings[b].status, "deleted"}
    BY <1>20 DEF DeleteRow, TypeOK, Deleted
  <2>2. TableStaged' /\ StagesInOrder'
    BY <1>20, <2>1, TableKept DEF DeleteRow
  <2>3. QED
    BY <1>4, <1>20, <2>2, ReturnStaged DEF DeleteRow
<1>21. QED
  BY <1>6, <1>7, <1>8, <1>9, <1>10, <1>11, <1>12, <1>13, <1>15, <1>16, <1>17,
     <1>18, <1>19, <1>20 DEF Continue

(***************************************************************************)
(* The job marks only guests who had checked in when it listed them.       *)
(***************************************************************************)
LEMMA JobStepStaged ==
    ASSUME TypeOK, StagesInv, JobStep
    PROVE  StagesInv'
<1>0. /\ UNCHANGED <<req, approvals>>
      /\ job \in Job /\ job.refs \subseteq Booking
      /\ job.pc \in {"mark", "due"} => job.cur \in Booking
      /\ JobStaged
  BY DEF JobStep, JobScan, ExtendCheckout, MarkOverstayed, UpdateDueDate,
         TypeOK, Job, StagesInv
<1>1. SUFFICES /\ TableStaged' /\ StagesInOrder'
               /\ \A b \in Booking : history[b] \subseteq history'[b]
               /\ JobStaged'
  BY <1>0, DecisionsKept DEF StagesInv
<1>2. CASE JobScan
  <2>1. /\ job'.refs = FindOverdueCheckouts
        /\ job'.pc = "extend"
    BY <1>2 DEF JobScan, JobIdle
  <2>2. \A b \in FindOverdueCheckouts : "checked_in" \in history[b]
    BY DEF FindOverdueCheckouts, StagesInv, TableStaged, Exists, Status
  <2>3. QED
    BY <1>2, <2>1, <2>2, TableKept DEF JobScan, JobStaged
<1>3. ASSUME NEW refs \in SUBSET job.refs, JobNext(refs), UNCHANGED history
      PROVE  JobStaged'
  <2>1. /\ job'.refs \subseteq refs
        /\ job'.pc \in {"idle", "extend"}
    BY <1>0, <1>3 DEF JobNext, JobIdle, Job
  <2>2. QED
    BY <1>0, <1>3, <2>1 DEF JobStaged
<1>4. CASE ExtendCheckout
  <2>1. PICK b \in job.refs :
           IF Exists(b) /\ bookings[b].checkIn >= job.day
           THEN JobNext(job.refs \ {b}) /\ UNCHANGED bookings
           ELSE /\ IF Exists(b)
                   THEN bookings' = [bookings EXCEPT ![b].checkOut = job.day]
                   ELSE UNCHANGED bookings
                /\ job' = [job EXCEPT !.pc = "mark", !.cur = b]
    BY <1>4 DEF ExtendCheckout
  <2>2. UNCHANGED history
    BY <1>4 DEF ExtendCheckout
  <2>3. \A c \in Booking : bookings'[c].status = bookings[c].status
    <3>1. CASE UNCHANGED bookings
      BY <3>1
    <3>2. CASE /\ Exists(b)
               /\ bookings' = [bookings EXCEPT ![b].checkOut = job.day]
      <4>1. bookings[b] \in Row
        BY <1>0, <2>1, <3>2, ExistingIsRow
      <4>2. [bookings[b] EXCEPT !.checkOut = job.day].status = bookings[b].status
        BY <4>1 DEF Row
      <4>3. QED
        BY <3>2, <4>2 DEF TypeOK
    <3>3. QED
      BY <2>1, <3>1, <3>2
  <2>4. JobStaged'
    <3>1. CASE JobNext(job.refs \ {b})
      BY <1>3, <2>2, <3>1
    <3>2. CASE job' = [job EXCEPT !.pc = "mark", !.cur = b]
      BY <1>0, <2>1, <2>2, <3>2 DEF JobStaged, Job
    <3>3. QED
      BY <2>1, <3>1, <3>2
  <2>5. QED
    BY <2>2, <2>3, <2>4, TableKept
<1>5. CASE MarkOverstayed
  <2>1. /\ job.cur \in Booking
        /\ "checked_in" \in history[job.cur]
    BY <1>0, <1>5 DEF MarkOverstayed, JobStaged
  <2>2. \A b \in Booking : /\ bookings'[b].status = bookings[b].status
                           /\ history[b] \subseteq history'[b]
                           /\ history'[b] \subseteq history[b] \cup {"overstayed"}
                           /\ b # job.cur => history'[b] = history[b]
    <3>1. CASE ~Exists(job.cur)
      BY <1>5, <3>1 DEF MarkOverstayed
    <3>2. CASE Exists(job.cur)
      <4>1. bookings[job.cur] \in Row
        BY <2>1, <3>2, ExistingIsRow
      <4>2. [bookings[job.cur] EXCEPT !.overstayed = TRUE].status
                = bookings[job.cur].status
        BY <4>1 DEF Row
      <4>3. QED
        BY <1>5, <2>1, <3>2, <4>2 DEF MarkOverstayed, TypeOK
    <3>3. QED
      BY <3>1, <3>2
  <2>3. TableStaged'
    BY <2>1, <2>2 DEF StagesInv, TableStaged, Exists, Unborn
  <2>4. StagesInOrder'
    BY <2>1, <2>2 DEF StagesInv, StagesInOrder
  <2>5. JobStaged'
    <3>1. job'.refs = job.refs /\ job'.cur = job.cur /\ job'.pc = "due"
      BY <1>0, <1>5 DEF MarkOverstayed, Job
    <3>2. QED
      BY <1>0, <1>5, <2>2, <3>1 DEF JobStaged, MarkOverstayed
  <2>6. QED
    BY <2>2, <2>3, <2>4, <2>5
<1>6. CASE UpdateDueDate
  BY <1>3, <1>6, TableKept DEF UpdateDueDate
<1>7. QED
  BY <1>2, <1>4, <1>5, <1>6 DEF JobStep

LEMMA OthersStaged ==
    ASSUME TypeOK, StagesInv, ClearOverstayed \/ Tick \/ Crash
    PROVE  StagesInv'
<1>1. CASE ClearOverstayed
  <2>1. PICK b \in Booking :
           Exists(b) /\ bookings' = [bookings EXCEPT ![b].overstayed = FALSE]
    BY <1>1 DEF ClearOverstayed
  <2>2. bookings[b] \in Row
    BY <2>1, ExistingIsRow
  <2>3. [bookings[b] EXCEPT !.overstayed = FALSE].status = bookings[b].status
    BY <2>2 DEF Row
  <2>4. \A c \in Booking : bookings'[c].status = bookings[c].status
    BY <2>1, <2>3 DEF TypeOK
  <2>5. QED
    BY <1>1, <2>4, TableKept, DecisionsKept DEF ClearOverstayed, StagesInv
<1>2. CASE Tick
  BY <1>2, TableKept, DecisionsKept DEF Tick, StagesInv
<1>3. CASE Crash
  <2>1. JobStaged'
    BY <1>3 DEF Crash, JobStaged, JobIdle
  <2>2. \A p \in Request : RequestStaged(p)'
    BY <1>3 DEF Crash, RequestStaged, Idle
  <2>3. QED
    BY <1>3, <2>1, <2>2, TableKept, DecisionsKept DEF Crash, StagesInv
<1>4. QED
  BY <1>1, <1>2, <1>3

LEMMA InitStaged == Init => StagesInv
BY DEF Init, StagesInv, StagesInOrder, TableStaged, ApprovalsStaged,
       RequestStaged, JobStaged, Exists, Unborn, Unused, Status, Idle, JobIdle

LEMMA StepStaged ==
    TypeOK /\ StagesInv /\ [Next]_vars => StagesInv'
<1>1. SUFFICES ASSUME TypeOK, StagesInv, [Next]_vars
               PROVE  StagesInv'
  OBVIOUS
<1>2. CASE \E p \in Request : Start(p) \/ Continue(p)
  BY <1>1, <1>2, StartStaged, ContinueStaged
<1>3. CASE JobStep
  BY <1>1, <1>3, JobStepStaged
<1>4. CASE ClearOverstayed \/ Tick \/ Crash
  BY <1>1, <1>4, OthersStaged
<1>5. CASE UNCHANGED vars
  BY <1>1, <1>5, TableKept, DecisionsKept DEF vars, StagesInv
<1>6. QED
  BY <1>1, <1>2, <1>3, <1>4, <1>5 DEF Next

(***************************************************************************)
(* No interleaving of the handlers, the approvals, the nightly job and     *)
(* crashes takes a booking to a stage of the stay without the stages       *)
(* before it: nobody checks out, or is marked overstayed, who had not      *)
(* checked in, and nobody checks in who had not been confirmed.            *)
(***************************************************************************)
THEOREM StagesAlwaysInOrder == Spec => []StagesInOrder
<1>1. Init => StagesInv
  BY InitStaged
<1>2. TypeOK /\ StagesInv /\ [Next]_vars => StagesInv'
  BY StepStaged
<1>3. StagesInv => StagesInOrder
  BY DEF StagesInv
<1>4. QED
  BY <1>1, <1>2, <1>3, TypeCorrect, PTL DEF Spec

-------------------------------------------------------------------------------
(***************************************************************************)
(* BilledAtMostOnce holds in every interleaving: the nights of a booking   *)
(* are on one invoice at most.  An individual's nights can only be on the  *)
(* booking's own invoice, of which there is one (UNIQUE), and those of a   *)
(* company's guest only on the invoice of the request that booked the      *)
(* guest.  The invariant keeps the two kinds of booking apart, and the     *)
(* batches of the requests in flight apart from each other and from what   *)
(* is invoiced already.                                                    *)
(***************************************************************************)
Charged(x) == {b \in Booking : x.nights[b] > 0}

\* Who pays for a booking is fixed when its row is inserted; a deleted row
\* is nobody's and comes back for nobody.
Used(b) == bookings[b].status # "unused"
GuestPays(b) == Used(b) /\ (Exists(b) => bookings[b].company = NoCompany)
CompanyPays(b) == Used(b) /\ (Exists(b) => bookings[b].company # NoCompany)

InvoicesSeparate ==
    /\ \A i \in invoices : i.booking # NoBooking =>
           /\ Exists(i.booking) /\ GuestPays(i.booking)
           /\ Charged(i) \subseteq {i.booking}
    /\ \A i \in invoices : i.booking = NoBooking =>
           \A b \in Charged(i) : CompanyPays(b)
    /\ \A i, j \in invoices : i # j =>
           IF i.booking = NoBooking /\ j.booking = NoBooking
           THEN Charged(i) \cap Charged(j) = {}
           ELSE i.booking # j.booking

\* The steps of a request that will, or may, charge its booking's guest.
ChargesGuest(r) ==
    \/ r.pc = "status_write" /\ NeedsInvoice(r)
    \/ r.pc = "generate"
    \/ r.pc \in {"invoice_number", "invoice_insert"} /\ r.b # NoBooking

RequestBills(p) ==
    LET r == req[p]
    IN  /\ r.pc = "corporate_commit"
               => \A row \in r.draft : row.company # NoCompany
        /\ r.pc \in {"status_write", "generate"} => Used(r.b)
        /\ ChargesGuest(r) => GuestPays(r.b)
        /\ r.batch # {} =>
               /\ r.b = NoBooking
               /\ r.pc \in {"corporate_invoice", "invoice_number", "invoice_insert"}
        /\ r.pc = "corporate_invoice" => r.b = NoBooking
        /\ r.pc \in {"invoice_number", "invoice_insert", "room_line"}
               => Charged(r) \subseteq r.batch \cup {r.b}
        /\ \A b \in r.batch :
               CompanyPays(b) /\ \A i \in invoices : b \notin Charged(i)

BatchesSeparate ==
    \A p, q \in Request : p # q => req[p].batch \cap req[q].batch = {}

BillingInv ==
    /\ InvoicesSeparate
    /\ \A p \in Request : RequestBills(p)
    /\ BatchesSeparate
-------------------------------------------------------------------------------
(***************************************************************************)
(* What the invariant gives, and what keeps it.                            *)
(***************************************************************************)
LEMMA BillingInvImplies == TypeOK /\ BillingInv => BilledAtMostOnce
<1>1. SUFFICES ASSUME TypeOK, BillingInv, NEW i \in invoices, NEW j \in invoices,
                      NEW b \in Booking, i.nights[b] > 0, j.nights[b] > 0, i # j
               PROVE  FALSE
  BY DEF BilledAtMostOnce
<1>2. b \in Charged(i) /\ b \in Charged(j)
  BY <1>1 DEF Charged
<1>3. CASE i.booking = NoBooking /\ j.booking = NoBooking
  BY <1>1, <1>2, <1>3 DEF BillingInv, InvoicesSeparate
<1>4. CASE i.booking = NoBooking /\ j.booking # NoBooking
  BY <1>1, <1>2, <1>4 DEF BillingInv, InvoicesSeparate, GuestPays, CompanyPays
<1>5. CASE i.booking # NoBooking /\ j.booking = NoBooking
  BY <1>1, <1>2, <1>5 DEF BillingInv, InvoicesSeparate, GuestPays, CompanyPays
<1>6. CASE i.booking # NoBooking /\ j.booking # NoBooking
  BY <1>1, <1>2, <1>6 DEF BillingInv, InvoicesSeparate
<1>7. QED
  BY <1>3, <1>4, <1>5, <1>6

\* Every statement leaves a used identity used, and the payer of a row that
\* survives it; no statement deletes the booking of an invoice.
RowsKept ==
    \A b \in Booking : Used(b) =>
        /\ Used(b)'
        /\ Exists(b)' => Exists(b) /\ bookings'[b].company = bookings[b].company

InvoicedRowsKept ==
    \A i \in invoices : i.booking # NoBooking => Exists(i.booking)'

LEMMA PayersKept ==
    ASSUME RowsKept, NEW b \in Booking
    PROVE  /\ GuestPays(b) => GuestPays(b)'
           /\ CompanyPays(b) => CompanyPays(b)'
BY DEF RowsKept, GuestPays, CompanyPays

LEMMA UnchangedRowsKept ==
    ASSUME BillingInv, UNCHANGED bookings
    PROVE  RowsKept /\ InvoicedRowsKept
BY DEF BillingInv, InvoicesSeparate, RowsKept, InvoicedRowsKept, Used, Exists

LEMMA SameRowsKept ==
    ASSUME TypeOK, BillingInv,
           \A b \in Booking : /\ bookings'[b].status = bookings[b].status
                             /\ bookings'[b].company = bookings[b].company
    PROVE  RowsKept /\ InvoicedRowsKept
<1>1. \A i \in invoices : i.booking \in Booking \cup {NoBooking}
  BY DEF TypeOK, Invoice
<1>2. QED
  BY <1>1 DEF BillingInv, InvoicesSeparate, RowsKept, InvoicedRowsKept, Used, Exists

LEMMA InvoicesKept ==
    ASSUME TypeOK, BillingInv, RowsKept, InvoicedRowsKept, UNCHANGED invoices
    PROVE  InvoicesSeparate'
<1>1. \A i \in invoices : i.booking \in Booking \cup {NoBooking}
  BY DEF TypeOK, Invoice
<1>2. \A i \in invoices : i.booking # NoBooking => GuestPays(i.booking)'
  BY <1>1, PayersKept DEF BillingInv, InvoicesSeparate
<1>3. \A i \in invoices : i.booking = NoBooking =>
          \A b \in Charged(i) : CompanyPays(b)'
  BY PayersKept DEF BillingInv, InvoicesSeparate, Charged
<1>4. QED
  BY <1>2, <1>3 DEF BillingInv, InvoicesSeparate, InvoicedRowsKept

\* A request that a step does not touch still bills what it billed, unless
\* the step charges one of its batch.
LEMMA RequestKept ==
    ASSUME TypeOK, BillingInv, RowsKept, NEW q \in Request, req'[q] = req[q],
           \A b \in req[q].batch : \A i \in invoices' : b \notin Charged(i)
    PROVE  RequestBills(q)'
<1>1. /\ RequestBills(q)
      /\ req[q] \in Local
      /\ req[q].pc \in OnBooking => req[q].b \in Booking
  BY DEF BillingInv, TypeOK
<1>2. ChargesGuest(req[q]) => req[q].b \in Booking
  BY <1>1 DEF ChargesGuest, OnBooking, Local
<1>3. ChargesGuest(req[q]) => GuestPays(req[q].b)'
  BY <1>1, <1>2, PayersKept DEF RequestBills
<1>4. req[q].pc \in {"status_write", "generate"} => Used(req[q].b)'
  BY <1>1 DEF RequestBills, RowsKept, OnBooking
<1>5. \A b \in req[q].batch : CompanyPays(b)'
  BY <1>1, PayersKept DEF RequestBills, Local
<1>6. QED
  BY <1>1, <1>3, <1>4, <1>5 DEF RequestBills

\* A request that neither charges nor is about to has nothing to answer for.
LEMMA PlainBills ==
    ASSUME NEW p \in Request, req'[p].batch = {},
           req'[p].pc \notin {"corporate_commit", "corporate_invoice",
                              "status_write", "generate", "invoice_number",
                              "invoice_insert", "room_line"}
    PROVE  RequestBills(p)'
BY DEF RequestBills, ChargesGuest

\* A step of one request that inserts no invoice and enlarges no batch.
LEMMA StepBills ==
    ASSUME TypeOK, BillingInv, NEW p \in Request, RowsKept, InvoicedRowsKept,
           UNCHANGED invoices, \A q \in Request \ {p} : req'[q] = req[q],
           req'[p].batch \subseteq req[p].batch, RequestBills(p)'
    PROVE  BillingInv'
<1>1. InvoicesSeparate'
  BY InvoicesKept
<1>2. \A q \in Request \ {p} : RequestBills(q)'
  BY RequestKept DEF BillingInv, RequestBills
<1>3. BatchesSeparate'
  BY DEF BillingInv, BatchesSeparate
<1>4. QED
  BY <1>1, <1>2, <1>3 DEF BillingInv

LEMMA ReturnBills ==
    ASSUME TypeOK, NEW p \in Request, Return(p)
    PROVE  /\ RequestBills(p)' /\ req'[p].batch = {} /\ req'[p].pc = "idle"
           /\ \A q \in Request \ {p} : req'[q] = req[q]
<1>1. req'[p] = Idle /\ \A q \in Request \ {p} : req'[q] = req[q]
  BY DEF TypeOK, Return, Goto
<1>2. req'[p].batch = {} /\ req'[p].pc = "idle"
  BY <1>1 DEF Idle
<1>3. QED
  BY <1>1, <1>2, PlainBills

-------------------------------------------------------------------------------
(***************************************************************************)
(* The steps.                                                              *)
(***************************************************************************)
LEMMA StartBills ==
    ASSUME TypeOK, BillingInv, NEW p \in Request, Start(p)
    PROVE  BillingInv'
<1>0. UNCHANGED <<bookings, history, invoices, approvals, job, today>>
  BY DEF Start, CreateIndividual, GuestCreate, CreateCorporate, ProcessAction,
         UpdateStatus, GuestCancel, Update, Delete
<1>1. \A q \in Request \ {p} : req'[q] = req[q]
  BY DEF Start, CreateIndividual, GuestCreate, CreateCorporate, ProcessAction,
         UpdateStatus, GuestCancel, Update, Delete, Goto, TypeOK
<1>2. SUFFICES req'[p].batch = {} /\ RequestBills(p)'
  BY <1>0, <1>1, StepBills, UnchangedRowsKept
<1>3. CASE CreateIndividual(p)
  <2>1. PICK draft : Goto(p, [Idle EXCEPT !.pc = "duplicate", !.draft = draft])
    BY <1>3 DEF CreateIndividual
  <2>2. req'[p].batch = {} /\ req'[p].pc = "duplicate"
    BY <2>1 DEF Goto, TypeOK, Idle
  <2>3. QED
    BY <2>2, PlainBills
<1>4. CASE GuestCreate(p)
  <2>1. PICK draft : Goto(p, [Idle EXCEPT !.pc = "guest_insert", !.draft = draft])
    BY <1>4 DEF GuestCreate
  <2>2. req'[p].batch = {} /\ req'[p].pc = "guest_insert"
    BY <2>1 DEF Goto, TypeOK, Idle
  <2>3. QED
    BY <2>2, PlainBills
<1>5. CASE CreateCorporate(p)
  <2>1. PICK company \in Company : \E list \in GuestLists(company) :
           Goto(p, [Idle EXCEPT !.pc = "corporate_commit",
                      !.company = company, !.draft = list])
    BY <1>5 DEF CreateCorporate
  <2>2. PICK list \in GuestLists(company) :
           Goto(p, [Idle EXCEPT !.pc = "corporate_commit",
                      !.company = company, !.draft = list])
    BY <2>1
  <2>3. \A row \in list : row.company # NoCompany
    BY <2>1, <2>2, ConstantsAssumption DEF GuestLists, NewRow
  <2>4. /\ req'[p].batch = {} /\ req'[p].pc = "corporate_commit"
        /\ req'[p].draft = list
    BY <2>2 DEF Goto, TypeOK, Idle
  <2>5. QED
    BY <2>3, <2>4 DEF RequestBills, ChargesGuest
<1>6. CASE ProcessAction(p)
  <2>1. PICK b, to : Goto(p, [Idle EXCEPT !.pc = "close", !.b = b, !.to = to])
    BY <1>6 DEF ProcessAction
  <2>2. req'[p].batch = {} /\ req'[p].pc = "close"
    BY <2>1 DEF Goto, TypeOK, Idle
  <2>3. QED
    BY <2>2, PlainBills
<1>7. CASE UpdateStatus(p)
  <2>1. PICK b \in Booking, to \in Status :
           /\ Exists(b)
           /\ Goto(p, [Idle EXCEPT !.pc = "status_write", !.b = b, !.to = to,
                                   !.company = bookings[b].company])
    BY <1>7 DEF UpdateStatus
  <2>2. /\ req'[p].batch = {} /\ req'[p].pc = "status_write"
        /\ req'[p].b = b /\ req'[p].company = bookings[b].company
    BY <2>1 DEF Goto, TypeOK, Idle
  <2>3. Used(b)
    BY <2>1 DEF Used, Exists, Status
  <2>4. NeedsInvoice(req'[p]) => GuestPays(b)
    BY <2>2, <2>3 DEF NeedsInvoice, GuestPays
  <2>5. QED
    BY <1>0, <2>2, <2>3, <2>4
    DEF RequestBills, ChargesGuest, GuestPays, Used, Exists, NeedsInvoice
<1>8. CASE GuestCancel(p)
  <2>1. PICK b \in Booking :
           /\ Exists(b)
           /\ Goto(p, [Idle EXCEPT !.pc = "status_write", !.b = b,
                                   !.to = "cancelled"])
    BY <1>8 DEF GuestCancel
  <2>2. /\ req'[p].batch = {} /\ req'[p].pc = "status_write"
        /\ req'[p].b = b /\ req'[p].to = "cancelled"
    BY <2>1 DEF Goto, TypeOK, Idle
  <2>3. Used(b)
    BY <2>1 DEF Used, Exists, Status
  <2>4. QED
    BY <1>0, <2>2, <2>3 DEF RequestBills, ChargesGuest, NeedsInvoice, Used
<1>9. CASE Update(p)
  <2>1. PICK b, in, out, dated, draft :
           Goto(p, [Idle EXCEPT !.pc = "update_check", !.b = b,
                      !.checkIn = in, !.checkOut = out, !.dated = dated,
                      !.draft = draft])
    BY <1>9 DEF Update
  <2>2. req'[p].batch = {} /\ req'[p].pc = "update_check"
    BY <2>1 DEF Goto, TypeOK, Idle
  <2>3. QED
    BY <2>2, PlainBills
<1>10. CASE Delete(p)
  <2>1. PICK b : Goto(p, [Idle EXCEPT !.pc = "delete", !.b = b])
    BY <1>10 DEF Delete
  <2>2. req'[p].batch = {} /\ req'[p].pc = "delete"
    BY <2>1 DEF Goto, TypeOK, Idle
  <2>3. QED
    BY <2>2, PlainBills
<1>11. QED
  BY <1>3, <1>4, <1>5, <1>6, <1>7, <1>8, <1>9, <1>10 DEF Start

(***************************************************************************)
(* The statements that insert rows.                                        *)
(***************************************************************************)
LEMMA InsertBills ==
    ASSUME TypeOK, BillingInv, NEW ids \in SUBSET Unborn,
           NEW new \in [ids -> Row], InsertRows(new)
    PROVE  /\ RowsKept /\ InvoicedRowsKept
           /\ \A b \in ids : bookings'[b] = new[b] /\ Used(b)' /\ Exists(b)'
<1>1. /\ ids \subseteq Booking
      /\ \A b \in ids : ~Used(b) /\ bookings'[b] = new[b]
      /\ \A b \in Booking \ ids : bookings'[b] = bookings[b]
  BY DEF InsertRows, Unborn, Used
<1>2. RowsKept
  BY <1>1 DEF RowsKept, Used, Exists
<1>3. \A b \in ids : Used(b)' /\ Exists(b)'
  BY <1>1 DEF Used, Exists, Row, Status
<1>4. InvoicedRowsKept
  <2>1. \A i \in invoices : i.booking \in Booking \cup {NoBooking}
    BY DEF TypeOK, Invoice
  <2>2. QED
    BY <1>1, <2>1
    DEF BillingInv, InvoicesSeparate, InvoicedRowsKept, GuestPays, Used, Exists
<1>5. QED
  BY <1>1, <1>2, <1>3, <1>4

(***************************************************************************)
(* The statements that write invoices.  An edit keeps the invoice's        *)
(* booking and charges nothing new, or only the booking of the invoice.    *)
(***************************************************************************)
LEMMA BatchNotOwnInvoice ==
    ASSUME TypeOK, BillingInv, NEW q \in Request, NEW b \in req[q].batch,
           NEW c, Exists(c), GuestPays(c)
    PROVE  b # c
BY DEF BillingInv, RequestBills, GuestPays, CompanyPays

LEMMA EditBills ==
    ASSUME TypeOK, BillingInv, UNCHANGED bookings, NEW edit \in [invoices -> Invoice],
           invoices' = {edit[i] : i \in invoices},
           \A i \in invoices :
               /\ edit[i].booking = i.booking
               /\ \/ Charged(edit[i]) \subseteq Charged(i)
                  \/ i.booking # NoBooking /\ Charged(edit[i]) \subseteq {i.booking}
    PROVE  /\ InvoicesSeparate'
           /\ \A q \in Request : \A b \in req[q].batch :
                  \A i \in invoices' : b \notin Charged(i)
<1>1. \A i \in invoices' : \E j \in invoices :
          /\ i = edit[j] /\ i.booking = j.booking
          /\ i.booking = NoBooking => Charged(i) \subseteq Charged(j)
          /\ i.booking # NoBooking => Charged(i) \subseteq {i.booking}
  BY DEF BillingInv, InvoicesSeparate
<1>2. InvoicesSeparate'
  <2>1. ASSUME NEW i \in invoices', i.booking # NoBooking
        PROVE  /\ Exists(i.booking) /\ GuestPays(i.booking)
               /\ Charged(i) \subseteq {i.booking}
    BY <1>1, <2>1 DEF BillingInv, InvoicesSeparate
  <2>2. ASSUME NEW i \in invoices', i.booking = NoBooking
        PROVE  \A b \in Charged(i) : CompanyPays(b)
    BY <1>1, <2>2 DEF BillingInv, InvoicesSeparate
  <2>3. ASSUME NEW i \in invoices', NEW j \in invoices', i # j
        PROVE  IF i.booking = NoBooking /\ j.booking = NoBooking
               THEN Charged(i) \cap Charged(j) = {}
               ELSE i.booking # j.booking
    <3>1. PICK k \in invoices :
             /\ i = edit[k] /\ i.booking = k.booking
             /\ i.booking = NoBooking => Charged(i) \subseteq Charged(k)
      BY <1>1
    <3>2. PICK l \in invoices :
             /\ j = edit[l] /\ j.booking = l.booking
             /\ j.booking = NoBooking => Charged(j) \subseteq Charged(l)
      BY <1>1
    <3>3. k # l
      BY <2>3, <3>1, <3>2
    <3>4. QED
      BY <3>1, <3>2, <3>3 DEF BillingInv, InvoicesSeparate
  <2>4. QED
    BY <2>1, <2>2, <2>3
    DEF InvoicesSeparate, GuestPays, CompanyPays, Used, Exists
<1>3. ASSUME NEW q \in Request, NEW b \in req[q].batch, NEW i \in invoices'
      PROVE  b \notin Charged(i)
  <2>1. PICK j \in invoices :
           /\ i.booking = j.booking
           /\ i.booking = NoBooking => Charged(i) \subseteq Charged(j)
           /\ i.booking # NoBooking => Charged(i) \subseteq {i.booking}
    BY <1>1
  <2>2. CASE i.booking = NoBooking
    BY <2>1, <2>2 DEF BillingInv, RequestBills
  <2>3. CASE i.booking # NoBooking
    <3>1. Exists(j.booking) /\ GuestPays(j.booking)
      BY <2>1, <2>3 DEF BillingInv, InvoicesSeparate
    <3>2. QED
      BY <2>1, <2>3, <3>1, BatchNotOwnInvoice
  <2>4. QED
    BY <2>2, <2>3
<1>4. QED
  BY <1>2, <1>3

\* An insert that charges nobody another request is about to charge.
LEMMA InsertedBills ==
    ASSUME TypeOK, BillingInv, NEW p \in Request, NEW new, UNCHANGED bookings,
           Return(p), invoices' = invoices \cup {new}, InvoicesSeparate',
           \A q \in Request \ {p} : \A b \in req[q].batch : b \notin Charged(new)
    PROVE  BillingInv'
<1>1. /\ RequestBills(p)' /\ req'[p].batch = {}
      /\ \A q \in Request \ {p} : req'[q] = req[q]
  BY ReturnBills
<1>2. RowsKept
  BY UnchangedRowsKept
<1>3. \A q \in Request \ {p} : \A b \in req[q].batch :
          \A i \in invoices' : b \notin Charged(i)
  BY DEF BillingInv, RequestBills
<1>4. \A q \in Request \ {p} : RequestBills(q)'
  BY <1>1, <1>2, <1>3, RequestKept
<1>5. BatchesSeparate'
  BY <1>1 DEF BillingInv, BatchesSeparate
<1>6. QED
  BY <1>1, <1>4, <1>5 DEF BillingInv

LEMMA InsertInvoiceBills ==
    ASSUME TypeOK, BillingInv, NEW p \in Request, InsertInvoice(p)
    PROVE  BillingInv'
<1>0. /\ UNCHANGED bookings /\ Return(p)
      /\ req[p] \in Local /\ RequestBills(p) /\ req[p].pc = "invoice_insert"
  BY DEF InsertInvoice, At, TypeOK, BillingInv
<1>1. CASE UNCHANGED invoices
  BY <1>0, <1>1, UnchangedRowsKept, ReturnBills, StepBills
<1>2. CASE ~UNCHANGED invoices
  <2>1. PICK new :
           /\ new = [number |-> req[p].number, booking |-> req[p].b,
                     company |-> req[p].company, nights |-> req[p].nights,
                     due |-> req[p].due]
           /\ invoices' = invoices \cup {new}
           /\ req[p].b # NoBooking => InvoicesOf(req[p].b) = {} /\ Exists(req[p].b)
    BY <1>2 DEF InsertInvoice
  <2>2. /\ new.booking = req[p].b
        /\ Charged(new) = Charged(req[p])
        /\ Charged(new) \subseteq req[p].batch \cup {req[p].b}
    BY <1>0, <2>1 DEF Charged, RequestBills
  <2>3. CASE req[p].b # NoBooking
    <3>1. /\ GuestPays(req[p].b) /\ Exists(req[p].b)
          /\ req[p].batch = {}
          /\ \A i \in invoices : i.booking # req[p].b
      BY <1>0, <2>1, <2>3 DEF RequestBills, ChargesGuest, InvoicesOf
    <3>2. Charged(new) \subseteq {req[p].b}
      BY <2>2, <3>1
    <3>3. InvoicesSeparate'
      BY <1>0, <2>1, <2>2, <2>3, <3>1, <3>2
      DEF BillingInv, InvoicesSeparate, GuestPays, CompanyPays, Used, Exists
    <3>4. \A q \in Request : \A b \in req[q].batch : b \notin Charged(new)
      BY <3>1, <3>2, BatchNotOwnInvoice
    <3>5. QED
      BY <1>0, <2>1, <3>3, <3>4, InsertedBills
  <2>4. CASE req[p].b = NoBooking
    <3>1. Charged(new) \subseteq req[p].batch
      BY <2>2, <2>4, ConstantsAssumption DEF Charged
    <3>2. \A b \in req[p].batch : CompanyPays(b)
             /\ \A i \in invoices : b \notin Charged(i)
      BY <1>0 DEF RequestBills
    <3>3. InvoicesSeparate'
      <4>1. \A i \in invoices : Charged(i) \cap Charged(new) = {}
        BY <3>1, <3>2
      <4>2. QED
        BY <1>0, <2>1, <2>2, <2>4, <3>1, <3>2, <4>1
        DEF BillingInv, InvoicesSeparate, GuestPays, CompanyPays, Used, Exists
    <3>4. \A q \in Request \ {p} : \A b \in req[q].batch : b \notin Charged(new)
      BY <3>1 DEF BillingInv, BatchesSeparate
    <3>5. QED
      BY <1>0, <2>1, <3>3, <3>4, InsertedBills
  <2>5. QED
    BY <2>3, <2>4
<1>3. QED
  BY <1>1, <1>2

(***************************************************************************)
(* The other steps of a request.                                           *)
(***************************************************************************)
LEMMA ContinueBills ==
    ASSUME TypeOK, BillingInv, NEW p \in Request, Continue(p)
    PROVE  BillingInv'
<1>0. /\ req[p] \in Local
      /\ req[p].pc \in OnBooking => req[p].b \in Booking
      /\ RequestBills(p)
  BY DEF TypeOK, BillingInv
<1>1. \A q \in Request \ {p} : req'[q] = req[q]
  BY DEF Continue, CheckDuplicate, InsertBooking, GuestInsert,
         InitiateWorkflow, CloseInstance, UpdateEntityStatus, CommitCorporate,
         GenerateCorporateInvoice, UpdateStatusTx, GenerateForBooking,
         GenerateInvoiceNumber, InsertInvoice, UpdateCheckRoom, UpdateWrite,
         RecalculateRoomCharge, UpdateRoomLineItem, DeleteRow,
         Goto, Return, TypeOK
<1>2. ASSUME UNCHANGED invoices, RowsKept, InvoicedRowsKept, Return(p)
      PROVE  BillingInv'
  BY <1>2, ReturnBills, StepBills
<1>3. ASSUME UNCHANGED <<bookings, invoices>>, RequestBills(p)',
             req'[p].batch \subseteq req[p].batch
      PROVE  BillingInv'
  BY <1>1, <1>3, UnchangedRowsKept, StepBills
<1>4. CASE UNCHANGED <<bookings, invoices>> /\ Return(p)
  BY <1>2, <1>4, UnchangedRowsKept
<1>5. CASE CheckDuplicate(p)
  <2>1. CASE Goto(p, [req[p] EXCEPT !.pc = "insert"])
    <3>1. req'[p].pc = "insert" /\ req'[p].batch = req[p].batch
      BY <1>0, <2>1 DEF Goto, TypeOK, Local
    <3>2. req[p].batch = {}
      BY <1>0, <1>5 DEF CheckDuplicate, At, RequestBills
    <3>3. QED
      BY <1>3, <1>5, <3>1, <3>2, PlainBills DEF CheckDuplicate
  <2>2. QED
    BY <1>4, <1>5, <2>1 DEF CheckDuplicate
<1>6. CASE InsertBooking(p)
  <2>1. CASE UNCHANGED bookings
    BY <1>4, <1>6, <2>1 DEF InsertBooking
  <2>2. CASE \E b \in Unborn, r \in req[p].draft : InsertRows([x \in {b} |-> r])
    <3>1. PICK b \in Unborn, r \in req[p].draft : InsertRows([x \in {b} |-> r])
      BY <2>2
    <3>2. {b} \in SUBSET Unborn /\ [x \in {b} |-> r] \in [{b} -> Row]
      BY <1>0, <3>1 DEF Local
    <3>3. RowsKept /\ InvoicedRowsKept
      BY <3>1, <3>2, InsertBills
    <3>4. QED
      BY <1>2, <1>6, <3>3 DEF InsertBooking
  <2>3. QED
    BY <1>6, <2>1, <2>2 DEF InsertBooking
<1>7. CASE GuestInsert(p)
  <2>1. CASE UNCHANGED bookings /\ Return(p)
    BY <1>4, <1>7, <2>1 DEF GuestInsert
  <2>2. CASE \E b \in Unborn, r \in req[p].draft :
               /\ InsertRows([x \in {b} |-> r])
               /\ Goto(p, [Idle EXCEPT !.pc = "initiate", !.b = b])
    <3>1. PICK b \in Unborn, r \in req[p].draft :
               /\ InsertRows([x \in {b} |-> r])
               /\ Goto(p, [Idle EXCEPT !.pc = "initiate", !.b = b])
      BY <2>2
    <3>2. {b} \in SUBSET Unborn /\ [x \in {b} |-> r] \in [{b} -> Row]
      BY <1>0, <3>1 DEF Local
    <3>3. RowsKept /\ InvoicedRowsKept
      BY <3>1, <3>2, InsertBills
    <3>4. req'[p].pc = "initiate" /\ req'[p].batch = {}
      BY <3>1 DEF Goto, TypeOK, Idle
    <3>5. QED
      BY <1>1, <1>7, <3>3, <3>4, PlainBills, StepBills DEF GuestInsert
  <2>3. QED
    BY <1>7, <2>1, <2>2 DEF GuestInsert
<1>8. CASE InitiateWorkflow(p)
  BY <1>4, <1>8 DEF InitiateWorkflow
<1>9. CASE CloseInstance(p)
  <2>1. req'[p].pc = "entity" /\ req'[p].batch = req[p].batch
    BY <1>0, <1>9 DEF CloseInstance, Goto, TypeOK, Local
  <2>2. req[p].batch = {}
    BY <1>0, <1>9 DEF CloseInstance, At, RequestBills
  <2>3. QED
    BY <1>3, <1>9, <2>1, <2>2, PlainBills DEF CloseInstance
<1>10. ASSUME NEW b \in Booking, NEW to \in Status, SetStatus(b, to)
       PROVE  RowsKept /\ InvoicedRowsKept /\ (Exists(b) => Exists(b)')
  <2>1. CASE ~Exists(b)
    BY <1>10, <2>1, UnchangedRowsKept DEF SetStatus
  <2>2. CASE Exists(b)
    <3>1. bookings[b] \in Row
      BY <1>10, <2>2, ExistingIsRow
    <3>2. /\ bookings'[b].status = to
          /\ bookings'[b].company = bookings[b].company
          /\ \A c \in Booking \ {b} : bookings'[c] = bookings[c]
      BY <1>10, <2>2, <3>1 DEF SetStatus, TypeOK, Row
    <3>3. \A i \in invoices : i.booking \in Booking \cup {NoBooking}
      BY DEF TypeOK, Invoice
    <3>4. RowsKept /\ (Exists(b) => Exists(b)')
      BY <2>2, <3>2 DEF RowsKept, Used, Exists, Status
    <3>5. InvoicedRowsKept
      BY <2>2, <3>2, <3>3 DEF InvoicedRowsKept, BillingInv, InvoicesSeparate, Exists
    <3>6. QED
      BY <3>4, <3>5
  <2>3. QED
    BY <2>1, <2>2
<1>11. CASE UpdateEntityStatus(p)
  <2>1. req[p].b \in Booking /\ req[p].to \in Status
    BY <1>0, <1>11 DEF UpdateEntityStatus, At, OnBooking, Local
  <2>2. QED
    BY <1>2, <1>10, <1>11, <2>1 DEF UpdateEntityStatus
<1>13. CASE UpdateStatusTx(p)
  <2>1. /\ req[p].b \in Booking /\ req[p].to \in Status /\ Used(req[p].b)
        /\ NeedsInvoice(req[p]) => GuestPays(req[p].b)
    BY <1>0, <1>13
    DEF UpdateStatusTx, At, OnBooking, Local, RequestBills, ChargesGuest
  <2>2. RowsKept /\ InvoicedRowsKept
    BY <1>10, <1>13, <2>1 DEF UpdateStatusTx
  <2>3. CASE Return(p)
    BY <1>2, <1>13, <2>2, <2>3 DEF UpdateStatusTx
  <2>4. CASE /\ NeedsInvoice(req[p])
             /\ Goto(p, [Idle EXCEPT !.pc = "generate", !.b = req[p].b])
    <3>0. PICK b \in Booking : b = req[p].b
      BY <2>1
    <3>1. /\ req'[p].pc = "generate" /\ req'[p].b = b
          /\ req'[p].batch = {}
      BY <2>4, <3>0 DEF Goto, TypeOK, Idle
    <3>2. Used(b)' /\ GuestPays(b)'
      BY <2>1, <2>2, <2>4, <3>0, PayersKept DEF RowsKept
    <3>3. RequestBills(p)'
      BY <3>1, <3>2 DEF RequestBills, ChargesGuest, Used, GuestPays, Exists
    <3>4. QED
      BY <1>1, <1>13, <2>2, <3>1, <3>3, StepBills DEF UpdateStatusTx
  <2>5. QED
    BY <1>13, <2>3, <2>4 DEF UpdateStatusTx
<1>14. CASE CommitCorporate(p)
  <2>1. CASE UNCHANGED bookings /\ Return(p)
    BY <1>4, <1>14, <2>1 DEF CommitCorporate
  <2>2. CASE \E ids \in SUBSET Unborn : \E new \in [ids -> req[p].draft] :
               /\ InsertRows(new)
               /\ Goto(p, [Idle EXCEPT !.pc = "corporate_invoice",
                             !.company = req[p].company, !.batch = ids])
    <3>1. PICK ids \in SUBSET Unborn : \E new \in [ids -> req[p].draft] :
               /\ InsertRows(new)
               /\ Goto(p, [Idle EXCEPT !.pc = "corporate_invoice",
                             !.company = req[p].company, !.batch = ids])
      BY <2>2
    <3>2. PICK new \in [ids -> req[p].draft] :
               /\ InsertRows(new)
               /\ Goto(p, [Idle EXCEPT !.pc = "corporate_invoice",
                             !.company = req[p].company, !.batch = ids])
      BY <3>1
    <3>3. /\ new \in [ids -> Row]
          /\ \A b \in ids : new[b].company # NoCompany
      BY <1>0, <1>14, <3>2 DEF CommitCorporate, At, Local, RequestBills
    <3>4. /\ RowsKept /\ InvoicedRowsKept
          /\ \A b \in ids : bookings'[b] = new[b] /\ Used(b)'
      BY <3>2, <3>3, InsertBills
    <3>5. \A b \in ids : CompanyPays(b)'
      BY <3>3, <3>4 DEF CompanyPays
    <3>6. \A b \in ids : ~Used(b) /\ b \in Booking
      BY DEF Unborn, Used
    <3>7. \A b \in ids : \A i \in invoices : b \notin Charged(i)
      BY <3>6 DEF BillingInv, InvoicesSeparate, GuestPays, CompanyPays
    <3>8. \A b \in ids : \A q \in Request : b \notin req[q].batch
      BY <3>6 DEF BillingInv, RequestBills, CompanyPays
    <3>9. /\ req'[p].pc = "corporate_invoice" /\ req'[p].b = NoBooking
          /\ req'[p].batch = ids
      BY <3>2 DEF Goto, TypeOK, Idle
    <3>10. UNCHANGED invoices
      BY <1>14 DEF CommitCorporate
    <3>11. RequestBills(p)'
      BY <3>5, <3>7, <3>9, <3>10 DEF RequestBills, ChargesGuest, CompanyPays
    <3>12. InvoicesSeparate'
      BY <3>4, <3>10, InvoicesKept
    <3>13. \A q \in Request \ {p} : RequestBills(q)'
      BY <1>1, <3>4, <3>10, RequestKept DEF BillingInv, RequestBills
    <3>14. BatchesSeparate'
      BY <1>1, <3>8, <3>9 DEF BillingInv, BatchesSeparate
    <3>15. QED
      BY <3>11, <3>12, <3>13, <3>14 DEF BillingInv
  <2>3. QED
    BY <1>14, <2>1, <2>2 DEF CommitCorporate
<1>15. CASE GenerateCorporateInvoice(p)
  <2>1. CASE ~Return(p)
    <3>1. PICK nights :
             /\ \A b \in Booking : nights[b] > 0 => b \in req[p].batch
             /\ Goto(p, [req[p] EXCEPT !.pc = "invoice_number",
                                       !.nights = nights])
      <4> DEFINE found == {b \in req[p].batch : Exists(b)}
                 nights == [b \in Booking |->
                     IF b \in found
                     THEN Nights(bookings[b].checkIn, bookings[b].checkOut)
                     ELSE 0]
      <4>1. Goto(p, [req[p] EXCEPT !.pc = "invoice_number", !.nights = nights])
        BY <1>15, <2>1 DEF GenerateCorporateInvoice
      <4>2. \A b \in Booking : nights[b] > 0 => b \in req[p].batch
        OBVIOUS
      <4>3. QED
        BY <4>1, <4>2
    <3>2. /\ req'[p].pc = "invoice_number" /\ req'[p].b = req[p].b
          /\ req'[p].batch = req[p].batch /\ req'[p].nights = nights
      BY <1>0, <3>1 DEF Goto, TypeOK, Local
    <3>3. /\ req[p].b = NoBooking
          /\ \A b \in req[p].batch :
                 CompanyPays(b) /\ \A i \in invoices : b \notin Charged(i)
      BY <1>0, <1>15 DEF GenerateCorporateInvoice, At, RequestBills
    <3>4. Charged(req'[p]) \subseteq req[p].batch
      BY <3>1, <3>2 DEF Charged
    <3>5. UNCHANGED <<bookings, invoices>>
      BY <1>15 DEF GenerateCorporateInvoice
    <3>6. RequestBills(p)'
      BY <3>2, <3>3, <3>4, <3>5
      DEF RequestBills, ChargesGuest, CompanyPays, Used, Exists
    <3>7. QED
      BY <1>3, <3>2, <3>5, <3>6
  <2>2. QED
    BY <1>4, <1>15, <2>1 DEF GenerateCorporateInvoice
<1>16. CASE GenerateForBooking(p)
  <2>1. CASE ~Return(p)
    <3>1. PICK n, due :
             Goto(p, [req[p] EXCEPT !.pc = "invoice_number",
                        !.nights = [NoNights EXCEPT ![req[p].b] = n],
                        !.due = due])
      BY <1>16, <2>1 DEF GenerateForBooking
    <3>2. /\ req'[p].pc = "invoice_number" /\ req'[p].b = req[p].b
          /\ req'[p].batch = req[p].batch
          /\ req'[p].nights = [NoNights EXCEPT ![req[p].b] = n]
      BY <1>0, <3>1 DEF Goto, TypeOK, Local
    <3>3. req[p].b \in Booking /\ GuestPays(req[p].b) /\ req[p].batch = {}
      BY <1>0, <1>16 DEF GenerateForBooking, At, OnBooking, RequestBills, ChargesGuest
    <3>4. Charged(req'[p]) \subseteq {req[p].b}
      BY <3>2, <3>3 DEF Charged, NoNights
    <3>5. UNCHANGED <<bookings, invoices>>
      BY <1>16 DEF GenerateForBooking
    <3>6. RequestBills(p)'
      BY <3>2, <3>3, <3>4, <3>5
      DEF RequestBills, ChargesGuest, GuestPays, Used, Exists
    <3>7. QED
      BY <1>3, <3>2, <3>5, <3>6
  <2>2. QED
    BY <1>4, <1>16, <2>1 DEF GenerateForBooking
<1>17. CASE GenerateInvoiceNumber(p)
  <2>1. /\ req'[p].pc = "invoice_insert" /\ req'[p].b = req[p].b
        /\ req'[p].batch = req[p].batch /\ req'[p].nights = req[p].nights
    BY <1>0, <1>17 DEF GenerateInvoiceNumber, Goto, TypeOK, Local
  <2>2. UNCHANGED <<bookings, invoices>> /\ req[p].pc = "invoice_number"
    BY <1>17 DEF GenerateInvoiceNumber, At
  <2>3. Charged(req'[p]) = Charged(req[p])
    BY <2>1 DEF Charged
  <2>4. RequestBills(p)'
    BY <1>0, <2>1, <2>2, <2>3
    DEF RequestBills, ChargesGuest, GuestPays, CompanyPays, Used, Exists
  <2>5. QED
    BY <1>3, <2>1, <2>2, <2>4
<1>18. CASE InsertInvoice(p)
  BY <1>18, InsertInvoiceBills
<1>19. CASE UpdateCheckRoom(p)
  <2>1. CASE Goto(p, [req[p] EXCEPT !.pc = "update_write", !.draft = {}])
    <3>1. req'[p].pc = "update_write" /\ req'[p].batch = req[p].batch
      BY <1>0, <2>1 DEF Goto, TypeOK, Local
    <3>2. req[p].batch = {}
      BY <1>0, <1>19 DEF UpdateCheckRoom, At, RequestBills
    <3>3. QED
      BY <1>3, <1>19, <3>1, <3>2, PlainBills DEF UpdateCheckRoom
  <2>2. QED
    BY <1>4, <1>19, <2>1 DEF UpdateCheckRoom
<1>20. CASE UpdateWrite(p)
  <2>1. RowsKept /\ InvoicedRowsKept
    <3>1. CASE UNCHANGED bookings
      BY <3>1, UnchangedRowsKept
    <3>2. CASE /\ Exists(req[p].b)
               /\ bookings' = [bookings EXCEPT ![req[p].b].checkIn = req[p].checkIn,
                                              ![req[p].b].checkOut = req[p].checkOut]
      <4>1. PICK b \in Booking : b = req[p].b
        BY <1>0, <1>20 DEF UpdateWrite, At, OnBooking
      <4>2. bookings[b] \in Row
        BY <3>2, <4>1, ExistingIsRow
      <4>3. [bookings[b] EXCEPT !.checkIn = req[p].checkIn,
                                !.checkOut = req[p].checkOut] \in
                [status : {bookings[b].status}, room : Room, client : Client,
                 company : {bookings[b].company}, checkIn : Day, checkOut : Day,
                 overstayed : BOOLEAN]
        BY <1>0, <4>2 DEF Row, Local
      <4>4. \A c \in Booking : /\ bookings'[c].status = bookings[c].status
                               /\ bookings'[c].company = bookings[c].company
        BY <3>2, <4>1, <4>3 DEF TypeOK
      <4>5. QED
        BY <4>4, SameRowsKept
    <3>3. QED
      BY <1>20, <3>1, <3>2 DEF UpdateWrite, SetDates
  <2>2. CASE Return(p)
    BY <1>2, <1>20, <2>1, <2>2 DEF UpdateWrite
  <2>3. CASE Goto(p, [Idle EXCEPT !.pc = "recalculate", !.b = req[p].b])
    <3>1. req'[p].pc = "recalculate" /\ req'[p].batch = {}
      BY <2>3 DEF Goto, TypeOK, Idle
    <3>2. QED
      BY <1>1, <1>20, <2>1, <3>1, PlainBills, StepBills DEF UpdateWrite
  <2>4. QED
    BY <1>20, <2>2, <2>3 DEF UpdateWrite
<1>21. CASE RecalculateRoomCharge(p)
  <2>1. CASE ~Return(p)
    <3>1. PICK n :
             Goto(p, [req[p] EXCEPT !.pc = "room_line",
                        !.nights = [NoNights EXCEPT ![req[p].b] = n]])
      BY <1>21, <2>1 DEF RecalculateRoomCharge
    <3>2. /\ req'[p].pc = "room_line" /\ req'[p].b = req[p].b
          /\ req'[p].batch = req[p].batch
          /\ req'[p].nights = [NoNights EXCEPT ![req[p].b] = n]
      BY <1>0, <3>1 DEF Goto, TypeOK, Local
    <3>3. req[p].b \in Booking /\ req[p].batch = {}
      BY <1>0, <1>21 DEF RecalculateRoomCharge, At, OnBooking, RequestBills
    <3>4. Charged(req'[p]) \subseteq {req[p].b}
      BY <3>2, <3>3 DEF Charged, NoNights
    <3>5. RequestBills(p)'
      BY <3>2, <3>3, <3>4 DEF RequestBills, ChargesGuest
    <3>6. QED
      BY <1>3, <1>21, <3>2, <3>5 DEF RecalculateRoomCharge
  <2>2. QED
    BY <1>4, <1>21, <2>1 DEF RecalculateRoomCharge
<1>22. CASE UpdateRoomLineItem(p)
  <2> DEFINE edit == [i \in invoices |->
                 IF i.booking = req[p].b
                 THEN [i EXCEPT !.nights = req[p].nights, !.due = today]
                 ELSE i]
  <2>1. /\ req[p].b \in Booking /\ req[p].b # NoBooking
        /\ Charged(req[p]) \subseteq {req[p].b}
        /\ UNCHANGED bookings /\ Return(p)
    BY <1>0, <1>22, ConstantsAssumption
    DEF UpdateRoomLineItem, At, OnBooking, RequestBills
  <2>2. ASSUME NEW i \in Invoice
        PROVE  LET e == [i EXCEPT !.nights = req[p].nights, !.due = today]
               IN  e \in Invoice /\ e.booking = i.booking /\ e.nights = req[p].nights
    BY <1>0 DEF TypeOK, Local, Invoice
  <2>3. edit \in [invoices -> Invoice]
    BY <2>2 DEF TypeOK
  <2>4. \A i \in invoices :
           /\ edit[i].booking = i.booking
           /\ \/ Charged(edit[i]) \subseteq Charged(i)
              \/ i.booking # NoBooking /\ Charged(edit[i]) \subseteq {i.booking}
    <3>1. ASSUME NEW i \in invoices, i.booking = req[p].b
          PROVE  /\ edit[i].booking = i.booking
                 /\ Charged(edit[i]) \subseteq {i.booking}
      BY <2>1, <2>2, <3>1 DEF Charged, TypeOK
    <3>2. ASSUME NEW i \in invoices, i.booking # req[p].b
          PROVE  edit[i] = i
      BY <3>2
    <3>3. QED
      BY <2>1, <3>1, <3>2
  <2>5. invoices' = {edit[i] : i \in invoices}
    BY <1>22 DEF UpdateRoomLineItem
  <2>6. /\ InvoicesSeparate'
        /\ \A q \in Request : \A b \in req[q].batch :
               \A i \in invoices' : b \notin Charged(i)
    <3> HIDE DEF edit
    <3>1. QED
      BY <2>1, <2>3, <2>4, <2>5, EditBills
  <2>7. RowsKept
    BY <2>1, UnchangedRowsKept
  <2>8. RequestBills(p)' /\ req'[p].batch = {}
    BY <2>1, ReturnBills
  <2>9. \A q \in Request \ {p} : RequestBills(q)'
    BY <1>1, <2>6, <2>7, RequestKept
  <2>10. BatchesSeparate'
    BY <1>1, <2>8 DEF BillingInv, BatchesSeparate
  <2>11. QED
    BY <2>6, <2>8, <2>9, <2>10 DEF BillingInv
<1>23. CASE DeleteRow(p)
  <2>1. CASE UNCHANGED bookings
    BY <1>4, <1>23, <2>1 DEF DeleteRow
  <2>2. CASE /\ Exists(req[p].b) /\ InvoicesOf(req[p].b) = {}
             /\ bookings' = [bookings EXCEPT ![req[p].b] = Deleted]
    <3>1. PICK b \in Booking : b = req[p].b
      BY <1>0, <1>23 DEF DeleteRow, At, OnBooking
    <3>2. /\ bookings'[b].status = "deleted"
          /\ \A c \in Booking \ {b} : bookings'[c] = bookings[c]
      BY <2>2, <3>1 DEF TypeOK, Deleted
    <3>3. RowsKept
      BY <3>2 DEF RowsKept, Used, Exists, Status
    <3>4. \A i \in invoices : i.booking # b /\ i.booking \in Booking \cup {NoBooking}
      BY <2>2, <3>1 DEF InvoicesOf, TypeOK, Invoice
    <3>5. InvoicedRowsKept
      BY <3>2, <3>4 DEF InvoicedRowsKept, BillingInv, InvoicesSeparate, Exists
    <3>6. QED
      BY <1>2, <1>23, <3>3, <3>5 DEF DeleteRow
  <2>3. QED
    BY <1>23, <2>1, <2>2 DEF DeleteRow
<1>24. QED
  BY <1>5, <1>6, <1>7, <1>8, <1>9, <1>11, <1>13, <1>14, <1>15, <1>16, <1>17,
     <1>18, <1>19, <1>20, <1>21, <1>22, <1>23 DEF Continue

(***************************************************************************)
(* The job, the manual clearing of its flag, the days and the crashes.     *)
(***************************************************************************)
LEMMA RequestsUnchangedBill ==
    ASSUME TypeOK, BillingInv, RowsKept, InvoicedRowsKept, UNCHANGED <<invoices, req>>
    PROVE  BillingInv'
<1>1. InvoicesSeparate'
  BY InvoicesKept
<1>2. \A q \in Request : RequestBills(q)'
  BY RequestKept DEF BillingInv, RequestBills
<1>3. QED
  BY <1>1, <1>2 DEF BillingInv, BatchesSeparate

LEMMA JobBills ==
    ASSUME TypeOK, BillingInv, JobStep
    PROVE  BillingInv'
<1>0. /\ job \in Job
      /\ job.pc \in {"mark", "due"} => job.cur \in Booking
  BY DEF TypeOK
<1>1. CASE JobScan
  BY <1>1, UnchangedRowsKept, RequestsUnchangedBill DEF JobScan
<1>2. CASE ExtendCheckout
  <2>1. PICK b \in job.refs :
           \/ UNCHANGED bookings
           \/ Exists(b) /\ bookings' = [bookings EXCEPT ![b].checkOut = job.day]
    BY <1>2 DEF ExtendCheckout
  <2>2. CASE UNCHANGED bookings
    BY <1>2, <2>2, UnchangedRowsKept, RequestsUnchangedBill DEF ExtendCheckout
  <2>3. CASE Exists(b) /\ bookings' = [bookings EXCEPT ![b].checkOut = job.day]
    <3>1. b \in Booking /\ bookings[b] \in Row
      BY <1>0, <2>1, <2>3, ExistingIsRow DEF Job
    <3>2. /\ [bookings[b] EXCEPT !.checkOut = job.day].status = bookings[b].status
          /\ [bookings[b] EXCEPT !.checkOut = job.day].company = bookings[b].company
      BY <3>1 DEF Row
    <3>3. \A c \in Booking : /\ bookings'[c].status = bookings[c].status
                             /\ bookings'[c].company = bookings[c].company
      BY <2>3, <3>1, <3>2 DEF TypeOK
    <3>4. QED
      BY <1>2, <3>3, SameRowsKept, RequestsUnchangedBill DEF ExtendCheckout
  <2>4. QED
    BY <2>1, <2>2, <2>3
<1>3. CASE MarkOverstayed
  <2>1. CASE ~Exists(job.cur)
    BY <1>3, <2>1, UnchangedRowsKept, RequestsUnchangedBill DEF MarkOverstayed
  <2>2. CASE Exists(job.cur)
    <3>1. job.cur \in Booking /\ bookings[job.cur] \in Row
      BY <1>0, <1>3, <2>2, ExistingIsRow DEF MarkOverstayed
    <3>2. /\ [bookings[job.cur] EXCEPT !.overstayed = TRUE].status
                 = bookings[job.cur].status
          /\ [bookings[job.cur] EXCEPT !.overstayed = TRUE].company
                 = bookings[job.cur].company
      BY <3>1 DEF Row
    <3>3. \A c \in Booking : /\ bookings'[c].status = bookings[c].status
                             /\ bookings'[c].company = bookings[c].company
      BY <1>3, <2>2, <3>1, <3>2 DEF MarkOverstayed, TypeOK
    <3>4. QED
      BY <1>3, <3>3, SameRowsKept, RequestsUnchangedBill DEF MarkOverstayed
  <2>3. QED
    BY <2>1, <2>2
<1>4. CASE UpdateDueDate
  <2> DEFINE edit == [i \in invoices |->
                 IF i.booking = job.cur THEN [i EXCEPT !.due = job.day] ELSE i]
  <2>1. ASSUME NEW i \in Invoice
        PROVE  LET e == [i EXCEPT !.due = job.day]
               IN  e \in Invoice /\ e.booking = i.booking /\ e.nights = i.nights
    BY <1>0 DEF Job, Invoice
  <2>2. edit \in [invoices -> Invoice]
    BY <2>1 DEF TypeOK
  <2>3. \A i \in invoices :
           edit[i].booking = i.booking /\ Charged(edit[i]) = Charged(i)
    BY <2>1 DEF TypeOK, Charged
  <2>4. invoices' = {edit[i] : i \in invoices} /\ UNCHANGED <<bookings, req>>
    BY <1>4 DEF UpdateDueDate
  <2>5. /\ InvoicesSeparate'
        /\ \A q \in Request : \A b \in req[q].batch :
               \A i \in invoices' : b \notin Charged(i)
    <3> HIDE DEF edit
    <3>1. QED
      BY <2>2, <2>3, <2>4, EditBills
  <2>6. \A q \in Request : RequestBills(q)'
    BY <2>4, <2>5, UnchangedRowsKept, RequestKept
  <2>7. QED
    BY <2>4, <2>5, <2>6 DEF BillingInv, BatchesSeparate
<1>5. QED
  BY <1>1, <1>2, <1>3, <1>4 DEF JobStep

LEMMA OthersBill ==
    ASSUME TypeOK, BillingInv, ClearOverstayed \/ Tick \/ Crash
    PROVE  BillingInv'
<1>1. CASE ClearOverstayed
  <2>1. PICK b \in Booking :
           Exists(b) /\ bookings' = [bookings EXCEPT ![b].overstayed = FALSE]
    BY <1>1 DEF ClearOverstayed
  <2>2. bookings[b] \in Row
    BY <2>1, ExistingIsRow
  <2>3. /\ [bookings[b] EXCEPT !.overstayed = FALSE].status = bookings[b].status
        /\ [bookings[b] EXCEPT !.overstayed = FALSE].company = bookings[b].company
    BY <2>2 DEF Row
  <2>4. \A c \in Booking : /\ bookings'[c].status = bookings[c].status
                           /\ bookings'[c].company = bookings[c].company
    BY <2>1, <2>3 DEF TypeOK
  <2>5. QED
    BY <1>1, <2>4, SameRowsKept, RequestsUnchangedBill DEF ClearOverstayed
<1>2. CASE Tick
  BY <1>2, UnchangedRowsKept, RequestsUnchangedBill DEF Tick
<1>3. CASE Crash
  <2>1. \A p \in Request : req'[p] = Idle
    BY <1>3 DEF Crash
  <2>2. Idle.batch = {} /\ Idle.pc = "idle"
    BY DEF Idle
  <2>3. \A p \in Request : RequestBills(p)'
    BY <2>1, <2>2, PlainBills
  <2>4. BatchesSeparate'
    BY <2>1, <2>2 DEF BatchesSeparate
  <2>5. InvoicesSeparate'
    BY <1>3, UnchangedRowsKept, InvoicesKept DEF Crash
  <2>6. QED
    BY <2>3, <2>4, <2>5 DEF BillingInv
<1>4. QED
  BY <1>1, <1>2, <1>3

LEMMA InitBills == Init => BillingInv
<1>1. Idle.batch = {} /\ Idle.pc = "idle"
  BY DEF Idle
<1>2. QED
  BY <1>1 DEF Init, BillingInv, InvoicesSeparate, BatchesSeparate, RequestBills,
              ChargesGuest

LEMMA NextBills ==
    TypeOK /\ BillingInv /\ [Next]_vars => BillingInv'
<1>1. SUFFICES ASSUME TypeOK, BillingInv, [Next]_vars
               PROVE  BillingInv'
  OBVIOUS
<1>2. CASE \E p \in Request : Start(p) \/ Continue(p)
  BY <1>1, <1>2, StartBills, ContinueBills
<1>3. CASE JobStep
  BY <1>1, <1>3, JobBills
<1>4. CASE ClearOverstayed \/ Tick \/ Crash
  BY <1>1, <1>4, OthersBill
<1>5. CASE UNCHANGED vars
  BY <1>1, <1>5, UnchangedRowsKept, RequestsUnchangedBill DEF vars
<1>6. QED
  BY <1>1, <1>2, <1>3, <1>4, <1>5 DEF Next

(***************************************************************************)
(* Whatever handlers interleave, fail or die half-way, the nights of a     *)
(* booking are never charged on two invoices.                              *)
(***************************************************************************)
THEOREM AlwaysBilledAtMostOnce == Spec => []BilledAtMostOnce
<1>1. Init => BillingInv
  BY InitBills
<1>2. TypeOK /\ BillingInv /\ [Next]_vars => BillingInv'
  BY NextBills
<1>3. TypeOK /\ BillingInv => BilledAtMostOnce
  BY BillingInvImplies
<1>4. QED
  BY <1>1, <1>2, <1>3, TypeCorrect, PTL DEF Spec
===============================================================================
