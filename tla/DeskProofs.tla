------------------------------ MODULE DeskProofs ------------------------------
(***************************************************************************)
(* The booking desk when its handlers run one at a time, for any number of *)
(* bookings, rooms, companies and days.  Nothing then happens between what *)
(* a handler reads and what it writes but the passing of days and crashes, *)
(* so what a handler has read is still true when it writes: Fresh says     *)
(* what each statement relies on.  Every theorem names the handlers that   *)
(* break its property even so.                                             *)
(***************************************************************************)
EXTENDS ReservationsLedger, ReservationsProofs

Stay(b) == Nights(bookings[b].checkIn, bookings[b].checkOut)

\* At most one request is in flight, and none beside the job.
Alone ==
    /\ job # JobIdle => \A p \in Request : req[p] = Idle
    /\ \A p, q \in Request : p # q => req[p] = Idle \/ req[q] = Idle

\* A row about to be inserted fits beside the active bookings.
Insertable(row) ==
    /\ row \in Row /\ row.status = "pending" /\ row.checkIn < row.checkOut
    /\ IsRoomAvailable(row.room, row.checkIn, row.checkOut, NoBooking)

\* What the next statement of a request relies on.
Fresh(r) ==
    /\ r.pc \in {"duplicate", "insert", "guest_insert"} =>
          \A row \in r.draft : Insertable(row) /\ row.company = NoCompany
    /\ r.pc = "corporate_commit" =>
          /\ r.company # NoCompany
          /\ \A row \in r.draft : Insertable(row) /\ row.company = r.company
    /\ r.pc \in {"update_check", "update_write"} =>
          /\ Active(r.b) /\ r.checkIn < r.checkOut
          /\ ~r.dated => /\ r.checkIn = bookings[r.b].checkIn
                         /\ r.checkOut = bookings[r.b].checkOut
    /\ r.pc = "update_check" => r.draft = {bookings[r.b]}
    /\ r.pc = "update_write" =>
          IsRoomAvailable(bookings[r.b].room, r.checkIn, r.checkOut, r.b)
    /\ r.pc = "status_write" =>
          /\ Exists(r.b) /\ CanTransition(bookings[r.b].status, r.to)
          /\ r.company = bookings[r.b].company \/ r.to = "cancelled"
    /\ r.pc = "generate" =>
          Exists(r.b) /\ bookings[r.b].company = NoCompany /\ r.batch = {}
    /\ r.pc = "corporate_invoice" => r.b = NoBooking
    /\ r.pc \in {"invoice_number", "invoice_insert"} /\ r.b # NoBooking =>
          /\ Exists(r.b) /\ InvoicesOf(r.b) = {} /\ r.batch = {}
          /\ r.nights[r.b] = Stay(r.b) /\ r.due = bookings[r.b].checkOut
    /\ r.pc = "invoice_insert" => r.number = Cardinality(invoices) + 1
    /\ r.pc = "recalculate" => Active(r.b)
    /\ r.pc = "room_line" => Active(r.b) /\ r.nights[r.b] = Stay(r.b)
    /\ r.pc = "delete" => Exists(r.b) /\ bookings[r.b].status # "checked_in"

\* The bookings that the job has listed are still overdue when it gets to them.
JobFresh ==
    /\ job.pc = "idle" => job = JobIdle
    /\ \A b \in job.refs :
          /\ bookings[b].status = "checked_in"
          /\ job.pc = "extend" \/ b # job.cur => bookings[b].checkOut < job.day
    /\ job.pc \in {"mark", "due"} =>
          /\ job.cur \in job.refs
          /\ bookings[job.cur].checkOut = job.day
          /\ bookings[job.cur].checkIn < job.day
    /\ job.pc = "due" => "overstayed" \in history[job.cur]

SerialInv == Alone /\ (\A p \in Request : Fresh(req[p])) /\ JobFresh

-------------------------------------------------------------------------------
(***************************************************************************)
(* Only the request that steps has anything to keep.                       *)
(***************************************************************************)
LEMMA IdleFresh == \A p \in Request : req'[p] = Idle => Fresh(req[p])'
BY DEF Idle, Fresh

LEMMA JobIdleFresh == job' = JobIdle => JobFresh'
BY DEF JobIdle, JobFresh

LEMMA OnlyOne ==
    ASSUME SerialInv, NEW p \in Request, req[p].pc # "idle"
    PROVE  job = JobIdle /\ \A q \in Request \ {p} : req[q] = Idle
<1>1. req[p] # Idle
  BY DEF Idle
<1>2. QED
  BY <1>1 DEF SerialInv, Alone

LEMMA OneSteps ==
    ASSUME job' = JobIdle, NEW p \in Request, \A q \in Request \ {p} : req'[q] = Idle,
           Fresh(req[p])'
    PROVE  SerialInv'
<1>1. Alone'
  BY DEF Alone
<1>2. \A q \in Request : Fresh(req[q])'
  BY IdleFresh
<1>3. QED
  BY <1>1, <1>2, JobIdleFresh DEF SerialInv

LEMMA StartOthers ==
    ASSUME TypeOK, NEW p \in Request, Start(p)
    PROVE  /\ UNCHANGED <<bookings, history, invoices, approvals, job, today>>
           /\ \A q \in Request \ {p} : req'[q] = req[q]
           /\ Serial => Quiescent
BY DEF Start, CreateIndividual, GuestCreate, CreateCorporate, ProcessAction, UpdateStatus,
       GuestCancel, Update, Delete, Goto, TypeOK, Starts, MayStart

LEMMA ContinueOthers ==
    ASSUME TypeOK, NEW p \in Request, Continue(p)
    PROVE  /\ UNCHANGED <<job, today>> /\ req[p].pc # "idle"
           /\ \A q \in Request \ {p} : req'[q] = req[q]
BY DEF Continue, At, Goto, Return, TypeOK, CheckDuplicate, InsertBooking, GuestInsert,
       InitiateWorkflow, CloseInstance, UpdateEntityStatus, CommitCorporate,
       GenerateCorporateInvoice, UpdateStatusTx, GenerateForBooking,
       GenerateInvoiceNumber, InsertInvoice, UpdateCheckRoom, UpdateWrite,
       RecalculateRoomCharge, UpdateRoomLineItem, DeleteRow

-------------------------------------------------------------------------------
(***************************************************************************)
(* The steps of a request: what it has just read, or kept, is so.          *)
(***************************************************************************)
LEMMA StartFresh ==
    ASSUME TypeOK, NEW p \in Request, Start(p)
    PROVE  Fresh(req[p])'
<1>0. UNCHANGED <<bookings, history, invoices>> /\ TypeOK'
  BY StartOthers, StartTypeOK
<1>1. CASE CreateIndividual(p) \/ GuestCreate(p)
  <2>1. PICK room \in Room, client \in Client, in \in Day, out \in Day,
             pc \in {"duplicate", "guest_insert"} :
          /\ in < out /\ IsRoomAvailable(room, in, out, NoBooking)
          /\ req' = [req EXCEPT ![p] = [Idle EXCEPT !.pc = pc,
                        !.draft = {NewRow(room, client, NoCompany, in, out)}]]
    BY <1>1 DEF CreateIndividual, GuestCreate, Goto
  <2>2. /\ req'[p].pc \in {"duplicate", "guest_insert"}
        /\ req'[p].draft = {NewRow(room, client, NoCompany, in, out)}
    BY <2>1 DEF TypeOK, Idle
  <2>3. LET row == NewRow(room, client, NoCompany, in, out)
        IN  /\ row.status = "pending" /\ row.room = room /\ row.company = NoCompany
            /\ row.checkIn = in /\ row.checkOut = out /\ row \in Row
    BY NewRowType DEF NewRow
  <2>4. QED
    BY <1>0, <2>1, <2>2, <2>3 DEF Fresh, Insertable, IsRoomAvailable, Active
<1>2. CASE CreateCorporate(p)
  <2>1. PICK company \in Company : \E list \in GuestLists(company) :
          /\ \A g \in list : IsRoomAvailable(g.room, g.checkIn, g.checkOut, NoBooking)
          /\ Goto(p, [Idle EXCEPT !.pc = "corporate_commit",
                                  !.company = company, !.draft = list])
    BY <1>2 DEF CreateCorporate
  <2>2. PICK list \in GuestLists(company) :
          /\ \A g \in list : IsRoomAvailable(g.room, g.checkIn, g.checkOut, NoBooking)
          /\ Goto(p, [Idle EXCEPT !.pc = "corporate_commit",
                                  !.company = company, !.draft = list])
    BY <2>1
  <2>3. req'[p].pc = "corporate_commit" /\ req'[p].company = company /\ req'[p].draft = list
    BY <2>2 DEF Goto, TypeOK, Idle
  <2>4. ASSUME NEW row \in list
        PROVE  /\ row \in Row /\ row.status = "pending" /\ row.checkIn < row.checkOut
               /\ row.company = company
    <3>1. PICK room \in Room, client \in Client, in \in Day, out \in Day :
            row = NewRow(room, client, company, in, out)
      BY DEF GuestLists
    <3>2. row \in Row /\ row.status = "pending" /\ row.company = company
      BY <3>1, NewRowType DEF NewRow
    <3>3. row.checkIn < row.checkOut
      BY DEF GuestLists
    <3>4. QED
      BY <3>2, <3>3
  <2>5. QED
    BY <1>0, <2>2, <2>3, <2>4, ConstantsAssumption
    DEF Fresh, Insertable, IsRoomAvailable, Active
<1>3. CASE ProcessAction(p)
  <2>1. req'[p].pc = "close"
    BY <1>3 DEF ProcessAction, Goto, TypeOK, Idle
  <2>2. QED
    BY <2>1 DEF Fresh
<1>4. CASE UpdateStatus(p) \/ GuestCancel(p)
  <2>1. PICK b \in Booking :
          /\ Exists(b) /\ req'[p].pc = "status_write" /\ req'[p].b = b
          /\ CanTransition(bookings[b].status, req'[p].to)
          /\ req'[p].company = bookings[b].company \/ req'[p].to = "cancelled"
    <3>1. CASE UpdateStatus(p)
      BY <3>1 DEF UpdateStatus, Goto, TypeOK, Idle
    <3>2. CASE GuestCancel(p)
      BY <3>2 DEF GuestCancel, Goto, TypeOK, Idle
    <3>3. QED
      BY <1>4, <3>1, <3>2
  <2>2. QED
    BY <1>0, <2>1 DEF Fresh, Exists
<1>5. CASE Update(p)
  <2>1. PICK b \in Booking, in \in Day, out \in Day, dated \in BOOLEAN :
          /\ Active(b) /\ in < out
          /\ ~dated => in = bookings[b].checkIn /\ out = bookings[b].checkOut
          /\ Goto(p, [Idle EXCEPT !.pc = "update_check", !.b = b,
                         !.checkIn = in, !.checkOut = out, !.dated = dated,
                         !.draft = {bookings[b]}])
    BY <1>5 DEF Update
  <2>2. /\ req'[p].pc = "update_check" /\ req'[p].b = b /\ req'[p].draft = {bookings[b]}
        /\ req'[p].checkIn = in /\ req'[p].checkOut = out /\ req'[p].dated = dated
    BY <2>1 DEF Goto, TypeOK, Idle
  <2>3. QED
    BY <1>0, <2>1, <2>2 DEF Fresh, Active
<1>6. CASE Delete(p)
  <2>1. PICK b \in Booking : /\ Exists(b) /\ bookings[b].status # "checked_in"
                             /\ req'[p].pc = "delete" /\ req'[p].b = b
    BY <1>6 DEF Delete, Goto, TypeOK, Idle
  <2>2. QED
    BY <1>0, <2>1 DEF Fresh, Exists
<1>7. QED
  BY <1>1, <1>2, <1>3, <1>4, <1>5, <1>6 DEF Start

\* A statement that writes and returns leaves nothing to keep.
LEMMA ContinueFresh ==
    ASSUME TypeOK, NEW p \in Request, Fresh(req[p]), Continue(p)
    PROVE  Fresh(req[p])'
<1>0. req[p] \in Local /\ (req[p].pc \in OnBooking => req[p].b \in Booking)
  BY DEF TypeOK
<1>1. CASE Return(p)
  BY <1>1, IdleFresh DEF Return, Goto, TypeOK
<1>2. CASE CheckDuplicate(p)
  <2>1. CASE Goto(p, [req[p] EXCEPT !.pc = "insert"])
    <3>1. req'[p].pc = "insert" /\ req'[p].draft = req[p].draft
      BY <1>0, <2>1 DEF Goto, TypeOK, Local
    <3>2. QED
      BY <1>2, <3>1 DEF CheckDuplicate, At, Fresh, Insertable, IsRoomAvailable, Active
  <2>2. QED
    BY <1>1, <1>2, <2>1 DEF CheckDuplicate
<1>3. CASE GuestInsert(p)
  <2>1. Return(p) \/ req'[p].pc = "initiate"
    BY <1>3 DEF GuestInsert, Goto, TypeOK, Idle
  <2>2. QED
    BY <1>1, <2>1 DEF Fresh
<1>4. CASE CloseInstance(p)
  <2>1. req'[p].pc = "entity"
    BY <1>0, <1>4 DEF CloseInstance, Goto, TypeOK, Local
  <2>2. QED
    BY <2>1 DEF Fresh
<1>5. CASE CommitCorporate(p)
  <2>1. Return(p) \/ (req'[p].pc = "corporate_invoice" /\ req'[p].b = NoBooking)
    <3>1. ASSUME NEW ids \in SUBSET Unborn,
                 Goto(p, [Idle EXCEPT !.pc = "corporate_invoice",
                            !.company = req[p].company, !.batch = ids])
          PROVE  req'[p].pc = "corporate_invoice" /\ req'[p].b = NoBooking
      BY <3>1 DEF Goto, TypeOK, Idle
    <3>2. QED
      BY <1>5, <3>1 DEF CommitCorporate
  <2>2. QED
    BY <1>1, <2>1 DEF Fresh
<1>6. CASE GenerateCorporateInvoice(p)
  <2>1. Return(p) \/ (req'[p].pc = "invoice_number" /\ req'[p].b = req[p].b)
    <3>1. ASSUME NEW nights, Goto(p, [req[p] EXCEPT !.pc = "invoice_number", !.nights = nights])
          PROVE  req'[p].pc = "invoice_number" /\ req'[p].b = req[p].b
      BY <1>0, <3>1 DEF Goto, TypeOK, Local
    <3>2. QED
      BY <1>6, <3>1, Zenon DEF GenerateCorporateInvoice
  <2>2. req[p].b = NoBooking
    BY <1>6 DEF GenerateCorporateInvoice, At, Fresh
  <2>3. QED
    BY <1>1, <2>1, <2>2 DEF Fresh
<1>8. CASE GenerateInvoiceNumber(p)
  <2>1. /\ req[p].pc = "invoice_number" /\ req'[p].pc = "invoice_insert"
        /\ req'[p].number = Cardinality(invoices) + 1 /\ UNCHANGED <<bookings, invoices>>
        /\ req'[p].b = req[p].b /\ req'[p].batch = req[p].batch
        /\ req'[p].nights = req[p].nights /\ req'[p].due = req[p].due
    BY <1>0, <1>8 DEF GenerateInvoiceNumber, At, Goto, TypeOK, Local
  <2>2. QED
    BY <2>1 DEF Fresh, Exists, InvoicesOf, Stay
<1>9. CASE UpdateCheckRoom(p)
  <2>1. CASE /\ \A r \in req[p].draft :
                   IsRoomAvailable(r.room, req[p].checkIn, req[p].checkOut, req[p].b)
             /\ Goto(p, [req[p] EXCEPT !.pc = "update_write", !.draft = {}])
    <3>1. /\ req'[p].pc = "update_write" /\ req'[p].b = req[p].b
          /\ req'[p].checkIn = req[p].checkIn /\ req'[p].checkOut = req[p].checkOut
          /\ req'[p].dated = req[p].dated
      BY <1>0, <2>1 DEF Goto, TypeOK, Local
    <3>2. IsRoomAvailable(bookings[req[p].b].room, req[p].checkIn, req[p].checkOut, req[p].b)
      BY <1>9, <2>1 DEF UpdateCheckRoom, At, Fresh
    <3>3. QED
      BY <1>9, <3>1, <3>2 DEF UpdateCheckRoom, At, Fresh, IsRoomAvailable, Active
  <2>2. QED
    BY <1>1, <1>9, <2>1 DEF UpdateCheckRoom
<1>10. CASE UpdateStatusTx(p)
  <2>1. CASE /\ Exists(req[p].b) /\ NeedsInvoice(req[p])
             /\ Goto(p, [Idle EXCEPT !.pc = "generate", !.b = req[p].b])
    <3>1. req'[p].pc = "generate" /\ req'[p].b = req[p].b /\ req'[p].batch = {}
      BY <2>1 DEF Goto, TypeOK, Idle
    <3>2. req[p].b \in Booking /\ bookings[req[p].b] \in Row
      BY <1>0, <1>10, <2>1, ExistingIsRow DEF UpdateStatusTx, At, OnBooking
    <3>3. bookings[req[p].b].company = NoCompany
      BY <1>10, <2>1 DEF UpdateStatusTx, At, Fresh, NeedsInvoice
    <3>4. bookings'[req[p].b] = [bookings[req[p].b] EXCEPT !.status = "confirmed"]
      BY <1>10, <2>1, <3>2 DEF UpdateStatusTx, SetStatus, NeedsInvoice, TypeOK
    <3>5. QED
      BY <3>1, <3>2, <3>3, <3>4 DEF Fresh, Exists, Row, Status
  <2>2. QED
    BY <1>1, <1>10, <2>1 DEF UpdateStatusTx
<1>11. CASE GenerateForBooking(p)
  <2> DEFINE b == req[p].b
  <2>1. CASE /\ InvoicesOf(b) = {} /\ Exists(b)
             /\ Goto(p, [req[p] EXCEPT
                    !.pc = "invoice_number",
                    !.nights = [NoNights EXCEPT ![b] =
                        Nights(bookings[b].checkIn, bookings[b].checkOut)],
                    !.due = bookings[b].checkOut])
    <3>1. /\ req'[p].pc = "invoice_number" /\ req'[p].b = b /\ req'[p].batch = req[p].batch
          /\ req'[p].nights = [NoNights EXCEPT ![b] = Stay(b)]
          /\ req'[p].due = bookings[b].checkOut
      BY <1>0, <2>1 DEF Goto, TypeOK, Local, Stay
    <3>2. b \in Booking /\ req[p].batch = {}
      BY <1>0, <1>11 DEF GenerateForBooking, At, OnBooking, Fresh
    <3>3. req'[p].nights[b] = Stay(b)
      BY <3>1, <3>2 DEF NoNights
    <3>4. UNCHANGED <<bookings, invoices>>
      BY <1>11 DEF GenerateForBooking
    <3>5. QED
      BY <2>1, <3>1, <3>2, <3>3, <3>4 DEF Fresh, Exists, InvoicesOf, Stay
  <2>2. QED
    BY <1>1, <1>11, <2>1 DEF GenerateForBooking
<1>12. CASE UpdateWrite(p)
  <2>1. CASE Goto(p, [Idle EXCEPT !.pc = "recalculate", !.b = req[p].b])
    <3>1. req'[p].pc = "recalculate" /\ req'[p].b = req[p].b
      BY <2>1 DEF Goto, TypeOK, Idle
    <3>2. req[p].b \in Booking /\ Active(req[p].b)
      BY <1>0, <1>12 DEF UpdateWrite, At, OnBooking, Fresh
    <3>3. bookings[req[p].b] \in Row
      BY <3>2, ExistingIsRow DEF Active, Exists, ActiveStatus, Status
    <3>4. bookings'[req[p].b].status = bookings[req[p].b].status
      BY <1>12, <3>2, <3>3 DEF UpdateWrite, SetDates, TypeOK, Row
    <3>5. QED
      BY <3>1, <3>2, <3>4 DEF Fresh, Active
  <2>2. QED
    BY <1>1, <1>12, <2>1 DEF UpdateWrite
<1>13. CASE RecalculateRoomCharge(p)
  <2> DEFINE b == req[p].b
  <2>1. CASE Goto(p, [req[p] EXCEPT
                    !.pc = "room_line",
                    !.nights = [NoNights EXCEPT ![b] =
                        Nights(bookings[b].checkIn, bookings[b].checkOut)]])
    <3>1. /\ req'[p].pc = "room_line" /\ req'[p].b = b
          /\ req'[p].nights = [NoNights EXCEPT ![b] = Stay(b)]
      BY <1>0, <2>1 DEF Goto, TypeOK, Local, Stay
    <3>2. b \in Booking /\ Active(b) /\ UNCHANGED bookings
      BY <1>0, <1>13 DEF RecalculateRoomCharge, At, OnBooking, Fresh
    <3>3. req'[p].nights[b] = Stay(b)
      BY <3>1, <3>2 DEF NoNights
    <3>4. QED
      BY <3>1, <3>2, <3>3 DEF Fresh, Active, Stay
  <2>2. QED
    BY <1>1, <1>13, <2>1 DEF RecalculateRoomCharge
<1>14. QED
  BY <1>1, <1>2, <1>3, <1>4, <1>5, <1>6, <1>8, <1>9, <1>10, <1>11, <1>12, <1>13
  DEF Continue, InsertBooking, InitiateWorkflow, UpdateEntityStatus, InsertInvoice,
      UpdateRoomLineItem, DeleteRow

-------------------------------------------------------------------------------
(***************************************************************************)
(* The job, and the whole invariant.                                       *)
(***************************************************************************)
LEMMA JobStepFresh ==
    ASSUME TypeOK, JobFresh, JobStep
    PROVE  JobFresh'
<1>0. job \in Job /\ \A b \in job.refs : b \in Booking /\ bookings[b] \in Row
  BY ExistingIsRow DEF TypeOK, Job, JobFresh, Exists, Status
<1>1. CASE JobScan
  <2>1. /\ job'.pc = "extend" /\ job'.refs = FindOverdueCheckouts /\ job'.day = today
        /\ job'.cur = NoBooking /\ UNCHANGED bookings
    BY <1>1 DEF JobScan, JobIdle
  <2>2. QED
    BY <2>1 DEF JobFresh, FindOverdueCheckouts
<1>2. ASSUME NEW done \in job.refs, JobNext(job.refs \ {done}), UNCHANGED bookings,
             \A b \in job.refs \ {done} : bookings[b].checkOut < job.day
      PROVE  JobFresh'
  <2>1. CASE job' = JobIdle
    BY <2>1, JobIdleFresh
  <2>2. CASE job' # JobIdle
    <3>1. /\ job'.pc = "extend" /\ job'.refs = job.refs \ {done} /\ job'.day = job.day
      BY <1>0, <1>2, <2>2 DEF JobNext, Job
    <3>2. QED
      BY <1>2, <3>1 DEF JobFresh
  <2>3. QED
    BY <2>1, <2>2
<1>3. CASE ExtendCheckout
  <2>1. PICK b \in job.refs :
           IF Exists(b) /\ bookings[b].checkIn >= job.day
           THEN JobNext(job.refs \ {b}) /\ UNCHANGED bookings
           ELSE /\ IF Exists(b)
                   THEN bookings' = [bookings EXCEPT ![b].checkOut = job.day]
                   ELSE UNCHANGED bookings
                /\ job' = [job EXCEPT !.pc = "mark", !.cur = b]
    BY <1>3 DEF ExtendCheckout
  <2>2. CASE JobNext(job.refs \ {b}) /\ UNCHANGED bookings
    BY <1>2, <1>3, <2>2 DEF ExtendCheckout, JobFresh
  <2>3. CASE /\ bookings[b].checkIn < job.day
             /\ bookings' = [bookings EXCEPT ![b].checkOut = job.day]
             /\ job' = [job EXCEPT !.pc = "mark", !.cur = b]
    <3>1. job'.pc = "mark" /\ job'.cur = b /\ job'.refs = job.refs /\ job'.day = job.day
      BY <1>0, <2>3 DEF Job
    <3>2. /\ bookings'[b].status = bookings[b].status
          /\ bookings'[b].checkIn = bookings[b].checkIn /\ bookings'[b].checkOut = job.day
          /\ \A c \in job.refs \ {b} : bookings'[c] = bookings[c]
      BY <1>0, <2>3 DEF TypeOK, Row
    <3>3. QED
      BY <1>3, <2>3, <3>1, <3>2 DEF JobFresh, ExtendCheckout
  <2>4. Exists(b)
    BY DEF JobFresh, Exists, Status
  <2>5. bookings[b].checkIn \in Int /\ job.day \in Int
    BY <1>0 DEF Row, Job, Day
  <2>6. QED
    BY <2>1, <2>2, <2>3, <2>4, <2>5
<1>4. CASE MarkOverstayed
  <2>1. /\ job.cur \in job.refs /\ Exists(job.cur)
    BY <1>4 DEF MarkOverstayed, JobFresh, Exists, Status
  <2>2. /\ job'.pc = "due" /\ job'.refs = job.refs /\ job'.cur = job.cur /\ job'.day = job.day
    BY <1>0, <1>4 DEF MarkOverstayed, Job
  <2>3. /\ bookings' = [bookings EXCEPT ![job.cur].overstayed = TRUE]
        /\ history' = [history EXCEPT ![job.cur] = @ \cup {"overstayed"}]
    BY <1>4, <2>1 DEF MarkOverstayed
  <2>4. /\ \A b \in job.refs : /\ bookings'[b].status = bookings[b].status
                               /\ bookings'[b].checkIn = bookings[b].checkIn
                               /\ bookings'[b].checkOut = bookings[b].checkOut
        /\ "overstayed" \in history'[job.cur]
    BY <1>0, <2>1, <2>3 DEF TypeOK, Row
  <2>5. QED
    BY <1>4, <2>1, <2>2, <2>4 DEF JobFresh, MarkOverstayed
<1>5. CASE UpdateDueDate
  <2>1. /\ job.cur \in job.refs /\ UNCHANGED bookings /\ JobNext(job.refs \ {job.cur})
        /\ \A b \in job.refs \ {job.cur} : bookings[b].checkOut < job.day
    BY <1>5 DEF UpdateDueDate, JobFresh
  <2>2. QED
    BY <1>2, <2>1
<1>6. QED
  BY <1>1, <1>3, <1>4, <1>5 DEF JobStep

LEMMA QuiescentFresh == Quiescent' => SerialInv'
BY IdleFresh, JobIdleFresh DEF Quiescent, SerialInv, Alone

LEMMA SerialStep ==
    ASSUME Serial, TypeOK, SerialInv, [Next]_vars
    PROVE  SerialInv'
<1>1. ASSUME NEW p \in Request, Start(p) PROVE SerialInv'
  <2>1. Quiescent /\ job' = JobIdle /\ \A q \in Request \ {p} : req'[q] = Idle
    BY <1>1, StartOthers DEF Quiescent
  <2>2. QED
    BY <1>1, <2>1, StartFresh, OneSteps
<1>2. ASSUME NEW p \in Request, Continue(p) PROVE SerialInv'
  <2>1. job' = JobIdle /\ \A q \in Request \ {p} : req'[q] = Idle
    BY <1>2, ContinueOthers, OnlyOne
  <2>2. Fresh(req[p])'
    BY <1>2, ContinueFresh DEF SerialInv
  <2>3. QED
    BY <2>1, <2>2, OneSteps
<1>3. CASE JobStep
  <2>1. req' = req /\ \A p \in Request : req[p] = Idle
    <3>1. CASE JobScan
      BY <3>1 DEF JobScan, MayStart, Quiescent
    <3>2. CASE ExtendCheckout \/ MarkOverstayed \/ UpdateDueDate
      <4>1. job.pc # "idle" /\ req' = req
        BY <3>2 DEF ExtendCheckout, MarkOverstayed, UpdateDueDate
      <4>2. job # JobIdle
        BY <4>1 DEF JobIdle
      <4>3. QED
        BY <4>1, <4>2 DEF SerialInv, Alone
    <3>3. QED
      BY <1>3, <3>1, <3>2 DEF JobStep
  <2>2. Alone' /\ \A p \in Request : Fresh(req[p])'
    BY <2>1, IdleFresh DEF Alone
  <2>3. QED
    BY <1>3, <2>2, JobStepFresh DEF SerialInv
<1>4. CASE ClearOverstayed
  BY <1>4, QuiescentFresh DEF ClearOverstayed, MayStart, Quiescent
<1>5. CASE Tick \/ UNCHANGED vars
  <2>1. UNCHANGED <<bookings, history, invoices, req, job>>
    BY <1>5 DEF Tick, vars
  <2>2. QED
    BY <2>1 DEF SerialInv, Alone, JobFresh, Fresh, Insertable, IsRoomAvailable, Active,
                Exists, InvoicesOf, Stay
<1>6. CASE Crash
  BY <1>6, QuiescentFresh DEF Crash, Quiescent
<1>7. QED
  BY <1>1, <1>2, <1>3, <1>4, <1>5, <1>6 DEF Next

LEMMA AlwaysSerial ==
    ASSUME Serial
    PROVE  Spec => [](TypeOK /\ SerialInv)
<1>1. Init => SerialInv
  BY DEF Init, SerialInv, Alone, Fresh, Idle, JobFresh, JobIdle
<1>2. TypeOK /\ SerialInv /\ [Next]_vars => SerialInv'
  BY SerialStep
<1>3. QED
  BY <1>1, <1>2, TypeCorrect, PTL DEF Spec

-------------------------------------------------------------------------------
(***************************************************************************)
(* What a step writes to the bookings.                                     *)
(***************************************************************************)

\* A handler, a job or a failure that does not run leaves no trace.
RunsOnly ==
    /\ \A p \in Request :
          /\ req[p].pc \in {"close", "entity"} => "approval" \in Handlers
          /\ req[p].pc = "corporate_commit" => "corporate" \in Handlers
          /\ req[p].pc \in {"update_check", "update_write", "recalculate", "room_line"}
                => "update" \in Handlers
    /\ job # JobIdle => "job" \in Handlers

LEMMA RunsOnlyStep == TypeOK /\ RunsOnly /\ [Next]_vars => RunsOnly'
<1> SUFFICES ASSUME TypeOK, RunsOnly, [Next]_vars PROVE RunsOnly'
  OBVIOUS
<1> DEFINE Sound(r) ==
      /\ r.pc \in {"close", "entity"} => "approval" \in Handlers
      /\ r.pc = "corporate_commit" => "corporate" \in Handlers
      /\ r.pc \in {"update_check", "update_write", "recalculate", "room_line"}
            => "update" \in Handlers
<1>0. Sound(Idle)
  BY DEF Idle
<1>1. ASSUME NEW p \in Request, Start(p) PROVE RunsOnly'
  <2>1. Sound(req'[p])
    <3>1. CASE CreateIndividual(p)
      <4>1. req'[p].pc = "duplicate"
        BY <3>1 DEF CreateIndividual, Goto, TypeOK, Idle
      <4>2. QED
        BY <4>1
    <3>2. CASE GuestCreate(p)
      <4>1. req'[p].pc = "guest_insert"
        BY <3>2 DEF GuestCreate, Goto, TypeOK, Idle
      <4>2. QED
        BY <4>1
    <3>3. CASE CreateCorporate(p)
      <4>1. req'[p].pc = "corporate_commit" /\ "corporate" \in Handlers
        BY <3>3 DEF CreateCorporate, Starts, MayStart, Goto, TypeOK, Idle
      <4>2. QED
        BY <4>1
    <3>4. CASE ProcessAction(p)
      <4>1. req'[p].pc = "close" /\ "approval" \in Handlers
        BY <3>4 DEF ProcessAction, Starts, MayStart, Goto, TypeOK, Idle
      <4>2. QED
        BY <4>1
    <3>5. CASE UpdateStatus(p)
      <4>1. req'[p].pc = "status_write"
        BY <3>5 DEF UpdateStatus, Goto, TypeOK, Idle
      <4>2. QED
        BY <4>1
    <3>6. CASE GuestCancel(p)
      <4>1. req'[p].pc = "status_write"
        BY <3>6 DEF GuestCancel, Goto, TypeOK, Idle
      <4>2. QED
        BY <4>1
    <3>7. CASE Update(p)
      <4>1. req'[p].pc = "update_check" /\ "update" \in Handlers
        BY <3>7 DEF Update, Starts, MayStart, Goto, TypeOK, Idle
      <4>2. QED
        BY <4>1
    <3>8. CASE Delete(p)
      <4>1. req'[p].pc = "delete"
        BY <3>8 DEF Delete, Goto, TypeOK, Idle
      <4>2. QED
        BY <4>1
    <3>9. QED
      BY <1>1, <3>1, <3>2, <3>3, <3>4, <3>5, <3>6, <3>7, <3>8 DEF Start
  <2>2. QED
    BY <1>1, <2>1, StartOthers DEF RunsOnly
<1>2. ASSUME NEW p \in Request, Continue(p) PROVE RunsOnly'
  <2>0. req[p] \in Local /\ Sound(req[p])
    BY DEF TypeOK, RunsOnly
  <2>1. Sound(req'[p])
    <3>1. CASE Return(p)
      <4>1. req'[p] = Idle
        BY <3>1 DEF Return, Goto, TypeOK
      <4>2. QED
        BY <1>0, <4>1
    <3>2. CASE CheckDuplicate(p)
      <4>1. req'[p].pc = "insert" \/ Return(p)
        BY <2>0, <3>2 DEF CheckDuplicate, Goto, TypeOK, Local
      <4>2. QED
        BY <3>1, <4>1
    <3>3. CASE GuestInsert(p)
      <4>1. req'[p].pc = "initiate" \/ Return(p)
        BY <3>3 DEF GuestInsert, Goto, TypeOK, Idle
      <4>2. QED
        BY <3>1, <4>1
    <3>4. CASE CloseInstance(p)
      <4>1. req'[p].pc = "entity" /\ req[p].pc = "close"
        BY <2>0, <3>4 DEF CloseInstance, At, Goto, TypeOK, Local
      <4>2. QED
        BY <2>0, <4>1
    <3>5. CASE CommitCorporate(p)
      <4>1. ASSUME NEW ids \in SUBSET Unborn,
                   Goto(p, [Idle EXCEPT !.pc = "corporate_invoice",
                              !.company = req[p].company, !.batch = ids])
            PROVE  req'[p].pc = "corporate_invoice"
        BY <4>1 DEF Goto, TypeOK, Idle
      <4>2. req'[p].pc = "corporate_invoice" \/ Return(p)
        BY <3>5, <4>1 DEF CommitCorporate
      <4>3. QED
        BY <3>1, <4>2
    <3>6. CASE GenerateCorporateInvoice(p) \/ GenerateForBooking(p)
      <4>1. req'[p].pc = "invoice_number" \/ Return(p)
        <5>1. CASE GenerateCorporateInvoice(p)
          <6>1. ASSUME NEW nights,
                       Goto(p, [req[p] EXCEPT !.pc = "invoice_number", !.nights = nights])
                PROVE  req'[p].pc = "invoice_number"
            BY <2>0, <6>1 DEF Goto, TypeOK, Local
          <6>2. QED
            BY <5>1, <6>1 DEF GenerateCorporateInvoice
        <5>2. CASE GenerateForBooking(p)
          <6>1. ASSUME NEW nights, NEW due,
                       Goto(p, [req[p] EXCEPT !.pc = "invoice_number",
                                              !.nights = nights, !.due = due])
                PROVE  req'[p].pc = "invoice_number"
            BY <2>0, <6>1 DEF Goto, TypeOK, Local
          <6>2. QED
            BY <5>2, <6>1 DEF GenerateForBooking
        <5>3. QED
          BY <3>6, <5>1, <5>2
      <4>2. QED
        BY <3>1, <4>1
    <3>7. CASE GenerateInvoiceNumber(p)
      <4>1. req'[p].pc = "invoice_insert"
        BY <2>0, <3>7 DEF GenerateInvoiceNumber, Goto, TypeOK, Local
      <4>2. QED
        BY <4>1
    <3>8. CASE UpdateStatusTx(p)
      <4>1. req'[p].pc = "generate" \/ Return(p)
        BY <3>8 DEF UpdateStatusTx, Goto, TypeOK, Idle
      <4>2. QED
        BY <3>1, <4>1
    <3>9. CASE UpdateCheckRoom(p) \/ UpdateWrite(p) \/ RecalculateRoomCharge(p)
      <4>1. "update" \in Handlers
        BY <2>0, <3>9 DEF UpdateCheckRoom, UpdateWrite, RecalculateRoomCharge, At
      <4>2. req'[p].pc \in {"update_write", "recalculate", "room_line"} \/ Return(p)
        <5>1. CASE UpdateCheckRoom(p)
          BY <2>0, <5>1 DEF UpdateCheckRoom, Goto, TypeOK, Local
        <5>2. CASE UpdateWrite(p)
          BY <5>2 DEF UpdateWrite, Goto, TypeOK, Idle
        <5>3. CASE RecalculateRoomCharge(p)
          BY <2>0, <5>3 DEF RecalculateRoomCharge, Goto, TypeOK, Local
        <5>4. QED
          BY <3>9, <5>1, <5>2, <5>3
      <4>3. QED
        BY <3>1, <4>1, <4>2
    <3>10. QED
      BY <1>2, <3>1, <3>2, <3>3, <3>4, <3>5, <3>6, <3>7, <3>8, <3>9
      DEF Continue, InsertBooking, InitiateWorkflow, UpdateEntityStatus, InsertInvoice,
          UpdateRoomLineItem, DeleteRow
  <2>2. QED
    BY <1>2, <2>1, ContinueOthers DEF RunsOnly
<1>3. CASE JobStep
  <2>1. req' = req
    BY <1>3 DEF JobStep, JobScan, ExtendCheckout, MarkOverstayed, UpdateDueDate
  <2>2. "job" \in Handlers
    <3>1. CASE JobScan
      BY <3>1 DEF JobScan, MayStart
    <3>2. CASE ExtendCheckout \/ MarkOverstayed \/ UpdateDueDate
      <4>1. job.pc # "idle"
        BY <3>2 DEF ExtendCheckout, MarkOverstayed, UpdateDueDate
      <4>2. QED
        BY <4>1 DEF RunsOnly, JobIdle
    <3>3. QED
      BY <1>3, <3>1, <3>2 DEF JobStep
  <2>3. QED
    BY <2>1, <2>2 DEF RunsOnly
<1>4. CASE ClearOverstayed \/ Tick \/ UNCHANGED vars
  BY <1>4 DEF ClearOverstayed, Tick, vars, RunsOnly
<1>5. CASE Crash
  BY <1>0, <1>5 DEF Crash, RunsOnly
<1>6. QED
  BY <1>1, <1>2, <1>3, <1>4, <1>5 DEF Next

LEMMA AlwaysRunsOnly ==
    ASSUME Serial
    PROVE  Spec => [](TypeOK /\ SerialInv /\ RunsOnly)
<1>1. Init => RunsOnly
  BY DEF Init, RunsOnly, Idle
<1>2. QED
  BY <1>1, RunsOnlyStep, AlwaysSerial, PTL DEF Spec

\* Rows for stays that fit; one row unless a company books for its guests.
RowsInserted ==
    \E company \in Company \cup {NoCompany}, ids \in SUBSET Unborn :
        \E new \in [ids -> Row] :
            /\ InsertRows(new)
            /\ \A b \in ids : Insertable(new[b]) /\ new[b].company = company
            /\ IF company = NoCompany THEN \E b \in Booking : ids = {b}
               ELSE "corporate" \in Handlers

\* Only the approval of a booking ignores the transitions.
StatusWritten ==
    \E b \in Booking, to \in Status :
        /\ Exists(b) /\ SetStatus(b, to)
        /\ CanTransition(bookings[b].status, to) \/ "approval" \in Handlers

DatesWritten ==
    \E b \in Booking, in \in Day, out \in Day :
        /\ "update" \in Handlers
        /\ Active(b) /\ in < out /\ IsRoomAvailable(bookings[b].room, in, out, b)
        /\ SetDates(b, in, out) /\ UNCHANGED history

RowDeleted ==
    \E b \in Booking :
        /\ Exists(b) /\ bookings' = [bookings EXCEPT ![b] = Deleted]
        /\ UNCHANGED history

OverstayCleared ==
    \E b \in Booking :
        /\ Exists(b) /\ bookings' = [bookings EXCEPT ![b].overstayed = FALSE]
        /\ UNCHANGED history

StayExtended ==
    \E b \in Booking, day \in Day :
        /\ "job" \in Handlers
        /\ bookings[b].status = "checked_in"
        /\ bookings[b].checkIn < day /\ bookings[b].checkOut < day
        /\ bookings' = [bookings EXCEPT ![b].checkOut = day]
        /\ UNCHANGED history
        /\ job'.pc = "mark" /\ job'.cur = b

StayMarked ==
    /\ "job" \in Handlers
    /\ job.pc = "mark" /\ job.cur \in Booking /\ Exists(job.cur)
    /\ bookings' = [bookings EXCEPT ![job.cur].overstayed = TRUE]
    /\ history' = [history EXCEPT ![job.cur] = @ \cup {"overstayed"}]
    /\ job'.pc = "due" /\ job'.cur = job.cur

Written ==
    \/ UNCHANGED <<bookings, history>>
    \/ RowsInserted \/ StatusWritten \/ DatesWritten \/ RowDeleted
    \/ OverstayCleared \/ StayExtended \/ StayMarked

LEMMA ContinueWrites ==
    ASSUME TypeOK, SerialInv, RunsOnly, NEW p \in Request, Continue(p)
    PROVE  Written
<1>0. /\ req[p] \in Local /\ (req[p].pc \in OnBooking => req[p].b \in Booking)
      /\ Fresh(req[p])
  BY DEF TypeOK, SerialInv
<1>1. CASE InsertBooking(p) \/ GuestInsert(p)
  <2>1. CASE \E b \in Unborn, r \in req[p].draft : InsertRows([x \in {b} |-> r])
    <3>1. PICK b \in Unborn, r \in req[p].draft : InsertRows([x \in {b} |-> r])
      BY <2>1
    <3>2. Insertable(r) /\ r.company = NoCompany /\ r \in Row /\ b \in Booking
      BY <1>0, <1>1, <3>1 DEF InsertBooking, GuestInsert, At, Fresh, Insertable, Unborn
    <3>3. \E new \in [{b} -> Row] :
             /\ InsertRows(new)
             /\ \A x \in {b} : Insertable(new[x]) /\ new[x].company = NoCompany
      <4>1. [x \in {b} |-> r] \in [{b} -> Row] /\ [x \in {b} |-> r][b] = r
        BY <3>2
      <4>2. QED
        BY <3>1, <3>2, <4>1
    <3>4. {b} \in SUBSET Unborn /\ NoCompany \in Company \cup {NoCompany}
          /\ \E c \in Booking : {b} = {c}
      BY <3>1, <3>2
    <3>5. RowsInserted
      BY <3>3, <3>4 DEF RowsInserted
    <3>6. QED
      BY <3>5 DEF Written
  <2>2. QED
    BY <1>1, <2>1 DEF InsertBooking, GuestInsert, Written
<1>2. CASE CommitCorporate(p)
  <2>1. CASE UNCHANGED <<bookings, history>>
    BY <2>1 DEF Written
  <2>2. CASE \E ids \in SUBSET Unborn : \E new \in [ids -> req[p].draft] : InsertRows(new)
    <3>1. PICK ids \in SUBSET Unborn : \E new \in [ids -> req[p].draft] : InsertRows(new)
      BY <2>2
    <3>2. PICK new \in [ids -> req[p].draft] : InsertRows(new)
      BY <3>1
    <3>3. /\ req[p].company \in Company /\ "corporate" \in Handlers
          /\ \A r \in req[p].draft : Insertable(r) /\ r.company = req[p].company /\ r \in Row
      BY <1>0, <1>2 DEF CommitCorporate, At, Fresh, Local, RunsOnly, Insertable
    <3>4. /\ new \in [ids -> Row]
          /\ \A b \in ids : Insertable(new[b]) /\ new[b].company = req[p].company
      BY <3>2, <3>3
    <3>5. RowsInserted
      BY <3>2, <3>3, <3>4, ConstantsAssumption DEF RowsInserted
    <3>6. QED
      BY <3>5 DEF Written
  <2>3. QED
    BY <1>2, <2>1, <2>2 DEF CommitCorporate
<1>3. CASE UpdateEntityStatus(p) \/ UpdateStatusTx(p)
  <2>1. /\ req[p].b \in Booking /\ req[p].to \in Status /\ SetStatus(req[p].b, req[p].to)
        /\ CanTransition(bookings[req[p].b].status, req[p].to) \/ "approval" \in Handlers
    BY <1>0, <1>3 DEF UpdateEntityStatus, UpdateStatusTx, At, OnBooking, Local, Fresh, RunsOnly
  <2>2. QED
    BY <2>1 DEF Written, StatusWritten, SetStatus
<1>4. CASE UpdateWrite(p)
  <2>1. /\ req[p].b \in Booking /\ req[p].checkIn \in Day /\ req[p].checkOut \in Day
        /\ "update" \in Handlers
    BY <1>0, <1>4 DEF UpdateWrite, At, OnBooking, Local, RunsOnly
  <2>2. QED
    BY <1>0, <1>4, <2>1 DEF Written, DatesWritten, UpdateWrite, At, Fresh
<1>5. CASE DeleteRow(p)
  BY <1>0, <1>5 DEF DeleteRow, At, OnBooking, Written, RowDeleted
<1>6. QED
  BY <1>1, <1>2, <1>3, <1>4, <1>5
  DEF Continue, CheckDuplicate, InitiateWorkflow, CloseInstance, GenerateCorporateInvoice,
      GenerateForBooking, GenerateInvoiceNumber, InsertInvoice, UpdateCheckRoom,
      RecalculateRoomCharge, UpdateRoomLineItem, Written

LEMMA StepWrites ==
    ASSUME TypeOK, SerialInv, RunsOnly, [Next]_vars
    PROVE  Written
<1>1. ASSUME NEW p \in Request, Start(p) PROVE Written
  BY <1>1, StartOthers DEF Written
<1>2. CASE JobStep
  <2>0. job \in Job /\ (job.pc # "idle" => "job" \in Handlers)
    BY DEF TypeOK, RunsOnly, JobIdle
  <2>1. CASE ExtendCheckout
    <3>1. PICK b \in job.refs :
             IF Exists(b) /\ bookings[b].checkIn >= job.day
             THEN JobNext(job.refs \ {b}) /\ UNCHANGED bookings
             ELSE /\ IF Exists(b)
                     THEN bookings' = [bookings EXCEPT ![b].checkOut = job.day]
                     ELSE UNCHANGED bookings
                  /\ job' = [job EXCEPT !.pc = "mark", !.cur = b]
      BY <2>1 DEF ExtendCheckout
    <3>2. /\ b \in Booking /\ job.day \in Day /\ bookings[b].status = "checked_in"
          /\ bookings[b].checkOut < job.day
      BY <2>0, <2>1 DEF Job, ExtendCheckout, SerialInv, JobFresh
    <3>3. Exists(b) /\ bookings[b].checkIn \in Int /\ job.day \in Int
      BY <3>2, ExistingIsRow DEF Exists, Status, Row, Day
    <3>4. CASE bookings[b].checkIn < job.day
      <4>0. ~(bookings[b].checkIn >= job.day)
        BY <3>3, <3>4
      <4>1. job'.pc = "mark" /\ job'.cur = b
        BY <2>0, <3>1, <4>0 DEF Job
      <4>2. QED
        BY <2>0, <2>1, <3>1, <3>2, <3>3, <3>4, <4>0, <4>1
        DEF ExtendCheckout, Written, StayExtended
    <3>5. QED
      BY <2>1, <3>1, <3>3, <3>4 DEF ExtendCheckout, Written
  <2>2. CASE MarkOverstayed
    <3>1. job.cur \in Booking /\ Exists(job.cur)
      BY <2>2 DEF MarkOverstayed, TypeOK, SerialInv, JobFresh, Exists, Status
    <3>2. job'.pc = "due" /\ job'.cur = job.cur
      BY <2>0, <2>2 DEF MarkOverstayed, Job
    <3>3. QED
      BY <2>0, <2>2, <3>1, <3>2 DEF MarkOverstayed, Written, StayMarked
  <2>3. QED
    BY <1>2, <2>1, <2>2 DEF JobStep, JobScan, UpdateDueDate, Written
<1>3. CASE ClearOverstayed \/ Tick \/ Crash \/ UNCHANGED vars
  BY <1>3 DEF ClearOverstayed, Tick, Crash, vars, Written, OverstayCleared
<1>4. QED
  BY <1>1, <1>2, <1>3, ContinueWrites DEF Next

-------------------------------------------------------------------------------
(***************************************************************************)
(* What follows for the statuses.                                          *)
(***************************************************************************)
LEMMA WrittenIsLegal ==
    ASSUME "approval" \notin Handlers, TypeOK, Written, NEW b \in Booking,
           Exists(b), Exists(b)', bookings'[b].status # bookings[b].status
    PROVE  CanTransition(bookings[b].status, bookings'[b].status)
<1>0. bookings[b] \in Row
  BY ExistingIsRow
<1>1. CASE RowsInserted
  <2>1. PICK ids \in SUBSET Unborn : \E new \in [ids -> Row] : InsertRows(new)
    BY <1>1 DEF RowsInserted
  <2>2. b \notin ids
    BY <2>1 DEF Unborn, Exists, Status
  <2>3. bookings'[b] = bookings[b]
    BY <2>1, <2>2 DEF InsertRows
  <2>4. QED
    BY <2>3
<1>2. CASE StatusWritten
  <2>1. PICK c \in Booking, to \in Status :
           /\ bookings' = [bookings EXCEPT ![c].status = to]
           /\ CanTransition(bookings[c].status, to)
    BY <1>2 DEF StatusWritten, SetStatus
  <2>2. c = b /\ bookings'[b].status = to
    BY <1>0, <2>1 DEF TypeOK, Row
  <2>3. QED
    BY <2>1, <2>2
<1>3. CASE DatesWritten
  <2>1. PICK c \in Booking, in \in Day, out \in Day : SetDates(c, in, out)
    BY <1>3 DEF DatesWritten
  <2>2. bookings'[b].status = bookings[b].status
    BY <1>0, <2>1 DEF SetDates, TypeOK, Row
  <2>3. QED
    BY <2>2
<1>4. CASE RowDeleted
  <2>1. PICK c \in Booking : bookings' = [bookings EXCEPT ![c] = Deleted]
    BY <1>4 DEF RowDeleted
  <2>2. c # b
    BY <2>1 DEF TypeOK, Deleted, Exists, Status
  <2>3. QED
    BY <2>1, <2>2 DEF TypeOK
<1>5. CASE OverstayCleared \/ StayExtended \/ StayMarked
  BY <1>0, <1>5 DEF OverstayCleared, StayExtended, StayMarked, TypeOK, Row
<1>6. QED
  BY <1>1, <1>2, <1>3, <1>4, <1>5 DEF Written

\* A status only moves along ValidBookingTransitions: a handler that runs
\* alone writes the status that it validated (booking_service.go,
\* UpdateStatus).  Only the approval of a booking, which validates nothing,
\* is left out.
THEOREM StatusesAlwaysLegal ==
    ASSUME Serial, "approval" \notin Handlers
    PROVE  Spec => LegalTransitions
<1>1. TypeOK /\ SerialInv /\ RunsOnly /\ [Next]_vars =>
        [\A b \in Booking :
            Exists(b) /\ Exists(b)' /\ bookings'[b].status # bookings[b].status
              => CanTransition(bookings[b].status, bookings'[b].status)]_vars
  BY StepWrites, WrittenIsLegal
<1>2. QED
  BY <1>1, AlwaysRunsOnly, PTL DEF Spec, LegalTransitions

\* The job rewrites the check-out of guests who are checked in, and only to
\* a later day: the bookings it listed are still overdue when it gets to them.
THEOREM JobAlwaysExtends ==
    ASSUME Serial
    PROVE  Spec => JobOnlyExtends
<1>1. TypeOK /\ SerialInv /\ [Next]_vars =>
        [ExtendCheckout =>
          \A b \in Booking : bookings'[b] # bookings[b] =>
              /\ bookings[b].status = "checked_in"
              /\ bookings'[b].checkOut > bookings[b].checkOut]_vars
  <2> SUFFICES ASSUME TypeOK, SerialInv, ExtendCheckout,
                      NEW b \in Booking, bookings'[b] # bookings[b]
               PROVE  /\ bookings[b].status = "checked_in"
                      /\ bookings'[b].checkOut > bookings[b].checkOut
    OBVIOUS
  <2>1. PICK c \in job.refs :
             bookings' = [bookings EXCEPT ![c].checkOut = job.day] \/ UNCHANGED bookings
    BY DEF ExtendCheckout
  <2>2. c = b /\ bookings' = [bookings EXCEPT ![b].checkOut = job.day]
    BY <2>1 DEF TypeOK
  <2>3. bookings[b].status = "checked_in" /\ bookings[b].checkOut < job.day
    BY <2>2 DEF ExtendCheckout, SerialInv, JobFresh
  <2>4. bookings[b] \in Row /\ job.day \in Int
    BY <2>3, ExistingIsRow DEF Exists, Status, TypeOK, Job, Day
  <2>5. bookings'[b].checkOut = job.day /\ bookings[b].checkOut \in Int
    BY <2>2, <2>4 DEF TypeOK, Row, Day
  <2>6. QED
    BY <2>3, <2>4, <2>5
<1>2. QED
  BY <1>1, AlwaysSerial, PTL DEF Spec, JobOnlyExtends

-------------------------------------------------------------------------------
(***************************************************************************)
(* The room ledger, step by step: an insertion reserves, a change of dates *)
(* amends, an end of the stay or a deletion releases, the rest stutters.   *)
(***************************************************************************)
LEMMA InitIsLedger == Init => Ledger!Init
BY DEF Init, Ledger!Init, Ledger!Never, LedgerEntry, LedgerNever, Unused, entries

LEMMA EntryOfRow ==
    ASSUME TypeOK, NEW b \in Booking
    PROVE  /\ LedgerEntry(b).held = "now" <=> Active(b)
           /\ Active(b) => LedgerEntry(b) = Ledger!Hold(bookings[b].room,
                              bookings[b].checkIn, bookings[b].checkOut)
           /\ Exists(b) /\ ~Active(b) => LedgerEntry(b) = Ledger!Past
<1>1. Active(b) => bookings[b].status # "unused"
  BY DEF Active, ActiveStatus
<1>2. Exists(b) => bookings[b].status # "unused"
  BY DEF Exists, Status
<1>3. QED
  BY <1>1, <1>2 DEF LedgerEntry, LedgerNever, LedgerPast, Ledger!Hold, Ledger!Past

\* A stay that fits beside the other active bookings fits in the ledger.
LEMMA AvailableFits ==
    ASSUME TypeOK, NEW room, NEW in, NEW out, NEW b \in Booking, NEW except, in < out,
           IsRoomAvailable(room, in, out, except), except \in {b, NoBooking}
    PROVE  Ledger!Fits(room, in, out, b)
<1> SUFFICES ASSUME NEW c \in Booking \ {b}, LedgerEntry(c).held = "now",
                    LedgerEntry(c).room = room
             PROVE  ~Overlaps(LedgerEntry(c).checkIn, LedgerEntry(c).checkOut, in, out)
  BY DEF Ledger!Fits, Ledger!IsHeld, Ledger!Overlaps, Overlaps, entries
<1>1. Active(c) /\ c # b
  BY EntryOfRow
<1>2. /\ LedgerEntry(c).room = bookings[c].room
      /\ LedgerEntry(c).checkIn = bookings[c].checkIn
      /\ LedgerEntry(c).checkOut = bookings[c].checkOut
  BY <1>1 DEF LedgerEntry, Active, ActiveStatus
<1>3. QED
  BY <1>1, <1>2, ConstantsAssumption DEF IsRoomAvailable

\* Steps that leave the held rooms and the past as they are.
LEMMA SameEntry ==
    ASSUME TypeOK, NEW b \in Booking, Exists(b), Exists(b)',
           Active(b) <=> Active(b)',
           bookings'[b].room = bookings[b].room,
           bookings'[b].checkIn = bookings[b].checkIn,
           bookings'[b].checkOut = bookings[b].checkOut
    PROVE  LedgerEntry(b)' = LedgerEntry(b)
<1>1. bookings[b].status # "unused" /\ bookings'[b].status # "unused"
  BY DEF Exists, Status
<1>2. QED
  BY <1>1 DEF LedgerEntry, Active, LedgerNever, LedgerPast

LEMMA OthersSameEntry ==
    ASSUME NEW b \in Booking, bookings'[b] = bookings[b]
    PROVE  LedgerEntry(b)' = LedgerEntry(b)
BY DEF LedgerEntry, Active, LedgerNever, LedgerPast

LEMMA OneEntryChanges ==
    ASSUME NEW b \in Booking, NEW entry,
           LedgerEntry(b)' = entry,
           \A c \in Booking \ {b} : bookings'[c] = bookings[c]
    PROVE  entries'
               = [entries EXCEPT ![b] = entry]
<1>1. \A c \in Booking \ {b} : LedgerEntry(c)' = LedgerEntry(c)
  BY OthersSameEntry
<1>2. QED
  BY <1>1 DEF entries

LEMMA EntriesUnchanged ==
    ASSUME \A b \in Booking : LedgerEntry(b)' = LedgerEntry(b)
    PROVE  entries' = entries
BY DEF entries

LEMMA InsertionReserves ==
    ASSUME "corporate" \notin Handlers, TypeOK, RowsInserted
    PROVE  \E b \in Booking : Ledger!Reserve(b)
<1>1. PICK ids \in SUBSET Unborn : \E new \in [ids -> Row] :
            /\ InsertRows(new)
            /\ \A b \in ids : Insertable(new[b])
            /\ \E b \in Booking : ids = {b}
  BY DEF RowsInserted
<1>2. PICK b \in Booking : ids = {b}
  BY <1>1
<1>3. PICK new \in [ids -> Row] : InsertRows(new) /\ Insertable(new[b])
  BY <1>1, <1>2
<1> DEFINE row == new[b]
<1>4. /\ bookings[b].status = "unused" /\ row \in Row /\ bookings'[b] = row
      /\ \A c \in Booking \ {b} : bookings'[c] = bookings[c]
  BY <1>2, <1>3 DEF InsertRows, Unborn
<1>5. Active(b)' /\ ~Active(b) /\ row.status # "unused"
  BY <1>3, <1>4 DEF Active, ActiveStatus, Insertable
<1>6. LedgerEntry(b)' = Ledger!Hold(row.room, row.checkIn, row.checkOut)
  BY <1>4, <1>5 DEF LedgerEntry, Ledger!Hold
<1>7. LedgerEntry(b) = Ledger!Never
  BY <1>4 DEF LedgerEntry, LedgerNever, Ledger!Never
<1>8. Ledger!Fits(row.room, row.checkIn, row.checkOut, b)
  BY <1>3, <1>5, AvailableFits DEF Insertable
<1>9. row.room \in Room /\ row.checkIn \in 0 .. MaxDay /\ row.checkOut \in 0 .. MaxDay
  BY <1>4 DEF Row, Day
<1>10. entries' =
          [entries EXCEPT
              ![b] = Ledger!Hold(row.room, row.checkIn, row.checkOut)]
  BY <1>4, <1>6, OneEntryChanges
<1>11. Ledger!Reserve(b)
  BY <1>7, <1>8, <1>9, <1>10 DEF Ledger!Reserve, entries
<1>12. QED
  BY <1>11

LEMMA NewDatesAmend ==
    ASSUME TypeOK, DatesWritten
    PROVE  \E b \in Booking : Ledger!Amend(b)
<1>1. PICK b \in Booking, in \in Day, out \in Day :
            /\ Active(b) /\ in < out /\ IsRoomAvailable(bookings[b].room, in, out, b)
            /\ SetDates(b, in, out)
  BY DEF DatesWritten
<1>2. bookings[b] \in Row /\ Exists(b)
  BY <1>1, ExistingIsRow DEF Active, Exists, ActiveStatus, Status
<1>3. /\ bookings'[b].status = bookings[b].status /\ bookings'[b].room = bookings[b].room
      /\ bookings'[b].checkIn = in /\ bookings'[b].checkOut = out
      /\ \A c \in Booking \ {b} : bookings'[c] = bookings[c]
  BY <1>1, <1>2 DEF SetDates, TypeOK, Row
<1>4. LedgerEntry(b).held = "now" /\ LedgerEntry(b).room = bookings[b].room
  BY <1>1 DEF LedgerEntry, Active, ActiveStatus
<1>5. LedgerEntry(b)' = Ledger!Hold(LedgerEntry(b).room, in, out)
  BY <1>1, <1>3, <1>4 DEF LedgerEntry, Active, ActiveStatus, Ledger!Hold
<1>6. Ledger!Fits(LedgerEntry(b).room, in, out, b)
  BY <1>1, <1>4, AvailableFits
<1>7. entries' =
          [entries EXCEPT
              ![b] = Ledger!Hold(LedgerEntry(b).room, in, out)]
  BY <1>3, <1>5, OneEntryChanges
<1>8. Ledger!Amend(b)
  BY <1>4, <1>6, <1>7 DEF Ledger!Amend, Ledger!IsHeld, Day, entries
<1>9. QED
  BY <1>8

\* A booking that stops being active lets its room go; one that had, or that
\* stays active, changes nothing.
LEMMA LetGo ==
    ASSUME TypeOK, NEW b \in Booking, Exists(b), ~Active(b)',
           bookings'[b].status # "unused",
           \A c \in Booking \ {b} : bookings'[c] = bookings[c]
    PROVE  \/ Ledger!Release(b)
           \/ entries' = entries
<1>1. LedgerEntry(b)' = Ledger!Past
  BY DEF LedgerEntry, LedgerPast, Ledger!Past
<1>2. CASE Active(b)
  <2>1. entries' =
            [entries EXCEPT ![b] = Ledger!Past]
    BY <1>1, OneEntryChanges
  <2>2. LedgerEntry(b).held = "now"
    BY <1>2, EntryOfRow
  <2>3. QED
    BY <2>1, <2>2 DEF Ledger!Release, Ledger!IsHeld, entries
<1>3. CASE ~Active(b)
  <2>1. LedgerEntry(b) = Ledger!Past
    BY <1>3, EntryOfRow
  <2>2. \A c \in Booking : LedgerEntry(c)' = LedgerEntry(c)
    BY <1>1, <2>1, OthersSameEntry
  <2>3. QED
    BY <2>2, EntriesUnchanged
<1>4. QED
  BY <1>2, <1>3

LEMMA StatusReleases ==
    ASSUME "approval" \notin Handlers, TypeOK, StatusWritten
    PROVE  \/ \E b \in Booking : Ledger!Release(b)
           \/ entries' = entries
<1>1. PICK b \in Booking, to \in Status :
           /\ Exists(b) /\ SetStatus(b, to) /\ CanTransition(bookings[b].status, to)
  BY DEF StatusWritten
<1>2. bookings[b] \in Row
  BY <1>1, ExistingIsRow
<1>3. /\ bookings'[b].status = to /\ bookings'[b].room = bookings[b].room
      /\ bookings'[b].checkIn = bookings[b].checkIn
      /\ bookings'[b].checkOut = bookings[b].checkOut
      /\ \A c \in Booking \ {b} : bookings'[c] = bookings[c]
  BY <1>1, <1>2 DEF SetStatus, TypeOK, Row
<1>4. Active(b) /\ to # "unused" /\ Exists(b)'
  BY <1>1, <1>3 DEF CanTransition, ValidBookingTransitions, Active, ActiveStatus, Exists, Status
<1>5. CASE to \in ActiveStatus
  <2>1. LedgerEntry(b)' = LedgerEntry(b)
    BY <1>1, <1>3, <1>4, <1>5, SameEntry DEF Active
  <2>2. \A c \in Booking : LedgerEntry(c)' = LedgerEntry(c)
    BY <1>3, <2>1, OthersSameEntry
  <2>3. QED
    BY <2>2, EntriesUnchanged
<1>6. CASE to \notin ActiveStatus
  BY <1>1, <1>3, <1>4, <1>6, LetGo DEF Active
<1>7. QED
  BY <1>5, <1>6

LEMMA WrittenIsLedgerStep ==
    ASSUME Handlers \cap {"corporate", "approval", "job"} = {}, TypeOK, Written
    PROVE  \/ Ledger!Next
           \/ entries' = entries
<1>1. CASE UNCHANGED <<bookings, history>>
  <2>1. \A c \in Booking : LedgerEntry(c)' = LedgerEntry(c)
    BY <1>1, OthersSameEntry
  <2>2. QED
    BY <2>1, EntriesUnchanged
<1>2. CASE RowsInserted
  BY <1>2, InsertionReserves DEF Ledger!Next
<1>3. CASE StatusWritten
  BY <1>3, StatusReleases DEF Ledger!Next
<1>4. CASE DatesWritten
  BY <1>4, NewDatesAmend DEF Ledger!Next
<1>5. CASE RowDeleted
  <2>1. PICK b \in Booking : Exists(b) /\ bookings' = [bookings EXCEPT ![b] = Deleted]
    BY <1>5 DEF RowDeleted
  <2>2. /\ ~Active(b)' /\ bookings'[b].status # "unused"
        /\ \A c \in Booking \ {b} : bookings'[c] = bookings[c]
    BY <2>1 DEF TypeOK, Active, ActiveStatus, Deleted
  <2>3. QED
    BY <2>1, <2>2, LetGo DEF Ledger!Next
<1>6. CASE OverstayCleared
  <2>1. PICK b \in Booking : Exists(b) /\ bookings' = [bookings EXCEPT ![b].overstayed = FALSE]
    BY <1>6 DEF OverstayCleared
  <2>2. bookings[b] \in Row
    BY <2>1, ExistingIsRow
  <2>3. /\ bookings'[b].status = bookings[b].status /\ bookings'[b].room = bookings[b].room
        /\ bookings'[b].checkIn = bookings[b].checkIn
        /\ bookings'[b].checkOut = bookings[b].checkOut
        /\ \A c \in Booking \ {b} : bookings'[c] = bookings[c]
    BY <2>1, <2>2 DEF TypeOK, Row
  <2>4. LedgerEntry(b)' = LedgerEntry(b)
    BY <2>1, <2>3, SameEntry DEF Active, Exists
  <2>5. \A c \in Booking : LedgerEntry(c)' = LedgerEntry(c)
    BY <2>3, <2>4, OthersSameEntry
  <2>6. QED
    BY <2>5, EntriesUnchanged
<1>7. QED
  BY <1>1, <1>2, <1>3, <1>4, <1>5, <1>6 DEF Written, StayExtended, StayMarked

\* The booking desk implements the room ledger when its handlers run one at
\* a time, crashes included.  Left out are the three that break it even so:
\* a company's guests are not checked against each other, an approval puts a
\* cancelled booking back, and the job keeps guests in rooms booked by others.
THEOREM DeskImplementsLedger ==
    ASSUME Serial, Handlers \cap {"corporate", "approval", "job"} = {}
    PROVE  Spec => ImplementsLedger
<1>1. TypeOK /\ SerialInv /\ RunsOnly /\ [Next]_vars =>
          [Ledger!Next]_entries
  BY StepWrites, WrittenIsLedgerStep
<1>2. QED
  BY <1>1, InitIsLedger, AlwaysRunsOnly, PTL DEF Spec, ImplementsLedger, Ledger!Spec
-------------------------------------------------------------------------------
(***************************************************************************)
(* Stays that come to share a room.                                        *)
(***************************************************************************)

\* An active booking that was active before, in its room on its days.
Stays(b) ==
    /\ Active(b)
    /\ bookings'[b].room = bookings[b].room
    /\ bookings'[b].company = bookings[b].company
    /\ bookings'[b].checkIn = bookings[b].checkIn
    /\ bookings'[b].checkOut = bookings[b].checkOut
    /\ history[b] \subseteq history'[b]

LEMMA SameTimeSymmetric ==
    ASSUME TypeOK, NEW b \in Booking, NEW c \in Booking, SameTime(b, c)
    PROVE  SameTime(c, b)
<1>1. bookings[b] \in Row /\ bookings[c] \in Row
  BY ExistingIsRow DEF SameTime, Active, ActiveStatus, Exists, Status
<1>2. QED
  BY <1>1 DEF SameTime, Overlaps, Row, Day

LEMMA BothStay ==
    ASSUME NEW b \in Booking, NEW c \in Booking, Stays(b), Stays(c), SameTime(b, c)'
    PROVE  SameTime(b, c)
BY DEF Stays, SameTime, Overlaps

\* A stay that fitted when it was written shares nothing with those that stay.
LEMMA NoClash ==
    ASSUME TypeOK, TypeOK', NEW b \in Booking, NEW c \in Booking, b # c, Stays(c),
           SameTime(b, c)', NEW except, except \in {b, NoBooking},
           IsRoomAvailable(bookings'[b].room, bookings'[b].checkIn,
                           bookings'[b].checkOut, except)
    PROVE  FALSE
<1>1. c \in Booking \ {except}
  BY ConstantsAssumption
<1>2. ~Overlaps(bookings[c].checkIn, bookings[c].checkOut,
                bookings'[b].checkIn, bookings'[b].checkOut)
  BY <1>1 DEF IsRoomAvailable, Stays, SameTime
<1>3. SameTime(c, b)'
  <2>1. bookings'[b] \in Row /\ bookings'[c] \in Row
    BY DEF SameTime, Active, ActiveStatus, TypeOK, Unused, Deleted
  <2>2. QED
    BY <2>1 DEF SameTime, Overlaps, Row, Day
<1>4. QED
  BY <1>2, <1>3 DEF SameTime, Overlaps, Stays

\* Two stays that share a room shared it before, or a company booked both at
\* once, or the job has just extended one of them.
LEMMA NewOverlaps ==
    ASSUME "approval" \notin Handlers, TypeOK, TypeOK', Written,
           NEW b \in Booking, NEW c \in Booking, b # c, SameTime(b, c)'
    PROVE  \/ Stays(b) /\ Stays(c) /\ SameTime(b, c)
           \/ /\ "corporate" \in Handlers
              /\ bookings'[b].company = bookings'[c].company
              /\ bookings'[b].company # NoCompany
           \/ "job" \in Handlers /\ job'.pc = "mark" /\ job'.cur \in {b, c}
<1>0. Active(b)' /\ Active(c)' /\ SameTime(c, b)'
  <2>1. bookings'[b] \in Row /\ bookings'[c] \in Row
    BY DEF SameTime, Active, ActiveStatus, TypeOK, Unused, Deleted
  <2>2. QED
    BY <2>1 DEF SameTime, Overlaps, Row, Day
<1>1. CASE Stays(b) /\ Stays(c)
  BY <1>1, BothStay
<1>2. CASE UNCHANGED <<bookings, history>>
  <2>1. Stays(b) /\ Stays(c)
    BY <1>0, <1>2 DEF Stays, Active
  <2>2. QED
    BY <1>1, <2>1
<1>3. CASE RowsInserted
  <2>1. PICK company \in Company \cup {NoCompany}, ids \in SUBSET Unborn :
        \E new \in [ids -> Row] :
            /\ InsertRows(new)
            /\ \A x \in ids : Insertable(new[x]) /\ new[x].company = company
            /\ IF company = NoCompany THEN \E x \in Booking : ids = {x}
               ELSE "corporate" \in Handlers
    BY <1>3 DEF RowsInserted
  <2>2. PICK new \in [ids -> Row] :
            /\ InsertRows(new)
            /\ \A x \in ids : Insertable(new[x]) /\ new[x].company = company
    BY <2>1
  <2>3. ASSUME NEW x \in Booking \ ids, Active(x)' PROVE Stays(x)
    BY <2>2, <2>3 DEF InsertRows, Stays, Active
  <2>4. ASSUME NEW x \in Booking, NEW y \in Booking, x \in ids, y \notin ids,
               SameTime(x, y)'
        PROVE  FALSE
    <3>1. bookings'[x] = new[x]
      BY <2>2, <2>4 DEF InsertRows
    <3>2. Stays(y)
      BY <2>3, <2>4 DEF SameTime
    <3>3. QED
      BY <2>2, <2>4, <3>1, <3>2, NoClash DEF Insertable
  <2>5. CASE b \in ids /\ c \in ids
    BY <2>1, <2>2, <2>5 DEF InsertRows
  <2>6. CASE b \notin ids /\ c \notin ids
    BY <1>0, <1>1, <2>3, <2>6
  <2>7. QED
    BY <1>0, <2>4, <2>5, <2>6
<1>4. CASE StatusWritten
  <2>1. PICK x \in Booking, to \in Status :
           Exists(x) /\ SetStatus(x, to) /\ CanTransition(bookings[x].status, to)
    BY <1>4 DEF StatusWritten
  <2>2. bookings[x] \in Row /\ Active(x)
    BY <2>1, ExistingIsRow DEF Active, ActiveStatus, CanTransition, ValidBookingTransitions
  <2>3. ASSUME NEW y \in Booking, Active(y)' PROVE Stays(y)
    BY <2>1, <2>2, <2>3 DEF SetStatus, TypeOK, Row, Stays, Active
  <2>4. QED
    BY <1>0, <1>1, <2>3
<1>5. CASE DatesWritten
  <2>1. PICK x \in Booking, in \in Day, out \in Day :
            /\ Active(x) /\ IsRoomAvailable(bookings[x].room, in, out, x)
            /\ SetDates(x, in, out) /\ UNCHANGED history
    BY <1>5 DEF DatesWritten
  <2>2. bookings[x] \in Row /\ Exists(x)
    BY <2>1, ExistingIsRow DEF Active, Exists, ActiveStatus, Status
  <2>3. /\ bookings'[x].room = bookings[x].room
        /\ bookings'[x].checkIn = in /\ bookings'[x].checkOut = out
    BY <2>1, <2>2 DEF SetDates, TypeOK, Row
  <2>4. ASSUME NEW y \in Booking \ {x}, Active(y)' PROVE Stays(y)
    BY <2>1, <2>2, <2>4 DEF SetDates, TypeOK, Stays, Active
  <2>5. b # x /\ c # x
    BY <1>0, <2>1, <2>3, <2>4, NoClash
  <2>6. QED
    BY <1>0, <1>1, <2>4, <2>5
<1>6. CASE RowDeleted
  <2>1. PICK x \in Booking : /\ bookings' = [bookings EXCEPT ![x] = Deleted]
                             /\ UNCHANGED history
    BY <1>6 DEF RowDeleted
  <2>2. ASSUME NEW y \in Booking, Active(y)' PROVE Stays(y)
    BY <2>1, <2>2 DEF TypeOK, Deleted, Stays, Active, ActiveStatus
  <2>3. QED
    BY <1>0, <1>1, <2>2
<1>7. CASE OverstayCleared
  <2>1. PICK x \in Booking :
           /\ Exists(x) /\ bookings' = [bookings EXCEPT ![x].overstayed = FALSE]
           /\ UNCHANGED history
    BY <1>7 DEF OverstayCleared
  <2>2. bookings[x] \in Row
    BY <2>1, ExistingIsRow
  <2>3. ASSUME NEW y \in Booking, Active(y)' PROVE Stays(y)
    BY <2>1, <2>2, <2>3 DEF TypeOK, Row, Stays, Active
  <2>4. QED
    BY <1>0, <1>1, <2>3
<1>8. CASE StayExtended
  <2>1. PICK x \in Booking, day \in Day :
           /\ "job" \in Handlers /\ bookings' = [bookings EXCEPT ![x].checkOut = day]
           /\ UNCHANGED history /\ job'.pc = "mark" /\ job'.cur = x
    BY <1>8 DEF StayExtended
  <2>2. ASSUME NEW y \in Booking \ {x}, Active(y)' PROVE Stays(y)
    BY <2>1, <2>2 DEF TypeOK, Stays, Active
  <2>3. QED
    BY <1>0, <1>1, <2>1, <2>2
<1>9. CASE StayMarked
  <2>1. bookings[job.cur] \in Row
    BY <1>9, ExistingIsRow DEF StayMarked
  <2>2. ASSUME NEW y \in Booking, Active(y)' PROVE Stays(y)
    BY <1>9, <2>1, <2>2 DEF StayMarked, TypeOK, Row, Stays, Active
  <2>3. QED
    BY <1>0, <1>1, <2>2
<1>10. QED
  BY <1>2, <1>3, <1>4, <1>5, <1>6, <1>7, <1>8, <1>9 DEF Written

\* No room is promised to two active bookings for the same night: every
\* handler that gives out a room or changes dates has asked IsRoomAvailable.
\* The handlers left out are those that make the double bookings the
\* interleavings and the job are known for.
THEOREM NeverDoubleBooked ==
    ASSUME Serial, Handlers \cap {"corporate", "approval", "job"} = {}
    PROVE  Spec => []NoDoubleBooking
<1>1. Init => NoDoubleBooking
  BY DEF Init, NoDoubleBooking, SameTime, Active, ActiveStatus, Unused
<1>2. TypeOK /\ TypeOK' /\ SerialInv /\ RunsOnly /\ NoDoubleBooking /\ [Next]_vars
        => NoDoubleBooking'
  <2> SUFFICES ASSUME TypeOK, TypeOK', SerialInv, RunsOnly, NoDoubleBooking, [Next]_vars,
                      NEW b \in Booking, NEW c \in Booking, b # c, SameTime(b, c)'
               PROVE  FALSE
    BY DEF NoDoubleBooking
  <2>1. SameTime(b, c)
    BY StepWrites, NewOverlaps
  <2>2. QED
    BY <2>1 DEF NoDoubleBooking
<1>3. QED
  BY <1>1, <1>2, AlwaysRunsOnly, PTL DEF Spec

-------------------------------------------------------------------------------
(***************************************************************************)
(* Whoever is at work finishes before anyone else begins.                  *)
(***************************************************************************)
LEMMA RequestGoesOn ==
    ASSUME Serial, "crash" \notin Handlers, TypeOK, SerialInv, [Next]_vars,
           NEW p \in Request, req[p].pc # "idle"
    PROVE  Continue(p) \/ UNCHANGED <<bookings, history, invoices, req, job>>
<1>1. ~Quiescent /\ req[p] # Idle
  BY DEF Quiescent, Idle
<1>2. ASSUME NEW q \in Request, Start(q) PROVE FALSE
  BY <1>1, <1>2, StartOthers
<1>3. ASSUME NEW q \in Request, Continue(q) PROVE q = p
  BY <1>1, <1>3, ContinueOthers, OnlyOne
<1>4. CASE JobStep
  <2>1. ~JobScan /\ ~ClearOverstayed
    BY <1>1 DEF JobScan, ClearOverstayed, MayStart
  <2>2. job.pc # "idle"
    BY <1>4, <2>1 DEF JobStep, ExtendCheckout, MarkOverstayed, UpdateDueDate
  <2>3. QED
    BY <1>1, <2>2 DEF SerialInv, Alone, JobIdle
<1>5. CASE ClearOverstayed
  BY <1>1, <1>5 DEF ClearOverstayed, MayStart
<1>6. QED
  BY <1>2, <1>3, <1>4, <1>5 DEF Next, Tick, Crash, vars

LEMMA JobGoesOn ==
    ASSUME Serial, "crash" \notin Handlers, TypeOK, SerialInv, [Next]_vars,
           job.pc # "idle"
    PROVE  JobStep \/ UNCHANGED <<bookings, history, invoices, req, job>>
<1>1. ~Quiescent /\ job # JobIdle
  BY DEF Quiescent, JobIdle
<1>2. ASSUME NEW q \in Request, Start(q) PROVE FALSE
  BY <1>1, <1>2, StartOthers
<1>3. ASSUME NEW q \in Request, Continue(q) PROVE FALSE
  BY <1>1, <1>3, ContinueOthers, OnlyOne
<1>4. ~ClearOverstayed
  BY <1>1 DEF ClearOverstayed, MayStart
<1>5. QED
  BY <1>2, <1>3, <1>4 DEF Next, Tick, Crash, vars

-------------------------------------------------------------------------------
(***************************************************************************)
(* Double bookings with the corporate handler and the job: every one has   *)
(* its explanation, or the job is just about to write it down.             *)
(***************************************************************************)
OverlapInv ==
    \A b, c \in Booking : b # c /\ SameTime(b, c) =>
        \/ "overstayed" \in history[b] \cup history[c]
        \/ job.pc = "mark" /\ job.cur \in {b, c}
        \/ /\ bookings[b].company = bookings[c].company
           /\ bookings[b].company # NoCompany

LEMMA OverlapStep ==
    ASSUME Serial, Handlers \cap {"approval", "crash"} = {}, TypeOK, TypeOK', SerialInv,
           RunsOnly, OverlapInv, [Next]_vars
    PROVE  OverlapInv'
<1> SUFFICES ASSUME NEW b \in Booking, NEW c \in Booking, b # c, SameTime(b, c)'
             PROVE  \/ "overstayed" \in history'[b] \cup history'[c]
                    \/ job'.pc = "mark" /\ job'.cur \in {b, c}
                    \/ /\ bookings'[b].company = bookings'[c].company
                       /\ bookings'[b].company # NoCompany
  BY DEF OverlapInv
<1>1. CASE Stays(b) /\ Stays(c) /\ SameTime(b, c)
  <2>1. CASE job.pc = "mark" /\ job.cur \in {b, c}
    <3>1. MarkOverstayed \/ UNCHANGED job
      BY <2>1, JobGoesOn DEF JobStep, JobScan, JobIdle, ExtendCheckout, UpdateDueDate
    <3>2. MarkOverstayed => "overstayed" \in history'[job.cur]
      BY DEF MarkOverstayed, TypeOK, SerialInv, JobFresh, Exists, Status
    <3>3. QED
      BY <2>1, <3>1, <3>2
  <2>2. QED
    BY <1>1, <2>1 DEF OverlapInv, Stays
<1>2. QED
  BY <1>1, StepWrites, NewOverlaps

\* With the job and the corporate handler at work too, whoever shares a room
\* was kept there past the end of the stay by the job, or is of one company
\* with the other (Overdue-checkout job, CreateCorporate).
THEOREM OverlapsAlwaysExplained ==
    ASSUME Serial, Handlers \cap {"approval", "crash"} = {}
    PROVE  Spec => []OverlapsExplained
<1>1. Init => OverlapInv
  BY DEF Init, OverlapInv, SameTime, Active, ActiveStatus, Unused
<1>2. TypeOK /\ TypeOK' /\ SerialInv /\ RunsOnly /\ OverlapInv /\ [Next]_vars => OverlapInv'
  BY OverlapStep
<1>3. OverlapInv => OverlapsExplained
  BY DEF OverlapInv, OverlapsExplained, Quiescent, JobIdle
<1>4. QED
  BY <1>1, <1>2, <1>3, AlwaysRunsOnly, PTL DEF Spec

-------------------------------------------------------------------------------
(***************************************************************************)
(* Invoices are never deleted, and are numbered 1, 2, 3 and so on.         *)
(***************************************************************************)
Numbered ==
    /\ \A i \in invoices : i.number <= Cardinality(invoices)
    /\ \A i, j \in invoices : i.number = j.number => i = j

\* An edit that keeps numbers and bookings.
InvoicesEdited ==
    \E edit \in [invoices -> Invoice] :
        /\ invoices' = {edit[i] : i \in invoices}
        /\ \A i \in invoices : edit[i].number = i.number /\ edit[i].booking = i.booking

\* What InsertInvoice adds when nothing refuses it.
Issued(p) ==
    [number |-> req[p].number, booking |-> req[p].b, company |-> req[p].company,
     nights |-> req[p].nights, due |-> req[p].due]

LEMMA InvoiceSteps ==
    ASSUME TypeOK, [Next]_vars
    PROVE  \/ UNCHANGED invoices
           \/ InvoicesEdited
           \/ \E p \in Request : InsertInvoice(p) /\ invoices' = invoices \cup {Issued(p)}
<1>1. ASSUME NEW p \in Request, UpdateRoomLineItem(p) PROVE InvoicesEdited
  <2> DEFINE edit == [i \in invoices |-> IF i.booking = req[p].b
                        THEN [i EXCEPT !.nights = req[p].nights, !.due = today] ELSE i]
  <2>1. invoices' = {edit[i] : i \in invoices}
    BY <1>1 DEF UpdateRoomLineItem
  <2>2. req[p].nights \in [Booking -> Nat] /\ today \in Day
    BY DEF TypeOK, Local
  <2>3. ASSUME NEW i \in invoices
        PROVE  edit[i] \in Invoice /\ edit[i].number = i.number /\ edit[i].booking = i.booking
    <3>1. i \in Invoice
      BY DEF TypeOK
    <3>2. QED
      BY <2>2, <3>1 DEF Invoice
  <2>4. edit \in [invoices -> Invoice]
    BY <2>3
  <2>5. QED
    BY <2>1, <2>3, <2>4 DEF InvoicesEdited
<1>2. ASSUME UpdateDueDate PROVE InvoicesEdited
  <2> DEFINE edit == [i \in invoices |-> IF i.booking = job.cur
                        THEN [i EXCEPT !.due = job.day] ELSE i]
  <2>1. invoices' = {edit[i] : i \in invoices}
    BY <1>2 DEF UpdateDueDate
  <2>2. job.day \in Day
    BY DEF TypeOK, Job
  <2>3. ASSUME NEW i \in invoices
        PROVE  edit[i] \in Invoice /\ edit[i].number = i.number /\ edit[i].booking = i.booking
    <3>1. i \in Invoice
      BY DEF TypeOK
    <3>2. QED
      BY <2>2, <3>1 DEF Invoice
  <2>4. edit \in [invoices -> Invoice]
    BY <2>3
  <2>5. QED
    BY <2>1, <2>3, <2>4 DEF InvoicesEdited
<1>3. ASSUME NEW p \in Request, InsertInvoice(p)
      PROVE  UNCHANGED invoices \/ invoices' = invoices \cup {Issued(p)}
  BY <1>3 DEF InsertInvoice, Issued
<1>4. ASSUME NEW p \in Request, Start(p) PROVE UNCHANGED invoices
  BY <1>4, StartOthers
<1>5. ASSUME NEW p \in Request, Continue(p), ~UpdateRoomLineItem(p), ~InsertInvoice(p)
      PROVE  UNCHANGED invoices
  BY <1>5 DEF Continue, CheckDuplicate, InsertBooking, GuestInsert,
       InitiateWorkflow, CloseInstance, UpdateEntityStatus, CommitCorporate,
       GenerateCorporateInvoice, UpdateStatusTx, GenerateForBooking,
       GenerateInvoiceNumber, UpdateCheckRoom, UpdateWrite,
       RecalculateRoomCharge, DeleteRow
<1>6. CASE JobScan \/ ExtendCheckout \/ MarkOverstayed \/ ClearOverstayed \/ Tick \/ Crash
           \/ UNCHANGED vars
  BY <1>6 DEF JobScan, ExtendCheckout, MarkOverstayed, ClearOverstayed, Tick, Crash, vars
<1>7. QED
  BY <1>1, <1>2, <1>3, <1>4, <1>5, <1>6 DEF Next, JobStep

LEMMA NumberedStep ==
    ASSUME TypeOK, SerialInv, Numbered, [Next]_vars
    PROVE  Numbered'
<1>0. IsFiniteSet(invoices) /\ invoices \subseteq Invoice
  BY DEF TypeOK
<1>1. CASE UNCHANGED invoices
  BY <1>1 DEF Numbered
<1>2. CASE InvoicesEdited
  <2>1. PICK edit \in [invoices -> Invoice] :
        /\ invoices' = {edit[i] : i \in invoices}
        /\ \A i \in invoices : edit[i].number = i.number
    BY <1>2 DEF InvoicesEdited
  <2>2. edit \in Surjection(invoices, invoices')
    BY <2>1 DEF Surjection
  <2>3. edit \in Injection(invoices, invoices')
    BY <2>1 DEF Injection, IsInjective, Numbered
  <2>4. Cardinality(invoices') = Cardinality(invoices)
    BY <1>0, <2>2, <2>3, FS_Surjection
  <2>5. \A j \in invoices' : j.number <= Cardinality(invoices')
    BY <2>1, <2>4 DEF Numbered
  <2>6. \A j, k \in invoices' : j.number = k.number => j = k
    BY <2>1 DEF Numbered
  <2>7. QED
    BY <2>5, <2>6 DEF Numbered
<1>3. ASSUME NEW p \in Request, InsertInvoice(p), invoices' = invoices \cup {Issued(p)}
      PROVE  Numbered'
  <2>1. Issued(p).number = Cardinality(invoices) + 1
    BY <1>3 DEF Issued, InsertInvoice, At, SerialInv, Fresh
  <2>2. Cardinality(invoices) \in Nat
    BY <1>0, FS_CardinalityType
  <2>3. \A i \in invoices : i.number < Issued(p).number
    BY <1>0, <2>1, <2>2 DEF Numbered, Invoice
  <2>4. Issued(p) \notin invoices
    BY <1>0, <2>1, <2>2, <2>3
  <2>5. Cardinality(invoices') = Cardinality(invoices) + 1
    BY <1>0, <1>3, <2>4, FS_AddElement
  <2>6. QED
    BY <1>0, <1>3, <2>1, <2>2, <2>3, <2>5 DEF Numbered, Invoice
<1>4. QED
  BY <1>1, <1>2, <1>3, InvoiceSteps

LEMMA InvoicesPersist ==
    ASSUME TypeOK, [Next]_vars, NEW b, InvoicesOf(b) # {}
    PROVE  InvoicesOf(b)' # {}
<1>1. PICK i \in invoices : i.booking = b
  BY DEF InvoicesOf
<1>2. \E j \in invoices' : j.booking = b
  BY <1>1, InvoiceSteps DEF InvoicesEdited
<1>3. QED
  BY <1>2 DEF InvoicesOf

-------------------------------------------------------------------------------
(***************************************************************************)
(* Every confirmed booking of a guest who pays has its invoice, or the     *)
(* request that confirmed it is about to make it.                          *)
(***************************************************************************)
MustBeInvoiced(b) ==
    /\ bookings[b].status \in {"confirmed", "checked_in", "checked_out"}
    /\ bookings[b].company = NoCompany

Invoicing(b) ==
    \E p \in Request :
        req[p].b = b /\ req[p].pc \in {"generate", "invoice_number", "invoice_insert"}

ConfirmInv == \A b \in Booking : MustBeInvoiced(b) => InvoicesOf(b) # {} \/ Invoicing(b)

\* A row keeps its company and starts out pending.
LEMMA RowAfter ==
    ASSUME TypeOK, Written, NEW b \in Booking, Exists(b)'
    PROVE  \/ Exists(b) /\ bookings'[b].company = bookings[b].company
           \/ bookings'[b].status = "pending"
<1>1. CASE UNCHANGED <<bookings, history>>
  BY <1>1 DEF Exists
<1>2. CASE RowsInserted
  <2>1. PICK company \in Company \cup {NoCompany}, ids \in SUBSET Unborn :
        \E new \in [ids -> Row] :
            InsertRows(new) /\ \A x \in ids : Insertable(new[x])
    BY <1>2 DEF RowsInserted
  <2>2. PICK new \in [ids -> Row] :
            InsertRows(new) /\ \A x \in ids : Insertable(new[x])
    BY <2>1
  <2>3. QED
    BY <2>2 DEF InsertRows, Insertable, Exists
<1>3. CASE StatusWritten \/ DatesWritten
  <2>1. PICK x \in Booking :
           /\ Exists(x)
           /\ \/ \E to \in Status : SetStatus(x, to)
              \/ \E in \in Day, out \in Day : SetDates(x, in, out)
    BY <1>3 DEF StatusWritten, DatesWritten, Active, ActiveStatus, Exists, Status
  <2>2. bookings[x] \in Row
    BY <2>1, ExistingIsRow
  <2>3. bookings'[x].company = bookings[x].company
        /\ \A y \in Booking \ {x} : bookings'[y] = bookings[y]
    <3>1. CASE \E to \in Status : SetStatus(x, to)
      BY <2>1, <2>2, <3>1 DEF SetStatus, TypeOK, Row
    <3>2. CASE \E in \in Day, out \in Day : SetDates(x, in, out)
      BY <2>1, <2>2, <3>2 DEF SetDates, TypeOK, Row
    <3>3. QED
      BY <2>1, <3>1, <3>2
  <2>4. QED
    BY <2>1, <2>3 DEF Exists
<1>4. CASE RowDeleted
  <2>1. PICK x \in Booking : bookings' = [bookings EXCEPT ![x] = Deleted]
    BY <1>4 DEF RowDeleted
  <2>2. b # x
    BY <2>1 DEF TypeOK, Exists, Deleted, Status
  <2>3. QED
    BY <2>1, <2>2 DEF TypeOK, Exists
<1>5. CASE OverstayCleared \/ StayExtended \/ StayMarked
  <2>1. PICK x \in Booking :
           /\ Exists(x)
           /\ \/ \E v : bookings' = [bookings EXCEPT ![x].overstayed = v]
              \/ \E v : bookings' = [bookings EXCEPT ![x].checkOut = v]
    BY <1>5 DEF OverstayCleared, StayExtended, StayMarked, Exists, Status
  <2>2. bookings[x] \in Row
    BY <2>1, ExistingIsRow
  <2>3. bookings'[x].company = bookings[x].company
        /\ \A y \in Booking \ {x} : bookings'[y] = bookings[y]
    BY <2>1, <2>2 DEF TypeOK, Row
  <2>4. QED
    BY <2>1, <2>3 DEF Exists
<1>6. QED
  BY <1>1, <1>2, <1>3, <1>4, <1>5 DEF Written

\* The request that has to make the invoice goes on to make it.
LEMMA InvoicingStep ==
    ASSUME TypeOK, SerialInv, Numbered, NEW b \in Booking, NEW p \in Request,
           Exists(b), InvoicesOf(b) = {}, req[p].b = b, Continue(p),
           req[p].pc \in {"generate", "invoice_number", "invoice_insert"}
    PROVE  InvoicesOf(b)' # {} \/ Invoicing(b)'
<1>0. req[p] \in Local /\ Fresh(req[p])
  BY DEF TypeOK, SerialInv
<1>1. CASE GenerateForBooking(p)
  <2>1. PICK nights, due : Goto(p, [req[p] EXCEPT !.pc = "invoice_number",
                                      !.nights = nights, !.due = due])
    BY <1>1 DEF GenerateForBooking
  <2>2. req'[p].pc = "invoice_number" /\ req'[p].b = b
    BY <1>0, <2>1 DEF Goto, TypeOK, Local
  <2>3. QED
    BY <2>2 DEF Invoicing
<1>2. CASE GenerateInvoiceNumber(p)
  <2>1. req'[p].pc = "invoice_insert" /\ req'[p].b = b
    BY <1>0, <1>2 DEF GenerateInvoiceNumber, Goto, TypeOK, Local
  <2>2. QED
    BY <2>1 DEF Invoicing
<1>3. CASE InsertInvoice(p)
  <2>1. req[p].b # NoBooking /\ req[p].pc = "invoice_insert"
    BY <1>3, ConstantsAssumption DEF InsertInvoice, At
  <2>2. req[p].batch = {} /\ req[p].number = Cardinality(invoices) + 1
    BY <1>0, <2>1 DEF Fresh
  <2>3. Cardinality(invoices) \in Nat /\ \A i \in invoices : i.number \in Int
    BY FS_CardinalityType DEF TypeOK, Invoice
  <2>4. \A i \in invoices : i.number # req[p].number
    BY <2>2, <2>3 DEF Numbered
  <2>5. invoices' = invoices \cup {Issued(p)}
    BY <1>3, <2>1, <2>2, <2>4 DEF InsertInvoice, Issued
  <2>6. Issued(p) \in invoices' /\ Issued(p).booking = b
    BY <2>5 DEF Issued
  <2>7. QED
    BY <2>6 DEF InvoicesOf
<1>4. QED
  BY <1>1, <1>2, <1>3 DEF Continue, At, CheckDuplicate, InsertBooking, GuestInsert,
       InitiateWorkflow, CloseInstance, UpdateEntityStatus, CommitCorporate,
       GenerateCorporateInvoice, UpdateStatusTx, UpdateCheckRoom, UpdateWrite,
       RecalculateRoomCharge, UpdateRoomLineItem, DeleteRow

\* A booking becomes confirmed by a request that goes on to its invoice.
LEMMA ConfirmingStep ==
    ASSUME "approval" \notin Handlers, TypeOK, TypeOK', SerialInv, RunsOnly, [Next]_vars,
           NEW b \in Booking, ~MustBeInvoiced(b), MustBeInvoiced(b)'
    PROVE  Invoicing(b)'
<1>1. Exists(b)' /\ bookings'[b].status # "pending"
  BY DEF MustBeInvoiced, Exists, Status
<1>2. Exists(b) /\ bookings'[b].company = bookings[b].company
  BY <1>1, StepWrites, RowAfter
<1>3. bookings'[b].status # bookings[b].status
  BY <1>2 DEF MustBeInvoiced
<1>4. bookings[b].status = "pending" /\ bookings'[b].status = "confirmed"
      /\ bookings[b].company = NoCompany
  BY <1>1, <1>2, <1>3, StepWrites, WrittenIsLegal
  DEF MustBeInvoiced, CanTransition, ValidBookingTransitions
<1>5. PICK p \in Request : UpdateStatusTx(p)
  <2>1. ~UNCHANGED bookings
    BY <1>3
  <2>2. ASSUME NEW p \in Request, Start(p) PROVE FALSE
    BY <2>1, <2>2, StartOthers
  <2>3. ASSUME NEW p \in Request, InsertBooking(p) \/ GuestInsert(p) \/ CommitCorporate(p)
        PROVE  FALSE
    BY <1>2, <1>3, <2>1, <2>3
    DEF InsertBooking, GuestInsert, CommitCorporate, InsertRows, Unborn, Exists, Status
  <2>4. ASSUME NEW p \in Request, UpdateWrite(p) \/ UpdateEntityStatus(p) PROVE FALSE
    <3>1. bookings[b] \in Row /\ ~UpdateEntityStatus(p)
      BY <1>2, ExistingIsRow DEF UpdateEntityStatus, At, RunsOnly
    <3>2. QED
      BY <1>3, <2>4, <3>1 DEF UpdateWrite, SetDates, TypeOK, Row
  <2>5. ASSUME NEW p \in Request, DeleteRow(p) PROVE FALSE
    BY <1>1, <1>3, <2>5 DEF DeleteRow, TypeOK, Exists, Deleted, Status
  <2>6. ASSUME JobStep \/ ClearOverstayed PROVE FALSE
    <3>1. bookings[b] \in Row
      BY <1>2, ExistingIsRow
    <3>2. CASE ExtendCheckout
      BY <1>3, <3>1, <3>2 DEF ExtendCheckout, TypeOK, Row
    <3>3. CASE MarkOverstayed \/ ClearOverstayed
      BY <1>3, <3>1, <3>3 DEF MarkOverstayed, ClearOverstayed, TypeOK, Row
    <3>4. QED
      BY <2>1, <2>6, <3>2, <3>3 DEF JobStep, JobScan, UpdateDueDate
  <2>7. PICK p \in Request : Continue(p)
    BY <2>1, <2>2, <2>6 DEF Next, Tick, Crash, vars
  <2>8. QED
    BY <2>1, <2>3, <2>4, <2>5, <2>7 DEF Continue, CheckDuplicate,
       InitiateWorkflow, CloseInstance,
       GenerateCorporateInvoice, GenerateForBooking, GenerateInvoiceNumber, InsertInvoice,
       UpdateCheckRoom, RecalculateRoomCharge, UpdateRoomLineItem
<1>6. req[p].b = b /\ req[p].to = "confirmed" /\ Exists(req[p].b)
  BY <1>2, <1>3, <1>4, <1>5, ExistingIsRow DEF UpdateStatusTx, SetStatus, TypeOK, Row
<1>7. req[p].company = NoCompany
  BY <1>4, <1>5, <1>6 DEF UpdateStatusTx, At, SerialInv, Fresh
<1>8. Goto(p, [Idle EXCEPT !.pc = "generate", !.b = b])
  BY <1>5, <1>6, <1>7 DEF UpdateStatusTx, NeedsInvoice
<1>9. req'[p].pc = "generate" /\ req'[p].b = b
  BY <1>8 DEF Goto, TypeOK, Idle
<1>10. QED
  BY <1>9 DEF Invoicing

LEMMA ConfirmStep ==
    ASSUME Serial, Handlers \cap {"approval", "crash"} = {}, TypeOK, TypeOK', SerialInv,
           RunsOnly, Numbered, ConfirmInv, [Next]_vars
    PROVE  ConfirmInv'
<1> SUFFICES ASSUME NEW b \in Booking, MustBeInvoiced(b)'
             PROVE  InvoicesOf(b)' # {} \/ Invoicing(b)'
  BY DEF ConfirmInv
<1>1. CASE InvoicesOf(b) # {}
  BY <1>1, InvoicesPersist
<1>2. CASE ~MustBeInvoiced(b)
  BY <1>2, ConfirmingStep
<1>3. CASE MustBeInvoiced(b) /\ InvoicesOf(b) = {}
  <2>1. PICK p \in Request :
           req[p].b = b /\ req[p].pc \in {"generate", "invoice_number", "invoice_insert"}
    BY <1>3 DEF ConfirmInv, Invoicing
  <2>2. CASE Continue(p)
    BY <1>3, <2>1, <2>2, InvoicingStep DEF MustBeInvoiced, Exists, Status
  <2>3. CASE UNCHANGED req
    BY <2>1, <2>3 DEF Invoicing
  <2>4. QED
    BY <2>1, <2>2, <2>3, RequestGoesOn
<1>4. QED
  BY <1>1, <1>2, <1>3

\* Every individual booking that was confirmed has its invoice once no
\* handler is at work: UpdateStatus generates it, the number it counts is
\* free, and nothing deletes an invoice.  Left out are approvals, which
\* confirm without an invoice, and crashes between the two statements.
THEOREM ConfirmedAlwaysInvoiced ==
    ASSUME Serial, Handlers \cap {"approval", "crash"} = {}
    PROVE  Spec => []ConfirmedIsInvoiced
<1>1. Init => Numbered /\ ConfirmInv
  BY DEF Init, Numbered, ConfirmInv, MustBeInvoiced, Unused
<1>2. TypeOK /\ TypeOK' /\ SerialInv /\ RunsOnly /\ Numbered /\ ConfirmInv /\ [Next]_vars
        => Numbered' /\ ConfirmInv'
  BY ConfirmStep, NumberedStep
<1>3. ConfirmInv => ConfirmedIsInvoiced
  BY DEF ConfirmInv, MustBeInvoiced, Invoicing, ConfirmedIsInvoiced, Quiescent, Idle
<1>4. QED
  BY <1>1, <1>2, <1>3, AlwaysRunsOnly, PTL DEF Spec

-------------------------------------------------------------------------------
(***************************************************************************)
(* What a step does to the stay of a booking, and to one invoice.          *)
(***************************************************************************)
SameDates(b) ==
    /\ bookings'[b].checkIn = bookings[b].checkIn
    /\ bookings'[b].checkOut = bookings[b].checkOut

Redated(p, b) ==
    /\ UpdateWrite(p) /\ req[p].b = b
    /\ bookings'[b].checkIn = req[p].checkIn
    /\ bookings'[b].checkOut = req[p].checkOut

Extended(b) ==
    /\ job'.pc = "mark" /\ job'.cur = b
    /\ bookings'[b].checkIn = bookings[b].checkIn
    /\ bookings[b].checkOut < bookings'[b].checkOut
    /\ bookings'[b].checkIn < bookings'[b].checkOut

LEMMA DatesAfter ==
    ASSUME TypeOK, SerialInv, [Next]_vars, NEW b \in Booking, Exists(b), Exists(b)'
    PROVE  /\ history[b] \subseteq history'[b]
           /\ SameDates(b) \/ Extended(b) \/ \E p \in Request : Redated(p, b)
<1>0. bookings[b] \in Row /\ bookings[b].checkIn \in Int /\ bookings[b].checkOut \in Int
  BY ExistingIsRow DEF Row, Day
<1>1. CASE UNCHANGED <<bookings, history>>
  BY <1>1 DEF SameDates
<1>2. ASSUME NEW p \in Request, Continue(p), ~UNCHANGED <<bookings, history>>
      PROVE  /\ history[b] \subseteq history'[b]
             /\ SameDates(b) \/ Redated(p, b)
  <2>1. CASE InsertBooking(p) \/ GuestInsert(p) \/ CommitCorporate(p)
    <3>1. \A ids \in SUBSET Unborn : b \notin ids
      BY DEF Unborn, Exists, Status
    <3>2. ASSUME NEW ids \in SUBSET Unborn, NEW rows, NEW new \in [ids -> rows],
                 InsertRows(new)
          PROVE  bookings'[b] = bookings[b] /\ history'[b] = history[b]
      BY <3>1, <3>2 DEF InsertRows
    <3>3. CASE CommitCorporate(p)
      BY <1>2, <3>2, <3>3 DEF CommitCorporate, SameDates
    <3>4. CASE InsertBooking(p) \/ GuestInsert(p)
      <4>1. PICK x \in Unborn, r \in req[p].draft : InsertRows([y \in {x} |-> r])
        BY <1>2, <3>4 DEF InsertBooking, GuestInsert
      <4>2. {x} \in SUBSET Unborn /\ [y \in {x} |-> r] \in [{x} -> {r}]
        OBVIOUS
      <4>3. QED
        BY <3>2, <4>1, <4>2 DEF SameDates
    <3>5. QED
      BY <2>1, <3>3, <3>4
  <2>2. CASE UpdateEntityStatus(p) \/ UpdateStatusTx(p)
    <3>1. SetStatus(req[p].b, req[p].to)
      BY <2>2 DEF UpdateEntityStatus, UpdateStatusTx
    <3>2. QED
      BY <1>0, <3>1 DEF SetStatus, TypeOK, Row, SameDates
  <2>3. CASE UpdateWrite(p)
    <3>1. SetDates(req[p].b, req[p].checkIn, req[p].checkOut) /\ UNCHANGED history
      BY <2>3 DEF UpdateWrite
    <3>2. CASE req[p].b = b
      BY <1>0, <2>3, <3>1, <3>2 DEF SetDates, TypeOK, Row, Redated
    <3>3. CASE req[p].b # b
      BY <3>1, <3>3 DEF SetDates, TypeOK, SameDates
    <3>4. QED
      BY <3>2, <3>3
  <2>4. CASE DeleteRow(p)
    BY <2>4 DEF DeleteRow, TypeOK, Exists, Deleted, Status, SameDates
  <2>5. QED
    BY <1>2, <2>1, <2>2, <2>3, <2>4 DEF Continue, CheckDuplicate,
       InitiateWorkflow, CloseInstance, GenerateCorporateInvoice, GenerateForBooking,
       GenerateInvoiceNumber, InsertInvoice, UpdateCheckRoom, RecalculateRoomCharge,
       UpdateRoomLineItem
<1>3. CASE JobStep \/ ClearOverstayed
  <2>1. CASE ExtendCheckout
    <3>1. UNCHANGED history /\ job \in Job
      BY <2>1 DEF ExtendCheckout, TypeOK
    <3>2. PICK x \in job.refs : \/ UNCHANGED bookings
                                \/ /\ bookings' = [bookings EXCEPT ![x].checkOut = job.day]
                                   /\ job' = [job EXCEPT !.pc = "mark", !.cur = x]
                                   /\ ~(bookings[x].checkIn >= job.day)
      BY <2>1 DEF ExtendCheckout, SerialInv, JobFresh, Exists, Status
    <3>3. CASE UNCHANGED bookings
      BY <3>1, <3>3 DEF SameDates
    <3>4. CASE x = b /\ ~UNCHANGED bookings
      <4>1. job' = [job EXCEPT !.pc = "mark", !.cur = b]
            /\ bookings' = [bookings EXCEPT ![b].checkOut = job.day]
            /\ ~(bookings[b].checkIn >= job.day)
        BY <3>2, <3>4
      <4>2. job.day \in Int /\ job'.pc = "mark" /\ job'.cur = b
        BY <3>1, <4>1 DEF Job, Day
      <4>3. bookings[b].checkOut < job.day
        BY <2>1, <3>4 DEF ExtendCheckout, SerialInv, JobFresh
      <4>4. QED
        BY <1>0, <3>1, <4>1, <4>2, <4>3 DEF TypeOK, Row, Extended
    <3>5. CASE x # b
      BY <3>1, <3>2, <3>5 DEF TypeOK, SameDates
    <3>6. QED
      BY <3>3, <3>4, <3>5
  <2>2. CASE MarkOverstayed \/ ClearOverstayed
    BY <1>0, <2>2 DEF MarkOverstayed, ClearOverstayed, TypeOK, Row, SameDates
  <2>3. QED
    BY <1>1, <1>3, <2>1, <2>2 DEF JobStep, JobScan, UpdateDueDate
<1>4. QED
  BY <1>1, <1>2, <1>3, StartOthers DEF Next, Tick, Crash, vars

\* An invoice is new, or one that was there with a new room line or due date.
LEMMA InvoiceAfter ==
    ASSUME TypeOK, [Next]_vars, NEW j \in invoices'
    PROVE  \/ \E p \in Request : InsertInvoice(p) /\ j = Issued(p)
           \/ \E i \in invoices :
                /\ i.booking = j.booking
                /\ \/ j.nights = i.nights
                   \/ \E p \in Request : UpdateRoomLineItem(p) /\ req[p].b = j.booking
                /\ j.due = i.due \/ UpdateDueDate \/ \E p \in Request : UpdateRoomLineItem(p)
                /\ \A p \in Request : UpdateRoomLineItem(p) /\ req[p].b = j.booking =>
                       j.nights = req[p].nights
                /\ UpdateDueDate => IF j.booking = job.cur THEN j.due = job.day
                                    ELSE j.due = i.due
<1>1. CASE \E p \in Request : UpdateRoomLineItem(p)
  <2>1. PICK p \in Request : UpdateRoomLineItem(p)
    BY <1>1
  <2>2. PICK i \in invoices : j = IF i.booking = req[p].b
                    THEN [i EXCEPT !.nights = req[p].nights, !.due = today] ELSE i
    BY <2>1 DEF UpdateRoomLineItem
  <2>3. i \in Invoice
    BY DEF TypeOK
  <2>4. /\ j.booking = i.booking
        /\ IF i.booking = req[p].b THEN j.nights = req[p].nights ELSE j.nights = i.nights
    BY <2>2, <2>3 DEF Invoice
  <2>5. ASSUME NEW q \in Request, UpdateRoomLineItem(q), req[q].b = j.booking
        PROVE  j.nights = req[q].nights
    <3>1. PICK k \in invoices : j = IF k.booking = req[q].b
                    THEN [k EXCEPT !.nights = req[q].nights, !.due = today] ELSE k
      BY <2>5 DEF UpdateRoomLineItem
    <3>2. k \in Invoice
      BY DEF TypeOK
    <3>3. QED
      BY <2>5, <3>1, <3>2 DEF Invoice
  <2>6. UpdateDueDate => IF j.booking = job.cur THEN j.due = job.day ELSE j.due = i.due
    <3>1. UpdateDueDate => UNCHANGED req
      BY DEF UpdateDueDate
    <3>2. req'[p].pc = "idle" /\ req[p].pc = "room_line"
      BY <2>1 DEF UpdateRoomLineItem, Return, Goto, At, TypeOK, Idle
    <3>3. QED
      BY <3>1, <3>2
  <2>7. QED
    BY <1>1, <2>1, <2>4, <2>5, <2>6
<1>2. CASE UpdateDueDate /\ ~\E p \in Request : UpdateRoomLineItem(p)
  <2>1. PICK i \in invoices : j = IF i.booking = job.cur
                    THEN [i EXCEPT !.due = job.day] ELSE i
    BY <1>2 DEF UpdateDueDate
  <2>2. i \in Invoice
    BY DEF TypeOK
  <2>3. /\ j.booking = i.booking /\ j.nights = i.nights
        /\ IF i.booking = job.cur THEN j.due = job.day ELSE j.due = i.due
    BY <2>1, <2>2 DEF Invoice
  <2>4. QED
    BY <1>2, <2>3
<1>3. CASE /\ ~UpdateDueDate /\ ~\E p \in Request : UpdateRoomLineItem(p)
  <2>1. \/ UNCHANGED invoices
        \/ \E p \in Request : InsertInvoice(p) /\ invoices' = invoices \cup {Issued(p)}
    <3>1. ASSUME NEW p \in Request, InsertInvoice(p)
          PROVE  UNCHANGED invoices \/ invoices' = invoices \cup {Issued(p)}
      BY <3>1 DEF InsertInvoice, Issued
    <3>2. ASSUME NEW p \in Request, Continue(p), ~InsertInvoice(p)
          PROVE  UNCHANGED invoices
      BY <1>3, <3>2 DEF Continue, CheckDuplicate, InsertBooking, GuestInsert,
           InitiateWorkflow, CloseInstance, UpdateEntityStatus, CommitCorporate,
           GenerateCorporateInvoice, UpdateStatusTx, GenerateForBooking,
           GenerateInvoiceNumber, UpdateCheckRoom, UpdateWrite,
           RecalculateRoomCharge, DeleteRow
    <3>3. CASE JobStep \/ ClearOverstayed \/ Tick \/ Crash \/ UNCHANGED vars
      BY <1>3, <3>3 DEF JobStep, JobScan, ExtendCheckout, MarkOverstayed, ClearOverstayed,
                        Tick, Crash, vars
    <3>4. QED
      BY <3>1, <3>2, <3>3, StartOthers DEF Next
  <2>2. QED
    BY <1>3, <2>1
<1>4. QED
  BY <1>1, <1>2, <1>3

-------------------------------------------------------------------------------
(***************************************************************************)
(* The room charge: the nights of the stay, unless the job has made the    *)
(* stay longer or a request is about to recalculate.                       *)
(***************************************************************************)
Ordered == \A b \in Booking : Exists(b) => bookings[b].checkIn < bookings[b].checkOut

Recharging(b) ==
    \E p \in Request : req[p].b = b /\ req[p].pc \in {"recalculate", "room_line"}

Extending(b) == job.pc = "mark" /\ job.cur = b

Charges(i, b) ==
    \/ i.nights[b] = Stay(b)
    \/ i.nights[b] < Stay(b) /\ ("overstayed" \in history[b] \/ Extending(b))
    \/ Recharging(b)

ChargeInv ==
    \A i \in invoices, b \in Booking : i.booking = b /\ Exists(b) => Charges(i, b)

LEMMA OrderedStep ==
    ASSUME TypeOK, SerialInv, Ordered, [Next]_vars
    PROVE  Ordered'
<1> SUFFICES ASSUME NEW b \in Booking, Exists(b)'
             PROVE  bookings'[b].checkIn < bookings'[b].checkOut
  BY DEF Ordered
<1>1. CASE Exists(b)
  <2>1. CASE SameDates(b)
    BY <1>1, <2>1 DEF SameDates, Ordered
  <2>2. CASE Extended(b)
    BY <2>2 DEF Extended
  <2>3. ASSUME NEW p \in Request, Redated(p, b)
        PROVE  bookings'[b].checkIn < bookings'[b].checkOut
    BY <2>3 DEF Redated, UpdateWrite, At, SerialInv, Fresh
  <2>4. QED
    BY <1>1, <2>1, <2>2, <2>3, DatesAfter
<1>2. CASE ~Exists(b)
  <2>1. PICK p \in Request : InsertBooking(p) \/ GuestInsert(p) \/ CommitCorporate(p)
    <3>1. ~UNCHANGED bookings
      BY <1>2 DEF Exists
    <3>2. ASSUME JobStep \/ ClearOverstayed PROVE FALSE
      BY <1>2, <3>1, <3>2 DEF JobStep, JobScan, ExtendCheckout, MarkOverstayed, UpdateDueDate,
                              ClearOverstayed, TypeOK, Exists
    <3>3. PICK p \in Request : Continue(p)
      BY <3>1, <3>2, StartOthers DEF Next, Tick, Crash, vars
    <3>4. ~UpdateEntityStatus(p) /\ ~UpdateStatusTx(p) /\ ~UpdateWrite(p)
      BY <1>2 DEF UpdateEntityStatus, UpdateStatusTx, UpdateWrite, SetStatus, SetDates, TypeOK,
                  Exists
    <3>5. ~DeleteRow(p)
      BY <1>2 DEF DeleteRow, TypeOK, Exists, Deleted, Status
    <3>6. QED
      BY <3>1, <3>3, <3>4, <3>5 DEF Continue, CheckDuplicate,
       InitiateWorkflow, CloseInstance, GenerateCorporateInvoice, GenerateForBooking,
       GenerateInvoiceNumber, InsertInvoice, UpdateCheckRoom, RecalculateRoomCharge,
       UpdateRoomLineItem
  <2>2. bookings'[b] # bookings[b]
    BY <1>2 DEF Exists
  <2>3. bookings'[b] \in req[p].draft
    <3>1. CASE CommitCorporate(p)
      BY <2>2, <3>1 DEF CommitCorporate, InsertRows
    <3>2. CASE InsertBooking(p) \/ GuestInsert(p)
      BY <2>2, <3>2 DEF InsertBooking, GuestInsert, InsertRows
    <3>3. QED
      BY <2>1, <3>1, <3>2
  <2>4. QED
    BY <2>1, <2>3 DEF InsertBooking, GuestInsert, CommitCorporate, At, SerialInv, Fresh, Insertable
<1>3. QED
  BY <1>1, <1>2

LEMMA RechargingStep ==
    ASSUME Serial, "crash" \notin Handlers, TypeOK, SerialInv, [Next]_vars,
           NEW b \in Booking, Recharging(b), NEW j \in invoices', j.booking = b
    PROVE  Charges(j, b)'
<1>1. PICK p \in Request : req[p].b = b /\ req[p].pc \in {"recalculate", "room_line"}
  BY DEF Recharging
<1>2. CASE RecalculateRoomCharge(p)
  <2>1. Exists(b)
    BY <1>1, <1>2 DEF RecalculateRoomCharge, At, SerialInv, Fresh, Active, ActiveStatus, Exists,
                      Status
  <2>2. PICK nights : Goto(p, [req[p] EXCEPT !.pc = "room_line", !.nights = nights])
    BY <1>1, <1>2, <2>1 DEF RecalculateRoomCharge
  <2>3. req'[p].pc = "room_line" /\ req'[p].b = b
    BY <1>1, <2>2 DEF Goto, TypeOK, Local
  <2>4. QED
    BY <2>3 DEF Charges, Recharging
<1>3. CASE UpdateRoomLineItem(p)
  <2>1. j.nights = req[p].nights
    <3>1. ~InsertInvoice(p)
      BY <1>3 DEF UpdateRoomLineItem, InsertInvoice, At
    <3>2. \A q \in Request : InsertInvoice(q) => q = p
      BY <1>1, OnlyOne DEF InsertInvoice, At, Idle
    <3>3. QED
      BY <1>1, <1>3, <3>1, <3>2, InvoiceAfter
  <2>2. req[p].nights[b] = Stay(b) /\ UNCHANGED bookings
    BY <1>1, <1>3 DEF UpdateRoomLineItem, At, SerialInv, Fresh
  <2>3. QED
    BY <2>1, <2>2 DEF Charges, Stay
<1>4. CASE UNCHANGED req
  BY <1>1, <1>4 DEF Charges, Recharging
<1>5. QED
  BY <1>1, <1>2, <1>3, <1>4, RequestGoesOn
  DEF Continue, At, CheckDuplicate, InsertBooking, GuestInsert,
       InitiateWorkflow, CloseInstance, UpdateEntityStatus, CommitCorporate,
       GenerateCorporateInvoice, UpdateStatusTx, GenerateForBooking, GenerateInvoiceNumber,
       InsertInvoice, UpdateCheckRoom, UpdateWrite, DeleteRow

\* A new date asks for a new charge, unless it is the old one written back.
LEMMA RedatedRecharges ==
    ASSUME TypeOK, SerialInv, NEW p \in Request, NEW b \in Booking, Redated(p, b)
    PROVE  SameDates(b) \/ Recharging(b)'
<1>1. CASE req[p].dated
  <2>1. Goto(p, [Idle EXCEPT !.pc = "recalculate", !.b = b])
    BY <1>1 DEF Redated, UpdateWrite
  <2>2. req'[p].pc = "recalculate" /\ req'[p].b = b
    BY <2>1 DEF Goto, TypeOK, Idle
  <2>3. QED
    BY <2>2 DEF Recharging
<1>2. CASE ~req[p].dated
  BY <1>2 DEF Redated, UpdateWrite, At, SerialInv, Fresh, SameDates
<1>3. QED
  BY <1>1, <1>2

\* The job marks the booking that it has extended.
LEMMA ExtendingStep ==
    ASSUME Serial, "crash" \notin Handlers, TypeOK, SerialInv, [Next]_vars,
           NEW b \in Booking, Extending(b)
    PROVE  "overstayed" \in history'[b] \/ Extending(b)'
<1>1. MarkOverstayed \/ UNCHANGED job
  BY JobGoesOn DEF Extending, JobStep, JobScan, JobIdle, ExtendCheckout, UpdateDueDate
<1>2. MarkOverstayed => "overstayed" \in history'[b]
  BY DEF Extending, MarkOverstayed, TypeOK, SerialInv, JobFresh, Exists, Status
<1>3. QED
  BY <1>1, <1>2 DEF Extending

LEMMA ChargeStep ==
    ASSUME Serial, "crash" \notin Handlers, TypeOK, SerialInv, InvoicesSeparate, Ordered,
           ChargeInv, [Next]_vars
    PROVE  ChargeInv'
<1> SUFFICES ASSUME NEW j \in invoices', NEW b \in Booking, j.booking = b, Exists(b)'
             PROVE  Charges(j, b)'
  BY DEF ChargeInv
<1>1. CASE Recharging(b)
  BY <1>1, RechargingStep
<1>2. ASSUME NEW p \in Request, InsertInvoice(p), j = Issued(p)
      PROVE  Charges(j, b)'
  <2>1. req[p].b = b /\ j.nights = req[p].nights /\ UNCHANGED bookings
    BY <1>2 DEF Issued, InsertInvoice
  <2>2. req[p].nights[b] = Stay(b)
    BY <1>2, <2>1, ConstantsAssumption DEF InsertInvoice, At, SerialInv, Fresh
  <2>3. QED
    BY <2>1, <2>2 DEF Charges, Stay
<1>3. ASSUME ~Recharging(b), NEW i \in invoices, i.booking = b, j.nights = i.nights
      PROVE  Charges(j, b)'
  <2>1. Exists(b) /\ i \in Invoice
    BY <1>3, ConstantsAssumption DEF InvoicesSeparate, TypeOK
  <2>2. /\ i.nights[b] \in Nat /\ bookings[b].checkIn \in Int /\ bookings[b].checkOut \in Int
        /\ bookings[b].checkIn < bookings[b].checkOut
        /\ Stay(b) = bookings[b].checkOut - bookings[b].checkIn
    <3>1. bookings[b].checkIn \in Int /\ bookings[b].checkOut \in Int
      BY <2>1, ExistingIsRow DEF Row, Day
    <3>2. bookings[b].checkIn < bookings[b].checkOut
      BY <2>1 DEF Ordered
    <3>3. QED
      BY <2>1, <3>1, <3>2 DEF Invoice, Stay, Nights
  <2>3. Charges(i, b)
    BY <1>3, <2>1 DEF ChargeInv
  <2>4. CASE SameDates(b)
    <3>1. Stay(b)' = Stay(b)
      BY <2>4 DEF SameDates, Stay
    <3>2. history[b] \subseteq history'[b]
      BY <2>1, DatesAfter
    <3>3. QED
      BY <1>3, <2>3, <3>1, <3>2, ExtendingStep DEF Charges
  <2>5. CASE Extended(b)
    <3>1. bookings'[b].checkOut \in Int
      BY StepTypeOK, ExistingIsRow DEF TypeOK, Row, Day, Exists, Status, Unused, Deleted
    <3>2. Stay(b)' = bookings'[b].checkOut - bookings'[b].checkIn /\ Stay(b) < Stay(b)'
      BY <2>2, <2>5, <3>1 DEF Extended, Stay, Nights
    <3>3. i.nights[b] <= Stay(b)
      BY <1>3, <2>2, <2>3 DEF Charges
    <3>4. j.nights[b] < Stay(b)'
      BY <1>3, <2>2, <2>5, <3>1, <3>2, <3>3 DEF Extended
    <3>5. QED
      BY <2>5, <3>4 DEF Charges, Extended, Extending
  <2>6. QED
    BY <2>1, <2>4, <2>5, DatesAfter, RedatedRecharges DEF Charges
<1>4. CASE ~Recharging(b)
  <2>1. \A p \in Request : ~(UpdateRoomLineItem(p) /\ req[p].b = b)
    BY <1>4 DEF Recharging, UpdateRoomLineItem, At
  <2>2. QED
    BY <1>2, <1>3, <1>4, <2>1, InvoiceAfter
<1>5. QED
  BY <1>1, <1>4

\* Once no handler is at work an invoice charges the nights of its booking,
\* fewer only for a guest whom the job kept: Update recalculates whenever a
\* date was given and writes back the old dates otherwise.  A crash between
\* the dates and the charge is the one thing left out.
THEOREM RoomChargeAlwaysMatches ==
    ASSUME Serial, "crash" \notin Handlers
    PROVE  Spec => []RoomChargeMatchesStay
<1>1. Init => BillingInv /\ Ordered /\ ChargeInv
  BY InitBills DEF Init, Ordered, ChargeInv, Exists, Status, Unused
<1>2. TypeOK /\ SerialInv /\ BillingInv /\ Ordered /\ ChargeInv /\ [Next]_vars
        => BillingInv' /\ Ordered' /\ ChargeInv'
  BY NextBills, OrderedStep, ChargeStep DEF BillingInv
<1>3. ChargeInv => RoomChargeMatchesStay
  BY DEF ChargeInv, Charges, Recharging, Extending, RoomChargeMatchesStay, Quiescent, Idle,
         JobIdle, Stay
<1>4. QED
  BY <1>1, <1>2, <1>3, AlwaysSerial, PTL DEF Spec

-------------------------------------------------------------------------------
(***************************************************************************)
(* The due date follows the check-out, behind the job at most.             *)
(***************************************************************************)
DueInv ==
    \A i \in invoices, b \in Booking : i.booking = b /\ Exists(b) =>
        \/ i.due = bookings[b].checkOut
        \/ job.cur = b /\ job.pc \in {"mark", "due"}

LEMMA DueStep ==
    ASSUME Serial, Handlers \cap {"update", "crash"} = {}, TypeOK, SerialInv, RunsOnly,
           InvoicesSeparate, DueInv, [Next]_vars
    PROVE  DueInv'
<1> SUFFICES ASSUME NEW j \in invoices', NEW b \in Booking, j.booking = b, Exists(b)'
             PROVE  \/ j.due = bookings'[b].checkOut
                    \/ job'.cur = b /\ job'.pc \in {"mark", "due"}
  BY DEF DueInv
<1>0. \A p \in Request : ~UpdateRoomLineItem(p) /\ ~UpdateWrite(p)
  BY DEF RunsOnly, UpdateRoomLineItem, UpdateWrite, At
<1>1. ASSUME NEW p \in Request, InsertInvoice(p), j = Issued(p)
      PROVE  j.due = bookings'[b].checkOut
  <2>1. req[p].b = b /\ j.due = req[p].due /\ UNCHANGED bookings
    BY <1>1 DEF Issued, InsertInvoice
  <2>2. req[p].due = bookings[b].checkOut
    BY <1>1, <2>1, ConstantsAssumption DEF InsertInvoice, At, SerialInv, Fresh
  <2>3. QED
    BY <2>1, <2>2
<1>2. ASSUME NEW i \in invoices, i.booking = b, j.due = i.due \/ UpdateDueDate,
             UpdateDueDate => IF b = job.cur THEN j.due = job.day ELSE j.due = i.due
      PROVE  \/ j.due = bookings'[b].checkOut
             \/ job'.cur = b /\ job'.pc \in {"mark", "due"}
  <2>1. Exists(b)
    BY <1>2, ConstantsAssumption DEF InvoicesSeparate
  <2>2. CASE job.cur = b /\ job.pc \in {"mark", "due"}
    <3>1. CASE MarkOverstayed
      BY <2>2, <3>1 DEF MarkOverstayed, TypeOK, Job
    <3>2. CASE UpdateDueDate
      BY <1>2, <2>2, <3>2 DEF UpdateDueDate, SerialInv, JobFresh
    <3>3. ~JobScan /\ ~ExtendCheckout /\ job.pc # "idle"
      <4>1. job # JobIdle
        BY <2>2 DEF JobIdle
      <4>2. QED
        BY <2>2, <4>1 DEF JobScan, ExtendCheckout
    <3>4. CASE UNCHANGED job
      BY <2>2, <3>4
    <3>5. QED
      BY <3>1, <3>2, <3>3, <3>4, JobGoesOn DEF JobStep
  <2>3. CASE i.due = bookings[b].checkOut /\ ~(job.cur = b /\ job.pc \in {"mark", "due"})
    <3>1. j.due = i.due
      BY <1>2, <2>3 DEF UpdateDueDate
    <3>2. CASE SameDates(b)
      BY <2>3, <3>1, <3>2 DEF SameDates
    <3>3. CASE Extended(b)
      BY <3>3 DEF Extended
    <3>4. QED
      BY <1>0, <2>1, <3>2, <3>3, DatesAfter DEF Redated
  <2>4. QED
    BY <1>2, <2>1, <2>2, <2>3 DEF DueInv
<1>3. QED
  BY <1>0, <1>1, <1>2, InvoiceAfter

\* Once no handler is at work the invoice of a booking is due on the day the
\* guest leaves, the extensions of the job included.  Left out are Update,
\* which makes an invoice due on the day it recalculates, and crashes.
THEOREM AlwaysDueAtCheckOut ==
    ASSUME Serial, Handlers \cap {"update", "crash"} = {}
    PROVE  Spec => []DueAtCheckOut
<1>1. Init => BillingInv /\ DueInv
  BY InitBills DEF Init, DueInv
<1>2. TypeOK /\ SerialInv /\ RunsOnly /\ BillingInv /\ DueInv /\ [Next]_vars
        => BillingInv' /\ DueInv'
  BY NextBills, DueStep DEF BillingInv
<1>3. DueInv => DueAtCheckOut
  BY DEF DueInv, DueAtCheckOut, Quiescent, JobIdle
<1>4. QED
  BY <1>1, <1>2, <1>3, AlwaysRunsOnly, PTL DEF Spec
===============================================================================
