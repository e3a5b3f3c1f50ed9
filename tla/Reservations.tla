----------------------------- MODULE Reservations -----------------------------
(***************************************************************************)
(* The bookings table and everything that writes it: the staff and guest   *)
(* request handlers, the approval of a guest's booking, the nightly        *)
(* overdue-checkout job, and the invoice rows those handlers create and    *)
(* edit on the way.                                                        *)
(*                                                                         *)
(* A handler is a sequence of SQL statements or transactions, each of      *)
(* them atomic, with nothing held between two of them: no handler takes a  *)
(* row lock and none re-checks, when it writes, what it read.  A request   *)
(* in flight is therefore a process whose local state req[p] is what the   *)
(* handler has read so far and pc the statement it will execute next.  A   *)
(* request that is refused changes nothing and returns to Idle.            *)
(***************************************************************************)
EXTENDS BookingRules, FiniteSets

CONSTANTS
    Booking,      \* identities a booking row can get; a UUID is never reused
    Room, Client, Company,
    NoBooking, NoCompany,  \* the NULLs of booking_id and corporate_client_id
    Request,      \* the requests that may be in flight at the same time
    MaxDay,       \* bound: the calendar is 0..MaxDay
    MaxGuests,    \* bound: guests of one corporate request
    Handlers,     \* the handlers, jobs and failures that this instance runs
    Serial        \* TRUE: a handler starts only when no other is in flight

HandlerNames == {"individual", "corporate", "guest", "approval", "update",
                 "status", "cancel", "delete", "clear", "job", "crash"}

ASSUME ConstantsAssumption ==
    /\ NoBooking \notin Booking
    /\ NoCompany \notin Company
    /\ MaxDay \in Nat
    /\ MaxGuests \in Nat
    /\ Handlers \subseteq HandlerNames
    /\ Serial \in BOOLEAN

VARIABLES
    bookings,   \* the table: a row, or Unused or Deleted, for every identity
    history,    \* what each row has been: statuses it had, "overstayed"
    invoices,   \* the invoices table, the room lines joined to it
    approvals,  \* bookings whose approval workflow instance is open
    req,        \* the local state of every request in flight
    job,        \* the local state of the nightly job
    today

vars == <<bookings, history, invoices, approvals, req, job, today>>

-------------------------------------------------------------------------------
(***************************************************************************)
(* Rows.                                                                   *)
(***************************************************************************)
Day == 0 .. MaxDay

Unused  == [status |-> "unused"]
Deleted == [status |-> "deleted"]

Row == [status : Status, room : Room, client : Client,
        company : Company \cup {NoCompany},
        checkIn : Day, checkOut : Day, overstayed : BOOLEAN]

\* The row that every creating handler inserts.
NewRow(room, client, company, in, out) ==
    [status |-> "pending", room |-> room, client |-> client,
     company |-> company, checkIn |-> in, checkOut |-> out,
     overstayed |-> FALSE]

\* An invoice is numbered, belongs to one booking or to one company, and
\* charges nights[b] nights for the room of booking b (0: no line for b).
Invoice == [number : Nat, booking : Booking \cup {NoBooking},
            company : Company \cup {NoCompany},
            nights : [Booking -> Nat], due : Day \cup {-1}]

NoNights == [b \in Booking |-> 0]
NoDue == -1

-------------------------------------------------------------------------------
(***************************************************************************)
(* Queries of the repositories.                                            *)
(***************************************************************************)
Exists(b) == bookings[b].status \in Status
Active(b) == bookings[b].status \in ActiveStatus
Unborn == {b \in Booking : bookings[b].status = "unused"}

\* Mistake: pending bookings do not occupy their room.
IsRoomAvailableUnlessConfirmed(room, in, out, except) ==
    \A b \in Booking \ {except} :
        bookings[b].status \in {"confirmed", "checked_in"} /\ bookings[b].room = room
            => ~Overlaps(bookings[b].checkIn, bookings[b].checkOut, in, out)

\* Mistake: only stays that begin within the new one are in its way.
IsRoomAvailableByCheckIn(room, in, out, except) ==
    \A b \in Booking \ {except} :
        Active(b) /\ bookings[b].room = room
            => bookings[b].checkIn \notin in .. out - 1

IsRoomAvailable(room, in, out, except) ==
    \A b \in Booking \ {except} :
        Active(b) /\ bookings[b].room = room
            => ~Overlaps(bookings[b].checkIn, bookings[b].checkOut, in, out)

HasActiveBookingForClient(client, room, in, out) ==
    \E b \in Booking :
        /\ Active(b)
        /\ bookings[b].client = client
        /\ bookings[b].room = room
        /\ Overlaps(bookings[b].checkIn, bookings[b].checkOut, in, out)

\* Mistake: every active booking past its date counts as overdue.
FindOverdueActive ==
    {b \in Booking : Active(b) /\ bookings[b].checkOut < today}

FindOverdueCheckouts ==
    {b \in Booking : /\ bookings[b].status = "checked_in"
                     /\ bookings[b].checkOut < today}

InvoicesOf(b) == {i \in invoices : i.booking = b}
InvoicesOfCompany(c) == {i \in invoices : i.company = c}

-------------------------------------------------------------------------------
(***************************************************************************)
(* Statements that several handlers execute.                               *)
(***************************************************************************)

\* INSERT of the rows given by the function new from fresh identities.
InsertRows(new) ==
    /\ bookings' = [b \in Booking |->
                       IF b \in DOMAIN new THEN new[b] ELSE bookings[b]]
    /\ history' = [b \in Booking |->
                       IF b \in DOMAIN new THEN {"pending"} ELSE history[b]]

\* The bound on the table: an insert that finds too few identities is refused.
NoIdentityLeft(n) == Cardinality(Unborn) < n

\* UPDATE bookings SET status: unconditional, no row when b is gone.
SetStatus(b, to) ==
    IF Exists(b)
    THEN /\ bookings' = [bookings EXCEPT ![b].status = to]
         /\ history' = [history EXCEPT ![b] = @ \cup {to}]
    ELSE UNCHANGED <<bookings, history>>

\* UPDATE bookings SET check_in, check_out.
SetDates(b, in, out) ==
    IF Exists(b)
    THEN bookings' = [bookings EXCEPT ![b].checkIn = in, ![b].checkOut = out]
    ELSE UNCHANGED bookings

-------------------------------------------------------------------------------
(***************************************************************************)
(* Requests.  Idle is a free slot; a request keeps of what it read only    *)
(* what it still uses.                                                     *)
(***************************************************************************)
Step == {"idle", "duplicate", "insert", "guest_insert", "initiate",
         "corporate_commit", "corporate_invoice", "status_write", "generate",
         "invoice_number", "invoice_insert", "update_check", "update_write",
         "recalculate", "room_line", "delete", "close", "entity"}

Idle == [pc |-> "idle", b |-> NoBooking, to |-> "pending",
         company |-> NoCompany, draft |-> {}, batch |-> {},
         checkIn |-> 0, checkOut |-> 0, dated |-> FALSE,
         nights |-> NoNights, number |-> 0, due |-> NoDue]

JobIdle == [pc |-> "idle", refs |-> {}, cur |-> NoBooking, day |-> 0]

Quiescent == job = JobIdle /\ \A p \in Request : req[p] = Idle

MayStart(handler) == handler \in Handlers /\ (Serial => Quiescent)
Starts(p, handler) == req[p] = Idle /\ MayStart(handler)

At(p, pc) == req[p].pc = pc
Goto(p, local) == req' = [req EXCEPT ![p] = local]
Return(p) == Goto(p, Idle)

-------------------------------------------------------------------------------
(***************************************************************************)
(* BookingService.CreateIndividual: the room is checked, then the client,  *)
(* then the row is inserted, each by a statement of its own.               *)
(***************************************************************************)
CreateIndividual(p) ==
    /\ Starts(p, "individual")
    /\ \E room \in Room, client \in Client, in \in Day, out \in Day :
         /\ in < out
         /\ IsRoomAvailable(room, in, out, NoBooking)
         /\ Goto(p, [Idle EXCEPT !.pc = "duplicate",
                         !.draft = {NewRow(room, client, NoCompany, in, out)}])
    /\ UNCHANGED <<bookings, history, invoices, approvals, job, today>>

CheckDuplicate(p) ==
    /\ At(p, "duplicate")
    /\ IF \E r \in req[p].draft :
             HasActiveBookingForClient(r.client, r.room, r.checkIn, r.checkOut)
       THEN Return(p)
       ELSE Goto(p, [req[p] EXCEPT !.pc = "insert"])
    /\ UNCHANGED <<bookings, history, invoices, approvals, job, today>>

InsertBooking(p) ==
    /\ At(p, "insert")
    /\ \/ \E b \in Unborn, r \in req[p].draft : InsertRows([x \in {b} |-> r])
       \/ NoIdentityLeft(1) /\ UNCHANGED <<bookings, history>>
    /\ Return(p)
    /\ UNCHANGED <<invoices, approvals, job, today>>

(***************************************************************************)
(* GuestBookingService.Create: no duplicate check, and a goroutine that    *)
(* starts the approval workflow after the row is there.  The goroutine may *)
(* fail (no template, nobody with the role): the failure is only printed.  *)
(***************************************************************************)
GuestCreate(p) ==
    /\ Starts(p, "guest")
    /\ \E room \in Room, client \in Client, in \in Day, out \in Day :
         /\ in < out
         /\ IsRoomAvailable(room, in, out, NoBooking)
         /\ Goto(p, [Idle EXCEPT !.pc = "guest_insert",
                         !.draft = {NewRow(room, client, NoCompany, in, out)}])
    /\ UNCHANGED <<bookings, history, invoices, approvals, job, today>>

\* Mistake: the goroutine starts although the insert failed.
GuestInsertRegardless(p) ==
    /\ At(p, "guest_insert")
    /\ \/ \E b \in Unborn, r \in req[p].draft :
            /\ InsertRows([x \in {b} |-> r])
            /\ Goto(p, [Idle EXCEPT !.pc = "initiate", !.b = b])
       \/ /\ NoIdentityLeft(1)
          /\ Goto(p, [Idle EXCEPT !.pc = "initiate"])
          /\ UNCHANGED <<bookings, history>>
    /\ UNCHANGED <<invoices, approvals, job, today>>

GuestInsert(p) ==
    /\ At(p, "guest_insert")
    /\ \/ \E b \in Unborn, r \in req[p].draft :
            /\ InsertRows([x \in {b} |-> r])
            /\ Goto(p, [Idle EXCEPT !.pc = "initiate", !.b = b])
       \/ /\ NoIdentityLeft(1)
          /\ Return(p)
          /\ UNCHANGED <<bookings, history>>
    /\ UNCHANGED <<invoices, approvals, job, today>>

InitiateWorkflow(p) ==
    /\ At(p, "initiate")
    /\ \/ approvals' = approvals \cup {req[p].b}
       \/ UNCHANGED approvals
    /\ Return(p)
    /\ UNCHANGED <<bookings, history, invoices, job, today>>

(***************************************************************************)
(* WorkflowService.ProcessAction on the step that ends the instance: it    *)
(* refuses a closed instance, closes it, then writes the booking's status  *)
(* without looking at the status the booking has by then.                  *)
(***************************************************************************)
ProcessAction(p) ==
    /\ Starts(p, "approval")
    /\ \E b \in approvals, to \in {"confirmed", "cancelled"} :
         Goto(p, [Idle EXCEPT !.pc = "close", !.b = b, !.to = to])
    /\ UNCHANGED <<bookings, history, invoices, approvals, job, today>>

CloseInstance(p) ==
    /\ At(p, "close")
    /\ approvals' = approvals \ {req[p].b}
    /\ Goto(p, [req[p] EXCEPT !.pc = "entity"])
    /\ UNCHANGED <<bookings, history, invoices, job, today>>

UpdateEntityStatus(p) ==
    /\ At(p, "entity")
    /\ SetStatus(req[p].b, req[p].to)
    /\ Return(p)
    /\ UNCHANGED <<invoices, approvals, job, today>>

(***************************************************************************)
(* BookingService.CreateCorporate: the room of every guest is checked      *)
(* against the table, never against the other guests of the request; the   *)
(* rows are then inserted in one transaction, and the company's invoice is *)
(* generated afterwards.  (The checks of one request are read together.)   *)
(***************************************************************************)
GuestLists(company) ==
    LET guests == {NewRow(room, client, company, in, out) :
                       room \in Room, client \in Client, in \in Day, out \in Day}
        stays == {g \in guests : g.checkIn < g.checkOut}
    IN  {list \in SUBSET stays : Cardinality(list) \in 1 .. MaxGuests}

CreateCorporate(p) ==
    /\ Starts(p, "corporate")
    /\ \E company \in Company : \E list \in GuestLists(company) :
         /\ \A g \in list :
               IsRoomAvailable(g.room, g.checkIn, g.checkOut, NoBooking)
         /\ Goto(p, [Idle EXCEPT !.pc = "corporate_commit",
                                 !.company = company, !.draft = list])
    /\ UNCHANGED <<bookings, history, invoices, approvals, job, today>>

CommitCorporate(p) ==
    /\ At(p, "corporate_commit")
    /\ \/ \E ids \in SUBSET Unborn : \E new \in [ids -> req[p].draft] :
            /\ \A r \in req[p].draft : \E b \in ids : new[b] = r
            /\ Cardinality(ids) = Cardinality(req[p].draft)
            /\ InsertRows(new)
            /\ Goto(p, [Idle EXCEPT !.pc = "corporate_invoice",
                            !.company = req[p].company, !.batch = ids])
       \/ /\ NoIdentityLeft(Cardinality(req[p].draft))
          /\ Return(p)
          /\ UNCHANGED <<bookings, history>>
    /\ UNCHANGED <<invoices, approvals, job, today>>

\* A company that has an invoice already, of whatever booking, gets no other.
GenerateCorporateInvoice(p) ==
    /\ At(p, "corporate_invoice")
    /\ LET found == {b \in req[p].batch : Exists(b)}
       IN  IF InvoicesOfCompany(req[p].company) # {} \/ found = {}
           THEN Return(p)
           ELSE Goto(p, [req[p] EXCEPT
                    !.pc = "invoice_number",
                    !.nights = [b \in Booking |->
                        IF b \in found
                        THEN Nights(bookings[b].checkIn, bookings[b].checkOut)
                        ELSE 0]])
    /\ UNCHANGED <<bookings, history, invoices, approvals, job, today>>

-------------------------------------------------------------------------------
(***************************************************************************)
(* BookingService.UpdateStatus and GuestBookingService.Cancel: the         *)
(* transition is checked against the status read first; the write is       *)
(* unconditional.  Confirming a booking that no company pays for then      *)
(* generates its invoice; a failure there is only printed.                 *)
(***************************************************************************)
\* Mistake: the transition is not validated.
UpdateStatusUnchecked(p) ==
    /\ Starts(p, "status")
    /\ \E b \in Booking, to \in Status :
         /\ Exists(b)
         /\ Goto(p, [Idle EXCEPT !.pc = "status_write", !.b = b, !.to = to,
                                 !.company = bookings[b].company])
    /\ UNCHANGED <<bookings, history, invoices, approvals, job, today>>

UpdateStatus(p) ==
    /\ Starts(p, "status")
    /\ \E b \in Booking, to \in Status :
         /\ Exists(b)
         /\ CanTransition(bookings[b].status, to)
         /\ Goto(p, [Idle EXCEPT !.pc = "status_write", !.b = b, !.to = to,
                                 !.company = bookings[b].company])
    /\ UNCHANGED <<bookings, history, invoices, approvals, job, today>>

\* Mistake: a guest may cancel any booking that is still active.
GuestCancelActive(p) ==
    /\ Starts(p, "cancel")
    /\ \E b \in Booking :
         /\ Active(b)
         /\ Goto(p, [Idle EXCEPT !.pc = "status_write", !.b = b,
                                 !.to = "cancelled"])
    /\ UNCHANGED <<bookings, history, invoices, approvals, job, today>>

GuestCancel(p) ==
    /\ Starts(p, "cancel")
    /\ \E b \in Booking :
         /\ Exists(b)
         /\ CanTransition(bookings[b].status, "cancelled")
         /\ Goto(p, [Idle EXCEPT !.pc = "status_write", !.b = b,
                                 !.to = "cancelled"])
    /\ UNCHANGED <<bookings, history, invoices, approvals, job, today>>

\* Mistakes: the company's guests are invoiced too, or nobody else is.
NeedsInvoiceAlways(r) == r.to = "confirmed"
NeedsInvoiceInverted(r) == r.to = "confirmed" /\ r.company # NoCompany

NeedsInvoice(r) == r.to = "confirmed" /\ r.company = NoCompany

UpdateStatusTx(p) ==
    /\ At(p, "status_write")
    /\ SetStatus(req[p].b, req[p].to)
    /\ IF Exists(req[p].b) /\ NeedsInvoice(req[p])
       THEN Goto(p, [Idle EXCEPT !.pc = "generate", !.b = req[p].b])
       ELSE Return(p)
    /\ UNCHANGED <<invoices, approvals, job, today>>

GenerateForBooking(p) ==
    /\ At(p, "generate")
    /\ LET b == req[p].b
       IN  IF InvoicesOf(b) # {} \/ ~Exists(b)
           THEN Return(p)
           ELSE Goto(p, [req[p] EXCEPT
                    !.pc = "invoice_number",
                    !.nights = [NoNights EXCEPT ![b] =
                        Nights(bookings[b].checkIn, bookings[b].checkOut)],
                    !.due = bookings[b].checkOut])
    /\ UNCHANGED <<bookings, history, invoices, approvals, job, today>>

\* The number is the count of the invoices plus one.
GenerateInvoiceNumber(p) ==
    /\ At(p, "invoice_number")
    /\ Goto(p, [req[p] EXCEPT !.pc = "invoice_insert",
                              !.number = Cardinality(invoices) + 1])
    /\ UNCHANGED <<bookings, history, invoices, approvals, job, today>>

\* The insert fails, and the handler goes on, when the number or the booking
\* is taken (UNIQUE) or a booking it names is gone (foreign keys).
InsertInvoice(p) ==
    LET r == req[p]
        refused == \/ \E i \in invoices : i.number = r.number
                   \/ r.b # NoBooking /\ InvoicesOf(r.b) # {}
                   \/ r.b # NoBooking /\ ~Exists(r.b)
                   \/ \E b \in r.batch : r.nights[b] > 0 /\ ~Exists(b)
    IN  /\ At(p, "invoice_insert")
        /\ IF refused
           THEN UNCHANGED invoices
           ELSE invoices' = invoices \cup
                    {[number |-> r.number, booking |-> r.b,
                      company |-> r.company, nights |-> r.nights,
                      due |-> r.due]}
        /\ Return(p)
        /\ UNCHANGED <<bookings, history, approvals, job, today>>

-------------------------------------------------------------------------------
(***************************************************************************)
(* BookingService.Update: dates not given keep the value read first, and   *)
(* are written back.  The room charge follows when a date was given.       *)
(***************************************************************************)
Update(p) ==
    /\ Starts(p, "update")
    /\ \E b \in Booking, in \in Day, out \in Day, dated \in BOOLEAN :
         /\ Active(b)
         /\ in < out
         /\ ~dated => in = bookings[b].checkIn /\ out = bookings[b].checkOut
         /\ Goto(p, [Idle EXCEPT !.pc = "update_check", !.b = b,
                         !.checkIn = in, !.checkOut = out, !.dated = dated,
                         !.draft = {bookings[b]}])
    /\ UNCHANGED <<bookings, history, invoices, approvals, job, today>>

UpdateCheckRoom(p) ==
    /\ At(p, "update_check")
    /\ IF \A r \in req[p].draft :
             IsRoomAvailable(r.room, req[p].checkIn, req[p].checkOut, req[p].b)
       THEN Goto(p, [req[p] EXCEPT !.pc = "update_write", !.draft = {}])
       ELSE Return(p)
    /\ UNCHANGED <<bookings, history, invoices, approvals, job, today>>

\* Mistake: the room charge is left as it was.
UpdateWriteOnly(p) ==
    /\ At(p, "update_write")
    /\ SetDates(req[p].b, req[p].checkIn, req[p].checkOut)
    /\ Return(p)
    /\ UNCHANGED <<history, invoices, approvals, job, today>>

UpdateWrite(p) ==
    /\ At(p, "update_write")
    /\ SetDates(req[p].b, req[p].checkIn, req[p].checkOut)
    /\ IF req[p].dated
       THEN Goto(p, [Idle EXCEPT !.pc = "recalculate", !.b = req[p].b])
       ELSE Return(p)
    /\ UNCHANGED <<history, invoices, approvals, job, today>>

RecalculateRoomCharge(p) ==
    /\ At(p, "recalculate")
    /\ LET b == req[p].b
       IN  IF Exists(b)
           THEN Goto(p, [req[p] EXCEPT
                    !.pc = "room_line",
                    !.nights = [NoNights EXCEPT ![b] =
                        Nights(bookings[b].checkIn, bookings[b].checkOut)]])
           ELSE Return(p)
    /\ UNCHANGED <<bookings, history, invoices, approvals, job, today>>

\* Only the booking's own invoice is edited; its due date becomes today.
UpdateRoomLineItem(p) ==
    /\ At(p, "room_line")
    /\ invoices' = {IF i.booking = req[p].b
                    THEN [i EXCEPT !.nights = req[p].nights, !.due = today]
                    ELSE i : i \in invoices}
    /\ Return(p)
    /\ UNCHANGED <<bookings, history, approvals, job, today>>

-------------------------------------------------------------------------------
(***************************************************************************)
(* BookingService.Delete and ClearOverstayed.  The invoice of a booking    *)
(* keeps its row from being deleted (ON DELETE RESTRICT).                  *)
(***************************************************************************)
Delete(p) ==
    /\ Starts(p, "delete")
    /\ \E b \in Booking :
         /\ Exists(b)
         /\ bookings[b].status # "checked_in"
         /\ Goto(p, [Idle EXCEPT !.pc = "delete", !.b = b])
    /\ UNCHANGED <<bookings, history, invoices, approvals, job, today>>

DeleteRow(p) ==
    /\ At(p, "delete")
    /\ IF Exists(req[p].b) /\ InvoicesOf(req[p].b) = {}
       THEN bookings' = [bookings EXCEPT ![req[p].b] = Deleted]
       ELSE UNCHANGED bookings
    /\ Return(p)
    /\ UNCHANGED <<history, invoices, approvals, job, today>>

ClearOverstayed ==
    /\ MayStart("clear")
    /\ \E b \in Booking :
         /\ Exists(b)
         /\ bookings[b].overstayed
         /\ bookings' = [bookings EXCEPT ![b].overstayed = FALSE]
    /\ UNCHANGED <<history, invoices, approvals, req, job, today>>

-------------------------------------------------------------------------------
(***************************************************************************)
(* OverdueCheckoutJob.run: one query lists the overdue bookings, then each *)
(* is extended, marked, and its invoice's due date moved, by statements of *)
(* their own.  The job writes whatever the row has become since the list.  *)
(***************************************************************************)
JobScan ==
    /\ MayStart("job")
    /\ job = JobIdle
    /\ FindOverdueCheckouts # {}
    /\ job' = [JobIdle EXCEPT !.pc = "extend", !.refs = FindOverdueCheckouts,
                              !.day = today]
    /\ UNCHANGED <<bookings, history, invoices, approvals, req, today>>

JobNext(refs) ==
    job' = IF refs = {} THEN JobIdle
           ELSE [job EXCEPT !.pc = "extend", !.refs = refs, !.cur = NoBooking]

\* Mistake: the stay is extended to the night that has passed.
ExtendToYesterday ==
    /\ job.pc = "extend"
    /\ \E b \in job.refs :
         IF Exists(b) /\ bookings[b].checkIn >= job.day - 1
         THEN /\ JobNext(job.refs \ {b})
              /\ UNCHANGED bookings
         ELSE /\ IF Exists(b)
                 THEN bookings' = [bookings EXCEPT ![b].checkOut = job.day - 1]
                 ELSE UNCHANGED bookings
              /\ job' = [job EXCEPT !.pc = "mark", !.cur = b]
    /\ UNCHANGED <<history, invoices, approvals, req, today>>

\* CHECK (check_out > check_in) refuses an extension of a stay that starts
\* on the job's day or later: the job goes on with the next booking.
ExtendCheckout ==
    /\ job.pc = "extend"
    /\ \E b \in job.refs :
         IF Exists(b) /\ bookings[b].checkIn >= job.day
         THEN /\ JobNext(job.refs \ {b})
              /\ UNCHANGED bookings
         ELSE /\ IF Exists(b)
                 THEN bookings' = [bookings EXCEPT ![b].checkOut = job.day]
                 ELSE UNCHANGED bookings
              /\ job' = [job EXCEPT !.pc = "mark", !.cur = b]
    /\ UNCHANGED <<history, invoices, approvals, req, today>>

MarkOverstayed ==
    /\ job.pc = "mark"
    /\ IF Exists(job.cur)
       THEN /\ bookings' = [bookings EXCEPT ![job.cur].overstayed = TRUE]
            /\ history' = [history EXCEPT ![job.cur] = @ \cup {"overstayed"}]
       ELSE UNCHANGED <<bookings, history>>
    /\ job' = [job EXCEPT !.pc = "due"]
    /\ UNCHANGED <<invoices, approvals, req, today>>

\* Mistake: the invoice is left as it was.
SkipDueDate ==
    /\ job.pc = "due"
    /\ JobNext(job.refs \ {job.cur})
    /\ UNCHANGED <<bookings, history, invoices, approvals, req, today>>

UpdateDueDate ==
    /\ job.pc = "due"
    /\ invoices' = {IF i.booking = job.cur THEN [i EXCEPT !.due = job.day]
                    ELSE i : i \in invoices}
    /\ JobNext(job.refs \ {job.cur})
    /\ UNCHANGED <<bookings, history, approvals, req, today>>

-------------------------------------------------------------------------------
(***************************************************************************)
(* The environment: days pass, and the process may die between any two     *)
(* statements, losing every request in flight and the job.                 *)
(***************************************************************************)
Tick ==
    /\ today < MaxDay
    /\ today' = today + 1
    /\ UNCHANGED <<bookings, history, invoices, approvals, req, job>>

Crash ==
    /\ "crash" \in Handlers
    /\ ~Quiescent
    /\ req' = [p \in Request |-> Idle]
    /\ job' = JobIdle
    /\ UNCHANGED <<bookings, history, invoices, approvals, today>>

-------------------------------------------------------------------------------
Init ==
    /\ bookings = [b \in Booking |-> Unused]
    /\ history = [b \in Booking |-> {}]
    /\ invoices = {}
    /\ approvals = {}
    /\ req = [p \in Request |-> Idle]
    /\ job = JobIdle
    /\ today = 0

Start(p) ==
    \/ CreateIndividual(p) \/ GuestCreate(p) \/ CreateCorporate(p)
    \/ ProcessAction(p) \/ UpdateStatus(p) \/ GuestCancel(p)
    \/ Update(p) \/ Delete(p)

Continue(p) ==
    \/ CheckDuplicate(p) \/ InsertBooking(p)
    \/ GuestInsert(p) \/ InitiateWorkflow(p)
    \/ CloseInstance(p) \/ UpdateEntityStatus(p)
    \/ CommitCorporate(p) \/ GenerateCorporateInvoice(p)
    \/ UpdateStatusTx(p) \/ GenerateForBooking(p)
    \/ GenerateInvoiceNumber(p) \/ InsertInvoice(p)
    \/ UpdateCheckRoom(p) \/ UpdateWrite(p)
    \/ RecalculateRoomCharge(p) \/ UpdateRoomLineItem(p)
    \/ DeleteRow(p)

JobStep == JobScan \/ ExtendCheckout \/ MarkOverstayed \/ UpdateDueDate

Next ==
    \/ \E p \in Request : Start(p) \/ Continue(p)
    \/ ClearOverstayed
    \/ JobStep
    \/ Tick
    \/ Crash

Spec == Init /\ [][Next]_vars

(***************************************************************************)
(* The handlers that are running finish, and the job runs as long as it    *)
(* finds something: net/http serves every request to its end and a ticker  *)
(* starts the job again every day.  Nobody promises that a request starts. *)
(***************************************************************************)
Fairness ==
    /\ \A p \in Request : WF_vars(Continue(p))
    /\ WF_vars(JobStep)

FairSpec == Spec /\ Fairness

-------------------------------------------------------------------------------
(***************************************************************************)
(* Types.                                                                  *)
(***************************************************************************)
Local == [pc : Step, b : Booking \cup {NoBooking}, to : Status,
          company : Company \cup {NoCompany}, draft : SUBSET Row,
          batch : SUBSET Booking, checkIn : Day, checkOut : Day,
          dated : BOOLEAN, nights : [Booking -> Nat], number : Nat,
          due : Day \cup {NoDue}]

Job == [pc : {"idle", "extend", "mark", "due"}, refs : SUBSET Booking,
        cur : Booking \cup {NoBooking}, day : Day]

\* The steps of a request that act on the booking in req[p].b.
OnBooking == {"initiate", "status_write", "generate", "update_check",
              "update_write", "recalculate", "room_line", "delete", "close",
              "entity"}

\* Every variable keeps its type, in every interleaving of the handlers, and
\* what acts on a booking names one.
TypeOK ==
    /\ bookings \in [Booking -> Row \cup {Unused, Deleted}]
    /\ history \in [Booking -> SUBSET (Status \cup {"overstayed"})]
    /\ invoices \subseteq Invoice /\ IsFiniteSet(invoices)
    /\ approvals \subseteq Booking
    /\ req \in [Request -> Local]
    /\ \A p \in Request : req[p].pc \in OnBooking => req[p].b \in Booking
    /\ job \in Job
    /\ job.pc \in {"mark", "due"} => job.cur \in Booking
    /\ today \in Day

-------------------------------------------------------------------------------
(***************************************************************************)
(* What holds in every interleaving.                                       *)
(***************************************************************************)

\* However late a handler writes what it decided on, no stage of a stay is
\* skipped: a booking that is or was checked out had been checked in, one
\* checked in or marked overstayed had been confirmed before, and nothing
\* has a status that was not first pending (UpdateStatus, ProcessAction and
\* the nightly job all act on statuses read earlier).
StagesInOrder ==
    \A b \in Booking :
        /\ history[b] # {} => "pending" \in history[b]
        /\ "checked_in" \in history[b] => "confirmed" \in history[b]
        /\ {"checked_out", "overstayed"} \cap history[b] # {}
               => "checked_in" \in history[b]

\* The nights of a booking are charged on one invoice at most: its own or
\* its company's, never both and never twice (UpdateStatus skips the guests
\* of a company, GenerateForBooking and the UNIQUE constraint do the rest).
BilledAtMostOnce ==
    \A i, j \in invoices, b \in Booking :
        i.nights[b] > 0 /\ j.nights[b] > 0 => i = j

-------------------------------------------------------------------------------
(***************************************************************************)
(* What holds when the handlers run one at a time, and what the            *)
(* documentation promises of every run.                                    *)
(***************************************************************************)
SameTime(b, c) ==
    /\ Active(b) /\ Active(c)
    /\ bookings[b].room = bookings[c].room
    /\ Overlaps(bookings[b].checkIn, bookings[b].checkOut,
                bookings[c].checkIn, bookings[c].checkOut)

\* No room is promised to two active bookings for the same night.
NoDoubleBooking ==
    \A b, c \in Booking : b # c => ~SameTime(b, c)

\* Once no handler is at work, the only double bookings left are a guest
\* whom the nightly job kept in the room, and guests of one company booked
\* into one room: every other handler that gives a booking a room or dates
\* has checked them against all the others.
OverlapsExplained ==
    Quiescent =>
        \A b, c \in Booking : b # c /\ SameTime(b, c) =>
            \/ "overstayed" \in history[b] \cup history[c]
            \/ /\ bookings[b].company = bookings[c].company
               /\ bookings[b].company # NoCompany

\* A booking's status only ever moves along ValidBookingTransitions.
LegalTransitions ==
    [][\A b \in Booking :
          Exists(b) /\ Exists(b)' /\ bookings'[b].status # bookings[b].status
              => CanTransition(bookings[b].status, bookings'[b].status)]_vars

\* Once no handler is at work, every individual booking that was confirmed
\* has its invoice (UpdateStatus generates it after the status is written).
ConfirmedIsInvoiced ==
    Quiescent =>
        \A b \in Booking :
            /\ bookings[b].status \in {"confirmed", "checked_in", "checked_out"}
            /\ bookings[b].company = NoCompany
            => InvoicesOf(b) # {}

\* Once no handler is at work, an invoice charges the nights its booking is
\* for; only a guest kept by the nightly job may be charged for fewer.
RoomChargeMatchesStay ==
    Quiescent =>
        \A i \in invoices, b \in Booking :
            i.booking = b /\ Exists(b) =>
                LET stay == Nights(bookings[b].checkIn, bookings[b].checkOut)
                IN  \/ i.nights[b] = stay
                    \/ "overstayed" \in history[b] /\ i.nights[b] < stay

\* Once no handler is at work, the invoice of a booking is due on the day
\* the guest leaves, the nightly extensions included.
DueAtCheckOut ==
    Quiescent =>
        \A i \in invoices, b \in Booking :
            i.booking = b /\ Exists(b) => i.due = bookings[b].checkOut

\* What the nightly job rewrites is the check-out of a guest who is checked
\* in, and it only ever moves it to a later day.
JobOnlyExtends ==
    [][ExtendCheckout =>
          \A b \in Booking : bookings'[b] # bookings[b] =>
              /\ bookings[b].status = "checked_in"
              /\ bookings'[b].checkOut > bookings[b].checkOut]_vars

\* A guest who is checked in past the check-out date does not stay overdue:
\* the job, which keeps running, moves the date (or staff resolve it).
OverdueIsResolved ==
    \A b \in Booking :
        (b \in FindOverdueCheckouts) ~> (b \notin FindOverdueCheckouts)
===============================================================================
