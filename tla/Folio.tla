-------------------------------- MODULE Folio --------------------------------
(***************************************************************************)
(* What a guest consumes and how it reaches the invoice: orders and their  *)
(* items, the invoice lines written for them, the totals of the invoices   *)
(* and their statuses.                                                     *)
(*                                                                         *)
(* An order and its invoice lines are written by separate transactions.    *)
(* A transaction that edits an invoice writes its line and then sets the   *)
(* total to the sum of the lines, under READ COMMITTED: the sum sees what  *)
(* was committed when the statement started and the transaction's own      *)
(* line, while the write waits for the row.  Such a transaction is two     *)
(* steps: one that sums, one that commits line and total.                  *)
(*                                                                         *)
(* Prices are left out.  A total is represented by the charges it sums.    *)
(***************************************************************************)
EXTENDS Integers, FiniteSets

CONSTANTS
    Booking,       \* individual bookings and the bookings of one company
    CompanyGuest,  \* the company's among them
    Company,       \* the company: its guests share one invoice
    NoBooking,     \* the booking_id of a walk-in order
    Order, NoOrder,
    Item, NoItem,  \* identities that rows can get, never reused
    Request,
    MaxNights,     \* bound: nights of a stay
    Handlers       \* the handlers an instance runs

ASSUME FolioAssumption ==
    /\ CompanyGuest \subseteq Booking
    /\ Company \notin Booking /\ NoBooking \notin Booking
    /\ NoOrder \notin Order /\ NoItem \notin Item
    /\ MaxNights \in Nat \ {0}
    /\ Handlers \subseteq {"order", "walk_in", "add", "remove", "close", "room",
                           "status"}

VARIABLES
    stage,     \* how far the stay of every booking is
    orders,    \* the orders table
    items,     \* the order_items table: the order every item was inserted for
    removed,   \* the items whose row was deleted
    invoices,  \* the invoice of every account, with its lines
    owed,      \* items ordered when their invoice was there (history)
    exact,     \* accounts whose last edit overlapped no other (history)
    issued,    \* accounts whose invoice was issued at some time (history)
    req        \* the local state of every request in flight

vars == <<stage, orders, items, removed, invoices, owed, exact, issued, req>>

-------------------------------------------------------------------------------
(***************************************************************************)
(* Rows.                                                                   *)
(***************************************************************************)
\* A confirmed stay is one that orders can be placed on, checked in or not.
Stage == {"pending", "confirmed", "left"}

InvoiceStatus == {"draft", "issued", "paid", "overdue", "cancelled"}

ValidInvoiceTransitions ==
    { <<"draft", "issued">>,   <<"draft", "cancelled">>,
      <<"issued", "paid">>,    <<"issued", "overdue">>, <<"issued", "cancelled">>,
      <<"overdue", "paid">>,   <<"overdue", "cancelled">> }

\* An account is what an invoice is for: a booking, or the company.
Account == (Booking \ CompanyGuest) \cup {Company}
AccountOf(b) == IF b \in CompanyGuest THEN Company ELSE b

Unplaced == [status |-> "none", booking |-> NoBooking]
OrderRow == [status : {"open", "closed"}, booking : Booking \cup {NoBooking}]

Placed(o) == orders[o] # Unplaced
Inserted(i) == items[i] # NoOrder
Fresh == {i \in Item : ~Inserted(i)}
ItemsOf(o) == {i \in Item \ removed : items[i] = o}
BookingOf(i) == orders[items[i]].booking

\* The nights of the room line, and how many lines every item has.
Charges == [nights : Nat, lines : [Item -> Nat]]
RoomOnly(n) == [nights |-> n, lines |-> [i \in Item |-> 0]]

\* total is the charges that subtotal, tax and total are the sum of.
NoInvoice == [status |-> "none", charges |-> RoomOnly(0), total |-> RoomOnly(0)]
Invoice == [status : InvoiceStatus, charges : Charges, total : Charges]
HasInvoice(a) == invoices[a] # NoInvoice

NewInvoice(n) ==
    [status |-> "draft", charges |-> RoomOnly(n), total |-> RoomOnly(n)]

CreateInvoice(a) ==
    /\ \E n \in 1 .. MaxNights : invoices' = [invoices EXCEPT ![a] = NewInvoice(n)]
    /\ exact' = exact \cup {a}
    /\ UNCHANGED issued

-------------------------------------------------------------------------------
(***************************************************************************)
(* Requests.  pc is the next statement; the other fields are what the      *)
(* handler has read or computed so far.                                    *)
(***************************************************************************)
EditStep == {"append_commit", "remove_commit", "room_commit"}

Step == {"idle", "generate", "insert_order", "read_order", "find_invoice",
         "append", "delete_item", "remove_line", "invoice_status"} \cup EditStep

Idle == [pc |-> "idle", booking |-> NoBooking, order |-> NoOrder, bill |-> {},
         account |-> Company, item |-> NoItem, nights |-> 0,
         total |-> RoomOnly(0), alone |-> TRUE, to |-> "draft"]

At(p, pc) == req[p].pc = pc
Starts(p) == req[p] = Idle
Goto(p, local) == req' = [req EXCEPT ![p] = local]
Return(p) == Goto(p, Idle)

\* The transactions on a's invoice that have summed and not committed.
Editing(a) == {p \in Request : req[p].pc \in EditStep /\ req[p].account = a}

\* The transaction with these locals sums charges; open ones are overlapped.
BeginEdit(p, local, charges) ==
    LET others == Editing(local.account)
    IN  req' = [q \in Request |->
                   IF q = p
                   THEN [local EXCEPT !.total = charges, !.alone = (others = {})]
                   ELSE [req[q] EXCEPT !.alone = @ /\ q \notin others]]

\* p commits the charges it changed and the total it computed before.
CommitEdit(p, charges) ==
    LET a == req[p].account
    IN  /\ invoices' = [invoices EXCEPT ![a].charges = charges,
                                        ![a].total = req[p].total]
        /\ exact' = IF req[p].alone THEN exact \cup {a} ELSE exact \ {a}

-------------------------------------------------------------------------------
(***************************************************************************)
(* The stay, as far as orders and invoices see it: BookingService confirms *)
(* a booking and then generates its invoice, the approval of a guest's     *)
(* booking generates none, a company is invoiced when it books.            *)
(***************************************************************************)
SetStage(b, from, to) ==
    /\ stage[b] \in from
    /\ stage' = [stage EXCEPT ![b] = to]

ConfirmBooking(p) ==
    /\ Starts(p)
    /\ \E b \in Booking :
         /\ SetStage(b, {"pending"}, "confirmed")
         /\ IF b \in CompanyGuest THEN UNCHANGED req
            ELSE Goto(p, [Idle EXCEPT !.pc = "generate", !.booking = b])
    /\ UNCHANGED <<orders, items, removed, invoices, owed, exact, issued>>

\* An invoice that got its number first makes the insert fail.
GenerateForBooking(p) ==
    /\ At(p, "generate")
    /\ \/ /\ ~HasInvoice(req[p].booking)
          /\ CreateInvoice(req[p].booking)
       \/ UNCHANGED <<invoices, exact, issued>>
    /\ Return(p)
    /\ UNCHANGED <<stage, orders, items, removed, owed>>

GenerateCorporateInvoice ==
    /\ CompanyGuest # {}
    /\ ~HasInvoice(Company)
    /\ CreateInvoice(Company)
    /\ UNCHANGED <<stage, orders, items, removed, owed, req>>

\* The approval of a guest's booking; check-out or cancellation.
MoveStay(b) ==
    /\ \/ b \notin CompanyGuest /\ SetStage(b, {"pending"}, "confirmed")
       \/ SetStage(b, {"pending", "confirmed"}, "left")
    /\ UNCHANGED <<orders, items, removed, invoices, owed, exact, issued, req>>

-------------------------------------------------------------------------------
(***************************************************************************)
(* OrderService.PlaceOrder, PlaceWalkInOrder and AddItems: the order or    *)
(* the items are committed first; appendToInvoice then looks for the       *)
(* invoice and writes one line for every item, each in a transaction of    *)
(* its own.  PlaceOrder bills the items that the order has when it is read *)
(* back, AddItems those it inserted.                                       *)
(***************************************************************************)
InsertOrderRow(o, b) ==
    /\ ~Placed(o)
    /\ orders' = [orders EXCEPT ![o] = [status |-> "open", booking |-> b]]

\* The items are owed when the invoice they belong on is there already.
InsertItems(o, b, new) ==
    /\ items' = [i \in Item |-> IF i \in new THEN o ELSE items[i]]
    /\ owed' = IF b # NoBooking /\ HasInvoice(AccountOf(b)) THEN owed \cup new
               ELSE owed

PlaceOrder(p) ==
    /\ Starts(p) /\ "order" \in Handlers
    /\ \E b \in Booking :
         /\ stage[b] = "confirmed"
         /\ Goto(p, [Idle EXCEPT !.pc = "insert_order", !.booking = b])
    /\ UNCHANGED <<stage, orders, items, removed, invoices, owed, exact, issued>>

\* A request that finds no identity left is refused.
InsertOrder(p) ==
    /\ At(p, "insert_order")
    /\ \/ \E o \in Order, new \in (SUBSET Fresh) \ {{}} :
            /\ InsertOrderRow(o, req[p].booking)
            /\ InsertItems(o, req[p].booking, new)
            /\ Goto(p, [req[p] EXCEPT !.pc = "read_order", !.order = o])
       \/ /\ Fresh = {} \/ \A o \in Order : Placed(o)
          /\ Return(p)
          /\ UNCHANGED <<orders, items, owed>>
    /\ UNCHANGED <<stage, removed, invoices, exact, issued>>

\* Create reads the order back after its commit, with whatever it has by then.
ReadOrder(p) ==
    /\ At(p, "read_order")
    /\ IF ItemsOf(req[p].order) = {} THEN Return(p)
       ELSE Goto(p, [req[p] EXCEPT !.pc = "find_invoice",
                                   !.bill = ItemsOf(req[p].order)])
    /\ UNCHANGED <<stage, orders, items, removed, invoices, owed, exact, issued>>

PlaceWalkInOrder ==
    /\ "walk_in" \in Handlers
    /\ \E o \in Order, new \in (SUBSET Fresh) \ {{}} :
         /\ InsertOrderRow(o, NoBooking)
         /\ InsertItems(o, NoBooking, new)
    /\ UNCHANGED <<stage, removed, invoices, exact, issued, req>>

\* Neither the order's status nor the stage of the stay is looked at.
AddItems(p) ==
    /\ Starts(p) /\ "add" \in Handlers
    /\ \E o \in Order, new \in (SUBSET Fresh) \ {{}} :
         /\ Placed(o)
         /\ InsertItems(o, orders[o].booking, new)
         /\ IF orders[o].booking = NoBooking THEN UNCHANGED req
            ELSE Goto(p, [Idle EXCEPT !.pc = "find_invoice", !.order = o,
                              !.booking = orders[o].booking, !.bill = new])
    /\ UNCHANGED <<stage, orders, removed, invoices, exact, issued>>

\* Mistake: the invoice of a company's guest is looked up by booking.
FindInvoiceByBooking(p) ==
    /\ At(p, "find_invoice")
    /\ LET a == req[p].booking
       IN  IF a \in Account /\ HasInvoice(a)
           THEN Goto(p, [req[p] EXCEPT !.pc = "append", !.account = a])
           ELSE Return(p)
    /\ UNCHANGED <<stage, orders, items, removed, invoices, owed, exact, issued>>

\* Mistake: any guest's items go to the company that has an invoice.
FindInvoiceOfCompany(p) ==
    /\ At(p, "find_invoice")
    /\ LET a == IF HasInvoice(Company) THEN Company ELSE AccountOf(req[p].booking)
       IN  IF HasInvoice(a)
           THEN Goto(p, [req[p] EXCEPT !.pc = "append", !.account = a])
           ELSE Return(p)
    /\ UNCHANGED <<stage, orders, items, removed, invoices, owed, exact, issued>>

\* appendToInvoice returns silently when there is no invoice yet.
FindInvoice(p) ==
    /\ At(p, "find_invoice")
    /\ LET a == AccountOf(req[p].booking)
       IN  IF HasInvoice(a)
           THEN Goto(p, [req[p] EXCEPT !.pc = "append", !.account = a])
           ELSE Return(p)
    /\ UNCHANGED <<stage, orders, items, removed, invoices, owed, exact, issued>>

WithLine(i, charges) == [charges EXCEPT !.lines[i] = @ + 1]

\* After an item, the next one.
NextItem(local, i) ==
    IF local.bill = {i} THEN Idle
    ELSE [local EXCEPT !.pc = "append", !.item = NoItem, !.total = RoomOnly(0),
                       !.alone = TRUE, !.bill = @ \ {i}]

\* Mistake: the total is summed before the line is inserted.
AppendAfterSum(p) ==
    /\ At(p, "append")
    /\ \E i \in req[p].bill :
         IF i \in removed THEN Goto(p, NextItem(req[p], i))
         ELSE BeginEdit(p, [req[p] EXCEPT !.pc = "append_commit", !.item = i],
                        invoices[req[p].account].charges)
    /\ UNCHANGED <<stage, orders, items, removed, invoices, owed, exact, issued>>

\* The foreign key refuses a line for an item that was removed meanwhile.
AppendOrderLineItem(p) ==
    /\ At(p, "append")
    /\ \E i \in req[p].bill :
         IF i \in removed THEN Goto(p, NextItem(req[p], i))
         ELSE BeginEdit(p, [req[p] EXCEPT !.pc = "append_commit", !.item = i],
                        WithLine(i, invoices[req[p].account].charges))
    /\ UNCHANGED <<stage, orders, items, removed, invoices, owed, exact, issued>>

CommitLine(p) ==
    /\ At(p, "append_commit")
    /\ CommitEdit(p, WithLine(req[p].item, invoices[req[p].account].charges))
    /\ Goto(p, NextItem(req[p], req[p].item))
    /\ UNCHANGED <<stage, orders, items, removed, owed, issued>>

-------------------------------------------------------------------------------
(***************************************************************************)
(* OrderService.RemoveItem: the order is read as open, the item's row is   *)
(* deleted, and then the line that refers to it is looked for.             *)
(***************************************************************************)
RemoveItem(p) ==
    /\ Starts(p) /\ "remove" \in Handlers
    /\ \E o \in Order :
         /\ Placed(o) /\ orders[o].status = "open"
         /\ \E i \in ItemsOf(o) :
              Goto(p, [Idle EXCEPT !.pc = "delete_item", !.order = o, !.item = i,
                                   !.booking = orders[o].booking])
    /\ UNCHANGED <<stage, orders, items, removed, invoices, owed, exact, issued>>

\* A line being appended for the item holds its row until that commits.
DeleteItem(p) ==
    /\ At(p, "delete_item")
    /\ \A q \in Request : ~(At(q, "append_commit") /\ req[q].item = req[p].item)
    /\ removed' = removed \cup {req[p].item}
    /\ IF req[p].booking = NoBooking THEN Return(p)
       ELSE Goto(p, [req[p] EXCEPT !.pc = "remove_line"])
    /\ UNCHANGED <<stage, orders, items, invoices, owed, exact, issued>>

\* Deleting the row of an item sets order_item_id of its lines to NULL.
WithoutLines(i, charges) ==
    IF i \in removed THEN charges ELSE [charges EXCEPT !.lines[i] = 0]

\* Mistake: the invoice is taken to be there.
RemoveLineUnchecked(p) ==
    /\ At(p, "remove_line")
    /\ LET a == req[p].booking
       IN  IF a \in Account
           THEN BeginEdit(p, [req[p] EXCEPT !.pc = "remove_commit", !.account = a],
                          WithoutLines(req[p].item, invoices[a].charges))
           ELSE Return(p)
    /\ UNCHANGED <<stage, orders, items, removed, invoices, owed, exact, issued>>

\* The invoice is looked up by booking: a company's is not found.
RemoveOrderLineItem(p) ==
    /\ At(p, "remove_line")
    /\ LET a == req[p].booking
       IN  IF a \in Account /\ HasInvoice(a)
           THEN BeginEdit(p, [req[p] EXCEPT !.pc = "remove_commit", !.account = a],
                          WithoutLines(req[p].item, invoices[a].charges))
           ELSE Return(p)
    /\ UNCHANGED <<stage, orders, items, removed, invoices, owed, exact, issued>>

CommitRemoval(p) ==
    /\ At(p, "remove_commit")
    /\ CommitEdit(p, WithoutLines(req[p].item, invoices[req[p].account].charges))
    /\ Return(p)
    /\ UNCHANGED <<stage, orders, items, removed, owed, issued>>

\* One statement closes every open order.
CloseOrdersForDay ==
    /\ "close" \in Handlers
    /\ orders' = [o \in Order |->
                     IF Placed(o) THEN [orders[o] EXCEPT !.status = "closed"]
                     ELSE orders[o]]
    /\ UNCHANGED <<stage, items, removed, invoices, owed, exact, issued, req>>

-------------------------------------------------------------------------------
(***************************************************************************)
(* InvoiceService.RecalculateRoomCharge, run when the dates of a stay were *)
(* edited, and InvoiceService.UpdateStatus.                                *)
(***************************************************************************)
WithNights(n, charges) == [charges EXCEPT !.nights = n]

\* The room line's row admits one transaction at a time.
RecalculateRoomCharge(p) ==
    /\ Starts(p) /\ "room" \in Handlers
    /\ \E b \in Booking \ CompanyGuest, n \in 1 .. MaxNights :
         /\ stage[b] # "left"
         /\ HasInvoice(b)
         /\ \A q \in Editing(b) : ~At(q, "room_commit")
         /\ BeginEdit(p, [Idle EXCEPT !.pc = "room_commit", !.account = b, !.nights = n],
                      WithNights(n, invoices[b].charges))
    /\ UNCHANGED <<stage, orders, items, removed, invoices, owed, exact, issued>>

CommitRoom(p) ==
    /\ At(p, "room_commit")
    /\ CommitEdit(p, WithNights(req[p].nights, invoices[req[p].account].charges))
    /\ Return(p)
    /\ UNCHANGED <<stage, orders, items, removed, owed, issued>>

\* Mistake: any status is accepted for an invoice that is not closed.
UpdateInvoiceStatusUnchecked(p) ==
    /\ Starts(p) /\ "status" \in Handlers
    /\ \E a \in Account, s \in InvoiceStatus :
         /\ invoices[a].status \in {"draft", "issued", "overdue"}
         /\ Goto(p, [Idle EXCEPT !.pc = "invoice_status", !.account = a, !.to = s])
    /\ UNCHANGED <<stage, orders, items, removed, invoices, owed, exact, issued>>

UpdateInvoiceStatus(p) ==
    /\ Starts(p) /\ "status" \in Handlers
    /\ \E a \in Account, s \in InvoiceStatus :
         /\ <<invoices[a].status, s>> \in ValidInvoiceTransitions
         /\ Goto(p, [Idle EXCEPT !.pc = "invoice_status", !.account = a, !.to = s])
    /\ UNCHANGED <<stage, orders, items, removed, invoices, owed, exact, issued>>

WriteInvoiceStatus(p) ==
    /\ At(p, "invoice_status")
    /\ LET a == req[p].account
       IN  /\ invoices' = [invoices EXCEPT ![a].status = req[p].to]
           /\ issued' = IF req[p].to = "issued" THEN issued \cup {a} ELSE issued
    /\ Return(p)
    /\ UNCHANGED <<stage, orders, items, removed, owed, exact>>

-------------------------------------------------------------------------------
Init ==
    /\ stage = [b \in Booking |-> "pending"]
    /\ orders = [o \in Order |-> Unplaced]
    /\ items = [i \in Item |-> NoOrder]
    /\ removed = {}
    /\ invoices = [a \in Account |-> NoInvoice]
    /\ owed = {}
    /\ exact = {}
    /\ issued = {}
    /\ req = [p \in Request |-> Idle]

RequestStep(p) ==
    \/ ConfirmBooking(p) \/ GenerateForBooking(p)
    \/ PlaceOrder(p) \/ InsertOrder(p) \/ ReadOrder(p) \/ AddItems(p)
    \/ FindInvoice(p) \/ AppendOrderLineItem(p) \/ CommitLine(p)
    \/ RemoveItem(p) \/ DeleteItem(p) \/ RemoveOrderLineItem(p) \/ CommitRemoval(p)
    \/ RecalculateRoomCharge(p) \/ CommitRoom(p)
    \/ UpdateInvoiceStatus(p) \/ WriteInvoiceStatus(p)

Next ==
    \/ \E p \in Request : RequestStep(p)
    \/ \E b \in Booking : MoveStay(b)
    \/ GenerateCorporateInvoice
    \/ PlaceWalkInOrder
    \/ CloseOrdersForDay

Spec == Init /\ [][Next]_vars

-------------------------------------------------------------------------------
(***************************************************************************)
(* What is true of the tables.                                             *)
(***************************************************************************)
Local ==
    [pc : Step, booking : Booking \cup {NoBooking}, order : Order \cup {NoOrder},
     bill : SUBSET Item, account : Account, item : Item \cup {NoItem},
     nights : Nat, total : Charges, alone : BOOLEAN, to : InvoiceStatus]

RequestTyped(r) ==
    /\ r.pc \in {"insert_order", "read_order", "find_invoice"} => r.booking \in Booking
    /\ r.pc = "generate" => r.booking \in Booking \ CompanyGuest
    /\ r.pc = "read_order" => r.order \in Order
    /\ r.pc \in EditStep \cup {"append", "invoice_status"} => HasInvoice(r.account)
    /\ r.pc \in {"delete_item", "remove_line"} => r.item \in Item /\ Inserted(r.item)
    /\ r.pc \in {"append_commit", "remove_commit"} => r.item \in Item

\* The type of the tables, and of what a request in flight works on: orders
\* and items that exist, and invoices, which are never deleted.
TypeOK ==
    /\ stage \in [Booking -> Stage]
    /\ orders \in [Order -> OrderRow \cup {Unplaced}]
    /\ items \in [Item -> Order \cup {NoOrder}]
    /\ removed \subseteq Item /\ owed \subseteq Item
    /\ \A i \in Item : Inserted(i) => Placed(items[i])
    /\ \A i \in removed \cup owed : Inserted(i)
    /\ invoices \in [Account -> Invoice \cup {NoInvoice}]
    /\ exact \subseteq Account /\ issued \subseteq Account
    /\ req \in [Request -> Local]
    /\ \A p \in Request : RequestTyped(req[p])

\* A request that still has to bill an item.
Bills(p, i) ==
    \/ i \in req[p].bill
    \/ At(p, "read_order") /\ req[p].order = items[i]
ToBeBilled(i) == \E p \in Request : Bills(p, i)

\* An item that was ordered when the guest's invoice was there has a line on
\* it once the request that ordered it is done, unless it was removed: no
\* interleaving of orders, additions, removals and edits loses a line.
OrderedIsBilled ==
    \A i \in owed \ removed :
        ToBeBilled(i) \/ invoices[AccountOf(BookingOf(i))].charges.lines[i] > 0

\* A line is only ever on the invoice of whoever pays for the booking that
\* the item was ordered for; what a walk-in orders is on no invoice.
BilledToTheGuest ==
    \A a \in Account, i \in Item :
        invoices[a].charges.lines[i] > 0 =>
            /\ Inserted(i)
            /\ BookingOf(i) # NoBooking
            /\ AccountOf(BookingOf(i)) = a

\* An invoice whose last edit overlapped no other has the totals of its
\* lines: whatever concurrent edits did to them is repaired by the next one.
TotalsSettle == \A a \in exact : invoices[a].total = invoices[a].charges

\* An invoice is paid or overdue only after it was issued, however stale the
\* status was that InvoiceService.UpdateStatus decided on.
IssuedBeforePaid ==
    \A a \in Account :
        invoices[a].status \in {"paid", "overdue"} => a \in issued
===============================================================================
