----------------------------- MODULE FolioProofs -----------------------------
(***************************************************************************)
(* Theorems about the folio, for any number of bookings, orders, items and *)
(* requests in flight and any set of handlers.                             *)
(***************************************************************************)
EXTENDS Folio, TLAPS

-------------------------------------------------------------------------------
(***************************************************************************)
(* Charges, and the fields of the requests.                                *)
(***************************************************************************)
LEMMA ChargeTypes ==
    /\ \A n \in Nat : RoomOnly(n) \in Charges
    /\ \A c \in Charges :
         /\ \A i \in Item : WithLine(i, c) \in Charges
         /\ \A i \in Item : WithoutLines(i, c) \in Charges
         /\ \A n \in Nat : WithNights(n, c) \in Charges
BY DEF Charges, RoomOnly, WithLine, WithoutLines, WithNights

LEMMA AccountTypes ==
    /\ \A b \in Booking : AccountOf(b) \in Account
    /\ Booking \ CompanyGuest \subseteq Account
    /\ Company \in Account
BY DEF AccountOf, Account

LEMMA IdleTyped == Idle \in Local /\ RequestTyped(Idle)
BY ChargeTypes, AccountTypes
DEF Idle, Local, RequestTyped, Step, EditStep, InvoiceStatus

\* An invoice that is there has the type of one.
LEMMA InvoiceTyped ==
    ASSUME TypeOK, NEW a \in Account
    PROVE  /\ invoices[a].charges \in Charges /\ invoices[a].total \in Charges
           /\ HasInvoice(a) => invoices[a] \in Invoice
           /\ invoices[a].status \in InvoiceStatus => HasInvoice(a)
BY ChargeTypes DEF TypeOK, Invoice, NoInvoice, HasInvoice, InvoiceStatus

\* Rows that requests refer to stay: items inserted, invoices created.
RowsStay ==
    /\ \A i \in Item : Inserted(i) => Inserted(i)'
    /\ \A a \in Account : HasInvoice(a) => HasInvoice(a)'

RequestsOK ==
    /\ req \in [Request -> Local]
    /\ \A p \in Request : RequestTyped(req[p])

\* Storing well-typed locals keeps the requests well typed.
LEMMA GotoTyped ==
    ASSUME TypeOK, RowsStay, NEW p \in Request, NEW local \in Local,
           Goto(p, local), RequestTyped(local)'
    PROVE  RequestsOK'
<1>1. req' \in [Request -> Local]
  BY DEF TypeOK, Goto
<1>2. ASSUME NEW q \in Request PROVE RequestTyped(req[q])'
  <2>1. CASE q = p
    BY <2>1 DEF TypeOK, Goto, RequestTyped, Inserted, HasInvoice
  <2>2. CASE q # p
    <3>1. req'[q] = req[q] /\ req[q] \in Local /\ RequestTyped(req[q])
      BY <2>2 DEF TypeOK, Goto
    <3>2. QED
      BY <3>1 DEF RequestTyped, RowsStay, Local
  <2>3. QED
    BY <2>1, <2>2
<1>3. QED
  BY <1>1, <1>2 DEF RequestsOK

LEMMA ReturnTyped ==
    ASSUME TypeOK, RowsStay, NEW p \in Request, Return(p)
    PROVE  RequestsOK'
<1>1. RequestTyped(Idle)'
  BY DEF RequestTyped, Idle, EditStep
<1>2. QED
  BY <1>1, IdleTyped, GotoTyped DEF Return

\* So does beginning an edit of an invoice that is there.
LEMMA BeginEditTyped ==
    ASSUME TypeOK, RowsStay, NEW p \in Request, NEW local \in Local,
           NEW charges \in Charges, BeginEdit(p, local, charges),
           RequestTyped(local)'
    PROVE  RequestsOK'
<1>1. ASSUME NEW q \in Request PROVE req'[q] \in Local /\ RequestTyped(req[q])'
  <2>1. CASE q = p
    <3>1. PICK a \in BOOLEAN :
             req'[q] = [local EXCEPT !.total = charges, !.alone = a]
      BY <2>1 DEF BeginEdit, TypeOK
    <3>2. QED
      BY <3>1, <2>1 DEF Local, RequestTyped
  <2>2. CASE q # p
    <3>1. PICK a \in BOOLEAN : req'[q] = [req[q] EXCEPT !.alone = a]
      BY <2>2 DEF BeginEdit, TypeOK, Local
    <3>2. req[q] \in Local /\ RequestTyped(req[q])
      BY DEF TypeOK
    <3>3. QED
      BY <3>1, <3>2 DEF RequestTyped, RowsStay, Local
  <2>3. QED
    BY <2>1, <2>2
<1>2. DOMAIN req' = Request /\ req' = [q \in Request |-> req'[q]]
  BY DEF BeginEdit
<1>3. QED
  BY <1>1, <1>2 DEF RequestsOK

\* A commit leaves charges and a total on an invoice that is there.
LEMMA CommitEditTyped ==
    ASSUME TypeOK, NEW p \in Request, req[p].pc \in EditStep,
           NEW charges \in Charges, CommitEdit(p, charges)
    PROVE  /\ invoices' \in [Account -> Invoice \cup {NoInvoice}]
           /\ exact' \subseteq Account
           /\ \A a \in Account : HasInvoice(a) => HasInvoice(a)'
<1> DEFINE a == req[p].account
<1>1. a \in Account /\ req[p].total \in Charges /\ HasInvoice(a)
  BY DEF TypeOK, Local, RequestTyped
<1>2. invoices[a] \in Invoice
  BY <1>1, InvoiceTyped
<1>3. invoices'[a] \in Invoice /\ invoices'[a] # NoInvoice
  BY <1>1, <1>2 DEF CommitEdit, Invoice, NoInvoice, TypeOK, InvoiceStatus
<1>4. \A b \in Account \ {a} : invoices'[b] = invoices[b]
  BY <1>1 DEF CommitEdit, TypeOK
<1>5. invoices' \in [Account -> Invoice \cup {NoInvoice}]
  <2>1. DOMAIN invoices' = Account /\ invoices' = [b \in Account |-> invoices'[b]]
    BY DEF CommitEdit, TypeOK
  <2>2. QED
    BY <1>3, <1>4, <2>1 DEF TypeOK
<1>6. exact' \subseteq Account
  BY <1>1 DEF CommitEdit, TypeOK
<1>7. QED
  BY <1>3, <1>4, <1>5, <1>6 DEF HasInvoice

\* So does creating one.
LEMMA CreateInvoiceTyped ==
    ASSUME TypeOK, NEW a \in Account, CreateInvoice(a)
    PROVE  /\ invoices' \in [Account -> Invoice \cup {NoInvoice}]
           /\ exact' \subseteq Account
           /\ \A b \in Account : HasInvoice(b) => HasInvoice(b)'
<1>1. PICK n \in 1 .. MaxNights : invoices' = [invoices EXCEPT ![a] = NewInvoice(n)]
  BY DEF CreateInvoice
<1>2. NewInvoice(n) \in Invoice /\ NewInvoice(n) # NoInvoice
  <2>1. RoomOnly(n) \in Charges
    BY ChargeTypes, FolioAssumption
  <2>2. QED
    BY <2>1 DEF NewInvoice, Invoice, InvoiceStatus, NoInvoice
<1>3. QED
  BY <1>1, <1>2 DEF TypeOK, HasInvoice, CreateInvoice

-------------------------------------------------------------------------------
(***************************************************************************)
(* The type invariant: one lemma for the stay, the orders, the lines and   *)
(* the invoices each, one step for every action.                           *)
(***************************************************************************)
TablesOK ==
    /\ stage \in [Booking -> Stage]
    /\ orders \in [Order -> OrderRow \cup {Unplaced}]
    /\ items \in [Item -> Order \cup {NoOrder}]
    /\ removed \subseteq Item /\ owed \subseteq Item
    /\ \A i \in Item : Inserted(i) => Placed(items[i])
    /\ \A i \in removed \cup owed : Inserted(i)
    /\ invoices \in [Account -> Invoice \cup {NoInvoice}]
    /\ exact \subseteq Account /\ issued \subseteq Account

LEMMA TypeOKParts == TypeOK <=> TablesOK /\ RequestsOK
BY DEF TypeOK, TablesOK, RequestsOK

LEMMA TypeOKPartsNext == TypeOK' <=> TablesOK' /\ RequestsOK'
BY DEF TypeOK, TablesOK, RequestsOK

LEMMA InitTyped == Init => TypeOK
BY IdleTyped DEF Init, TypeOK, Stage, Inserted, Idle, RequestTyped, EditStep

\* Actions that change a request's locals only.
LEMMA LocalStep ==
    ASSUME TypeOK,
           UNCHANGED <<stage, orders, items, removed, invoices, owed, exact, issued>>
    PROVE  TablesOK' /\ RowsStay
BY DEF TypeOK, TablesOK, RowsStay, Inserted, HasInvoice, Placed

LEMMA StayTyped ==
    ASSUME TypeOK,
           \/ \E p \in Request : ConfirmBooking(p) \/ GenerateForBooking(p)
           \/ GenerateCorporateInvoice
           \/ \E b \in Booking : MoveStay(b)
    PROVE  TypeOK'
<1>1. ASSUME NEW p \in Request, ConfirmBooking(p) PROVE TypeOK'
  <2>1. PICK c \in Booking :
          /\ stage' = [stage EXCEPT ![c] = "confirmed"]
          /\ IF c \in CompanyGuest THEN UNCHANGED req
             ELSE Goto(p, [Idle EXCEPT !.pc = "generate", !.booking = c])
    BY <1>1 DEF ConfirmBooking, SetStage
  <2>2. TablesOK' /\ RowsStay
    BY <1>1, <2>1
    DEF ConfirmBooking, TypeOK, TablesOK, RowsStay, Stage, Inserted, HasInvoice, Placed
  <2>3. RequestsOK'
    <3>1. CASE c \in CompanyGuest
      BY <3>1, <2>1, <2>2, TypeOKParts DEF RequestsOK, RequestTyped, RowsStay, Local
    <3>2. CASE c \notin CompanyGuest
      <4>1. PICK local : local = [Idle EXCEPT !.pc = "generate", !.booking = c]
        OBVIOUS
      <4>2. local \in Local /\ RequestTyped(local)'
        BY <4>1, <3>2, IdleTyped DEF Idle, Local, Step, RequestTyped, EditStep
      <4>3. QED
        BY <4>1, <4>2, <3>2, <2>1, <2>2, GotoTyped
    <3>3. QED
      BY <3>1, <3>2
  <2>4. QED
    BY <2>2, <2>3, TypeOKPartsNext
<1>2. ASSUME NEW p \in Request, GenerateForBooking(p) PROVE TypeOK'
  <2>1. req[p].booking \in Account
    BY <1>2, AccountTypes DEF TypeOK, RequestTyped, GenerateForBooking, At
  <2>2. TablesOK' /\ RowsStay
    <3>1. CASE CreateInvoice(req[p].booking)
      BY <1>2, <2>1, <3>1, CreateInvoiceTyped
      DEF GenerateForBooking, CreateInvoice, TypeOK, TablesOK, RowsStay, Inserted, Placed
    <3>2. CASE UNCHANGED <<invoices, exact, issued>>
      BY <1>2, <3>2, LocalStep DEF GenerateForBooking
    <3>3. QED
      BY <1>2, <3>1, <3>2 DEF GenerateForBooking
  <2>3. QED
    BY <1>2, <2>2, ReturnTyped, TypeOKPartsNext DEF GenerateForBooking
<1>3. CASE GenerateCorporateInvoice
  <2>1. TablesOK' /\ RowsStay
    BY <1>3, AccountTypes, CreateInvoiceTyped
    DEF GenerateCorporateInvoice, CreateInvoice, TypeOK, TablesOK, RowsStay, Inserted, Placed
  <2>2. RequestsOK'
    BY <1>3, <2>1, TypeOKParts
    DEF GenerateCorporateInvoice, RequestsOK, RequestTyped, RowsStay, Local
  <2>3. QED
    BY <2>1, <2>2, TypeOKPartsNext
<1>4. ASSUME NEW b \in Booking, MoveStay(b) PROVE TypeOK'
  BY <1>4 DEF MoveStay, SetStage, TypeOK, Stage, Inserted, HasInvoice, Placed, RequestTyped
<1>5. QED
  BY <1>1, <1>2, <1>3, <1>4

\* The rows that an order or an addition inserts.
LEMMA InsertTyped ==
    ASSUME TypeOK, NEW o \in Order, NEW new \in SUBSET Fresh,
           NEW b \in Booking \cup {NoBooking}, InsertItems(o, b, new),
           \/ InsertOrderRow(o, b)
           \/ Placed(o) /\ UNCHANGED orders,
           UNCHANGED <<stage, removed, invoices, exact, issued>>
    PROVE  TablesOK' /\ RowsStay
<1>1. orders' \in [Order -> OrderRow \cup {Unplaced}] /\ Placed(o)'
  BY DEF InsertOrderRow, TypeOK, OrderRow, Placed, Unplaced
<1>2. \A q \in Order : Placed(q) => Placed(q)'
  BY <1>1 DEF InsertOrderRow, TypeOK, Placed
<1>3. /\ items' \in [Item -> Order \cup {NoOrder}]
      /\ \A i \in Item : items'[i] = (IF i \in new THEN o ELSE items[i])
      /\ owed' \subseteq owed \cup new
  BY DEF InsertItems, TypeOK
<1>4. new \subseteq Item
  BY DEF Fresh
<1>5. \A i \in Item : Inserted(i) => Inserted(i)'
  BY <1>3, FolioAssumption DEF Inserted
<1>6. \A i \in Item : Inserted(i)' => Placed(items[i])'
  BY <1>1, <1>2, <1>3 DEF TypeOK, Inserted, Placed
<1>7. \A i \in new : Inserted(i)'
  BY <1>3, <1>4, FolioAssumption DEF Inserted
<1>8. QED
  BY <1>1, <1>3, <1>4, <1>5, <1>6, <1>7 DEF TypeOK, TablesOK, RowsStay, HasInvoice

\* A booking that an order names.
LEMMA OrderBooking ==
    ASSUME TypeOK, NEW o \in Order, Placed(o)
    PROVE  orders[o].booking \in Booking \cup {NoBooking}
BY DEF TypeOK, Placed, OrderRow

LEMMA OrdersTyped ==
    ASSUME TypeOK,
           \/ \E p \in Request :
                 PlaceOrder(p) \/ InsertOrder(p) \/ ReadOrder(p) \/ AddItems(p)
           \/ PlaceWalkInOrder \/ CloseOrdersForDay
    PROVE  TypeOK'
<1>1. ASSUME NEW p \in Request, PlaceOrder(p) PROVE TypeOK'
  <2>1. PICK b \in Booking :
           Goto(p, [Idle EXCEPT !.pc = "insert_order", !.booking = b])
    BY <1>1 DEF PlaceOrder
  <2>2. PICK local : local = [Idle EXCEPT !.pc = "insert_order", !.booking = b]
    OBVIOUS
  <2>3. local \in Local /\ RequestTyped(local)'
    BY <2>2, IdleTyped DEF Idle, Local, Step, RequestTyped, EditStep
  <2>4. QED
    BY <1>1, <2>1, <2>2, <2>3, LocalStep, GotoTyped, TypeOKPartsNext DEF PlaceOrder
<1>2. ASSUME NEW p \in Request, InsertOrder(p) PROVE TypeOK'
  <2>0. req[p] \in Local /\ req[p].booking \in Booking
    BY <1>2 DEF InsertOrder, At, TypeOK, RequestTyped
  <2>1. CASE UNCHANGED <<orders, items, owed>> /\ Return(p)
    BY <1>2, <2>1, LocalStep, ReturnTyped, TypeOKPartsNext DEF InsertOrder
  <2>2. CASE \E o \in Order, new \in (SUBSET Fresh) \ {{}} :
               /\ InsertOrderRow(o, req[p].booking)
               /\ InsertItems(o, req[p].booking, new)
               /\ Goto(p, [req[p] EXCEPT !.pc = "read_order", !.order = o])
    <3>1. PICK o \in Order, new \in SUBSET Fresh :
               /\ InsertOrderRow(o, req[p].booking)
               /\ InsertItems(o, req[p].booking, new)
               /\ Goto(p, [req[p] EXCEPT !.pc = "read_order", !.order = o])
      BY <2>2
    <3>2. PICK local, b : /\ local = [req[p] EXCEPT !.pc = "read_order", !.order = o]
                          /\ b = req[p].booking
      OBVIOUS
    <3>3. local \in Local /\ RequestTyped(local)'
      BY <3>2, <2>0 DEF Local, Step, RequestTyped, EditStep
    <3>4. TablesOK' /\ RowsStay
      BY <1>2, <2>0, <3>1, <3>2, InsertTyped DEF InsertOrder
    <3>5. QED
      BY <3>1, <3>2, <3>3, <3>4, GotoTyped, TypeOKPartsNext
  <2>3. QED
    BY <1>2, <2>1, <2>2 DEF InsertOrder
<1>3. ASSUME NEW p \in Request, ReadOrder(p) PROVE TypeOK'
  <2>1. TablesOK' /\ RowsStay
    BY <1>3, LocalStep DEF ReadOrder
  <2>2. CASE Return(p)
    BY <2>1, <2>2, ReturnTyped, TypeOKPartsNext
  <2>3. CASE Goto(p, [req[p] EXCEPT !.pc = "find_invoice",
                                    !.bill = ItemsOf(req[p].order)])
    <3>1. PICK local : local = [req[p] EXCEPT !.pc = "find_invoice",
                                              !.bill = ItemsOf(req[p].order)]
      OBVIOUS
    <3>2. req[p] \in Local /\ req[p].booking \in Booking
      BY <1>3 DEF ReadOrder, At, TypeOK, RequestTyped
    <3>3. ItemsOf(req[p].order) \subseteq Item
      BY DEF ItemsOf
    <3>4. local \in Local /\ RequestTyped(local)'
      BY <3>1, <3>2, <3>3 DEF Local, Step, RequestTyped, EditStep
    <3>5. QED
      BY <2>1, <2>3, <3>1, <3>4, GotoTyped, TypeOKPartsNext
  <2>4. QED
    BY <1>3, <2>2, <2>3 DEF ReadOrder
<1>4. CASE PlaceWalkInOrder
  <2>1. PICK o \in Order, new \in SUBSET Fresh :
          InsertOrderRow(o, NoBooking) /\ InsertItems(o, NoBooking, new)
    BY <1>4 DEF PlaceWalkInOrder
  <2>2. TablesOK' /\ RowsStay
    BY <1>4, <2>1, InsertTyped DEF PlaceWalkInOrder
  <2>3. RequestsOK'
    BY <1>4, <2>2, TypeOKParts DEF PlaceWalkInOrder, RequestsOK, RequestTyped, RowsStay, Local
  <2>4. QED
    BY <2>2, <2>3, TypeOKPartsNext
<1>5. ASSUME NEW p \in Request, AddItems(p) PROVE TypeOK'
  <2>1. PICK o \in Order, new \in SUBSET Fresh :
          /\ Placed(o)
          /\ InsertItems(o, orders[o].booking, new)
          /\ IF orders[o].booking = NoBooking THEN UNCHANGED req
             ELSE Goto(p, [Idle EXCEPT !.pc = "find_invoice", !.order = o,
                               !.booking = orders[o].booking, !.bill = new])
    BY <1>5 DEF AddItems
  <2>2. PICK b \in Booking \cup {NoBooking} : b = orders[o].booking
    BY <2>1, OrderBooking
  <2>3. TablesOK' /\ RowsStay
    BY <1>5, <2>1, <2>2, InsertTyped DEF AddItems
  <2>4. CASE b = NoBooking
    BY <2>1, <2>2, <2>3, <2>4, TypeOKParts, TypeOKPartsNext
    DEF RequestsOK, RequestTyped, RowsStay, Local
  <2>5. CASE b # NoBooking
    <3>1. PICK local : local = [Idle EXCEPT !.pc = "find_invoice", !.order = o,
                                            !.booking = b, !.bill = new]
      OBVIOUS
    <3>2. new \subseteq Item
      BY DEF Fresh
    <3>3. local \in Local /\ RequestTyped(local)'
      BY <3>1, <3>2, <2>5, IdleTyped DEF Idle, Local, Step, RequestTyped, EditStep
    <3>4. QED
      BY <2>1, <2>2, <2>3, <2>5, <3>1, <3>3, GotoTyped, TypeOKPartsNext
  <2>6. QED
    BY <2>4, <2>5
<1>6. CASE CloseOrdersForDay
  <2>1. orders' \in [Order -> OrderRow \cup {Unplaced}] /\ \A o \in Order : Placed(o) => Placed(o)'
    <3>1. ASSUME NEW o \in Order
          PROVE  /\ orders'[o] \in OrderRow \cup {Unplaced}
                 /\ Placed(o) => Placed(o)'
      BY <1>6 DEF CloseOrdersForDay, TypeOK, OrderRow, Placed, Unplaced
    <3>2. QED
      BY <1>6, <3>1 DEF CloseOrdersForDay
  <2>2. TablesOK' /\ RowsStay
    BY <1>6, <2>1 DEF CloseOrdersForDay, TypeOK, TablesOK, RowsStay, Inserted, HasInvoice, Placed
  <2>3. RequestsOK'
    BY <1>6, <2>2, TypeOKParts DEF CloseOrdersForDay, RequestsOK, RequestTyped, RowsStay, Local
  <2>4. QED
    BY <2>2, <2>3, TypeOKPartsNext
<1>7. QED
  BY <1>1, <1>2, <1>3, <1>4, <1>5, <1>6

\* The request that goes on with its next item.
LEMMA NextItemTyped ==
    ASSUME TypeOK, RowsStay, NEW p \in Request, NEW i \in Item,
           req[p].pc \in {"append", "append_commit"}, Goto(p, NextItem(req[p], i))
    PROVE  RequestsOK'
<1>1. CASE req[p].bill = {i}
  BY <1>1, ReturnTyped DEF NextItem, Return
<1>2. CASE req[p].bill # {i}
  <2>1. PICK local : local = [req[p] EXCEPT !.pc = "append", !.item = NoItem,
                                  !.total = RoomOnly(0), !.alone = TRUE, !.bill = @ \ {i}]
    OBVIOUS
  <2>2. req[p] \in Local /\ HasInvoice(req[p].account)
    BY DEF TypeOK, RequestTyped, EditStep
  <2>3. local \in Local /\ RequestTyped(local)'
    BY <2>1, <2>2, ChargeTypes DEF Local, Step, RequestTyped, EditStep, RowsStay
  <2>4. QED
    BY <1>2, <2>1, <2>3, GotoTyped DEF NextItem
<1>3. QED
  BY <1>1, <1>2

\* Commits of an edit change no table but the invoices.
LEMMA CommitStep ==
    ASSUME TypeOK, NEW p \in Request, req[p].pc \in EditStep,
           NEW charges \in Charges, CommitEdit(p, charges),
           UNCHANGED <<stage, orders, items, removed, owed, issued>>
    PROVE  TablesOK' /\ RowsStay
BY CommitEditTyped DEF TypeOK, TablesOK, RowsStay, Inserted, Placed

LEMMA LinesTyped ==
    ASSUME TypeOK, NEW p \in Request,
           FindInvoice(p) \/ AppendOrderLineItem(p) \/ CommitLine(p)
               \/ RemoveItem(p) \/ DeleteItem(p) \/ RemoveOrderLineItem(p)
               \/ CommitRemoval(p)
    PROVE  TypeOK'
<1>0. req[p] \in Local /\ RequestTyped(req[p])
  BY DEF TypeOK
<1>1. CASE FindInvoice(p)
  <2>1. TablesOK' /\ RowsStay
    BY <1>1, LocalStep DEF FindInvoice
  <2>2. PICK a \in Account : a = AccountOf(req[p].booking)
    BY <1>0, <1>1, AccountTypes DEF FindInvoice, At, RequestTyped
  <2>3. CASE HasInvoice(a)
    <3>1. PICK local : local = [req[p] EXCEPT !.pc = "append", !.account = a]
      OBVIOUS
    <3>2. local \in Local /\ RequestTyped(local)'
      BY <1>0, <2>1, <2>3, <3>1 DEF Local, Step, RequestTyped, EditStep, RowsStay
    <3>3. QED
      BY <1>1, <2>1, <2>2, <2>3, <3>1, <3>2, GotoTyped, TypeOKPartsNext DEF FindInvoice
  <2>4. CASE ~HasInvoice(a)
    BY <1>1, <2>1, <2>2, <2>4, ReturnTyped, TypeOKPartsNext DEF FindInvoice
  <2>5. QED
    BY <2>3, <2>4
<1>2. CASE AppendOrderLineItem(p)
  <2>1. TablesOK' /\ RowsStay
    BY <1>2, LocalStep DEF AppendOrderLineItem
  <2>2. PICK i \in req[p].bill :
          IF i \in removed THEN Goto(p, NextItem(req[p], i))
          ELSE BeginEdit(p, [req[p] EXCEPT !.pc = "append_commit", !.item = i],
                         WithLine(i, invoices[req[p].account].charges))
    BY <1>2 DEF AppendOrderLineItem
  <2>3. i \in Item /\ req[p].pc = "append" /\ req[p].account \in Account
    BY <1>0, <1>2 DEF Local, AppendOrderLineItem, At
  <2>4. CASE i \in removed
    BY <2>1, <2>2, <2>3, <2>4, NextItemTyped, TypeOKPartsNext
  <2>5. CASE i \notin removed
    <3>1. PICK local, charges :
            /\ local = [req[p] EXCEPT !.pc = "append_commit", !.item = i]
            /\ charges = WithLine(i, invoices[req[p].account].charges)
      OBVIOUS
    <3>2. charges \in Charges
      BY <2>3, <3>1, InvoiceTyped, ChargeTypes
    <3>3. RequestTyped(local)' /\ local \in Local
      BY <1>0, <2>1, <2>3, <3>1 DEF Local, Step, RequestTyped, EditStep, RowsStay
    <3>4. QED
      BY <2>1, <2>2, <2>5, <3>1, <3>2, <3>3, BeginEditTyped, TypeOKPartsNext
  <2>6. QED
    BY <2>4, <2>5
<1>3. CASE CommitLine(p)
  <2>1. req[p].item \in Item /\ req[p].account \in Account /\ req[p].pc = "append_commit"
    BY <1>0, <1>3 DEF CommitLine, At, RequestTyped, Local
  <2>2. PICK charges \in Charges :
          charges = WithLine(req[p].item, invoices[req[p].account].charges)
    BY <2>1, InvoiceTyped, ChargeTypes
  <2>3. TablesOK' /\ RowsStay
    BY <1>3, <2>1, <2>2, CommitStep DEF CommitLine, EditStep
  <2>4. QED
    BY <1>3, <2>1, <2>3, NextItemTyped, TypeOKPartsNext DEF CommitLine
<1>4. CASE RemoveItem(p)
  <2>1. TablesOK' /\ RowsStay
    BY <1>4, LocalStep DEF RemoveItem
  <2>2. PICK o \in Order, i \in Item :
          /\ Placed(o) /\ i \in ItemsOf(o)
          /\ Goto(p, [Idle EXCEPT !.pc = "delete_item", !.order = o, !.item = i,
                                  !.booking = orders[o].booking])
    BY <1>4 DEF RemoveItem, ItemsOf
  <2>3. PICK local : local = [Idle EXCEPT !.pc = "delete_item", !.order = o, !.item = i,
                                  !.booking = orders[o].booking]
    OBVIOUS
  <2>4. i \in Item /\ Inserted(i)
    BY <2>2, FolioAssumption DEF ItemsOf, Inserted
  <2>5. local \in Local /\ RequestTyped(local)'
    BY <2>1, <2>2, <2>3, <2>4, OrderBooking, IdleTyped
    DEF Idle, Local, Step, RequestTyped, EditStep, RowsStay
  <2>6. QED
    BY <2>1, <2>2, <2>3, <2>5, GotoTyped, TypeOKPartsNext
<1>5. CASE DeleteItem(p)
  <2>1. req[p].item \in Item /\ Inserted(req[p].item)
    BY <1>0, <1>5 DEF DeleteItem, At, RequestTyped
  <2>2. TablesOK' /\ RowsStay
    BY <1>5, <2>1 DEF DeleteItem, TypeOK, TablesOK, RowsStay, Inserted, HasInvoice, Placed
  <2>3. CASE Return(p)
    BY <2>2, <2>3, ReturnTyped, TypeOKPartsNext
  <2>4. CASE Goto(p, [req[p] EXCEPT !.pc = "remove_line"])
    <3>1. PICK local : local = [req[p] EXCEPT !.pc = "remove_line"]
      OBVIOUS
    <3>2. local \in Local /\ RequestTyped(local)'
      BY <1>0, <2>1, <2>2, <3>1 DEF Local, Step, RequestTyped, EditStep, RowsStay
    <3>3. QED
      BY <2>2, <2>4, <3>1, <3>2, GotoTyped, TypeOKPartsNext
  <2>5. QED
    BY <1>5, <2>3, <2>4 DEF DeleteItem
<1>6. CASE RemoveOrderLineItem(p)
  <2>1. TablesOK' /\ RowsStay
    BY <1>6, LocalStep DEF RemoveOrderLineItem
  <2>2. CASE Return(p)
    BY <2>1, <2>2, ReturnTyped, TypeOKPartsNext
  <2>3. CASE ~Return(p)
    <3>1. PICK a, local, charges :
            /\ a = req[p].booking
            /\ local = [req[p] EXCEPT !.pc = "remove_commit", !.account = a]
            /\ charges = WithoutLines(req[p].item, invoices[a].charges)
      OBVIOUS
    <3>2. a \in Account /\ HasInvoice(a) /\ BeginEdit(p, local, charges)
      BY <1>6, <2>3, <3>1 DEF RemoveOrderLineItem
    <3>3. req[p].item \in Item
      BY <1>0, <1>6 DEF RemoveOrderLineItem, At, RequestTyped
    <3>4. charges \in Charges
      BY <3>1, <3>2, <3>3, InvoiceTyped, ChargeTypes
    <3>5. RequestTyped(local)' /\ local \in Local
      BY <1>0, <2>1, <3>1, <3>2, <3>3 DEF Local, Step, RequestTyped, EditStep, RowsStay
    <3>6. QED
      BY <2>1, <3>2, <3>4, <3>5, BeginEditTyped, TypeOKPartsNext
  <2>4. QED
    BY <2>2, <2>3
<1>7. CASE CommitRemoval(p)
  <2>1. req[p].item \in Item /\ req[p].account \in Account /\ req[p].pc = "remove_commit"
    BY <1>0, <1>7 DEF CommitRemoval, At, RequestTyped, Local
  <2>2. PICK charges \in Charges :
          charges = WithoutLines(req[p].item, invoices[req[p].account].charges)
    BY <2>1, InvoiceTyped, ChargeTypes
  <2>3. TablesOK' /\ RowsStay
    BY <1>7, <2>1, <2>2, CommitStep DEF CommitRemoval, EditStep
  <2>4. QED
    BY <1>7, <2>3, ReturnTyped, TypeOKPartsNext DEF CommitRemoval
<1>8. QED
  BY <1>1, <1>2, <1>3, <1>4, <1>5, <1>6, <1>7

LEMMA InvoicesTyped ==
    ASSUME TypeOK, NEW p \in Request,
           RecalculateRoomCharge(p) \/ CommitRoom(p) \/ UpdateInvoiceStatus(p)
               \/ WriteInvoiceStatus(p)
    PROVE  TypeOK'
<1>0. req[p] \in Local /\ RequestTyped(req[p])
  BY DEF TypeOK
<1>1. CASE RecalculateRoomCharge(p)
  <2>1. TablesOK' /\ RowsStay
    BY <1>1, LocalStep DEF RecalculateRoomCharge
  <2>2. PICK b \in Booking \ CompanyGuest, n \in 1 .. MaxNights :
          /\ HasInvoice(b)
          /\ BeginEdit(p, [Idle EXCEPT !.pc = "room_commit", !.account = b, !.nights = n],
                       WithNights(n, invoices[b].charges))
    BY <1>1 DEF RecalculateRoomCharge
  <2>3. b \in Account /\ n \in Nat
    BY AccountTypes, FolioAssumption
  <2>4. PICK local, charges :
          /\ local = [Idle EXCEPT !.pc = "room_commit", !.account = b, !.nights = n]
          /\ charges = WithNights(n, invoices[b].charges)
    OBVIOUS
  <2>5. charges \in Charges
    BY <2>3, <2>4, InvoiceTyped, ChargeTypes
  <2>6. RequestTyped(local)' /\ local \in Local
    BY <2>1, <2>2, <2>3, <2>4, IdleTyped DEF Idle, Local, Step, RequestTyped, EditStep, RowsStay
  <2>7. QED
    BY <2>1, <2>2, <2>4, <2>5, <2>6, BeginEditTyped, TypeOKPartsNext
<1>2. CASE CommitRoom(p)
  <2>1. req[p].nights \in Nat /\ req[p].account \in Account /\ req[p].pc = "room_commit"
    BY <1>0, <1>2 DEF CommitRoom, At, Local
  <2>2. PICK charges \in Charges :
          charges = WithNights(req[p].nights, invoices[req[p].account].charges)
    BY <2>1, InvoiceTyped, ChargeTypes
  <2>3. TablesOK' /\ RowsStay
    BY <1>2, <2>1, <2>2, CommitStep DEF CommitRoom, EditStep
  <2>4. QED
    BY <1>2, <2>3, ReturnTyped, TypeOKPartsNext DEF CommitRoom
<1>3. CASE UpdateInvoiceStatus(p)
  <2>1. TablesOK' /\ RowsStay
    BY <1>3, LocalStep DEF UpdateInvoiceStatus
  <2>2. PICK a \in Account, s \in InvoiceStatus :
          /\ <<invoices[a].status, s>> \in ValidInvoiceTransitions
          /\ Goto(p, [Idle EXCEPT !.pc = "invoice_status", !.account = a, !.to = s])
    BY <1>3 DEF UpdateInvoiceStatus
  <2>3. HasInvoice(a)
    BY <2>2, InvoiceTyped DEF ValidInvoiceTransitions, InvoiceStatus
  <2>4. PICK local : local = [Idle EXCEPT !.pc = "invoice_status", !.account = a, !.to = s]
    OBVIOUS
  <2>5. RequestTyped(local)' /\ local \in Local
    BY <2>1, <2>3, <2>4, IdleTyped DEF Idle, Local, Step, RequestTyped, EditStep, RowsStay
  <2>6. QED
    BY <2>1, <2>2, <2>4, <2>5, GotoTyped, TypeOKPartsNext
<1>4. CASE WriteInvoiceStatus(p)
  <2>1. PICK a \in Account : a = req[p].account /\ HasInvoice(a)
    BY <1>0, <1>4 DEF WriteInvoiceStatus, At, RequestTyped, Local
  <2>2. invoices' = [invoices EXCEPT ![a].status = req[p].to] /\ req[p].to \in InvoiceStatus
    BY <1>0, <1>4, <2>1 DEF WriteInvoiceStatus, Local
  <2>3. invoices'[a] \in Invoice /\ invoices'[a] # NoInvoice
    BY <2>1, <2>2, InvoiceTyped DEF Invoice, NoInvoice, TypeOK, InvoiceStatus
  <2>4. TablesOK' /\ RowsStay
    <3>1. invoices' \in [Account -> Invoice \cup {NoInvoice}]
      BY <2>2, <2>3 DEF TypeOK
    <3>2. \A c \in Account : HasInvoice(c) => HasInvoice(c)'
      BY <2>2, <2>3 DEF TypeOK, HasInvoice
    <3>3. issued' \subseteq Account
      BY <1>4, <2>1 DEF WriteInvoiceStatus, TypeOK
    <3>4. QED
      BY <1>4, <3>1, <3>2, <3>3
      DEF WriteInvoiceStatus, TypeOK, TablesOK, RowsStay, Inserted, Placed
  <2>5. QED
    BY <1>4, <2>4, ReturnTyped, TypeOKPartsNext DEF WriteInvoiceStatus
<1>5. QED
  BY <1>1, <1>2, <1>3, <1>4

LEMMA NextTyped ==
    ASSUME TypeOK, [Next]_vars
    PROVE  TypeOK'
<1>1. CASE UNCHANGED vars
  BY <1>1 DEF vars, TypeOK, Inserted, Placed, HasInvoice, RequestTyped
<1>2. ASSUME NEW p \in Request, RequestStep(p) PROVE TypeOK'
  BY <1>2, StayTyped, OrdersTyped, LinesTyped, InvoicesTyped DEF RequestStep
<1>3. QED
  BY <1>1, <1>2, StayTyped, OrdersTyped DEF Next

(***************************************************************************)
(* The type invariant of the folio: what a request in flight works on is   *)
(* there, an invoice that was found stays, rows are never half of one.     *)
(***************************************************************************)
THEOREM FolioTypeCorrect == Spec => []TypeOK
BY InitTyped, NextTyped, PTL DEF Spec

-------------------------------------------------------------------------------
(***************************************************************************)
(* What the folio guarantees in every interleaving, with any number of     *)
(* bookings, orders, items and requests: invoices are issued before they   *)
(* are paid, totals settle, and what was ordered is billed to the guest.   *)
(***************************************************************************)

-------------------------------------------------------------------------------
(***************************************************************************)
(* What a step leaves alone.                                               *)
(***************************************************************************)

\* A request's locals change by its own steps only; beginning an edit also
\* tells those that are overlapped.
LEMMA OthersKeep ==
    ASSUME TypeOK, NEW p \in Request, RequestStep(p), NEW q \in Request, q # p
    PROVE  \E a \in BOOLEAN : req'[q] = [req[q] EXCEPT !.alone = a]
<1>0. req[q] \in Local /\ req[q] = [req[q] EXCEPT !.alone = req[q].alone]
  BY DEF TypeOK, Local
<1>1. ASSUME NEW local, Goto(p, local)
      PROVE  \E a \in BOOLEAN : req'[q] = [req[q] EXCEPT !.alone = a]
  <2>1. req'[q] = req[q] /\ req[q].alone \in BOOLEAN
    BY <1>0, <1>1 DEF Goto, TypeOK, Local
  <2>2. QED
    BY <1>0, <2>1
<1>2. ASSUME NEW local, NEW charges, BeginEdit(p, local, charges)
      PROVE  \E a \in BOOLEAN : req'[q] = [req[q] EXCEPT !.alone = a]
  BY <1>0, <1>2 DEF BeginEdit, Local
<1>3. ASSUME UNCHANGED req
      PROVE  \E a \in BOOLEAN : req'[q] = [req[q] EXCEPT !.alone = a]
  <2>1. req'[q] = req[q] /\ req[q].alone \in BOOLEAN
    BY <1>0, <1>3 DEF Local
  <2>2. QED
    BY <1>0, <2>1
<1>4. \/ UNCHANGED req
      \/ \E local : Goto(p, local)
      \/ \E local, charges : BeginEdit(p, local, charges)
  BY DEF RequestStep, ConfirmBooking, GenerateForBooking, PlaceOrder, InsertOrder,
         ReadOrder, AddItems, FindInvoice, AppendOrderLineItem, CommitLine,
         RemoveItem, DeleteItem, RemoveOrderLineItem, CommitRemoval,
         RecalculateRoomCharge, CommitRoom, UpdateInvoiceStatus, WriteInvoiceStatus,
         Return
<1>5. QED
  BY <1>1, <1>2, <1>3, <1>4

\* The charges that an open edit commits.
Edited(r, charges) ==
    CASE r.pc = "append_commit" -> WithLine(r.item, charges)
      [] r.pc = "remove_commit" -> WithoutLines(r.item, charges)
      [] r.pc = "room_commit" -> WithNights(r.nights, charges)

ChargesOf(a) == invoices[a].charges

\* The four ways in which a request's step treats the invoices.
Creates(p) ==
    /\ At(p, "generate") /\ ~HasInvoice(req[p].booking)
    /\ CreateInvoice(req[p].booking) /\ UNCHANGED removed /\ Return(p)

Commits(p) ==
    /\ req[p].pc \in EditStep
    /\ CommitEdit(p, Edited(req[p], ChargesOf(req[p].account)))
    /\ UNCHANGED <<issued, removed>>
    /\ \/ At(p, "append_commit") /\ Goto(p, NextItem(req[p], req[p].item))
       \/ Return(p)

Leaves == UNCHANGED <<invoices, exact, issued>>

LEMMA InvoiceSteps ==
    ASSUME TypeOK, NEW p \in Request, RequestStep(p)
    PROVE  Leaves \/ Creates(p) \/ Commits(p) \/ WriteInvoiceStatus(p)
<1>0. req[p] \in Local /\ RequestTyped(req[p])
  BY DEF TypeOK
<1>1. CASE GenerateForBooking(p)
  BY <1>1 DEF GenerateForBooking, Creates, Leaves
<1>2. CASE CommitLine(p)
  <2>1. req[p].item \in Item /\ req[p].pc = "append_commit"
    BY <1>0, <1>2 DEF CommitLine, At, RequestTyped
  <2>2. QED
    BY <1>2, <2>1 DEF CommitLine, Commits, Edited, EditStep, ChargesOf, At
<1>3. CASE CommitRemoval(p)
  BY <1>3 DEF CommitRemoval, Commits, Edited, EditStep, ChargesOf, At
<1>4. CASE CommitRoom(p)
  BY <1>4 DEF CommitRoom, Commits, Edited, EditStep, ChargesOf, At
<1>5. QED
  BY <1>1, <1>2, <1>3, <1>4
  DEF RequestStep, Leaves, ConfirmBooking, PlaceOrder, InsertOrder,
      ReadOrder, AddItems, FindInvoice, AppendOrderLineItem,
      RemoveItem, DeleteItem, RemoveOrderLineItem,
      RecalculateRoomCharge, UpdateInvoiceStatus

\* The steps that are no request's: a company is invoiced, or no invoice and
\* no request is touched.
LEMMA OtherSteps ==
    ASSUME Next, ~(\E p \in Request : RequestStep(p))
    PROVE  /\ UNCHANGED <<req, issued, removed>>
           /\ \/ Leaves
              \/ ~HasInvoice(Company) /\ CreateInvoice(Company)
<1>1. CASE \E b \in Booking : MoveStay(b)
  BY <1>1 DEF MoveStay, Leaves
<1>2. CASE GenerateCorporateInvoice
  BY <1>2 DEF GenerateCorporateInvoice, CreateInvoice
<1>3. CASE PlaceWalkInOrder
  BY <1>3 DEF PlaceWalkInOrder, Leaves
<1>4. CASE CloseOrdersForDay
  BY <1>4 DEF CloseOrdersForDay, Leaves
<1>5. QED
  BY <1>1, <1>2, <1>3, <1>4 DEF Next

-------------------------------------------------------------------------------
(***************************************************************************)
(* An invoice is issued before it is paid.  By itself this is not          *)
(* inductive: the status is written whatever it has become.  What a        *)
(* request is about to write was allowed by a status that the invoice had, *)
(* and what was issued stays issued once.                                  *)
(***************************************************************************)
IssuedInv ==
    /\ \A a \in Account :
         invoices[a].status \in {"issued", "paid", "overdue"} => a \in issued
    /\ \A p \in Request :
         At(p, "invoice_status") /\ req[p].to \in {"paid", "overdue"} =>
             req[p].account \in issued

LEMMA CreateKeepsStatuses ==
    ASSUME TypeOK, NEW a \in Account, CreateInvoice(a)
    PROVE  /\ \A b \in Account : invoices'[b].status \in {invoices[b].status, "draft"}
           /\ UNCHANGED issued
BY DEF CreateInvoice, NewInvoice, TypeOK

LEMMA BeginEditPc ==
    ASSUME NEW p \in Request, NEW local, NEW charges, BeginEdit(p, local, charges)
    PROVE  req'[p].pc = local.pc
<1>1. PICK a : req'[p] = [local EXCEPT !.total = charges, !.alone = a]
  BY DEF BeginEdit
<1>2. QED
  BY <1>1

\* Only UpdateInvoiceStatus makes a request write a status next.
LEMMA StatusSteps ==
    ASSUME TypeOK, NEW p \in Request, RequestStep(p), ~UpdateInvoiceStatus(p)
    PROVE  req'[p].pc # "invoice_status"
<1>0. req \in [Request -> Local] /\ req[p] \in Local
 BY DEF TypeOK
<1>2. Return(p) => req'[p].pc # "invoice_status"
  BY <1>0 DEF Return, Goto, Idle
<1>3. ASSUME NEW i, Goto(p, NextItem(req[p], i)) PROVE req'[p].pc # "invoice_status"
  BY <1>0, <1>3 DEF Goto, NextItem, Idle, Local
<1>4. CASE ConfirmBooking(p)
  <2>1. req[p].pc = "idle"
    BY <1>4 DEF ConfirmBooking, Starts, Idle
  <2>2. PICK b \in Booking :
          IF b \in CompanyGuest THEN UNCHANGED req
          ELSE Goto(p, [Idle EXCEPT !.pc = "generate", !.booking = b])
    BY <1>4 DEF ConfirmBooking
  <2>3. QED
    BY <1>0, <2>1, <2>2 DEF Goto, Idle
<1>5. CASE AddItems(p)
  <2>1. req[p].pc = "idle"
    BY <1>5 DEF AddItems, Starts, Idle
  <2>2. PICK o, new :
          IF orders[o].booking = NoBooking THEN UNCHANGED req
          ELSE Goto(p, [Idle EXCEPT !.pc = "find_invoice", !.order = o,
                            !.booking = orders[o].booking, !.bill = new])
    BY <1>5 DEF AddItems
  <2>3. QED
    BY <1>0, <2>1, <2>2 DEF Goto, Idle
<1>6. CASE PlaceOrder(p)
  BY <1>0, <1>6 DEF PlaceOrder, Goto, Idle
<1>13. CASE RemoveItem(p)
  BY <1>0, <1>13 DEF RemoveItem, Goto, Idle
<1>7. CASE InsertOrder(p)
  BY <1>0, <1>2, <1>7 DEF InsertOrder, Goto, Local
<1>14. CASE ReadOrder(p)
  BY <1>0, <1>2, <1>14 DEF ReadOrder, Goto, Local
<1>15. CASE FindInvoice(p)
  BY <1>0, <1>2, <1>15 DEF FindInvoice, Goto, Local
<1>16. CASE DeleteItem(p)
  BY <1>0, <1>2, <1>16 DEF DeleteItem, Goto, Local
<1>8. CASE AppendOrderLineItem(p)
  <2>1. PICK i, local, charges :
          /\ local = [req[p] EXCEPT !.pc = "append_commit", !.item = i]
          /\ Goto(p, NextItem(req[p], i)) \/ BeginEdit(p, local, charges)
    BY <1>8 DEF AppendOrderLineItem
  <2>2. local.pc = "append_commit"
    BY <1>0, <2>1 DEF Local
  <2>3. QED
    BY <1>3, <2>1, <2>2, BeginEditPc
<1>9. CASE RemoveOrderLineItem(p)
  <2>1. PICK a, local, charges :
          /\ local = [req[p] EXCEPT !.pc = "remove_commit", !.account = a]
          /\ Return(p) \/ BeginEdit(p, local, charges)
    BY <1>9 DEF RemoveOrderLineItem
  <2>2. local.pc = "remove_commit"
    BY <1>0, <2>1 DEF Local
  <2>3. QED
    BY <1>2, <2>1, <2>2, BeginEditPc
<1>10. CASE RecalculateRoomCharge(p)
  BY <1>10 DEF RecalculateRoomCharge, BeginEdit, Idle
<1>11. CASE GenerateForBooking(p) \/ CommitLine(p) \/ CommitRemoval(p) \/ CommitRoom(p)
            \/ WriteInvoiceStatus(p)
  BY <1>2, <1>3, <1>11
  DEF GenerateForBooking, CommitLine, CommitRemoval, CommitRoom, WriteInvoiceStatus
<1>12. QED
  BY <1>4, <1>5, <1>6, <1>7, <1>8, <1>9, <1>10, <1>11, <1>13, <1>14,
     <1>15, <1>16 DEF RequestStep

LEMMA IssuedNext ==
    ASSUME TypeOK, IssuedInv, [Next]_vars
    PROVE  IssuedInv'
<1>1. CASE UNCHANGED vars
  BY <1>1 DEF vars, IssuedInv, At
<1>2. ASSUME NEW p \in Request, RequestStep(p) PROVE IssuedInv'
  <2>0. req[p] \in Local /\ RequestTyped(req[p])
    BY DEF TypeOK
  <2>1. /\ issued \subseteq issued'
        /\ \A a \in Account :
             invoices'[a].status \in {"issued", "paid", "overdue"} => a \in issued'
    <3>1. CASE Leaves
      BY <3>1 DEF Leaves, IssuedInv
    <3>2. CASE Creates(p)
      <4>1. req[p].booking \in Account
        BY <2>0, <3>2, AccountTypes DEF Creates, At, RequestTyped
      <4>2. QED
        BY <3>2, <4>1, CreateKeepsStatuses DEF Creates, IssuedInv
    <3>3. CASE Commits(p)
      <4>1. \A a \in Account : invoices'[a].status = invoices[a].status
        BY <3>3 DEF Commits, CommitEdit, TypeOK, Invoice, NoInvoice
      <4>2. QED
        BY <3>3, <4>1 DEF Commits, IssuedInv
    <3>4. CASE WriteInvoiceStatus(p)
      <4>1. PICK a \in Account : a = req[p].account /\ HasInvoice(a)
        BY <2>0, <3>4 DEF WriteInvoiceStatus, At, RequestTyped, Local
      <4>2. invoices'[a].status = req[p].to
        BY <3>4, <4>1, InvoiceTyped DEF WriteInvoiceStatus, TypeOK, Invoice
      <4>3. \A b \in Account \ {a} : invoices'[b] = invoices[b]
        BY <3>4, <4>1 DEF WriteInvoiceStatus, TypeOK
      <4>4. issued \subseteq issued' /\ (req[p].to = "issued" => a \in issued')
        BY <3>4, <4>1 DEF WriteInvoiceStatus
      <4>5. req[p].to \in {"paid", "overdue"} => a \in issued
        BY <3>4, <4>1 DEF WriteInvoiceStatus, IssuedInv
      <4>6. QED
        BY <4>2, <4>3, <4>4, <4>5 DEF IssuedInv
    <3>5. QED
      BY <1>2, <3>1, <3>2, <3>3, <3>4, InvoiceSteps
  <2>2. ASSUME NEW q \in Request, req'[q].pc = "invoice_status",
               req'[q].to \in {"paid", "overdue"}
        PROVE  req'[q].account \in issued'
    <3>1. CASE q # p
      <4>1. /\ req'[q].pc = req[q].pc /\ req'[q].to = req[q].to
            /\ req'[q].account = req[q].account
        <5>1. PICK a \in BOOLEAN : req'[q] = [req[q] EXCEPT !.alone = a]
          BY <1>2, <3>1, OthersKeep
        <5>2. req[q] \in Local
          BY DEF TypeOK
        <5>3. QED
          BY <5>1, <5>2 DEF Local
      <4>2. QED
        BY <2>1, <2>2, <4>1 DEF IssuedInv, At
    <3>2. CASE q = p
      <4>1. UpdateInvoiceStatus(p)
        BY <1>2, <2>2, <3>2, StatusSteps
      <4>2. PICK a \in Account, s \in InvoiceStatus :
              /\ <<invoices[a].status, s>> \in ValidInvoiceTransitions
              /\ Goto(p, [Idle EXCEPT !.pc = "invoice_status", !.account = a, !.to = s])
        BY <4>1 DEF UpdateInvoiceStatus
      <4>3. req'[p].account = a /\ req'[p].to = s
        BY <4>2 DEF Goto, Idle, TypeOK
      <4>4. invoices[a].status \in {"issued", "overdue"}
        BY <2>2, <3>2, <4>2, <4>3 DEF ValidInvoiceTransitions
      <4>5. QED
        BY <2>1, <3>2, <4>3, <4>4 DEF IssuedInv
    <3>3. QED
      BY <3>1, <3>2
  <2>3. QED
    BY <2>1, <2>2 DEF IssuedInv, At
<1>3. CASE Next /\ ~(\E p \in Request : RequestStep(p))
  <2>1. CASE Leaves
    BY <1>3, <2>1, OtherSteps DEF Leaves, IssuedInv, At
  <2>2. CASE CreateInvoice(Company)
    BY <1>3, <2>2, OtherSteps, AccountTypes, CreateKeepsStatuses DEF IssuedInv, At
  <2>3. QED
    BY <1>3, <2>1, <2>2, OtherSteps
<1>4. QED
  BY <1>1, <1>2, <1>3

(***************************************************************************)
(* InvoiceService.UpdateStatus decides on a status read earlier, and still *)
(* no invoice is paid or overdue that was never issued.                    *)
(***************************************************************************)
THEOREM AlwaysIssuedBeforePaid == Spec => []IssuedBeforePaid
<1>1. Init => IssuedInv
  BY DEF Init, IssuedInv, NoInvoice, At, Idle
<1>2. IssuedInv => IssuedBeforePaid
  BY DEF IssuedInv, IssuedBeforePaid
<1>3. QED
  BY <1>1, <1>2, FolioTypeCorrect, IssuedNext, PTL DEF Spec

-------------------------------------------------------------------------------
(***************************************************************************)
(* Totals.  An edit that overlaps no other has computed what it is about   *)
(* to commit: nobody else changes the charges meanwhile, and a removal     *)
(* finds the item's row gone.                                              *)
(***************************************************************************)
LoneEdits ==
    \A p \in Request : req[p].pc \in EditStep /\ req[p].alone =>
        /\ Editing(req[p].account) = {p}
        /\ req[p].total = Edited(req[p], ChargesOf(req[p].account))

RemovalsRemove ==
    \A p \in Request : req[p].pc \in {"remove_line", "remove_commit"} =>
        req[p].item \in removed

TotalsInv == TotalsSettle /\ LoneEdits /\ RemovalsRemove

\* The steps that begin an edit: the total is that of the charges with it.
Begins(p) ==
    \E local \in Local :
        /\ local.pc \in EditStep
        /\ BeginEdit(p, local, Edited(local, ChargesOf(local.account)))
        /\ local.pc = "remove_commit" =>
              req[p].pc = "remove_line" /\ local.item = req[p].item
        /\ UNCHANGED <<invoices, exact, issued, removed>>

\* Every other step leaves the request outside an edit.
LEMMA RequestSteps ==
    ASSUME TypeOK, NEW p \in Request, RequestStep(p), ~Begins(p)
    PROVE  /\ req' = [req EXCEPT ![p] = req'[p]]
           /\ req'[p].pc \notin EditStep
           /\ req'[p].pc = "remove_line" => req'[p].item \in removed'
           /\ removed \subseteq removed'
<1>0. req \in [Request -> Local] /\ req[p] \in Local /\ RequestTyped(req[p])
  BY DEF TypeOK
<1> DEFINE Result(r) == /\ r.pc \notin EditStep
                        /\ r.pc = "remove_line" => r.item \in removed'
<1> DEFINE Goal == /\ req' = [req EXCEPT ![p] = req'[p]]
                   /\ Result(req'[p])
                   /\ removed \subseteq removed'
<1>1. ASSUME NEW local, Goto(p, local) PROVE req' = [req EXCEPT ![p] = req'[p]] /\ req'[p] = local
  BY <1>0, <1>1 DEF Goto
<1>2. Return(p) /\ removed \subseteq removed' => Goal
  <2>1. Result(Idle)
    BY DEF Idle, EditStep
  <2>2. QED
    BY <2>1, <1>1 DEF Return
<1>3. ASSUME NEW i, Goto(p, NextItem(req[p], i)), UNCHANGED removed PROVE Goal
  <2>1. Result(NextItem(req[p], i))
    BY <1>0 DEF NextItem, Idle, EditStep, Local
  <2>2. QED
    BY <2>1, <1>1, <1>3
<1>4. ASSUME NEW local, Goto(p, local), Result(local), removed \subseteq removed' PROVE Goal
  BY <1>1, <1>4
<1>5. CASE ConfirmBooking(p)
  <2>1. CASE UNCHANGED req
    <3>1. Result(req[p])
      BY <1>5 DEF ConfirmBooking, Starts, Idle, EditStep
    <3>2. QED
      BY <1>0, <1>5, <2>1, <3>1 DEF ConfirmBooking
  <2>2. CASE \E b : Goto(p, [Idle EXCEPT !.pc = "generate", !.booking = b])
    <3>1. PICK b, local : /\ local = [Idle EXCEPT !.pc = "generate", !.booking = b]
                          /\ Goto(p, local)
      BY <2>2
    <3>2. local.pc = "generate"
      BY <3>1 DEF Idle
    <3>3. QED
      BY <1>4, <1>5, <3>1, <3>2 DEF ConfirmBooking, EditStep
  <2>3. QED
    BY <1>5, <2>1, <2>2 DEF ConfirmBooking
<1>6. CASE AddItems(p)
  <2>1. CASE UNCHANGED req
    <3>1. Result(req[p])
      BY <1>6 DEF AddItems, Starts, Idle, EditStep
    <3>2. QED
      BY <1>0, <1>6, <2>1, <3>1 DEF AddItems
  <2>2. CASE \E o, b, new : Goto(p, [Idle EXCEPT !.pc = "find_invoice", !.order = o,
                                        !.booking = b, !.bill = new])
    <3>1. PICK o, b, new, local :
            /\ local = [Idle EXCEPT !.pc = "find_invoice", !.order = o,
                                    !.booking = b, !.bill = new]
            /\ Goto(p, local)
      BY <2>2
    <3>2. local.pc = "find_invoice"
      BY <3>1 DEF Idle
    <3>3. QED
      BY <1>4, <1>6, <3>1, <3>2 DEF AddItems, EditStep
  <2>3. QED
    BY <1>6, <2>1, <2>2 DEF AddItems
<1>7. CASE PlaceOrder(p)
  <2>1. PICK b, local : /\ local = [Idle EXCEPT !.pc = "insert_order", !.booking = b]
                        /\ Goto(p, local)
    BY <1>7 DEF PlaceOrder
  <2>2. local.pc = "insert_order"
    BY <2>1 DEF Idle
  <2>3. QED
    BY <1>4, <1>7, <2>1, <2>2 DEF PlaceOrder, EditStep
<1>16. CASE RemoveItem(p)
  <2>1. PICK o, i, b, local :
          /\ local = [Idle EXCEPT !.pc = "delete_item", !.order = o, !.item = i,
                                  !.booking = b]
          /\ Goto(p, local)
    BY <1>16 DEF RemoveItem
  <2>2. local.pc = "delete_item"
    BY <2>1 DEF Idle
  <2>3. QED
    BY <1>4, <1>16, <2>1, <2>2 DEF RemoveItem, EditStep
<1>17. CASE UpdateInvoiceStatus(p)
  <2>1. PICK a, to, local :
          /\ local = [Idle EXCEPT !.pc = "invoice_status", !.account = a, !.to = to]
          /\ Goto(p, local)
    BY <1>17 DEF UpdateInvoiceStatus
  <2>2. local.pc = "invoice_status"
    BY <2>1 DEF Idle
  <2>3. QED
    BY <1>4, <1>17, <2>1, <2>2 DEF UpdateInvoiceStatus, EditStep
<1>8. CASE InsertOrder(p)
  <2>1. CASE Return(p)
    BY <1>2, <1>8, <2>1 DEF InsertOrder
  <2>2. CASE ~Return(p)
    <3>1. PICK o, local : /\ local = [req[p] EXCEPT !.pc = "read_order", !.order = o]
                          /\ Goto(p, local)
      BY <1>8, <2>2 DEF InsertOrder
    <3>2. local.pc = "read_order"
      BY <1>0, <3>1 DEF Local
    <3>3. QED
      BY <1>4, <1>8, <3>1, <3>2 DEF InsertOrder, EditStep
  <2>3. QED
    BY <2>1, <2>2
<1>18. CASE ReadOrder(p)
  <2>1. CASE Return(p)
    BY <1>2, <1>18, <2>1 DEF ReadOrder
  <2>2. CASE ~Return(p)
    <3>1. PICK bill, local : /\ local = [req[p] EXCEPT !.pc = "find_invoice", !.bill = bill]
                             /\ Goto(p, local)
      BY <1>18, <2>2 DEF ReadOrder
    <3>2. local.pc = "find_invoice"
      BY <1>0, <3>1 DEF Local
    <3>3. QED
      BY <1>4, <1>18, <3>1, <3>2 DEF ReadOrder, EditStep
  <2>3. QED
    BY <2>1, <2>2
<1>19. CASE FindInvoice(p)
  <2>1. CASE Return(p)
    BY <1>2, <1>19, <2>1 DEF FindInvoice
  <2>2. CASE ~Return(p)
    <3>1. PICK a, local : /\ local = [req[p] EXCEPT !.pc = "append", !.account = a]
                          /\ Goto(p, local)
      BY <1>19, <2>2 DEF FindInvoice
    <3>2. local.pc = "append"
      BY <1>0, <3>1 DEF Local
    <3>3. QED
      BY <1>4, <1>19, <3>1, <3>2 DEF FindInvoice, EditStep
  <2>3. QED
    BY <2>1, <2>2
<1>9. CASE DeleteItem(p)
  <2>1. CASE Return(p)
    BY <1>2, <1>9, <2>1 DEF DeleteItem
  <2>2. CASE ~Return(p)
    <3>1. PICK local : Goto(p, local) /\ local.pc = "remove_line" /\ local.item = req[p].item
      BY <1>0, <1>9, <2>2 DEF DeleteItem, Local
    <3>2. QED
      BY <1>4, <1>9, <3>1 DEF DeleteItem, EditStep
  <2>3. QED
    BY <2>1, <2>2
<1>10. CASE AppendOrderLineItem(p)
  <2>1. PICK i \in req[p].bill :
          IF i \in removed THEN Goto(p, NextItem(req[p], i))
          ELSE BeginEdit(p, [req[p] EXCEPT !.pc = "append_commit", !.item = i],
                         WithLine(i, invoices[req[p].account].charges))
    BY <1>10 DEF AppendOrderLineItem
  <2>2. CASE i \in removed
    BY <1>3, <1>10, <2>1, <2>2 DEF AppendOrderLineItem
  <2>3. CASE i \notin removed
    <3>1. PICK local : local = [req[p] EXCEPT !.pc = "append_commit", !.item = i]
      OBVIOUS
    <3>2. /\ local \in Local /\ local.pc = "append_commit" /\ local.item = i
          /\ local.account = req[p].account
      BY <1>0, <3>1 DEF Local, Step, EditStep
    <3>3. Edited(local, ChargesOf(local.account)) = WithLine(i, invoices[req[p].account].charges)
      BY <3>2 DEF Edited, ChargesOf
    <3>4. Begins(p)
      BY <1>10, <2>1, <2>3, <3>1, <3>2, <3>3 DEF Begins, AppendOrderLineItem, EditStep
    <3>5. QED
      BY <3>4
  <2>4. QED
    BY <2>2, <2>3
<1>11. CASE RemoveOrderLineItem(p)
  <2>1. CASE Return(p)
    BY <1>2, <1>11, <2>1 DEF RemoveOrderLineItem
  <2>2. CASE ~Return(p)
    <3>1. PICK a, local :
            /\ a \in Account /\ a = req[p].booking
            /\ local = [req[p] EXCEPT !.pc = "remove_commit", !.account = a]
            /\ BeginEdit(p, local, WithoutLines(req[p].item, invoices[a].charges))
      BY <1>11, <2>2 DEF RemoveOrderLineItem
    <3>2. /\ local \in Local /\ local.pc = "remove_commit" /\ local.item = req[p].item
          /\ local.account = a
      BY <1>0, <3>1 DEF Local, Step, EditStep
    <3>3. Edited(local, ChargesOf(local.account)) = WithoutLines(req[p].item, invoices[a].charges)
      BY <3>2 DEF Edited, ChargesOf
    <3>4. Begins(p)
      BY <1>11, <3>1, <3>2, <3>3 DEF Begins, RemoveOrderLineItem, EditStep, At
    <3>5. QED
      BY <3>4
  <2>3. QED
    BY <2>1, <2>2
<1>12. CASE RecalculateRoomCharge(p)
  <2>1. PICK b, n, local :
          /\ b \in Booking \ CompanyGuest /\ n \in 1 .. MaxNights
          /\ local = [Idle EXCEPT !.pc = "room_commit", !.account = b, !.nights = n]
          /\ BeginEdit(p, local, WithNights(n, invoices[b].charges))
    BY <1>12 DEF RecalculateRoomCharge
  <2>2. b \in Account /\ n \in Nat
    BY <2>1, AccountTypes, FolioAssumption
  <2>3. /\ local \in Local /\ local.pc = "room_commit" /\ local.nights = n
        /\ local.account = b
    BY <2>1, <2>2, IdleTyped DEF Idle, Local, Step, EditStep
  <2>4. Edited(local, ChargesOf(local.account)) = WithNights(n, invoices[b].charges)
    BY <2>3 DEF Edited, ChargesOf
  <2>5. Begins(p)
    BY <1>12, <2>1, <2>3, <2>4 DEF Begins, RecalculateRoomCharge, EditStep
  <2>6. QED
    BY <2>5
<1>13. CASE GenerateForBooking(p) \/ CommitRemoval(p) \/ CommitRoom(p) \/ WriteInvoiceStatus(p)
  BY <1>2, <1>13 DEF GenerateForBooking, CommitRemoval, CommitRoom, WriteInvoiceStatus
<1>14. CASE CommitLine(p)
  BY <1>3, <1>14 DEF CommitLine
<1>15. QED
  BY <1>5, <1>6, <1>7, <1>8, <1>9, <1>10, <1>11, <1>12, <1>13, <1>14,
     <1>16, <1>17, <1>18, <1>19 DEF RequestStep

\* Where no edit begins, the other edits keep what they have computed.
LEMMA LoneEditsKept ==
    ASSUME TypeOK, LoneEdits, RemovalsRemove, NEW p \in Request,
           req' = [req EXCEPT ![p] = req'[p]], req'[p].pc \notin EditStep,
           removed \subseteq removed',
           NEW q \in Request, req'[q].pc \in EditStep, req'[q].alone,
           ChargesOf(req[q].account)' = ChargesOf(req[q].account)
    PROVE  /\ Editing(req[q].account)' = {q}
           /\ req'[q].total = Edited(req[q], ChargesOf(req[q].account))'
           /\ req'[q] = req[q]
<1>1. q # p /\ req'[q] = req[q]
  BY DEF TypeOK
<1>2. Editing(req[q].account) = {q} /\ req[q].total = Edited(req[q], ChargesOf(req[q].account))
  BY <1>1 DEF LoneEdits
<1>3. Editing(req[q].account)' = {q}
  <2>1. \A o \in Request : req'[o].pc \in EditStep => req'[o] = req[o]
    BY DEF TypeOK
  <2>2. QED
    BY <1>1, <1>2, <2>1 DEF Editing
<1>4. Edited(req[q], ChargesOf(req[q].account))' = Edited(req[q], ChargesOf(req[q].account))
  <2>1. CASE req[q].pc = "remove_commit"
    <3>1. req[q].item \in removed /\ req[q].item \in removed'
      BY <2>1 DEF RemovalsRemove
    <3>2. QED
      BY <1>1, <2>1, <3>1 DEF Edited, WithoutLines
  <2>2. CASE req[q].pc = "append_commit"
    BY <1>1, <2>2 DEF Edited, WithLine
  <2>3. CASE req[q].pc = "room_commit"
    BY <1>1, <2>3 DEF Edited, WithNights
  <2>4. QED
    BY <1>1, <2>1, <2>2, <2>3 DEF EditStep
<1>5. QED
  BY <1>1, <1>2, <1>3, <1>4

LEMMA BeginsKeepsTotals ==
    ASSUME TypeOK, TotalsInv, NEW p \in Request, Begins(p)
    PROVE  TotalsInv'
<1>1. PICK local \in Local :
        /\ local.pc \in EditStep
        /\ BeginEdit(p, local, Edited(local, ChargesOf(local.account)))
        /\ local.pc = "remove_commit" =>
              req[p].pc = "remove_line" /\ local.item = req[p].item
        /\ UNCHANGED <<invoices, exact, issued, removed>>
  BY DEF Begins
<1> DEFINE a == local.account
           others == Editing(a)
<1>2. /\ req'[p].pc = local.pc /\ req'[p].account = a /\ req'[p].item = local.item
      /\ req'[p].nights = local.nights
      /\ req'[p].total = Edited(local, ChargesOf(a))
      /\ req'[p].alone => others = {}
  <2>1. PICK alone \in BOOLEAN :
          /\ req'[p] = [local EXCEPT !.total = Edited(local, ChargesOf(a)), !.alone = alone]
          /\ alone => others = {}
    BY <1>1 DEF BeginEdit
  <2>2. QED
    BY <2>1 DEF Local
<1>3. ASSUME NEW q \in Request, q # p
      PROVE  /\ req'[q].pc = req[q].pc /\ req'[q].account = req[q].account
             /\ req'[q].item = req[q].item /\ req'[q].nights = req[q].nights
             /\ req'[q].total = req[q].total
             /\ req'[q].alone => req[q].alone /\ q \notin others
  <2>1. PICK alone \in BOOLEAN :
          /\ req'[q] = [req[q] EXCEPT !.alone = alone]
          /\ alone => req[q].alone /\ q \notin others
    BY <1>1, <1>3 DEF BeginEdit, TypeOK, Local
  <2>2. QED
    BY <2>1 DEF TypeOK, Local
<1>4. TotalsSettle'
  BY <1>1 DEF TotalsInv, TotalsSettle
<1>5. RemovalsRemove'
  <2>1. ASSUME NEW q \in Request, req'[q].pc \in {"remove_line", "remove_commit"}
        PROVE  req'[q].item \in removed'
    <3>1. CASE q = p
      BY <1>1, <1>2, <2>1, <3>1 DEF TotalsInv, RemovalsRemove, EditStep
    <3>2. CASE q # p
      BY <1>1, <1>3, <2>1, <3>2 DEF TotalsInv, RemovalsRemove
    <3>3. QED
      BY <3>1, <3>2
  <2>2. QED
    BY <2>1 DEF RemovalsRemove
<1>6. ASSUME NEW q \in Request, req'[q].pc \in EditStep, req'[q].alone
      PROVE  /\ Editing(req[q].account)' = {q}
             /\ req'[q].total = Edited(req[q], ChargesOf(req[q].account))'
  <2>1. CASE q = p
    <3>1. Editing(a)' = {p}
      BY <1>1, <1>2, <1>3, <1>6, <2>1 DEF Editing
    <3>2. Edited(req[p], ChargesOf(a))' = Edited(local, ChargesOf(a))
      BY <1>1, <1>2 DEF Edited, ChargesOf, WithLine, WithoutLines, WithNights
    <3>3. QED
      BY <1>2, <2>1, <3>1, <3>2
  <2>2. CASE q # p
    <3>1. req[q].pc \in EditStep /\ req[q].alone /\ q \notin others
      BY <1>3, <1>6, <2>2
    <3>2. req[q].account # a
      BY <3>1 DEF Editing
    <3>3. /\ Editing(req[q].account) = {q}
          /\ req[q].total = Edited(req[q], ChargesOf(req[q].account))
      BY <3>1 DEF TotalsInv, LoneEdits
    <3>4. Editing(req[q].account)' = {q}
      BY <1>2, <1>3, <2>2, <3>2, <3>3 DEF Editing
    <3>5. Edited(req[q], ChargesOf(req[q].account))' = Edited(req[q], ChargesOf(req[q].account))
      BY <1>1, <1>3, <2>2 DEF Edited, ChargesOf, WithLine, WithoutLines, WithNights
    <3>6. QED
      BY <1>3, <2>2, <3>3, <3>4, <3>5
  <2>3. QED
    BY <2>1, <2>2
<1>7. QED
  BY <1>4, <1>5, <1>6 DEF TotalsInv, LoneEdits

\* A company's invoice, or a booking's, that is new has a total of its own.
LEMMA CreateKeepsCharges ==
    ASSUME TypeOK, TotalsSettle, NEW a \in Account, ~HasInvoice(a), CreateInvoice(a)
    PROVE  /\ TotalsSettle'
           /\ \A b \in Account : HasInvoice(b) => invoices'[b] = invoices[b]
BY DEF CreateInvoice, TotalsSettle, NewInvoice, TypeOK

LEMMA TotalsNext ==
    ASSUME TypeOK, TotalsInv, [Next]_vars
    PROVE  TotalsInv'
<1> USE DEF TotalsInv
<1>1. CASE UNCHANGED vars
  BY <1>1 DEF vars, TotalsSettle, LoneEdits, RemovalsRemove, Editing, Edited, ChargesOf,
              WithLine, WithoutLines, WithNights
<1>2. ASSUME NEW p \in Request, RequestStep(p), ~Begins(p) PROVE TotalsInv'
  <2>0. req[p] \in Local /\ RequestTyped(req[p])
    BY DEF TypeOK
  <2>1. /\ req' = [req EXCEPT ![p] = req'[p]]
        /\ req'[p].pc \notin EditStep
        /\ req'[p].pc = "remove_line" => req'[p].item \in removed'
        /\ removed \subseteq removed'
    BY <1>2, RequestSteps
  <2>2. RemovalsRemove'
    <3>1. ASSUME NEW q \in Request, req'[q].pc \in {"remove_line", "remove_commit"}
          PROVE  req'[q].item \in removed'
      <4>1. CASE q = p
        BY <2>1, <3>1, <4>1 DEF EditStep
      <4>2. CASE q # p
        <5>1. req'[q] = req[q]
          BY <2>1, <4>2 DEF TypeOK
        <5>2. QED
          BY <2>1, <3>1, <5>1 DEF RemovalsRemove
      <4>3. QED
        BY <4>1, <4>2
    <3>2. QED
      BY <3>1 DEF RemovalsRemove
  <2>3. /\ TotalsSettle'
        /\ \A q \in Request : req'[q].pc \in EditStep /\ req'[q].alone =>
               ChargesOf(req[q].account)' = ChargesOf(req[q].account)
    <3>0. ASSUME NEW q \in Request, req'[q].pc \in EditStep
          PROVE  /\ q # p /\ req'[q] = req[q] /\ req[q].account \in Account
                 /\ HasInvoice(req[q].account)
      <4>1. q # p /\ req'[q] = req[q]
        BY <2>1, <3>0 DEF TypeOK
      <4>2. QED
        BY <3>0, <4>1 DEF TypeOK, Local, RequestTyped
    <3>1. CASE Leaves
      BY <3>0, <3>1 DEF Leaves, TotalsSettle, ChargesOf
    <3>2. CASE Creates(p)
      <4>1. req[p].booking \in Account
        BY <2>0, <3>2, AccountTypes DEF Creates, At, RequestTyped
      <4>2. QED
        BY <3>0, <3>2, <4>1, CreateKeepsCharges DEF Creates, ChargesOf
    <3>3. CASE Commits(p)
      <4> DEFINE a == req[p].account
      <4>1. a \in Account /\ req[p].pc \in EditStep
        BY <2>0, <3>3 DEF Commits, Local
      <4>2. /\ invoices'[a].charges = Edited(req[p], ChargesOf(a))
            /\ invoices'[a].total = req[p].total
            /\ \A b \in Account \ {a} : invoices'[b] = invoices[b]
            /\ exact' = IF req[p].alone THEN exact \cup {a} ELSE exact \ {a}
        <5>1. invoices[a] \in Invoice
          BY <2>0, <4>1, InvoiceTyped DEF RequestTyped
        <5>2. QED
          BY <3>3, <4>1, <5>1 DEF Commits, CommitEdit, TypeOK, Invoice
      <4>3. req[p].alone => req[p].total = Edited(req[p], ChargesOf(a))
        BY <4>1 DEF LoneEdits
      <4>4. TotalsSettle'
        BY <4>2, <4>3 DEF TotalsSettle, TypeOK
      <4>5. ASSUME NEW q \in Request, req'[q].pc \in EditStep, req'[q].alone
            PROVE  req[q].account # a
        <5>1. q # p /\ Editing(req[q].account) = {q}
          BY <3>0, <4>5 DEF LoneEdits
        <5>2. QED
          BY <4>1, <5>1 DEF Editing
      <4>6. QED
        BY <3>0, <4>2, <4>4, <4>5 DEF ChargesOf
    <3>4. CASE WriteInvoiceStatus(p)
      <4>1. \A b \in Account : /\ invoices'[b].charges = invoices[b].charges
                               /\ invoices'[b].total = invoices[b].total
        BY <3>4 DEF WriteInvoiceStatus, TypeOK, Invoice, NoInvoice
      <4>2. UNCHANGED exact
        BY <3>4 DEF WriteInvoiceStatus
      <4>3. QED
        BY <3>0, <4>1, <4>2 DEF TotalsSettle, ChargesOf, TypeOK
    <3>5. QED
      BY <1>2, <3>1, <3>2, <3>3, <3>4, InvoiceSteps
  <2>4. LoneEdits'
    <3>1. ASSUME NEW q \in Request, req'[q].pc \in EditStep, req'[q].alone
          PROVE  /\ Editing(req[q].account)' = {q}
                 /\ req'[q].total = Edited(req[q], ChargesOf(req[q].account))'
      BY <2>1, <2>3, <3>1, LoneEditsKept
    <3>2. QED
      BY <3>1 DEF LoneEdits
  <2>5. QED
    BY <2>2, <2>3, <2>4
<1>3. CASE Next /\ ~(\E p \in Request : RequestStep(p))
  <2>1. UNCHANGED <<req, removed>>
    BY <1>3, OtherSteps
  <2>2. /\ TotalsSettle'
        /\ \A q \in Request : req[q].pc \in EditStep =>
               ChargesOf(req[q].account)' = ChargesOf(req[q].account)
    <3>1. CASE Leaves
      BY <2>1, <3>1 DEF Leaves, TotalsSettle, ChargesOf
    <3>2. CASE ~HasInvoice(Company) /\ CreateInvoice(Company)
      <4>1. \A q \in Request : req[q].pc \in EditStep =>
                req[q].account \in Account /\ HasInvoice(req[q].account)
        BY DEF TypeOK, Local, RequestTyped
      <4>2. QED
        BY <2>1, <3>2, <4>1, AccountTypes, CreateKeepsCharges DEF ChargesOf
    <3>3. QED
      BY <1>3, <3>1, <3>2, OtherSteps
  <2>3. LoneEdits'
    BY <2>1, <2>2
    DEF LoneEdits, Editing, Edited, WithLine, WithoutLines, WithNights
  <2>4. RemovalsRemove'
    BY <2>1 DEF RemovalsRemove
  <2>5. QED
    BY <2>2, <2>3, <2>4
<1>4. QED
  BY <1>1, <1>2, <1>3, BeginsKeepsTotals

(***************************************************************************)
(* Transactions that edit an invoice at the same time may leave a total    *)
(* that misses a line; an edit that overlaps no other sets it right.       *)
(***************************************************************************)
THEOREM TotalsAlwaysSettle == Spec => []TotalsSettle
<1>1. Init => TotalsInv
  BY DEF Init, TotalsInv, TotalsSettle, LoneEdits, RemovalsRemove, Idle, EditStep
<1>2. TotalsInv => TotalsSettle
  BY DEF TotalsInv
<1>3. QED
  BY <1>1, <1>2, FolioTypeCorrect, TotalsNext, PTL DEF Spec

-------------------------------------------------------------------------------
(***************************************************************************)
(* Lines.  A request bills only items of the booking it looked the invoice *)
(* up for, and an item keeps its order and its booking for ever.           *)
(***************************************************************************)
BillsOwn(r) ==
    /\ r.pc = "read_order" => Placed(r.order) /\ orders[r.order].booking = r.booking
    /\ r.bill # {} => r.pc \in {"find_invoice", "append", "append_commit"}
    /\ r.pc \in {"append", "append_commit"} =>
          r.booking \in Booking /\ r.account = AccountOf(r.booking)
    /\ r.pc = "append_commit" => r.item \in r.bill
    /\ \A i \in r.bill : Inserted(i) /\ BookingOf(i) = r.booking

RequestsBillOwn == \A p \in Request : BillsOwn(req[p])

BilledInv == BilledToTheGuest /\ RequestsBillOwn

\* Rows are never rewritten: an order keeps its booking, an item its order.
RowsKept ==
    /\ \A o \in Order : Placed(o) => Placed(o)' /\ orders'[o].booking = orders[o].booking
    /\ \A i \in Item : Inserted(i) => items'[i] = items[i]
    /\ removed \subseteq removed'

LEMMA InsertsKeepRows ==
    ASSUME TypeOK, NEW o \in Order, NEW b, NEW new \in SUBSET Fresh,
           InsertItems(o, b, new),
           \/ InsertOrderRow(o, b)
           \/ UNCHANGED orders,
           UNCHANGED removed
    PROVE  RowsKept
<1>1. \A i \in Item : Inserted(i) => items'[i] = items[i]
  BY DEF InsertItems, Fresh, TypeOK
<1>2. \A q \in Order : Placed(q) => Placed(q)' /\ orders'[q].booking = orders[q].booking
  BY DEF InsertOrderRow, Placed, TypeOK
<1>3. QED
  BY <1>1, <1>2 DEF RowsKept

LEMMA RowsAreKept ==
    ASSUME TypeOK, [Next]_vars
    PROVE  RowsKept
<1>1. CASE UNCHANGED <<orders, items>> /\ removed \subseteq removed'
  BY <1>1 DEF RowsKept, Placed
<1>2. ASSUME NEW p \in Request, InsertOrder(p) \/ AddItems(p) PROVE RowsKept
  <2>1. CASE UNCHANGED <<orders, items>>
    BY <1>1, <1>2, <2>1 DEF InsertOrder, AddItems
  <2>2. CASE ~UNCHANGED <<orders, items>>
    <3>1. PICK o, new, b :
            /\ o \in Order /\ new \in SUBSET Fresh
            /\ InsertItems(o, b, new)
            /\ \/ InsertOrderRow(o, b)
               \/ UNCHANGED orders
      BY <1>2, <2>2 DEF InsertOrder, AddItems
    <3>2. QED
      BY <1>2, <3>1, InsertsKeepRows DEF InsertOrder, AddItems
  <2>3. QED
    BY <2>1, <2>2
<1>3. CASE PlaceWalkInOrder
  <2>1. PICK o \in Order, new \in SUBSET Fresh :
          InsertOrderRow(o, NoBooking) /\ InsertItems(o, NoBooking, new)
    BY <1>3 DEF PlaceWalkInOrder
  <2>2. QED
    BY <1>3, <2>1, InsertsKeepRows DEF PlaceWalkInOrder
<1>4. CASE CloseOrdersForDay
  <2>1. \A o \in Order : Placed(o) => Placed(o)' /\ orders'[o].booking = orders[o].booking
    BY <1>4 DEF CloseOrdersForDay, Placed, TypeOK, OrderRow, Unplaced
  <2>2. QED
    BY <1>4, <2>1 DEF CloseOrdersForDay, RowsKept
<1>5. ASSUME NEW p \in Request, RequestStep(p), ~InsertOrder(p), ~AddItems(p)
      PROVE  UNCHANGED <<orders, items>> /\ removed \subseteq removed'
  BY <1>5 DEF RequestStep, ConfirmBooking, GenerateForBooking, PlaceOrder,
         ReadOrder, FindInvoice, AppendOrderLineItem, CommitLine,
         RemoveItem, DeleteItem, RemoveOrderLineItem, CommitRemoval,
         RecalculateRoomCharge, CommitRoom, UpdateInvoiceStatus, WriteInvoiceStatus
<1>6. (\E b \in Booking : MoveStay(b)) \/ GenerateCorporateInvoice \/ UNCHANGED vars
      => UNCHANGED <<orders, items>> /\ removed \subseteq removed'
  BY DEF MoveStay, GenerateCorporateInvoice, vars
<1>7. QED
  BY <1>1, <1>2, <1>3, <1>4, <1>5, <1>6 DEF Next

\* Invoices are never deleted.
LEMMA InvoicesStay ==
    ASSUME TypeOK, [Next]_vars
    PROVE  \A a \in Account : HasInvoice(a) => HasInvoice(a)'
<1>1. CASE UNCHANGED vars \/ Leaves
  BY <1>1 DEF vars, Leaves, HasInvoice
<1>2. ASSUME NEW p \in Request, RequestStep(p)
      PROVE  \A a \in Account : HasInvoice(a) => HasInvoice(a)'
  <2>0. req[p] \in Local /\ RequestTyped(req[p])
    BY DEF TypeOK
  <2>1. CASE Creates(p)
    BY <2>0, <2>1, AccountTypes, CreateInvoiceTyped DEF Creates, At, RequestTyped
  <2>2. CASE Commits(p)
    <3>1. \A a \in Account : invoices'[a].status = invoices[a].status
      BY <2>2 DEF Commits, CommitEdit, TypeOK, Invoice, NoInvoice
    <3>2. \A a \in Account : HasInvoice(a) => invoices[a].status # "none"
      BY InvoiceTyped DEF Invoice, InvoiceStatus
    <3>3. QED
      BY <3>1, <3>2 DEF HasInvoice, NoInvoice
  <2>3. CASE WriteInvoiceStatus(p)
    <3>1. PICK a \in Account : a = req[p].account /\ HasInvoice(a)
      BY <2>0, <2>3 DEF WriteInvoiceStatus, At, RequestTyped, Local
    <3>2. invoices'[a].status = req[p].to /\ req[p].to \in InvoiceStatus
      BY <2>0, <2>3, <3>1, InvoiceTyped DEF WriteInvoiceStatus, TypeOK, Invoice, Local
    <3>3. \A b \in Account \ {a} : invoices'[b] = invoices[b]
      BY <2>3, <3>1 DEF WriteInvoiceStatus, TypeOK
    <3>4. QED
      BY <3>2, <3>3 DEF HasInvoice, NoInvoice, InvoiceStatus
  <2>4. QED
    BY <1>1, <1>2, <2>1, <2>2, <2>3, InvoiceSteps
<1>3. CASE Next /\ ~(\E p \in Request : RequestStep(p))
  BY <1>1, <1>3, OtherSteps, AccountTypes, CreateInvoiceTyped
<1>4. QED
  BY <1>1, <1>2, <1>3

\* An item stays what it was ordered as, and for the booking it was.
LEMMA ItemKept ==
    ASSUME TypeOK, RowsKept, NEW i \in Item, Inserted(i)
    PROVE  Inserted(i)' /\ BookingOf(i)' = BookingOf(i)
<1>1. items'[i] = items[i] /\ items[i] \in Order /\ Placed(items[i])
  BY DEF RowsKept, TypeOK, Inserted
<1>2. QED
  BY <1>1 DEF RowsKept, Inserted, BookingOf

LEMMA BillsOwnStays ==
    ASSUME TypeOK, RowsKept, NEW r \in Local, r.pc = "read_order" => r.order \in Order,
           BillsOwn(r)
    PROVE  BillsOwn(r)'
<1>1. \A i \in r.bill : Inserted(i)' /\ BookingOf(i)' = r.booking
  BY ItemKept DEF BillsOwn, Local
<1>2. r.pc = "read_order" => Placed(r.order)' /\ orders'[r.order].booking = r.booking
  BY DEF BillsOwn, RowsKept
<1>3. QED
  BY <1>1, <1>2 DEF BillsOwn

\* After an item, a request bills the others it had.
LEMMA BillsRest ==
    ASSUME NEW r \in Local, BillsOwn(r), r.pc \in {"append", "append_commit"},
           NEW i \in Item, UNCHANGED <<orders, items>>
    PROVE  BillsOwn(NextItem(r, i))'
<1>1. CASE r.bill = {i}
  BY <1>1 DEF NextItem, Idle, BillsOwn
<1>2. CASE r.bill # {i}
  <2>1. PICK local : local = NextItem(r, i)
    OBVIOUS
  <2>2. /\ local.pc = "append" /\ local.bill = r.bill \ {i}
        /\ local.booking = r.booking /\ local.account = r.account
    BY <1>2, <2>1 DEF NextItem, Local
  <2>3. BillsOwn(local)'
    BY <2>2 DEF BillsOwn, Inserted, BookingOf
  <2>4. NextItem(r, i)' = local
    BY <2>1 DEF NextItem, Idle, RoomOnly
  <2>5. QED
    BY <2>3, <2>4
<1>3. QED
  BY <1>1, <1>2

LEMMA BillsOwnNext ==
    ASSUME TypeOK, RequestsBillOwn, NEW p \in Request, RequestStep(p)
    PROVE  BillsOwn(req[p])'
<1>0. /\ req \in [Request -> Local] /\ req[p] \in Local /\ RequestTyped(req[p])
      /\ BillsOwn(req[p])
  BY DEF TypeOK, RequestsBillOwn
<1>1. ASSUME NEW local, req'[p] = local, local.bill = {},
             local.pc \notin {"read_order", "append", "append_commit"}
      PROVE  BillsOwn(req[p])'
  BY <1>1 DEF BillsOwn
<1>2. Return(p) => BillsOwn(req[p])'
  <2>1. PICK local : local = Idle
    OBVIOUS
  <2>2. local.pc = "idle" /\ local.bill = {}
    BY <2>1 DEF Idle
  <2>3. Return(p) => req'[p] = local
    BY <1>0, <2>1 DEF Return, Goto
  <2>4. QED
    BY <1>1, <2>2, <2>3
<1>3. ASSUME NEW local, Goto(p, local) PROVE req'[p] = local
  BY <1>0, <1>3 DEF Goto
<1>4. CASE ConfirmBooking(p)
  <2>1. PICK b \in Booking :
          IF b \in CompanyGuest THEN UNCHANGED req
          ELSE Goto(p, [Idle EXCEPT !.pc = "generate", !.booking = b])
    BY <1>4 DEF ConfirmBooking
  <2>2. CASE UNCHANGED req
    BY <1>1, <1>4, <2>2 DEF ConfirmBooking, Starts, Idle
  <2>3. CASE ~UNCHANGED req
    <3>1. PICK local : local = [Idle EXCEPT !.pc = "generate", !.booking = b]
      OBVIOUS
    <3>2. QED
      BY <1>1, <1>3, <2>1, <2>3, <3>1 DEF Idle
  <2>4. QED
    BY <2>2, <2>3
<1>5. CASE PlaceOrder(p)
  <2>1. PICK b, local : /\ local = [Idle EXCEPT !.pc = "insert_order", !.booking = b]
                        /\ Goto(p, local)
    BY <1>5 DEF PlaceOrder
  <2>2. local.pc = "insert_order" /\ local.bill = {}
    BY <2>1 DEF Idle
  <2>3. QED
    BY <1>1, <1>3, <2>1, <2>2
<1>6. CASE RemoveItem(p)
  <2>1. PICK o, i, b, local :
          /\ local = [Idle EXCEPT !.pc = "delete_item", !.order = o, !.item = i,
                                  !.booking = b]
          /\ Goto(p, local)
    BY <1>6 DEF RemoveItem
  <2>2. local.pc = "delete_item" /\ local.bill = {}
    BY <2>1 DEF Idle
  <2>3. QED
    BY <1>1, <1>3, <2>1, <2>2
<1>7. CASE UpdateInvoiceStatus(p)
  <2>1. PICK a, to, local :
          /\ local = [Idle EXCEPT !.pc = "invoice_status", !.account = a, !.to = to]
          /\ Goto(p, local)
    BY <1>7 DEF UpdateInvoiceStatus
  <2>2. local.pc = "invoice_status" /\ local.bill = {}
    BY <2>1 DEF Idle
  <2>3. QED
    BY <1>1, <1>3, <2>1, <2>2
<1>8. CASE DeleteItem(p)
  <2>1. CASE Return(p)
    BY <1>2, <2>1
  <2>2. CASE ~Return(p)
    <3>1. PICK local : local = [req[p] EXCEPT !.pc = "remove_line"]
      OBVIOUS
    <3>2. local.pc = "remove_line" /\ local.bill = {}
      BY <1>0, <1>8, <3>1 DEF DeleteItem, At, BillsOwn, Local
    <3>3. QED
      BY <1>1, <1>3, <1>8, <2>2, <3>1, <3>2 DEF DeleteItem
  <2>3. QED
    BY <2>1, <2>2
<1>9. CASE RemoveOrderLineItem(p)
  <2>1. CASE Return(p)
    BY <1>2, <2>1
  <2>2. CASE ~Return(p)
    <3>1. PICK a, local, charges :
            /\ local = [req[p] EXCEPT !.pc = "remove_commit", !.account = a]
            /\ BeginEdit(p, local, charges)
      BY <1>9, <2>2 DEF RemoveOrderLineItem
    <3>2. local.pc = "remove_commit" /\ local.bill = {}
      BY <1>0, <1>9, <3>1 DEF RemoveOrderLineItem, At, BillsOwn, Local
    <3>3. PICK x : req'[p] = [local EXCEPT !.total = charges, !.alone = x]
      BY <3>1 DEF BeginEdit
    <3>4. req'[p].pc = "remove_commit" /\ req'[p].bill = {}
      BY <3>2, <3>3
    <3>5. QED
      BY <1>1, <3>4
  <2>3. QED
    BY <2>1, <2>2
<1>10. CASE RecalculateRoomCharge(p)
  <2>1. PICK b, n, local, charges :
          /\ local = [Idle EXCEPT !.pc = "room_commit", !.account = b, !.nights = n]
          /\ BeginEdit(p, local, charges)
    BY <1>10 DEF RecalculateRoomCharge
  <2>2. local.pc = "room_commit" /\ local.bill = {}
    BY <2>1 DEF Idle
  <2>3. PICK x : req'[p] = [local EXCEPT !.total = charges, !.alone = x]
    BY <2>1 DEF BeginEdit
  <2>4. req'[p].pc = "room_commit" /\ req'[p].bill = {}
    BY <2>2, <2>3
  <2>5. QED
    BY <1>1, <2>4
<1>11. CASE InsertOrder(p)
  <2>1. CASE Return(p)
    BY <1>2, <2>1
  <2>2. CASE ~Return(p)
    <3>1. PICK o, local :
            /\ o \in Order /\ InsertOrderRow(o, req[p].booking)
            /\ local = [req[p] EXCEPT !.pc = "read_order", !.order = o]
            /\ Goto(p, local)
      BY <1>11, <2>2 DEF InsertOrder
    <3>2. /\ local.pc = "read_order" /\ local.order = o
          /\ local.booking = req[p].booking /\ local.bill = {}
      BY <1>0, <1>11, <3>1 DEF InsertOrder, At, BillsOwn, Local
    <3>3. Placed(o)' /\ orders'[o].booking = local.booking
      BY <3>1, <3>2 DEF InsertOrderRow, Placed, Unplaced, TypeOK
    <3>4. QED
      BY <1>3, <3>1, <3>2, <3>3 DEF BillsOwn
  <2>3. QED
    BY <2>1, <2>2
<1>12. CASE ReadOrder(p)
  <2>1. CASE Return(p)
    BY <1>2, <2>1
  <2>2. CASE ~Return(p)
    <3>1. PICK local :
            /\ local = [req[p] EXCEPT !.pc = "find_invoice",
                                      !.bill = ItemsOf(req[p].order)]
            /\ Goto(p, local)
      BY <1>12, <2>2 DEF ReadOrder
    <3>2. /\ local.pc = "find_invoice" /\ local.bill = ItemsOf(req[p].order)
          /\ local.booking = req[p].booking
      BY <1>0, <3>1 DEF Local
    <3>3. \A i \in ItemsOf(req[p].order) : Inserted(i) /\ BookingOf(i) = req[p].booking
      BY <1>0, <1>12, FolioAssumption
      DEF ReadOrder, At, BillsOwn, ItemsOf, Inserted, BookingOf, RequestTyped
    <3>4. UNCHANGED <<orders, items>>
      BY <1>12 DEF ReadOrder
    <3>5. QED
      BY <1>3, <3>1, <3>2, <3>3, <3>4 DEF BillsOwn, Inserted, BookingOf
  <2>3. QED
    BY <2>1, <2>2
<1>13. CASE AddItems(p)
  <2>1. PICK o, new :
          /\ o \in Order /\ new \in SUBSET Fresh
          /\ InsertItems(o, orders[o].booking, new)
          /\ IF orders[o].booking = NoBooking THEN UNCHANGED req
             ELSE Goto(p, [Idle EXCEPT !.pc = "find_invoice", !.order = o,
                               !.booking = orders[o].booking, !.bill = new])
    BY <1>13 DEF AddItems
  <2>2. CASE UNCHANGED req
    BY <1>1, <1>13, <2>2 DEF AddItems, Starts, Idle
  <2>3. CASE ~UNCHANGED req
    <3>1. PICK local : local = [Idle EXCEPT !.pc = "find_invoice", !.order = o,
                                    !.booking = orders[o].booking, !.bill = new]
      OBVIOUS
    <3>2. /\ local.pc = "find_invoice" /\ local.bill = new
          /\ local.booking = orders[o].booking
      BY <3>1 DEF Idle
    <3>3. \A i \in new : Inserted(i)' /\ BookingOf(i)' = orders[o].booking
      BY <1>13, <2>1, FolioAssumption
      DEF AddItems, InsertItems, Inserted, BookingOf, Fresh
    <3>4. req'[p] = local
      BY <1>3, <2>1, <2>3, <3>1
    <3>5. QED
      BY <3>2, <3>3, <3>4 DEF BillsOwn
  <2>4. QED
    BY <2>2, <2>3
<1>14. CASE FindInvoice(p)
  <2>1. CASE Return(p)
    BY <1>2, <2>1
  <2>2. CASE ~Return(p)
    <3>1. PICK local :
            /\ local = [req[p] EXCEPT !.pc = "append",
                                      !.account = AccountOf(req[p].booking)]
            /\ Goto(p, local)
      BY <1>14, <2>2 DEF FindInvoice
    <3>2. /\ local.pc = "append" /\ local.bill = req[p].bill
          /\ local.booking = req[p].booking
          /\ local.account = AccountOf(req[p].booking)
      BY <1>0, <3>1 DEF Local
    <3>3. UNCHANGED <<orders, items>> /\ req[p].booking \in Booking
      BY <1>0, <1>14 DEF FindInvoice, At, RequestTyped
    <3>4. QED
      BY <1>0, <1>3, <3>1, <3>2, <3>3 DEF BillsOwn, Inserted, BookingOf
  <2>3. QED
    BY <2>1, <2>2
<1>15. CASE AppendOrderLineItem(p)
  <2>1. PICK i \in req[p].bill :
          \/ Goto(p, NextItem(req[p], i))
          \/ \E charges : BeginEdit(p, [req[p] EXCEPT !.pc = "append_commit", !.item = i],
                                    charges)
    BY <1>15 DEF AppendOrderLineItem
  <2>2. /\ i \in Item /\ UNCHANGED <<orders, items>> /\ req[p].pc = "append"
    BY <1>0, <1>15 DEF AppendOrderLineItem, At, Local
  <2>3. CASE Goto(p, NextItem(req[p], i))
    <3>1. PICK local : local = NextItem(req[p], i)
      OBVIOUS
    <3>2. BillsOwn(local)'
      <4>1. PICK r : r = req[p]
        OBVIOUS
      <4>2. BillsOwn(NextItem(r, i))'
        BY <1>0, <2>2, <4>1, BillsRest
      <4>3. NextItem(r, i)' = local
        BY <3>1, <4>1 DEF NextItem, Idle, RoomOnly
      <4>4. QED
        BY <4>2, <4>3
    <3>3. QED
      BY <1>3, <2>3, <3>1, <3>2
  <2>4. CASE ~Goto(p, NextItem(req[p], i))
    <3>1. PICK charges, local :
            /\ local = [req[p] EXCEPT !.pc = "append_commit", !.item = i]
            /\ BeginEdit(p, local, charges)
      BY <2>1, <2>4
    <3>2. PICK x : req'[p] = [local EXCEPT !.total = charges, !.alone = x]
      BY <3>1 DEF BeginEdit
    <3>3. /\ local.pc = "append_commit" /\ local.bill = req[p].bill /\ local.item = i
          /\ local.booking = req[p].booking /\ local.account = req[p].account
      BY <1>0, <3>1 DEF Local
    <3>4. /\ req'[p].pc = "append_commit" /\ req'[p].bill = req[p].bill
          /\ req'[p].item = i /\ req'[p].booking = req[p].booking
          /\ req'[p].account = req[p].account
      BY <3>2, <3>3
    <3>5. QED
      BY <1>0, <2>2, <3>4 DEF BillsOwn, Inserted, BookingOf
  <2>5. QED
    BY <2>3, <2>4
<1>16. CASE CommitLine(p)
  <2>1. PICK r, i, local : r = req[p] /\ i = req[p].item /\ local = NextItem(req[p], i)
    OBVIOUS
  <2>2. i \in Item /\ r.pc = "append_commit" /\ UNCHANGED <<orders, items>>
    BY <1>0, <1>16, <2>1 DEF CommitLine, At, RequestTyped
  <2>3. BillsOwn(NextItem(r, i))'
    BY <1>0, <2>1, <2>2, BillsRest
  <2>4. NextItem(r, i)' = local
    BY <2>1 DEF NextItem, Idle, RoomOnly
  <2>5. req'[p] = local
    BY <1>3, <1>16, <2>1 DEF CommitLine
  <2>6. QED
    BY <2>3, <2>4, <2>5
<1>17. CASE GenerateForBooking(p) \/ CommitRemoval(p) \/ CommitRoom(p) \/ WriteInvoiceStatus(p)
  BY <1>2, <1>17 DEF GenerateForBooking, CommitRemoval, CommitRoom, WriteInvoiceStatus
<1>18. QED
  BY <1>4, <1>5, <1>6, <1>7, <1>8, <1>9, <1>10, <1>11, <1>12, <1>13, <1>14,
     <1>15, <1>16, <1>17 DEF RequestStep

LEMMA RequestsBillOwnNext ==
    ASSUME TypeOK, RequestsBillOwn, [Next]_vars
    PROVE  RequestsBillOwn'
<1>1. RowsKept
  BY RowsAreKept
<1>2. ASSUME NEW q \in Request, req'[q] = req[q] PROVE BillsOwn(req[q])'
  <2>1. PICK r : r = req[q]
    OBVIOUS
  <2>2. r \in Local /\ BillsOwn(r) /\ (r.pc = "read_order" => r.order \in Order)
    BY <2>1 DEF TypeOK, RequestTyped, RequestsBillOwn
  <2>3. BillsOwn(r)'
    BY <1>1, <2>2, BillsOwnStays
  <2>4. QED
    BY <1>2, <2>1, <2>3
<1>3. ASSUME NEW p \in Request, RequestStep(p), NEW q \in Request, q # p
      PROVE  BillsOwn(req[q])'
  <2>1. PICK a, r : a \in BOOLEAN /\ r = [req[q] EXCEPT !.alone = a] /\ req'[q] = r
    BY <1>3, OthersKeep
  <2>2. /\ r \in Local /\ r.pc = req[q].pc /\ r.order = req[q].order
        /\ r.booking = req[q].booking /\ r.bill = req[q].bill
        /\ r.account = req[q].account /\ r.item = req[q].item
    BY <2>1 DEF TypeOK, Local
  <2>3. BillsOwn(r) /\ (r.pc = "read_order" => r.order \in Order)
    BY <2>2 DEF TypeOK, RequestTyped, RequestsBillOwn, BillsOwn
  <2>4. BillsOwn(r)'
    BY <1>1, <2>2, <2>3, BillsOwnStays
  <2>5. QED
    BY <2>1, <2>4
<1>4. CASE \E p \in Request : RequestStep(p)
  BY <1>3, <1>4, BillsOwnNext DEF RequestsBillOwn
<1>5. CASE UNCHANGED req
  BY <1>2, <1>5 DEF RequestsBillOwn
<1>6. QED
  BY <1>4, <1>5, OtherSteps DEF vars

\* The only line that appears is the one of the item being billed.
LEMMA LinesAppear ==
    ASSUME TypeOK, [Next]_vars, NEW a \in Account, NEW i \in Item,
           invoices'[a].charges.lines[i] > 0
    PROVE  \/ invoices[a].charges.lines[i] > 0
           \/ \E p \in Request :
                At(p, "append_commit") /\ req[p].account = a /\ req[p].item = i
<1>1. CASE UNCHANGED invoices
  BY <1>1
<1>2. ASSUME NEW b \in Account, CreateInvoice(b)
      PROVE  invoices[a].charges.lines[i] > 0
  <2>1. PICK n : invoices' = [invoices EXCEPT ![b] = NewInvoice(n)]
    BY <1>2 DEF CreateInvoice
  <2>2. a # b
    BY <2>1 DEF NewInvoice, RoomOnly, TypeOK
  <2>3. QED
    BY <2>1, <2>2 DEF TypeOK
<1>3. ASSUME NEW p \in Request, RequestStep(p)
      PROVE  \/ invoices[a].charges.lines[i] > 0
             \/ At(p, "append_commit") /\ req[p].account = a /\ req[p].item = i
  <2>0. req[p] \in Local /\ RequestTyped(req[p])
    BY DEF TypeOK
  <2>1. CASE Leaves
    BY <2>1 DEF Leaves
  <2>2. CASE Creates(p)
    BY <1>2, <2>0, <2>2, AccountTypes DEF Creates, At, RequestTyped
  <2>3. CASE WriteInvoiceStatus(p)
    BY <2>3 DEF WriteInvoiceStatus, TypeOK, Invoice, NoInvoice
  <2>4. CASE Commits(p)
    <3>1. CASE a # req[p].account
      BY <2>4, <3>1 DEF Commits, CommitEdit, TypeOK
    <3>2. CASE a = req[p].account
      <4>1. HasInvoice(a) /\ req[p].pc \in EditStep
        BY <2>0, <2>4, <3>2 DEF Commits, RequestTyped
      <4>2. invoices[a] \in Invoice /\ invoices[a].charges \in Charges
        BY <4>1, InvoiceTyped
      <4>3. invoices'[a].charges = Edited(req[p], ChargesOf(a))
        BY <2>4, <3>2, <4>2 DEF Commits, CommitEdit, TypeOK, Invoice
      <4>4. CASE At(p, "append_commit")
        <5>1. invoices'[a].charges = WithLine(req[p].item, ChargesOf(a))
          BY <4>3, <4>4 DEF Edited, At
        <5>2. QED
          BY <3>2, <4>2, <4>4, <5>1 DEF WithLine, ChargesOf, Charges
      <4>5. CASE At(p, "remove_commit")
        <5>1. invoices'[a].charges = WithoutLines(req[p].item, ChargesOf(a))
          BY <4>3, <4>5 DEF Edited, At
        <5>2. QED
          BY <4>2, <5>1 DEF WithoutLines, ChargesOf, Charges
      <4>6. CASE At(p, "room_commit")
        <5>1. invoices'[a].charges = WithNights(req[p].nights, ChargesOf(a))
          BY <4>3, <4>6 DEF Edited, At
        <5>2. QED
          BY <4>2, <5>1 DEF WithNights, ChargesOf, Charges
      <4>7. QED
        BY <4>1, <4>4, <4>5, <4>6 DEF EditStep, At
    <3>3. QED
      BY <3>1, <3>2
  <2>5. QED
    BY <1>3, <2>1, <2>2, <2>3, <2>4, InvoiceSteps
<1>4. CASE Next /\ ~(\E p \in Request : RequestStep(p))
  BY <1>1, <1>2, <1>4, OtherSteps, AccountTypes DEF Leaves
<1>5. QED
  BY <1>1, <1>3, <1>4 DEF vars

LEMMA BilledNext ==
    ASSUME TypeOK, BilledInv, [Next]_vars
    PROVE  BilledInv'
<1>1. ASSUME NEW a \in Account, NEW i \in Item, invoices'[a].charges.lines[i] > 0
      PROVE  Inserted(i)' /\ BookingOf(i)' # NoBooking /\ AccountOf(BookingOf(i)') = a
  <2>1. Inserted(i) /\ BookingOf(i) # NoBooking /\ AccountOf(BookingOf(i)) = a
    <3>1. CASE invoices[a].charges.lines[i] > 0
      BY <3>1 DEF BilledInv, BilledToTheGuest
    <3>2. ASSUME NEW p \in Request, At(p, "append_commit"), req[p].account = a,
                 req[p].item = i
          PROVE  Inserted(i) /\ BookingOf(i) # NoBooking /\ AccountOf(BookingOf(i)) = a
      BY <3>2, FolioAssumption DEF BilledInv, RequestsBillOwn, BillsOwn, At
    <3>3. QED
      BY <1>1, <3>1, <3>2, LinesAppear
  <2>2. QED
    BY <2>1, RowsAreKept, ItemKept
<1>2. BilledToTheGuest'
  BY <1>1 DEF BilledToTheGuest, AccountOf
<1>3. QED
  BY <1>2, RequestsBillOwnNext DEF BilledInv

(***************************************************************************)
(* Whatever orders, additions and edits overlap, an item is only billed    *)
(* to whoever pays for the booking that it was ordered for.                *)
(***************************************************************************)
THEOREM AlwaysBilledToTheGuest == Spec => []BilledToTheGuest
<1>1. Init => BilledInv
  BY DEF Init, BilledInv, BilledToTheGuest, RequestsBillOwn, BillsOwn, Idle,
         NoInvoice, RoomOnly
<1>2. BilledInv => BilledToTheGuest
  BY DEF BilledInv
<1>3. QED
  BY <1>1, <1>2, FolioTypeCorrect, BilledNext, PTL DEF Spec

-------------------------------------------------------------------------------
(***************************************************************************)
(* What was ordered with an invoice there is billed on it.  The request    *)
(* that ordered it finds that invoice again, because invoices stay, and no *)
(* removal of another item takes the line away.                            *)
(***************************************************************************)
OwedHaveInvoice ==
    \A i \in owed :
        BookingOf(i) \in Booking /\ HasInvoice(AccountOf(BookingOf(i)))

OrderedInv == OrderedIsBilled /\ OwedHaveInvoice

\* What is newly owed was ordered with the invoice there, and is to be billed.
LEMMA NewlyOwed ==
    ASSUME TypeOK, [Next]_vars, NEW i \in owed' \ owed
    PROVE  /\ i \in Item /\ ToBeBilled(i)'
           /\ BookingOf(i)' \in Booking /\ HasInvoice(AccountOf(BookingOf(i)'))
<1>0. req \in [Request -> Local] /\ \A p \in Request : req[p] \in Local /\ RequestTyped(req[p])
  BY DEF TypeOK
<1>1. ASSUME NEW o \in Order, NEW b, NEW new \in SUBSET Fresh, InsertItems(o, b, new)
      PROVE  /\ i \in new /\ i \in Item /\ items'[i] = o
             /\ b # NoBooking /\ HasInvoice(AccountOf(b))
  BY <1>1 DEF InsertItems, Fresh
<1>2. ASSUME NEW p \in Request, InsertOrder(p)
      PROVE  /\ i \in Item /\ ToBeBilled(i)'
             /\ BookingOf(i)' \in Booking /\ HasInvoice(AccountOf(BookingOf(i)'))
  <2>1. PICK o, new :
          /\ o \in Order /\ new \in SUBSET Fresh
          /\ InsertOrderRow(o, req[p].booking)
          /\ InsertItems(o, req[p].booking, new)
          /\ Goto(p, [req[p] EXCEPT !.pc = "read_order", !.order = o])
    BY <1>2 DEF InsertOrder
  <2>2. /\ i \in Item /\ items'[i] = o /\ HasInvoice(AccountOf(req[p].booking))
    BY <1>1, <2>1
  <2>3. orders'[o].booking = req[p].booking /\ req[p].booking \in Booking
    BY <1>0, <1>2, <2>1 DEF InsertOrder, InsertOrderRow, At, RequestTyped, TypeOK
  <2>4. req'[p].pc = "read_order" /\ req'[p].order = o
    <3>1. PICK local : local = [req[p] EXCEPT !.pc = "read_order", !.order = o]
      OBVIOUS
    <3>2. local.pc = "read_order" /\ local.order = o
      BY <1>0, <3>1 DEF Local
    <3>3. req'[p] = local
      BY <1>0, <2>1, <3>1 DEF Goto
    <3>4. QED
      BY <3>2, <3>3
  <2>5. QED
    BY <2>2, <2>3, <2>4 DEF ToBeBilled, Bills, At, BookingOf
<1>3. ASSUME NEW p \in Request, AddItems(p)
      PROVE  /\ i \in Item /\ ToBeBilled(i)'
             /\ BookingOf(i)' \in Booking /\ HasInvoice(AccountOf(BookingOf(i)'))
  <2>1. PICK o, new :
          /\ o \in Order /\ new \in SUBSET Fresh /\ Placed(o)
          /\ InsertItems(o, orders[o].booking, new)
          /\ IF orders[o].booking = NoBooking THEN UNCHANGED req
             ELSE Goto(p, [Idle EXCEPT !.pc = "find_invoice", !.order = o,
                               !.booking = orders[o].booking, !.bill = new])
    BY <1>3 DEF AddItems
  <2>2. /\ i \in Item /\ items'[i] = o /\ HasInvoice(AccountOf(orders[o].booking))
        /\ orders[o].booking # NoBooking /\ i \in new
    BY <1>1, <2>1
  <2>3. orders'[o].booking = orders[o].booking /\ orders[o].booking \in Booking
    BY <1>3, <2>1, <2>2, OrderBooking DEF AddItems
  <2>4. i \in req'[p].bill
    <3>1. PICK local : local = [Idle EXCEPT !.pc = "find_invoice", !.order = o,
                                    !.booking = orders[o].booking, !.bill = new]
      OBVIOUS
    <3>2. local.bill = new
      BY <3>1 DEF Idle
    <3>3. req'[p] = local
      BY <1>0, <2>1, <2>2, <3>1 DEF Goto
    <3>4. QED
      BY <2>2, <3>2, <3>3
  <2>5. QED
    BY <2>2, <2>3, <2>4 DEF ToBeBilled, Bills, BookingOf
<1>4. CASE PlaceWalkInOrder
  BY <1>1, <1>4 DEF PlaceWalkInOrder
<1>5. CASE UNCHANGED owed
  BY <1>5
<1>6. ASSUME NEW p \in Request, RequestStep(p), ~InsertOrder(p), ~AddItems(p)
      PROVE  UNCHANGED owed
  BY <1>6 DEF RequestStep, ConfirmBooking, GenerateForBooking, PlaceOrder,
         ReadOrder, FindInvoice, AppendOrderLineItem, CommitLine,
         RemoveItem, DeleteItem, RemoveOrderLineItem, CommitRemoval,
         RecalculateRoomCharge, CommitRoom, UpdateInvoiceStatus, WriteInvoiceStatus
<1>7. (\E b \in Booking : MoveStay(b)) \/ GenerateCorporateInvoice \/ CloseOrdersForDay
         \/ UNCHANGED vars
      => UNCHANGED owed
  BY DEF MoveStay, GenerateCorporateInvoice, CloseOrdersForDay, vars
<1>8. QED
  BY <1>2, <1>3, <1>4, <1>5, <1>6, <1>7 DEF Next

\* A line stays until its item is removed.
LEMMA LinesStay ==
    ASSUME TypeOK, RemovalsRemove, [Next]_vars, NEW a \in Account, NEW i \in Item \ removed,
           invoices[a].charges.lines[i] > 0
    PROVE  invoices'[a].charges.lines[i] > 0
<1>1. CASE UNCHANGED invoices
  BY <1>1
<1>2. ASSUME NEW b \in Account, ~HasInvoice(b), CreateInvoice(b)
      PROVE  invoices'[a].charges.lines[i] > 0
  <2>1. a # b
    BY <1>2 DEF HasInvoice, NoInvoice, RoomOnly
  <2>2. QED
    BY <1>2, <2>1 DEF CreateInvoice, TypeOK
<1>3. ASSUME NEW p \in Request, RequestStep(p)
      PROVE  invoices'[a].charges.lines[i] > 0
  <2>0. req[p] \in Local /\ RequestTyped(req[p])
    BY DEF TypeOK
  <2>1. CASE Leaves
    BY <2>1 DEF Leaves
  <2>2. CASE Creates(p)
    BY <1>2, <2>0, <2>2, AccountTypes DEF Creates, At, RequestTyped
  <2>3. CASE WriteInvoiceStatus(p)
    BY <2>3 DEF WriteInvoiceStatus, TypeOK, Invoice, NoInvoice
  <2>4. CASE Commits(p)
    <3>1. CASE a # req[p].account
      BY <2>4, <3>1 DEF Commits, CommitEdit, TypeOK
    <3>2. CASE a = req[p].account
      <4>1. HasInvoice(a) /\ req[p].pc \in EditStep
        BY <2>0, <2>4, <3>2 DEF Commits, RequestTyped
      <4>2. invoices[a] \in Invoice /\ invoices[a].charges \in Charges
        BY <4>1, InvoiceTyped
      <4>3. invoices'[a].charges = Edited(req[p], ChargesOf(a))
        BY <2>4, <3>2, <4>2 DEF Commits, CommitEdit, TypeOK, Invoice
      <4>4. CASE At(p, "append_commit")
        <5>1. invoices'[a].charges = WithLine(req[p].item, ChargesOf(a))
          BY <4>3, <4>4 DEF Edited, At
        <5>2. QED
          BY <4>2, <5>1 DEF WithLine, ChargesOf, Charges
      <4>5. CASE At(p, "remove_commit")
        <5>1. invoices'[a].charges = WithoutLines(req[p].item, ChargesOf(a))
          BY <4>3, <4>5 DEF Edited, At
        <5>2. req[p].item # i
          BY <4>5 DEF At, RemovalsRemove
        <5>3. QED
          BY <4>2, <5>1, <5>2 DEF WithoutLines, ChargesOf, Charges
      <4>6. CASE At(p, "room_commit")
        <5>1. invoices'[a].charges = WithNights(req[p].nights, ChargesOf(a))
          BY <4>3, <4>6 DEF Edited, At
        <5>2. QED
          BY <4>2, <5>1 DEF WithNights, ChargesOf, Charges
      <4>7. QED
        BY <4>1, <4>4, <4>5, <4>6 DEF EditStep, At
    <3>3. QED
      BY <3>1, <3>2
  <2>5. QED
    BY <1>3, <2>1, <2>2, <2>3, <2>4, InvoiceSteps
<1>4. CASE Next /\ ~(\E p \in Request : RequestStep(p))
  BY <1>1, <1>2, <1>4, OtherSteps, AccountTypes DEF Leaves
<1>5. QED
  BY <1>1, <1>3, <1>4 DEF vars

\* What a request does next while it has items to bill.
LEMMA StepAt ==
    ASSUME NEW p \in Request, RequestStep(p)
    PROVE  /\ req[p].pc = "read_order" => ReadOrder(p)
           /\ req[p].pc \in {"find_invoice", "append", "append_commit"} =>
                FindInvoice(p) \/ AppendOrderLineItem(p) \/ CommitLine(p)
<1>1. ConfirmBooking(p) \/ PlaceOrder(p) \/ AddItems(p) \/ RemoveItem(p)
         \/ RecalculateRoomCharge(p) \/ UpdateInvoiceStatus(p)
      => Starts(p)
  BY DEF ConfirmBooking, PlaceOrder, AddItems, RemoveItem, RecalculateRoomCharge,
         UpdateInvoiceStatus
<1>2. Starts(p) => req[p].pc = "idle"
  BY DEF Starts, Idle
<1>3. /\ GenerateForBooking(p) => req[p].pc = "generate"
      /\ InsertOrder(p) => req[p].pc = "insert_order"
      /\ ReadOrder(p) => req[p].pc = "read_order"
      /\ FindInvoice(p) => req[p].pc = "find_invoice"
      /\ AppendOrderLineItem(p) => req[p].pc = "append"
      /\ CommitLine(p) => req[p].pc = "append_commit"
  BY DEF GenerateForBooking, InsertOrder, ReadOrder, FindInvoice, AppendOrderLineItem,
         CommitLine, At
<1>4. /\ DeleteItem(p) => req[p].pc = "delete_item"
      /\ RemoveOrderLineItem(p) => req[p].pc = "remove_line"
      /\ CommitRemoval(p) => req[p].pc = "remove_commit"
      /\ CommitRoom(p) => req[p].pc = "room_commit"
      /\ WriteInvoiceStatus(p) => req[p].pc = "invoice_status"
  BY DEF DeleteItem, RemoveOrderLineItem, CommitRemoval, CommitRoom,
         WriteInvoiceStatus, At
<1>5. QED
  BY <1>1, <1>2, <1>3, <1>4 DEF RequestStep

\* A request keeps an item that it still has to bill, or writes its line.
LEMMA StillBilled ==
    ASSUME TypeOK, RequestsBillOwn, NEW p \in Request, RequestStep(p),
           NEW i \in Item \ removed, Bills(p, i), HasInvoice(AccountOf(BookingOf(i)))
    PROVE  \/ i \in req'[p].bill
           \/ invoices'[AccountOf(BookingOf(i))].charges.lines[i] > 0
<1>0. /\ req \in [Request -> Local] /\ req[p] \in Local /\ RequestTyped(req[p])
      /\ BillsOwn(req[p])
  BY DEF TypeOK, RequestsBillOwn
<1>1. ASSUME NEW local, Goto(p, local) PROVE req'[p] = local
  BY <1>0, <1>1 DEF Goto
<1>2. ASSUME NEW j, i \in req[p].bill, i # j
      PROVE  i \in NextItem(req[p], j).bill
  BY <1>0, <1>2 DEF NextItem, Local
<1>3. CASE At(p, "read_order") /\ req[p].order = items[i]
  <2>1. ReadOrder(p)
    BY <1>3, StepAt DEF At
  <2>2. i \in ItemsOf(req[p].order)
    BY <1>3 DEF ItemsOf
  <2>3. PICK local : local = [req[p] EXCEPT !.pc = "find_invoice",
                                            !.bill = ItemsOf(req[p].order)]
    OBVIOUS
  <2>4. local.bill = ItemsOf(req[p].order)
    BY <1>0, <2>3 DEF Local
  <2>5. req'[p] = local
    BY <1>1, <2>1, <2>2, <2>3 DEF ReadOrder
  <2>6. QED
    BY <2>2, <2>4, <2>5
<1>4. CASE i \in req[p].bill
  <2>1. FindInvoice(p) \/ AppendOrderLineItem(p) \/ CommitLine(p)
    BY <1>0, <1>4, StepAt DEF BillsOwn
  <2>2. CASE FindInvoice(p)
    <3>1. PICK local : local = [req[p] EXCEPT !.pc = "append",
                                              !.account = AccountOf(req[p].booking)]
      OBVIOUS
    <3>2. HasInvoice(AccountOf(req[p].booking))
      BY <1>0, <1>4 DEF BillsOwn
    <3>3. local.bill = req[p].bill
      BY <1>0, <3>1 DEF Local
    <3>4. req'[p] = local
      BY <1>1, <2>2, <3>1, <3>2 DEF FindInvoice
    <3>5. QED
      BY <1>4, <3>3, <3>4
  <2>3. CASE AppendOrderLineItem(p)
    <3>1. PICK j, local, charges :
            /\ local = [req[p] EXCEPT !.pc = "append_commit", !.item = j]
            /\ \/ j \in removed /\ Goto(p, NextItem(req[p], j))
               \/ BeginEdit(p, local, charges)
      BY <2>3 DEF AppendOrderLineItem
    <3>2. CASE j \in removed /\ Goto(p, NextItem(req[p], j))
      BY <1>1, <1>2, <1>4, <3>2
    <3>3. CASE BeginEdit(p, local, charges)
      <4>1. PICK x : req'[p] = [local EXCEPT !.total = charges, !.alone = x]
        BY <3>3 DEF BeginEdit
      <4>2. local.bill = req[p].bill
        BY <1>0, <3>1 DEF Local
      <4>3. QED
        BY <1>4, <4>1, <4>2
    <3>4. QED
      BY <3>1, <3>2, <3>3
  <2>4. CASE CommitLine(p)
    <3>1. CASE i # req[p].item
      BY <1>1, <1>2, <1>4, <2>4, <3>1 DEF CommitLine
    <3>2. CASE i = req[p].item
      <4>1. PICK a \in Account :
              /\ a = req[p].account /\ a = AccountOf(BookingOf(i)) /\ HasInvoice(a)
        BY <1>0, <1>4, <2>4 DEF CommitLine, At, BillsOwn, Local
      <4>2. invoices[a].charges \in Charges /\ invoices[a] \in Invoice
        BY <4>1, InvoiceTyped
      <4>3. invoices'[a].charges = WithLine(i, invoices[a].charges)
        BY <2>4, <3>2, <4>1, <4>2 DEF CommitLine, CommitEdit, TypeOK, Invoice
      <4>4. QED
        BY <4>1, <4>2, <4>3 DEF WithLine, Charges
    <3>3. QED
      BY <3>1, <3>2
  <2>5. QED
    BY <2>1, <2>2, <2>3, <2>4
<1>5. QED
  BY <1>3, <1>4 DEF Bills

LEMMA OrderedNext ==
    ASSUME TypeOK, RemovalsRemove, BilledInv, OrderedInv, [Next]_vars
    PROVE  OrderedInv'
<1>0. RowsKept
  BY RowsAreKept
<1>1. ASSUME NEW i \in owed
      PROVE  /\ i \in Item /\ BookingOf(i)' = BookingOf(i) /\ items'[i] = items[i]
             /\ BookingOf(i) \in Booking /\ AccountOf(BookingOf(i)) \in Account
             /\ HasInvoice(AccountOf(BookingOf(i)))
  <2>1. i \in Item /\ Inserted(i)
    BY DEF TypeOK
  <2>2. BookingOf(i)' = BookingOf(i) /\ items'[i] = items[i]
    BY <1>0, <2>1, ItemKept DEF RowsKept
  <2>3. QED
    BY <2>1, <2>2, AccountTypes DEF OrderedInv, OwedHaveInvoice
<1>2. OwedHaveInvoice'
  <2>1. ASSUME NEW i \in owed'
        PROVE  /\ BookingOf(i)' \in Booking
               /\ HasInvoice(AccountOf(BookingOf(i)'))
    BY <1>1, NewlyOwed
  <2>2. \A a \in Account : HasInvoice(a) => HasInvoice(a)'
    BY InvoicesStay
  <2>3. ASSUME NEW i \in owed' PROVE HasInvoice(AccountOf(BookingOf(i)))'
    <3>1. PICK a : a = AccountOf(BookingOf(i)')
      OBVIOUS
    <3>2. a \in Account /\ HasInvoice(a)'
      BY <2>1, <2>2, <3>1, AccountTypes
    <3>3. AccountOf(BookingOf(i))' = a
      BY <3>1 DEF AccountOf
    <3>4. QED
      BY <3>2, <3>3 DEF HasInvoice
  <2>4. QED
    BY <2>1, <2>3 DEF OwedHaveInvoice
<1>3. ASSUME NEW i \in owed \ removed
      PROVE  ToBeBilled(i)' \/ invoices'[AccountOf(BookingOf(i))].charges.lines[i] > 0
  <2>1. /\ i \in Item \ removed /\ AccountOf(BookingOf(i)) \in Account
        /\ HasInvoice(AccountOf(BookingOf(i))) /\ items'[i] = items[i]
    BY <1>1, <1>3
  <2>2. CASE invoices[AccountOf(BookingOf(i))].charges.lines[i] > 0
    BY <2>1, <2>2, LinesStay
  <2>3. ASSUME NEW p \in Request, Bills(p, i)
        PROVE  ToBeBilled(i)' \/ invoices'[AccountOf(BookingOf(i))].charges.lines[i] > 0
    <3>1. CASE RequestStep(p)
      BY <2>1, <2>3, <3>1, StillBilled DEF BilledInv, ToBeBilled, Bills
    <3>2. ASSUME NEW q \in Request, RequestStep(q), q # p
          PROVE  ToBeBilled(i)'
      <4>1. PICK a \in BOOLEAN : req'[p] = [req[p] EXCEPT !.alone = a]
        BY <3>2, OthersKeep
      <4>2. /\ req'[p].pc = req[p].pc /\ req'[p].bill = req[p].bill
            /\ req'[p].order = req[p].order
        BY <4>1 DEF TypeOK, Local
      <4>3. QED
        BY <2>1, <2>3, <4>2 DEF ToBeBilled, Bills, At
    <3>3. CASE UNCHANGED req
      BY <2>1, <2>3, <3>3 DEF ToBeBilled, Bills, At
    <3>4. QED
      BY <3>1, <3>2, <3>3, OtherSteps DEF vars
  <2>4. QED
    BY <1>3, <2>2, <2>3 DEF OrderedInv, OrderedIsBilled, ToBeBilled
<1>4. ASSUME NEW i \in owed' \ removed'
      PROVE  ToBeBilled(i)' \/ invoices'[AccountOf(BookingOf(i)')].charges.lines[i] > 0
  <2>1. CASE i \in owed
    <3>1. i \in owed \ removed
      BY <1>0, <1>4, <2>1 DEF RowsKept
    <3>2. QED
      BY <1>1, <1>3, <3>1
  <2>2. CASE i \notin owed
    BY <1>4, <2>2, NewlyOwed
  <2>3. QED
    BY <2>1, <2>2
<1>5. OrderedIsBilled'
  BY <1>4 DEF OrderedIsBilled, AccountOf
<1>6. QED
  BY <1>2, <1>5 DEF OrderedInv

(***************************************************************************)
(* No interleaving of requests loses the line of an item that was ordered  *)
(* when the guest's invoice was there.                                     *)
(***************************************************************************)
THEOREM AlwaysOrderedIsBilled == Spec => []OrderedIsBilled
<1>1. Init => BilledInv /\ OrderedInv /\ TotalsInv
  BY DEF Init, BilledInv, BilledToTheGuest, RequestsBillOwn, BillsOwn, Idle,
         NoInvoice, RoomOnly, OrderedInv, OrderedIsBilled, OwedHaveInvoice,
         TotalsInv, TotalsSettle, LoneEdits, RemovalsRemove, EditStep
<1>2. TotalsInv => RemovalsRemove
  BY DEF TotalsInv
<1>3. OrderedInv => OrderedIsBilled
  BY DEF OrderedInv
<1>4. QED
  BY <1>1, <1>2, <1>3, FolioTypeCorrect, TotalsNext, BilledNext, OrderedNext, PTL DEF Spec
===============================================================================
