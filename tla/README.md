# Lodge Management System: specifications, checks and proofs

The system is one Go process (`src/cmd/api/main.go`) that serves an HTTP API
over a PostgreSQL database. The only in-process state is the cache of
password policies: every handler is a sequence of SQL statements or short transactions, and `net/http`
runs any number of handlers at the same time as two nightly jobs. What is hard
is therefore not any one function but what lies *between* two statements of a
handler: another request, a job, a day that passes, or the death of the process.
No handler takes a row lock, and hardly a write repeats the check its handler
made; the constraints of the migrations (UNIQUE, CHECK, foreign keys) are all that
stands behind the checks.

## Inventory

| Component | State | Operations | Interacts with | Hard part | What makes it correct |
|---|---|---|---|---|---|
| Booking desk (`booking_service.go`, `booking_repository.go`) | `bookings` rows: room, client, company, dates, status, `overstayed` | create individual/corporate, update, change status, clear overstayed, delete | invoices, clients, jobs | check and write are separate statements | no room twice for one night; statuses move along `ValidBookingTransitions`; a confirmed stay is billed once, for its nights |
| Guest bookings (`guest_booking_service.go`) | the same rows | create, create corporate, cancel | approval workflow (goroutine), booking desk | approval outlives a cancellation | a cancelled booking stays cancelled |
| Overdue-checkout job (`overdue_checkout_job.go`) | none of its own | nightly: list, extend, mark, move due date | bookings, invoices, settings | acts on a list that goes stale | only extends; nobody stays overdue |
| Invoices (`invoice_service.go`, `invoice_repository.go`) | `invoices`, `invoice_line_items` | generate (individual, corporate), recalculate, due date, status, append/remove order line | bookings, orders | number by counting; totals by summing under READ COMMITTED | one charge per stay; total is the sum of the lines; paid stays paid |
| Approval workflow (`workflow_service.go`, `workflow_*_repository.go`) | instances, tasks, history | initiate, act on a step | guest bookings, users, templates | several approvers; five separate writes per action | no step skipped; a verdict reaches the booking; an open instance has a task |
| Workflow administration (`workflow_admin_handler.go`) | workflows, steps, transitions | create, update, deactivate, delete | running approvals, by cascade | templates change under an approval | no approval stands on a step that is gone |
| Orders (`order_service.go`, `close_orders_job.go`) | `orders`, `order_items` | place, walk-in, add, remove, close all | bookings, invoices, menu | the order and its invoice line are written apart | what was ordered and not removed is billed, once |
| Staff accounts, password policy (`user_service.go`, `password_policy_service.go`) | `users`, password history, policies and their cache | register, login, lock, unlock, edit, change, reset, update policy | organisations | whole-row read-modify-write | failures are counted; a lock holds; recent passwords are refused |
| Clients (`client_service.go`, `client_repository.go`) | `individual_profiles`, corporate clients, documents | create, edit, delete | guests, bookings | a guest's booking moves the profile to another organisation | a desk sees and edits only its own clients |
| Guest accounts (`guest_auth_service.go`) | `guests` | register, edit, reset password | clients | account and profile are two inserts | an account has its profile; a reset holds |
| Organisations, branches, provisioning | `organizations`, `branches` | provision, edit, delete | staff accounts, everything else by cascade | the main branch is created after the commit | nothing refers to what is gone |
| Organisation settings | two job flags per organisation, and the default row | upsert | both jobs | reads both flags, writes both back | the jobs run for whom they were asked to |
| Menu (`menu_service.go`, `menu_repository.go`) | `menus`, `menu_items` | upsert menu; create, edit, delete items | branches, orders | falls back to a menu that all organisations share | no item on another's menu; the default is never edited |
| Rooms (`room_service.go`, `room_repository.go`) | `rooms` | create, edit, pictures, availability, delete, search by dates | bookings, branches | one question answered by three queries | the three agree; an edit loses no pictures |
| Reviews | `reviews` | submit | bookings | no guest's token passes the route's check | – |
| Back-office accounts, roles, meal plans | one table each | CRUD, lookups, login | – | – | unique keys |
| Audit log, dashboard, HTTP surface, e-mail, configuration | – | append, aggregate, decode, send | – | – | outside what is modelled |

`PROJECT.json` gives every component its sources, its status and, under
`hazards`, the line where each hazard bites and the property that would catch it.

## Modules

| Module | What it is |
|---|---|
| `BookingRules` | statuses, `ValidBookingTransitions`, overlap of stays, nights: what the bookings, the invoices and the ledger share |
| `Reservations` | the bookings table with everything that writes it, and the invoice rows written on the way |
| `RoomLedger` | the abstract promise: a booking holds one room for one stay, holds never overlap, what was let go never comes back |
| `ReservationsLedger` | the refinement mapping from `Reservations` to `RoomLedger` |
| `Folio` | orders and their items, the invoice lines written for them, the totals and the statuses of invoices |
| `Templates` | workflows, steps, transitions and the endpoints that edit them |
| `Approvals` | extends `Templates`: instances, tasks, history and the two handlers that move them, with edits of templates and staff around them |
| `Accounts` | staff accounts, password history, policy and cache |
| `Clients` | guest accounts and client profiles, as registrations, bookings and desks change them |
| `Organisations` | provisioning, organisations, branches, settings |
| `Menus`, `Rooms` | extend `Organisations` with menus and items, with rooms and their lists |
| `Premises` | composes `Menus` and `Rooms`: one database, one pool of requests, and the cascades between them |
| `MCReservations`, `MCFolio`, `MCApprovals`, `MCAccounts`, `MCClients`, `MCPremises` | the modules TLC runs; constants come from each `.cfg` |
| `ReservationsProofs`, `DeskProofs`, `RoomLedgerProofs`, `FolioProofs`, `ClientsProofs`, `AccountsProofs`, `PremisesProofs`, `ApprovalsProofs` | theorems and proofs |

All modules of handlers have one shape: a variable per table, history variables
where a property needs the past, and `req[p]`, the local state of one request
being served. An action named after a function of the code is one statement or
one transaction of it; a definition whose comment begins with "Mistake" is a
plausible bug, kept to show that the properties notice it.

### How `Reservations` corresponds to the code

* `bookings`, `invoices`, `approvals` are the tables (an invoice carries its
  room lines; `approvals` is the set of bookings whose workflow instance is
  open). `history` is a history variable: the statuses a row has had.
* `req[p]` is one request being served: `pc` is the next statement it will
  execute, the other fields are the local variables its handler has read so far.
  `job` is the same for the nightly job. One action is one statement or one
  transaction; the actions of a handler follow the order of its source. A request
  that is refused goes back to `Idle` and has changed nothing.
* A guard that the code checks in an *earlier* statement is in the earlier
  action; the write has no guard, exactly like the SQL. Constraints of the
  migrations are guards of the statement they act on: `check_out > check_in` in
  `ExtendCheckout`, `ON DELETE RESTRICT` in `DeleteRow`, both UNIQUE constraints
  and the foreign keys in `InsertInvoice`.
* `Crash` loses every request and the job between two statements; the tables stay.
* `Handlers` chooses which handlers an instance runs; `Serial = TRUE` starts a
  handler only when no other is in flight. Serial runs show what each handler
  guarantees by itself, concurrent runs what survives interleaving.

Abstractions, all deliberate: whole days; prices and tax reduced to the number
of nights charged; clients, companies and rooms are identities (the inline
creation of a client is in `Clients`); the guests of a corporate request are a
set of rows and their availability checks are read together; the existence
checks and the booking and room reads at the start of each invoice generation
are one step; an approval is one step that ends in confirmed or cancelled (its own
steps are in `Approvals`); `auto_extend_checkout` is set; an invoice line of a deleted company guest keeps
its charge, as the foreign key (`SET NULL`) leaves it. A guest's corporate
booking is the desk's corporate booking: its approval has the task type
`corporate_booking`, which `ProcessAction` never turns into a booking status.

### How `Folio` corresponds to the code

* `orders`, `items`, `removed`, `invoices` are the tables; an item that was
  deleted stays in `items` and is in `removed`, because its identity is never
  reused. `stage` is what orders and invoices see of a booking: pending,
  confirmed (checked in or not) or left. `invoices` has one row per account,
  that is per guest's booking and one for the company: the UNIQUE constraint on
  `booking_id` and the existing-invoice check of `GenerateCorporateInvoice` allow
  no second, as `BilledAtMostOnce` of `Reservations` shows.
* `charges` of an invoice are its lines: the nights of the room line, and the
  number of lines that every item has. `total` is what `subtotal`, `tax` and
  `total` were last set to, represented by the lines that they are the sum of.
  `total = charges` therefore says that the sums are right, with no price in it.
* `PlaceOrder`, `InsertOrder`, `ReadOrder`, `FindInvoice`, `AppendOrderLineItem`,
  `CommitLine` are the statements and transactions of one request to place an
  order; `AddItems` enters the same sequence at `FindInvoice`; `RemoveItem`,
  `DeleteItem`, `RemoveOrderLineItem`, `CommitRemoval` remove an item;
  `RecalculateRoomCharge` and `CommitRoom` are what an edit of dates does;
  `UpdateInvoiceStatus` and `WriteInvoiceStatus` the two statements of a status.
* A transaction that edits an invoice is two steps because PostgreSQL runs it
  under READ COMMITTED: the statement that sums sees the lines committed when it
  starts and those of its own transaction (`BeginEdit`), while its write waits for
  the row and commits afterwards (`CommitEdit`). `alone` records whether another
  transaction on the same invoice was open in between.
* The foreign keys of the migrations are guards or effects: a line cannot be
  inserted for a removed item, an item's row cannot be deleted while a line for
  it is being inserted, and its deletion sets `order_item_id` of its lines to
  NULL (`ON DELETE SET NULL`, migration 000043), after which `WithoutLines` finds
  nothing.
* `owed`, `exact` and `issued` are history variables.

Abstractions: quantities and prices are left out; the items of one request are
billed in any order instead of that of the list; bookings are not deleted and
invoices never are (no code deletes one); a request that dies between two steps
is one that never takes its next step, so there is no action for it: the
properties of the folio are about what is in the tables and who still has work
to do.

### How `Templates` and `Approvals` correspond to the code

* `workflows`, `steps`, `transitions`, `instances`, `tasks`, `history`, `users`
  are the tables, `outcome` what `UpdateEntityStatus` wrote to the booking.
  `votes` and `cutShort` are history: what was acted on, and which instances a
  handler left half way (failed or crashed).
* An edit of a template that exists is two statements (`Read`, then `WriteWorkflow`,
  `WriteStep`, `WriteTransition`), which write columns back as read; inserts and
  deletions are one. The existence and uniqueness checks of a creation are made
  with the insert: there the UNIQUE constraints would catch what a check misses.
* `Initiate` to `RecordInitiation` are the statements of `InitiateWorkflow`;
  `ProcessAction` to `RecordAction` those of `ProcessAction`, in the order of the
  source: instance read, transition and permission, step, task, closing, booking,
  next task, history.
* Deletions cascade as the migrations say (`InstancesDeleted`), over running
  approvals too; a statement that names a row that is gone fails, and its handler
  gives up there. A row deleted from the middle of a history leaves a marker (`Deleted`),
  so that the rows after it keep their places.
* Roles decide who may act (`MayAct`) and who is asked (`FewestTasks`);
  `EditStaff` changes a role or deactivates a user in between.

Left out: names, conditions, task details, priorities, due dates, and the
notifications, whose failure nobody reads.

### How `Accounts` corresponds to the code

* `users[u]` is a row with the columns the handlers decide on, `history` is
  the password history table, `policy` the organisation's row of the policies table
  and `cache` the map `orgPolicies`. `used`, `streak`, `missed` and `calm` are
  history: the passwords a user was really given, the wrong passwords since the last
  success, whose history an insert has missed, and whether no two requests have
  overlapped and none was cut short.
* A handler reads the row, decides on the copy and writes all columns back: `Reads`
  and `WriteUser`. What a stale copy undoes is therefore in the model.
* `Crash` empties the cache and loses the requests; `Tick` moves the clock that
  lockouts run out by.
* `RecordPasswordChange` and `PruneHistory` are the two statements of the method
  `RecordPasswordChange`. Either may fail, and every caller drops the error: a failed
  insert leaves the history without the password, a failed prune or a stop in
  between leaves rows beyond `Keep`, of which `GetRecentByUserID` reads the newest `Keep`.
* `Keep` is 10 in the code; the runs remember two.
* A registration that is not for the organisation makes an account whose row no
  `UPDATE` matches (`WHERE id = $x AND org_id = $y`): `member` is FALSE, its
  changes report success and have no effect.

### How `Clients` corresponds to the code

* `guests` and `profiles` are the tables, `stays` the bookings that were inserted (a
  deleted one leaves its pair: the profile has moved), `cut` the registrations
  that stopped between the two inserts.
* `Register`, `Create`, `CreateIndividualProfile`; `UpdateProfile`, `UpdateGuest`;
  `ResetPassword`, `UpdatePassword`: the statements of the guest's requests. `Book`,
  `UpdateIDPassport`, `RoomTaken`, `InsertBooking`, `UpdateProfileOrg` are what
  `GuestBookingService.Create` does to the profile. `CreateIndividual`,
  `BookForNewClient`, `UpdateIndividual`, `WriteIndividual`, `DeleteIndividual` are
  the desk's.
* E-mails that differ in case or blanks are members of one `Address`: `EmailExists`
  compares exactly, `GetByEmail` does not. A missing ID number (`NoId`, NULL) is
  read as the empty one and written back as such (`Written`).

### How `Organisations`, `Menus`, `Rooms` and `Premises` correspond to the code

* `orgs`, `branches`, `settings`, `menus`, `items`, `rooms` are the tables; `settings`
  and `menus` are indexed by the organisation, with the system's row under `NoOrg`
  (NULL). `stays` are bookings as the lists of rooms read them. `cut`, `asked`,
  `overtaken` and `hung` are history: provisionings cut short, the value of each flag asked
  for last, the flags that a stale write has taken back since, the pictures uploaded last.
* `Provision` is the transaction and `SeedMainBranch` the insert after it, which may fail
  without anyone noticing; `Stopped` is a crash. An organisation whose provisioning was cut short has an owner whose
  password nobody was sent, so it never sends a request (`Working`).
* `Vacate` stands for the removal of the users, rooms and bookings that keep an
  organisation from being deleted (no handler deletes an organisation's users all
  at once): it is external.
* `BranchGiven` is the branch of a desk or of a request: any branch that has ever existed,
  of whatever organisation. Only the foreign key (`BranchKnown`) is asked, and it
  asks that the branch is there, not whose it is.
* `MenusFollow` and `RoomsFollow` are the foreign keys: what goes, and what is set to
  NULL, with an organisation or a branch.
* `Book`, `UpdateStatus` and `DeleteBooking` of `Rooms` change bookings in one step each:
  their statements are in `Reservations`, here only the lists over their rows matter,
  and whether a room has bookings that keep it from being deleted.

## Runs

All deadlock checks are off: calendar, identities and requests are bounded, and
a desk with nothing left to do may stop.

### Runs that pass

| Run | Handlers | Shows |
|---|---|---|
| `ResDesk` | serial: individual, guest, update, status, cancel, delete, clear | `ImplementsLedger` (rooms are given out only where they fit, nothing comes back), `LegalTransitions`, `ConfirmedIsInvoiced`, `RoomChargeMatchesStay` |
| `ResNight` | serial: individual, corporate, status, cancel, delete, clear, job | `OverlapsExplained`: the only overlaps are overstaying guests and colleagues of one company; `DueAtCheckOut`, `JobOnlyExtends` |
| `ResBilling` | two requests, crashes; individual, corporate, guest, approval, status, cancel, delete | `TypeOK`; `StagesInOrder`: stale decisions may break the transition table, but no stage of a stay is ever skipped; `BilledAtMostOnce`: the existing-invoice checks race, and the UNIQUE constraints with the skip of company guests still keep a stay on one invoice |
| `ResOverdue` | individual, status, update and the job, with fairness | `OverdueIsResolved`: no guest stays checked in past check-out for ever |
| `FolioOrders` | two requests: order, walk-in, add, remove, close, for a guest and a company's guest | `TypeOK`, `OrderedIsBilled`: an item ordered with the invoice there gets its line and keeps it; `BilledToTheGuest`: only on the invoice of whoever pays |
| `FolioInvoice` | two requests: order, add, remove, room, status | `TotalsSettle`: the edit that overlaps no other sets the totals right; `IssuedBeforePaid` |
| `ApprovalRace` | two approvers at once on one approval of four steps, with fairness | `NoStepSkipped`: a booking is confirmed only when every step was approved, though a late approver moves the instance back; `VerdictReachesBooking` (liveness): a closed instance gives its booking an outcome |
| `ApprovalSerial` | one approver at a time, crashes, two edits of templates or staff at any moment | `TypeOK`: no row refers to one that a cascade took; `OneTask`: an open instance has exactly one task, at its step, unless a handler failed on it; `TrailLeadsHere`: the history leads, row by row, to the step; `ClosedStaysClosed` |
| `Accounts` | two requests, crashes, clock: every handler of accounts and policies | `TypeOK`; `NeverTorn`: lost updates never mix two writes of a row; `LockoutEngages`, `RecentNotReused`, `PolicyInForce`, `LockHolds` for as long as requests do not overlap |
| `Clients` | two requests, crashes: every handler of guests and of individual clients | `TypeOK`; `SeenOnlyWhereStayed`: who gets to see a guest's profile; `RegisteredIsWhole`; `EditsStayHome`: a desk's stale edit does not follow a profile elsewhere; `ResetHolds` |
| `Premises` | two requests of two organisations, crashes: settings, branches, menus, rooms | `TypeOK` over all foreign keys; `SettingsKept`: a flag is lost only to a write that had read it too early; `MenuIsItsOwn`; `MenuKeepsItsBranch`: of two desks that insert a menu one is refused, not merged; `DefaultsUntouched`, `ListsAgree`, `PicturesStay` |

`StagesInOrder`, `BilledAtMostOnce` and the properties of the folio hold in
*every* interleaving and are proved; `ImplementsLedger`, `LegalTransitions`, `ConfirmedIsInvoiced`,
`DueAtCheckOut` and `JobOnlyExtends` hold only as long as handlers do not
overlap, or only without certain handlers, and the next runs show why.

The same holds of the accounts: `calm` in `LockoutEngages`, `RecentNotReused`,
`PolicyInForce` and `LockHolds` is the condition under which the code keeps them, and
without it lost updates and a stale cache break them (see below).

### The run that disagrees with the documentation

`ResRacingDesks`: "No double-booking" (`docs/Lodge_Administration_VueJS_Guide.md:48`)
is violated when two requests check the room before either inserts.

### Further disagreements

The models reach these too; no run is kept for them, because a passing run states
their extent or another shows their kind.

Bookings and invoices:

* A guest cancels, the approval stays open, and approving it confirms the cancelled
  booking (`workflow_repository.go:639`), against the lifecycle in
  `docs/guest-api-integration.md:360`.
* An approval confirms through `UpdateEntityStatus`, which generates no invoice,
  against "Invoices are auto-generated when a booking is confirmed."
  (`docs/Backend_Implementation_Phases.md:316`).
* Two appends each sum without the other's line and the total misses one until the
  next edit (`invoice_repository.go:299`), against "Invoice totals ... are
  recalculated atomically on every append" (`docs/food-orders-migration.md:22`).
  `TotalsSettle` is what remains true.
* Removing an order item clears the reference that its invoice line is then looked
  up by (`order_service.go:94`): the item stays billed, against the comment at
  `order_service.go:87`.
* Guests of one corporate request in one room, and an extension over the next
  booking, are the exceptions of `OverlapsExplained`.
* With two requests at once: two status changes validated against one status; two
  confirmations that compute one invoice number; a company guest checked in between
  the check and the row of a deletion; a stay that staff extend after the job has
  listed it, which the job cuts back; an item that one request adds while another
  reads its new order back, which both bill (`order_repository.go:72`).
* An edit of dates makes the invoice due at the moment of the edit
  (`invoice_repository.go:207`); the edited stay of a company's guest leaves its charge
  as it was (`:172`); a company's second request is on no invoice, because the first
  one's counts as its own (`invoice_service.go:102`).
* Deleting a company (`client_repository.go:269`) clears it from its bookings and its
  invoice; confirming such a booking afterwards invoices nights that are on the
  company's invoice, against the comment at `booking_service.go:367`.
  `DeleteCorporate` is not in the model.

Approvals:

* A rejection is stored as completed: `Complete` overwrites `rejected`
  (`workflow_service.go:227`; `docs/workflow-quick-start.md:232`: "`rejected` - Denied
  (final)").
* With two approvers, the stale `UpdateStep` of the slower one (`:215`) opens an
  instance again that the other has closed; `ClosedStaysClosed` needs one at a time.
* The assignee of a step is chosen from the roles of the transition *into* it, while
  the permission to act is that of the transitions *out* of it.
* A handler whose instance loses its task to a deleted step gives up before it
  writes the booking's outcome; the deletion of a step takes the history rows of
  other approvals that name it.
* Three lines outside the modelled state: `GetTaskDetails` passes the instance's id to a
  lookup by entity id (`workflow_handler.go:272`), `CreateWorkflowTransition` does not
  check that the steps are the workflow's, and `workflow_handler.go:115` compares a
  suffix with a text that is longer.

Accounts:

* Concurrent wrong passwords are counted once (`user_service.go:165`); a login that
  writes its row back (`:170`) lifts a lock or undoes a change made meanwhile.
* The attempts survive the lockout they caused, so the next wrong password locks
  again (`password_policy_service.go:302`).
* A policy read before an update and cached after it stays in force until the next
  update or restart (`:69`).
* The history records a new password before the row is written
  (`user_service.go:352`), so a failure leaves the wrong history; the first password
  of a provisioned owner is never recorded. Every caller drops the error of
  `RecordPasswordChange`, so a password whose insert failed can be given again
  (`missed`), and "keep only last 10" (`password_policy_service.go:261`) is what the next
  prune that succeeds restores.
* Registration computes an expiry (`:79`) that its INSERT omits, and replaces the
  requested status "inactive" (`:66`); an expired password cannot be changed, because
  changing needs a login.
* "admin users cannot be assigned to a branch" (`:329`) is checked only when the
  branch is given: a change of role, or an edit that gives both, gets past it.

Guests and clients:

* Two spellings of an e-mail make two accounts, of which a login finds either.
* A profile moves with every booking: the organisation booked with before loses its
  client, and a desk that deletes the profile leaves an account that can never book
  ("please complete your registration", `guest_booking_service.go:46`, but the e-mail is
  taken). The same follows from a registration that is cut short.
* The inline client of a refused booking stays, and the retry fails on its e-mail
  (`booking_service.go:54`).
* A NULL ID number is written back as the empty string, which is unique per
  organisation: the second client without a number cannot be edited.

Organisations, menus, rooms:

* Several branches may be main (`branch_service.go:127`); deleting a branch turns its
  menu into the organisation's.
* Two concurrent partial edits of the settings lose one flag, the one that the later
  write had read before the earlier (`organization_settings_repository.go:49`).
  `overtaken` records it; `SettingsKept` says that no flag is lost in any other way, which is
  what remains true.
* The main branch is inserted after the commit and its error is dropped
  (`backoffice_organization_service.go:210`): the handler goes on to mail the first admin the
  password, and the organisation has no main branch. Nothing restores it, so no property
  says that there is one.
* The branch that an admin names is taken as it is given (`middleware/auth.go:181`,
  `room_handler.go:262`), and the foreign keys of `000058` and `000066` ask only that it
  exists: a menu or a room may be put under another organisation's branch, and goes back to
  its own organisation when that branch is deleted.
* Migration `000066:7` says "Drop the org-level unique constraint on menus so each
  branch can have its own menu.", but the constraint `uq_menus_org` of `000041` stands: a
  second menu is refused.
* The items of an organisation without a menu go into the shared default menu, are
  shown to guests of every organisation that uses it, and leave the organisation's
  listing once it has a menu. `MenuIsItsOwn` is therefore about menus that
  organisations have.
* An edit of a room that omits `is_available` closes the room (`room_service.go:105`),
  and bookings never ask whether a room is open.

### Bounds

Two bookings are enough for every property about a pair of stays, and the
properties are about pairs or single bookings; two rooms tell "same room" from
"another room"; two requests are enough for one stale read. Days `0..2` hold two
adjacent or overlapping stays, `0..3` leave a day for the job to extend into.
`MaxGuests = 2` lets two colleagues share a request. Identities, clients,
companies, requests and rooms are symmetric; the liveness run uses no symmetry.
A handler needs at most six steps after it starts and every run explores its
instance completely. In the folio, one order with two items has an item billed
while the other is added, removed or repriced; two requests overlap two edits of
one invoice, and a third would only add another overlapped edit; one guest and
one guest of the company are the two kinds of account; two lengths of stay tell
a recalculated room line from the old one. `NoIdentityLeft` bounds the table: an
insert that finds no identity is refused, as a failing INSERT is.

* An approval in `ApprovalRace` has four steps, the first of which submits, so that
  there is something to move back over, and one instance, which two approvers
  share. `ApprovalSerial` has three steps and leaves a step, a transition and a
  workflow to be created, which two edits can join to the running approval; an edit
  of a step gives one column, and two edits two.
* Accounts are those of the owner and one more user, with two passwords, one of them
  weak, and limits of no attempt or two; three requests are a read, a write that
  overtakes it and one more.
* Clients have two organisations to move between, two spellings of one address and
  a third profile for the desk; five requests register, book twice and edit.
* Premises are two organisations with two branches and two items between them, so
  that every default is shared, one room, and days `0..2`.

`MaxServed`, `MaxEdits`, `MaxTask`, `MaxGiven`, `LastTime`, `LastStep` and `LastLink` are these
bounds.

### Fairness

`Fairness` is weak fairness of each running request (`net/http` serves an
accepted request to its end) and of the job (`time.Ticker` starts it every 24
hours for as long as the process runs). Nothing promises that anybody starts a
request, so no property relies on it. `FairSpec` of `Approvals` is weak fairness of each
running handler, for the same reason, and of nothing else: an edit of templates or
a new approver need never come. Crashes are left out of both liveness runs: a
process that dies every night before the job has run resolves nothing, and one that
dies between the closing of an instance and the write of the booking leaves the
booking pending (which `cutShort` records in `ApprovalSerial`).

## Proofs

The theorems quantify over all constants under `ConstantsAssumption`, `FolioAssumption`,
`ClientsAssumption`, `AccountsAssumption`, `OrganisationsAssumption`, `RoomsAssumption`, `TemplatesAssumption` and `ApprovalsAssumption` (the NULL values are not identities, bounds are
natural numbers, `Handlers` names handlers of the module), which TLC evaluates in
every run. The module of each group of theorems is in brackets.

### In every interleaving: bookings and invoices

* `TypeCorrect` (`ReservationsProofs`): `Spec => []TypeOK`. `TypeOK` includes that
  a request which is about to write a booking names one: without it the writes
  to `bookings[req[p].b]` have no type. One lemma per action.
* `StagesAlwaysInOrder` (`ReservationsProofs`): `Spec => []StagesInOrder`. By itself it is
  not inductive: `UpdateStatusTx` writes whatever the request carries. `StagesInv`
  adds that the *history* of a booking contains its present status, and that
  every pending write is justified by the history: a request that will write
  `checked_in` read `confirmed`, one that will write `checked_out` read
  `checked_in`, and a booking on the job's list was checked in. History only
  grows, so a justification survives every other actor.
* `AlwaysBilledAtMostOnce` (`ReservationsProofs`): `Spec => []BilledAtMostOnce`. Two
  requests may both find no invoice, so the proof needs what keeps the second
  insert harmless. `BillingInv` is: `InvoicesSeparate` (an invoice of a booking
  names an existing booking that no company pays for and charges only it, a
  company's invoice charges only bookings that a company pays for, two invoices
  of companies charge disjoint bookings, two of bookings name different ones);
  `RequestBills` (a request in flight is about to charge only its own
  guest-paid booking, or company-paid bookings of its batch that are on no
  invoice yet); `BatchesSeparate` (the batches of two requests are disjoint,
  because identities are never reused).
* `LedgerIsExclusive` (`RoomLedgerProofs`): the abstract ledger never holds a room
  twice for one night.

### One handler at a time: the desk

Every theorem of `DeskProofs` assumes `Serial` and names the handlers without which it
holds. They all start from `SerialInv`: at most one request or the job is in flight,
and what it has read is still so (`Fresh`, `JobFresh`), and from `Written`, the
normal form of what a step can do to a row: rows inserted, a status moved, a
row redated, a stay extended or marked. The argument about a property is then about
five writes and not about thirty actions.

| Theorem | Property | Left out, because | Invariant on the way |
|---|---|---|---|
| `StatusesAlwaysLegal` | `LegalTransitions` | approval: it validates nothing | `SerialInv` |
| `JobAlwaysExtends` | `JobOnlyExtends` | – | `SerialInv`: what the job listed is still overdue |
| `DeskImplementsLedger` | `ImplementsLedger` | corporate, approval, job: guests of one company share, a cancelled booking comes back, a guest stays in a room that others booked | `SerialInv`; each write is a step of `RoomLedger`, action by action, under `entries` |
| `NeverDoubleBooked` | `NoDoubleBooking` | the same three | `SerialInv` |
| `OverlapsAlwaysExplained` | `OverlapsExplained` | approval; crash between the job's extension and its mark | `OverlapInv`: or the job is about to mark one of the two |
| `ConfirmedAlwaysInvoiced` | `ConfirmedIsInvoiced` (of bookings that no company pays for) | approval; crash between the status and the invoice | `Numbered` (the next number is free) and `ConfirmInv`: or a request is about to invoice it |
| `RoomChargeAlwaysMatches` | `RoomChargeMatchesStay` | crash between the dates and the charge | `BillingInv`, `Ordered`, `ChargeInv`: or a request is about to recalculate |
| `AlwaysDueAtCheckOut` | `DueAtCheckOut` | update, which makes an invoice due when it recalculates; crash | `BillingInv`, `DueInv`: or the job is about to move the due date |

`NoDoubleBooking` is also the property that `ResRacingDesks` refutes: with a second
request it is false, alone it is a theorem.

### In every interleaving: the folio

* `FolioTypeCorrect` (`FolioProofs`): `Spec => []TypeOK` of the folio, including that
  orders, items and invoices a request works on exist.
* `AlwaysIssuedBeforePaid` (`FolioProofs`): the status is written whatever
  the invoice has become, so the invariant adds that a request about to write
  paid or overdue names an account whose invoice *was* issued.
* `TotalsAlwaysSettle`: `TotalsInv` adds that an edit which is still alone is the only
  one open on its invoice and carries the total of exactly what it will commit
  (`LoneEdits`), and that whoever looks for the lines of an item has removed its
  row (`RemovalsRemove`), so that what it finds does not change meanwhile.
* `AlwaysBilledToTheGuest`: `RequestsBillOwn` says that the items a request is about
  to bill are those of the booking whose account it found; rows are never
  rewritten (`RowsAreKept`).
* `AlwaysOrderedIsBilled`: `OwedHaveInvoice` says that what is owed still has an
  invoice to be found, `LinesStay` that no commit takes another item's line away,
  `StillBilled` that the request which owes a line keeps the item until it has
  written it.

### In every interleaving: guests and clients

`ClientsProofs`. The type invariant proper, `TypeInv`, says of every request in flight
that the account it will write exists (`Typed`); an account never goes.

* `ClientsTypeCorrect`: `Spec => []TypeOK`.
* `AlwaysSeenOnlyWhereStayed`: `LinksInv` adds that two profiles never belong to one
  guest, that a request which is about to create a profile is the only one to do
  so for its guest, and that the profile a booking in flight was made for is the only
  one its guest can have: the last statement moves that one, to where it booked, or none.
* `AlwaysRegisteredIsWhole`: `NoneForgotten` says that an account without a profile has a
  request that is about to insert one, was cut short, or lost it to a desk (`cut` holds
  both); the theorem promises no profile to the last two.
* `EditsAlwaysStayHome`, `ResetAlwaysHolds`: action properties, from the guards of the
  SQL statements and the types. The first is about the write of an edit: a deletion is one
  statement with the same guard and reads nothing before it.

### Staff accounts

`AccountsProofs`. In every interleaving:

* `AccountsTypeCorrect`: `TypeInv` is `TypeOK` with the domain of the history. It says
  that no password is remembered of an account that is gone, and bounds no history: the
  insert and the prune are two statements.
* `AccountsAreNeverTorn`: `TornInv` says of the copy that a request will write what
  `NeverTorn` says of the row (`WholeCopy`), and of an attempt about to be counted that
  it has one: a write replaces the whole row, so it does not matter what it overwrites.

As long as requests do not overlap (`calm`), from `CopyInv`: only one request is in flight
(`Alone`), and its copy differs from the row, as the row *is*, in the columns that
its handler writes and in no other (`Kept`, `Differs`). `ContinueIs` is the normal form of a
step: a request inserts, leaves the tables alone, removes, records, fails to, prunes, writes,
misses or decides on a policy.

* `LocksAlwaysHold`: an action property, directly from `CopyInv`.
* `PolicyAlwaysInForce`: `CacheInv` adds what a request that is about to fill the cache
  holds.
* `LockoutAlwaysEngages`: `CountInv` adds that an attempt about to be written has decided
  on the lockout (`Decided`), and that an identity nobody has used has no attempts.
* `RecentNeverReused`: `HistoryInv` says that e-mails of members differ, that the newest
  `Keep` rows of the history of a member whose passwords were all recorded (`Followed`) are the
  newest `Keep` passwords given, or a request is about to make them so (`Recording`,
  `Remembers`), and that what was checked of a copy still holds (`ChecksHold`). It compares
  the newest of both and not the rows themselves, so that a prune that fails changes
  nothing it speaks of (`PrunesRemember`). That e-mails differ is needed because a
  write that UNIQUE refuses leaves the history of an edit recorded: in calm the check
  has made sure that it is not. The lemmas are about `Newest`: the newest of the
  newest with one more are those of all with one more, for every `Keep`.

### In every interleaving: organisations, menus and rooms

`PremisesProofs`. The handlers trust what they looked up some statements ago; what they
write is checked by the constraints of the tables at most. `TypeInv` therefore adds to `TypeOK`:
`Requests` (what a request is about to write is a row of its own organisation, one that was
there: `Holds`), `Seeding` (whoever is about to insert a main branch is the only one to do so
for an organisation in use that has no branch, so that the insert, which has no guard in
the code, breaks no code's uniqueness), `DefaultsKept` (the rows of the system are those of the
migrations) and `ItemsOwn` (an item is on the menu of its organisation or on that of the
system). `OrgStepTyped` proves what menus and rooms rely on when an organisation or a branch
goes (`OrgsSteady`: a used identity is never free again, a branch keeps its
organisation), `MenusFollowTyped` and `RoomsFollowTyped` that the cascades then leave
no row behind that refers to nothing. Work on menus and rooms is `Elsewhere`: it changes
neither organisations nor what a request about them carries.

* `PremisesTypeCorrect`, `MenusAreTheirOwn`, `DefaultsAlwaysUntouched`: from `TypeInv`.
* `MenusAlwaysKeepBranch`: an action property, from `TypeInv`: every statement that writes
  a menu but the cascade keeps its branch, and the foreign key says that the branch is there
  until the cascade takes it.
* `SettingsAlwaysKept`: `SettingsInv` adds `UpToDate`, that a request which is not behind
  writes the flags it was not given, but for those overtaken before, as they were asked for
  last, and that an identity
  nobody has used has asked for nothing but the default.
* `PicturesAlwaysStay`: each statement that writes a room names the pictures or leaves
  them alone; the edit and the cascade are the cases to show.
* `ListsAlwaysAgree`: a fact about the three queries, for every calendar.

### Approvals

`ApprovalsProofs`. In every interleaving, edits of templates and crashes included:

* `ApprovalsTypeCorrect`: the statements of an approval check nothing that they read some
  statements ago; what they write names rows that a foreign key finds. `TypeInv` adds to `TypeOK` what a
  request carries at each statement (`Holds`: the instance it works on was inserted once,
  an action is one of the two, a request that closes knows it), that a history is a sequence, and that an edit of
  a step has read it and leaves it in its workflow (`EditsRead`). The hard case is the cascade
  (`CascadeTyped`): a step that goes takes with it the instances that stand on it, their
  tasks and histories and the rows of other histories, and nothing that stays
  refers to what went.
* `NoStepEverSkipped`: two approvers may read the same step, and the later one writes the
  step it computed over whatever the instance has reached, so the step of an
  instance says little. `VotesInv` speaks of votes, which only grow: as long as nobody has edited
  the templates, every step before the one that a request *read* was approved
  (`VoteJustified`), the templates are the chain of the seed (`SeedShape`), and a request that is closing
  an approval has all votes behind it.
* `VerdictNeverForgotten`: what is certain of `VerdictReachesBooking` before anything is assumed
  about fairness. `VerdictInv` says that a closed instance has given its booking an
  outcome, or a request is between the statement that closed it and the one that writes
  the outcome (`Concluding`), unless a handler failed or died on it; and that what such a
  request will write goes to the booking of the instance. A slower approver may open the
  instance again meanwhile: then nothing is owed.

With one request at a time (`Serial`, an assumption about `Request`, as `ApprovalSerial` has
it), while templates and staff are edited, instances deleted and the process stopped at any
moment. An instance between two statements has no properties of its own; each invariant therefore
speaks of the instances that no handler has written to or left (`Halfway`, `cutShort`), and says
for the request in flight, statement by statement, how far it got:

* `OneTaskAtATime`: `TasksInv` adds that what a request read of the instance is still so or
  the instance is gone (`OpenWhenRead`), that the instance stands where the request moved it
  (`MovedWhereTo`), and which tasks are pending before each statement
  (`AskedHalfway`). Uses that a cascade only takes (`CascadeTakes`).
* `ClosedStaysClosedAlone`: an action property, from `TasksInv`: the only statement that writes
  `in_progress` to an existing instance has read it open.
* `TrailAlwaysLeadsHere`: `TrailInv` adds that the history still ends where the request in flight
  found the instance (`RecordedHalfway`), and that no transition leads back to its own step
  (`LinksMove`, a CHECK of migration 000012), so that staying means closing. A deleted step
  takes rows out of the middle of a history: the property asks that none is.

The invariants named here were checked by TLC, on the instances of the runs, before
they were proved.

### Only model-checked

* `OverdueIsResolved` and `VerdictReachesBooking`: liveness under fairness is beyond the
  proof system; `VerdictNeverForgotten` is the invariant under the second.
* Where a theorem assumes one request at a time, more would be false: TLC finds two approvers
  who break `OneTask`, `TrailLeadsHere` and `ClosedStaysClosed`, and two desks who break
  `NoDoubleBooking` (`ResRacingDesks`).

## Plan

Done: bookings, invoices, orders, accounts, clients and guests, organisations, settings,
menus and rooms, approvals with their templates, and a proof of every safety property that a
passing run checks. What is left:

1. Corporate clients: their deletion as an action of `Reservations`, which takes
   `BilledAtMostOnce` with it, and the documents attached to bookings.

## Not modelled

Reads that change nothing (dashboard, lookups), HTTP decoding and status codes,
authentication tokens and role checks of routes, e-mail, audit records (nothing
reads them back), one-row CRUD of roles and back-office users, corporate clients and
booking documents, prices, quantities and tax rounding, and the meal-plan module
(its tables are dropped by a later migration). Reviews: the route that submits one
asks for a staff token (`routes/review_routes.go:15`), so no guest reaches its handler;
the summary of no reviews scans a NULL average into a number and fails. The
connection that `CreateCorporate` leaves open when an inline client is incomplete
(`booking_service.go:173`: `err` is nil, so nothing rolls back) is not modelled either:
`database/sql` sets no limit here.
