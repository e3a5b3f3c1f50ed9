---------------------------- MODULE PremisesProofs ----------------------------
(***************************************************************************)
(* Theorems about organisations, menus and rooms, for any number of them   *)
(* and any number of requests in flight.  No statement repeats the checks  *)
(* of its handler; what saves the rows is what a request carries (Holds),  *)
(* the guards and foreign keys of the statements, and that nobody works    *)
(* for an organisation before its main branch was tried (Seeding).         *)
(***************************************************************************)
EXTENDS Premises, TLAPS

-------------------------------------------------------------------------------
(***************************************************************************)
(* The inductive invariant.                                                *)
(***************************************************************************)
Shaped(r) ==
    r \in [pc : {r.pc}, org : {r.org}, branch : {r.branch}, id : {r.id},
          row : {r.row}, given : {r.given}, stale : {r.stale}]

\* An item is on the menu of its organisation or on that of the system.
OwnItem(row) == row \in ItemRow /\ row.menu \in {row.org, NoOrg}

\* What a request is about to write; its organisation was there once.
Holds(r, table) ==
    /\ r.pc # "idle" => r.org \in Org /\ table[r.org] # Unused
    /\ r.pc \in {"main", "branch"} => r.row \in BranchRow /\ r.row.org = r.org
    /\ r.pc = "branch" => r.branch \in Branch
    /\ r.pc = "org" => r.row \in OrgRow
    /\ r.pc = "settings" => r.row \in SettingsRow /\ r.given \subseteq Flag
    /\ r.pc = "menu" => r.row \in MenuRow
    /\ r.pc \in {"item", "item_edit"} => OwnItem(r.row) /\ r.row.org = r.org
    /\ r.pc = "item_edit" => r.id \in Item
    /\ r.pc \in {"room", "images", "open"} => r.id \in Room
    /\ r.pc = "room" => r.row.name \in Name /\ r.row.org = r.org
    /\ r.pc \in {"room", "open"} => r.row.open \in BOOLEAN
    /\ r.pc = "images" => r.row.images \in SUBSET Picture

Requests ==
    /\ req = [p \in Request |-> req[p]]
    /\ \A p \in Request : Shaped(req[p]) /\ Holds(req[p], orgs)

\* A main branch is inserted where there is no branch yet, and once.
Seeding ==
    \A p \in Request : req[p].pc = "main" =>
        /\ req[p].org \in Organisation \cap inUse /\ BranchesOf(req[p].org) = {}
        /\ \A q \in Request \ {p} : req[q].pc = "main" => req[q].org # req[p].org

\* The rows of the system, as the migrations insert them.
DefaultsKept ==
    settings[NoOrg] = Default /\ menus[NoOrg] = [branch |-> NoBranch, active |-> TRUE]

ItemsOwn == \A i \in Item : InTable(items[i]) => OwnItem(items[i])

TypeInv == TypeOK /\ Requests /\ Seeding /\ DefaultsKept /\ ItemsOwn

\* A request that is not behind writes back what was asked for last, but of
\* the flags that were overtaken.
UpToDate(r) ==
    r.pc = "settings" /\ ~r.stale =>
        \A f \in Flag \ r.given : f \notin overtaken[r.org] => r.row[f] = asked[r.org][f]

AsAsked(o) == \A f \in Flag : f \notin overtaken[o] => GetForOrg(o)[f] = asked[o][f]

SettingsInv ==
    /\ asked \in [Org -> SettingsRow] /\ overtaken \in [Org -> SUBSET Flag]
    /\ \A o \in Org : orgs[o] = Unused => asked[o] = Default
    /\ \A o \in Organisation : AsAsked(o)
    /\ \A p \in Request : UpToDate(req[p])

-------------------------------------------------------------------------------
(***************************************************************************)
(* The invariant, table by table.                                          *)
(***************************************************************************)
OrgTables ==
    /\ orgs \in [Org -> OrgRow \cup {Unused, Deleted}]
    /\ branches \in [Branch -> BranchRow \cup {Unused, Deleted}]
    /\ settings \in [Org \cup {NoOrg} -> SettingsRow \cup {Unused}]
    /\ \A b \in Branch : InTable(branches[b]) => BranchFits(b, branches[b])
    /\ \A o \in Org : InTable(settings[o]) => InTable(orgs[o])
    /\ settings[NoOrg] = Default

MenuTables ==
    /\ menus \in [Org \cup {NoOrg} -> MenuRow \cup {Unused}]
    /\ items \in [Item -> ItemRow \cup {Unused, Deleted}]
    /\ \A o \in Org : InTable(menus[o]) => InTable(orgs[o]) /\ BranchKnown(menus[o].branch)
    /\ \A i \in Item : InTable(items[i]) => ItemFits(i, items[i]) /\ OwnItem(items[i])
    /\ menus[NoOrg] = [branch |-> NoBranch, active |-> TRUE]

RoomTables ==
    /\ rooms \in [Room -> RoomRow \cup {Unused, Deleted}]
    /\ stays \in [Room -> SUBSET Stay]
    /\ \A r \in Room : InTable(rooms[r]) =>
          RoomFits(r, rooms[r]) /\ BranchKnown(rooms[r].branch)
    /\ \A r \in Room : stays[r] # {} => InTable(rooms[r])

LEMMA Tables == TypeInv <=> OrgTables /\ MenuTables /\ RoomTables /\ Requests /\ Seeding
BY DEF TypeInv, TypeOK, DefaultsKept, ItemsOwn, OrgTables, MenuTables, RoomTables, Organisation

LEMMA TablesNext == OrgTables' /\ MenuTables' /\ RoomTables' /\ Requests' /\ Seeding' => TypeInv'
BY DEF TypeInv, TypeOK, DefaultsKept, ItemsOwn, OrgTables, MenuTables, RoomTables, Organisation

LEMMA RowsInTable ==
    /\ \A row \in OrgRow \cup BranchRow \cup SettingsRow \cup MenuRow \cup ItemRow \cup RoomRow :
          InTable(row)
    /\ ~InTable(Unused) /\ ~InTable(Deleted) /\ Unused # Deleted
<1>1. DOMAIN Unused = {"row"} /\ DOMAIN Deleted = {"row"} /\ Unused # Deleted
  BY DEF Unused, Deleted
<1>2. ASSUME NEW row \in OrgRow \cup BranchRow PROVE "detail" \in DOMAIN row
  BY DEF OrgRow, BranchRow
<1>3. ASSUME NEW row \in SettingsRow PROVE "auto_close_orders" \in DOMAIN row
  BY DEF SettingsRow, Flag
<1>4. ASSUME NEW row \in MenuRow PROVE "active" \in DOMAIN row
  BY DEF MenuRow
<1>5. ASSUME NEW row \in ItemRow \cup RoomRow PROVE "name" \in DOMAIN row
  BY DEF ItemRow, RoomRow
<1>6. ASSUME NEW row \in OrgRow \cup BranchRow \cup SettingsRow \cup MenuRow \cup ItemRow \cup RoomRow
      PROVE  InTable(row)
  <2>1. DOMAIN row # {"row"}
    BY <1>2, <1>3, <1>4, <1>5
  <2>2. QED
    BY <1>1, <2>1 DEF InTable
<1>7. QED
  BY <1>1, <1>6 DEF InTable

\* Rows of every table, as they are when they are there.
LEMMA RowTypes ==
    ASSUME OrgTables
    PROVE  /\ \A o \in Organisation : o \in Org /\ orgs[o] \in OrgRow
           /\ \A b \in Branch : InTable(branches[b]) => branches[b] \in BranchRow
           /\ \A o \in Org \cup {NoOrg} : InTable(settings[o]) => settings[o] \in SettingsRow
           /\ \A o : GetForOrg(o) \in SettingsRow \/ o \notin Org
<1>1. Default \in SettingsRow
  BY DEF Default, SettingsRow
<1>2. QED
  BY <1>1, RowsInTable DEF OrgTables, Organisation, InTable, GetForOrg

-------------------------------------------------------------------------------
(***************************************************************************)
(* Requests go on.                                                         *)
(***************************************************************************)
Moves(p, r) == req' = [req EXCEPT ![p] = r]

\* An identity that was used is never free again.
NeverUnused == \A o \in Org : orgs[o] # Unused => orgs'[o] # Unused

LEMMA MovesTo ==
    ASSUME Requests, NEW p \in Request, NEW r, Moves(p, r)
    PROVE  /\ req' = [q \in Request |-> req'[q]] /\ req'[p] = r
           /\ \A q \in Request : q # p => req'[q] = req[q]
BY DEF Requests, Moves

LEMMA IdleHolds == Shaped(Idle) /\ Idle.pc = "idle" /\ \A table : Holds(Idle, table)
BY DEF Shaped, Holds, Idle

LEMMA HoldsOn ==
    ASSUME Requests, NeverUnused, NEW q \in Request
    PROVE  Shaped(req[q]) /\ Holds(req[q], orgs')
BY DEF Requests, NeverUnused, Holds

LEMMA RequestsMoved ==
    ASSUME Requests, NeverUnused, NEW p \in Request, NEW r, Moves(p, r),
           Shaped(r), Holds(r, orgs')
    PROVE  Requests'
<1>1. /\ req' = [q \in Request |-> req'[q]] /\ req'[p] = r
      /\ \A q \in Request : q # p => req'[q] = req[q]
  BY MovesTo
<1>2. \A q \in Request : Shaped(req'[q]) /\ Holds(req'[q], orgs')
  BY <1>1, HoldsOn
<1>3. QED
  BY <1>1, <1>2 DEF Requests, Shaped, Holds

LEMMA RequestsReturn ==
    ASSUME Requests, NeverUnused, NEW p \in Request, Return(p)
    PROVE  Requests' /\ Moves(p, Idle)
<1>1. Moves(p, Idle)
  BY DEF Return, Moves
<1>2. QED
  BY <1>1, IdleHolds, RequestsMoved

LEMMA RequestsStay ==
    ASSUME Requests, NeverUnused, req' = req
    PROVE  Requests'
BY HoldsOn DEF Requests, Shaped, Holds

\* Nobody but Provision begins to seed, and no branch turns up meanwhile.
LEMMA SeedingKept ==
    ASSUME Seeding,
           \A q \in Request : req'[q].pc = "main" => req'[q] = req[q],
           \A q \in Request : req'[q].pc = "main" =>
              /\ InTable(orgs'[req[q].org]) /\ req[q].org \in inUse'
              /\ \A b \in Branch : InTable(branches'[b]) /\ branches'[b].org = req[q].org =>
                    InTable(branches[b]) /\ branches[b].org = req[q].org
    PROVE  Seeding'
BY DEF Seeding, Organisation, BranchesOf

LEMMA SeedingMoved ==
    ASSUME Requests, Seeding, UNCHANGED <<orgs, branches, inUse>>,
           NEW p \in Request, NEW r, Moves(p, r), r.pc # "main"
    PROVE  Seeding'
<1>1. \A q \in Request : req'[q].pc = "main" => req'[q] = req[q]
  BY MovesTo
<1>2. QED
  BY <1>1, SeedingKept DEF Seeding, Organisation

\* A request that was accepted has changed no table.
LEMMA StartsHolding ==
    ASSUME TypeInv, NEW p \in Request, NEW r, Starts(p, r), Shaped(r), Holds(r, orgs),
           r.pc # "main"
    PROVE  Requests' /\ Seeding' /\ UNCHANGED <<orgTables, overtaken, asked>>
<1>1. Moves(p, r) /\ UNCHANGED <<orgTables, overtaken, asked>> /\ Requests /\ Seeding
  BY Tables DEF Starts, Moves, history
<1>2. NeverUnused
  BY <1>1 DEF NeverUnused, orgTables
<1>3. QED
  BY <1>1, <1>2, RequestsMoved, SeedingMoved DEF orgTables

LEMMA WorkingOrgs ==
    ASSUME TypeInv, NEW o \in Working
    PROVE  /\ o \in Org /\ o \in Organisation /\ orgs[o] # Unused /\ o \in inUse
           /\ \A p \in Request : ~(req[p].pc = "main" /\ req[p].org = o)
BY RowsInTable DEF Working, Provisioned, Organisation, InTable

-------------------------------------------------------------------------------
(***************************************************************************)
(* Organisations, branches and settings.                                   *)
(***************************************************************************)
\* What menus and rooms rely on when they follow.
OrgsSteady ==
    /\ NeverUnused /\ settings'[NoOrg] = settings[NoOrg]
    /\ \A b \in Branch : InTable(branches[b]) /\ InTable(branches'[b]) =>
          branches'[b].org = branches[b].org

OrgsTyped == OrgTables' /\ OrgsSteady /\ Requests' /\ Seeding'

\* A branch that stays as it is still fits, if no other has taken its code.
LEMMA OrgTablesKept ==
    ASSUME OrgTables,
           orgs' \in [Org -> OrgRow \cup {Unused, Deleted}],
           branches' \in [Branch -> BranchRow \cup {Unused, Deleted}],
           settings' \in [Org \cup {NoOrg} -> SettingsRow \cup {Unused}],
           \A b \in Branch : InTable(branches'[b]) =>
               branches'[b] = branches[b] /\ InTable(orgs'[branches[b].org]),
           \A o \in Org : InTable(settings'[o]) => InTable(orgs'[o]),
           settings'[NoOrg] = Default
    PROVE  OrgTables'
<1>1. ASSUME NEW b \in Branch, InTable(branches'[b]) PROVE BranchFits(b, branches[b])'
  <2>1. branches'[b] = branches[b] /\ BranchFits(b, branches[b]) /\ branches[b] \in BranchRow
    BY <1>1, RowTypes DEF OrgTables
  <2>2. branches[b].org \in Org /\ InTable(orgs'[branches[b].org])
    BY <1>1, <2>1 DEF BranchRow
  <2>3. ASSUME NEW c \in Branch, InTable(branches'[c]), branches'[c].org = branches'[b].org, c # b
        PROVE  branches'[c].code # branches'[b].code
    BY <2>1, <2>3 DEF BranchFits, BranchesOf
  <2>4. QED
    BY <2>1, <2>2, <2>3 DEF BranchFits, BranchesOf, Organisation
<1>2. QED
  BY <1>1 DEF OrgTables

LEMMA OrgTablesUnchanged ==
    ASSUME TypeInv, UNCHANGED <<orgs, branches, settings>>
    PROVE  OrgTables' /\ OrgsSteady
BY Tables DEF OrgTables, OrgsSteady, NeverUnused, BranchFits, Organisation, BranchesOf

LEMMA UpdateOrgTyped ==
    ASSUME TypeInv, NEW p \in Request, UpdateOrg(p)
    PROVE  OrgsTyped
<1>1. PICK o \in Organisation, detail \in Detail :
        Starts(p, [Idle EXCEPT !.pc = "org", !.org = o, !.row = [detail |-> detail]])
  BY DEF UpdateOrg
<1> DEFINE r == [Idle EXCEPT !.pc = "org", !.org = o, !.row = [detail |-> detail]]
<1>2. Shaped(r) /\ r.pc = "org" /\ r.org = o /\ r.row = [detail |-> detail]
  BY DEF Idle, Shaped
<1> HIDE DEF r
<1>3. o \in Org /\ orgs[o] # Unused
  BY RowsInTable DEF Organisation, InTable
<1>4. Holds(r, orgs)
  BY <1>2, <1>3 DEF Holds, OrgRow
<1>5. Requests' /\ Seeding' /\ UNCHANGED orgTables
  BY <1>1, <1>2, <1>4, StartsHolding DEF r
<1>6. QED
  BY <1>5, OrgTablesUnchanged DEF OrgsTyped, orgTables

LEMMA UpdateBranchTyped ==
    ASSUME TypeInv, NEW p \in Request, UpdateBranch(p)
    PROVE  OrgsTyped
<1>0. PICK o \in Working : \E b \in BranchesOf(o) :
        \E row \in [org : {o}, code : Code, main : BOOLEAN, detail : Detail] :
          Starts(p, [Idle EXCEPT !.pc = "branch", !.org = o, !.branch = b, !.row = row])
  BY DEF UpdateBranch
<1>1. PICK b \in BranchesOf(o), row \in [org : {o}, code : Code, main : BOOLEAN, detail : Detail] :
        Starts(p, [Idle EXCEPT !.pc = "branch", !.org = o, !.branch = b, !.row = row])
  BY <1>0
<1> DEFINE r == [Idle EXCEPT !.pc = "branch", !.org = o, !.branch = b, !.row = row]
<1>2. Shaped(r) /\ r.pc = "branch" /\ r.org = o /\ r.row = row /\ r.branch = b
  BY DEF Idle, Shaped
<1> HIDE DEF r
<1>3. o \in Org /\ orgs[o] # Unused /\ b \in Branch
  BY WorkingOrgs DEF BranchesOf
<1>4. Holds(r, orgs)
  BY <1>2, <1>3 DEF Holds, BranchRow
<1>5. Requests' /\ Seeding' /\ UNCHANGED orgTables
  BY <1>1, <1>2, <1>4, StartsHolding DEF r
<1>6. QED
  BY <1>5, OrgTablesUnchanged DEF OrgsTyped, orgTables

LEMMA GivenTyped ==
    ASSUME NEW current \in SettingsRow, NEW flags \in SUBSET Flag, NEW given \in [flags -> BOOLEAN]
    PROVE  /\ Given(current, given) \in SettingsRow
           /\ \A f \in Flag \ flags : Given(current, given)[f] = current[f]
BY DEF Given, SettingsRow

LEMMA UpdateSettingsTyped ==
    ASSUME TypeInv, NEW p \in Request, UpdateSettings(p)
    PROVE  OrgsTyped
<1>0. PICK o \in Working, flags \in SUBSET Flag \ {{}} : \E given \in [flags -> BOOLEAN] :
        Starts(p, [Idle EXCEPT !.pc = "settings", !.org = o, !.given = flags,
                     !.row = Given(GetForOrg(o), given)])
  BY DEF UpdateSettings
<1>1. PICK given \in [flags -> BOOLEAN] :
        Starts(p, [Idle EXCEPT !.pc = "settings", !.org = o, !.given = flags,
                     !.row = Given(GetForOrg(o), given)])
  BY <1>0
<1> DEFINE r == [Idle EXCEPT !.pc = "settings", !.org = o, !.given = flags,
                     !.row = Given(GetForOrg(o), given)]
<1>2. /\ Shaped(r) /\ r.pc = "settings" /\ r.org = o /\ r.given = flags
      /\ r.row = Given(GetForOrg(o), given)
  BY DEF Idle, Shaped
<1> HIDE DEF r
<1>3. o \in Org /\ orgs[o] # Unused /\ flags \in SUBSET Flag
  BY WorkingOrgs
<1>4. r.row \in SettingsRow
  BY <1>2, <1>3, GivenTyped, RowTypes, Tables
<1>5. Holds(r, orgs)
  BY <1>2, <1>3, <1>4 DEF Holds
<1>6. Requests' /\ Seeding' /\ UNCHANGED orgTables
  BY <1>1, <1>2, <1>5, StartsHolding DEF r
<1>7. QED
  BY <1>6, OrgTablesUnchanged DEF OrgsTyped, orgTables

LEMMA ProvisionTyped ==
    ASSUME TypeInv, NEW p \in Request, Provision(p)
    PROVE  OrgsTyped
<1>0. OrgTables /\ Requests /\ Seeding
  BY Tables
<1>1. PICK o \in Org, detail \in Detail :
        /\ orgs[o] = Unused /\ orgs' = [orgs EXCEPT ![o] = [detail |-> detail]]
        /\ inUse' = inUse \cup {o}
        /\ req' = [req EXCEPT ![p] = [Idle EXCEPT !.pc = "main", !.org = o,
                     !.row = [org |-> o, code |-> Main, main |-> TRUE, detail |-> detail]]]
        /\ UNCHANGED <<branches, settings>>
  BY DEF Provision
<1> DEFINE row == [org |-> o, code |-> Main, main |-> TRUE, detail |-> detail]
           r == [Idle EXCEPT !.pc = "main", !.org = o, !.row = row]
<1>2. Shaped(r) /\ r.pc = "main" /\ r.org = o /\ r.row = row
  BY DEF Idle, Shaped
<1>3. Moves(p, r) /\ row \in BranchRow /\ row.org = o
  BY <1>1, OrganisationsAssumption DEF Moves, BranchRow
<1> HIDE DEF r, row
<1>4. [detail |-> detail] \in OrgRow /\ InTable([detail |-> detail]) /\ [detail |-> detail] # Unused
  BY RowsInTable DEF OrgRow
<1>5. /\ orgs' \in [Org -> OrgRow \cup {Unused, Deleted}] /\ InTable(orgs'[o]) /\ orgs'[o] # Unused
      /\ \A x \in Org : x # o => orgs'[x] = orgs[x]
  BY <1>0, <1>1, <1>4 DEF OrgTables
<1>6. NeverUnused
  BY <1>1, <1>5 DEF NeverUnused
<1>7. \A b \in Branch : InTable(branches[b]) =>
         branches[b].org \in Org /\ branches[b].org # o /\ InTable(orgs[branches[b].org])
  BY <1>0, <1>1, RowsInTable DEF OrgTables, BranchFits, Organisation
<1>8. OrgTables' /\ OrgsSteady
  <2>1. \A x \in Org : InTable(settings'[x]) => InTable(orgs'[x])
    BY <1>0, <1>1, <1>5 DEF OrgTables
  <2>2. \A b \in Branch : InTable(branches'[b]) =>
               branches'[b] = branches[b] /\ InTable(orgs'[branches[b].org])
    BY <1>1, <1>5, <1>7
  <2>3. OrgTables'
    BY <1>0, <1>1, <1>5, <2>1, <2>2, OrgTablesKept DEF OrgTables
  <2>4. QED
    BY <1>1, <1>6, <2>3 DEF OrgsSteady
<1>9. Requests'
  BY <1>0, <1>1, <1>2, <1>3, <1>5, <1>6, RequestsMoved DEF Holds
<1>10. Seeding'
  <2>1. req'[p] = r /\ \A q \in Request : q # p => req'[q] = req[q]
    BY <1>0, <1>3, MovesTo
  <2>2. ASSUME NEW q \in Request, q # p, req'[q].pc = "main"
        PROVE  /\ req'[q] = req[q] /\ req[q].org # o
               /\ InTable(orgs'[req[q].org]) /\ req[q].org \in Org \cap inUse'
               /\ \A b \in Branch : InTable(branches[b]) => branches[b].org # req[q].org
               /\ \A q2 \in Request \ {q} : req[q2].pc = "main" => req[q2].org # req[q].org
    BY <1>0, <1>1, <1>5, <2>1, <2>2, RowsInTable DEF Seeding, Organisation, BranchesOf
  <2>3. QED
    BY <1>1, <1>2, <1>5, <1>7, <2>1, <2>2 DEF Seeding, Organisation, BranchesOf
<1>11. QED
  BY <1>8, <1>9, <1>10 DEF OrgsTyped

\* A branch that is written keeps its organisation and fits there; the others
\* are as they were.
LEMMA BranchWritten ==
    ASSUME TypeInv, NEW b \in Branch, NEW row \in BranchRow, BranchFits(b, row),
           branches' = [branches EXCEPT ![b] = row], UNCHANGED <<orgs, settings>>,
           InTable(branches[b]) => row.org = branches[b].org
    PROVE  OrgTables' /\ OrgsSteady
<1>0. OrgTables
  BY Tables
<1>1. /\ branches' \in [Branch -> BranchRow \cup {Unused, Deleted}]
      /\ branches'[b] = row /\ \A c \in Branch : c # b => branches'[c] = branches[c]
  BY <1>0 DEF OrgTables
<1>2. ASSUME NEW c \in Branch, InTable(branches'[c]) PROVE BranchFits(c, branches[c])'
  <2>1. CASE c = b
    BY <1>1, <2>1 DEF BranchFits, BranchesOf, Organisation
  <2>2. CASE c # b
    <3>1. BranchFits(c, branches[c]) /\ branches'[c] = branches[c]
      BY <1>0, <1>1, <1>2, <2>2 DEF OrgTables
    <3>2. ASSUME NEW d \in Branch, d # c, InTable(branches'[d]), branches'[d].org = branches[c].org
          PROVE  branches'[d].code # branches[c].code
      BY <1>0, <1>1, <1>2, <2>2, <3>1, <3>2 DEF BranchFits, BranchesOf
    <3>3. QED
      BY <3>1, <3>2 DEF BranchFits, BranchesOf, Organisation
  <2>3. QED
    BY <2>1, <2>2
<1>3. OrgTables'
  BY <1>0, <1>1, <1>2 DEF OrgTables
<1>4. QED
  BY <1>0, <1>1, <1>3 DEF OrgsSteady, NeverUnused, OrgTables

\* A main branch that could not be inserted leaves the tables as they are.
LEMMA NotSeededTyped ==
    ASSUME TypeInv, NEW p \in Request, Return(p), UNCHANGED <<orgs, branches, inUse, settings>>
    PROVE  OrgsTyped
<1>0. Requests /\ Seeding
  BY Tables
<1>1. OrgTables' /\ OrgsSteady
  BY OrgTablesUnchanged
<1>2. Requests' /\ Moves(p, Idle)
  BY <1>0, <1>1, RequestsReturn DEF OrgsSteady
<1>3. Seeding'
  BY <1>0, <1>2, SeedingMoved, IdleHolds
<1>4. QED
  BY <1>1, <1>2, <1>3 DEF OrgsTyped

LEMMA SeedMainBranchTyped ==
    ASSUME TypeInv, NEW p \in Request, SeedMainBranch(p)
    PROVE  OrgsTyped
<1>0. OrgTables /\ Requests /\ Seeding
  BY Tables
<1>1. /\ req[p].pc = "main" /\ Return(p) /\ UNCHANGED <<orgs, inUse, settings>>
      /\ \/ UNCHANGED branches
         \/ \E b \in Branch :
               branches[b] = Unused /\ branches' = [branches EXCEPT ![b] = req[p].row]
  BY DEF SeedMainBranch, Continues
<1>2. CASE UNCHANGED branches
  BY <1>1, <1>2, NotSeededTyped
<1>3. CASE \E b \in Branch :
             branches[b] = Unused /\ branches' = [branches EXCEPT ![b] = req[p].row]
  <2>1. PICK b \in Branch :
          branches[b] = Unused /\ branches' = [branches EXCEPT ![b] = req[p].row]
    BY <1>3
  <2>2. req[p].row \in BranchRow /\ req[p].row.org = req[p].org
    BY <1>0, <1>1 DEF Requests, Holds
  <2>3. BranchFits(b, req[p].row) /\ ~InTable(branches[b])
    BY <1>0, <1>1, <2>1, <2>2, RowsInTable DEF Seeding, BranchFits
  <2>4. OrgTables' /\ OrgsSteady
    BY <1>1, <2>1, <2>2, <2>3, BranchWritten
  <2>5. Requests' /\ Moves(p, Idle)
    BY <1>0, <1>1, <2>4, RequestsReturn DEF OrgsSteady
  <2>6. /\ req'[p].pc # "main" /\ \A q \in Request : q # p => req'[q] = req[q]
    BY <1>0, <2>5, MovesTo, IdleHolds
  <2>7. \A q \in Request : req'[q].pc = "main" => req'[q] = req[q] /\ req[q].org # req[p].org
    BY <1>0, <1>1, <2>6 DEF Seeding
  <2>8. branches'[b] = req[p].row /\ \A c \in Branch : c # b => branches'[c] = branches[c]
    BY <1>0, <2>1 DEF OrgTables
  <2>9. ASSUME NEW q \in Request, req'[q].pc = "main"
        PROVE  /\ InTable(orgs'[req[q].org]) /\ req[q].org \in inUse'
               /\ \A c \in Branch : InTable(branches'[c]) /\ branches'[c].org = req[q].org =>
                     InTable(branches[c]) /\ branches[c].org = req[q].org
    BY <1>0, <1>1, <2>2, <2>7, <2>8, <2>9 DEF Seeding, Organisation
  <2>10. Seeding'
    BY <1>0, <2>7, <2>9, SeedingKept
  <2>11. QED
    BY <2>4, <2>5, <2>10 DEF OrgsTyped
<1>4. QED
  BY <1>1, <1>2, <1>3

\* Nothing else is done to an organisation that has yet to get its branch.
LEMMA SeedingUntouched ==
    ASSUME TypeInv, \A q \in Request : req'[q].pc = "main" => req'[q] = req[q],
           \A o \in Organisation \cap inUse :
              (\A q \in Request : ~(req[q].pc = "main" /\ req[q].org = o))
              \/ (InTable(orgs'[o]) /\ o \in inUse'),
           \A b \in Branch : InTable(branches'[b]) =>
              \/ InTable(branches[b]) /\ branches'[b].org = branches[b].org
              \/ branches'[b].org \in Working
    PROVE  Seeding'
<1>0. Seeding
  BY Tables
<1>1. ASSUME NEW q \in Request, req'[q].pc = "main"
      PROVE  /\ InTable(orgs'[req[q].org]) /\ req[q].org \in inUse'
             /\ \A b \in Branch : InTable(branches'[b]) /\ branches'[b].org = req[q].org =>
                   InTable(branches[b]) /\ branches[b].org = req[q].org
  <2>1. req[q].pc = "main" /\ req[q].org \in Organisation \cap inUse
    BY <1>0, <1>1 DEF Seeding
  <2>2. req[q].org \notin Working
    BY <2>1, WorkingOrgs
  <2>3. QED
    BY <2>1, <2>2
<1>2. QED
  BY <1>0, <1>1, SeedingKept

LEMMA CreateBranchTyped ==
    ASSUME TypeInv, NEW p \in Request, CreateBranch(p)
    PROVE  OrgsTyped
<1>1. PICK o \in Working, b \in Branch, code \in Code, detail \in Detail :
        LET row == [org |-> o, code |-> code, main |-> FALSE, detail |-> detail]
        IN  /\ branches[b] = Unused /\ BranchFits(b, row)
            /\ branches' = [branches EXCEPT ![b] = row]
            /\ UNCHANGED <<orgs, inUse, settings, req>>
  BY DEF CreateBranch, AtOnce
<1> DEFINE row == [org |-> o, code |-> code, main |-> FALSE, detail |-> detail]
<1>2. row \in BranchRow /\ row.org = o
  BY WorkingOrgs DEF BranchRow
<1> HIDE DEF row
<1>3. OrgTables' /\ OrgsSteady
  BY <1>1, <1>2, BranchWritten, RowsInTable DEF row
<1>4. Requests'
  BY <1>1, <1>3, RequestsStay, Tables DEF OrgsSteady
<1>5. \A c \in Branch : branches'[c] = IF c = b THEN row ELSE branches[c]
  BY <1>1, Tables DEF row, OrgTables
<1>6. Seeding'
  BY <1>1, <1>2, <1>5, SeedingUntouched DEF Organisation
<1>7. QED
  BY <1>3, <1>4, <1>6 DEF OrgsTyped

LEMMA WriteBranchTyped ==
    ASSUME TypeInv, NEW p \in Request, WriteBranch(p)
    PROVE  OrgsTyped
<1>0. OrgTables /\ Requests
  BY Tables
<1> DEFINE b == req[p].branch
           row == req[p].row
<1>1. /\ req[p].pc = "branch" /\ Return(p) /\ UNCHANGED <<orgs, inUse, settings>>
      /\ branches' = IF b \in BranchesOf(req[p].org) /\ BranchFits(b, row)
                       THEN [branches EXCEPT ![b] = row] ELSE branches
  BY DEF WriteBranch, Continues
<1>2. b \in Branch /\ row \in BranchRow /\ row.org = req[p].org
  BY <1>0, <1>1 DEF Requests, Holds
<1>3. OrgTables' /\ OrgsSteady
  <2>1. CASE b \in BranchesOf(req[p].org) /\ BranchFits(b, row)
    BY <1>1, <1>2, <2>1, BranchWritten DEF BranchesOf
  <2>2. CASE ~(b \in BranchesOf(req[p].org) /\ BranchFits(b, row))
    BY <1>1, <2>2, OrgTablesUnchanged
  <2>3. QED
    BY <2>1, <2>2
<1>4. Requests' /\ Moves(p, Idle)
  BY <1>0, <1>1, <1>3, RequestsReturn DEF OrgsSteady
<1>5. \A q \in Request : req'[q].pc = "main" => req'[q] = req[q]
  BY <1>0, <1>4, MovesTo, IdleHolds
<1>6. \A c \in Branch : InTable(branches'[c]) =>
         InTable(branches[c]) /\ branches'[c].org = branches[c].org
  BY <1>0, <1>1, <1>2 DEF OrgTables, BranchesOf
<1>7. Seeding'
  BY <1>1, <1>5, <1>6, SeedingUntouched DEF Organisation
<1>8. QED
  BY <1>3, <1>4, <1>7 DEF OrgsTyped

LEMMA DeleteBranchTyped ==
    ASSUME TypeInv, NEW p \in Request, DeleteBranch(p)
    PROVE  OrgsTyped
<1>0. OrgTables /\ Requests
  BY Tables
<1>1. PICK b \in Branch :
        branches' = [branches EXCEPT ![b] = Deleted] /\ UNCHANGED <<orgs, inUse, settings, req>>
  BY DEF DeleteBranch, AtOnce, BranchesOf
<1>2. /\ branches' \in [Branch -> BranchRow \cup {Unused, Deleted}]
      /\ \A c \in Branch : InTable(branches'[c]) =>
            InTable(branches[c]) /\ branches'[c] = branches[c]
  BY <1>0, <1>1, RowsInTable DEF OrgTables
<1>3. \A c \in Branch : InTable(branches[c]) => InTable(orgs[branches[c].org])
  BY <1>0 DEF OrgTables, BranchFits, Organisation
<1>4. OrgTables'
  BY <1>0, <1>1, <1>2, <1>3, OrgTablesKept DEF OrgTables
<1>5. OrgsSteady
  BY <1>1, <1>2 DEF OrgsSteady, NeverUnused
<1>6. Requests'
  BY <1>0, <1>1, <1>5, RequestsStay DEF OrgsSteady
<1>7. Seeding'
  BY <1>1, <1>2, SeedingUntouched DEF Organisation
<1>8. QED
  BY <1>4, <1>5, <1>6, <1>7 DEF OrgsTyped

LEMMA VacateTyped ==
    ASSUME TypeInv, NEW p \in Request, Vacate(p)
    PROVE  OrgsTyped
<1>0. Requests
  BY Tables
<1>1. PICK o \in Working : inUse' = inUse \ {o} /\ UNCHANGED <<orgs, branches, settings, req>>
  BY DEF Vacate, AtOnce
<1>2. OrgTables' /\ OrgsSteady
  BY <1>1, OrgTablesUnchanged
<1>3. Requests'
  BY <1>0, <1>1, <1>2, RequestsStay DEF OrgsSteady
<1>4. \A x \in Organisation \cap inUse :
         (\A q \in Request : ~(req[q].pc = "main" /\ req[q].org = x))
            \/ (InTable(orgs'[x]) /\ x \in inUse')
  BY <1>1, WorkingOrgs DEF Organisation
<1>5. Seeding'
  BY <1>1, <1>4, SeedingUntouched
<1>6. QED
  BY <1>2, <1>3, <1>5 DEF OrgsTyped

LEMMA DeleteOrgTyped ==
    ASSUME TypeInv, NEW p \in Request, DeleteOrg(p)
    PROVE  OrgsTyped
<1>0. OrgTables /\ Requests
  BY Tables
<1>1. PICK o \in Organisation \ inUse :
        /\ orgs' = [orgs EXCEPT ![o] = Deleted]
        /\ branches' = [b \in Branch |-> IF b \in BranchesOf(o) THEN Deleted ELSE branches[b]]
        /\ settings' = [settings EXCEPT ![o] = Unused]
        /\ UNCHANGED <<inUse, req>>
  BY DEF DeleteOrg, AtOnce
<1>2. o \in Org /\ o # NoOrg
  BY OrganisationsAssumption DEF Organisation
<1>3. /\ orgs' \in [Org -> OrgRow \cup {Unused, Deleted}]
      /\ branches' \in [Branch -> BranchRow \cup {Unused, Deleted}]
      /\ settings' \in [Org \cup {NoOrg} -> SettingsRow \cup {Unused}]
      /\ settings'[NoOrg] = Default
  BY <1>0, <1>1, <1>2 DEF OrgTables
<1>4. ASSUME NEW b \in Branch, InTable(branches'[b])
      PROVE  /\ InTable(branches[b]) /\ branches'[b] = branches[b]
             /\ InTable(orgs'[branches[b].org])
  <2>1. b \notin BranchesOf(o) /\ branches'[b] = branches[b] /\ InTable(branches[b])
    BY <1>1, <1>4, RowsInTable
  <2>2. branches[b].org # o /\ branches[b].org \in Organisation
    BY <1>0, <2>1 DEF BranchesOf, OrgTables, BranchFits
  <2>3. QED
    BY <1>0, <1>1, <2>1, <2>2 DEF OrgTables, Organisation
<1>5. \A x \in Org : InTable(settings'[x]) => InTable(orgs'[x])
  BY <1>0, <1>1, <1>2, RowsInTable DEF OrgTables
<1>6. OrgTables'
  BY <1>0, <1>3, <1>4, <1>5, OrgTablesKept
<1>7. OrgsSteady
  BY <1>0, <1>1, <1>3, <1>4, RowsInTable DEF OrgsSteady, NeverUnused, OrgTables
<1>8. Requests'
  BY <1>0, <1>1, <1>7, RequestsStay DEF OrgsSteady
<1>9. \A x \in Organisation \cap inUse : InTable(orgs'[x]) /\ x \in inUse'
  BY <1>0, <1>1 DEF OrgTables, Organisation
<1>10. Seeding'
  BY <1>1, <1>4, <1>9, SeedingUntouched
<1>11. QED
  BY <1>6, <1>7, <1>8, <1>10 DEF OrgsTyped

LEMMA WriteOrgTyped ==
    ASSUME TypeInv, NEW p \in Request, WriteOrg(p)
    PROVE  OrgsTyped
<1>0. OrgTables /\ Requests
  BY Tables
<1>1. /\ req[p].pc = "org" /\ Return(p) /\ UNCHANGED <<inUse, branches, settings>>
      /\ orgs' = IF req[p].org \in Organisation
                   THEN [orgs EXCEPT ![req[p].org] = req[p].row] ELSE orgs
  BY DEF WriteOrg, Continues
<1>2. req[p].row \in OrgRow /\ req[p].org \in Org /\ InTable(req[p].row) /\ req[p].row # Unused
  BY <1>0, <1>1, RowsInTable DEF Requests, Holds
<1>3. /\ orgs' \in [Org -> OrgRow \cup {Unused, Deleted}]
      /\ \A o \in Org : InTable(orgs[o]) => InTable(orgs'[o])
      /\ NeverUnused
  BY <1>0, <1>1, <1>2 DEF OrgTables, NeverUnused
<1>4. \A b \in Branch : InTable(branches[b]) =>
         branches[b].org \in Org /\ InTable(orgs[branches[b].org])
  BY <1>0 DEF OrgTables, BranchFits, Organisation
<1>5. OrgTables'
  BY <1>0, <1>1, <1>3, <1>4, OrgTablesKept DEF OrgTables
<1>6. OrgsSteady
  BY <1>1, <1>3 DEF OrgsSteady
<1>7. Requests' /\ Moves(p, Idle)
  BY <1>0, <1>1, <1>3, RequestsReturn
<1>8. \A q \in Request : req'[q].pc = "main" => req'[q] = req[q]
  BY <1>0, <1>7, MovesTo, IdleHolds
<1>9. Seeding'
  BY <1>1, <1>3, <1>8, SeedingUntouched DEF Organisation
<1>10. QED
  BY <1>5, <1>6, <1>7, <1>9 DEF OrgsTyped

\* The other requests are as they were, but those that are now behind.
LEMMA LeftBehind ==
    ASSUME Requests, NEW p \in Request, req' = LeaveBehind(p)
    PROVE  /\ req' = [q \in Request |-> req'[q]] /\ req'[p] = Idle
           /\ \A q \in Request : q # p =>
                 \/ req'[q] = req[q] /\ ~(req[q].pc = "settings" /\ req[q].org = req[p].org)
                 \/ req[q].pc = "settings" /\ req[q].org = req[p].org
                       /\ req'[q] = [req[q] EXCEPT !.stale = TRUE]
BY DEF LeaveBehind

LEMMA UpsertTyped ==
    ASSUME TypeInv, NEW p \in Request, Upsert(p)
    PROVE  OrgsTyped
<1>0. OrgTables /\ Requests
  BY Tables
<1>1. /\ req[p].pc = "settings" /\ req' = LeaveBehind(p) /\ UNCHANGED <<orgs, inUse, branches>>
      /\ settings' = IF req[p].org \in Organisation
                       THEN [settings EXCEPT ![req[p].org] = req[p].row] ELSE settings
  BY DEF Upsert, Continues
<1>2. req[p].row \in SettingsRow /\ req[p].org \in Org /\ req[p].org # NoOrg
  BY <1>0, <1>1, OrganisationsAssumption DEF Requests, Holds
<1>3. /\ settings' \in [Org \cup {NoOrg} -> SettingsRow \cup {Unused}]
      /\ settings'[NoOrg] = settings[NoOrg]
      /\ \A o \in Org : InTable(settings'[o]) => InTable(orgs[o])
  BY <1>0, <1>1, <1>2 DEF OrgTables, Organisation
<1>4. \A b \in Branch : InTable(branches[b]) =>
         branches[b].org \in Org /\ InTable(orgs[branches[b].org])
  BY <1>0 DEF OrgTables, BranchFits, Organisation
<1>5. OrgTables'
  BY <1>0, <1>1, <1>3, <1>4, OrgTablesKept DEF OrgTables
<1>6. OrgsSteady
  BY <1>1, <1>3 DEF OrgsSteady, NeverUnused
<1>7. ASSUME NEW q \in Request
      PROVE  /\ Shaped(req'[q]) /\ Holds(req'[q], orgs')
             /\ req'[q].pc = "main" => req'[q] = req[q]
  <2>1. Shaped(req[q]) /\ Holds(req[q], orgs')
    BY <1>0, <1>6, HoldsOn DEF OrgsSteady
  <2>2. CASE req'[q] = req[q] \/ req'[q] = Idle
    BY <2>1, <2>2, IdleHolds
  <2>3. CASE req[q].pc = "settings" /\ req'[q] = [req[q] EXCEPT !.stale = TRUE]
    <3>1. /\ Shaped(req'[q]) /\ req'[q].pc = "settings" /\ req'[q].org = req[q].org
          /\ req'[q].row = req[q].row /\ req'[q].given = req[q].given
      BY <2>1, <2>3 DEF Shaped
    <3>2. QED
      BY <2>1, <2>3, <3>1 DEF Holds
  <2>4. QED
    BY <1>0, <1>1, <2>2, <2>3, LeftBehind
<1>8. Requests'
  BY <1>0, <1>1, <1>7, LeftBehind DEF Requests, Shaped, Holds
<1>9. Seeding'
  BY <1>1, <1>7, SeedingUntouched DEF Organisation
<1>10. QED
  BY <1>5, <1>6, <1>8, <1>9 DEF OrgsTyped

LEMMA OrgStepTyped ==
    ASSUME TypeInv, NEW p \in Request, OrgAccept(p) \/ OrgContinue(p)
    PROVE  OrgsTyped
BY ProvisionTyped, UpdateOrgTyped, VacateTyped, DeleteOrgTyped, CreateBranchTyped,
   UpdateBranchTyped, DeleteBranchTyped, UpdateSettingsTyped, SeedMainBranchTyped,
   WriteOrgTyped, WriteBranchTyped, UpsertTyped DEF OrgAccept, OrgContinue

-------------------------------------------------------------------------------
(***************************************************************************)
(* Menus and items.                                                        *)
(***************************************************************************)
LEMMA MenuRowTypes ==
    ASSUME MenuTables
    PROVE  /\ \A o \in Org \cup {NoOrg} : InTable(menus[o]) => menus[o] \in MenuRow
           /\ \A i \in Item : InTable(items[i]) => items[i] \in ItemRow
           /\ InTable(menus[NoOrg]) /\ menus[NoOrg] \in MenuRow
BY RowsInTable DEF MenuTables, InTable, MenuRow

\* What an organisation or a branch takes along leaves no row that refers to it.
LEMMA MenusFollowTyped ==
    ASSUME TypeInv, OrgTables', OrgsSteady, MenusFollow
    PROVE  MenuTables' /\ menus'[NoOrg] = menus[NoOrg]
<1>0. OrgTables /\ MenuTables
  BY Tables
<1> DEFINE Loses(o) == InTable(menus[o]) /\ menus[o].branch # NoBranch
                          /\ ~InTable(branches'[menus[o].branch])
<1>1. ASSUME NEW o \in Org \cup {NoOrg}
      PROVE  menus'[o] = IF o # NoOrg /\ ~InTable(orgs'[o]) THEN Unused
                         ELSE IF Loses(o) THEN [menus[o] EXCEPT !.branch = NoBranch]
                         ELSE menus[o]
  BY <1>0 DEF MenusFollow, MenuTables
<1>2. ~Loses(NoOrg)
  BY <1>0 DEF MenuTables
<1>3. menus'[NoOrg] = menus[NoOrg] /\ InTable(menus'[NoOrg])
  BY <1>0, <1>1, <1>2, MenuRowTypes
<1>4. ASSUME NEW o \in Org \cup {NoOrg}, Loses(o)
      PROVE  [menus[o] EXCEPT !.branch = NoBranch] \in MenuRow
             /\ [menus[o] EXCEPT !.branch = NoBranch].branch = NoBranch
  BY <1>0, <1>4, MenuRowTypes DEF MenuRow
<1>5. ASSUME NEW o \in Org \cup {NoOrg} PROVE menus'[o] \in MenuRow \cup {Unused}
  BY <1>0, <1>1, <1>4, <1>5 DEF MenuTables
<1>6. menus' \in [Org \cup {NoOrg} -> MenuRow \cup {Unused}]
  BY <1>0, <1>5 DEF MenusFollow, MenuTables
<1>7. ASSUME NEW o \in Org, InTable(menus'[o])
      PROVE  InTable(orgs'[o]) /\ BranchKnown(menus[o].branch)'
  <2>1. InTable(orgs'[o]) /\ o # NoOrg
    BY <1>1, <1>7, RowsInTable, OrganisationsAssumption
  <2>2. CASE Loses(o)
    BY <1>1, <1>4, <2>1, <2>2 DEF BranchKnown
  <2>3. CASE ~Loses(o)
    BY <1>1, <1>7, <2>1, <2>3 DEF BranchKnown
  <2>4. QED
    BY <2>2, <2>3
<1> HIDE DEF Loses
<1>8. ASSUME NEW i \in Item
      PROVE  items'[i] = IF InTable(items[i]) /\ ~InTable(orgs'[items[i].org])
                           THEN Deleted ELSE items[i]
  BY DEF MenusFollow
<1>9. items' \in [Item -> ItemRow \cup {Unused, Deleted}]
  BY <1>0, <1>8 DEF MenusFollow, MenuTables
<1>10. ASSUME NEW i \in Item, InTable(items'[i])
       PROVE  InTable(items[i]) /\ items'[i] = items[i] /\ InTable(orgs'[items[i].org])
  BY <1>8, <1>10, RowsInTable
<1>11. ASSUME NEW i \in Item, InTable(items'[i])
       PROVE  ItemFits(i, items[i])' /\ OwnItem(items'[i])
  <2>1. /\ items'[i] = items[i] /\ OwnItem(items[i]) /\ ItemFits(i, items[i])
        /\ InTable(orgs'[items[i].org]) /\ items[i] \in ItemRow
    BY <1>0, <1>10, <1>11, MenuRowTypes DEF MenuTables
  <2>2. items[i].org \in Org /\ items[i].org \in Organisation'
    BY <2>1 DEF ItemRow, Organisation
  <2>3. InTable(menus'[items[i].menu])
    <3>1. CASE items[i].menu = NoOrg
      BY <1>3, <3>1
    <3>2. CASE items[i].menu = items[i].org
      <4>1. InTable(menus[items[i].menu]) /\ items[i].menu # NoOrg
        BY <2>1, <2>2, <3>2, OrganisationsAssumption DEF ItemFits
      <4>2. menus[items[i].menu] \in MenuRow
        BY <1>0, <2>2, <3>2, <4>1, MenuRowTypes
      <4>3. menus'[items[i].menu] \in MenuRow
        BY <1>1, <1>4, <2>1, <2>2, <3>2, <4>2
      <4>4. QED
        BY <4>3, RowsInTable
    <3>3. QED
      BY <2>1, <3>1, <3>2 DEF OwnItem
  <2>4. ASSUME NEW j \in Item \ {i}, InTable(items'[j])
        PROVE  <<items'[j].menu, items'[j].name>> # <<items'[i].menu, items'[i].name>>
    BY <1>10, <2>1, <2>4 DEF ItemFits
  <2>5. QED
    BY <2>1, <2>2, <2>3, <2>4 DEF ItemFits
<1>12. QED
  BY <1>0, <1>3, <1>6, <1>7, <1>9, <1>11 DEF MenuTables

LEMMA MenuTablesUnchanged ==
    ASSUME TypeInv, UNCHANGED <<orgs, branches, menus, items>>
    PROVE  MenuTables'
BY Tables DEF MenuTables, BranchKnown, ItemFits, Organisation

\* A request about a menu or a room that changes nothing but its own tables.
LEMMA OrgsUntouched ==
    ASSUME TypeInv, UNCHANGED <<orgTables, overtaken, asked>>, Requests', NEW p \in Request,
           req' = req \/ Moves(p, Idle)
    PROVE  OrgTables' /\ Seeding'
<1>1. UNCHANGED <<orgs, branches, settings, inUse>>
  BY DEF orgTables
<1>2. \A q \in Request : req'[q].pc = "main" => req'[q] = req[q]
  BY MovesTo, IdleHolds, Tables
<1>3. QED
  BY <1>1, <1>2, OrgTablesUnchanged, SeedingUntouched DEF Organisation

LEMMA UnchangedOrgs == UNCHANGED orgTables => NeverUnused
BY DEF orgTables, NeverUnused

MenusTyped == OrgTables' /\ MenuTables' /\ Requests' /\ Seeding'

LEMMA StartsTyped ==
    ASSUME TypeInv, NEW p \in Request, NEW r, Starts(p, r), Shaped(r), Holds(r, orgs),
           r.pc # "main"
    PROVE  /\ OrgTables' /\ Requests' /\ Seeding' /\ UNCHANGED <<orgTables, overtaken, asked>>
           /\ UNCHANGED menuTables => MenuTables'
<1>1. Requests' /\ Seeding' /\ UNCHANGED <<orgTables, overtaken, asked>>
  BY StartsHolding
<1>2. UNCHANGED <<orgs, branches, settings>>
  BY <1>1 DEF orgTables
<1>3. QED
  BY <1>1, <1>2, OrgTablesUnchanged, MenuTablesUnchanged DEF menuTables

LEMMA UpsertMenuTyped ==
    ASSUME TypeInv, NEW p \in Request, UpsertMenu(p)
    PROVE  MenusTyped
<1>1. PICK o \in Working, active \in BOOLEAN : \E br \in BranchGiven :
        /\ Starts(p, [Idle EXCEPT !.pc = "menu", !.org = o,
                        !.row = [branch |-> br, active |-> active]])
        /\ UNCHANGED menuTables
  BY DEF UpsertMenu
<1>2. PICK br \in BranchGiven :
        /\ Starts(p, [Idle EXCEPT !.pc = "menu", !.org = o,
                        !.row = [branch |-> br, active |-> active]])
        /\ UNCHANGED menuTables
  BY <1>1
<1> DEFINE r == [Idle EXCEPT !.pc = "menu", !.org = o, !.row = [branch |-> br, active |-> active]]
<1>3. Shaped(r) /\ r.pc = "menu" /\ r.org = o /\ r.row = [branch |-> br, active |-> active]
  BY DEF Idle, Shaped
<1> HIDE DEF r
<1>4. Holds(r, orgs)
  BY <1>3, WorkingOrgs DEF Holds, MenuRow, BranchGiven
<1>5. QED
  BY <1>2, <1>3, <1>4, StartsTyped DEF MenusTyped, r

LEMMA CreateMenuItemTyped ==
    ASSUME TypeInv, NEW p \in Request, CreateMenuItem(p)
    PROVE  MenusTyped
<1>1. PICK o \in Working, name \in Name : \E br \in BranchGiven :
        /\ Starts(p, [Idle EXCEPT !.pc = "item", !.org = o, !.branch = br,
                        !.row = [menu |-> GetMenu(o, br), org |-> o,
                                 name |-> name, available |-> TRUE]])
        /\ UNCHANGED menuTables
  BY DEF CreateMenuItem
<1>2. PICK br \in BranchGiven :
        /\ Starts(p, [Idle EXCEPT !.pc = "item", !.org = o, !.branch = br,
                        !.row = [menu |-> GetMenu(o, br), org |-> o,
                                 name |-> name, available |-> TRUE]])
        /\ UNCHANGED menuTables
  BY <1>1
<1> DEFINE row == [menu |-> GetMenu(o, br), org |-> o, name |-> name, available |-> TRUE]
           r == [Idle EXCEPT !.pc = "item", !.org = o, !.branch = br, !.row = row]
<1>3. Shaped(r) /\ r.pc = "item" /\ r.org = o /\ r.row = row
  BY DEF Idle, Shaped
<1>4. OwnItem(row) /\ row.org = o
  BY WorkingOrgs DEF OwnItem, ItemRow, GetMenu
<1> HIDE DEF r, row
<1>5. Holds(r, orgs)
  BY <1>3, <1>4, WorkingOrgs DEF Holds
<1>6. QED
  BY <1>2, <1>3, <1>5, StartsTyped DEF MenusTyped, r, row

LEMMA UpdateMenuItemTyped ==
    ASSUME TypeInv, NEW p \in Request, UpdateMenuItem(p)
    PROVE  MenusTyped
<1>1. PICK o \in Working : \E i \in ItemsOf(o) : \E name \in Name, available \in BOOLEAN :
        /\ Starts(p, [Idle EXCEPT !.pc = "item_edit", !.org = o, !.id = i,
                        !.row = [items[i] EXCEPT !.name = name, !.available = available]])
        /\ UNCHANGED menuTables
  BY DEF UpdateMenuItem
<1>2. PICK i \in ItemsOf(o), name \in Name, available \in BOOLEAN :
        /\ Starts(p, [Idle EXCEPT !.pc = "item_edit", !.org = o, !.id = i,
                        !.row = [items[i] EXCEPT !.name = name, !.available = available]])
        /\ UNCHANGED menuTables
  BY <1>1
<1> DEFINE row == [items[i] EXCEPT !.name = name, !.available = available]
           r == [Idle EXCEPT !.pc = "item_edit", !.org = o, !.id = i, !.row = row]
<1>3. Shaped(r) /\ r.pc = "item_edit" /\ r.org = o /\ r.id = i /\ r.row = row
  BY DEF Idle, Shaped
<1>4. i \in Item /\ items[i] \in ItemRow /\ OwnItem(items[i]) /\ items[i].org = o
  BY Tables, MenuRowTypes DEF ItemsOf, MenuTables
<1>5. row \in ItemRow /\ row.menu = items[i].menu /\ row.org = o
  BY <1>4 DEF ItemRow
<1> HIDE DEF r, row
<1>6. Holds(r, orgs)
  BY <1>3, <1>4, <1>5, WorkingOrgs DEF Holds, OwnItem
<1>7. QED
  BY <1>2, <1>3, <1>6, StartsTyped DEF MenusTyped, r, row

\* An item that is written is on a menu that is there, and alone with its name.
LEMMA ItemWritten ==
    ASSUME TypeInv, NEW i \in Item, NEW row, OwnItem(row), ItemFits(i, row),
           items' = [items EXCEPT ![i] = row], UNCHANGED <<orgs, branches, menus>>
    PROVE  MenuTables'
<1>0. MenuTables /\ row \in ItemRow
  BY Tables DEF OwnItem
<1>1. /\ items' \in [Item -> ItemRow \cup {Unused, Deleted}]
      /\ items'[i] = row /\ \A j \in Item : j # i => items'[j] = items[j]
  BY <1>0 DEF MenuTables
<1>2. ASSUME NEW j \in Item, InTable(items'[j]) PROVE ItemFits(j, items[j])' /\ OwnItem(items'[j])
  <2>1. CASE j = i
    BY <1>1, <2>1 DEF ItemFits, Organisation
  <2>2. CASE j # i
    <3>1. items'[j] = items[j] /\ ItemFits(j, items[j]) /\ OwnItem(items[j])
      BY <1>0, <1>1, <1>2, <2>2 DEF MenuTables
    <3>2. ASSUME NEW k \in Item \ {j}, InTable(items'[k])
          PROVE  <<items'[k].menu, items'[k].name>> # <<items'[j].menu, items'[j].name>>
      BY <1>1, <1>2, <2>2, <3>1, <3>2 DEF ItemFits
    <3>3. QED
      BY <3>1, <3>2 DEF ItemFits, Organisation
  <2>3. QED
    BY <2>1, <2>2
<1>3. QED
  BY <1>0, <1>1, <1>2 DEF MenuTables, BranchKnown

LEMMA InsertMenuItemTyped ==
    ASSUME TypeInv, NEW p \in Request, InsertMenuItem(p)
    PROVE  MenusTyped
<1>0. Requests
  BY Tables
<1>1. PICK i \in Item :
        /\ req[p].pc = "item" /\ Return(p) /\ UNCHANGED <<orgTables, overtaken, asked, menus>>
        /\ items' = IF ItemFits(i, req[p].row) /\ BranchKnown(req[p].branch)
                      THEN [items EXCEPT ![i] = req[p].row] ELSE items
  BY DEF InsertMenuItem, Continues
<1>2. OwnItem(req[p].row)
  BY <1>0, <1>1 DEF Requests, Holds
<1>3. MenuTables'
  BY <1>1, <1>2, ItemWritten, MenuTablesUnchanged DEF orgTables
<1>4. Requests' /\ Moves(p, Idle)
  BY <1>0, <1>1, UnchangedOrgs, RequestsReturn
<1>5. QED
  BY <1>1, <1>3, <1>4, OrgsUntouched DEF MenusTyped

LEMMA WriteMenuItemTyped ==
    ASSUME TypeInv, NEW p \in Request, WriteMenuItem(p)
    PROVE  MenusTyped
<1>0. Requests
  BY Tables
<1> DEFINE i == req[p].id
<1>1. /\ req[p].pc = "item_edit" /\ Return(p) /\ UNCHANGED <<orgTables, overtaken, asked, menus>>
      /\ items' = IF i \in ItemsOf(req[p].org) /\ ItemFits(i, req[p].row)
                    THEN [items EXCEPT ![i] = req[p].row] ELSE items
  BY DEF WriteMenuItem, Continues
<1>2. OwnItem(req[p].row) /\ i \in Item
  BY <1>0, <1>1 DEF Requests, Holds
<1> HIDE DEF i
<1>3. MenuTables'
  BY <1>1, <1>2, ItemWritten, MenuTablesUnchanged DEF orgTables
<1>4. Requests' /\ Moves(p, Idle)
  BY <1>0, <1>1, UnchangedOrgs, RequestsReturn
<1>5. QED
  BY <1>1, <1>3, <1>4, OrgsUntouched DEF MenusTyped

LEMMA DeleteMenuItemTyped ==
    ASSUME TypeInv, NEW p \in Request, DeleteMenuItem(p)
    PROVE  MenusTyped
<1>0. Requests /\ MenuTables
  BY Tables
<1>1. PICK i \in Item :
        items' = [items EXCEPT ![i] = Deleted] /\ UNCHANGED <<req, orgTables, overtaken, asked, menus>>
  BY DEF DeleteMenuItem, AtOnce, ItemsOf
<1>2. /\ items' \in [Item -> ItemRow \cup {Unused, Deleted}]
      /\ \A j \in Item : InTable(items'[j]) => InTable(items[j]) /\ items'[j] = items[j]
  BY <1>0, <1>1, RowsInTable DEF MenuTables
<1>3. \A j \in Item : InTable(items'[j]) => ItemFits(j, items[j])' /\ OwnItem(items'[j])
  BY <1>0, <1>1, <1>2 DEF MenuTables, ItemFits, Organisation, orgTables
<1>4. MenuTables'
  BY <1>0, <1>1, <1>2, <1>3 DEF MenuTables, BranchKnown, orgTables
<1>5. Requests'
  BY <1>0, <1>1, UnchangedOrgs, RequestsStay
<1>6. QED
  BY <1>1, <1>4, <1>5, OrgsUntouched DEF MenusTyped

LEMMA InsertMenuTyped ==
    ASSUME TypeInv, NEW p \in Request, InsertMenu(p)
    PROVE  MenusTyped
<1>0. Requests /\ MenuTables
  BY Tables
<1> DEFINE o == req[p].org
           row == req[p].row
<1>1. /\ req[p].pc = "menu" /\ Return(p) /\ UNCHANGED <<orgTables, overtaken, asked, items>>
      /\ menus' = IF /\ o \in Organisation /\ BranchKnown(row.branch)
                     /\ InTable(menus[o]) => /\ row.branch # NoBranch
                                             /\ menus[o].branch = row.branch
                    THEN [menus EXCEPT ![o] = row] ELSE menus
  BY DEF InsertMenu, Continues
<1>2. o \in Org /\ row \in MenuRow /\ InTable(row) /\ o # NoOrg
  BY <1>0, <1>1, RowsInTable, OrganisationsAssumption DEF Requests, Holds
<1> HIDE DEF o, row
<1>3. MenuTables'
  <2>1. CASE menus' = menus
    BY <1>1, <2>1, MenuTablesUnchanged DEF orgTables
  <2>2. CASE /\ o \in Organisation /\ BranchKnown(row.branch)
             /\ menus' = [menus EXCEPT ![o] = row]
    <3>1. /\ menus' \in [Org \cup {NoOrg} -> MenuRow \cup {Unused}] /\ menus'[o] = row
          /\ \A x \in Org \cup {NoOrg} : x # o => menus'[x] = menus[x]
      BY <1>0, <1>2, <2>2 DEF MenuTables
    <3>2. \A x \in Org : InTable(menus'[x]) =>
             InTable(orgs'[x]) /\ BranchKnown(menus[x].branch)'
      BY <1>0, <1>1, <2>2, <3>1 DEF MenuTables, orgTables, BranchKnown, Organisation
    <3>3. \A x \in Org \cup {NoOrg} : InTable(menus[x]) => InTable(menus'[x])
      BY <1>2, <3>1
    <3>4. ASSUME NEW i \in Item, InTable(items[i]) PROVE ItemFits(i, items[i])' /\ OwnItem(items[i])
      <4>1. ItemFits(i, items[i]) /\ OwnItem(items[i]) /\ items[i].menu \in Org \cup {NoOrg}
        BY <1>0, <3>4 DEF MenuTables, OwnItem, ItemRow
      <4>2. QED
        BY <1>1, <3>3, <4>1 DEF ItemFits, Organisation, orgTables
    <3>5. QED
      BY <1>0, <1>1, <1>2, <3>1, <3>2, <3>4 DEF MenuTables
  <2>3. QED
    BY <1>1, <2>1, <2>2
<1>4. Requests' /\ Moves(p, Idle)
  BY <1>0, <1>1, UnchangedOrgs, RequestsReturn
<1>5. QED
  BY <1>1, <1>3, <1>4, OrgsUntouched DEF MenusTyped

LEMMA MenusNextTyped ==
    ASSUME TypeInv, NEW p \in Request, MenusNext(p)
    PROVE  MenusTyped
BY UpsertMenuTyped, CreateMenuItemTyped, UpdateMenuItemTyped, DeleteMenuItemTyped,
   InsertMenuTyped, InsertMenuItemTyped, WriteMenuItemTyped DEF MenusNext

-------------------------------------------------------------------------------
(***************************************************************************)
(* Rooms and what is booked of them.                                       *)
(***************************************************************************)
RoomsTyped == OrgTables' /\ RoomTables' /\ Requests' /\ Seeding'

LEMMA RoomTablesUnchanged ==
    ASSUME TypeInv, UNCHANGED <<orgs, branches, rooms, stays>>
    PROVE  RoomTables'
BY Tables DEF RoomTables, BranchKnown, RoomFits, RoomsOf, Organisation

LEMMA RoomStartsTyped ==
    ASSUME TypeInv, NEW p \in Request, NEW r, Starts(p, r), Shaped(r), Holds(r, orgs),
           r.pc # "main", UNCHANGED roomTables
    PROVE  RoomsTyped
<1>1. OrgTables' /\ Requests' /\ Seeding' /\ UNCHANGED orgTables
  BY StartsTyped
<1>2. QED
  BY <1>1, RoomTablesUnchanged DEF RoomsTyped, orgTables, roomTables

\* A room that is edited keeps its organisation and branch, and its name is
\* its own.
LEMMA RoomWritten ==
    ASSUME TypeInv, NEW r \in Room, NEW row \in RoomRow, RoomFits(r, row),
           BranchKnown(row.branch),
           rooms' = [rooms EXCEPT ![r] = row], UNCHANGED <<orgs, branches, stays>>
    PROVE  RoomTables'
<1>0. RoomTables /\ InTable(row)
  BY Tables, RowsInTable
<1>1. /\ rooms' \in [Room -> RoomRow \cup {Unused, Deleted}]
      /\ rooms'[r] = row /\ \A q \in Room : q # r => rooms'[q] = rooms[q]
  BY <1>0 DEF RoomTables
<1>2. ASSUME NEW q \in Room, InTable(rooms'[q])
      PROVE  RoomFits(q, rooms[q])' /\ BranchKnown(rooms[q].branch)'
  <2>1. CASE q = r
    BY <1>1, <2>1 DEF RoomFits, RoomsOf, Organisation, BranchKnown
  <2>2. CASE q # r
    <3>1. /\ rooms'[q] = rooms[q] /\ RoomFits(q, rooms[q])
          /\ BranchKnown(rooms[q].branch)
      BY <1>0, <1>1, <1>2, <2>2 DEF RoomTables
    <3>2. ASSUME NEW k \in Room, k # q, InTable(rooms'[k]), rooms'[k].org = rooms[q].org
          PROVE  rooms'[k].name # rooms[q].name
      BY <1>1, <1>2, <2>2, <3>1, <3>2 DEF RoomFits, RoomsOf
    <3>3. QED
      BY <3>1, <3>2 DEF RoomFits, RoomsOf, Organisation, BranchKnown
  <2>3. QED
    BY <2>1, <2>2
<1>3. \A q \in Room : stays'[q] # {} => InTable(rooms'[q])
  BY <1>0, <1>1 DEF RoomTables
<1>4. QED
  BY <1>0, <1>1, <1>2, <1>3 DEF RoomTables

LEMMA RoomRowTypes ==
    ASSUME RoomTables, NEW r \in Room, InTable(rooms[r])
    PROVE  /\ rooms[r] \in RoomRow /\ RoomFits(r, rooms[r])
           /\ BranchKnown(rooms[r].branch)
BY DEF RoomTables, InTable

LEMMA RoomsFollowTyped ==
    ASSUME TypeInv, OrgTables', OrgsSteady, RoomsFollow
    PROVE  RoomTables'
<1>0. RoomTables
  BY Tables
<1> DEFINE Loses(r) == InTable(rooms[r]) /\ rooms[r].branch # NoBranch
                          /\ ~InTable(branches'[rooms[r].branch])
<1>1. ASSUME NEW r \in Room
      PROVE  rooms'[r] = IF Loses(r) THEN [rooms[r] EXCEPT !.branch = NoBranch] ELSE rooms[r]
  BY DEF RoomsFollow
<1>2. ASSUME NEW r \in Room
      PROVE  /\ InTable(rooms'[r]) <=> InTable(rooms[r])
             /\ InTable(rooms[r]) => /\ rooms'[r].org = rooms[r].org
                                     /\ rooms'[r].name = rooms[r].name
             /\ rooms'[r] \in RoomRow \cup {Unused, Deleted}
  <2>1. CASE Loses(r)
    <3>1. rooms[r] \in RoomRow
      BY <1>0, <2>1, RoomRowTypes
    <3>2. /\ [rooms[r] EXCEPT !.branch = NoBranch] \in RoomRow
          /\ [rooms[r] EXCEPT !.branch = NoBranch].org = rooms[r].org
          /\ [rooms[r] EXCEPT !.branch = NoBranch].name = rooms[r].name
      BY <3>1 DEF RoomRow
    <3>3. QED
      BY <1>1, <2>1, <3>1, <3>2, RowsInTable
  <2>2. CASE ~Loses(r)
    BY <1>0, <1>1, <2>2 DEF RoomTables
  <2>3. QED
    BY <2>1, <2>2
<1>3. ASSUME NEW r \in Room, InTable(rooms'[r])
      PROVE  RoomFits(r, rooms[r])' /\ BranchKnown(rooms[r].branch)'
  <2>1. /\ InTable(rooms[r]) /\ rooms[r] \in RoomRow /\ RoomFits(r, rooms[r])
        /\ rooms'[r].org = rooms[r].org /\ rooms'[r].name = rooms[r].name
    BY <1>0, <1>2, <1>3, RoomRowTypes
  <2>2. rooms[r].org \in Org /\ rooms[r].org \in Organisation'
    BY <2>1 DEF RoomRow, RoomsFollow, Organisation
  <2>3. ASSUME NEW q \in Room, q # r, InTable(rooms'[q]), rooms'[q].org = rooms[r].org
        PROVE  rooms'[q].name # rooms[r].name
    BY <1>2, <2>1, <2>3 DEF RoomFits, RoomsOf
  <2>4. RoomFits(r, rooms[r])'
    BY <2>1, <2>2, <2>3 DEF RoomFits, RoomsOf
  <2>5. BranchKnown(rooms[r].branch)'
    <3>1. CASE Loses(r)
      <4>1. rooms'[r].branch = NoBranch
        BY <1>1, <2>1, <3>1 DEF RoomRow
      <4>2. QED
        BY <4>1 DEF BranchKnown
    <3>2. CASE ~Loses(r)
      BY <1>1, <2>1, <3>2 DEF BranchKnown
    <3>3. QED
      BY <3>1, <3>2
  <2>6. QED
    BY <2>4, <2>5
<1> HIDE DEF Loses
<1>4. rooms' \in [Room -> RoomRow \cup {Unused, Deleted}]
  BY <1>2 DEF RoomsFollow
<1>5. \A r \in Room : stays'[r] # {} => InTable(rooms'[r])
  BY <1>0, <1>2 DEF RoomTables, RoomsFollow
<1>6. QED
  BY <1>0, <1>3, <1>4, <1>5 DEF RoomTables, RoomsFollow

LEMMA UpdateRoomTyped ==
    ASSUME TypeInv, NEW p \in Request, UpdateRoom(p)
    PROVE  RoomsTyped
<1>1. PICK o \in Working, name \in Name, open \in BOOLEAN : \E r \in RoomsOf(o) :
        /\ Starts(p, [Idle EXCEPT !.pc = "room", !.org = o, !.id = r,
                        !.row = [rooms[r] EXCEPT !.name = name, !.open = open]])
        /\ UNCHANGED roomTables
  BY DEF UpdateRoom
<1>2. PICK r \in RoomsOf(o) :
        /\ Starts(p, [Idle EXCEPT !.pc = "room", !.org = o, !.id = r,
                        !.row = [rooms[r] EXCEPT !.name = name, !.open = open]])
        /\ UNCHANGED roomTables
  BY <1>1
<1> DEFINE row == [rooms[r] EXCEPT !.name = name, !.open = open]
           l == [Idle EXCEPT !.pc = "room", !.org = o, !.id = r, !.row = row]
<1>3. Shaped(l) /\ l.pc = "room" /\ l.org = o /\ l.id = r /\ l.row = row
  BY DEF Idle, Shaped
<1>4. r \in Room /\ rooms[r] \in RoomRow /\ rooms[r].org = o
  BY Tables, RoomRowTypes DEF RoomsOf
<1>5. row.name = name /\ row.open = open /\ row.org = o
  BY <1>4 DEF RoomRow
<1> HIDE DEF l, row
<1>6. Holds(l, orgs)
  BY <1>3, <1>4, <1>5, WorkingOrgs DEF Holds
<1>7. QED
  BY <1>2, <1>3, <1>6, RoomStartsTyped DEF l, row

LEMMA UpdateImagesTyped ==
    ASSUME TypeInv, NEW p \in Request, UpdateImages(p)
    PROVE  RoomsTyped
<1>1. PICK o \in Working, images \in SUBSET Picture : \E r \in RoomsOf(o) :
        /\ Starts(p, [Idle EXCEPT !.pc = "images", !.org = o, !.id = r,
                        !.row = [images |-> images]])
        /\ UNCHANGED roomTables
  BY DEF UpdateImages
<1>2. PICK r \in RoomsOf(o) :
        /\ Starts(p, [Idle EXCEPT !.pc = "images", !.org = o, !.id = r,
                        !.row = [images |-> images]])
        /\ UNCHANGED roomTables
  BY <1>1
<1> DEFINE l == [Idle EXCEPT !.pc = "images", !.org = o, !.id = r, !.row = [images |-> images]]
<1>3. Shaped(l) /\ l.pc = "images" /\ l.org = o /\ l.id = r /\ l.row = [images |-> images]
  BY DEF Idle, Shaped
<1> HIDE DEF l
<1>4. Holds(l, orgs)
  BY <1>3, WorkingOrgs DEF Holds, RoomsOf
<1>5. QED
  BY <1>2, <1>3, <1>4, RoomStartsTyped DEF l

LEMMA SetAvailabilityTyped ==
    ASSUME TypeInv, NEW p \in Request, SetAvailability(p)
    PROVE  RoomsTyped
<1>1. PICK o \in Working, open \in BOOLEAN : \E r \in RoomsOf(o) :
        /\ Starts(p, [Idle EXCEPT !.pc = "open", !.org = o, !.id = r, !.row = [open |-> open]])
        /\ UNCHANGED roomTables
  BY DEF SetAvailability
<1>2. PICK r \in RoomsOf(o) :
        /\ Starts(p, [Idle EXCEPT !.pc = "open", !.org = o, !.id = r, !.row = [open |-> open]])
        /\ UNCHANGED roomTables
  BY <1>1
<1> DEFINE l == [Idle EXCEPT !.pc = "open", !.org = o, !.id = r, !.row = [open |-> open]]
<1>3. Shaped(l) /\ l.pc = "open" /\ l.org = o /\ l.id = r /\ l.row = [open |-> open]
  BY DEF Idle, Shaped
<1> HIDE DEF l
<1>4. Holds(l, orgs)
  BY <1>3, WorkingOrgs DEF Holds, RoomsOf
<1>5. QED
  BY <1>2, <1>3, <1>4, RoomStartsTyped DEF l

LEMMA CreateRoomTyped ==
    ASSUME TypeInv, NEW p \in Request, CreateRoom(p)
    PROVE  RoomsTyped
<1>0. Requests
  BY Tables
<1>1. PICK o \in Working, r \in Room, name \in Name :
        \E br \in BranchGiven, images \in SUBSET Picture :
          LET row == [org |-> o, branch |-> br, name |-> name, open |-> TRUE, images |-> images]
          IN  /\ RoomFits(r, row) /\ BranchKnown(br) /\ rooms' = [rooms EXCEPT ![r] = row]
              /\ UNCHANGED <<req, orgTables, overtaken, asked, stays>>
  BY DEF CreateRoom, AtOnce
<1>2. PICK br \in BranchGiven, images \in SUBSET Picture :
          LET row == [org |-> o, branch |-> br, name |-> name, open |-> TRUE, images |-> images]
          IN  /\ RoomFits(r, row) /\ BranchKnown(br) /\ rooms' = [rooms EXCEPT ![r] = row]
              /\ UNCHANGED <<req, orgTables, overtaken, asked, stays>>
  BY <1>1
<1> DEFINE row == [org |-> o, branch |-> br, name |-> name, open |-> TRUE, images |-> images]
<1>3. row \in RoomRow /\ row.branch = br
  BY WorkingOrgs DEF RoomRow, BranchGiven
<1> HIDE DEF row
<1>4. RoomTables'
  BY <1>2, <1>3, RoomWritten DEF orgTables, row
<1>5. Requests'
  BY <1>0, <1>2, UnchangedOrgs, RequestsStay
<1>6. QED
  BY <1>2, <1>4, <1>5, OrgsUntouched DEF RoomsTyped

\* The statements that end an edit.
EditedRoom(p, r) ==
    /\ req[p].org \in Org /\ r \in RoomsOf(req[p].org)
    /\ \E row \in RoomRow :
          /\ rooms' = [rooms EXCEPT ![r] = row] /\ row.org = rooms[r].org
          /\ row.branch = rooms[r].branch /\ RoomFits(r, row)

LEMMA EditsTyped ==
    ASSUME TypeInv, NEW p \in Request, NEW pc, EditRoom(p, pc), NEW r \in Room,
           rooms' = rooms \/ EditedRoom(p, r)
    PROVE  RoomsTyped
<1>0. Requests /\ RoomTables
  BY Tables
<1>1. Return(p) /\ UNCHANGED <<orgTables, overtaken, asked, stays>>
  BY DEF EditRoom
<1>2. RoomTables'
  <2>1. CASE rooms' = rooms
    BY <1>1, <2>1, RoomTablesUnchanged DEF orgTables
  <2>2. CASE EditedRoom(p, r)
    <3>1. PICK row \in RoomRow :
            /\ rooms' = [rooms EXCEPT ![r] = row] /\ row.org = rooms[r].org
            /\ row.branch = rooms[r].branch /\ RoomFits(r, row)
      BY <2>2 DEF EditedRoom
    <3>2. InTable(rooms[r])
      BY <2>2 DEF EditedRoom, RoomsOf
    <3>3. BranchKnown(row.branch)
      BY <1>0, <3>1, <3>2, RoomRowTypes
    <3>4. QED
      BY <1>1, <3>1, <3>3, RoomWritten DEF orgTables
  <2>3. QED
    BY <2>1, <2>2
<1>3. Requests' /\ Moves(p, Idle)
  BY <1>0, <1>1, UnchangedOrgs, RequestsReturn
<1>4. QED
  BY <1>1, <1>2, <1>3, OrgsUntouched DEF RoomsTyped

LEMMA WriteRoomTyped ==
    ASSUME TypeInv, NEW p \in Request, WriteRoom(p)
    PROVE  RoomsTyped
<1> DEFINE r == req[p].id
           row == [rooms[r] EXCEPT !.name = req[p].row.name, !.open = req[p].row.open]
<1>1. /\ req[p].pc = "room" /\ EditRoom(p, "room")
      /\ \/ rooms' = rooms
         \/ /\ r \in RoomsOf(req[p].org) /\ RoomFits(r, req[p].row)
            /\ rooms' = [rooms EXCEPT ![r].name = req[p].row.name, ![r].open = req[p].row.open]
  BY DEF WriteRoom, EditRoom, Continues
<1>2. /\ r \in Room /\ req[p].row.name \in Name /\ req[p].row.open \in BOOLEAN
      /\ req[p].org \in Org /\ req[p].row.org = req[p].org
  BY <1>1, Tables DEF Requests, Holds
<1>3. CASE r \in RoomsOf(req[p].org) /\ RoomFits(r, req[p].row)
            /\ rooms' = [rooms EXCEPT ![r].name = req[p].row.name, ![r].open = req[p].row.open]
  <2>1. rooms[r] \in RoomRow /\ RoomFits(r, rooms[r]) /\ rooms[r].org = req[p].org
    BY <1>3, Tables, RoomRowTypes DEF RoomsOf
  <2>2. /\ row \in RoomRow /\ row.org = rooms[r].org /\ row.branch = rooms[r].branch
        /\ row.name = req[p].row.name
    BY <1>2, <2>1 DEF RoomRow
  <2>3. rooms' = [rooms EXCEPT ![r] = row]
    BY <1>2, <1>3
  <2> HIDE DEF row
  <2>4. RoomFits(r, row)
    BY <2>1, <2>2, <1>2, <1>3 DEF RoomFits
  <2>5. EditedRoom(p, r)
    BY <1>2, <1>3, <2>2, <2>3, <2>4 DEF EditedRoom
  <2>6. QED
    BY <1>1, <1>2, <2>5, EditsTyped
<1>4. QED
  BY <1>1, <1>2, <1>3, EditsTyped

LEMMA WriteImagesTyped ==
    ASSUME TypeInv, NEW p \in Request, WriteImages(p)
    PROVE  RoomsTyped
<1> DEFINE r == req[p].id
           row == [rooms[r] EXCEPT !.images = req[p].row.images]
<1>1. /\ req[p].pc = "images" /\ EditRoom(p, "images")
      /\ \/ rooms' = rooms
         \/ /\ r \in RoomsOf(req[p].org)
            /\ rooms' = [rooms EXCEPT ![r].images = req[p].row.images]
  BY DEF WriteImages, EditRoom, Continues
<1>2. r \in Room /\ req[p].row.images \in SUBSET Picture /\ req[p].org \in Org
  BY <1>1, Tables DEF Requests, Holds
<1>3. CASE r \in RoomsOf(req[p].org) /\ rooms' = [rooms EXCEPT ![r].images = req[p].row.images]
  <2>1. rooms[r] \in RoomRow /\ RoomFits(r, rooms[r])
    BY <1>3, Tables, RoomRowTypes DEF RoomsOf
  <2>2. /\ row \in RoomRow /\ row.org = rooms[r].org /\ row.branch = rooms[r].branch
        /\ row.name = rooms[r].name
    BY <1>2, <2>1 DEF RoomRow
  <2>3. rooms' = [rooms EXCEPT ![r] = row]
    BY <1>2, <1>3
  <2> HIDE DEF row
  <2>4. RoomFits(r, row)
    BY <2>1, <2>2 DEF RoomFits
  <2>5. EditedRoom(p, r)
    BY <1>2, <1>3, <2>2, <2>3, <2>4 DEF EditedRoom
  <2>6. QED
    BY <1>1, <1>2, <2>5, EditsTyped
<1>4. QED
  BY <1>1, <1>2, <1>3, EditsTyped

LEMMA WriteAvailabilityTyped ==
    ASSUME TypeInv, NEW p \in Request, WriteAvailability(p)
    PROVE  RoomsTyped
<1> DEFINE r == req[p].id
           row == [rooms[r] EXCEPT !.open = req[p].row.open]
<1>1. /\ req[p].pc = "open" /\ EditRoom(p, "open")
      /\ \/ rooms' = rooms
         \/ /\ r \in RoomsOf(req[p].org)
            /\ rooms' = [rooms EXCEPT ![r].open = req[p].row.open]
  BY DEF WriteAvailability, EditRoom, Continues
<1>2. r \in Room /\ req[p].row.open \in BOOLEAN /\ req[p].org \in Org
  BY <1>1, Tables DEF Requests, Holds
<1>3. CASE r \in RoomsOf(req[p].org) /\ rooms' = [rooms EXCEPT ![r].open = req[p].row.open]
  <2>1. rooms[r] \in RoomRow /\ RoomFits(r, rooms[r])
    BY <1>3, Tables, RoomRowTypes DEF RoomsOf
  <2>2. /\ row \in RoomRow /\ row.org = rooms[r].org /\ row.branch = rooms[r].branch
        /\ row.name = rooms[r].name
    BY <1>2, <2>1 DEF RoomRow
  <2>3. rooms' = [rooms EXCEPT ![r] = row]
    BY <1>2, <1>3
  <2> HIDE DEF row
  <2>4. RoomFits(r, row)
    BY <2>1, <2>2 DEF RoomFits
  <2>5. EditedRoom(p, r)
    BY <1>2, <1>3, <2>2, <2>3, <2>4 DEF EditedRoom
  <2>6. QED
    BY <1>1, <1>2, <2>5, EditsTyped
<1>4. QED
  BY <1>1, <1>2, <1>3, EditsTyped

LEMMA DeleteRoomTyped ==
    ASSUME TypeInv, NEW p \in Request, DeleteRoom(p)
    PROVE  RoomsTyped
<1>0. Requests /\ RoomTables
  BY Tables
<1>1. PICK r \in Room :
        /\ stays[r] = {} /\ rooms' = [rooms EXCEPT ![r] = Deleted]
        /\ UNCHANGED <<req, orgTables, overtaken, asked, stays>>
  BY DEF DeleteRoom, AtOnce, RoomsOf
<1>2. /\ rooms' \in [Room -> RoomRow \cup {Unused, Deleted}]
      /\ \A q \in Room : InTable(rooms'[q]) => InTable(rooms[q]) /\ rooms'[q] = rooms[q]
      /\ \A q \in Room : q # r => rooms'[q] = rooms[q]
  BY <1>0, <1>1, RowsInTable DEF RoomTables
<1>3. \A q \in Room : InTable(rooms'[q]) =>
         RoomFits(q, rooms[q])' /\ BranchKnown(rooms[q].branch)'
  BY <1>0, <1>1, <1>2
  DEF RoomTables, RoomFits, RoomsOf, Organisation, BranchKnown, orgTables
<1>4. \A q \in Room : stays'[q] # {} => InTable(rooms'[q])
  BY <1>0, <1>1, <1>2 DEF RoomTables
<1>5. RoomTables'
  BY <1>0, <1>1, <1>2, <1>3, <1>4 DEF RoomTables
<1>6. Requests'
  BY <1>0, <1>1, UnchangedOrgs, RequestsStay
<1>7. QED
  BY <1>1, <1>5, <1>6, OrgsUntouched DEF RoomsTyped

\* Bookings of rooms that are there.
LEMMA StaysTyped ==
    ASSUME TypeInv, NEW p \in Request, NEW r \in Room, NEW new \in SUBSET Stay,
           stays' = [stays EXCEPT ![r] = new], InTable(rooms[r]),
           UNCHANGED <<req, orgTables, overtaken, asked, rooms>>
    PROVE  RoomsTyped
<1>0. Requests /\ RoomTables
  BY Tables
<1>1. /\ stays' \in [Room -> SUBSET Stay]
      /\ \A q \in Room : stays'[q] # {} => InTable(rooms'[q])
  BY <1>0 DEF RoomTables
<1>2. RoomTables'
  BY <1>0, <1>1 DEF RoomTables, RoomFits, RoomsOf, Organisation, BranchKnown, orgTables
<1>3. Requests'
  BY <1>0, UnchangedOrgs, RequestsStay
<1>4. QED
  BY <1>2, <1>3, OrgsUntouched DEF RoomsTyped

LEMMA BookTyped ==
    ASSUME TypeInv, NEW p \in Request, Book(p)
    PROVE  RoomsTyped
<1>1. PICK o \in Working, d \in Period : \E r \in RoomsOf(o) :
        /\ stays' = [stays EXCEPT ![r] =
                        @ \cup {[from |-> d[1], to |-> d[2], status |-> "pending"]}]
        /\ UNCHANGED <<req, orgTables, overtaken, asked, rooms>>
  BY DEF Book, AtOnce
<1>2. PICK r \in RoomsOf(o) :
        /\ stays' = [stays EXCEPT ![r] =
                        @ \cup {[from |-> d[1], to |-> d[2], status |-> "pending"]}]
        /\ UNCHANGED <<req, orgTables, overtaken, asked, rooms>>
  BY <1>1
<1>3. r \in Room /\ InTable(rooms[r]) /\ stays[r] \in SUBSET Stay
  BY Tables DEF RoomsOf, RoomTables
<1>4. d[1] \in Day /\ d[2] \in Day
  BY DEF Period
<1>5. stays[r] \cup {[from |-> d[1], to |-> d[2], status |-> "pending"]} \in SUBSET Stay
  BY <1>3, <1>4 DEF Stay, Status
<1>6. QED
  BY <1>2, <1>3, <1>5, StaysTyped

LEMMA UpdateStatusTyped ==
    ASSUME TypeInv, NEW p \in Request, UpdateStatus(p)
    PROVE  RoomsTyped
<1>1. PICK r \in Room, to \in Status : \E s \in stays[r] :
        /\ stays' = [stays EXCEPT ![r] = (@ \ {s}) \cup {[s EXCEPT !.status = to]}]
        /\ UNCHANGED <<req, orgTables, overtaken, asked, rooms>>
  BY DEF UpdateStatus, AtOnce
<1>2. PICK s \in stays[r] :
        /\ stays' = [stays EXCEPT ![r] = (@ \ {s}) \cup {[s EXCEPT !.status = to]}]
        /\ UNCHANGED <<req, orgTables, overtaken, asked, rooms>>
  BY <1>1
<1>3. InTable(rooms[r]) /\ stays[r] \in SUBSET Stay /\ s \in Stay
  BY Tables DEF RoomTables
<1>4. [s EXCEPT !.status = to] \in Stay
  BY <1>3 DEF Stay
<1>5. (stays[r] \ {s}) \cup {[s EXCEPT !.status = to]} \in SUBSET Stay
  BY <1>3, <1>4
<1>6. QED
  BY <1>2, <1>3, <1>5, StaysTyped

LEMMA DeleteBookingTyped ==
    ASSUME TypeInv, NEW p \in Request, DeleteBooking(p)
    PROVE  RoomsTyped
<1>1. PICK o \in Working : \E r \in RoomsOf(o) : \E s \in stays[r] :
        /\ stays' = [stays EXCEPT ![r] = @ \ {s}]
        /\ UNCHANGED <<req, orgTables, overtaken, asked, rooms>>
  BY DEF DeleteBooking, AtOnce
<1>2. PICK r \in RoomsOf(o) : \E s \in stays[r] :
        /\ stays' = [stays EXCEPT ![r] = @ \ {s}]
        /\ UNCHANGED <<req, orgTables, overtaken, asked, rooms>>
  BY <1>1
<1>3. PICK s \in stays[r] :
        /\ stays' = [stays EXCEPT ![r] = @ \ {s}]
        /\ UNCHANGED <<req, orgTables, overtaken, asked, rooms>>
  BY <1>2
<1>4. r \in Room /\ InTable(rooms[r]) /\ stays[r] \ {s} \in SUBSET Stay
  BY Tables DEF RoomsOf, RoomTables
<1>5. QED
  BY <1>3, <1>4, StaysTyped

LEMMA RoomsNextTyped ==
    ASSUME TypeInv, NEW p \in Request, RoomsNext(p)
    PROVE  RoomsTyped
BY CreateRoomTyped, UpdateRoomTyped, UpdateImagesTyped, SetAvailabilityTyped, DeleteRoomTyped,
   WriteRoomTyped, WriteImagesTyped, WriteAvailabilityTyped, BookTyped, UpdateStatusTyped,
   DeleteBookingTyped
DEF RoomsNext

-------------------------------------------------------------------------------
(***************************************************************************)
(* The whole database.                                                     *)
(***************************************************************************)
\* Work on menus and rooms leaves the organisations alone.
Elsewhere ==
    /\ UNCHANGED <<orgTables, history>>
    /\ \A q \in Request : "main" \in {req[q].pc, req'[q].pc} => req'[q] = req[q]
    /\ \A q \in Request : req'[q].pc = "settings" => req'[q] = req[q]

LEMMA StartsElsewhere ==
    ASSUME Requests, NEW p \in Request, NEW r, Starts(p, r), r.pc \notin {"main", "settings"}
    PROVE  Elsewhere
<1>1. /\ req[p] = Idle /\ Moves(p, r) /\ UNCHANGED <<orgTables, history>>
  BY DEF Starts, MayStart, Moves
<1>2. /\ req'[p] = r /\ \A q \in Request : q # p => req'[q] = req[q]
  BY <1>1, MovesTo
<1>3. QED
  BY <1>1, <1>2, IdleHolds DEF Elsewhere

LEMMA ReturnsElsewhere ==
    ASSUME Requests, NEW p \in Request, NEW pc, Continues(p, pc), Return(p), pc # "main",
           UNCHANGED <<orgTables, overtaken, asked>>
    PROVE  Elsewhere
<1>1. req[p].pc = pc /\ Moves(p, Idle) /\ UNCHANGED cut
  BY DEF Continues, Return, Moves
<1>2. /\ req'[p] = Idle /\ \A q \in Request : q # p => req'[q] = req[q]
  BY <1>1, MovesTo
<1>3. QED
  BY <1>1, <1>2, IdleHolds DEF Elsewhere, history

LEMMA AtOnceElsewhere ==
    ASSUME NEW p \in Request, AtOnce(p), UNCHANGED <<orgTables, overtaken, asked>>
    PROVE  Elsewhere
BY DEF Elsewhere, AtOnce, history

LEMMA MenusElsewhere ==
    ASSUME TypeInv, NEW p \in Request, MenusNext(p)
    PROVE  Elsewhere
<1>0. Requests
  BY Tables
<1>1. CASE UpsertMenu(p)
  <2>1. PICK o, row : Starts(p, [Idle EXCEPT !.pc = "menu", !.org = o, !.row = row])
    BY <1>1 DEF UpsertMenu
  <2>2. [Idle EXCEPT !.pc = "menu", !.org = o, !.row = row].pc = "menu"
    BY DEF Idle
  <2>3. QED
    BY <1>0, <2>1, <2>2, StartsElsewhere
<1>2. CASE CreateMenuItem(p)
  <2>1. PICK o, br, row :
          Starts(p, [Idle EXCEPT !.pc = "item", !.org = o, !.branch = br, !.row = row])
    BY <1>2 DEF CreateMenuItem
  <2>2. [Idle EXCEPT !.pc = "item", !.org = o, !.branch = br, !.row = row].pc = "item"
    BY DEF Idle
  <2>3. QED
    BY <1>0, <2>1, <2>2, StartsElsewhere
<1>3. CASE UpdateMenuItem(p)
  <2>1. PICK o, i, row :
          Starts(p, [Idle EXCEPT !.pc = "item_edit", !.org = o, !.id = i, !.row = row])
    BY <1>3 DEF UpdateMenuItem
  <2>2. [Idle EXCEPT !.pc = "item_edit", !.org = o, !.id = i, !.row = row].pc = "item_edit"
    BY DEF Idle
  <2>3. QED
    BY <1>0, <2>1, <2>2, StartsElsewhere
<1>4. CASE DeleteMenuItem(p)
  BY <1>4, AtOnceElsewhere DEF DeleteMenuItem
<1>5. CASE InsertMenu(p)
  BY <1>0, <1>5, ReturnsElsewhere DEF InsertMenu
<1>6. CASE InsertMenuItem(p)
  BY <1>0, <1>6, ReturnsElsewhere DEF InsertMenuItem
<1>7. CASE WriteMenuItem(p)
  BY <1>0, <1>7, ReturnsElsewhere DEF WriteMenuItem
<1>8. QED
  BY <1>1, <1>2, <1>3, <1>4, <1>5, <1>6, <1>7 DEF MenusNext

LEMMA RoomsElsewhere ==
    ASSUME TypeInv, NEW p \in Request, RoomsNext(p)
    PROVE  Elsewhere
<1>0. Requests
  BY Tables
<1>1. CASE UpdateRoom(p)
  <2>1. PICK o, i, row : Starts(p, [Idle EXCEPT !.pc = "room", !.org = o, !.id = i, !.row = row])
    BY <1>1 DEF UpdateRoom
  <2>2. [Idle EXCEPT !.pc = "room", !.org = o, !.id = i, !.row = row].pc = "room"
    BY DEF Idle
  <2>3. QED
    BY <1>0, <2>1, <2>2, StartsElsewhere
<1>2. CASE UpdateImages(p)
  <2>1. PICK o, i, row : Starts(p, [Idle EXCEPT !.pc = "images", !.org = o, !.id = i, !.row = row])
    BY <1>2 DEF UpdateImages
  <2>2. [Idle EXCEPT !.pc = "images", !.org = o, !.id = i, !.row = row].pc = "images"
    BY DEF Idle
  <2>3. QED
    BY <1>0, <2>1, <2>2, StartsElsewhere
<1>3. CASE SetAvailability(p)
  <2>1. PICK o, i, row : Starts(p, [Idle EXCEPT !.pc = "open", !.org = o, !.id = i, !.row = row])
    BY <1>3 DEF SetAvailability
  <2>2. [Idle EXCEPT !.pc = "open", !.org = o, !.id = i, !.row = row].pc = "open"
    BY DEF Idle
  <2>3. QED
    BY <1>0, <2>1, <2>2, StartsElsewhere
<1>4. CASE CreateRoom(p) \/ DeleteRoom(p) \/ Book(p) \/ UpdateStatus(p) \/ DeleteBooking(p)
  BY <1>4, AtOnceElsewhere DEF CreateRoom, DeleteRoom, Book, UpdateStatus, DeleteBooking
<1>5. CASE WriteRoom(p) \/ WriteImages(p) \/ WriteAvailability(p)
  BY <1>0, <1>5, ReturnsElsewhere DEF WriteRoom, WriteImages, WriteAvailability, EditRoom
<1>6. QED
  BY <1>1, <1>2, <1>3, <1>4, <1>5 DEF RoomsNext

LEMMA StoppedTyped ==
    ASSUME TypeInv, UNCHANGED <<orgTables, menuTables, roomTables>>,
           req' = [p \in Request |-> Idle]
    PROVE  TypeInv'
<1>1. UNCHANGED <<orgs, branches, settings, menus, items, rooms, stays>>
  BY DEF orgTables, menuTables, roomTables
<1>2. OrgTables' /\ MenuTables' /\ RoomTables'
  BY <1>1, OrgTablesUnchanged, MenuTablesUnchanged, RoomTablesUnchanged
<1>3. /\ req' = [p \in Request |-> req'[p]]
      /\ \A p \in Request : req'[p].pc = "idle" /\ Shaped(req'[p]) /\ Holds(req'[p], orgs')
  BY IdleHolds
<1>4. Requests'
  BY <1>3 DEF Requests, Shaped, Holds
<1>5. Seeding'
  BY <1>3 DEF Seeding
<1>6. QED
  BY <1>2, <1>4, <1>5, TablesNext

LEMMA InitTyped == Init => TypeInv
<1> SUFFICES ASSUME Init PROVE TypeInv
  OBVIOUS
<1> USE DEF Init
<1>1. Default \in SettingsRow /\ [branch |-> NoBranch, active |-> TRUE] \in MenuRow
  BY DEF Default, SettingsRow, MenuRow
<1>2. OrgTables
  BY <1>1, RowsInTable, OrganisationsAssumption DEF OrgInit, OrgTables
<1>3. MenuTables
  BY <1>1, RowsInTable, OrganisationsAssumption DEF MenusInit, MenuTables
<1>4. RoomTables
  BY RowsInTable DEF RoomsInit, RoomTables
<1>5. Requests /\ Seeding
  BY IdleHolds DEF OrgInit, Requests, Seeding
<1>6. QED
  BY <1>2, <1>3, <1>4, <1>5, Tables

LEMMA NextTyped == TypeInv /\ [Next]_vars => TypeInv'
<1> SUFFICES ASSUME TypeInv, [Next]_vars PROVE TypeInv'
  OBVIOUS
<1>1. ASSUME NEW p \in Request, OrgAccept(p) \/ OrgContinue(p), MenusFollow, RoomsFollow
      PROVE  TypeInv'
  <2>1. OrgTables' /\ OrgsSteady /\ Requests' /\ Seeding'
    BY <1>1, OrgStepTyped DEF OrgsTyped
  <2>2. MenuTables' /\ RoomTables'
    BY <1>1, <2>1, MenusFollowTyped, RoomsFollowTyped
  <2>3. QED
    BY <2>1, <2>2, TablesNext
<1>2. ASSUME NEW p \in Request, MenusNext(p), UNCHANGED roomTables
      PROVE  TypeInv'
  <2>1. OrgTables' /\ MenuTables' /\ Requests' /\ Seeding'
    BY <1>2, MenusNextTyped DEF MenusTyped
  <2>2. RoomTables'
    BY <1>2, MenusElsewhere, RoomTablesUnchanged DEF Elsewhere, orgTables, roomTables
  <2>3. QED
    BY <2>1, <2>2, TablesNext
<1>3. ASSUME NEW p \in Request, RoomsNext(p), UNCHANGED menuTables
      PROVE  TypeInv'
  <2>1. OrgTables' /\ RoomTables' /\ Requests' /\ Seeding'
    BY <1>3, RoomsNextTyped DEF RoomsTyped
  <2>2. MenuTables'
    BY <1>3, RoomsElsewhere, MenuTablesUnchanged DEF Elsewhere, orgTables, menuTables
  <2>3. QED
    BY <2>1, <2>2, TablesNext
<1>4. CASE Stopped /\ UNCHANGED <<menuTables, roomTables>>
  BY <1>4, StoppedTyped DEF Stopped
<1>5. CASE UNCHANGED vars
  <2>1. UNCHANGED <<orgs, branches, settings, inUse, req, menus, items, rooms, stays>>
    BY <1>5 DEF vars, orgVars, orgTables, menuTables, roomTables
  <2>2. OrgTables' /\ NeverUnused /\ MenuTables' /\ RoomTables'
    BY <2>1, OrgTablesUnchanged, MenuTablesUnchanged, RoomTablesUnchanged DEF NeverUnused
  <2>3. Requests'
    BY <2>1, <2>2, Tables, RequestsStay
  <2>4. Seeding'
    BY <2>1, Tables DEF Seeding, Organisation, BranchesOf
  <2>5. QED
    BY <2>2, <2>3, <2>4, TablesNext
<1>6. QED
  BY <1>1, <1>2, <1>3, <1>4, <1>5 DEF Next

LEMMA TypeInvAlways == Spec => []TypeInv
BY InitTyped, NextTyped, PTL DEF Spec

\* Whatever requests run side by side and whenever the process stops, every
\* row refers to rows that are there: cascades and guards leave no menu or
\* room at a branch that is gone, no item on a menu that is gone, and no
\* organisation that still has rooms is deleted (the constraints of the
\* migrations and the repositories' statements).
THEOREM PremisesTypeCorrect == Spec => []TypeOK
BY TypeInvAlways, PTL DEF TypeInv

\* A menu that belongs to an organisation holds only that organisation's
\* items, although the menu of a desk is looked up by branch and falls back
\* to the menu of the system (menu_service.go, menu_repository.go).
THEOREM MenusAreTheirOwn == Spec => []MenuIsItsOwn
<1>1. TypeInv => MenuIsItsOwn
  BY OrganisationsAssumption DEF TypeInv, ItemsOwn, OwnItem, MenuIsItsOwn
<1>2. QED
  BY <1>1, TypeInvAlways, PTL

\* No request ever writes the rows of the system, the default settings and
\* the default menu, although an organisation without rows of its own reads
\* them when it edits (GetForOrg, GetMenu).
THEOREM DefaultsAlwaysUntouched == Spec => DefaultsUntouched
<1>1. TypeInv /\ TypeInv' =>
         settings'[NoOrg] = settings[NoOrg] /\ menus'[NoOrg] = menus[NoOrg]
  BY DEF TypeInv, DefaultsKept, Default
<1>2. QED
  BY <1>1, TypeInvAlways, PTL DEF DefaultsUntouched

-------------------------------------------------------------------------------
(***************************************************************************)
(* Menus and their branches.                                               *)
(***************************************************************************)
MenuStays(o) ==
    InTable(menus[o]) /\ InTable(menus'[o]) =>
        menus'[o].branch = IF menus[o].branch = NoBranch \/ InTable(branches'[menus[o].branch])
                             THEN menus[o].branch ELSE NoBranch

\* A menu that is not written stays, as the foreign key holds its branch.
LEMMA UnwrittenStays ==
    ASSUME TypeInv, NEW o \in Org, UNCHANGED branches,
           InTable(menus[o]) => menus'[o].branch = menus[o].branch
    PROVE  MenuStays(o)
<1>1. InTable(menus[o]) => BranchKnown(menus[o].branch)
  BY Tables DEF MenuTables
<1>2. QED
  BY <1>1 DEF MenuStays, BranchKnown

LEMMA FollowingStays ==
    ASSUME TypeInv, NEW o \in Org, MenusFollow
    PROVE  MenuStays(o)
<1>1. SUFFICES ASSUME InTable(menus[o]), InTable(menus'[o]) PROVE MenuStays(o)
  BY DEF MenuStays
<1> DEFINE Loses == menus[o].branch # NoBranch /\ ~InTable(branches'[menus[o].branch])
<1>2. menus[o] \in MenuRow /\ o \in DOMAIN menus /\ o # NoOrg
  BY <1>1, Tables, MenuRowTypes, OrganisationsAssumption DEF MenuTables
<1>3. menus'[o] = IF ~InTable(orgs'[o]) THEN Unused
                  ELSE IF Loses THEN [menus[o] EXCEPT !.branch = NoBranch] ELSE menus[o]
  BY <1>1, <1>2 DEF MenusFollow
<1>4. menus'[o] = IF Loses THEN [menus[o] EXCEPT !.branch = NoBranch] ELSE menus[o]
  BY <1>1, <1>3, RowsInTable
<1>5. [menus[o] EXCEPT !.branch = NoBranch].branch = NoBranch
  BY <1>2 DEF MenuRow
<1>6. QED
  BY <1>4, <1>5 DEF MenuStays

\* The insert of a menu becomes an update only for a row of the same branch.
LEMMA InsertingStays ==
    ASSUME TypeInv, NEW o \in Org, NEW p \in Request, InsertMenu(p)
    PROVE  MenuStays(o)
<1>1. /\ req[p].pc = "menu" /\ UNCHANGED branches
      /\ \/ menus' = menus
         \/ /\ InTable(menus[req[p].org]) => menus[req[p].org].branch = req[p].row.branch
            /\ menus' = [menus EXCEPT ![req[p].org] = req[p].row]
  BY DEF InsertMenu, Continues, orgTables
<1>2. req[p].org \in Org \cup {NoOrg} /\ menus \in [Org \cup {NoOrg} -> MenuRow \cup {Unused}]
  BY <1>1, Tables DEF Requests, Holds, MenuTables
<1>3. InTable(menus[o]) => menus'[o].branch = menus[o].branch
  BY <1>1, <1>2
<1>4. QED
  BY <1>1, <1>3, UnwrittenStays

\* A menu keeps its branch as long as the branch is there: two desks of
\* different branches that both found no menu insert two, and the constraint of
\* one row per organisation refuses the later one; deleting a branch leaves its
\* menu to the organisation (menu_repository.go, migrations 000041 and 000066).
THEOREM MenusAlwaysKeepBranch == Spec => MenuKeepsItsBranch
<1>1. TypeInv /\ [Next]_vars => \A o \in Org : MenuStays(o)
  <2> SUFFICES ASSUME TypeInv, [Next]_vars, NEW o \in Org PROVE MenuStays(o)
    OBVIOUS
  <2>1. CASE MenusFollow
    BY <2>1, FollowingStays
  <2>2. ASSUME NEW p \in Request, MenusNext(p) PROVE MenuStays(o)
    <3>1. UNCHANGED branches
      BY <2>2, MenusElsewhere DEF Elsewhere, orgTables
    <3>2. InsertMenu(p) \/ UNCHANGED menus
      BY <2>2 DEF MenusNext, UpsertMenu, CreateMenuItem, UpdateMenuItem, DeleteMenuItem,
                  InsertMenuItem, WriteMenuItem, menuTables
    <3>3. QED
      BY <2>2, <3>1, <3>2, InsertingStays, UnwrittenStays
  <2>3. ASSUME NEW p \in Request, RoomsNext(p), UNCHANGED menuTables PROVE MenuStays(o)
    BY <2>3, RoomsElsewhere, UnwrittenStays DEF Elsewhere, orgTables, menuTables
  <2>4. CASE Stopped /\ UNCHANGED <<menuTables, roomTables>>
    BY <2>4, UnwrittenStays DEF Stopped, orgTables, menuTables
  <2>5. CASE UNCHANGED vars
    BY <2>5, UnwrittenStays DEF vars, orgVars, orgTables, menuTables
  <2>6. QED
    BY <2>1, <2>2, <2>3, <2>4, <2>5 DEF Next
<1>2. TypeInv /\ [Next]_vars =>
        \A o \in Org : InTable(menus[o]) /\ InTable(menus'[o]) =>
          menus'[o].branch =
              IF menus[o].branch = NoBranch \/ InTable(branches'[menus[o].branch])
                THEN menus[o].branch ELSE NoBranch
  BY <1>1 DEF MenuStays
<1>3. QED
  BY <1>2, TypeInvAlways, PTL DEF Spec, MenuKeepsItsBranch

-------------------------------------------------------------------------------
(***************************************************************************)
(* Settings: a flag that a request was not given is written as it was      *)
(* asked for last, unless the request is behind or the flag was overtaken. *)
(***************************************************************************)
LEMMA IdleUpToDate == UpToDate(Idle)
BY IdleHolds DEF UpToDate

LEMMA SettingsOn ==
    ASSUME OrgTables, SettingsInv, UNCHANGED <<settings, asked, overtaken>>,
           \A o \in Org : orgs'[o] = Unused => orgs[o] = Unused,
           \A o \in Org : InTable(orgs'[o]) => InTable(orgs[o]) \/ orgs[o] = Unused,
           \A q \in Request : req'[q].pc = "settings" => req'[q] = req[q] \/ UpToDate(req'[q])
    PROVE  SettingsInv'
<1>1. /\ asked' \in [Org -> SettingsRow] /\ overtaken' \in [Org -> SUBSET Flag]
      /\ \A o \in Org : orgs'[o] = Unused => asked'[o] = Default
  BY DEF SettingsInv
<1>2. ASSUME NEW o \in Org, InTable(orgs'[o]) PROVE AsAsked(o)
  <2>1. CASE InTable(orgs[o])
    BY <2>1 DEF SettingsInv, Organisation
  <2>2. CASE orgs[o] = Unused
    BY <2>2, RowsInTable DEF SettingsInv, AsAsked, GetForOrg, OrgTables
  <2>3. QED
    BY <1>2, <2>1, <2>2
<1>3. \A o \in Organisation' : AsAsked(o)'
  BY <1>2 DEF AsAsked, GetForOrg, Organisation
<1>4. \A q \in Request : UpToDate(req[q])'
  BY DEF SettingsInv, UpToDate
<1>5. QED
  BY <1>1, <1>3, <1>4 DEF SettingsInv

LEMMA SettingsUpdate ==
    ASSUME TypeInv, SettingsInv, NEW p \in Request, UpdateSettings(p)
    PROVE  SettingsInv'
<1>0. Requests /\ OrgTables
  BY Tables
<1>1. PICK o \in Working, flags \in SUBSET Flag \ {{}} : \E given \in [flags -> BOOLEAN] :
        Starts(p, [Idle EXCEPT !.pc = "settings", !.org = o, !.given = flags,
                     !.row = Given(GetForOrg(o), given)])
  BY DEF UpdateSettings
<1>2. PICK given \in [flags -> BOOLEAN] :
        Starts(p, [Idle EXCEPT !.pc = "settings", !.org = o, !.given = flags,
                     !.row = Given(GetForOrg(o), given)])
  BY <1>1
<1> DEFINE r == [Idle EXCEPT !.pc = "settings", !.org = o, !.given = flags,
                     !.row = Given(GetForOrg(o), given)]
<1>3. r.org = o /\ r.given = flags /\ r.row = Given(GetForOrg(o), given)
  BY DEF Idle
<1> HIDE DEF r
<1>4. o \in Org /\ AsAsked(o) /\ GetForOrg(o) \in SettingsRow
  BY <1>0, WorkingOrgs, RowTypes DEF SettingsInv
<1>5. UpToDate(r)
  BY <1>3, <1>4, GivenTyped DEF UpToDate, AsAsked
<1>6. Moves(p, r) /\ UNCHANGED <<orgs, settings, asked, overtaken>>
  BY <1>2 DEF Starts, Moves, orgTables, history, r
<1>7. \A q \in Request : req'[q].pc = "settings" => req'[q] = req[q] \/ UpToDate(req'[q])
  BY <1>0, <1>5, <1>6, MovesTo
<1>8. QED
  BY <1>0, <1>6, <1>7, SettingsOn

LEMMA SettingsUpsert ==
    ASSUME TypeInv, SettingsInv, NEW p \in Request, Upsert(p)
    PROVE  SettingsInv'
<1>0. Requests /\ OrgTables
  BY Tables
<1> DEFINE o == req[p].org
           row == req[p].row
           given == req[p].given
           new == (overtaken[o] \ given) \cup (IF req[p].stale THEN Flag \ given ELSE {})
<1>1. /\ req[p].pc = "settings" /\ req' = LeaveBehind(p) /\ UNCHANGED orgs
      /\ \/ o \notin Organisation /\ UNCHANGED <<settings, asked, overtaken>>
         \/ /\ o \in Organisation /\ settings' = [settings EXCEPT ![o] = row]
            /\ asked' = [asked EXCEPT ![o] =
                  [f \in Flag |-> IF f \in given THEN row[f] ELSE @[f]]]
            /\ overtaken' = [overtaken EXCEPT ![o] = new]
  BY DEF Upsert, Continues
<1>2. row \in SettingsRow /\ o \in Org /\ o # NoOrg
  BY <1>0, <1>1, OrganisationsAssumption DEF Requests, Holds
<1>3. \A q \in Request : req'[q].pc = "settings" /\ ~req'[q].stale =>
         req'[q] = req[q] /\ req[q].org # o
  <2>1. ASSUME NEW q \in Request, q # p, req'[q] = [req[q] EXCEPT !.stale = TRUE]
        PROVE  req'[q].stale
    BY <1>0, <2>1 DEF Requests, Shaped
  <2>2. ASSUME NEW q \in Request, req'[q].pc = "settings", ~req'[q].stale
        PROVE  req'[q] = req[q] /\ req[q].org # o
    <3>1. q # p
      BY <1>0, <1>1, <2>2, LeftBehind, IdleHolds
    <3>2. req'[q] # [req[q] EXCEPT !.stale = TRUE]
      BY <2>1, <2>2, <3>1
    <3>3. req'[q] = req[q] /\ ~(req[q].pc = "settings" /\ req[q].org = req[p].org)
      BY <1>0, <1>1, <3>1, <3>2, LeftBehind
    <3>4. QED
      BY <2>2, <3>3
  <2>3. QED
    BY <2>2
<1>4. CASE UNCHANGED <<settings, asked, overtaken>>
  <2>1. \A q \in Request : req'[q].pc = "settings" => req'[q] = req[q] \/ UpToDate(req'[q])
    BY <1>3 DEF UpToDate
  <2>2. QED
    BY <1>0, <1>1, <1>4, <2>1, SettingsOn
<1>5. CASE /\ o \in Organisation /\ settings' = [settings EXCEPT ![o] = row]
           /\ asked' = [asked EXCEPT ![o] = [f \in Flag |-> IF f \in given THEN row[f] ELSE @[f]]]
           /\ overtaken' = [overtaken EXCEPT ![o] = new]
  <2>1. /\ asked \in [Org -> SettingsRow] /\ overtaken \in [Org -> SUBSET Flag]
        /\ UpToDate(req[p]) /\ given \subseteq Flag
    BY <1>0, <1>1 DEF SettingsInv, Requests, Holds
  <2> DEFINE a == [f \in Flag |-> IF f \in given THEN row[f] ELSE asked[o][f]]
  <2>2. /\ asked' = [asked EXCEPT ![o] = a] /\ a \in SettingsRow
    BY <1>2, <1>5, <2>1 DEF SettingsRow
  <2>3. \A f \in Flag : f \notin new => row[f] = a[f]
    BY <1>1, <2>1 DEF UpToDate
  <2>4. new \in SUBSET Flag
    BY <1>2, <2>1
  <2> HIDE DEF o, row, given, new, a
  <2>5. /\ asked' \in [Org -> SettingsRow] /\ asked'[o] = a
        /\ \A x \in Org : x # o => asked'[x] = asked[x]
        /\ overtaken' \in [Org -> SUBSET Flag] /\ overtaken'[o] = new
        /\ \A x \in Org : x # o => overtaken'[x] = overtaken[x]
    BY <1>2, <1>5, <2>1, <2>2, <2>4
  <2>6. /\ settings'[o] = row /\ settings'[NoOrg] = settings[NoOrg]
        /\ \A x \in Org : x # o => settings'[x] = settings[x]
    BY <1>0, <1>2, <1>5 DEF OrgTables
  <2>7. \A x \in Org : orgs'[x] = Unused => asked'[x] = Default
    BY <1>1, <1>5, <2>5, RowsInTable DEF SettingsInv, Organisation, InTable
  <2>8. ASSUME NEW x \in Organisation' PROVE AsAsked(x)'
    <3>1. x \in Org /\ x \in Organisation
      BY <1>1 DEF Organisation
    <3>2. CASE x = o
      <4>1. GetForOrg(x)' = row
        BY <1>2, <2>6, <3>2, RowsInTable DEF GetForOrg
      <4>2. QED
        BY <2>3, <2>5, <3>2, <4>1 DEF AsAsked
    <3>3. CASE x # o
      <4>1. GetForOrg(x)' = GetForOrg(x) /\ AsAsked(x)
        BY <2>6, <3>1, <3>3 DEF GetForOrg, SettingsInv
      <4>2. QED
        BY <2>5, <3>1, <3>3, <4>1 DEF AsAsked
    <3>4. QED
      BY <3>2, <3>3
  <2>9. ASSUME NEW q \in Request PROVE UpToDate(req[q])'
    <3>1. SUFFICES ASSUME req'[q].pc = "settings", ~req'[q].stale,
                          NEW f \in Flag \ req'[q].given, f \notin overtaken'[req'[q].org]
                   PROVE  req'[q].row[f] = asked'[req'[q].org][f]
      BY DEF UpToDate
    <3>2. req'[q] = req[q] /\ req[q].org # o /\ req[q].org \in Org
      BY <1>0, <1>3, <3>1 DEF Requests, Holds
    <3>3. QED
      BY <2>5, <3>1, <3>2 DEF SettingsInv, UpToDate
  <2>10. QED
    BY <2>5, <2>7, <2>8, <2>9 DEF SettingsInv
<1>6. QED
  BY <1>1, <1>4, <1>5

LEMMA SettingsOrgStep ==
    ASSUME TypeInv, SettingsInv, NEW p \in Request, OrgAccept(p) \/ OrgContinue(p)
    PROVE  SettingsInv'
<1>0. Requests /\ OrgTables
  BY Tables
<1>1. CASE Provision(p)
  <2>1. PICK o \in Org, detail \in Detail :
          /\ orgs[o] = Unused /\ orgs' = [orgs EXCEPT ![o] = [detail |-> detail]]
          /\ asked' = [asked EXCEPT ![o] = Default] /\ UNCHANGED <<settings, overtaken>>
          /\ Moves(p, [Idle EXCEPT !.pc = "main", !.org = o,
                 !.row = [org |-> o, code |-> Main, main |-> TRUE, detail |-> detail]])
    BY <1>1 DEF Provision, Moves
  <2> DEFINE r == [Idle EXCEPT !.pc = "main", !.org = o,
                 !.row = [org |-> o, code |-> Main, main |-> TRUE, detail |-> detail]]
  <2>2. r.pc = "main" /\ Moves(p, r)
    BY <2>1 DEF Idle
  <2> HIDE DEF r
  <2>3. UNCHANGED <<settings, asked, overtaken>>
    BY <2>1 DEF SettingsInv
  <2>4. \A q \in Request : req'[q].pc = "settings" => req'[q] = req[q]
    BY <1>0, <2>2, MovesTo
  <2>5. [detail |-> detail] \in OrgRow
    BY DEF OrgRow
  <2>6. \A x \in Org : /\ orgs'[x] = Unused => orgs[x] = Unused
                       /\ InTable(orgs'[x]) => InTable(orgs[x]) \/ orgs[x] = Unused
    BY <1>0, <2>1 DEF OrgTables
  <2>7. QED
    BY <1>0, <2>3, <2>4, <2>6, SettingsOn
<1>2. CASE UpdateOrg(p)
  <2>1. PICK o, row : Starts(p, [Idle EXCEPT !.pc = "org", !.org = o, !.row = row])
    BY <1>2 DEF UpdateOrg
  <2>2. [Idle EXCEPT !.pc = "org", !.org = o, !.row = row].pc \notin {"main", "settings"}
    BY DEF Idle
  <2>3. QED
    BY <1>0, <2>1, <2>2, StartsElsewhere, SettingsOn DEF Elsewhere, orgTables, history
<1>3. CASE UpdateBranch(p)
  <2>1. PICK o, b, row :
          Starts(p, [Idle EXCEPT !.pc = "branch", !.org = o, !.branch = b, !.row = row])
    BY <1>3 DEF UpdateBranch
  <2>2. [Idle EXCEPT !.pc = "branch", !.org = o, !.branch = b, !.row = row].pc
          \notin {"main", "settings"}
    BY DEF Idle
  <2>3. QED
    BY <1>0, <2>1, <2>2, StartsElsewhere, SettingsOn DEF Elsewhere, orgTables, history
<1>4. CASE Vacate(p) \/ CreateBranch(p) \/ DeleteBranch(p)
  <2>1. UNCHANGED <<orgs, settings, asked, overtaken, req>>
    BY <1>4 DEF Vacate, CreateBranch, DeleteBranch, AtOnce
  <2>2. QED
    BY <1>0, <2>1, SettingsOn
<1>5. CASE DeleteOrg(p)
  <2>1. PICK o \in Organisation :
          /\ orgs' = [orgs EXCEPT ![o] = Deleted] /\ settings' = [settings EXCEPT ![o] = Unused]
          /\ UNCHANGED <<asked, overtaken, req>>
    BY <1>5 DEF DeleteOrg, AtOnce
  <2>2. o \in Org /\ o # NoOrg
    BY OrganisationsAssumption DEF Organisation
  <2>3. /\ ~InTable(orgs'[o]) /\ orgs'[o] # Unused /\ settings'[NoOrg] = settings[NoOrg]
        /\ \A x \in Org : x # o => orgs'[x] = orgs[x] /\ settings'[x] = settings[x]
    BY <1>0, <2>1, <2>2, RowsInTable DEF OrgTables
  <2>4. \A x \in Organisation' : AsAsked(x)'
    BY <2>1, <2>3 DEF SettingsInv, AsAsked, GetForOrg, Organisation
  <2>5. \A q \in Request : UpToDate(req[q])'
    BY <2>1 DEF SettingsInv, UpToDate
  <2>6. QED
    BY <2>1, <2>3, <2>4, <2>5 DEF SettingsInv
<1>6. CASE SeedMainBranch(p) \/ WriteOrg(p) \/ WriteBranch(p)
  <2>1. Moves(p, Idle) /\ UNCHANGED <<settings, asked, overtaken>>
    BY <1>6 DEF SeedMainBranch, WriteOrg, WriteBranch, Return, Moves
  <2>2. \A q \in Request : req'[q].pc = "settings" => req'[q] = req[q]
    BY <1>0, <2>1, MovesTo, IdleHolds
  <2>3. \/ UNCHANGED orgs
        \/ /\ req[p].pc = "org" /\ req[p].org \in Organisation
           /\ orgs' = [orgs EXCEPT ![req[p].org] = req[p].row]
    BY <1>6 DEF SeedMainBranch, WriteOrg, WriteBranch, Continues
  <2>4. \A x \in Org : /\ orgs'[x] = Unused => orgs[x] = Unused
                       /\ InTable(orgs'[x]) => InTable(orgs[x]) \/ orgs[x] = Unused
    <3>1. CASE UNCHANGED orgs
      BY <3>1
    <3>2. CASE /\ req[p].pc = "org" /\ req[p].org \in Organisation
               /\ orgs' = [orgs EXCEPT ![req[p].org] = req[p].row]
      <4>1. req[p].row \in OrgRow /\ req[p].org \in Org
        BY <1>0, <3>2 DEF Requests, Holds
      <4>2. InTable(req[p].row) /\ req[p].row # Unused
        BY <4>1, RowsInTable DEF InTable
      <4>3. QED
        BY <1>0, <3>2, <4>2 DEF OrgTables, Organisation
    <3>3. QED
      BY <2>3, <3>1, <3>2
  <2>5. QED
    BY <1>0, <2>1, <2>2, <2>4, SettingsOn
<1>7. CASE UpdateSettings(p) \/ Upsert(p)
  BY <1>7, SettingsUpdate, SettingsUpsert
<1>8. QED
  BY <1>1, <1>2, <1>3, <1>4, <1>5, <1>6, <1>7 DEF OrgAccept, OrgContinue

\* The desk reads what the nightly jobs run for, and a flag is what was asked
\* for last, the default where nobody asked, although every update writes both
\* flags: only a write that had read the flag before another one was written
\* takes it back (organization_settings_service.go,
\* organization_settings_repository.go).
THEOREM SettingsAlwaysKept == Spec => []SettingsKept
<1>1. Init => SettingsInv
  <2>1. Default \in SettingsRow
    BY DEF Default, SettingsRow
  <2>2. QED
    BY <2>1, RowsInTable, IdleUpToDate DEF Init, OrgInit, SettingsInv, Organisation
<1>2. TypeInv /\ SettingsInv /\ [Next]_vars => SettingsInv'
  <2> SUFFICES ASSUME TypeInv, SettingsInv, [Next]_vars PROVE SettingsInv'
    OBVIOUS
  <2>0. OrgTables
    BY Tables
  <2>1. ASSUME NEW p \in Request, OrgAccept(p) \/ OrgContinue(p) PROVE SettingsInv'
    BY <2>1, SettingsOrgStep
  <2>2. ASSUME NEW p \in Request, MenusNext(p) \/ RoomsNext(p) PROVE SettingsInv'
    BY <2>0, <2>2, MenusElsewhere, RoomsElsewhere, SettingsOn DEF Elsewhere, orgTables, history
  <2>3. CASE Stopped
    BY <2>0, <2>3, IdleUpToDate, SettingsOn DEF Stopped, orgTables
  <2>4. CASE UNCHANGED vars
    BY <2>0, <2>4, SettingsOn DEF vars, orgVars, orgTables, history
  <2>5. QED
    BY <2>1, <2>2, <2>3, <2>4 DEF Next
<1>3. TypeInv /\ SettingsInv => SettingsKept
  <2>1. ASSUME NEW o \in Organisation, NEW f \in Flag
        PROVE  GetForOrg(o)[f] <=> o \in ListEnabledOrgsForJob(f)
    BY DEF ListEnabledOrgsForJob, GetForOrg
  <2>2. QED
    BY <2>1 DEF SettingsInv, AsAsked, SettingsKept
<1>4. QED
  BY <1>1, <1>2, <1>3, TypeInvAlways, PTL DEF Spec

-------------------------------------------------------------------------------
(***************************************************************************)
(* Rooms: pictures, and the three queries that say when a room is taken.   *)
(***************************************************************************)
PicturesInv == hung \in [Room -> SUBSET Picture] /\ PicturesStay

\* Whatever else an edit writes, it leaves the pictures of its room alone.
LEMMA PicturesOn ==
    ASSUME PicturesInv, UNCHANGED hung,
           \A r \in Room : InTable(rooms'[r]) =>
              InTable(rooms[r]) /\ rooms'[r].images = rooms[r].images
    PROVE  PicturesInv'
BY DEF PicturesInv, PicturesStay

\* A row with other values in some fields, and one with other pictures.
LEMMA EditsKeepPictures ==
    ASSUME NEW row \in RoomRow
    PROVE  /\ \A br : [row EXCEPT !.branch = br].images = row.images
           /\ \A open : [row EXCEPT !.open = open].images = row.images
           /\ \A name, open : [row EXCEPT !.name = name, !.open = open].images = row.images
           /\ \A images : [row EXCEPT !.images = images].images = images
BY DEF RoomRow

LEMMA FollowKeepsPictures ==
    ASSUME TypeInv, PicturesInv, RoomsFollow
    PROVE  PicturesInv'
<1>1. UNCHANGED hung
  BY DEF RoomsFollow
<1>2. ASSUME NEW r \in Room, InTable(rooms'[r])
      PROVE  InTable(rooms[r]) /\ rooms'[r].images = rooms[r].images
  <2>1. \/ rooms'[r] = rooms[r]
        \/ InTable(rooms[r]) /\ rooms'[r] = [rooms[r] EXCEPT !.branch = NoBranch]
    BY DEF RoomsFollow
  <2>2. InTable(rooms[r]) => rooms[r] \in RoomRow
    BY Tables, RoomRowTypes
  <2>3. CASE rooms'[r] = rooms[r]
    BY <1>2, <2>3
  <2>4. CASE InTable(rooms[r]) /\ rooms'[r] = [rooms[r] EXCEPT !.branch = NoBranch]
    <3>1. [rooms[r] EXCEPT !.branch = NoBranch].images = rooms[r].images
      BY <2>2, <2>4, EditsKeepPictures
    <3>2. QED
      BY <2>4, <3>1
  <2>5. QED
    BY <2>1, <2>3, <2>4
<1>3. QED
  BY <1>1, <1>2, PicturesOn

LEMMA RoomsKeepPictures ==
    ASSUME TypeInv, PicturesInv, NEW p \in Request, RoomsNext(p)
    PROVE  PicturesInv'
<1>0. /\ RoomTables /\ Requests
      /\ \A r \in Room : InTable(rooms[r]) => rooms[r] \in RoomRow
  BY Tables, RoomRowTypes
<1>1. CASE CreateRoom(p)
  <2>1. PICK r \in Room, row \in RoomRow :
          /\ rooms' = [rooms EXCEPT ![r] = row] /\ hung' = [hung EXCEPT ![r] = row.images]
    <3>1. PICK o \in Working, r \in Room, name \in Name :
            \E br \in BranchGiven, images \in SUBSET Picture :
              LET row == [org |-> o, branch |-> br, name |-> name, open |-> TRUE,
                          images |-> images]
              IN  /\ RoomFits(r, row) /\ rooms' = [rooms EXCEPT ![r] = row]
                  /\ hung' = [hung EXCEPT ![r] = images]
      BY <1>1 DEF CreateRoom
    <3>2. PICK br \in BranchGiven, images \in SUBSET Picture :
              LET row == [org |-> o, branch |-> br, name |-> name, open |-> TRUE,
                          images |-> images]
              IN  /\ RoomFits(r, row) /\ rooms' = [rooms EXCEPT ![r] = row]
                  /\ hung' = [hung EXCEPT ![r] = images]
      BY <3>1
    <3> DEFINE row == [org |-> o, branch |-> br, name |-> name, open |-> TRUE, images |-> images]
    <3>3. row \in RoomRow /\ row.images = images
      BY WorkingOrgs DEF RoomRow, BranchGiven
    <3>4. QED
      BY <3>2, <3>3
  <2>2. row.images \in SUBSET Picture
    BY DEF RoomRow
  <2>3. /\ rooms'[r] = row /\ \A q \in Room : q # r => rooms'[q] = rooms[q]
        /\ hung'[r] = row.images /\ \A q \in Room : q # r => hung'[q] = hung[q]
        /\ hung' \in [Room -> SUBSET Picture]
    BY <1>0, <2>1, <2>2 DEF RoomTables, PicturesInv
  <2>4. QED
    BY <2>3 DEF PicturesInv, PicturesStay
<1>2. CASE WriteImages(p)
  <2>1. req[p].pc = "images"
    BY <1>2 DEF WriteImages, EditRoom, Continues
  <2> DEFINE r == req[p].id
             images == req[p].row.images
  <2>2. r \in Room /\ images \in SUBSET Picture
    BY <1>0, <2>1 DEF Requests, Holds
  <2>3. CASE UNCHANGED <<rooms, hung>>
    BY <2>3 DEF PicturesInv, PicturesStay
  <2>4. CASE /\ r \in RoomsOf(req[p].org) /\ hung' = [hung EXCEPT ![r] = images]
             /\ rooms' = [rooms EXCEPT ![r].images = images]
    <3>1. rooms[r] \in RoomRow
      BY <1>0, <2>4 DEF RoomsOf
    <3> DEFINE row == [rooms[r] EXCEPT !.images = images]
    <3>2. row.images = images
      BY <3>1, EditsKeepPictures
    <3>3. rooms' = [rooms EXCEPT ![r] = row]
      BY <2>2, <2>4
    <3> HIDE DEF row, r, images
    <3>4. /\ rooms'[r] = row /\ \A q \in Room : q # r => rooms'[q] = rooms[q]
          /\ hung'[r] = images /\ \A q \in Room : q # r => hung'[q] = hung[q]
          /\ hung' \in [Room -> SUBSET Picture]
      BY <1>0, <2>2, <2>4, <3>3 DEF RoomTables, PicturesInv
    <3>5. QED
      BY <3>2, <3>4 DEF PicturesInv, PicturesStay
  <2>5. QED
    BY <1>2, <2>3, <2>4 DEF WriteImages
<1>3. CASE UpdateRoom(p) \/ UpdateImages(p) \/ SetAvailability(p) \/ Book(p) \/ UpdateStatus(p)
          \/ DeleteBooking(p)
  <2>1. UNCHANGED <<rooms, hung>>
    BY <1>3 DEF UpdateRoom, UpdateImages, SetAvailability, Book, UpdateStatus, DeleteBooking,
           roomTables
  <2>2. QED
    BY <2>1 DEF PicturesInv, PicturesStay
<1>4. CASE DeleteRoom(p)
  <2>1. PICK r \in Room : rooms' = [rooms EXCEPT ![r] = Deleted] /\ UNCHANGED hung
    BY <1>4 DEF DeleteRoom, RoomsOf
  <2>2. \A q \in Room : InTable(rooms'[q]) => rooms'[q] = rooms[q]
    BY <1>0, <2>1, RowsInTable DEF RoomTables
  <2>3. QED
    BY <2>1, <2>2, PicturesOn
<1>5. CASE WriteRoom(p)
  <2> DEFINE r == req[p].id
             row == [rooms[r] EXCEPT !.name = req[p].row.name, !.open = req[p].row.open]
  <2>1. \/ UNCHANGED rooms
        \/ r \in RoomsOf(req[p].org) /\ rooms' = [rooms EXCEPT ![r] = row]
    BY <1>5 DEF WriteRoom
  <2>2. InTable(rooms[r]) /\ r \in Room => row.images = rooms[r].images
    BY <1>0, EditsKeepPictures
  <2> HIDE DEF row, r
  <2>3. \A q \in Room : InTable(rooms'[q]) =>
           InTable(rooms[q]) /\ rooms'[q].images = rooms[q].images
    BY <1>0, <2>1, <2>2 DEF RoomTables, RoomsOf
  <2>4. QED
    BY <1>5, <2>3, PicturesOn DEF WriteRoom
<1>6. CASE WriteAvailability(p)
  <2> DEFINE r == req[p].id
             row == [rooms[r] EXCEPT !.open = req[p].row.open]
  <2>1. \/ UNCHANGED rooms
        \/ r \in RoomsOf(req[p].org) /\ rooms' = [rooms EXCEPT ![r] = row]
    BY <1>6 DEF WriteAvailability
  <2>2. InTable(rooms[r]) /\ r \in Room => row.images = rooms[r].images
    BY <1>0, EditsKeepPictures
  <2> HIDE DEF row, r
  <2>3. \A q \in Room : InTable(rooms'[q]) =>
           InTable(rooms[q]) /\ rooms'[q].images = rooms[q].images
    BY <1>0, <2>1, <2>2 DEF RoomTables, RoomsOf
  <2>4. QED
    BY <1>6, <2>3, PicturesOn DEF WriteAvailability
<1>7. QED
  BY <1>1, <1>2, <1>3, <1>4, <1>5, <1>6 DEF RoomsNext

\* A room shows the pictures that were uploaded last, whatever edits read the
\* room before the upload and write after it: no other statement names the
\* column (room_repository.go).
THEOREM PicturesAlwaysStay == Spec => []PicturesStay
<1>1. Init => PicturesInv
  BY RowsInTable DEF Init, RoomsInit, PicturesInv, PicturesStay
<1>2. TypeInv /\ PicturesInv /\ [Next]_vars => PicturesInv'
  <2> SUFFICES ASSUME TypeInv, PicturesInv, [Next]_vars PROVE PicturesInv'
    OBVIOUS
  <2>1. CASE RoomsFollow
    BY <2>1, FollowKeepsPictures
  <2>2. ASSUME NEW p \in Request, RoomsNext(p) PROVE PicturesInv'
    BY <2>2, RoomsKeepPictures
  <2>3. CASE UNCHANGED <<rooms, hung>>
    BY <2>3 DEF PicturesInv, PicturesStay
  <2>4. QED
    BY <2>1, <2>2, <2>3 DEF Next, vars, roomTables
<1>3. PicturesInv => PicturesStay
  BY DEF PicturesInv
<1>4. QED
  BY <1>1, <1>2, <1>3, TypeInvAlways, PTL DEF Spec

\* The queries agree on every period: the search finds the rooms on the
\* market that a booking would get, those beside which no taken period is
\* shown that overlaps it (room_repository.go, booking_repository.go).
THEOREM ListsAlwaysAgree == Spec => []ListsAgree
<1>1. ASSUME TypeInv, NEW o \in Organisation, NEW d \in Period
      PROVE  /\ ListAvailable(o, NoBranch, d[1], d[2]) =
                   {r \in RoomsOf(o) : rooms[r].open /\ IsRoomAvailable(r, d[1], d[2])}
             /\ \A r \in RoomsOf(o) : IsRoomAvailable(r, d[1], d[2]) <=>
                   \A t \in GetBookedDates(r) : t[2] <= d[1] \/ d[2] <= t[1]
  <2>1. ListAvailable(o, NoBranch, d[1], d[2]) =
           {r \in RoomsOf(o) : rooms[r].open /\ IsRoomAvailable(r, d[1], d[2])}
    BY DEF ListAvailable, IsRoomAvailable, Overlaps
  <2>2. ASSUME NEW r \in RoomsOf(o)
        PROVE  IsRoomAvailable(r, d[1], d[2]) <=>
                  \A t \in GetBookedDates(r) : t[2] <= d[1] \/ d[2] <= t[1]
    <3>1. ASSUME NEW s \in stays[r]
          PROVE  Overlaps(s.from, s.to, d[1], d[2]) <=> ~(s.to <= d[1] \/ d[2] <= s.from)
      <4>1. stays[r] \in SUBSET Stay /\ s \in Stay
        BY <1>1, Tables DEF RoomTables, RoomsOf
      <4>2. s.from \in Int /\ s.to \in Int /\ d[1] \in Int /\ d[2] \in Int
        BY <4>1, RoomsAssumption DEF Stay, Day, Period
      <4>3. QED
        BY <4>2 DEF Overlaps
    <3>2. (\A t \in GetBookedDates(r) : t[2] <= d[1] \/ d[2] <= t[1]) <=>
          (\A s \in stays[r] : s.status \in ActiveStatus => s.to <= d[1] \/ d[2] <= s.from)
      <4>1. \A s \in stays[r] : s.status \in ActiveStatus => <<s.from, s.to>> \in GetBookedDates(r)
        BY DEF GetBookedDates, ActiveStatus
      <4>2. \A t \in GetBookedDates(r) : \E s \in stays[r] :
               s.status \in ActiveStatus /\ t = <<s.from, s.to>>
        BY DEF GetBookedDates, ActiveStatus
      <4>3. \A s \in stays[r] : <<s.from, s.to>>[1] = s.from /\ <<s.from, s.to>>[2] = s.to
        OBVIOUS
      <4>4. QED
        BY <4>1, <4>2, <4>3
    <3>3. QED
      BY <3>1, <3>2 DEF IsRoomAvailable
  <2>3. QED
    BY <2>1, <2>2
<1>2. TypeInv => ListsAgree
  BY <1>1 DEF ListsAgree
<1>3. QED
  BY <1>2, TypeInvAlways, PTL
===============================================================================
