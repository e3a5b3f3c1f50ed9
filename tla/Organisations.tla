----------------------------- MODULE Organisations -----------------------------
(***************************************************************************)
(* The organisations that run lodges: provisioning and deletion by the     *)
(* back office, the branches of an organisation, and its settings, which   *)
(* say for which organisations the nightly jobs run.                       *)
(*                                                                         *)
(* Addresses, hours and logos are one field.  The users, rooms and         *)
(* bookings that keep an organisation from being deleted are one flag.     *)
(***************************************************************************)
EXTENDS Integers, FiniteSets

CONSTANTS
    Org, NoOrg,          \* identities, never reused; NULL, the system's default
    Branch, NoBranch,
    Code, Main,          \* branch codes, and the one of the seeded branch
    Detail,
    Name,                \* of rooms and of items
    Request,
    MaxServed            \* bound: requests served in a behaviour

Flag == {"auto_close_orders", "auto_extend_checkout"}

ASSUME OrganisationsAssumption ==
    /\ NoOrg \notin Org /\ NoBranch \notin Branch /\ Main \in Code
    /\ MaxServed \in Nat

\* The default row, as the migration inserts it.
Default == [f \in Flag |-> TRUE]

VARIABLES
    orgs,      \* the organizations table
    inUse,     \* organisations that users, rooms or bookings refer to
    branches,  \* the branches table
    settings,  \* the organization_settings table, by org_id
    cut,       \* organisations whose provisioning a crash cut short (history)
    asked,     \* the settings that were asked for last (history)
    overtaken, \* flags that a stale write has taken along since (history)
    req,       \* the local state of every request in flight
    served     \* how many requests were accepted (bounded)

orgTables == <<orgs, inUse, branches, settings>>
history == <<asked, overtaken, cut>>
orgVars == <<orgTables, history, req, served>>

-------------------------------------------------------------------------------
(***************************************************************************)
(* Rows.                                                                   *)
(***************************************************************************)
Unused  == [row |-> "unused"]
Deleted == [row |-> "deleted"]
InTable(row) == row \notin {Unused, Deleted}

OrgRow == [detail : Detail]
BranchRow == [org : Org, code : Code, main : BOOLEAN, detail : Detail]
SettingsRow == [Flag -> BOOLEAN]

Organisation == {o \in Org : InTable(orgs[o])}
BranchesOf(o) == {b \in Branch : InTable(branches[b]) /\ branches[b].org = o}

\* The branch of a desk: the one of the token or of the request, or none.
\* Nobody asks whose it is, or whether it is still there.
BranchGiven == {b \in Branch : branches[b] # Unused} \cup {NoBranch}

\* The foreign key of whatever is at a branch.
BranchKnown(br) == br # NoBranch => InTable(branches[br])

\* A branch belongs to an organisation, where its code is unique.
BranchFits(b, row) ==
    /\ row.org \in Organisation
    /\ \A c \in BranchesOf(row.org) \ {b} : branches[c].code # row.code

\* The settings of an organisation: its row, or the default.
\* Mistake: the default, which sorts first, is found before the row.
GetDefaultFirst(o) == settings[NoOrg]
GetForOrg(o) == IF InTable(settings[o]) THEN settings[o] ELSE settings[NoOrg]

\* The organisations that a job runs for.
ListEnabledOrgsForJob(flag) ==
    {o \in Organisation : IF InTable(settings[o]) THEN settings[o][flag]
                                                  ELSE settings[NoOrg][flag]}

-------------------------------------------------------------------------------
(***************************************************************************)
(* Requests.  pc is the next statement; row is what it will write.         *)
(***************************************************************************)
Idle == [pc |-> "idle", org |-> NoOrg, branch |-> NoBranch, id |-> NoBranch,
         row |-> Unused, given |-> {}, stale |-> FALSE]

MayStart(p) == req[p] = Idle /\ served < MaxServed
Starts(p, local) ==
    /\ MayStart(p)
    /\ served' = served + 1
    /\ req' = [req EXCEPT ![p] = local]
    /\ UNCHANGED <<orgTables, history>>

Continues(p, pc) == req[p].pc = pc /\ UNCHANGED <<served, cut>>
Return(p) == req' = [req EXCEPT ![p] = Idle]

\* A request of one statement.
AtOnce(p) == MayStart(p) /\ served' = served + 1 /\ UNCHANGED <<cut, req>>

\* The first admin's password is mailed at the end of provisioning and is kept
\* nowhere else: nobody works for an organisation before, or without it.
Provisioned == {o \in Organisation : \A p \in Request : ~(req[p].pc = "main" /\ req[p].org = o)}
Working == (Provisioned \cap inUse) \ cut

-------------------------------------------------------------------------------
(***************************************************************************)
(* The back office.  Organisation and first admin are one transaction; the *)
(* main branch is inserted after it, and a failure there is dropped.       *)
(***************************************************************************)
Provision(p) == \E o \in Org, detail \in Detail :
    /\ MayStart(p) /\ served' = served + 1
    /\ orgs[o] = Unused
    /\ orgs' = [orgs EXCEPT ![o] = [detail |-> detail]]
    /\ inUse' = inUse \cup {o}
    /\ asked' = [asked EXCEPT ![o] = Default]
    /\ req' = [req EXCEPT ![p] = [Idle EXCEPT !.pc = "main", !.org = o,
                 !.row = [org |-> o, code |-> Main, main |-> TRUE, detail |-> detail]]]
    /\ UNCHANGED <<branches, settings, overtaken, cut>>

\* Whether or not the insert succeeds, the admin's password is mailed next.
SeedMainBranch(p) ==
    /\ Continues(p, "main") /\ Return(p)
    /\ \/ \E b \in Branch : branches[b] = Unused /\ branches' = [branches EXCEPT ![b] = req[p].row]
       \/ UNCHANGED branches
    /\ UNCHANGED <<orgs, inUse, settings, overtaken, asked>>

UpdateOrg(p) == \E o \in Organisation, detail \in Detail :
    Starts(p, [Idle EXCEPT !.pc = "org", !.org = o, !.row = [detail |-> detail]])

WriteOrg(p) ==
    /\ Continues(p, "org")
    /\ orgs' = IF req[p].org \in Organisation
                 THEN [orgs EXCEPT ![req[p].org] = req[p].row] ELSE orgs
    /\ Return(p)
    /\ UNCHANGED <<inUse, branches, settings, overtaken, asked>>

\* The last user, room and booking of the organisation are gone.
Vacate(p) == \E o \in Working :
    /\ AtOnce(p)
    /\ inUse' = inUse \ {o}
    /\ UNCHANGED <<orgs, branches, settings, overtaken, asked>>

\* Branches and settings go with their organisation.
DeleteOrg(p) == \E o \in Organisation \ inUse :
    /\ AtOnce(p)
    /\ orgs' = [orgs EXCEPT ![o] = Deleted]
    /\ branches' = [b \in Branch |-> IF b \in BranchesOf(o) THEN Deleted ELSE branches[b]]
    /\ settings' = [settings EXCEPT ![o] = Unused]
    /\ UNCHANGED <<inUse, overtaken, asked>>

-------------------------------------------------------------------------------
(***************************************************************************)
(* Branches, by the staff of their organisation.  An edit reads the row    *)
(* and writes it back whole.                                               *)
(***************************************************************************)
CreateBranch(p) == \E o \in Working, b \in Branch, code \in Code, detail \in Detail :
    LET row == [org |-> o, code |-> code, main |-> FALSE, detail |-> detail]
    IN  /\ AtOnce(p)
        /\ branches[b] = Unused /\ BranchFits(b, row)
        /\ branches' = [branches EXCEPT ![b] = row]
        /\ UNCHANGED <<orgs, inUse, settings, overtaken, asked>>

\* Any branch can be made the main one, or stop being it.
UpdateBranch(p) == MayStart(p) /\ \E o \in Working : \E b \in BranchesOf(o) :
    \E row \in [org : {o}, code : Code, main : BOOLEAN, detail : Detail] :
        Starts(p, [Idle EXCEPT !.pc = "branch", !.org = o, !.branch = b, !.row = row])

\* Mistake: a branch that is gone is put back.
WriteBranchBack(p) ==
    /\ Continues(p, "branch")
    /\ branches' = [branches EXCEPT ![req[p].branch] = req[p].row]
    /\ Return(p)
    /\ UNCHANGED <<orgs, inUse, settings, overtaken, asked>>

WriteBranch(p) ==
    LET b == req[p].branch
    IN  /\ Continues(p, "branch")
        /\ branches' = IF b \in BranchesOf(req[p].org) /\ BranchFits(b, req[p].row)
                         THEN [branches EXCEPT ![b] = req[p].row] ELSE branches
        /\ Return(p)
        /\ UNCHANGED <<orgs, inUse, settings, overtaken, asked>>

DeleteBranch(p) == \E o \in Working : \E b \in BranchesOf(o) :
    /\ AtOnce(p)
    /\ branches' = [branches EXCEPT ![b] = Deleted]
    /\ UNCHANGED <<orgs, inUse, settings, overtaken, asked>>

-------------------------------------------------------------------------------
(***************************************************************************)
(* Settings.  Flags that are not given are written back as they were read. *)
(***************************************************************************)
Given(current, given) == [f \in Flag |-> IF f \in DOMAIN given THEN given[f] ELSE current[f]]

UpdateSettings(p) == \E o \in Working, flags \in SUBSET Flag \ {{}} :
    \E given \in [flags -> BOOLEAN] :
        Starts(p, [Idle EXCEPT !.pc = "settings", !.org = o, !.given = flags,
                     !.row = Given(GetForOrg(o), given)])

\* Whoever has read the settings of the organisation already is now behind.
LeaveBehind(p) == [q \in Request |->
    IF q = p THEN Idle
    ELSE IF req[q].pc = "settings" /\ req[q].org = req[p].org
      THEN [req[q] EXCEPT !.stale = TRUE] ELSE req[q]]

\* The flags that were not given are those that were read: if that was before
\* another write, this one takes them back with it.
Upsert(p) ==
    LET o == req[p].org
        given == req[p].given
    IN  /\ Continues(p, "settings")
        /\ IF o \in Organisation
             THEN /\ settings' = [settings EXCEPT ![o] = req[p].row]
                  /\ asked' = [asked EXCEPT ![o] =
                        [f \in Flag |-> IF f \in given THEN req[p].row[f] ELSE @[f]]]
                  /\ overtaken' = [overtaken EXCEPT ![o] =
                        (@ \ given) \cup (IF req[p].stale THEN Flag \ given ELSE {})]
             ELSE UNCHANGED <<settings, asked, overtaken>>
        /\ req' = LeaveBehind(p)
        /\ UNCHANGED <<orgs, inUse, branches>>

-------------------------------------------------------------------------------
Stopped ==
    /\ req' = [p \in Request |-> Idle]
    /\ cut' = cut \cup {req[p].org : p \in {q \in Request : req[q].pc = "main"}}
    /\ UNCHANGED <<orgTables, overtaken, asked, served>>

OrgInit ==
    /\ orgs = [o \in Org |-> Unused]
    /\ inUse = {}
    /\ branches = [b \in Branch |-> Unused]
    /\ settings = [o \in Org \cup {NoOrg} |-> IF o = NoOrg THEN Default ELSE Unused]
    /\ asked = [o \in Org |-> Default]
    /\ overtaken = [o \in Org |-> {}]
    /\ cut = {}
    /\ req = [p \in Request |-> Idle]
    /\ served = 0

OrgAccept(p) ==
    \/ Provision(p) \/ UpdateOrg(p) \/ Vacate(p) \/ DeleteOrg(p)
    \/ CreateBranch(p) \/ UpdateBranch(p) \/ DeleteBranch(p) \/ UpdateSettings(p)

OrgContinue(p) ==
    \/ SeedMainBranch(p) \/ WriteOrg(p) \/ WriteBranch(p) \/ Upsert(p)

-------------------------------------------------------------------------------
(***************************************************************************)
(* Properties.                                                             *)
(***************************************************************************)

\* Every write of the settings writes both flags, and the fallback to the
\* default is written out twice.  Still the desk reads what the jobs run for,
\* and a flag is what was last asked for, whatever was asked of the other one
\* meanwhile and by whom, unless a write that had read it before another one
\* was written has taken it back.
SettingsKept ==
    \A o \in Organisation, f \in Flag :
        /\ GetForOrg(o)[f] <=> o \in ListEnabledOrgsForJob(f)
        /\ f \notin overtaken[o] => GetForOrg(o)[f] = asked[o][f]
===============================================================================
