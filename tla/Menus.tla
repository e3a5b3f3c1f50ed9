--------------------------------- MODULE Menus ---------------------------------
(***************************************************************************)
(* Menus and their items, beside the organisations and branches they       *)
(* belong to.  An organisation has one menu at most: it is the menu of a   *)
(* branch, or of the whole organisation; organisations that have none fall *)
(* back to the menu of the system, which is that of NoOrg.                 *)
(*                                                                         *)
(* Prices, categories and descriptions are left out, and so are items that *)
(* cannot be deleted because they were ordered: the attempt has no effect. *)
(***************************************************************************)
EXTENDS Organisations

CONSTANT Item

VARIABLES menus, items  \* the tables, menus by the organisation they belong to

menuTables == <<menus, items>>

MenuRow == [branch : Branch \cup {NoBranch}, active : BOOLEAN]
ItemRow == [menu : Org \cup {NoOrg}, org : Org, name : Name, available : BOOLEAN]

-------------------------------------------------------------------------------
(***************************************************************************)
(* Queries.                                                                *)
(***************************************************************************)
HasMenu(o, br) == InTable(menus[o]) /\ menus[o].branch = br

\* The menu that the desk of a branch, or of the organisation, works on.
\* Mistake: the menu of the branch's level is looked up for any organisation.
GetMenuOfAny(o, br) ==
    CHOOSE m \in Org \cup {NoOrg} :
        \/ HasMenu(m, br) /\ m # NoOrg
        \/ m = NoOrg /\ \A n \in Org : ~HasMenu(n, br)
GetMenu(o, br) == IF HasMenu(o, br) \/ HasMenu(o, NoBranch) THEN o ELSE NoOrg

\* The menu that a guest is shown, and the items on it.
GuestGetMenu(o, br) ==
    IF (HasMenu(o, br) \/ HasMenu(o, NoBranch)) /\ menus[o].active THEN o ELSE NoOrg
ListAvailableMenuItems(m) ==
    {i \in Item : InTable(items[i]) /\ items[i].menu = m /\ items[i].available}

ItemsOf(o) == {i \in Item : InTable(items[i]) /\ items[i].org = o}

\* An item is on a menu that exists, where its name is unique.
ItemFits(i, row) ==
    /\ row.org \in Organisation /\ InTable(menus[row.menu])
    /\ \A j \in Item \ {i} : InTable(items[j]) =>
          <<items[j].menu, items[j].name>> # <<row.menu, row.name>>

-------------------------------------------------------------------------------
(***************************************************************************)
(* Menus.  A request reads the menu it would edit and inserts a row with   *)
(* what it read and what was asked for.  Only a row of the same branch     *)
(* turns the insert into an update; a row of another, or of none, makes it *)
(* fail, as an organisation has one row.                                   *)
(***************************************************************************)
\* active: as it is given, or as it was read.
UpsertMenu(p) == MayStart(p) /\ \E o \in Working, active \in BOOLEAN :
    \E br \in BranchGiven :
        /\ Starts(p, [Idle EXCEPT !.pc = "menu", !.org = o,
                        !.row = [branch |-> br, active |-> active]])
        /\ UNCHANGED menuTables

\* Mistake: a row of any branch turns the insert into an update.
InsertMenuOfOrg(p) ==
    LET o == req[p].org  row == req[p].row
    IN  /\ Continues(p, "menu") /\ Return(p)
        /\ menus' = IF o \in Organisation /\ BranchKnown(row.branch)
                      THEN [menus EXCEPT ![o] = row] ELSE menus
        /\ UNCHANGED <<orgTables, overtaken, asked, items>>

\* Mistake: the row that was read is updated, whosever it is.
InsertMenuRead(p) ==
    LET o == req[p].org  row == req[p].row
    IN  /\ Continues(p, "menu") /\ Return(p)
        /\ menus' = [menus EXCEPT ![GetMenu(o, row.branch)] = row]
        /\ UNCHANGED <<orgTables, overtaken, asked, items>>

InsertMenu(p) ==
    LET o == req[p].org  row == req[p].row
    IN  /\ Continues(p, "menu") /\ Return(p)
        /\ menus' = IF /\ o \in Organisation /\ BranchKnown(row.branch)
                       /\ InTable(menus[o]) => /\ row.branch # NoBranch
                                               /\ menus[o].branch = row.branch
                      THEN [menus EXCEPT ![o] = row] ELSE menus
        /\ UNCHANGED <<orgTables, overtaken, asked, items>>

-------------------------------------------------------------------------------
(***************************************************************************)
(* Items.  The branch that an item is created at is never read: only the   *)
(* foreign key sees it.                                                    *)
(***************************************************************************)
CreateMenuItem(p) == MayStart(p) /\ \E o \in Working, name \in Name :
    \E br \in BranchGiven :
        /\ Starts(p, [Idle EXCEPT !.pc = "item", !.org = o, !.branch = br,
                        !.row = [menu |-> GetMenu(o, br), org |-> o,
                                 name |-> name, available |-> TRUE]])
        /\ UNCHANGED menuTables

InsertMenuItem(p) == \E i \in Item :
    /\ Continues(p, "item") /\ Return(p)
    /\ items[i] = Unused
    /\ items' = IF ItemFits(i, req[p].row) /\ BranchKnown(req[p].branch)
                  THEN [items EXCEPT ![i] = req[p].row] ELSE items
    /\ UNCHANGED <<orgTables, overtaken, asked, menus>>

UpdateMenuItem(p) == MayStart(p) /\ \E o \in Working : \E i \in ItemsOf(o) :
    \E name \in Name, available \in BOOLEAN :
        /\ Starts(p, [Idle EXCEPT !.pc = "item_edit", !.org = o, !.id = i,
                        !.row = [items[i] EXCEPT !.name = name, !.available = available]])
        /\ UNCHANGED menuTables

WriteMenuItem(p) ==
    LET i == req[p].id
    IN  /\ Continues(p, "item_edit") /\ Return(p)
        /\ items' = IF i \in ItemsOf(req[p].org) /\ ItemFits(i, req[p].row)
                      THEN [items EXCEPT ![i] = req[p].row] ELSE items
        /\ UNCHANGED <<orgTables, overtaken, asked, menus>>

DeleteMenuItem(p) == MayStart(p) /\ \E o \in Working : \E i \in ItemsOf(o) :
    /\ AtOnce(p)
    /\ items' = [items EXCEPT ![i] = Deleted]
    /\ UNCHANGED <<orgTables, overtaken, asked, menus>>

-------------------------------------------------------------------------------
(***************************************************************************)
(* What deleting an organisation or a branch takes along: the menu of the  *)
(* organisation and the items it has anywhere; a menu outlives its branch  *)
(* and becomes that of the whole organisation.                             *)
(***************************************************************************)
MenusFollow ==
    /\ menus' = [o \in DOMAIN menus |->
          IF o # NoOrg /\ ~InTable(orgs'[o]) THEN Unused
          ELSE IF InTable(menus[o]) /\ menus[o].branch # NoBranch
                    /\ ~InTable(branches'[menus[o].branch])
            THEN [menus[o] EXCEPT !.branch = NoBranch] ELSE menus[o]]
    /\ items' = [i \in Item |->
          IF InTable(items[i]) /\ ~InTable(orgs'[items[i].org]) THEN Deleted ELSE items[i]]

-------------------------------------------------------------------------------
MenusInit ==
    /\ menus = [o \in Org \cup {NoOrg} |->
                  IF o = NoOrg THEN [branch |-> NoBranch, active |-> TRUE] ELSE Unused]
    /\ items = [i \in Item |-> Unused]

MenusNext(p) ==
    \/ UpsertMenu(p) \/ CreateMenuItem(p) \/ UpdateMenuItem(p) \/ DeleteMenuItem(p)
    \/ InsertMenu(p) \/ InsertMenuItem(p) \/ WriteMenuItem(p)

-------------------------------------------------------------------------------
(***************************************************************************)
(* Properties.                                                             *)
(***************************************************************************)

\* What stands on the menu of an organisation is its own: neither a desk that
\* worked on another menu when it began, nor a menu that changed its level,
\* brings another organisation's item there.
MenuIsItsOwn ==
    \A o \in Org : InTable(menus[o]) =>
        \A i \in Item : InTable(items[i]) /\ items[i].menu = o => items[i].org = o
===============================================================================
