------------------------------- MODULE Premises -------------------------------
(***************************************************************************)
(* What an organisation runs its lodge with, as one database: branches and *)
(* settings, menus and rooms, and the foreign keys that tie them together  *)
(* when an organisation or a branch is deleted.                            *)
(***************************************************************************)
EXTENDS Menus, Rooms

vars == <<orgVars, menuTables, roomTables>>

Init == OrgInit /\ MenusInit /\ RoomsInit

Next ==
    \/ \E p \in Request :
          \/ (OrgAccept(p) \/ OrgContinue(p)) /\ MenusFollow /\ RoomsFollow
          \/ MenusNext(p) /\ UNCHANGED roomTables
          \/ RoomsNext(p) /\ UNCHANGED menuTables
    \/ Stopped /\ UNCHANGED <<menuTables, roomTables>>

Spec == Init /\ [][Next]_vars

-------------------------------------------------------------------------------
\* Rows are well formed and refer to rows that are there: whatever belongs to
\* an organisation goes with it or keeps it, no menu or room names a branch
\* that is gone, whosever it was, no item is on a menu that is gone, and a
\* room that is booked remains.
TypeOK ==
    /\ orgs \in [Org -> OrgRow \cup {Unused, Deleted}]
    /\ branches \in [Branch -> BranchRow \cup {Unused, Deleted}]
    /\ settings \in [Org \cup {NoOrg} -> SettingsRow \cup {Unused}]
    /\ menus \in [Org \cup {NoOrg} -> MenuRow \cup {Unused}]
    /\ items \in [Item -> ItemRow \cup {Unused, Deleted}]
    /\ rooms \in [Room -> RoomRow \cup {Unused, Deleted}]
    /\ stays \in [Room -> SUBSET Stay]
    /\ \A b \in Branch : InTable(branches[b]) => BranchFits(b, branches[b])
    /\ \A o \in Org : InTable(settings[o]) \/ InTable(menus[o]) => o \in Organisation
    /\ \A o \in Org : InTable(menus[o]) => BranchKnown(menus[o].branch)
    /\ \A i \in Item : InTable(items[i]) => ItemFits(i, items[i])
    /\ \A r \in Room : InTable(rooms[r]) =>
          RoomFits(r, rooms[r]) /\ BranchKnown(rooms[r].branch)
    /\ \A r \in Room : stays[r] # {} => InTable(rooms[r])

\* A menu stays where it is: two desks of different branches that both found
\* no menu each insert one, and the later one is refused, not merged; only a
\* branch that is deleted leaves its menu to the whole organisation.
MenuKeepsItsBranch ==
    [][\A o \in Org : InTable(menus[o]) /\ InTable(menus'[o]) =>
          menus'[o].branch =
              IF menus[o].branch = NoBranch \/ InTable(branches'[menus[o].branch])
                THEN menus[o].branch ELSE NoBranch]_vars

\* The rows of the system are only ever read: editing the settings or the
\* menu of an organisation that still uses the defaults gives it rows of its
\* own and leaves the other organisations on the defaults.
DefaultsUntouched ==
    [][settings'[NoOrg] = settings[NoOrg] /\ menus'[NoOrg] = menus[NoOrg]]_vars
===============================================================================
