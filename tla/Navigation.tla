----------------------------- MODULE Navigation -----------------------------
(***************************************************************************)
(* Menus and their items (MenuService, MenuItemService).  An item belongs  *)
(* to a menu and may name a parent item, which nobody relates to the       *)
(* item's menu or to the item itself.  getBreadcrumb reads one row after   *)
(* the other up the parents.                                               *)
(***************************************************************************)
EXTENDS Hierarchy

CONSTANTS Menu, Item, MaxMoves

\* Null is no id, and a table has finitely many rows.
ASSUME NavAssumption ==
  NONE \notin Menu \cup Item /\ IsFiniteSet(Item) /\ MaxMoves \in Nat

VARIABLES menus,     \* the menus that exist
          navMenu,   \* the menu of each item, NONE when there is no row
          navParent, \* the parent column of the items
          navMoves,  \* how many changes clients have made
          navReq     \* the breadcrumbs being built: the item reached, or NONE

navRows == <<menus, navMenu, navParent, navMoves>>
navVars == <<navRows, navReq>>

-----------------------------------------------------------------------------
NavInit == /\ menus = {}
           /\ navMenu = [i \in Item |-> NONE] /\ navParent = [i \in Item |-> NONE]
           /\ navMoves = 0
           /\ navReq = [r \in Request |-> NONE]

Items == {i \in Item : navMenu[i] # NONE}

NavChange == navMoves < MaxMoves /\ navMoves' = navMoves + 1

CreateMenu(m) ==
  /\ NavChange
  /\ m \notin menus /\ menus' = menus \cup {m}
  /\ UNCHANGED <<navMenu, navParent, navReq>>

\* deleteMenu and bulkDelete: the items go with the menu, and their children of
\* other menus become roots there.
DeleteMenu(m) ==
  /\ NavChange
  /\ m \in menus /\ menus' = menus \ {m}
  /\ navMenu' = [i \in Item |-> IF navMenu[i] = m THEN NONE ELSE navMenu[i]]
  /\ navParent' = Cleared(navParent, {i \in Item : navMenu[i] = m})
  /\ UNCHANGED navReq

\* createMenuItem, and each turn of importMenuItems: only the keys ask for the
\* menu and the parent.
CreateItem(i) ==
  /\ NavChange
  /\ i \notin Items
  /\ \E m \in menus, p \in Items \cup {NONE} :
       /\ navMenu' = [navMenu EXCEPT ![i] = m]
       /\ navParent' = [navParent EXCEPT ![i] = p]
  /\ UNCHANGED <<menus, navReq>>

\* updateMenuItem: an item may move to any menu and below any item, itself
\* included.
UpdateItem(i) ==
  /\ NavChange
  /\ i \in Items
  /\ \E m \in menus, p \in Items \cup {NONE} :
       /\ navMenu' = [navMenu EXCEPT ![i] = m]
       /\ navParent' = [navParent EXCEPT ![i] = p]
  /\ UNCHANGED <<menus, navReq>>

\* deleteMenuItem: the children become roots.
DeleteItem(i) ==
  /\ NavChange
  /\ i \in Items
  /\ navMenu' = [navMenu EXCEPT ![i] = NONE]
  /\ navParent' = Cleared(navParent, {i})
  /\ UNCHANGED <<menus, navReq>>

\* getBreadcrumb: the item itself is read first.
BeginBreadcrumb(r) ==
  /\ navReq[r] = NONE
  /\ \E i \in Items : navReq' = [navReq EXCEPT ![r] = i]
  /\ UNCHANGED navRows

\* Mutant: an item without a parent is read again.
ParentOrSelf(i) == IF navParent[i] = NONE THEN i ELSE navParent[i]

NextCrumb(i) == navParent[i]

\* One turn of the loop: it ends at a root, or at an item that is gone.
Breadcrumb(r) ==
  /\ navReq[r] # NONE
  /\ navReq' = [navReq EXCEPT ![r] = NextCrumb(navReq[r])]
  /\ UNCHANGED navRows

NavNext == \/ \E m \in Menu : CreateMenu(m) \/ DeleteMenu(m)
           \/ \E i \in Item : CreateItem(i) \/ UpdateItem(i) \/ DeleteItem(i)
           \/ \E r \in Request : BeginBreadcrumb(r) \/ Breadcrumb(r)

NavFairness == \A r \in Request : WF_navVars(Breadcrumb(r))

NavSpec == NavInit /\ [][NavNext]_navVars /\ NavFairness

-----------------------------------------------------------------------------
(* Properties *)

\* Menus, items and breadcrumbs are well formed; an item's menu and parent exist.
NavTypeOK ==
  /\ menus \subseteq Menu
  /\ navMenu \in [Item -> menus \cup {NONE}]
  /\ navParent \in [Item -> Items \cup {NONE}]
  /\ \A i \in Item \ Items : navParent[i] = NONE
  /\ navMoves \in 0..MaxMoves
  /\ navReq \in [Request -> Item \cup {NONE}]

\* A breadcrumb (getBreadcrumb) comes to an end, whatever moves or goes while it
\* is built, unless a cycle of items lies above it.
BreadcrumbsEnd ==
  \A r \in Request :
    navReq[r] # NONE ~>
      navReq[r] = NONE
      \/ \E i \in Above(navParent, navReq[r]) \cup {navReq[r]} : OnCycle(navParent, i)
=============================================================================
