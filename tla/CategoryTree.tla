---------------------------- MODULE CategoryTree ----------------------------
(***************************************************************************)
(* The tree of content categories (src/src/modules/content-management):    *)
(* rows with a nullable parent key, contents filed under them, and the     *)
(* requests of CategoryService that read the tree in one statement and     *)
(* change it in a later one.  The check for circular references walks up   *)
(* one row per statement, so other requests move categories under it.      *)
(*                                                                         *)
(* Names, slugs, orders and isActive are left out: they may refuse a       *)
(* request before it writes, which is a request that is never sent here.   *)
(***************************************************************************)
EXTENDS Handlers

CONSTANTS Category,  \* identifiers of category rows
          Content,   \* content rows
          UNDEFINED  \* JavaScript's undefined, which is not null

ASSUME CategoryAssumption == /\ NONE \notin Category \cup Content \cup Request
                             /\ UNDEFINED \notin Category \cup {NONE}

VARIABLES rows,    \* the categories that exist
          parent,  \* column parentId, NONE for a root
          filed,   \* column categoryId of a content, NONE when it does not exist
          req,     \* the requests in flight
          forced   \* history: categories moved by a request that acted on a stale tree

vars == <<rows, parent, filed, req, forced>>

-----------------------------------------------------------------------------
Link == Category \cup {NONE}

\* A request: its position, the category it works on, the parent it asks for,
\* the cursor and the visited set of hasCircularReference, and two histories:
\* whether a parent changed since it began, and the children its category got
\* since it saw that there were none.
Req == [pc : {"idle", "insert", "parent", "walk", "write", "children", "contents", "delete"},
        id : Link, to : Link, at : Link, visited : SUBSET Category,
        stale : BOOLEAN, late : SUBSET Category]

Idle == [pc |-> "idle", id |-> NONE, to |-> NONE, at |-> NONE, visited |-> {},
         stale |-> FALSE, late |-> {}]

Children(c) == {d \in rows : parent[d] = c}
ContentsOf(c) == {x \in Content : filed[x] = c}

\* Identifiers are cuids and never come back, so a new row takes none that a
\* request still holds.
Held == UNION {{req[r].id, req[r].to, req[r].at} \cup req[r].visited \cup req[r].late :
               r \in Request}
Fresh == Category \ (rows \cup Held)

Begin(r, q) == /\ req[r].pc = "idle"
               /\ req' = [req EXCEPT ![r] = q]
               /\ UNCHANGED <<rows, parent, filed, forced>>

Goto(r, q) == /\ req' = [req EXCEPT ![r] = q]
              /\ UNCHANGED <<rows, parent, filed, forced>>

\* The request ends, and the change of a parent makes every other one stale.
EndStaling(r) ==
  req' = [q \in Request |-> IF q = r \/ req[q].pc = "idle" THEN Idle
                            ELSE [req[q] EXCEPT !.stale = TRUE]]

\* c becomes a child of p: a deletion of p that has looked for children missed it.
Attach(q, c, p) ==
  IF q.pc \in {"contents", "delete"} /\ q.id = p
  THEN [q EXCEPT !.late = @ \cup {c}] ELSE q

Init == /\ rows = {}
        /\ parent = [c \in Category |-> NONE]
        /\ filed = [x \in Content |-> NONE]
        /\ req = [r \in Request |-> Idle]
        /\ forced = {}

-----------------------------------------------------------------------------
(* createCategory: the parent is looked up, then the row is inserted. *)

BeginCreate(r) == \E p \in rows \cup {NONE} : Begin(r, [Idle EXCEPT !.pc = "insert", !.to = p])

\* The foreign key refuses a parent that has gone.  Category bounds the table:
\* when no identifier is left, the insert is refused too.
Insert(r) ==
  /\ req[r].pc = "insert"
  /\ \/ /\ req[r].to \in rows \cup {NONE}
        /\ \E c \in Fresh :
             /\ rows' = rows \cup {c}
             /\ parent' = [parent EXCEPT ![c] = req[r].to]
             /\ req' = [q \in Request |-> IF q = r THEN Idle ELSE Attach(req[q], c, req[r].to)]
        /\ UNCHANGED <<filed, forced>>
     \/ /\ req[r].to \notin rows \cup {NONE} \/ Fresh = {}
        /\ Goto(r, Idle)

(* updateCategory: the parent is checked only when it is given and differs
   from the one just read, and written whenever it is given.  The controller
   drops a parentId of null, "", "root" or "none" (NONE here). *)

BeginUpdate(r) ==
  \E c \in rows, p \in Link :
    /\ p # c
    /\ Begin(r, [Idle EXCEPT !.pc = IF p \in {NONE, parent[c]} THEN "write" ELSE "parent",
                             !.id = c, !.to = p])

\* Mutant: the walk is forgotten.
CheckParentOnly(r) ==
  /\ req[r].pc = "parent"
  /\ Goto(r, IF req[r].to \in rows THEN [req[r] EXCEPT !.pc = "write"] ELSE Idle)

CheckParent(r) ==
  /\ req[r].pc = "parent"
  /\ Goto(r, IF req[r].to \in rows THEN [req[r] EXCEPT !.pc = "walk", !.at = req[r].to]
             ELSE Idle)

\* The two returns of the loop in hasCircularReference.
Circular(q) == q.at \in q.visited \cup {q.id}

\* Mutant: the loop does not stop at a root.
WalkPastRoot(r) ==
  /\ req[r].pc = "walk"
  /\ Goto(r, IF Circular(req[r]) THEN Idle
             ELSE [req[r] EXCEPT !.visited = @ \cup {req[r].at}, !.at = parent[req[r].at]])

\* Mutant: the loop does not mark what it has visited.
WalkUnmarked(r) ==
  /\ req[r].pc = "walk"
  /\ Goto(r, IF Circular(req[r]) THEN Idle
             ELSE [req[r] EXCEPT !.at = parent[req[r].at],
                                 !.pc = IF parent[req[r].at] = NONE THEN "write" ELSE "walk"])

\* One turn of the loop; a row that has gone has no parent and ends it.
Walk(r) ==
  /\ req[r].pc = "walk"
  /\ Goto(r, IF Circular(req[r]) THEN Idle
             ELSE [req[r] EXCEPT !.visited = @ \cup {req[r].at},
                                 !.at = parent[req[r].at],
                                 !.pc = IF parent[req[r].at] = NONE THEN "write" ELSE "walk"])

Moved(r) == req[r].to \notin {NONE, parent[req[r].id]}

Write(r) ==
  /\ req[r].pc = "write"
  /\ req[r].id \in rows
  /\ req[r].to \in rows \cup {NONE}
  /\ IF Moved(r)
     THEN /\ parent' = [parent EXCEPT ![req[r].id] = req[r].to]
          /\ req' = [q \in Request |->
                       IF q = r \/ req[q].pc = "idle" THEN Idle
                       ELSE [Attach(req[q], req[r].id, req[r].to) EXCEPT !.stale = TRUE]]
          /\ forced' = IF req[r].stale THEN forced \cup {req[r].id} ELSE forced \ {req[r].id}
          /\ UNCHANGED <<rows, filed>>
     ELSE Goto(r, Idle)

\* The row or the new parent has gone.
WriteFails(r) ==
  /\ req[r].pc = "write"
  /\ req[r].id \notin rows \/ req[r].to \notin rows \cup {NONE}
  /\ Goto(r, Idle)

(* deleteCategory: children and contents are looked for, then the row is
   deleted; the keys set the parent of a child to null and keep a category
   that has contents. *)

BeginDelete(r) == \E c \in rows : Begin(r, [Idle EXCEPT !.pc = "children", !.id = c])

\* Mutant: children are not looked for.
CheckChildrenSkipped(r) ==
  /\ req[r].pc = "children"
  /\ Goto(r, [req[r] EXCEPT !.pc = "contents"])

CheckChildren(r) ==
  /\ req[r].pc = "children"
  /\ Goto(r, IF Children(req[r].id) = {} THEN [req[r] EXCEPT !.pc = "contents"] ELSE Idle)

\* A category that has gone by now fails in the same place.
CheckContents(r) ==
  /\ req[r].pc = "contents"
  /\ Goto(r, IF req[r].id \in rows /\ ContentsOf(req[r].id) = {}
             THEN [req[r] EXCEPT !.pc = "delete"] ELSE Idle)

\* Mutant: the contents' key does not restrict, the earlier check is trusted.
DeletableChecked(c) == c \in rows

Deletable(c) == c \in rows /\ ContentsOf(c) = {}

Delete(r) ==
  /\ req[r].pc = "delete"
  /\ Deletable(req[r].id)
  /\ LET orphans == Children(req[r].id) IN
     /\ rows' = rows \ {req[r].id}
     /\ parent' = [c \in Category |-> IF c \in orphans \cup {req[r].id} THEN NONE ELSE parent[c]]
     /\ IF orphans = {} THEN req' = [req EXCEPT ![r] = Idle] ELSE EndStaling(r)
     /\ forced' = forced \ (orphans \cup {req[r].id})
     /\ UNCHANGED filed

DeleteFails(r) == /\ req[r].pc = "delete"
                  /\ ~Deletable(req[r].id)
                  /\ Goto(r, Idle)

-----------------------------------------------------------------------------
\* Contents are created under, or moved to, a category that exists at that
\* statement (foreign key), and are deleted.
File(x) == /\ \E c \in rows : filed' = [filed EXCEPT ![x] = c]
           /\ UNCHANGED <<rows, parent, req, forced>>

Unfile(x) == /\ filed[x] # NONE
             /\ filed' = [filed EXCEPT ![x] = NONE]
             /\ UNCHANGED <<rows, parent, req, forced>>

\* A database error or a crash ends a request between two statements.
Abort(r) == req[r].pc # "idle" /\ Goto(r, Idle)

Step(r) == \/ Insert(r) \/ CheckParent(r) \/ Walk(r) \/ Write(r) \/ WriteFails(r)
           \/ CheckChildren(r) \/ CheckContents(r) \/ Delete(r) \/ DeleteFails(r)

Next == \/ \E r \in Request : \/ BeginCreate(r) \/ BeginUpdate(r) \/ BeginDelete(r)
                              \/ Step(r) \/ Abort(r)
        \/ \E x \in Content : File(x) \/ Unfile(x)

Spec == Init /\ [][Next]_vars

-----------------------------------------------------------------------------
(* getCategoryTree: buildCategoryTree takes the categories whose parentId is
   identical to its argument, and calls itself for each; the first call passes
   none. *)
Level(p) == {c \in rows : parent[c] = p}

Shown == {c \in rows :
            \A S \in SUBSET rows :
              Level(UNDEFINED) \subseteq S /\ (\A d \in S : Level(d) \subseteq S) => c \in S}

-----------------------------------------------------------------------------
(* Properties *)

\* The categories, their parents and the requests of CategoryService: the walk of
\* hasCircularReference always stands on a category, never past the root.
TypeOK == /\ rows \subseteq Category
          /\ parent \in [Category -> Link]
          /\ filed \in [Content -> Link]
          /\ req \in [Request -> Req]
          /\ \A r \in Request : req[r].pc = "walk" => req[r].at \in Category
          /\ forced \subseteq Category

\* Every parent and every content's category is a row: the checks of the
\* service are stale when it writes, the foreign keys are what keeps this.
KeysResolve == /\ \A c \in Category : parent[c] \in rows \cup {NONE}
               /\ \A x \in Content : filed[x] \in rows \cup {NONE}

\* S is closed upwards and holds no root: following parents inside S never
\* ends, so S contains a cycle.
Endless(S) == S # {} /\ \A c \in S : parent[c] \in S

\* The tree has no cycle.  This is what the comment "Check for circular
\* references" in updateCategory is about; it holds for requests one at a time.
Acyclic == \A S \in SUBSET rows : ~Endless(S)

\* Every cycle has a category that was moved by a request which began before
\* another request changed a parent: nothing but such a race makes a cycle.
CyclesExplained == \A S \in SUBSET rows : Endless(S) => S \cap forced # {}

\* deleteCategory refuses a category with children, so a deletion turns no
\* category into a root unless it was attached after that check.
OnlyLateChildrenReRooted ==
  [][\A c \in rows \cap rows' :
       parent[c] \in rows \ rows' =>
         \E r \in Request : req[r].id = parent[c] /\ c \in req[r].late]_vars

\* A request that asks for a root leaves a root: the controller says that it
\* removes parentId "to make it a root category".
AskedForRootIsRoot ==
  [][\A r \in Request : Write(r) /\ req[r].to = NONE => parent'[req[r].id] = NONE]_vars

\* A tree without a cycle is shown whole: the route answers with the "category
\* tree structure".
TreeShowsAll == Acyclic => Shown = rows

\* Each turn of hasCircularReference visits a category for the first time, so
\* that a walk ends even on a cycle that a race has left above the new parent.
WalksAdvance ==
  [][\A r \in Request :
       Walk(r) /\ req'[r].pc = "walk" =>
         req[r].visited \subseteq req'[r].visited /\ req[r].visited # req'[r].visited]_vars
=============================================================================
