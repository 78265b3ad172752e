---------------------- MODULE ContentManagementProofs -----------------------
(***************************************************************************)
(* Proofs about categories, contents and attachments for any sets of       *)
(* categories, contents, files and requests.                               *)
(***************************************************************************)
EXTENDS CategoryTree, Contents, TLAPS

(***************************************************************************)
(* Categories.                                                             *)
(*                                                                         *)
(* The argument for CyclesExplained: as long as a request is not stale,    *)
(* the categories it has visited have their parents among those it has     *)
(* visited, its cursor and null (WalkInv).  When the walk has ended they   *)
(* are closed upwards, and the category to be moved is not one of them.  A *)
(* cycle through the moved category would run through the visited ones,    *)
(* and so would have existed before.                                       *)
(***************************************************************************)

-----------------------------------------------------------------------------
(* The inductive invariant *)

\* Only rows have parents.
RowsOnly == \A c \in Category \ rows : parent[c] = NONE

PcInv ==
  \A r \in Request :
    /\ req[r].pc \in {"parent", "walk", "write", "children", "contents", "delete"} =>
         req[r].id \in Category
    /\ req[r].pc \in {"parent", "walk"} => req[r].to \in Category
    /\ req[r].pc = "walk" => req[r].at \in Category
    /\ req[r].pc \in {"parent", "write"} /\ req[r].visited = {} => req[r].to # req[r].id
    /\ req[r].pc = "parent" => req[r].visited = {}

\* What hasCircularReference knows: the categories it has visited lead only to
\* each other and to its cursor, and are none of them the category to move.
Walked(q) ==
  /\ q.id \notin q.visited
  /\ q.pc = "walk" => IF q.visited = {} THEN q.at = q.to ELSE q.to \in q.visited
  /\ q.pc = "write" => IF q.visited = {} THEN q.to \in {NONE, parent[q.id]} \/ q.id \notin rows
                       ELSE q.at = NONE /\ q.to \in q.visited
  /\ \A v \in q.visited : parent[v] \in q.visited \cup {q.at, NONE}

WalkInv == \A r \in Request :
             req[r].pc \in {"walk", "write"} /\ ~req[r].stale => Walked(req[r])

\* A deletion that has found no children knows of none but the late ones.
LateInv == \A r \in Request :
             req[r].pc \in {"contents", "delete"} => Children(req[r].id) \subseteq req[r].late

IInv == TypeOK /\ KeysResolve /\ RowsOnly /\ PcInv /\ WalkInv /\ LateInv /\ CyclesExplained

-----------------------------------------------------------------------------
(* Typing *)

LEMMA IdleType == Idle \in Req
  BY DEF Idle, Req, Link

LEMMA AttachType ==
  ASSUME NEW q \in Req, NEW c \in Category, NEW p
  PROVE  Attach(q, c, p) \in Req /\ Attach(q, c, p).pc = q.pc /\ Attach(q, c, p).at = q.at
         /\ Attach(q, c, p).id = q.id /\ Attach(q, c, p).to = q.to
         /\ Attach(q, c, p).visited = q.visited /\ Attach(q, c, p).stale = q.stale
         /\ q.late \subseteq Attach(q, c, p).late
  BY DEF Attach, Req

\* Only the slot of one request changes, to a well-formed one.
LEMMA SlotType ==
  ASSUME TypeOK, NEW r \in Request, NEW q \in Req, q.pc = "walk" => q.at \in Category,
         req' = [req EXCEPT ![r] = q], UNCHANGED <<rows, parent, filed, forced>>
  PROVE  TypeOK'
  BY DEF TypeOK

LEMMA TypeStep == TypeOK /\ KeysResolve /\ PcInv /\ [Next]_vars => TypeOK'
<1> USE CategoryAssumption DEF Link
<1> SUFFICES ASSUME TypeOK, KeysResolve, PcInv, [Next]_vars PROVE TypeOK'
  OBVIOUS
<1>1. CASE UNCHANGED vars
  BY <1>1 DEF vars, TypeOK
<1>2. ASSUME NEW r \in Request, BeginCreate(r) PROVE TypeOK'
  <2>1. PICK p \in rows \cup {NONE} : Begin(r, [Idle EXCEPT !.pc = "insert", !.to = p])
    BY <1>2 DEF BeginCreate
  <2>2. [Idle EXCEPT !.pc = "insert", !.to = p] \in Req
    BY DEF Idle, Req, TypeOK
  <2> QED BY <2>1, <2>2, SlotType DEF Begin, Idle
<1>3. ASSUME NEW r \in Request, BeginUpdate(r) PROVE TypeOK'
  <2>1. PICK c \in rows, p \in Link :
          Begin(r, [Idle EXCEPT !.pc = IF p \in {NONE, parent[c]} THEN "write" ELSE "parent",
                                !.id = c, !.to = p])
    BY <1>3 DEF BeginUpdate
  <2> DEFINE q == [Idle EXCEPT !.pc = IF p \in {NONE, parent[c]} THEN "write" ELSE "parent",
                               !.id = c, !.to = p]
  <2>2. q \in Req /\ q.pc # "walk"
    BY DEF Idle, Req, TypeOK
  <2>3. req' = [req EXCEPT ![r] = q] /\ UNCHANGED <<rows, parent, filed, forced>>
    BY <2>1 DEF Begin
  <2> HIDE DEF q
  <2> QED BY <2>2, <2>3, SlotType
<1>4. ASSUME NEW r \in Request, BeginDelete(r) PROVE TypeOK'
  <2>1. PICK c \in rows : Begin(r, [Idle EXCEPT !.pc = "children", !.id = c])
    BY <1>4 DEF BeginDelete
  <2>2. [Idle EXCEPT !.pc = "children", !.id = c] \in Req
    BY DEF Idle, Req, TypeOK
  <2> QED BY <2>1, <2>2, SlotType DEF Begin, Idle
<1>5. ASSUME NEW r \in Request, Step(r) PROVE TypeOK'
  <2>0. req[r] \in Req
    BY DEF TypeOK
  <2>1. CASE Insert(r)
    <3>1. CASE Goto(r, Idle)
      BY <3>1, IdleType, SlotType DEF Goto, Idle
    <3>2. ASSUME NEW c \in Fresh,
                 rows' = rows \cup {c}, parent' = [parent EXCEPT ![c] = req[r].to],
                 req' = [q \in Request |-> IF q = r THEN Idle ELSE Attach(req[q], c, req[r].to)],
                 UNCHANGED <<filed, forced>>
          PROVE  TypeOK'
      <4>1. c \in Category
        BY DEF Fresh
      <4>2. req' \in [Request -> Req]
        BY <3>2, <4>1, IdleType, AttachType DEF TypeOK
      <4>3. \A q \in Request : req'[q].pc = "walk" => req'[q].at \in Category
        BY <3>2, <4>1, AttachType DEF TypeOK, Idle
      <4>4. parent' \in [Category -> Link]
        BY <3>2, <2>0 DEF TypeOK, Req
      <4> QED BY <3>2, <4>1, <4>2, <4>3, <4>4 DEF TypeOK
    <3> QED BY <2>1, <3>1, <3>2 DEF Insert
  <2>2. CASE CheckParent(r)
    <3>1. [req[r] EXCEPT !.pc = "walk", !.at = req[r].to] \in Req
      BY <2>0 DEF Req
    <3>2. [req[r] EXCEPT !.pc = "walk", !.at = req[r].to].at = req[r].to
      BY <2>0 DEF Req
    <3>3. CASE req[r].to \in rows
      BY <2>2, <3>1, <3>2, <3>3, SlotType DEF CheckParent, Goto, TypeOK
    <3>4. CASE req[r].to \notin rows
      BY <2>2, <3>4, IdleType, SlotType DEF CheckParent, Goto, Idle
    <3> QED BY <3>3, <3>4
  <2>3. CASE Walk(r)
    <3> DEFINE at == parent[req[r].at]
               pc == IF at = NONE THEN "write" ELSE "walk"
               q == [req[r] EXCEPT !.visited = @ \cup {req[r].at}, !.at = at, !.pc = pc]
    <3>1. req[r].at \in Category
      BY <2>3 DEF Walk, TypeOK
    <3>2. at \in Link /\ pc \in {"write", "walk"} /\ (pc = "walk" => at \in Category)
      BY <3>1 DEF TypeOK
    <3>3. req' = [req EXCEPT ![r] = IF Circular(req[r]) THEN Idle ELSE q]
      BY <2>3 DEF Walk, Goto
    <3>4. UNCHANGED <<rows, parent, filed, forced>>
      BY <2>3 DEF Walk, Goto
    <3> HIDE DEF at, pc
    <3>5. q \in Req /\ q.pc = pc /\ q.at = at
      BY <2>0, <3>1, <3>2 DEF Req
    <3> HIDE DEF q
    <3>6. CASE Circular(req[r])
      BY <3>3, <3>4, <3>6, IdleType, SlotType DEF Idle
    <3>7. CASE ~Circular(req[r])
      BY <3>2, <3>3, <3>4, <3>5, <3>7, SlotType
    <3> QED BY <3>6, <3>7
  <2>4. CASE Write(r)
    <3>1. CASE ~Moved(r)
      BY <2>4, <3>1, IdleType, SlotType DEF Write, Goto, Idle
    <3>2. CASE Moved(r)
      <4>1. req[r].id \in Category
        BY <2>4 DEF Write, TypeOK
      <4> DEFINE A(q) == Attach(req[q], req[r].id, req[r].to)
      <4>2. \A q \in Request : A(q) \in Req /\ A(q).pc = req[q].pc /\ A(q).at = req[q].at
        BY <4>1, AttachType DEF TypeOK
      <4>3. req' = [q \in Request |-> IF q = r \/ req[q].pc = "idle" THEN Idle
                                      ELSE [A(q) EXCEPT !.stale = TRUE]]
        BY <2>4, <3>2 DEF Write
      <4> HIDE DEF A
      <4>4. \A q \in Request : /\ [A(q) EXCEPT !.stale = TRUE] \in Req
                               /\ [A(q) EXCEPT !.stale = TRUE].pc = req[q].pc
                               /\ [A(q) EXCEPT !.stale = TRUE].at = req[q].at
        <5> SUFFICES ASSUME NEW q \in Request, NEW x \in Req,
                            x.pc = req[q].pc, x.at = req[q].at
                     PROVE  /\ [x EXCEPT !.stale = TRUE] \in Req
                            /\ [x EXCEPT !.stale = TRUE].pc = req[q].pc
                            /\ [x EXCEPT !.stale = TRUE].at = req[q].at
          BY <4>2
        <5> QED BY DEF Req
      <4>5. /\ req' \in [Request -> Req]
            /\ \A q \in Request : req'[q].pc = "walk" => req'[q].at \in Category
        BY <4>3, <4>4, IdleType DEF TypeOK, Idle
      <4>6. parent' \in [Category -> Link]
        BY <2>4, <3>2, <2>0 DEF Write, TypeOK, Req
      <4>7. rows' \subseteq Category /\ forced' \subseteq Category
            /\ filed' \in [Content -> Link]
        BY <2>4, <3>2, <4>1 DEF Write, TypeOK
      <4> QED BY <4>5, <4>6, <4>7 DEF TypeOK
    <3> QED BY <3>1, <3>2
  <2>5. CASE WriteFails(r)
    BY <2>5, IdleType, SlotType DEF WriteFails, Goto, Idle
  <2>6. CASE CheckChildren(r)
    <3>1. [req[r] EXCEPT !.pc = "contents"] \in Req /\ [req[r] EXCEPT !.pc = "contents"].pc # "walk"
      BY <2>0 DEF Req
    <3> QED BY <2>6, <3>1, IdleType, SlotType DEF CheckChildren, Goto, Idle
  <2>7. CASE CheckContents(r)
    <3>1. [req[r] EXCEPT !.pc = "delete"] \in Req /\ [req[r] EXCEPT !.pc = "delete"].pc # "walk"
      BY <2>0 DEF Req
    <3> QED BY <2>7, <3>1, IdleType, SlotType DEF CheckContents, Goto, Idle
  <2>8. CASE Delete(r)
    <3>1. /\ req' \in [Request -> Req]
          /\ \A q \in Request : req'[q].pc = "walk" => req'[q].at \in Category
      <4>1. \A q \in Request : /\ [req[q] EXCEPT !.stale = TRUE] \in Req
                               /\ [req[q] EXCEPT !.stale = TRUE].pc = req[q].pc
                               /\ [req[q] EXCEPT !.stale = TRUE].at = req[q].at
        <5>1. \A q \in Request : req[q] \in Req
          BY DEF TypeOK
        <5> QED BY <5>1 DEF Req
      <4>2. CASE req' = [req EXCEPT ![r] = Idle]
        BY <4>2, IdleType DEF TypeOK, Idle
      <4>3. CASE EndStaling(r)
        BY <4>1, <4>3, IdleType DEF EndStaling, TypeOK, Idle
      <4> QED BY <2>8, <4>2, <4>3 DEF Delete
    <3>2. /\ parent' \in [Category -> Link]
          /\ rows' \subseteq Category /\ forced' \subseteq Category
          /\ filed' \in [Content -> Link]
      BY <2>8 DEF Delete, TypeOK
    <3> QED BY <3>1, <3>2 DEF TypeOK
  <2>9. CASE DeleteFails(r)
    BY <2>9, IdleType, SlotType DEF DeleteFails, Goto, Idle
  <2> QED BY <1>5, <2>1, <2>2, <2>3, <2>4, <2>5, <2>6, <2>7, <2>8, <2>9 DEF Step
<1>6. ASSUME NEW r \in Request, Abort(r) PROVE TypeOK'
  BY <1>6, IdleType, SlotType DEF Abort, Goto, Idle
<1>7. ASSUME NEW x \in Content, File(x) \/ Unfile(x) PROVE TypeOK'
  BY <1>7 DEF File, Unfile, TypeOK
<1> QED BY <1>1, <1>2, <1>3, <1>4, <1>5, <1>6, <1>7 DEF Next

-----------------------------------------------------------------------------
(* Which steps change the tables, and how *)

\* A step leaves the rows and their parents alone, or inserts a category that
\* nothing refers to, or moves one, or deletes one without contents.
Inserts(r, c) == /\ c \in Fresh /\ req[r].to \in rows \cup {NONE}
                 /\ rows' = rows \cup {c}
                 /\ parent' = [parent EXCEPT ![c] = req[r].to]
                 /\ filed' = filed /\ forced' = forced
                 /\ req' = [q \in Request |-> IF q = r THEN Idle
                                              ELSE Attach(req[q], c, req[r].to)]

Keeps == UNCHANGED <<rows, parent, forced>>

LEMMA Effects ==
  ASSUME [Next]_vars
  PROVE  \/ Keeps
         \/ \E r \in Request : \/ req[r].pc = "insert" /\ \E c \in Fresh : Inserts(r, c)
                               \/ Write(r) /\ Moved(r)
                               \/ Delete(r)
<1>1. ASSUME NEW r \in Request, Insert(r), ~Keeps
      PROVE  req[r].pc = "insert" /\ \E c \in Fresh : Inserts(r, c)
  BY <1>1 DEF Insert, Inserts, Goto, Keeps
<1>2. ASSUME NEW r \in Request, Write(r), ~Moved(r) PROVE Keeps
  BY <1>2 DEF Write, Goto, Keeps
<1>3. ASSUME NEW r \in Request,
             \/ BeginCreate(r) \/ BeginUpdate(r) \/ BeginDelete(r) \/ Abort(r)
             \/ CheckParent(r) \/ Walk(r) \/ WriteFails(r) \/ CheckChildren(r)
             \/ CheckContents(r) \/ DeleteFails(r)
      PROVE  Keeps
  BY <1>3 DEF BeginCreate, BeginUpdate, BeginDelete, Abort, CheckParent, Walk, WriteFails,
     CheckChildren, CheckContents, DeleteFails, Begin, Goto, Keeps
<1>4. ASSUME NEW x \in Content, File(x) \/ Unfile(x) PROVE Keeps
  BY <1>4 DEF File, Unfile, Keeps
<1>5. CASE UNCHANGED vars
  BY <1>5 DEF vars, Keeps
<1> QED BY <1>1, <1>2, <1>3, <1>4, <1>5 DEF Next, Step

LEMMA KeysStep ==
  TypeOK /\ KeysResolve /\ RowsOnly /\ [Next]_vars => (KeysResolve /\ RowsOnly)'
<1> USE CategoryAssumption DEF Link
<1> SUFFICES ASSUME TypeOK, KeysResolve, RowsOnly, [Next]_vars PROVE (KeysResolve /\ RowsOnly)'
  OBVIOUS
<1>1. CASE UNCHANGED <<rows, parent, filed>>
  BY <1>1 DEF KeysResolve, RowsOnly
<1>2. ASSUME NEW r \in Request, Insert(r) PROVE (KeysResolve /\ RowsOnly)'
  BY <1>1, <1>2 DEF Insert, Goto, Fresh, KeysResolve, RowsOnly, TypeOK
<1>3. ASSUME NEW r \in Request, Write(r) PROVE (KeysResolve /\ RowsOnly)'
  BY <1>1, <1>3 DEF Write, Goto, KeysResolve, RowsOnly, TypeOK
<1>4. ASSUME NEW r \in Request, Delete(r) PROVE (KeysResolve /\ RowsOnly)'
  BY <1>4 DEF Delete, Deletable, Children, ContentsOf, KeysResolve, RowsOnly, TypeOK
<1>5. ASSUME NEW x \in Content, File(x) \/ Unfile(x) PROVE (KeysResolve /\ RowsOnly)'
  BY <1>5 DEF File, Unfile, KeysResolve, RowsOnly, TypeOK
<1>6. ASSUME NEW r \in Request,
             \/ BeginCreate(r) \/ BeginUpdate(r) \/ BeginDelete(r) \/ Abort(r)
             \/ CheckParent(r) \/ Walk(r) \/ WriteFails(r) \/ CheckChildren(r)
             \/ CheckContents(r) \/ DeleteFails(r)
      PROVE  UNCHANGED <<rows, parent, filed>>
  BY <1>6 DEF BeginCreate, BeginUpdate, BeginDelete, Abort, CheckParent, Walk, WriteFails,
     CheckChildren, CheckContents, DeleteFails, Begin, Goto
<1>7. CASE UNCHANGED vars
  BY <1>1, <1>7 DEF vars
<1> QED BY <1>1, <1>2, <1>3, <1>4, <1>5, <1>6, <1>7 DEF Next, Step

LEMMA CyclesStep ==
  TypeOK /\ KeysResolve /\ RowsOnly /\ WalkInv /\ CyclesExplained /\ [Next]_vars
    => CyclesExplained'
<1> USE CategoryAssumption DEF Link
<1> SUFFICES ASSUME TypeOK, KeysResolve, RowsOnly, WalkInv, CyclesExplained, [Next]_vars,
                    NEW S \in SUBSET rows', Endless(S)'
             PROVE  S \cap forced' # {}
  BY DEF CyclesExplained
<1>1. CASE Keeps
  BY <1>1 DEF Keeps, CyclesExplained, Endless
<1>2. ASSUME NEW r \in Request, NEW c \in Fresh, Inserts(r, c) PROVE S \cap forced' # {}
  <2>1. c \in Category \ rows
    BY DEF Fresh
  <2>2. \A d \in S \ {c} : d \in rows /\ parent[d] \in S \ {c}
    BY <1>2, <2>1 DEF Inserts, Endless, KeysResolve, TypeOK
  <2>3. S \ {c} # {}
    BY <1>2, <2>1, <2>2 DEF Inserts, Endless, TypeOK
  <2> QED BY <1>2, <2>2, <2>3 DEF Inserts, CyclesExplained, Endless
<1>3. ASSUME NEW r \in Request, Write(r), Moved(r) PROVE S \cap forced' # {}
  <2> DEFINE id == req[r].id
             to == req[r].to
             W == req[r].visited
  <2>0. /\ rows' = rows /\ parent' = [parent EXCEPT ![id] = to]
        /\ id \in Category /\ to \in Link /\ to # parent[id] /\ id \in rows
        /\ to # NONE /\ W \subseteq Category
    BY <1>3 DEF Write, Moved, TypeOK, Req
  <2>1. CASE id \notin S
    <3>1. Endless(S)
      BY <2>0, <2>1 DEF Endless, TypeOK
    <3>2. forced \ {id} \subseteq forced'
      BY <1>3 DEF Write
    <3> QED BY <2>0, <2>1, <3>1, <3>2 DEF CyclesExplained
  <2>2. CASE id \in S /\ req[r].stale
    BY <1>3, <2>2 DEF Write
  <2>3. CASE id \in S /\ ~req[r].stale
    <3>1. to \in S
      BY <2>0, <2>3 DEF Endless, TypeOK
    <3>2. Walked(req[r]) /\ req[r].pc = "write"
      BY <1>3, <2>3 DEF WalkInv, Write
    <3>3. to \in W /\ id \notin W /\ \A v \in W : parent[v] \in W \cup {NONE}
      BY <2>0, <3>1, <3>2 DEF Walked, TypeOK
    <3>4. \A v \in S \cap W : parent[v] \in S \cap W
      BY <2>0, <3>3 DEF Endless, TypeOK
    <3>5. Endless(S \cap W) /\ S \cap W \in SUBSET rows
      BY <2>0, <3>1, <3>3, <3>4 DEF Endless
    <3>6. (S \cap W) \cap forced # {}
      BY <3>5 DEF CyclesExplained
    <3>7. forced \ {id} \subseteq forced'
      BY <1>3 DEF Write
    <3> QED BY <3>3, <3>6, <3>7
  <2> QED BY <2>1, <2>2, <2>3
<1>4. ASSUME NEW r \in Request, Delete(r) PROVE S \cap forced' # {}
  <2> DEFINE gone == Children(req[r].id) \cup {req[r].id}
  <2>1. /\ rows' = rows \ {req[r].id}
        /\ parent' = [c \in Category |-> IF c \in gone THEN NONE ELSE parent[c]]
        /\ forced' = forced \ gone
    BY <1>4 DEF Delete
  <2>2. S \cap gone = {}
    BY <2>1 DEF Endless, TypeOK
  <2>3. Endless(S) /\ S \in SUBSET rows
    BY <2>1, <2>2 DEF Endless, TypeOK
  <2> QED BY <2>1, <2>2, <2>3 DEF CyclesExplained
<1> QED BY <1>1, <1>2, <1>3, <1>4, Effects

-----------------------------------------------------------------------------
(* What the requests know *)

\* A request that is in flight before and after a step of another one keeps all
\* but its histories; it stays stale, and a late child is never forgotten.
SameWork(p, q) == /\ p.pc = q.pc /\ p.id = q.id /\ p.to = q.to /\ p.at = q.at
                  /\ p.visited = q.visited

LEMMA OtherSlots ==
  ASSUME TypeOK, [Next]_vars, NEW q \in Request, req[q].pc # "idle"
  PROVE  \/ Step(q) \/ Abort(q)
         \/ /\ SameWork(req'[q], req[q]) /\ req[q].late \subseteq req'[q].late
            /\ req[q].stale => req'[q].stale
<1> DEFINE Same(p) == /\ SameWork(p, req[q]) /\ req[q].late \subseteq p.late
                      /\ req[q].stale => p.stale
<1> SUFFICES ASSUME ~Step(q), ~Abort(q) PROVE Same(req'[q])
  OBVIOUS
<1>0. req[q] \in Req /\ req \in [Request -> Req]
  BY DEF TypeOK
<1>1. CASE req'[q] = req[q]
  BY <1>1 DEF SameWork
<1>2. ASSUME NEW r \in Request, r # q, Step(r) PROVE Same(req'[q])
  <2>1. ASSUME NEW c \in Fresh, req' = [p \in Request |-> IF p = r THEN Idle
                                       ELSE Attach(req[p], c, req[r].to)]
        PROVE  Same(req'[q])
    BY <1>0, <1>2, <2>1, AttachType DEF SameWork, Fresh
  <2>2. ASSUME NEW x \in Req, req' = [req EXCEPT ![r] = x] PROVE Same(req'[q])
    BY <1>0, <1>1, <1>2, <2>2
  <2>3. CASE Write(r) /\ Moved(r)
    <3> DEFINE a == Attach(req[q], req[r].id, req[r].to)
    <3>1. req[r].id \in Category
      BY <2>3 DEF Write, TypeOK
    <3>2. a \in Req /\ Same(a)
      BY <1>0, <3>1, AttachType DEF SameWork
    <3>3. req'[q] = [a EXCEPT !.stale = TRUE]
      BY <1>2, <2>3 DEF Write
    <3> HIDE DEF a
    <3> QED BY <3>2, <3>3 DEF SameWork, Req
  <2>4. CASE EndStaling(r)
    <3>1. req'[q] = [req[q] EXCEPT !.stale = TRUE]
      BY <1>2, <2>4 DEF EndStaling
    <3> QED BY <1>0, <3>1 DEF SameWork, Req
  <2>5. CASE Insert(r)
    BY <1>1, <1>2, <2>1, <2>5, <1>0 DEF Insert, Goto
  <2>6. CASE Delete(r)
    BY <1>1, <1>2, <2>4, <2>6, <1>0 DEF Delete
  <2>7. CASE Write(r) /\ ~Moved(r)
    BY <1>1, <1>2, <2>7, <1>0 DEF Write, Goto
  <2>8. CASE CheckParent(r) \/ Walk(r) \/ WriteFails(r) \/ CheckChildren(r)
             \/ CheckContents(r) \/ DeleteFails(r)
    BY <1>0, <1>1, <1>2, <2>8 DEF CheckParent, Walk, WriteFails, CheckChildren,
       CheckContents, DeleteFails, Goto
  <2> QED BY <1>2, <2>3, <2>5, <2>6, <2>7, <2>8 DEF Step
<1>3. ASSUME NEW r \in Request, BeginCreate(r) \/ BeginUpdate(r) \/ BeginDelete(r)
      PROVE  Same(req'[q])
  BY <1>0, <1>1, <1>3 DEF BeginCreate, BeginUpdate, BeginDelete, Begin
<1>4. ASSUME NEW r \in Request, r # q, Abort(r) PROVE Same(req'[q])
  BY <1>0, <1>1, <1>4 DEF Abort, Goto
<1>5. ASSUME NEW x \in Content, File(x) \/ Unfile(x) PROVE Same(req'[q])
  BY <1>1, <1>5 DEF File, Unfile
<1>6. CASE UNCHANGED vars
  BY <1>1, <1>6 DEF vars
<1> QED BY <1>2, <1>3, <1>4, <1>5, <1>6 DEF Next

\* A request that was not in flight begins, or stays out.
LEMMA IdleSlots ==
  ASSUME TypeOK, [Next]_vars, NEW q \in Request, req[q].pc = "idle"
  PROVE  \/ BeginCreate(q) \/ BeginUpdate(q) \/ BeginDelete(q)
         \/ req'[q] = Idle \/ req'[q] = req[q]
<1>0. req \in [Request -> Req]
  BY DEF TypeOK
<1>1. ASSUME NEW r \in Request, Insert(r) \/ Write(r) \/ Delete(r)
      PROVE  req'[q] = Idle \/ req'[q] = req[q]
  BY <1>0, <1>1 DEF Insert, Write, Delete, EndStaling, Attach, Goto
<1>2. ASSUME NEW r \in Request, CheckParent(r) \/ Walk(r) \/ WriteFails(r) \/ CheckChildren(r)
             \/ CheckContents(r) \/ DeleteFails(r) \/ Abort(r)
      PROVE  req'[q] = req[q]
  BY <1>0, <1>2 DEF CheckParent, Walk, WriteFails, CheckChildren, CheckContents, DeleteFails,
     Abort, Goto
<1>3. ASSUME NEW r \in Request, r # q, BeginCreate(r) \/ BeginUpdate(r) \/ BeginDelete(r)
      PROVE  req'[q] = req[q]
  BY <1>0, <1>3 DEF BeginCreate, BeginUpdate, BeginDelete, Begin
<1>4. ASSUME NEW x \in Content, File(x) \/ Unfile(x) PROVE req'[q] = req[q]
  BY <1>4 DEF File, Unfile
<1>5. CASE UNCHANGED vars
  BY <1>5 DEF vars
<1> QED BY <1>1, <1>2, <1>3, <1>4, <1>5 DEF Next, Step

\* What PcInv says about one request.
PcOf(q) ==
  /\ q.pc \in {"parent", "walk", "write", "children", "contents", "delete"} => q.id \in Category
  /\ q.pc \in {"parent", "walk"} => q.to \in Category
  /\ q.pc = "walk" => q.at \in Category
  /\ q.pc \in {"parent", "write"} /\ q.visited = {} => q.to # q.id
  /\ q.pc = "parent" => q.visited = {}

\* How a slot can look after its own step.
LEMMA OwnStep ==
  ASSUME TypeOK, NEW q \in Request, Step(q)
  PROVE  \/ req'[q] = Idle
         \/ CheckParent(q) /\ req'[q] = [req[q] EXCEPT !.pc = "walk", !.at = req[q].to]
         \/ Walk(q) /\ ~Circular(req[q])
         \/ CheckChildren(q) /\ req'[q] = [req[q] EXCEPT !.pc = "contents"]
                             /\ Children(req[q].id) = {}
         \/ CheckContents(q) /\ req'[q] = [req[q] EXCEPT !.pc = "delete"]
<1>0. req \in [Request -> Req]
  BY DEF TypeOK
<1>1. CASE Insert(q) \/ Write(q) \/ WriteFails(q) \/ Delete(q) \/ DeleteFails(q)
  BY <1>0, <1>1 DEF Insert, Write, WriteFails, Delete, DeleteFails, EndStaling, Goto
<1>2. CASE CheckParent(q)
  BY <1>0, <1>2 DEF CheckParent, Goto
<1>3. CASE Walk(q)
  BY <1>0, <1>3 DEF Walk, Goto
<1>4. CASE CheckChildren(q)
  BY <1>0, <1>4 DEF CheckChildren, Goto
<1>5. CASE CheckContents(q)
  BY <1>0, <1>5 DEF CheckContents, Goto
<1> QED BY <1>1, <1>2, <1>3, <1>4, <1>5 DEF Step

\* How a slot can look after its request has begun.
LEMMA OwnBegin ==
  ASSUME TypeOK, NEW q \in Request, BeginCreate(q) \/ BeginUpdate(q) \/ BeginDelete(q)
  PROVE  \/ req'[q].pc = "insert"
         \/ req'[q].pc = "children" /\ req'[q].id \in Category
         \/ /\ req'[q].pc \in {"parent", "write"} /\ req'[q].visited = {}
            /\ req'[q].id \in Category /\ req'[q].to # req'[q].id
            /\ req'[q].pc = "parent" => req'[q].to \in Category
            /\ req'[q].pc = "write" => req'[q].to \in {NONE, parent[req'[q].id]}
<1>0. req \in [Request -> Req] /\ rows \subseteq Category
  BY DEF TypeOK
<1>1. CASE BeginCreate(q)
  BY <1>0, <1>1 DEF BeginCreate, Begin, Idle
<1>2. CASE BeginDelete(q)
  BY <1>0, <1>2 DEF BeginDelete, Begin, Idle
<1>3. CASE BeginUpdate(q)
  <2>1. PICK c \in rows, p \in Link :
          /\ p # c
          /\ req' = [req EXCEPT ![q] =
               [Idle EXCEPT !.pc = IF p \in {NONE, parent[c]} THEN "write" ELSE "parent",
                            !.id = c, !.to = p]]
    BY <1>3 DEF BeginUpdate, Begin
  <2> QED BY <1>0, <2>1 DEF Idle, Link
<1> QED BY <1>1, <1>2, <1>3

\* The slot of a request whose walk goes on, or ends at a root.
LEMMA WalkSlot ==
  ASSUME TypeOK, NEW q \in Request, Walk(q), ~Circular(req[q])
  PROVE  LET at == parent[req[q].at] IN
         /\ req[q].at \in Category /\ at \in Link
         /\ req'[q].pc = IF at = NONE THEN "write" ELSE "walk"
         /\ req'[q].at = at /\ req'[q].visited = req[q].visited \cup {req[q].at}
         /\ req'[q].id = req[q].id /\ req'[q].to = req[q].to /\ req'[q].stale = req[q].stale
<1> DEFINE at == parent[req[q].at]
           pc == IF at = NONE THEN "write" ELSE "walk"
<1>1. req[q] \in Req /\ req[q].at \in Category /\ at \in Link
  BY DEF TypeOK, Walk
<1>2. req'[q] = [req[q] EXCEPT !.visited = @ \cup {req[q].at}, !.at = at, !.pc = pc]
  BY DEF Walk, Goto, TypeOK
<1>3. pc = IF at = NONE THEN "write" ELSE "walk"
  OBVIOUS
<1> HIDE DEF at, pc
<1>4. req'[q].pc = pc /\ req'[q].at = at /\ req'[q].visited = req[q].visited \cup {req[q].at}
      /\ req'[q].id = req[q].id /\ req'[q].to = req[q].to /\ req'[q].stale = req[q].stale
  BY <1>1, <1>2 DEF Req
<1> QED BY <1>1, <1>3, <1>4 DEF at

LEMMA PcStep == TypeOK /\ PcInv /\ [Next]_vars => PcInv'
<1> USE CategoryAssumption DEF Link
<1> SUFFICES ASSUME TypeOK, PcInv, [Next]_vars, NEW q \in Request PROVE PcOf(req'[q])
  BY DEF PcInv, PcOf
<1>0. req[q] \in Req /\ PcOf(req[q]) /\ parent \in [Category -> Link]
  BY DEF TypeOK, PcInv, PcOf
<1>1. CASE req'[q] = Idle \/ req'[q] = req[q]
  BY <1>0, <1>1 DEF PcOf, Idle
<1>2. CASE BeginCreate(q) \/ BeginUpdate(q) \/ BeginDelete(q)
  BY <1>2, OwnBegin DEF PcOf
<1>3. CASE Step(q)
  <2>1. CASE CheckParent(q) /\ req'[q] = [req[q] EXCEPT !.pc = "walk", !.at = req[q].to]
    <3>1. req[q].to \in Category /\ req[q].id \in Category
      BY <1>0, <2>1 DEF CheckParent, PcOf
    <3> QED BY <1>0, <2>1, <3>1 DEF PcOf, Req
  <2>2. CASE Walk(q) /\ ~Circular(req[q])
    <3>1. req[q].to \in Category /\ req[q].id \in Category
      BY <1>0, <2>2 DEF Walk, PcOf
    <3> QED BY <2>2, <3>1, WalkSlot DEF PcOf
  <2>3. CASE CheckChildren(q) /\ req'[q] = [req[q] EXCEPT !.pc = "contents"]
    BY <1>0, <2>3 DEF PcOf, Req, CheckChildren
  <2>4. CASE CheckContents(q) /\ req'[q] = [req[q] EXCEPT !.pc = "delete"]
    BY <1>0, <2>4 DEF PcOf, Req, CheckContents
  <2> QED BY <1>1, <1>3, <2>1, <2>2, <2>3, <2>4, OwnStep
<1>4. CASE Abort(q)
  BY <1>1, <1>4 DEF Abort, Goto, TypeOK
<1>5. CASE SameWork(req'[q], req[q])
  BY <1>0, <1>5 DEF SameWork, PcOf
<1> QED BY <1>1, <1>2, <1>3, <1>4, <1>5, OtherSlots, IdleSlots

LEMMA LateStep ==
  TypeOK /\ KeysResolve /\ PcInv /\ LateInv /\ [Next]_vars => LateInv'
<1> USE CategoryAssumption DEF Link
<1> SUFFICES ASSUME TypeOK, KeysResolve, PcInv, LateInv, [Next]_vars, NEW q \in Request,
                    req'[q].pc \in {"contents", "delete"},
                    NEW d \in rows', parent'[d] = req'[q].id
             PROVE  d \in req'[q].late
  BY DEF LateInv, Children
<1>0. req[q] \in Req /\ req'[q].pc # "idle"
  BY DEF TypeOK
<1>1. CASE req[q].pc = "idle"
  BY <1>0, <1>1, IdleSlots, OwnBegin DEF Idle
<1>2. CASE Step(q)
  <2>0. (CheckChildren(q) /\ Children(req[q].id) = {}) \/ CheckContents(q)
    <3>1. req'[q] # Idle
      BY DEF Idle
    <3>2. CASE CheckParent(q) /\ req'[q] = [req[q] EXCEPT !.pc = "walk", !.at = req[q].to]
      BY <1>0, <3>2 DEF Req
    <3>3. CASE Walk(q) /\ ~Circular(req[q])
      BY <3>3, WalkSlot
    <3> QED BY <1>2, <3>1, <3>2, <3>3, OwnStep
  <2>1. Keeps /\ req'[q].id = req[q].id /\ req'[q].late = req[q].late
    <3>1. CheckChildren(q) \/ CheckContents(q)
      BY <1>0, <1>2, <2>0
    <3> QED BY <1>0, <3>1 DEF CheckChildren, CheckContents, Goto, Keeps, TypeOK, Req, Idle
  <2>2. CASE CheckChildren(q) /\ Children(req[q].id) = {}
    BY <2>1, <2>2 DEF Keeps, Children
  <2>3. CASE CheckContents(q)
    BY <2>1, <2>3 DEF Keeps, Children, LateInv, CheckContents
  <2> QED BY <2>0, <2>2, <2>3
<1>3. CASE Abort(q)
  BY <1>0, <1>3 DEF Abort, Goto, TypeOK, Idle
<1>4. ASSUME ~Step(q), SameWork(req'[q], req[q]), req[q].late \subseteq req'[q].late
      PROVE  d \in req'[q].late
  <2>1. req[q].pc \in {"contents", "delete"} /\ req'[q].id = req[q].id
        /\ req[q].id \in Category
    BY <1>4 DEF SameWork, PcInv
  <2>2. CASE d \in rows /\ parent[d] = req[q].id
    BY <1>4, <2>1, <2>2 DEF LateInv, Children
  <2>3. ASSUME NEW r \in Request, r # q, NEW c \in Fresh, Inserts(r, c) PROVE d \in req'[q].late
    <3>1. CASE d = c
      <4>1. req[r].to = req[q].id
        BY <2>1, <2>3, <3>1 DEF Inserts, TypeOK, Fresh
      <4> QED BY <1>0, <2>1, <2>3, <3>1, <4>1 DEF Inserts, Attach, Req
    <3> QED BY <2>1, <2>2, <2>3, <3>1 DEF Inserts, TypeOK, Fresh
  <2>4. ASSUME NEW r \in Request, r # q, Write(r), Moved(r) PROVE d \in req'[q].late
    <3>1. CASE d = req[r].id
      <4>1. req[r].to = req[q].id
        BY <2>1, <2>4, <3>1 DEF Write, TypeOK
      <4>2. Attach(req[q], req[r].id, req[r].to) = [req[q] EXCEPT !.late = @ \cup {d}]
        BY <2>1, <3>1, <4>1 DEF Attach
      <4>3. req'[q] = [Attach(req[q], req[r].id, req[r].to) EXCEPT !.stale = TRUE]
        BY <2>1, <2>4 DEF Write
      <4> QED BY <1>0, <4>2, <4>3 DEF Req
    <3> QED BY <2>1, <2>2, <2>4, <3>1 DEF Write, TypeOK
  <2>5. ASSUME NEW r \in Request, Delete(r) PROVE d \in req'[q].late
    BY <2>1, <2>2, <2>5 DEF Delete, TypeOK
  <2>6. CASE Keeps
    BY <2>1, <2>2, <2>6 DEF Keeps
  <2>7. ASSUME NEW c \in Fresh, req[q].pc = "insert" PROVE FALSE
    BY <2>1, <2>7
  <2> QED BY <1>4, <2>3, <2>4, <2>5, <2>6, <2>7, Effects DEF Step
<1> QED BY <1>1, <1>2, <1>3, <1>4, OtherSlots

LEMMA WalkStep ==
  TypeOK /\ KeysResolve /\ RowsOnly /\ PcInv /\ WalkInv /\ [Next]_vars => WalkInv'
<1> USE CategoryAssumption DEF Link
<1> SUFFICES ASSUME TypeOK, KeysResolve, RowsOnly, PcInv, WalkInv, [Next]_vars,
                    NEW q \in Request, req'[q].pc \in {"walk", "write"}, ~req'[q].stale
             PROVE  Walked(req[q])'
  BY DEF WalkInv
<1>0. req[q] \in Req /\ parent \in [Category -> Link]
  BY DEF TypeOK
<1>1. CASE BeginCreate(q) \/ BeginUpdate(q) \/ BeginDelete(q)
  <2>1. req'[q].pc = "write" /\ req'[q].visited = {}
        /\ req'[q].to \in {NONE, parent[req'[q].id]}
    BY <1>1, OwnBegin
  <2>2. parent' = parent
    BY <1>1 DEF BeginCreate, BeginUpdate, BeginDelete, Begin
  <2> QED BY <2>1, <2>2 DEF Walked
<1>2. CASE req'[q] = Idle \/ req[q].pc = "idle"
  BY <1>1, <1>2, IdleSlots DEF Idle
<1>3. CASE Step(q)
  <2>1. CASE CheckParent(q) /\ req'[q] = [req[q] EXCEPT !.pc = "walk", !.at = req[q].to]
    <3>1. req[q].visited = {}
      BY <2>1 DEF PcInv, CheckParent
    <3>2. req'[q].visited = {} /\ req'[q].at = req'[q].to /\ req'[q].pc = "walk"
      BY <1>0, <2>1, <3>1 DEF Req
    <3> QED BY <3>2 DEF Walked
  <2>2. CASE Walk(q) /\ ~Circular(req[q])
    <3>1. Walked(req[q]) /\ req[q].pc = "walk"
      BY <2>2, WalkSlot DEF WalkInv, Walk
    <3>2. parent' = parent
      BY <2>2 DEF Walk, Goto
    <3>3. req[q].at # req[q].id /\ req[q].visited \subseteq Category
      BY <1>0, <2>2 DEF Circular, Req
    <3>4. req'[q].id \notin req'[q].visited /\ req'[q].to \in req'[q].visited
      BY <2>2, <3>1, <3>3, WalkSlot DEF Walked
    <3>5. \A v \in req'[q].visited : parent[v] \in req'[q].visited \cup {req'[q].at, NONE}
      BY <2>2, <3>1, WalkSlot DEF Walked
    <3> QED BY <2>2, <3>2, <3>4, <3>5, WalkSlot DEF Walked
  <2>3. CASE req'[q] = [req[q] EXCEPT !.pc = "contents"] \/ req'[q] = [req[q] EXCEPT !.pc = "delete"]
    BY <1>0, <2>3 DEF Req
  <2> QED BY <1>2, <1>3, <2>1, <2>2, <2>3, OwnStep
<1>4. CASE Abort(q)
  BY <1>2, <1>4 DEF Abort, Goto, TypeOK
<1>5. ASSUME req[q].pc # "idle", ~Step(q), SameWork(req'[q], req[q]), ~req[q].stale
      PROVE  Walked(req[q])'
  <2>1. /\ req[q].pc \in {"walk", "write"} /\ req'[q].pc = req[q].pc
        /\ req'[q].id = req[q].id /\ req'[q].to = req[q].to
        /\ req'[q].at = req[q].at /\ req'[q].visited = req[q].visited
        /\ req[q].id \in Category /\ req[q].visited \subseteq Category
    BY <1>0, <1>5 DEF SameWork, PcInv, Req
  <2>2. CASE Keeps
    BY <1>5, <2>1, <2>2 DEF WalkInv, Walked, Keeps
  <2>3. ASSUME NEW r \in Request, r # q, NEW c \in Fresh, Inserts(r, c) PROVE Walked(req[q])'
    <3>2. c \notin req[q].visited /\ c # req[q].id
      BY DEF Fresh, Held
    <3> QED BY <1>5, <2>1, <2>3, <3>2 DEF WalkInv, Walked, Inserts, TypeOK
  <2>4. ASSUME NEW r \in Request, r # q, Write(r), Moved(r) PROVE FALSE
    <3> DEFINE a == Attach(req[q], req[r].id, req[r].to)
    <3>1. a \in Req
      BY <1>0, <2>4, AttachType DEF Write, TypeOK
    <3>2. req'[q] = [a EXCEPT !.stale = TRUE]
      BY <1>5, <2>4 DEF Write
    <3> HIDE DEF a
    <3> QED BY <3>1, <3>2 DEF Req
  <2>5. ASSUME NEW r \in Request, r # q, Delete(r) PROVE Walked(req[q])'
    <3>1. CASE Children(req[r].id) = {}
      <4>2. /\ parent' = [parent EXCEPT ![req[r].id] = NONE]
            /\ rows' = rows \ {req[r].id}
        BY <1>0, <2>5, <3>1 DEF Delete
      <4> QED BY <1>0, <1>5, <2>1, <4>2 DEF WalkInv, Walked
    <3>2. CASE Children(req[r].id) # {}
      <4>1. req'[q] = [req[q] EXCEPT !.stale = TRUE]
        BY <1>5, <2>5, <3>2 DEF Delete, EndStaling
      <4> QED BY <1>0, <4>1 DEF Req
    <3> QED BY <3>1, <3>2
  <2>6. ASSUME req[q].pc = "insert" PROVE FALSE
    BY <2>1, <2>6
  <2> QED BY <1>5, <2>2, <2>3, <2>4, <2>5, <2>6, Effects DEF Step
<1> QED BY <1>1, <1>2, <1>3, <1>4, <1>5, OtherSlots

-----------------------------------------------------------------------------
(* Theorems *)

\* The invariant holds initially and every step preserves it.
THEOREM Inductive == Spec => []IInv
<1>1. Init => IInv
  <2> SUFFICES ASSUME Init PROVE IInv
    OBVIOUS
  <2>1. TypeOK /\ KeysResolve /\ RowsOnly /\ CyclesExplained
    BY IdleType DEF Init, TypeOK, KeysResolve, RowsOnly, CyclesExplained, Endless, Link, Idle
  <2>2. PcInv /\ WalkInv /\ LateInv
    BY DEF Init, PcInv, WalkInv, LateInv, Idle
  <2> QED BY <2>1, <2>2 DEF IInv
<1>2. IInv /\ [Next]_vars => IInv'
  BY TypeStep, KeysStep, PcStep, WalkStep, LateStep, CyclesStep DEF IInv
<1> QED BY <1>1, <1>2, PTL DEF Spec

\* The category tree's state is well formed in every reachable state.
THEOREM TypeCorrect == Spec => []TypeOK
<1>1. IInv => TypeOK
  BY DEF IInv
<1> QED BY <1>1, Inductive, PTL

\* Whatever overlaps, parents and the categories of contents are rows.
THEOREM KeysAlwaysResolve == Spec => []KeysResolve
<1>1. IInv => KeysResolve
  BY DEF IInv
<1> QED BY <1>1, Inductive, PTL

\* Nothing but a move decided on a stale tree makes a cycle.
THEOREM OnlyRacesMakeCycles == Spec => []CyclesExplained
<1>1. IInv => CyclesExplained
  BY DEF IInv
<1> QED BY <1>1, Inductive, PTL

\* A deletion turns only those children into roots that came after its check.
THEOREM DeletionsReRootLate == Spec => OnlyLateChildrenReRooted
<1>1. IInv /\ [Next]_vars =>
        [\A c \in rows \cap rows' :
           parent[c] \in rows \ rows' =>
             \E r \in Request : req[r].id = parent[c] /\ c \in req[r].late]_vars
  <2> SUFFICES ASSUME IInv, [Next]_vars, NEW c \in rows \cap rows', parent[c] \in rows \ rows'
               PROVE  \E r \in Request : req[r].id = parent[c] /\ c \in req[r].late
    OBVIOUS
  <2>1. PICK r \in Request : Delete(r)
    BY Effects DEF Keeps, Inserts, Write
  <2>2. req[r].id = parent[c] /\ req[r].pc = "delete"
    BY <2>1 DEF Delete
  <2> QED BY <2>2 DEF IInv, LateInv, Children
<1> QED BY <1>1, Inductive, PTL DEF Spec, OnlyLateChildrenReRooted

\* Each turn of the walk visits a category for the first time.
THEOREM WalksAlwaysAdvance == Spec => WalksAdvance
<1>1. IInv /\ [Next]_vars =>
        [\A r \in Request :
           Walk(r) /\ req'[r].pc = "walk" =>
             req[r].visited \subseteq req'[r].visited /\ req[r].visited # req'[r].visited]_vars
  <2> SUFFICES ASSUME IInv, NEW r \in Request, Walk(r), req'[r].pc = "walk"
               PROVE  req[r].visited \subseteq req'[r].visited /\ req[r].visited # req'[r].visited
    OBVIOUS
  <2>1. TypeOK
    BY DEF IInv
  <2>2. ~Circular(req[r])
    BY <2>1 DEF Walk, Goto, TypeOK, Idle
  <2> QED BY <2>1, <2>2, WalkSlot DEF Circular
<1> QED BY <1>1, Inductive, PTL DEF Spec, WalksAdvance

\* One request at a time keeps the tree acyclic: the check for circular
\* references is right about every tree that does not change under it.
Serial == \A r \in Request, q \in Request : r = q

THEOREM SerialTreesAreAcyclic ==
  ASSUME Serial PROVE Spec => []Acyclic
<1> DEFINE Calm == forced = {} /\ \A r \in Request : ~req[r].stale
<1>1. Init => Calm
  BY DEF Init, Idle
<1>2. IInv /\ Calm /\ [Next]_vars => Calm'
  <2> SUFFICES ASSUME IInv, Calm, [Next]_vars PROVE Calm'
    OBVIOUS
  <2>0. TypeOK /\ \A r \in Request : req[r] \in Req
    BY DEF IInv, TypeOK
  <2>1. CASE UNCHANGED vars
    BY <2>1 DEF vars
  <2>2. forced' = {}
    <3>1. ASSUME NEW r \in Request, Write(r) PROVE forced' = {}
      BY <3>1 DEF Write, Goto
    <3>2. ASSUME NEW r \in Request, Delete(r) PROVE forced' = {}
      BY <3>2 DEF Delete
    <3> QED BY <3>1, <3>2, Effects DEF Keeps, Inserts
  <2>3. ASSUME NEW q \in Request PROVE ~req'[q].stale
    <3>1. CASE BeginCreate(q) \/ BeginUpdate(q) \/ BeginDelete(q)
      <4>1. CASE BeginCreate(q)
        BY <2>0, <4>1 DEF BeginCreate, Begin, Idle, TypeOK
      <4>2. CASE BeginUpdate(q)
        BY <2>0, <4>2 DEF BeginUpdate, Begin, Idle, TypeOK
      <4>3. CASE BeginDelete(q)
        BY <2>0, <4>3 DEF BeginDelete, Begin, Idle, TypeOK
      <4> QED BY <3>1, <4>1, <4>2, <4>3
    <3>2. CASE Step(q)
      <4>1. CASE Walk(q) /\ ~Circular(req[q])
        BY <2>0, <4>1, WalkSlot
      <4>2. CASE req'[q] = [req[q] EXCEPT !.pc = "walk", !.at = req[q].to]
        BY <2>0, <4>2 DEF Req
      <4>3. CASE req'[q] = [req[q] EXCEPT !.pc = "contents"]
        BY <2>0, <4>3 DEF Req
      <4>4. CASE req'[q] = [req[q] EXCEPT !.pc = "delete"]
        BY <2>0, <4>4 DEF Req
      <4>5. CASE req'[q] = Idle
        BY <4>5 DEF Idle
      <4> QED BY <2>0, <3>2, <4>1, <4>2, <4>3, <4>4, <4>5, OwnStep
    <3>3. CASE Abort(q)
      BY <2>0, <3>3 DEF Abort, Goto, TypeOK, Idle
    <3>4. ASSUME NEW x \in Content, File(x) \/ Unfile(x) PROVE ~req'[q].stale
      BY <3>4 DEF File, Unfile
    <3>5. ASSUME NEW r \in Request, \/ BeginCreate(r) \/ BeginUpdate(r) \/ BeginDelete(r)
                                    \/ Step(r) \/ Abort(r)
          PROVE  ~req'[q].stale
      <4>1. r = q
        BY DEF Serial
      <4> QED BY <3>1, <3>2, <3>3, <3>5, <4>1
    <3> QED BY <2>1, <3>4, <3>5 DEF Next
  <2> QED BY <2>2, <2>3
<1>3. IInv /\ Calm => Acyclic
  BY DEF IInv, CyclesExplained, Acyclic
<1> QED BY <1>1, <1>2, <1>3, Inductive, PTL DEF Spec

-----------------------------------------------------------------------------
(* Contents and their attachments *)

(***************************************************************************)
(* The inductive invariant.                                                *)
(***************************************************************************)

\* A request that writes a content has a slug for it; a content about to be
\* created is nobody else's and was never seen before.
WriterInv ==
  \A r \in Request :
    LET q == cntReq[r] IN
    /\ q.pc \in {"search", "check", "write"} => q.c \in ContentId /\ q.s \in Slugs
    /\ q.pc \in {"search", "check", "write"} /\ q.new =>
         /\ q.c \notin CntLive \cup cntDead
         /\ \A o \in Request : o # r => cntReq[o].c # q.c

\* A request that deals with a file has one; a file about to get its row is in
\* the store and nobody else's; a file about to lose its row is not.
FilerInv ==
  \A r \in Request :
    LET q == cntReq[r] IN
    /\ IF q.pc \in {"attach", "unput", "detach"} THEN q.p \in cntUsed ELSE q.p = NONE
    /\ q.pc = "attach" =>
         /\ cntAtt[q.p] = NONE /\ q.p \in cntStore
         /\ \A o \in Request : o # r => cntReq[o].p # q.p
    /\ q.pc = "detach" => q.p \notin cntStore

\* A row names a file that was uploaded.
RowInv == \A p \in Piece : cntAtt[p] # NONE => p \in cntUsed

CntIInv == /\ CntTypeOK /\ WriterInv /\ FilerInv /\ RowInv
           /\ CntClashExplained /\ CntFilesConsistent

(***************************************************************************)
(* Requests.                                                               *)
(***************************************************************************)

\* The empty slot is a well-formed request for nothing.
LEMMA CntIdleType ==
  CntIdle \in CntReqs /\ CntIdle.pc = "idle" /\ CntIdle.c = NONE /\ CntIdle.p = NONE
  BY DEF CntIdle, CntReqs

\* A request that goes on without touching the tables.
LEMMA CntGotoKeeps ==
  ASSUME CntIInv, NEW r \in Request, NEW q \in CntReqs, CntGoto(r, q),
         UNCHANGED <<cntRows, cntFiles>>,
         q.pc \in {"search", "check", "write"} => q.c \in ContentId /\ q.s \in Slugs,
         q.pc \in {"search", "check", "write"} /\ q.new =>
           /\ q.c \notin CntLive \cup cntDead
           /\ \A o \in Request : o # r => cntReq[o].c # q.c,
         \/ q.c \in {cntReq[r].c, NONE} \cup CntLive
         \/ q.pc \in {"search", "check", "write"} /\ q.new,
         q.pc = "write" => ~CntTaken(q.s, q.c),
         q.pc \notin {"attach", "detach"},
         q.pc = "unput" => q.p \in Piece /\ cntAtt[q.p] # NONE,
         q.p = NONE \/ q.pc = "unput",
         cntReq[r].pc \notin {"attach", "detach"}
  PROVE  CntIInv'
<1> USE CntAssumption
<1>1. /\ cntReq' = [cntReq EXCEPT ![r] = q]
      /\ UNCHANGED <<cntSlug, cntDead, cntAtt, cntStore, cntUsed, cntHalf, cntLeaked>>
  BY DEF CntGoto, cntRows, cntFiles
<1>2. CntLive' = CntLive
  BY <1>1 DEF CntLive
<1>3. /\ CntTypeOK /\ WriterInv /\ FilerInv /\ RowInv /\ CntClashExplained /\ CntFilesConsistent
      /\ cntReq \in [Request -> CntReqs]
  BY DEF CntIInv, CntTypeOK
<1>4. CntTypeOK'
  BY <1>1, <1>2, <1>3 DEF CntTypeOK
<1>5. WriterInv'
  <2>1. \A o \in Request \ {r} : cntReq'[o] = cntReq[o]
    BY <1>1, <1>3
  <2>2. cntReq'[r] = q
    BY <1>1, <1>3
  <2>3. ASSUME NEW o \in Request \ {r},
               cntReq[o].pc \in {"search", "check", "write"}, cntReq[o].new
        PROVE  q.c # cntReq[o].c
    BY <1>3, <2>3 DEF WriterInv
  <2> QED BY <1>1, <1>2, <1>3, <2>1, <2>2, <2>3 DEF WriterInv
<1>6. FilerInv' /\ RowInv'
  <2>1. \A o \in Request \ {r} : cntReq'[o] = cntReq[o]
    BY <1>1, <1>3
  <2>2. cntReq'[r] = q
    BY <1>1, <1>3
  <2>3. ASSUME NEW o \in Request \ {r}, cntReq[o].pc = "attach"
        PROVE  q.p # cntReq[o].p
    <3>1. cntReq[o].p \in Piece /\ cntAtt[cntReq[o].p] = NONE
      BY <1>3, <2>3 DEF FilerInv, CntTypeOK
    <3> QED BY <3>1
  <2>4. q.pc = "unput" => q.p \in cntUsed
    BY <1>3 DEF RowInv
  <2> QED BY <1>1, <1>3, <2>1, <2>2, <2>3, <2>4 DEF FilerInv, RowInv
<1>7. CntClashExplained'
  BY <1>1, <1>3 DEF CntClashExplained, CntAt, CntTaken
<1>8. CntFilesConsistent'
  BY <1>1, <1>3 DEF CntFilesConsistent, CntAt
<1> QED BY <1>4, <1>5, <1>6, <1>7, <1>8 DEF CntIInv

(***************************************************************************)
(* Contents.                                                               *)
(***************************************************************************)

\* The steps that look for a content or a slug.
LEMMA LookStep ==
  ASSUME CntIInv, NEW r \in Request,
         CntBeginCreate(r) \/ CntBeginUpdate(r) \/ CntSearch(r) \/ CntCheck(r)
  PROVE  CntIInv'
<1> USE CntAssumption
<1>0. /\ cntReq \in [Request -> CntReqs] /\ CntLive \subseteq ContentId
      /\ cntReq[r] \in CntReqs /\ WriterInv /\ FilerInv
  BY DEF CntIInv, CntTypeOK, CntLive
<1>1. CASE CntBeginCreate(r)
  <2>1. PICK c \in ContentId \ (CntLive \cup cntDead), t \in Title, pc \in {"search", "check"} :
          /\ \A o \in Request : cntReq[o].c # c
          /\ CntGoto(r, [CntIdle EXCEPT !.pc = pc, !.c = c, !.s = <<t, 0>>, !.new = TRUE])
    BY <1>1 DEF CntBeginCreate
  <2> DEFINE q == [CntIdle EXCEPT !.pc = pc, !.c = c, !.s = <<t, 0>>, !.new = TRUE]
  <2>2. <<t, 0>> \in Slugs
    BY DEF Slugs
  <2>3. /\ q \in CntReqs /\ q.pc = pc /\ q.c = c /\ q.s = <<t, 0>> /\ q.p = NONE /\ q.new = TRUE
    BY <2>2 DEF CntIdle, CntReqs
  <2> HIDE DEF q
  <2>4. CntGoto(r, q) /\ UNCHANGED <<cntRows, cntFiles>> /\ cntReq[r].pc = "idle"
    BY <1>1, <2>1 DEF q, CntBeginCreate, CntAt
  <2> QED BY <2>1, <2>2, <2>3, <2>4, CntGotoKeeps
<1>2. CASE CntBeginUpdate(r)
  <2>1. PICK c \in CntLive, t \in Title, pc \in {"search", "check"} :
          CntGoto(r, [CntIdle EXCEPT !.pc = pc, !.c = c, !.s = <<t, 0>>])
    BY <1>2 DEF CntBeginUpdate
  <2> DEFINE q == [CntIdle EXCEPT !.pc = pc, !.c = c, !.s = <<t, 0>>]
  <2>2. <<t, 0>> \in Slugs
    BY DEF Slugs
  <2>3. /\ q \in CntReqs /\ q.pc = pc /\ q.c = c /\ q.s = <<t, 0>> /\ q.p = NONE /\ q.new = FALSE
    BY <1>0, <2>2 DEF CntIdle, CntReqs
  <2> HIDE DEF q
  <2>4. CntGoto(r, q) /\ UNCHANGED <<cntRows, cntFiles>> /\ cntReq[r].pc = "idle"
    BY <1>2, <2>1 DEF q, CntBeginUpdate, CntAt
  <2> QED BY <1>0, <2>1, <2>2, <2>3, <2>4, CntGotoKeeps
<1>3. CASE CntSearch(r)
  <2> DEFINE q == cntReq[r]
  <2>1. /\ q.pc = "search" /\ q.c \in ContentId /\ q.s \in Slugs /\ q.p = NONE
        /\ q.new => q.c \notin CntLive \cup cntDead /\ \A o \in Request : o # r => cntReq[o].c # q.c
        /\ UNCHANGED <<cntRows, cntFiles>>
    BY <1>0, <1>3 DEF CntSearch, CntAt, WriterInv, FilerInv
  <2>2. CASE SlugExists(q.s, q.c)
    <3> DEFINE s == <<q.s[1], q.s[2] + 1>>
               n == [q EXCEPT !.s = s]
    <3>1. q.s[2] < MaxSuffix /\ CntGoto(r, n)
      BY <1>3, <2>2 DEF CntSearch
    <3>2. s \in Slugs
      <4>1. q.s[1] \in Title /\ q.s[2] \in 0..MaxSuffix
        BY <2>1 DEF Slugs
      <4>2. q.s[2] + 1 \in 0..MaxSuffix
        BY <3>1, <4>1
      <4> QED BY <4>1, <4>2 DEF Slugs
    <3> HIDE DEF s
    <3>3. /\ n \in CntReqs /\ n.pc = "search" /\ n.c = q.c /\ n.s = s /\ n.new = q.new
          /\ n.p = q.p
      BY <1>0, <2>1, <3>2 DEF CntReqs
    <3> HIDE DEF n
    <3> QED BY <2>1, <3>1, <3>2, <3>3, CntGotoKeeps
  <2>3. CASE ~SlugExists(q.s, q.c)
    <3> DEFINE pc == IF q.new THEN "check" ELSE "write"
               n == [q EXCEPT !.pc = pc, !.late = FALSE]
    <3>1. CntGoto(r, n) /\ pc \in {"check", "write"}
      BY <1>3, <2>3 DEF CntSearch
    <3> HIDE DEF pc
    <3>2. /\ n \in CntReqs /\ n.pc = pc /\ n.c = q.c /\ n.s = q.s /\ n.new = q.new /\ n.p = q.p
      BY <1>0, <3>1 DEF CntReqs
    <3> HIDE DEF n
    <3> QED BY <2>1, <2>3, <3>1, <3>2, CntGotoKeeps DEF SlugExists
  <2> QED BY <2>2, <2>3
<1>4. CASE CntCheck(r)
  <2> DEFINE q == cntReq[r]
             n == [q EXCEPT !.pc = "write", !.late = FALSE]
  <2>1. /\ q.pc = "check" /\ q.c \in ContentId /\ q.s \in Slugs /\ q.p = NONE
        /\ q.new => q.c \notin CntLive \cup cntDead /\ \A o \in Request : o # r => cntReq[o].c # q.c
        /\ UNCHANGED <<cntRows, cntFiles>> /\ ~SlugExists(q.s, q.c)
        /\ CntGoto(r, n)
    BY <1>0, <1>4 DEF CntCheck, CntAt, WriterInv, FilerInv
  <2>2. /\ n \in CntReqs /\ n.pc = "write" /\ n.c = q.c /\ n.s = q.s /\ n.new = q.new /\ n.p = q.p
    BY <1>0 DEF CntReqs
  <2> HIDE DEF n
  <2> QED BY <2>1, <2>2, CntGotoKeeps DEF SlugExists
<1> QED BY <1>1, <1>2, <1>3, <1>4

\* The row is written: those who found its slug free before are late now.
LEMMA WriteStep ==
  ASSUME CntIInv, NEW r \in Request, CntWrite(r)
  PROVE  CntIInv'
<1> USE CntAssumption
<1> DEFINE q == cntReq[r]
           L(o) == cntReq[o].late \/ (CntAt(o, "write") /\ cntReq[o].s = q.s)
<1>0. /\ CntTypeOK /\ WriterInv /\ FilerInv /\ RowInv /\ CntClashExplained /\ CntFilesConsistent
      /\ cntReq \in [Request -> CntReqs]
  BY DEF CntIInv, CntTypeOK
<1>1. /\ q.pc = "write" /\ q.c \in ContentId /\ q.s \in Slugs /\ ~CntTaken(q.s, q.c)
      /\ q.new \/ q.c \in CntLive
      /\ q.new => q.c \notin CntLive \cup cntDead /\ \A o \in Request : o # r => cntReq[o].c # q.c
      /\ cntSlug' = [cntSlug EXCEPT ![q.c] = q.s]
      /\ UNCHANGED <<cntDead, cntAtt, cntStore, cntUsed, cntHalf, cntLeaked>>
  BY <1>0 DEF CntWrite, CntAt, WriterInv, cntFiles
<1>2. /\ cntReq' = [o \in Request |-> cntReq'[o]] /\ cntReq'[r] = CntIdle
      /\ \A o \in Request \ {r} : cntReq'[o] = [cntReq[o] EXCEPT !.late = L(o)]
  <2>1. cntReq' = [o \in Request |->
                     IF o = r THEN CntIdle ELSE [cntReq[o] EXCEPT !.late = L(o)]]
    BY DEF CntWrite
  <2> HIDE DEF L
  <2> QED BY <2>1
<1>3. ASSUME NEW o \in Request \ {r}
      PROVE  /\ cntReq'[o] \in CntReqs /\ cntReq'[o].pc = cntReq[o].pc
             /\ cntReq'[o].c = cntReq[o].c /\ cntReq'[o].s = cntReq[o].s
             /\ cntReq'[o].p = cntReq[o].p /\ cntReq'[o].new = cntReq[o].new
             /\ cntReq'[o].late = L(o)
  <2>1. cntReq[o] \in CntReqs /\ L(o) \in BOOLEAN
    BY <1>0 DEF CntReqs
  <2> HIDE DEF L
  <2> QED BY <1>2, <2>1 DEF CntReqs
<1>4. CntLive' = CntLive \cup {q.c} /\ CntLive \subseteq ContentId
  BY <1>0, <1>1 DEF CntLive, CntTypeOK, Slugs
<1>5. q.c \notin cntDead
  BY <1>0, <1>1 DEF CntTypeOK
<1>6. CntTypeOK'
  <2>1. cntReq' \in [Request -> CntReqs]
    <3>1. \A o \in Request : cntReq'[o] \in CntReqs
      BY <1>2, <1>3, CntIdleType
    <3> QED BY <1>2, <3>1
  <2> HIDE DEF q, L
  <2> QED BY <1>0, <1>1, <1>4, <1>5, <2>1 DEF CntTypeOK
<1>7. WriterInv'
  <2>1. ASSUME NEW o \in Request \ {r}, cntReq[o].pc \in {"search", "check", "write"}
        PROVE  /\ cntReq[o].c \in ContentId /\ cntReq[o].s \in Slugs
               /\ cntReq[o].new => /\ cntReq[o].c \notin CntLive' \cup cntDead'
                                   /\ \A k \in Request : k # o => cntReq'[k].c # cntReq[o].c
    <3>1. /\ cntReq[o].c \in ContentId /\ cntReq[o].s \in Slugs
          /\ cntReq[o].new => /\ cntReq[o].c \notin CntLive \cup cntDead
                              /\ \A k \in Request : k # o => cntReq[k].c # cntReq[o].c
      BY <1>0, <2>1 DEF WriterInv
    <3>2. \A k \in Request \ {r} : cntReq'[k].c = cntReq[k].c
      BY <1>3
    <3>3. cntReq'[r].c # cntReq[o].c
      BY <1>2, <3>1, CntIdleType
    <3> HIDE DEF L
    <3> QED BY <1>1, <1>4, <3>1, <3>2, <3>3
  <2>2. cntReq'[r].pc = "idle"
    BY <1>2, CntIdleType
  <2>3. \A o \in Request \ {r} : /\ cntReq'[o].pc = cntReq[o].pc /\ cntReq'[o].c = cntReq[o].c
                                 /\ cntReq'[o].s = cntReq[o].s /\ cntReq'[o].p = cntReq[o].p
                                 /\ cntReq'[o].new = cntReq[o].new
    BY <1>3
  <2> HIDE DEF q, L
  <2> QED BY <2>1, <2>2, <2>3 DEF WriterInv
<1>8. FilerInv' /\ RowInv' /\ CntFilesConsistent'
  <2>1. cntReq'[r].pc = "idle" /\ cntReq'[r].p = NONE
    BY <1>2, CntIdleType
  <2>2. \A o \in Request \ {r} : cntReq'[o].pc = cntReq[o].pc /\ cntReq'[o].p = cntReq[o].p
    BY <1>3
  <2>3. q.pc = "write"
    BY <1>1
  <2>4. cntUsed \subseteq Piece
    BY <1>0 DEF CntTypeOK
  <2> HIDE DEF L
  <2> QED BY <1>0, <1>1, <2>1, <2>2, <2>3, <2>4 DEF FilerInv, RowInv, CntFilesConsistent, CntAt
<1>9. CntClashExplained'
  <2> SUFFICES ASSUME NEW o \in Request, cntReq'[o].pc = "write",
                      NEW d \in ContentId \ {cntReq'[o].c}, cntSlug'[d] = cntReq'[o].s
               PROVE  cntReq'[o].late
    BY DEF CntClashExplained, CntAt, CntTaken
  <2>1. o # r
    BY <1>2, CntIdleType
  <2>2. cntReq[o].pc = "write" /\ cntReq'[o].c = cntReq[o].c /\ cntReq'[o].s = cntReq[o].s
    BY <1>3, <2>1
  <2>3. CASE d = q.c
    <3>1. cntReq[o].s = q.s
      BY <1>0, <1>1, <2>2, <2>3 DEF CntTypeOK
    <3>2. L(o)
      BY <2>2, <3>1 DEF CntAt
    <3> HIDE DEF L
    <3> QED BY <1>3, <2>1, <3>2
  <2>4. CASE d # q.c
    <3>1. cntSlug[d] = cntReq[o].s
      BY <1>0, <1>1, <2>2, <2>4 DEF CntTypeOK
    <3>2. cntReq[o].late
      BY <1>0, <2>2, <3>1 DEF CntClashExplained, CntAt, CntTaken
    <3>3. L(o)
      BY <3>2
    <3> HIDE DEF L
    <3> QED BY <1>3, <2>1, <3>3
  <2> QED BY <2>3, <2>4
<1> QED BY <1>6, <1>7, <1>8, <1>9 DEF CntIInv

\* The rows of the attachments go with their content, the files stay.
LEMMA DeleteStep ==
  ASSUME CntIInv, NEW c \in ContentId, CntDelete(c)
  PROVE  CntIInv'
<1> USE CntAssumption
<1>0. /\ CntTypeOK /\ WriterInv /\ FilerInv /\ RowInv /\ CntClashExplained /\ CntFilesConsistent
  BY DEF CntIInv
<1>1. /\ c \in CntLive /\ cntSlug' = [cntSlug EXCEPT ![c] = NONE] /\ cntDead' = cntDead \cup {c}
      /\ cntAtt' = [p \in Piece |-> IF cntAtt[p] = c THEN NONE ELSE cntAtt[p]]
      /\ cntLeaked' = cntLeaked \cup ({p \in Piece : cntAtt[p] = c} \cap cntStore)
      /\ cntHalf' = cntHalf \ {p \in Piece : cntAtt[p] = c}
      /\ UNCHANGED <<cntStore, cntUsed, cntReq>>
  BY DEF CntDelete, CntPieces
<1>2. CntLive' = CntLive \ {c}
  BY <1>0, <1>1 DEF CntLive, CntTypeOK
<1>3. c # NONE
  OBVIOUS
<1>4. CntTypeOK'
  BY <1>0, <1>1, <1>2, <1>3 DEF CntTypeOK
<1>5. WriterInv'
  BY <1>0, <1>1, <1>2 DEF WriterInv
<1>6. FilerInv' /\ RowInv'
  BY <1>0, <1>1, <1>3 DEF FilerInv, RowInv, CntTypeOK
<1>7. CntClashExplained'
  <2>1. ASSUME NEW o \in Request, NEW d \in ContentId, cntReq[o].pc = "write",
               cntSlug'[d] = cntReq[o].s
        PROVE  cntSlug[d] = cntReq[o].s
    BY <1>0, <1>1, <2>1 DEF CntTypeOK, WriterInv, Slugs
  <2> QED BY <1>0, <1>1, <2>1 DEF CntClashExplained, CntAt, CntTaken
<1>8. CntFilesConsistent'
  BY <1>0, <1>1, <1>3 DEF CntFilesConsistent, CntAt, CntTypeOK
<1> QED BY <1>4, <1>5, <1>6, <1>7, <1>8 DEF CntIInv

(***************************************************************************)
(* Attachments.                                                            *)
(***************************************************************************)

\* Every step of an upload or a deletion of an attachment, and every request
\* that ends: the contents stay as they are.
LEMMA FileStep ==
  ASSUME CntIInv, NEW r \in Request,
         CntBeginAttach(r) \/ CntPut(r) \/ CntAttach(r) \/ CntBeginDetach(r)
           \/ CntUnput(r) \/ CntDetach(r) \/ CntAbort(r)
  PROVE  CntIInv'
<1> USE CntAssumption, CntIdleType
<1>0. /\ CntTypeOK /\ WriterInv /\ FilerInv /\ RowInv /\ CntClashExplained /\ CntFilesConsistent
      /\ cntReq \in [Request -> CntReqs] /\ cntReq[r] \in CntReqs
  BY DEF CntIInv, CntTypeOK
<1>1. UNCHANGED <<cntSlug, cntDead>> /\ CntLive' = CntLive /\ CntLive \subseteq ContentId
  BY DEF CntBeginAttach, CntPut, CntAttach, CntBeginDetach, CntUnput, CntDetach, CntAbort,
         cntRows, CntLive
\* The request's new state q neither writes a content nor takes another's.
<1>2. ASSUME NEW q \in CntReqs, cntReq' = [cntReq EXCEPT ![r] = q],
             q.pc \notin {"search", "check", "write"},
             q.c \in {cntReq[r].c, NONE} \cup CntLive
      PROVE  WriterInv' /\ CntClashExplained' /\ cntReq' \in [Request -> CntReqs]
  <2>1. \A o \in Request \ {r} : cntReq'[o] = cntReq[o]
    BY <1>0, <1>2
  <2>2. cntReq'[r] = q
    BY <1>0, <1>2
  <2>3. WriterInv'
    <3>1. ASSUME NEW o \in Request \ {r},
                 cntReq[o].pc \in {"search", "check", "write"}, cntReq[o].new
          PROVE  q.c # cntReq[o].c
      BY <1>0, <1>2, <3>1 DEF WriterInv
    <3> QED BY <1>0, <1>1, <1>2, <2>1, <2>2, <3>1 DEF WriterInv
  <2>4. CntClashExplained'
    BY <1>0, <1>1, <1>2, <2>1, <2>2 DEF CntClashExplained, CntAt, CntTaken
  <2> QED BY <1>0, <1>2, <2>3, <2>4
<1>3. CASE CntBeginAttach(r)
  <2>1. PICK c \in CntLive : CntGoto(r, [CntIdle EXCEPT !.pc = "put", !.c = c])
    BY <1>3 DEF CntBeginAttach
  <2> DEFINE q == [CntIdle EXCEPT !.pc = "put", !.c = c]
  <2>2. q \in CntReqs /\ q.pc = "put" /\ q.c = c /\ q.p = NONE
    BY <1>1 DEF CntIdle, CntReqs
  <2> HIDE DEF q
  <2>3. CntGoto(r, q) /\ UNCHANGED <<cntRows, cntFiles>> /\ cntReq[r].pc = "idle"
    BY <1>3, <2>1 DEF q, CntBeginAttach, CntAt
  <2> QED BY <1>0, <2>1, <2>2, <2>3, CntGotoKeeps
<1>4. CASE CntPut(r)
  <2>1. PICK p \in Piece \ cntUsed :
          /\ cntStore' = cntStore \cup {p} /\ cntUsed' = cntUsed \cup {p}
          /\ cntReq' = [cntReq EXCEPT ![r] = [cntReq[r] EXCEPT !.pc = "attach", !.p = p]]
          /\ UNCHANGED <<cntAtt, cntHalf, cntLeaked>> /\ cntReq[r].pc = "put"
    BY <1>4 DEF CntPut, CntNewNames, CntGoto, CntAt
  <2> DEFINE q == [cntReq[r] EXCEPT !.pc = "attach", !.p = p]
  <2>2. q \in CntReqs /\ q.pc = "attach" /\ q.c = cntReq[r].c /\ q.p = p
    BY <1>0 DEF CntReqs
  <2> HIDE DEF q
  <2>3. cntReq' = [cntReq EXCEPT ![r] = q]
    BY <2>1 DEF q
  <2>4. \A o \in Request \ {r} : cntReq'[o] = cntReq[o]
    BY <1>0, <2>3
  <2>5. cntReq'[r] = q
    BY <1>0, <2>3
  <2>6. WriterInv' /\ CntClashExplained' /\ cntReq' \in [Request -> CntReqs]
    BY <1>2, <2>2, <2>3
  <2>7. CntTypeOK'
    BY <1>0, <1>1, <2>1, <2>6 DEF CntTypeOK
  <2>8. \A o \in Request : cntReq[o].p # p
    BY <1>0, <2>1 DEF FilerInv
  <2>9. cntAtt[p] = NONE /\ RowInv'
    BY <1>0, <2>1 DEF RowInv
  <2>10. FilerInv'
    BY <1>0, <2>1, <2>2, <2>4, <2>5, <2>8, <2>9 DEF FilerInv
  <2>11. CntFilesConsistent'
    <3>1. cntReq[r].pc # "detach" /\ cntReq[r].pc # "attach"
      BY <2>1
    <3> QED BY <1>0, <2>1, <2>2, <2>4, <2>5, <2>9, <3>1 DEF CntFilesConsistent, CntAt
  <2> QED BY <2>6, <2>7, <2>9, <2>10, <2>11 DEF CntIInv
<1>5. CASE CntAttach(r)
  <2> DEFINE p == cntReq[r].p
  <2>1. /\ cntReq[r].pc = "attach" /\ cntReq[r].c \in CntLive
        /\ cntAtt' = [cntAtt EXCEPT ![p] = cntReq[r].c]
        /\ cntReq' = [cntReq EXCEPT ![r] = CntIdle]
        /\ UNCHANGED <<cntStore, cntUsed, cntHalf, cntLeaked>>
    BY <1>5 DEF CntAttach, CntGoto, CntAt
  <2>2. /\ p \in cntUsed /\ p \in Piece /\ p \in cntStore
        /\ \A o \in Request \ {r} : cntReq[o].p # p
    BY <1>0, <2>1 DEF FilerInv, CntTypeOK
  <2>3. /\ \A o \in Request \ {r} : cntReq'[o] = cntReq[o]
        /\ cntReq'[r] = CntIdle
    BY <1>0, <2>1
  <2>4. WriterInv' /\ CntClashExplained' /\ cntReq' \in [Request -> CntReqs]
    BY <1>2, <2>1
  <2> HIDE DEF p
  <2>5. CntTypeOK'
    BY <1>0, <1>1, <2>1, <2>2, <2>4 DEF CntTypeOK
  <2>6. /\ cntAtt'[p] = cntReq[r].c /\ cntAtt'[p] # NONE
        /\ \A x \in Piece \ {p} : cntAtt'[x] = cntAtt[x]
    BY <1>0, <1>1, <2>1, <2>2 DEF CntTypeOK
  <2>7. RowInv'
    BY <1>0, <2>1, <2>2, <2>6 DEF RowInv
  <2>8. FilerInv'
    <3>1. \A o \in Request : cntReq[o].pc = "attach" => cntReq[o].p \in Piece
      BY <1>0 DEF FilerInv, CntTypeOK
    <3> QED BY <1>0, <2>1, <2>2, <2>3, <2>6, <3>1 DEF FilerInv
  <2>9. CntFilesConsistent'
    <3>1. \A x \in Piece : x # p => ~(cntReq[r].pc \in {"attach", "detach"} /\ cntReq[r].p = x)
      BY DEF p
    <3>2. p \in cntStore' /\ ~CntAt(r, "detach")
      BY <2>1, <2>2 DEF CntAt
    <3>3. \A x \in Piece \ {p} :
            cntAtt'[x] # NONE /\ x \notin cntStore' \cup cntHalf' =>
              \E o \in Request \ {r} : CntAt(o, "detach") /\ cntReq[o].p = x
      BY <1>0, <2>1, <2>6, <3>2 DEF CntFilesConsistent
    <3>4. \A x \in cntStore' \ cntLeaked' : x # p =>
            cntAtt'[x] # NONE \/ \E o \in Request \ {r} : CntAt(o, "attach") /\ cntReq[o].p = x
      <4>1. cntStore \subseteq Piece
        BY <1>0 DEF CntTypeOK
      <4> QED BY <1>0, <2>1, <2>6, <3>1, <4>1 DEF CntFilesConsistent, CntAt
    <3> QED BY <2>3, <2>6, <3>2, <3>3, <3>4 DEF CntFilesConsistent, CntAt
  <2> QED BY <2>4, <2>5, <2>7, <2>8, <2>9 DEF CntIInv
<1>6. CASE CntBeginDetach(r)
  <2>1. PICK p \in Piece : cntAtt[p] # NONE /\ CntGoto(r, [CntIdle EXCEPT !.pc = "unput", !.p = p])
    BY <1>6 DEF CntBeginDetach
  <2> DEFINE q == [CntIdle EXCEPT !.pc = "unput", !.p = p]
  <2>2. q \in CntReqs /\ q.pc = "unput" /\ q.c = NONE /\ q.p = p
    BY DEF CntIdle, CntReqs
  <2> HIDE DEF q
  <2>3. CntGoto(r, q) /\ UNCHANGED <<cntRows, cntFiles>> /\ cntReq[r].pc = "idle"
    BY <1>6, <2>1 DEF q, CntBeginDetach, CntAt
  <2> QED BY <1>0, <2>1, <2>2, <2>3, CntGotoKeeps
<1>7. CASE CntUnput(r)
  <2> DEFINE p == cntReq[r].p
             q == [cntReq[r] EXCEPT !.pc = "detach"]
  <2>1. /\ cntReq[r].pc = "unput" /\ cntStore' = cntStore \ {p} /\ cntLeaked' = cntLeaked \ {p}
        /\ cntReq' = [cntReq EXCEPT ![r] = q] /\ UNCHANGED <<cntAtt, cntUsed, cntHalf>>
    BY <1>7 DEF CntUnput, CntGoto, CntAt, CntRemaining
  <2>2. q \in CntReqs /\ q.pc = "detach" /\ q.c = cntReq[r].c /\ q.p = p /\ p \in cntUsed
    BY <1>0, <2>1 DEF CntReqs, FilerInv
  <2> HIDE DEF p, q
  <2>3. /\ \A o \in Request \ {r} : cntReq'[o] = cntReq[o]
        /\ cntReq'[r] = q
    BY <1>0, <2>1
  <2>4. WriterInv' /\ CntClashExplained' /\ cntReq' \in [Request -> CntReqs]
    BY <1>2, <2>1, <2>2
  <2>5. CntTypeOK' /\ RowInv'
    BY <1>0, <1>1, <2>1, <2>4 DEF CntTypeOK, RowInv
  <2>6. FilerInv'
    <3>1. \A o \in Request : cntReq[o].pc = "attach" => cntReq[o].p # p
      BY <1>0, <2>1 DEF FilerInv, p
    <3> QED BY <1>0, <2>1, <2>2, <2>3, <3>1 DEF FilerInv
  <2>7. CntFilesConsistent'
    BY <1>0, <2>1, <2>2, <2>3 DEF CntFilesConsistent, CntAt
  <2> QED BY <2>4, <2>5, <2>6, <2>7 DEF CntIInv
<1>8. CASE CntDetach(r)
  <2> DEFINE p == cntReq[r].p
  <2>1. /\ cntReq[r].pc = "detach" /\ cntAtt' = [cntAtt EXCEPT ![p] = NONE]
        /\ cntHalf' = cntHalf \ {p}
        /\ cntReq' = [cntReq EXCEPT ![r] = CntIdle] /\ UNCHANGED <<cntStore, cntUsed, cntLeaked>>
    BY <1>8 DEF CntDetach, CntGoto, CntAt
  <2>2. p \in cntUsed /\ p \in Piece /\ p \notin cntStore
    BY <1>0, <2>1 DEF FilerInv, CntTypeOK
  <2>3. /\ \A o \in Request \ {r} : cntReq'[o] = cntReq[o]
        /\ cntReq'[r] = CntIdle
    BY <1>0, <2>1
  <2>4. WriterInv' /\ CntClashExplained' /\ cntReq' \in [Request -> CntReqs]
    BY <1>2, <2>1
  <2> HIDE DEF p
  <2>5. CntTypeOK'
    BY <1>0, <1>1, <2>1, <2>2, <2>4 DEF CntTypeOK
  <2>6. /\ cntAtt'[p] = NONE /\ \A x \in Piece \ {p} : cntAtt'[x] = cntAtt[x]
    BY <1>0, <2>1, <2>2 DEF CntTypeOK
  <2>7. RowInv' /\ FilerInv'
    <3>1. \A o \in Request : cntReq[o].pc = "attach" => cntReq[o].p \in Piece
      BY <1>0 DEF FilerInv, CntTypeOK
    <3> QED BY <1>0, <2>1, <2>3, <2>6, <3>1 DEF FilerInv, RowInv
  <2>8. CntFilesConsistent'
    <3>1. \A x \in Piece : x # p => ~(CntAt(r, "detach") /\ cntReq[r].p = x)
      BY DEF p
    <3>2. ~CntAt(r, "attach") /\ \A x \in cntStore : x \in Piece /\ x # p
      BY <1>0, <2>1, <2>2 DEF CntAt, CntTypeOK
    <3> QED BY <1>0, <2>1, <2>3, <2>6, <3>1, <3>2 DEF CntFilesConsistent, CntAt
  <2> QED BY <2>4, <2>5, <2>7, <2>8 DEF CntIInv
<1>9. CASE CntAbort(r)
  <2> DEFINE q == cntReq[r]
  <2>1. /\ cntLeaked' = cntLeaked \cup (IF q.pc = "attach" THEN {q.p} ELSE {})
        /\ cntHalf' = cntHalf \cup {p \in {q.p} : q.pc = "detach" /\ cntAtt[p] # NONE}
        /\ cntReq' = [cntReq EXCEPT ![r] = CntIdle] /\ UNCHANGED <<cntAtt, cntStore, cntUsed>>
    BY <1>9 DEF CntAbort, CntGoto
  <2>2. /\ q.pc = "attach" => q.p \in cntStore
        /\ q.pc = "detach" => q.p \in cntUsed
    BY <1>0 DEF FilerInv
  <2>3. /\ \A o \in Request \ {r} : cntReq'[o] = cntReq[o]
        /\ cntReq'[r] = CntIdle
    BY <1>0, <2>1
  <2>4. WriterInv' /\ CntClashExplained' /\ cntReq' \in [Request -> CntReqs]
    BY <1>2, <2>1
  <2>5. CntTypeOK'
    BY <1>0, <1>1, <2>1, <2>2, <2>4 DEF CntTypeOK
  <2>6. RowInv' /\ FilerInv'
    <3>1. NONE \notin cntUsed
      BY <1>0 DEF CntTypeOK
    <3> QED BY <1>0, <2>1, <2>3, <3>1 DEF FilerInv, RowInv
  <2>7. CntFilesConsistent'
    BY <1>0, <2>1, <2>3 DEF CntFilesConsistent, CntAt
  <2> QED BY <2>4, <2>5, <2>6, <2>7 DEF CntIInv
<1> QED BY <1>3, <1>4, <1>5, <1>6, <1>7, <1>8, <1>9

(***************************************************************************)
(* The theorems.                                                           *)
(***************************************************************************)

\* The invariant holds from the empty tables on.
THEOREM CntInductive == CntSpec => []CntIInv
<1>1. CntInit => CntIInv
  BY CntIdleType, CntAssumption
     DEF CntInit, CntIInv, CntTypeOK, WriterInv, FilerInv, RowInv, CntClashExplained,
         CntFilesConsistent, CntLive, CntAt
<1>2. CntIInv /\ [CntNext]_cntVars => CntIInv'
  <2> SUFFICES ASSUME CntIInv, [CntNext]_cntVars PROVE CntIInv'
    OBVIOUS
  <2>1. CASE UNCHANGED cntVars
    BY <2>1 DEF cntVars, cntRows, cntFiles, CntIInv, CntTypeOK, WriterInv, FilerInv, RowInv,
                CntClashExplained, CntFilesConsistent, CntLive, CntAt, CntTaken
  <2>2. CASE CntNext
    BY <2>2, LookStep, WriteStep, DeleteStep, FileStep DEF CntNext, CntHandler
  <2> QED BY <2>1, <2>2
<1> QED BY <1>1, <1>2, PTL DEF CntSpec

\* The rows, files and requests of contents stay well formed: no attachment's row
\* outlives its content, whatever overlaps (deleteContent, uploadAttachment).
THEOREM CntTypeCorrect == CntSpec => []CntTypeOK
<1>1. CntIInv => CntTypeOK
  BY DEF CntIInv
<1> QED BY <1>1, CntInductive, PTL

\* The unique index refuses a slug that was found free only to requests that
\* another has overtaken.
THEOREM CntClashes == CntSpec => []CntClashExplained
<1>1. CntIInv => CntClashExplained
  BY DEF CntIInv
<1> QED BY <1>1, CntInductive, PTL

\* A row without a file, or a file without a row, is explained by a deletion or
\* an upload under way, or by one that stopped half way.
THEOREM CntFilesAgree == CntSpec => []CntFilesConsistent
<1>1. CntIInv => CntFilesConsistent
  BY DEF CntIInv
<1> QED BY <1>1, CntInductive, PTL

\* A step in which nothing fails between a file and its row, and no content that has
\* attachments is deleted.  A second deletion of one attachment may still find that
\* the row is gone.
CntCalm ==
  /\ \A r \in Request : CntAbort(r) =>
       /\ ~CntAt(r, "attach")
       /\ CntAt(r, "detach") => cntAtt[cntReq[r].p] = NONE
  /\ \A c \in ContentId : CntDelete(c) => CntPieces(c) = {}

\* No request is between the file of an attachment and its row.
CntFilesSettled == \A r \in Request : ~CntAt(r, "attach") /\ ~CntAt(r, "detach")

\* Uploads and deletions of attachments (uploadAttachment, deleteAttachment) that
\* nothing stops half way leave the store and the table in agreement, whatever else
\* they overlap with: as soon as none of them is between its file and its row, the
\* store holds exactly the files that the rows name.
THEOREM CalmAttachmentsAgree ==
  CntSpec /\ [][CntCalm]_cntVars
    => [](CntFilesSettled => cntStore = {p \in Piece : cntAtt[p] # NONE})
<1> DEFINE Clean == cntHalf = {} /\ cntLeaked = {}
<1>1. CntInit => Clean
  BY DEF CntInit
<1>2. Clean /\ [CntNext]_cntVars /\ [CntCalm]_cntVars => Clean'
  <2> SUFFICES ASSUME Clean, [CntNext]_cntVars, [CntCalm]_cntVars PROVE Clean'
    OBVIOUS
  <2>1. CASE UNCHANGED cntVars
    BY <2>1 DEF cntVars, cntFiles
  <2>2. ASSUME NEW r \in Request, CntAbort(r), CntCalm PROVE Clean'
    BY <2>2 DEF CntAbort, CntCalm, CntAt
  <2>3. ASSUME NEW c \in ContentId, CntDelete(c), CntCalm PROVE Clean'
    BY <2>3 DEF CntDelete, CntCalm
  <2>4. ASSUME NEW r \in Request, CntUnput(r) \/ CntDetach(r) PROVE Clean'
    BY <2>4 DEF CntUnput, CntDetach
  <2>5. ASSUME NEW r \in Request,
               \/ CntBeginCreate(r) \/ CntBeginUpdate(r) \/ CntSearch(r) \/ CntCheck(r)
               \/ CntWrite(r) \/ CntBeginAttach(r) \/ CntPut(r) \/ CntAttach(r)
               \/ CntBeginDetach(r)
        PROVE  Clean'
    BY <2>5 DEF cntFiles, CntBeginCreate, CntBeginUpdate, CntSearch, CntCheck, CntWrite,
                CntBeginAttach, CntPut, CntAttach, CntBeginDetach
  <2> QED BY <2>1, <2>2, <2>3, <2>4, <2>5 DEF CntNext, CntHandler
<1>3. CntIInv /\ Clean => (CntFilesSettled => cntStore = {p \in Piece : cntAtt[p] # NONE})
  <2> SUFFICES ASSUME CntIInv, Clean, CntFilesSettled
               PROVE  cntStore = {p \in Piece : cntAtt[p] # NONE}
    OBVIOUS
  <2>1. cntStore \subseteq Piece
    BY DEF CntIInv, CntTypeOK
  <2> QED BY <2>1 DEF CntIInv, CntFilesConsistent, CntFilesSettled
<1> QED BY <1>1, <1>2, <1>3, CntInductive, PTL DEF CntSpec

(***************************************************************************)
(* The life cycle of files.                                                *)
(***************************************************************************)

\* A step that touches the file and the row of one name only.
LEMMA CntOneFile ==
  ASSUME NEW f \in Piece,
         \A g \in Piece \ {f} : /\ g \in cntUsed' <=> g \in cntUsed
                                /\ cntAtt'[g] = cntAtt[g]
                                /\ g \in cntStore' <=> g \in cntStore
  PROVE  cntStatus' = [cntStatus EXCEPT ![f] = cntStatus'[f]]
  BY DEF cntStatus

\* A step that deletes the rows of some names only.
LEMMA CntRowsGo ==
  ASSUME CntIInv, NEW F \in SUBSET Piece, \A p \in F : cntAtt[p] # NONE,
         cntAtt' = [p \in Piece |-> IF p \in F THEN NONE ELSE cntAtt[p]],
         UNCHANGED <<cntStore, cntUsed>>
  PROVE  CntFileCycle!Next
<1>1. \A p \in F : p \in cntUsed
  BY DEF CntIInv, RowInv
<1>2. \A p \in F : cntStatus[p] \in {"present", "bereft"}
  BY <1>1 DEF cntStatus
<1>3. cntStatus' = [p \in Piece |-> IF p \notin F THEN cntStatus[p]
                                   ELSE IF cntStatus[p] = "present" THEN "filed" ELSE "gone"]
  BY <1>1 DEF cntStatus
<1>4. CntFileCycle!Drop(F)
  BY <1>2, <1>3 DEF CntFileCycle!Drop
<1> QED BY <1>4 DEF CntFileCycle!Next

\* A step of a request is a step in the life of one file, or none at all.
LEMMA CntFileStep ==
  ASSUME CntIInv, NEW r \in Request, CntHandler(r)
  PROVE  [CntFileCycle!Next]_cntStatus
<1> USE DEF CntFileCycle!Store, CntFileCycle!Record, CntFileCycle!Lose, CntFileCycle!Become
<1>0. /\ cntUsed \subseteq Piece /\ cntStore \subseteq cntUsed /\ NONE \notin ContentId
      /\ cntAtt \in [Piece -> CntLive \cup {NONE}] /\ CntLive \subseteq ContentId
  BY CntAssumption DEF CntIInv, CntTypeOK, CntLive
<1>u. CASE UNCHANGED <<cntUsed, cntAtt, cntStore>>
  BY <1>u DEF cntStatus
<1>1. CASE CntPut(r)
  <2>1. PICK p \in Piece \ cntUsed : cntStore' = cntStore \cup {p} /\ cntUsed' = cntUsed \cup {p}
    BY <1>1 DEF CntPut, CntNewNames
  <2>2. UNCHANGED cntAtt /\ cntAtt[p] = NONE
    BY <1>1, <2>1 DEF CntPut, CntIInv, RowInv
  <2>3. cntStatus[p] = "new" /\ cntStatus'[p] = "filed"
    BY <2>1, <2>2 DEF cntStatus
  <2>4. cntStatus' = [cntStatus EXCEPT ![p] = cntStatus'[p]]
    BY <2>1, <2>2, CntOneFile
  <2> QED BY <2>3, <2>4 DEF CntFileCycle!Next
<1>2. CASE CntAttach(r)
  <2> DEFINE p == cntReq[r].p
             c == cntReq[r].c
  <2>1. p \in cntUsed /\ cntAtt[p] = NONE /\ p \in cntStore
    BY <1>2 DEF CntAttach, CntAt, CntIInv, FilerInv
  <2>2. c \in CntLive /\ cntAtt' = [cntAtt EXCEPT ![p] = c] /\ UNCHANGED <<cntStore, cntUsed>>
    BY <1>2 DEF CntAttach
  <2> HIDE DEF p, c
  <2>3. cntAtt'[p] # NONE /\ \A g \in Piece \ {p} : cntAtt'[g] = cntAtt[g]
    BY <1>0, <2>1, <2>2
  <2>4. cntStatus[p] = "filed" /\ cntStatus'[p] = "present" /\ p \in Piece
    BY <1>0, <2>1, <2>2, <2>3 DEF cntStatus
  <2>5. cntStatus' = [cntStatus EXCEPT ![p] = cntStatus'[p]]
    BY <2>2, <2>3, <2>4, CntOneFile
  <2> QED BY <2>4, <2>5 DEF CntFileCycle!Next
<1>3. CASE CntUnput(r) /\ ~UNCHANGED cntStore
  <2> DEFINE p == cntReq[r].p
  <2>1. cntStore' = cntStore \ {p} /\ UNCHANGED <<cntAtt, cntUsed>>
    BY <1>3 DEF CntUnput, CntRemaining
  <2>2. p \in cntStore /\ p \in Piece
    BY <1>0, <1>3, <2>1
  <2>3. cntStatus[p] = IF cntAtt[p] # NONE THEN "present" ELSE "filed"
    BY <1>0, <2>2 DEF cntStatus
  <2>4. cntStatus'[p] = IF cntAtt[p] # NONE THEN "bereft" ELSE "gone"
    BY <1>0, <2>1, <2>2 DEF cntStatus
  <2> HIDE DEF p
  <2>5. cntStatus' = [cntStatus EXCEPT ![p] = cntStatus'[p]]
    BY <2>1, <2>2, CntOneFile
  <2> QED BY <2>2, <2>3, <2>4, <2>5 DEF CntFileCycle!Next
<1>4. CASE CntDetach(r)
  <2> DEFINE p == cntReq[r].p
  <2>1. /\ cntAtt[p] # NONE /\ cntAtt' = [cntAtt EXCEPT ![p] = NONE]
        /\ UNCHANGED <<cntStore, cntUsed>>
    BY <1>4 DEF CntDetach
  <2>2. p \in Piece
    BY <1>0, <1>4 DEF CntDetach, CntAt, CntIInv, FilerInv
  <2> HIDE DEF p
  <2>3. cntAtt' = [g \in Piece |-> IF g \in {p} THEN NONE ELSE cntAtt[g]]
    BY <1>0, <2>1
  <2> QED BY <2>1, <2>2, <2>3, CntRowsGo
<1>5. CntUnput(r) => UNCHANGED <<cntAtt, cntUsed>>
  BY DEF CntUnput
<1> QED BY <1>u, <1>1, <1>2, <1>3, <1>4, <1>5
        DEF CntHandler, cntFiles, CntBeginCreate, CntBeginUpdate, CntSearch, CntCheck,
            CntWrite, CntBeginAttach, CntBeginDetach, CntAbort

\* Whatever overlaps, fails or crashes, an attachment gets its row with its file in
\* the store, and neither file nor row comes back once it is gone.
THEOREM CntImplementsLife == CntSpec => CntImplementsFileLifecycle
<1>1. CntInit => CntFileCycle!Init
  BY DEF CntInit, CntFileCycle!Init, cntStatus
<1>2. CntIInv /\ [CntNext]_cntVars => [CntFileCycle!Next]_cntStatus
  <2> SUFFICES ASSUME CntIInv, [CntNext]_cntVars PROVE [CntFileCycle!Next]_cntStatus
    OBVIOUS
  <2>1. CASE UNCHANGED cntVars
    BY <2>1 DEF cntVars, cntFiles, cntStatus
  <2>2. ASSUME NEW c \in ContentId, CntDelete(c) PROVE CntFileCycle!Next
    <3>1. /\ cntAtt' = [p \in Piece |-> IF p \in CntPieces(c) THEN NONE ELSE cntAtt[p]]
          /\ UNCHANGED <<cntStore, cntUsed>>
      BY <2>2 DEF CntDelete, CntPieces
    <3>2. CntPieces(c) \in SUBSET Piece /\ \A p \in CntPieces(c) : cntAtt[p] # NONE
      BY CntAssumption DEF CntPieces
    <3> QED BY <3>1, <3>2, CntRowsGo
  <2> QED BY <2>1, <2>2, CntFileStep DEF CntNext
<1> QED BY <1>1, <1>2, CntInductive, PTL DEF CntSpec, CntFileCycle!Spec, CntImplementsFileLifecycle
\* A name is never new again, a row that has lost its file does not get it back, and
\* what is gone stays gone.
CntNoReturn ==
  \A f \in Piece :
    /\ cntStatus[f] # "new" => cntStatus'[f] # "new"
    /\ cntStatus[f] \in {"bereft", "gone"} => cntStatus'[f] \in {"bereft", "gone"}
    /\ cntStatus[f] = "gone" => cntStatus'[f] = "gone"

\* What the life cycle says of the attachments (uploadAttachment, deleteAttachment): no step
\* whatsoever, of any request, brings back a file or a row, so a download that finds
\* a row without a file will find it so for ever.
THEOREM CntFilesDieOnce == CntSpec => [][CntNoReturn]_cntStatus
<1>1. ASSUME NEW f \in Piece, \/ CntFileCycle!Become(f, "new", "filed")
                                \/ CntFileCycle!Become(f, "filed", "present") \/ CntFileCycle!Lose(f)
      PROVE  CntNoReturn
  BY <1>1 DEF CntFileCycle!Become, CntFileCycle!Lose, CntNoReturn, cntStatus
<1>2. ASSUME NEW D \in SUBSET Piece, CntFileCycle!Drop(D) PROVE CntNoReturn
  BY <1>2 DEF CntFileCycle!Drop, CntNoReturn
<1>3. [CntFileCycle!Next]_cntStatus => [CntNoReturn]_cntStatus
  BY <1>1, <1>2 DEF CntFileCycle!Next, CntFileCycle!Store, CntFileCycle!Record
<1> QED BY <1>3, CntImplementsLife, PTL DEF CntImplementsFileLifecycle, CntFileCycle!Spec
=============================================================================
