--------------------------- MODULE RecordsProofs ----------------------------
(* What holds of departments, of rows of which there shall be one, of        *)
(* ordered lists, of pages, of the search index and of the dashboard's       *)
(* cache, for every number of rows, keys and requests in flight.             *)
EXTENDS Departments, Singletons, Lists, Listings, Search, DashboardCache,
        FiniteSetTheorems, TLAPS

(***************************************************************************)
(* Departments.                                                            *)
(***************************************************************************)

\* A request has its department; one that is about to be created is nobody
\* else's and was never seen before.
DepOwnInv ==
  \A r \in Request :
    /\ depReq[r].pc # "idle" => depReq[r].d \in Dept
    /\ depReq[r].pc = "create" =>
         /\ depReq[r].d \notin depLive \cup depDead
         /\ \A o \in Request : o # r => depReq[o].d # depReq[r].d

\* Only departments that exist have a parent.
DepRootInv == \A d \in Dept \ depLive : depParent[d] = NONE

\* A deletion that has looked knows the children that came since.
DepLateInv ==
  \A r \in Request : depReq[r].pc = "delete" =>
    \A c \in depLive : depParent[c] = depReq[r].d => c \in depReq[r].late

DepIInv == DepTypeOK /\ DepOwnInv /\ DepRootInv /\ DepLateInv

\* The empty slot is a well-formed request.
LEMMA DepIdleType == DepIdle \in DepReqs
  BY DEF DepIdle, DepReqs

\* No department is created, moved or deleted in a state it was not meant for.
LEMMA DepStep == DepIInv /\ [DepNext]_depVars => DepIInv'
<1> SUFFICES ASSUME DepIInv, [DepNext]_depVars PROVE DepIInv'
  OBVIOUS
<1> USE DepAssumption, DepIdleType
<1>0. DepTypeOK /\ DepOwnInv /\ DepRootInv /\ DepLateInv
  BY DEF DepIInv
<1>1. CASE UNCHANGED depVars
  BY <1>0, <1>1 DEF depVars, DepIInv, DepTypeOK, DepOwnInv, DepRootInv, DepLateInv
<1>2. ASSUME NEW r \in Request, DepBeginCreate(r) PROVE DepIInv'
  <2>1. PICK d \in Dept \ (depLive \cup depDead), p \in Dept \cup {NONE} :
          /\ \A o \in Request : depReq[o].d # d
          /\ DepGoto(r, [DepIdle EXCEPT !.pc = "create", !.d = d, !.p = p])
          /\ UNCHANGED <<depLive, depDead, depParent, empDept>>
    BY <1>2 DEF DepBeginCreate
  <2> DEFINE q == [DepIdle EXCEPT !.pc = "create", !.d = d, !.p = p]
  <2>2. q \in DepReqs /\ q.pc = "create" /\ q.d = d
    BY DEF DepIdle, DepReqs
  <2> HIDE DEF q
  <2>3. depReq' = [depReq EXCEPT ![r] = q]
    BY <2>1 DEF DepGoto, q
  <2> QED BY <1>0, <2>1, <2>2, <2>3 DEF DepIInv, DepTypeOK, DepOwnInv, DepRootInv, DepLateInv
<1>3. ASSUME NEW r \in Request, DepBeginUpdate(r) PROVE DepIInv'
  <2>1. PICK d \in depLive, p \in Dept \cup {NONE} :
          /\ DepGoto(r, [DepIdle EXCEPT !.pc = "update", !.d = d, !.p = p])
          /\ UNCHANGED <<depLive, depDead, depParent, empDept>>
    BY <1>3 DEF DepBeginUpdate
  <2> DEFINE q == [DepIdle EXCEPT !.pc = "update", !.d = d, !.p = p]
  <2>2. q \in DepReqs /\ q.pc = "update" /\ q.d = d /\ d \in Dept
    BY <1>0 DEF DepIdle, DepReqs, DepTypeOK
  <2> HIDE DEF q
  <2>3. depReq' = [depReq EXCEPT ![r] = q]
    BY <2>1 DEF DepGoto, q
  <2> QED BY <1>0, <2>1, <2>2, <2>3 DEF DepIInv, DepTypeOK, DepOwnInv, DepRootInv, DepLateInv
<1>4. ASSUME NEW r \in Request, DepPlace(r) PROVE DepIInv'
  <2> DEFINE q == depReq[r]
             L(o) == IF DepAt(o, "delete") /\ depReq[o].d = q.p /\ depParent[q.d] # q.p
                     THEN depReq[o].late \cup {q.d} ELSE depReq[o].late
  <2>1. /\ q \in DepReqs /\ q.pc \in {"create", "update"} /\ q.d \in Dept
        /\ q.pc = "update" => q.d \in depLive
        /\ q.p \in depLive \cup {NONE}
        /\ depLive' = depLive \cup {q.d} /\ q.d \notin depDead
        /\ depParent' = [depParent EXCEPT ![q.d] = q.p]
        /\ UNCHANGED <<depDead, empDept>>
    <3>1. q \in DepReqs /\ q.pc \in {"create", "update"}
      BY <1>0, <1>4 DEF DepPlace, DepTypeOK
    <3>2. /\ q.d \in Dept
          /\ q.pc = "create" => q.d \notin depDead
      BY <1>0, <3>1 DEF DepOwnInv
    <3>3. /\ q.pc = "update" => q.d \in depLive
          /\ q.p \in depLive \cup {NONE} \cup (IF q.pc = "update" THEN {q.d} ELSE {})
          /\ depLive' = depLive \cup {q.d}
          /\ depParent' = [depParent EXCEPT ![q.d] = q.p]
          /\ UNCHANGED <<depDead, empDept>>
      BY <1>4 DEF DepPlace
    <3> HIDE DEF q
    <3>4. q.d \notin depDead
      BY <1>0, <3>1, <3>2, <3>3 DEF DepTypeOK
    <3> QED BY <3>1, <3>2, <3>3, <3>4
  <2>2. /\ depReq'[r] = DepIdle
        /\ \A o \in Request \ {r} : depReq'[o] = [depReq[o] EXCEPT !.late = L(o)]
        /\ depReq' = [o \in Request |-> depReq'[o]]
    <3>1. depReq' = [o \in Request |->
                       IF o = r THEN DepIdle ELSE [depReq[o] EXCEPT !.late = L(o)]]
      BY <1>4 DEF DepPlace
    <3> HIDE DEF L
    <3> QED BY <3>1
  <2>3. ASSUME NEW o \in Request \ {r}
        PROVE  /\ depReq'[o] \in DepReqs /\ depReq'[o].pc = depReq[o].pc
               /\ depReq'[o].d = depReq[o].d /\ depReq'[o].late = L(o)
    <3>1. depReq[o] \in DepReqs /\ L(o) \in SUBSET Dept
      BY <1>0, <2>1 DEF DepTypeOK, DepReqs
    <3> HIDE DEF L
    <3> QED BY <2>2, <3>1 DEF DepReqs
  <2>4. DepTypeOK'
    <3>1. depReq' \in [Request -> DepReqs]
      <4>1. \A o \in Request : depReq'[o] \in DepReqs
        BY <2>2, <2>3
      <4> QED BY <2>2, <4>1
    <3> HIDE DEF q, L
    <3> QED BY <1>0, <2>1, <3>1 DEF DepTypeOK
  <2>5. DepOwnInv'
    <3>1. DepIdle.pc = "idle" /\ DepIdle.d = NONE
      BY DEF DepIdle
    <3>2. \A o \in Request \ {r} : depReq'[o].pc = depReq[o].pc /\ depReq'[o].d = depReq[o].d
      BY <2>3
    <3>3. ASSUME NEW o \in Request \ {r}, depReq[o].pc = "create"
          PROVE  /\ depReq[o].d \in Dept /\ depReq[o].d \notin depLive' \cup depDead'
                 /\ \A k \in Request : k # o => depReq'[k].d # depReq[o].d
      <4>1. /\ depReq[o].d \in Dept /\ depReq[o].d \notin depLive \cup depDead
            /\ \A k \in Request : k # o => depReq[k].d # depReq[o].d
        BY <1>0, <3>3 DEF DepOwnInv
      <4> QED BY <2>1, <2>2, <3>1, <3>2, <4>1
    <3> HIDE DEF q, L
    <3> QED BY <1>0, <2>2, <3>1, <3>2, <3>3 DEF DepOwnInv
  <2>6. DepRootInv'
    BY <1>0, <2>1 DEF DepRootInv, DepTypeOK
  <2>7. DepLateInv'
    <3> SUFFICES ASSUME NEW o \in Request, depReq'[o].pc = "delete",
                        NEW c \in depLive', depParent'[c] = depReq'[o].d
                 PROVE  c \in depReq'[o].late
      BY DEF DepLateInv
    <3>1. o # r
      BY <2>2 DEF DepIdle
    <3>2. depReq[o].d \in Dept /\ depReq[o].pc = "delete" /\ depReq'[o].d = depReq[o].d
      BY <1>0, <2>3, <3>1 DEF DepOwnInv
    <3>3. CASE c = q.d
      <4>1. depReq[o].d = q.p
        BY <1>0, <2>1, <3>2, <3>3 DEF DepTypeOK
      <4>2. CASE depParent[q.d] # q.p
        BY <2>3, <3>1, <3>2, <3>3, <4>1, <4>2 DEF DepAt
      <4>3. CASE depParent[q.d] = q.p
        <5>1. q.d \in depLive
          BY <1>0, <2>1, <3>2, <4>1, <4>3 DEF DepRootInv
        <5> QED BY <1>0, <2>3, <3>1, <3>2, <3>3, <4>1, <4>3, <5>1 DEF DepLateInv
      <4> QED BY <4>2, <4>3
    <3>4. CASE c # q.d
      <4>1. c \in depLive /\ depParent[c] = depReq[o].d
        BY <1>0, <2>1, <3>2, <3>4 DEF DepTypeOK
      <4> QED BY <1>0, <2>3, <3>1, <3>2, <4>1 DEF DepLateInv
    <3> QED BY <3>3, <3>4
  <2> QED BY <2>4, <2>5, <2>6, <2>7 DEF DepIInv
<1>5. ASSUME NEW r \in Request, DepBeginDelete(r) PROVE DepIInv'
  <2>1. PICK d \in depLive :
          /\ DepDeletable(d)
          /\ DepGoto(r, [DepIdle EXCEPT !.pc = "delete", !.d = d])
          /\ UNCHANGED <<depLive, depDead, depParent, empDept>>
    BY <1>5 DEF DepBeginDelete
  <2> DEFINE q == [DepIdle EXCEPT !.pc = "delete", !.d = d]
  <2>2. q \in DepReqs /\ q.pc = "delete" /\ q.d = d /\ d \in Dept
    BY <1>0 DEF DepIdle, DepReqs, DepTypeOK
  <2> HIDE DEF q
  <2>3. depReq' = [depReq EXCEPT ![r] = q]
    BY <2>1 DEF DepGoto, q
  <2>4. \A c \in depLive : depParent[c] # d
    BY <2>1 DEF DepDeletable, SubDepts
  <2> QED BY <1>0, <2>1, <2>2, <2>3, <2>4
          DEF DepIInv, DepTypeOK, DepOwnInv, DepRootInv, DepLateInv
<1>6. ASSUME NEW r \in Request, DepDelete(r) PROVE DepIInv'
  <2> DEFINE d == depReq[r].d
  <2>1. /\ d \in depLive /\ d \in Dept /\ Staff(d) = {}
        /\ depLive' = depLive \ {d} /\ depDead' = depDead \cup {d}
        /\ depReq' = [depReq EXCEPT ![r] = DepIdle]
        /\ UNCHANGED empDept
    BY <1>0, <1>6 DEF DepDelete, DepGoto, DepTypeOK
  <2>2. /\ depParent' \in [Dept -> Dept \cup {NONE}]
        /\ \A c \in Dept : depParent'[c] = IF c = d \/ depParent[c] = d THEN NONE ELSE depParent[c]
    BY <1>0, <1>6 DEF DepDelete, Cleared, DepTypeOK
  <2> HIDE DEF d
  <2>3. DepTypeOK'
    BY <1>0, <2>1, <2>2 DEF DepTypeOK, Staff
  <2>4. DepOwnInv' /\ DepRootInv'
    BY <1>0, <2>1, <2>2 DEF DepTypeOK, DepOwnInv, DepRootInv, DepIdle
  <2>5. DepLateInv'
    BY <1>0, <2>1, <2>2 DEF DepTypeOK, DepOwnInv, DepLateInv, DepIdle
  <2> QED BY <2>3, <2>4, <2>5 DEF DepIInv
<1>7. ASSUME NEW r \in Request, DepAbort(r) PROVE DepIInv'
  <2>1. depReq' = [depReq EXCEPT ![r] = DepIdle] /\ UNCHANGED <<depLive, depDead, depParent, empDept>>
    BY <1>7 DEF DepAbort, DepGoto
  <2>2. DepIdle.pc = "idle" /\ DepIdle.d = NONE
    BY DEF DepIdle
  <2> QED BY <1>0, <2>1, <2>2 DEF DepIInv, DepTypeOK, DepOwnInv, DepRootInv, DepLateInv
<1>8. ASSUME NEW e \in Employee, EmpPlace(e) \/ EmpDelete(e) PROVE DepIInv'
  BY <1>0, <1>8 DEF EmpPlace, EmpDelete, DepIInv, DepTypeOK, DepOwnInv, DepRootInv, DepLateInv
<1> QED BY <1>1, <1>2, <1>3, <1>4, <1>5, <1>6, <1>7, <1>8 DEF DepNext, DepHandler

\* The invariant of the departments holds from the empty table on.
THEOREM DepInductive == DepSpec => []DepIInv
<1>1. DepInit => DepIInv
  BY DepIdleType DEF DepInit, DepIInv, DepTypeOK, DepOwnInv, DepRootInv, DepLateInv, DepIdle
<1> QED BY <1>1, DepStep, PTL DEF DepSpec

\* However many handlers overlap, no department names a parent and no employee a
\* department that is gone (deleteDepartment, createEmployee).
THEOREM DepTypeCorrect == DepSpec => []DepTypeOK
<1>1. DepIInv => DepTypeOK
  BY DEF DepIInv
<1> QED BY <1>1, DepInductive, PTL

\* deleteDepartment loses the place of a department only when it came below the
\* deleted one after the look for children.
THEOREM DepChildrenSpared == DepSpec => DepDeletionSparesChildren
<1>1. ASSUME DepIInv, DepNext, NEW c \in depLive \cap depLive',
             depParent[c] \in depLive \ depLive'
      PROVE  \E r \in Request : DepAt(r, "delete") /\ depReq[r].d = depParent[c]
                                /\ c \in depReq[r].late
  <2>1. PICK r \in Request : DepDelete(r)
    BY <1>1 DEF DepNext, DepHandler, DepBeginCreate, DepBeginUpdate, DepPlace, DepBeginDelete,
                DepAbort, EmpPlace, EmpDelete
  <2>2. depReq[r].pc = "delete" /\ depParent[c] = depReq[r].d
    BY <1>1, <2>1 DEF DepDelete, DepAt
  <2> QED BY <1>1, <2>2 DEF DepIInv, DepLateInv, DepAt
<1>2. DepIInv /\ [DepNext]_depVars =>
        [\A c \in depLive \cap depLive' :
           depParent[c] \in depLive \ depLive' =>
             \E r \in Request : DepAt(r, "delete") /\ depReq[r].d = depParent[c]
                                /\ c \in depReq[r].late]_depVars
  BY <1>1
<1> QED BY <1>2, DepInductive, PTL DEF DepSpec, DepDeletionSparesChildren

(***************************************************************************)
(* Rows of which there shall be one.                                       *)
(***************************************************************************)

\* A creation that was not overtaken still finds no row of its sort.
LookInv ==
  \A r \in Request :
    LET q == sgReq[r] IN
    /\ q.pc # "idle" => q.sort \in Sort
    /\ q.pc = "create" /\ q.sought = q.sort /\ ~q.late => \A x \in Slot : sort[x] # q.sort

SgIInv == SgTypeOK /\ LookInv /\ DuplicatesExplained

\* The empty slot is a well-formed request.
LEMMA SgIdleType == SgIdle \in SgReqs
  BY DEF SgIdle, SgReqs

\* A request that turns into a well-formed one, and no row with it.
LEMMA SgGotoKeeps ==
  ASSUME SgIInv, NEW r \in Request, NEW q \in SgReqs, SgGoto(r, q), UNCHANGED <<sort, blame>>,
         q.pc # "idle" => q.sort \in Sort,
         q.pc = "create" /\ q.sought = q.sort => \A x \in Slot : sort[x] # q.sort
  PROVE  SgIInv'
<1>1. SgTypeOK'
  BY DEF SgIInv, SgTypeOK, SgGoto
<1>2. LookInv'
  BY DEF SgIInv, SgTypeOK, SgGoto, LookInv
<1>3. DuplicatesExplained'
  BY DEF SgIInv, DuplicatesExplained
<1> QED BY <1>1, <1>2, <1>3 DEF SgIInv

\* A row that becomes one of a sort: no look for that sort counts any more.
LEMMA BecomesKeeps ==
  ASSUME SgIInv, NEW r, NEW x \in Slot, NEW s \in Sort, NEW why \in Blames \ {NONE},
         Becomes(r, x, s, why),
         s # Administrator \/ \A y \in Slot : sort[y] # Administrator,
         why = "looked" => \A y \in Slot : sort[y] # s
  PROVE  SgIInv'
<1> USE SingleAssumption
<1>1. /\ sort \in [Slot -> Sort \cup {NONE}] /\ blame \in [Slot -> Blames]
      /\ \A y \in Slot : blame[y] = NONE <=> sort[y] = NONE
      /\ sgReq \in [Request -> SgReqs]
  BY DEF SgIInv, SgTypeOK
<1>2. sort' = [sort EXCEPT ![x] = s] /\ blame' = [blame EXCEPT ![x] = why]
  BY DEF Becomes
<1>3. /\ sgReq' = [o \in Request |-> sgReq'[o]]
      /\ \A o \in Request : \/ sgReq'[o] = SgIdle
                            \/ sgReq[o].sought = s /\ sgReq'[o] = [sgReq[o] EXCEPT !.late = TRUE]
                            \/ sgReq[o].sought # s /\ sgReq'[o] = sgReq[o]
  BY DEF Becomes
<1>4. s # NONE
  BY DEF Sort
<1>5. ASSUME NEW o \in Request, sgReq[o].sought = s, sgReq'[o] = [sgReq[o] EXCEPT !.late = TRUE]
      PROVE  /\ sgReq'[o] \in SgReqs /\ sgReq'[o].late = TRUE /\ sgReq'[o].pc = sgReq[o].pc
             /\ sgReq'[o].sort = sgReq[o].sort
  <2>1. sgReq[o] \in SgReqs
    BY <1>1
  <2> QED BY <1>5, <2>1 DEF SgReqs
<1>6. SgTypeOK'
  <2>1. \A o \in Request : sgReq'[o] \in SgReqs
    BY <1>1, <1>3, <1>5, SgIdleType
  <2>2. sgReq' \in [Request -> SgReqs]
    BY <1>3, <2>1
  <2> QED BY <1>1, <1>2, <1>4, <2>2 DEF SgTypeOK
<1>7. LookInv'
  <2> SUFFICES ASSUME NEW o \in Request
               PROVE  /\ sgReq'[o].pc # "idle" => sgReq'[o].sort \in Sort
                      /\ sgReq'[o].pc = "create" /\ sgReq'[o].sought = sgReq'[o].sort
                           /\ ~sgReq'[o].late
                         => \A y \in Slot : sort'[y] # sgReq'[o].sort
    BY DEF LookInv
  <2>1. CASE sgReq'[o] = SgIdle
    BY <2>1 DEF SgIdle
  <2>2. CASE sgReq[o].sought = s /\ sgReq'[o] = [sgReq[o] EXCEPT !.late = TRUE]
    BY <1>5, <2>2 DEF SgIInv, LookInv
  <2>3. CASE sgReq[o].sought # s /\ sgReq'[o] = sgReq[o]
    BY <1>1, <1>2, <2>3 DEF SgIInv, LookInv
  <2> QED BY <1>3, <2>1, <2>2, <2>3
<1>8. DuplicatesExplained'
  <2>1. \A y \in Slot \ {x} : sort'[y] = sort[y] /\ blame'[y] = blame[y]
    BY <1>1, <1>2
  <2>2. sort'[x] = s /\ blame'[x] = why
    BY <1>1, <1>2
  <2>3. why \in {"overtaken", "unlooked"} \/ \A y \in Slot : sort[y] # s
    BY DEF Blames
  <2>4. ASSUME NEW y \in Slot \ {x}, sort'[y] = s
        PROVE  s # Administrator /\ why \in {"overtaken", "unlooked"}
    BY <2>1, <2>3, <2>4
  <2>5. ASSUME NEW y \in Slot, NEW z \in Slot, y # z, sort'[y] = sort'[z], sort'[y] # NONE
        PROVE  /\ sort'[y] # Administrator
               /\ {blame'[y], blame'[z]} \cap {"overtaken", "unlooked"} # {}
    <3>1. CASE y = x
      BY <2>2, <2>4, <2>5, <3>1
    <3>2. CASE z = x
      BY <2>2, <2>4, <2>5, <3>2
    <3>3. CASE y # x /\ z # x
      BY <2>1, <2>5, <3>3 DEF SgIInv, DuplicatesExplained
    <3> QED BY <3>1, <3>2, <3>3
  <2> QED BY <2>5 DEF DuplicatesExplained
<1> QED BY <1>6, <1>7, <1>8 DEF SgIInv

\* No handler leaves two rows of a sort that nothing explains.
LEMMA SgStep == SgIInv /\ [SgNext]_sgVars => SgIInv'
<1> SUFFICES ASSUME SgIInv, [SgNext]_sgVars PROVE SgIInv'
  OBVIOUS
<1> USE SingleAssumption
<1>0. SgTypeOK /\ LookInv /\ DuplicatesExplained
  BY DEF SgIInv
<1>1. CASE UNCHANGED sgVars
  BY <1>1 DEF sgVars, SgIInv, SgTypeOK, LookInv, DuplicatesExplained
<1>2. ASSUME NEW r \in Request, LookToCreate(r) PROVE SgIInv'
  <2>1. PICK s \in Sort \ {Settings} :
          /\ LookIsFree(s)
          /\ SgGoto(r, [SgIdle EXCEPT !.pc = "create", !.sought = s, !.sort = s])
          /\ UNCHANGED <<sort, blame>>
    BY <1>2 DEF LookToCreate
  <2> DEFINE q == [SgIdle EXCEPT !.pc = "create", !.sought = s, !.sort = s]
  <2>2. q \in SgReqs /\ q.sort = s
    BY DEF SgIdle, SgReqs
  <2>3. \A x \in Slot : sort[x] # s
    BY <2>1 DEF LookIsFree, OfSort
  <2> HIDE DEF q
  <2>4. SgGoto(r, q)
    BY <2>1 DEF q
  <2> QED BY <2>1, <2>2, <2>3, <2>4, SgGotoKeeps
<1>3. ASSUME NEW r \in Request, LookToUpsert(r) PROVE SgIInv'
  <2>1. PICK s \in DescType \cup {Settings} :
          /\ \/ \E x \in OfSort(s) :
                  SgGoto(r, [SgIdle EXCEPT !.pc = "update", !.sought = s, !.sort = s, !.row = x])
             \/ /\ LookIsFree(s)
                /\ \E b \in IF s = Settings THEN {s} ELSE DescType :
                     SgGoto(r, [SgIdle EXCEPT !.pc = "create", !.sought = s, !.sort = b])
          /\ UNCHANGED <<sort, blame>>
    BY <1>3 DEF LookToUpsert
  <2>2. ASSUME NEW x \in OfSort(s),
               SgGoto(r, [SgIdle EXCEPT !.pc = "update", !.sought = s, !.sort = s, !.row = x])
        PROVE  SgIInv'
    <3> DEFINE q == [SgIdle EXCEPT !.pc = "update", !.sought = s, !.sort = s, !.row = x]
    <3>1. q \in SgReqs /\ q.pc = "update" /\ q.sort \in Sort
      BY DEF SgIdle, SgReqs, Sort, OfSort
    <3> HIDE DEF q
    <3>2. SgGoto(r, q)
      BY <2>2 DEF q
    <3> QED BY <2>1, <3>1, <3>2, SgGotoKeeps
  <2>3. ASSUME LookIsFree(s), NEW b \in DescType \cup {Settings},
               SgGoto(r, [SgIdle EXCEPT !.pc = "create", !.sought = s, !.sort = b])
        PROVE  SgIInv'
    <3> DEFINE q == [SgIdle EXCEPT !.pc = "create", !.sought = s, !.sort = b]
    <3>1. q \in SgReqs /\ q.sort = b /\ b \in Sort /\ q.sought = s
      BY DEF SgIdle, SgReqs, Sort
    <3>2. \A x \in Slot : sort[x] # s
      BY <2>3 DEF LookIsFree, OfSort
    <3> HIDE DEF q
    <3>3. SgGoto(r, q)
      BY <2>3 DEF q
    <3> QED BY <2>1, <3>1, <3>2, <3>3, SgGotoKeeps
  <2> QED BY <2>1, <2>2, <2>3
<1>4. ASSUME NEW r \in Request, CreateSettings(r) PROVE SgIInv'
  <2> DEFINE q == [SgIdle EXCEPT !.pc = "create", !.sort = Settings]
  <2>1. q \in SgReqs /\ q.sort = Settings /\ Settings \in Sort /\ q.sought = NONE
    BY DEF SgIdle, SgReqs, Sort
  <2> HIDE DEF q
  <2>2. SgGoto(r, q) /\ UNCHANGED <<sort, blame>>
    BY <1>4 DEF CreateSettings, q
  <2> QED BY <2>1, <2>2, SgGotoKeeps
<1>5. ASSUME NEW r \in Request, SgInsert(r) PROVE SgIInv'
  <2> DEFINE q == sgReq[r]
             why == IF q.sought # q.sort THEN "unlooked"
                    ELSE IF q.late THEN "overtaken" ELSE "looked"
  <2>1. q.pc = "create" /\ q.sort \in Sort
    BY <1>0, <1>5 DEF SgInsert, LookInv
  <2>2. q.sort = Administrator => \A y \in Slot : sort[y] # Administrator
    BY <1>5 DEF SgInsert, OfSort
  <2>3. PICK x \in Slot : Becomes(r, x, q.sort, why)
    BY <1>5 DEF SgInsert
  <2>4. why \in Blames \ {NONE}
    BY DEF Blames
  <2>5. why = "looked" => \A y \in Slot : sort[y] # q.sort
    BY <1>0, <2>1 DEF LookInv
  <2> HIDE DEF q, why
  <2> QED BY <2>1, <2>2, <2>3, <2>4, <2>5, BecomesKeeps
<1>6. ASSUME NEW r \in Request, UpdateFound(r) \/ SgAbort(r) PROVE SgIInv'
  <2>1. SgGoto(r, SgIdle) /\ UNCHANGED <<sort, blame>>
    BY <1>6 DEF UpdateFound, SgAbort
  <2>2. SgIdle.pc = "idle"
    BY DEF SgIdle
  <2> QED BY <2>1, <2>2, SgIdleType, SgGotoKeeps
<1>7. ASSUME NEW x \in Slot, Retype(x) PROVE SgIInv'
  <2>1. PICK s \in DescType \ {sort[x]} : Becomes(NONE, x, s, "unlooked")
    BY <1>7 DEF Retype
  <2>2. s \in Sort /\ s # Administrator /\ "unlooked" \in Blames \ {NONE}
    BY DEF Sort, Blames
  <2> QED BY <2>1, <2>2, BecomesKeeps
<1>8. ASSUME NEW rows \in SUBSET Slot, Remove(rows) PROVE SgIInv'
  <2>1. \A y \in Slot : \/ sort'[y] = NONE /\ blame'[y] = NONE
                        \/ sort'[y] = sort[y] /\ blame'[y] = blame[y]
    BY <1>8 DEF Remove
  <2>2. NONE \in Blames /\ NONE \notin Sort
    BY DEF Blames, Sort
  <2>3. SgTypeOK'
    BY <1>0, <1>8, <2>2 DEF SgTypeOK, Remove
  <2>4. LookInv' /\ DuplicatesExplained'
    BY <1>0, <1>8, <2>1, <2>2 DEF LookInv, DuplicatesExplained, Remove
  <2> QED BY <2>3, <2>4 DEF SgIInv
<1>9. \A s : OfSort(s) \in SUBSET Slot
  BY DEF OfSort
<1> QED BY <1>1, <1>2, <1>3, <1>4, <1>5, <1>6, <1>7, <1>8, <1>9 DEF SgNext

\* The invariant of the single rows holds from the empty tables on.
THEOREM SgInductive == SgSpec => []SgIInv
<1>1. SgInit => SgIInv
  BY SgIdleType, SingleAssumption
     DEF SgInit, SgIInv, SgTypeOK, LookInv, DuplicatesExplained, SgIdle, Blames
<1> QED BY <1>1, SgStep, PTL DEF SgSpec

\* Two descriptions of a type, or two settings, come only from a creation that
\* was overtaken after its look or that did not look for its own sort; there
\* are never two administrators.
THEOREM SgDuplicates == SgSpec => []DuplicatesExplained
<1>1. SgIInv => DuplicatesExplained
  BY DEF SgIInv
<1> QED BY <1>1, SgInductive, PTL

\* A creation under way has looked for the sort it writes, and no other creation of
\* that sort is under way with it.
CreationsApart ==
  \A r \in Request : sgReq[r].pc = "create" =>
    /\ sgReq[r].sought = sgReq[r].sort
    /\ \A o \in Request \ {r} : sgReq[o].pc = "create" => sgReq[o].sort # sgReq[r].sort

\* No update gives a description another type.
TypesStay == \A x \in Slot : ~Retype(x)

\* A look before each creation is enough (createOfficeDescription, upsert) when
\* creations of one sort do not overlap, look for what they write, and no update
\* changes a row's type: then there is one row of each sort, without a unique column.
THEOREM SgOneRowEach ==
  SgSpec /\ []CreationsApart /\ [][TypesStay]_sgVars
    => [](\A x, y \in Slot : sort[x] = sort[y] /\ sort[x] # NONE => x = y)
<1> DEFINE Clean == /\ \A x \in Slot : blame[x] \in {NONE, "looked"}
                    /\ \A r \in Request : sgReq[r].pc = "create" => ~sgReq[r].late
<1>1. SgInit => Clean
  BY DEF SgInit, SgIdle
<1>2. SgIInv /\ Clean /\ CreationsApart /\ [SgNext]_sgVars /\ [TypesStay]_sgVars
        => Clean'
  <2> SUFFICES ASSUME SgIInv, Clean, CreationsApart, [SgNext]_sgVars, [TypesStay]_sgVars
               PROVE  Clean'
    OBVIOUS
  <2>t. SgTypeOK
    BY DEF SgIInv
  <2>1. CASE UNCHANGED sgVars
    BY <2>1 DEF sgVars
  <2>2. ASSUME NEW r \in Request, SgInsert(r) PROVE Clean'
    <3> DEFINE q == sgReq[r]
    <3>1. PICK x \in Slot : Becomes(r, x, q.sort, IF q.sought # q.sort THEN "unlooked"
                                   ELSE IF q.late THEN "overtaken" ELSE "looked")
      BY <2>2 DEF SgInsert
    <3>2. q.pc = "create" /\ q.sought = q.sort /\ ~q.late
      BY <2>2 DEF SgInsert, CreationsApart
    <3>3. Becomes(r, x, q.sort, "looked")
      BY <3>1, <3>2
    <3>4. \A y \in Slot : blame'[y] \in {NONE, "looked"}
      BY <2>t, <3>3 DEF Becomes, SgTypeOK
    <3>5. ASSUME NEW o \in Request, sgReq'[o].pc = "create" PROVE ~sgReq'[o].late
      <4>1. CASE o = r
        BY <3>3, <3>5, <4>1 DEF Becomes, SgIdle
      <4>2. CASE o # r /\ sgReq[o].sought = q.sort
        <5>1. sgReq'[o] = [sgReq[o] EXCEPT !.late = TRUE]
          BY <3>3, <4>2 DEF Becomes
        <5>2. sgReq[o].pc = "create"
          BY <2>t, <3>5, <5>1 DEF SgTypeOK, SgReqs
        <5> QED BY <3>2, <4>2, <5>2 DEF CreationsApart
      <4>3. CASE o # r /\ sgReq[o].sought # q.sort
        BY <3>3, <3>5, <4>3 DEF Becomes
      <4> QED BY <4>1, <4>2, <4>3
    <3> QED BY <3>4, <3>5
  <2>3. ASSUME NEW r \in Request,
               LookToCreate(r) \/ LookToUpsert(r) \/ CreateSettings(r) \/ UpdateFound(r)
                 \/ SgAbort(r)
        PROVE  Clean'
    <3>i. /\ SgIdle.pc = "idle" /\ ~SgIdle.late
          /\ \A a, b : ~[SgIdle EXCEPT !.pc = "create", !.sought = a, !.sort = b].late
          /\ \A b : ~[SgIdle EXCEPT !.pc = "create", !.sort = b].late
          /\ \A a, b, x : [SgIdle EXCEPT !.pc = "update", !.sought = a, !.sort = b,
                                          !.row = x].pc = "update"
      BY DEF SgIdle
    <3>1. \E q : SgGoto(r, q) /\ (q.pc = "create" => ~q.late)
      <4>1. CASE LookToCreate(r)
        BY <3>i, <4>1 DEF LookToCreate
      <4>2. CASE LookToUpsert(r)
        BY <3>i, <4>2 DEF LookToUpsert
      <4>3. CASE CreateSettings(r)
        BY <3>i, <4>3 DEF CreateSettings
      <4>4. CASE UpdateFound(r) \/ SgAbort(r)
        BY <3>i, <4>4 DEF UpdateFound, SgAbort
      <4> QED BY <2>3, <4>1, <4>2, <4>3, <4>4
    <3>2. UNCHANGED blame
      BY <2>3 DEF LookToCreate, LookToUpsert, CreateSettings, UpdateFound, SgAbort
    <3> QED BY <2>t, <3>1, <3>2 DEF SgGoto, SgTypeOK
  <2>4. ASSUME NEW rows, Remove(rows) PROVE Clean'
    BY <2>4 DEF Remove
  <2> QED BY <2>1, <2>2, <2>3, <2>4 DEF SgNext, TypesStay
<1>3. SgIInv /\ Clean
        => \A x, y \in Slot : sort[x] = sort[y] /\ sort[x] # NONE => x = y
  BY DEF SgIInv, DuplicatesExplained, SgTypeOK
<1> QED BY <1>1, <1>2, <1>3, SgInductive, PTL DEF SgSpec

(***************************************************************************)
(* Ordered lists.                                                          *)
(***************************************************************************)

\* What a request has written stands, unless another wrote the row since.
WrittenInv ==
  \A r \in Request :
    LET q == listReq[r] IN
    /\ q.pc = "done" => q.todo = {}
    /\ q.pc \in {"write", "done"} =>
         \A x \in DOMAIN q.want \ (q.todo \cup q.other) : place[x] = q.want[x]

\* The rows a request has yet to write are rows it asked for.
WantInv ==
  \A r \in Request : /\ listReq[r].todo \subseteq DOMAIN listReq[r].want
                     /\ \A x \in DOMAIN listReq[r].want : listReq[r].want[x] \in Place

ListIInv == ListTypeOK /\ WantInv /\ WrittenInv

\* The empty slot is a well-formed request that asks for nothing.
LEMMA ListIdleType == ListIdle \in ListReqs /\ DOMAIN ListIdle.want = {} /\ ListIdle.todo = {}
  BY DEF ListIdle, ListReqs

\* What a request asks for places rows of the list.
LEMMA WishType ==
  ASSUME NEW w \in Wishes PROVE DOMAIN w \subseteq Row /\ \A x \in DOMAIN w : w[x] \in Place
  BY DEF Wishes

\* No request asks for a row of another list.
LEMMA AskedType == ASSUME NEW q \in ListReqs PROVE DOMAIN q.want \subseteq Row
<1>1. q.want \in Wishes \/ q.want = <<>>
  BY DEF ListReqs
<1>2. DOMAIN <<>> = {}
  OBVIOUS
<1> QED BY <1>1, <1>2, WishType

\* No step breaks what the requests of a list have written.
LEMMA ListStep == ListIInv /\ [ListNext]_listVars => ListIInv'
<1> SUFFICES ASSUME ListIInv, [ListNext]_listVars PROVE ListIInv'
  OBVIOUS
<1> USE ListsAssumption, ListIdleType
<1>0. /\ ListTypeOK /\ WantInv /\ WrittenInv
      /\ place \in [Row -> Place \cup {NONE}] /\ listReq \in [Request -> ListReqs]
  BY DEF ListIInv, ListTypeOK
<1> DEFINE Good(q) == /\ q \in ListReqs
                      /\ q.todo \subseteq DOMAIN q.want
                      /\ \A x \in DOMAIN q.want : q.want[x] \in Place
                      /\ q.pc = "done" => q.todo = {}
                      /\ q.pc \in {"write", "done"} =>
                           \A x \in DOMAIN q.want \ (q.todo \cup q.other) : place'[x] = q.want[x]
<1>1. ASSUME place' \in [Row -> Place \cup {NONE}], listKind' = listKind,
             listReq' = [o \in Request |-> listReq'[o]],
             \A o \in Request : Good(listReq'[o])
      PROVE  ListIInv'
  BY <1>0, <1>1 DEF ListIInv, ListTypeOK, WantInv, WrittenInv
<1>2. ASSUME NEW o \in Request, place' = place PROVE Good(listReq[o])
  BY <1>0, <1>2 DEF WantInv, WrittenInv
<1>3. Good(ListIdle)
  BY DEF ListIdle
<1>4. ASSUME NEW o \in Request, NEW x \in Row,
             \A y \in Row \ {x} : place'[y] = place[y]
      PROVE  Good([listReq[o] EXCEPT !.other = IF listReq[o].pc = "idle" THEN @ ELSE @ \cup {x}])
  <2> DEFINE q == listReq[o]
             more == IF q.pc = "idle" THEN q.other ELSE q.other \cup {x}
             p == [q EXCEPT !.other = more]
  <2>1. /\ q \in ListReqs /\ more \in SUBSET Row /\ DOMAIN q.want \subseteq Row
    <3>1. q \in ListReqs
      BY <1>0
    <3> QED BY <3>1, AskedType DEF ListReqs
  <2> HIDE DEF more
  <2>2. /\ p \in ListReqs /\ p.todo = q.todo /\ p.want = q.want /\ p.pc = q.pc /\ p.other = more
    BY <2>1 DEF ListReqs
  <2>3. \A y \in Row : q.pc \in {"write", "done"} /\ y \notin more => y # x /\ y \notin q.other
    BY DEF more
  <2> HIDE DEF p
  <2>4. /\ q.todo \subseteq DOMAIN q.want
        /\ \A y \in DOMAIN q.want : q.want[y] \in Place
        /\ q.pc = "done" => q.todo = {}
        /\ q.pc \in {"write", "done"} =>
             \A y \in DOMAIN q.want \ (q.todo \cup q.other) : place[y] = q.want[y]
    BY <1>0 DEF WantInv, WrittenInv
  <2> HIDE DEF q
  <2>5. Good(p)
    BY <1>4, <2>1, <2>2, <2>3, <2>4
  <2> QED BY <2>5 DEF p, more, q
<1>5. ASSUME NEW r, NEW q, NEW x \in Row, r \in Request => Good(q), ListWrote(r, q, x),
             \A y \in Row \ {x} : place'[y] = place[y]
      PROVE  /\ listReq' = [o \in Request |-> listReq'[o]]
             /\ \A o \in Request : Good(listReq'[o])
  <2> HIDE DEF Good
  <2> QED BY <1>4, <1>5 DEF ListWrote
<1>6. ASSUME NEW r \in Request, NEW q, Good(q), listReq' = [listReq EXCEPT ![r] = q],
             UNCHANGED <<listKind, place>>
      PROVE  ListIInv'
  <2> HIDE DEF Good
  <2>1. \A o \in Request : Good(listReq'[o])
    BY <1>0, <1>2, <1>6
  <2> QED BY <1>0, <1>1, <1>6, <2>1
<1>7. CASE UNCHANGED listVars
  <2> HIDE DEF Good
  <2> QED BY <1>0, <1>1, <1>2, <1>7 DEF listVars
<1>8. ASSUME NEW r \in Request, BeginReorder(r) PROVE ListIInv'
  <2>1. PICK want \in Wishes :
          /\ listReq' = [listReq EXCEPT ![r] =
               [ListIdle EXCEPT !.pc = IF listKind = "in turn" THEN "check" ELSE "write",
                                !.want = want, !.todo = DOMAIN want]]
          /\ UNCHANGED <<listKind, place>>
    BY <1>8 DEF BeginReorder
  <2> DEFINE pc == IF listKind = "in turn" THEN "check" ELSE "write"
             q == [ListIdle EXCEPT !.pc = pc, !.want = want, !.todo = DOMAIN want]
  <2>2. pc \in {"check", "write"}
    OBVIOUS
  <2> HIDE DEF pc
  <2>3. /\ q \in ListReqs /\ q.todo = DOMAIN want /\ q.want = want /\ q.pc = pc
    BY <2>2, WishType DEF ListReqs, ListIdle
  <2> HIDE DEF q
  <2>4. Good(q)
    BY <2>2, <2>3, WishType
  <2> HIDE DEF Good
  <2> QED BY <1>6, <2>1, <2>4 DEF q, pc
<1>9. ASSUME NEW r \in Request, CheckRow(r) PROVE ListIInv'
  <2> DEFINE q == listReq[r]
  <2>1. PICK x \in q.todo :
          /\ listReq' = [listReq EXCEPT ![r] =
               IF x \notin Rows THEN ListIdle
               ELSE IF q.todo \ {x} # {} THEN [q EXCEPT !.todo = q.todo \ {x}]
               ELSE [q EXCEPT !.pc = "write", !.todo = DOMAIN q.want]]
          /\ UNCHANGED <<listKind, place>>
    BY <1>9 DEF CheckRow
  <2>2. /\ q \in ListReqs /\ q.pc = "check" /\ q.todo \subseteq DOMAIN q.want
        /\ DOMAIN q.want \subseteq Row /\ \A y \in DOMAIN q.want : q.want[y] \in Place
    <3>1. q \in ListReqs /\ q.pc = "check"
      BY <1>0, <1>9 DEF CheckRow
    <3> QED BY <1>0, <3>1, AskedType DEF WantInv
  <2>3. Good([q EXCEPT !.todo = q.todo \ {x}])
    BY <2>2 DEF ListReqs
  <2>4. Good([q EXCEPT !.pc = "write", !.todo = DOMAIN q.want])
    BY <2>2 DEF ListReqs
  <2> HIDE DEF Good
  <2> QED BY <1>3, <1>6, <2>1, <2>3, <2>4
<1>10. ASSUME NEW r \in Request, WriteRow(r) PROVE ListIInv'
  <2> DEFINE q == listReq[r]
  <2>1. PICK x \in q.todo \cap Rows :
          /\ place' = [place EXCEPT ![x] = q.want[x]]
          /\ ListWrote(r, [q EXCEPT !.todo = q.todo \ {x}, !.other = q.other \ {x},
                             !.pc = IF Answered(q.todo \ {x}) THEN "done" ELSE "write"], x)
          /\ listKind' = listKind
    BY <1>10 DEF WriteRow
  <2>2. /\ q \in ListReqs /\ q.pc = "write" /\ q.todo \subseteq DOMAIN q.want
        /\ DOMAIN q.want \subseteq Row /\ \A y \in DOMAIN q.want : q.want[y] \in Place
        /\ \A y \in DOMAIN q.want \ (q.todo \cup q.other) : place[y] = q.want[y]
    <3>1. q \in ListReqs /\ q.pc = "write"
      BY <1>0, <1>10 DEF WriteRow
    <3> QED BY <1>0, <3>1, AskedType DEF WantInv, WrittenInv
  <2>3. x \in Row /\ q.want[x] \in Place
    BY <2>1, <2>2
  <2> DEFINE pc == IF Answered(q.todo \ {x}) THEN "done" ELSE "write"
             p == [q EXCEPT !.todo = q.todo \ {x}, !.other = q.other \ {x}, !.pc = pc]
  <2>4. pc \in {"done", "write"} /\ (pc = "done" => q.todo \ {x} = {})
    BY DEF Answered
  <2> HIDE DEF pc
  <2>5. /\ p \in ListReqs /\ p.todo = q.todo \ {x} /\ p.other = q.other \ {x}
        /\ p.want = q.want /\ p.pc = pc
    BY <2>2, <2>4 DEF ListReqs
  <2>6. /\ place' \in [Row -> Place \cup {NONE}] /\ place'[x] = q.want[x]
        /\ \A y \in Row \ {x} : place'[y] = place[y]
    BY <1>0, <2>1, <2>3
  <2> HIDE DEF p
  <2>7. Good(p)
    BY <2>2, <2>4, <2>5, <2>6
  <2>8. ListWrote(r, p, x)
    BY <2>1 DEF p, pc
  <2> HIDE DEF Good, q
  <2> QED BY <1>1, <1>5, <2>1, <2>3, <2>6, <2>7, <2>8
<1>11. ASSUME NEW r \in Request, RefuseRow(r) PROVE ListIInv'
  <2> DEFINE q == listReq[r]
  <2>1. PICK x \in q.todo :
          /\ listReq' = [listReq EXCEPT ![r] =
               [q EXCEPT !.pc = "failed",
                         !.todo = IF listKind = "together" THEN q.todo \ {x} ELSE {}]]
          /\ UNCHANGED <<listKind, place>>
    BY <1>11 DEF RefuseRow
  <2> DEFINE rest == IF listKind = "together" THEN q.todo \ {x} ELSE {}
  <2>2. q \in ListReqs /\ q.todo \subseteq DOMAIN q.want /\ \A y \in DOMAIN q.want : q.want[y] \in Place
    BY <1>0 DEF WantInv
  <2>3. rest \subseteq q.todo
    OBVIOUS
  <2> HIDE DEF rest
  <2>4. Good([q EXCEPT !.pc = "failed", !.todo = rest])
    BY <2>2, <2>3 DEF ListReqs
  <2> HIDE DEF Good
  <2> QED BY <1>6, <2>1, <2>4 DEF rest
<1>12. ASSUME NEW r \in Request, Straggle(r) PROVE ListIInv'
  <2> DEFINE q == listReq[r]
  <2>1. PICK x \in q.todo :
          /\ place' = [place EXCEPT ![x] = IF x \in Rows THEN q.want[x] ELSE NONE]
          /\ ListWrote(r, [q EXCEPT !.todo = q.todo \ {x}], x)
          /\ listKind' = listKind
    BY <1>12 DEF Straggle
  <2>2. /\ q \in ListReqs /\ q.pc = "failed" /\ q.todo \subseteq DOMAIN q.want
        /\ DOMAIN q.want \subseteq Row /\ \A y \in DOMAIN q.want : q.want[y] \in Place
    <3>1. q \in ListReqs /\ q.pc = "failed"
      BY <1>0, <1>12 DEF Straggle
    <3> QED BY <1>0, <3>1, AskedType DEF WantInv
  <2>3. x \in Row /\ q.want[x] \in Place
    BY <2>1, <2>2
  <2>4. Good([q EXCEPT !.todo = q.todo \ {x}])
    BY <2>2 DEF ListReqs
  <2>5. /\ place' \in [Row -> Place \cup {NONE}]
        /\ \A y \in Row \ {x} : place'[y] = place[y]
    BY <1>0, <2>1, <2>3
  <2> HIDE DEF Good, q
  <2> QED BY <1>1, <1>5, <2>1, <2>3, <2>4, <2>5
<1>13. ASSUME NEW r \in Request, EndReorder(r) PROVE ListIInv'
  <2> HIDE DEF Good
  <2> QED BY <1>3, <1>6, <1>13 DEF EndReorder
<1>14. ASSUME NEW x \in Row, EditRow(x) PROVE ListIInv'
  <2>1. PICK p \in Place \cup {NONE} :
          place' = [place EXCEPT ![x] = p] /\ ListWrote(NONE, ListIdle, x) /\ listKind' = listKind
    BY <1>14 DEF EditRow
  <2>2. /\ place' \in [Row -> Place \cup {NONE}]
        /\ \A y \in Row \ {x} : place'[y] = place[y]
    BY <1>0, <2>1
  <2> HIDE DEF Good
  <2> QED BY <1>1, <1>3, <1>5, <2>1, <2>2
<1> HIDE DEF Good
<1> QED BY <1>7, <1>8, <1>9, <1>10, <1>11, <1>12, <1>13, <1>14 DEF ListNext

\* The invariant of the lists holds from every list on.
THEOREM ListInductive == ListSpec => []ListIInv
<1>1. ListInit => ListIInv
  BY ListIdleType DEF ListInit, ListIInv, ListTypeOK, WantInv, WrittenInv, ListIdle
<1> QED BY <1>1, ListStep, PTL DEF ListSpec

\* reorder: whoever is told of success finds every row where it was asked to
\* stand, but for rows that others wrote meanwhile.
THEOREM ListAnswers == ListSpec => []OrderAsAnswered
<1>1. ListIInv => OrderAsAnswered
  BY DEF ListIInv, WrittenInv, OrderAsAnswered
<1> QED BY <1>1, ListInductive, PTL

(***************************************************************************)
(* The search index.                                                       *)
(***************************************************************************)

\* What a reindexing has got to: its rows once existed, it knows the contents that
\* have two rows, and each row of its snapshot that is still there is to come, in
\* its turn, failed, reindexed, or one of two.
SrcOwn(q) ==
  q.pc # "idle" =>
    /\ q.todo \subseteq q.snap /\ \A e \in q.snap : entryOf[e] # NONE
    /\ Twinned \subseteq q.twins
    /\ q.pc = "done" => q.todo = {}
    /\ q.pc = "update" =>
         /\ q.turn \in q.snap
         /\ q.turn \in entries => q.row = q.turn \/ entryOf[q.turn] \in q.twins
    /\ \A e \in (q.snap \cap entries) \ (q.todo \cup q.failed \cup q.fresh) :
         entryOf[e] \in q.twins \/ (q.pc = "update" /\ e = q.turn)

SrcIInv == SrcTypeOK /\ \A r \in Request : SrcOwn(srcReq[r])

\* The empty slot is a well-formed request.
LEMMA SrcIdleType == SrcIdle \in SrcReqs /\ SrcIdle.pc = "idle"
  BY DEF SrcIdle, SrcReqs

\* A request with a new record, while the table stands still.
LEMMA SrcGotoKeeps ==
  ASSUME SrcIInv, NEW r \in Request, NEW q \in SrcReqs, SrcOwn(q),
         srcReq' = [srcReq EXCEPT ![r] = q], UNCHANGED <<entryOf, entries>>
  PROVE  SrcIInv'
<1>1. srcReq' \in [Request -> SrcReqs]
  BY DEF SrcIInv, SrcTypeOK
<1>2. ASSUME NEW o \in Request PROVE SrcOwn(srcReq[o])'
  <2>1. SrcOwn(srcReq'[o])
    BY DEF SrcIInv, SrcTypeOK
  <2> QED BY <2>1 DEF SrcOwn, Twinned
<1> QED BY <1>1, <1>2 DEF SrcIInv, SrcTypeOK

\* A row that comes in is of no snapshot, and whoever is reindexing learns of it.
LEMMA CreateEntryStep ==
  ASSUME SrcIInv, NEW e \in Entry, CreateEntry(e)
  PROVE  SrcIInv'
<1> USE SearchAssumption
<1>1. PICK c \in Indexed : entryOf' = [entryOf EXCEPT ![e] = c]
  BY DEF CreateEntry
<1>2. /\ entryOf \in [Entry -> Indexed \cup {NONE}] /\ srcReq \in [Request -> SrcReqs]
      /\ entries \subseteq {x \in Entry : entryOf[x] # NONE}
      /\ entryOf[e] = NONE /\ entries' = entries \cup {e}
  BY DEF SrcIInv, SrcTypeOK, CreateEntry
<1> DEFINE more == Twinned'
<1>3. srcReq' = [o \in Request |-> IF srcReq[o].pc = "idle" THEN srcReq[o]
                                   ELSE [srcReq[o] EXCEPT !.twins = @ \cup more]]
  BY DEF CreateEntry
<1>4. /\ entryOf' \in [Entry -> Indexed \cup {NONE}] /\ entryOf'[e] = c /\ c # NONE
      /\ \A x \in Entry \ {e} : entryOf'[x] = entryOf[x]
  BY <1>1, <1>2
<1>5. more \subseteq Indexed
  BY <1>2, <1>4 DEF Twinned
<1> HIDE DEF more
<1>6. SrcTypeOK'
  <2>1. ASSUME NEW o \in Request PROVE srcReq'[o] \in SrcReqs
    <3>1. srcReq[o] \in SrcReqs
      BY <1>2
    <3> QED BY <1>3, <1>5, <3>1 DEF SrcReqs
  <2>2. srcReq' \in [Request -> SrcReqs]
    BY <1>3, <2>1
  <2>3. entries' \subseteq {x \in Entry : entryOf'[x] # NONE}
    BY <1>2, <1>4
  <2> QED BY <1>4, <2>2, <2>3 DEF SrcTypeOK
<1>7. ASSUME NEW o \in Request PROVE SrcOwn(srcReq[o])'
  <2> DEFINE p == srcReq[o]
             q == srcReq'[o]
  <2>1. CASE p.pc = "idle"
    BY <1>3, <2>1 DEF SrcOwn
  <2>2. CASE p.pc # "idle"
    <3>1. /\ q = [p EXCEPT !.twins = @ \cup more] /\ p \in SrcReqs
      BY <1>2, <1>3, <2>2
    <3>2. /\ q.pc = p.pc /\ q.snap = p.snap /\ q.todo = p.todo /\ q.turn = p.turn
          /\ q.row = p.row /\ q.failed = p.failed /\ q.fresh = p.fresh
          /\ q.twins = p.twins \cup more /\ p.snap \subseteq Entry
      BY <3>1 DEF SrcReqs
    <3>3. SrcOwn(p)
      BY DEF SrcIInv
    <3> HIDE DEF p, q
    <3>4. e \notin p.snap
      BY <1>2, <2>2, <3>3 DEF SrcOwn
    <3>5. \A x \in p.snap : entryOf'[x] = entryOf[x] /\ (x \in entries' <=> x \in entries)
      BY <1>2, <1>4, <3>2, <3>4
    <3>6. Twinned' \subseteq q.twins
      BY <3>2 DEF more
    <3>7. /\ q.todo \subseteq q.snap /\ \A x \in q.snap : entryOf'[x] # NONE
          /\ q.pc = "done" => q.todo = {}
      BY <2>2, <3>2, <3>3, <3>5 DEF SrcOwn
    <3>8. q.pc = "update" =>
            /\ q.turn \in q.snap
            /\ q.turn \in entries' => q.row = q.turn \/ entryOf'[q.turn] \in q.twins
      BY <2>2, <3>2, <3>3, <3>5 DEF SrcOwn
    <3>9. \A x \in (q.snap \cap entries') \ (q.todo \cup q.failed \cup q.fresh) :
            entryOf'[x] \in q.twins \/ (q.pc = "update" /\ x = q.turn)
      BY <2>2, <3>2, <3>3, <3>5 DEF SrcOwn
    <3> QED BY <3>6, <3>7, <3>8, <3>9 DEF SrcOwn, q
  <2> QED BY <2>1, <2>2
<1> QED BY <1>6, <1>7 DEF SrcIInv

\* A row that goes takes nothing that is asked of the others.
LEMMA DeleteEntryStep ==
  ASSUME SrcIInv, NEW e \in Entry, DeleteEntry(e)
  PROVE  SrcIInv'
<1>1. entries' = entries \ {e} /\ entryOf' = entryOf /\ srcReq' = srcReq
  BY DEF DeleteEntry
<1>2. Twinned' \subseteq Twinned
  BY <1>1 DEF Twinned
<1>3. ASSUME NEW o \in Request PROVE SrcOwn(srcReq[o])'
  <2>1. SrcOwn(srcReq[o])
    BY DEF SrcIInv
  <2> DEFINE q == srcReq[o]
  <2>2. q' = q
    BY <1>1
  <2> HIDE DEF q
  <2>3. SrcOwn(q)'
    <3>1. SrcOwn(q)
      BY <2>1 DEF q
    <3> QED BY <1>1, <1>2, <2>2, <3>1 DEF SrcOwn
  <2> QED BY <2>3 DEF q
<1> QED BY <1>1, <1>3 DEF SrcIInv, SrcTypeOK

\* The row found for another one of its content is one of two.
LEMMA FindEntryStep ==
  ASSUME SrcIInv, NEW r \in Request, FindEntry(r)
  PROVE  SrcIInv'
<1> DEFINE q == srcReq[r]
<1>1. /\ q.pc = "next" /\ UNCHANGED <<entryOf, entries>> /\ q \in SrcReqs /\ SrcOwn(q)
      /\ srcReq \in [Request -> SrcReqs] /\ entries \subseteq Entry
  BY DEF FindEntry, SrcIInv, SrcTypeOK
<1>2. PICK e \in q.todo :
        \/ \E x \in Found(entryOf[e]) :
             srcReq' = [srcReq EXCEPT ![r] =
               [q EXCEPT !.pc = "update", !.todo = @ \ {e}, !.turn = e, !.row = x]]
        \/ /\ Found(entryOf[e]) = {}
           /\ srcReq' = [srcReq EXCEPT ![r] =
                [q EXCEPT !.todo = @ \ {e}, !.failed = @ \cup {e}]]
  BY DEF FindEntry
<1> HIDE DEF q
<1>3. /\ e \in q.snap /\ e \in Entry /\ Twinned \subseteq q.twins
  BY <1>1, <1>2 DEF SrcOwn, SrcReqs
<1>4. ASSUME NEW x \in Found(entryOf[e]),
             srcReq' = [srcReq EXCEPT ![r] =
               [q EXCEPT !.pc = "update", !.todo = @ \ {e}, !.turn = e, !.row = x]]
      PROVE  SrcIInv'
  <2> DEFINE p == [q EXCEPT !.pc = "update", !.todo = @ \ {e}, !.turn = e, !.row = x]
  <2>1. /\ x \in entries /\ entryOf[x] = entryOf[e]
    BY DEF Found
  <2>2. /\ p \in SrcReqs /\ p.pc = "update" /\ p.todo = q.todo \ {e} /\ p.turn = e /\ p.row = x
        /\ p.snap = q.snap /\ p.failed = q.failed /\ p.fresh = q.fresh /\ p.twins = q.twins
    BY <1>1, <1>3, <2>1 DEF SrcReqs
  <2>3. srcReq' = [srcReq EXCEPT ![r] = p]
    BY <1>4
  <2> HIDE DEF p
  <2>4. e \in entries => x = e \/ entryOf[e] \in q.twins
    <3>1. e \in entries /\ x # e => entryOf[e] \in Twinned
      BY <2>1 DEF Twinned
    <3> QED BY <1>3, <3>1
  <2>5. SrcOwn(p)
    BY <1>1, <1>3, <2>2, <2>4 DEF SrcOwn
  <2> QED BY <1>1, <2>2, <2>3, <2>5, SrcGotoKeeps
<1>5. ASSUME Found(entryOf[e]) = {},
             srcReq' = [srcReq EXCEPT ![r] = [q EXCEPT !.todo = @ \ {e}, !.failed = @ \cup {e}]]
      PROVE  SrcIInv'
  <2> DEFINE p == [q EXCEPT !.todo = @ \ {e}, !.failed = @ \cup {e}]
  <2>1. /\ p \in SrcReqs /\ p.pc = "next" /\ p.todo = q.todo \ {e}
        /\ p.failed = q.failed \cup {e}
        /\ p.snap = q.snap /\ p.fresh = q.fresh /\ p.twins = q.twins
    BY <1>1, <1>3 DEF SrcReqs
  <2>2. srcReq' = [srcReq EXCEPT ![r] = p]
    BY <1>5
  <2> HIDE DEF p
  <2>3. SrcOwn(p)
    BY <1>1, <1>3, <2>1 DEF SrcOwn
  <2> QED BY <1>1, <2>1, <2>2, <2>3, SrcGotoKeeps
<1> QED BY <1>2, <1>4, <1>5

\* The row found is stamped for everyone, or its turn has failed.
LEMMA UpdateEntryStep ==
  ASSUME SrcIInv, NEW r \in Request, UpdateEntry(r)
  PROVE  SrcIInv'
<1> DEFINE q == srcReq[r]
           done == [q EXCEPT !.pc = "next", !.turn = NONE, !.row = NONE]
<1>1. /\ q.pc = "update" /\ UNCHANGED <<entryOf, entries>> /\ q \in SrcReqs /\ SrcOwn(q)
      /\ srcReq \in [Request -> SrcReqs] /\ entries \subseteq Entry
  BY DEF UpdateEntry, SrcIInv, SrcTypeOK
<1>2. /\ done \in SrcReqs /\ done.pc = "next" /\ done.todo = q.todo /\ done.snap = q.snap
      /\ done.failed = q.failed /\ done.fresh = q.fresh /\ done.twins = q.twins
  BY <1>1 DEF SrcReqs
<1>3. /\ q.turn \in q.snap /\ q.turn \in Entry
      /\ q.turn \in entries => q.row = q.turn \/ entryOf[q.turn] \in q.twins
  BY <1>1 DEF SrcOwn, SrcReqs
<1>4. CASE q.row \notin entries
  <2> DEFINE p == [done EXCEPT !.failed = @ \cup {q.turn}]
  <2>1. srcReq' = [srcReq EXCEPT ![r] = p]
    BY <1>4 DEF UpdateEntry
  <2> HIDE DEF done, q
  <2>2. /\ p \in SrcReqs /\ p.pc = "next" /\ p.todo = q.todo /\ p.snap = q.snap
        /\ p.failed = q.failed \cup {q.turn} /\ p.fresh = q.fresh /\ p.twins = q.twins
    BY <1>2, <1>3 DEF SrcReqs
  <2> HIDE DEF p
  <2>3. SrcOwn(p)
    BY <1>1, <2>2 DEF SrcOwn
  <2> QED BY <1>1, <2>1, <2>2, <2>3, SrcGotoKeeps
<1>5. CASE q.row \in entries
  <2> DEFINE x == q.row
             was(o) == IF o = r THEN done ELSE srcReq[o]
  <2>1. srcReq' = [o \in Request |-> [was(o) EXCEPT !.fresh =
                      IF srcReq[o].pc = "idle" THEN @ ELSE @ \cup {x}]]
    BY <1>5 DEF UpdateEntry
  <2>2. x \in Entry
    BY <1>1, <1>5
  <2> HIDE DEF x
  <2>3. ASSUME NEW o \in Request
        PROVE  srcReq'[o] \in SrcReqs /\ SrcOwn(srcReq'[o])
    <3> DEFINE w == was(o)
               n == srcReq'[o]
    <3>1. w \in SrcReqs
      BY <1>1, <1>2
    <3>2. n = [w EXCEPT !.fresh = IF srcReq[o].pc = "idle" THEN @ ELSE @ \cup {x}]
      BY <2>1
    <3>3. /\ o # r => w = srcReq[o] /\ SrcOwn(w)
          /\ o = r => w = done /\ srcReq[o].pc # "idle"
      BY <1>1 DEF SrcIInv
    <3> HIDE DEF w, n
    <3>4. /\ n \in SrcReqs /\ n.pc = w.pc /\ n.todo = w.todo /\ n.snap = w.snap
          /\ n.turn = w.turn /\ n.row = w.row /\ n.failed = w.failed /\ n.twins = w.twins
          /\ w.fresh \subseteq n.fresh /\ (srcReq[o].pc # "idle" => x \in n.fresh)
      BY <2>2, <3>1, <3>2 DEF SrcReqs
    <3>5. CASE o # r
      BY <3>3, <3>4, <3>5 DEF SrcOwn, n
    <3>6. CASE o = r
      <4>1. /\ n.pc = "next" /\ n.todo = q.todo /\ n.snap = q.snap /\ n.failed = q.failed
            /\ n.twins = q.twins /\ q.fresh \subseteq n.fresh /\ q.row \in n.fresh
        BY <1>2, <3>3, <3>4, <3>6 DEF x
      <4> HIDE DEF q, done
      <4>2. SrcOwn(n)
        BY <1>1, <1>3, <4>1 DEF SrcOwn
      <4> QED BY <3>4, <4>2 DEF n
    <3> QED BY <3>5, <3>6
  <2>4. srcReq' \in [Request -> SrcReqs]
    BY <2>1, <2>3
  <2>5. \A o \in Request : SrcOwn(srcReq[o])'
    BY <1>1, <2>3 DEF SrcOwn, Twinned
  <2> QED BY <1>1, <2>4, <2>5 DEF SrcIInv, SrcTypeOK
<1> QED BY <1>4, <1>5

\* The invariant of the search index holds from the empty table on.
THEOREM SrcInductive == SrcSpec => []SrcIInv
<1> USE SrcIdleType
<1>1. SrcInit => SrcIInv
  BY DEF SrcInit, SrcIInv, SrcTypeOK, SrcOwn
<1>2. SrcIInv /\ [SrcNext]_srcVars => SrcIInv'
  <2> SUFFICES ASSUME SrcIInv, [SrcNext]_srcVars PROVE SrcIInv'
    OBVIOUS
  <2>1. CASE UNCHANGED srcVars
    BY <2>1 DEF srcVars, SrcIInv, SrcTypeOK, SrcOwn, Twinned
  <2>2. ASSUME NEW r \in Request, BeginReindex(r) PROVE SrcIInv'
    <3>1. PICK rows \in {entries} \cup {{e} : e \in entries} :
            srcReq' = [srcReq EXCEPT ![r] = [SrcIdle EXCEPT !.pc = "next", !.snap = rows,
                                               !.todo = rows, !.twins = Twinned]]
      BY <2>2 DEF BeginReindex
    <3> DEFINE q == [SrcIdle EXCEPT !.pc = "next", !.snap = rows, !.todo = rows, !.twins = Twinned]
    <3>2. /\ rows \subseteq entries /\ entries \subseteq Entry /\ Twinned \subseteq Indexed
          /\ \A e \in entries : entryOf[e] # NONE
      BY <3>1 DEF SrcIInv, SrcTypeOK, Twinned
    <3>3. /\ q \in SrcReqs /\ q.pc = "next" /\ q.snap = rows /\ q.todo = rows
          /\ q.twins = Twinned
      BY <3>2 DEF SrcIdle, SrcReqs
    <3> HIDE DEF q
    <3>4. SrcOwn(q)
      BY <3>2, <3>3 DEF SrcOwn
    <3> QED BY <2>2, <3>1, <3>3, <3>4, SrcGotoKeeps DEF BeginReindex, q
  <2>3. ASSUME NEW r \in Request, AnswerReindex(r) PROVE SrcIInv'
    <3> DEFINE q == [srcReq[r] EXCEPT !.pc = "done"]
    <3>1. /\ srcReq[r].pc = "next" /\ srcReq[r].todo = {} /\ srcReq[r] \in SrcReqs
          /\ SrcOwn(srcReq[r]) /\ srcReq' = [srcReq EXCEPT ![r] = q]
          /\ UNCHANGED <<entryOf, entries>>
      BY <2>3 DEF AnswerReindex, SrcIInv, SrcTypeOK
    <3>2. /\ q \in SrcReqs /\ q.pc = "done" /\ q.snap = srcReq[r].snap /\ q.todo = {}
          /\ q.failed = srcReq[r].failed /\ q.fresh = srcReq[r].fresh
          /\ q.twins = srcReq[r].twins
      BY <3>1 DEF SrcReqs
    <3> HIDE DEF q
    <3>3. SrcOwn(q)
      BY <3>1, <3>2 DEF SrcOwn
    <3> QED BY <3>1, <3>2, <3>3, SrcGotoKeeps
  <2>4. ASSUME NEW r \in Request, SrcEnd(r) PROVE SrcIInv'
    <3>1. SrcOwn(SrcIdle)
      BY DEF SrcOwn
    <3> QED BY <2>4, <3>1, SrcGotoKeeps DEF SrcEnd
  <2> QED BY <2>1, <2>2, <2>3, <2>4, CreateEntryStep, DeleteEntryStep, FindEntryStep,
             UpdateEntryStep DEF SrcNext
<1> QED BY <1>1, <1>2, PTL DEF SrcSpec

\* bulkReindex reports as failed every row of its snapshot that it has not
\* reindexed, unless the row is gone or its content had two.
THEOREM SrcSuccess == SrcSpec => []SuccessMeansReindexed
<1>1. SrcIInv => SuccessMeansReindexed
  BY DEF SrcIInv, SrcOwn, SuccessMeansReindexed
<1> QED BY <1>1, SrcInductive, PTL

(***************************************************************************)
(* The dashboard's cache.                                                  *)
(***************************************************************************)

\* Nothing in the cache was stored later than now, and any part of it has an item
\* that is as old as any other.
AgeInv ==
  /\ \A k \in Cached : cache[k].at <= now
  /\ \A S \in SUBSET Cached : S # {} => \E m \in S : \A o \in S : cache[m].at <= cache[o].at

\* A computation that has read the database before the last refresh knows it.
ReadInv ==
  \A r \in Request :
    dashReq[r].pc = "store" => dashReq[r].seen >= floor \/ dashReq[r].overtaken

DashIInv == DashTypeOK /\ RefreshHolds /\ AgeInv /\ ReadInv /\ IsFiniteSet(Cached)

\* The empty slot is a well-formed computation.
LEMMA DashIdleType == DashIdle \in DashReqs /\ DashIdle.pc = "idle"
  BY DashAssumption DEF DashIdle, DashReqs

\* A cache that only loses items.
LEMMA DropKeeps ==
  ASSUME DashIInv, NEW K, cache' = Dropped(K), now' = now, floor' = floor, written' = written
  PROVE  /\ cache' \in [Key -> CacheItem \cup {NONE}]
         /\ RefreshHolds' /\ AgeInv' /\ IsFiniteSet(Cached') /\ Cached' \subseteq Cached
<1>1. /\ cache \in [Key -> CacheItem \cup {NONE}] /\ cache' \in [Key -> CacheItem \cup {NONE}]
      /\ \A k \in Key : cache'[k] = IF k \in K THEN NONE ELSE cache[k]
  BY DEF DashIInv, DashTypeOK, Dropped
<1>2. Cached' \subseteq Cached /\ \A k \in Cached' : cache'[k] = cache[k]
  BY <1>1 DEF Cached
<1>3. RefreshHolds'
  BY <1>2 DEF DashIInv, RefreshHolds
<1>4. AgeInv'
  <2>1. \A k \in Cached' : cache'[k].at <= now'
    BY <1>2 DEF DashIInv, AgeInv
  <2>2. ASSUME NEW S \in SUBSET Cached', S # {}
        PROVE  \E m \in S : \A o \in S : cache'[m].at <= cache'[o].at
    <3>1. PICK m \in S : \A o \in S : cache[m].at <= cache[o].at
      BY <1>2, <2>2 DEF DashIInv, AgeInv
    <3> QED BY <1>2, <3>1
  <2> QED BY <2>1, <2>2 DEF AgeInv
<1>5. IsFiniteSet(Cached')
  BY <1>2, FS_Subset DEF DashIInv
<1> QED BY <1>1, <1>2, <1>3, <1>4, <1>5

\* A cache that is given an item.
LEMMA PutKeeps ==
  ASSUME DashIInv, NEW keys \in SUBSET Cached, NEW k \in Key, NEW item \in CacheItem,
         Cached \ {k} \subseteq keys, item.at = now, item.seen >= floor \/ item.overtaken,
         Put(keys, k, item), now' = now, floor' = floor, written' = written
  PROVE  /\ cache' \in [Key -> CacheItem \cup {NONE}]
         /\ RefreshHolds' /\ AgeInv' /\ IsFiniteSet(Cached')
         /\ Cardinality(Cached') > MaxSize /\ Cardinality(Cached') > Cardinality(Cached)
              => \A o \in Cached : cache[o].at = now
<1> USE DashAssumption
<1>0. /\ cache \in [Key -> CacheItem \cup {NONE}] /\ now \in 0..MaxTime /\ now \in Nat
      /\ IsFiniteSet(Cached) /\ Cached \subseteq Key
  BY DEF DashIInv, DashTypeOK, Cached
<1>1. PICK gone \in IF IsFull(keys) /\ Evictable(keys) # {} THEN {{e} : e \in Evictable(keys)}
                    ELSE {{}} :
        cache' = [Dropped(gone) EXCEPT ![k] = item]
  BY DEF Put
<1>2. /\ cache' \in [Key -> CacheItem \cup {NONE}] /\ cache'[k] = item
      /\ \A o \in Key \ {k} : cache'[o] = IF o \in gone THEN NONE ELSE cache[o]
  BY <1>0, <1>1 DEF Dropped
<1>3. /\ Cached' \subseteq (Cached \ gone) \cup {k}
      /\ \A o \in Cached' \ {k} : o \in Cached /\ cache'[o] = cache[o]
  BY <1>2 DEF Cached
<1>4. IsFiniteSet(Cached')
  <2>1. IsFiniteSet(Cached \cup {k})
    BY <1>0, FS_AddElement
  <2> QED BY <1>3, <2>1, FS_Subset
<1>5. RefreshHolds'
  <2>1. ASSUME NEW o \in Cached', cache'[o].seen < floor PROVE cache'[o].overtaken
    <3>1. CASE o = k
      <4>1. item.seen \in Nat /\ floor \in Nat
        BY DEF CacheItem, DashIInv, DashTypeOK
      <4> QED BY <1>2, <2>1, <3>1, <4>1
    <3>2. CASE o # k
      BY <1>3, <2>1, <3>2 DEF DashIInv, RefreshHolds
    <3> QED BY <3>1, <3>2
  <2> QED BY <2>1 DEF RefreshHolds
<1>6. \A o \in Cached' : cache'[o].at <= now
  BY <1>0, <1>2, <1>3 DEF DashIInv, AgeInv
<1>7. AgeInv'
  <2>1. ASSUME NEW S \in SUBSET Cached', S # {}
        PROVE  \E m \in S : \A o \in S : cache'[m].at <= cache'[o].at
    <3>1. CASE S \subseteq {k}
      <4>1. S = {k}
        BY <2>1, <3>1
      <4> QED BY <1>0, <1>2, <4>1
    <3>2. CASE ~(S \subseteq {k})
      <4>1. S \ {k} \in SUBSET Cached /\ S \ {k} # {}
        BY <1>3, <3>2
      <4>2. PICK m \in S \ {k} : \A o \in S \ {k} : cache[m].at <= cache[o].at
        BY <4>1 DEF DashIInv, AgeInv
      <4>3. cache'[m].at <= now
        BY <1>6, <4>2
      <4>4. ASSUME NEW o \in S PROVE cache'[m].at <= cache'[o].at
        <5>1. CASE o = k
          BY <1>2, <4>3, <5>1
        <5>2. CASE o # k
          BY <1>3, <4>2, <5>2
        <5> QED BY <5>1, <5>2
      <4> QED BY <4>2, <4>4
    <3> QED BY <3>1, <3>2
  <2> QED BY <1>6, <2>1 DEF AgeInv
<1>8. ASSUME Cardinality(Cached') > MaxSize, Cardinality(Cached') > Cardinality(Cached)
      PROVE  \A o \in Cached : cache[o].at = now
  <2>1. /\ Cardinality(Cached) \in Nat /\ Cardinality(Cached') \in Nat
        /\ ~(Cached' \subseteq Cached)
    BY <1>0, <1>4, <1>8, FS_CardinalityType, FS_Subset
  <2>2. k \notin Cached /\ k \notin gone
    <3>1. k \notin Cached
      BY <1>3, <2>1
    <3>2. gone \subseteq Cached
      BY DEF Evictable
    <3> QED BY <3>1, <3>2
  <2>3. keys = Cached
    BY <2>2
  <2>4. gone = {}
    <3> SUFFICES ASSUME gone # {} PROVE FALSE
      OBVIOUS
    <3>1. PICK e \in Evictable(keys) : gone = {e}
      OBVIOUS
    <3>2. e \in Cached
      BY DEF Evictable
    <3>3. /\ IsFiniteSet(Cached \ {e}) /\ Cardinality(Cached \ {e}) = Cardinality(Cached) - 1
      BY <1>0, <3>2, FS_RemoveElement
    <3>4. /\ IsFiniteSet((Cached \ {e}) \cup {k})
          /\ Cardinality((Cached \ {e}) \cup {k}) = Cardinality(Cached)
      <4> DEFINE S == Cached \ {e}
      <4>1. k \notin S /\ IsFiniteSet(S) /\ Cardinality(S) = Cardinality(Cached) - 1
        BY <2>2, <3>3
      <4> HIDE DEF S
      <4>2. IsFiniteSet(S \cup {k}) /\ Cardinality(S \cup {k}) = Cardinality(S) + 1
        BY <4>1, FS_AddElement
      <4>3. IsFiniteSet(S \cup {k}) /\ Cardinality(S \cup {k}) = Cardinality(Cached)
        BY <2>1, <4>1, <4>2
      <4> QED BY <4>3 DEF S
    <3>5. Cardinality(Cached') <= Cardinality(Cached)
      BY <1>3, <3>1, <3>4, FS_Subset
    <3> QED BY <1>8, <2>1, <3>5
  <2>5. Cardinality(Cached') <= Cardinality(Cached) + 1
    <3>1. /\ IsFiniteSet(Cached \cup {k})
          /\ Cardinality(Cached \cup {k}) = Cardinality(Cached) + 1
      BY <1>0, <2>2, FS_AddElement
    <3> QED BY <1>3, <3>1, FS_Subset
  <2>6. IsFull(Cached)
    BY <1>8, <2>1, <2>5 DEF IsFull
  <2>7. Evictable(Cached) = {}
    BY <1>1, <2>3, <2>4, <2>6
  <2>8. ASSUME NEW o \in Cached, cache[o].at # now PROVE FALSE
    <3>1. PICK m \in Cached : \A c \in Cached : cache[m].at <= cache[c].at
      BY DEF DashIInv, AgeInv
    <3>2. /\ cache[o] \in CacheItem /\ cache[m] \in CacheItem
          /\ cache[o].at <= now /\ cache[m].at <= cache[o].at
      BY <1>0, <3>1 DEF Cached, DashIInv, AgeInv
    <3>3. cache[m].at < now
      BY <1>0, <2>8, <3>2 DEF CacheItem
    <3> QED BY <2>7, <3>1, <3>3 DEF Evictable
  <2> QED BY <2>8
<1> QED BY <1>2, <1>4, <1>5, <1>7, <1>8

\* What computations that were not invalidated carry over.
LEMMA ReadKeeps ==
  ASSUME DashIInv, NEW r \in Request, NEW q \in DashReqs,
         dashReq' = [dashReq EXCEPT ![r] = q], floor' = floor,
         q.pc # "idle" => q.key \in Query \cup Widget,
         q.pc = "store" => q.seen >= floor \/ q.overtaken
  PROVE  /\ dashReq' \in [Request -> DashReqs] /\ ReadInv'
         /\ \A o \in Request : dashReq'[o].pc # "idle" => dashReq'[o].key \in Query \cup Widget
<1>1. dashReq'[r] = q /\ \A o \in Request \ {r} : dashReq'[o] = dashReq[o]
  BY DEF DashIInv, DashTypeOK
<1>2. dashReq' \in [Request -> DashReqs]
  BY DEF DashIInv, DashTypeOK
<1>3. ReadInv'
  BY <1>1 DEF DashIInv, ReadInv
<1>4. \A o \in Request : dashReq'[o].pc # "idle" => dashReq'[o].key \in Query \cup Widget
  BY <1>1 DEF DashIInv, DashTypeOK
<1> QED BY <1>2, <1>3, <1>4

\* The result of a computation is stored.
LEMMA CacheStoreStep ==
  ASSUME DashIInv, NEW r \in Request, StoreResult(r)
  PROVE  /\ DashIInv'
         /\ Cardinality(Cached') > MaxSize /\ Cardinality(Cached') > Cardinality(Cached)
              => \A o \in Cached : cache[o].at = now
<1> DEFINE q == dashReq[r]
           item == Item(q.seen, q.overtaken)
<1>1. /\ q.pc = "store" /\ Put(Cached, q.key, item) /\ dashReq' = [dashReq EXCEPT ![r] = DashIdle]
      /\ now' = now /\ written' = written /\ floor' = floor
      /\ q \in DashReqs /\ q.key \in Key /\ (q.seen >= floor \/ q.overtaken)
      /\ now \in 0..MaxTime /\ written \in 0..MaxWrites /\ floor \in 0..written
  BY DEF StoreResult, DashIInv, DashTypeOK, ReadInv, Key
<1>2. /\ item \in CacheItem /\ item.at = now /\ item.seen = q.seen
      /\ item.overtaken = q.overtaken
  BY <1>1 DEF Item, CacheItem, DashReqs
<1> HIDE DEF q, item
<1>3. /\ cache' \in [Key -> CacheItem \cup {NONE}] /\ RefreshHolds' /\ AgeInv'
      /\ IsFiniteSet(Cached')
      /\ Cardinality(Cached') > MaxSize /\ Cardinality(Cached') > Cardinality(Cached)
           => \A o \in Cached : cache[o].at = now
  BY <1>1, <1>2, PutKeeps
<1>4. /\ dashReq' \in [Request -> DashReqs] /\ ReadInv'
      /\ \A o \in Request : dashReq'[o].pc # "idle" => dashReq'[o].key \in Query \cup Widget
  BY <1>1, DashIdleType, ReadKeeps
<1> QED BY <1>1, <1>3, <1>4 DEF DashIInv, DashTypeOK

\* What is computed without an await is stored at once.
LEMMA StoreNowStep ==
  ASSUME DashIInv, NEW k \in Key,
         StoreConfig(k) \/ StoreExport(k)
  PROVE  /\ DashIInv'
         /\ Cardinality(Cached') > MaxSize /\ Cardinality(Cached') > Cardinality(Cached)
              => \A o \in Cached : cache[o].at = now
<1> DEFINE item == Item(written, FALSE)
<1>1. PICK keys \in {Cached, {o \in Cached : o # k \/ Hit(k)}} : Put(keys, k, item)
  BY DEF StoreConfig, StoreExport
<1>2. /\ now' = now /\ written' = written /\ floor' = floor /\ dashReq' = dashReq
      /\ keys \in SUBSET Cached /\ Cached \ {k} \subseteq keys
      /\ now \in 0..MaxTime /\ written \in 0..MaxWrites /\ floor \in 0..written
  BY <1>1 DEF StoreConfig, StoreExport, DashIInv, DashTypeOK
<1>3. /\ item \in CacheItem /\ item.at = now /\ item.seen >= floor
  BY <1>2, DashAssumption DEF Item, CacheItem
<1> HIDE DEF item
<1>4. /\ cache' \in [Key -> CacheItem \cup {NONE}] /\ RefreshHolds' /\ AgeInv'
      /\ IsFiniteSet(Cached')
      /\ Cardinality(Cached') > MaxSize /\ Cardinality(Cached') > Cardinality(Cached)
           => \A o \in Cached : cache[o].at = now
  BY <1>1, <1>2, <1>3, PutKeeps
<1> QED BY <1>2, <1>4 DEF DashIInv, DashTypeOK, ReadInv

\* The cache is emptied, and every computation that has read the database knows.
LEMMA InvalidateStep ==
  ASSUME DashIInv, NEW except, Invalidate(except),
         \A r \in Request \cap DOMAIN except :
           except[r] \in DashReqs /\ except[r].pc = "read" /\ except[r].key \in Query \cup Widget
  PROVE  DashIInv' /\ Cached' \subseteq Cached
<1>1. /\ now' = now /\ written' = written /\ floor' = written
      /\ dashReq \in [Request -> DashReqs] /\ floor \in 0..written /\ written \in 0..MaxWrites
  BY DEF Invalidate, DashIInv, DashTypeOK
<1>2. cache' = [k \in Key |-> NONE]
  BY DEF Invalidate, DropCategory, Dropped
<1>3. Cached' = {} /\ IsFiniteSet(Cached') /\ RefreshHolds' /\ AgeInv'
  <2>1. Cached' = {}
    BY <1>2 DEF Cached
  <2> QED BY <2>1, FS_EmptySet DEF RefreshHolds, AgeInv
<1>4. ASSUME NEW r \in Request
      PROVE  /\ dashReq'[r] \in DashReqs
             /\ dashReq'[r].pc # "idle" => dashReq'[r].key \in Query \cup Widget
             /\ dashReq'[r].pc = "store" => dashReq'[r].overtaken
  <2> DEFINE q == dashReq[r]
  <2>1. dashReq'[r] = IF r \in DOMAIN except THEN except[r]
                      ELSE IF q.pc = "store" THEN [q EXCEPT !.overtaken = TRUE] ELSE q
    BY DEF Invalidate
  <2>2. q \in DashReqs /\ (q.pc # "idle" => q.key \in Query \cup Widget)
    BY <1>1 DEF DashIInv, DashTypeOK
  <2> HIDE DEF q
  <2>3. CASE r \in DOMAIN except
    BY <2>1, <2>3
  <2>4. CASE r \notin DOMAIN except /\ q.pc = "store"
    BY <2>1, <2>2, <2>4 DEF DashReqs
  <2>5. CASE r \notin DOMAIN except /\ q.pc # "store"
    BY <2>1, <2>2, <2>5
  <2> QED BY <2>3, <2>4, <2>5
<1>5. dashReq' \in [Request -> DashReqs]
  BY <1>4 DEF Invalidate
<1>6. ReadInv'
  BY <1>4 DEF ReadInv
<1>7. DashTypeOK'
  <2>1. /\ cache' \in [Key -> CacheItem \cup {NONE}] /\ now' \in 0..MaxTime
        /\ written' \in 0..MaxWrites
    BY <1>1, <1>2 DEF DashIInv, DashTypeOK
  <2>2. floor' \in 0..written'
    BY <1>1, DashAssumption
  <2> QED BY <1>4, <1>5, <2>1, <2>2 DEF DashTypeOK
<1> QED BY <1>3, <1>6, <1>7 DEF DashIInv

\* Every step keeps the invariant, and a cache that outgrows its size holds nothing
\* older than now.
LEMMA DashStep ==
  ASSUME DashIInv, [DashNext]_dashVars
  PROVE  /\ DashIInv'
         /\ Cardinality(Cached') > MaxSize /\ Cardinality(Cached') > Cardinality(Cached)
              => \A o \in Cached : cache[o].at = now
<1> USE DashAssumption, DashIdleType
<1> DEFINE Bounded == Cardinality(Cached') > MaxSize /\ Cardinality(Cached') > Cardinality(Cached)
                        => \A o \in Cached : cache[o].at = now
<1>0. ASSUME Cached' \subseteq Cached PROVE Bounded
  <2>1. /\ Cardinality(Cached') \in Nat /\ Cardinality(Cached) \in Nat
        /\ Cardinality(Cached') <= Cardinality(Cached)
    BY <1>0, FS_Subset, FS_CardinalityType DEF DashIInv
  <2> QED BY <2>1
<1>t. /\ now \in 0..MaxTime /\ written \in 0..MaxWrites /\ floor \in 0..written
      /\ dashReq \in [Request -> DashReqs]
  BY DEF DashIInv, DashTypeOK
<1>1. ASSUME UNCHANGED dashVars PROVE DashIInv' /\ Bounded
  <2>1. Cached' = Cached
    BY <1>1 DEF dashVars, Cached
  <2>2. DashTypeOK' /\ ReadInv' /\ RefreshHolds' /\ AgeInv'
    BY <1>1, <2>1 DEF dashVars, DashIInv, DashTypeOK, ReadInv, RefreshHolds, AgeInv
  <2> QED BY <1>0, <2>1, <2>2 DEF DashIInv
<1>2. ASSUME NEW r \in Request, NEW k \in Query \cup Widget, Miss(r, k)
      PROVE  DashIInv' /\ Bounded
  <2> DEFINE q == [DashIdle EXCEPT !.pc = "read", !.key = k]
  <2>1. q \in DashReqs /\ q.pc = "read" /\ q.key = k
    BY DEF DashIdle, DashReqs, Key
  <2>2. /\ dashReq' = [dashReq EXCEPT ![r] = q] /\ cache' = Dropped({k})
        /\ now' = now /\ written' = written /\ floor' = floor
    BY <1>2 DEF Miss
  <2> HIDE DEF q
  <2>3. /\ dashReq' \in [Request -> DashReqs] /\ ReadInv'
        /\ \A o \in Request : dashReq'[o].pc # "idle" => dashReq'[o].key \in Query \cup Widget
    BY <2>1, <2>2, ReadKeeps
  <2>4. /\ cache' \in [Key -> CacheItem \cup {NONE}] /\ RefreshHolds' /\ AgeInv'
        /\ IsFiniteSet(Cached') /\ Cached' \subseteq Cached
    BY <2>2, DropKeeps
  <2> HIDE DEF Bounded
  <2> QED BY <1>0, <1>t, <2>2, <2>3, <2>4 DEF DashIInv, DashTypeOK
<1>3. ASSUME NEW r \in Request, ReadMetrics(r) \/ DashAbort(r)
      PROVE  DashIInv' /\ Bounded
  <2>1. /\ cache' = cache /\ now' = now /\ written' = written /\ floor' = floor
        /\ dashReq[r] \in DashReqs /\ dashReq[r].pc # "idle"
        /\ dashReq[r].key \in Query \cup Widget
    BY <1>3, <1>t DEF ReadMetrics, DashAbort, DashIInv, DashTypeOK
  <2>2. PICK q \in DashReqs : /\ dashReq' = [dashReq EXCEPT ![r] = q]
                              /\ q.pc # "idle" => q.key \in Query \cup Widget
                              /\ q.pc = "store" => q.seen >= floor
    <3>1. CASE ReadMetrics(r)
      <4> DEFINE q == [dashReq[r] EXCEPT !.pc = "store", !.seen = written]
      <4>1. /\ q \in DashReqs /\ q.pc = "store" /\ q.seen = written
            /\ q.key = dashReq[r].key
        BY <1>t, <2>1 DEF DashReqs
      <4>2. dashReq' = [dashReq EXCEPT ![r] = q]
        BY <1>t, <3>1 DEF ReadMetrics
      <4> HIDE DEF q
      <4>3. q.seen >= floor
        BY <1>t, <4>1
      <4> QED BY <2>1, <4>1, <4>2, <4>3
    <3>2. CASE DashAbort(r)
      BY <3>2 DEF DashAbort
    <3> QED BY <1>3, <3>1, <3>2
  <2>3. /\ dashReq' \in [Request -> DashReqs] /\ ReadInv'
        /\ \A o \in Request : dashReq'[o].pc # "idle" => dashReq'[o].key \in Query \cup Widget
    BY <2>1, <2>2, ReadKeeps
  <2>4. Cached' = Cached /\ RefreshHolds' /\ AgeInv' /\ cache' \in [Key -> CacheItem \cup {NONE}]
    BY <2>1 DEF Cached, DashIInv, DashTypeOK, RefreshHolds, AgeInv
  <2> HIDE DEF Bounded
  <2> QED BY <1>0, <1>t, <2>1, <2>3, <2>4 DEF DashIInv, DashTypeOK
<1>4. ASSUME NEW r \in Request, NEW k \in Query, Refresh(r, k)
      PROVE  DashIInv' /\ Bounded
  <2> DEFINE q == [DashIdle EXCEPT !.pc = "read", !.key = k]
  <2>1. q \in DashReqs /\ q.pc = "read" /\ q.key \in Query \cup Widget
    BY DEF DashIdle, DashReqs, Key
  <2>2. Invalidate([o \in {r} |-> q])
    BY <1>4 DEF Refresh
  <2> HIDE DEF q, Bounded
  <2> QED BY <1>0, <2>1, <2>2, InvalidateStep
<1>5. ASSUME ClearCache PROVE DashIInv' /\ Bounded
  <2>1. PICK e : e = <<>>
    OBVIOUS
  <2>2. Invalidate(e) /\ DOMAIN e = {}
    BY <1>5, <2>1 DEF ClearCache
  <2> HIDE DEF Bounded
  <2> QED BY <1>0, <2>2, InvalidateStep
<1>6. ASSUME Cleanup PROVE DashIInv' /\ Bounded
  <2>1. /\ cache' = Dropped({k \in Key : Expired(k)})
        /\ now' = now /\ written' = written /\ floor' = floor /\ dashReq' = dashReq
    BY <1>6 DEF Cleanup
  <2>2. /\ cache' \in [Key -> CacheItem \cup {NONE}] /\ RefreshHolds' /\ AgeInv'
        /\ IsFiniteSet(Cached') /\ Cached' \subseteq Cached
    BY <2>1, DropKeeps
  <2> HIDE DEF Bounded
  <2> QED BY <1>0, <2>1, <2>2 DEF DashIInv, DashTypeOK, ReadInv
<1>7. ASSUME Tick \/ DatabaseWrite PROVE DashIInv' /\ Bounded
  <2>1. /\ cache' = cache /\ dashReq' = dashReq /\ floor' = floor
        /\ now' \in 0..MaxTime /\ now' >= now /\ written' \in 0..MaxWrites /\ written' >= written
    BY <1>7, <1>t DEF Tick, DatabaseWrite
  <2>2. Cached' = Cached /\ Cached \subseteq Key
    BY <2>1 DEF Cached
  <2>3. AgeInv'
    <3>1. ASSUME NEW k \in Cached PROVE cache[k].at <= now'
      <4>1. cache[k] \in CacheItem /\ cache[k].at <= now
        BY DEF DashIInv, DashTypeOK, AgeInv, Cached
      <4> QED BY <1>t, <2>1, <4>1 DEF CacheItem
    <3> QED BY <2>1, <2>2, <3>1 DEF DashIInv, AgeInv
  <2>4. DashTypeOK' /\ ReadInv' /\ RefreshHolds'
    <3>1. floor' \in 0..written'
      BY <1>t, <2>1
    <3> QED BY <2>1, <2>2, <3>1 DEF DashIInv, DashTypeOK, ReadInv, RefreshHolds
  <2> HIDE DEF Bounded
  <2> QED BY <1>0, <2>2, <2>3, <2>4 DEF DashIInv
<1>8. ASSUME NEW r \in Request, StoreResult(r) PROVE DashIInv' /\ Bounded
  BY <1>8, CacheStoreStep
<1>9. ASSUME NEW k \in Key, StoreConfig(k) \/ StoreExport(k) PROVE DashIInv' /\ Bounded
  BY <1>9, StoreNowStep
<1> HIDE DEF Bounded
<1>10. DashIInv' /\ Bounded
  BY <1>1, <1>2, <1>3, <1>4, <1>5, <1>6, <1>7, <1>8, <1>9 DEF DashNext, Key
<1> QED BY <1>10 DEF Bounded

\* The invariant of the cache holds from the start of the process on.
THEOREM DashInductive == DashSpec => []DashIInv
<1>1. DashInit => DashIInv
  <2> SUFFICES ASSUME DashInit PROVE DashIInv
    OBVIOUS
  <2>1. Cached = {}
    BY DEF DashInit, Cached
  <2>2. DashTypeOK /\ ReadInv
    BY DashIdleType, DashAssumption DEF DashInit, DashTypeOK, ReadInv
  <2> QED BY <2>1, <2>2, FS_EmptySet DEF DashIInv, RefreshHolds, AgeInv
<1>2. DashIInv /\ [DashNext]_dashVars => DashIInv'
  BY DashStep
<1> QED BY <1>1, <1>2, PTL DEF DashSpec

\* The cache holds nothing older than the last refresh, except what a computation
\* had read before it and stored after it.
THEOREM DashRefresh == DashSpec => []RefreshHolds
<1>1. DashIInv => RefreshHolds
  BY DEF DashIInv
<1> QED BY <1>1, DashInductive, PTL

\* The cache is refreshed or cleared only while no computation holds what it read.
RefreshesApart ==
  (\E r \in Request, k \in Query : Refresh(r, k)) \/ ClearCache
    => \A r \in Request : dashReq[r].pc # "store"

\* A refresh or a clearance (refreshDashboard, clearCache) that meets no computation
\* between its reads and its store is kept without exception: everything in the
\* cache has seen the database as it was then, or later.
THEOREM DashUndisturbed ==
  DashSpec /\ [][RefreshesApart]_dashVars => [](\A k \in Cached : cache[k].seen >= floor)
<1> DEFINE Clean == /\ \A k \in Cached : ~cache[k].overtaken
                    /\ \A r \in Request : ~dashReq[r].overtaken
<1>1. DashInit => Clean
  BY DEF DashInit, Cached, DashIdle
<1>2. DashTypeOK /\ Clean /\ [DashNext]_dashVars /\ [RefreshesApart]_dashVars => Clean'
  <2> SUFFICES ASSUME DashTypeOK, Clean, [DashNext]_dashVars, [RefreshesApart]_dashVars
               PROVE  Clean'
    OBVIOUS
  <2>0. /\ \A k \in Key : NONE # k
        /\ \A s, b : ~Item(s, b).overtaken <=> ~b
    BY DashAssumption DEF Item
  <2>d. ASSUME NEW keys, cache' = Dropped(keys) PROVE \A k \in Cached' : ~cache'[k].overtaken
    BY <2>d DEF Dropped, Cached
  <2>p. ASSUME NEW keys, NEW k \in Key, NEW s, Put(keys, k, Item(s, FALSE))
        PROVE  \A o \in Cached' : ~cache'[o].overtaken
    <3>1. PICK gone : cache' = [Dropped(gone) EXCEPT ![k] = Item(s, FALSE)]
      BY <2>p DEF Put
    <3> QED BY <2>0, <3>1 DEF Dropped, Cached
  <2>1. CASE UNCHANGED dashVars
    BY <2>1 DEF dashVars, Cached
  <2>2. ASSUME NEW r \in Request, NEW k \in Key, Miss(r, k) PROVE Clean'
    BY <2>2, <2>d DEF Miss, DashTypeOK, DashIdle
  <2>3. ASSUME NEW r \in Request, ReadMetrics(r) PROVE Clean'
    BY <2>3 DEF ReadMetrics, DashTypeOK, DashReqs, Cached
  <2>4. ASSUME NEW r \in Request, StoreResult(r) PROVE Clean'
    <3>1. dashReq[r].key \in Key
      BY <2>4 DEF StoreResult, DashTypeOK, Key
    <3>2. Put(Cached, dashReq[r].key, Item(dashReq[r].seen, FALSE))
      BY <2>4 DEF StoreResult, DashTypeOK, DashReqs
    <3> QED BY <2>4, <2>p, <3>1, <3>2 DEF StoreResult, DashTypeOK, DashIdle
  <2>5. ASSUME NEW r \in Request, DashAbort(r) PROVE Clean'
    BY <2>5 DEF DashAbort, DashTypeOK, DashIdle, Cached
  <2>6. ASSUME NEW k \in Key, StoreConfig(k) \/ StoreExport(k) PROVE Clean'
    BY <2>6, <2>p DEF StoreConfig, StoreExport
  <2>7. ASSUME NEW except, Invalidate(except), \A r \in Request : dashReq[r].pc # "store",
               \A r \in DOMAIN except : except[r].overtaken = FALSE
        PROVE  Clean'
    <3>1. \A k \in Cached' : ~cache'[k].overtaken
      BY <2>7, <2>d DEF Invalidate, DropCategory
    <3> QED BY <2>7, <3>1 DEF Invalidate
  <2>8. ASSUME NEW r \in Request, NEW k \in Query, Refresh(r, k),
               \A o \in Request : dashReq[o].pc # "store"
        PROVE  Clean'
    BY <2>7, <2>8 DEF Refresh, DashIdle
  <2>9. ASSUME ClearCache, \A o \in Request : dashReq[o].pc # "store" PROVE Clean'
    <3>1. DOMAIN <<>> = {}
      OBVIOUS
    <3> QED BY <2>7, <2>9, <3>1 DEF ClearCache
  <2>10. CASE Cleanup
    BY <2>10, <2>d DEF Cleanup
  <2>11. CASE Tick \/ DatabaseWrite
    BY <2>11 DEF Tick, DatabaseWrite, Cached
  <2>12. Query \subseteq Key /\ Widget \subseteq Key /\ Role \subseteq Key /\ Export \subseteq Key
    BY DEF Key
  <2> QED BY <2>1, <2>2, <2>3, <2>4, <2>5, <2>6, <2>8, <2>9, <2>10, <2>11, <2>12
          DEF DashNext, RefreshesApart
<1>3. DashIInv /\ Clean => \A k \in Cached : cache[k].seen >= floor
  <2> SUFFICES ASSUME DashIInv, Clean, NEW k \in Cached PROVE cache[k].seen >= floor
    OBVIOUS
  <2>1. cache[k] \in CacheItem /\ floor \in Int
    BY DEF DashIInv, DashTypeOK, Cached
  <2>2. ~(cache[k].seen < floor)
    BY DEF DashIInv, RefreshHolds
  <2> QED BY <2>1, <2>2 DEF CacheItem
<1>4. DashIInv => DashTypeOK
  BY DEF DashIInv
<1> QED BY <1>1, <1>2, <1>3, <1>4, DashInductive, PTL DEF DashSpec

\* The cache outgrows its size only while nothing in it is older than the present
\* moment, however many keys there are.
THEOREM DashBounded == DashSpec => CacheBounded
<1>1. DashIInv /\ [DashNext]_dashVars =>
        [Cardinality(Cached') > MaxSize /\ Cardinality(Cached') > Cardinality(Cached)
           => \A k \in Cached : cache[k].at = now]_dashVars
  BY DashStep
<1> QED BY <1>1, DashInductive, PTL DEF DashSpec, CacheBounded

(***************************************************************************)
(* Listings.                                                               *)
(***************************************************************************)

\* The rows that stand before x.
Before(x) == {y \in Listed : rank[y] < rank[x]}

\* The pages that the walk has fetched.
PagesRead(w) == IF w.fetched THEN w.page ELSE w.page - 1

\* A row that is still to be shown stands behind the pages that were read.
Behind ==
  \A x \in walk.due \ walk.seen :
    x \in Listed /\ Cardinality(Before(x)) >= PagesRead(walk) * PageSize

\* A count that came before its page is still right; one that came with it or
\* after it is greater than what the pages hold when rows are left.
CountHolds ==
  walk.total # NONE =>
    IF walk.fetched
    THEN walk.due \subseteq walk.seen \/ walk.total > walk.page * PageSize
    ELSE walk.total = Cardinality(Listed)

\* Both hold while nothing has entered, left or moved; the last page is one that
\* the count and the rows were fetched for.
PagesInv ==
  /\ walk.pc # "idle" => walk.page # 0 /\ (walk.still => Behind /\ CountHolds)
  /\ walk.pc = "done" =>
       walk.fetched /\ walk.total # NONE /\ walk.total <= walk.page * PageSize

\* Every statement of the walk and every handler beside it leaves the rows, their
\* order and what the client has seen well formed.
LEMMA ListingTypeStep == ListingTypeOK /\ [ListingNext]_listingVars => ListingTypeOK'
<1> SUFFICES ASSUME ListingTypeOK, [ListingNext]_listingVars PROVE ListingTypeOK'
  OBVIOUS
<1> USE ListingsAssumption DEF ListingTypeOK
<1>c. Cardinality(Listed) \in Nat
  BY FS_CardinalityType, FS_Subset DEF Listed
<1>w. \A w \in Walks, S \in SUBSET Entity : Fetched(w, S) \in Walks /\ Counted(w) \in Walks
  BY <1>c DEF Fetched, Counted, Walks
<1>1. ASSUME NEW x \in Entity, Enter(x) \/ Leave(x) \/ Move(x) PROVE ListingTypeOK'
  <2>1. walk' \in Walks
    BY <1>1 DEF Enter, Leave, Move, Walks
  <2>2. rank' \in [Entity -> 1..MaxRank \cup {NONE}] /\ UNCHANGED reads
    BY <1>1 DEF Enter, Leave, Move
  <2> QED BY <2>1, <2>2
<1>2. CASE BeginWalk
  BY <1>2 DEF BeginWalk, Walks, WalkIdle, Listed
<1>3. CASE CountRows
  BY <1>3, <1>w DEF CountRows
<1>4. CASE FetchPage \/ ReadOnce
  <2>1. PICK S \in PageRows(walk) : walk' = Fetched(walk, S) \/ walk' = Counted(Fetched(walk, S))
    BY <1>4 DEF FetchPage, ReadOnce
  <2>2. S \in SUBSET Entity
    BY <2>1 DEF PageRows, Listed
  <2>3. Fetched(walk, S) \in Walks
    BY <2>2, <1>w
  <2>4. walk' \in Walks
    BY <2>1, <2>3, <2>2, <1>w
  <2> QED BY <1>4, <2>4 DEF FetchPage, ReadOnce
<1>5. CASE Answer
  <2>p. walk.page + 1 \in Nat
    <3>1. walk.page \in Nat
      BY DEF Walks
    <3> HIDE DEF ListingTypeOK
    <3> QED BY <3>1
  <2>1. walk' \in {[walk EXCEPT !.page = @ + 1, !.total = NONE, !.fetched = FALSE],
                   [walk EXCEPT !.pc = "done"]}
    BY <1>5 DEF Answer
  <2>2. walk' \in Walks
    <3>1. CASE walk' = [walk EXCEPT !.page = @ + 1, !.total = NONE, !.fetched = FALSE]
      BY <2>p, <3>1 DEF Walks
    <3>2. CASE walk' = [walk EXCEPT !.pc = "done"]
      BY <3>2 DEF Walks
    <3> QED BY <2>1, <3>1, <3>2
  <2> QED BY <1>5, <2>2 DEF Answer
<1>6. CASE EndWalk
  BY <1>6 DEF EndWalk, WalkIdle, Walks
<1>7. CASE UNCHANGED listingVars
  BY <1>7 DEF listingVars
<1> QED BY <1>1, <1>2, <1>3, <1>4, <1>5, <1>6, <1>7 DEF ListingNext

\* Every listing reads in one of three ways.
Ways == {"together", "in turn", "once"}
LEMMA WaysToRead == \A l \in AllListings : l.reads \in Ways
<1>1. \A by, chosen, how : Paged(by, chosen, how).reads = how
  BY DEF Paged
<1>2. {UsersFindAll.reads, AuthFindAll.reads, AuditLogByUser.reads,
       AuditLogByAction.reads, AuditLogByResource.reads,
       AuditLogSearch.reads, ContentFindAll.reads, DocumentsFindAll.reads,
       FAQFindWithPagination.reads, LinksFindWithPagination.reads,
       HeadersFindAll.reads, HeadersFindActive.reads,
       HeadersFindPublished.reads, HeadersSearch.reads,
       HeadersSearchInMemory.reads, DepartmentsFindAll.reads,
       DepartmentsFindActive.reads, DepartmentsSearch.reads,
       EmployeesFindAll.reads, EmployeesFindActive.reads,
       EmployeesSearch.reads, EmployeesByHomepage.reads, MediaFindAll.reads,
       AlbumsFindAll.reads, AlbumMediaFind.reads, MenusFindAll.reads,
       MenuItemsFindAll.reads, IndicesFindAll.reads, IndicesSearch.reads,
       QueriesByUser.reads, SuggestionsFindAll.reads, SlidersFindAll.reads,
       SlidersFindActive.reads, SlidersFindPublished.reads,
       SlidersSearch.reads, EmployeesWithPosition.reads,
       EmployeesWithDetails.reads, EmployeePhotos.reads,
       ActiveEmployeePhotos.reads, SearchedEmployeePhotos.reads,
       EmployeesByPosition.reads, EmployeesByPositionWithPhoto.reads,
       HomepageSection.reads, FAQPages.reads, LinkPages.reads,
       DocumentsByFilter.reads, DocumentPages.reads, MediaByFilter.reads,
       MediaSearch.reads, MediaPages.reads, AlbumPages.reads,
       AlbumMediaPages.reads} \subseteq Ways
  BY <1>1, ZenonT(60) DEF Ways, UsersFindAll, AuthFindAll, AuditLogByUser,
       AuditLogByAction, AuditLogByResource, AuditLogSearch, ContentFindAll,
       DocumentsFindAll, FAQFindWithPagination, LinksFindWithPagination,
       HeadersFindAll, HeadersFindActive, HeadersFindPublished,
       HeadersSearch, HeadersSearchInMemory, DepartmentsFindAll,
       DepartmentsFindActive, DepartmentsSearch, EmployeesFindAll,
       EmployeesFindActive, EmployeesSearch, EmployeesByHomepage,
       MediaFindAll, AlbumsFindAll, AlbumMediaFind, MenusFindAll,
       MenuItemsFindAll, IndicesFindAll, IndicesSearch, QueriesByUser,
       SuggestionsFindAll, SlidersFindAll, SlidersFindActive,
       SlidersFindPublished, SlidersSearch, EmployeesWithPosition,
       EmployeesWithDetails, EmployeePhotos, ActiveEmployeePhotos,
       SearchedEmployeePhotos, EmployeesByPosition,
       EmployeesByPositionWithPhoto, HomepageSection, FAQPages, LinkPages,
       DocumentsByFilter, DocumentPages, MediaByFilter, MediaSearch,
       MediaPages, AlbumPages, AlbumMediaPages
<1> QED BY <1>2 DEF AllListings

\* The first rows and the client that has asked for nothing are well formed.
LEMMA ListingTypeInit == ListingInit => ListingTypeOK
<1> SUFFICES ASSUME ListingInit PROVE ListingTypeOK
  OBVIOUS
<1>1. reads \in {"together", "in turn", "once"}
  BY WaysToRead DEF ListingInit, Ways
<1>2. WalkIdle \in Walks
  BY DEF WalkIdle, Walks
<1> QED BY <1>1, <1>2 DEF ListingInit, ListingTypeOK

\* The rows of a table and those before one of them are counted by numbers.
LEMMA BeforeFinite ==
  ASSUME ListingTypeOK, NEW x
  PROVE  /\ IsFiniteSet(Listed) /\ Cardinality(Listed) \in Nat
         /\ IsFiniteSet(Before(x)) /\ Cardinality(Before(x)) \in Nat
         /\ x \in Listed => Cardinality(Before(x)) < Cardinality(Listed)
<1>1. IsFiniteSet(Listed) /\ Listed \subseteq Entity
  BY ListingsAssumption, FS_Subset DEF Listed
<1>2. Before(x) \subseteq Listed
  BY DEF Before
<1>3. IsFiniteSet(Before(x)) /\ Cardinality(Before(x)) <= Cardinality(Listed)
  BY <1>1, <1>2, FS_Subset
<1>4. Cardinality(Listed) \in Nat /\ Cardinality(Before(x)) \in Nat
  BY <1>1, <1>3, FS_CardinalityType
<1>5. ASSUME x \in Listed PROVE Before(x) # Listed
  <2>1. rank[x] \in 1..MaxRank
    BY <1>5 DEF Listed, ListingTypeOK
  <2> QED BY <1>5, <2>1, ListingsAssumption DEF Before
<1> QED
  <2>1. x \in Listed => Cardinality(Before(x)) # Cardinality(Listed)
    BY <1>1, <1>2, <1>5, FS_Subset
  <2> QED BY <1>1, <1>3, <1>4, <2>1

\* A row that stands behind the pages before a page, and is not among the rows
\* of that page, stands behind them as well.
LEMMA PageBehind ==
  ASSUME ListingTypeOK, NEW S \in PageRows(walk), ~Ties, walk.page # 0,
         NEW x \in Listed, x \notin S, Cardinality(Before(x)) >= Skip(walk)
  PROVE  Cardinality(Before(x)) >= walk.page * PageSize
<1> DEFINE low == Skip(walk) high == walk.page * PageSize
<1>1. walk.page \in Nat \ {0} /\ PageSize \in Nat \ {0}
  BY ListingsAssumption DEF ListingTypeOK, Walks
<1>2. low \in Nat /\ high \in Nat /\ low + PageSize = high /\ low <= high
  BY <1>1 DEF Skip
<1>3. \A y \in Listed : rank[y] \in 1..MaxRank
  BY DEF Listed, ListingTypeOK
<1>4. PICK P \in SUBSET (Listed \ S) :
        Cardinality(P) = AtMost(low) /\ Ahead(P) /\ Ahead(P \cup S)
  BY DEF PageRows
<1>5. S \subseteq Listed /\ Cardinality(S) = AtMost(low + PageSize) - AtMost(low)
  BY DEF PageRows
<1> HIDE DEF low, high
<1>6. IsFiniteSet(P) /\ IsFiniteSet(S) /\ IsFiniteSet(P \cup S)
  BY <1>4, <1>5, BeforeFinite, FS_Subset, FS_Union
<1>7. Cardinality(Before(x)) < Cardinality(Listed)
  BY BeforeFinite
<1>8. AtMost(low) = low
  BY <1>2, <1>7, BeforeFinite DEF AtMost, low
<1>9. x \notin P
  <2> SUFFICES ASSUME x \in P PROVE FALSE
    OBVIOUS
  <2>1. Before(x) \subseteq P \ {x}
    BY <1>3, <1>4 DEF Before, Ahead
  <2>2. Cardinality(Before(x)) <= Cardinality(P \ {x}) /\ Cardinality(P \ {x}) = Cardinality(P) - 1
    BY <2>1, <1>6, FS_RemoveElement, FS_Subset
  <2> QED BY <2>2, <1>2, <1>4, <1>8, BeforeFinite DEF low
<1>10. P \cup S \subseteq Before(x)
  BY <1>3, <1>4, <1>5, <1>9 DEF Before, Ahead, Ties
<1>11. Cardinality(P \cup S) = AtMost(low + PageSize)
  <2>1. P \cap S = {}
    BY <1>4
  <2>2. Cardinality(P \cup S) = Cardinality(P) + Cardinality(S) - Cardinality(P \cap S)
    BY <1>6, FS_Union
  <2>3. AtMost(low + PageSize) \in Nat
    BY <1>1, <1>2, BeforeFinite DEF AtMost
  <2>4. Cardinality(P \cup S) = low + Cardinality(S)
    <3>1. Cardinality(P \cup S) = low + Cardinality(S) - 0
      BY <2>1, <2>2, <1>4, <1>8, FS_EmptySet
    <3> QED BY <3>1, <1>2, <1>6, FS_CardinalityType
  <2> QED BY <2>3, <2>4, <1>2, <1>5, <1>8
<1>12. Cardinality(P \cup S) <= Cardinality(Before(x))
  BY <1>10, BeforeFinite, FS_Subset
<1> QED BY <1>2, <1>7, <1>11, <1>12, BeforeFinite DEF AtMost, high

\* Every statement of the walk and every other handler keeps the rows that are
\* still to be shown behind the pages that were read.
LEMMA PagesStep == ListingTypeOK /\ PagesInv /\ [ListingNext]_listingVars => PagesInv'
<1> SUFFICES ASSUME ListingTypeOK, PagesInv, [ListingNext]_listingVars PROVE PagesInv'
  OBVIOUS
<1>t. walk \in Walks /\ PageSize \in Nat \ {0} /\ NONE \notin Nat
  BY ListingsAssumption DEF ListingTypeOK
<1>c. Cardinality(Listed) \in Nat
  BY BeforeFinite
<1>1. ASSUME NEW x \in Entity, Enter(x) PROVE PagesInv'
  <2>1. walk' = [walk EXCEPT !.still = @ /\ (walk.total = NONE \/ walk.fetched)]
    BY <1>1 DEF Enter
  <2>2. PICK p \in 1..MaxRank : rank' = [rank EXCEPT ![x] = p]
    BY <1>1 DEF Enter
  <2>3. Listed' \subseteq Entity /\ Listed \subseteq Listed'
        /\ \A y \in Listed : Before(y) \subseteq Before(y)'
    BY <1>1, <2>2, <1>t DEF Enter, Listed, Before, ListingTypeOK
  <2>4. ASSUME NEW y \in Listed
        PROVE  /\ Cardinality(Before(y)) <= Cardinality(Before(y)')
               /\ Cardinality(Before(y)) \in Nat /\ Cardinality(Before(y)') \in Nat
    <3>1. Before(y)' \subseteq Entity
      BY <2>3 DEF Before
    <3>2. IsFiniteSet(Before(y)')
      BY <3>1, ListingsAssumption, FS_Subset
    <3> QED BY <3>2, <2>3, FS_Subset, FS_CardinalityType, BeforeFinite
  <2>5. PagesRead(walk') = PagesRead(walk)
    BY <2>1, <1>t DEF PagesRead, Walks
  <2>6. Behind => Behind'
    <3>1. walk'.due = walk.due /\ walk'.seen = walk.seen
      BY <2>1, <1>t DEF Walks
    <3>2. ASSUME Behind, NEW y \in walk.due \ walk.seen
          PROVE  y \in Listed' /\ Cardinality(Before(y))' >= PagesRead(walk) * PageSize
      <4>1. PagesRead(walk) * PageSize \in Int
        BY <1>t DEF PagesRead, Walks
      <4> QED BY <3>2, <4>1, <2>3, <2>4 DEF Behind
    <3>3. PagesRead(walk)' = PagesRead(walk)
      BY <2>5
    <3> QED BY <3>1, <3>2, <3>3 DEF Behind
  <2>7. CountHolds /\ walk'.still => CountHolds'
    BY <2>1, <1>t DEF CountHolds, Walks
  <2> QED BY <2>1, <2>6, <2>7, <1>t DEF PagesInv, Walks
<1>2. ASSUME NEW x \in Entity, Leave(x) \/ Move(x) PROVE PagesInv'
  <2>1. walk' = [walk EXCEPT !.still = walk.pc = "idle"]
    BY <1>2 DEF Leave, Move
  <2> QED BY <2>1, <1>t DEF PagesInv, Walks
<1>3. CASE BeginWalk
  <2>1. walk' = [WalkIdle EXCEPT !.pc = "reading", !.page = 1, !.due = Listed] /\ rank' = rank
    BY <1>3 DEF BeginWalk
  <2>2. walk'.page = 1 /\ walk'.pc = "reading" /\ walk'.total = NONE /\ ~walk'.fetched
        /\ walk'.due = Listed
    BY <2>1 DEF WalkIdle
  <2>3. PagesRead(walk') = 0 /\ Listed' = Listed
    BY <2>1, <2>2 DEF PagesRead, Listed
  <2>4. \A y \in Listed : Before(y)' = Before(y)
    BY <2>1 DEF Before, Listed
  <2>5. Behind'
    <3>1. \A y \in Listed : Cardinality(Before(y)) >= 0 * PageSize
      BY BeforeFinite, <1>t
    <3> QED BY <2>2, <2>3, <2>4, <3>1 DEF Behind
  <2> QED BY <2>2, <2>5 DEF PagesInv, CountHolds
<1>r. ASSUME rank' = rank
      PROVE  Listed' = Listed /\ \A y : Before(y)' = Before(y)
  BY <1>r DEF Listed, Before
\* A count after the page is greater than what the pages hold, if rows are left.
<1>4. ASSUME NEW w \in Walks, w.page # 0, w.fetched, w.due = walk.due,
             \A x \in w.due \ w.seen :
               x \in Listed /\ Cardinality(Before(x)) >= w.page * PageSize
      PROVE  w.due \subseteq w.seen \/ Cardinality(Listed) > w.page * PageSize
  <2> SUFFICES ASSUME NEW x \in w.due \ w.seen PROVE Cardinality(Listed) > w.page * PageSize
    OBVIOUS
  <2>1. w.page * PageSize \in Int
    BY <1>t DEF Walks
  <2> QED BY <1>4, <2>1, BeforeFinite
<1>5. CASE CountRows
  <2>1. walk' = Counted(walk) /\ walk.pc = "reading" /\ rank' = rank
    BY <1>5 DEF CountRows
  <2>2. walk' = [walk EXCEPT !.total = Cardinality(Listed)]
    BY <2>1 DEF Counted
  <2>3. PagesRead(walk') = PagesRead(walk)
    BY <2>2, <1>t DEF PagesRead, Walks
  <2>4. Behind => Behind'
    BY <2>2, <2>3, <2>1, <1>r, <1>t DEF Behind, Walks
  <2>5. Behind /\ walk.page # 0 => CountHolds'
    <3> SUFFICES ASSUME Behind, walk.page # 0, walk.fetched
                 PROVE  walk.due \subseteq walk.seen \/ Cardinality(Listed) > walk.page * PageSize
      BY <2>1, <2>2, <1>r, <1>t DEF CountHolds, Walks
    <3> QED BY <1>4, <1>t DEF Behind, PagesRead
  <2> QED BY <2>1, <2>2, <2>4, <2>5, <1>t DEF PagesInv, Walks
<1>6. CASE FetchPage \/ ReadOnce
  <2>1. PICK S \in PageRows(walk) :
          walk' = Fetched(walk, S) \/ walk' = Counted(Fetched(walk, S))
    BY <1>6 DEF FetchPage, ReadOnce
  <2>2. walk.pc = "reading" /\ ~walk.fetched /\ rank' = rank
    BY <1>6 DEF FetchPage, ReadOnce
  <2>3. /\ walk'.pc = walk.pc /\ walk'.page = walk.page /\ walk'.due = walk.due
        /\ walk'.seen = walk.seen \cup S /\ walk'.fetched
        /\ walk'.still = (walk.still /\ ~Ties)
        /\ walk'.total = walk.total \/ walk'.total = Cardinality(Listed)
    BY <2>1, <1>t DEF Fetched, Counted, Walks
  <2>4. ASSUME walk'.still PROVE Behind' /\ CountHolds'
    <3>1. walk.still /\ ~Ties /\ Behind /\ CountHolds /\ walk.page # 0
      BY <2>4, <2>3, <2>2 DEF PagesInv
    <3>2. ASSUME NEW y \in walk.due \ (walk.seen \cup S)
          PROVE  y \in Listed /\ Cardinality(Before(y)) >= walk.page * PageSize
      <4>1. y \in Listed /\ Cardinality(Before(y)) >= Skip(walk)
        BY <3>1, <2>2 DEF Behind, PagesRead, Skip
      <4> QED BY <4>1, <3>1, PageBehind
    <3>3. PagesRead(walk') = walk.page
      BY <2>3 DEF PagesRead
    <3>4. Behind'
      BY <3>2, <3>3, <2>2, <2>3, <1>r DEF Behind
    <3>5. walk'.due \subseteq walk'.seen \/ Cardinality(Listed) > walk'.page * PageSize
      BY <3>1, <3>2, <2>3, <1>4, ListingTypeStep DEF ListingTypeOK
    <3>6. walk'.total # NONE => walk'.total = Cardinality(Listed)
      BY <3>1, <2>2, <2>3 DEF CountHolds
    <3>7. CountHolds'
      BY <3>5, <3>6, <2>3 DEF CountHolds
    <3> QED BY <3>4, <3>7
  <2> QED BY <2>2, <2>3, <2>4 DEF PagesInv
<1>7. CASE Answer
  <2>1. walk.pc = "reading" /\ walk.fetched /\ walk.total # NONE /\ rank' = rank
    BY <1>7 DEF Answer
  <2>2. CASE HasNext(walk)
    <3>1. walk' = [walk EXCEPT !.page = @ + 1, !.total = NONE, !.fetched = FALSE]
      BY <1>7, <2>2 DEF Answer
    <3>2. PagesRead(walk') = PagesRead(walk) /\ walk'.page # 0
      <4>1. walk.page \in Nat
        BY <1>t DEF Walks
      <4> QED BY <4>1, <3>1, <2>1, <1>t DEF PagesRead, Walks
    <3>3. Behind => Behind'
      BY <3>1, <3>2, <2>1, <1>r, <1>t DEF Behind, Walks
    <3> QED BY <3>1, <3>2, <3>3, <2>1, <1>t DEF PagesInv, CountHolds, Walks
  <2>3. CASE ~HasNext(walk)
    <3>1. walk' = [walk EXCEPT !.pc = "done"]
      BY <1>7, <2>3 DEF Answer
    <3>2. PagesRead(walk') = PagesRead(walk)
      BY <3>1, <1>t DEF PagesRead, Walks
    <3>3. Behind => Behind'
      BY <3>1, <3>2, <2>1, <1>r, <1>t DEF Behind, Walks
    <3>4. CountHolds => CountHolds'
      BY <3>1, <2>1, <1>r, <1>t DEF CountHolds, Walks
    <3>5. walk.total <= walk.page * PageSize
      <4>1. walk.page * PageSize \in Int /\ walk.total \in Int
        BY <2>1, <1>t DEF Walks
      <4> QED BY <4>1, <2>3 DEF HasNext
    <3> QED BY <3>1, <3>3, <3>4, <3>5, <2>1, <1>t DEF PagesInv, Walks
  <2> QED BY <2>2, <2>3
<1>8. CASE EndWalk
  BY <1>8 DEF EndWalk, WalkIdle, PagesInv
<1>9. CASE UNCHANGED listingVars
  BY <1>9, <1>r DEF listingVars, PagesInv, Behind, CountHolds, PagesRead
<1> QED BY <1>1, <1>2, <1>3, <1>5, <1>6, <1>7, <1>8, <1>9 DEF ListingNext

\* In every reachable state the rows still to be shown stand behind the pages
\* that were read, and the count admits the page that shows them.
THEOREM ListingInductive == ListingSpec => [](ListingTypeOK /\ PagesInv)
<1>1. ListingInit => PagesInv
  BY DEF ListingInit, PagesInv, WalkIdle
<1> QED BY <1>1, ListingTypeInit, ListingTypeStep, PagesStep, PTL DEF ListingSpec

\* A client that walks a listing to its end, its count read before, after or with
\* the rows, has been shown every row that was there from the first page on, when
\* no two rows tie and none entered, left or moved.
THEOREM ListingRowsSeen == ListingSpec => []RowsSeen
<1>1. ListingTypeOK /\ PagesInv => RowsSeen
  <2> SUFFICES ASSUME ListingTypeOK, PagesInv, walk.pc = "done", walk.still
               PROVE  walk.due \subseteq walk.seen
    BY DEF RowsSeen
  <2>1. walk.total <= walk.page * PageSize /\ ~(walk.total > walk.page * PageSize)
    <3>0. walk \in Walks /\ PageSize \in Nat
      BY ListingsAssumption DEF ListingTypeOK
    <3>1. walk.total \in Int /\ walk.page * PageSize \in Int
      BY <3>0 DEF PagesInv, Walks
    <3> QED BY <3>1 DEF PagesInv
  <2> QED BY <2>1 DEF PagesInv, CountHolds
<1> QED BY <1>1, ListingInductive, PTL
=============================================================================
