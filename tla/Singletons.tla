----------------------------- MODULE Singletons -----------------------------
(***************************************************************************)
(* Rows of which there shall be one: an office description per type, the   *)
(* office settings, the administrator that an instance creates when it     *)
(* starts.  Each is looked for in one statement and created in another;    *)
(* only the administrator's e-mail address is a unique column.             *)
(***************************************************************************)
EXTENDS Handlers

CONSTANTS Slot,     \* identifiers of rows
          DescType  \* the types of office descriptions

Settings == "settings"
Administrator == "administrator"

ASSUME SingleAssumption ==
  /\ NONE \notin Slot \cup DescType \cup {Settings, Administrator}
  /\ NONE \notin {"looked", "overtaken", "unlooked"}
  /\ {Settings, Administrator} \cap DescType = {}

VARIABLES sort,   \* what each row is, NONE when there is none
          blame,  \* how a row came to be what it is (history)
          sgReq   \* the requests in flight

sgVars == <<sort, blame, sgReq>>

-----------------------------------------------------------------------------
Sort == DescType \cup {Settings, Administrator}

\* How a row came to be: after a look that no other row had followed, after one
\* that had been overtaken, or without a look at its own sort.
Blames == {NONE, "looked", "overtaken", "unlooked"}

\* A request: the sort it has looked for, the sort it will write, the row it
\* found, and whether its look was overtaken (history).
SgReqs == [pc : {"idle", "create", "update"}, sought : Sort \cup {NONE},
           sort : Sort \cup {NONE}, row : Slot \cup {NONE}, late : BOOLEAN]

SgIdle == [pc |-> "idle", sought |-> NONE, sort |-> NONE, row |-> NONE, late |-> FALSE]

SgInit == /\ sort = [x \in Slot |-> NONE]
          /\ blame = [x \in Slot |-> NONE]
          /\ sgReq = [r \in Request |-> SgIdle]

OfSort(s) == {x \in Slot : sort[x] = s}

SgGoto(r, q) == sgReq' = [sgReq EXCEPT ![r] = q]

\* Row x becomes s by request r: looks for s that are under way are overtaken.
Becomes(r, x, s, why) ==
  /\ sort' = [sort EXCEPT ![x] = s]
  /\ blame' = [blame EXCEPT ![x] = why]
  /\ sgReq' = [o \in Request |->
                 IF o = r THEN SgIdle
                 ELSE IF sgReq[o].sought = s THEN [sgReq[o] EXCEPT !.late = TRUE]
                 ELSE sgReq[o]]

-----------------------------------------------------------------------------
\* Mutant: a description is created whether its type exists or not.
LookIsFreeAlways(s) == TRUE

LookIsFree(s) == OfSort(s) = {}

\* createOfficeDescription, each type of bulkCreateOfficeDescriptions, an import
\* of a new type, and an instance that starts: it goes on when there is no row.
LookToCreate(r) ==
  /\ sgReq[r].pc = "idle"
  /\ \E s \in Sort \ {Settings} :
       /\ LookIsFree(s)
       /\ SgGoto(r, [SgIdle EXCEPT !.pc = "create", !.sought = s, !.sort = s])
  /\ UNCHANGED <<sort, blame>>

\* upsert and upsertByType: a row that is found is updated.  A new description
\* gets the type of the body, whatever type the route names.
LookToUpsert(r) ==
  /\ sgReq[r].pc = "idle"
  /\ \E s \in DescType \cup {Settings} :
       \/ \E x \in OfSort(s) :
            SgGoto(r, [SgIdle EXCEPT !.pc = "update", !.sought = s, !.sort = s, !.row = x])
       \/ /\ LookIsFree(s)
          /\ \E b \in IF s = Settings THEN {s} ELSE DescType :
               SgGoto(r, [SgIdle EXCEPT !.pc = "create", !.sought = s, !.sort = b])
  /\ UNCHANGED <<sort, blame>>

\* createOfficeSettings looks for nothing.
CreateSettings(r) ==
  /\ sgReq[r].pc = "idle"
  /\ SgGoto(r, [SgIdle EXCEPT !.pc = "create", !.sort = Settings])
  /\ UNCHANGED <<sort, blame>>

\* The insertion.  The unique column refuses a second administrator.
SgInsert(r) ==
  LET q == sgReq[r] IN
  /\ q.pc = "create"
  /\ q.sort = Administrator => OfSort(Administrator) = {}
  /\ \E x \in Slot :
       /\ sort[x] = NONE /\ \A o \in Request : sgReq[o].row # x
       /\ Becomes(r, x, q.sort, IF q.sought # q.sort THEN "unlooked"
                                ELSE IF q.late THEN "overtaken" ELSE "looked")

\* The update of the row found: it keeps its sort.
UpdateFound(r) ==
  /\ sgReq[r].pc = "update" /\ sort[sgReq[r].row] # NONE
  /\ SgGoto(r, SgIdle)
  /\ UNCHANGED <<sort, blame>>

\* updateOfficeDescription, bulkUpdateOfficeDescriptions: the body may name
\* another type, and nobody looks for a row of it.
Retype(x) ==
  /\ sort[x] \in DescType
  /\ \E s \in DescType \ {sort[x]} : Becomes(NONE, x, s, "unlooked")

\* deleteOfficeDescription, deleteOfficeDescriptionByType, deleteOfficeSettings,
\* and the deletion of the administrator's account.
Remove(rows) ==
  /\ rows # {}
  /\ sort' = [x \in Slot |-> IF x \in rows THEN NONE ELSE sort[x]]
  /\ blame' = [x \in Slot |-> IF x \in rows THEN NONE ELSE blame[x]]
  /\ UNCHANGED sgReq

\* A refusal of the database, an error or a crash.
SgAbort(r) ==
  /\ sgReq[r].pc # "idle"
  /\ SgGoto(r, SgIdle)
  /\ UNCHANGED <<sort, blame>>

SgNext == \/ \E r \in Request : \/ LookToCreate(r) \/ LookToUpsert(r) \/ CreateSettings(r)
                                \/ SgInsert(r) \/ UpdateFound(r) \/ SgAbort(r)
          \/ \E x \in Slot : Retype(x) \/ (sort[x] # NONE /\ Remove({x}))
          \/ \E s \in DescType : Remove(OfSort(s))

SgSpec == SgInit /\ [][SgNext]_sgVars

-----------------------------------------------------------------------------
(* Properties *)

\* Rows and requests are well formed.
SgTypeOK == /\ sort \in [Slot -> Sort \cup {NONE}]
            /\ blame \in [Slot -> Blames]
            /\ \A x \in Slot : blame[x] = NONE <=> sort[x] = NONE
            /\ sgReq \in [Request -> SgReqs]

\* Two rows of one sort (createOfficeDescription, upsert, initializeAdminUser):
\* one of them was inserted after its look had been overtaken or without one, and
\* there are never two administrators.
DuplicatesExplained ==
  \A x, y \in Slot :
    x # y /\ sort[x] = sort[y] /\ sort[x] # NONE =>
      /\ sort[x] # Administrator
      /\ {blame[x], blame[y]} \cap {"overtaken", "unlooked"} # {}
=============================================================================
