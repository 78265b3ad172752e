---------------------------- MODULE Departments -----------------------------
(***************************************************************************)
(* Departments and the employees that belong to them (DepartmentService,   *)
(* EmployeeService).  A department names a parent; validateDepartment asks *)
(* only whether that parent exists.  deleteDepartment looks for employees  *)
(* and children in one statement and deletes in another: the database      *)
(* refuses while employees remain, but turns children into roots.          *)
(***************************************************************************)
EXTENDS Hierarchy

CONSTANTS Dept, Employee

ASSUME DepAssumption == NONE \notin Dept \cup Employee

VARIABLES depLive,   \* the departments that exist
          depDead,   \* identifiers of deleted ones
          depParent, \* the parent column
          empDept,   \* the department of each employee, NONE when there is no row
          depReq     \* the requests in flight

depVars == <<depLive, depDead, depParent, empDept, depReq>>

-----------------------------------------------------------------------------
\* A request: its department, the parent it was validated with, and, for a
\* deletion, the children that came after its look (history).
DepReqs == [pc : {"idle", "create", "update", "delete"}, d : Dept \cup {NONE},
            p : Dept \cup {NONE}, late : SUBSET Dept]

DepIdle == [pc |-> "idle", d |-> NONE, p |-> NONE, late |-> {}]

DepInit == /\ depLive = {} /\ depDead = {}
           /\ depParent = [d \in Dept |-> NONE]
           /\ empDept = [e \in Employee |-> NONE]
           /\ depReq = [r \in Request |-> DepIdle]

DepAt(r, pc) == depReq[r].pc = pc

DepGoto(r, q) == depReq' = [depReq EXCEPT ![r] = q]

\* What findById includes.
SubDepts(d) == {c \in depLive : depParent[c] = d}

Staff(d) == {e \in Employee : empDept[e] = d}

\* validateDepartment: the parent, if one is named, exists.
ValidParent(p) == p = NONE \/ p \in depLive

-----------------------------------------------------------------------------
DepBeginCreate(r) ==
  /\ DepAt(r, "idle")
  /\ \E d \in Dept \ (depLive \cup depDead), p \in Dept \cup {NONE} :
       /\ ValidParent(p) /\ \A o \in Request : depReq[o].d # d
       /\ DepGoto(r, [DepIdle EXCEPT !.pc = "create", !.d = d, !.p = p])
  /\ UNCHANGED <<depLive, depDead, depParent, empDept>>

\* A department may be put below itself or below one of its own.
DepBeginUpdate(r) ==
  /\ DepAt(r, "idle")
  /\ \E d \in depLive, p \in Dept \cup {NONE} :
       /\ ValidParent(p)
       /\ DepGoto(r, [DepIdle EXCEPT !.pc = "update", !.d = d, !.p = p])
  /\ UNCHANGED <<depLive, depDead, depParent, empDept>>

\* DepartmentRepository.create and update: the key wants the parent to exist
\* still.  A deletion that has looked already does not see the new child.
DepPlace(r) ==
  LET q == depReq[r] IN
  /\ q.pc \in {"create", "update"}
  /\ q.pc = "update" => q.d \in depLive
  /\ q.p \in depLive \cup {NONE} \cup (IF q.pc = "update" THEN {q.d} ELSE {})
  /\ depLive' = depLive \cup {q.d}
  /\ depParent' = [depParent EXCEPT ![q.d] = q.p]
  /\ depReq' = [o \in Request |->
                  IF o = r THEN DepIdle
                  ELSE [depReq[o] EXCEPT !.late =
                          IF DepAt(o, "delete") /\ depReq[o].d = q.p /\ depParent[q.d] # q.p
                          THEN @ \cup {q.d} ELSE @]]
  /\ UNCHANGED <<depDead, empDept>>

\* Mutant: only the employees are looked for.
DeletableStaffless(d) == Staff(d) = {}

\* deleteDepartment refuses a department with employees or children.
DepDeletable(d) == Staff(d) = {} /\ SubDepts(d) = {}

DepBeginDelete(r) ==
  /\ DepAt(r, "idle")
  /\ \E d \in depLive : /\ DepDeletable(d)
                        /\ DepGoto(r, [DepIdle EXCEPT !.pc = "delete", !.d = d])
  /\ UNCHANGED <<depLive, depDead, depParent, empDept>>

\* DepartmentRepository.delete: employees restrict it, children lose their parent.
DepDelete(r) ==
  LET d == depReq[r].d IN
  /\ DepAt(r, "delete") /\ d \in depLive /\ Staff(d) = {}
  /\ depLive' = depLive \ {d}
  /\ depDead' = depDead \cup {d}
  /\ depParent' = Cleared(depParent, {d})
  /\ DepGoto(r, DepIdle)
  /\ UNCHANGED empDept

\* A refusal, an error or a crash; bulkDelete goes on with its next department.
DepAbort(r) ==
  /\ depReq[r].pc # "idle"
  /\ DepGoto(r, DepIdle)
  /\ UNCHANGED <<depLive, depDead, depParent, empDept>>

\* createEmployee and updateEmployee: only the key asks for the department.
EmpPlace(e) ==
  /\ \E d \in depLive : empDept' = [empDept EXCEPT ![e] = d]
  /\ UNCHANGED <<depLive, depDead, depParent, depReq>>

EmpDelete(e) ==
  /\ empDept[e] # NONE
  /\ empDept' = [empDept EXCEPT ![e] = NONE]
  /\ UNCHANGED <<depLive, depDead, depParent, depReq>>

DepHandler(r) == \/ DepBeginCreate(r) \/ DepBeginUpdate(r) \/ DepPlace(r)
                 \/ DepBeginDelete(r) \/ DepDelete(r) \/ DepAbort(r)

DepNext == \/ \E r \in Request : DepHandler(r)
           \/ \E e \in Employee : EmpPlace(e) \/ EmpDelete(e)

DepSpec == DepInit /\ [][DepNext]_depVars

-----------------------------------------------------------------------------
(* Properties *)

\* Departments, employees and requests are well formed, and no column names a
\* department that is gone.
DepTypeOK ==
  /\ depLive \subseteq Dept /\ depDead \subseteq Dept \ depLive
  /\ depParent \in [Dept -> depLive \cup {NONE}]
  /\ empDept \in [Employee -> depLive \cup {NONE}]
  /\ depReq \in [Request -> DepReqs]

\* deleteDepartment turns a department into a root, or breaks up a cycle, only
\* when that department became a child after the deletion had looked for children.
DepDeletionSparesChildren ==
  [][\A c \in depLive \cap depLive' :
       depParent[c] \in depLive \ depLive' =>
         \E r \in Request : DepAt(r, "delete") /\ depReq[r].d = depParent[c]
                            /\ c \in depReq[r].late]_depVars

\* "Department hierarchy validation for integrity" (docs/modules/hr): no
\* department is its own ancestor, whatever updateDepartment is asked for.
NoCircularDepartments == \A d \in Dept : ~OnCycle(depParent, d)
=============================================================================
