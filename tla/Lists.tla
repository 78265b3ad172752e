------------------------------- MODULE Lists --------------------------------
(***************************************************************************)
(* The lists that clients put in order: menu items, FAQ entries and        *)
(* important links send all updates at once and wait for them together     *)
(* (Promise.all); categories and attachments look at every row first and   *)
(* then update one after the other.  None of them uses a transaction: a    *)
(* row that is gone makes its update fail, the others are written.  What   *)
(* Promise.all has sent goes on after the failure has been answered.       *)
(***************************************************************************)
EXTENDS Handlers

CONSTANTS Row,     \* the rows of one list
          Place,   \* the values of the order column
          Lists    \* which of "together" and "in turn" the list may be

ASSUME ListsAssumption == /\ NONE \notin Row \cup Place
                          /\ Lists \subseteq {"together", "in turn"}

VARIABLES listKind, \* how this list is written
          place,    \* the order column, NONE when there is no row
          listReq   \* the requests in flight or answered

listVars == <<listKind, place, listReq>>

-----------------------------------------------------------------------------
\* A request: the places it asks for (of the rows in the domain), the rows not
\* yet written, the rows that others have written since it began (history).
Wishes == UNION {[rows -> Place] : rows \in SUBSET Row \ {{}}}

ListReqs == [pc : {"idle", "check", "write", "done", "failed"},
             want : Wishes \cup {<<>>}, todo : SUBSET Row, other : SUBSET Row]

ListIdle == [pc |-> "idle", want |-> <<>>, todo |-> {}, other |-> {}]

ListInit == /\ listKind \in Lists
            /\ place \in [Row -> Place]
            /\ listReq = [r \in Request |-> ListIdle]

Rows == {x \in Row : place[x] # NONE}

\* Request r becomes q; the requests in flight learn that row x was written.
ListWrote(r, q, x) ==
  listReq' = [o \in Request |->
                IF o = r THEN q
                ELSE [listReq[o] EXCEPT !.other = IF listReq[o].pc = "idle" THEN @
                                                  ELSE @ \cup {x}]]

-----------------------------------------------------------------------------
\* reorder: rows that are gone may be named, a page shown earlier held them.
BeginReorder(r) ==
  /\ listReq[r].pc = "idle"
  /\ \E want \in Wishes :
       listReq' = [listReq EXCEPT ![r] =
         [ListIdle EXCEPT !.pc = IF listKind = "in turn" THEN "check" ELSE "write",
                          !.want = want, !.todo = DOMAIN want]]
  /\ UNCHANGED <<listKind, place>>

\* reorderCategories and reorderAttachments: each row is looked at first.
CheckRow(r) ==
  LET q == listReq[r] IN
  /\ q.pc = "check"
  /\ \E x \in q.todo :
       LET rest == q.todo \ {x} IN
       listReq' = [listReq EXCEPT ![r] =
         IF x \notin Rows THEN ListIdle
         ELSE IF rest # {} THEN [q EXCEPT !.todo = rest]
         ELSE [q EXCEPT !.pc = "write", !.todo = DOMAIN q.want]]
  /\ UNCHANGED <<listKind, place>>

\* Mutant: the answer does not wait for the last row.
AnsweredEarly(todo) == Cardinality(todo) <= 1

Answered(todo) == todo = {}

\* An update of a row: the answer comes with the last one.
WriteRow(r) ==
  LET q == listReq[r] IN
  /\ q.pc = "write"
  /\ \E x \in q.todo \cap Rows :
       LET rest == q.todo \ {x} IN
       /\ place' = [place EXCEPT ![x] = q.want[x]]
       /\ ListWrote(r, [q EXCEPT !.todo = rest, !.other = @ \ {x},
                                 !.pc = IF Answered(rest) THEN "done" ELSE "write"], x)
  /\ UNCHANGED listKind

\* A row that is gone, or a failure of the database: the client hears of it at
\* once.  The loop ends there; what Promise.all has sent stays under way.
RefuseRow(r) ==
  LET q == listReq[r] IN
  /\ q.pc = "write"
  /\ \E x \in q.todo :
       listReq' = [listReq EXCEPT ![r] =
         [q EXCEPT !.pc = "failed",
                   !.todo = IF listKind = "together" THEN @ \ {x} ELSE {}]]
  /\ UNCHANGED <<listKind, place>>

\* The updates that are still under way after the answer.
Straggle(r) ==
  LET q == listReq[r] IN
  /\ q.pc = "failed"
  /\ \E x \in q.todo :
       /\ place' = [place EXCEPT ![x] = IF x \in Rows THEN q.want[x] ELSE NONE]
       /\ ListWrote(r, [q EXCEPT !.todo = @ \ {x}], x)
  /\ UNCHANGED listKind

\* The client has its answer, and nothing is under way any more.
EndReorder(r) ==
  /\ listReq[r].pc \in {"done", "failed"} /\ listReq[r].todo = {}
  /\ listReq' = [listReq EXCEPT ![r] = ListIdle]
  /\ UNCHANGED <<listKind, place>>

\* Another route writes the order column of a row, deletes it or adds it.
EditRow(x) ==
  /\ \E p \in Place \cup {NONE} : place' = [place EXCEPT ![x] = p]
  /\ ListWrote(NONE, ListIdle, x)
  /\ UNCHANGED listKind

ListNext == \/ \E r \in Request : \/ BeginReorder(r) \/ CheckRow(r) \/ WriteRow(r)
                                  \/ RefuseRow(r) \/ Straggle(r) \/ EndReorder(r)
            \/ \E x \in Row : EditRow(x)

ListSpec == ListInit /\ [][ListNext]_listVars

-----------------------------------------------------------------------------
(* Properties *)

\* Places and requests are well formed.
ListTypeOK == /\ listKind \in Lists
              /\ place \in [Row -> Place \cup {NONE}]
              /\ listReq \in [Request -> ListReqs]

\* reorder: when success is answered, every row stands where the request put it,
\* unless another handler wrote that row meanwhile.
OrderAsAnswered ==
  \A r \in Request :
    listReq[r].pc = "done" =>
      \A x \in DOMAIN listReq[r].want \ listReq[r].other :
        place[x] = listReq[r].want[x]
=============================================================================
