------------------------------- MODULE Search -------------------------------
(***************************************************************************)
(* The search index (SearchIndexService, SearchService).  A row belongs to *)
(* a content, of which no key makes it the only one.  Reindexing finds a   *)
(* row by its content and updates it in another statement; bulkReindex     *)
(* does that for every row of a snapshot and counts failures.              *)
(***************************************************************************)
EXTENDS Handlers

CONSTANTS Entry,  \* identifiers of index rows, each used once
          Indexed \* the contents they belong to

ASSUME SearchAssumption == NONE \notin Entry \cup Indexed

VARIABLES entryOf,  \* the content a row was created with, NONE before
          entries,  \* the rows there are
          srcReq    \* the requests in flight

srcVars == <<entryOf, entries, srcReq>>

-----------------------------------------------------------------------------
\* A request: the rows of its snapshot, those still to do, the one whose turn it
\* is and the row found for it, those that failed; and, as history, the rows
\* reindexed by anyone and the contents that had two rows since its snapshot.
SrcReqs == [pc : {"idle", "next", "update", "done"}, snap : SUBSET Entry,
            todo : SUBSET Entry, turn : Entry \cup {NONE}, row : Entry \cup {NONE},
            failed : SUBSET Entry, fresh : SUBSET Entry, twins : SUBSET Indexed]

SrcIdle == [pc |-> "idle", snap |-> {}, todo |-> {}, turn |-> NONE, row |-> NONE,
            failed |-> {}, fresh |-> {}, twins |-> {}]

SrcInit == /\ entryOf = [e \in Entry |-> NONE]
           /\ entries = {}
           /\ srcReq = [r \in Request |-> SrcIdle]

\* The contents with two rows or more.
Twinned == {entryOf[e] : e \in {x \in entries :
                                  \E y \in entries \ {x} : entryOf[y] = entryOf[x]}}

\* Mutant: any row will do.
FoundBlind(c) == entries

\* findByContent: findFirst, of several rows any.
Found(c) == {e \in entries : entryOf[e] = c}

-----------------------------------------------------------------------------
\* createIndex: nothing asks whether the content has a row.
CreateEntry(e) ==
  /\ entryOf[e] = NONE
  /\ \E c \in Indexed : entryOf' = [entryOf EXCEPT ![e] = c]
  /\ entries' = entries \cup {e}
  /\ srcReq' = [r \in Request |->
                  IF srcReq[r].pc = "idle" THEN srcReq[r]
                  ELSE [srcReq[r] EXCEPT !.twins = @ \cup Twinned']]

\* deleteIndex.
DeleteEntry(e) ==
  /\ e \in entries
  /\ entries' = entries \ {e}
  /\ UNCHANGED <<entryOf, srcReq>>

\* bulkReindex reads the rows; reindexContent of one content is the same with one.
BeginReindex(r) ==
  /\ srcReq[r].pc = "idle"
  /\ \E rows \in {entries} \cup {{e} : e \in entries} :
       srcReq' = [srcReq EXCEPT ![r] =
         [SrcIdle EXCEPT !.pc = "next", !.snap = rows, !.todo = rows, !.twins = Twinned]]
  /\ UNCHANGED <<entryOf, entries>>

\* reindex: findByContent for the next row of the snapshot, which fails when its
\* content has no row any more.
FindEntry(r) ==
  LET q == srcReq[r] IN
  /\ q.pc = "next"
  /\ \E e \in q.todo :
       LET found == Found(entryOf[e]) IN
       \/ \E x \in found :
            srcReq' = [srcReq EXCEPT ![r] =
              [q EXCEPT !.pc = "update", !.todo = @ \ {e}, !.turn = e, !.row = x]]
       \/ /\ found = {}
          /\ srcReq' = [srcReq EXCEPT ![r] =
               [q EXCEPT !.todo = @ \ {e}, !.failed = @ \cup {e}]]
  /\ UNCHANGED <<entryOf, entries>>

\* The update: it stamps the row found, or fails when that is gone.
UpdateEntry(r) ==
  LET q    == srcReq[r]
      done == [q EXCEPT !.pc = "next", !.turn = NONE, !.row = NONE]
  IN
  /\ q.pc = "update"
  /\ srcReq' = IF q.row \in entries
               THEN [o \in Request |->
                       [(IF o = r THEN done ELSE srcReq[o]) EXCEPT !.fresh =
                          IF srcReq[o].pc = "idle" THEN @ ELSE @ \cup {q.row}]]
               ELSE [srcReq EXCEPT ![r] = [done EXCEPT !.failed = @ \cup {q.turn}]]
  /\ UNCHANGED <<entryOf, entries>>

\* The answer counts the rows that failed.
AnswerReindex(r) ==
  /\ srcReq[r].pc = "next" /\ srcReq[r].todo = {}
  /\ srcReq' = [srcReq EXCEPT ![r].pc = "done"]
  /\ UNCHANGED <<entryOf, entries>>

SrcEnd(r) == /\ srcReq[r].pc # "idle"
             /\ srcReq' = [srcReq EXCEPT ![r] = SrcIdle]
             /\ UNCHANGED <<entryOf, entries>>

SrcNext == \/ \E e \in Entry : CreateEntry(e) \/ DeleteEntry(e)
           \/ \E r \in Request : \/ BeginReindex(r) \/ FindEntry(r) \/ UpdateEntry(r)
                                 \/ AnswerReindex(r) \/ SrcEnd(r)

SrcSpec == SrcInit /\ [][SrcNext]_srcVars

-----------------------------------------------------------------------------
(* Properties *)

\* Rows and requests are well formed.
SrcTypeOK == /\ entryOf \in [Entry -> Indexed \cup {NONE}]
             /\ entries \subseteq {e \in Entry : entryOf[e] # NONE}
             /\ srcReq \in [Request -> SrcReqs]

\* bulkReindex: every row of its snapshot that it does not report as failed has
\* been reindexed since, unless the row is gone or its content had two rows.
SuccessMeansReindexed ==
  \A r \in Request :
    srcReq[r].pc = "done" =>
      \A e \in (srcReq[r].snap \cap entries) \ srcReq[r].failed :
        e \in srcReq[r].fresh \/ entryOf[e] \in srcReq[r].twins
=============================================================================
