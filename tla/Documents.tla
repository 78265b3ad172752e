----------------------------- MODULE Documents ------------------------------
(***************************************************************************)
(* The document library (DocumentService): documents with their file, the  *)
(* versions uploaded later, the log of downloads and the counter kept on   *)
(* the document itself.                                                    *)
(*                                                                         *)
(* generateKey never repeats a name, so a document is identified with the  *)
(* name of the file it was uploaded with, and a version with its file and  *)
(* its label.                                                              *)
(***************************************************************************)
EXTENDS Handlers, Sequences

CONSTANTS DocFile, MaxDownloads

ASSUME DocAssumption == NONE \notin DocFile /\ MaxDownloads \in Nat

VARIABLES docStore,  \* the names of the files in the store
          docUsed,   \* every name ever generated
          docs,      \* the rows of documents
          docVer,    \* the version column of each document
          docVers,   \* the version rows of each document, oldest first
          docLog,    \* how many download rows each document has
          docCount,  \* the downloadCount column
          docReq,    \* the requests in flight
          docHalf,   \* history: documents whose deletion stopped half way
          docLeaked, \* history: files that may stay without a row
          docMixed,  \* history: documents whose label another write or a failure left
          docMissed  \* history: downloads that were logged and never counted

docData == <<docStore, docUsed, docs, docVer, docVers>>
docDown == <<docLog, docCount>>
docHist == <<docHalf, docLeaked, docMixed, docMissed>>
docVars == <<docData, docDown, docReq, docHist>>

-----------------------------------------------------------------------------
\* A request: its step, its document, the file it uploaded and, in a bulk
\* deletion, the documents still to come.
DocReqs == [pc : {"idle", "insert", "find", "file", "downloads", "versions",
                  "row", "log", "count", "bump", "vput", "vrow", "vset"},
            d : DocFile \cup {NONE}, f : DocFile \cup {NONE}, todo : SUBSET DocFile]

\* The steps of a deletion that come after the file's.
DocUnderWay == {"downloads", "versions", "row"}

DocIdle == [pc |-> "idle", d |-> NONE, f |-> NONE, todo |-> {}]

DocInit == /\ docStore = {} /\ docUsed = {} /\ docs = {}
           /\ docVer = [f \in DocFile |-> NONE] /\ docVers = [f \in DocFile |-> <<>>]
           /\ docLog = [f \in DocFile |-> 0] /\ docCount = [f \in DocFile |-> 0]
           /\ docReq = [r \in Request |-> DocIdle]
           /\ docHalf = {} /\ docLeaked = {} /\ docMixed = {}
           /\ docMissed = [f \in DocFile |-> 0]

DocGoto(r, q) == docReq' = [docReq EXCEPT ![r] = q]

DocAt(r, pc) == docReq[r].pc = pc

\* The newest version row.  The rows stand in the order of their createdAt, which
\* is taken when the INSERT is issued, see DocInsertVersion.
DocNewest(d) == IF docVers[d] = <<>> THEN NONE ELSE docVers[d][Len(docVers[d])]

DocFiles(d) == {docVers[d][i] : i \in DOMAIN docVers[d]}

\* getDownloadStatistics counts the rows, not the column.
DocTotalDownloads(d) == docLog[d]

\* Mutant: a name that is only free in the store.
DocFreeNames == DocFile \ docStore

\* generateKey: a name that was never generated.
DocNewNames == DocFile \ docUsed

-----------------------------------------------------------------------------
\* uploadDocument: the file passes validateFile and is stored under a new name.
DocUpload(r) ==
  /\ DocAt(r, "idle")
  /\ \E f \in DocNewNames :
       /\ docStore' = docStore \cup {f}
       /\ docUsed' = docUsed \cup {f}
       /\ DocGoto(r, [DocIdle EXCEPT !.pc = "insert", !.f = f])
  /\ UNCHANGED <<docs, docVer, docVers, docDown, docHist>>

\* validateDocument refuses the metadata, and the file stays in the store.
DocRefuse(r) ==
  /\ DocAt(r, "insert")
  /\ docLeaked' = docLeaked \cup {docReq[r].f}
  /\ DocGoto(r, DocIdle)
  /\ UNCHANGED <<docData, docDown, docHalf, docMixed, docMissed>>

DocInsert(r) ==
  /\ DocAt(r, "insert")
  /\ docs' = docs \cup {docReq[r].f}
  /\ DocGoto(r, DocIdle)
  /\ UNCHANGED <<docStore, docUsed, docVer, docVers, docDown, docHist>>

\* updateDocument, and each turn of bulkUpdate: the client may set any label.
DocUpdate(d) ==
  /\ d \in docs
  /\ \E v \in {docVer[d], NONE} \cup DocFiles(d) :
       /\ docVer' = [docVer EXCEPT ![d] = v]
       /\ docMixed' = IF v = docVer[d] THEN docMixed ELSE docMixed \cup {d}
  /\ UNCHANGED <<docStore, docUsed, docs, docVers, docDown, docReq,
                 docHalf, docLeaked, docMissed>>

-----------------------------------------------------------------------------
\* The next document of a bulk deletion: a failure of one does not stop the rest.
DocNextOf(q, todo) ==
  IF todo = {} THEN {DocIdle}
  ELSE {[q EXCEPT !.pc = "find", !.d = d, !.todo = todo \ {d}] : d \in todo}

\* deleteDocument and bulkDelete.
DocBeginDelete(r) ==
  /\ DocAt(r, "idle")
  /\ \E D \in SUBSET docs \ {{}} : \E q \in DocNextOf(DocIdle, D) : DocGoto(r, q)
  /\ UNCHANGED <<docData, docDown, docHist>>

\* findById finds the document, or the turn ends (DocDeleteFails).
DocFind(r) ==
  /\ DocAt(r, "find") /\ docReq[r].d \in docs
  /\ DocGoto(r, [docReq[r] EXCEPT !.pc = "file"])
  /\ UNCHANGED <<docData, docDown, docHist>>

\* Mutant: the file is kept.
DocWithoutNone(d) == docStore

DocWithout(d) == docStore \ {d}

\* The file goes first; an error of the store is logged and ignored.
DocDeleteFile(r) ==
  LET d == docReq[r].d IN
  /\ DocAt(r, "file")
  /\ DocGoto(r, [docReq[r] EXCEPT !.pc = "downloads"])
  /\ \/ docStore' = DocWithout(d) /\ docLeaked' = docLeaked \ {d}
     \/ docLeaked' = docLeaked \cup ({d} \cap docStore) /\ UNCHANGED docStore
  /\ UNCHANGED <<docUsed, docs, docVer, docVers, docDown, docHalf, docMixed, docMissed>>

DocDeleteDownloads(r) ==
  /\ DocAt(r, "downloads")
  /\ docLog' = [docLog EXCEPT ![docReq[r].d] = 0]
  /\ DocGoto(r, [docReq[r] EXCEPT !.pc = "versions"])
  /\ UNCHANGED <<docData, docCount, docHist>>

\* The version rows go, their files stay.
DocDeleteVersions(r) ==
  LET d == docReq[r].d IN
  /\ DocAt(r, "versions")
  /\ docVers' = [docVers EXCEPT ![d] = <<>>]
  /\ docLeaked' = docLeaked \cup DocFiles(d)
  /\ DocGoto(r, [docReq[r] EXCEPT !.pc = "row"])
  /\ UNCHANGED <<docStore, docUsed, docs, docVer, docDown, docHalf, docMixed, docMissed>>

\* The row goes, and the database removes what refers to it meanwhile.
DocDeleteRow(r) ==
  LET d == docReq[r].d IN
  /\ DocAt(r, "row") /\ d \in docs
  /\ docs' = docs \ {d}
  /\ docVers' = [docVers EXCEPT ![d] = <<>>]
  /\ docLeaked' = docLeaked \cup DocFiles(d)
  /\ docLog' = [docLog EXCEPT ![d] = 0] /\ docCount' = [docCount EXCEPT ![d] = 0]
  /\ docVer' = [docVer EXCEPT ![d] = NONE]
  /\ docHalf' = docHalf \ {d} /\ docMixed' = docMixed \ {d}
  /\ docMissed' = [docMissed EXCEPT ![d] = 0]
  /\ \E q \in DocNextOf(docReq[r], docReq[r].todo) : DocGoto(r, q)
  /\ UNCHANGED <<docStore, docUsed>>

\* An error, or a document that is gone, ends this turn of the deletion.
DocDeleteFails(r) ==
  LET q == docReq[r] IN
  /\ q.pc \in {"find", "file"} \cup DocUnderWay
  /\ docHalf' = docHalf \cup (IF q.pc \in DocUnderWay THEN {q.d} \cap docs ELSE {})
  /\ \E p \in DocNextOf(q, q.todo) : DocGoto(r, p)
  /\ UNCHANGED <<docData, docDown, docLeaked, docMixed, docMissed>>

-----------------------------------------------------------------------------
DocLoading(d) == {r \in Request : docReq[r].d = d /\ docReq[r].pc \in {"log", "count", "bump"}}

\* downloadDocument: only a client with an address and an agent is logged.
DocBeginDownload(r) ==
  /\ DocAt(r, "idle")
  /\ \E d \in docs, pc \in {"log", "bump"} :
       /\ docCount[d] + docMissed[d] + Cardinality(DocLoading(d)) < MaxDownloads
       /\ DocGoto(r, [DocIdle EXCEPT !.pc = pc, !.d = d])
  /\ UNCHANGED <<docData, docDown, docHist>>

\* Mutant: the logged download is not counted.
DocAfterLogDone(q) == DocIdle

DocAfterLog(q) == [q EXCEPT !.pc = "count"]

\* A download row needs its document.
DocLogDownload(r) ==
  LET d == docReq[r].d IN
  /\ DocAt(r, "log") /\ d \in docs
  /\ docLog' = [docLog EXCEPT ![d] = @ + 1]
  /\ DocGoto(r, DocAfterLog(docReq[r]))
  /\ UNCHANGED <<docData, docCount, docHist>>

\* incrementDownloadCount is one statement of the database.
DocCountDownload(r) ==
  /\ docReq[r].pc \in {"count", "bump"} /\ docReq[r].d \in docs
  /\ docCount' = [docCount EXCEPT ![docReq[r].d] = @ + 1]
  /\ DocGoto(r, DocIdle)
  /\ UNCHANGED <<docData, docLog, docHist>>

-----------------------------------------------------------------------------
\* createDocumentVersion.
DocBeginVersion(r) ==
  /\ DocAt(r, "idle")
  /\ \E d \in docs : DocGoto(r, [DocIdle EXCEPT !.pc = "vput", !.d = d])
  /\ UNCHANGED <<docData, docDown, docHist>>

\* Mutant: the new version takes the place of the document's file.
DocStoredInstead(d, f) == (docStore \ {d}) \cup {f}

DocStored(d, f) == docStore \cup {f}

DocPutVersion(r) ==
  /\ DocAt(r, "vput")
  /\ \E f \in DocNewNames :
       /\ docStore' = DocStored(docReq[r].d, f)
       /\ docUsed' = docUsed \cup {f}
       /\ DocGoto(r, [docReq[r] EXCEPT !.pc = "vrow", !.f = f])
  /\ UNCHANGED <<docs, docVer, docVers, docDown, docHist>>

\* The date and the INSERT are one step: two overlapping uploads that are dated in
\* one order and inserted in the other are not told apart from uploads in order.
DocInsertVersion(r) ==
  LET q == docReq[r] IN
  /\ DocAt(r, "vrow") /\ q.d \in docs
  /\ docVers' = [docVers EXCEPT ![q.d] = Append(@, q.f)]
  /\ DocGoto(r, [q EXCEPT !.pc = "vset"])
  /\ UNCHANGED <<docStore, docUsed, docs, docVer, docDown, docHist>>

\* Mutant: the label is set only on a document that has none.
DocLabelFirst(d, f) == IF docVer[d] = NONE THEN f ELSE docVer[d]

DocLabel(d, f) == f

\* A label that is not the newest one comes from an overtaken upload.
DocSetVersion(r) ==
  LET q == docReq[r] IN
  /\ DocAt(r, "vset") /\ q.d \in docs
  /\ docVer' = [docVer EXCEPT ![q.d] = DocLabel(q.d, q.f)]
  /\ docMixed' = IF DocNewest(q.d) = q.f THEN docMixed \ {q.d} ELSE docMixed \cup {q.d}
  /\ DocGoto(r, DocIdle)
  /\ UNCHANGED <<docStore, docUsed, docs, docVers, docDown, docHalf, docLeaked, docMissed>>

-----------------------------------------------------------------------------
\* A database or store error, a document that is gone, or a crash ends a request.
DocAbort(r) ==
  LET q == docReq[r] IN
  /\ q.pc # "idle"
  /\ docHalf' = docHalf \cup (IF q.pc \in DocUnderWay THEN {q.d} \cap docs ELSE {})
  /\ docLeaked' = docLeaked \cup (IF q.pc \in {"insert", "vrow"} THEN {q.f} ELSE {})
  /\ docMixed' = docMixed \cup (IF q.pc = "vset" THEN {q.d} \cap docs ELSE {})
  /\ docMissed' = IF q.pc = "count" /\ q.d \in docs THEN [docMissed EXCEPT ![q.d] = @ + 1] ELSE docMissed
  /\ DocGoto(r, DocIdle)
  /\ UNCHANGED <<docData, docDown>>

DocHandler(r) ==
  \/ DocUpload(r) \/ DocRefuse(r) \/ DocInsert(r)
  \/ DocBeginDelete(r) \/ DocFind(r) \/ DocDeleteFile(r) \/ DocDeleteDownloads(r)
  \/ DocDeleteVersions(r) \/ DocDeleteRow(r) \/ DocDeleteFails(r)
  \/ DocBeginDownload(r) \/ DocLogDownload(r) \/ DocCountDownload(r)
  \/ DocBeginVersion(r) \/ DocPutVersion(r) \/ DocInsertVersion(r) \/ DocSetVersion(r)
  \/ DocAbort(r)

DocNext == \/ \E r \in Request : DocHandler(r)
           \/ \E d \in DocFile : DocUpdate(d)

DocSpec == DocInit /\ [][DocNext]_docVars
-----------------------------------------------------------------------------
(* Properties *)

\* The rows, files and requests of DocumentService are well formed, and what
\* refers to a document goes with it.
DocTypeOK ==
  /\ docUsed \subseteq DocFile /\ docStore \subseteq docUsed /\ docs \subseteq docUsed
  /\ docVer \in [DocFile -> DocFile \cup {NONE}]
  /\ docLog \in [DocFile -> 0..MaxDownloads] /\ docCount \in [DocFile -> 0..MaxDownloads]
  /\ docReq \in [Request -> DocReqs]
  /\ \A d \in DocFile : /\ DocFiles(d) \subseteq docUsed
                     /\ d \notin docs => docVers[d] = <<>> /\ docLog[d] = 0

\* A document whose file is gone (deleteDocument) is being deleted, or a deletion
\* stopped half way: no upload of a version and no other deletion takes it.
DocFilesPresent ==
  \A d \in docs \ (docStore \cup docHalf) :
    \E r \in Request : docReq[r].d = d /\ docReq[r].pc \in DocUnderWay

\* A file that no document and no version names is about to be named by its
\* upload, unless the metadata was refused, the row failed, the store did not
\* delete it, or it was a version of a deleted document (uploadDocument,
\* createDocumentVersion, deleteDocument).
DocFilesExplained ==
  \A f \in docStore \ (docs \cup docLeaked) :
    \/ \E d \in docs : f \in DocFiles(d)
    \/ \E r \in Request : docReq[r].f = f /\ docReq[r].pc \in {"insert", "vrow"}

\* The analytics of a document (getDownloadStatistics) never report more
\* downloads than its counter holds, but for those that are between the log and
\* the counter, or that failed there.
DocDownloadsCounted ==
  \A d \in docs :
    DocTotalDownloads(d) <=
      docCount[d] + docMissed[d]
      + Cardinality({r \in Request : docReq[r].d = d /\ DocAt(r, "count")})

\* A document's label names its newest version row (createDocumentVersion),
\* unless the newest upload is about to write it, an administrator or an
\* overtaken upload wrote another, the last write failed, or the rows are being
\* deleted.
DocNewestNamed ==
  \A d \in docs \ (docMixed \cup docHalf) :
    \/ docVer[d] = DocNewest(d)
    \/ \E r \in Request : /\ docReq[r].d = d
                          /\ \/ DocAt(r, "vset") /\ docReq[r].f = DocNewest(d)
                             \/ DocAt(r, "row")

-----------------------------------------------------------------------------
(* Documents implement the life cycle of their files. *)

docStatus == [f \in DocFile |->
                IF f \notin docUsed THEN "new"
                ELSE IF f \in docs THEN IF f \in docStore THEN "present" ELSE "bereft"
                ELSE IF f \in docStore THEN "filed" ELSE "gone"]

DocFileCycle == INSTANCE FileLifecycle WITH File <- DocFile, status <- docStatus

\* Every step of uploads, versions, deletions and failures (DocumentService) is a
\* step in the life of one file: a document gets its row with its file there, and
\* no overlap of deletions and uploads brings back a file or a row that is gone.
DocImplementsFileLifecycle == DocFileCycle!Spec
=============================================================================
