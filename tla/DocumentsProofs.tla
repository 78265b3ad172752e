-------------------------- MODULE DocumentsProofs ---------------------------
(* What holds of documents, their files, versions and downloads for every    *)
(* number of documents, files and requests in flight.                        *)
EXTENDS Documents, FiniteSetTheorems, TLAPS

(***************************************************************************)
(* The inductive invariant.                                                *)
(***************************************************************************)

\* The tables are well formed, and nothing refers to a document that is gone.
DocShape ==
  /\ docUsed \subseteq DocFile /\ docStore \subseteq docUsed /\ docs \subseteq docUsed
  /\ docVer \in [DocFile -> DocFile \cup {NONE}]
  /\ docVers \in [DocFile -> Seq(DocFile)]
  /\ \A d \in DocFile : \A i \in DOMAIN docVers[d] : docVers[d][i] \in docUsed
  /\ docLog \in [DocFile -> Nat] /\ docCount \in [DocFile -> Nat] /\ docMissed \in [DocFile -> Nat]
  /\ docReq \in [Request -> DocReqs]
  /\ \A d \in DocFile \ docs : docVers[d] = <<>> /\ docLog[d] = 0 /\ docVer[d] = NONE

\* A request knows documents that were uploaded; a document about to get its row
\* has its file and is nobody else's; a file that a deletion is past is gone, or
\* known to have stayed.
DocOwnInv ==
  \A r \in Request :
    LET q == docReq[r] IN
    /\ q.d \in docUsed \cup {NONE} /\ q.todo \subseteq docUsed
    /\ q.pc \notin {"idle", "insert"} => q.d \in docUsed
    /\ q.pc \in {"insert", "vrow", "vset"} => q.f \in docUsed
    /\ q.pc = "insert" =>
         /\ q.f \in docStore \ docs
         /\ \A o \in Request : /\ docReq[o].d # q.f /\ q.f \notin docReq[o].todo
                               /\ o # r /\ docReq[o].pc = "insert" => docReq[o].f # q.f
    /\ q.pc \in DocUnderWay => q.d \notin docStore \ docLeaked

\* The requests that have logged a download and not counted it.
Counting(d) == {r \in Request : docReq[r].d = d /\ docReq[r].pc = "count"}

\* A logged download is counted, missed or about to be counted.
CountInv ==
  \A d \in DocFile :
    /\ docLog[d] <= docCount[d] + docMissed[d] + Cardinality(Counting(d))
    /\ docCount[d] + docMissed[d] + Cardinality(DocLoading(d)) <= MaxDownloads

DocIInv == /\ DocShape /\ DocOwnInv /\ CountInv
           /\ DocFilesPresent /\ DocFilesExplained /\ DocNewestNamed

(***************************************************************************)
(* Requests and their numbers.                                             *)
(***************************************************************************)

\* The empty slot is a well-formed request for nothing.
LEMMA DocIdleType ==
  DocIdle \in DocReqs /\ DocIdle.pc = "idle" /\ DocIdle.d = NONE /\ DocIdle.todo = {}
  BY DEF DocIdle, DocReqs

\* The empty list has no positions.
LEMMA EmptyDomain == DOMAIN <<>> = {}
  OBVIOUS

\* What Append does to a list of versions.
LEMMA AppendVersion ==
  ASSUME NEW s \in Seq(DocFile), NEW f \in DocFile, NEW t, t = Append(s, f)
  PROVE  /\ t \in Seq(DocFile) /\ t # <<>> /\ t[Len(t)] = f /\ Len(t) \in DOMAIN t
         /\ \A i \in DOMAIN t : t[i] = f \/ (i \in DOMAIN s /\ t[i] = s[i])
         /\ \A i \in DOMAIN s : i \in DOMAIN t /\ t[i] = s[i]
<1>1. t \in Seq(DocFile) /\ Len(t) = Len(s) + 1 /\ Len(s) \in Nat
  OBVIOUS
<1>2. DOMAIN t = 1..Len(t) /\ DOMAIN s = 1..Len(s)
  BY <1>1
<1>3. t[Len(s) + 1] = f
  OBVIOUS
<1>4. \A i \in 1..Len(s) : t[i] = s[i]
  OBVIOUS
<1>5. Len(t) \in DOMAIN t /\ t # <<>>
  BY <1>1, <1>2, EmptyDomain
<1>6. ASSUME NEW i \in DOMAIN t PROVE t[i] = f \/ (i \in DOMAIN s /\ t[i] = s[i])
  <2>1. i = Len(s) + 1 \/ i \in 1..Len(s)
    BY <1>1, <1>2
  <2> QED BY <1>2, <1>3, <1>4, <2>1
<1>7. ASSUME NEW i \in DOMAIN s PROVE i \in DOMAIN t /\ t[i] = s[i]
  <2>1. i \in 1..Len(t)
    BY <1>1, <1>2
  <2> QED BY <1>2, <1>4, <2>1
<1> QED BY <1>1, <1>3, <1>5, <1>6, <1>7

\* The next turn of a bulk deletion is about a document of its list.
LEMMA NextOfType ==
  ASSUME NEW q \in DocReqs, NEW D \in SUBSET DocFile, NEW n \in DocNextOf(q, D)
  PROVE  /\ n \in DocReqs /\ n.pc \in {"idle", "find"} /\ n.d \in D \cup {NONE}
         /\ n.todo \subseteq D /\ (n.pc = "find" => n.d \in D)
<1>1. CASE D = {}
  BY <1>1, DocIdleType DEF DocNextOf
<1>2. CASE D # {}
  <2>1. PICK d \in D : n = [q EXCEPT !.pc = "find", !.d = d, !.todo = D \ {d}]
    BY <1>2 DEF DocNextOf
  <2> QED BY <2>1 DEF DocReqs
<1> QED BY <1>1, <1>2

\* Counting requests one by one.
LEMMA CardStep ==
  ASSUME NEW S \in SUBSET Request, NEW r \in Request
  PROVE  /\ Cardinality(S) \in Nat
         /\ r \notin S => Cardinality(S \cup {r}) = Cardinality(S) + 1
         /\ r \in S => Cardinality(S \ {r}) = Cardinality(S) - 1
<1>1. IsFiniteSet(S)
  BY HandlersAssumption, FS_Subset
<1> QED BY <1>1, FS_CardinalityType, FS_AddElement, FS_RemoveElement

\* Never more requests are about to count than are downloading.
LEMMA CardCounting ==
  ASSUME NEW d PROVE Cardinality(Counting(d)) <= Cardinality(DocLoading(d))
<1>1. Counting(d) \subseteq DocLoading(d) /\ DocLoading(d) \subseteq Request
  BY DEF Counting, DocLoading
<1> QED BY <1>1, HandlersAssumption, FS_Subset

\* How the two sets follow the slot of one request.
LEMMA SlotSets ==
  ASSUME DocShape, NEW r \in Request, NEW q \in DocReqs, docReq' = [docReq EXCEPT ![r] = q], NEW d
  PROVE  /\ Counting(d)' = IF q.d = d /\ q.pc = "count" THEN Counting(d) \cup {r}
                           ELSE Counting(d) \ {r}
         /\ DocLoading(d)' = IF q.d = d /\ q.pc \in {"log", "count", "bump"}
                             THEN DocLoading(d) \cup {r} ELSE DocLoading(d) \ {r}
<1>1. docReq'[r] = q /\ \A o \in Request \ {r} : docReq'[o] = docReq[o]
  BY DEF DocShape
<1> QED BY <1>1 DEF Counting, DocLoading

(***************************************************************************)
(* Downloads.                                                              *)
(***************************************************************************)

\* A request that neither was nor becomes a download.
LEMMA NotADownload ==
  ASSUME DocShape, CountInv, NEW r \in Request, NEW q \in DocReqs,
         docReq' = [docReq EXCEPT ![r] = q], UNCHANGED <<docLog, docCount, docMissed>>,
         docReq[r].pc \notin {"log", "count", "bump"}, q.pc \notin {"log", "count", "bump"}
  PROVE  CountInv'
<1>1. ASSUME NEW d PROVE Counting(d)' = Counting(d) /\ DocLoading(d)' = DocLoading(d)
  <2>1. r \notin Counting(d) /\ r \notin DocLoading(d)
    BY DEF Counting, DocLoading
  <2>2. Counting(d)' = Counting(d) \ {r} /\ DocLoading(d)' = DocLoading(d) \ {r}
    BY SlotSets
  <2> QED BY <2>1, <2>2
<1> QED BY <1>1 DEF CountInv

\* Every step of a handler keeps account of the downloads.
LEMMA CountStep ==
  ASSUME DocIInv, NEW r \in Request, DocHandler(r)
  PROVE  CountInv'
<1> USE DocIdleType, DocAssumption
<1>0. /\ DocShape /\ DocOwnInv /\ CountInv /\ docReq \in [Request -> DocReqs]
      /\ docReq[r] \in DocReqs
  BY DEF DocIInv, DocShape
<1>1. \A d : Cardinality(Counting(d)) \in Nat /\ Cardinality(DocLoading(d)) \in Nat
  BY CardStep DEF Counting, DocLoading
<1>2. CASE \/ DocUpload(r) \/ DocRefuse(r) \/ DocInsert(r) \/ DocFind(r) \/ DocDeleteFile(r)
           \/ DocDeleteVersions(r) \/ DocBeginVersion(r) \/ DocPutVersion(r)
           \/ DocInsertVersion(r) \/ DocSetVersion(r)
  <2>1. /\ UNCHANGED <<docLog, docCount, docMissed>>
        /\ docReq[r].pc \notin {"log", "count", "bump"}
    BY <1>2 DEF DocUpload, DocRefuse, DocInsert, DocFind, DocDeleteFile, DocDeleteVersions,
                DocBeginVersion, DocPutVersion, DocInsertVersion, DocSetVersion, DocAt,
                docDown, docHist
  <2>2. \E q \in DocReqs : docReq' = [docReq EXCEPT ![r] = q] /\ q.pc \notin {"log", "count", "bump"}
    <3>1. CASE DocUpload(r)
      <4>1. PICK f \in DocFile : DocGoto(r, [DocIdle EXCEPT !.pc = "insert", !.f = f])
        BY <3>1 DEF DocUpload, DocNewNames
      <4>2. [DocIdle EXCEPT !.pc = "insert", !.f = f] \in DocReqs
        BY DEF DocIdle, DocReqs
      <4> QED BY <4>1, <4>2 DEF DocGoto, DocIdle
    <3>2. CASE DocRefuse(r) \/ DocInsert(r) \/ DocSetVersion(r)
      BY <3>2 DEF DocRefuse, DocInsert, DocSetVersion, DocGoto
    <3>3. CASE DocBeginVersion(r)
      <4>1. PICK d \in docs : DocGoto(r, [DocIdle EXCEPT !.pc = "vput", !.d = d])
        BY <3>3 DEF DocBeginVersion
      <4>2. [DocIdle EXCEPT !.pc = "vput", !.d = d] \in DocReqs
        BY <1>0 DEF DocIdle, DocReqs, DocShape
      <4> QED BY <4>1, <4>2 DEF DocGoto, DocIdle
    <3>4. CASE DocPutVersion(r)
      <4>1. PICK f \in DocFile : DocGoto(r, [docReq[r] EXCEPT !.pc = "vrow", !.f = f])
        BY <3>4 DEF DocPutVersion, DocNewNames
      <4>2. [docReq[r] EXCEPT !.pc = "vrow", !.f = f] \in DocReqs
        BY <1>0 DEF DocReqs
      <4>3. [docReq[r] EXCEPT !.pc = "vrow", !.f = f].pc = "vrow"
        BY <1>0 DEF DocReqs
      <4> QED BY <4>1, <4>2, <4>3 DEF DocGoto
    <3>5. ASSUME NEW pc \in {"file", "downloads", "row", "vset"},
                 DocGoto(r, [docReq[r] EXCEPT !.pc = pc])
          PROVE  \E q \in DocReqs : docReq' = [docReq EXCEPT ![r] = q]
                                    /\ q.pc \notin {"log", "count", "bump"}
      <4>1. /\ [docReq[r] EXCEPT !.pc = pc] \in DocReqs
            /\ [docReq[r] EXCEPT !.pc = pc].pc = pc
        BY <1>0 DEF DocReqs
      <4> QED BY <3>5, <4>1 DEF DocGoto
    <3> QED BY <1>2, <3>1, <3>2, <3>3, <3>4, <3>5
            DEF DocFind, DocDeleteFile, DocDeleteVersions, DocInsertVersion
  <2> QED BY <1>0, <2>1, <2>2, NotADownload
<1>3. CASE DocBeginDelete(r)
  <2>0. PICK D \in SUBSET docs : \E n \in DocNextOf(DocIdle, D) : DocGoto(r, n)
    BY <1>3 DEF DocBeginDelete
  <2>1. PICK n \in DocNextOf(DocIdle, D) : DocGoto(r, n)
    BY <2>0
  <2>2. n \in DocReqs /\ n.pc \in {"idle", "find"}
    <3>1. D \in SUBSET DocFile
      BY <1>0 DEF DocShape
    <3> QED BY <3>1, NextOfType
  <2>3. UNCHANGED <<docLog, docCount, docMissed>> /\ docReq[r].pc = "idle"
    BY <1>3 DEF DocBeginDelete, DocAt, docDown, docHist
  <2> QED BY <1>0, <2>1, <2>2, <2>3, NotADownload DEF DocGoto
<1>4. CASE DocDeleteFails(r)
  <2>1. PICK n \in DocNextOf(docReq[r], docReq[r].todo) : DocGoto(r, n)
    BY <1>4 DEF DocDeleteFails
  <2>2. n \in DocReqs /\ n.pc \in {"idle", "find"}
    <3>1. docReq[r].todo \in SUBSET DocFile
      BY <1>0 DEF DocReqs
    <3> QED BY <1>0, <3>1, NextOfType
  <2>3. UNCHANGED <<docLog, docCount, docMissed>> /\ docReq[r].pc \notin {"log", "count", "bump"}
    BY <1>4 DEF DocDeleteFails, DocUnderWay, docDown
  <2> QED BY <1>0, <2>1, <2>2, <2>3, NotADownload DEF DocGoto
\* A deletion forgets the downloads of its document.
<1>5. CASE DocDeleteDownloads(r) \/ DocDeleteRow(r)
  <2> DEFINE e == docReq[r].d
  <2>1. /\ docReq[r].pc \in {"downloads", "row"}
        /\ docLog' = [docLog EXCEPT ![e] = 0]
        /\ \/ UNCHANGED <<docCount, docMissed>>
           \/ docCount' = [docCount EXCEPT ![e] = 0] /\ docMissed' = [docMissed EXCEPT ![e] = 0]
    BY <1>5 DEF DocDeleteDownloads, DocDeleteRow, DocAt, docHist
  <2>2. \E q \in DocReqs : docReq' = [docReq EXCEPT ![r] = q] /\ q.pc \notin {"log", "count", "bump"}
    <3>1. CASE DocDeleteDownloads(r)
      <4>1. /\ [docReq[r] EXCEPT !.pc = "versions"] \in DocReqs
            /\ [docReq[r] EXCEPT !.pc = "versions"].pc = "versions"
        BY <1>0 DEF DocReqs
      <4> QED BY <3>1, <4>1 DEF DocDeleteDownloads, DocGoto
    <3>2. CASE DocDeleteRow(r)
      <4>1. PICK n \in DocNextOf(docReq[r], docReq[r].todo) : DocGoto(r, n)
        BY <3>2 DEF DocDeleteRow
      <4>2. docReq[r].todo \in SUBSET DocFile
        BY <1>0 DEF DocReqs
      <4>3. n \in DocReqs /\ n.pc \in {"idle", "find"}
        BY <1>0, <4>2, NextOfType
      <4> QED BY <4>1, <4>3 DEF DocGoto
    <3> QED BY <1>5, <3>1, <3>2
  <2> SUFFICES ASSUME NEW d \in DocFile
               PROVE  /\ docLog'[d] <= docCount'[d] + docMissed'[d] + Cardinality(Counting(d)')
                      /\ docCount'[d] + docMissed'[d] + Cardinality(DocLoading(d)') <= MaxDownloads
    BY DEF CountInv
  <2>3. Counting(d)' = Counting(d) /\ DocLoading(d)' = DocLoading(d)
    <3>1. r \notin Counting(d) /\ r \notin DocLoading(d)
      BY <2>1 DEF Counting, DocLoading
    <3>2. Counting(d)' = Counting(d) \ {r} /\ DocLoading(d)' = DocLoading(d) \ {r}
      BY <1>0, <2>2, SlotSets
    <3> QED BY <3>1, <3>2
  <2> DEFINE n == Cardinality(Counting(d))
             l == Cardinality(DocLoading(d))
  <2>4. /\ docLog[d] \in Nat /\ docCount[d] \in Nat /\ docMissed[d] \in Nat /\ n \in Nat /\ l \in Nat
        /\ docLog[d] <= docCount[d] + docMissed[d] + n
        /\ docCount[d] + docMissed[d] + l <= MaxDownloads
    BY <1>0, <1>1 DEF CountInv, DocShape
  <2>5. /\ docLog'[d] \in {docLog[d], 0}
        /\ \/ docCount'[d] = docCount[d] /\ docMissed'[d] = docMissed[d]
           \/ docLog'[d] = 0 /\ docCount'[d] = 0 /\ docMissed'[d] = 0
    BY <1>0, <2>1 DEF DocShape
  <2> HIDE DEF n, l
  <2>6. /\ docLog'[d] <= docCount'[d] + docMissed'[d] + n
        /\ docCount'[d] + docMissed'[d] + l <= MaxDownloads
    BY <2>4, <2>5
  <2> QED BY <2>3, <2>6 DEF n, l
\* A download begins: room was made for it.
<1>6. CASE DocBeginDownload(r)
  <2>1. PICK e \in docs, pc \in {"log", "bump"} :
          /\ docCount[e] + docMissed[e] + Cardinality(DocLoading(e)) < MaxDownloads
          /\ DocGoto(r, [DocIdle EXCEPT !.pc = pc, !.d = e])
    BY <1>6 DEF DocBeginDownload
  <2> DEFINE q == [DocIdle EXCEPT !.pc = pc, !.d = e]
  <2>2. q \in DocReqs /\ q.pc = pc /\ q.d = e
    BY <1>0 DEF DocIdle, DocReqs, DocShape
  <2> HIDE DEF q
  <2>3. docReq' = [docReq EXCEPT ![r] = q]
    BY <2>1 DEF DocGoto, q
  <2>4. UNCHANGED <<docLog, docCount, docMissed>> /\ docReq[r].pc = "idle"
    BY <1>6 DEF DocBeginDownload, DocAt, docDown, docHist
  <2> SUFFICES ASSUME NEW d \in DocFile
               PROVE  /\ docLog[d] <= docCount[d] + docMissed[d] + Cardinality(Counting(d)')
                      /\ docCount[d] + docMissed[d] + Cardinality(DocLoading(d)') <= MaxDownloads
    BY <2>4 DEF CountInv
  <2>5. r \notin Counting(d) /\ r \notin DocLoading(d)
    BY <2>4 DEF Counting, DocLoading
  <2>6. /\ Counting(d)' = Counting(d) \ {r}
        /\ DocLoading(d)' = IF e = d THEN DocLoading(d) \cup {r} ELSE DocLoading(d) \ {r}
    BY <1>0, <2>1, <2>2, <2>3, SlotSets
  <2>7. Cardinality(DocLoading(d) \cup {r}) = Cardinality(DocLoading(d)) + 1
    BY <2>5, CardStep DEF DocLoading
  <2>8. Counting(d)' = Counting(d) /\ DocLoading(d) \ {r} = DocLoading(d)
    BY <2>5, <2>6
  <2> DEFINE n == Cardinality(Counting(d))
             l == Cardinality(DocLoading(d))
  <2>9. /\ docLog[d] \in Nat /\ docCount[d] \in Nat /\ docMissed[d] \in Nat /\ n \in Nat /\ l \in Nat
        /\ docLog[d] <= docCount[d] + docMissed[d] + n
        /\ docCount[d] + docMissed[d] + l <= MaxDownloads
    BY <1>0, <1>1 DEF CountInv, DocShape
  <2>10. CASE e = d
    <3>1. docCount[d] + docMissed[d] + l < MaxDownloads
      BY <2>1, <2>10
    <3>2. Cardinality(DocLoading(d)') = l + 1
      BY <2>6, <2>7, <2>10
    <3>3. docCount[d] + docMissed[d] + (l + 1) <= MaxDownloads
      BY <2>9, <3>1
    <3> QED BY <2>8, <2>9, <3>2, <3>3
  <2>11. CASE e # d
    BY <2>6, <2>8, <2>9, <2>11
  <2> QED BY <2>10, <2>11
\* The download is logged: the request is about to count it.
<1>7. CASE DocLogDownload(r)
  <2> DEFINE e == docReq[r].d
             q == [docReq[r] EXCEPT !.pc = "count"]
  <2>1. /\ docReq[r].pc = "log" /\ docLog' = [docLog EXCEPT ![e] = docLog[e] + 1]
        /\ UNCHANGED <<docCount, docMissed>> /\ docReq' = [docReq EXCEPT ![r] = q]
    BY <1>7 DEF DocLogDownload, DocAfterLog, DocGoto, DocAt, docHist
  <2>2. q \in DocReqs /\ q.pc = "count" /\ q.d = e
    BY <1>0 DEF DocReqs
  <2> HIDE DEF q
  <2> SUFFICES ASSUME NEW d \in DocFile
               PROVE  /\ docLog'[d] <= docCount[d] + docMissed[d] + Cardinality(Counting(d)')
                      /\ docCount[d] + docMissed[d] + Cardinality(DocLoading(d)') <= MaxDownloads
    BY <2>1 DEF CountInv
  <2>3. /\ r \notin Counting(d)
        /\ r \in DocLoading(d) <=> e = d
    BY <2>1 DEF Counting, DocLoading
  <2>4. /\ Counting(d)' = IF e = d THEN Counting(d) \cup {r} ELSE Counting(d) \ {r}
        /\ DocLoading(d)' = IF e = d THEN DocLoading(d) \cup {r} ELSE DocLoading(d) \ {r}
    <3>1. DocShape
      BY <1>0
    <3>2. q.pc \in {"log", "count", "bump"}
      BY <2>2
    <3>3. docReq' = [docReq EXCEPT ![r] = q]
      BY <2>1
    <3> HIDE DEF e
    <3> QED BY <2>2, <3>1, <3>2, <3>3, SlotSets
  <2>5. DocLoading(d)' = DocLoading(d)
    BY <2>3, <2>4
  <2>6. Cardinality(Counting(d) \cup {r}) = Cardinality(Counting(d)) + 1
    BY <2>3, CardStep DEF Counting
  <2>7. Counting(d) \ {r} = Counting(d)
    BY <2>3
  <2> DEFINE n == Cardinality(Counting(d))
             l == Cardinality(DocLoading(d))
  <2>8. /\ docLog[d] \in Nat /\ docCount[d] \in Nat /\ docMissed[d] \in Nat /\ n \in Nat /\ l \in Nat
        /\ docLog[d] <= docCount[d] + docMissed[d] + n
        /\ docCount[d] + docMissed[d] + l <= MaxDownloads
    BY <1>0, <1>1 DEF CountInv, DocShape
  <2>9. docLog'[d] = IF e = d THEN docLog[d] + 1 ELSE docLog[d]
    BY <1>0, <2>1 DEF DocShape
  <2>10. CASE e = d
    <3>1. Cardinality(Counting(d)') = n + 1
      BY <2>4, <2>6, <2>10
    <3>2. docLog[d] + 1 <= docCount[d] + docMissed[d] + (n + 1)
      BY <2>8
    <3> QED BY <2>5, <2>8, <2>9, <2>10, <3>1, <3>2
  <2>11. CASE e # d
    BY <2>4, <2>5, <2>7, <2>8, <2>9, <2>11
  <2> QED BY <2>10, <2>11
\* The download is counted, or missed, unless its document is gone.
<1>8. CASE DocCountDownload(r) \/ DocAbort(r)
  <2> DEFINE e == docReq[r].d
             pc == docReq[r].pc
  <2>1. docReq' = [docReq EXCEPT ![r] = DocIdle] /\ docLog' = docLog
    BY <1>8 DEF DocCountDownload, DocAbort, DocGoto, docDown
  <2>2. \/ /\ pc \in {"count", "bump"} /\ docMissed' = docMissed
           /\ docCount' = [docCount EXCEPT ![e] = docCount[e] + 1]
        \/ /\ pc = "count" /\ docCount' = docCount /\ e \in docs
           /\ docMissed' = [docMissed EXCEPT ![e] = docMissed[e] + 1]
        \/ /\ pc # "count" \/ e \notin docs
           /\ UNCHANGED <<docCount, docMissed>>
    <3>1. CASE DocCountDownload(r)
      BY <3>1 DEF DocCountDownload, docHist
    <3>2. CASE DocAbort(r)
      BY <3>2 DEF DocAbort, docDown
    <3> QED BY <1>8, <3>1, <3>2
  <2> SUFFICES ASSUME NEW d \in DocFile
               PROVE  /\ docLog[d] <= docCount'[d] + docMissed'[d] + Cardinality(Counting(d)')
                      /\ docCount'[d] + docMissed'[d] + Cardinality(DocLoading(d)') <= MaxDownloads
    BY <2>1 DEF CountInv
  <2>3. Counting(d)' = Counting(d) \ {r} /\ DocLoading(d)' = DocLoading(d) \ {r}
    BY <1>0, <2>1, SlotSets
  <2>4. /\ r \in Counting(d) <=> e = d /\ pc = "count"
        /\ r \in DocLoading(d) <=> e = d /\ pc \in {"log", "count", "bump"}
    BY DEF Counting, DocLoading
  <2> DEFINE n == Cardinality(Counting(d))
             l == Cardinality(DocLoading(d))
             m == Cardinality(Counting(d)')
             k == Cardinality(DocLoading(d)')
  <2>5. /\ docLog[d] \in Nat /\ docCount[d] \in Nat /\ docMissed[d] \in Nat /\ n \in Nat /\ l \in Nat
        /\ docLog[d] <= docCount[d] + docMissed[d] + n
        /\ docCount[d] + docMissed[d] + l <= MaxDownloads
        /\ d \notin docs => docLog[d] = 0
    BY <1>0, <1>1 DEF CountInv, DocShape
  <2>6. /\ m = IF e = d /\ pc = "count" THEN n - 1 ELSE n
        /\ m \in Nat
    <3>1. Counting(d) \in SUBSET Request /\ Counting(d) \ {r} \in SUBSET Request
      BY DEF Counting
    <3>2. r \notin Counting(d) => Counting(d) \ {r} = Counting(d)
      OBVIOUS
    <3> QED BY <2>3, <2>4, <3>1, <3>2, CardStep
  <2>7. k = IF e = d /\ pc \in {"log", "count", "bump"} THEN l - 1 ELSE l
    <3>1. DocLoading(d) \in SUBSET Request
      BY DEF DocLoading
    <3>2. r \notin DocLoading(d) => DocLoading(d) \ {r} = DocLoading(d)
      OBVIOUS
    <3> QED BY <2>3, <2>4, <3>1, <3>2, CardStep
  <2>8. \/ /\ e = d /\ pc \in {"count", "bump"} /\ docCount'[d] = docCount[d] + 1
           /\ docMissed'[d] = docMissed[d]
        \/ /\ e = d /\ pc = "count" /\ docCount'[d] = docCount[d]
           /\ docMissed'[d] = docMissed[d] + 1
        \/ /\ e # d \/ pc # "count" \/ d \notin docs
           /\ docCount'[d] = docCount[d] /\ docMissed'[d] = docMissed[d]
    BY <1>0, <2>2 DEF DocShape
  <2> HIDE DEF e, pc, n, l, m, k
  <2>9. /\ docLog[d] <= docCount'[d] + docMissed'[d] + m
        /\ docCount'[d] + docMissed'[d] + k <= MaxDownloads
    BY <2>5, <2>6, <2>7, <2>8
  <2> QED BY <2>9 DEF m, k
<1> QED BY <1>2, <1>3, <1>4, <1>5, <1>6, <1>7, <1>8 DEF DocHandler

(***************************************************************************)
(* Files and versions.                                                     *)
(***************************************************************************)

\* What the steps keep besides the number of downloads.
DocFilesInv == DocShape /\ DocOwnInv /\ DocFilesPresent /\ DocFilesExplained /\ DocNewestNamed

\* What request r leaves to others when it turns to q: a deletion that is past the
\* file, an uploaded file and a label still to be written are not forgotten.
LetsGo(r, q) ==
  /\ docReq[r].pc \in DocUnderWay /\ docReq[r].d \in docs \ docHalf' =>
       /\ q.pc \in DocUnderWay /\ q.d = docReq[r].d
       /\ docReq[r].pc = "row" => q.pc = "row"
  /\ docReq[r].pc \in {"insert", "vrow"} => docReq[r].f \in docLeaked'
  /\ docReq[r].pc = "vset" => docReq[r].d \notin docs \ docMixed'

\* Steps that write at most the downloads and the history.
LEMMA DocGotoKeeps ==
  ASSUME DocFilesInv, NEW r \in Request, NEW q \in DocReqs, docReq' = [docReq EXCEPT ![r] = q],
         UNCHANGED docData,
         docHalf \subseteq docHalf', docLeaked \subseteq docLeaked', docMixed \subseteq docMixed',
         docLog' \in [DocFile -> Nat], docCount' \in [DocFile -> Nat],
         docMissed' \in [DocFile -> Nat], \A d \in DocFile \ docs : docLog'[d] = 0,
         q.pc \notin {"insert", "vrow", "vset"},
         q.d \in {docReq[r].d, NONE} \cup docs \cup docReq[r].todo,
         q.todo \subseteq docs \cup docReq[r].todo,
         q.pc # "idle" => q.d \in docUsed,
         q.pc \in DocUnderWay => q.d \notin docStore \ docLeaked',
         LetsGo(r, q)
  PROVE  DocFilesInv'
<1> USE DocAssumption
<1>0. /\ DocShape /\ DocOwnInv /\ DocFilesPresent /\ DocFilesExplained /\ DocNewestNamed
      /\ docReq \in [Request -> DocReqs]
  BY DEF DocFilesInv, DocShape
<1>1. /\ docReq'[r] = q /\ \A o \in Request \ {r} : docReq'[o] = docReq[o]
      /\ docReq' \in [Request -> DocReqs]
  BY <1>0
<1>2. /\ UNCHANGED <<docStore, docUsed, docs, docVer, docVers>>
      /\ \A d : DocNewest(d)' = DocNewest(d) /\ DocFiles(d)' = DocFiles(d)
  BY DEF docData, DocNewest, DocFiles
<1>3. DocShape'
  BY <1>0, <1>1, <1>2 DEF DocShape
<1>4. DocOwnInv'
  <2>1. \A o \in Request \ {r} : docReq[o].pc = "insert" => q.d # docReq[o].f /\ docReq[o].f \notin q.todo
    <3> TAKE o \in Request \ {r}
    <3> HAVE docReq[o].pc = "insert"
    <3>1. /\ docReq[o].f \in docUsed /\ docReq[o].f \notin docs /\ docReq[o].f # docReq[r].d
          /\ docReq[o].f \notin docReq[r].todo
      BY <1>0 DEF DocOwnInv
    <3>2. NONE \notin docUsed
      BY <1>0 DEF DocShape
    <3> QED BY <3>1, <3>2
  <2>2. q.d \in docUsed \cup {NONE} /\ q.todo \subseteq docUsed
    BY <1>0 DEF DocOwnInv, DocShape
  <2> QED BY <1>0, <1>1, <1>2, <2>1, <2>2 DEF DocOwnInv
<1>5. DocFilesPresent'
  BY <1>0, <1>1, <1>2 DEF DocFilesPresent, LetsGo
<1>6. DocFilesExplained'
  BY <1>0, <1>1, <1>2 DEF DocFilesExplained, LetsGo
<1>7. DocNewestNamed'
  <2> SUFFICES ASSUME NEW d \in docs \ (docMixed' \cup docHalf'), docVer[d] # DocNewest(d)
               PROVE  \E o \in Request : /\ docReq'[o].d = d
                                         /\ \/ docReq'[o].pc = "vset" /\ docReq'[o].f = DocNewest(d)
                                            \/ docReq'[o].pc = "row"
    BY <1>2 DEF DocNewestNamed, DocAt
  <2>1. PICK o \in Request : /\ docReq[o].d = d
                             /\ \/ docReq[o].pc = "vset" /\ docReq[o].f = DocNewest(d)
                                \/ docReq[o].pc = "row"
    BY <1>0 DEF DocNewestNamed, DocAt
  <2>2. CASE o # r
    BY <1>1, <2>1, <2>2
  <2>3. CASE o = r
    BY <1>1, <2>1, <2>3 DEF LetsGo, DocUnderWay
  <2> QED BY <2>2, <2>3
<1> QED BY <1>3, <1>4, <1>5, <1>6, <1>7 DEF DocFilesInv

\* The steps that start, look, count, or end a request.
LEMMA QuietStep ==
  ASSUME DocFilesInv, NEW r \in Request,
         \/ DocRefuse(r) \/ DocBeginDelete(r) \/ DocFind(r) \/ DocDeleteDownloads(r)
         \/ DocDeleteFails(r) \/ DocBeginDownload(r) \/ DocLogDownload(r)
         \/ DocCountDownload(r) \/ DocBeginVersion(r) \/ DocAbort(r)
  PROVE  DocFilesInv'
<1> USE DocAssumption, DocIdleType
<1>0. /\ DocShape /\ DocOwnInv /\ docReq \in [Request -> DocReqs] /\ docReq[r] \in DocReqs
      /\ docs \subseteq docUsed /\ docUsed \subseteq DocFile
      /\ docLog \in [DocFile -> Nat] /\ docCount \in [DocFile -> Nat] /\ docMissed \in [DocFile -> Nat]
      /\ \A d \in DocFile \ docs : docLog[d] = 0
      /\ docReq[r].todo \subseteq docUsed
      /\ docReq[r].pc \notin {"idle", "insert"} => docReq[r].d \in docUsed
  BY DEF DocFilesInv, DocShape, DocOwnInv
<1>1. CASE DocRefuse(r)
  <2>1. /\ UNCHANGED <<docData, docDown, docHalf, docMixed, docMissed>>
        /\ docReq[r].pc = "insert" /\ docLeaked' = docLeaked \cup {docReq[r].f}
        /\ docReq' = [docReq EXCEPT ![r] = DocIdle]
    BY <1>1 DEF DocRefuse, DocGoto, DocAt
  <2>2. LetsGo(r, DocIdle)
    BY <2>1 DEF LetsGo, DocUnderWay
  <2> QED BY <1>0, <2>1, <2>2, DocGotoKeeps DEF docDown, DocUnderWay
\* The next turn of a deletion, or its first.
<1>2. ASSUME NEW m \in DocReqs, NEW D \in SUBSET (docs \cup docReq[r].todo),
             NEW q \in DocNextOf(m, D), DocGoto(r, q), UNCHANGED <<docData, docDown>>,
             UNCHANGED <<docLeaked, docMixed, docMissed>>, docHalf \subseteq docHalf',
             docReq[r].pc \in {"idle", "find", "file"} \cup DocUnderWay,
             docReq[r].pc \in DocUnderWay => docReq[r].d \notin docs \ docHalf'
      PROVE  DocFilesInv'
  <2>1. D \in SUBSET DocFile
    BY <1>0
  <2>2. /\ q \in DocReqs /\ q.pc \in {"idle", "find"} /\ q.d \in D \cup {NONE}
        /\ q.todo \subseteq D /\ (q.pc = "find" => q.d \in D)
    BY <1>2, <2>1, NextOfType
  <2>3. LetsGo(r, q)
    BY <1>2 DEF LetsGo, DocUnderWay
  <2> QED BY <1>0, <1>2, <2>2, <2>3, DocGotoKeeps DEF DocGoto, docDown, DocUnderWay
<1>3. CASE DocBeginDelete(r)
  <2>1. PICK D \in SUBSET docs : \E n \in DocNextOf(DocIdle, D) : DocGoto(r, n)
    BY <1>3 DEF DocBeginDelete
  <2>2. UNCHANGED <<docData, docDown, docHalf, docLeaked, docMixed, docMissed>> /\ docReq[r].pc = "idle"
    BY <1>3 DEF DocBeginDelete, DocAt, docHist
  <2> QED BY <1>2, <2>1, <2>2 DEF DocUnderWay
<1>4. CASE DocDeleteFails(r)
  <2>1. PICK n \in DocNextOf(docReq[r], docReq[r].todo) : DocGoto(r, n)
    BY <1>4 DEF DocDeleteFails
  <2>2. /\ UNCHANGED <<docData, docDown, docLeaked, docMixed, docMissed>>
        /\ docReq[r].pc \in {"find", "file"} \cup DocUnderWay
        /\ docHalf' = docHalf \cup (IF docReq[r].pc \in DocUnderWay THEN {docReq[r].d} \cap docs
                                    ELSE {})
    BY <1>4 DEF DocDeleteFails
  <2> QED BY <1>0, <1>2, <2>1, <2>2
\* A request that goes on with the same document, or starts with one.
<1>5. ASSUME NEW q \in DocReqs, DocGoto(r, q), UNCHANGED docData, UNCHANGED docHist,
             docLog' \in [DocFile -> Nat], docCount' \in [DocFile -> Nat],
             \A d \in DocFile \ docs : docLog'[d] = 0,
             docReq[r].pc \in {"idle", "find", "downloads", "log", "count", "bump"},
             docReq[r].pc = "downloads" => q.pc = "versions" /\ q.d = docReq[r].d,
             \/ q.d \in docs /\ q.todo = {}
             \/ q.d = docReq[r].d /\ q.todo = docReq[r].todo /\ docReq[r].pc # "idle"
             \/ q = DocIdle,
             q.pc \in {"idle", "file", "versions", "log", "count", "bump", "vput"},
             q.pc = "versions" => docReq[r].pc = "downloads"
      PROVE  DocFilesInv'
  <2>1. LetsGo(r, q)
    BY <1>5 DEF LetsGo, DocUnderWay
  <2>2. q.pc \in DocUnderWay => q.d \notin docStore \ docLeaked'
    BY <1>0, <1>5 DEF DocOwnInv, DocUnderWay, docHist
  <2>3. UNCHANGED <<docHalf, docLeaked, docMixed, docMissed>>
    BY <1>5 DEF docHist
  <2> QED BY <1>0, <1>5, <2>1, <2>2, <2>3, DocGotoKeeps DEF DocGoto
<1>6. CASE DocFind(r)
  <2>1. /\ [docReq[r] EXCEPT !.pc = "file"] \in DocReqs
        /\ [docReq[r] EXCEPT !.pc = "file"].pc = "file"
        /\ [docReq[r] EXCEPT !.pc = "file"].d = docReq[r].d
        /\ [docReq[r] EXCEPT !.pc = "file"].todo = docReq[r].todo
    BY <1>0 DEF DocReqs
  <2> QED BY <1>0, <1>5, <1>6, <2>1 DEF DocFind, DocAt, docDown
<1>7. CASE DocDeleteDownloads(r)
  <2>1. /\ [docReq[r] EXCEPT !.pc = "versions"] \in DocReqs
        /\ [docReq[r] EXCEPT !.pc = "versions"].pc = "versions"
        /\ [docReq[r] EXCEPT !.pc = "versions"].d = docReq[r].d
        /\ [docReq[r] EXCEPT !.pc = "versions"].todo = docReq[r].todo
    BY <1>0 DEF DocReqs
  <2>2. docLog' \in [DocFile -> Nat] /\ \A d \in DocFile \ docs : docLog'[d] = 0
    BY <1>0, <1>7 DEF DocDeleteDownloads
  <2> QED BY <1>0, <1>5, <1>7, <2>1, <2>2 DEF DocDeleteDownloads, DocAt
<1>8. CASE DocBeginDownload(r)
  <2>1. PICK e \in docs, pc \in {"log", "bump"} : DocGoto(r, [DocIdle EXCEPT !.pc = pc, !.d = e])
    BY <1>8 DEF DocBeginDownload
  <2> DEFINE q == [DocIdle EXCEPT !.pc = pc, !.d = e]
  <2>2. q \in DocReqs /\ q.pc = pc /\ q.d = e /\ q.todo = {}
    BY <1>0 DEF DocIdle, DocReqs
  <2> HIDE DEF q
  <2>3. DocGoto(r, q)
    BY <2>1 DEF q
  <2> QED BY <1>0, <1>5, <1>8, <2>1, <2>2, <2>3 DEF DocBeginDownload, DocAt, docDown
<1>9. CASE DocLogDownload(r)
  <2>1. /\ [docReq[r] EXCEPT !.pc = "count"] \in DocReqs
        /\ [docReq[r] EXCEPT !.pc = "count"].pc = "count"
        /\ [docReq[r] EXCEPT !.pc = "count"].d = docReq[r].d
        /\ [docReq[r] EXCEPT !.pc = "count"].todo = docReq[r].todo
    BY <1>0 DEF DocReqs
  <2>2. docLog' \in [DocFile -> Nat] /\ \A d \in DocFile \ docs : docLog'[d] = 0
    BY <1>0, <1>9 DEF DocLogDownload
  <2> QED BY <1>0, <1>5, <1>9, <2>1, <2>2 DEF DocLogDownload, DocAfterLog, DocAt
<1>10. CASE DocCountDownload(r)
  <2>1. docCount' \in [DocFile -> Nat]
    BY <1>0, <1>10 DEF DocCountDownload
  <2> QED BY <1>0, <1>5, <1>10, <2>1 DEF DocCountDownload
<1>11. CASE DocBeginVersion(r)
  <2>1. PICK e \in docs : DocGoto(r, [DocIdle EXCEPT !.pc = "vput", !.d = e])
    BY <1>11 DEF DocBeginVersion
  <2> DEFINE q == [DocIdle EXCEPT !.pc = "vput", !.d = e]
  <2>2. q \in DocReqs /\ q.pc = "vput" /\ q.d = e /\ q.todo = {}
    BY <1>0 DEF DocIdle, DocReqs
  <2> HIDE DEF q
  <2>3. DocGoto(r, q)
    BY <2>1 DEF q
  <2> QED BY <1>0, <1>5, <1>11, <2>1, <2>2, <2>3 DEF DocBeginVersion, DocAt, docDown
<1>12. CASE DocAbort(r)
  <2>1. /\ docReq' = [docReq EXCEPT ![r] = DocIdle] /\ UNCHANGED docData /\ UNCHANGED docDown
        /\ docHalf \subseteq docHalf' /\ docLeaked \subseteq docLeaked' /\ docMixed \subseteq docMixed'
    BY <1>12 DEF DocAbort, DocGoto
  <2>2. docMissed' \in [DocFile -> Nat]
    BY <1>0, <1>12 DEF DocAbort
  <2>3. LetsGo(r, DocIdle)
    BY <1>12 DEF LetsGo, DocAbort
  <2> QED BY <1>0, <2>1, <2>2, <2>3, DocGotoKeeps DEF docDown, DocUnderWay
<1> QED BY <1>1, <1>3, <1>4, <1>6, <1>7, <1>8, <1>9, <1>10, <1>11, <1>12

\* A file is stored under a new name.
LEMMA StoreStep ==
  ASSUME DocFilesInv, NEW r \in Request, DocUpload(r) \/ DocPutVersion(r)
  PROVE  DocFilesInv'
<1> USE DocAssumption, DocIdleType
<1>0. /\ DocShape /\ DocOwnInv /\ DocFilesPresent /\ DocFilesExplained /\ DocNewestNamed
      /\ docReq \in [Request -> DocReqs] /\ docReq[r] \in DocReqs
      /\ docs \subseteq docUsed /\ docStore \subseteq docUsed /\ docUsed \subseteq DocFile
  BY DEF DocFilesInv, DocShape
<1>1. PICK f \in DocFile \ docUsed :
        /\ docStore' = docStore \cup {f} /\ docUsed' = docUsed \cup {f}
        /\ UNCHANGED <<docs, docVer, docVers, docLog, docCount, docHalf, docLeaked, docMixed, docMissed>>
        /\ \E q \in DocReqs : /\ docReq' = [docReq EXCEPT ![r] = q] /\ q.f = f
                              /\ \/ docReq[r].pc = "idle" /\ q.pc = "insert" /\ q.d = NONE
                                    /\ q.todo = {}
                                 \/ docReq[r].pc = "vput" /\ q.pc = "vrow" /\ q.d = docReq[r].d
                                    /\ q.todo = docReq[r].todo
  <2>1. CASE DocUpload(r)
    <3>1. PICK f \in DocFile \ docUsed :
            /\ docStore' = docStore \cup {f} /\ docUsed' = docUsed \cup {f}
            /\ docReq' = [docReq EXCEPT ![r] = [DocIdle EXCEPT !.pc = "insert", !.f = f]]
      BY <2>1 DEF DocUpload, DocNewNames, DocGoto
    <3>2. LET q == [DocIdle EXCEPT !.pc = "insert", !.f = f]
          IN  q \in DocReqs /\ q.pc = "insert" /\ q.d = NONE /\ q.todo = {} /\ q.f = f
      BY DEF DocIdle, DocReqs
    <3> QED BY <2>1, <3>1, <3>2 DEF DocUpload, DocAt, docDown, docHist
  <2>2. CASE DocPutVersion(r)
    <3>1. PICK f \in DocFile \ docUsed :
            /\ docStore' = docStore \cup {f} /\ docUsed' = docUsed \cup {f}
            /\ docReq' = [docReq EXCEPT ![r] = [docReq[r] EXCEPT !.pc = "vrow", !.f = f]]
      BY <2>2 DEF DocPutVersion, DocNewNames, DocGoto, DocStored
    <3>2. LET q == [docReq[r] EXCEPT !.pc = "vrow", !.f = f]
          IN  q \in DocReqs /\ q.pc = "vrow" /\ q.d = docReq[r].d /\ q.todo = docReq[r].todo /\ q.f = f
      BY <1>0 DEF DocReqs
    <3> QED BY <2>2, <3>1, <3>2 DEF DocPutVersion, DocAt, docDown, docHist
  <2> QED BY <2>1, <2>2
<1>2. PICK q \in DocReqs : /\ docReq' = [docReq EXCEPT ![r] = q] /\ q.f = f
                           /\ \/ docReq[r].pc = "idle" /\ q.pc = "insert" /\ q.d = NONE
                                 /\ q.todo = {}
                              \/ docReq[r].pc = "vput" /\ q.pc = "vrow" /\ q.d = docReq[r].d
                                 /\ q.todo = docReq[r].todo
  BY <1>1
<1>3. /\ docReq'[r] = q /\ \A o \in Request \ {r} : docReq'[o] = docReq[o]
      /\ docReq' \in [Request -> DocReqs]
  BY <1>0, <1>2
<1>4. \A d : DocNewest(d)' = DocNewest(d) /\ DocFiles(d)' = DocFiles(d)
  BY <1>1 DEF DocNewest, DocFiles
<1>5. DocShape'
  BY <1>0, <1>1, <1>3 DEF DocShape
<1>6. DocOwnInv'
  <2>1. \A o \in Request : docReq[o].d # f /\ f \notin docReq[o].todo
    BY <1>0, <1>1 DEF DocOwnInv
  <2>2. \A o \in Request \ {r} : docReq[o].pc = "insert" => docReq[o].f # f
    BY <1>0, <1>1 DEF DocOwnInv
  <2>3. \A o \in Request \ {r} : docReq[o].pc = "insert" =>
          docReq[o].f # q.d /\ docReq[o].f \notin q.todo
    BY <1>0, <1>2 DEF DocOwnInv
  <2>4. q.d \in docUsed \cup {NONE} /\ q.todo \subseteq docUsed /\ (q.pc # "insert" => q.d \in docUsed)
    BY <1>0, <1>2 DEF DocOwnInv
  <2>5. q.pc \notin DocUnderWay /\ q.d # f /\ f \notin q.todo
    BY <1>1, <1>2, <2>4 DEF DocUnderWay
  <2>6. \A o \in Request : docReq[o].pc \in DocUnderWay => docReq[o].d \in docUsed
    BY <1>0 DEF DocOwnInv, DocUnderWay
  <2> QED BY <1>0, <1>1, <1>2, <1>3, <2>1, <2>2, <2>3, <2>4, <2>5, <2>6 DEF DocOwnInv
<1>7. DocFilesPresent'
  BY <1>0, <1>1, <1>2, <1>3 DEF DocFilesPresent, DocUnderWay
<1>8. DocFilesExplained'
  BY <1>0, <1>1, <1>2, <1>3, <1>4 DEF DocFilesExplained
<1>9. DocNewestNamed'
  BY <1>0, <1>1, <1>2, <1>3, <1>4 DEF DocNewestNamed, DocAt
<1> QED BY <1>5, <1>6, <1>7, <1>8, <1>9 DEF DocFilesInv

\* The row of an uploaded document.
LEMMA InsertStep ==
  ASSUME DocFilesInv, NEW r \in Request, DocInsert(r)
  PROVE  DocFilesInv'
<1> USE DocAssumption, DocIdleType
<1> DEFINE f == docReq[r].f
<1>0. /\ DocShape /\ DocOwnInv /\ DocFilesPresent /\ DocFilesExplained /\ DocNewestNamed
      /\ docReq \in [Request -> DocReqs]
      /\ docs \subseteq docUsed /\ docStore \subseteq docUsed /\ docUsed \subseteq DocFile
  BY DEF DocFilesInv, DocShape
<1>1. /\ docReq[r].pc = "insert" /\ docs' = docs \cup {f}
      /\ UNCHANGED <<docStore, docUsed, docVer, docVers, docLog, docCount,
                     docHalf, docLeaked, docMixed, docMissed>>
      /\ docReq' = [docReq EXCEPT ![r] = DocIdle]
  BY DEF DocInsert, DocGoto, DocAt, docDown, docHist
<1>2. /\ docReq'[r] = DocIdle /\ \A o \in Request \ {r} : docReq'[o] = docReq[o]
      /\ docReq' \in [Request -> DocReqs]
  BY <1>0, <1>1
<1>3. /\ f \in docStore \ docs /\ f \in DocFile
      /\ \A o \in Request : o # r /\ docReq[o].pc = "insert" => docReq[o].f # f
      /\ docVers[f] = <<>> /\ docVer[f] = NONE
  BY <1>0, <1>1 DEF DocOwnInv, DocShape
<1> HIDE DEF f
<1>4. \A d : DocNewest(d)' = DocNewest(d) /\ DocFiles(d)' = DocFiles(d)
  BY <1>1 DEF DocNewest, DocFiles
<1>5. DocShape'
  BY <1>0, <1>1, <1>2, <1>3 DEF DocShape
<1>6. DocOwnInv'
  <2>1. NONE \notin docUsed
    BY <1>0
  <2> QED BY <1>0, <1>1, <1>2, <1>3, <2>1 DEF DocOwnInv, DocUnderWay
<1>7. DocFilesPresent'
  BY <1>0, <1>1, <1>2, <1>3 DEF DocFilesPresent, DocUnderWay
<1>8. DocFilesExplained'
  BY <1>0, <1>1, <1>2, <1>3, <1>4 DEF DocFilesExplained, f
<1>9. DocNewestNamed'
  <2>1. DocNewest(f) = docVer[f]
    BY <1>3 DEF DocNewest
  <2> QED BY <1>0, <1>1, <1>2, <1>3, <1>4, <2>1 DEF DocNewestNamed, DocAt
<1> QED BY <1>5, <1>6, <1>7, <1>8, <1>9 DEF DocFilesInv

\* A client sets a document's label.
LEMMA UpdateStep ==
  ASSUME DocFilesInv, NEW d \in DocFile, DocUpdate(d)
  PROVE  DocFilesInv'
<1>0. /\ DocShape /\ DocOwnInv /\ DocFilesPresent /\ DocFilesExplained /\ DocNewestNamed
  BY DEF DocFilesInv
<1>1. PICK v \in {docVer[d], NONE} \cup DocFiles(d) :
        /\ docVer' = [docVer EXCEPT ![d] = v]
        /\ docMixed' = IF v = docVer[d] THEN docMixed ELSE docMixed \cup {d}
  BY DEF DocUpdate
<1>2. /\ UNCHANGED <<docStore, docUsed, docs, docVers, docLog, docCount, docReq,
                     docHalf, docLeaked, docMissed>>
      /\ d \in docs
  BY DEF DocUpdate, docDown
<1>3. v \in DocFile \cup {NONE}
  BY <1>0, <1>1 DEF DocShape, DocFiles
<1>4. \A c : DocNewest(c)' = DocNewest(c) /\ DocFiles(c)' = DocFiles(c)
  BY <1>2 DEF DocNewest, DocFiles
<1>5. DocShape' /\ DocOwnInv'
  BY <1>0, <1>1, <1>2, <1>3 DEF DocShape, DocOwnInv
<1>6. DocFilesPresent' /\ DocFilesExplained'
  BY <1>0, <1>2, <1>4 DEF DocFilesPresent, DocFilesExplained
<1>7. DocNewestNamed'
  <2>1. \A c \in docs \ docMixed' : docVer'[c] = docVer[c] /\ c \notin docMixed
    BY <1>0, <1>1 DEF DocShape
  <2> QED BY <1>0, <1>2, <1>4, <2>1 DEF DocNewestNamed, DocAt
<1> QED BY <1>5, <1>6, <1>7 DEF DocFilesInv

\* A deletion is past the file: it is gone, or stays without its row.
LEMMA DeleteFileStep ==
  ASSUME DocFilesInv, NEW r \in Request, DocDeleteFile(r)
  PROVE  DocFilesInv'
<1> USE DocAssumption
<1> DEFINE d == docReq[r].d
           q == [docReq[r] EXCEPT !.pc = "downloads"]
<1>0. /\ DocShape /\ DocOwnInv /\ DocFilesPresent /\ DocFilesExplained /\ DocNewestNamed
      /\ docReq \in [Request -> DocReqs] /\ docReq[r] \in DocReqs
  BY DEF DocFilesInv, DocShape
<1>1. /\ docReq[r].pc = "file" /\ docReq' = [docReq EXCEPT ![r] = q]
      /\ \/ docStore' = docStore \ {d} /\ docLeaked' = docLeaked \ {d}
         \/ docLeaked' = docLeaked \cup ({d} \cap docStore) /\ docStore' = docStore
      /\ UNCHANGED <<docUsed, docs, docVer, docVers, docLog, docCount, docHalf, docMixed, docMissed>>
  BY DEF DocDeleteFile, DocWithout, DocGoto, DocAt, docDown
<1>2. /\ q \in DocReqs /\ q.pc = "downloads" /\ q.d = d /\ q.todo = docReq[r].todo
      /\ d \in docUsed
  BY <1>0, <1>1 DEF DocReqs, DocOwnInv
<1> HIDE DEF q
<1>3. /\ docReq'[r] = q /\ \A o \in Request \ {r} : docReq'[o] = docReq[o]
      /\ docReq' \in [Request -> DocReqs]
  BY <1>0, <1>1, <1>2
<1>4. \A c : DocNewest(c)' = DocNewest(c) /\ DocFiles(c)' = DocFiles(c)
  BY <1>1 DEF DocNewest, DocFiles
<1>5. DocShape'
  BY <1>0, <1>1, <1>3 DEF DocShape
<1>6. DocOwnInv'
  <2>1. \A o \in Request : docReq[o].pc = "insert" =>
          docReq[o].f # d /\ docReq[o].f \notin docReq[r].todo
    BY <1>0 DEF DocOwnInv
  <2>2. d \notin docStore' \ docLeaked' /\ docStore' \ docLeaked' \subseteq docStore \ docLeaked
    BY <1>1
  <2> HIDE DEF d
  <2>3. q.pc \in DocUnderWay
    BY <1>2 DEF DocUnderWay
  <2> QED BY <1>0, <1>1, <1>2, <1>3, <2>1, <2>2, <2>3 DEF DocOwnInv, d
<1>7. DocFilesPresent'
  BY <1>0, <1>1, <1>2, <1>3 DEF DocFilesPresent, DocUnderWay
<1>8. DocFilesExplained'
  BY <1>0, <1>1, <1>2, <1>3, <1>4 DEF DocFilesExplained
<1>9. DocNewestNamed'
  BY <1>0, <1>1, <1>2, <1>3, <1>4 DEF DocNewestNamed, DocAt
<1> QED BY <1>5, <1>6, <1>7, <1>8, <1>9 DEF DocFilesInv

\* The version rows of a document go: their files may stay.
LEMMA DeleteVersionsStep ==
  ASSUME DocFilesInv, NEW r \in Request, DocDeleteVersions(r)
  PROVE  DocFilesInv'
<1> USE DocAssumption
<1> DEFINE d == docReq[r].d
           q == [docReq[r] EXCEPT !.pc = "row"]
<1>0. /\ DocShape /\ DocOwnInv /\ DocFilesPresent /\ DocFilesExplained /\ DocNewestNamed
      /\ docReq \in [Request -> DocReqs] /\ docReq[r] \in DocReqs
  BY DEF DocFilesInv, DocShape
<1>1. /\ docReq[r].pc = "versions" /\ docReq' = [docReq EXCEPT ![r] = q]
      /\ docVers' = [docVers EXCEPT ![d] = <<>>] /\ docLeaked' = docLeaked \cup DocFiles(d)
      /\ UNCHANGED <<docStore, docUsed, docs, docVer, docLog, docCount, docHalf, docMixed, docMissed>>
  BY DEF DocDeleteVersions, DocGoto, DocAt, docDown
<1>2. /\ q \in DocReqs /\ q.pc = "row" /\ q.d = d /\ q.todo = docReq[r].todo
      /\ d \in docUsed /\ d \notin docStore \ docLeaked
  BY <1>0, <1>1 DEF DocReqs, DocOwnInv, DocUnderWay
<1> HIDE DEF q
<1>3. /\ docReq'[r] = q /\ \A o \in Request \ {r} : docReq'[o] = docReq[o]
      /\ docReq' \in [Request -> DocReqs]
  BY <1>0, <1>1, <1>2
<1>4. /\ d \in DocFile /\ docVers'[d] = <<>>
      /\ \A c \in DocFile \ {d} : docVers'[c] = docVers[c]
  BY <1>0, <1>1, <1>2 DEF DocShape
<1>5. DocShape'
  <2>1. docVers' \in [DocFile -> Seq(DocFile)]
    BY <1>0, <1>1, <1>4 DEF DocShape
  <2>2. ASSUME NEW c \in DocFile, NEW i \in DOMAIN docVers'[c]
        PROVE  docVers'[c][i] \in docUsed
    <3>1. c # d
      BY <1>4, EmptyDomain
    <3> HIDE DEF d
    <3> QED BY <1>0, <1>4, <3>1 DEF DocShape
  <2> QED BY <1>0, <1>1, <1>3, <1>4, <2>1, <2>2, SMTT(30) DEF DocShape
<1>6. DocOwnInv'
  <2>1. \A o \in Request : docReq[o].pc = "insert" =>
          docReq[o].f # d /\ docReq[o].f \notin docReq[r].todo
    BY <1>0 DEF DocOwnInv
  <2> HIDE DEF d
  <2> QED BY <1>0, <1>1, <1>2, <1>3, <2>1, SMTT(30) DEF DocOwnInv, d
<1>7. DocFilesPresent'
  BY <1>0, <1>1, <1>2, <1>3 DEF DocFilesPresent, DocUnderWay
<1>8. DocFilesExplained'
  <2>1. ASSUME NEW c \in docs \ {d} PROVE DocFiles(c)' = DocFiles(c)
    <3>1. docVers'[c] = docVers[c]
      BY <1>0, <1>4, <2>1 DEF DocShape
    <3> QED BY <3>1 DEF DocFiles
  <2> QED BY <1>0, <1>1, <1>2, <1>3, <2>1 DEF DocFilesExplained
<1>9. DocNewestNamed'
  <2>1. ASSUME NEW c \in docs \ {d} PROVE DocNewest(c)' = DocNewest(c)
    <3>1. docVers'[c] = docVers[c]
      BY <1>0, <1>4, <2>1 DEF DocShape
    <3> QED BY <3>1 DEF DocNewest
  <2> QED BY <1>0, <1>1, <1>2, <1>3, <2>1 DEF DocNewestNamed, DocAt
<1> QED BY <1>5, <1>6, <1>7, <1>8, <1>9 DEF DocFilesInv

\* The document goes, and all that refers to it.
LEMMA DeleteRowStep ==
  ASSUME DocFilesInv, NEW r \in Request, DocDeleteRow(r)
  PROVE  DocFilesInv'
<1> USE DocAssumption
<1> DEFINE d == docReq[r].d
<1>0. /\ DocShape /\ DocOwnInv /\ DocFilesPresent /\ DocFilesExplained /\ DocNewestNamed
      /\ docReq \in [Request -> DocReqs] /\ docReq[r] \in DocReqs
      /\ docReq[r].todo \in SUBSET DocFile
  BY DEF DocFilesInv, DocShape, DocReqs
<1>1. /\ docReq[r].pc = "row" /\ d \in docs /\ docs' = docs \ {d}
      /\ docVers' = [docVers EXCEPT ![d] = <<>>] /\ docLeaked' = docLeaked \cup DocFiles(d)
      /\ docLog' = [docLog EXCEPT ![d] = 0] /\ docCount' = [docCount EXCEPT ![d] = 0]
      /\ docVer' = [docVer EXCEPT ![d] = NONE]
      /\ docHalf' = docHalf \ {d} /\ docMixed' = docMixed \ {d}
      /\ docMissed' = [docMissed EXCEPT ![d] = 0]
      /\ UNCHANGED <<docStore, docUsed>>
  BY DEF DocDeleteRow, DocAt
<1>2. PICK q \in DocNextOf(docReq[r], docReq[r].todo) : docReq' = [docReq EXCEPT ![r] = q]
  BY DEF DocDeleteRow, DocGoto
<1>3. /\ q \in DocReqs /\ q.pc \in {"idle", "find"} /\ q.d \in docReq[r].todo \cup {NONE}
      /\ q.todo \subseteq docReq[r].todo /\ (q.pc = "find" => q.d \in docReq[r].todo)
  BY <1>0, NextOfType
<1>4. /\ docReq'[r] = q /\ \A o \in Request \ {r} : docReq'[o] = docReq[o]
      /\ docReq' \in [Request -> DocReqs]
  BY <1>0, <1>2, <1>3
<1>5. d \in DocFile /\ d \notin docStore \ docLeaked
  BY <1>0, <1>1 DEF DocShape, DocOwnInv, DocUnderWay
<1>6. /\ docVers'[d] = <<>> /\ docLog'[d] = 0 /\ docVer'[d] = NONE
      /\ \A c \in DocFile \ {d} : /\ docVers'[c] = docVers[c] /\ docVer'[c] = docVer[c]
                                  /\ docLog'[c] = docLog[c]
  BY <1>0, <1>1, <1>5 DEF DocShape
<1>7. DocShape'
  <2>1. /\ docVers' \in [DocFile -> Seq(DocFile)] /\ docVer' \in [DocFile -> DocFile \cup {NONE}]
        /\ docLog' \in [DocFile -> Nat] /\ docCount' \in [DocFile -> Nat]
        /\ docMissed' \in [DocFile -> Nat]
    BY <1>0, <1>1, <1>5 DEF DocShape
  <2>2. ASSUME NEW c \in DocFile, NEW i \in DOMAIN docVers'[c]
        PROVE  docVers'[c][i] \in docUsed
    <3>1. c # d
      BY <1>6, EmptyDomain
    <3> HIDE DEF d
    <3> QED BY <1>0, <1>6, <3>1 DEF DocShape
  <2> QED BY <1>0, <1>1, <1>4, <1>6, <2>1, <2>2 DEF DocShape
<1>8. DocOwnInv'
  <2>1. \A o \in Request : docReq[o].pc = "insert" =>
          docReq[o].f \notin docReq[r].todo /\ docReq[o].f \in docUsed
    BY <1>0 DEF DocOwnInv
  <2>2. q.pc \notin DocUnderWay /\ NONE \notin docUsed /\ docReq[r].todo \subseteq docUsed
    BY <1>0, <1>3 DEF DocUnderWay, DocShape, DocOwnInv
  <2> HIDE DEF d
  <2> QED BY <1>0, <1>1, <1>3, <1>4, <2>1, <2>2, SMTT(30) DEF DocOwnInv
<1>9. DocFilesPresent'
  BY <1>0, <1>1, <1>4 DEF DocFilesPresent
<1>10. DocFilesExplained'
  <2>1. ASSUME NEW c \in docs \ {d} PROVE DocFiles(c)' = DocFiles(c)
    <3>1. docVers'[c] = docVers[c]
      BY <1>0, <1>6, <2>1 DEF DocShape
    <3> QED BY <3>1 DEF DocFiles
  <2> QED BY <1>0, <1>1, <1>4, <1>5, <2>1 DEF DocFilesExplained
<1>11. DocNewestNamed'
  <2>1. ASSUME NEW c \in docs \ {d}
        PROVE  DocNewest(c)' = DocNewest(c) /\ docVer'[c] = docVer[c]
    <3>1. docVers'[c] = docVers[c] /\ docVer'[c] = docVer[c]
      BY <1>0, <1>6, <2>1 DEF DocShape
    <3> QED BY <3>1 DEF DocNewest
  <2> QED BY <1>0, <1>1, <1>4, <2>1 DEF DocNewestNamed, DocAt
<1> QED BY <1>7, <1>8, <1>9, <1>10, <1>11 DEF DocFilesInv

\* The row of a version that was uploaded.
LEMMA InsertVersionStep ==
  ASSUME DocFilesInv, NEW r \in Request, DocInsertVersion(r)
  PROVE  DocFilesInv'
<1> USE DocAssumption
<1> DEFINE d == docReq[r].d
           f == docReq[r].f
           q == [docReq[r] EXCEPT !.pc = "vset"]
<1>0. /\ DocShape /\ DocOwnInv /\ DocFilesPresent /\ DocFilesExplained /\ DocNewestNamed
      /\ docReq \in [Request -> DocReqs] /\ docReq[r] \in DocReqs
  BY DEF DocFilesInv, DocShape
<1>1. /\ docReq[r].pc = "vrow" /\ d \in docs /\ docReq' = [docReq EXCEPT ![r] = q]
      /\ docVers' = [docVers EXCEPT ![d] = Append(docVers[d], f)]
      /\ UNCHANGED <<docStore, docUsed, docs, docVer, docLog, docCount,
                     docHalf, docLeaked, docMixed, docMissed>>
  BY DEF DocInsertVersion, DocGoto, DocAt, docDown, docHist
<1>2. /\ q \in DocReqs /\ q.pc = "vset" /\ q.d = d /\ q.f = f /\ q.todo = docReq[r].todo
      /\ d \in docUsed /\ f \in docUsed /\ d \in DocFile /\ f \in DocFile
  <2>1. d \in docUsed /\ f \in docUsed
    BY <1>0, <1>1 DEF DocOwnInv
  <2> QED BY <1>0, <2>1 DEF DocReqs, DocShape
<1> HIDE DEF q
<1>3. /\ docReq'[r] = q /\ \A o \in Request \ {r} : docReq'[o] = docReq[o]
      /\ docReq' \in [Request -> DocReqs]
  BY <1>0, <1>1, <1>2
<1>4. /\ docVers'[d] = Append(docVers[d], f) /\ docVers[d] \in Seq(DocFile)
      /\ \A c \in DocFile \ {d} : docVers'[c] = docVers[c]
  BY <1>0, <1>1, <1>2 DEF DocShape
<1> DEFINE t == Append(docVers[d], f)
<1>5. /\ t \in Seq(DocFile) /\ t # <<>> /\ t[Len(t)] = f /\ Len(t) \in DOMAIN t
      /\ \A i \in DOMAIN t : t[i] = f \/ (i \in DOMAIN docVers[d] /\ t[i] = docVers[d][i])
      /\ \A i \in DOMAIN docVers[d] : i \in DOMAIN t /\ t[i] = docVers[d][i]
  <2>1. t = Append(docVers[d], f)
    OBVIOUS
  <2> HIDE DEF t, d, f
  <2> QED BY <1>2, <1>4, <2>1, AppendVersion
<1>6. docVers'[d] = t
  BY <1>4
<1> HIDE DEF t
<1>7. DocShape'
  <2>1. docVers' \in [DocFile -> Seq(DocFile)]
    BY <1>0, <1>1, <1>2, <1>4, <1>5, <1>6 DEF DocShape, t
  <2>2. \A c \in DocFile : \A i \in DOMAIN docVers'[c] : docVers'[c][i] \in docUsed
    BY <1>0, <1>2, <1>4, <1>5, <1>6 DEF DocShape
  <2>3. \A c \in DocFile \ docs : docVers'[c] = <<>>
    BY <1>0, <1>1, <1>4 DEF DocShape
  <2> QED BY <1>0, <1>1, <1>3, <2>1, <2>2, <2>3 DEF DocShape
<1>8. DocOwnInv'
  <2>1. \A o \in Request : docReq[o].pc = "insert" =>
          docReq[o].f # d /\ docReq[o].f \notin docReq[r].todo
    BY <1>0 DEF DocOwnInv
  <2>2. q.pc \notin DocUnderWay
    BY <1>2 DEF DocUnderWay
  <2> HIDE DEF d, f
  <2> QED BY <1>0, <1>1, <1>2, <1>3, <2>1, <2>2 DEF DocOwnInv, d
<1>9. DocFilesPresent'
  BY <1>0, <1>1, <1>2, <1>3 DEF DocFilesPresent, DocUnderWay
<1>10. DocFilesExplained'
  <2>1. ASSUME NEW c \in docs \ {d} PROVE DocFiles(c)' = DocFiles(c)
    <3>1. docVers'[c] = docVers[c]
      BY <1>0, <1>4, <2>1 DEF DocShape
    <3> QED BY <3>1 DEF DocFiles
  <2>2. ASSUME NEW c, c = d PROVE DocFiles(c) \subseteq DocFiles(c)' /\ f \in DocFiles(c)'
    <3> DEFINE old == docVers[c]
               new == docVers'[c]
    <3>1. /\ \A i \in DOMAIN old : i \in DOMAIN new /\ new[i] = old[i]
          /\ Len(t) \in DOMAIN new /\ new[Len(t)] = f
      BY <1>5, <1>6, <2>2
    <3>2. /\ DocFiles(c) = {old[i] : i \in DOMAIN old}
          /\ DocFiles(c)' = {new[i] : i \in DOMAIN new}
      BY DEF DocFiles
    <3> HIDE DEF old, new
    <3> QED BY <3>1, <3>2
  <2> QED BY <1>0, <1>1, <1>2, <1>3, <2>1, <2>2 DEF DocFilesExplained
<1>11. DocNewestNamed'
  <2>1. ASSUME NEW c \in docs \ {d} PROVE DocNewest(c)' = DocNewest(c)
    <3>1. docVers'[c] = docVers[c]
      BY <1>0, <1>4, <2>1 DEF DocShape
    <3> QED BY <3>1 DEF DocNewest
  <2>2. ASSUME NEW c, c = d PROVE DocNewest(c)' = f
    <3>1. docVers'[c] # <<>> /\ docVers'[c][Len(docVers'[c])] = f
      BY <1>5, <1>6, <2>2
    <3> HIDE DEF f
    <3> QED BY <3>1 DEF DocNewest
  <2> HIDE DEF d, f
  <2>3. \A o \in Request : o # r => docReq'[o] = docReq[o]
    BY <1>3
  <2>4. docReq[r].pc # "row" /\ docReq[r].pc # "vset"
    BY <1>1
  <2> QED BY <1>0, <1>1, <1>2, <1>3, <2>1, <2>2, <2>3, <2>4 DEF DocNewestNamed, DocAt
<1> QED BY <1>7, <1>8, <1>9, <1>10, <1>11 DEF DocFilesInv

\* The label of the version that was inserted.
LEMMA SetVersionStep ==
  ASSUME DocFilesInv, NEW r \in Request, DocSetVersion(r)
  PROVE  DocFilesInv'
<1> USE DocAssumption, DocIdleType
<1> DEFINE d == docReq[r].d
           f == docReq[r].f
<1>0. /\ DocShape /\ DocOwnInv /\ DocFilesPresent /\ DocFilesExplained /\ DocNewestNamed
      /\ docReq \in [Request -> DocReqs] /\ docReq[r] \in DocReqs
  BY DEF DocFilesInv, DocShape
<1>1. /\ docReq[r].pc = "vset" /\ d \in docs /\ docReq' = [docReq EXCEPT ![r] = DocIdle]
      /\ docVer' = [docVer EXCEPT ![d] = f]
      /\ docMixed' = IF DocNewest(d) = f THEN docMixed \ {d} ELSE docMixed \cup {d}
      /\ UNCHANGED <<docStore, docUsed, docs, docVers, docLog, docCount,
                     docHalf, docLeaked, docMissed>>
  BY DEF DocSetVersion, DocLabel, DocGoto, DocAt, docDown
<1>2. d \in DocFile /\ f \in DocFile
  BY <1>0, <1>1 DEF DocOwnInv, DocShape
<1>3. /\ docReq'[r] = DocIdle /\ \A o \in Request \ {r} : docReq'[o] = docReq[o]
      /\ docReq' \in [Request -> DocReqs]
  BY <1>0, <1>1
<1> HIDE DEF d, f
<1>4. \A c : DocNewest(c)' = DocNewest(c) /\ DocFiles(c)' = DocFiles(c)
  BY <1>1 DEF DocNewest, DocFiles
<1>5. DocShape'
  BY <1>0, <1>1, <1>2, <1>3 DEF DocShape
<1>6. DocOwnInv'
  <2>1. NONE \notin docUsed /\ "idle" \notin DocUnderWay
    BY <1>0 DEF DocShape, DocUnderWay
  <2> QED BY <1>0, <1>1, <1>3, <2>1 DEF DocOwnInv
<1>7. DocFilesPresent'
  BY <1>0, <1>1, <1>3 DEF DocFilesPresent, DocUnderWay
<1>8. DocFilesExplained'
  BY <1>0, <1>1, <1>3, <1>4 DEF DocFilesExplained
<1>9. DocNewestNamed'
  <2>1. docVer'[d] = f /\ \A c \in DocFile \ {d} : docVer'[c] = docVer[c]
    BY <1>0, <1>1, <1>2 DEF DocShape
  <2>2. docs \subseteq DocFile
    BY <1>0 DEF DocShape
  <2>3. \A c \in docs \ {d} : \A o \in Request : docReq[o].d = c => o # r
    BY DEF d
  <2> QED BY <1>0, <1>1, <1>3, <1>4, <2>1, <2>2, <2>3 DEF DocNewestNamed, DocAt
<1> QED BY <1>5, <1>6, <1>7, <1>8, <1>9 DEF DocFilesInv

(***************************************************************************)
(* The theorems.                                                           *)
(***************************************************************************)

\* The invariant holds from the empty tables on.
THEOREM DocInductive == DocSpec => []DocIInv
<1>1. DocInit => DocIInv
  <2> SUFFICES ASSUME DocInit PROVE DocIInv
    OBVIOUS
  <2>1. DocFilesInv
    BY DocIdleType, DocAssumption
       DEF DocInit, DocFilesInv, DocShape, DocOwnInv, DocFilesPresent, DocFilesExplained,
           DocNewestNamed, DocUnderWay
  <2>2. CountInv
    <3>1. ASSUME NEW d \in DocFile
          PROVE  Cardinality(Counting(d)) = 0 /\ Cardinality(DocLoading(d)) = 0
      <4>1. Counting(d) = {} /\ DocLoading(d) = {}
        BY DocIdleType DEF DocInit, Counting, DocLoading
      <4> QED BY <4>1, FS_EmptySet
    <3>2. ASSUME NEW d \in DocFile PROVE docLog[d] = 0 /\ docCount[d] = 0 /\ docMissed[d] = 0
      BY DEF DocInit
    <3> QED BY <3>1, <3>2, DocAssumption DEF CountInv
  <2> QED BY <2>1, <2>2 DEF DocIInv, DocFilesInv
<1>2. DocIInv /\ [DocNext]_docVars => DocIInv'
  <2> SUFFICES ASSUME DocIInv, [DocNext]_docVars PROVE DocIInv'
    OBVIOUS
  <2>0. DocFilesInv /\ CountInv /\ DocShape
    BY DEF DocIInv, DocFilesInv
  <2>1. CASE UNCHANGED docVars
    <3> USE <2>1 DEF docVars, docData, docDown, docHist
    <3>1. DocShape'
      BY <2>0 DEF DocShape
    <3>2. DocOwnInv' /\ DocFilesPresent'
      BY DEF DocIInv, DocOwnInv, DocFilesPresent
    <3>3. CountInv'
      BY <2>0 DEF CountInv, Counting, DocLoading
    <3>4. \A d : DocFiles(d)' = DocFiles(d) /\ DocNewest(d)' = DocNewest(d)
      BY DEF DocFiles, DocNewest
    <3>5. DocFilesExplained' /\ DocNewestNamed'
      BY <3>4 DEF DocIInv, DocFilesExplained, DocNewestNamed, DocAt
    <3> QED BY <3>1, <3>2, <3>3, <3>5 DEF DocIInv
  <2>2. ASSUME NEW r \in Request, DocHandler(r) PROVE DocIInv'
    <3>1. CountInv'
      BY <2>2, CountStep
    <3>2. DocFilesInv'
      BY <2>0, <2>2, QuietStep, StoreStep, InsertStep, DeleteFileStep, DeleteVersionsStep,
         DeleteRowStep, InsertVersionStep, SetVersionStep DEF DocHandler
    <3> QED BY <3>1, <3>2 DEF DocIInv, DocFilesInv
  <2>3. ASSUME NEW d \in DocFile, DocUpdate(d) PROVE DocIInv'
    <3>1. CountInv'
      BY <2>0, <2>3 DEF DocUpdate, docDown, CountInv, Counting, DocLoading
    <3>2. DocFilesInv'
      BY <2>0, <2>3, UpdateStep
    <3> QED BY <3>1, <3>2 DEF DocIInv, DocFilesInv
  <2> QED BY <2>1, <2>2, <2>3 DEF DocNext
<1> QED BY <1>1, <1>2, PTL DEF DocSpec

\* The rows, files and requests of documents stay well formed, and the log never
\* holds more downloads than were begun.
THEOREM DocTypeCorrect == DocSpec => []DocTypeOK
<1>1. DocIInv => DocTypeOK
  <2> SUFFICES ASSUME DocIInv PROVE DocTypeOK
    OBVIOUS
  <2>1. ASSUME NEW d \in DocFile PROVE docLog[d] \in 0..MaxDownloads /\ docCount[d] \in 0..MaxDownloads
    <3> DEFINE n == Cardinality(Counting(d))
               l == Cardinality(DocLoading(d))
    <3>1. n \in Nat /\ l \in Nat /\ n <= l
      BY CardStep, CardCounting, HandlersAssumption, FS_Subset, FS_CardinalityType
         DEF Counting, DocLoading
    <3>2. /\ docLog[d] \in Nat /\ docCount[d] \in Nat /\ docMissed[d] \in Nat
          /\ docLog[d] <= docCount[d] + docMissed[d] + n
          /\ docCount[d] + docMissed[d] + l <= MaxDownloads
      BY DEF DocIInv, CountInv, DocShape
    <3> HIDE DEF n, l
    <3> QED BY <3>1, <3>2, DocAssumption
  <2>2. \A d \in DocFile : DocFiles(d) \subseteq docUsed
    BY DEF DocIInv, DocShape, DocFiles
  <2> QED BY <2>1, <2>2 DEF DocIInv, DocShape, DocTypeOK
<1> QED BY <1>1, DocInductive, PTL

\* A document without its file is being deleted, or its deletion stopped half way.
THEOREM DocHaveFiles == DocSpec => []DocFilesPresent
<1>1. DocIInv => DocFilesPresent
  BY DEF DocIInv
<1> QED BY <1>1, DocInductive, PTL

\* A file without a row is about to get one, or was left by a failure, a refusal or
\* the deletion of a document with versions.
THEOREM DocFilesHaveRows == DocSpec => []DocFilesExplained
<1>1. DocIInv => DocFilesExplained
  BY DEF DocIInv
<1> QED BY <1>1, DocInductive, PTL

\* The statistics never report more downloads than the counter holds, but for
\* those on their way to the counter or lost on it.
THEOREM DocDownloads == DocSpec => []DocDownloadsCounted
<1>1. DocIInv => DocDownloadsCounted
  BY DEF DocIInv, DocShape, CountInv, Counting, DocDownloadsCounted, DocTotalDownloads, DocAt
<1> QED BY <1>1, DocInductive, PTL

\* A document's label names its newest version, but for the uploads, clients and
\* failures that stand between them.
THEOREM DocLabels == DocSpec => []DocNewestNamed
<1>1. DocIInv => DocNewestNamed
  BY DEF DocIInv
<1> QED BY <1>1, DocInductive, PTL

(***************************************************************************)
(* The files of versions, and calm behaviours.                             *)
(***************************************************************************)

\* The names that are a version's: in a row, or uploaded for one.
IsVersion(f) == \/ \E d \in DocFile : f \in DocFiles(d)
                \/ \E r \in Request : docReq[r].pc = "vrow" /\ docReq[r].f = f

\* A version's file is in the store, and no document, upload or deletion goes by its
\* name.
VersionInv ==
  \A f \in DocFile : IsVersion(f) =>
    /\ f \in docStore \ docs
    /\ \A r \in Request : /\ docReq[r].d # f /\ f \notin docReq[r].todo
                          /\ docReq[r].pc = "insert" => docReq[r].f # f

\* A step of one request that uploads nothing and deletes no version's file.
LEMMA VersionKeeps ==
  ASSUME DocShape, VersionInv, NEW r \in Request, NEW q, docReq' = [docReq EXCEPT ![r] = q],
         \A d \in DocFile : docVers'[d] \in {docVers[d], <<>>},
         docStore \ {docReq[r].d} \subseteq docStore',
         docs' \subseteq docs \cup {docReq[r].f : x \in {docReq[r].pc} \cap {"insert"}},
         q.pc \notin {"insert", "vrow"},
         q.d \in docs \cup {docReq[r].d, NONE} \cup docReq[r].todo,
         q.todo \subseteq docs \cup docReq[r].todo
  PROVE  VersionInv'
<1>1. SUFFICES ASSUME NEW f \in DocFile, IsVersion(f)'
               PROVE  /\ f \in docStore' \ docs'
                      /\ \A o \in Request : /\ docReq'[o].d # f /\ f \notin docReq'[o].todo
                                            /\ docReq'[o].pc = "insert" => docReq'[o].f # f
  BY DEF VersionInv
<1>2. docReq'[r] = q /\ \A o \in Request \ {r} : docReq'[o] = docReq[o]
  BY DEF DocShape
<1>3. \A d \in DocFile : DocFiles(d)' \subseteq DocFiles(d)
  BY EmptyDomain DEF DocFiles
<1>4. IsVersion(f)
  BY <1>1, <1>2, <1>3 DEF IsVersion
<1>5. /\ f \in docStore \ docs
      /\ \A o \in Request : /\ docReq[o].d # f /\ f \notin docReq[o].todo
                            /\ docReq[o].pc = "insert" => docReq[o].f # f
  BY <1>4 DEF VersionInv
<1>6. f # NONE
  BY DocAssumption
<1> QED BY <1>2, <1>5, <1>6

\* The files of versions are safe from every step: an upload chooses a new name, and a
\* deletion deletes the file of a document.
LEMMA VersionStep ==
  ASSUME DocIInv, VersionInv, [DocNext]_docVars
  PROVE  VersionInv'
<1> USE DocIdleType
<1>0. DocShape /\ DocOwnInv /\ docReq \in [Request -> DocReqs]
  BY DEF DocIInv, DocShape
<1>1. CASE UNCHANGED docVars
  <2>1. \A d : DocFiles(d)' = DocFiles(d)
    BY <1>1 DEF DocFiles, docVars, docData
  <2> QED BY <1>1, <2>1 DEF docVars, docData, VersionInv, IsVersion
<1>2. ASSUME NEW d \in DocFile, DocUpdate(d) PROVE VersionInv'
  <2>1. \A c : DocFiles(c)' = DocFiles(c)
    BY <1>2 DEF DocFiles, DocUpdate
  <2> QED BY <1>2, <2>1 DEF DocUpdate, VersionInv, IsVersion
<1>3. ASSUME NEW r \in Request, DocUpload(r) \/ DocPutVersion(r) PROVE VersionInv'
  <2>1. PICK f \in DocFile \ docUsed, q \in DocReqs :
          /\ docStore' = docStore \cup {f} /\ UNCHANGED <<docs, docVers>>
          /\ docReq' = [docReq EXCEPT ![r] = q] /\ q.f = f
          /\ \/ q.pc = "insert" /\ q.d = NONE /\ q.todo = {}
             \/ /\ q.pc = "vrow" /\ docReq[r].pc = "vput"
                /\ q.d = docReq[r].d /\ q.todo = docReq[r].todo
    <3>1. CASE DocUpload(r)
      <4>1. PICK f \in DocFile \ docUsed :
              /\ docStore' = docStore \cup {f}
              /\ docReq' = [docReq EXCEPT ![r] = [DocIdle EXCEPT !.pc = "insert", !.f = f]]
        BY <3>1 DEF DocUpload, DocNewNames, DocGoto
      <4>2. LET q == [DocIdle EXCEPT !.pc = "insert", !.f = f]
            IN  q \in DocReqs /\ q.pc = "insert" /\ q.d = NONE /\ q.todo = {} /\ q.f = f
        BY DEF DocIdle, DocReqs
      <4> QED BY <3>1, <4>1, <4>2 DEF DocUpload
    <3>2. CASE DocPutVersion(r)
      <4>1. PICK f \in DocFile \ docUsed :
              /\ docStore' = docStore \cup {f}
              /\ docReq' = [docReq EXCEPT ![r] = [docReq[r] EXCEPT !.pc = "vrow", !.f = f]]
        BY <3>2 DEF DocPutVersion, DocNewNames, DocGoto, DocStored
      <4>2. LET q == [docReq[r] EXCEPT !.pc = "vrow", !.f = f]
            IN  /\ q \in DocReqs /\ q.pc = "vrow" /\ q.d = docReq[r].d
                /\ q.todo = docReq[r].todo /\ q.f = f
        BY <1>0 DEF DocReqs
      <4> QED BY <3>2, <4>1, <4>2 DEF DocPutVersion, DocAt
    <3> QED BY <1>3, <3>1, <3>2
  <2>2. docReq'[r] = q /\ \A o \in Request \ {r} : docReq'[o] = docReq[o]
    BY <1>0, <2>1
  <2>3. \A d : DocFiles(d)' = DocFiles(d)
    BY <2>1 DEF DocFiles
  <2>4. /\ f \notin docs /\ f # NONE
        /\ \A o \in Request : /\ docReq[o].d # f /\ f \notin docReq[o].todo
                              /\ docReq[o].pc = "insert" => docReq[o].f # f
        /\ \A d \in DocFile : f \notin DocFiles(d)
        /\ \A o \in Request : docReq[o].pc = "vrow" => docReq[o].f # f
    BY <1>0, DocAssumption DEF DocShape, DocOwnInv, DocFiles
  <2>5. \A g \in DocFile \ {f} : IsVersion(g)' => IsVersion(g)
    BY <2>1, <2>2, <2>3 DEF IsVersion
  <2>6. IsVersion(f)' => q.pc = "vrow"
    BY <2>1, <2>2, <2>3, <2>4 DEF IsVersion
  <2>7. ASSUME NEW g \in DocFile \ {f}, IsVersion(g)'
        PROVE  /\ g \in docStore' \ docs'
               /\ \A o \in Request : /\ docReq'[o].d # g /\ g \notin docReq'[o].todo
                                     /\ docReq'[o].pc = "insert" => docReq'[o].f # g
    <3>1. IsVersion(g) /\ g # NONE
      BY <2>5, <2>7, DocAssumption
    <3>2. /\ g \in docStore \ docs
          /\ \A o \in Request : /\ docReq[o].d # g /\ g \notin docReq[o].todo
                                /\ docReq[o].pc = "insert" => docReq[o].f # g
      BY <3>1 DEF VersionInv
    <3> QED BY <2>1, <2>2, <3>1, <3>2
  <2>8. ASSUME IsVersion(f)'
        PROVE  /\ f \in docStore' \ docs'
               /\ \A o \in Request : /\ docReq'[o].d # f /\ f \notin docReq'[o].todo
                                     /\ docReq'[o].pc = "insert" => docReq'[o].f # f
    <3>1. q.pc = "vrow" /\ q.d = docReq[r].d /\ q.todo = docReq[r].todo
      BY <2>1, <2>6, <2>8
    <3> QED BY <2>1, <2>2, <2>4, <3>1
  <2> QED BY <2>7, <2>8 DEF VersionInv
<1>4. ASSUME NEW r \in Request, DocInsertVersion(r) PROVE VersionInv'
  <2> DEFINE q == [docReq[r] EXCEPT !.pc = "vset"]
             e == docReq[r].d
  <2>1. /\ docReq[r].pc = "vrow" /\ docReq' = [docReq EXCEPT ![r] = q]
        /\ docVers' = [docVers EXCEPT ![e] = Append(@, docReq[r].f)]
        /\ UNCHANGED <<docStore, docs>> /\ e \in docs
    BY <1>4 DEF DocInsertVersion, DocGoto, DocAt
  <2>2. /\ q.pc = "vset" /\ q.d = docReq[r].d /\ q.todo = docReq[r].todo
        /\ docReq'[r] = q /\ \A o \in Request \ {r} : docReq'[o] = docReq[o]
    BY <1>0, <2>1 DEF DocReqs
  <2>3. ASSUME NEW d \in DocFile PROVE DocFiles(d)' \subseteq DocFiles(d) \cup {docReq[r].f}
    <3>1. docVers[d] \in Seq(DocFile) /\ docReq[r].f \in DocFile /\ e \in DocFile
      BY <1>0, <2>1 DEF DocShape, DocOwnInv
    <3>2. CASE d # e
      <4>1. docVers'[d] = docVers[d]
        BY <1>0, <2>1, <3>2 DEF DocShape
      <4> QED BY <4>1 DEF DocFiles
    <3>3. CASE d = e
      <4>1. docVers'[d] = Append(docVers[d], docReq[r].f)
        BY <1>0, <2>1, <3>1, <3>3 DEF DocShape
      <4>2. /\ DOMAIN docVers'[d] = DOMAIN docVers[d] \cup {Len(docVers[d]) + 1}
            /\ \A i \in DOMAIN docVers[d] : docVers'[d][i] = docVers[d][i]
            /\ docVers'[d][Len(docVers[d]) + 1] = docReq[r].f
        BY <3>1, <4>1
      <4> QED BY <4>2 DEF DocFiles
    <3> QED BY <3>2, <3>3
  <2>4. \A f \in DocFile : IsVersion(f)' => IsVersion(f)
    BY <2>1, <2>2, <2>3 DEF IsVersion
  <2> HIDE DEF q
  <2> QED BY <2>1, <2>2, <2>4 DEF VersionInv
<1>5. ASSUME NEW r \in Request, NEW q, docReq' = [docReq EXCEPT ![r] = q],
             q.pc \notin {"insert", "vrow"},
             \/ q = DocIdle
             \/ q.d = docReq[r].d /\ q.todo = docReq[r].todo
             \/ q.d \in docReq[r].todo /\ q.todo \subseteq docReq[r].todo
             \/ q.d \in docs /\ q.todo \subseteq docs,
             \A d \in DocFile : docVers'[d] \in {docVers[d], <<>>},
             docStore \ {docReq[r].d} \subseteq docStore',
             docs' \subseteq docs \cup {docReq[r].f : x \in {docReq[r].pc} \cap {"insert"}}
      PROVE  VersionInv'
  BY <1>0, <1>5, VersionKeeps
<1>n. ASSUME NEW r \in Request, NEW p, NEW todo, NEW q \in DocNextOf(p, todo),
             p = docReq[r] \/ p = DocIdle
      PROVE  /\ q.pc \notin {"insert", "vrow"}
             /\ q = DocIdle \/ (q.d \in todo /\ q.todo \subseteq todo)
  <2>1. p \in DocReqs
    BY <1>0, <1>n
  <2>2. CASE todo = {}
    BY <1>n, <2>2 DEF DocNextOf
  <2>3. CASE todo # {}
    <3>1. PICK d \in todo : q = [p EXCEPT !.pc = "find", !.d = d, !.todo = todo \ {d}]
      BY <1>n, <2>3 DEF DocNextOf
    <3>2. q.pc = "find" /\ q.d = d /\ q.todo = todo \ {d}
      BY <2>1, <3>1 DEF DocReqs
    <3> QED BY <3>1, <3>2
  <2> QED BY <2>2, <2>3
<1>6. ASSUME NEW r \in Request,
             \/ DocRefuse(r) \/ DocInsert(r) \/ DocCountDownload(r) \/ DocSetVersion(r)
             \/ DocAbort(r)
      PROVE  VersionInv'
  <2>1. /\ docReq' = [docReq EXCEPT ![r] = DocIdle] /\ UNCHANGED <<docStore, docVers>>
        /\ docs' \subseteq docs \cup {docReq[r].f : x \in {docReq[r].pc} \cap {"insert"}}
    BY <1>6 DEF DocRefuse, DocInsert, DocCountDownload, DocSetVersion, DocAbort, DocGoto,
                docData, DocAt
  <2> QED BY <1>5, <2>1
<1>7. ASSUME NEW r \in Request, DocBeginDelete(r) PROVE VersionInv'
  <2>1. PICK D \in SUBSET docs :
          \E q \in DocNextOf(DocIdle, D) : docReq' = [docReq EXCEPT ![r] = q]
    BY <1>7 DEF DocBeginDelete, DocGoto
  <2>2. UNCHANGED <<docStore, docVers, docs>>
    BY <1>7 DEF DocBeginDelete, docData
  <2>3. PICK q \in DocNextOf(DocIdle, D) : docReq' = [docReq EXCEPT ![r] = q]
    BY <2>1
  <2>4. q.pc \notin {"insert", "vrow"} /\ (q = DocIdle \/ (q.d \in D /\ q.todo \subseteq D))
    BY <1>n
  <2> QED BY <1>5, <2>2, <2>3, <2>4
<1>8. ASSUME NEW r \in Request, DocDeleteFails(r) \/ DocDeleteRow(r) PROVE VersionInv'
  <2>1. PICK q \in DocNextOf(docReq[r], docReq[r].todo) : docReq' = [docReq EXCEPT ![r] = q]
    BY <1>8 DEF DocDeleteFails, DocDeleteRow, DocGoto
  <2>2. /\ \A d \in DocFile : docVers'[d] \in {docVers[d], <<>>}
        /\ docs' \subseteq docs /\ UNCHANGED docStore
    BY <1>0, <1>8 DEF DocDeleteFails, DocDeleteRow, docData, DocShape
  <2>3. /\ q.pc \notin {"insert", "vrow"}
        /\ q = DocIdle \/ (q.d \in docReq[r].todo /\ q.todo \subseteq docReq[r].todo)
    BY <1>n
  <2> QED BY <1>5, <2>1, <2>2, <2>3
<1>9. ASSUME NEW r \in Request,
             \/ DocFind(r) \/ DocDeleteFile(r) \/ DocDeleteDownloads(r)
             \/ DocDeleteVersions(r) \/ DocLogDownload(r)
      PROVE  VersionInv'
  <2>1. PICK pc \in {"file", "downloads", "versions", "row", "count"} :
          docReq' = [docReq EXCEPT ![r] = [docReq[r] EXCEPT !.pc = pc]]
    BY <1>9 DEF DocFind, DocDeleteFile, DocDeleteDownloads, DocDeleteVersions, DocLogDownload,
                DocGoto, DocAfterLog
  <2>2. /\ [docReq[r] EXCEPT !.pc = pc].pc = pc
        /\ [docReq[r] EXCEPT !.pc = pc].d = docReq[r].d
        /\ [docReq[r] EXCEPT !.pc = pc].todo = docReq[r].todo
    BY <1>0 DEF DocReqs
  <2>3. /\ \A d \in DocFile : docVers'[d] \in {docVers[d], <<>>}
        /\ UNCHANGED docs /\ docStore \ {docReq[r].d} \subseteq docStore'
    BY <1>0, <1>9 DEF DocFind, DocDeleteFile, DocDeleteDownloads, DocDeleteVersions,
                      DocLogDownload, docData, DocShape, DocWithout
  <2> QED BY <1>5, <2>1, <2>2, <2>3
<1>10. ASSUME NEW r \in Request, DocBeginDownload(r) \/ DocBeginVersion(r) PROVE VersionInv'
  <2>1. PICK d \in docs, pc \in {"log", "bump", "vput"} :
          docReq' = [docReq EXCEPT ![r] = [DocIdle EXCEPT !.pc = pc, !.d = d]]
    BY <1>10 DEF DocBeginDownload, DocBeginVersion, DocGoto
  <2>2. /\ [DocIdle EXCEPT !.pc = pc, !.d = d].pc = pc
        /\ [DocIdle EXCEPT !.pc = pc, !.d = d].d = d
        /\ [DocIdle EXCEPT !.pc = pc, !.d = d].todo = {}
    BY DEF DocIdle
  <2>3. UNCHANGED <<docStore, docVers, docs>>
    BY <1>10 DEF DocBeginDownload, DocBeginVersion, docData
  <2> QED BY <1>5, <2>1, <2>2, <2>3
<1> QED BY <1>1, <1>2, <1>3, <1>4, <1>6, <1>7, <1>8, <1>9, <1>10 DEF DocNext, DocHandler

\* The versions of a document that exists can always be read.
VersionFilesPresent == \A d \in docs : DocFiles(d) \subseteq docStore

\* A version's row finds its file (createDocumentVersion), whatever is uploaded,
\* deleted, refused and fails around it: only the files of documents are ever deleted
\* (deleteDocument), and no version has the file of a document.
THEOREM VersionsKeepTheirFiles == DocSpec => []VersionFilesPresent
<1>1. DocInit => VersionInv
  BY DocIdleType, EmptyDomain DEF DocInit, VersionInv, IsVersion, DocFiles
<1>2. DocIInv /\ VersionInv => VersionFilesPresent
  <2> SUFFICES ASSUME DocIInv, VersionInv, NEW d \in docs, NEW f \in DocFiles(d)
               PROVE  f \in docStore
    BY DEF VersionFilesPresent
  <2>1. d \in DocFile /\ f \in DocFile
    BY DEF DocIInv, DocShape, DocFiles
  <2> QED BY <2>1 DEF VersionInv, IsVersion
<1> QED BY <1>1, <1>2, VersionStep, DocInductive, PTL DEF DocSpec

\* A step in which nothing is refused or fails between a file and its row, and no
\* document that has versions loses them.  A turn of a deletion may still find that
\* the document is gone.
DocCalm ==
  \A r \in Request :
    /\ ~DocRefuse(r)
    /\ DocAbort(r) => ~DocAt(r, "insert") /\ ~DocAt(r, "vrow")
    /\ (DocAbort(r) \/ DocDeleteFails(r)) /\ docReq[r].pc \in DocUnderWay
         => docReq[r].d \notin docs
    /\ DocDeleteFile(r) => docReq[r].d \notin docStore'
    /\ DocDeleteVersions(r) \/ DocDeleteRow(r) => DocFiles(docReq[r].d) = {}

\* No request is between a file and its row.
DocFilesSettled == \A r \in Request : docReq[r].pc \notin {"insert", "vrow"} \cup DocUnderWay

\* Uploads, versions and deletions that nothing stops half way leave the store and the
\* tables in agreement (uploadDocument, createDocumentVersion, deleteDocument), in
\* whatever order they overlap: as soon as none of them is between a file and its row,
\* the store holds exactly the files that a document or one of its versions names.
THEOREM CalmDocumentsAgree ==
  DocSpec /\ [][DocCalm]_docVars
    => [](DocFilesSettled => docStore = docs \cup UNION {DocFiles(d) : d \in docs})
<1> DEFINE Clean == docHalf = {} /\ docLeaked = {}
<1>1. DocInit => Clean /\ VersionInv
  BY DocIdleType, EmptyDomain DEF DocInit, VersionInv, IsVersion, DocFiles
<1>2. Clean /\ [DocNext]_docVars /\ [DocCalm]_docVars => Clean'
  <2> SUFFICES ASSUME Clean, [DocNext]_docVars, [DocCalm]_docVars PROVE Clean'
    OBVIOUS
  <2>1. CASE UNCHANGED docVars
    BY <2>1 DEF docVars, docHist
  <2>2. ASSUME NEW r \in Request, DocAbort(r) \/ DocDeleteFails(r), DocCalm PROVE Clean'
    BY <2>2 DEF DocAbort, DocDeleteFails, DocCalm, DocAt
  <2>3. ASSUME NEW r \in Request, DocDeleteFile(r), DocCalm PROVE Clean'
    BY <2>3 DEF DocDeleteFile, DocCalm
  <2>4. ASSUME NEW r \in Request, DocDeleteVersions(r) \/ DocDeleteRow(r), DocCalm PROVE Clean'
    BY <2>4 DEF DocDeleteVersions, DocDeleteRow, DocCalm
  <2>5. ASSUME NEW r \in Request,
               \/ DocUpload(r) \/ DocInsert(r) \/ DocBeginDelete(r) \/ DocFind(r)
               \/ DocDeleteDownloads(r) \/ DocBeginDownload(r) \/ DocLogDownload(r)
               \/ DocCountDownload(r) \/ DocBeginVersion(r) \/ DocPutVersion(r)
               \/ DocInsertVersion(r) \/ DocSetVersion(r)
        PROVE  Clean'
    BY <2>5 DEF docHist, DocUpload, DocInsert, DocBeginDelete, DocFind, DocDeleteDownloads,
                DocBeginDownload, DocLogDownload, DocCountDownload, DocBeginVersion,
                DocPutVersion, DocInsertVersion, DocSetVersion
  <2>6. ASSUME NEW d \in DocFile, DocUpdate(d) PROVE Clean'
    BY <2>6 DEF DocUpdate
  <2>7. ASSUME NEW r \in Request, DocRefuse(r), DocCalm PROVE Clean'
    BY <2>7 DEF DocCalm
  <2>8. DocCalm \/ UNCHANGED docVars
    OBVIOUS
  <2> QED BY <2>1, <2>2, <2>3, <2>4, <2>5, <2>6, <2>7, <2>8 DEF DocNext, DocHandler
<1>3. DocIInv /\ VersionInv /\ Clean
        => (DocFilesSettled => docStore = docs \cup UNION {DocFiles(d) : d \in docs})
  <2> SUFFICES ASSUME DocIInv, VersionInv, Clean, DocFilesSettled
               PROVE  docStore = docs \cup UNION {DocFiles(d) : d \in docs}
    OBVIOUS
  <2>1. docs \subseteq docStore
    BY DEF DocIInv, DocFilesPresent, DocFilesSettled
  <2>2. \A f \in docStore : f \in docs \/ \E d \in docs : f \in DocFiles(d)
    BY DEF DocIInv, DocFilesExplained, DocFilesSettled
  <2>3. ASSUME NEW d \in docs, NEW f \in DocFiles(d) PROVE f \in docStore
    <3>1. d \in DocFile /\ f \in DocFile
      BY DEF DocIInv, DocShape, DocFiles
    <3> QED BY <3>1 DEF VersionInv, IsVersion
  <2> QED BY <2>1, <2>2, <2>3
<1> QED BY <1>1, <1>2, <1>3, VersionStep, DocInductive, PTL DEF DocSpec

(***************************************************************************)
(* The life cycle of files.                                                *)
(***************************************************************************)

\* A step that touches the file and the row of one name only.
LEMMA DocOneFile ==
  ASSUME NEW f \in DocFile,
         \A g \in DocFile \ {f} : /\ g \in docUsed' <=> g \in docUsed
                                  /\ g \in docs' <=> g \in docs
                                  /\ g \in docStore' <=> g \in docStore
  PROVE  docStatus' = [docStatus EXCEPT ![f] = docStatus'[f]]
  BY DEF docStatus

\* A step of a request is a step in the life of one file, or none at all.
LEMMA DocFileStep ==
  ASSUME DocIInv, NEW r \in Request, DocHandler(r)
  PROVE  [DocFileCycle!Next]_docStatus
<1> USE DEF DocFileCycle!Next, DocFileCycle!Store, DocFileCycle!Record, DocFileCycle!Lose,
            DocFileCycle!Become
<1>0. /\ docUsed \subseteq DocFile /\ docStore \subseteq docUsed /\ docs \subseteq docUsed
      /\ NONE \notin DocFile
  BY DocAssumption DEF DocIInv, DocShape
<1>u. CASE UNCHANGED <<docUsed, docs, docStore>>
  BY <1>u DEF docStatus
<1>n. ASSUME NEW f \in DocFile \ docUsed, docUsed' = docUsed \cup {f}, UNCHANGED docs,
             docStore' = docStore \cup {f}
      PROVE  DocFileCycle!Next
  <2>1. docStatus[f] = "new" /\ docStatus'[f] = "filed"
    BY <1>0, <1>n DEF docStatus
  <2>2. docStatus' = [docStatus EXCEPT ![f] = docStatus'[f]]
    BY <1>n, DocOneFile
  <2> QED BY <1>n, <2>1, <2>2
<1>1. CASE DocUpload(r)
  BY <1>1, <1>n DEF DocUpload, DocNewNames
<1>2. CASE DocPutVersion(r)
  BY <1>2, <1>n DEF DocPutVersion, DocNewNames, DocStored
<1>3. CASE DocInsert(r)
  <2> DEFINE f == docReq[r].f
  <2>1. f \in docStore \ docs
    BY <1>3 DEF DocInsert, DocAt, DocIInv, DocOwnInv
  <2>2. docs' = docs \cup {f} /\ UNCHANGED <<docStore, docUsed>>
    BY <1>3 DEF DocInsert
  <2>3. docStatus[f] = "filed" /\ docStatus'[f] = "present" /\ f \in DocFile
    BY <1>0, <2>1, <2>2 DEF docStatus
  <2> HIDE DEF f
  <2>4. docStatus' = [docStatus EXCEPT ![f] = docStatus'[f]]
    BY <2>2, <2>3, DocOneFile
  <2> QED BY <2>3, <2>4
<1>4. CASE DocDeleteFile(r) /\ ~UNCHANGED docStore
  <2> DEFINE d == docReq[r].d
  <2>1. docStore' = docStore \ {d} /\ UNCHANGED <<docs, docUsed>>
    BY <1>4 DEF DocDeleteFile, DocWithout
  <2>2. d \in docStore /\ d \in DocFile
    BY <1>0, <1>4, <2>1
  <2>3. docStatus[d] = IF d \in docs THEN "present" ELSE "filed"
    BY <1>0, <2>2 DEF docStatus
  <2>4. docStatus'[d] = IF d \in docs THEN "bereft" ELSE "gone"
    BY <1>0, <2>1, <2>2 DEF docStatus
  <2> HIDE DEF d
  <2>5. docStatus' = [docStatus EXCEPT ![d] = docStatus'[d]]
    BY <2>1, <2>2, DocOneFile
  <2> QED BY <2>2, <2>3, <2>4, <2>5
<1>5. CASE DocDeleteRow(r)
  <2> DEFINE d == docReq[r].d
  <2>1. d \in docs /\ docs' = docs \ {d} /\ UNCHANGED <<docStore, docUsed>>
    BY <1>5 DEF DocDeleteRow
  <2> HIDE DEF d
  <2>2. docStatus[d] \in {"present", "bereft"} /\ {d} \in SUBSET DocFile
    BY <1>0, <2>1 DEF docStatus
  <2>3. docStatus' = [f \in DocFile |-> IF f \notin {d} THEN docStatus[f]
                                       ELSE IF docStatus[f] = "present" THEN "filed" ELSE "gone"]
    BY <1>0, <2>1 DEF docStatus
  <2>4. DocFileCycle!Drop({d})
    BY <2>2, <2>3 DEF DocFileCycle!Drop
  <2> QED BY <2>2, <2>4
<1>6. DocDeleteFile(r) => UNCHANGED <<docs, docUsed>>
  BY DEF DocDeleteFile
<1> QED BY <1>u, <1>1, <1>2, <1>3, <1>4, <1>5, <1>6
        DEF DocHandler, docData, DocRefuse, DocBeginDelete, DocFind, DocDeleteDownloads,
            DocDeleteVersions, DocDeleteFails, DocBeginDownload, DocLogDownload,
            DocCountDownload, DocBeginVersion, DocInsertVersion, DocSetVersion, DocAbort

\* Whatever overlaps, fails or crashes, a document gets its row with its file in
\* the store, and neither file nor row comes back once it is gone.
THEOREM DocImplementsLife == DocSpec => DocImplementsFileLifecycle
<1>1. DocInit => DocFileCycle!Init
  BY DEF DocInit, DocFileCycle!Init, docStatus
<1>2. DocIInv /\ [DocNext]_docVars => [DocFileCycle!Next]_docStatus
  <2> SUFFICES ASSUME DocIInv, [DocNext]_docVars PROVE [DocFileCycle!Next]_docStatus
    OBVIOUS
  <2>1. CASE UNCHANGED docVars
    BY <2>1 DEF docVars, docData, docStatus
  <2>2. ASSUME NEW d \in DocFile, DocUpdate(d) PROVE UNCHANGED docStatus
    BY <2>2 DEF DocUpdate, docStatus
  <2> QED BY <2>1, <2>2, DocFileStep DEF DocNext
<1> QED BY <1>1, <1>2, DocInductive, PTL DEF DocSpec, DocFileCycle!Spec, DocImplementsFileLifecycle
\* A name is never new again, a row that has lost its file does not get it back, and
\* what is gone stays gone.
DocNoReturn ==
  \A f \in DocFile :
    /\ docStatus[f] # "new" => docStatus'[f] # "new"
    /\ docStatus[f] \in {"bereft", "gone"} => docStatus'[f] \in {"bereft", "gone"}
    /\ docStatus[f] = "gone" => docStatus'[f] = "gone"

\* What the life cycle says of the documents (uploadDocument, deleteDocument): no step
\* whatsoever, of any request, brings back a file or a row, so a download that finds
\* a row without a file will find it so for ever.
THEOREM DocFilesDieOnce == DocSpec => [][DocNoReturn]_docStatus
<1>1. ASSUME NEW f \in DocFile, \/ DocFileCycle!Become(f, "new", "filed")
                                \/ DocFileCycle!Become(f, "filed", "present") \/ DocFileCycle!Lose(f)
      PROVE  DocNoReturn
  BY <1>1 DEF DocFileCycle!Become, DocFileCycle!Lose, DocNoReturn, docStatus
<1>2. ASSUME NEW D \in SUBSET DocFile, DocFileCycle!Drop(D) PROVE DocNoReturn
  BY <1>2 DEF DocFileCycle!Drop, DocNoReturn
<1>3. [DocFileCycle!Next]_docStatus => [DocNoReturn]_docStatus
  BY <1>1, <1>2 DEF DocFileCycle!Next, DocFileCycle!Store, DocFileCycle!Record
<1> QED BY <1>3, DocImplementsLife, PTL DEF DocImplementsFileLifecycle, DocFileCycle!Spec
=============================================================================
