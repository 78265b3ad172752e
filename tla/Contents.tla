------------------------------ MODULE Contents ------------------------------
(***************************************************************************)
(* Contents with their slugs and attachments (ContentService,              *)
(* ContentAttachmentService).  A slug is looked up in one statement and    *)
(* written in a later one, and the unique index has the last word.  An     *)
(* attachment's file is stored before its row and deleted before its row;  *)
(* deleting a content removes the rows of its attachments and keeps their  *)
(* files.                                                                  *)
(*                                                                         *)
(* A slug is a slugified title and the number that generateSlug appends.   *)
(* An attachment is identified with the name of its file.                  *)
(***************************************************************************)
EXTENDS Handlers

CONSTANTS ContentId, Title, MaxSuffix, Piece

ASSUME CntAssumption == /\ NONE \notin ContentId \cup Piece /\ MaxSuffix \in Nat
                        /\ NONE \notin Title \X (0..MaxSuffix)

VARIABLES cntSlug,   \* the slug of each content, NONE when there is no row
          cntDead,   \* identifiers whose content was deleted
          cntAtt,    \* the content of each attachment row
          cntStore,  \* the files in the store
          cntUsed,   \* every file name ever generated
          cntReq,    \* the requests in flight
          cntHalf,   \* history: attachments whose deletion stopped half way
          cntLeaked  \* history: files that may stay without a row

cntRows == <<cntSlug, cntDead>>
cntFiles == <<cntAtt, cntStore, cntUsed, cntHalf, cntLeaked>>
cntVars == <<cntRows, cntFiles, cntReq>>

-----------------------------------------------------------------------------
Slugs == Title \X (0..MaxSuffix)

\* A request: its step, its content, the slug it asks for, whether the slug is
\* generated, and whether another request took it after the last look (history);
\* for attachments, the file.
CntReqs == [pc : {"idle", "search", "check", "write", "put", "attach", "unput", "detach"},
            c : ContentId \cup {NONE}, s : Slugs \cup {NONE}, new : BOOLEAN, late : BOOLEAN,
            p : Piece \cup {NONE}]

CntIdle == [pc |-> "idle", c |-> NONE, s |-> NONE, new |-> FALSE, late |-> FALSE, p |-> NONE]

CntInit == /\ cntSlug = [c \in ContentId |-> NONE] /\ cntDead = {}
           /\ cntAtt = [p \in Piece |-> NONE] /\ cntStore = {} /\ cntUsed = {}
           /\ cntReq = [r \in Request |-> CntIdle]
           /\ cntHalf = {} /\ cntLeaked = {}

CntGoto(r, q) == cntReq' = [cntReq EXCEPT ![r] = q]

CntAt(r, pc) == cntReq[r].pc = pc

CntLive == {c \in ContentId : cntSlug[c] # NONE}

\* The unique index.
CntTaken(s, c) == \E d \in ContentId \ {c} : cntSlug[d] = s

\* Mutant: the look for a slug ignores the other contents' numbered slugs.
SlugExistsBare(s, c) == CntTaken(s, c) /\ s[2] = 0

\* slugExists, which leaves the content itself out.
SlugExists(s, c) == CntTaken(s, c)

-----------------------------------------------------------------------------
\* createContent: a slug is given or generated from the title.
CntBeginCreate(r) ==
  /\ CntAt(r, "idle")
  /\ \E c \in ContentId \ (CntLive \cup cntDead), t \in Title, pc \in {"search", "check"} :
       /\ \A o \in Request : cntReq[o].c # c
       /\ CntGoto(r, [CntIdle EXCEPT !.pc = pc, !.c = c, !.s = <<t, 0>>, !.new = TRUE])
  /\ UNCHANGED <<cntRows, cntFiles>>

\* updateContent: another slug is looked up by the service; a title without one
\* has the repository generate a slug.
CntBeginUpdate(r) ==
  /\ CntAt(r, "idle")
  /\ \E c \in CntLive, t \in Title, pc \in {"search", "check"} :
       CntGoto(r, [CntIdle EXCEPT !.pc = pc, !.c = c, !.s = <<t, 0>>])
  /\ UNCHANGED <<cntRows, cntFiles>>

\* generateSlug: one look of its loop.  A new content's slug is looked up once
\* more by createContent.
CntSearch(r) ==
  LET q == cntReq[r] IN
  /\ CntAt(r, "search")
  /\ IF SlugExists(q.s, q.c)
     THEN q.s[2] < MaxSuffix /\ CntGoto(r, [q EXCEPT !.s = <<q.s[1], q.s[2] + 1>>])
     ELSE CntGoto(r, [q EXCEPT !.pc = IF q.new THEN "check" ELSE "write", !.late = FALSE])
  /\ UNCHANGED <<cntRows, cntFiles>>

CntCheck(r) ==
  /\ CntAt(r, "check") /\ ~SlugExists(cntReq[r].s, cntReq[r].c)
  /\ CntGoto(r, [cntReq[r] EXCEPT !.pc = "write", !.late = FALSE])
  /\ UNCHANGED <<cntRows, cntFiles>>

\* ContentRepository.create and update: the row is new, or still there.  The
\* requests that found the slug free before are late now.
CntWrite(r) ==
  LET q == cntReq[r] IN
  /\ CntAt(r, "write") /\ ~CntTaken(q.s, q.c)
  /\ q.new \/ q.c \in CntLive
  /\ cntSlug' = [cntSlug EXCEPT ![q.c] = q.s]
  /\ cntReq' = [o \in Request |->
                  IF o = r THEN CntIdle
                  ELSE [cntReq[o] EXCEPT !.late = @ \/ (CntAt(o, "write") /\ cntReq[o].s = q.s)]]
  /\ UNCHANGED <<cntDead, cntFiles>>

\* The attachments of a content.
CntPieces(c) == {p \in Piece : cntAtt[p] = c}

\* deleteContent: the attachments' rows go with the row, their files stay.
CntDelete(c) ==
  /\ c \in CntLive
  /\ cntSlug' = [cntSlug EXCEPT ![c] = NONE]
  /\ cntDead' = cntDead \cup {c}
  /\ cntAtt' = [p \in Piece |-> IF cntAtt[p] = c THEN NONE ELSE cntAtt[p]]
  /\ cntLeaked' = cntLeaked \cup (CntPieces(c) \cap cntStore)
  /\ cntHalf' = cntHalf \ CntPieces(c)
  /\ UNCHANGED <<cntStore, cntUsed, cntReq>>

-----------------------------------------------------------------------------
\* Mutant: a name that is only free in the store.
CntFreeNames == Piece \ cntStore

\* generateKey: a name that was never generated.
CntNewNames == Piece \ cntUsed

\* uploadAttachment: findById finds the content.
CntBeginAttach(r) ==
  /\ CntAt(r, "idle")
  /\ \E c \in CntLive : CntGoto(r, [CntIdle EXCEPT !.pc = "put", !.c = c])
  /\ UNCHANGED <<cntRows, cntFiles>>

CntPut(r) ==
  /\ CntAt(r, "put")
  /\ \E p \in CntNewNames :
       /\ cntStore' = cntStore \cup {p} /\ cntUsed' = cntUsed \cup {p}
       /\ CntGoto(r, [cntReq[r] EXCEPT !.pc = "attach", !.p = p])
  /\ UNCHANGED <<cntRows, cntAtt, cntHalf, cntLeaked>>

\* The row needs its content.
CntAttach(r) ==
  /\ CntAt(r, "attach") /\ cntReq[r].c \in CntLive
  /\ cntAtt' = [cntAtt EXCEPT ![cntReq[r].p] = cntReq[r].c]
  /\ CntGoto(r, CntIdle)
  /\ UNCHANGED <<cntRows, cntStore, cntUsed, cntHalf, cntLeaked>>

\* deleteAttachment.
CntBeginDetach(r) ==
  /\ CntAt(r, "idle")
  /\ \E p \in Piece : /\ cntAtt[p] # NONE
                      /\ CntGoto(r, [CntIdle EXCEPT !.pc = "unput", !.p = p])
  /\ UNCHANGED <<cntRows, cntFiles>>

\* Mutant: the file is taken for gone without being deleted.
CntRemainingAll(p) == cntStore

CntRemaining(p) == cntStore \ {p}

\* The store deletes the file.  An error of the store ends the request (CntAbort).
CntUnput(r) ==
  LET p == cntReq[r].p IN
  /\ CntAt(r, "unput")
  /\ cntStore' = CntRemaining(p)
  /\ cntLeaked' = cntLeaked \ {p}
  /\ CntGoto(r, [cntReq[r] EXCEPT !.pc = "detach"])
  /\ UNCHANGED <<cntRows, cntAtt, cntUsed, cntHalf>>

CntDetach(r) ==
  LET p == cntReq[r].p IN
  /\ CntAt(r, "detach") /\ cntAtt[p] # NONE
  /\ cntAtt' = [cntAtt EXCEPT ![p] = NONE]
  /\ cntHalf' = cntHalf \ {p}
  /\ CntGoto(r, CntIdle)
  /\ UNCHANGED <<cntRows, cntStore, cntUsed, cntLeaked>>

-----------------------------------------------------------------------------
\* A refusal, an error or a crash ends a request.
CntAbort(r) ==
  LET q == cntReq[r] IN
  /\ q.pc # "idle"
  /\ cntLeaked' = cntLeaked \cup (IF q.pc = "attach" THEN {q.p} ELSE {})
  /\ cntHalf' = cntHalf \cup {p \in {q.p} : q.pc = "detach" /\ cntAtt[p] # NONE}
  /\ CntGoto(r, CntIdle)
  /\ UNCHANGED <<cntRows, cntAtt, cntStore, cntUsed>>

CntHandler(r) ==
  \/ CntBeginCreate(r) \/ CntBeginUpdate(r) \/ CntSearch(r) \/ CntCheck(r) \/ CntWrite(r)
  \/ CntBeginAttach(r) \/ CntPut(r) \/ CntAttach(r)
  \/ CntBeginDetach(r) \/ CntUnput(r) \/ CntDetach(r)
  \/ CntAbort(r)

CntNext == \/ \E r \in Request : CntHandler(r)
           \/ \E c \in ContentId : CntDelete(c)

CntSpec == CntInit /\ [][CntNext]_cntVars

-----------------------------------------------------------------------------
(* Properties *)

\* The rows, files and requests of ContentService are well formed; an
\* attachment's row has its content.
CntTypeOK ==
  /\ cntSlug \in [ContentId -> Slugs \cup {NONE}] /\ cntDead \subseteq ContentId
  /\ cntDead \cap CntLive = {}
  /\ cntAtt \in [Piece -> CntLive \cup {NONE}]
  /\ cntUsed \subseteq Piece /\ cntStore \subseteq cntUsed
  /\ cntReq \in [Request -> CntReqs]
  /\ cntHalf \subseteq cntUsed /\ cntLeaked \subseteq cntStore

\* The unique index refuses a slug that createContent, updateContent or
\* generateSlug found free only when another request took it in between.
CntClashExplained ==
  \A r \in Request :
    CntAt(r, "write") /\ CntTaken(cntReq[r].s, cntReq[r].c) => cntReq[r].late

\* An attachment whose file is gone is being deleted, or a deletion stopped half
\* way; a file without a row is about to get one, is one that an error or the
\* deletion of its content left (uploadAttachment, deleteAttachment,
\* deleteContent).
CntFilesConsistent ==
  /\ \A p \in Piece : cntAtt[p] # NONE /\ p \notin cntStore \cup cntHalf =>
       \E r \in Request : CntAt(r, "detach") /\ cntReq[r].p = p
  /\ \A p \in cntStore \ cntLeaked :
       cntAtt[p] # NONE \/ \E r \in Request : CntAt(r, "attach") /\ cntReq[r].p = p

-----------------------------------------------------------------------------
(* Attachments implement the life cycle of their files. *)

cntStatus == [p \in Piece |->
                IF p \notin cntUsed THEN "new"
                ELSE IF cntAtt[p] # NONE THEN IF p \in cntStore THEN "present" ELSE "bereft"
                ELSE IF p \in cntStore THEN "filed" ELSE "gone"]

CntFileCycle == INSTANCE FileLifecycle WITH File <- Piece, status <- cntStatus

\* Every step of uploads and deletions of attachments and of contents is a step
\* in the life of one file, but that a content takes the rows of all its
\* attachments with it (uploadAttachment, deleteAttachment, deleteContent).
CntImplementsFileLifecycle == CntFileCycle!Spec
=============================================================================
