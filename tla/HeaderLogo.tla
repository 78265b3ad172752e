----------------------------- MODULE HeaderLogo -----------------------------
(***************************************************************************)
(* The logos of header configurations (HeaderConfigService).  A header     *)
(* keeps a left and a right logo in one JSON column, which no foreign key  *)
(* ties to the media rows it names.  An upload or a removal reads the      *)
(* column, changes the media rows, and writes the whole column back from   *)
(* what it read.                                                           *)
(*                                                                         *)
(* A media row stands for the row and its file; what may come between them *)
(* is the subject of MediaLibrary.                                         *)
(***************************************************************************)
CONSTANTS Header,
          LogoId,       \* primary keys of the media rows
          LogoRequest,  \* uploads and removals that may be in flight at once
          NULL          \* no row

ASSUME LogoAssumption == NULL \notin LogoId

VARIABLES header,  \* each header: not created yet, live or deleted
          logo,    \* the logo columns
          media,   \* the media rows that were uploaded as logos
          used,    \* every identifier such a row ever had
          logoReq, \* the uploads and removals in flight
          broken,  \* history: identifiers that may be shown without a row
          leaked   \* history: rows that may stay without being shown

logoVars == <<header, logo, media, used, logoReq, broken, leaked>>

-----------------------------------------------------------------------------
Side == {"left", "right"}
Logos == [Side -> LogoId \cup {NULL}]
NoLogos == [s \in Side |-> NULL]
Ids(l) == {l[s] : s \in Side} \ {NULL}

\* A request: its header and side, the column it read, and the row it uploaded.
LogoReq == [pc : {"idle", "upload", "delete", "update"}, h : Header \cup {NULL},
            side : Side, snap : Logos, new : LogoId \cup {NULL}]

LogoIdle == [pc |-> "idle", h |-> NULL, side |-> "left", snap |-> NoLogos, new |-> NULL]

Live == {h \in Header : header[h] = "live"}

\* The headers' logos that are on display.
Shown(h, s, m) == h \in Live /\ logo[h][s] = m /\ m # NULL

LogoInit == /\ header = [h \in Header |-> "unused"]
            /\ logo = [h \in Header |-> NoLogos]
            /\ media = {} /\ used = {} /\ broken = {} /\ leaked = {}
            /\ logoReq = [r \in LogoRequest |-> LogoIdle]

-----------------------------------------------------------------------------
LogoGoto(r, q) == logoReq' = [logoReq EXCEPT ![r] = q]

\* Both handlers delete the old logo first, if the side shows one.
Replacing(snap, side) == IF snap[side] = NULL THEN "update" ELSE "delete"

\* uploadLogo and removeLogo: findById reads the column.
BeginLogoUpload(r) ==
  /\ logoReq[r].pc = "idle"
  /\ \E h \in Live, s \in Side :
       LogoGoto(r, [pc |-> "upload", h |-> h, side |-> s, snap |-> logo[h], new |-> NULL])
  /\ UNCHANGED <<header, logo, media, used, broken, leaked>>

BeginLogoRemove(r) ==
  /\ logoReq[r].pc = "idle"
  /\ \E h \in Live, s \in Side :
       LogoGoto(r, [pc |-> Replacing(logo[h], s), h |-> h, side |-> s, snap |-> logo[h],
                    new |-> NULL])
  /\ UNCHANGED <<header, logo, media, used, broken, leaked>>

\* MediaService.uploadMedia.
Upload(r) ==
  /\ logoReq[r].pc = "upload"
  /\ \E m \in LogoId \ used :
       /\ media' = media \cup {m}
       /\ used' = used \cup {m}
       /\ LogoGoto(r, [logoReq[r] EXCEPT
                         !.new = m, !.pc = Replacing(logoReq[r].snap, logoReq[r].side)])
  /\ UNCHANGED <<header, logo, broken, leaked>>

\* Mutant: the old logo is kept.
RemainingAll(m) == media

Remaining(m) == media \ {m}

\* MediaService.deleteMedia of the old logo.  A row that a slider shows as well,
\* or an error, refuses it; the handler goes on all the same.
DeleteOld(r) ==
  /\ logoReq[r].pc = "delete"
  /\ LogoGoto(r, [logoReq[r] EXCEPT !.pc = "update"])
  /\ LET old == logoReq[r].snap[logoReq[r].side] IN
     \/ media' = Remaining(old) /\ leaked' = leaked \ {old}
     \/ leaked' = leaked \cup ({old} \cap media) /\ UNCHANGED media
  /\ UNCHANGED <<header, logo, used, broken>>

\* Mutant: the new logo is spread before the old column.
MergedUnder(snap, side, new) ==
  [snap EXCEPT ![side] = IF snap[side] = NULL THEN new ELSE snap[side]]

\* The column that a handler writes: what it read, but for its side.
Merged(snap, side, new) == [snap EXCEPT ![side] = new]

\* HeaderConfigRepository.update.  A column that has changed since it was read
\* comes back as it was read: what it shows meanwhile is leaked, and what it
\* shows again may be gone.
Update(r) ==
  LET q == logoReq[r]
      lost == {s \in Side : logo[q.h][s] # q.snap[s]}
  IN /\ q.pc = "update" /\ q.h \in Live
     /\ logo' = [logo EXCEPT ![q.h] = Merged(q.snap, q.side, q.new)]
     /\ leaked' = leaked \cup ({logo[q.h][s] : s \in lost} \cap media)
     /\ broken' = broken \cup ({q.snap[s] : s \in lost \ {q.side}} \ {NULL})
     /\ LogoGoto(r, LogoIdle)
     /\ UNCHANGED <<header, media, used>>

\* A database error, a crash, or an update that finds its header deleted.
Abort(r) ==
  /\ logoReq[r].pc # "idle"
  /\ leaked' = leaked \cup ({logoReq[r].new} \cap media)
  /\ broken' = IF logoReq[r].pc = "update"
               THEN broken \cup ({logoReq[r].snap[logoReq[r].side]} \ {NULL})
               ELSE broken
  /\ LogoGoto(r, LogoIdle)
  /\ UNCHANGED <<header, logo, media, used>>

\* createHeaderConfig: the logos are what the client names, and nobody checks
\* that they are rows.
Create(h) ==
  /\ header[h] = "unused"
  /\ header' = [header EXCEPT ![h] = "live"]
  /\ \E l \in [Side -> used \cup {NULL}] : /\ logo' = [logo EXCEPT ![h] = l]
                                           /\ broken' = broken \cup Ids(l)
  /\ UNCHANGED <<media, used, logoReq, leaked>>

\* updateHeaderConfig with a logo column: likewise, and what is not named again
\* is no longer shown.
Edit(h) ==
  /\ h \in Live
  /\ \E l \in [Side -> used \cup {NULL}] :
       /\ logo' = [logo EXCEPT ![h] = l]
       /\ broken' = broken \cup ({l[s] : s \in {t \in Side : l[t] # logo[h][t]}} \ {NULL})
       /\ leaked' = leaked \cup ((Ids(logo[h]) \ Ids(l)) \cap media)
  /\ UNCHANGED <<header, media, used, logoReq>>

\* deleteHeaderConfig leaves the logos' rows.
Delete(h) ==
  /\ h \in Live
  /\ header' = [header EXCEPT ![h] = "deleted"]
  /\ leaked' = leaked \cup (Ids(logo[h]) \cap media)
  /\ UNCHANGED <<logo, media, used, logoReq, broken>>

\* The media library deletes a row: it does not look at the headers.
DeleteMedia(m) ==
  /\ m \in media
  /\ media' = media \ {m}
  /\ broken' = broken \cup {m}
  /\ leaked' = leaked \ {m}
  /\ UNCHANGED <<header, logo, used, logoReq>>

Handler(r) == \/ BeginLogoUpload(r) \/ BeginLogoRemove(r)
              \/ Upload(r) \/ DeleteOld(r) \/ Update(r) \/ Abort(r)

LogoNext == \/ \E r \in LogoRequest : Handler(r)
            \/ \E h \in Header : Create(h) \/ Edit(h) \/ Delete(h)
            \/ \E m \in LogoId : DeleteMedia(m)

LogoSpec == LogoInit /\ [][LogoNext]_logoVars

-----------------------------------------------------------------------------
(* Properties *)

\* The columns, rows and requests of HeaderConfigService: a column always has
\* both sides, and a request in flight knows its header.
LogoTypeOK == /\ header \in [Header -> {"unused", "live", "deleted"}]
              /\ logo \in [Header -> Logos]
              /\ used \subseteq LogoId /\ media \subseteq used
              /\ logoReq \in [LogoRequest -> LogoReq]
              /\ \A r \in LogoRequest : logoReq[r].pc # "idle" => logoReq[r].h \in Header
              /\ broken \subseteq LogoId /\ leaked \subseteq media

\* A logo on display whose media row is gone (uploadLogo, removeLogo) is about
\* to be replaced by the request that deleted it, unless the media library
\* deleted it, a client named it, the request failed after the deletion, or a
\* request wrote back a column that had changed since it read it.
DanglingExplained ==
  \A h \in Header, s \in Side, m \in LogoId :
    Shown(h, s, m) /\ m \notin media \cup broken =>
      \E r \in LogoRequest : /\ logoReq[r].pc = "update"
                             /\ logoReq[r].h = h /\ logoReq[r].side = s /\ logoReq[r].snap[s] = m

\* A row that was uploaded as a logo and is on no header (uploadLogo,
\* removeLogo) is about to be written by its upload, unless its deletion was
\* refused, its header or the column that named it was replaced or deleted, the
\* upload failed, or another request wrote an old column over it.
OrphansExplained ==
  \A m \in media \ leaked :
    \/ \E h \in Header, s \in Side : Shown(h, s, m)
    \/ \E r \in LogoRequest : logoReq[r].pc # "idle" /\ logoReq[r].new = m
=============================================================================
