-------------------------- MODULE HeaderLogoProofs --------------------------
(* What holds of the headers' logos for every number of headers, media rows   *)
(* and overlapping requests.                                                  *)
EXTENDS HeaderLogo, TLAPS

(***************************************************************************)
(* Typing.                                                                 *)
(***************************************************************************)

\* The empty slot is a well-formed request.
LEMMA IdleType == LogoIdle \in LogoReq
  BY DEF LogoIdle, LogoReq, Logos, NoLogos, Side

\* Every handler keeps the headers' state well formed.
LEMMA TypeStep == LogoTypeOK /\ [LogoNext]_logoVars => LogoTypeOK'
<1> SUFFICES ASSUME LogoTypeOK, [LogoNext]_logoVars PROVE LogoTypeOK'
  OBVIOUS
<1> USE IdleType, LogoAssumption DEF LogoTypeOK
<1>1. CASE UNCHANGED logoVars
  BY <1>1 DEF logoVars
<1>2. ASSUME NEW r \in LogoRequest, BeginLogoUpload(r) \/ BeginLogoRemove(r) PROVE LogoTypeOK'
  <2>1. PICK h \in Live, s \in Side, pc \in {"upload", "update", "delete"} :
          logoReq' = [logoReq EXCEPT ![r] =
                            [pc |-> pc, h |-> h, side |-> s, snap |-> logo[h], new |-> NULL]]
    <3>1. CASE BeginLogoUpload(r)
      BY <3>1 DEF BeginLogoUpload, LogoGoto
    <3>2. CASE BeginLogoRemove(r)
      BY <3>2 DEF BeginLogoRemove, LogoGoto, Replacing
    <3> QED BY <1>2, <3>1, <3>2
  <2>2. [pc |-> pc, h |-> h, side |-> s, snap |-> logo[h], new |-> NULL] \in LogoReq
    BY DEF LogoReq, Live
  <2>3. UNCHANGED <<header, logo, media, used, broken, leaked>>
    BY <1>2 DEF BeginLogoUpload, BeginLogoRemove
  <2> QED BY <2>1, <2>2, <2>3 DEF Live
<1>3. ASSUME NEW r \in LogoRequest, Upload(r) PROVE LogoTypeOK'
  <2>1. PICK m \in LogoId \ used, pc \in {"update", "delete"} :
          /\ media' = media \cup {m} /\ used' = used \cup {m}
          /\ logoReq' = [logoReq EXCEPT ![r] = [logoReq[r] EXCEPT !.new = m, !.pc = pc]]
    BY <1>3 DEF Upload, LogoGoto, Replacing
  <2>2. /\ [logoReq[r] EXCEPT !.new = m, !.pc = pc] \in LogoReq
        /\ [logoReq[r] EXCEPT !.new = m, !.pc = pc].h \in Header
    BY <1>3 DEF LogoReq, Upload
  <2>3. UNCHANGED <<header, logo, broken, leaked>>
    BY <1>3 DEF Upload
  <2> QED BY <2>1, <2>2, <2>3
<1>4. ASSUME NEW r \in LogoRequest, DeleteOld(r) PROVE LogoTypeOK'
  <2>1. /\ logoReq' = [logoReq EXCEPT ![r] = [logoReq[r] EXCEPT !.pc = "update"]]
        /\ [logoReq[r] EXCEPT !.pc = "update"] \in LogoReq
        /\ [logoReq[r] EXCEPT !.pc = "update"].h \in Header
    BY <1>4 DEF DeleteOld, LogoGoto, LogoReq
  <2> QED BY <1>4, <2>1 DEF DeleteOld, Remaining
<1>5. ASSUME NEW r \in LogoRequest, Update(r) PROVE LogoTypeOK'
  <2>1. logoReq[r] \in LogoReq /\ logoReq[r].h \in Header
    BY <1>5 DEF Update
  <2>2. Merged(logoReq[r].snap, logoReq[r].side, logoReq[r].new) \in Logos
    BY <2>1 DEF Merged, LogoReq, Logos
  <2>3. broken' \subseteq LogoId
    BY <1>5, <2>1 DEF Update, LogoReq, Logos
  <2>4. leaked' \subseteq media'
    BY <1>5 DEF Update
  <2> QED BY <1>5, <2>1, <2>2, <2>3, <2>4 DEF Update, LogoGoto, LogoIdle
<1>6. ASSUME NEW r \in LogoRequest, Abort(r) PROVE LogoTypeOK'
  <2>1. logoReq' = [logoReq EXCEPT ![r] = LogoIdle]
    BY <1>6 DEF Abort, LogoGoto
  <2>2. broken' \subseteq LogoId /\ leaked' \subseteq media'
    BY <1>6 DEF Abort, LogoReq, Logos
  <2> QED BY <1>6, <2>1, <2>2 DEF Abort, LogoIdle
<1>7. ASSUME NEW h \in Header, Create(h) PROVE LogoTypeOK'
  BY <1>7 DEF Create, Ids, Logos
<1>8. ASSUME NEW h \in Header, Edit(h) PROVE LogoTypeOK'
  BY <1>8 DEF Edit, Logos
<1>9. ASSUME NEW h \in Header, Delete(h) PROVE LogoTypeOK'
  BY <1>9 DEF Delete
<1>10. ASSUME NEW m \in LogoId, DeleteMedia(m) PROVE LogoTypeOK'
  BY <1>10 DEF DeleteMedia
<1> QED
  BY <1>1, <1>2, <1>3, <1>4, <1>5, <1>6, <1>7, <1>8, <1>9, <1>10 DEF LogoNext, Handler

\* The headers' state is well formed in every reachable state.
THEOREM TypeCorrect == LogoSpec => []LogoTypeOK
<1>1. LogoInit => LogoTypeOK
  BY IdleType DEF LogoInit, LogoTypeOK, Logos, NoLogos, LogoIdle
<1> QED BY <1>1, TypeStep, PTL DEF LogoSpec

(***************************************************************************)
(* What the steps do to the slots: read once here, used by every lemma     *)
(* below.                                                                  *)
(***************************************************************************)

\* A begun request has read the column of its header and uploaded nothing.
LEMMA Begun ==
  ASSUME LogoTypeOK, NEW r \in LogoRequest, BeginLogoUpload(r) \/ BeginLogoRemove(r)
  PROVE  /\ UNCHANGED <<header, logo, media, used, broken, leaked>>
         /\ logoReq'[r].h \in Header /\ logoReq'[r].side \in Side
         /\ logoReq'[r].snap = logo[logoReq'[r].h] /\ logoReq'[r].new = NULL
         /\ logoReq'[r].pc = "update" => logoReq'[r].snap[logoReq'[r].side] = NULL
         /\ \A p \in LogoRequest \ {r} : logoReq'[p] = logoReq[p]
<1>1. PICK h \in Live, s \in Side, pc \in {"upload", "update", "delete"} :
        /\ logoReq' = [logoReq EXCEPT ![r] =
                             [pc |-> pc, h |-> h, side |-> s, snap |-> logo[h], new |-> NULL]]
        /\ pc = "update" => logo[h][s] = NULL
  <2>1. CASE BeginLogoUpload(r)
    BY <2>1 DEF BeginLogoUpload, LogoGoto
  <2>2. CASE BeginLogoRemove(r)
    BY <2>2 DEF BeginLogoRemove, LogoGoto, Replacing
  <2> QED BY <2>1, <2>2
<1> QED BY <1>1 DEF LogoTypeOK, BeginLogoUpload, BeginLogoRemove, Live

\* An upload names a row that nothing has named before.
LEMMA Uploaded ==
  ASSUME LogoTypeOK, NEW r \in LogoRequest, Upload(r)
  PROVE  /\ UNCHANGED <<header, logo, broken, leaked>>
         /\ logoReq'[r].new \in LogoId \ used
         /\ media' = media \cup {logoReq'[r].new} /\ used' = used \cup {logoReq'[r].new}
         /\ logoReq'[r].h = logoReq[r].h /\ logoReq'[r].side = logoReq[r].side
         /\ logoReq'[r].snap = logoReq[r].snap /\ logoReq'[r].pc \in {"update", "delete"}
         /\ logoReq'[r].pc = "update" => logoReq[r].snap[logoReq[r].side] = NULL
         /\ \A p \in LogoRequest \ {r} : logoReq'[p] = logoReq[p]
  BY DEF LogoTypeOK, Upload, LogoGoto, Replacing, LogoReq

\* A deletion takes away the old row of its side, or leaks it.
LEMMA Deleted ==
  ASSUME LogoTypeOK, NEW r \in LogoRequest, DeleteOld(r)
  PROVE  /\ UNCHANGED <<header, logo, used, broken>>
         /\ media \ {logoReq[r].snap[logoReq[r].side]} \subseteq media' /\ media' \subseteq media
         /\ leaked \cap media' \subseteq leaked'
         /\ logoReq[r].snap[logoReq[r].side] \notin media' \ leaked'
         /\ logoReq[r].pc = "delete" /\ logoReq'[r].pc = "update"
         /\ logoReq'[r].h = logoReq[r].h /\ logoReq'[r].side = logoReq[r].side
         /\ logoReq'[r].snap = logoReq[r].snap /\ logoReq'[r].new = logoReq[r].new
         /\ \A p \in LogoRequest \ {r} : logoReq'[p] = logoReq[p]
<1>1. logoReq' = [logoReq EXCEPT ![r] = [logoReq[r] EXCEPT !.pc = "update"]] /\ logoReq[r] \in LogoReq
  BY DEF LogoTypeOK, DeleteOld, LogoGoto
<1>2. /\ logoReq'[r].pc = "update"
      /\ logoReq'[r].h = logoReq[r].h /\ logoReq'[r].side = logoReq[r].side
      /\ logoReq'[r].snap = logoReq[r].snap /\ logoReq'[r].new = logoReq[r].new
      /\ \A p \in LogoRequest \ {r} : logoReq'[p] = logoReq[p]
  BY <1>1 DEF LogoTypeOK, LogoReq
<1> QED BY <1>2 DEF DeleteOld, Remaining

\* An update writes the new row to its side and what was read to the other; what
\* it overwrites unseen is leaked, what it brings back may be broken.
LEMMA Updated ==
  ASSUME LogoTypeOK, NEW r \in LogoRequest, Update(r)
  PROVE  /\ UNCHANGED <<header, media, used>>
         /\ logoReq[r].pc = "update" /\ logoReq[r].h \in Live /\ logoReq[r].side \in Side
         /\ \A h \in Header \ {logoReq[r].h} : logo'[h] = logo[h]
         /\ logo'[logoReq[r].h][logoReq[r].side] = logoReq[r].new
         /\ \A s \in Side \ {logoReq[r].side} :
              /\ logo'[logoReq[r].h][s] = logoReq[r].snap[s]
              /\ \/ logo[logoReq[r].h][s] = logoReq[r].snap[s]
                 \/ logoReq[r].snap[s] \in broken' \cup {NULL}
         /\ broken \subseteq broken' /\ leaked \subseteq leaked'
         /\ \A s \in Side : \/ logo[logoReq[r].h][s] = logoReq[r].snap[s]
                            \/ logo[logoReq[r].h][s] \notin media \ leaked'
         /\ logoReq'[r] = LogoIdle
         /\ \A p \in LogoRequest \ {r} : logoReq'[p] = logoReq[p]
<1>1. logoReq[r] \in LogoReq /\ logoReq[r].h \in Header
  BY DEF LogoTypeOK, Update
<1>2. /\ logo' = [logo EXCEPT ![logoReq[r].h] = Merged(logoReq[r].snap, logoReq[r].side, logoReq[r].new)]
      /\ logoReq' = [logoReq EXCEPT ![r] = LogoIdle]
      /\ UNCHANGED <<header, media, used>> /\ logoReq[r].pc = "update" /\ logoReq[r].h \in Live
  BY DEF Update, LogoGoto
<1>3. Merged(logoReq[r].snap, logoReq[r].side, logoReq[r].new)
        = [logoReq[r].snap EXCEPT ![logoReq[r].side] = logoReq[r].new]
  BY DEF Merged
<1>4. logoReq[r].snap \in Logos /\ logoReq[r].side \in Side
  BY <1>1 DEF LogoReq
<1>5. /\ \A h \in Header \ {logoReq[r].h} : logo'[h] = logo[h]
      /\ logo'[logoReq[r].h][logoReq[r].side] = logoReq[r].new
      /\ \A s \in Side \ {logoReq[r].side} : logo'[logoReq[r].h][s] = logoReq[r].snap[s]
  BY <1>1, <1>2, <1>3, <1>4 DEF LogoTypeOK, Logos
<1>6. /\ broken \subseteq broken' /\ leaked \subseteq leaked'
      /\ \A s \in Side \ {logoReq[r].side} :
           \/ logo[logoReq[r].h][s] = logoReq[r].snap[s]
           \/ logoReq[r].snap[s] \in broken' \cup {NULL}
      /\ \A s \in Side : \/ logo[logoReq[r].h][s] = logoReq[r].snap[s]
                         \/ logo[logoReq[r].h][s] \notin media \ leaked'
  BY DEF Update
<1>7. logoReq'[r] = LogoIdle /\ \A p \in LogoRequest \ {r} : logoReq'[p] = logoReq[p]
  BY <1>2 DEF LogoTypeOK
<1> QED BY <1>2, <1>4, <1>5, <1>6, <1>7

\* A request that fails gives up the row it uploaded and the one it deleted.
LEMMA Aborted ==
  ASSUME LogoTypeOK, NEW r \in LogoRequest, Abort(r)
  PROVE  /\ UNCHANGED <<header, logo, media, used>>
         /\ broken \subseteq broken' /\ leaked \subseteq leaked'
         /\ logoReq[r].new \notin media \ leaked'
         /\ logoReq[r].pc = "update" => logoReq[r].snap[logoReq[r].side] \in broken' \cup {NULL}
         /\ logoReq'[r] = LogoIdle
         /\ \A p \in LogoRequest \ {r} : logoReq'[p] = logoReq[p]
  BY DEF LogoTypeOK, Abort, LogoGoto

\* A client changes the slots of one header, to identifiers that may be broken.
LEMMA Named ==
  ASSUME LogoTypeOK, NEW h \in Header, Create(h) \/ Edit(h)
  PROVE  /\ UNCHANGED <<media, used, logoReq>>
         /\ broken \subseteq broken' /\ leaked \subseteq leaked'
         /\ \A g \in Header \ {h} : logo'[g] = logo[g] /\ header'[g] = header[g]
         /\ header'[h] = "live"
         /\ \A s \in Side : /\ logo'[h][s] \in used \cup {NULL}
                            /\ \/ logo'[h][s] \in broken' \cup {NULL}
                               \/ logo'[h][s] = logo[h][s] /\ header[h] = "live"
         /\ header[h] = "live" =>
              \A s \in Side : \/ \E t \in Side : logo'[h][t] = logo[h][s]
                              \/ logo[h][s] \notin media \ leaked'
<1>1. CASE Create(h)
  <2>1. PICK l \in [Side -> used \cup {NULL}] :
          logo' = [logo EXCEPT ![h] = l] /\ broken' = broken \cup Ids(l)
    BY <1>1 DEF Create
  <2>2. logo'[h] = l /\ \A s \in Side : l[s] \in used \cup {NULL}
    BY <2>1 DEF LogoTypeOK
  <2>3. \A s \in Side : l[s] \in broken' \cup {NULL}
    BY <2>1 DEF Ids
  <2> QED BY <1>1, <2>1, <2>2, <2>3 DEF LogoTypeOK, Create
<1>2. CASE Edit(h)
  <2>1. PICK l \in [Side -> used \cup {NULL}] :
          /\ logo' = [logo EXCEPT ![h] = l]
          /\ broken' = broken \cup ({l[s] : s \in {t \in Side : l[t] # logo[h][t]}} \ {NULL})
          /\ leaked' = leaked \cup ((Ids(logo[h]) \ Ids(l)) \cap media)
    BY <1>2 DEF Edit
  <2>2. /\ logo'[h] = l /\ \A s \in Side : l[s] \in used \cup {NULL}
        /\ header[h] = "live" /\ UNCHANGED <<header, media, used, logoReq>>
    BY <1>2, <2>1 DEF LogoTypeOK, Edit, Live
  <2>3. \A s \in Side : l[s] \in broken' \cup {NULL} \/ l[s] = logo[h][s]
    BY <2>1
  <2>4. \A s \in Side : \/ \E t \in Side : l[t] = logo[h][s]
                        \/ logo[h][s] \notin media \ leaked'
    BY <2>1, LogoAssumption DEF Ids, LogoTypeOK
  <2> QED BY <2>1, <2>2, <2>3, <2>4 DEF LogoTypeOK
<1> QED BY <1>1, <1>2

(***************************************************************************)
(* Dangling logos.  The property becomes inductive with three facts:       *)
(* identifiers in use were used; a row that is not broken has one home, so *)
(* that the request that deletes it is the one that will replace it there; *)
(* and a row that is about to be shown is there.                           *)
(***************************************************************************)

\* What columns, snapshots and uploads name has been used.
Known == /\ \A h \in Header, s \in Side : logo[h][s] \in used \cup {NULL}
         /\ \A r \in LogoRequest : /\ logoReq[r].new \in used \cup {NULL}
                                   /\ \A s \in Side : logoReq[r].snap[s] \in used \cup {NULL}

\* A row that is not broken is in one slot, and snapshots that name it are of it.
OneHome ==
  \A m \in LogoId \ broken, h \in Header, s \in Side :
    logo[h][s] = m =>
      /\ \A g \in Header, t \in Side : logo[g][t] = m => g = h /\ t = s
      /\ \A r \in LogoRequest, t \in Side : logoReq[r].snap[t] = m => logoReq[r].h = h /\ t = s

\* A row about to be shown is there, and nothing else names it.
NewThere ==
  \A r \in LogoRequest : logoReq[r].new \in LogoId \ broken =>
    /\ logoReq[r].new \in media
    /\ \A h \in Header, s \in Side : logo[h][s] # logoReq[r].new
    /\ \A p \in LogoRequest : /\ \A s \in Side : logoReq[p].snap[s] # logoReq[r].new
                              /\ p # r => logoReq[p].new # logoReq[r].new

DanglingInv == LogoTypeOK /\ Known /\ OneHome /\ NewThere /\ DanglingExplained

\* The empty slot names nothing.
LEMMA IdleNames ==
  LogoIdle.new = NULL /\ LogoIdle.pc = "idle" /\ \A s \in Side : LogoIdle.snap[s] = NULL
  BY DEF LogoIdle, NoLogos

\* Every step keeps the names within those used.
LEMMA KnownStep == LogoTypeOK /\ Known /\ [LogoNext]_logoVars => Known'
<1> SUFFICES ASSUME LogoTypeOK, Known, [LogoNext]_logoVars PROVE Known'
  OBVIOUS
<1>1. CASE UNCHANGED logoVars
  BY <1>1 DEF logoVars, Known
<1>2. ASSUME NEW r \in LogoRequest, BeginLogoUpload(r) \/ BeginLogoRemove(r) PROVE Known'
  BY <1>2, Begun DEF Known
<1>3. ASSUME NEW r \in LogoRequest, Upload(r) PROVE Known'
  BY <1>3, Uploaded DEF Known
<1>4. ASSUME NEW r \in LogoRequest, DeleteOld(r) PROVE Known'
  BY <1>4, Deleted DEF Known
<1>5. ASSUME NEW r \in LogoRequest, Update(r) PROVE Known'
  BY <1>5, Updated, IdleNames DEF Known, Live
<1>6. ASSUME NEW r \in LogoRequest, Abort(r) PROVE Known'
  BY <1>6, Aborted, IdleNames DEF Known
<1>7. ASSUME NEW h \in Header, Create(h) \/ Edit(h) PROVE Known'
  BY <1>7, Named DEF Known
<1>8. ASSUME NEW h \in Header, Delete(h) PROVE Known'
  BY <1>8 DEF Delete, Known
<1>9. ASSUME NEW m \in LogoId, DeleteMedia(m) PROVE Known'
  BY <1>9 DEF DeleteMedia, Known
<1> QED BY <1>1, <1>2, <1>3, <1>4, <1>5, <1>6, <1>7, <1>8, <1>9 DEF LogoNext, Handler

\* Every step keeps the homes of the rows that are not broken.
LEMMA HomeStep ==
  LogoTypeOK /\ Known /\ OneHome /\ NewThere /\ [LogoNext]_logoVars => OneHome' /\ NewThere'
<1> SUFFICES ASSUME LogoTypeOK, Known, OneHome, NewThere, [LogoNext]_logoVars
             PROVE  OneHome' /\ NewThere'
  OBVIOUS
<1> USE LogoAssumption
<1>1. CASE UNCHANGED logoVars
  BY <1>1 DEF logoVars, OneHome, NewThere
<1>2. ASSUME NEW r \in LogoRequest, BeginLogoUpload(r) \/ BeginLogoRemove(r)
      PROVE  OneHome' /\ NewThere'
  <2>1. OneHome'
    BY <1>2, Begun DEF OneHome
  <2>2. NewThere'
    BY <1>2, Begun DEF NewThere
  <2> QED BY <2>1, <2>2
<1>3. ASSUME NEW r \in LogoRequest, Upload(r) PROVE OneHome' /\ NewThere'
  <2>1. OneHome'
    BY <1>3, Uploaded DEF OneHome
  <2>2. NewThere'
    BY <1>3, Uploaded DEF NewThere, Known
  <2> QED BY <2>1, <2>2
<1>4. ASSUME NEW r \in LogoRequest, DeleteOld(r) PROVE OneHome' /\ NewThere'
  <2>1. OneHome'
    BY <1>4, Deleted DEF OneHome
  <2>2. logoReq[r].side \in Side
    BY DEF LogoTypeOK, LogoReq
  <2>3. NewThere'
    BY <1>4, <2>2, Deleted DEF NewThere
  <2> QED BY <2>1, <2>3
<1>5. ASSUME NEW r \in LogoRequest, Update(r) PROVE OneHome' /\ NewThere'
  <2>1. ASSUME NEW h \in Header, NEW s \in Side, logo'[h][s] \in LogoId \ broken'
        PROVE  \/ logo'[h][s] = logo[h][s] /\ <<h, s>> # <<logoReq[r].h, logoReq[r].side>>
               \/ h = logoReq[r].h /\ s = logoReq[r].side /\ logo'[h][s] = logoReq[r].new
    BY <1>5, <2>1, Updated
  <2>2. OneHome'
    <3> SUFFICES ASSUME NEW m \in LogoId \ broken', NEW h \in Header, NEW s \in Side,
                        logo'[h][s] = m
                 PROVE  /\ \A g \in Header, t \in Side : logo'[g][t] = m => g = h /\ t = s
                        /\ \A p \in LogoRequest, t \in Side :
                             logoReq'[p].snap[t] = m => logoReq'[p].h = h /\ t = s
      BY DEF OneHome
    <3>1. m \notin broken
      BY <1>5, Updated
    <3>2. ASSUME NEW g \in Header, NEW t \in Side, logo'[g][t] = m PROVE g = h /\ t = s
      BY <2>1, <3>1, <3>2 DEF OneHome, NewThere
    <3>3. ASSUME NEW p \in LogoRequest, NEW t \in Side, logoReq'[p].snap[t] = m
          PROVE  logoReq'[p].h = h /\ t = s
      <4>1. p # r /\ logoReq'[p] = logoReq[p]
        BY <1>5, <3>3, Updated, IdleNames
      <4> QED BY <2>1, <3>1, <3>3, <4>1 DEF OneHome, NewThere
    <3> QED BY <3>2, <3>3
  <2>3. NewThere'
    <3> SUFFICES ASSUME NEW p \in LogoRequest, logoReq'[p].new \in LogoId \ broken'
                 PROVE  /\ logoReq'[p].new \in media'
                        /\ \A h \in Header, s \in Side : logo'[h][s] # logoReq'[p].new
                        /\ \A q \in LogoRequest : /\ \A s \in Side : logoReq'[q].snap[s] # logoReq'[p].new
                                                  /\ q # p => logoReq'[q].new # logoReq'[p].new
      BY DEF NewThere
    <3>1. p # r /\ logoReq'[p] = logoReq[p] /\ logoReq[p].new \in LogoId \ broken /\ media' = media
      BY <1>5, Updated, IdleNames
    <3>2. ASSUME NEW h \in Header, NEW s \in Side PROVE logo'[h][s] # logoReq[p].new
      BY <2>1, <3>1 DEF NewThere
    <3>3. ASSUME NEW q \in LogoRequest
          PROVE  /\ \A s \in Side : logoReq'[q].snap[s] # logoReq[p].new
                 /\ q # p => logoReq'[q].new # logoReq[p].new
      BY <1>5, <3>1, Updated, IdleNames DEF NewThere
    <3> QED BY <3>1, <3>2, <3>3 DEF NewThere
  <2> QED BY <2>2, <2>3
<1>6. ASSUME NEW r \in LogoRequest, Abort(r) PROVE OneHome' /\ NewThere'
  <2>1. OneHome'
    BY <1>6, Aborted, IdleNames DEF OneHome
  <2>2. NewThere'
    BY <1>6, Aborted, IdleNames DEF NewThere
  <2> QED BY <2>1, <2>2
<1>7. ASSUME NEW h \in Header, Create(h) \/ Edit(h) PROVE OneHome' /\ NewThere'
  <2>1. ASSUME NEW g \in Header, NEW s \in Side, logo'[g][s] \in LogoId \ broken'
        PROVE  logo'[g][s] = logo[g][s]
    BY <1>7, <2>1, Named
  <2>2. UNCHANGED <<media, logoReq>> /\ broken \subseteq broken'
    BY <1>7, Named
  <2>3. OneHome'
    BY <2>1, <2>2 DEF OneHome
  <2>4. NewThere'
    BY <2>1, <2>2 DEF NewThere
  <2> QED BY <2>3, <2>4
<1>8. ASSUME NEW h \in Header, Delete(h) PROVE OneHome' /\ NewThere'
  BY <1>8 DEF Delete, OneHome, NewThere
<1>9. ASSUME NEW m \in LogoId, DeleteMedia(m) PROVE OneHome' /\ NewThere'
  BY <1>9 DEF DeleteMedia, OneHome, NewThere
<1> QED BY <1>1, <1>2, <1>3, <1>4, <1>5, <1>6, <1>7, <1>8, <1>9 DEF LogoNext, Handler

\* Every step keeps the dangling logos explained.
LEMMA DanglingStep ==
  LogoTypeOK /\ OneHome /\ NewThere /\ DanglingExplained /\ [LogoNext]_logoVars => DanglingExplained'
<1> SUFFICES ASSUME LogoTypeOK, OneHome, NewThere, DanglingExplained, [LogoNext]_logoVars,
                    NEW h \in Header, NEW s \in Side, NEW m \in LogoId,
                    Shown(h, s, m)', m \notin media' \cup broken'
             PROVE  \E r \in LogoRequest : /\ logoReq'[r].pc = "update" /\ logoReq'[r].h = h
                                           /\ logoReq'[r].side = s /\ logoReq'[r].snap[s] = m
  BY DEF DanglingExplained
<1> DEFINE Explains(r) == /\ logoReq[r].pc = "update" /\ logoReq[r].h = h
                          /\ logoReq[r].side = s /\ logoReq[r].snap[s] = m
<1>0. logo'[h][s] = m /\ header'[h] = "live" /\ m # NULL
  BY DEF Shown, Live
<1>E. ASSUME logo[h][s] = m, header[h] = "live", m \notin media \cup broken
      PROVE  \E r \in LogoRequest : Explains(r)
  BY <1>0, <1>E DEF DanglingExplained, Shown, Live
<1>1. CASE UNCHANGED logoVars
  BY <1>0, <1>1, <1>E DEF logoVars
<1>2. ASSUME NEW r \in LogoRequest, BeginLogoUpload(r) \/ BeginLogoRemove(r)
      PROVE  \E p \in LogoRequest : Explains(p)'
  <2>1. PICK p \in LogoRequest : Explains(p)
    BY <1>0, <1>2, <1>E, Begun
  <2>2. p # r
    BY <1>2, <2>1 DEF BeginLogoUpload, BeginLogoRemove
  <2> QED BY <1>2, <2>1, <2>2, Begun
<1>3. ASSUME NEW r \in LogoRequest, Upload(r) PROVE \E p \in LogoRequest : Explains(p)'
  <2>1. PICK p \in LogoRequest : Explains(p)
    BY <1>0, <1>3, <1>E, Uploaded
  <2>2. p # r
    BY <1>3, <2>1 DEF Upload
  <2> QED BY <1>3, <2>1, <2>2, Uploaded
<1>4. ASSUME NEW r \in LogoRequest, DeleteOld(r) PROVE \E p \in LogoRequest : Explains(p)'
  <2>1. logo[h][s] = m /\ header[h] = "live" /\ m \notin broken
    BY <1>0, <1>4, Deleted
  <2>2. CASE m \notin media
    <3>1. PICK p \in LogoRequest : Explains(p)
      BY <1>E, <2>1, <2>2
    <3>2. p # r
      BY <1>4, <3>1, Deleted
    <3> QED BY <1>4, <3>1, <3>2, Deleted
  <2>3. CASE m \in media
    <3>1. logoReq[r].snap[logoReq[r].side] = m /\ logoReq[r].side \in Side
      BY <1>4, <2>3, Deleted DEF LogoTypeOK, LogoReq
    <3>2. logoReq[r].h = h /\ logoReq[r].side = s
      BY <2>1, <3>1 DEF OneHome
    <3> QED BY <1>4, <3>1, <3>2, Deleted
  <2> QED BY <2>2, <2>3
<1>5. ASSUME NEW r \in LogoRequest, Update(r) PROVE \E p \in LogoRequest : Explains(p)'
  <2>1. ~(h = logoReq[r].h /\ s = logoReq[r].side)
    BY <1>0, <1>5, Updated DEF NewThere
  <2>2. logo[h][s] = m /\ header[h] = "live" /\ m \notin media \cup broken
    BY <1>0, <1>5, <2>1, Updated
  <2>3. PICK p \in LogoRequest : Explains(p)
    BY <1>E, <2>2
  <2>4. p # r
    BY <2>1, <2>3
  <2> QED BY <1>5, <2>3, <2>4, Updated
<1>6. ASSUME NEW r \in LogoRequest, Abort(r) PROVE \E p \in LogoRequest : Explains(p)'
  <2>1. logo[h][s] = m /\ header[h] = "live" /\ m \notin media \cup broken
    BY <1>0, <1>6, Aborted
  <2>2. PICK p \in LogoRequest : Explains(p)
    BY <1>E, <2>1
  <2>3. p # r
    BY <1>0, <1>6, <2>2, Aborted
  <2> QED BY <1>6, <2>2, <2>3, Aborted
<1>7. ASSUME NEW g \in Header, Create(g) \/ Edit(g) PROVE \E p \in LogoRequest : Explains(p)'
  <2>1. logo[h][s] = m /\ header[h] = "live" /\ m \notin media \cup broken
    BY <1>0, <1>7, Named
  <2> QED BY <1>7, <1>E, <2>1, Named
<1>8. ASSUME NEW g \in Header, Delete(g) PROVE \E p \in LogoRequest : Explains(p)'
  <2>1. logo[h][s] = m /\ header[h] = "live" /\ m \notin media \cup broken
    BY <1>0, <1>8 DEF Delete, LogoTypeOK
  <2> QED BY <1>8, <1>E, <2>1 DEF Delete
<1>9. ASSUME NEW x \in LogoId, DeleteMedia(x) PROVE \E p \in LogoRequest : Explains(p)'
  BY <1>0, <1>9, <1>E DEF DeleteMedia
<1> QED
  BY <1>1, <1>2, <1>3, <1>4, <1>5, <1>6, <1>7, <1>8, <1>9 DEF LogoNext, Handler

\* Before the first header nothing is named or shown.
LEMMA DanglingInit == LogoInit => DanglingInv
<1> SUFFICES ASSUME LogoInit PROVE DanglingInv
  OBVIOUS
<1>1. LogoTypeOK
  BY IdleType DEF LogoInit, LogoTypeOK, Logos, NoLogos, LogoIdle
<1>2. /\ \A h \in Header, s \in Side : logo[h][s] = NULL
      /\ \A r \in LogoRequest : logoReq[r].new = NULL /\ \A s \in Side : logoReq[r].snap[s] = NULL
  BY IdleNames DEF LogoInit, NoLogos
<1> QED BY <1>1, <1>2, LogoAssumption
        DEF DanglingInv, Known, OneHome, NewThere, DanglingExplained, Shown

\* A header shows a logo without its media row (uploadLogo, removeLogo) only for
\* the named reasons, however many requests overlap.
THEOREM DanglingLogosExplained == LogoSpec => []DanglingExplained
<1>1. DanglingInv /\ [LogoNext]_logoVars => DanglingInv'
  BY TypeStep, KnownStep, HomeStep, DanglingStep DEF DanglingInv
<1>2. DanglingInv => DanglingExplained
  BY DEF DanglingInv
<1> QED BY <1>1, <1>2, DanglingInit, PTL DEF LogoSpec

(***************************************************************************)
(* Orphaned rows.  A request that is about to write has dealt with the row *)
(* it read on its side, and one that is about to upload has no row yet.    *)
(***************************************************************************)

OldGone ==
  \A r \in LogoRequest :
    /\ logoReq[r].pc = "update" => logoReq[r].snap[logoReq[r].side] \notin media \ leaked
    /\ logoReq[r].pc = "upload" => logoReq[r].new = NULL

OrphanInv == LogoTypeOK /\ Known /\ OldGone /\ OrphansExplained

\* Every step leaves the old row of an update dealt with.
LEMMA OldGoneStep == LogoTypeOK /\ Known /\ OldGone /\ [LogoNext]_logoVars => OldGone'
<1> SUFFICES ASSUME LogoTypeOK, Known, OldGone, [LogoNext]_logoVars PROVE OldGone'
  OBVIOUS
<1> USE LogoAssumption
<1>0. \A r \in LogoRequest : logoReq[r].side \in Side
  BY DEF LogoTypeOK, LogoReq
<1>1. CASE UNCHANGED logoVars
  BY <1>1 DEF logoVars, OldGone
<1>2. ASSUME NEW r \in LogoRequest, BeginLogoUpload(r) \/ BeginLogoRemove(r) PROVE OldGone'
  BY <1>2, Begun DEF OldGone, LogoTypeOK
<1>3. ASSUME NEW r \in LogoRequest, Upload(r) PROVE OldGone'
  <2>1. ASSUME NEW p \in LogoRequest, logoReq'[p].pc = "update"
        PROVE  logoReq'[p].snap[logoReq'[p].side] \notin media' \ leaked'
    <3>1. logoReq'[p].snap[logoReq'[p].side] \in used \cup {NULL}
      BY <1>0, <1>3, Uploaded DEF Known
    <3>2. CASE p = r
      BY <1>3, <2>1, <3>2, Uploaded DEF LogoTypeOK
    <3>3. CASE p # r
      BY <1>3, <2>1, <3>1, <3>3, Uploaded DEF OldGone
    <3> QED BY <3>2, <3>3
  <2>2. ASSUME NEW p \in LogoRequest, logoReq'[p].pc = "upload" PROVE logoReq'[p].new = NULL
    BY <1>3, <2>2, Uploaded DEF OldGone
  <2> QED BY <2>1, <2>2 DEF OldGone
<1>4. ASSUME NEW r \in LogoRequest, DeleteOld(r) PROVE OldGone'
  BY <1>4, Deleted DEF OldGone
<1>5. ASSUME NEW r \in LogoRequest, Update(r) PROVE OldGone'
  BY <1>5, Updated, IdleNames DEF OldGone
<1>6. ASSUME NEW r \in LogoRequest, Abort(r) PROVE OldGone'
  BY <1>6, Aborted, IdleNames DEF OldGone
<1>7. ASSUME NEW h \in Header, Create(h) \/ Edit(h) PROVE OldGone'
  BY <1>7, Named DEF OldGone
<1>8. ASSUME NEW h \in Header, Delete(h) PROVE OldGone'
  BY <1>8 DEF Delete, OldGone
<1>9. ASSUME NEW m \in LogoId, DeleteMedia(m) PROVE OldGone'
  BY <1>9 DEF DeleteMedia, OldGone
<1> QED BY <1>1, <1>2, <1>3, <1>4, <1>5, <1>6, <1>7, <1>8, <1>9 DEF LogoNext, Handler

\* Every step keeps the orphaned rows explained.
LEMMA OrphanStep ==
  LogoTypeOK /\ OldGone /\ OrphansExplained /\ [LogoNext]_logoVars => OrphansExplained'
<1> SUFFICES ASSUME LogoTypeOK, OldGone, OrphansExplained, [LogoNext]_logoVars,
                    NEW m \in media' \ leaked'
             PROVE  \/ \E h \in Header, s \in Side : Shown(h, s, m)'
                    \/ \E r \in LogoRequest : logoReq'[r].pc # "idle" /\ logoReq'[r].new = m
  BY DEF OrphansExplained
<1> DEFINE Goal == \/ \E h \in Header, s \in Side : Shown(h, s, m)'
                   \/ \E r \in LogoRequest : logoReq'[r].pc # "idle" /\ logoReq'[r].new = m
<1>0. m # NULL
  BY TypeStep, LogoAssumption DEF LogoTypeOK
<1>E. ASSUME m \in media \ leaked
      PROVE  \/ \E h \in Header, s \in Side : header[h] = "live" /\ logo[h][s] = m
             \/ \E r \in LogoRequest : logoReq[r].pc # "idle" /\ logoReq[r].new = m
  BY <1>E DEF OrphansExplained, Shown, Live
<1>S. ASSUME NEW h \in Header, NEW s \in Side, header'[h] = "live", logo'[h][s] = m
      PROVE  Goal
  BY <1>0, <1>S DEF Shown, Live
<1>1. CASE UNCHANGED logoVars
  BY <1>1, <1>E, <1>S DEF logoVars
<1>2. ASSUME NEW r \in LogoRequest, BeginLogoUpload(r) \/ BeginLogoRemove(r) PROVE Goal
  <2>1. logoReq[r].pc = "idle" /\ m \in media \ leaked
    BY <1>2, Begun DEF BeginLogoUpload, BeginLogoRemove
  <2> QED BY <1>2, <1>E, <1>S, <2>1, Begun
<1>3. ASSUME NEW r \in LogoRequest, Upload(r) PROVE Goal
  <2>1. CASE m = logoReq'[r].new
    BY <1>3, <2>1, Uploaded
  <2>2. CASE m # logoReq'[r].new
    <3>1. m \in media \ leaked
      BY <1>3, <2>2, Uploaded
    <3>2. CASE \E h \in Header, s \in Side : header[h] = "live" /\ logo[h][s] = m
      BY <1>3, <1>S, <3>2, Uploaded
    <3>3. CASE \E p \in LogoRequest \ {r} : logoReq[p].pc # "idle" /\ logoReq[p].new = m
      BY <1>3, <3>3, Uploaded
    <3>4. CASE logoReq[r].new = m
      BY <1>0, <1>3, <3>4 DEF Upload, OldGone
    <3> QED BY <1>E, <3>1, <3>2, <3>3, <3>4
  <2> QED BY <2>1, <2>2
<1>4. ASSUME NEW r \in LogoRequest, DeleteOld(r) PROVE Goal
  <2>1. m \in media \ leaked
    BY <1>4, Deleted
  <2> QED BY <1>4, <1>E, <1>S, <2>1, Deleted
<1>5. ASSUME NEW r \in LogoRequest, Update(r) PROVE Goal
  <2>1. m \in media \ leaked
    BY <1>5, Updated
  <2>2. CASE logoReq[r].new = m
    BY <1>5, <1>S, <2>2, Updated DEF Live
  <2>3. CASE \E p \in LogoRequest \ {r} : logoReq[p].pc # "idle" /\ logoReq[p].new = m
    BY <1>5, <2>3, Updated
  <2>4. ASSUME NEW h \in Header, NEW s \in Side, header[h] = "live", logo[h][s] = m
        PROVE  Goal
    <3>1. logo'[h][s] = m
      BY <1>5, <2>1, <2>4, Updated DEF OldGone
    <3> QED BY <1>5, <1>S, <2>4, <3>1, Updated
  <2> QED BY <1>E, <2>1, <2>2, <2>3, <2>4
<1>6. ASSUME NEW r \in LogoRequest, Abort(r) PROVE Goal
  <2>1. m \in media \ leaked /\ logoReq[r].new # m
    BY <1>6, Aborted
  <2> QED BY <1>6, <1>E, <1>S, <2>1, Aborted
<1>7. ASSUME NEW g \in Header, Create(g) \/ Edit(g) PROVE Goal
  <2>1. m \in media \ leaked /\ UNCHANGED logoReq
    BY <1>7, Named
  <2>2. ASSUME NEW h \in Header, NEW s \in Side, header[h] = "live", logo[h][s] = m
        PROVE  Goal
    BY <1>7, <1>S, <2>1, <2>2, Named
  <2> QED BY <1>E, <2>1, <2>2
<1>8. ASSUME NEW g \in Header, Delete(g) PROVE Goal
  <2>1. m \in media \ leaked /\ UNCHANGED <<logoReq, logo>>
    BY <1>8 DEF Delete
  <2>2. ASSUME NEW h \in Header, NEW s \in Side, header[h] = "live", logo[h][s] = m
        PROVE  Goal
    <3>1. h # g
      BY <1>0, <1>8, <2>1, <2>2 DEF Delete, Ids
    <3> QED BY <1>8, <1>S, <2>1, <2>2, <3>1 DEF Delete, LogoTypeOK
  <2> QED BY <1>E, <2>1, <2>2
<1>9. ASSUME NEW x \in LogoId, DeleteMedia(x) PROVE Goal
  <2>1. m \in media \ leaked /\ UNCHANGED <<logoReq, logo, header>>
    BY <1>9 DEF DeleteMedia
  <2> QED BY <1>E, <1>S, <2>1
<1> QED
  BY <1>1, <1>2, <1>3, <1>4, <1>5, <1>6, <1>7, <1>8, <1>9 DEF LogoNext, Handler

\* A row uploaded as a logo (uploadLogo, removeLogo) is on no header only for the
\* named reasons, however many requests overlap.
THEOREM OrphanedLogosExplained == LogoSpec => []OrphansExplained
<1>1. LogoInit => OrphanInv
  BY DanglingInit, IdleNames
     DEF DanglingInv, OrphanInv, OldGone, OrphansExplained, LogoInit
<1>2. OrphanInv /\ [LogoNext]_logoVars => OrphanInv'
  BY TypeStep, KnownStep, OldGoneStep, OrphanStep DEF OrphanInv
<1>3. OrphanInv => OrphansExplained
  BY DEF OrphanInv
<1> QED BY <1>1, <1>2, <1>3, PTL DEF LogoSpec
(***************************************************************************)
(* Calm behaviours.                                                        *)
(***************************************************************************)

\* A step in which requests for one header do not overlap, clients leave the logo
\* columns to uploads and removals, the media library leaves the logos alone, and
\* nothing is refused or fails once a row was uploaded or deleted.
LogoCalm ==
  /\ \A r \in LogoRequest :
       /\ BeginLogoUpload(r) \/ BeginLogoRemove(r) =>
            \A q \in LogoRequest \ {r} :
              logoReq[q].pc # "idle" => logoReq[q].h # logoReq'[r].h
       /\ DeleteOld(r) => logoReq[r].snap[logoReq[r].side] \notin media'
       /\ Abort(r) => logoReq[r].pc = "upload"
  /\ \A h \in Header : /\ Create(h) => logo'[h] = NoLogos
                       /\ Edit(h) => UNCHANGED logo
                       /\ Delete(h) => logo[h] = NoLogos
  /\ \A m \in LogoId : ~DeleteMedia(m)

\* What a request has read is still the column of its header, and of no other request's.
Alone ==
  \A r \in LogoRequest : logoReq[r].pc # "idle" =>
    /\ logoReq[r].snap = logo[logoReq[r].h] /\ header[logoReq[r].h] # "unused"
    /\ logoReq[r].pc = "upload" => logoReq[r].new = NULL
    /\ \A q \in LogoRequest \ {r} : logoReq[q].pc # "idle" => logoReq[q].h # logoReq[r].h

LogosClean == broken = {} /\ leaked = {} /\ Alone

\* A calm step overwrites nothing that it has not read, and gives no cause for a logo
\* without its row or a row without its header.
LEMMA CalmStep ==
  ASSUME LogoTypeOK, LogosClean, [LogoNext]_logoVars, [LogoCalm]_logoVars
  PROVE  LogosClean'
<1>0. broken = {} /\ leaked = {} /\ Alone /\ LogoIdle.pc = "idle"
  BY DEF LogosClean, LogoIdle
<1>1. CASE UNCHANGED logoVars
  BY <1>0, <1>1 DEF logoVars, LogosClean, Alone
<1>2. ASSUME NEW r \in LogoRequest, BeginLogoUpload(r) \/ BeginLogoRemove(r), LogoCalm
      PROVE  LogosClean'
  <2>1. /\ UNCHANGED <<header, logo, broken, leaked>>
        /\ logoReq'[r].snap = logo[logoReq'[r].h] /\ logoReq'[r].new = NULL
        /\ \A p \in LogoRequest \ {r} : logoReq'[p] = logoReq[p]
    BY <1>2, Begun
  <2>2. header[logoReq'[r].h] # "unused"
    BY <1>2 DEF BeginLogoUpload, BeginLogoRemove, LogoGoto, LogoTypeOK, Live
  <2>3. \A q \in LogoRequest \ {r} : logoReq[q].pc # "idle" => logoReq[q].h # logoReq'[r].h
    BY <1>2 DEF LogoCalm
  <2> QED BY <1>0, <2>1, <2>2, <2>3 DEF LogosClean, Alone
<1>3. ASSUME NEW r \in LogoRequest, Upload(r) PROVE LogosClean'
  <2>1. /\ UNCHANGED <<header, logo, broken, leaked>> /\ logoReq[r].pc # "idle"
        /\ logoReq'[r].h = logoReq[r].h /\ logoReq'[r].snap = logoReq[r].snap
        /\ logoReq'[r].pc \in {"update", "delete"}
        /\ \A p \in LogoRequest \ {r} : logoReq'[p] = logoReq[p]
    BY <1>3, Uploaded DEF Upload
  <2> QED BY <1>0, <2>1 DEF LogosClean, Alone
<1>4. ASSUME NEW r \in LogoRequest, DeleteOld(r), LogoCalm PROVE LogosClean'
  <2>1. /\ UNCHANGED <<header, logo, broken>> /\ logoReq[r].pc = "delete"
        /\ logoReq'[r].h = logoReq[r].h /\ logoReq'[r].snap = logoReq[r].snap
        /\ logoReq'[r].pc = "update"
        /\ \A p \in LogoRequest \ {r} : logoReq'[p] = logoReq[p]
    BY <1>4, Deleted
  <2>2. leaked' = {}
    BY <1>0, <1>4 DEF DeleteOld, LogoCalm
  <2> QED BY <1>0, <2>1, <2>2 DEF LogosClean, Alone
<1>5. ASSUME NEW r \in LogoRequest, Update(r) PROVE LogosClean'
  <2>1. /\ UNCHANGED header /\ logoReq[r].pc = "update" /\ logoReq[r].h \in Header
        /\ \A h \in Header \ {logoReq[r].h} : logo'[h] = logo[h]
        /\ logoReq'[r] = LogoIdle
        /\ \A p \in LogoRequest \ {r} : logoReq'[p] = logoReq[p]
    BY <1>5, Updated DEF Live
  <2>2. logoReq[r].snap = logo[logoReq[r].h]
    BY <1>0, <2>1 DEF Alone
  <2>3. broken' = {} /\ leaked' = {}
    BY <1>0, <1>5, <2>2 DEF Update
  <2>4. \A p \in LogoRequest \ {r} : logoReq[p].pc # "idle" =>
          logoReq[p].h \in Header \ {logoReq[r].h}
    BY <1>0, <2>1 DEF Alone, LogoTypeOK
  <2> QED BY <1>0, <2>1, <2>3, <2>4 DEF LogosClean, Alone
<1>6. ASSUME NEW r \in LogoRequest, Abort(r), LogoCalm PROVE LogosClean'
  <2>1. /\ UNCHANGED <<header, logo>> /\ logoReq'[r] = LogoIdle
        /\ \A p \in LogoRequest \ {r} : logoReq'[p] = logoReq[p]
    BY <1>6, Aborted
  <2>2. logoReq[r].pc = "upload" /\ logoReq[r].new = NULL
    BY <1>0, <1>6 DEF LogoCalm, Alone
  <2>3. NULL \notin media
    BY LogoAssumption DEF LogoTypeOK
  <2>4. broken' = {} /\ leaked' = {}
    BY <1>0, <1>6, <2>2, <2>3 DEF Abort
  <2> QED BY <1>0, <2>1, <2>4 DEF LogosClean, Alone
<1>7. ASSUME NEW h \in Header, Create(h), LogoCalm PROVE LogosClean'
  <2>1. /\ header[h] = "unused" /\ UNCHANGED <<logoReq, leaked>>
        /\ \A g \in Header \ {h} : logo'[g] = logo[g] /\ header'[g] = header[g]
    BY <1>7 DEF Create, LogoTypeOK
  <2>2. broken' = {}
    <3>1. PICK l \in [Side -> used \cup {NULL}] : /\ logo' = [logo EXCEPT ![h] = l]
                                                /\ broken' = broken \cup Ids(l)
      BY <1>7 DEF Create
    <3>2. logo'[h] = NoLogos
      BY <1>7 DEF LogoCalm
    <3>3. l = NoLogos
      BY <3>1, <3>2 DEF LogoTypeOK
    <3> QED BY <1>0, <3>1, <3>3 DEF Ids, NoLogos
  <2>3. \A r \in LogoRequest : logoReq[r].pc # "idle" => logoReq[r].h \in Header \ {h}
    BY <1>0, <2>1 DEF Alone, LogoTypeOK
  <2> QED BY <1>0, <2>1, <2>2, <2>3 DEF LogosClean, Alone
<1>8. ASSUME NEW h \in Header, Edit(h), LogoCalm PROVE LogosClean'
  <2>1. UNCHANGED <<header, logoReq, logo>>
    BY <1>8 DEF Edit, LogoCalm
  <2>2. PICK l \in [Side -> used \cup {NULL}] :
          /\ logo' = [logo EXCEPT ![h] = l]
          /\ broken' = broken \cup ({l[s] : s \in {t \in Side : l[t] # logo[h][t]}} \ {NULL})
          /\ leaked' = leaked \cup ((Ids(logo[h]) \ Ids(l)) \cap media)
    BY <1>8 DEF Edit
  <2>3. l = logo[h]
    BY <2>1, <2>2 DEF LogoTypeOK
  <2>4. broken' = {} /\ leaked' = {}
    BY <1>0, <2>2, <2>3
  <2> QED BY <1>0, <2>1, <2>4 DEF LogosClean, Alone
<1>9. ASSUME NEW h \in Header, Delete(h), LogoCalm PROVE LogosClean'
  <2>1. /\ header' = [header EXCEPT ![h] = "deleted"] /\ UNCHANGED <<logo, logoReq, broken>>
        /\ leaked' = leaked \cup (Ids(logo[h]) \cap media)
    BY <1>9 DEF Delete
  <2>2. logo[h] = NoLogos
    BY <1>9 DEF LogoCalm
  <2>3. leaked' = {}
    BY <1>0, <2>1, <2>2 DEF Ids, NoLogos
  <2>4. \A g \in Header : header[g] # "unused" => header'[g] # "unused"
    BY <2>1 DEF LogoTypeOK
  <2>5. \A r \in LogoRequest : logoReq[r].pc # "idle" => logoReq[r].h \in Header
    BY DEF LogoTypeOK
  <2> QED BY <1>0, <2>1, <2>3, <2>4, <2>5 DEF LogosClean, Alone
<1>10. ASSUME NEW m \in LogoId, DeleteMedia(m), LogoCalm PROVE FALSE
  BY <1>10 DEF LogoCalm
<1>11. LogoCalm \/ UNCHANGED logoVars
  OBVIOUS
<1> QED BY <1>1, <1>2, <1>3, <1>4, <1>5, <1>6, <1>7, <1>8, <1>9, <1>10, <1>11 DEF LogoNext, Handler

\* When uploads and removals (uploadLogo, removeLogo) of one header come one after the
\* other, and nothing interferes with the column or fails half way, the logos on
\* display and the media rows are the same whenever no request is in flight: no header
\* shows a row that is gone, and no row is left that no header shows.
THEOREM CalmLogosAgree ==
  LogoSpec /\ [][LogoCalm]_logoVars
    => []((\A r \in LogoRequest : logoReq[r].pc = "idle")
            => media = {m \in LogoId : \E h \in Header, s \in Side : Shown(h, s, m)})
<1>1. LogoInit => LogosClean
  BY DEF LogoInit, LogosClean, Alone, LogoIdle
<1>2. LogoTypeOK /\ DanglingExplained /\ OrphansExplained /\ LogosClean
        => ((\A r \in LogoRequest : logoReq[r].pc = "idle")
              => media = {m \in LogoId : \E h \in Header, s \in Side : Shown(h, s, m)})
  <2> SUFFICES ASSUME LogoTypeOK, DanglingExplained, OrphansExplained, LogosClean,
                      \A r \in LogoRequest : logoReq[r].pc = "idle"
               PROVE  media = {m \in LogoId : \E h \in Header, s \in Side : Shown(h, s, m)}
    OBVIOUS
  <2>1. media \subseteq LogoId
    BY DEF LogoTypeOK
  <2>2. ASSUME NEW m \in media PROVE \E h \in Header, s \in Side : Shown(h, s, m)
    BY DEF OrphansExplained, LogosClean
  <2>3. ASSUME NEW m \in LogoId, NEW h \in Header, NEW s \in Side, Shown(h, s, m)
        PROVE  m \in media
    BY <2>3 DEF DanglingExplained, LogosClean
  <2> QED BY <2>1, <2>2, <2>3
<1>3. LogoTypeOK /\ LogosClean /\ [LogoNext]_logoVars /\ [LogoCalm]_logoVars => LogosClean'
  BY CalmStep
<1> QED BY <1>1, <1>2, <1>3, TypeCorrect, DanglingLogosExplained, OrphanedLogosExplained, PTL
        DEF LogoSpec
=============================================================================
