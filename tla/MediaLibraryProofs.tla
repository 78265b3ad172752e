------------------------- MODULE MediaLibraryProofs -------------------------
(* What holds of the media library for every number of rows, names, requests *)
(* and referencing entities.                                                  *)
EXTENDS MediaLibrary, FiniteSetTheorems, TLAPS

(***************************************************************************)
(* Typing.                                                                 *)
(***************************************************************************)

\* The empty slot is a well-formed request.
LEMMA IdleType == Idle \in Req
  BY DEF Idle, Req, Pc, AllOps

\* A slot that takes a well-formed request leaves the state well formed.
LEMMA BeginType ==
  ASSUME TypeOK, NEW r \in Request, NEW op, NEW rec \in Req, Begin(r, op, rec)
  PROVE  TypeOK'
  BY DEF TypeOK, Begin

\* Every handler keeps the library's state well formed.
LEMMA TypeStep == TypeOK /\ [Next]_vars => TypeOK'
<1> SUFFICES ASSUME TypeOK, [Next]_vars PROVE TypeOK'
  OBVIOUS
<1> USE IdleType DEF TypeOK
<1>1. CASE UNCHANGED vars
  BY <1>1 DEF vars
<1>2. ASSUME NEW r \in Request, Arrive(r) PROVE TypeOK'
  <2>1. CASE BeginUpload(r)
    <3>1. PICK op \in {"upload", "newSlider", "newEmployee"} :
            Begin(r, op, [Idle EXCEPT !.op = op, !.pc = "put"])
      BY <2>1 DEF BeginUpload
    <3>2. [Idle EXCEPT !.op = op, !.pc = "put"] \in Req
      BY DEF Idle, Req, Pc, AllOps
    <3> QED BY <3>1, <3>2, BeginType
  <2>2. CASE BeginOnRow(r)
    <3>1. PICK op \in {"replace", "process", "delete"}, m \in MediaId :
            Begin(r, op, [Idle EXCEPT !.op = op, !.pc = "find", !.todo = {m}])
      BY <2>2 DEF BeginOnRow
    <3>2. [Idle EXCEPT !.op = op, !.pc = "find", !.todo = {m}] \in Req
      BY DEF Idle, Req, Pc, AllOps
    <3> QED BY <3>1, <3>2, BeginType
  <2>3. CASE BeginBulkDelete(r)
    <3>1. PICK ms \in (SUBSET MediaId) \ {{}} :
            Begin(r, "bulkDelete",
                  [Idle EXCEPT !.op = "bulkDelete", !.pc = "find", !.todo = ms])
      BY <2>3 DEF BeginBulkDelete
    <3>2. [Idle EXCEPT !.op = "bulkDelete", !.pc = "find", !.todo = ms] \in Req
      BY DEF Idle, Req, Pc, AllOps
    <3> QED BY <3>1, <3>2, BeginType
  <2>4. CASE BeginCleanup(r)
    BY <2>4 DEF BeginCleanup, Begin, Idle, Req, Pc, AllOps, Unreferenced, Rows
  <2>5. CASE BeginSetImage(r)
    <3>1. PICK e \in Entity :
            /\ ref[e] # GONE
            /\ Begin(r, "setImage",
                 [Idle EXCEPT !.op = "setImage", !.pc = "put", !.ent = e,
                    !.todo = IF e \in Office THEN {} ELSE {ref[e]} \ {NONE}])
      BY <2>5 DEF BeginSetImage
    <3> DEFINE old == IF e \in Office THEN {} ELSE {ref[e]} \ {NONE}
    <3>2. old \subseteq MediaId
      BY <3>1
    <3>3. [Idle EXCEPT !.op = "setImage", !.pc = "put", !.ent = e, !.todo = old] \in Req
      <4> HIDE DEF old, TypeOK
      <4> QED BY <3>2 DEF Req, Pc, AllOps
    <3> QED BY <3>1, <3>3, BeginType
  <2>6. CASE BeginRemoveImage(r)
    <3>1. PICK e \in Entity :
            /\ ref[e] # GONE
            /\ Begin(r, "removeImage",
                 [Idle EXCEPT !.op = "removeImage", !.ent = e,
                    !.todo = {ref[e]} \ {NONE},
                    !.pc = IF ref[e] = NONE THEN "updRef" ELSE "find"])
      BY <2>6 DEF BeginRemoveImage
    <3>2. {ref[e]} \ {NONE} \subseteq MediaId
      BY <3>1
    <3> DEFINE pc == IF ref[e] = NONE THEN "updRef" ELSE "find"
    <3>3. pc \in Pc
      BY DEF Pc
    <3>4. [Idle EXCEPT !.op = "removeImage", !.ent = e,
             !.todo = {ref[e]} \ {NONE}, !.pc = pc] \in Req
      <4> HIDE DEF pc, TypeOK
      <4> QED BY <3>2, <3>3 DEF Req, AllOps
    <3> QED BY <3>1, <3>4, BeginType
  <2> QED BY <1>2, <2>1, <2>2, <2>3, <2>4, <2>5, <2>6 DEF Arrive
<1>3. ASSUME NEW r \in Request, Step(r) PROVE TypeOK'
  <2>a. req[r] \in Req
    OBVIOUS
  <2>l. Leave(r) => req' \in [Request -> Req]
    BY <2>a DEF Leave, Goto, Return, Req, Pc
  <2>1. CASE Find(r)
    <3>1. PICK m \in req[r].todo : Found(r, m)
      BY <2>1 DEF Find
    <3>2. m \in MediaId
      BY <2>a DEF Req
    <3> DEFINE seen == IF file[m] = NONE THEN req[r]
                 ELSE [req[r] EXCEPT !.ids = @ \cup {m}, !.names = @ \cup {file[m]},
                         !.seen = IF req[r].op = "replace" THEN derived[m] ELSE NONE]
               next == CASE req[r].op = "replace" -> "put"
                         [] req[r].op = "process" -> "download"
                         [] OTHER -> "delBlob"
               pc == IF req[r].todo = {m} THEN next ELSE "find"
    <3>4. seen \in Req
      <4>1. file[m] # NONE => file[m] \in Key
        BY <3>2
      <4>2. derived[m] \in Key \cup {NONE}
        BY <3>2
      <4> HIDE DEF TypeOK
      <4> QED BY <3>2, <4>1, <4>2, <2>a DEF Req
    <3>5. pc \in Pc
      BY DEF Pc
    <3>6. [seen EXCEPT !.todo = @ \ {m}, !.pc = pc] \in Req
      <4> HIDE DEF seen, pc
      <4> QED BY <3>4, <3>5 DEF Req
    <3>3. req' \in [Request -> Req]
      <4>1. CASE Leave(r)
        BY <4>1, <2>l
      <4>2. CASE req' = [req EXCEPT ![r] = [seen EXCEPT !.todo = @ \ {m}, !.pc = pc]]
        BY <4>2, <3>6
      <4> QED BY <3>1, <4>1, <4>2 DEF Found
    <3> QED BY <3>3, <2>1 DEF Find
  <2>2. CASE Download(r)
    BY <2>2, <2>a DEF Download, Goto, Return, Req, Pc
  <2>3. CASE Put(r)
    BY <2>3, <2>a DEF Put, AfterPut, Req, Pc
  <2>4. CASE PutFails(r)
    BY <2>4 DEF PutFails, Return
  <2>5. CASE CreateRow(r)
    <3>1. req' \in [Request -> Req]
      BY <2>5, <2>a DEF CreateRow, Return, Req, Pc
    <3>2. file' \in [MediaId -> Key \cup {NONE}]
      BY <2>5, <2>a DEF CreateRow, Req
    <3> QED BY <2>5, <3>1, <3>2 DEF CreateRow
  <2>6. CASE CreateRowFails(r)
    BY <2>6 DEF CreateRowFails, Return
  <2>7. CASE DelBlob(r)
    <3>1. PICK k \in req[r].names :
            /\ blobs' = blobs \ {k} \/ blobs' = blobs
            /\ req' = [req EXCEPT
                 ![r].names = @ \ {k},
                 ![r].pc = IF req[r].names # {k} THEN "delBlob"
                           ELSE IF req[r].op = "replace" THEN "updCore" ELSE "delRows"]
      BY <2>7 DEF DelBlob
    <3> DEFINE pc == IF req[r].names # {k} THEN "delBlob"
                     ELSE IF req[r].op = "replace" THEN "updCore" ELSE "delRows"
    <3>2. pc \in Pc
      BY DEF Pc
    <3>3. [req[r] EXCEPT !.names = @ \ {k}, !.pc = pc] \in Req
      <4> HIDE DEF pc, TypeOK
      <4> QED BY <3>2, <2>a DEF Req
    <3>4. req' = [req EXCEPT ![r] = [req[r] EXCEPT !.names = @ \ {k}, !.pc = pc]]
      BY <3>1
    <3>5. req' \in [Request -> Req]
      BY <3>3, <3>4
    <3> QED BY <2>7, <3>1, <3>5 DEF DelBlob
  <2>8. CASE DelRows(r)
    BY <2>8, <2>l DEF DelRows
  <2>9. CASE DelRowsRefused(r)
    BY <2>9, <2>a, <2>l DEF DelRowsRefused, Strand, Bereft, Rows
  <2>10. CASE UpdCore(r)
    BY <2>10, <2>a DEF UpdCore, Return, Req
  <2>11. CASE UpdCoreFails(r)
    BY <2>11, <2>a DEF UpdCoreFails, Strand, Bereft, Rows, Return
  <2>12. CASE SaveMeta(r)
    BY <2>12, <2>a DEF SaveMeta, Return, Req
  <2>13. CASE UpdRef(r)
    BY <2>13, <2>a DEF UpdRef, RefAfter, Rows, Return
  <2>14. CASE UpdRefFails(r)
    BY <2>14 DEF UpdRefFails, Return
  <2>15. CASE NewEnt(r)
    BY <2>15, <2>a DEF NewEnt, Rows, Return
  <2>16. CASE NewEntFails(r)
    BY <2>16 DEF NewEntFails, Return
  <2> QED BY <1>3, <2>1, <2>2, <2>3, <2>4, <2>5, <2>6, <2>7, <2>8, <2>9, <2>10,
             <2>11, <2>12, <2>13, <2>14, <2>15, <2>16 DEF Step
<1>4. ASSUME NEW m \in MediaId, UpdateMedia(m) PROVE TypeOK'
  BY <1>4 DEF UpdateMedia
<1>5. ASSUME NEW e \in Entity, CreateEntity(e) \/ UpdateEntity(e) \/ DeleteEntity(e)
      PROVE TypeOK'
  BY <1>5 DEF CreateEntity, UpdateEntity, DeleteEntity, Rows
<1>6. CASE Crash
  BY <1>6 DEF Crash, Bereft, Rows
<1> QED BY <1>1, <1>2, <1>3, <1>4, <1>5, <1>6 DEF Next

\* The library's state is well formed in every reachable state.
THEOREM TypeCorrect == Spec => []TypeOK
<1>1. Init => TypeOK
  BY IdleType DEF Init, TypeOK
<1> QED BY <1>1, TypeStep, PTL DEF Spec

(***************************************************************************)
(* No blob is lost unexplained.                                            *)
(*                                                                         *)
(* A name is an original (a row's fileName, or one a handler read there),  *)
(* a variant (a metadata entry, or one a handler read there) or in flight  *)
(* (uploaded, in no row yet), never two of these, and in flight for one    *)
(* handler only.  Only originals are ever removed, and only by handlers    *)
(* whose ids include the row that still names them.                        *)
(***************************************************************************)

NamesInv == NamesNotShared /\ NamedBlobsPresent

\* Where a handler stands and what it holds there.
PcInv ==
  \A r \in Request :
    /\ req[r].pc \in {"create", "saveMeta", "updCore"} => req[r].newKey # NONE
    /\ req[r].pc = "delBlob" /\ req[r].op = "replace" => req[r].newKey # NONE
    /\ req[r].pc = "updCore" => req[r].op = "replace"
    /\ req[r].op = "cleanup" => req[r].pc = "delRows"

\* A replacement is about one row.
OneTarget ==
  \A r \in Request : req[r].op = "replace" =>
    \E m \in MediaId : req[r].todo \cup req[r].ids \subseteq {m}

\* The empty slot holds nothing.
LEMMA IdleHolds ==
  /\ Idle.op = NONE /\ Idle.pc = "idle" /\ Idle.ids = {} /\ Idle.names = {}
  /\ Idle.seen = NONE /\ Idle.newKey = NONE /\ Idle.op \notin AllOps
  BY ConstantsOK DEF Idle

\* A step that leaves store and rows alone, and in which handlers only let go
\* of names, keeps the roles of the names.
LEMMA LetGo ==
  ASSUME TypeOK, TypeOK', NamesInv, UNCHANGED <<blobs, file, derived>>,
         \A s \in Request :
           /\ \/ req'[s].names = {}
              \/ req'[s].names \subseteq req[s].names /\ req'[s].ids = req[s].ids
           /\ req'[s].seen \in {NONE, req[s].seen}
           /\ req'[s].newKey \in {NONE, req[s].newKey}
  PROVE  NamesInv'
<1>0. NONE \notin Key
  BY ConstantsOK
<1>1. \A s \in Request : req'[s].names \subseteq Key /\ req[s].names \subseteq Key
  BY DEF TypeOK, Req
<1>2. Originals'
  BY DEF NamesInv, NamesNotShared, Originals
<1>3. NamesRead'
  BY <1>0, <1>1 DEF NamesInv, NamesNotShared, NamesRead
<1>4. InFlight'
  BY DEF NamesInv, NamesNotShared, InFlight
<1>5. NamedBlobsPresent'
  BY DEF NamesInv, NamedBlobsPresent
<1> QED BY <1>2, <1>3, <1>4, <1>5 DEF NamesInv, NamesNotShared

\* An arriving request holds nothing; it touches neither store nor rows.
LEMMA ArriveSlot ==
  ASSUME TypeOK, NEW r \in Request, Arrive(r)
  PROVE  /\ UNCHANGED <<blobs, file, derived, stranded>>
         /\ req[r].pc = "idle"
         /\ \A s \in Request : s # r => req'[s] = req[s]
         /\ req'[r].names = {} /\ req'[r].seen = NONE /\ req'[r].newKey = NONE
         /\ req'[r].pc \in {"put", "find", "delRows", "updRef"}
         /\ req'[r].op = "cleanup" => req'[r].pc = "delRows"
         /\ req'[r].op = "setImage" => req'[r].pc = "put"
         /\ req'[r].op = "replace" =>
              \E m \in MediaId : req'[r].todo \cup req'[r].ids \subseteq {m}
<1> USE DEF Begin, Idle, TypeOK
<1>1. CASE BeginUpload(r)
  BY <1>1 DEF BeginUpload
<1>2. CASE BeginOnRow(r)
  BY <1>2 DEF BeginOnRow
<1>3. CASE BeginBulkDelete(r)
  BY <1>3 DEF BeginBulkDelete
<1>4. CASE BeginCleanup(r)
  BY <1>4 DEF BeginCleanup
<1>5. CASE BeginSetImage(r)
  BY <1>5 DEF BeginSetImage
<1>6. CASE BeginRemoveImage(r)
  BY <1>6 DEF BeginRemoveImage
<1> QED BY <1>1, <1>2, <1>3, <1>4, <1>5, <1>6 DEF Arrive

\* The fields of a handler that returns, or goes on after deleteMedia.
LEMMA LeaveSlot ==
  ASSUME TypeOK, NEW r \in Request, Leave(r)
  PROVE  /\ \A s \in Request : s # r => req'[s] = req[s]
         /\ \/ req'[r] = Idle
            \/ req'[r] = [req[r] EXCEPT !.pc = "updRef"] /\ Nested(r)
         /\ \A s \in Request :
              /\ \/ req'[s].names = {}
                 \/ req'[s].names = req[s].names /\ req'[s].ids = req[s].ids
              /\ req'[s].seen \in {NONE, req[s].seen}
              /\ req'[s].newKey \in {NONE, req[s].newKey}
<1>1. /\ \A s \in Request : s # r => req'[s] = req[s]
      /\ \/ req'[r] = Idle
         \/ req'[r] = [req[r] EXCEPT !.pc = "updRef"] /\ Nested(r)
  BY DEF TypeOK, Leave, Goto, Return
<1>2. CASE req'[r] = Idle
  BY <1>1, <1>2, IdleHolds
<1>3. CASE req'[r] = [req[r] EXCEPT !.pc = "updRef"]
  <2>1. req[r] \in Req
    BY DEF TypeOK
  <2>2. /\ req'[r].names = req[r].names /\ req'[r].ids = req[r].ids
        /\ req'[r].seen = req[r].seen /\ req'[r].newKey = req[r].newKey
    BY <1>3, <2>1 DEF Req
  <2> QED BY <1>1, <2>2
<1> QED BY <1>1, <1>2, <1>3

\* What one findById changes in the handler's slot.
LEMMA FoundSlot ==
  ASSUME TypeOK, NEW r \in Request, NEW m \in MediaId, Found(r, m), req[r].pc = "find"
  PROVE  /\ \A s \in Request : s # r => req'[s] = req[s]
         /\ \/ req'[r] = Idle
            \/ /\ req'[r].newKey = req[r].newKey /\ req'[r].op = req[r].op
               /\ req'[r].todo \cup req'[r].ids \subseteq req[r].todo \cup req[r].ids \cup {m}
               /\ req'[r].pc \in {"find", "put", "download", "delBlob", "updRef"}
               /\ req'[r].pc = "put" => req[r].op = "replace"
               /\ req'[r].pc = "delBlob" => req[r].op # "replace"
               /\ \/ /\ req'[r].names = req[r].names /\ req'[r].ids = req[r].ids
                     /\ req'[r].seen = req[r].seen
                  \/ /\ file[m] # NONE
                     /\ req'[r].names = req[r].names \cup {file[m]}
                     /\ req'[r].ids = req[r].ids \cup {m}
                     /\ req'[r].seen \in {NONE, derived[m]}
<1>t. req[r] \in Req
  BY DEF TypeOK
<1>1. CASE Leave(r)
  <2>1. CASE req'[r] = Idle
    BY <1>1, <2>1, LeaveSlot
  <2>2. CASE req'[r] = [req[r] EXCEPT !.pc = "updRef"]
    <3>1. /\ req'[r].newKey = req[r].newKey /\ req'[r].op = req[r].op
          /\ req'[r].todo = req[r].todo /\ req'[r].ids = req[r].ids
          /\ req'[r].names = req[r].names /\ req'[r].seen = req[r].seen
          /\ req'[r].pc = "updRef"
      BY <1>t, <2>2 DEF Req
    <3> QED BY <1>1, <3>1, LeaveSlot
  <2> QED BY <1>1, <2>1, <2>2, LeaveSlot
<1> DEFINE seen == IF file[m] = NONE THEN req[r]
                 ELSE [req[r] EXCEPT !.ids = @ \cup {m}, !.names = @ \cup {file[m]},
                         !.seen = IF req[r].op = "replace" THEN derived[m] ELSE NONE]
           next == CASE req[r].op = "replace" -> "put"
                     [] req[r].op = "process" -> "download"
                     [] OTHER -> "delBlob"
           pc == IF req[r].todo = {m} THEN next ELSE "find"
<1>2. CASE req' = [req EXCEPT ![r] = [seen EXCEPT !.todo = @ \ {m}, !.pc = pc]]
  <2>1. req'[r] = [seen EXCEPT !.todo = @ \ {m}, !.pc = pc]
    BY <1>2 DEF TypeOK
  <2>2. seen \in Req
    BY <1>t DEF Req, TypeOK
  <2>3. /\ req'[r].names = seen.names /\ req'[r].ids = seen.ids /\ req'[r].seen = seen.seen
        /\ req'[r].newKey = seen.newKey /\ req'[r].op = seen.op /\ req'[r].pc = pc
        /\ req'[r].todo \subseteq seen.todo
    <3> HIDE DEF seen, pc
    <3> QED BY <2>1, <2>2 DEF Req
  <2>4. /\ seen.newKey = req[r].newKey /\ seen.op = req[r].op
        /\ seen.todo = req[r].todo
    BY <1>t DEF Req
  <2>5. \/ seen = req[r]
        \/ /\ file[m] # NONE
           /\ seen.names = req[r].names \cup {file[m]}
           /\ seen.ids = req[r].ids \cup {m}
           /\ seen.seen \in {NONE, derived[m]}
    BY <1>t DEF Req
  <2>6. /\ pc \in {"find", "put", "download", "delBlob"}
        /\ pc = "put" => req[r].op = "replace"
        /\ pc = "delBlob" => req[r].op # "replace"
    OBVIOUS
  <2>7. \A s \in Request : s # r => req'[s] = req[s]
    BY <1>2 DEF TypeOK
  <2> HIDE DEF seen, pc
  <2> QED BY <2>3, <2>4, <2>5, <2>6, <2>7
<1> QED BY <1>1, <1>2 DEF Found

\* Handlers hold their upload where they are about to record it, and a
\* clean-up only deletes rows.
LEMMA PcStep == TypeOK /\ PcInv /\ [Next]_vars => PcInv'
<1> SUFFICES ASSUME TypeOK, PcInv, [Next]_vars PROVE PcInv'
  OBVIOUS
<1>0. NONE \notin Key
  BY ConstantsOK
<1>1. CASE UNCHANGED req
  BY <1>1 DEF PcInv
<1>2. ASSUME NEW r \in Request, Arrive(r) PROVE PcInv'
  BY <1>2, ArriveSlot DEF PcInv
<1>3. ASSUME NEW r \in Request, Step(r) PROVE PcInv'
  <2>r. CASE Return(r)
    BY <2>r, IdleHolds DEF AllOps, PcInv, Return, TypeOK
  <2>l. CASE Leave(r)
    <3>1. req[r] \in Req
      BY DEF TypeOK
    <3>0. \A s \in Request : s # r => req'[s] = req[s]
      BY <2>l, LeaveSlot
    <3>2. CASE req'[r] = Idle
      <4> HIDE DEF TypeOK
      <4> QED BY <3>0, <3>2, IdleHolds DEF AllOps, PcInv
    <3>3. CASE req'[r] = [req[r] EXCEPT !.pc = "updRef"] /\ Nested(r)
      <4>1. /\ req'[r].pc = "updRef" /\ req'[r].op = req[r].op
            /\ req'[r].op # "cleanup"
        BY <3>1, <3>3 DEF Req, Nested
      <4> QED BY <3>0, <4>1 DEF PcInv
    <3> QED BY <2>l, <3>2, <3>3, LeaveSlot
  <2>1. CASE Find(r)
    <3>1. PICK m \in MediaId : Found(r, m)
      BY <2>1 DEF Find, TypeOK, Req
    <3>2. req[r].pc = "find"
      BY <2>1 DEF Find
    <3> QED BY <3>1, <3>2, FoundSlot, IdleHolds DEF AllOps, PcInv
  <2>2. CASE Download(r) /\ Goto(r, "put")
    BY <2>2 DEF Download, Goto, PcInv, TypeOK, Req
  <2>3. CASE Put(r)
    <3>1. PICK k \in Key :
            req' = [req EXCEPT ![r].newKey = k, ![r].pc = AfterPut(req[r].op)]
      BY <2>3 DEF Put
    <3>2. /\ req'[r].newKey = k /\ req'[r].pc = AfterPut(req[r].op)
          /\ req'[r].op = req[r].op
          /\ \A s \in Request : s # r => req'[s] = req[s]
      BY <3>1 DEF TypeOK, Req
    <3>3. req[r].op # "cleanup"
      BY <2>3 DEF Put, PcInv
    <3> QED BY <1>0, <3>2, <3>3 DEF PcInv, AfterPut
  <2>5. CASE CreateRow(r) /\ ~Return(r)
    <3>1. /\ req'[r].pc \in {"updRef", "find", "newEnt"} /\ req'[r].op = req[r].op
          /\ \A s \in Request : s # r => req'[s] = req[s]
      BY <2>5 DEF CreateRow, TypeOK, Req
    <3>2. req[r].op # "cleanup"
      BY <2>5 DEF CreateRow, PcInv
    <3> QED BY <3>1, <3>2 DEF PcInv
  <2>7. CASE DelBlob(r)
    <3>1. /\ req'[r].newKey = req[r].newKey /\ req'[r].op = req[r].op
          /\ \/ req'[r].pc \in {"delBlob", "delRows"}
             \/ req'[r].pc = "updCore" /\ req[r].op = "replace"
          /\ \A s \in Request : s # r => req'[s] = req[s]
      BY <2>7 DEF DelBlob, TypeOK, Req
    <3>2. req[r].pc = "delBlob"
      BY <2>7 DEF DelBlob
    <3>3. req[r].op # "cleanup"
      BY <3>2 DEF PcInv
    <3> QED BY <3>1, <3>2, <3>3 DEF PcInv
  <2> QED BY <1>3, <2>r, <2>l, <2>1, <2>2, <2>3, <2>5, <2>7
          DEF Step, Download, PutFails, CreateRowFails, DelRows, DelRowsRefused,
              UpdCore, UpdCoreFails, SaveMeta, UpdRef, UpdRefFails, NewEnt, NewEntFails
<1>4. CASE Crash
  BY <1>4, IdleHolds DEF AllOps, Crash, PcInv
<1> QED BY <1>1, <1>2, <1>3, <1>4
        DEF Next, vars, UpdateMedia, CreateEntity, UpdateEntity, DeleteEntity

\* A replacement stays with its row.
LEMMA TargetStep == TypeOK /\ OneTarget /\ [Next]_vars => OneTarget'
<1> SUFFICES ASSUME TypeOK, OneTarget, [Next]_vars PROVE OneTarget'
  OBVIOUS
<1>0. \A s \in Request : req[s] \in Req
  BY DEF TypeOK
<1>k. ASSUME \A s \in Request :
               \/ req'[s].op # "replace"
               \/ /\ req'[s].op = req[s].op
                  /\ req'[s].todo \cup req'[s].ids \subseteq req[s].todo \cup req[s].ids
      PROVE OneTarget'
  BY <1>k DEF OneTarget
<1>i. Idle.op # "replace"
  BY IdleHolds DEF AllOps
<1>1. CASE UNCHANGED req
  BY <1>1, <1>k
<1>2. ASSUME NEW r \in Request, Arrive(r) PROVE OneTarget'
  BY <1>2, ArriveSlot DEF OneTarget
<1>3. ASSUME NEW r \in Request, Step(r) PROVE OneTarget'
  <2>r. CASE Return(r)
    BY <2>r, <1>i, <1>k DEF Return, TypeOK
  <2>g. ASSUME NEW pc, Goto(r, pc) PROVE OneTarget'
    BY <2>g, <1>0, <1>k DEF Goto, TypeOK, Req
  <2>1. CASE Find(r)
    <3>1. PICK m \in req[r].todo : m \in MediaId /\ Found(r, m)
      BY <2>1, <1>0 DEF Find, Req
    <3>2. req[r].pc = "find"
      BY <2>1 DEF Find
    <3> QED BY <3>1, <3>2, <1>i, <1>k, FoundSlot
  <2>2. CASE Put(r)
    BY <2>2, <1>0, <1>k DEF Put, TypeOK, Req
  <2>3. CASE CreateRow(r)
    BY <2>3, <2>r, <1>0, <1>k DEF CreateRow, TypeOK, Req
  <2>4. CASE DelBlob(r)
    BY <2>4, <1>0, <1>k DEF DelBlob, TypeOK, Req
  <2> QED BY <1>3, <2>r, <2>g, <2>1, <2>2, <2>3, <2>4
          DEF Step, Leave, Download, PutFails, CreateRowFails, DelRows, DelRowsRefused,
              UpdCore, UpdCoreFails, SaveMeta, UpdRef, UpdRefFails, NewEnt, NewEntFails
<1>4. CASE Crash
  BY <1>4, <1>i, <1>k DEF Crash
<1> QED BY <1>1, <1>2, <1>3, <1>4
        DEF Next, vars, UpdateMedia, CreateEntity, UpdateEntity, DeleteEntity

\* No step makes a name play two roles, and nothing named is removed that a
\* row's original does not stand for.
LEMMA NamesStep ==
  TypeOK /\ TypeOK' /\ PcInv /\ OneTarget /\ NamesInv /\ [Next]_vars => NamesInv'
<1> SUFFICES ASSUME TypeOK, TypeOK', PcInv, OneTarget, NamesInv, [Next]_vars
             PROVE  NamesInv'
  OBVIOUS
<1>0. NONE \notin Key
  BY ConstantsOK
<1>a. \A s \in Request : req[s] \in Req /\ req[s].names \subseteq Key
  BY DEF TypeOK, Req
<1> DEFINE NI == /\ Originals' /\ NamesRead' /\ InFlight' /\ NamedBlobsPresent'
<1>b. NI => NamesInv'
  BY DEF NamesInv, NamesNotShared
<1>1. CASE UNCHANGED <<blobs, file, derived, req>>
  BY <1>1, LetGo
<1>2. ASSUME NEW r \in Request, Arrive(r) PROVE NamesInv'
  BY <1>2, ArriveSlot, LetGo
<1>3. ASSUME NEW r \in Request, Step(r) PROVE NamesInv'
  <2>r. CASE Return(r) /\ UNCHANGED <<blobs, file, derived>>
    BY <2>r, IdleHolds, LetGo DEF Return, TypeOK
  <2>l. CASE Leave(r) /\ UNCHANGED <<blobs, file, derived>>
    BY <2>l, LeaveSlot, LetGo
  <2>1. CASE Find(r)
    <3>1. PICK m \in MediaId : Found(r, m)
      BY <2>1, <1>a DEF Find, Req
    <3>2. req[r].pc = "find" /\ UNCHANGED <<blobs, file, derived>>
      BY <2>1 DEF Find
    <3>3. \A s \in Request : s # r => req'[s] = req[s]
      BY <3>1, <3>2, FoundSlot
    <3>4. CASE \/ req'[r] = Idle
               \/ /\ req'[r].names = req[r].names /\ req'[r].ids = req[r].ids
                  /\ req'[r].seen = req[r].seen /\ req'[r].newKey = req[r].newKey
      BY <3>2, <3>3, <3>4, IdleHolds, LetGo
    <3>5. CASE /\ file[m] # NONE
               /\ req'[r].names = req[r].names \cup {file[m]}
               /\ req'[r].ids = req[r].ids \cup {m}
               /\ req'[r].seen \in {NONE, derived[m]}
               /\ req'[r].newKey = req[r].newKey
      <4> USE <3>2, <3>3, <3>5 DEF NamesInv, NamesNotShared
      <4>1. Originals'
        BY DEF Originals
      <4>2. NamesRead'
        BY <1>0, <1>a DEF NamesRead, Originals
      <4>3. InFlight'
        BY DEF InFlight
      <4>4. NamedBlobsPresent'
        BY DEF NamedBlobsPresent
      <4> QED BY <1>b, <4>1, <4>2, <4>3, <4>4
    <3> QED BY <3>1, <3>2, <3>4, <3>5, FoundSlot
  <2>2. CASE Download(r) /\ Goto(r, "put")
    <3>1. \A s \in Request : /\ req'[s].names = req[s].names /\ req'[s].ids = req[s].ids
                             /\ req'[s].seen = req[s].seen /\ req'[s].newKey = req[s].newKey
      BY <2>2, <1>a DEF Goto, TypeOK, Req
    <3> QED BY <3>1, <2>2, LetGo DEF Download
  <2>3. CASE Put(r)
    <3>1. PICK k \in Key :
            /\ FreshKey(k)
            /\ blobs' = blobs \cup {k}
            /\ req' = [req EXCEPT ![r].newKey = k, ![r].pc = AfterPut(req[r].op)]
      BY <2>3 DEF Put
    <3>2. /\ req'[r].newKey = k /\ req'[r].names = req[r].names
          /\ req'[r].ids = req[r].ids /\ req'[r].seen = req[r].seen
          /\ \A s \in Request : s # r => req'[s] = req[s]
      BY <3>1, <1>a DEF TypeOK, Req
    <3>3. UNCHANGED <<file, derived>>
      BY <2>3 DEF Put
    <3>a. /\ \A m \in MediaId : file[m] # k /\ derived[m] # k
          /\ \A s \in Request : /\ k \notin req[s].names
                               /\ k # req[s].seen /\ k # req[s].newKey
      BY <3>1 DEF FreshKey
    <3>b. blobs' = blobs \cup {k}
      BY <3>1
    <3> USE <3>a, <3>b, <3>2, <3>3 DEF NamesInv, NamesNotShared
    <3>4. Originals'
      BY DEF Originals
    <3>5. NamesRead'
      BY DEF NamesRead
    <3>6. InFlight'
      BY DEF InFlight
    <3>7. NamedBlobsPresent'
      BY DEF NamedBlobsPresent
    <3> QED BY <1>b, <3>4, <3>5, <3>6, <3>7
  <2>5. CASE CreateRow(r)
    <3>1. PICK m \in MediaId : FreshId(m) /\ file' = [file EXCEPT ![m] = req[r].newKey]
      BY <2>5 DEF CreateRow
    <3>2. /\ req'[r].newKey = NONE
          /\ \/ req'[r].names = {} /\ req'[r].seen = NONE
             \/ /\ req'[r].names = req[r].names /\ req'[r].ids = req[r].ids
                /\ req'[r].seen = req[r].seen
          /\ \A s \in Request : s # r => req'[s] = req[s]
      BY <2>5, <1>a, IdleHolds DEF CreateRow, Return, TypeOK, Req
    <3>3. UNCHANGED <<blobs, derived>>
      BY <2>5 DEF CreateRow
    <3>4. req[r].newKey # NONE
      BY <2>5 DEF CreateRow, PcInv
    <3>5. file'[m] = req[r].newKey /\ \A n \in MediaId : n # m => file'[n] = file[n]
      BY <3>1 DEF TypeOK
    <3> USE <3>2, <3>3, <3>4, <3>5 DEF NamesInv, NamesNotShared
    <3>6. Originals'
      BY DEF Originals, InFlight
    <3>7. NamesRead'
      BY <1>0, <1>a DEF NamesRead
    <3>8. InFlight'
      BY DEF InFlight
    <3>9. NamedBlobsPresent'
      BY DEF NamedBlobsPresent
    <3> QED BY <1>b, <3>6, <3>7, <3>8, <3>9
  <2>7. CASE DelBlob(r)
    <3>1. PICK k \in req[r].names : blobs' = blobs \ {k} \/ blobs' = blobs
      BY <2>7 DEF DelBlob
    <3>2. /\ req'[r].newKey = req[r].newKey /\ req'[r].names \subseteq req[r].names
          /\ req'[r].ids = req[r].ids /\ req'[r].seen = req[r].seen
          /\ \A s \in Request : s # r => req'[s] = req[s]
      <4>1. PICK j \in req[r].names, pc \in Pc :
              req' = [req EXCEPT ![r].names = @ \ {j}, ![r].pc = pc]
        BY <2>7 DEF DelBlob, Pc
      <4> QED BY <4>1, <1>a DEF TypeOK, Req
    <3>3. UNCHANGED <<file, derived>>
      BY <2>7 DEF DelBlob
    <3>4. k # NONE
      BY <1>0, <1>a
    <3> USE <3>1, <3>2, <3>3 DEF NamesInv, NamesNotShared
    <3>5. Originals'
      BY DEF Originals
    <3>6. NamesRead'
      BY DEF NamesRead
    <3>7. InFlight'
      BY DEF InFlight
    <3>8. NamedBlobsPresent'
      BY <3>4 DEF NamedBlobsPresent, NamesRead
    <3> QED BY <1>b, <3>5, <3>6, <3>7, <3>8
  <2>8. CASE DelRows(r)
    <3>1. \A m \in MediaId : /\ file'[m] \in {file[m], NONE}
                             /\ derived'[m] \in {derived[m], NONE}
      BY <2>8 DEF DelRows
    <3>2. \A s \in Request :
            /\ req'[s].names = {} \/ (req'[s].names = req[s].names /\ req'[s].ids = req[s].ids)
            /\ req'[s].seen \in {NONE, req[s].seen}
            /\ req'[s].newKey \in {NONE, req[s].newKey}
      BY <2>8, LeaveSlot DEF DelRows
    <3>3. UNCHANGED blobs
      BY <2>8 DEF DelRows
    <3> USE <3>1, <3>2, <3>3 DEF NamesInv, NamesNotShared
    <3>4. Originals'
      BY DEF Originals
    <3>5. NamesRead'
      BY <1>0, <1>a DEF NamesRead
    <3>6. InFlight'
      BY DEF InFlight
    <3>7. NamedBlobsPresent'
      BY DEF NamedBlobsPresent
    <3> QED BY <1>b, <3>4, <3>5, <3>6, <3>7
  <2>10. CASE UpdCore(r)
    <3>1. /\ req'[r] = Idle /\ UNCHANGED blobs
          /\ \A s \in Request : s # r => req'[s] = req[s]
      BY <2>10 DEF UpdCore, Return, TypeOK
    <3>2. req[r].newKey # NONE
      BY <2>10 DEF UpdCore, PcInv
    <3>3. PICK x \in MediaId : req[r].ids \subseteq {x}
      BY <2>10 DEF UpdCore, OneTarget, PcInv
    <3>4. /\ \A m \in MediaId : m # x => file'[m] = file[m] /\ derived'[m] = derived[m]
          /\ file'[x] \in {file[x], req[r].newKey}
          /\ derived'[x] \in {derived[x], req[r].seen}
      BY <2>10, <3>3 DEF UpdCore
    <3> USE <3>1, <3>2, <3>4, IdleHolds DEF NamesInv, NamesNotShared
    <3>5. Originals'
      BY DEF Originals, InFlight
    <3>6. NamesRead'
      BY <1>0, <1>a DEF NamesRead
    <3>7. InFlight'
      BY DEF InFlight
    <3>8. NamedBlobsPresent'
      BY DEF NamedBlobsPresent
    <3> QED BY <1>b, <3>5, <3>6, <3>7, <3>8
  <2>12. CASE SaveMeta(r)
    <3>1. /\ req'[r] = Idle /\ UNCHANGED <<blobs, file>>
          /\ \A s \in Request : s # r => req'[s] = req[s]
      BY <2>12 DEF SaveMeta, Return, TypeOK
    <3>2. \A m \in MediaId : derived'[m] \in {derived[m], req[r].newKey}
      BY <2>12 DEF SaveMeta
    <3>3. req[r].newKey # NONE
      BY <2>12 DEF SaveMeta, PcInv
    <3> USE <3>1, <3>2, <3>3, IdleHolds DEF NamesInv, NamesNotShared
    <3>4. Originals'
      BY DEF Originals
    <3>5. NamesRead'
      BY <1>0, <1>a DEF NamesRead
    <3>6. InFlight'
      BY DEF InFlight
    <3>7. NamedBlobsPresent'
      BY DEF NamedBlobsPresent
    <3> QED BY <1>b, <3>4, <3>5, <3>6, <3>7
  <2> QED BY <1>3, <2>r, <2>l, <2>1, <2>2, <2>3, <2>5, <2>7, <2>8, <2>10, <2>12
          DEF Step, Download, PutFails, CreateRowFails, DelRowsRefused, UpdCoreFails,
              UpdRef, UpdRefFails, NewEnt, NewEntFails
<1>4. ASSUME NEW m \in MediaId, UpdateMedia(m) PROVE NamesInv'
  <2>1. /\ UNCHANGED <<blobs, file, req>>
        /\ \A n \in MediaId : derived'[n] \in {derived[n], NONE}
    BY <1>4 DEF UpdateMedia, TypeOK
  <2> USE <2>1 DEF NamesInv, NamesNotShared
  <2>2. Originals'
    BY DEF Originals
  <2>3. NamesRead'
    BY <1>0, <1>a DEF NamesRead
  <2>4. InFlight'
    BY DEF InFlight
  <2>5. NamedBlobsPresent'
    BY DEF NamedBlobsPresent
  <2> QED BY <1>b, <2>2, <2>3, <2>4, <2>5
<1>5. CASE Crash
  BY <1>5, IdleHolds, LetGo DEF Crash
<1> QED BY <1>1, <1>2, <1>3, <1>4, <1>5
        DEF Next, vars, CreateEntity, UpdateEntity, DeleteEntity

\* No step takes away the blob of a row that is not being removed, re-pointed,
\* or left behind as stranded.
LEMMA MissingStep ==
  TypeOK /\ PcInv /\ OneTarget /\ NamesInv /\ MissingBlobExplained /\ [Next]_vars
    => MissingBlobExplained'
<1> SUFFICES ASSUME TypeOK, PcInv, OneTarget, NamesInv, MissingBlobExplained, [Next]_vars
             PROVE  MissingBlobExplained'
  OBVIOUS
<1>0. NONE \notin Key
  BY ConstantsOK
<1>a. \A s \in Request : req[s] \in Req
  BY DEF TypeOK
<1>k. ASSUME blobs \subseteq blobs', UNCHANGED file, stranded \subseteq stranded',
             \A s \in Request : Removing(s) => \/ Removing(s)' /\ req[s].ids \subseteq req'[s].ids
                                          \/ req[s].ids \cap Bereft \subseteq stranded'
      PROVE  MissingBlobExplained'
  BY <1>k DEF MissingBlobExplained, Bereft, Rows
<1>1. CASE UNCHANGED <<blobs, file, req, stranded>>
  BY <1>1, <1>k DEF Removing
<1>2. ASSUME NEW r \in Request, Arrive(r) PROVE MissingBlobExplained'
  BY <1>2, <1>k, ArriveSlot DEF Removing, Arrive, BeginUpload, BeginOnRow,
     BeginBulkDelete, BeginCleanup, BeginSetImage, BeginRemoveImage, Begin
<1>3. ASSUME NEW r \in Request, Step(r) PROVE MissingBlobExplained'
  \* Steps of a handler that is not removing anything, and keeps all blobs.
  <2>q. ASSUME ~Removing(r), \A s \in Request : s # r => req'[s] = req[s],
               blobs \subseteq blobs', UNCHANGED <<file, stranded>>
        PROVE  MissingBlobExplained'
    BY <2>q, <1>k DEF Removing
  <2>r. Return(r) => \A s \in Request : s # r => req'[s] = req[s]
    BY DEF Return, TypeOK
  <2>1. CASE Find(r)
    <3>1. PICK m \in MediaId : Found(r, m)
      BY <2>1, <1>a DEF Find, Req
    <3>2. req[r].pc = "find"
      BY <2>1 DEF Find
    <3> QED BY <2>1, <3>1, <3>2, <2>q, FoundSlot DEF Find, Removing
  <2>2. CASE Download(r)
    BY <2>2, <2>q, <2>r DEF Download, Removing, Goto, TypeOK
  <2>3. CASE Put(r)
    BY <2>3, <2>q DEF Put, Removing, TypeOK
  <2>4. CASE PutFails(r) \/ CreateRowFails(r)
    BY <2>4, <2>q, <2>r DEF PutFails, CreateRowFails, Removing
  <2>5. CASE CreateRow(r)
    <3>1. PICK m \in MediaId : FreshId(m) /\ file' = [file EXCEPT ![m] = req[r].newKey]
      BY <2>5 DEF CreateRow
    <3>2. \A s \in Request : s # r => req'[s] = req[s]
      BY <2>5, <2>r DEF CreateRow, TypeOK
    <3>3. req[r].newKey \in blobs
      BY <2>5 DEF CreateRow, PcInv, NamesInv, NamedBlobsPresent
    <3>4. ~Removing(r) /\ UNCHANGED <<blobs, stranded>>
      BY <2>5 DEF CreateRow, Removing
    <3>5. Bereft' \subseteq Bereft
      BY <3>1, <3>3, <3>4 DEF Bereft, Rows, TypeOK
    <3> QED BY <3>2, <3>4, <3>5 DEF MissingBlobExplained, Removing
  <2>7. CASE DelBlob(r)
    <3>1. PICK k \in req[r].names : blobs' = blobs \ {k} \/ blobs' = blobs
      BY <2>7 DEF DelBlob
    <3>2. /\ req'[r].ids = req[r].ids /\ req'[r].op = req[r].op
          /\ req'[r].pc \in {"delBlob", "delRows", "updCore"}
          /\ \A s \in Request : s # r => req'[s] = req[s]
      BY <2>7, <1>a DEF DelBlob, TypeOK, Req
    <3>3. Removing(r) /\ Removing(r)'
      BY <2>7, <3>2 DEF DelBlob, Removing, PcInv
    <3>4. \A s \in Request : Removing(s) => Removing(s)' /\ req'[s].ids = req[s].ids
      BY <3>2, <3>3 DEF Removing
    <3>5. \A m \in Bereft' \ Bereft : m \in req[r].ids
      BY <2>7, <3>1 DEF DelBlob, Bereft, Rows, NamesInv, NamesNotShared, NamesRead
    <3>6. UNCHANGED <<file, stranded>>
      BY <2>7 DEF DelBlob
    <3> QED BY <3>2, <3>3, <3>4, <3>5, <3>6 DEF MissingBlobExplained
  <2>8. CASE DelRows(r)
    <3>1. \A s \in Request : s # r => req'[s] = req[s]
      BY <2>8, LeaveSlot DEF DelRows
    <3>2. Bereft' = Bereft \ req[r].ids /\ stranded' = stranded \ req[r].ids
      BY <2>8 DEF DelRows, Bereft, Rows
    <3> QED BY <3>1, <3>2 DEF MissingBlobExplained, Removing
  <2>9. CASE DelRowsRefused(r)
    <3>1. \A s \in Request : s # r => req'[s] = req[s]
      BY <2>9, LeaveSlot DEF DelRowsRefused
    <3>2. Removing(r) => req[r].ids \cap Bereft \subseteq stranded'
      BY <2>9 DEF DelRowsRefused, Strand, Removing
    <3>3. stranded \subseteq stranded' /\ UNCHANGED <<blobs, file>>
      BY <2>9 DEF DelRowsRefused, Strand
    <3> QED BY <3>1, <3>2, <3>3, <1>k DEF Removing
  <2>10. CASE UpdCore(r)
    <3>1. \A s \in Request : s # r => req'[s] = req[s]
      BY <2>10, <2>r DEF UpdCore
    <3>2. req[r].newKey \in blobs
      BY <2>10 DEF UpdCore, PcInv, NamesInv, NamedBlobsPresent
    <3>3. Bereft' \subseteq Bereft \ req[r].ids /\ stranded' = stranded \ req[r].ids
      BY <2>10, <3>2 DEF UpdCore, Bereft, Rows
    <3> QED BY <3>1, <3>3 DEF MissingBlobExplained, Removing
  <2>11. CASE UpdCoreFails(r)
    <3>1. \A s \in Request : s # r => req'[s] = req[s]
      BY <2>11, <2>r DEF UpdCoreFails
    <3>2. Removing(r) => req[r].ids \cap Bereft \subseteq stranded'
      BY <2>11 DEF UpdCoreFails, Strand, Removing
    <3>3. stranded \subseteq stranded' /\ UNCHANGED <<blobs, file>>
      BY <2>11 DEF UpdCoreFails, Strand
    <3> QED BY <3>1, <3>2, <3>3, <1>k DEF Removing
  <2>12. CASE SaveMeta(r) \/ UpdRef(r) \/ UpdRefFails(r) \/ NewEnt(r) \/ NewEntFails(r)
    BY <2>12, <2>q, <2>r DEF SaveMeta, UpdRef, UpdRefFails, NewEnt, NewEntFails, Removing
  <2> QED BY <1>3, <2>1, <2>2, <2>3, <2>4, <2>5, <2>7, <2>8, <2>9, <2>10, <2>11, <2>12
          DEF Step
<1>4. CASE Crash
  BY <1>4 DEF Crash, MissingBlobExplained, Bereft, Rows
<1> QED BY <1>1, <1>2, <1>3, <1>4
        DEF Next, vars, UpdateMedia, CreateEntity, UpdateEntity, DeleteEntity

\* The inductive invariant: names keep their roles, handlers hold what their
\* position needs, and so every missing blob has its explanation.
IInv == TypeOK /\ PcInv /\ OneTarget /\ NamesInv /\ MissingBlobExplained

\* It holds of an empty library.
LEMMA IInvInit == Init => IInv
<1> SUFFICES ASSUME Init PROVE IInv
  OBVIOUS
<1>0. NONE \notin Key
  BY ConstantsOK
<1>1. TypeOK
  BY IdleType DEF Init, TypeOK
<1>2. PcInv /\ OneTarget
  BY IdleHolds DEF Init, PcInv, OneTarget, AllOps
<1>3. NamesInv
  BY <1>0, IdleHolds DEF Init, NamesInv, NamesNotShared, Originals, NamesRead, InFlight,
                         NamedBlobsPresent
<1>4. MissingBlobExplained
  BY DEF Init, MissingBlobExplained, Bereft, Rows
<1> QED BY <1>1, <1>2, <1>3, <1>4 DEF IInv

\* Every step of every handler, and every crash, preserves it.
LEMMA IInvStep == IInv /\ [Next]_vars => IInv'
  BY TypeStep, PcStep, TargetStep, NamesStep, MissingStep DEF IInv

\* It holds in every state the library reaches.
THEOREM Inductive == Spec => []IInv
  BY IInvInit, IInvStep, PTL DEF Spec

\* A row without its blob is being removed or re-pointed, or was left behind by
\* a refused row statement or a crash; nothing else loses a blob.
THEOREM MissingExplained == Spec => []MissingBlobExplained
<1>1. IInv => MissingBlobExplained
  BY DEF IInv
<1> QED BY <1>1, Inductive, PTL

\* Deleting by file name never hits another row's blob, a processed variant or
\* an upload in flight.
THEOREM NamesAreNotShared == Spec => []NamesNotShared
<1>1. IInv => NamesNotShared
  BY DEF IInv, NamesInv
<1> QED BY <1>1, Inductive, PTL

\* Variants and uploads in flight stay in the store whatever other handlers
\* replace, delete or clean up meanwhile.
THEOREM NamedBlobsStay == Spec => []NamedBlobsPresent
<1>1. IInv => NamedBlobsPresent
  BY DEF IInv, NamesInv
<1> QED BY <1>1, Inductive, PTL

(***************************************************************************)
(* Where nothing restricts deletions and rows can always be written.       *)
(***************************************************************************)

\* Without sliders, database errors and crashes no handler strands a row.
LEMMA NothingStranded ==
  ASSUME Slider = {}, Faults \subseteq {"storage"}
  PROVE  IInv /\ stranded = {} /\ [Next]_vars => stranded' = {}
<1> SUFFICES ASSUME IInv, stranded = {}, [Next]_vars PROVE stranded' = {}
  OBVIOUS
<1>0. "database" \notin Faults /\ "crash" \notin Faults
  OBVIOUS
<1>1. ASSUME NEW r \in Request, DelRowsRefused(r) PROVE FALSE
  BY <1>0, <1>1 DEF DelRowsRefused, Deletable, ReferencedBy
<1>2. ASSUME NEW r \in Request, UpdCoreFails(r) PROVE stranded' = {}
  <2>1. PICK m \in MediaId : req[r].ids \subseteq {m}
    BY <1>2 DEF UpdCoreFails, IInv, PcInv, OneTarget
  <2>2. ~(req[r].ids \subseteq Rows)
    BY <1>0, <1>2 DEF UpdCoreFails
  <2>3. req[r].ids \cap Bereft = {}
    BY <2>1, <2>2 DEF Bereft
  <2> QED BY <1>2, <2>3 DEF UpdCoreFails, Strand
<1>3. ASSUME NEW r \in Request, DelRows(r) \/ UpdCore(r) PROVE stranded' = {}
  BY <1>3 DEF DelRows, UpdCore
<1>4. ASSUME NEW r \in Request, Arrive(r) PROVE stranded' = {}
  BY <1>4, ArriveSlot DEF IInv
<1>5. ~Crash
  BY <1>0 DEF Crash
<1> QED BY <1>1, <1>2, <1>3, <1>4, <1>5
        DEF Next, vars, UpdateMedia, CreateEntity, UpdateEntity, DeleteEntity, Step,
            Find, Download, Put, PutFails, CreateRow, CreateRowFails, DelBlob, SaveMeta,
            UpdRef, UpdRefFails, NewEnt, NewEntFails

\* Then every row has its blob whenever no request is in flight, however the
\* requests before overlapped and whatever the store refused.
THEOREM QuiescentConsistency ==
  Slider = {} /\ Faults \subseteq {"storage"} => (Spec => []QuiescentRowsHaveBlobs)
<1> SUFFICES ASSUME Slider = {}, Faults \subseteq {"storage"}
             PROVE  Spec => []QuiescentRowsHaveBlobs
  OBVIOUS
<1> DEFINE Calm == IInv /\ stranded = {}
<1>1. Init => Calm
  BY IInvInit DEF Init
<1>2. Calm /\ [Next]_vars => Calm'
  BY IInvStep, NothingStranded
<1>3. Calm => QuiescentRowsHaveBlobs
  BY DEF IInv, MissingBlobExplained, QuiescentRowsHaveBlobs, Quiescent, Removing
<1> HIDE DEF Calm
<1> QED BY <1>1, <1>2, <1>3, PTL DEF Spec

(***************************************************************************)
(* References.                                                             *)
(***************************************************************************)

\* A handler that is to show a new image has created its row.
ImageCreated ==
  \A r \in Request :
    req[r].op = "setImage" /\ req[r].pc \notin {"put", "create"} => req[r].newId # NONE

RInv == IInv /\ ImageCreated /\ ReferencesResolve

\* Only CreateRow takes an image upload past the creation of its row.
LEMMA ImageStep == TypeOK /\ ImageCreated /\ [Next]_vars => ImageCreated'
<1> SUFFICES ASSUME TypeOK, ImageCreated, [Next]_vars PROVE ImageCreated'
  OBVIOUS
<1>0. NONE \notin MediaId \cup AllOps
  BY ConstantsOK
<1>a. \A s \in Request : req[s] \in Req
  BY DEF TypeOK
<1> USE DEF ImageCreated
<1>1. CASE UNCHANGED req
  BY <1>1
<1>2. ASSUME NEW r \in Request, Arrive(r) PROVE ImageCreated'
  BY <1>2, ArriveSlot
<1>3. ASSUME NEW r \in Request, Step(r) PROVE ImageCreated'
  <2>r. Return(r) => ImageCreated'
    BY <1>0, IdleHolds DEF Return, TypeOK, AllOps
  <2>l. req[r].pc \notin {"put", "create"} /\ Leave(r) => ImageCreated'
    BY <2>r, <1>a DEF Leave, Goto, TypeOK, Req
  <2>1. CASE Find(r)
    <3>1. PICK m \in req[r].todo : Found(r, m)
      BY <2>1 DEF Find
    <3> DEFINE seen == IF file[m] = NONE THEN req[r]
                 ELSE [req[r] EXCEPT !.ids = @ \cup {m}, !.names = @ \cup {file[m]},
                         !.seen = IF req[r].op = "replace" THEN derived[m] ELSE NONE]
               next == CASE req[r].op = "replace" -> "put"
                         [] req[r].op = "process" -> "download"
                         [] OTHER -> "delBlob"
               pc == IF req[r].todo = {m} THEN next ELSE "find"
    <3>2. CASE Leave(r)
      BY <2>1, <2>l, <3>2 DEF Find
    <3>3. CASE req' = [req EXCEPT ![r] = [seen EXCEPT !.todo = @ \ {m}, !.pc = pc]]
      <4>1. seen.op = req[r].op /\ seen.newId = req[r].newId
        BY <1>a DEF Req
      <4>2. DOMAIN seen = DOMAIN req[r]
        BY <1>a DEF Req
      <4>3. req'[r].op = req[r].op /\ req'[r].newId = req[r].newId
        <5>1. seen \in [DOMAIN req[r] -> {seen[f] : f \in DOMAIN seen}]
          BY <1>a DEF Req
        <5> HIDE DEF seen, pc
        <5> QED BY <3>3, <4>1, <4>2, <5>1, <1>a DEF TypeOK, Req
      <4>4. \A s \in Request : s # r => req'[s] = req[s]
        BY <3>3 DEF TypeOK
      <4> QED BY <2>1, <4>3, <4>4 DEF Find
    <3> QED BY <3>1, <3>2, <3>3 DEF Found
  <2>2. CASE Download(r)
    BY <2>2, <2>r, <1>a DEF Download, Goto, TypeOK, Req
  <2>3. CASE Put(r)
    BY <2>3, <1>a DEF Put, AfterPut, TypeOK, Req
  <2>4. CASE CreateRow(r)
    BY <2>4, <2>r, <1>0, <1>a DEF CreateRow, TypeOK, Req
  <2>5. CASE DelBlob(r)
    BY <2>5, <1>a DEF DelBlob, TypeOK, Req
  <2>6. CASE DelRows(r) \/ DelRowsRefused(r)
    BY <2>6, <2>l DEF DelRows, DelRowsRefused
  <2> QED BY <1>3, <2>r, <2>1, <2>2, <2>3, <2>4, <2>5, <2>6
          DEF Step, PutFails, CreateRowFails, UpdCore, UpdCoreFails, SaveMeta, UpdRef,
              UpdRefFails, NewEnt, NewEntFails
<1>4. CASE Crash
  BY <1>4, <1>0, IdleHolds DEF Crash, AllOps
<1> QED BY <1>1, <1>2, <1>3, <1>4
        DEF Next, vars, UpdateMedia, CreateEntity, UpdateEntity, DeleteEntity

\* No step leaves a reference to a row that is not there, or a slider without
\* image.
LEMMA ReferencesStep == RInv /\ [Next]_vars => ReferencesResolve'
<1> SUFFICES ASSUME RInv, [Next]_vars PROVE ReferencesResolve'
  OBVIOUS
<1> USE DEF RInv, IInv, ReferencesResolve, Rows
<1>0. NONE \notin MediaId \cup Key /\ GONE \notin MediaId \cup {NONE} /\ Slider \subseteq Entity
  BY ConstantsOK DEF Entity
<1>a. \A s \in Request : req[s] \in Req
  BY DEF TypeOK
\* Rows that exist go on to exist.
<1>k. ASSUME UNCHANGED ref, \A m \in MediaId : file[m] # NONE => file'[m] # NONE
      PROVE  ReferencesResolve'
  BY <1>k
<1>1. CASE UNCHANGED <<file, ref>>
  BY <1>1
<1>2. ASSUME NEW r \in Request, Arrive(r) PROVE ReferencesResolve'
  BY <1>2 DEF Arrive, BeginUpload, BeginOnRow, BeginBulkDelete, BeginCleanup,
              BeginSetImage, BeginRemoveImage, Begin
<1>3. ASSUME NEW r \in Request, Step(r) PROVE ReferencesResolve'
  <2>1. CASE CreateRow(r)
    <3>1. req[r].newKey # NONE /\ UNCHANGED ref
      BY <2>1 DEF CreateRow, PcInv
    <3>2. \A m \in MediaId : file'[m] \in {file[m], req[r].newKey}
      BY <2>1 DEF CreateRow, TypeOK
    <3> QED BY <3>1, <3>2, <1>k
  <2>2. CASE DelRows(r)
    BY <2>2, <1>0 DEF DelRows, Deletable, ReferencedBy, TypeOK
  <2>3. CASE UpdCore(r)
    <3>1. req[r].newKey # NONE /\ UNCHANGED ref
      BY <2>3 DEF UpdCore, PcInv
    <3>2. \A m \in MediaId : file'[m] \in {file[m], req[r].newKey}
      BY <2>3 DEF UpdCore
    <3> QED BY <3>1, <3>2, <1>k
  <2>4. CASE UpdRef(r)
    <3>1. \A e \in Entity : ref'[e] \in {ref[e]} \cup {RefAfter(r)}
      BY <2>4 DEF UpdRef, TypeOK
    <3>2. UNCHANGED file /\ RefAfter(r) \in Rows \cup {NONE}
      BY <2>4 DEF UpdRef
    <3>3. ASSUME NEW e \in Slider, ref'[e] = NONE PROVE FALSE
      <4>1. e = req[r].ent
        BY <2>4, <3>3, <1>0 DEF UpdRef, TypeOK
      <4>2. RefAfter(r) = NONE
        BY <2>4, <3>3, <4>1, <1>0 DEF UpdRef, TypeOK
      <4>3. e \notin Office
        BY ConstantsOK
      <4>4. req[r].op = "setImage" => req[r].newId # NONE
        BY <2>4 DEF UpdRef, ImageCreated
      <4> QED BY <4>1, <4>2, <4>3, <4>4 DEF RefAfter
    <3> QED BY <3>1, <3>2, <3>3
  <2>5. CASE NewEnt(r)
    BY <2>5, <1>0 DEF NewEnt, TypeOK
  <2> QED BY <1>3, <1>1, <2>1, <2>2, <2>3, <2>4, <2>5
          DEF Step, Find, Download, Put, PutFails, CreateRowFails, DelBlob, DelRowsRefused,
              UpdCoreFails, SaveMeta, UpdRefFails, NewEntFails
<1>4. ASSUME NEW e \in Entity, CreateEntity(e) \/ UpdateEntity(e) \/ DeleteEntity(e)
      PROVE  ReferencesResolve'
  BY <1>4, <1>0 DEF CreateEntity, UpdateEntity, DeleteEntity, TypeOK
<1> QED BY <1>1, <1>2, <1>3, <1>4 DEF Next, vars, UpdateMedia, Crash

\* References and their rows stay together in every state the library reaches.
THEOREM RInductive == Spec => []RInv
<1>1. Init => RInv
  BY IInvInit, IdleHolds, ConstantsOK
     DEF RInv, Init, ImageCreated, ReferencesResolve, Entity, AllOps
<1>2. RInv /\ [Next]_vars => RInv'
  BY IInvStep, ImageStep, ReferencesStep DEF RInv, IInv
<1> QED BY <1>1, <1>2, PTL DEF Spec

\* Sliders, employees and office settings never reference a missing media row,
\* and a slider always references one.
THEOREM ReferencesAlwaysResolve == Spec => []ReferencesResolve
<1>1. RInv => ReferencesResolve
  BY DEF RInv
<1> QED BY <1>1, RInductive, PTL

(***************************************************************************)
(* The library implements the life cycle of its assets.                    *)
(***************************************************************************)

\* A step of the library is a step of the life cycle, or changes nothing that
\* the life cycle sees.
LEMMA LifeCycleStep == RInv /\ [Next]_vars => [Asset!Next]_(Asset!avars)
<1> SUFFICES ASSUME RInv, [Next]_vars, ~UNCHANGED Asset!avars PROVE Asset!Next
  OBVIOUS
<1> USE DEF RInv, IInv
<1>0. /\ NONE \notin MediaId \cup Key /\ GONE \notin MediaId \cup {NONE}
      /\ Slider \subseteq Entity
  BY ConstantsOK DEF Entity
<1>a. \A s \in Request : req[s] \in Req
  BY DEF TypeOK
<1>s. ASSUME UNCHANGED ref,
             \A m \in MediaId : \/ file'[m] = NONE /\ file[m] = NONE
                                \/ /\ file'[m] # NONE /\ file[m] # NONE
                                   /\ file'[m] \in blobs' <=> file[m] \in blobs
      PROVE  FALSE
  <2>1. UNCHANGED status
    BY <1>s DEF status
  <2> QED BY <1>s, <2>1 DEF Asset!avars
<1>1. CASE UNCHANGED <<blobs, file, ref>>
  BY <1>1, <1>s
<1>p. ASSUME NEW e \in Entity, NEW v \in MediaId \cup {NONE, GONE},
             ref' = [ref EXCEPT ![e] = v], UNCHANGED <<blobs, file>>,
             v \in Rows \/ (v = NONE /\ e \notin Slider) \/ v = GONE
      PROVE  Asset!Next
  <2>1. UNCHANGED status
    BY <1>p DEF status
  <2>2. v \in Rows => v \in Asset!Live
    BY DEF Rows, Asset!Live, status
  <2>3. Asset!Point(e, v)
    BY <1>p, <2>1, <2>2 DEF Asset!Point
  <2> QED BY <2>3 DEF Asset!Next
<1>3. ASSUME NEW r \in Request, Step(r) PROVE Asset!Next
  <2>1. CASE Put(r)
    BY <2>1, <1>s DEF Put, FreshKey
  <2>2. CASE CreateRow(r)
    <3>1. PICK m \in MediaId : FreshId(m) /\ file' = [file EXCEPT ![m] = req[r].newKey]
      BY <2>2 DEF CreateRow
    <3>2. req[r].newKey \in blobs /\ req[r].newKey # NONE /\ UNCHANGED <<blobs, ref>>
      BY <2>2 DEF CreateRow, PcInv, NamesInv, NamedBlobsPresent
    <3>3. status[m] = "absent" /\ \A e \in Entity : ref[e] # m
      BY <3>1 DEF FreshId, ReferencedBy, status
    <3>4. status' = [status EXCEPT ![m] = "present"]
      BY <3>1, <3>2 DEF status, TypeOK
    <3>5. Asset!Add(m)
      BY <3>2, <3>3, <3>4 DEF Asset!Add
    <3> QED BY <3>5 DEF Asset!Next
  <2>3. CASE DelBlob(r)
    <3>1. PICK k \in Key : blobs' = blobs \ {k} \/ blobs' = blobs
      BY <2>3, <1>a DEF DelBlob, Req
    <3>2. UNCHANGED <<file, ref>>
      BY <2>3 DEF DelBlob
    <3>3. PICK m \in MediaId : file[m] = k /\ k \in blobs /\ k \notin blobs'
      BY <1>s, <3>1, <3>2
    <3>4. \A n \in MediaId : n # m => file[n] # k
      BY <1>0, <3>3 DEF NamesInv, NamesNotShared, Originals
    <3>5. status[m] = "present" /\ status' = [status EXCEPT ![m] = "bereft"]
      BY <1>0, <3>1, <3>2, <3>3, <3>4 DEF status
    <3>6. Asset!Lose(m)
      BY <3>2, <3>5 DEF Asset!Lose
    <3> QED BY <3>6 DEF Asset!Next
  <2>4. CASE DelRows(r)
    <3>1. req[r].ids \in SUBSET MediaId
      BY <1>a DEF Req
    <3>2. status' = [m \in MediaId |-> IF m \in req[r].ids THEN "absent" ELSE status[m]]
      BY <2>4 DEF DelRows, status
    <3>3. Asset!Remove(req[r].ids)
      BY <2>4, <3>2 DEF DelRows, Deletable, ReferencedBy, Asset!Remove
    <3> QED BY <3>1, <3>3 DEF Asset!Next
  <2>5. CASE UpdCore(r)
    <3>1. req[r].newKey \in blobs /\ req[r].newKey # NONE /\ UNCHANGED <<blobs, ref>>
      BY <2>5 DEF UpdCore, PcInv, NamesInv, NamedBlobsPresent
    <3>2. PICK x \in MediaId : req[r].ids \subseteq {x}
      BY <2>5 DEF UpdCore, PcInv, OneTarget
    <3>3. \A m \in MediaId : m \notin req[r].ids => file'[m] = file[m]
      BY <2>5 DEF UpdCore
    <3>4. \A m \in req[r].ids : file[m] # NONE /\ file'[m] = req[r].newKey
      BY <2>5, <3>2, <1>a DEF UpdCore, Rows, Req
    <3>5. x \in req[r].ids /\ status[x] = "bereft"
      BY <1>s, <3>1, <3>2, <3>3, <3>4 DEF status
    <3>6. status' = [status EXCEPT ![x] = "present"]
      BY <3>1, <3>2, <3>3, <3>4, <3>5 DEF status
    <3>7. Asset!Repair(x)
      BY <3>1, <3>5, <3>6 DEF Asset!Repair
    <3> QED BY <3>7 DEF Asset!Next
  <2>6. CASE UpdRef(r)
    <3>1. /\ UNCHANGED <<blobs, file>> /\ RefAfter(r) \in Rows \cup {NONE}
          /\ ref' = [ref EXCEPT ![req[r].ent] = RefAfter(r)]
      BY <2>6 DEF UpdRef
    <3>2. CASE req[r].ent \notin Entity
      BY <3>1, <3>2, <1>1 DEF TypeOK
    <3>3. CASE req[r].ent \in Entity
      <4>1. RefAfter(r) = NONE => req[r].ent \notin Slider
        BY <2>6, <3>3, ConstantsOK DEF RefAfter, UpdRef, ImageCreated, ReferencesResolve
      <4> QED BY <3>1, <3>3, <4>1, <1>p DEF Rows
    <3> QED BY <3>2, <3>3
  <2>7. CASE NewEnt(r)
    <3>1. PICK e \in Entity : ref' = [ref EXCEPT ![e] = req[r].newId]
      BY <2>7 DEF NewEnt, NewKind, Entity
    <3> QED BY <2>7, <3>1, <1>p DEF NewEnt, Rows
  <2> QED BY <1>3, <1>1, <2>1, <2>2, <2>3, <2>4, <2>5, <2>6, <2>7
          DEF Step, Find, Download, PutFails, CreateRowFails, DelRowsRefused, UpdCoreFails,
              SaveMeta, UpdRefFails, NewEntFails
<1>4. ASSUME NEW e \in Entity, CreateEntity(e) \/ UpdateEntity(e) \/ DeleteEntity(e)
      PROVE  Asset!Next
  BY <1>4, <1>p DEF CreateEntity, UpdateEntity, DeleteEntity, Rows
<1>5. ASSUME NEW r \in Request, Arrive(r) PROVE UNCHANGED <<blobs, file, ref>>
  BY <1>5 DEF Arrive, BeginUpload, BeginOnRow, BeginBulkDelete, BeginCleanup,
              BeginSetImage, BeginRemoveImage, Begin
<1> QED BY <1>1, <1>3, <1>4, <1>5 DEF Next, vars, UpdateMedia, Crash

\* Whatever overlaps, fails or crashes, the library shows its clients the asset
\* life cycle: assets appear whole, are lost one at a time, are repaired only by
\* a new file, and are removed together with every reference to them.
THEOREM ImplementsLifeCycle == Spec => ImplementsAssetLifecycle
<1>1. Init => Asset!Init
  BY DEF Init, Asset!Init, status
<1>2. RInv /\ [Next]_vars => [Asset!Next]_(Asset!avars)
  BY LifeCycleStep
<1> QED BY <1>1, <1>2, RInductive, PTL DEF Spec, Asset!Spec, ImplementsAssetLifecycle

(***************************************************************************)
(* One request at a time, without failures: nothing is left in the store.  *)
(*                                                                         *)
(* Clean-up, processing and slider images do leave blobs behind; names and *)
(* ids are assumed not to run out before each other, as an insert that     *)
(* fails leaves its blob as well.                                          *)
(***************************************************************************)

NothingLeaks ==
  /\ Slider = {} /\ Faults = {} /\ Ops \cap {"cleanup", "process"} = {}
  /\ \A r, s \in Request : r = s
  /\ IsFiniteSet(Key)
  /\ IsFiniteSet(MediaId) => Cardinality(Key) <= Cardinality(MediaId)

\* What the only handler in flight holds: an upload that it is about to
\* record, rows that exist until it deletes them, and the names of those of
\* their blobs that the store still holds.
Alone ==
  \A r \in Request :
    /\ req[r].op \notin {"cleanup", "process"}
    /\ req[r].pc \notin {"download", "saveMeta"}
    /\ req[r].newKey # NONE =>
         req[r].pc = "create" \/ (req[r].op = "replace" /\ req[r].pc \in {"delBlob", "updCore"})
    /\ req[r].pc \in {"put", "create"} =>
         req[r].op = "replace" \/ (req[r].newId = NONE /\ req[r].todo \subseteq Rows)
    /\ req[r].pc = "create" => req[r].op # "replace"
    /\ req[r].op = "replace" /\ req[r].pc \in {"put", "delBlob", "updCore"} => req[r].ids # {}
    /\ req[r].pc \notin {"updRef", "newEnt"} => req[r].ids \subseteq Rows
    /\ req[r].pc \in {"delRows", "updCore"} => req[r].names = {}
    /\ \A m \in req[r].ids : file[m] \in blobs => file[m] \in req[r].names

\* Every blob is a row's, or is on its way to one.
Accounted ==
  \A k \in blobs : \/ \E m \in Rows : file[m] = k
                   \/ \E r \in Request : req[r].newKey = k

SerialInv == RInv /\ stranded = {} /\ Alone /\ Accounted

\* While there is a name for an upload there is an id for its row: the rows
\* have as many names, and the upload has one more.
LEMMA IdsLast ==
  ASSUME NothingLeaks, SerialInv, NEW r \in Request, req[r].pc = "create"
  PROVE  \E m \in MediaId : FreshId(m)
<1> USE DEF SerialInv, RInv, IInv
<1>0. /\ NONE \notin MediaId \cup Key /\ GONE \notin MediaId
      /\ req[r] \in Req /\ file \in [MediaId -> Key \cup {NONE}]
  BY ConstantsOK DEF TypeOK
<1> DEFINE k == req[r].newKey
           Others == Key \ {k}
<1>1. k \in Key /\ k # NONE
  BY <1>0 DEF PcInv, Req
<1>2. IsFiniteSet(Key) /\ Cardinality(Key) \in Nat
  BY FS_CardinalityType DEF NothingLeaks
<1>3. IsFiniteSet(Others) /\ Cardinality(Others) = Cardinality(Key) - 1
  BY <1>1, <1>2, FS_RemoveElement
<1>4. \E m \in MediaId : file[m] = NONE
  <2> SUFFICES ASSUME \A m \in MediaId : file[m] # NONE PROVE FALSE
    OBVIOUS
  <2>1. \A m \in MediaId : file[m] \in Others
    BY <1>0 DEF NamesInv, NamesNotShared, Originals
  <2>2. file \in Injection(MediaId, Others)
    <3>1. file \in [MediaId -> Others]
      BY <1>0, <2>1
    <3>2. \A m, n \in MediaId : file[m] = file[n] => m = n
      BY DEF NamesInv, NamesNotShared, Originals
    <3> QED BY <3>1, <3>2 DEF Injection, IsInjective
  <2>3. IsFiniteSet(MediaId) /\ Cardinality(MediaId) <= Cardinality(Others)
    BY <1>3, <2>2, FS_Injection
  <2>4. Cardinality(MediaId) \in Nat
    BY <2>3, FS_CardinalityType
  <2> QED BY <1>2, <1>3, <2>3, <2>4 DEF NothingLeaks
<1>5. PICK m \in MediaId : file[m] = NONE
  BY <1>4
<1>6. ~ReferencedBy(m, Entity)
  BY <1>0, <1>5 DEF ReferencedBy, ReferencesResolve, Rows
<1>7. m \notin req[r].todo \cup req[r].ids /\ req[r].newId # m
  BY <1>0, <1>5 DEF Alone, Rows
<1>8. \A s \in Request : s = r
  BY DEF NothingLeaks
<1> QED BY <1>5, <1>6, <1>7, <1>8 DEF FreshId

\* What an arriving request holds.
LEMMA ArriveAlone ==
  ASSUME NothingLeaks, SerialInv, NEW r \in Request, Arrive(r)
  PROVE  /\ UNCHANGED <<blobs, file>>
         /\ req[r].pc = "idle" /\ req'[r].ids = {} /\ req'[r].names = {}
         /\ req'[r].newKey = NONE /\ req'[r].newId = NONE
         /\ req'[r].op \in Ops /\ req'[r].pc \in {"put", "find", "updRef"}
         /\ req'[r].pc = "put" => req'[r].todo \subseteq Rows /\ req'[r].op # "replace"
<1> USE DEF Begin, Idle, SerialInv, RInv, IInv
<1>0. req \in [Request -> Req] /\ NONE \notin AllOps
  BY ConstantsOK DEF TypeOK
<1>1. CASE BeginUpload(r)
  BY <1>0, <1>1 DEF BeginUpload
<1>2. CASE BeginOnRow(r)
  BY <1>0, <1>2 DEF BeginOnRow
<1>3. CASE BeginBulkDelete(r)
  BY <1>0, <1>3 DEF BeginBulkDelete
<1>4. ~BeginCleanup(r)
  BY DEF BeginCleanup, NothingLeaks
<1>5. CASE BeginSetImage(r)
  <2>1. \A e \in Entity : ref[e] # GONE => {ref[e]} \ {NONE} \subseteq Rows
    BY DEF ReferencesResolve
  <2> QED BY <1>0, <1>5, <2>1 DEF BeginSetImage
<1>6. CASE BeginRemoveImage(r)
  BY <1>0, <1>6 DEF BeginRemoveImage
<1> QED BY <1>1, <1>2, <1>3, <1>4, <1>5, <1>6 DEF Arrive

\* What a handler holds after a findById that does not end it.
LEMMA FoundAlone ==
  ASSUME TypeOK, NEW r \in Request, NEW m \in MediaId, Found(r, m), ~Leave(r)
  PROVE  /\ req'[r].op = req[r].op /\ req'[r].newKey = req[r].newKey
         /\ req'[r].pc \in {"find", "put", "download", "delBlob"}
         /\ req'[r].pc = "put" <=> req'[r].pc # "find" /\ req[r].op = "replace"
         /\ req'[r].pc = "download" => req[r].op = "process"
         /\ req'[r].pc # "find" => req'[r].ids # {}
         /\ \/ req'[r].ids = req[r].ids /\ req'[r].names = req[r].names
            \/ /\ m \in Rows /\ req'[r].ids = req[r].ids \cup {m}
               /\ req'[r].names = req[r].names \cup {file[m]}
<1> DEFINE seen == IF file[m] = NONE THEN req[r]
                 ELSE [req[r] EXCEPT !.ids = @ \cup {m}, !.names = @ \cup {file[m]},
                         !.seen = IF req[r].op = "replace" THEN derived[m] ELSE NONE]
           next == CASE req[r].op = "replace" -> "put"
                     [] req[r].op = "process" -> "download"
                     [] OTHER -> "delBlob"
           pc == IF req[r].todo = {m} THEN next ELSE "find"
<1>t. req[r] \in Req
  BY DEF TypeOK
<1>1. /\ req'[r] = [seen EXCEPT !.todo = @ \ {m}, !.pc = pc]
      /\ ~(req[r].todo = {m} /\ seen.ids = {})
  BY DEF Found, TypeOK
<1>2. seen \in Req
  BY <1>t DEF Req, TypeOK
<1>3. /\ req'[r].names = seen.names /\ req'[r].ids = seen.ids
      /\ req'[r].newKey = seen.newKey
      /\ req'[r].op = seen.op /\ req'[r].pc = pc
  <2> HIDE DEF seen, pc
  <2> QED BY <1>1, <1>2 DEF Req
<1>4. seen.newKey = req[r].newKey /\ seen.op = req[r].op
  BY <1>t DEF Req
<1>5. \/ seen = req[r]
      \/ /\ m \in Rows /\ seen.names = req[r].names \cup {file[m]}
         /\ seen.ids = req[r].ids \cup {m}
  BY <1>t DEF Req, Rows
<1>6. /\ pc \in {"find", "put", "download", "delBlob"}
      /\ pc = "put" <=> pc # "find" /\ req[r].op = "replace"
      /\ pc = "download" => req[r].op = "process"
      /\ pc # "find" => req[r].todo = {m}
  OBVIOUS
<1> HIDE DEF seen, pc
<1> QED BY <1>1, <1>3, <1>4, <1>5, <1>6

\* Every step keeps the blobs accounted for.
LEMMA SerialStep ==
  ASSUME NothingLeaks, SerialInv, [Next]_vars
  PROVE  Alone' /\ Accounted'
<1> USE DEF SerialInv, RInv, IInv
<1>0. /\ NONE \notin MediaId \cup Key \cup AllOps
      /\ req \in [Request -> Req] /\ blobs \subseteq Key
      /\ file \in [MediaId -> Key \cup {NONE}] /\ Faults = {}
  BY ConstantsOK DEF TypeOK, NothingLeaks
<1>o. \A r, s \in Request : r = s
  BY DEF NothingLeaks
<1>1. CASE UNCHANGED <<blobs, file, req>>
  BY <1>1 DEF Alone, Accounted, Rows
\* The handler ends, or goes on to its caller's update, with no upload on hand.
<1>r. ASSUME NEW r \in Request, req' = [req EXCEPT ![r] = Idle],
             \A k \in blobs' : \E m \in Rows' : file'[m] = k
      PROVE  Alone' /\ Accounted'
  <2>1. req'[r] = Idle
    BY <1>0, <1>r
  <2>2. Alone'
    BY <2>1, <1>0, <1>o, IdleHolds DEF Alone, Idle, AllOps
  <2> QED BY <1>r, <2>2 DEF Accounted
<1>n. \A r \in Request : req[r].newKey = NONE => \A k \in blobs : \E m \in Rows : file[m] = k
  BY <1>0, <1>o DEF Accounted
<1>l. ASSUME NEW r \in Request, Leave(r), req[r].newKey = NONE,
             \A m \in req[r].ids : file'[m] \in blobs' => file'[m] \in req[r].names,
             \A k \in blobs' : \E m \in Rows' : file'[m] = k
      PROVE  Alone' /\ Accounted'
  <2>1. CASE Return(r)
    BY <1>l, <1>r, <2>1 DEF Return
  <2>2. CASE Goto(r, "updRef")
    <3>1. /\ req'[r].pc = "updRef" /\ req'[r].op = req[r].op /\ req'[r].ids = req[r].ids
          /\ req'[r].names = req[r].names /\ req'[r].newKey = NONE
      BY <1>0, <1>l, <2>2 DEF Goto, Req
    <3>2. Alone'
      BY <1>l, <1>o, <3>1 DEF Alone
    <3> QED BY <1>l, <3>2 DEF Accounted
  <2> QED BY <1>l, <2>1, <2>2 DEF Leave
<1>2. ASSUME NEW r \in Request, Arrive(r) PROVE Alone' /\ Accounted'
  <2>1. req[r].newKey = NONE
    BY <1>2, ArriveAlone DEF Alone
  <2>2. Accounted'
    BY <1>2, <1>n, <2>1, ArriveAlone DEF Accounted, Rows
  <2>3. req'[r].op \notin {"cleanup", "process"}
    BY <1>2, ArriveAlone DEF NothingLeaks
  <2>4. Alone'
    BY <1>2, <1>o, <2>3, ArriveAlone DEF Alone, Rows
  <2> QED BY <2>2, <2>4
<1>3. ASSUME NEW r \in Request, Step(r) PROVE Alone' /\ Accounted'
  <2>a. req[r] \in Req
    BY <1>0
  <2>1. CASE Find(r)
    <3>1. PICK m \in req[r].todo : Found(r, m)
      BY <2>1 DEF Find
    <3>2. m \in MediaId /\ req[r].pc = "find" /\ UNCHANGED <<blobs, file>>
      BY <2>1, <2>a, <3>1 DEF Find, Req
    <3>3. req[r].newKey = NONE
      BY <3>2 DEF Alone
    <3>4. CASE Leave(r)
      BY <1>l, <1>n, <3>2, <3>3, <3>4 DEF Alone, Rows
    <3>5. CASE ~Leave(r)
      <4>1. Accounted'
        BY <1>n, <3>2, <3>3 DEF Accounted, Rows
      <4>2. \A n \in req'[r].ids : /\ n \in Rows
                                   /\ file[n] \in blobs => file[n] \in req'[r].names
        BY <3>1, <3>2, <3>5, FoundAlone DEF Alone
      <4>3. /\ req'[r].op = req[r].op /\ req'[r].newKey = NONE
            /\ req'[r].pc \in {"find", "put", "delBlob"}
            /\ req'[r].pc = "put" => req[r].op = "replace" /\ req'[r].ids # {}
            /\ req'[r].pc = "delBlob" => req[r].op # "replace"
            /\ req[r].op \notin {"cleanup", "process"}
        BY <3>1, <3>2, <3>3, <3>5, FoundAlone DEF Alone
      <4>4. Alone'
        BY <1>o, <3>2, <4>2, <4>3 DEF Alone, Rows
      <4> QED BY <4>1, <4>4
    <3> QED BY <3>4, <3>5
  <2>2. ~Download(r) /\ ~SaveMeta(r)
    BY DEF Download, SaveMeta, Alone
  <2>3. CASE Put(r)
    <3>1. PICK k \in Key :
            /\ FreshKey(k)
            /\ blobs' = blobs \cup {k}
            /\ req' = [req EXCEPT ![r].newKey = k, ![r].pc = AfterPut(req[r].op)]
      BY <2>3 DEF Put
    <3>2. /\ req'[r].newKey = k /\ req'[r].pc = AfterPut(req[r].op)
          /\ req'[r].op = req[r].op /\ req'[r].ids = req[r].ids /\ req'[r].names = req[r].names
          /\ req'[r].todo = req[r].todo /\ req'[r].newId = req[r].newId
      BY <1>0, <3>1 DEF Req
    <3>3. UNCHANGED file /\ req[r].pc = "put"
      BY <2>3 DEF Put
    <3>4. AfterPut(req[r].op) = IF req[r].op = "replace" THEN "delBlob" ELSE "create"
      BY DEF AfterPut, Alone
    <3>5. \A n \in MediaId : file[n] # k
      BY <3>1 DEF FreshKey
    <3>6. req[r].ids \subseteq MediaId
      BY <2>a DEF Req
    <3>n. \A n \in req'[r].ids : /\ n \in Rows'
                                 /\ file'[n] \in blobs' => file'[n] \in req'[r].names
      BY <3>1, <3>2, <3>3, <3>5, <3>6 DEF Alone, Rows
    <3>t. /\ req[r].op \notin {"cleanup", "process"}
          /\ req[r].op = "replace" => req[r].ids # {}
          /\ req[r].op # "replace" => req[r].newId = NONE /\ req[r].todo \subseteq Rows
      BY <3>3 DEF Alone
    <3>7. Alone'
      BY <1>o, <3>2, <3>3, <3>4, <3>n, <3>t DEF Alone, Rows
    <3>8. Accounted'
      <4>1. req[r].newKey = NONE
        BY <3>3 DEF Alone
      <4> QED BY <1>n, <3>1, <3>2, <3>3, <4>1 DEF Accounted, Rows
    <3> QED BY <3>7, <3>8
  <2>4. CASE PutFails(r)
    <3>1. req[r].newKey = NONE /\ UNCHANGED <<blobs, file>>
      BY <2>4 DEF PutFails, Alone
    <3> QED BY <1>n, <1>r, <2>4, <3>1 DEF PutFails, Return, Rows
  <2>5. CASE CreateRow(r)
    <3>1. PICK m \in MediaId : FreshId(m) /\ file' = [file EXCEPT ![m] = req[r].newKey]
      BY <2>5 DEF CreateRow
    <3>2. /\ req[r].newKey # NONE /\ req[r].op # "replace" /\ req[r].names \subseteq Key
          /\ req[r].pc = "create" /\ UNCHANGED blobs
      BY <2>5, <2>a DEF CreateRow, PcInv, Alone, Req
    <3>3. /\ file'[m] = req[r].newKey /\ file[m] = NONE /\ m \notin req[r].ids
          /\ \A n \in MediaId : n # m => file'[n] = file[n]
      BY <1>0, <3>1 DEF FreshId
    <3>4. \A k \in blobs' : \E n \in Rows' : file'[n] = k
      BY <1>o, <3>2, <3>3 DEF Accounted, Rows
    <3>5. CASE Return(r)
      BY <1>r, <3>4, <3>5 DEF Return
    <3>6. CASE ~Return(r)
      <4>1. /\ req'[r].pc \in {"updRef", "find", "newEnt"} /\ req'[r].op = req[r].op
            /\ req'[r].ids = req[r].ids /\ req'[r].names = req[r].names
            /\ req'[r].newKey = NONE
        BY <1>0, <2>5, <3>6 DEF CreateRow, Req
      <4>2. req[r].ids \subseteq Rows /\ Rows \subseteq Rows'
        BY <3>2, <3>3 DEF Alone, Rows
      <4>3. Alone'
        BY <1>o, <3>2, <3>3, <4>1, <4>2 DEF Alone, Rows
      <4> QED BY <3>4, <4>3 DEF Accounted
    <3> QED BY <3>5, <3>6
  <2>6. ~CreateRowFails(r)
    BY <1>0, IdsLast DEF CreateRowFails
  <2>7. CASE DelBlob(r)
    <3>1. PICK k \in req[r].names :
            /\ blobs' = blobs \ {k}
            /\ req' = [req EXCEPT
                 ![r].names = @ \ {k},
                 ![r].pc = IF req[r].names # {k} THEN "delBlob"
                           ELSE IF req[r].op = "replace" THEN "updCore" ELSE "delRows"]
      BY <1>0, <2>7 DEF DelBlob
    <3>2. /\ req'[r].names = req[r].names \ {k} /\ req'[r].op = req[r].op
          /\ req'[r].ids = req[r].ids /\ req'[r].newKey = req[r].newKey
          /\ \/ req'[r].pc = "delBlob"
             \/ /\ req[r].names = {k}
                /\ req'[r].pc = IF req[r].op = "replace" THEN "updCore" ELSE "delRows"
      BY <1>0, <3>1 DEF Req
    <3>3. UNCHANGED file /\ req[r].pc = "delBlob"
      BY <2>7 DEF DelBlob
    <3>n. \A n \in req'[r].ids : /\ n \in Rows'
                                 /\ file'[n] \in blobs' => file'[n] \in req'[r].names
      BY <3>1, <3>2, <3>3 DEF Alone, Rows
    <3>t. /\ req[r].op \notin {"cleanup", "process"}
          /\ req[r].newKey # NONE => req[r].op = "replace"
          /\ req[r].op = "replace" => req[r].ids # {}
      BY <3>3 DEF Alone
    <3>4. Alone'
      BY <1>o, <3>2, <3>3, <3>n, <3>t DEF Alone, Rows
    <3>5. Accounted'
      BY <1>o, <3>1, <3>2, <3>3 DEF Accounted, Rows
    <3> QED BY <3>4, <3>5
  <2>8. CASE DelRows(r)
    <3>1. req[r].newKey = NONE /\ req[r].names = {} /\ UNCHANGED blobs
      BY <2>8 DEF DelRows, Alone
    <3>2. \A m \in MediaId : file'[m] = IF m \in req[r].ids THEN NONE ELSE file[m]
      BY <2>8 DEF DelRows
    <3>3. \A m \in req[r].ids : m \in MediaId /\ file[m] \notin blobs
      BY <2>a, <3>1 DEF Alone, Req
    <3>4. \A k \in blobs' : \E m \in Rows' : file'[m] = k
      BY <1>0, <1>n, <3>1, <3>2, <3>3 DEF Rows
    <3>5. \A m \in req[r].ids : file'[m] \notin blobs'
      BY <1>0, <3>1, <3>2, <3>3
    <3> QED BY <1>l, <2>8, <3>1, <3>4, <3>5 DEF DelRows
  <2>9. ~DelRowsRefused(r)
    BY <1>0 DEF DelRowsRefused, Deletable, ReferencedBy, NothingLeaks
  <2>10. CASE UpdCore(r)
    <3>1. /\ req[r].op = "replace" /\ req[r].newKey # NONE /\ req[r].names = {}
          /\ req[r].ids # {} /\ req[r].ids \subseteq Rows /\ UNCHANGED blobs
      BY <2>10 DEF UpdCore, PcInv, Alone
    <3>2. \A m \in MediaId : file'[m] = IF m \in req[r].ids THEN req[r].newKey ELSE file[m]
      BY <2>10 DEF UpdCore
    <3>3. \A m \in req[r].ids : m \in MediaId /\ file[m] \notin blobs
      BY <2>a, <3>1 DEF Alone, Req
    <3>4. \A k \in blobs : k = req[r].newKey \/ \E m \in Rows : file[m] = k
      BY <1>o DEF Accounted
    <3>5. \A k \in blobs' : \E m \in Rows' : file'[m] = k
      BY <3>1, <3>2, <3>3, <3>4 DEF Rows
    <3> QED BY <1>r, <2>10, <3>5 DEF UpdCore, Return
  <2>11. ~UpdCoreFails(r)
    BY <1>0 DEF UpdCoreFails, Alone
  <2>12. CASE UpdRef(r) \/ UpdRefFails(r) \/ NewEnt(r) \/ NewEntFails(r)
    <3>1. req[r].newKey = NONE /\ UNCHANGED <<blobs, file>> /\ Return(r)
      BY <2>12 DEF UpdRef, UpdRefFails, NewEnt, NewEntFails, Alone
    <3> QED BY <1>n, <1>r, <3>1 DEF Return, Rows
  <2> QED BY <1>3, <2>1, <2>2, <2>3, <2>4, <2>5, <2>6, <2>7, <2>8, <2>9, <2>10,
             <2>11, <2>12 DEF Step
<1>4. ~Crash
  BY <1>0 DEF Crash
<1> QED BY <1>1, <1>2, <1>3, <1>4
        DEF Next, vars, UpdateMedia, CreateEntity, UpdateEntity, DeleteEntity

\* When a request is over, and no other came meanwhile, the store holds exactly
\* the blobs of the rows: uploads, replacements, deletions and image changes of
\* employees and of the office settings leave nothing behind.
THEOREM SerialNoLeak == NothingLeaks => (Spec => []QuiescentNoLeak)
<1> SUFFICES ASSUME NothingLeaks PROVE Spec => []QuiescentNoLeak
  OBVIOUS
<1>1. Init => SerialInv
  <2> SUFFICES ASSUME Init PROVE SerialInv
    OBVIOUS
  <2>1. RInv
    BY IInvInit, IdleHolds, ConstantsOK
       DEF RInv, Init, ImageCreated, ReferencesResolve, Entity, AllOps
  <2>2. \A r \in Request : req[r] = Idle
    BY DEF Init
  <2>3. Alone
    BY <2>2, IdleHolds DEF Alone, Idle, AllOps
  <2> QED BY <2>1, <2>3 DEF Init, SerialInv, Accounted
<1>2. SerialInv /\ [Next]_vars => SerialInv'
  <2> SUFFICES ASSUME SerialInv, [Next]_vars PROVE SerialInv'
    OBVIOUS
  <2>1. RInv'
    BY IInvStep, ImageStep, ReferencesStep DEF SerialInv, RInv, IInv
  <2>2. stranded' = {}
    BY NothingStranded DEF NothingLeaks, SerialInv, RInv
  <2> QED BY <2>1, <2>2, SerialStep DEF SerialInv
<1>3. SerialInv => QuiescentNoLeak
  <2> SUFFICES ASSUME SerialInv, Quiescent PROVE blobs = {file[m] : m \in Rows}
    BY DEF QuiescentNoLeak
  <2>1. \A m \in Rows : file[m] \in blobs
    BY DEF SerialInv, RInv, IInv, MissingBlobExplained, Removing, Quiescent, Bereft
  <2>2. \A r \in Request : req[r].newKey = NONE
    BY DEF SerialInv, Alone, Quiescent
  <2>3. \A k \in blobs : \E m \in Rows : file[m] = k
    BY <2>2, ConstantsOK DEF SerialInv, Accounted, RInv, IInv, TypeOK
  <2> QED BY <2>1, <2>3
<1> HIDE DEF NothingLeaks, SerialInv
<1> QED BY <1>1, <1>2, <1>3, PTL DEF Spec
\* Whoever shows a media row that goes away is no slider, and shows nothing then.
RemovedTogether ==
  \A m \in MediaId, e \in Entity :
    status[m] # "absent" /\ status'[m] = "absent" /\ ref[e] = m
      => e \notin Slider /\ ref'[e] = NONE

\* What the life cycle says of deletions (deleteMedia, bulkDelete, the clean-up and
\* the replacements): no step of any request removes the row that a slider shows, and
\* the one that removes another also clears every reference to it.
THEOREM RemovalsClearReferences == Spec => [][RemovedTogether]_(Asset!avars)
<1>1. Asset!Next => RemovedTogether
  <2>1. ASSUME NEW m \in MediaId, Asset!Add(m) \/ Asset!Lose(m) \/ Asset!Repair(m)
        PROVE  RemovedTogether
    BY <2>1 DEF Asset!Add, Asset!Lose, Asset!Repair, RemovedTogether, status
  <2>2. ASSUME NEW gone \in SUBSET MediaId, Asset!Remove(gone) PROVE RemovedTogether
    BY <2>2 DEF Asset!Remove, RemovedTogether
  <2>3. ASSUME NEW e \in Entity, NEW m, Asset!Point(e, m) PROVE RemovedTogether
    BY <2>3 DEF Asset!Point, RemovedTogether
  <2> QED BY <2>1, <2>2, <2>3 DEF Asset!Next
<1>2. [Asset!Next]_(Asset!avars) => [RemovedTogether]_(Asset!avars)
  BY <1>1
<1> QED BY <1>2, ImplementsLifeCycle, PTL DEF ImplementsAssetLifecycle, Asset!Spec
=============================================================================
