---------------------------- MODULE MediaLibrary ----------------------------
(***************************************************************************)
(* The media library: rows of table "media", the blobs their fileName      *)
(* names in the object store, and the rows of other tables that reference  *)
(* a media row (sliders, employees, office settings).                      *)
(*                                                                         *)
(* Every HTTP request is an async handler.  Between two awaits any other   *)
(* request may run, and no handler of this part opens a transaction, so    *)
(* each await on the store or the database is one action below.  A process *)
(* crash drops every request in flight and keeps blobs and rows.           *)
(***************************************************************************)
EXTENDS FiniteSets

CONSTANTS
  MediaId,    \* primary keys of table media (cuid, never reissued)
  Key,        \* object names in the store; finite: the store's capacity
  Slider,     \* slider rows:   sliders.mediaId       NOT NULL, ON DELETE RESTRICT
  Employee,   \* employee rows: employees.photoMediaId      ON DELETE SET NULL
  Office,     \* office settings rows: backgroundPhotoId    ON DELETE SET NULL
  Request,    \* request slots: how many handlers are in flight together
  Ops,        \* the operations clients call
  Faults,     \* the failures that may happen: "storage", "database", "crash"
  NONE,       \* SQL NULL, or no row / no name
  GONE        \* the referencing row itself does not exist

Entity == Slider \cup Employee \cup Office

AllOps == {"upload", "replace", "process", "update", "delete", "bulkDelete",
           "cleanup", "setImage", "removeImage", "newSlider", "newEmployee",
           "createEntity", "updateEntity", "deleteEntity"}

ASSUME ConstantsOK ==
  /\ NONE \notin MediaId \cup Key \cup Entity \cup AllOps
  /\ GONE \notin MediaId \cup Key \cup {NONE}
  /\ Ops \subseteq AllOps
  /\ Faults \subseteq {"storage", "database", "crash"}
  /\ Slider \cap (Employee \cup Office) = {}
  /\ Employee \cap Office = {}

VARIABLES
  blobs,      \* names the object store holds
  file,       \* media row -> its fileName, NONE when there is no such row
  derived,    \* media row -> metadata.processed.fileName, or NONE
  ref,        \* referencing row -> media id, NONE, or GONE
  req,        \* request slot -> the handler's position and local variables
  stranded    \* history: rows a request left behind without their blob

vars == <<blobs, file, derived, ref, req, stranded>>

Pc == {"idle", "find", "download", "put", "create", "delBlob", "delRows",
       "updCore", "saveMeta", "updRef", "newEnt"}

Req == [op: AllOps \cup {NONE}, pc: Pc, ent: Entity \cup {NONE},
        todo: SUBSET MediaId,     \* ids the handler has yet to look up
        ids: SUBSET MediaId,      \* ids it found and will act on
        names: SUBSET Key,        \* their fileNames, as read at that time
        seen: Key \cup {NONE},    \* the variant named by the metadata it read
        newKey: Key \cup {NONE},  \* what it uploaded and no row names yet
        newId: MediaId \cup {NONE}]  \* the row it created

Idle == [op |-> NONE, pc |-> "idle", ent |-> NONE, todo |-> {}, ids |-> {},
         names |-> {}, seen |-> NONE, newKey |-> NONE, newId |-> NONE]

----------------------------------------------------------------------------
(* What the handlers see. *)

Rows == {m \in MediaId : file[m] # NONE}

\* Rows whose blob the store does not hold.
Bereft == {m \in Rows : file[m] \notin blobs}

ReferencedBy(m, E) == \E e \in E : ref[e] = m

\* Mutants: a name only free in the store; one that may overwrite what is there.
FreshKeyFreeSlot(k) == k \notin blobs

FreshKeyOverwrites(k) == \A r \in Request : k # req[r].newKey

\* Date.now and Math.random: a name nobody holds.  A name that no row, blob or
\* handler mentions any more stands for one that was never issued.
FreshKey(k) ==
  /\ k \notin blobs
  /\ \A m \in MediaId : file[m] # k /\ derived[m] # k
  /\ \A r \in Request : k \notin req[r].names \cup {req[r].seen, req[r].newKey}

\* A cuid: an id no row, reference or handler mentions.
FreshId(m) ==
  /\ file[m] = NONE
  /\ ~ReferencedBy(m, Entity)
  /\ \A r \in Request : /\ m \notin req[r].todo \cup req[r].ids
                        /\ req[r].newId # m

----------------------------------------------------------------------------
(* Requests arrive. *)

Init ==
  /\ blobs = {}
  /\ file = [m \in MediaId |-> NONE]
  /\ derived = [m \in MediaId |-> NONE]
  /\ ref = [e \in Entity |-> GONE]
  /\ req = [r \in Request |-> Idle]
  /\ stranded = {}

Begin(r, op, rec) ==
  /\ req[r].pc = "idle"
  /\ op \in Ops
  /\ req' = [req EXCEPT ![r] = rec]
  /\ UNCHANGED <<blobs, file, derived, ref, stranded>>

\* uploadMedia, importMedia and each file of bulkUpload: validation and the
\* ignored duplicate search change nothing, the upload comes first.
BeginUpload(r) ==
  \E op \in {"upload", "newSlider", "newEmployee"} :
    Begin(r, op, [Idle EXCEPT !.op = op, !.pc = "put"])

\* replaceMediaFile, processMedia, deleteMedia: findById first.
BeginOnRow(r) ==
  \E op \in {"replace", "process", "delete"}, m \in MediaId :
    Begin(r, op, [Idle EXCEPT !.op = op, !.pc = "find", !.todo = {m}])

\* bulkDelete: a findById per id, all started together.
BeginBulkDelete(r) ==
  \E ms \in (SUBSET MediaId) \ {{}} :
    Begin(r, "bulkDelete",
          [Idle EXCEPT !.op = "bulkDelete", !.pc = "find", !.todo = ms])

\* Mutant: selects fileName where id is wanted.
UnreferencedNames == {file[m] : m \in {n \in Rows : ~ReferencedBy(n, Slider \cup Office)}}

\* cleanupOrphanedMedia's findMany: rows without slider, office settings or
\* profile picture.  No code sets a profile picture; photos are not asked for.
Unreferenced == {m \in Rows : ~ReferencedBy(m, Slider \cup Office)}

BeginCleanup(r) ==
  /\ Unreferenced # {}
  /\ Begin(r, "cleanup",
           [Idle EXCEPT !.op = "cleanup", !.pc = "delRows", !.ids = Unreferenced])

\* uploadSliderImage, uploadEmployeePhoto, updateBackgroundPhoto: the entity is
\* read once; only the first two will delete the image it had then.
BeginSetImage(r) ==
  \E e \in Entity :
    /\ ref[e] # GONE
    /\ Begin(r, "setImage",
             [Idle EXCEPT !.op = "setImage", !.pc = "put", !.ent = e,
                          !.todo = IF e \in Office THEN {} ELSE {ref[e]} \ {NONE}])

\* removeSliderImage, removeEmployeePhoto, removeBackgroundPhoto.
BeginRemoveImage(r) ==
  \E e \in Entity :
    /\ ref[e] # GONE
    /\ Begin(r, "removeImage",
             [Idle EXCEPT !.op = "removeImage", !.ent = e, !.todo = {ref[e]} \ {NONE},
                          !.pc = IF ref[e] = NONE THEN "updRef" ELSE "find"])

----------------------------------------------------------------------------
(* The handlers' steps. *)

Goto(r, pc) == req' = [req EXCEPT ![r].pc = pc]
Return(r) == req' = [req EXCEPT ![r] = Idle]

\* The handlers that catch what deleteMedia throws and go on.
Nested(r) == req[r].op \in {"setImage", "removeImage"}

Leave(r) == IF Nested(r) THEN Goto(r, "updRef") ELSE Return(r)

\* One findById.  deleteMedia's comes when its caller has uploaded the new
\* image; when all ids have been looked up and none exists, the service throws.
Found(r, m) ==
  LET seen == IF file[m] = NONE THEN req[r]
              ELSE [req[r] EXCEPT !.ids = @ \cup {m}, !.names = @ \cup {file[m]},
                                  !.seen = IF req[r].op = "replace" THEN derived[m] ELSE NONE]
      last == req[r].todo = {m}
      next == CASE req[r].op = "replace" -> "put"
                [] req[r].op = "process" -> "download"
                [] OTHER -> "delBlob"
  IN IF last /\ seen.ids = {}
     THEN Leave(r)
     ELSE req' = [req EXCEPT ![r] = [seen EXCEPT !.todo = @ \ {m},
                                                 !.pc = IF last THEN next ELSE "find"]]

Find(r) ==
  /\ req[r].pc = "find"
  /\ \E m \in req[r].todo : Found(r, m)
  /\ UNCHANGED <<blobs, file, derived, ref, stranded>>

\* processMedia's download of the file it read; a missing blob throws.
Download(r) ==
  /\ req[r].pc = "download"
  /\ \/ req[r].names \subseteq blobs /\ Goto(r, "put")
     \/ /\ "storage" \in Faults \/ ~(req[r].names \subseteq blobs)
        /\ Return(r)
  /\ UNCHANGED <<blobs, file, derived, ref, stranded>>

\* Mutant: a replacement goes straight to its row and forgets the old file.
AfterPutKeepsOld(op) == CASE op = "replace" -> "updCore"
                          [] op = "process" -> "saveMeta"
                          [] OTHER -> "create"

AfterPut(op) == CASE op = "replace" -> "delBlob"
                  [] op = "process" -> "saveMeta"
                  [] OTHER -> "create"

Put(r) ==
  /\ req[r].pc = "put"
  /\ \E k \in Key :
       /\ FreshKey(k)
       /\ blobs' = blobs \cup {k}
       /\ req' = [req EXCEPT ![r].newKey = k, ![r].pc = AfterPut(req[r].op)]
  /\ UNCHANGED <<file, derived, ref, stranded>>

\* The store refuses: outage, or no capacity left.  Every caller rethrows.
PutFails(r) ==
  /\ req[r].pc = "put"
  /\ "storage" \in Faults \/ ~\E k \in Key : FreshKey(k)
  /\ Return(r)
  /\ UNCHANGED <<blobs, file, derived, ref, stranded>>

\* mediaRepository.create, then back to the caller of uploadMedia.
CreateRow(r) ==
  /\ req[r].pc = "create"
  /\ \E m \in MediaId :
       /\ FreshId(m)
       /\ file' = [file EXCEPT ![m] = req[r].newKey]
       /\ CASE req[r].op = "upload" -> Return(r)
            [] req[r].op = "setImage" ->
                 req' = [req EXCEPT ![r].newId = m, ![r].newKey = NONE,
                           ![r].pc = IF req[r].todo = {} THEN "updRef" ELSE "find"]
            [] OTHER ->
                 req' = [req EXCEPT ![r].newId = m, ![r].newKey = NONE, ![r].pc = "newEnt"]
  /\ UNCHANGED <<blobs, derived, ref, stranded>>

\* The insert fails; the blob uploaded for it stays.
CreateRowFails(r) ==
  /\ req[r].pc = "create"
  /\ "database" \in Faults \/ ~\E m \in MediaId : FreshId(m)
  /\ Return(r)
  /\ UNCHANGED <<blobs, file, derived, ref, stranded>>

\* One fileStorage.delete.  A failure is logged and ignored; a blob that is
\* already missing is no failure that matters.
DelBlob(r) ==
  /\ req[r].pc = "delBlob"
  /\ \E k \in req[r].names :
       /\ \/ blobs' = blobs \ {k}
          \/ "storage" \in Faults /\ blobs' = blobs
       /\ req' = [req EXCEPT
            ![r].names = @ \ {k},
            ![r].pc = IF req[r].names # {k} THEN "delBlob"
                      ELSE IF req[r].op = "replace" THEN "updCore" ELSE "delRows"]
  /\ UNCHANGED <<file, derived, ref, stranded>>

\* The rows a request gives up on although their blob is gone.
Strand(r) ==
  stranded' = stranded \cup
    (IF req[r].op = "cleanup" THEN {} ELSE req[r].ids \cap Bereft)

\* Mutants: sliders cascade like the rest; every reference restricts.
DeletableAll(ids) == ids \subseteq MediaId

DeletableUnshown(ids) == \A m \in ids : ~ReferencedBy(m, Entity)

\* ON DELETE RESTRICT of sliders.mediaId, the only reference that restricts.
Deletable(ids) == \A m \in ids : ~ReferencedBy(m, Slider)

\* media.delete / deleteMany: one statement.  Rows already gone are skipped
\* (or throw, which changes nothing); the foreign keys set NULL or cascade.
DelRows(r) ==
  /\ req[r].pc = "delRows"
  /\ Deletable(req[r].ids)
  /\ file' = [m \in MediaId |-> IF m \in req[r].ids THEN NONE ELSE file[m]]
  /\ derived' = [m \in MediaId |-> IF m \in req[r].ids THEN NONE ELSE derived[m]]
  /\ ref' = [e \in Entity |-> IF ref[e] \in req[r].ids THEN NONE ELSE ref[e]]
  /\ stranded' = stranded \ req[r].ids
  /\ Leave(r)
  /\ UNCHANGED blobs

\* A slider still shows one of them (ON DELETE RESTRICT), or the database
\* fails: the statement changes nothing.  Nested callers go on.
DelRowsRefused(r) ==
  /\ req[r].pc = "delRows"
  /\ "database" \in Faults \/ ~Deletable(req[r].ids)
  /\ Strand(r)
  /\ Leave(r)
  /\ UNCHANGED <<blobs, file, derived, ref>>

\* Mutant: size and url are written, the new fileName is not.
UpdCoreKeepsName(r) ==
  /\ req[r].pc = "updCore"
  /\ req[r].ids \subseteq Rows
  /\ derived' = [m \in MediaId |-> IF m \in req[r].ids THEN req[r].seen ELSE derived[m]]
  /\ stranded' = stranded \ req[r].ids
  /\ Return(r)
  /\ UNCHANGED <<blobs, file, ref>>

\* replaceMediaFile's last step, by id: the row may have been replaced again
\* or deleted since it was read, and the metadata written is the one read.
UpdCore(r) ==
  /\ req[r].pc = "updCore"
  /\ req[r].ids \subseteq Rows
  /\ file' = [m \in MediaId |-> IF m \in req[r].ids THEN req[r].newKey ELSE file[m]]
  /\ derived' = [m \in MediaId |-> IF m \in req[r].ids THEN req[r].seen ELSE derived[m]]
  /\ stranded' = stranded \ req[r].ids
  /\ Return(r)
  /\ UNCHANGED <<blobs, ref>>

UpdCoreFails(r) ==
  /\ req[r].pc = "updCore"
  /\ "database" \in Faults \/ ~(req[r].ids \subseteq Rows)
  /\ Strand(r)
  /\ Return(r)
  /\ UNCHANGED <<blobs, file, derived, ref>>

\* processMedia records the new variant; an earlier variant is forgotten.
SaveMeta(r) ==
  /\ req[r].pc = "saveMeta"
  /\ \/ /\ req[r].ids \subseteq Rows
        /\ derived' = [m \in MediaId |->
                         IF m \in req[r].ids THEN req[r].newKey ELSE derived[m]]
     \/ /\ "database" \in Faults \/ ~(req[r].ids \subseteq Rows)
        /\ UNCHANGED derived
  /\ Return(r)
  /\ UNCHANGED <<blobs, file, ref, stranded>>

\* The entity's update.  Setting needs the entity and the new row (foreign
\* key).  Removing passes undefined for sliders and employees, which Prisma
\* skips, and null for the office settings.
RefAfter(r) ==
  LET e == req[r].ent IN
  CASE req[r].op = "setImage" -> req[r].newId
    [] req[r].op = "removeImage" /\ e \in Office -> NONE
    [] OTHER -> ref[e]

\* Mutant: no foreign key checks the new id.
UpdRefUnchecked(r) ==
  /\ req[r].pc = "updRef"
  /\ ref[req[r].ent] # GONE
  /\ ref' = [ref EXCEPT ![req[r].ent] = RefAfter(r)]
  /\ Return(r)
  /\ UNCHANGED <<blobs, file, derived, stranded>>

UpdRef(r) ==
  /\ req[r].pc = "updRef"
  /\ ref[req[r].ent] # GONE
  /\ RefAfter(r) \in Rows \cup {NONE}
  /\ ref' = [ref EXCEPT ![req[r].ent] = RefAfter(r)]
  /\ Return(r)
  /\ UNCHANGED <<blobs, file, derived, stranded>>

UpdRefFails(r) ==
  /\ req[r].pc = "updRef"
  /\ \/ "database" \in Faults
     \/ ref[req[r].ent] = GONE
     \/ RefAfter(r) \notin Rows \cup {NONE}
  /\ Return(r)
  /\ UNCHANGED <<blobs, file, derived, ref, stranded>>

\* createSliderWithImage / createEmployeeWithImage insert the entity last.
NewKind(r) == IF req[r].op = "newSlider" THEN Slider ELSE Employee

NewEnt(r) ==
  /\ req[r].pc = "newEnt"
  /\ req[r].newId \in Rows
  /\ \E e \in NewKind(r) : ref[e] = GONE /\ ref' = [ref EXCEPT ![e] = req[r].newId]
  /\ Return(r)
  /\ UNCHANGED <<blobs, file, derived, stranded>>

NewEntFails(r) ==
  /\ req[r].pc = "newEnt"
  /\ \/ "database" \in Faults
     \/ req[r].newId \notin Rows
     \/ \A e \in NewKind(r) : ref[e] # GONE
  /\ Return(r)
  /\ UNCHANGED <<blobs, file, derived, ref, stranded>>

----------------------------------------------------------------------------
(* Single-statement operations, and crashes. *)

\* updateMedia and bulkUpdate may replace the metadata column as a whole.
UpdateMedia(m) ==
  /\ "update" \in Ops
  /\ m \in Rows
  /\ derived' = [derived EXCEPT ![m] = NONE]
  /\ UNCHANGED <<blobs, file, ref, req, stranded>>

\* createX with a media id the client names, or none: only the foreign key
\* checks it, and a slider's is mandatory.
CreateEntity(e) ==
  /\ "createEntity" \in Ops
  /\ ref[e] = GONE
  /\ \E m \in Rows \cup {NONE} :
       (e \in Slider => m # NONE) /\ ref' = [ref EXCEPT ![e] = m]
  /\ UNCHANGED <<blobs, file, derived, req, stranded>>

\* updateX with a media id, or null where the column allows it.
UpdateEntity(e) ==
  /\ "updateEntity" \in Ops
  /\ ref[e] # GONE
  /\ \E m \in Rows \cup {NONE} :
       (e \in Slider => m # NONE) /\ ref' = [ref EXCEPT ![e] = m]
  /\ UNCHANGED <<blobs, file, derived, req, stranded>>

\* deleteX leaves the media row alone.
DeleteEntity(e) ==
  /\ "deleteEntity" \in Ops
  /\ ref[e] # GONE
  /\ ref' = [ref EXCEPT ![e] = GONE]
  /\ UNCHANGED <<blobs, file, derived, req, stranded>>

Crash ==
  /\ "crash" \in Faults
  /\ \E r \in Request : req[r].pc # "idle"
  /\ req' = [r \in Request |-> Idle]
  /\ stranded' = stranded \cup Bereft
  /\ UNCHANGED <<blobs, file, derived, ref>>

Arrive(r) ==
  \/ BeginUpload(r) \/ BeginOnRow(r) \/ BeginBulkDelete(r)
  \/ BeginCleanup(r) \/ BeginSetImage(r) \/ BeginRemoveImage(r)

Step(r) ==
  \/ Find(r) \/ Download(r) \/ Put(r) \/ PutFails(r)
  \/ CreateRow(r) \/ CreateRowFails(r) \/ DelBlob(r)
  \/ DelRows(r) \/ DelRowsRefused(r) \/ UpdCore(r) \/ UpdCoreFails(r)
  \/ SaveMeta(r) \/ UpdRef(r) \/ UpdRefFails(r) \/ NewEnt(r) \/ NewEntFails(r)

Next ==
  \/ \E r \in Request : Arrive(r) \/ Step(r)
  \/ \E m \in MediaId : UpdateMedia(m)
  \/ \E e \in Entity : CreateEntity(e) \/ UpdateEntity(e) \/ DeleteEntity(e)
  \/ Crash

Spec == Init /\ [][Next]_vars

----------------------------------------------------------------------------
(* Properties. *)

\* The tables, the store and the handlers of MediaService and its callers: a
\* handler between two awaits holds ids, names and one upload, and nothing else.
TypeOK ==
  /\ blobs \subseteq Key
  /\ file \in [MediaId -> Key \cup {NONE}]
  /\ derived \in [MediaId -> Key \cup {NONE}]
  /\ ref \in [Entity -> MediaId \cup {NONE, GONE}]
  /\ req \in [Request -> Req]
  /\ stranded \subseteq MediaId

\* The handler has begun to remove the blobs of rows it means to delete or to
\* point elsewhere, and has not got to the rows yet.
Removing(r) ==
  /\ req[r].pc \in {"delBlob", "delRows", "updCore"}
  /\ req[r].op # "cleanup"

\* A row whose blob is gone is either about to be deleted or re-pointed by a
\* handler in flight, or was left behind by one whose row statement failed
\* (slider reference, database error) or that a crash cut off: no interleaving
\* of uploads, replacements, deletions and clean-ups loses a blob otherwise
\* (media.service.ts replaceMediaFile, deleteMedia, bulkDelete).
MissingBlobExplained ==
  \A m \in Bereft \ stranded : \E r \in Request : Removing(r) /\ m \in req[r].ids

\* No two rows name one blob, and a row's blob is no metadata entry and nothing
\* a handler holds for itself.
Originals ==
  /\ \A m, n \in MediaId : file[m] = file[n] => m = n \/ file[m] = NONE
  /\ \A m, n \in MediaId : file[m] = derived[n] => file[m] = NONE
  /\ \A m \in MediaId, r \in Request :
       file[m] \in {req[r].seen, req[r].newKey} => file[m] = NONE

\* What a handler read as a fileName, and will delete by name, is nobody's
\* variant or fresh upload, and if a row still names it, it is one of the rows
\* the handler acts on.
NamesRead ==
  \A r, s \in Request :
    /\ \A n \in MediaId : derived[n] \notin req[r].names
    /\ req[s].seen \notin req[r].names
    /\ req[s].newKey \notin req[r].names
    /\ \A m \in MediaId : file[m] \in req[r].names => m \in req[r].ids

\* An upload that no row names yet belongs to one handler.
InFlight ==
  \A r, s \in Request :
    /\ req[r].newKey = req[s].newKey => r = s \/ req[r].newKey = NONE
    /\ req[r].newKey = req[s].seen => req[r].newKey = NONE
    /\ \A n \in MediaId : req[r].newKey = derived[n] => req[r].newKey = NONE

\* Deleting by fileName hits no other row, however uploads, replacements and
\* deletions overlap: every name is an original, a processed variant or an
\* upload in flight, never two of these (generateFileName,
\* generateProcessedFileName, and the order upload, then row).
NamesNotShared == Originals /\ NamesRead /\ InFlight

\* Processed variants stay in the store whatever happens to their originals,
\* and an upload in flight waits for its row undisturbed (processMedia and
\* uploadMedia against replace, delete, clean-up).
NamedBlobsPresent ==
  /\ \A n \in MediaId : derived[n] \in blobs \cup {NONE}
  /\ \A r \in Request : {req[r].seen, req[r].newKey} \subseteq blobs \cup {NONE}

\* Sliders, employees and office settings never reference a missing media row,
\* also when deletions, clean-ups and image changes overlap (foreign keys of
\* schema.prisma and its migrations).
ReferencesResolve ==
  /\ \A e \in Entity : ref[e] \in Rows \cup {NONE, GONE}
  /\ \A e \in Slider : ref[e] # NONE

Quiescent == \A r \in Request : req[r].pc = "idle"

\* Without sliders, database errors and crashes (storage errors may happen):
\* whenever no request is in flight every row has its blob.
QuiescentRowsHaveBlobs == Quiescent => Bereft = {}

\* One request at a time, no failures, none of clean-up, processing and
\* slider images: when it is over the store holds exactly the rows' blobs.
QuiescentNoLeak == Quiescent => blobs = {file[m] : m \in Rows}

----------------------------------------------------------------------------
(* The library implements the life cycle of its assets. *)

status == [m \in MediaId |-> IF file[m] = NONE THEN "absent"
                             ELSE IF file[m] \in blobs THEN "present" ELSE "bereft"]

Asset == INSTANCE AssetLifecycle WITH status <- status, ref <- ref

\* Every step of every handler is a step of the asset life cycle: rows appear
\* with their file, a deletion takes away rows no slider shows and every
\* reference to them together, and nothing but a new file repairs a row.
ImplementsAssetLifecycle == Asset!Spec

----------------------------------------------------------------------------
(* What documents and comments of the repository say, and the code does not. *)

\* "Find media that are not referenced by any entity"
\* (media.repository.ts, cleanupOrphanedMedia): a clean-up deletes no row that
\* an entity references when the clean-up picks it.
CleanupPicksUnreferenced ==
  [][\A r \in Request : req'[r].op = "cleanup" /\ req[r].op # "cleanup" =>
        \A m \in req'[r].ids : ~ReferencedBy(m, Entity)]_vars

\* "Delete old media if it exists" (slider.service.ts, uploadSliderImage): when
\* no other request interferes and nothing fails, the image a slider had is
\* gone from the library once the new one is shown.
OldSliderImageDeleted ==
  [][\A r \in Request : req[r].op = "setImage" /\ UpdRef(r) =>
        \A m \in req[r].ids : file[m] = NONE]_vars
=============================================================================
