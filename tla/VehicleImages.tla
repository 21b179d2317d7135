--------------------------- MODULE VehicleImages ----------------------------
(***************************************************************************)
(* The galleries of VehiclesService (src/vehicles/vehicles.service.ts):    *)
(* rows of vehicle_images on one side, the files CloudinaryService         *)
(* (src/shared/storage/cloudinary.service.ts) keeps on the other.  No      *)
(* transaction spans the two; a handler writes one, then the other.        *)
(*                                                                         *)
(* Vehicle.images cascades (vehicle.entity.ts, `cascade: true'), so a      *)
(* save() of a vehicle that carries images also stores those images, in    *)
(* its own transaction: one step here.                                     *)
(***************************************************************************)
CONSTANTS
    RequestIds,   \* the requests of the run, each handled once
    Existing,     \* vehicles that may exist at the start
    Links,        \* addresses of images hosted elsewhere, as bodies name them
    Operations,   \* operations the clients of the run use
    Isolation,    \* "none" | "vehicle": see MayStart
    MayFail,      \* may a statement or a call to Cloudinary fail
    Earlier,      \* the past request that made what exists at the start
    None

\* Uuids are never used twice: what a request makes is known by the request.
Makers == RequestIds \cup {Earlier}
Vehicles == RequestIds \cup Existing
Files == Vehicles \X Makers

\* A row of vehicle_images.  Its url names a file (and so has a public_id) or
\* is a link of a body; copy tells apart the rows one request makes.
Row == [vehicle : Vehicles, by : Makers, copy : {1, 2}, url : Links \cup Files]

ASSUME NullAssumption ==
    /\ Earlier \notin RequestIds
    /\ RequestIds \cap Existing = {}
    /\ None \notin Vehicles
    /\ \A list \in SUBSET Links : list # None
    /\ Links \cap Files = {}
ASSUME InputAssumption ==
    /\ Isolation \in {"none", "vehicle"}
    /\ MayFail \in BOOLEAN

VARIABLES
    vehicles,  \* SUBSET Vehicles
    rows,      \* SUBSET Row: vehicle_images
    files,     \* SUBSET Files: the assets at Cloudinary
    requests   \* [RequestIds -> progress of the handler]

vars == <<vehicles, rows, files, requests>>

Ended == {"done", "refused", "failed"}
PcValues == {"idle", "save", "findOld", "deleteAssets", "deleteRows",
             "insertLinks", "deleteVehicle", "upload", "insertImage",
             "deleteRow", "reload"} \cup Ended

Request ==
    [pc : PcValues,                      \* the statement or call to run next
     op : {"none", "create", "update", "remove", "upload", "removeImage"},
     vehicle : Vehicles \cup {None},
     list : {None} \cup SUBSET Links,    \* dto.images, None when not given
     loaded : SUBSET Row,                \* vehicle.images in memory
     assets : SUBSET Files]              \* files left to delete

Idle == [pc |-> "idle", op |-> "none", vehicle |-> None, list |-> None,
         loaded |-> {}, assets |-> {}]

InFlight(r) == requests[r].pc \notin Ended \cup {"idle"}

Images(v) == {w \in rows : w.vehicle = v}
FilesOf(ws) == {w.url : w \in ws} \cap Files
NewRows(v, r, n, urls) ==
    [vehicle : {v}, by : {r}, copy : {n}, url : urls]

-----------------------------------------------------------------------------
\* Some vehicles, each with an uploaded image, an image hosted elsewhere,
\* both or none.
Init ==
    /\ vehicles \in SUBSET Existing
    /\ rows \in SUBSET {w \in Row : /\ w.vehicle \in vehicles
                                    /\ w.by = Earlier /\ w.copy = 1
                                    /\ w.url \in Links \cup {<<w.vehicle, Earlier>>}}
    /\ files = FilesOf(rows)
    /\ requests = [r \in RequestIds |-> Idle]

\* How far requests overlap is the environment's choice: freely, or one
\* request at a time for each vehicle.
MayStart(r, v) ==
    /\ requests[r].pc = "idle"
    /\ Isolation = "vehicle" =>
          \A q \in RequestIds : InFlight(q) => requests[q].vehicle # v

Set(r, q) == requests' = [requests EXCEPT ![r] = q]

\* Of a request that was answered, what it asked for is remembered.
At(q, pc) == IF pc \in Ended THEN [q EXCEPT !.pc = pc, !.loaded = {}, !.assets = {}]
             ELSE [q EXCEPT !.pc = pc]

Goto(r, pc) == Set(r, At(requests[r], pc))

\* A request arrives; one whose first SELECT finds nothing (404) changes
\* nothing and is left out.
Begin(r, op, v, q) ==
    /\ op \in Operations
    /\ MayStart(r, v)
    /\ Set(r, [q EXCEPT !.op = op, !.vehicle = v])
    /\ UNCHANGED <<vehicles, rows, files>>

\* POST /vehicles
Create(r, list) ==
    Begin(r, "create", r, [Idle EXCEPT !.pc = "save", !.list = list])

\* PATCH /vehicles/:id: findOne, with the images
LoadUpdate(r, v, list) ==
    /\ v \in vehicles
    /\ Begin(r, "update", v, [Idle EXCEPT !.pc = "save", !.list = list,
                                          !.loaded = Images(v)])

\* DELETE /vehicles/:id
LoadRemoval(r, v) ==
    /\ v \in vehicles
    /\ Begin(r, "remove", v, [Idle EXCEPT !.pc = "findOld"])

\* POST /vehicles/:id/images/upload
LoadUpload(r, v) ==
    /\ v \in vehicles
    /\ Begin(r, "upload", v, [Idle EXCEPT !.pc = "upload"])

\* DELETE /vehicles/:id/images/:imageId
LoadImageRemoval(r, w) ==
    /\ w \in rows
    /\ Begin(r, "removeImage", w.vehicle,
             [Idle EXCEPT !.pc = "deleteAssets", !.loaded = {w},
                          !.assets = FilesOf({w})])

-----------------------------------------------------------------------------
(***************************************************************************)
(* vehicleRepository.save(vehicle).  The images in memory are those of the *)
(* body, which have no id yet, or those loaded; one whose row is missing   *)
(* is inserted, and so is a vehicle whose row is missing.  A row of the    *)
(* database that is not in memory is orphaned: TypeORM sets its vehicle_id *)
(* to NULL, which the column refuses, and the save is rolled back.         *)
(***************************************************************************)
InMemory(r) ==
    LET q == requests[r]
    IN  IF q.list = None THEN q.loaded ELSE NewRows(q.vehicle, r, 1, q.list)

Orphans(r) == Images(requests[r].vehicle) \ InMemory(r)

AfterSave(q) ==
    IF q.op = "update" /\ q.list # None THEN "findOld"
    ELSE IF q.list \in {None, {}} THEN "reload" ELSE "insertLinks"

SaveVehicle(r) ==
    LET q == requests[r]
    IN  /\ q.pc = "save" /\ Orphans(r) = {}
        /\ vehicles' = vehicles \cup {q.vehicle}
        /\ rows' = rows \cup InMemory(r)
        /\ Goto(r, AfterSave(q))
        /\ UNCHANGED files

\* Mutant: a removal leaves the files to the cascade.
FindOldNone(r) ==
    /\ requests[r].pc = "findOld"
    /\ Goto(r, "deleteAssets")
    /\ UNCHANGED <<vehicles, rows, files>>

\* update and remove: the rows whose files go first
FindOld(r) ==
    LET q == requests[r]
    IN  /\ q.pc = "findOld"
        /\ Set(r, [q EXCEPT !.assets = FilesOf(Images(q.vehicle)),
                            !.pc = "deleteAssets"])
        /\ UNCHANGED <<vehicles, rows, files>>

\* cloudinaryService.deleteAsset, one call for each; a file that is not there
\* is no error
DeleteAssets(r) ==
    LET q == requests[r]
        next == CASE q.op = "update" -> "deleteRows"
                  [] q.op = "remove" -> "deleteVehicle"
                  [] OTHER -> "deleteRow"
    IN  /\ q.pc = "deleteAssets"
        /\ \/ q.assets = {} /\ Goto(r, next) /\ UNCHANGED files
           \/ \E f \in q.assets :
                 /\ files' = files \ {f}
                 /\ Set(r, [q EXCEPT !.assets = @ \ {f}])
        /\ UNCHANGED <<vehicles, rows>>

\* update: imageRepository.delete({ vehicleId })
DeleteRows(r) ==
    LET q == requests[r]
    IN  /\ q.pc = "deleteRows"
        /\ rows' = rows \ Images(q.vehicle)
        /\ Goto(r, IF q.list = {} THEN "reload" ELSE "insertLinks")
        /\ UNCHANGED <<vehicles, files>>

\* create and update: imageRepository.save of the links of the body
InsertLinks(r) ==
    LET q == requests[r]
    IN  /\ q.pc = "insertLinks" /\ q.vehicle \in vehicles
        /\ rows' = rows \cup NewRows(q.vehicle, r, 2, q.list)
        /\ Goto(r, "reload")
        /\ UNCHANGED <<vehicles, files>>

\* create and update: the findOne of the answer
Reload(r) ==
    /\ requests[r].pc = "reload"
    /\ Goto(r, IF requests[r].vehicle \in vehicles THEN "done" ELSE "refused")
    /\ UNCHANGED <<vehicles, rows, files>>

\* Mutant: no cascade.
DeleteVehicleKeepsRows(r) ==
    /\ requests[r].pc = "deleteVehicle"
    /\ vehicles' = vehicles \ {requests[r].vehicle}
    /\ Goto(r, "done")
    /\ UNCHANGED <<rows, files>>

\* ON DELETE CASCADE on the rows
DeleteVehicle(r) ==
    LET v == requests[r].vehicle
    IN  /\ requests[r].pc = "deleteVehicle"
        /\ vehicles' = vehicles \ {v}
        /\ rows' = rows \ Images(v)
        /\ Goto(r, "done")
        /\ UNCHANGED files

NewFile(r) == <<requests[r].vehicle, r>>

\* cloudinaryService.uploadVehicleImage
Upload(r) ==
    /\ requests[r].pc = "upload"
    /\ files' = files \cup {NewFile(r)}
    /\ Goto(r, "insertImage")
    /\ UNCHANGED <<vehicles, rows>>

InsertImage(r) ==
    LET v == requests[r].vehicle
    IN  /\ requests[r].pc = "insertImage" /\ v \in vehicles
        /\ rows' = rows \cup NewRows(v, r, 1, {NewFile(r)})
        /\ Goto(r, "done")
        /\ UNCHANGED <<vehicles, files>>

\* Mutant: the DELETE matches no row.
DeleteRowMisses(r) ==
    /\ requests[r].pc = "deleteRow"
    /\ Goto(r, "done")
    /\ UNCHANGED <<vehicles, rows, files>>

\* removeImage: imageRepository.delete({ id })
DeleteRow(r) ==
    /\ requests[r].pc = "deleteRow"
    /\ rows' = rows \ requests[r].loaded
    /\ Goto(r, "done")
    /\ UNCHANGED <<vehicles, files>>

-----------------------------------------------------------------------------
\* A constraint refuses the statement: NOT NULL in save(), the foreign key in
\* an INSERT for a vehicle that is gone.  The answer is a 500.
Refuse(r) ==
    LET q == requests[r]
    IN  /\ \/ q.pc = "save" /\ Orphans(r) # {}
           \/ q.pc \in {"insertLinks", "insertImage"} /\ q.vehicle \notin vehicles
        /\ Goto(r, "refused")
        /\ UNCHANGED <<vehicles, rows, files>>

\* A statement or a call fails; a call to Cloudinary may have done its work.
Fail(r) ==
    /\ MayFail /\ InFlight(r)
    /\ Goto(r, "failed")
    /\ CASE requests[r].pc = "upload" -> files' \in {files, files \cup {NewFile(r)}}
         [] requests[r].pc = "deleteAssets" ->
               files' \in {files} \cup {files \ {f} : f \in requests[r].assets}
         [] OTHER -> UNCHANGED files
    /\ UNCHANGED <<vehicles, rows>>

\* Every request was answered, and the clients have no more.
Quiet == (\A r \in RequestIds : ~InFlight(r)) /\ UNCHANGED vars

Start(r) ==
    \/ \E list \in {None} \cup SUBSET Links :
          Create(r, list) \/ \E v \in vehicles : LoadUpdate(r, v, list)
    \/ \E v \in vehicles : LoadRemoval(r, v) \/ LoadUpload(r, v)
    \/ \E w \in rows : LoadImageRemoval(r, w)

Step(r) ==
    \/ SaveVehicle(r) \/ FindOld(r) \/ DeleteAssets(r) \/ DeleteRows(r)
    \/ InsertLinks(r) \/ Reload(r) \/ DeleteVehicle(r) \/ Upload(r)
    \/ InsertImage(r) \/ DeleteRow(r) \/ Refuse(r) \/ Fail(r)

Next == (\E r \in RequestIds : Start(r) \/ Step(r)) \/ Quiet

Spec == Init /\ [][Next]_vars

-----------------------------------------------------------------------------
\* With the foreign key of vehicle_images.
TypeOK ==
    /\ vehicles \subseteq Vehicles
    /\ rows \subseteq {w \in Row : w.vehicle \in vehicles}
    /\ files \subseteq Files
    /\ requests \in [RequestIds -> Request]

(***************************************************************************)
(* No file is left at Cloudinary without a row that leads to it, unless    *)
(* the upload that made it has not stored its row, or failed to.  A        *)
(* removal that fails half-way can be asked again: the rows go last        *)
(* (removeImage, remove).                                                  *)
(***************************************************************************)
OrphansFromUploads ==
    \A f \in files \ FilesOf(rows) :
        \E r \in RequestIds :
            f = NewFile(r) /\ requests[r].pc \in {"insertImage", "failed"}

(***************************************************************************)
(* A gallery only shows a file that is gone while a removal is under way,  *)
(* or after one failed (a file goes before its row).                       *)
(***************************************************************************)
DanglingFromRemovals ==
    \A w \in rows : w.url \in Files \ files =>
        \E r \in RequestIds :
            /\ requests[r].vehicle = w.vehicle
            /\ requests[r].op \in {"update", "remove", "removeImage"}
            /\ requests[r].pc \notin {"done", "refused"}

(***************************************************************************)
(* Line 121: "Full replacement simplifies synchronization with frontend    *)
(* forms.": an update with images that comes to its end on a vehicle that  *)
(* is there leaves the gallery with those images and no other, whatever    *)
(* the gallery held before.                                                *)
(***************************************************************************)
ReplacesGallery ==
    [][\A r \in RequestIds :
          LET q == requests[r]
          IN  /\ q.op = "update" /\ q.list # None /\ q.vehicle \in vehicles'
              /\ InFlight(r) /\ requests'[r].pc \in Ended
              => {w.url : w \in Images(q.vehicle)}' = q.list]_vars

=============================================================================
