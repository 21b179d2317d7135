------------------------ MODULE VehicleImagesProofs -------------------------
(***************************************************************************)
(* Proofs about VehicleImages, for every number of requests, vehicles and  *)
(* images.                                                                 *)
(***************************************************************************)
EXTENDS VehicleImages, TLAPS

(***************************************************************************)
(* Which handler a request in each phase runs, and what it remembers: the  *)
(* rows in memory are of its vehicle, and a replacement has a list.        *)
(***************************************************************************)
OpsAt(pc) ==
    CASE pc \in {"save", "insertLinks", "reload"} -> {"create", "update"}
      [] pc = "findOld"       -> {"update", "remove"}
      [] pc = "deleteAssets"  -> {"update", "remove", "removeImage"}
      [] pc = "deleteRows"    -> {"update"}
      [] pc = "deleteVehicle" -> {"remove"}
      [] pc = "deleteRow"     -> {"removeImage"}
      [] pc \in {"upload", "insertImage"} -> {"upload"}
      [] OTHER -> {"none", "create", "update", "remove", "upload", "removeImage"}

Shape(q) ==
    /\ q \in Request
    /\ q.pc # "idle" => q.vehicle \in Vehicles
    /\ \A w \in q.loaded : w.vehicle = q.vehicle
    /\ q.op \in OpsAt(q.pc)
    /\ q.pc = "insertLinks" => q.list # None
    /\ q.pc \in {"findOld", "deleteAssets", "deleteRows"} /\ q.op = "update"
          => q.list # None

TypeInv ==
    /\ TypeOK
    /\ \A r \in RequestIds : Shape(requests[r])

LEMMA IdleShape == Shape(Idle)
  BY DEF Shape, Idle, Request, PcValues, Ended, OpsAt

\* Rows a request makes are rows of its vehicle.
LEMMA NewRowsType ==
    ASSUME NEW v \in Vehicles, NEW r \in RequestIds, NEW n \in {1, 2},
           NEW urls \in SUBSET (Links \cup Files)
    PROVE  NewRows(v, r, n, urls) \subseteq {w \in Row : w.vehicle = v}
  BY DEF NewRows, Row, Makers

\* Going on at another phase.
LEMMA AtShape ==
    ASSUME NEW q, Shape(q), NEW pc \in PcValues, q.pc # "idle", pc # "idle",
           q.op \in OpsAt(pc),
           pc = "insertLinks" => q.list # None,
           pc \in {"findOld", "deleteAssets", "deleteRows"} /\ q.op = "update"
              => q.list # None
    PROVE  /\ Shape(At(q, pc))
           /\ At(q, pc).pc = pc /\ At(q, pc).op = q.op
           /\ At(q, pc).vehicle = q.vehicle /\ At(q, pc).list = q.list
           /\ pc \notin Ended => At(q, pc).loaded = q.loaded
                                 /\ At(q, pc).assets = q.assets
  BY DEF Shape, At, Request

\* The record of one request is replaced by a well-shaped one.
LEMMA OneRequest ==
    ASSUME TypeInv, NEW r \in RequestIds, NEW q, Shape(q), Set(r, q),
           vehicles' \subseteq Vehicles,
           rows' \subseteq {w \in Row : w.vehicle \in vehicles'},
           files' \subseteq Files
    PROVE  TypeInv'
<1>1. /\ requests'[r] = q
      /\ \A o \in RequestIds \ {r} : requests'[o] = requests[o]
      /\ requests' \in [RequestIds -> Request]
  BY DEF Set, TypeInv, TypeOK, Shape
<1>2. \A o \in RequestIds : Shape(requests'[o])
  BY <1>1 DEF TypeInv
<1> QED BY <1>1, <1>2 DEF TypeInv, TypeOK

LEMMA InitTypeInv == Init => TypeInv
<1> SUFFICES ASSUME Init PROVE TypeInv
  OBVIOUS
<1>1. files \subseteq Files /\ vehicles \subseteq Vehicles
  BY DEF Init, FilesOf, Vehicles
<1>2. \A r \in RequestIds : requests[r] = Idle
  BY DEF Init
<1>3. requests \in [RequestIds -> Request]
  BY IdleShape DEF Init, Shape
<1> QED BY <1>1, <1>2, <1>3, IdleShape DEF TypeInv, TypeOK, Init

LEMMA BeginTypeInv ==
    ASSUME TypeInv, NEW r \in RequestIds, NEW op, NEW v \in Vehicles,
           NEW q \in Request, Begin(r, op, v, q),
           q.pc \in {"save", "findOld", "upload", "deleteAssets"},
           op \in OpsAt(q.pc), q.pc \in {"findOld", "deleteAssets"} => op # "update",
           \A w \in q.loaded : w.vehicle = v
    PROVE  TypeInv'
<1> DEFINE p == [q EXCEPT !.op = op, !.vehicle = v]
<1>1. OpsAt(q.pc) \subseteq {"none", "create", "update", "remove", "upload",
                            "removeImage"}
  BY DEF OpsAt
<1>2. Shape(p)
  BY <1>1 DEF Shape, Request
<1> QED BY <1>2, OneRequest DEF Begin, TypeInv, TypeOK

LEMMA StartTypeInv ==
    ASSUME TypeInv, NEW r \in RequestIds, Start(r)
    PROVE  TypeInv'
<1>1. Idle \in Request /\ Idle.loaded = {}
  BY IdleShape DEF Shape, Idle
<1>2. ASSUME NEW list \in {None} \cup SUBSET Links, Create(r, list) PROVE TypeInv'
  <2> DEFINE q == [Idle EXCEPT !.pc = "save", !.list = list]
  <2>1. q \in Request /\ q.pc = "save" /\ q.loaded = {}
    BY DEF Idle, Request, PcValues
  <2>2. Begin(r, "create", r, q) /\ r \in Vehicles
    BY <1>2 DEF Create, Vehicles
  <2>3. "create" \in OpsAt("save")
    BY DEF OpsAt
  <2> QED BY <2>1, <2>2, <2>3, BeginTypeInv
<1>3. ASSUME NEW list \in {None} \cup SUBSET Links, NEW v \in vehicles,
             LoadUpdate(r, v, list)
      PROVE  TypeInv'
  <2> DEFINE q == [Idle EXCEPT !.pc = "save", !.list = list, !.loaded = Images(v)]
  <2>1. Images(v) \subseteq Row /\ v \in Vehicles
    BY DEF Images, TypeInv, TypeOK
  <2>2. q \in Request /\ q.pc = "save" /\ q.loaded = Images(v)
    BY <2>1 DEF Idle, Request, PcValues
  <2>3. Begin(r, "update", v, q)
    BY <1>3 DEF LoadUpdate
  <2>4. "update" \in OpsAt("save")
    BY DEF OpsAt
  <2> QED BY <2>1, <2>2, <2>3, <2>4, BeginTypeInv DEF Images
<1>4. ASSUME NEW v \in vehicles, LoadRemoval(r, v) PROVE TypeInv'
  <2> DEFINE q == [Idle EXCEPT !.pc = "findOld"]
  <2>1. q \in Request /\ q.pc = "findOld" /\ q.loaded = {}
    BY DEF Idle, Request, PcValues
  <2>2. "remove" \in OpsAt("findOld") /\ v \in Vehicles
    BY DEF OpsAt, TypeInv, TypeOK
  <2> QED BY <1>4, <2>1, <2>2, BeginTypeInv DEF LoadRemoval
<1>5. ASSUME NEW v \in vehicles, LoadUpload(r, v) PROVE TypeInv'
  <2> DEFINE q == [Idle EXCEPT !.pc = "upload"]
  <2>1. q \in Request /\ q.pc = "upload" /\ q.loaded = {}
    BY DEF Idle, Request, PcValues
  <2>2. "upload" \in OpsAt("upload") /\ v \in Vehicles
    BY DEF OpsAt, TypeInv, TypeOK
  <2> QED BY <1>5, <2>1, <2>2, BeginTypeInv DEF LoadUpload
<1>6. ASSUME NEW w \in rows, LoadImageRemoval(r, w) PROVE TypeInv'
  <2> DEFINE q == [Idle EXCEPT !.pc = "deleteAssets", !.loaded = {w},
                               !.assets = FilesOf({w})]
  <2>1. w \in Row /\ w.vehicle \in Vehicles /\ FilesOf({w}) \subseteq Files
    BY DEF TypeInv, TypeOK, FilesOf
  <2>2. q \in Request /\ q.pc = "deleteAssets" /\ q.loaded = {w}
    BY <2>1 DEF Idle, Request, PcValues
  <2>3. "removeImage" \in OpsAt("deleteAssets")
    BY DEF OpsAt
  <2>4. Begin(r, "removeImage", w.vehicle, q)
    BY <1>6 DEF LoadImageRemoval
  <2> QED BY <2>1, <2>2, <2>3, <2>4, BeginTypeInv
<1> QED BY <1>2, <1>3, <1>4, <1>5, <1>6 DEF Start

-----------------------------------------------------------------------------
LEMMA GotoTypeInv ==
    ASSUME TypeInv, NEW r \in RequestIds, NEW pc \in PcValues,
           requests[r].pc # "idle", pc # "idle", Goto(r, pc),
           requests[r].op \in OpsAt(pc),
           pc = "insertLinks" => requests[r].list # None,
           pc \in {"findOld", "deleteAssets", "deleteRows"}
              /\ requests[r].op = "update" => requests[r].list # None,
           vehicles' \subseteq Vehicles,
           rows' \subseteq {w \in Row : w.vehicle \in vehicles'},
           files' \subseteq Files
    PROVE  TypeInv'
<1>1. Shape(requests[r])
  BY DEF TypeInv
<1>2. Shape(At(requests[r], pc))
  BY <1>1, AtShape
<1> QED BY <1>2, OneRequest DEF Goto

\* A handler may end whatever it did.
LEMMA EndOps ==
    ASSUME TypeInv, NEW r \in RequestIds
    PROVE  \A pc \in Ended : pc \in PcValues /\ pc # "idle"
                             /\ requests[r].op \in OpsAt(pc)
<1>1. requests[r].op \in {"none", "create", "update", "remove", "upload",
                          "removeImage"}
  BY DEF TypeInv, Shape, Request
<1> QED BY <1>1 DEF Ended, PcValues, OpsAt

\* What a request in flight works on is typed.
LEMMA RequestType ==
    ASSUME TypeInv, NEW r \in RequestIds
    PROVE  /\ requests[r] \in Request
           /\ requests[r].pc # "idle" => requests[r].vehicle \in Vehicles
           /\ requests[r].list \in {None} \cup SUBSET Links
           /\ requests[r].loaded \subseteq
                 {w \in Row : w.vehicle = requests[r].vehicle}
           /\ requests[r].assets \subseteq Files
           /\ requests[r].op \in OpsAt(requests[r].pc)
  BY DEF TypeInv, Shape, Request

\* NullAssumption: no list of a body is None.
LEMMA InMemoryType ==
    ASSUME TypeInv, NEW r \in RequestIds, requests[r].pc = "save"
    PROVE  InMemory(r) \subseteq {w \in Row : w.vehicle = requests[r].vehicle}
<1>1. CASE requests[r].list = None
  BY <1>1, RequestType DEF InMemory
<1>2. CASE requests[r].list # None
  <2>1. requests[r].list \in SUBSET (Links \cup Files)
    BY <1>2, RequestType
  <2> QED BY <1>2, <2>1, RequestType, NewRowsType DEF InMemory
<1> QED BY <1>1, <1>2

LEMMA SaveTypeInv ==
    ASSUME TypeInv, NEW r \in RequestIds, SaveVehicle(r)
    PROVE  TypeInv'
<1> DEFINE q == requests[r]
           pc == AfterSave(q)
<1>1. q.pc = "save" /\ q.op \in {"create", "update"} /\ q.vehicle \in Vehicles
  BY RequestType DEF SaveVehicle, OpsAt
<1>2. /\ pc \in PcValues /\ pc # "idle" /\ q.op \in OpsAt(pc)
      /\ pc = "insertLinks" => q.list # None
      /\ pc \in {"findOld", "deleteAssets", "deleteRows"} => q.list # None
  BY <1>1 DEF AfterSave, PcValues, OpsAt
<1>3. /\ vehicles' = vehicles \cup {q.vehicle} /\ rows' = rows \cup InMemory(r)
      /\ files' = files /\ Goto(r, pc)
  BY DEF SaveVehicle
<1>4. rows' \subseteq {w \in Row : w.vehicle \in vehicles'}
  BY <1>1, <1>3, InMemoryType DEF TypeInv, TypeOK
<1> QED BY <1>1, <1>2, <1>3, <1>4, GotoTypeInv DEF TypeInv, TypeOK

LEMMA FindOldTypeInv ==
    ASSUME TypeInv, NEW r \in RequestIds, FindOld(r)
    PROVE  TypeInv'
<1> DEFINE q == requests[r]
           p == [q EXCEPT !.assets = FilesOf(Images(q.vehicle)),
                          !.pc = "deleteAssets"]
<1>1. q.pc = "findOld" /\ q.op \in {"update", "remove"} /\ Shape(q)
  BY RequestType DEF FindOld, OpsAt, TypeInv
<1>2. FilesOf(Images(q.vehicle)) \subseteq Files
  BY DEF FilesOf
<1>3. Shape(p)
  BY <1>1, <1>2 DEF Shape, Request, PcValues, OpsAt
<1> QED BY <1>3, OneRequest DEF FindOld, TypeInv, TypeOK

LEMMA DeleteAssetsTypeInv ==
    ASSUME TypeInv, NEW r \in RequestIds, DeleteAssets(r)
    PROVE  TypeInv'
<1> DEFINE q == requests[r]
           next == CASE q.op = "update" -> "deleteRows"
                     [] q.op = "remove" -> "deleteVehicle"
                     [] OTHER -> "deleteRow"
<1>1. /\ q.pc = "deleteAssets" /\ q.op \in {"update", "remove", "removeImage"}
      /\ Shape(q)
  BY RequestType DEF DeleteAssets, OpsAt, TypeInv
<1>2. /\ next \in PcValues /\ next # "idle" /\ q.op \in OpsAt(next)
      /\ next \notin {"insertLinks", "findOld", "deleteAssets"}
      /\ next = "deleteRows" => q.list # None
  BY <1>1 DEF PcValues, OpsAt, Shape
<1>3. CASE Goto(r, next) /\ UNCHANGED files
  BY <1>1, <1>2, <1>3, GotoTypeInv DEF DeleteAssets, TypeInv, TypeOK
<1>4. ASSUME NEW f \in q.assets, files' = files \ {f},
             Set(r, [q EXCEPT !.assets = @ \ {f}])
      PROVE  TypeInv'
  <2>1. Shape([q EXCEPT !.assets = @ \ {f}])
    BY <1>1 DEF Shape, Request, OpsAt
  <2> QED BY <1>4, <2>1, OneRequest DEF DeleteAssets, TypeInv, TypeOK
<1> QED BY <1>3, <1>4 DEF DeleteAssets

LEMMA StepTypeInv ==
    ASSUME TypeInv, NEW r \in RequestIds, Step(r)
    PROVE  TypeInv'
<1> DEFINE q == requests[r]
<1> USE EndOps, RequestType
<1>1. CASE SaveVehicle(r)
  BY <1>1, SaveTypeInv
<1>2. CASE FindOld(r)
  BY <1>2, FindOldTypeInv
<1>3. CASE DeleteAssets(r)
  BY <1>3, DeleteAssetsTypeInv
<1>4. CASE DeleteRows(r)
  <2> DEFINE pc == IF q.list = {} THEN "reload" ELSE "insertLinks"
  <2>1. q.pc = "deleteRows" /\ q.op = "update" /\ q.list # None
    BY <1>4 DEF DeleteRows, OpsAt, TypeInv, Shape
  <2>2. /\ pc \in PcValues /\ pc \in {"reload", "insertLinks"}
        /\ q.op \in OpsAt(pc)
    BY <2>1 DEF PcValues, OpsAt
  <2> QED BY <1>4, <2>1, <2>2, GotoTypeInv DEF DeleteRows, TypeInv, TypeOK
<1>5. CASE InsertLinks(r)
  <2>1. /\ q.pc = "insertLinks" /\ q.op \in {"create", "update"}
        /\ q.list \in SUBSET (Links \cup Files) /\ q.vehicle \in vehicles
        /\ rows' = rows \cup NewRows(q.vehicle, r, 2, q.list)
    BY <1>5 DEF InsertLinks, OpsAt, TypeInv, Shape
  <2>2. NewRows(q.vehicle, r, 2, q.list) \subseteq
           {w \in Row : w.vehicle = q.vehicle}
    BY <2>1, NewRowsType
  <2>3. "reload" \in PcValues /\ q.op \in OpsAt("reload")
    BY <2>1 DEF PcValues, OpsAt
  <2> QED BY <1>5, <2>1, <2>2, <2>3, GotoTypeInv DEF InsertLinks, TypeInv, TypeOK
<1>6. CASE Reload(r)
  BY <1>6, GotoTypeInv DEF Reload, TypeInv, TypeOK, Ended
<1>7. CASE DeleteVehicle(r)
  <2>1. rows' \subseteq {w \in Row : w.vehicle \in vehicles'}
    BY <1>7 DEF DeleteVehicle, Images, TypeInv, TypeOK
  <2> QED BY <1>7, <2>1, GotoTypeInv DEF DeleteVehicle, TypeInv, TypeOK, Ended
<1>8. CASE Upload(r)
  <2>1. q.pc = "upload" /\ q.op = "upload" /\ NewFile(r) \in Files
    BY <1>8 DEF Upload, OpsAt, NewFile, Files, Makers
  <2>2. "insertImage" \in PcValues /\ q.op \in OpsAt("insertImage")
    BY <2>1 DEF PcValues, OpsAt
  <2> QED BY <1>8, <2>1, <2>2, GotoTypeInv DEF Upload, TypeInv, TypeOK
<1>9. CASE InsertImage(r)
  <2>1. q.pc = "insertImage" /\ NewFile(r) \in Files
    BY <1>9 DEF InsertImage, NewFile, Files, Makers
  <2>2. NewRows(q.vehicle, r, 1, {NewFile(r)}) \subseteq
           {w \in Row : w.vehicle = q.vehicle}
    BY <2>1, NewRowsType
  <2> QED BY <1>9, <2>1, <2>2, GotoTypeInv DEF InsertImage, TypeInv, TypeOK, Ended
<1>10. CASE DeleteRow(r)
  BY <1>10, GotoTypeInv DEF DeleteRow, TypeInv, TypeOK, Ended
<1>11. CASE Refuse(r)
  BY <1>11, GotoTypeInv DEF Refuse, TypeInv, TypeOK, Ended
<1>12. CASE Fail(r)
  <2>1. files' \subseteq Files
    BY <1>12 DEF Fail, NewFile, Files, Makers, InFlight, TypeInv, TypeOK
  <2> QED BY <1>12, <2>1, GotoTypeInv DEF Fail, InFlight, TypeInv, TypeOK, Ended
<1> QED BY <1>1, <1>2, <1>3, <1>4, <1>5, <1>6, <1>7, <1>8, <1>9, <1>10,
           <1>11, <1>12 DEF Step

LEMMA NextTypeInv == TypeInv /\ [Next]_vars => TypeInv'
<1> SUFFICES ASSUME TypeInv, [Next]_vars PROVE TypeInv'
  OBVIOUS
<1>1. CASE UNCHANGED vars
  BY <1>1 DEF vars, TypeInv, TypeOK, Shape
<1>2. ASSUME NEW r \in RequestIds, Start(r) PROVE TypeInv'
  BY <1>2, StartTypeInv
<1>3. ASSUME NEW r \in RequestIds, Step(r) PROVE TypeInv'
  BY <1>3, StepTypeInv
<1> QED BY <1>1, <1>2, <1>3 DEF Next, Quiet

LEMMA TypeInvHolds == Spec => []TypeInv
  BY InitTypeInv, NextTypeInv, PTL DEF Spec

(***************************************************************************)
(* However requests overlap, whatever fails: a row of vehicle_images is    *)
(* always of a vehicle that exists, and every handler keeps to its phases. *)
(***************************************************************************)
THEOREM TypeCorrect == Spec => []TypeOK
<1>1. TypeInv => TypeOK
  BY DEF TypeInv
<1> QED BY <1>1, TypeInvHolds, PTL

-----------------------------------------------------------------------------
(***************************************************************************)
(* When requests about one vehicle do not overlap, the rows and the files  *)
(* are related at every phase.  An uploaded file has one row at most, of   *)
(* the vehicle and the request that uploaded it.                           *)
(***************************************************************************)
Named(w) == w.url \in Files => w.url = <<w.vehicle, w.by>> /\ w.copy = 1

Alone ==
    \A r, o \in RequestIds :
        InFlight(r) /\ InFlight(o) /\ requests[r].vehicle = requests[o].vehicle
           => r = o

\* What a removal of the rows ws has left to delete: a file goes before its row.
Removal(q, ws) ==
    /\ q.pc = "deleteAssets" => FilesOf(ws) \cap files \subseteq q.assets
    /\ q.pc \in {"deleteRows", "deleteVehicle", "deleteRow"}
          => FilesOf(ws) \cap files = {}

Holds(r) ==
    LET q == requests[r]
        v == q.vehicle
    IN  /\ (q.op = "create" /\ q.pc = "save") \/ v \in vehicles
        /\ q.assets \subseteq {v} \X Makers
        /\ \A w \in q.loaded : Named(w)
        /\ q.pc = "save" => q.loaded = IF q.op = "update" THEN Images(v) ELSE {}
        /\ q.op \in {"update", "remove"} => Removal(q, Images(v))
        /\ q.op = "removeImage" => /\ Removal(q, q.loaded)
                                   /\ \E w \in Row : q.loaded = {w}
                                   /\ q.assets \subseteq FilesOf(q.loaded)
        /\ q.pc = "insertImage" => NewFile(r) \in files

\* The removal that explains a row whose file is gone.
Removes(r, w) ==
    LET q == requests[r]
    IN  /\ q.vehicle = w.vehicle
        /\ q.op \in {"update", "remove", "removeImage"}
        /\ \/ q.pc = "failed"
           \/ /\ q.pc \in {"deleteAssets", "deleteRows", "deleteVehicle", "deleteRow"}
              /\ q.op = "removeImage" => w \in q.loaded

Explained ==
    \A w \in rows : w.url \in Files \ files => \E r \in RequestIds : Removes(r, w)

GalleryInv ==
    /\ TypeInv
    /\ Alone
    /\ \A w \in rows : Named(w)
    /\ \A r \in RequestIds : InFlight(r) => Holds(r)
    /\ OrphansFromUploads
    /\ Explained

\* What a step of a handler may do: to its own vehicle only, files before rows.
Effect(r) ==
    LET q == requests[r]
        p == requests'[r]
        v == q.vehicle
    IN  /\ InFlight(r)
        /\ \A o \in RequestIds \ {r} : requests'[o] = requests[o]
        /\ p.op = q.op /\ p.vehicle = v /\ p.list = q.list
        /\ \A w \in Row : w.vehicle # v => (w \in rows' <=> w \in rows)
        /\ \A f \in Files : f \notin {v} \X Makers => (f \in files' <=> f \in files)
        /\ \A u : u # v => (u \in vehicles' <=> u \in vehicles)
        /\ \A f \in files' \ files :
              f = NewFile(r) /\ p.pc \in {"insertImage", "failed"}
        /\ \A f \in files \ files' :
              /\ q.pc = "deleteAssets" /\ f \in q.assets
              /\ p.pc = "failed" \/ (p.pc = "deleteAssets" /\ p.loaded = q.loaded)
        /\ \A w \in rows' \ rows : Named(w) /\ w.url \notin Files \ files'
        /\ \A w \in rows \ rows' : w.url \notin files
        /\ q.pc = "insertImage" => p.pc = "failed" \/ NewFile(r) \in FilesOf(rows')
        /\ \A w \in rows' : Removes(r, w) => Removes(r, w)'
        /\ InFlight(r)' => Holds(r)'

\* The requests after a handler goes on at pc.
LEMMA GotoEffect ==
    ASSUME TypeInv, NEW r \in RequestIds, NEW pc, Goto(r, pc)
    PROVE  /\ \A o \in RequestIds \ {r} : requests'[o] = requests[o]
           /\ requests'[r].pc = pc
           /\ requests'[r].op = requests[r].op
           /\ requests'[r].vehicle = requests[r].vehicle
           /\ requests'[r].list = requests[r].list
           /\ pc \notin Ended => /\ requests'[r].loaded = requests[r].loaded
                                 /\ requests'[r].assets = requests[r].assets
  BY DEF TypeInv, TypeOK, Goto, Set, At, Request

\* The files of rows that are named are files of their vehicle.
LEMMA NamedFiles ==
    ASSUME NEW v, NEW ws \in SUBSET Row,
           \A w \in ws : Named(w) /\ w.vehicle = v
    PROVE  FilesOf(ws) \subseteq {v} \X Makers
  BY DEF Named, FilesOf, Row

LEMMA OthersHold ==
    ASSUME GalleryInv, TypeInv', NEW r \in RequestIds, Effect(r),
           NEW o \in RequestIds \ {r}, InFlight(o)
    PROVE  Holds(o)'
<1> DEFINE q == requests[o]
           v == q.vehicle
<1>1. requests'[o] = q /\ v # requests[r].vehicle /\ v \in Vehicles
  BY RequestType DEF GalleryInv, Alone, Effect, InFlight
<1>2. Images(v)' = Images(v) /\ Images(v) \subseteq Row /\ q.loaded \subseteq Row
  <2>1. rows \subseteq Row /\ rows' \subseteq Row
    BY DEF GalleryInv, TypeInv, TypeOK
  <2>2. \A w \in Row : w.vehicle = v => (w \in rows' <=> w \in rows)
    BY <1>1 DEF Effect
  <2>3. q.loaded \subseteq Row
    BY RequestType DEF GalleryInv
  <2> QED BY <1>1, <2>1, <2>2, <2>3 DEF Images
<1>3. Holds(o)
  BY DEF GalleryInv
<1>4. /\ FilesOf(Images(v)) \subseteq {v} \X Makers
      /\ FilesOf(q.loaded) \subseteq {v} \X Makers
  <2>1. \A w \in Images(v) : Named(w) /\ w.vehicle = v
    BY DEF GalleryInv, Images
  <2>2. \A w \in q.loaded : Named(w) /\ w.vehicle = v
    BY <1>3, RequestType DEF Holds, GalleryInv
  <2> QED BY <1>2, <2>1, <2>2, NamedFiles
<1>5. \A f \in {v} \X Makers : f \in files' <=> f \in files
  <2>1. ASSUME NEW f \in {v} \X Makers PROVE f \in files' <=> f \in files
    <3>1. f \in Files /\ f \notin {requests[r].vehicle} \X Makers
      BY <1>1 DEF Files
    <3> QED BY <3>1 DEF Effect
  <2> QED BY <2>1
<1>6. /\ FilesOf(Images(v)) \cap files' = FilesOf(Images(v)) \cap files
      /\ FilesOf(q.loaded) \cap files' = FilesOf(q.loaded) \cap files
      /\ NewFile(o) \in files => NewFile(o) \in files'
  BY <1>4, <1>5 DEF NewFile, Makers
<1>7. v \in vehicles' <=> v \in vehicles
  BY <1>1 DEF Effect
<1>8. /\ NewFile(o)' = NewFile(o)
      /\ FilesOf(Images(v))' = FilesOf(Images(v))
      /\ FilesOf(q.loaded)' = FilesOf(q.loaded)
  BY <1>1, <1>2 DEF NewFile, FilesOf
<1> QED BY <1>1, <1>2, <1>3, <1>6, <1>7, <1>8 DEF Holds, Removal

LEMMA EffectGallery ==
    ASSUME GalleryInv, TypeInv', NEW r \in RequestIds, Effect(r)
    PROVE  GalleryInv'
<1>1. \A o \in RequestIds : InFlight(o)' => InFlight(o)
      /\ requests'[o].vehicle = requests[o].vehicle
  BY DEF Effect, InFlight
<1>2. Alone'
  BY <1>1 DEF GalleryInv, Alone
<1>3. (\A w \in rows : Named(w))'
  BY DEF GalleryInv, Effect, Named
<1>4. (\A o \in RequestIds : InFlight(o) => Holds(o))'
  BY <1>1, OthersHold DEF Effect
<1>5. OrphansFromUploads'
  <2> SUFFICES ASSUME NEW f \in files', f \notin FilesOf(rows')
               PROVE  \E o \in RequestIds :
                         /\ f = <<requests'[o].vehicle, o>>
                         /\ requests'[o].pc \in {"insertImage", "failed"}
    BY DEF OrphansFromUploads, FilesOf, NewFile
  <2>1. CASE f \notin files
    BY <2>1 DEF Effect, NewFile
  <2>2. CASE f \in files /\ f \in FilesOf(rows)
    <3>1. PICK w \in rows : w.url = f
      BY <2>2 DEF FilesOf
    <3>2. w \in rows'
      BY <2>2, <3>1 DEF Effect
    <3>3. f \in Files
      BY <2>2 DEF GalleryInv, TypeInv, TypeOK
    <3> QED BY <3>1, <3>2, <3>3 DEF FilesOf
  <2>3. CASE f \in files /\ f \notin FilesOf(rows)
    <3>1. PICK o \in RequestIds :
             f = NewFile(o) /\ requests[o].pc \in {"insertImage", "failed"}
      BY <2>3 DEF GalleryInv, OrphansFromUploads
    <3>2. CASE o # r
      BY <3>1, <3>2 DEF Effect, NewFile
    <3>3. CASE o = r
      BY <3>1, <3>3 DEF Effect, NewFile, InFlight, Ended
    <3> QED BY <3>2, <3>3
  <2> QED BY <2>1, <2>2, <2>3
<1>6. Explained'
  <2> SUFFICES ASSUME NEW w \in rows', w.url \in Files \ files'
               PROVE  \E o \in RequestIds : Removes(o, w)'
    BY DEF Explained
  <2>1. w \in rows /\ Named(w) /\ w \in Row
    BY DEF Effect, GalleryInv, TypeInv, TypeOK
  <2>2. CASE w.url \notin files
    <3>1. PICK o \in RequestIds : Removes(o, w)
      BY <2>1, <2>2 DEF GalleryInv, Explained
    <3>2. CASE o # r
      BY <3>1, <3>2 DEF Effect, Removes
    <3>3. CASE o = r
      BY <3>1, <3>3 DEF Effect
    <3> QED BY <3>2, <3>3
  <2>3. CASE w.url \in files
    <3> DEFINE q == requests[r]
    <3>1. /\ q.pc = "deleteAssets" /\ w.url \in q.assets
          /\ \/ requests'[r].pc = "failed"
             \/ requests'[r].pc = "deleteAssets" /\ requests'[r].loaded = q.loaded
      BY <2>3 DEF Effect
    <3>2. Holds(r) /\ q.op \in {"update", "remove", "removeImage"}
      BY <3>1, RequestType DEF Effect, GalleryInv, OpsAt
    <3>3. q.vehicle = w.vehicle
      BY <2>1, <3>1, <3>2 DEF Holds, Named
    <3>4. q.op = "removeImage" => w \in q.loaded
      <4> SUFFICES ASSUME q.op = "removeImage" PROVE w \in q.loaded
        OBVIOUS
      <4>1. PICK x \in q.loaded : x.url = w.url
        BY <3>1, <3>2 DEF Holds, FilesOf
      <4>2. x \in Row /\ Named(x) /\ x.url \in Files
        BY <3>2, <4>1, RequestType DEF Holds, GalleryInv
      <4>3. x.vehicle = w.vehicle /\ x.by = w.by /\ x.copy = w.copy
        BY <2>1, <4>1, <4>2 DEF Named
      <4>4. x = w
        BY <2>1, <4>1, <4>2, <4>3 DEF Row
      <4> QED BY <4>4, <4>1
    <3>5. Removes(r, w)'
      BY <3>1, <3>2, <3>3, <3>4 DEF Effect, Removes
    <3> QED BY <3>5
  <2> QED BY <2>2, <2>3
<1> QED BY <1>2, <1>3, <1>4, <1>5, <1>6 DEF GalleryInv

-----------------------------------------------------------------------------
\* What the invariant says of a request in flight, with its types.
LEMMA InFlightFacts ==
    ASSUME GalleryInv, NEW r \in RequestIds, InFlight(r)
    PROVE  /\ Holds(r) /\ Shape(requests[r]) /\ TypeInv /\ TypeOK
           /\ requests[r].vehicle \in Vehicles
           /\ requests[r].op \in OpsAt(requests[r].pc)
           /\ requests[r].pc \notin Ended \cup {"idle"}
  BY DEF GalleryInv, TypeInv, Shape, InFlight

\* A step that only goes on, at a phase where no removal has begun.
LEMMA QuietEffect ==
    ASSUME GalleryInv, NEW r \in RequestIds, InFlight(r), NEW pc, Goto(r, pc),
           UNCHANGED <<vehicles, rows, files>>,
           requests[r].pc = "insertImage" => pc = "failed",
           \A w \in rows : Removes(r, w) => Removes(r, w)',
           pc \notin Ended => Holds(r)'
    PROVE  Effect(r)
<1>1. InFlight(r)' => pc \notin Ended
  BY InFlightFacts, GotoEffect DEF InFlight
<1>2. /\ \A o \in RequestIds \ {r} : requests'[o] = requests[o]
      /\ requests'[r].pc = pc
      /\ requests'[r].op = requests[r].op
      /\ requests'[r].vehicle = requests[r].vehicle
      /\ requests'[r].list = requests[r].list
  BY InFlightFacts, GotoEffect
<1> QED BY <1>1, <1>2 DEF Effect

LEMMA SaveEffect ==
    ASSUME GalleryInv, NEW r \in RequestIds, SaveVehicle(r)
    PROVE  Effect(r)
<1> DEFINE q == requests[r]
           v == q.vehicle
           pc == AfterSave(q)
<1>1. InFlight(r) /\ q.pc = "save"
  BY DEF SaveVehicle, InFlight, Ended
<1>2. q.op \in {"create", "update"} /\ Holds(r) /\ TypeInv
  BY <1>1, InFlightFacts DEF OpsAt
<1>3. /\ vehicles' = vehicles \cup {v} /\ rows' = rows \cup InMemory(r)
      /\ files' = files /\ Goto(r, pc)
  BY DEF SaveVehicle
<1>4. pc \in {"findOld", "reload", "insertLinks"}
      /\ (q.op = "update" => pc = "findOld" \/ (pc = "reload" /\ q.list = None))
  BY <1>2 DEF AfterSave
<1>5. /\ \A o \in RequestIds \ {r} : requests'[o] = requests[o]
      /\ requests'[r].pc = pc
      /\ requests'[r].op = q.op /\ requests'[r].vehicle = v
      /\ requests'[r].list = q.list
      /\ requests'[r].loaded = q.loaded /\ requests'[r].assets = q.assets
  BY <1>2, <1>3, <1>4, GotoEffect DEF Ended
<1>6. \A w \in rows' \ rows : w.vehicle = v /\ w.url \notin Files
  <2>1. CASE q.list = None
    BY <1>1, <1>2, <1>3, <2>1 DEF InMemory, Holds, Images
  <2>2. CASE q.list # None
    <3>1. q.list \subseteq Links
      BY <1>2, <2>2, RequestType
    <3> QED BY <1>3, <2>2, <3>1, NullAssumption DEF InMemory, NewRows
  <2> QED BY <2>1, <2>2
<1>7. Holds(r)'
  BY <1>2, <1>3, <1>4, <1>5 DEF Holds, Removal, Named
<1>8. \A w : ~Removes(r, w)
  BY <1>1 DEF Removes
<1> QED BY <1>1, <1>3, <1>5, <1>6, <1>7, <1>8 DEF Effect, Named

LEMMA FindOldEffect ==
    ASSUME GalleryInv, NEW r \in RequestIds, FindOld(r)
    PROVE  Effect(r)
<1> DEFINE q == requests[r]
           v == q.vehicle
           old == FilesOf(Images(v))
<1>1. InFlight(r) /\ q.pc = "findOld"
  BY DEF FindOld, InFlight, Ended
<1>2. q.op \in {"update", "remove"} /\ Holds(r) /\ TypeInv /\ q \in Request
  BY <1>1, InFlightFacts DEF OpsAt, Shape
<1>3. /\ UNCHANGED <<vehicles, rows, files>>
      /\ \A o \in RequestIds \ {r} : requests'[o] = requests[o]
      /\ requests'[r].pc = "deleteAssets"
      /\ requests'[r].op = q.op /\ requests'[r].vehicle = v
      /\ requests'[r].list = q.list
      /\ requests'[r].loaded = q.loaded /\ requests'[r].assets = old
  BY <1>2 DEF FindOld, Set, TypeInv, TypeOK, Request
<1>4. old \subseteq {v} \X Makers
  <2>1. Images(v) \subseteq Row /\ \A w \in Images(v) : Named(w) /\ w.vehicle = v
    BY DEF GalleryInv, TypeInv, TypeOK, Images
  <2> QED BY <2>1, NamedFiles
<1>5. Images(v)' = Images(v) /\ old' = old
  BY <1>3 DEF Images, FilesOf
<1>6. Holds(r)'
  BY <1>1, <1>2, <1>3, <1>4, <1>5 DEF Holds, Removal, Named
<1>7. \A w : ~Removes(r, w)
  BY <1>1 DEF Removes
<1> QED BY <1>1, <1>3, <1>6, <1>7 DEF Effect

LEMMA DeleteAssetsEffect ==
    ASSUME GalleryInv, NEW r \in RequestIds, DeleteAssets(r)
    PROVE  Effect(r)
<1> DEFINE q == requests[r]
           v == q.vehicle
           next == CASE q.op = "update" -> "deleteRows"
                     [] q.op = "remove" -> "deleteVehicle"
                     [] OTHER -> "deleteRow"
<1>1. InFlight(r) /\ q.pc = "deleteAssets"
  BY DEF DeleteAssets, InFlight, Ended
<1>2. /\ q.op \in {"update", "remove", "removeImage"} /\ Holds(r) /\ TypeInv
      /\ q \in Request /\ files \subseteq Files
  BY <1>1, InFlightFacts DEF OpsAt, Shape, TypeOK
<1>3. vehicles' = vehicles /\ rows' = rows
  BY DEF DeleteAssets
<1>4. CASE q.assets = {} /\ Goto(r, next) /\ UNCHANGED files
  <2>1. next \in {"deleteRows", "deleteVehicle", "deleteRow"}
    BY DEF Ended
  <2>2. /\ requests'[r].pc = next
        /\ requests'[r].op = q.op /\ requests'[r].vehicle = v
        /\ requests'[r].list = q.list
        /\ requests'[r].loaded = q.loaded /\ requests'[r].assets = q.assets
    BY <1>2, <1>4, <2>1, GotoEffect DEF Ended
  <2>3. Holds(r)'
    BY <1>1, <1>2, <1>3, <1>4, <2>1, <2>2
       DEF Holds, Removal, Named, FilesOf, Images
  <2>4. \A w \in rows : Removes(r, w) => Removes(r, w)'
    BY <1>1, <2>1, <2>2 DEF Removes
  <2> QED BY <1>1, <1>3, <1>4, <2>3, <2>4, QuietEffect
<1>5. ASSUME NEW f \in q.assets, files' = files \ {f},
             Set(r, [q EXCEPT !.assets = @ \ {f}])
      PROVE  Effect(r)
  <2>1. /\ \A o \in RequestIds \ {r} : requests'[o] = requests[o]
        /\ requests'[r].pc = "deleteAssets"
        /\ requests'[r].op = q.op /\ requests'[r].vehicle = v
        /\ requests'[r].list = q.list
        /\ requests'[r].loaded = q.loaded /\ requests'[r].assets = q.assets \ {f}
    BY <1>1, <1>2, <1>5 DEF Set, TypeInv, TypeOK, Request
  <2>2. Holds(r)'
    BY <1>1, <1>2, <1>3, <1>5, <2>1 DEF Holds, Removal, Named, FilesOf, Images
  <2>3. \A w \in rows : Removes(r, w) => Removes(r, w)'
    BY <1>1, <2>1 DEF Removes
  <2>4. f \in {v} \X Makers
    BY <1>2 DEF Holds
  <2> QED BY <1>1, <1>3, <1>5, <2>1, <2>2, <2>3, <2>4 DEF Effect
<1> QED BY <1>4, <1>5 DEF DeleteAssets

LEMMA DeleteRowsEffect ==
    ASSUME GalleryInv, NEW r \in RequestIds, DeleteRows(r)
    PROVE  Effect(r)
<1> DEFINE q == requests[r]
           v == q.vehicle
           pc == IF q.list = {} THEN "reload" ELSE "insertLinks"
<1>1. InFlight(r) /\ q.pc = "deleteRows"
  BY DEF DeleteRows, InFlight, Ended
<1>2. /\ q.op = "update" /\ Holds(r) /\ TypeInv /\ q.list # None
      /\ rows \subseteq Row /\ files \subseteq Files
  BY <1>1, InFlightFacts DEF OpsAt, Shape, TypeOK
<1>3. /\ rows' = rows \ Images(v) /\ files' = files /\ vehicles' = vehicles
      /\ Goto(r, pc) /\ pc \in {"reload", "insertLinks"}
  BY DEF DeleteRows
<1>4. /\ \A o \in RequestIds \ {r} : requests'[o] = requests[o]
      /\ requests'[r].pc = pc
      /\ requests'[r].op = q.op /\ requests'[r].vehicle = v
      /\ requests'[r].list = q.list
      /\ requests'[r].loaded = q.loaded /\ requests'[r].assets = q.assets
  BY <1>2, <1>3, GotoEffect DEF Ended
<1>5. Images(v)' = {}
  BY <1>3, <1>4 DEF Images
<1>6. q.list = {} => NewRows(v, r, 2, q.list) = {}
  BY DEF NewRows
<1>7. Holds(r)'
  BY <1>1, <1>2, <1>3, <1>4, <1>5, <1>6 DEF Holds, Removal, Named, NewRows
<1>8. \A w \in rows \ rows' : w.vehicle = v /\ w.url \notin files
  BY <1>1, <1>2, <1>3 DEF Holds, Removal, FilesOf, Images
<1>9. \A w \in rows' : ~Removes(r, w)
  BY <1>1, <1>2, <1>3 DEF Removes, Images
<1> QED BY <1>1, <1>3, <1>4, <1>7, <1>8, <1>9 DEF Effect

LEMMA InsertLinksEffect ==
    ASSUME GalleryInv, NEW r \in RequestIds, InsertLinks(r)
    PROVE  Effect(r)
<1> DEFINE q == requests[r]
           v == q.vehicle
           new == NewRows(v, r, 2, q.list)
<1>1. InFlight(r) /\ q.pc = "insertLinks"
  BY DEF InsertLinks, InFlight, Ended
<1>2. /\ q.op \in {"create", "update"} /\ Holds(r) /\ TypeInv
      /\ q.list \subseteq Links /\ v \in vehicles
  BY <1>1, InFlightFacts, RequestType DEF OpsAt, Shape, InsertLinks
<1>3. /\ rows' = rows \cup new /\ files' = files /\ vehicles' = vehicles
      /\ Goto(r, "reload")
  BY DEF InsertLinks
<1>4. /\ \A o \in RequestIds \ {r} : requests'[o] = requests[o]
      /\ requests'[r].pc = "reload"
      /\ requests'[r].op = q.op /\ requests'[r].vehicle = v
      /\ requests'[r].list = q.list
      /\ requests'[r].loaded = q.loaded /\ requests'[r].assets = q.assets
  BY <1>2, <1>3, GotoEffect DEF Ended
<1>5. \A w \in new : w.vehicle = v /\ w.url \notin Files
  BY <1>2, NullAssumption DEF NewRows
<1>6. Images(v) = {} => Images(v)' = new
  BY <1>3, <1>4, <1>5 DEF Images
<1>7. new' = new
  BY <1>4
<1>8. Holds(r)'
  BY <1>1, <1>2, <1>3, <1>4, <1>6, <1>7 DEF Holds, Removal, Named
<1>9. \A w : ~Removes(r, w)
  BY <1>1 DEF Removes
<1> QED BY <1>1, <1>3, <1>4, <1>5, <1>8, <1>9 DEF Effect, Named

LEMMA UploadEffect ==
    ASSUME GalleryInv, NEW r \in RequestIds, Upload(r)
    PROVE  Effect(r)
<1> DEFINE q == requests[r]
           v == q.vehicle
<1>1. InFlight(r) /\ q.pc = "upload"
  BY DEF Upload, InFlight, Ended
<1>2. q.op = "upload" /\ Holds(r) /\ TypeInv
  BY <1>1, InFlightFacts DEF OpsAt
<1>3. /\ UNCHANGED <<vehicles, rows>> /\ files' = files \cup {NewFile(r)}
      /\ Goto(r, "insertImage") /\ NewFile(r) \in {v} \X Makers
  BY DEF Upload, NewFile, Makers
<1>4. /\ \A o \in RequestIds \ {r} : requests'[o] = requests[o]
      /\ requests'[r].pc = "insertImage"
      /\ requests'[r].op = q.op /\ requests'[r].vehicle = v
      /\ requests'[r].list = q.list
      /\ requests'[r].loaded = q.loaded /\ requests'[r].assets = q.assets
  BY <1>2, <1>3, GotoEffect DEF Ended
<1>5. NewFile(r)' = NewFile(r)
  BY <1>4 DEF NewFile
<1>6. Holds(r)'
  BY <1>1, <1>2, <1>3, <1>4, <1>5 DEF Holds, Removal, Named
<1>7. \A w : ~Removes(r, w)
  BY <1>1 DEF Removes
<1> QED BY <1>1, <1>3, <1>4, <1>6, <1>7 DEF Effect

LEMMA DeleteVehicleEffect ==
    ASSUME GalleryInv, NEW r \in RequestIds, DeleteVehicle(r)
    PROVE  Effect(r)
<1> DEFINE q == requests[r]
           v == q.vehicle
<1>1. InFlight(r) /\ q.pc = "deleteVehicle"
  BY DEF DeleteVehicle, InFlight, Ended
<1>2. /\ q.op = "remove" /\ Holds(r) /\ TypeInv
      /\ rows \subseteq Row /\ files \subseteq Files
  BY <1>1, InFlightFacts DEF OpsAt, TypeOK
<1>3. /\ vehicles' = vehicles \ {v} /\ rows' = rows \ Images(v)
      /\ files' = files /\ Goto(r, "done")
  BY DEF DeleteVehicle
<1>4. /\ \A o \in RequestIds \ {r} : requests'[o] = requests[o]
      /\ requests'[r].pc = "done" /\ requests'[r].op = q.op
      /\ requests'[r].vehicle = v /\ requests'[r].list = q.list
  BY <1>2, <1>3, GotoEffect
<1>5. \A w \in rows \ rows' : w.vehicle = v /\ w.url \notin files
  BY <1>1, <1>2, <1>3 DEF Holds, Removal, FilesOf, Images
<1>6. \A w \in rows' : ~Removes(r, w)
  BY <1>1, <1>2, <1>3 DEF Removes, Images
<1>7. ~InFlight(r)'
  BY <1>4 DEF InFlight, Ended
<1> QED BY <1>1, <1>3, <1>4, <1>5, <1>6, <1>7 DEF Effect

LEMMA InsertImageEffect ==
    ASSUME GalleryInv, NEW r \in RequestIds, InsertImage(r)
    PROVE  Effect(r)
<1> DEFINE q == requests[r]
           v == q.vehicle
           new == NewRows(v, r, 1, {NewFile(r)})
<1>1. InFlight(r) /\ q.pc = "insertImage"
  BY DEF InsertImage, InFlight, Ended
<1>2. Holds(r) /\ TypeInv /\ NewFile(r) \in files /\ NewFile(r) \in Files
  <2>1. Holds(r) /\ TypeInv /\ files \subseteq Files
    BY <1>1, InFlightFacts DEF TypeOK
  <2> QED BY <1>1, <2>1 DEF Holds
<1>3. /\ rows' = rows \cup new /\ UNCHANGED <<vehicles, files>>
      /\ Goto(r, "done")
  BY DEF InsertImage
<1>4. /\ \A o \in RequestIds \ {r} : requests'[o] = requests[o]
      /\ requests'[r].pc = "done" /\ requests'[r].op = q.op
      /\ requests'[r].vehicle = v /\ requests'[r].list = q.list
  BY <1>2, <1>3, GotoEffect
<1>5. \A w \in new : /\ w.vehicle = v /\ w.by = r /\ w.copy = 1
                     /\ w.url = NewFile(r)
  BY DEF NewRows
<1>6. \A w \in new : w.vehicle = v /\ Named(w) /\ w.url \in files'
  BY <1>2, <1>3, <1>5 DEF Named, NewFile
<1>7. NewFile(r) \in FilesOf(rows')
  <2>1. [vehicle |-> v, by |-> r, copy |-> 1, url |-> NewFile(r)] \in new
    BY DEF NewRows
  <2> QED BY <1>2, <1>3, <2>1 DEF FilesOf
<1>8. ~InFlight(r)' /\ \A w : ~Removes(r, w)
  BY <1>1, <1>4 DEF InFlight, Ended, Removes
<1> QED BY <1>1, <1>3, <1>4, <1>6, <1>7, <1>8 DEF Effect

LEMMA DeleteRowEffect ==
    ASSUME GalleryInv, NEW r \in RequestIds, DeleteRow(r)
    PROVE  Effect(r)
<1> DEFINE q == requests[r]
           v == q.vehicle
<1>1. InFlight(r) /\ q.pc = "deleteRow"
  BY DEF DeleteRow, InFlight, Ended
<1>2. /\ q.op = "removeImage" /\ Holds(r) /\ TypeInv /\ files \subseteq Files
      /\ \A w \in q.loaded : w.vehicle = v
  BY <1>1, InFlightFacts DEF OpsAt, TypeOK, Shape
<1>3. /\ rows' = rows \ q.loaded /\ UNCHANGED <<vehicles, files>>
      /\ Goto(r, "done")
  BY DEF DeleteRow
<1>4. /\ \A o \in RequestIds \ {r} : requests'[o] = requests[o]
      /\ requests'[r].pc = "done" /\ requests'[r].op = q.op
      /\ requests'[r].vehicle = v /\ requests'[r].list = q.list
  BY <1>2, <1>3, GotoEffect
<1>5. \A w \in rows \ rows' : w.vehicle = v /\ w.url \notin files
  BY <1>1, <1>2, <1>3 DEF Holds, Removal, FilesOf
<1>6. \A w \in rows' : ~Removes(r, w)
  BY <1>1, <1>2, <1>3 DEF Removes
<1>7. ~InFlight(r)'
  BY <1>4 DEF InFlight, Ended
<1> QED BY <1>1, <1>3, <1>4, <1>5, <1>6, <1>7 DEF Effect

\* A call that failed may have done its work at Cloudinary.
LEMMA FailEffect ==
    ASSUME GalleryInv, NEW r \in RequestIds, Fail(r)
    PROVE  Effect(r)
<1> DEFINE q == requests[r]
           v == q.vehicle
<1>1. InFlight(r)
  BY DEF Fail
<1>2. Holds(r) /\ TypeInv /\ q.pc # "failed"
  BY <1>1, InFlightFacts DEF Ended
<1>3. UNCHANGED <<vehicles, rows>> /\ Goto(r, "failed")
  BY DEF Fail
<1>4. /\ \A o \in RequestIds \ {r} : requests'[o] = requests[o]
      /\ requests'[r].pc = "failed" /\ requests'[r].op = q.op
      /\ requests'[r].vehicle = v /\ requests'[r].list = q.list
  BY <1>2, <1>3, GotoEffect
<1>5. NewFile(r) \in {v} \X Makers /\ q.assets \subseteq {v} \X Makers
  BY <1>2 DEF NewFile, Makers, Holds
<1>6. /\ \A f \in files' \ files : f = NewFile(r)
      /\ \A f \in files \ files' : q.pc = "deleteAssets" /\ f \in q.assets
  BY DEF Fail
<1>7. \A f \in Files : f \notin {v} \X Makers => (f \in files' <=> f \in files)
  BY <1>5, <1>6
<1>8. \A w \in rows' : Removes(r, w) => Removes(r, w)'
  BY <1>4 DEF Removes
<1>9. ~InFlight(r)'
  BY <1>4 DEF InFlight, Ended
<1> QED BY <1>1, <1>3, <1>4, <1>6, <1>7, <1>8, <1>9 DEF Effect

LEMMA StepEffect ==
    ASSUME GalleryInv, NEW r \in RequestIds, Step(r)
    PROVE  Effect(r)
<1>1. CASE Reload(r)
  <2> DEFINE pc == IF requests[r].vehicle \in vehicles THEN "done" ELSE "refused"
  <2>1. /\ InFlight(r) /\ Goto(r, pc) /\ pc \in Ended /\ requests[r].pc = "reload"
        /\ UNCHANGED <<vehicles, rows, files>>
    BY <1>1 DEF Reload, InFlight, Ended
  <2> QED BY <2>1, QuietEffect DEF Removes
<1>2. CASE Refuse(r)
  <2>1. /\ InFlight(r) /\ Goto(r, "refused")
        /\ UNCHANGED <<vehicles, rows, files>>
        /\ requests[r].pc \in {"save", "insertLinks", "insertImage"}
        /\ requests[r].pc = "insertImage" => requests[r].vehicle \notin vehicles
    BY <1>2 DEF Refuse, InFlight, Ended
  <2>2. requests[r].pc # "insertImage"
    BY <2>1, InFlightFacts DEF Holds
  <2> QED BY <2>1, <2>2, QuietEffect DEF Removes, Ended
<1> QED BY <1>1, <1>2, SaveEffect, FindOldEffect, DeleteAssetsEffect,
           DeleteRowsEffect, InsertLinksEffect, DeleteVehicleEffect,
           UploadEffect, InsertImageEffect, DeleteRowEffect, FailEffect DEF Step

-----------------------------------------------------------------------------
\* A request that may start is alone with its vehicle.
LEMMA BeginGallery ==
    ASSUME GalleryInv, TypeInv', Isolation = "vehicle", NEW r \in RequestIds,
           NEW op, NEW v, NEW q \in Request, Begin(r, op, v, q), Holds(r)'
    PROVE  GalleryInv'
<1>1. /\ UNCHANGED <<vehicles, rows, files>>
      /\ requests'[r].vehicle = v
      /\ requests[r].pc = "idle"
      /\ \A o \in RequestIds \ {r} : requests'[o] = requests[o]
      /\ \A o \in RequestIds : InFlight(o) => requests[o].vehicle # v
  BY DEF Begin, MayStart, Set, GalleryInv, TypeInv, TypeOK, Request
<1>2. Alone'
  BY <1>1 DEF Alone, GalleryInv, InFlight
<1>3. (\A w \in rows : Named(w))'
  BY <1>1 DEF GalleryInv, Named
<1>4. ASSUME NEW o \in RequestIds \ {r}, InFlight(o)' PROVE Holds(o)'
  <2>1. requests'[o] = requests[o] /\ Holds(o)
    BY <1>1, <1>4 DEF GalleryInv, InFlight
  <2> QED BY <1>1, <2>1 DEF Holds, Removal, Images, FilesOf, Named, NewFile
<1>5. OrphansFromUploads'
  <2> SUFFICES ASSUME NEW f \in files', f \notin FilesOf(rows)'
               PROVE  \E o \in RequestIds :
                         /\ f = NewFile(o)'
                         /\ requests'[o].pc \in {"insertImage", "failed"}
    BY DEF OrphansFromUploads
  <2>1. PICK o \in RequestIds :
           f = NewFile(o) /\ requests[o].pc \in {"insertImage", "failed"}
    BY <1>1 DEF GalleryInv, OrphansFromUploads, FilesOf
  <2>2. o # r
    BY <1>1, <2>1
  <2> QED BY <1>1, <2>1, <2>2 DEF NewFile
<1>6. Explained'
  <2> SUFFICES ASSUME NEW w \in rows', w.url \in Files \ files'
               PROVE  \E o \in RequestIds : Removes(o, w)'
    BY DEF Explained
  <2>1. PICK o \in RequestIds : Removes(o, w)
    BY <1>1 DEF GalleryInv, Explained
  <2>2. o # r
    BY <1>1, <2>1 DEF Removes
  <2> QED BY <1>1, <2>1, <2>2 DEF Removes
<1> QED BY <1>2, <1>3, <1>4, <1>5, <1>6 DEF GalleryInv

LEMMA StartGallery ==
    ASSUME GalleryInv, Isolation = "vehicle", NEW r \in RequestIds, Start(r)
    PROVE  GalleryInv'
<1>1. TypeInv /\ TypeInv' /\ Idle \in Request
  BY StartTypeInv, IdleShape DEF GalleryInv, Shape
<1>2. ASSUME NEW op, NEW v, NEW q \in Request, Begin(r, op, v, q)
      PROVE  /\ requests'[r] = [q EXCEPT !.op = op, !.vehicle = v]
             /\ UNCHANGED <<vehicles, rows, files>>
  BY <1>1, <1>2 DEF Begin, Set, TypeInv, TypeOK
<1>3. ASSUME NEW list \in {None} \cup SUBSET Links, Create(r, list)
      PROVE  GalleryInv'
  <2> DEFINE q == [Idle EXCEPT !.pc = "save", !.list = list]
  <2>1. q \in Request
    BY DEF Idle, Request, PcValues
  <2>2. Begin(r, "create", r, q)
    BY <1>3 DEF Create
  <2>3. /\ requests'[r].pc = "save" /\ requests'[r].op = "create"
        /\ requests'[r].loaded = {} /\ requests'[r].assets = {}
    <3> HIDE DEF q
    <3>1. requests'[r] = [q EXCEPT !.op = "create", !.vehicle = r]
      BY <1>2, <2>1, <2>2
    <3> QED BY <3>1 DEF q, Idle, Request
  <2>4. Holds(r)'
    BY <2>3 DEF Holds
  <2> QED BY <1>1, <2>1, <2>2, <2>4, BeginGallery
<1>4. ASSUME NEW list \in {None} \cup SUBSET Links, NEW v \in vehicles,
             LoadUpdate(r, v, list)
      PROVE  GalleryInv'
  <2> DEFINE q == [Idle EXCEPT !.pc = "save", !.list = list, !.loaded = Images(v)]
  <2>1. Images(v) \subseteq Row /\ Images(v) \subseteq rows
    BY <1>1 DEF Images, TypeInv, TypeOK
  <2>2. q \in Request
    BY <2>1 DEF Idle, Request, PcValues
  <2>3. Begin(r, "update", v, q)
    BY <1>4 DEF LoadUpdate
  <2>4. /\ requests'[r].pc = "save" /\ requests'[r].op = "update"
        /\ requests'[r].loaded = Images(v) /\ requests'[r].assets = {}
        /\ requests'[r].vehicle = v /\ UNCHANGED <<vehicles, rows, files>>
    <3> HIDE DEF q
    <3>1. /\ requests'[r] = [q EXCEPT !.op = "update", !.vehicle = v]
          /\ UNCHANGED <<vehicles, rows, files>>
      BY <1>2, <2>2, <2>3
    <3> QED BY <3>1 DEF q, Idle, Request
  <2>5. \A w \in Images(v) : Named(w)
    BY <2>1 DEF GalleryInv
  <2>6. Holds(r)'
    BY <2>4, <2>5 DEF Holds, Removal, Named, Images
  <2> QED BY <1>1, <2>2, <2>3, <2>6, BeginGallery
<1>5. ASSUME NEW v \in vehicles, LoadRemoval(r, v) PROVE GalleryInv'
  <2> DEFINE q == [Idle EXCEPT !.pc = "findOld"]
  <2>1. q \in Request
    BY DEF Idle, Request, PcValues
  <2>2. Begin(r, "remove", v, q)
    BY <1>5 DEF LoadRemoval
  <2>3. /\ requests'[r].pc = "findOld" /\ requests'[r].op = "remove"
        /\ requests'[r].loaded = {} /\ requests'[r].assets = {}
        /\ requests'[r].vehicle = v /\ v \in vehicles'
    <3> HIDE DEF q
    <3>1. /\ requests'[r] = [q EXCEPT !.op = "remove", !.vehicle = v]
          /\ UNCHANGED <<vehicles, rows, files>>
      BY <1>2, <2>1, <2>2
    <3> QED BY <3>1 DEF q, Idle, Request
  <2>4. Holds(r)'
    BY <2>3 DEF Holds, Removal
  <2> QED BY <1>1, <2>1, <2>2, <2>4, BeginGallery
<1>6. ASSUME NEW v \in vehicles, LoadUpload(r, v) PROVE GalleryInv'
  <2> DEFINE q == [Idle EXCEPT !.pc = "upload"]
  <2>1. q \in Request
    BY DEF Idle, Request, PcValues
  <2>2. Begin(r, "upload", v, q)
    BY <1>6 DEF LoadUpload
  <2>3. /\ requests'[r].pc = "upload" /\ requests'[r].op = "upload"
        /\ requests'[r].loaded = {} /\ requests'[r].assets = {}
        /\ requests'[r].vehicle = v /\ v \in vehicles'
    <3> HIDE DEF q
    <3>1. /\ requests'[r] = [q EXCEPT !.op = "upload", !.vehicle = v]
          /\ UNCHANGED <<vehicles, rows, files>>
      BY <1>2, <2>1, <2>2
    <3> QED BY <3>1 DEF q, Idle, Request
  <2>4. Holds(r)'
    BY <2>3 DEF Holds
  <2> QED BY <1>1, <2>1, <2>2, <2>4, BeginGallery
<1>7. ASSUME NEW w \in rows, LoadImageRemoval(r, w) PROVE GalleryInv'
  <2> DEFINE v == w.vehicle
             q == [Idle EXCEPT !.pc = "deleteAssets", !.loaded = {w},
                               !.assets = FilesOf({w})]
  <2>1. w \in Row /\ v \in vehicles /\ Named(w) /\ FilesOf({w}) \subseteq Files
    BY <1>1 DEF TypeInv, TypeOK, GalleryInv, FilesOf
  <2>2. FilesOf({w}) \subseteq {v} \X Makers
    BY <2>1, NamedFiles
  <2>3. q \in Request
    BY <2>1 DEF Idle, Request, PcValues
  <2>4. Begin(r, "removeImage", v, q)
    BY <1>7 DEF LoadImageRemoval
  <2>5. /\ requests'[r].pc = "deleteAssets" /\ requests'[r].op = "removeImage"
        /\ requests'[r].loaded = {w} /\ requests'[r].assets = FilesOf({w})
        /\ requests'[r].vehicle = v /\ UNCHANGED <<vehicles, rows, files>>
    <3> HIDE DEF q
    <3>1. /\ requests'[r] = [q EXCEPT !.op = "removeImage", !.vehicle = v]
          /\ UNCHANGED <<vehicles, rows, files>>
      BY <1>2, <2>3, <2>4
    <3> QED BY <3>1 DEF q, Idle, Request
  <2>6. Holds(r)'
    BY <2>1, <2>2, <2>5 DEF Holds, Removal, Named, FilesOf
  <2> QED BY <1>1, <2>3, <2>4, <2>6, BeginGallery
<1> QED BY <1>3, <1>4, <1>5, <1>6, <1>7 DEF Start

LEMMA InitGallery == Init => GalleryInv
<1> SUFFICES ASSUME Init PROVE GalleryInv
  OBVIOUS
<1>1. \A r \in RequestIds : ~InFlight(r)
  BY DEF Init, Idle, InFlight
<1>2. \A w \in rows : Named(w)
  BY NullAssumption DEF Init, Named
<1>3. files = FilesOf(rows)
  BY DEF Init
<1>4. OrphansFromUploads /\ Explained
  BY <1>3 DEF OrphansFromUploads, Explained, FilesOf
<1> QED BY <1>1, <1>2, <1>4, InitTypeInv DEF GalleryInv, Alone

LEMMA NextGallery ==
    ASSUME Isolation = "vehicle", GalleryInv, [Next]_vars
    PROVE  GalleryInv'
<1>1. TypeInv'
  BY NextTypeInv DEF GalleryInv
<1>2. CASE UNCHANGED vars
  <2>1. Alone' /\ (\A w \in rows : Named(w))'
    BY <1>2 DEF vars, GalleryInv, Alone, InFlight, Named
  <2>2. (\A r \in RequestIds : InFlight(r) => Holds(r))'
    <3> SUFFICES ASSUME NEW r \in RequestIds, InFlight(r)' PROVE Holds(r)'
      OBVIOUS
    <3>1. Holds(r)
      BY <1>2 DEF vars, GalleryInv, InFlight
    <3> QED BY <1>2, <3>1 DEF vars, Holds, Removal, Images, FilesOf, Named, NewFile
  <2>3. OrphansFromUploads' /\ Explained'
    BY <1>2 DEF vars, GalleryInv, OrphansFromUploads, FilesOf, NewFile,
                Explained, Removes
  <2> QED BY <1>1, <2>1, <2>2, <2>3 DEF GalleryInv
<1>3. ASSUME NEW r \in RequestIds, Start(r) PROVE GalleryInv'
  BY <1>3, StartGallery
<1>4. ASSUME NEW r \in RequestIds, Step(r) PROVE GalleryInv'
  BY <1>1, <1>4, StepEffect, EffectGallery
<1> QED BY <1>2, <1>3, <1>4 DEF Next, Quiet

LEMMA GalleryHolds == Isolation = "vehicle" => (Spec => []GalleryInv)
<1> SUFFICES ASSUME Isolation = "vehicle" PROVE Spec => []GalleryInv
  OBVIOUS
<1>1. GalleryInv /\ [Next]_vars => GalleryInv'
  BY NextGallery
<1> QED BY <1>1, InitGallery, PTL DEF Spec

(***************************************************************************)
(* A vehicle's requests one after the other: whatever fails, only an       *)
(* upload leaves a file at Cloudinary that no row leads to.                *)
(***************************************************************************)
THEOREM NoOrphanOfRemovals ==
    Isolation = "vehicle" => (Spec => []OrphansFromUploads)
<1>1. GalleryInv => OrphansFromUploads
  BY DEF GalleryInv
<1> QED BY <1>1, GalleryHolds, PTL

(***************************************************************************)
(* A vehicle's requests one after the other: a row names a file that is    *)
(* gone only during a removal, or after one that failed.                   *)
(***************************************************************************)
THEOREM DanglingExplained ==
    Isolation = "vehicle" => (Spec => []DanglingFromRemovals)
<1>1. GalleryInv => DanglingFromRemovals
  BY DEF GalleryInv, Explained, Removes, DanglingFromRemovals
<1> QED BY <1>1, GalleryHolds, PTL

=============================================================================
