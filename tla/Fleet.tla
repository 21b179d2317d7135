------------------------------- MODULE Fleet --------------------------------
(***************************************************************************)
(* FleetService (src/fleet/fleet.service.ts) over the tables vehicles,     *)
(* fleet_incidents and vehicle_schedule_slots, with the update and the     *)
(* deletion of a vehicle by VehiclesService, which writes its status too.  *)
(*                                                                         *)
(* As in Reservations, a handler is a chain of awaited SQL statements      *)
(* outside any transaction and a request takes one step per statement; a   *)
(* save() of a loaded entity is a SELECT that computes the columns that    *)
(* differ, then a write of those columns (README.md, section 3).           *)
(***************************************************************************)
EXTENDS Integers

CONSTANTS
    VehicleIds, IncidentIds, SlotIds,  \* uuids of the three tables
    RequestIds,        \* the requests of the run, each handled once
    Times,             \* instants a startAt or endAt may name
    InitialIncidents,  \* rows fleet_incidents may hold at the start
    InitialSlots,      \* rows vehicle_schedule_slots may hold at the start
    IncidentBodies,    \* bodies of the incident requests
    SlotBodies,        \* bodies of the slot requests
    SettableStatuses,  \* statuses the requests about a vehicle name
    Operations,        \* operations the clients of the run use
    Isolation,         \* "none" | "record" | "serial": see MayStart
    MayFail,           \* may a statement fail, or the process die, at any await
    Retargets,         \* may an update name another vehicle than the stored one
    NoRow, NoVehicle, NoId, Unset

VehicleStatuses == {"DISPONIBLE", "INDISPONIBLE", "MAINTENANCE"}
Severities == {"MINEUR", "MAJEUR", "CRITIQUE"}
IncidentStatuses == {"OUVERT", "EN_COURS", "RESOLU"}

Ids == IncidentIds \cup SlotIds

Incident == [vehicle : VehicleIds, severity : Severities,
             status : IncidentStatuses]
Slot == [vehicle : VehicleIds, start : Times, end : Times]
Rows(x) == IF x \in IncidentIds THEN Incident ELSE Slot
Columns == {"vehicle", "severity", "status", "start", "end"}

\* Bodies; Unset is a field the request does not carry.
IncidentDto == [vehicle : VehicleIds \cup {Unset},
                severity : Severities \cup {Unset},
                status : IncidentStatuses \cup {Unset}]
SlotDto == [vehicle : VehicleIds \cup {Unset}, start : Times \cup {Unset},
            end : Times \cup {Unset}]

ASSUME TimesAssumption == Times \subseteq Int
ASSUME NullAssumption ==
    /\ IncidentIds \cap SlotIds = {}
    /\ NoRow \notin Incident \cup Slot
    /\ NoVehicle \notin VehicleIds
    /\ NoId \notin Ids
    /\ Unset \notin VehicleIds \cup Times
    /\ Unset \notin VehicleStatuses \cup Severities \cup IncidentStatuses
ASSUME InputAssumption ==
    /\ InitialIncidents \subseteq Incident
    /\ InitialSlots \subseteq {k \in Slot : k.start < k.end}
    /\ IncidentBodies \subseteq IncidentDto
    /\ SlotBodies \subseteq SlotDto
    /\ SettableStatuses \subseteq VehicleStatuses
    /\ Isolation \in {"none", "record", "serial"}
    /\ MayFail \in BOOLEAN
    /\ Retargets \in BOOLEAN

VARIABLES
    vehicles,  \* [VehicleIds -> operational status, or "gone"]
    rows,      \* [Ids -> Incident, Slot or NoRow]: the two other tables
    issued,    \* the uuids handed out so far; none is handed out twice
    requests   \* [RequestIds -> progress of the handler]

vars == <<vehicles, rows, issued, requests>>

Ended == {"done", "refused", "failed"}
PcValues == {"idle", "insert", "find", "select", "save", "reinsert", "delete",
             "vfind", "vselect", "vsave", "vreinsert", "vdelete"} \cup Ended

Request ==
    [pc : PcValues,                          \* the statement to run next
     op : {"none", "updateVehicleStatus", "updateVehicle", "removeVehicle",
           "createIncident", "updateIncident", "removeIncident",
           "createSlot", "updateSlot", "removeSlot"},
     id : Ids \cup {NoId},                   \* the incident or slot
     vehicle : VehicleIds \cup {NoVehicle},  \* the vehicleId in memory
     want : Incident \cup Slot \cup {NoRow}, \* the entity save() writes
     status : VehicleStatuses,               \* the status save() gives a vehicle
     diff : SUBSET Columns]                  \* columns save() found different

Idle == [pc |-> "idle", op |-> "none", id |-> NoId, vehicle |-> NoVehicle,
         want |-> NoRow, status |-> "INDISPONIBLE", diff |-> {}]

InFlight(r) == requests[r].pc \notin Ended \cup {"idle"}

Exists(v) == vehicles[v] # "gone"

\* An incident of the safety rule of updateIncident.
CriticalUnresolved(w) == w.severity = "CRITIQUE" /\ w.status # "RESOLU"

-----------------------------------------------------------------------------
Init ==
    /\ vehicles \in [VehicleIds -> VehicleStatuses]
    /\ rows \in [Ids -> InitialIncidents \cup InitialSlots \cup {NoRow}]
    /\ \A x \in Ids : rows[x] \in Rows(x) \cup {NoRow}
    /\ \A i \in IncidentIds :
          rows[i] # NoRow /\ CriticalUnresolved(rows[i]) =>
             vehicles[rows[i].vehicle] = "INDISPONIBLE"
    /\ issued = {x \in Ids : rows[x] # NoRow}
    /\ requests = [r \in RequestIds |-> Idle]

\* Requests q and p are about one slot, or one of them removes the vehicle the
\* other one holds.
Interfere(q, p) ==
    \/ q.id = p.id /\ p.id \in SlotIds
    \/ q.vehicle = p.vehicle /\ "removeVehicle" \in {q.op, p.op}

\* How far requests overlap in time is the environment's choice: freely, those
\* that do not interfere, or one at a time.  The code imposes nothing.
MayStart(r, p) ==
    /\ requests[r].pc = "idle"
    /\ Isolation = "serial" => \A q \in RequestIds : ~InFlight(q)
    /\ Isolation = "record" =>
          \A q \in RequestIds : InFlight(q) => ~Interfere(requests[q], p)

OrElse(value, default) == IF value = Unset THEN default ELSE value

Become(r, request) ==
    /\ requests' = [requests EXCEPT ![r] = request]
    /\ UNCHANGED <<vehicles, rows>>

\* The request p arrives, and the handler has run its first query.
Arrive(r, p) ==
    /\ p.op \in Operations
    /\ MayStart(r, p)
    /\ Become(r, p)

\* Request q at pc; once it is answered, nothing of it is left.
At(q, pc) ==
    IF pc \in Ended THEN [Idle EXCEPT !.pc = pc] ELSE [q EXCEPT !.pc = pc]

Goto(r, pc) == Become(r, At(requests[r], pc)) /\ UNCHANGED issued

-----------------------------------------------------------------------------
(***************************************************************************)
(* The first statements of the handlers.  A request the handler refuses    *)
(* before its first write (404, 400) changes nothing and is left out.      *)
(***************************************************************************)

\* The handler holds a copy of vehicle v, with status s, that it will save.
LoadVehicle(r, v, op, s) ==
    /\ Exists(v)
    /\ Arrive(r, [Idle EXCEPT !.pc = "vselect", !.op = op, !.vehicle = v,
                              !.status = s])
    /\ UNCHANGED issued

UpdateVehicleStatus(r, v, s) == LoadVehicle(r, v, "updateVehicleStatus", s)

\* Mutant: a body without a status resets it to the default of the column.
UpdateVehicleDefault(r, v, s) ==
    LoadVehicle(r, v, "updateVehicle", OrElse(s, "DISPONIBLE"))

\* VehiclesService.update: the whole vehicle is saved, with the status it was
\* loaded with unless the body names one.
UpdateVehicle(r, v, s) ==
    LoadVehicle(r, v, "updateVehicle", OrElse(s, vehicles[v]))

\* VehiclesService.remove
LoadVehicleRemoval(r, v) ==
    /\ Exists(v)
    /\ Arrive(r, [Idle EXCEPT !.pc = "vdelete", !.op = "removeVehicle",
                              !.vehicle = v])
    /\ UNCHANGED issued

\* findVehicleOrFail of a creation, on its way to the INSERT under uuid x
Create(r, x, op, row) ==
    /\ x \notin issued
    /\ Exists(row.vehicle)
    /\ issued' = issued \cup {x}
    /\ Arrive(r, [Idle EXCEPT !.pc = "insert", !.op = op, !.id = x,
                              !.vehicle = row.vehicle, !.want = row])

\* Mutant: the status of the body without its `?? OUVERT'.
NewIncidentUndefined(dto) == dto

\* The row createIncident builds from its body.
NewIncident(dto) == [dto EXCEPT !.status = OrElse(@, "OUVERT")]

CreateIncident(r, i, dto) ==
    /\ dto.vehicle # Unset
    /\ dto.severity # Unset
    /\ Create(r, i, "createIncident", NewIncident(dto))

EnsureValidSlotRange(s, e) == s < e

CreateSlot(r, k, dto) ==
    /\ Unset \notin {dto.vehicle, dto.start, dto.end}
    /\ EnsureValidSlotRange(dto.start, dto.end)
    /\ Create(r, k, "createSlot", dto)

\* getIncidentById, getScheduleSlotById.  The entity is loaded with its
\* `vehicle' relation, from which save() takes the column: the row keeps its
\* vehicle, although the handler goes on with the vehicleId of the body.
LoadUpdate(r, x, op, dto, want) ==
    /\ Retargets \/ dto.vehicle \in {Unset, rows[x].vehicle}
    /\ Arrive(r, [Idle EXCEPT !.pc = IF dto.vehicle = Unset
                                     THEN "select" ELSE "find",
                              !.op = op, !.id = x, !.want = want,
                              !.vehicle = OrElse(dto.vehicle, rows[x].vehicle)])
    /\ UNCHANGED issued

UpdateIncident(r, i, dto) ==
    /\ rows[i] # NoRow
    /\ LoadUpdate(r, i, "updateIncident", dto,
                  [rows[i] EXCEPT !.severity = OrElse(dto.severity, @),
                                  !.status = OrElse(dto.status, @)])

\* Mutant: only a body with both dates is validated.
UpdateSlotBodyOnly(r, k, dto) ==
    /\ rows[k] # NoRow
    /\ Unset \notin {dto.start, dto.end} =>
          EnsureValidSlotRange(dto.start, dto.end)
    /\ LoadUpdate(r, k, "updateSlot", dto,
                  [rows[k] EXCEPT !.start = OrElse(dto.start, @),
                                  !.end = OrElse(dto.end, @)])

UpdateSlot(r, k, dto) ==
    LET want == [rows[k] EXCEPT !.start = OrElse(dto.start, @),
                                !.end = OrElse(dto.end, @)]
    IN  /\ rows[k] # NoRow
        /\ EnsureValidSlotRange(want.start, want.end)
        /\ LoadUpdate(r, k, "updateSlot", dto, want)

\* removeIncident, removeScheduleSlot
LoadRemoval(r, x, op) ==
    /\ rows[x] # NoRow
    /\ Arrive(r, [Idle EXCEPT !.pc = "delete", !.op = op, !.id = x])
    /\ UNCHANGED issued

-----------------------------------------------------------------------------
(***************************************************************************)
(* The statements that follow.                                             *)
(***************************************************************************)

\* Mutant: the handler waits for a vehicle that is gone.
FindVehicleWaits(r) ==
    /\ requests[r].pc = "find"
    /\ Goto(r, IF Exists(requests[r].vehicle) THEN "select" ELSE "find")

\* findVehicleOrFail of an update whose body names a vehicle
FindVehicle(r) ==
    /\ requests[r].pc = "find"
    /\ Goto(r, IF Exists(requests[r].vehicle) THEN "select" ELSE "refused")

\* Mutant: only open incidents block, not those being handled.
AfterSaveOpenOnly(q) ==
    CASE q.op = "createIncident" /\ q.want.severity = "CRITIQUE" -> "vselect"
      [] /\ q.op = "updateIncident"
         /\ q.want.severity = "CRITIQUE" /\ q.want.status = "OUVERT" -> "vfind"
      [] OTHER -> "done"

\* Where the handler goes once its row is stored: createIncident saves the
\* vehicle it loaded, updateIncident looks up the vehicle named in memory.
AfterSave(q) ==
    CASE q.op = "createIncident" /\ q.want.severity = "CRITIQUE" -> "vselect"
      [] q.op = "updateIncident" /\ CriticalUnresolved(q.want) -> "vfind"
      [] OTHER -> "done"

\* The row of request r is written by this statement.
Write(r, row) ==
    LET q == requests[r]
    IN  /\ rows' = [rows EXCEPT ![q.id] = row]
        /\ requests' = [requests EXCEPT ![r] = At(q, AfterSave(q))]
        /\ UNCHANGED <<vehicles, issued>>

\* save() of a new entity: one INSERT, under the foreign key
Insert(r) ==
    /\ requests[r].pc = "insert"
    /\ Exists(requests[r].want.vehicle)
    /\ Write(r, requests[r].want)

\* save(), the SELECT: which columns differ; without a row, save() INSERTs
SaveSelect(r) ==
    LET q   == requests[r]
        row == rows[q.id]
    IN  /\ q.pc = "select"
        /\ Become(r, IF row = NoRow THEN [q EXCEPT !.pc = "reinsert"]
                     ELSE [q EXCEPT !.pc = "save",
                              !.diff = {c \in DOMAIN row : q.want[c] # row[c]}])
        /\ UNCHANGED issued

\* The row with the columns in cols taken from want.
Merge(row, want, cols) ==
    [c \in DOMAIN row |-> IF c \in cols THEN want[c] ELSE row[c]]

\* save(), the UPDATE; on a row deleted since, it touches nothing
SaveUpdate(r) ==
    LET q   == requests[r]
        row == rows[q.id]
    IN  /\ q.pc = "save"
        /\ Write(r, IF row = NoRow THEN NoRow ELSE Merge(row, q.want, q.diff))

\* save(), the INSERT of an entity whose row is gone, under both keys
Reinsert(r) ==
    LET q == requests[r]
    IN  /\ q.pc = "reinsert"
        /\ rows[q.id] = NoRow
        /\ Exists(q.want.vehicle)
        /\ Write(r, q.want)

Delete(r) ==
    /\ requests[r].pc = "delete"
    /\ Write(r, NoRow)

\* updateIncident: findVehicleOrFail(savedIncident.vehicleId)
FindBlockedVehicle(r) ==
    /\ requests[r].pc = "vfind"
    /\ Goto(r, IF Exists(requests[r].vehicle) THEN "vselect" ELSE "refused")

\* vehicleRepository.save(), the SELECT: nothing to write when the status is
\* already there, an INSERT when the vehicle is gone
VehicleSelect(r) ==
    LET q == requests[r]
    IN  /\ q.pc = "vselect"
        /\ Goto(r, CASE vehicles[q.vehicle] = q.status -> "done"
                     [] ~Exists(q.vehicle) -> "vreinsert"
                     [] OTHER -> "vsave")

VehicleWrite(r, s) ==
    /\ vehicles' = [vehicles EXCEPT ![requests[r].vehicle] = s]
    /\ requests' = [requests EXCEPT ![r] = At(@, "done")]
    /\ UNCHANGED <<rows, issued>>

\* vehicleRepository.save(), the second statement: an UPDATE, which touches
\* nothing when the vehicle was deleted since, or an INSERT under the key.
VehicleSave(r) ==
    LET q == requests[r]
    IN  /\ q.pc \in {"vsave", "vreinsert"}
        /\ q.pc = "vreinsert" => ~Exists(q.vehicle)
        /\ VehicleWrite(r, IF q.pc = "vsave" /\ ~Exists(q.vehicle)
                           THEN "gone" ELSE q.status)

\* Mutant: the foreign keys without ON DELETE CASCADE.
VehicleDeleteKeepsRows(r) ==
    /\ requests[r].pc = "vdelete"
    /\ vehicles' = [vehicles EXCEPT ![requests[r].vehicle] = "gone"]
    /\ requests' = [requests EXCEPT ![r] = At(@, "done")]
    /\ UNCHANGED <<rows, issued>>

\* VehiclesService.remove: the DELETE, and ON DELETE CASCADE on both tables
VehicleDelete(r) ==
    LET q == requests[r]
    IN  /\ q.pc = "vdelete"
        /\ vehicles' = [vehicles EXCEPT ![q.vehicle] = "gone"]
        /\ rows' = [x \in Ids |->
              IF rows[x] # NoRow /\ rows[x].vehicle = q.vehicle
              THEN NoRow ELSE rows[x]]
        /\ requests' = [requests EXCEPT ![r] = At(@, "done")]
        /\ UNCHANGED issued

\* The statement request r runs next violates a key of the schema.
Violates(r) ==
    LET q == requests[r]
    IN  \/ q.pc \in {"insert", "reinsert"} /\ ~Exists(q.want.vehicle)
        \/ q.pc = "reinsert" /\ rows[q.id] # NoRow
        \/ q.pc = "vreinsert" /\ Exists(q.vehicle)

\* A statement fails and the handler ends with a 500 (or, under MayFail, with
\* the process).  What it wrote before stays.
Fail(r) ==
    /\ InFlight(r)
    /\ Violates(r) \/ MayFail
    /\ Goto(r, "failed")

\* No request in flight and none coming.
Quiet == (\A r \in RequestIds : ~InFlight(r)) /\ UNCHANGED vars

-----------------------------------------------------------------------------
Start(r) ==
    \/ \E v \in VehicleIds :
          \/ \E s \in SettableStatuses : UpdateVehicleStatus(r, v, s)
          \/ \E s \in SettableStatuses \cup {Unset} : UpdateVehicle(r, v, s)
          \/ LoadVehicleRemoval(r, v)
    \/ \E i \in IncidentIds :
          \/ \E dto \in IncidentBodies :
                CreateIncident(r, i, dto) \/ UpdateIncident(r, i, dto)
          \/ LoadRemoval(r, i, "removeIncident")
    \/ \E k \in SlotIds :
          \/ \E dto \in SlotBodies :
                CreateSlot(r, k, dto) \/ UpdateSlot(r, k, dto)
          \/ LoadRemoval(r, k, "removeSlot")

\* The statement of request r that comes next.
Step(r) ==
    \/ FindVehicle(r)
    \/ Insert(r) \/ SaveSelect(r) \/ SaveUpdate(r) \/ Reinsert(r) \/ Delete(r)
    \/ FindBlockedVehicle(r)
    \/ VehicleSelect(r) \/ VehicleSave(r) \/ VehicleDelete(r) \/ Fail(r)

Next == (\E r \in RequestIds : Start(r) \/ Step(r)) \/ Quiet

Spec == Init /\ [][Next]_vars

\* A statement fails for certain only when it violates a key.
Progress(r) == Step(r) /\ (requests'[r].pc = "failed" => Violates(r))

\* Node's event loop and PostgreSQL bring every awaited statement to an end.
FairSpec == Spec /\ \A r \in RequestIds : WF_vars(Progress(r))

-----------------------------------------------------------------------------
\* What the reservations see of the fleet.
Assignable(status) ==
    CASE status = "gone" -> "gone"
      [] status = "DISPONIBLE" -> "assignable"
      [] OTHER -> "blocked"

View == INSTANCE FleetView WITH
    vehicles <- [v \in VehicleIds |-> Assignable(vehicles[v])],
    slots <- {rows[k] : k \in {k \in SlotIds : rows[k] # NoRow}}

TypeOK ==
    /\ vehicles \in [VehicleIds -> VehicleStatuses \cup {"gone"}]
    /\ DOMAIN rows = Ids
    /\ \A x \in Ids : rows[x] \in Rows(x) \cup {NoRow}
    /\ issued \subseteq Ids
    /\ requests \in [RequestIds -> Request]

(***************************************************************************)
(* The handlers of the fleet do to vehicles and slots what Reservations    *)
(* assumes of them, one visible step each: every slot stored has ordered   *)
(* dates and a vehicle that exists, and a deleted vehicle stays deleted.   *)
(***************************************************************************)
ImplementsFleetView == View!Spec

(***************************************************************************)
(* Line 187: "any critical unresolved incident keeps vehicle unavailable": *)
(* whenever no request is in flight, the vehicle of a critical incident    *)
(* that is not resolved is not DISPONIBLE, although incident and vehicle   *)
(* are written by different statements of createIncident/updateIncident.   *)
(***************************************************************************)
CriticalBlocks ==
    (\A r \in RequestIds : ~InFlight(r)) =>
        \A i \in IncidentIds :
            rows[i] # NoRow /\ CriticalUnresolved(rows[i]) =>
                vehicles[rows[i].vehicle] # "DISPONIBLE"

(***************************************************************************)
(* Line 113: "Critical incidents immediately block vehicle assignment":    *)
(* when createIncident or updateIncident answers for an incident that is   *)
(* critical and unresolved in its memory, the vehicle it names is out of   *)
(* service at that moment, whatever other requests wrote to the incident,  *)
(* to the vehicle or to its status since the first statement.              *)
(***************************************************************************)
MustBlock(q) ==
    /\ q.op \in {"createIncident", "updateIncident"}
    /\ q.pc \notin Ended
    /\ CriticalUnresolved(q.want)

BlockedWhenAnswered ==
    [][\A r \in RequestIds :
          MustBlock(requests[r]) /\ requests'[r].pc = "done" =>
             vehicles'[requests[r].vehicle] \in {"INDISPONIBLE", "gone"}]_vars

(***************************************************************************)
(* Who can put a vehicle back in service without naming the status: a      *)
(* save() of a copy loaded while it was DISPONIBLE, and nothing else.      *)
(* Once a vehicle is out of service and no handler holds such a copy, it   *)
(* stays so, whatever is reported, updated, resolved or removed about it.  *)
(***************************************************************************)
OutOfService(v) ==
    /\ vehicles[v] # "DISPONIBLE"
    /\ \A r \in RequestIds :
          InFlight(r) /\ requests[r].vehicle = v => requests[r].status # "DISPONIBLE"

StaysOutOfService == [][\A v \in VehicleIds : OutOfService(v) => OutOfService(v)']_vars

(***************************************************************************)
(* Line 314: a slot's start is before its end: ensureValidSlotRange on the *)
(* merged range of updateScheduleSlot protects the pair of columns,        *)
(* although each is written alone.                                         *)
(***************************************************************************)
SlotsOrdered ==
    \A k \in SlotIds : rows[k] # NoRow => rows[k].start < rows[k].end

(***************************************************************************)
(* Every request gets an answer: no handler waits for another one.         *)
(***************************************************************************)
EveryRequestEnds ==
    \A r \in RequestIds : InFlight(r) ~> requests[r].pc \in Ended

=============================================================================
