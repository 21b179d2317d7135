---------------------------- MODULE Reservations ----------------------------
(***************************************************************************)
(* ReservationsService (src/reservations/reservations.service.ts) over the *)
(* tables reservations and reservation_events.                             *)
(*                                                                         *)
(* Every HTTP request runs one handler of the service.  A handler is a     *)
(* chain of awaited SQL statements outside any transaction, so a request   *)
(* is a process that takes one step per statement, and the statements of   *)
(* different requests interleave freely.  A handler decides on the row it  *)
(* read at its start (`want', `seen') and writes it back later.            *)
(*                                                                         *)
(* repository.save() of a row that was read before is two statements of    *)
(* TypeORM: a SELECT that computes which columns differ from the entity in *)
(* memory, and a transaction that writes those columns.  README.md lists   *)
(* the behaviours of save() the module relies on.                          *)
(***************************************************************************)
EXTENDS Lifecycle, Sequences, FiniteSets

CONSTANTS
    ReservationIds,  \* uuids of the reservations table
    VehicleIds,      \* uuids of the vehicles table
    RequestIds,      \* the requests of the run, each handled once
    Times,           \* instants a startAt or endAt may name
    SlotRanges,      \* pairs <<start, end>> the fleet may block a vehicle for
    InitialRows,     \* rows the reservations table may hold at the start
    Updates,         \* bodies PATCH /reservations/:id may carry
    EventBodies,     \* bodies POST /reservations/:id/events may carry
    Operations,      \* operations the clients of the run use
    Isolation,       \* "none" | "dossier" | "serial": see MayStart
    MayFail,         \* may a statement fail, or the process die, at any await
    Retargets,       \* may an update name another vehicle than the stored one
    NoRow, NoVehicle, NoId, NoStatus, NoRequest, Unset

Row == [status : Statuses, vehicle : VehicleIds \cup {NoVehicle},
        start : Times, end : Times]
Dto == [vehicle : VehicleIds \cup {Unset}, start : Times \cup {Unset},
        end : Times \cup {Unset}]
EventBody == [type : EventTypes, status : Statuses \cup {NoStatus}]

\* A timeline row, and what the table does not tell: the request that stored
\* it, and whether it did so because its client asked for this very event.
Event == [type : EventTypes, status : Statuses \cup {NoStatus},
          by : RequestIds \cup {NoRequest}, client : BOOLEAN]
Slot == [vehicle : VehicleIds, start : Times, end : Times]
Columns == {"status", "vehicle", "start", "end"}

ASSUME TimesAssumption == Times \subseteq Int
ASSUME NullAssumption ==
    /\ NoRow \notin Row \cup Slot
    /\ NoVehicle \notin VehicleIds
    /\ NoId \notin ReservationIds
    /\ NoStatus \notin Statuses
    /\ NoRequest \notin RequestIds
    /\ Unset \notin VehicleIds \cup Times
ASSUME InputAssumption ==
    /\ InitialRows \subseteq {w \in Row : w.start < w.end}
    /\ Updates \subseteq Dto
    /\ EventBodies \subseteq EventBody
    /\ SlotRanges \subseteq Times \X Times
    /\ Isolation \in {"none", "dossier", "serial"}
    /\ MayFail \in BOOLEAN
    /\ Retargets \in BOOLEAN

VARIABLES
    reservations,  \* [ReservationIds -> Row or NoRow]: the reservations table
    issued,        \* the uuids handed out so far; none is handed out twice
    events,        \* [ReservationIds -> set of Event]: reservation_events
    vehicles,      \* [VehicleIds -> "assignable" | "blocked" | "gone"]
    slots,         \* vehicle_schedule_slots
    requests       \* [RequestIds -> progress of the handler]

vars == <<reservations, issued, events, vehicles, slots, requests>>

Ended == {"done", "refused", "failed"}
PcValues == {"idle", "vehicle", "slots", "blocking", "overlap", "insert",
             "select", "save", "reinsert", "append", "confirm", "delete"}
            \cup Ended

Request ==
    [pc : PcValues,                         \* the statement to run next
     op : {"none", "create", "update", "updateStatus", "preauth",
           "event", "remove"},
     id : ReservationIds \cup {NoId},       \* the reservation it is about
     vehicle : VehicleIds \cup {NoVehicle}, \* the vehicle the checks look at
     want : Row \cup {NoRow},               \* the entity in memory
     seen : SUBSET Event,                   \* its loaded `events' relation
     diff : SUBSET Columns,                 \* columns save() found different
     found : SUBSET Event,                  \* timeline rows save() found
     todo : Seq(Event)]                     \* timeline rows left to insert

Idle == [pc |-> "idle", op |-> "none", id |-> NoId, vehicle |-> NoVehicle,
         want |-> NoRow, seen |-> {}, diff |-> {}, found |-> {},
         todo |-> <<>>]

\* The handler q goes on at pc with nothing to remember but its reservation
\* and the timeline rows it still has to insert.
Onward(q, pc, todo) ==
    [Idle EXCEPT !.pc = pc, !.op = q.op, !.id = q.id, !.todo = todo]

InFlight(r) == requests[r].pc \notin Ended \cup {"idle"}

\* A timeline row of appendSystemEvent.
Ev(r, type, status) ==
    [type |-> type, status |-> status, by |-> r, client |-> FALSE]

\* A timeline row with the type and the payload a client sent.
Note(r, body) ==
    [type |-> body.type, status |-> body.status, by |-> r, client |-> TRUE]

Blocking(w) == w # NoRow /\ w.status \in BLOCKING_STATUSES

\* Rows u and w keep the same vehicle busy at the same time.
Clash(u, w) ==
    /\ Blocking(u) /\ Blocking(w)
    /\ u.vehicle = w.vehicle /\ u.vehicle # NoVehicle
    /\ Overlaps(u.start, u.end, w.start, w.end)

-----------------------------------------------------------------------------
\* The table holds rows of earlier requests, without a clash; the timeline
\* of each row ends with the event that announced its status.
Init ==
    /\ reservations \in [ReservationIds -> InitialRows \cup {NoRow}]
    /\ \A x, y \in ReservationIds :
          x # y => ~Clash(reservations[x], reservations[y])
    /\ issued = {x \in ReservationIds : reservations[x] # NoRow}
    /\ events = [x \in ReservationIds |->
                    IF reservations[x] = NoRow THEN {}
                    ELSE {Ev(NoRequest, "reservation_status_changed",
                             reservations[x].status)}]
    /\ vehicles = [v \in VehicleIds |-> "assignable"]
    /\ slots = {}
    /\ requests = [r \in RequestIds |-> Idle]

\* How far requests overlap in time is the environment's choice: freely, one
\* at a time per reservation, or one at a time.  The code imposes nothing.
MayStart(r, x) ==
    /\ requests[r].pc = "idle"
    /\ Isolation = "serial" => \A q \in RequestIds : ~InFlight(q)
    /\ Isolation = "dossier" =>
          \A q \in RequestIds : InFlight(q) => requests[q].id # x \/ x = NoId

-----------------------------------------------------------------------------
(***************************************************************************)
(* The first statements of the handlers.  A request the handler refuses    *)
(* before its first write (404, 400) changes nothing and is left out.      *)
(***************************************************************************)

\* Bound of the model: every create in flight still finds a fresh uuid.
UuidsLeft ==
    Cardinality(issued)
      + Cardinality({q \in RequestIds : /\ InFlight(q)
                                        /\ requests[q].op = "create"
                                        /\ requests[q].id = NoId})
      < Cardinality(ReservationIds)

\* Mutant: >= becomes >.
EnsureDateRangeLoose(s, e) == s <= e

\* ensureDateRange; whether a start lies in the future is left to the choice
\* of the requests that occur.
EnsureDateRange(s, e) == s < e

\* Mutant: vehicleId without its `?? null'.
NewRowUndefined(v, s, e) ==
    [status |-> "NOUVELLE_DEMANDE", start |-> s, end |-> e,
     vehicle |-> IF v = NoVehicle THEN Unset ELSE v]

\* The row create() builds from its body.
NewRow(v, s, e) ==
    [status |-> "NOUVELLE_DEMANDE", vehicle |-> v, start |-> s, end |-> e]

\* POST /reservations, after ensureDateRange: no statement has run yet.
Create(r, v, s, e) ==
    /\ "create" \in Operations
    /\ MayStart(r, NoId)
    /\ UuidsLeft
    /\ EnsureDateRange(s, e)
    /\ requests' = [requests EXCEPT ![r] =
          [Idle EXCEPT !.pc = IF v = NoVehicle THEN "insert" ELSE "vehicle",
                       !.op = "create", !.vehicle = v,
                       !.want = NewRow(v, s, e),
                       !.todo = <<Ev(r, "reservation_created", "NOUVELLE_DEMANDE"),
                                  Ev(r, "reservation_ack_email_sent", NoStatus),
                                  Ev(r, "reservation_admin_notified", NoStatus)>>]]
    /\ UNCHANGED <<reservations, issued, events, vehicles, slots>>

\* findOne(x) succeeds: the handler goes on at pc with the entity `want' it
\* will save, or with NoRow when it will not save it.
Loaded(r, x, op, pc, vehicle, want, todo) ==
    /\ MayStart(r, x)
    /\ reservations[x] # NoRow
    /\ requests' = [requests EXCEPT ![r] =
          [Idle EXCEPT !.pc = pc, !.op = op, !.id = x, !.vehicle = vehicle,
                       !.want = want, !.todo = todo,
                       !.seen = IF want = NoRow THEN {} ELSE events[x]]]
    /\ UNCHANGED <<reservations, issued, events, vehicles, slots>>

OrElse(value, default) == IF value = Unset THEN default ELSE value

\* PATCH /reservations/:id.  The entity keeps the vehicle it was loaded with:
\* save() takes the column from the loaded `vehicle' relation, not from the
\* vehicleId assigned in update(), whenever that relation is not null.
LoadUpdate(r, x, dto) ==
    LET row  == reservations[x]
        next == OrElse(dto.vehicle, row.vehicle)
        s    == OrElse(dto.start, row.start)
        e    == OrElse(dto.end, row.end)
    IN  /\ "update" \in Operations
        /\ row # NoRow
        /\ \/ Retargets
           \/ row.vehicle = NoVehicle
           \/ dto.vehicle \in {Unset, row.vehicle}
        /\ EnsureDateRange(s, e)
        /\ Loaded(r, x, "update",
                  CASE dto.vehicle # Unset -> "vehicle"
                    [] dto.vehicle = Unset /\ next # NoVehicle -> "slots"
                    [] OTHER -> "select",
                  next,
                  [row EXCEPT !.vehicle = IF row.vehicle # NoVehicle
                                          THEN row.vehicle ELSE next,
                              !.start = s, !.end = e],
                  <<Ev(r, "reservation_updated", NoStatus)>>)

\* PATCH /reservations/:id/status
LoadUpdateStatus(r, x, status) ==
    LET row == reservations[x]
    IN  /\ "updateStatus" \in Operations
        /\ row # NoRow
        /\ status \in ALLOWED_TRANSITIONS[row.status]
        /\ Loaded(r, x, "updateStatus", "select", NoVehicle,
                  [row EXCEPT !.status = status],
                  <<Ev(r, "reservation_status_changed", status),
                    Ev(r, STATUS_EVENT_MAP[status], status)>>)

\* POST /reservations/:id/stripe-preauth
LoadPreauth(r, x) ==
    LET row == reservations[x]
    IN  /\ "preauth" \in Operations
        /\ row # NoRow
        /\ row.status = "EN_ATTENTE_PAIEMENT"
        /\ Loaded(r, x, "preauth", "append", NoVehicle, NoRow,
                  <<Ev(r, "reservation_stripe_preauth_created", NoStatus),
                    Ev(r, "reservation_status_changed", "CONFIRMEE")>>)

\* Mutant: the two required statuses swapped.
EventFromSwapped == [t \in {"reservation_vehicle_handover", "reservation_closed"} |->
    IF t = "reservation_closed" THEN "CONFIRMEE" ELSE "EN_COURS"]

\* The status createEvent requires and the one it stores, by event type.
EventFrom == [t \in {"reservation_vehicle_handover", "reservation_closed"} |->
    IF t = "reservation_closed" THEN "EN_COURS" ELSE "CONFIRMEE"]
EventTo == [t \in {"reservation_vehicle_handover", "reservation_closed"} |->
    IF t = "reservation_closed" THEN "CLOTUREE" ELSE "EN_COURS"]

\* Mutant: the status is stored but its change is not announced.
LoadStatusEventSilent(r, x, body) ==
    LET row == reservations[x]
    IN  /\ "event" \in Operations
        /\ body.type \in DOMAIN EventFrom
        /\ row # NoRow
        /\ row.status = EventFrom[body.type]
        /\ Loaded(r, x, "event", "select", NoVehicle,
                  [row EXCEPT !.status = EventTo[body.type]],
                  <<Note(r, body)>>)

\* POST /reservations/:id/events of a type that moves the status
LoadStatusEvent(r, x, body) ==
    LET row == reservations[x]
    IN  /\ "event" \in Operations
        /\ body.type \in DOMAIN EventFrom
        /\ row # NoRow
        /\ row.status = EventFrom[body.type]
        /\ Loaded(r, x, "event", "select", NoVehicle,
                  [row EXCEPT !.status = EventTo[body.type]],
                  <<Ev(r, "reservation_status_changed", EventTo[body.type]),
                    Note(r, body)>>)

\* POST /reservations/:id/events of any other type, be it one of those the
\* service uses itself
LoadNote(r, x, body) ==
    /\ "event" \in Operations
    /\ body.type \notin DOMAIN EventFrom
    /\ Loaded(r, x, "event", "append", NoVehicle, NoRow, <<Note(r, body)>>)

\* DELETE /reservations/:id
LoadRemove(r, x) ==
    /\ "remove" \in Operations
    /\ Loaded(r, x, "remove", "delete", NoVehicle, NoRow, <<>>)

-----------------------------------------------------------------------------
(***************************************************************************)
(* The checks of create and update, one query each.                        *)
(***************************************************************************)

\* Where a request whose checks are all passed goes on.
AfterChecks(r) == IF requests[r].op = "create" THEN "insert" ELSE "select"

Goto(r, pc) ==
    /\ requests' = [requests EXCEPT ![r] =
          IF pc \in Ended THEN Onward(@, pc, <<>>) ELSE [@ EXCEPT !.pc = pc]]
    /\ UNCHANGED <<reservations, issued, events, vehicles, slots>>

\* Mutant: only a missing vehicle is refused, not a blocked one.
CheckVehicleExists(r) ==
    /\ requests[r].pc = "vehicle"
    /\ Goto(r, IF vehicles[requests[r].vehicle] # "gone"
               THEN "slots" ELSE "refused")

\* ensureVehicleAssignable
CheckVehicle(r) ==
    /\ requests[r].pc = "vehicle"
    /\ Goto(r, IF vehicles[requests[r].vehicle] = "assignable"
               THEN "slots" ELSE "refused")

\* A schedule slot of vehicle v meets the range of w.
SlotConflict(v, w) ==
    \E k \in slots : k.vehicle = v /\ Overlaps(k.start, k.end, w.start, w.end)

\* ensureNoVehicleOverlap, first query
CheckSlots(r) ==
    /\ requests[r].pc = "slots"
    /\ Goto(r, IF SlotConflict(requests[r].vehicle, requests[r].want)
               THEN "refused" ELSE "blocking")

\* Mutant: EN_COURS missing from the statuses the queries look for.
BlockingOthersNotRunning(r) ==
    {x \in ReservationIds \ {requests[r].id} :
        /\ Blocking(reservations[x]) /\ reservations[x].status # "EN_COURS"
        /\ reservations[x].vehicle = requests[r].vehicle}

\* The blocking reservations of request r's vehicle, r's own one excluded.
BlockingOthers(r) ==
    {x \in ReservationIds \ {requests[r].id} :
        Blocking(reservations[x]) /\ reservations[x].vehicle = requests[r].vehicle}

\* Mutant: wait for the vehicle to be free instead of looking at the dates.
CountBlockingWaits(r) ==
    /\ requests[r].pc = "blocking"
    /\ Goto(r, IF BlockingOthers(r) = {} THEN AfterChecks(r) ELSE "blocking")

\* ensureNoVehicleOverlap, second query: no such reservation at all
CountBlocking(r) ==
    /\ requests[r].pc = "blocking"
    /\ Goto(r, IF BlockingOthers(r) = {} THEN AfterChecks(r) ELSE "overlap")

\* ensureNoVehicleOverlap, third query
CheckOverlap(r) ==
    LET w == requests[r].want
    IN  /\ requests[r].pc = "overlap"
        /\ Goto(r, IF \E x \in BlockingOthers(r) :
                         Overlaps(reservations[x].start, reservations[x].end,
                                  w.start, w.end)
                   THEN "refused" ELSE AfterChecks(r))

-----------------------------------------------------------------------------
(***************************************************************************)
(* The writes.                                                             *)
(***************************************************************************)

VehicleGone(v) == v # NoVehicle /\ vehicles[v] = "gone"

\* The statement request r runs next violates a constraint of the schema:
\* a foreign key, the primary key, or NOT NULL on the orphaned timeline rows
\* (those in the table but not in the loaded relation, which save() detaches).
Violates(r) ==
    LET q == requests[r]
    IN  \/ q.pc = "insert" /\ VehicleGone(q.want.vehicle)
        \/ q.pc = "save" /\ \/ (q.found \ q.seen) \cap events[q.id] # {}
                            \/ reservations[q.id] = NoRow /\ ~(q.seen \subseteq q.found)
                            \/ /\ reservations[q.id] # NoRow
                               /\ "vehicle" \in q.diff
                               /\ VehicleGone(q.want.vehicle)
        \/ q.pc = "reinsert" /\ \/ reservations[q.id] # NoRow
                                \/ VehicleGone(q.want.vehicle)
        \/ q.pc = "append" /\ reservations[q.id] = NoRow

\* Mutant: the first timeline event is not emitted.
InsertUnrecorded(r, x) ==
    /\ requests[r].pc = "insert"
    /\ ~Violates(r)
    /\ x \notin issued
    /\ reservations' = [reservations EXCEPT ![x] = requests[r].want]
    /\ issued' = issued \cup {x}
    /\ requests' = [requests EXCEPT ![r] =
          [Onward(@, "append", Tail(@.todo)) EXCEPT !.id = x]]
    /\ UNCHANGED <<events, vehicles, slots>>

\* create: save() of an entity without id is a single INSERT
Insert(r, x) ==
    /\ requests[r].pc = "insert"
    /\ ~Violates(r)
    /\ x \notin issued
    /\ reservations' = [reservations EXCEPT ![x] = requests[r].want]
    /\ issued' = issued \cup {x}
    /\ requests' = [requests EXCEPT ![r] =
          [Onward(@, "append", @.todo) EXCEPT !.id = x]]
    /\ UNCHANGED <<events, vehicles, slots>>

\* save(), the SELECT: which columns differ, which timeline rows there are;
\* without a row, save() will INSERT the entity.
SaveSelect(r) ==
    LET q   == requests[r]
        row == reservations[q.id]
    IN  /\ q.pc = "select"
        /\ requests' = [requests EXCEPT ![r] =
              IF row = NoRow THEN [q EXCEPT !.pc = "reinsert"]
              ELSE [q EXCEPT !.pc = "save",
                             !.diff = {c \in Columns : q.want[c] # row[c]},
                             !.found = events[q.id]]]
        /\ UNCHANGED <<reservations, issued, events, vehicles, slots>>

\* The row with the columns in cols taken from want.
Merge(row, want, cols) ==
    [status  |-> IF "status"  \in cols THEN want.status  ELSE row.status,
     vehicle |-> IF "vehicle" \in cols THEN want.vehicle ELSE row.vehicle,
     start   |-> IF "start"   \in cols THEN want.start   ELSE row.start,
     end     |-> IF "end"     \in cols THEN want.end     ELSE row.end]

\* save(), the transaction: an UPDATE of the columns that differed at the
\* SELECT, and an INSERT of the loaded events that were missing then.  On a
\* row deleted since, the UPDATE touches nothing and is no error.
SaveUpdate(r) ==
    LET q   == requests[r]
        row == reservations[q.id]
    IN  /\ q.pc = "save"
        /\ ~Violates(r)
        /\ reservations' = [reservations EXCEPT ![q.id] =
              IF row = NoRow THEN NoRow ELSE Merge(row, q.want, q.diff)]
        /\ events' = [events EXCEPT ![q.id] = @ \cup (q.seen \ q.found)]
        /\ requests' = [requests EXCEPT ![r] = Onward(q, "append", q.todo)]
        /\ UNCHANGED <<issued, vehicles, slots>>

\* save(), the INSERT of an entity whose row is gone, with its loaded events
Reinsert(r) ==
    LET q == requests[r]
    IN  /\ q.pc = "reinsert"
        /\ ~Violates(r)
        /\ reservations' = [reservations EXCEPT ![q.id] = q.want]
        /\ events' = [events EXCEPT ![q.id] = q.seen]
        /\ requests' = [requests EXCEPT ![r] = Onward(q, "append", q.todo)]
        /\ UNCHANGED <<issued, vehicles, slots>>

\* appendSystemEvent, and every other INSERT of a timeline row.  In
\* createStripePreauth the status is stored between the two events.
AppendEvent(r) ==
    LET q == requests[r]
    IN  /\ q.pc = "append"
        /\ ~Violates(r)
        /\ events' = [events EXCEPT ![q.id] = @ \cup {Head(q.todo)}]
        /\ requests' = [requests EXCEPT ![r] =
              Onward(q, CASE Len(q.todo) = 1 -> "done"
                          [] Len(q.todo) # 1 /\ q.op = "preauth" -> "confirm"
                          [] OTHER -> "append",
                     Tail(q.todo))]
        /\ UNCHANGED <<reservations, issued, vehicles, slots>>

\* Mutant: the status is not stored between the two events.
ConfirmPreauthLost(r) ==
    /\ requests[r].pc = "confirm"
    /\ requests' = [requests EXCEPT ![r] = Onward(@, "append", @.todo)]
    /\ UNCHANGED <<reservations, issued, events, vehicles, slots>>

\* Mutant: the row is written whether or not it is there (an upsert).
ConfirmPreauthUpsert(r) ==
    LET q == requests[r]
    IN  /\ q.pc = "confirm"
        /\ reservations' = [reservations EXCEPT ![q.id] =
              IF @ = NoRow THEN CHOOSE w \in Row : w.status = "CONFIRMEE"
              ELSE [@ EXCEPT !.status = "CONFIRMEE"]]
        /\ requests' = [requests EXCEPT ![r] = Onward(q, "append", q.todo)]
        /\ UNCHANGED <<issued, events, vehicles, slots>>

\* createStripePreauth: UPDATE ... WHERE id, whatever the status is by now
ConfirmPreauth(r) ==
    LET q == requests[r]
    IN  /\ q.pc = "confirm"
        /\ reservations' = [reservations EXCEPT ![q.id] =
              IF @ = NoRow THEN NoRow ELSE [@ EXCEPT !.status = "CONFIRMEE"]]
        /\ requests' = [requests EXCEPT ![r] = Onward(q, "append", q.todo)]
        /\ UNCHANGED <<issued, events, vehicles, slots>>

\* remove: the DELETE, and ON DELETE CASCADE on the timeline
Delete(r) ==
    LET q == requests[r]
    IN  /\ q.pc = "delete"
        /\ reservations' = [reservations EXCEPT ![q.id] = NoRow]
        /\ events' = [events EXCEPT ![q.id] = {}]
        /\ requests' = [requests EXCEPT ![r] = Onward(q, "done", <<>>)]
        /\ UNCHANGED <<issued, vehicles, slots>>

\* A statement fails and the handler ends with a 500 (or, under MayFail, with
\* the process).  What it wrote before stays.
Fail(r) ==
    /\ InFlight(r)
    /\ Violates(r) \/ MayFail
    /\ Goto(r, "failed")

-----------------------------------------------------------------------------
(***************************************************************************)
(* What the fleet and vehicle services do to the rows the checks read: the *)
(* actions of FleetView, which the handlers in Fleet implement.            *)
(***************************************************************************)

View == INSTANCE FleetView

FleetMayAct ==
    /\ "fleet" \in Operations
    /\ Isolation = "serial" => \A q \in RequestIds : ~InFlight(q)

\* FleetService.updateVehicleStatus, createIncident; VehiclesService.update
SetVehicle(v, s) ==
    /\ FleetMayAct
    /\ View!SetVehicle(v, s)
    /\ UNCHANGED <<reservations, issued, events, requests>>

\* VehiclesService.remove: on reservations the key is ON DELETE SET NULL
DeleteVehicle(v) ==
    /\ FleetMayAct
    /\ View!DeleteVehicle(v)
    /\ reservations' = [x \in ReservationIds |->
          IF reservations[x] # NoRow /\ reservations[x].vehicle = v
          THEN [reservations[x] EXCEPT !.vehicle = NoVehicle]
          ELSE reservations[x]]
    /\ UNCHANGED <<issued, events, requests>>

\* FleetService.createScheduleSlot
AddSlot(v, range) ==
    /\ FleetMayAct
    /\ View!AddSlot(v, range[1], range[2])
    /\ UNCHANGED <<reservations, issued, events, requests>>

\* FleetService.updateScheduleSlot
MoveSlot(k, range) ==
    /\ FleetMayAct
    /\ View!MoveSlot(k, range[1], range[2])
    /\ UNCHANGED <<reservations, issued, events, requests>>

\* FleetService.removeScheduleSlot
RemoveSlot(k) ==
    /\ FleetMayAct
    /\ View!RemoveSlot(k)
    /\ UNCHANGED <<reservations, issued, events, requests>>

\* No request in flight and none coming.
Quiet == (\A r \in RequestIds : ~InFlight(r)) /\ UNCHANGED vars

-----------------------------------------------------------------------------
Start(r) ==
    \/ \E v \in VehicleIds \cup {NoVehicle}, s, e \in Times : Create(r, v, s, e)
    \/ \E x \in ReservationIds :
          \/ \E dto \in Updates : LoadUpdate(r, x, dto)
          \/ \E status \in Statuses : LoadUpdateStatus(r, x, status)
          \/ LoadPreauth(r, x)
          \/ \E body \in EventBodies :
                LoadStatusEvent(r, x, body) \/ LoadNote(r, x, body)
          \/ LoadRemove(r, x)

\* The statement of request r that comes next.
Step(r) ==
    \/ CheckVehicle(r) \/ CheckSlots(r) \/ CountBlocking(r) \/ CheckOverlap(r)
    \/ \E x \in ReservationIds : Insert(r, x)
    \/ SaveSelect(r) \/ SaveUpdate(r) \/ Reinsert(r)
    \/ AppendEvent(r) \/ ConfirmPreauth(r) \/ Delete(r) \/ Fail(r)

Fleet ==
    \/ \E v \in VehicleIds, s \in {"assignable", "blocked"} : SetVehicle(v, s)
    \/ \E v \in VehicleIds : DeleteVehicle(v)
    \/ \E v \in VehicleIds, range \in SlotRanges : AddSlot(v, range)
    \/ \E k \in slots, range \in SlotRanges : MoveSlot(k, range)
    \/ \E k \in slots : RemoveSlot(k)

Next == (\E r \in RequestIds : Start(r) \/ Step(r)) \/ Fleet \/ Quiet

Spec == Init /\ [][Next]_vars

\* A statement fails for certain only when it violates a constraint.
Progress(r) == Step(r) /\ (requests'[r].pc = "failed" => Violates(r))

\* Node's event loop and PostgreSQL bring every awaited statement to an end.
FairSpec == Spec /\ \A r \in RequestIds : WF_vars(Progress(r))

-----------------------------------------------------------------------------
TypeOK ==
    /\ reservations \in [ReservationIds -> Row \cup {NoRow}]
    /\ issued \subseteq ReservationIds
    /\ events \in [ReservationIds -> SUBSET Event]
    /\ vehicles \in [VehicleIds -> {"assignable", "blocked", "gone"}]
    /\ slots \subseteq Slot
    /\ requests \in [RequestIds -> Request]

(***************************************************************************)
(* The calendar: no vehicle is promised to two reservations at one time    *)
(* (ensureNoVehicleOverlap, called by create and update).                  *)
(***************************************************************************)
NoDoubleBooking ==
    \A x, y \in ReservationIds :
        x # y => ~Clash(reservations[x], reservations[y])

(***************************************************************************)
(* The abstract calendar: a reservation under a blocking status with a     *)
(* vehicle is a booking; under any other status, or removed, it is over.   *)
(***************************************************************************)
BookingOf(w) ==
    IF Blocking(w) /\ w.vehicle # NoVehicle
    THEN [vehicle |-> w.vehicle, start |-> w.start, end |-> w.end]
    ELSE NoRow

Bookings == [x \in ReservationIds |-> BookingOf(reservations[x])]

Over == {x \in issued : ~Blocking(reservations[x])}

Promised == INSTANCE Calendar
    WITH bookings <- Bookings, over <- Over, NoBooking <- NoRow

(***************************************************************************)
(* One request at a time, the statements of ReservationsService amount to  *)
(* the atomic calendar: every write places, moves or ends one booking that *)
(* is free at that moment, and a reservation that is over stays over.      *)
(***************************************************************************)
ImplementsCalendar == Promised!Spec

(***************************************************************************)
(* Every stored range is ordered: ensureDateRange on the merged range of   *)
(* update() protects the pair of columns, although each is written alone.  *)
(***************************************************************************)
RangesOrdered ==
    \A x \in ReservationIds :
        reservations[x] # NoRow => reservations[x].start < reservations[x].end

(***************************************************************************)
(* The lifecycle: whatever handler writes it, the status of a reservation  *)
(* only moves along ALLOWED_TRANSITIONS.                                   *)
(***************************************************************************)
LegalTransitions ==
    [][\A x \in ReservationIds :
          reservations[x] # NoRow /\ reservations'[x] # NoRow =>
             \/ reservations'[x].status = reservations[x].status
             \/ reservations'[x].status
                   \in ALLOWED_TRANSITIONS[reservations[x].status]]_vars

(***************************************************************************)
(* Who can undo remove(): a save() that follows the DELETE inserts the row *)
(* again, but only from an entity that was in memory before the DELETE.    *)
(* Once no handler holds one any more, the reservation is gone for good:   *)
(* no event, status, preauthorisation or second removal brings it back.    *)
(***************************************************************************)
Gone(x) ==
    /\ x \in issued /\ reservations[x] = NoRow
    /\ \A r \in RequestIds :
          InFlight(r) /\ requests[r].id = x => requests[r].want = NoRow

GoneForGood == [][\A x \in ReservationIds : Gone(x) => Gone(x)']_vars

(***************************************************************************)
(* A booking is placed on, or moved along, a vehicle only where no         *)
(* schedule slot of that vehicle is in the way, and is placed on it only   *)
(* while it is assignable (ensureVehicleAssignable and the slot query of   *)
(* ensureNoVehicleOverlap still true when the row is written).             *)
(***************************************************************************)
BookingRespectsFleet ==
    [][\A x \in ReservationIds :
          LET old == reservations[x]
              new == reservations'[x]
              placed == old = NoRow \/ old.vehicle # new.vehicle
              moved  == placed \/ old.start # new.start \/ old.end # new.end
          IN  (new # NoRow /\ new.vehicle # NoVehicle) =>
                 /\ moved  => ~SlotConflict(new.vehicle, new)
                 /\ placed => vehicles[new.vehicle] = "assignable"]_vars

(***************************************************************************)
(* A deposit is preauthorised once: createStripePreauth leaves at most one *)
(* Stripe preauthorisation in the timeline of a reservation, as long as no *)
(* handler failed between recording it and confirming the reservation.     *)
(***************************************************************************)
SinglePreauth ==
    (\A r \in RequestIds : requests[r].pc # "failed") =>
        \A x \in ReservationIds : \A e, f \in events[x] :
            LET stripe(ev) == /\ ev.type = "reservation_stripe_preauth_created"
                              /\ ev.by # NoRequest
                              /\ requests[ev.by].op = "preauth"
            IN  stripe(e) /\ stripe(f) => e = f

(***************************************************************************)
(* Each stage of a dossier is announced once: the lifecycle has no cycle   *)
(* and a handler announces a status only after storing it, so the service  *)
(* never records two reservation_status_changed events of one status.      *)
(* Clients may write such events themselves, and those are left out.       *)
(***************************************************************************)
StatusAnnouncedOnce ==
    \A x \in ReservationIds : \A e, f \in events[x] :
        /\ e.type = "reservation_status_changed" /\ ~e.client
        /\ f.type = "reservation_status_changed" /\ ~f.client
        /\ e.status = f.status
        => e = f

(***************************************************************************)
(* The timeline accounts for the status: once the requests are over, some  *)
(* event of the service announced the status the reservation is in (each   *)
(* status write is followed by its reservation_status_changed).  A removal *)
(* takes the timeline with it, and a save() that brings the reservation    *)
(* back brings back the events it had loaded only: those are left out.     *)
(***************************************************************************)
Removing == \E r \in RequestIds : requests[r].op = "remove"

TimelineExplainsStatus ==
    ~Removing /\ (\A r \in RequestIds : ~InFlight(r)) =>
        \A x \in ReservationIds :
            reservations[x] # NoRow =>
                \E e \in events[x] :
                    ~e.client /\ e.status = reservations[x].status

(***************************************************************************)
(* Line 113: "First timeline event is always emitted at creation": once a  *)
(* create request is over, the reservation it stored has its               *)
(* reservation_created event, unless reservations are being removed.       *)
(***************************************************************************)
CreationRecorded ==
    ~Removing => \A r \in RequestIds :
        LET q == requests[r]
        IN  /\ q.op = "create" /\ q.pc \in Ended
            /\ q.id # NoId /\ reservations[q.id] # NoRow
            => Ev(r, "reservation_created", "NOUVELLE_DEMANDE") \in events[q.id]

(***************************************************************************)
(* Every request gets an answer: no handler waits for another one.         *)
(***************************************************************************)
EveryRequestEnds ==
    \A r \in RequestIds : InFlight(r) ~> requests[r].pc \in Ended

=============================================================================
