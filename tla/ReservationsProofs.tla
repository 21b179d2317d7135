------------------------- MODULE ReservationsProofs -------------------------
(***************************************************************************)
(* Proofs about Reservations, for every number of reservations, vehicles   *)
(* and requests.                                                           *)
(***************************************************************************)
EXTENDS Reservations, TLAPS

\* Where a handler holds an entity it will store.
Checking == {"vehicle", "slots", "blocking", "overlap"}
Holding  == Checking \cup {"insert", "select", "save", "reinsert"}

(***************************************************************************)
(* What a handler in each phase remembers: it holds an entity until it has *)
(* stored it, it knows its reservation from the moment the row exists, and *)
(* until it ends there is a timeline row left to insert.                   *)
(***************************************************************************)
Shape(q) ==
    /\ q \in Request
    /\ q.pc \in Holding => q.want \in Row
    /\ q.pc \in Holding \cup {"append", "confirm"} => q.todo # <<>>
    /\ q.pc \in {"select", "save", "reinsert", "append", "confirm", "delete"}
          => q.id \in ReservationIds
    /\ q.pc \in Checking /\ q.op # "create" => q.id \in ReservationIds

TypeInv ==
    /\ TypeOK
    /\ \A r \in RequestIds : Shape(requests[r])

-----------------------------------------------------------------------------
\* The idle request, and a handler that goes on, have the right shape.
LEMMA IdleShape == Shape(Idle)
  BY DEF Shape, Request, Idle, PcValues, Ended, Holding, Checking

LEMMA OnwardShape ==
    ASSUME NEW q \in Request, NEW pc \in Ended \cup {"append", "confirm"},
           NEW todo \in Seq(Event),
           pc \notin Ended => todo # <<>> /\ q.id \in ReservationIds
    PROVE  Shape(Onward(q, pc, todo))
  BY DEF Shape, Request, Onward, Idle, PcValues, Ended, Holding, Checking

LEMMA EmptyTodo == <<>> \in Seq(Event)
  OBVIOUS

LEMMA LongerTail ==
    ASSUME NEW todo \in Seq(Event), todo # <<>>, Len(todo) # 1
    PROVE  Tail(todo) # <<>>
<1>1. Len(todo) \in Nat /\ Len(todo) # 0
  OBVIOUS
<1>2. Len(Tail(todo)) = Len(todo) - 1
  BY <1>1
<1>3. Len(Tail(todo)) # 0
  BY <1>1, <1>2
<1>4. Len(<<>>) = 0
  OBVIOUS
<1> QED BY <1>3, <1>4

\* Replacing the record of one request by a well-shaped one.
LEMMA OneRequest ==
    ASSUME TypeInv, NEW r \in RequestIds, NEW q, Shape(q),
           requests' = [requests EXCEPT ![r] = q],
           reservations' \in [ReservationIds -> Row \cup {NoRow}],
           issued' \subseteq ReservationIds,
           events' \in [ReservationIds -> SUBSET Event],
           UNCHANGED <<vehicles, slots>>
    PROVE  TypeInv'
  BY DEF TypeInv, TypeOK, Shape


-----------------------------------------------------------------------------
(***************************************************************************)
(* The first statements.                                                   *)
(***************************************************************************)
LEMMA EvType ==
    ASSUME NEW r \in RequestIds, NEW type \in EventTypes,
           NEW status \in Statuses \cup {NoStatus}
    PROVE  Ev(r, type, status) \in Event
  BY DEF Ev, Event

LEMMA NoteType ==
    ASSUME NEW r \in RequestIds, NEW body \in EventBodies
    PROVE  Note(r, body) \in Event
  BY InputAssumption DEF Note, Event, EventBody

LEMMA InitTypeInv == Init => TypeInv
<1> SUFFICES ASSUME Init PROVE TypeInv
  OBVIOUS
<1>1. reservations \in [ReservationIds -> Row \cup {NoRow}]
  BY InputAssumption DEF Init
<1>2. events \in [ReservationIds -> SUBSET Event]
  <2> SUFFICES ASSUME NEW x \in ReservationIds, reservations[x] # NoRow
               PROVE  Ev(NoRequest, "reservation_status_changed",
                         reservations[x].status) \in Event
    BY DEF Init
  <2>1. reservations[x].status \in Statuses
    BY <1>1 DEF Row
  <2> QED BY <2>1 DEF Ev, Event, EventTypes, ServiceEventTypes
<1>3. \A r \in RequestIds : Shape(requests[r])
  BY IdleShape DEF Init
<1>4. requests \in [RequestIds -> Request]
  BY IdleShape DEF Init, Shape
<1> QED BY <1>1, <1>2, <1>3, <1>4 DEF TypeInv, TypeOK, Init

LEMMA CreateTypeInv ==
    ASSUME TypeInv, NEW r \in RequestIds, NEW v \in VehicleIds \cup {NoVehicle},
           NEW s \in Times, NEW e \in Times, Create(r, v, s, e)
    PROVE  TypeInv'
<1> DEFINE want == NewRow(v, s, e)
           todo == <<Ev(r, "reservation_created", "NOUVELLE_DEMANDE"),
                     Ev(r, "reservation_ack_email_sent", NoStatus),
                     Ev(r, "reservation_admin_notified", NoStatus)>>
           q == [Idle EXCEPT !.pc = IF v = NoVehicle THEN "insert" ELSE "vehicle",
                             !.op = "create", !.vehicle = v, !.want = want,
                             !.todo = todo]
<1>1. want \in Row
  BY DEF NewRow, Row, Statuses
<1>2. todo \in Seq(Event) /\ todo # <<>>
  BY EvType DEF EventTypes, ServiceEventTypes, Statuses
<1> HIDE DEF want, todo
<1>3. Shape(q)
  BY <1>1, <1>2 DEF Shape, Request, Idle, PcValues, Ended, Holding, Checking
<1>4. requests' = [requests EXCEPT ![r] = q]
  BY DEF Create, want, todo
<1> HIDE DEF q
<1> QED BY <1>3, <1>4, OneRequest DEF Create, TypeInv, TypeOK

LEMMA LoadedTypeInv ==
    ASSUME TypeInv, NEW r \in RequestIds, NEW x \in ReservationIds,
           NEW op \in {"update", "updateStatus", "preauth", "event", "remove"},
           NEW pc \in {"vehicle", "slots", "select", "append", "delete"},
           NEW v \in VehicleIds \cup {NoVehicle},
           NEW want \in Row \cup {NoRow}, NEW todo \in Seq(Event),
           pc \in Holding => want \in Row,
           pc # "delete" => todo # <<>>,
           Loaded(r, x, op, pc, v, want, todo)
    PROVE  TypeInv'
<1> DEFINE q == [Idle EXCEPT !.pc = pc, !.op = op, !.id = x, !.vehicle = v,
                             !.want = want, !.todo = todo,
                             !.seen = IF want = NoRow THEN {} ELSE events[x]]
<1>0. events[x] \in SUBSET Event
  BY DEF TypeInv, TypeOK
<1>1. Shape(q)
  BY <1>0 DEF Shape, Request, Idle, PcValues, Ended, Holding, Checking
<1>2. requests' = [requests EXCEPT ![r] = q]
  BY DEF Loaded
<1> HIDE DEF q
<1> QED BY <1>1, <1>2, OneRequest DEF Loaded, TypeInv, TypeOK

LEMMA StatusRow ==
    ASSUME NEW row \in Row, NEW status \in Statuses
    PROVE  [row EXCEPT !.status = status] \in Row
  BY DEF Row

LEMMA StartTypeInv ==
    ASSUME TypeInv, NEW r \in RequestIds, Start(r)
    PROVE  TypeInv'
<1>1. ASSUME NEW v \in VehicleIds \cup {NoVehicle}, NEW s \in Times,
             NEW e \in Times, Create(r, v, s, e)
      PROVE  TypeInv'
  BY <1>1, CreateTypeInv
<1> SUFFICES ASSUME NEW x \in ReservationIds, reservations[x] # NoRow,
                    \/ \E dto \in Updates : LoadUpdate(r, x, dto)
                    \/ \E status \in Statuses : LoadUpdateStatus(r, x, status)
                    \/ LoadPreauth(r, x)
                    \/ \E body \in EventBodies :
                          LoadStatusEvent(r, x, body) \/ LoadNote(r, x, body)
                    \/ LoadRemove(r, x)
             PROVE  TypeInv'
  BY <1>1 DEF Start, LoadUpdate, LoadUpdateStatus, LoadPreauth, LoadStatusEvent,
     LoadNote, LoadRemove, Loaded
<1>2. reservations[x] \in Row
  BY DEF TypeInv, TypeOK
<1>3. ASSUME NEW dto \in Updates, LoadUpdate(r, x, dto)
      PROVE  TypeInv'
  <2> DEFINE next == OrElse(dto.vehicle, reservations[x].vehicle)
             want == [reservations[x] EXCEPT
                        !.vehicle = IF reservations[x].vehicle # NoVehicle
                                    THEN reservations[x].vehicle ELSE next,
                        !.start = OrElse(dto.start, reservations[x].start),
                        !.end = OrElse(dto.end, reservations[x].end)]
             pc == CASE dto.vehicle # Unset -> "vehicle"
                     [] dto.vehicle = Unset /\ next # NoVehicle -> "slots"
                     [] OTHER -> "select"
  <2>1. dto \in Dto
    BY InputAssumption
  <2>2. next \in VehicleIds \cup {NoVehicle} /\ want \in Row
    BY <1>2, <2>1 DEF Dto, Row, OrElse
  <2>3. pc \in {"vehicle", "slots", "select"}
    OBVIOUS
  <2>4. <<Ev(r, "reservation_updated", NoStatus)>> \in Seq(Event)
    BY EvType DEF EventTypes, ServiceEventTypes
  <2>5. Loaded(r, x, "update", pc, next, want,
               <<Ev(r, "reservation_updated", NoStatus)>>)
    BY <1>3 DEF LoadUpdate
  <2> HIDE DEF next, want, pc
  <2> QED BY <2>2, <2>3, <2>4, <2>5, LoadedTypeInv
<1>4. ASSUME NEW status \in Statuses, LoadUpdateStatus(r, x, status)
      PROVE  TypeInv'
  <2>1. STATUS_EVENT_MAP[status] \in EventTypes
    BY DEF STATUS_EVENT_MAP, EventTypes, ServiceEventTypes, Statuses
  <2>2. <<Ev(r, "reservation_status_changed", status),
          Ev(r, STATUS_EVENT_MAP[status], status)>> \in Seq(Event)
    BY <2>1, EvType DEF EventTypes, ServiceEventTypes
  <2> QED BY <1>2, <1>4, <2>2, StatusRow, LoadedTypeInv DEF LoadUpdateStatus
<1>5. CASE LoadPreauth(r, x)
  <2>1. <<Ev(r, "reservation_stripe_preauth_created", NoStatus),
          Ev(r, "reservation_status_changed", "CONFIRMEE")>> \in Seq(Event)
    BY EvType DEF EventTypes, ServiceEventTypes, Statuses
  <2> QED BY <1>5, <2>1, LoadedTypeInv DEF LoadPreauth, Holding, Checking
<1>6. ASSUME NEW body \in EventBodies, LoadStatusEvent(r, x, body)
      PROVE  TypeInv'
  <2>1. EventTo[body.type] \in Statuses
    BY <1>6 DEF LoadStatusEvent, EventFrom, EventTo, Statuses
  <2>2. <<Ev(r, "reservation_status_changed", EventTo[body.type]),
          Note(r, body)>> \in Seq(Event)
    BY <2>1, EvType, NoteType DEF EventTypes, ServiceEventTypes
  <2> QED BY <1>2, <1>6, <2>1, <2>2, StatusRow, LoadedTypeInv DEF LoadStatusEvent
<1>7. ASSUME NEW body \in EventBodies, LoadNote(r, x, body)
      PROVE  TypeInv'
  <2>1. <<Note(r, body)>> \in Seq(Event)
    BY NoteType
  <2> QED BY <1>7, <2>1, LoadedTypeInv DEF LoadNote, Holding, Checking
<1>8. CASE LoadRemove(r, x)
  BY <1>8, LoadedTypeInv, EmptyTodo DEF LoadRemove, Holding, Checking
<1> QED BY <1>3, <1>4, <1>5, <1>6, <1>7, <1>8

-----------------------------------------------------------------------------
(***************************************************************************)
(* The statements that follow.                                             *)
(***************************************************************************)
LEMMA GotoTypeInv ==
    ASSUME TypeInv, NEW r \in RequestIds, NEW pc \in PcValues, Goto(r, pc),
           \/ pc \in Ended
           \/ /\ requests[r].pc \in Checking
              /\ pc \in Checking \cup {AfterChecks(r)}
    PROVE  TypeInv'
<1> DEFINE q == IF pc \in Ended THEN Onward(requests[r], pc, <<>>)
                ELSE [requests[r] EXCEPT !.pc = pc]
<1>1. Shape(requests[r]) /\ requests[r] \in Request
  BY DEF TypeInv, Shape
<1>2. Shape(q)
  <2>1. CASE pc \in Ended
    BY <1>1, <2>1, OnwardShape, EmptyTodo
  <2>2. CASE pc \notin Ended
    BY <1>1, <2>2
        DEF Shape, Request, AfterChecks, Holding, Checking, PcValues, Ended
  <2> QED BY <2>1, <2>2
<1>3. requests' = [requests EXCEPT ![r] = q]
  BY DEF Goto, TypeInv, TypeOK
<1> HIDE DEF q
<1> QED BY <1>2, <1>3, OneRequest DEF Goto, TypeInv, TypeOK

LEMMA StepTypeInv ==
    ASSUME TypeInv, NEW r \in RequestIds, Step(r)
    PROVE  TypeInv'
<1> DEFINE q == requests[r]
<1>0. Shape(q) /\ q \in Request
  BY DEF TypeInv, Shape
<1>1. CASE CheckVehicle(r)
  BY <1>1, GotoTypeInv DEF CheckVehicle, Checking, PcValues, Ended
<1>2. CASE CheckSlots(r)
  BY <1>2, GotoTypeInv DEF CheckSlots, Checking, PcValues, Ended
<1>3. CASE CountBlocking(r)
  BY <1>3, GotoTypeInv DEF CountBlocking, AfterChecks, Checking, PcValues, Ended
<1>4. CASE CheckOverlap(r)
  BY <1>4, GotoTypeInv DEF CheckOverlap, AfterChecks, Checking, PcValues, Ended
<1>5. ASSUME NEW x \in ReservationIds, Insert(r, x)
      PROVE  TypeInv'
  <2> DEFINE p == [Onward(q, "append", q.todo) EXCEPT !.id = x]
  <2>1. q.todo \in Seq(Event) /\ q.todo # <<>> /\ q.want \in Row
    BY <1>0, <1>5 DEF Insert, Shape, Request, Holding
  <2>2. Shape(p)
    BY <1>0, <2>1
    DEF Shape, Request, Onward, Idle, PcValues, Ended, Holding, Checking
  <2>3. requests' = [requests EXCEPT ![r] = p]
    BY <1>5 DEF Insert
  <2> HIDE DEF p
  <2> QED BY <1>5, <2>1, <2>2, <2>3, OneRequest DEF Insert, TypeInv, TypeOK
<1>6. CASE SaveSelect(r)
  <2> DEFINE row == reservations[q.id]
             p == IF row = NoRow THEN [q EXCEPT !.pc = "reinsert"]
                  ELSE [q EXCEPT !.pc = "save",
                                 !.diff = {c \in Columns : q.want[c] # row[c]},
                                 !.found = events[q.id]]
  <2>1. q.pc = "select" /\ q.id \in ReservationIds
    BY <1>0, <1>6 DEF SaveSelect, Shape
  <2>2. events[q.id] \in SUBSET Event
    BY <2>1 DEF TypeInv, TypeOK
  <2>3. [q EXCEPT !.pc = "reinsert"] \in Request
    BY <1>0 DEF Request, PcValues
  <2>4. \A d \in SUBSET Columns, f \in SUBSET Event :
           [q EXCEPT !.pc = "save", !.diff = d, !.found = f] \in Request
    BY <1>0 DEF Request, PcValues
  <2>5. Shape(p)
    BY <1>0, <2>1, <2>2, <2>3, <2>4 DEF Shape, Holding, Checking, Request
  <2>6. requests' = [requests EXCEPT ![r] = p]
    BY <1>6 DEF SaveSelect
  <2> HIDE DEF p
  <2> QED BY <1>6, <2>5, <2>6, OneRequest DEF SaveSelect, TypeInv, TypeOK
<1>7. CASE SaveUpdate(r)
  <2> DEFINE row == reservations[q.id]
  <2>1. /\ q.pc = "save" /\ q.id \in ReservationIds
        /\ q.want \in Row /\ q.todo # <<>> /\ q.todo \in Seq(Event)
    BY <1>0, <1>7 DEF SaveUpdate, Shape, Request, Holding
  <2>2. row # NoRow => Merge(row, q.want, q.diff) \in Row
    <3>1. row # NoRow => row \in Row
      BY <2>1 DEF TypeInv, TypeOK
    <3> QED BY <2>1, <3>1 DEF Merge, Row
  <2>3. reservations' \in [ReservationIds -> Row \cup {NoRow}]
    BY <1>7, <2>1, <2>2 DEF SaveUpdate, TypeInv, TypeOK
  <2>4. events' \in [ReservationIds -> SUBSET Event]
    <3>1. events[q.id] \cup (q.seen \ q.found) \in SUBSET Event
      BY <1>0, <2>1 DEF TypeInv, TypeOK, Request
    <3> QED BY <1>7, <2>1, <3>1 DEF SaveUpdate, TypeInv, TypeOK
  <2>5. Shape(Onward(q, "append", q.todo))
    BY <1>0, <2>1, OnwardShape
  <2>6. requests' = [requests EXCEPT ![r] = Onward(q, "append", q.todo)]
    BY <1>7 DEF SaveUpdate
  <2> QED BY <1>7, <2>3, <2>4, <2>5, <2>6, OneRequest
          DEF SaveUpdate, TypeInv, TypeOK
<1>8. CASE Reinsert(r)
  <2>1. /\ q.pc = "reinsert" /\ q.id \in ReservationIds
        /\ q.want \in Row /\ q.todo # <<>> /\ q.todo \in Seq(Event)
        /\ q.seen \in SUBSET Event
    BY <1>0, <1>8 DEF Reinsert, Shape, Request, Holding
  <2>2. Shape(Onward(q, "append", q.todo))
    BY <1>0, <2>1, OnwardShape
  <2>3. requests' = [requests EXCEPT ![r] = Onward(q, "append", q.todo)]
    BY <1>8 DEF Reinsert
  <2> QED BY <1>8, <2>1, <2>2, <2>3, OneRequest DEF Reinsert, TypeInv, TypeOK
<1>9. CASE AppendEvent(r)
  <2> DEFINE pc == CASE Len(q.todo) = 1 -> "done"
                     [] Len(q.todo) # 1 /\ q.op = "preauth" -> "confirm"
                     [] OTHER -> "append"
  <2>1. /\ q.pc = "append" /\ q.id \in ReservationIds
        /\ q.todo # <<>> /\ q.todo \in Seq(Event)
    BY <1>0, <1>9 DEF AppendEvent, Shape, Request
  <2>2. Head(q.todo) \in Event /\ Tail(q.todo) \in Seq(Event)
    BY <2>1
  <2>3. pc \in Ended \cup {"append", "confirm"}
    BY DEF Ended
  <2>4. pc \notin Ended => Tail(q.todo) # <<>>
    BY <2>1, LongerTail DEF Ended
  <2>5. Shape(Onward(q, pc, Tail(q.todo)))
    <3> HIDE DEF pc
    <3> QED BY <1>0, <2>1, <2>2, <2>3, <2>4, OnwardShape
  <2>6. requests' = [requests EXCEPT ![r] = Onward(q, pc, Tail(q.todo))]
    BY <1>9 DEF AppendEvent
  <2>7. events' \in [ReservationIds -> SUBSET Event]
    BY <1>9, <2>1, <2>2 DEF AppendEvent, TypeInv, TypeOK
  <2> HIDE DEF pc
  <2> QED BY <1>9, <2>5, <2>6, <2>7, OneRequest DEF AppendEvent, TypeInv, TypeOK
<1>10. CASE ConfirmPreauth(r)
  <2>1. /\ q.pc = "confirm" /\ q.id \in ReservationIds
        /\ q.todo # <<>> /\ q.todo \in Seq(Event)
    BY <1>0, <1>10 DEF ConfirmPreauth, Shape, Request
  <2>2. reservations' \in [ReservationIds -> Row \cup {NoRow}]
    BY <1>10, <2>1, StatusRow DEF ConfirmPreauth, TypeInv, TypeOK, Statuses
  <2>3. Shape(Onward(q, "append", q.todo))
    BY <1>0, <2>1, OnwardShape
  <2>4. requests' = [requests EXCEPT ![r] = Onward(q, "append", q.todo)]
    BY <1>10 DEF ConfirmPreauth
  <2> QED BY <1>10, <2>2, <2>3, <2>4, OneRequest
          DEF ConfirmPreauth, TypeInv, TypeOK
<1>11. CASE Delete(r)
  <2>1. q.pc = "delete" /\ q.id \in ReservationIds
    BY <1>0, <1>11 DEF Delete, Shape
  <2>2. Shape(Onward(q, "done", <<>>))
    BY <1>0, OnwardShape, EmptyTodo DEF Ended
  <2>3. requests' = [requests EXCEPT ![r] = Onward(q, "done", <<>>)]
    BY <1>11 DEF Delete
  <2> QED BY <1>11, <2>1, <2>2, <2>3, OneRequest DEF Delete, TypeInv, TypeOK
<1>12. CASE Fail(r)
  BY <1>12, GotoTypeInv DEF Fail, PcValues, Ended
<1> QED BY <1>1, <1>2, <1>3, <1>4, <1>5, <1>6, <1>7, <1>8, <1>9, <1>10, <1>11,
           <1>12 DEF Step

LEMMA FleetTypeInv ==
    ASSUME TypeInv, Fleet
    PROVE  TypeInv'
<1>1. ASSUME NEW v \in VehicleIds, NEW s \in {"assignable", "blocked"},
             SetVehicle(v, s)
      PROVE  TypeInv'
  BY <1>1 DEF SetVehicle, TypeInv, TypeOK, Shape, View!SetVehicle
<1>2. ASSUME NEW v \in VehicleIds, DeleteVehicle(v)
      PROVE  TypeInv'
  <2>1. \A x \in ReservationIds :
           reservations[x] # NoRow => [reservations[x] EXCEPT !.vehicle = NoVehicle] \in Row
    BY DEF TypeInv, TypeOK, Row
  <2>2. reservations' \in [ReservationIds -> Row \cup {NoRow}]
    BY <1>2, <2>1 DEF DeleteVehicle, TypeInv, TypeOK, View!DeleteVehicle
  <2> QED BY <1>2, <2>2
      DEF DeleteVehicle, TypeInv, TypeOK, Shape, View!DeleteVehicle
<1>3. ASSUME NEW v \in VehicleIds, NEW range \in SlotRanges, AddSlot(v, range)
      PROVE  TypeInv'
  <2>1. [vehicle |-> v, start |-> range[1], end |-> range[2]] \in Slot
    BY InputAssumption DEF Slot
  <2> QED BY <1>3, <2>1 DEF AddSlot, TypeInv, TypeOK, Shape, View!AddSlot
<1>4. ASSUME NEW k \in slots, RemoveSlot(k)
      PROVE  TypeInv'
  BY <1>4 DEF RemoveSlot, TypeInv, TypeOK, Shape, View!RemoveSlot
<1>5. ASSUME NEW k \in slots, NEW range \in SlotRanges, MoveSlot(k, range)
      PROVE  TypeInv'
  <2>1. [k EXCEPT !.start = range[1], !.end = range[2]] \in Slot
    BY InputAssumption DEF Slot, TypeInv, TypeOK
  <2> QED BY <1>5, <2>1 DEF MoveSlot, TypeInv, TypeOK, Shape, View!MoveSlot
<1> QED BY <1>1, <1>2, <1>3, <1>4, <1>5 DEF Fleet

LEMMA NextTypeInv == TypeInv /\ [Next]_vars => TypeInv'
<1> SUFFICES ASSUME TypeInv, [Next]_vars PROVE TypeInv'
  OBVIOUS
<1>1. ASSUME NEW r \in RequestIds, Start(r) PROVE TypeInv'
  BY <1>1, StartTypeInv
<1>2. ASSUME NEW r \in RequestIds, Step(r) PROVE TypeInv'
  BY <1>2, StepTypeInv
<1>3. CASE Fleet
  BY <1>3, FleetTypeInv
<1>4. CASE UNCHANGED vars
  BY <1>4 DEF vars, TypeInv, TypeOK, Shape
<1> QED BY <1>1, <1>2, <1>3, <1>4 DEF Next, Quiet

(***************************************************************************)
(* The tables and the handlers keep their types, whatever interleaves.     *)
(***************************************************************************)
THEOREM TypeCorrect == Spec => []TypeOK
<1>1. Init => TypeInv
  BY InitTypeInv
<1>2. TypeInv /\ [Next]_vars => TypeInv'
  BY NextTypeInv
<1>3. TypeInv => TypeOK
  BY DEF TypeInv
<1> QED BY <1>1, <1>2, <1>3, PTL DEF Spec

-----------------------------------------------------------------------------
(***************************************************************************)
(* One request at a time per reservation (Isolation # "none"): the entity  *)
(* a handler holds still matches the row when it writes.  The inductive    *)
(* invariant says so for every handler, and that no two of them are about  *)
(* the same reservation.                                                   *)
(***************************************************************************)

\* Only uuids that were handed out are in use.
IdsIssued ==
    /\ \A x \in ReservationIds : reservations[x] # NoRow => x \in issued
    /\ \A r \in RequestIds : requests[r].id # NoId => requests[r].id \in issued

Alone ==
    \A r, q \in RequestIds :
        /\ r # q /\ InFlight(r) /\ InFlight(q)
        /\ requests[r].id = requests[q].id
        => requests[r].id = NoId

\* The entity of q can be stored over the row: its status is the row's or a
\* legal successor.
Follows(q) ==
    LET row == reservations[q.id]
    IN  /\ row # NoRow
        /\ \/ q.want.status = row.status
           \/ q.want.status \in ALLOWED_TRANSITIONS[row.status]

\* save() writes the dates of the entity or finds them in the row.
WritesDates(q) ==
    LET row == reservations[q.id]
    IN  /\ "start" \in q.diff \/ row.start = q.want.start
        /\ "end" \in q.diff \/ row.end = q.want.end

\* createStripePreauth between its first read and its UPDATE.
Confirming(q) ==
    q.pc = "confirm" \/ (q.op = "preauth" /\ q.pc = "append" /\ Len(q.todo) = 2)

Agrees(q) ==
    /\ q.pc # "reinsert"
    /\ q.pc \in Holding => q.want.start < q.want.end
    /\ q.pc = "insert" => q.op = "create"
    /\ q.pc \in Checking => q.op \in {"create", "update"}
    /\ q.pc \in {"select", "save"} => q.op \in {"update", "updateStatus", "event"}
    /\ q.pc \in Checking \cup {"select", "save"} /\ q.op # "create" => Follows(q)
    /\ q.pc = "save" => WritesDates(q)
    /\ q.op = "preauth" /\ q.pc = "append" => Len(q.todo) \in {1, 2}
    /\ q.pc = "confirm" => q.op = "preauth" /\ Len(q.todo) = 1
    /\ Confirming(q) => /\ reservations[q.id] # NoRow
                        /\ reservations[q.id].status = "EN_ATTENTE_PAIEMENT"

DossierInv ==
    /\ TypeInv
    /\ IdsIssued
    /\ Alone
    /\ RangesOrdered
    /\ \A r \in RequestIds : Agrees(requests[r])

LEMMA InitDossierInv == Init => DossierInv
<1> SUFFICES ASSUME Init PROVE DossierInv
  OBVIOUS
<1>1. TypeInv
  BY InitTypeInv
<1>2. IdsIssued /\ Alone
  BY DEF Init, IdsIssued, Alone, InFlight, Idle
<1>3. RangesOrdered
  BY InputAssumption DEF Init, RangesOrdered
<1>4. \A r \in RequestIds : Agrees(requests[r])
  BY DEF Init, Agrees, Idle, Confirming, Holding, Checking
<1> QED BY <1>1, <1>2, <1>3, <1>4 DEF DossierInv

(***************************************************************************)
(* A step of one request leaves the others' agreement alone when it        *)
(* touches no row but that of its own reservation and no other handler is  *)
(* about that one.                                                         *)
(***************************************************************************)
LEMMA OthersAgree ==
    ASSUME DossierInv, TypeInv', IdsIssued', RangesOrdered',
           NEW r \in RequestIds, NEW p,
           requests' = [requests EXCEPT ![r] = p],
           \A q \in RequestIds \ {r} :
              InFlight(q) /\ requests[q].id # NoId => requests[q].id # p.id,
           \A x \in ReservationIds \ {p.id} : reservations'[x] = reservations[x],
           Agrees(requests[r])'
    PROVE  DossierInv'
<1>1. \A q \in RequestIds \ {r} : requests'[q] = requests[q]
  BY DEF DossierInv, TypeInv, TypeOK
<1>2. requests'[r] = p
  BY DEF DossierInv, TypeInv, TypeOK
<1>3. Alone'
  BY <1>1, <1>2 DEF DossierInv, Alone, InFlight
<1>4. ASSUME NEW q \in RequestIds \ {r}
      PROVE  Agrees(requests[q])'
  <2>1. Agrees(requests[q]) /\ Shape(requests[q])
    BY DEF DossierInv, TypeInv
  <2>2. CASE ~InFlight(q)
    BY <1>1, <2>1, <2>2
    DEF Agrees, InFlight, Confirming, Holding, Checking, Ended
  <2>3. CASE InFlight(q) /\ requests[q].id = NoId
    BY <1>1, <2>1, <2>3, NullAssumption
    DEF Agrees, Shape, Confirming, Holding, Checking
  <2>4. CASE InFlight(q) /\ requests[q].id # NoId
    <3>1. requests[q].id \in ReservationIds \ {p.id}
      BY <2>1, <2>4 DEF Shape, Request
    <3>2. reservations'[requests[q].id] = reservations[requests[q].id]
      BY <3>1
    <3> QED BY <1>1, <2>1, <3>2 DEF Agrees, Follows, WritesDates, Confirming
  <2> QED BY <2>2, <2>3, <2>4
<1> QED BY <1>3, <1>4 DEF DossierInv

\* The handler in flight for a reservation is the only one.
LEMMA OnlyOne ==
    ASSUME DossierInv, NEW r \in RequestIds, InFlight(r)
    PROVE  \A q \in RequestIds \ {r} :
              InFlight(q) /\ requests[q].id # NoId => requests[q].id # requests[r].id
  BY DEF DossierInv, Alone

LEMMA Isolated ==
    ASSUME Isolation # "none", NEW r \in RequestIds,
           NEW x \in ReservationIds \cup {NoId}, MayStart(r, x)
    PROVE  \A q \in RequestIds \ {r} :
              InFlight(q) /\ requests[q].id # NoId => requests[q].id # x
  BY InputAssumption DEF MayStart

LEMMA CreateDossierInv ==
    ASSUME Isolation # "none", DossierInv, TypeInv', NEW r \in RequestIds,
           NEW v \in VehicleIds \cup {NoVehicle},
           NEW s \in Times, NEW e \in Times, Create(r, v, s, e)
    PROVE  DossierInv'
<1> DEFINE want == NewRow(v, s, e)
           todo == <<Ev(r, "reservation_created", "NOUVELLE_DEMANDE"),
                     Ev(r, "reservation_ack_email_sent", NoStatus),
                     Ev(r, "reservation_admin_notified", NoStatus)>>
           p == [Idle EXCEPT !.pc = IF v = NoVehicle THEN "insert" ELSE "vehicle",
                             !.op = "create", !.vehicle = v, !.want = want,
                             !.todo = todo]
<1>1. requests' = [requests EXCEPT ![r] = p]
  BY DEF Create
<1>2. requests'[r] = p
  BY <1>1 DEF DossierInv, TypeInv, TypeOK
<1>3. p.id = NoId /\ p.op = "create" /\ p.pc \in {"insert", "vehicle"} /\ p.want = want
  BY DEF Idle
<1>4. want.start < want.end
  BY DEF Create, EnsureDateRange, NewRow
<1> HIDE DEF p, want
<1>5. Agrees(requests[r])'
  BY <1>2, <1>3, <1>4 DEF Agrees, Confirming, Holding, Checking
<1>6. IdsIssued' /\ RangesOrdered'
  BY <1>1, <1>3 DEF Create, DossierInv, TypeInv, TypeOK, IdsIssued, RangesOrdered
<1>7. \A q \in RequestIds \ {r} :
         InFlight(q) /\ requests[q].id # NoId => requests[q].id # p.id
  BY <1>3
<1> QED BY <1>1, <1>5, <1>6, <1>7, OthersAgree DEF Create

LEMMA LoadedDossierInv ==
    ASSUME Isolation # "none", DossierInv, TypeInv', NEW r \in RequestIds,
           NEW x \in ReservationIds, NEW op, NEW pc, NEW v, NEW want, NEW todo,
           Loaded(r, x, op, pc, v, want, todo),
           op \in {"update", "updateStatus", "preauth", "event", "remove"},
           pc \in Checking => op = "update",
           pc = "select" => op \in {"update", "updateStatus", "event"},
           pc \notin {"save", "reinsert", "insert", "confirm"},
           pc \in Checking \cup {"select"} =>
              /\ want.start < want.end
              /\ \/ want.status = reservations[x].status
                 \/ want.status \in ALLOWED_TRANSITIONS[reservations[x].status],
           op = "preauth" =>
              /\ Len(todo) = 2
              /\ reservations[x].status = "EN_ATTENTE_PAIEMENT"
    PROVE  DossierInv'
<1> DEFINE p == [Idle EXCEPT !.pc = pc, !.op = op, !.id = x, !.vehicle = v,
                             !.want = want, !.todo = todo,
                             !.seen = IF want = NoRow THEN {} ELSE events[x]]
<1>1. requests' = [requests EXCEPT ![r] = p]
  BY DEF Loaded
<1>2. requests'[r] = p
  BY <1>1 DEF DossierInv, TypeInv, TypeOK
<1>3. /\ p.id = x /\ p.op = op /\ p.pc = pc /\ p.want = want /\ p.todo = todo
      /\ reservations' = reservations /\ issued' = issued
      /\ reservations[x] # NoRow /\ MayStart(r, x)
  BY DEF Idle, Loaded
<1> HIDE DEF p
<1>4. Agrees(requests[r])'
  BY <1>2, <1>3 DEF Agrees, Follows, Confirming, Holding, Checking
<1>5. IdsIssued' /\ RangesOrdered'
  BY <1>1, <1>3 DEF DossierInv, TypeInv, TypeOK, IdsIssued, RangesOrdered
<1>6. \A q \in RequestIds \ {r} :
         InFlight(q) /\ requests[q].id # NoId => requests[q].id # p.id
  BY <1>3, Isolated
<1> QED BY <1>1, <1>3, <1>4, <1>5, <1>6, OthersAgree

LEMMA StartDossierInv ==
    ASSUME Isolation # "none", DossierInv, TypeInv', NEW r \in RequestIds, Start(r)
    PROVE  DossierInv'
<1>1. ASSUME NEW v \in VehicleIds \cup {NoVehicle}, NEW s \in Times,
             NEW e \in Times, Create(r, v, s, e)
      PROVE  DossierInv'
  BY <1>1, CreateDossierInv
<1>2. ASSUME NEW x \in ReservationIds, NEW dto \in Updates, LoadUpdate(r, x, dto)
      PROVE  DossierInv'
  <2> DEFINE row == reservations[x]
             next == OrElse(dto.vehicle, row.vehicle)
             want == [row EXCEPT !.vehicle = IF row.vehicle # NoVehicle
                                             THEN row.vehicle ELSE next,
                                 !.start = OrElse(dto.start, row.start),
                                 !.end = OrElse(dto.end, row.end)]
             pc == CASE dto.vehicle # Unset -> "vehicle"
                     [] dto.vehicle = Unset /\ next # NoVehicle -> "slots"
                     [] OTHER -> "select"
  <2>1. row \in Row
    BY <1>2 DEF LoadUpdate, DossierInv, TypeInv, TypeOK
  <2>2. want.status = row.status /\ want.start < want.end
    BY <1>2, <2>1 DEF LoadUpdate, EnsureDateRange, Row
  <2>3. pc \in {"vehicle", "slots", "select"}
    OBVIOUS
  <2>4. Loaded(r, x, "update", pc, next, want,
               <<Ev(r, "reservation_updated", NoStatus)>>)
    BY <1>2 DEF LoadUpdate
  <2> HIDE DEF want, pc, next
  <2> QED BY <2>2, <2>3, <2>4, LoadedDossierInv
<1>3. ASSUME NEW x \in ReservationIds, NEW status \in Statuses,
             LoadUpdateStatus(r, x, status)
      PROVE  DossierInv'
  <2> DEFINE row == reservations[x]
             want == [row EXCEPT !.status = status]
             todo == <<Ev(r, "reservation_status_changed", status),
                       Ev(r, STATUS_EVENT_MAP[status], status)>>
  <2>1. row \in Row /\ row.start < row.end
    BY <1>3 DEF LoadUpdateStatus, DossierInv, TypeInv, TypeOK, RangesOrdered
  <2>2. want.status \in ALLOWED_TRANSITIONS[row.status] /\ want.start < want.end
    BY <1>3, <2>1 DEF LoadUpdateStatus, Row
  <2>3. Loaded(r, x, "updateStatus", "select", NoVehicle, want, todo)
    BY <1>3 DEF LoadUpdateStatus
  <2> HIDE DEF want, todo
  <2> QED BY <2>2, <2>3, LoadedDossierInv DEF Checking
<1>4. ASSUME NEW x \in ReservationIds, LoadPreauth(r, x)
      PROVE  DossierInv'
  <2> DEFINE todo == <<Ev(r, "reservation_stripe_preauth_created", NoStatus),
                       Ev(r, "reservation_status_changed", "CONFIRMEE")>>
  <2>1. Len(todo) = 2
    OBVIOUS
  <2>2. /\ Loaded(r, x, "preauth", "append", NoVehicle, NoRow, todo)
        /\ reservations[x].status = "EN_ATTENTE_PAIEMENT"
    BY <1>4 DEF LoadPreauth
  <2> HIDE DEF todo
  <2> QED BY <2>1, <2>2, LoadedDossierInv DEF Checking
<1>5. ASSUME NEW x \in ReservationIds, NEW body \in EventBodies,
             LoadStatusEvent(r, x, body)
      PROVE  DossierInv'
  <2> DEFINE row == reservations[x]
             want == [row EXCEPT !.status = EventTo[body.type]]
             todo == <<Ev(r, "reservation_status_changed", EventTo[body.type]),
                       Note(r, body)>>
  <2>1. row \in Row /\ row.start < row.end
    BY <1>5 DEF LoadStatusEvent, DossierInv, TypeInv, TypeOK, RangesOrdered
  <2>2. EventTo[body.type] \in ALLOWED_TRANSITIONS[EventFrom[body.type]]
    BY <1>5 DEF LoadStatusEvent, EventTo, EventFrom, ALLOWED_TRANSITIONS, Statuses
  <2>3. want.status \in ALLOWED_TRANSITIONS[row.status] /\ want.start < want.end
    BY <1>5, <2>1, <2>2 DEF LoadStatusEvent, Row
  <2>4. Loaded(r, x, "event", "select", NoVehicle, want, todo)
    BY <1>5 DEF LoadStatusEvent
  <2> HIDE DEF want, todo
  <2> QED BY <2>3, <2>4, LoadedDossierInv DEF Checking
<1>6. ASSUME NEW x \in ReservationIds, NEW body \in EventBodies,
             LoadNote(r, x, body)
      PROVE  DossierInv'
  BY <1>6, LoadedDossierInv DEF LoadNote, Checking
<1>7. ASSUME NEW x \in ReservationIds, LoadRemove(r, x)
      PROVE  DossierInv'
  BY <1>7, LoadedDossierInv DEF LoadRemove, Checking
<1> QED BY <1>1, <1>2, <1>3, <1>4, <1>5, <1>6, <1>7 DEF Start

LEMMA GotoDossierInv ==
    ASSUME DossierInv, TypeInv', NEW r \in RequestIds, NEW pc \in PcValues,
           Goto(r, pc), InFlight(r),
           \/ pc \in Ended
           \/ /\ requests[r].pc \in Checking
              /\ pc \in Checking \cup {AfterChecks(r)}
    PROVE  DossierInv'
<1> DEFINE q == requests[r]
           p == IF pc \in Ended THEN Onward(q, pc, <<>>) ELSE [q EXCEPT !.pc = pc]
<1>1. requests' = [requests EXCEPT ![r] = p]
  BY DEF Goto, DossierInv, TypeInv, TypeOK
<1>2. requests'[r] = p
  BY <1>1 DEF DossierInv, TypeInv, TypeOK
<1>3. q \in Request /\ Agrees(q)
  BY DEF DossierInv, TypeInv, TypeOK
<1>4. p.id = q.id /\ p.pc = pc
  BY <1>3 DEF Onward, Idle, Request
<1>5. pc \notin Ended => p.op = q.op /\ p.want = q.want /\ p.todo = q.todo
  BY <1>3 DEF Request
<1>6. UNCHANGED <<reservations, issued>>
  BY DEF Goto
<1> HIDE DEF p
<1>7. Agrees(requests[r])'
  <2>1. CASE pc \in Ended
    BY <1>2, <1>4, <2>1 DEF Agrees, Confirming, Holding, Checking, Ended
  <2>2. CASE pc \notin Ended
    BY <1>2, <1>3, <1>4, <1>5, <1>6, <2>2
    DEF Agrees, Follows, Confirming, AfterChecks, Holding, Checking
  <2> QED BY <2>1, <2>2
<1>8. IdsIssued' /\ RangesOrdered'
  BY <1>1, <1>4, <1>6
  DEF DossierInv, TypeInv, TypeOK, IdsIssued, RangesOrdered
<1>9. \A o \in RequestIds \ {r} :
         InFlight(o) /\ requests[o].id # NoId => requests[o].id # p.id
  BY <1>4, OnlyOne
<1> HIDE DEF q
<1> QED BY <1>1, <1>6, <1>7, <1>8, <1>9, OthersAgree

LEMMA StepDossierInv ==
    ASSUME DossierInv, TypeInv', NEW r \in RequestIds, Step(r)
    PROVE  DossierInv'
<1> DEFINE q == requests[r]
           p == requests'[r]
<1>0. Shape(q) /\ q \in Request /\ Agrees(q)
  BY DEF DossierInv, TypeInv, Shape
<1>a. ASSUME InFlight(r), q.id \in ReservationIds, p.id = q.id, Agrees(requests[r])',
             requests' = [requests EXCEPT ![r] = p], issued' = issued,
             \A x \in ReservationIds \ {q.id} : reservations'[x] = reservations[x],
             reservations'[q.id] # NoRow =>
                /\ reservations'[q.id].start < reservations'[q.id].end
      PROVE  DossierInv'
  <2>1. IdsIssued'
    BY <1>a, NullAssumption DEF DossierInv, IdsIssued, TypeInv, TypeOK
  <2>2. RangesOrdered'
    BY <1>a DEF DossierInv, RangesOrdered
  <2>3. \A o \in RequestIds \ {r} :
           InFlight(o) /\ requests[o].id # NoId => requests[o].id # p.id
    BY <1>a, OnlyOne
  <2> QED BY <1>a, <2>1, <2>2, <2>3, OthersAgree
<1>1. CASE CheckVehicle(r)
  BY <1>1, GotoDossierInv DEF CheckVehicle, InFlight, Checking, PcValues, Ended
<1>2. CASE CheckSlots(r)
  BY <1>2, GotoDossierInv DEF CheckSlots, InFlight, Checking, PcValues, Ended
<1>3. CASE CountBlocking(r)
  BY <1>3, GotoDossierInv
  DEF CountBlocking, InFlight, AfterChecks, Checking, PcValues, Ended
<1>4. CASE CheckOverlap(r)
  BY <1>4, GotoDossierInv
  DEF CheckOverlap, InFlight, AfterChecks, Checking, PcValues, Ended
<1>5. ASSUME NEW x \in ReservationIds, Insert(r, x)
      PROVE  DossierInv'
  <2> DEFINE n == [Onward(q, "append", q.todo) EXCEPT !.id = x]
  <2>1. requests' = [requests EXCEPT ![r] = n]
    BY <1>5 DEF Insert
  <2>2. requests'[r] = n
    BY <2>1 DEF DossierInv, TypeInv, TypeOK
  <2>3. n.id = x /\ n.pc = "append" /\ n.op = q.op /\ n.todo = q.todo
    BY <1>0 DEF Onward, Idle, Request
  <2>4. q.want \in Row /\ q.want.start < q.want.end
    BY <1>0, <1>5 DEF Insert, Shape, Agrees, Holding
  <2>5. reservations'[x] = q.want /\ x \in issued'
    BY <1>5 DEF Insert, DossierInv, TypeInv, TypeOK
  <2> HIDE DEF n
  <2>6. Agrees(requests[r])'
    BY <1>0, <1>5, <2>2, <2>3
    DEF Insert, Agrees, Confirming, Holding, Checking
  <2>7. IdsIssued' /\ RangesOrdered'
    BY <1>5, <2>1, <2>3, <2>4, <2>5
    DEF Insert, DossierInv, TypeInv, TypeOK, IdsIssued, RangesOrdered
  <2>8. \A o \in RequestIds \ {r} :
           InFlight(o) /\ requests[o].id # NoId => requests[o].id # n.id
    BY <1>5, <2>3 DEF Insert, DossierInv, IdsIssued
  <2>9. \A y \in ReservationIds \ {n.id} : reservations'[y] = reservations[y]
    BY <1>5, <2>3 DEF Insert, DossierInv, TypeInv, TypeOK
  <2> QED BY <2>1, <2>6, <2>7, <2>8, <2>9, OthersAgree
<1>6. CASE SaveSelect(r)
  <2> DEFINE row == reservations[q.id]
             n == IF row = NoRow THEN [q EXCEPT !.pc = "reinsert"]
                  ELSE [q EXCEPT !.pc = "save",
                                 !.diff = {c \in Columns : q.want[c] # row[c]},
                                 !.found = events[q.id]]
  <2>1. /\ q.pc = "select" /\ q.id \in ReservationIds /\ row # NoRow
        /\ q.op \in {"update", "updateStatus", "event"}
        /\ Follows(q) /\ q.want.start < q.want.end
    BY <1>0, <1>6 DEF SaveSelect, Shape, Agrees, Follows, Holding
  <2>2. requests' = [requests EXCEPT ![r] = n] /\ p = n
    BY <1>6 DEF SaveSelect, DossierInv, TypeInv, TypeOK
  <2>3. /\ n.id = q.id /\ n.pc = "save" /\ n.op = q.op /\ n.want = q.want
        /\ n.diff = {c \in Columns : q.want[c] # row[c]}
    BY <1>0, <2>1 DEF Request
  <2>4. UNCHANGED <<reservations, issued>>
    BY <1>6 DEF SaveSelect
  <2> HIDE DEF n
  <2>5. WritesDates(n)
    BY <2>3 DEF WritesDates, Columns
  <2>6. Agrees(requests[r])'
    BY <2>1, <2>2, <2>3, <2>4, <2>5
    DEF Agrees, Follows, WritesDates, Confirming, Holding, Checking
  <2>7. reservations[q.id].start < reservations[q.id].end
    BY <2>1 DEF DossierInv, RangesOrdered
  <2> QED BY <1>a, <2>1, <2>2, <2>3, <2>4, <2>6, <2>7 DEF InFlight, Ended
<1>7. CASE SaveUpdate(r)
  <2> DEFINE row == reservations[q.id]
             n == Onward(q, "append", q.todo)
  <2>1. /\ q.pc = "save" /\ q.id \in ReservationIds /\ row # NoRow
        /\ q.op # "create" /\ WritesDates(q) /\ q.want.start < q.want.end
    BY <1>0, <1>7 DEF SaveUpdate, Shape, Agrees, Follows, Holding
  <2>2. requests' = [requests EXCEPT ![r] = n] /\ p = n
    BY <1>7 DEF SaveUpdate, DossierInv, TypeInv, TypeOK
  <2>3. n.id = q.id /\ n.pc = "append" /\ n.op = q.op
    BY DEF Onward, Idle
  <2>4. q.op # "preauth"
    BY <1>0, <2>1 DEF Agrees
  <2>5. reservations'[q.id] = Merge(row, q.want, q.diff)
    BY <1>7, <2>1 DEF SaveUpdate, DossierInv, TypeInv, TypeOK
  <2>6. reservations'[q.id].start < reservations'[q.id].end
    BY <2>1, <2>5 DEF Merge, WritesDates
  <2>7. \A x \in ReservationIds \ {q.id} : reservations'[x] = reservations[x]
    BY <1>7 DEF SaveUpdate, DossierInv, TypeInv, TypeOK
  <2>8. issued' = issued
    BY <1>7 DEF SaveUpdate
  <2> HIDE DEF n
  <2>9. Agrees(requests[r])'
    BY <2>2, <2>3, <2>4 DEF Agrees, Confirming, Holding, Checking
  <2> QED BY <1>a, <2>1, <2>2, <2>3, <2>6, <2>7, <2>8, <2>9 DEF InFlight, Ended
<1>8. CASE Reinsert(r)
  BY <1>0, <1>8 DEF Reinsert, Agrees
<1>9. CASE AppendEvent(r)
  <2> DEFINE pc == CASE Len(q.todo) = 1 -> "done"
                     [] Len(q.todo) # 1 /\ q.op = "preauth" -> "confirm"
                     [] OTHER -> "append"
             n == Onward(q, pc, Tail(q.todo))
  <2>1. q.pc = "append" /\ q.id \in ReservationIds
    BY <1>0, <1>9 DEF AppendEvent, Shape
  <2>2. requests' = [requests EXCEPT ![r] = n] /\ p = n
    BY <1>9 DEF AppendEvent, DossierInv, TypeInv, TypeOK
  <2>3. n.id = q.id /\ n.pc = pc /\ n.op = q.op /\ n.todo = Tail(q.todo)
    BY DEF Onward, Idle
  <2>4. UNCHANGED <<reservations, issued>>
    BY <1>9 DEF AppendEvent
  <2>5. q.op = "preauth" /\ pc = "confirm" => Len(Tail(q.todo)) = 1
    <3>1. q.todo \in Seq(Event) /\ q.todo # <<>>
      BY <1>0, <2>1 DEF Shape, Request
    <3>2. Len(Tail(q.todo)) = Len(q.todo) - 1
      BY <3>1
    <3>3. q.op = "preauth" /\ pc = "confirm" => Len(q.todo) = 2
      BY <1>0, <2>1 DEF Agrees
    <3> QED BY <3>2, <3>3
  <2>6. /\ pc \in {"done", "confirm", "append"}
        /\ pc = "confirm" => q.op = "preauth" /\ Len(q.todo) = 2
        /\ q.op = "preauth" => pc # "append"
    BY <1>0, <2>1 DEF Agrees
  <2> HIDE DEF n, pc
  <2>7. Agrees(requests[r])'
    BY <1>0, <2>1, <2>2, <2>3, <2>4, <2>5, <2>6
    DEF Agrees, Confirming, Holding, Checking
  <2>8. reservations'[q.id] # NoRow =>
           reservations'[q.id].start < reservations'[q.id].end
    BY <2>1, <2>4 DEF DossierInv, RangesOrdered
  <2> QED BY <1>a, <2>1, <2>2, <2>3, <2>4, <2>7, <2>8 DEF InFlight, Ended
<1>10. CASE ConfirmPreauth(r)
  <2> DEFINE n == Onward(q, "append", q.todo)
  <2>1. /\ q.pc = "confirm" /\ q.id \in ReservationIds
        /\ q.op = "preauth" /\ Len(q.todo) = 1 /\ reservations[q.id] # NoRow
    BY <1>0, <1>10 DEF ConfirmPreauth, Shape, Agrees, Confirming
  <2>2. requests' = [requests EXCEPT ![r] = n] /\ p = n
    BY <1>10 DEF ConfirmPreauth, DossierInv, TypeInv, TypeOK
  <2>3. n.id = q.id /\ n.pc = "append" /\ n.op = q.op /\ n.todo = q.todo
    BY DEF Onward, Idle
  <2>4. \A x \in ReservationIds \ {q.id} : reservations'[x] = reservations[x]
    BY <1>10 DEF ConfirmPreauth, DossierInv, TypeInv, TypeOK
  <2>5. reservations'[q.id] = [reservations[q.id] EXCEPT !.status = "CONFIRMEE"]
    BY <1>10, <2>1 DEF ConfirmPreauth, DossierInv, TypeInv, TypeOK
  <2>6. reservations[q.id] \in Row /\ reservations[q.id].start < reservations[q.id].end
    BY <2>1 DEF DossierInv, RangesOrdered, TypeInv, TypeOK
  <2>7. reservations'[q.id].start < reservations'[q.id].end
    BY <2>5, <2>6 DEF Row
  <2>8. issued' = issued
    BY <1>10 DEF ConfirmPreauth
  <2> HIDE DEF n
  <2>9. Agrees(requests[r])'
    BY <2>1, <2>2, <2>3 DEF Agrees, Confirming, Holding, Checking
  <2> QED BY <1>a, <2>1, <2>2, <2>3, <2>4, <2>7, <2>8, <2>9 DEF InFlight, Ended
<1>11. CASE Delete(r)
  <2> DEFINE n == Onward(q, "done", <<>>)
  <2>1. q.pc = "delete" /\ q.id \in ReservationIds
    BY <1>0, <1>11 DEF Delete, Shape
  <2>2. requests' = [requests EXCEPT ![r] = n] /\ p = n
    BY <1>11 DEF Delete, DossierInv, TypeInv, TypeOK
  <2>3. n.id = q.id /\ n.pc = "done"
    BY DEF Onward, Idle
  <2>4. /\ reservations'[q.id] = NoRow /\ issued' = issued
        /\ \A x \in ReservationIds \ {q.id} : reservations'[x] = reservations[x]
    BY <1>11, <2>1 DEF Delete, DossierInv, TypeInv, TypeOK
  <2> HIDE DEF n
  <2>5. Agrees(requests[r])'
    BY <2>2, <2>3 DEF Agrees, Confirming, Holding, Checking
  <2> QED BY <1>a, <2>1, <2>2, <2>3, <2>4, <2>5 DEF InFlight, Ended
<1>12. CASE Fail(r)
  BY <1>12, GotoDossierInv DEF Fail, PcValues, Ended
<1> QED BY <1>1, <1>2, <1>3, <1>4, <1>5, <1>6, <1>7, <1>8, <1>9, <1>10, <1>11,
           <1>12 DEF Step

LEMMA FleetDossierInv ==
    ASSUME DossierInv, TypeInv', Fleet
    PROVE  DossierInv'
<1>1. UNCHANGED <<issued, requests>>
  BY DEF Fleet, SetVehicle, DeleteVehicle, AddSlot, MoveSlot, RemoveSlot,
         View!SetVehicle, View!DeleteVehicle, View!AddSlot, View!MoveSlot,
         View!RemoveSlot
<1>2. \A x \in ReservationIds :
         /\ reservations'[x] = NoRow <=> reservations[x] = NoRow
         /\ reservations[x] # NoRow =>
               /\ reservations'[x].status = reservations[x].status
               /\ reservations'[x].start = reservations[x].start
               /\ reservations'[x].end = reservations[x].end
  <2>1. ASSUME NEW v \in VehicleIds, DeleteVehicle(v), NEW x \in ReservationIds,
               reservations[x] # NoRow
        PROVE  /\ reservations'[x] # NoRow
               /\ reservations'[x].status = reservations[x].status
               /\ reservations'[x].start = reservations[x].start
               /\ reservations'[x].end = reservations[x].end
    <3>1. reservations[x] \in Row
      BY <2>1 DEF DossierInv, TypeInv, TypeOK
    <3>2. [reservations[x] EXCEPT !.vehicle = NoVehicle] \in Row
      BY <3>1 DEF Row
    <3> QED BY <2>1, <3>1, <3>2, NullAssumption
        DEF DeleteVehicle, Row, View!DeleteVehicle
  <2> QED BY <2>1
      DEF Fleet, SetVehicle, DeleteVehicle, AddSlot, MoveSlot, RemoveSlot,
          View!SetVehicle, View!DeleteVehicle, View!AddSlot, View!MoveSlot,
          View!RemoveSlot
<1>3. IdsIssued' /\ RangesOrdered' /\ Alone'
  BY <1>1, <1>2 DEF DossierInv, IdsIssued, RangesOrdered, Alone, InFlight
<1>4. ASSUME NEW r \in RequestIds
      PROVE  Agrees(requests[r])'
  <2>1. Agrees(requests[r]) /\ Shape(requests[r])
    BY DEF DossierInv, TypeInv
  <2> QED BY <1>1, <1>2, <2>1
          DEF Agrees, Shape, Follows, WritesDates, Confirming, Holding, Checking
<1> QED BY <1>3, <1>4 DEF DossierInv

LEMMA NextDossierInv ==
    ASSUME Isolation # "none"
    PROVE  DossierInv /\ [Next]_vars => DossierInv'
<1> SUFFICES ASSUME DossierInv, [Next]_vars PROVE DossierInv'
  OBVIOUS
<1>1. TypeInv'
  BY NextTypeInv DEF DossierInv
<1>2. ASSUME NEW r \in RequestIds, Start(r) PROVE DossierInv'
  BY <1>1, <1>2, StartDossierInv
<1>3. ASSUME NEW r \in RequestIds, Step(r) PROVE DossierInv'
  BY <1>1, <1>3, StepDossierInv
<1>4. CASE Fleet
  BY <1>1, <1>4, FleetDossierInv
<1>5. CASE UNCHANGED vars
  BY <1>1, <1>5
  DEF vars, DossierInv, IdsIssued, Alone, InFlight, RangesOrdered, Agrees,
      Follows, WritesDates, Confirming
<1> QED BY <1>2, <1>3, <1>4, <1>5 DEF Next, Quiet

\* What one step does to the status of a reservation and to a deleted one.
LifecycleStep ==
    \A x \in ReservationIds :
        /\ reservations[x] # NoRow /\ reservations'[x] # NoRow =>
              \/ reservations'[x].status = reservations[x].status
              \/ reservations'[x].status \in ALLOWED_TRANSITIONS[reservations[x].status]
        /\ x \in issued /\ reservations[x] = NoRow => reservations'[x] = NoRow

LEMMA StepLifecycle ==
    ASSUME DossierInv, [Next]_vars
    PROVE  LifecycleStep
<1>1. ASSUME UNCHANGED reservations PROVE LifecycleStep
  BY <1>1 DEF LifecycleStep
<1>2. ASSUME NEW r \in RequestIds, Start(r) PROVE LifecycleStep
  BY <1>1, <1>2 DEF Start, Create, LoadUpdate, LoadUpdateStatus, LoadPreauth,
     LoadStatusEvent, LoadNote, LoadRemove, Loaded
<1>3. ASSUME NEW r \in RequestIds, Step(r) PROVE LifecycleStep
  <2> DEFINE q == requests[r]
  <2>0. Shape(q) /\ Agrees(q)
    BY DEF DossierInv, TypeInv
  <2>1. ASSUME q.id \in ReservationIds,
               \A x \in ReservationIds \ {q.id} : reservations'[x] = reservations[x],
               \/ reservations'[q.id] = NoRow
               \/ /\ reservations[q.id] # NoRow
                  /\ \/ reservations'[q.id].status = reservations[q.id].status
                     \/ reservations'[q.id].status
                           \in ALLOWED_TRANSITIONS[reservations[q.id].status]
        PROVE  LifecycleStep
    BY <2>1 DEF LifecycleStep
  <2>2. ASSUME NEW x \in ReservationIds, Insert(r, x) PROVE LifecycleStep
    BY <2>2 DEF Insert, LifecycleStep, DossierInv, IdsIssued, TypeInv, TypeOK
  <2>3. CASE SaveUpdate(r)
    <3>1. /\ q.id \in ReservationIds /\ reservations[q.id] # NoRow
          /\ Follows(q)
      BY <2>0, <2>3 DEF SaveUpdate, Shape, Agrees, Follows
    <3>2. reservations'[q.id] = Merge(reservations[q.id], q.want, q.diff)
      BY <2>3, <3>1 DEF SaveUpdate, DossierInv, TypeInv, TypeOK
    <3>3. \/ reservations'[q.id].status = reservations[q.id].status
          \/ reservations'[q.id].status = q.want.status
      BY <3>2 DEF Merge
    <3>4. \A x \in ReservationIds \ {q.id} : reservations'[x] = reservations[x]
      BY <2>3 DEF SaveUpdate, DossierInv, TypeInv, TypeOK
    <3> QED BY <2>1, <3>1, <3>3, <3>4 DEF Follows
  <2>4. CASE ConfirmPreauth(r)
    <3>1. /\ q.id \in ReservationIds /\ reservations[q.id] \in Row
          /\ reservations[q.id].status = "EN_ATTENTE_PAIEMENT"
      BY <2>0, <2>4
      DEF ConfirmPreauth, Shape, Agrees, Confirming, DossierInv, TypeInv, TypeOK
    <3>2. reservations[q.id] # NoRow
      BY <2>0, <2>4 DEF ConfirmPreauth, Agrees, Confirming
    <3>3. /\ reservations'[q.id].status = "CONFIRMEE"
          /\ \A x \in ReservationIds \ {q.id} : reservations'[x] = reservations[x]
      BY <2>4, <3>1, <3>2 DEF ConfirmPreauth, DossierInv, TypeInv, TypeOK, Row
    <3>4. "CONFIRMEE" \in ALLOWED_TRANSITIONS["EN_ATTENTE_PAIEMENT"]
      BY DEF ALLOWED_TRANSITIONS, Statuses
    <3> QED BY <2>1, <3>1, <3>2, <3>3, <3>4
  <2>5. CASE Delete(r)
    <3>1. q.id \in ReservationIds
      BY <2>0, <2>5 DEF Delete, Shape
    <3> QED BY <2>1, <2>5, <3>1 DEF Delete, DossierInv, TypeInv, TypeOK
  <2>6. CASE Reinsert(r)
    BY <2>0, <2>6 DEF Reinsert, Agrees
  <2>7. CASE \/ CheckVehicle(r) \/ CheckSlots(r) \/ CountBlocking(r)
             \/ CheckOverlap(r) \/ SaveSelect(r) \/ AppendEvent(r) \/ Fail(r)
    BY <1>1, <2>7 DEF CheckVehicle, CheckSlots, CountBlocking, CheckOverlap,
       SaveSelect, AppendEvent, Fail, Goto
  <2> QED BY <1>3, <2>2, <2>3, <2>4, <2>5, <2>6, <2>7 DEF Step
<1>4. CASE Fleet
  <2>1. ASSUME NEW v \in VehicleIds, DeleteVehicle(v), NEW x \in ReservationIds
        PROVE  /\ reservations[x] = NoRow => reservations'[x] = NoRow
               /\ reservations[x] # NoRow =>
                     reservations'[x].status = reservations[x].status
    <3>1. reservations[x] # NoRow => reservations[x] \in Row
      BY DEF DossierInv, TypeInv, TypeOK
    <3> QED BY <2>1, <3>1 DEF DeleteVehicle, Row, View!DeleteVehicle
  <2> QED BY <1>1, <1>4, <2>1
          DEF Fleet, SetVehicle, AddSlot, MoveSlot, RemoveSlot, LifecycleStep,
              View!SetVehicle, View!AddSlot, View!MoveSlot, View!RemoveSlot
<1>5. CASE UNCHANGED vars
  BY <1>1, <1>5 DEF vars
<1> QED BY <1>2, <1>3, <1>4, <1>5 DEF Next, Quiet

(***************************************************************************)
(* With one request at a time per reservation, statuses follow             *)
(* ALLOWED_TRANSITIONS: update(), updateStatus(), createStripePreauth()    *)
(* and createEvent() together, over any number of reservations, with       *)
(* failures and vehicle deletions at any await.                            *)
(***************************************************************************)
THEOREM LifecycleRespected ==
    ASSUME Isolation # "none"
    PROVE  Spec => LegalTransitions
<1>1. Init => DossierInv
  BY InitDossierInv
<1>2. DossierInv /\ [Next]_vars => DossierInv'
  BY NextDossierInv
<1>3. DossierInv /\ [Next]_vars =>
         [\A x \in ReservationIds :
            reservations[x] # NoRow /\ reservations'[x] # NoRow =>
               \/ reservations'[x].status = reservations[x].status
               \/ reservations'[x].status
                     \in ALLOWED_TRANSITIONS[reservations[x].status]]_vars
  BY StepLifecycle DEF LifecycleStep
<1> QED BY <1>1, <1>2, <1>3, PTL DEF Spec, LegalTransitions

-----------------------------------------------------------------------------
(***************************************************************************)
(* A removal, under every interleaving and failure.  Once no handler holds *)
(* the entity of a deleted reservation, none gets hold of it any more.     *)
(***************************************************************************)

\* A step of request r that neither writes row x nor takes hold of it.
LEMMA GoneKept ==
    ASSUME TypeInv, NEW x \in ReservationIds, Gone(x),
           NEW r \in RequestIds, NEW p,
           requests' = [requests EXCEPT ![r] = p],
           p.id = x /\ p.pc \notin Ended \cup {"idle"} => p.want = NoRow,
           x \in issued', reservations'[x] = NoRow
    PROVE  Gone(x)'
  BY DEF Gone, InFlight, TypeInv, TypeOK

LEMMA OnwardGone ==
    ASSUME NEW q, NEW pc, NEW todo
    PROVE  /\ Onward(q, pc, todo).want = NoRow
           /\ Onward(q, pc, todo).pc = pc
  BY DEF Onward, Idle

LEMMA LoadedGone ==
    ASSUME TypeInv, NEW x \in ReservationIds, Gone(x), NEW r \in RequestIds,
           NEW y \in ReservationIds, NEW op, NEW pc, NEW v, NEW want, NEW todo,
           Loaded(r, y, op, pc, v, want, todo)
    PROVE  Gone(x)'
<1> DEFINE p == [Idle EXCEPT !.pc = pc, !.op = op, !.id = y, !.vehicle = v,
                             !.want = want, !.todo = todo,
                             !.seen = IF want = NoRow THEN {} ELSE events[y]]
<1>1. requests' = [requests EXCEPT ![r] = p]
  BY DEF Loaded
<1>2. p.id = y /\ y # x
  BY DEF Idle, Loaded, Gone
<1>3. x \in issued' /\ reservations'[x] = NoRow
  BY DEF Loaded, Gone
<1> HIDE DEF p
<1> QED BY <1>1, <1>2, <1>3, GoneKept

LEMMA StartGone ==
    ASSUME TypeInv, NEW x \in ReservationIds, Gone(x),
           NEW r \in RequestIds, Start(r)
    PROVE  Gone(x)'
<1>1. ASSUME NEW v \in VehicleIds \cup {NoVehicle}, NEW s \in Times,
             NEW e \in Times, Create(r, v, s, e)
      PROVE  Gone(x)'
  <2> DEFINE p == [Idle EXCEPT !.pc = IF v = NoVehicle THEN "insert" ELSE "vehicle",
                       !.op = "create", !.vehicle = v,
                       !.want = NewRow(v, s, e),
                       !.todo = <<Ev(r, "reservation_created", "NOUVELLE_DEMANDE"),
                                  Ev(r, "reservation_ack_email_sent", NoStatus),
                                  Ev(r, "reservation_admin_notified", NoStatus)>>]
  <2>1. requests' = [requests EXCEPT ![r] = p]
    BY <1>1 DEF Create
  <2>2. p.id = NoId /\ NoId # x
    BY NullAssumption DEF Idle
  <2>3. x \in issued' /\ reservations'[x] = NoRow
    BY <1>1 DEF Create, Gone
  <2> HIDE DEF p
  <2> QED BY <2>1, <2>2, <2>3, GoneKept
<1> QED BY <1>1, LoadedGone
        DEF Start, LoadUpdate, LoadUpdateStatus, LoadPreauth, LoadStatusEvent,
            LoadNote, LoadRemove

LEMMA StepGone ==
    ASSUME TypeInv, NEW x \in ReservationIds, Gone(x),
           NEW r \in RequestIds, Step(r)
    PROVE  Gone(x)'
<1> DEFINE q == requests[r]
<1>0. /\ Shape(q) /\ x \in issued /\ reservations[x] = NoRow
      /\ InFlight(r) /\ q.id = x => q.want = NoRow
  BY DEF TypeInv, Gone
<1>1. ASSUME NEW pc, Goto(r, pc), InFlight(r) PROVE Gone(x)'
  <2> DEFINE p == IF pc \in Ended THEN Onward(q, pc, <<>>) ELSE [q EXCEPT !.pc = pc]
  <2>1. requests' = [requests EXCEPT ![r] = p]
    BY <1>1 DEF Goto, TypeInv, TypeOK
  <2>2. pc \notin Ended => p.id = q.id /\ p.want = q.want
    BY <1>0 DEF Shape, Request
  <2>3. pc \in Ended => p.pc = pc
    BY OnwardGone
  <2> HIDE DEF p
  <2> QED BY <1>0, <1>1, <2>1, <2>2, <2>3, GoneKept DEF Goto
<1>2. ASSUME NEW p, requests' = [requests EXCEPT ![r] = p], p.want = NoRow,
             issued \subseteq issued', reservations'[x] = NoRow
      PROVE  Gone(x)'
  BY <1>0, <1>2, GoneKept
<1>a. ASSUME NEW pc, NEW todo, UNCHANGED issued, reservations'[x] = NoRow,
             requests' = [requests EXCEPT ![r] = Onward(q, pc, todo)]
      PROVE  Gone(x)'
  <2> DEFINE p == Onward(q, pc, todo)
  <2>1. p.want = NoRow
    BY OnwardGone
  <2> HIDE DEF p
  <2> QED BY <1>2, <1>a, <2>1 DEF p
<1>3. CASE \/ CheckVehicle(r) \/ CheckSlots(r) \/ CountBlocking(r)
           \/ CheckOverlap(r) \/ Fail(r)
  BY <1>1, <1>3 DEF CheckVehicle, CheckSlots, CountBlocking, CheckOverlap, Fail,
     InFlight, Ended
<1>4. ASSUME NEW y \in ReservationIds, Insert(r, y) PROVE Gone(x)'
  <2> DEFINE p == [Onward(q, "append", q.todo) EXCEPT !.id = y]
  <2>1. requests' = [requests EXCEPT ![r] = p] /\ p.want = NoRow
    BY <1>4 DEF Insert, Onward, Idle
  <2>2. issued \subseteq issued' /\ reservations'[x] = NoRow
    BY <1>0, <1>4 DEF Insert, TypeInv, TypeOK
  <2> HIDE DEF p
  <2> QED BY <1>2, <2>1, <2>2
<1>5. CASE SaveSelect(r)
  <2> DEFINE row == reservations[q.id]
             p == IF row = NoRow THEN [q EXCEPT !.pc = "reinsert"]
                  ELSE [q EXCEPT !.pc = "save",
                                 !.diff = {c \in Columns : q.want[c] # row[c]},
                                 !.found = events[q.id]]
  <2>1. requests' = [requests EXCEPT ![r] = p]
    BY <1>5 DEF SaveSelect
  <2>2. p.id = q.id /\ p.want = q.want
    BY <1>0 DEF Shape, Request
  <2>3. InFlight(r)
    BY <1>5 DEF SaveSelect, InFlight, Ended
  <2> HIDE DEF p
  <2> QED BY <1>0, <1>5, <2>1, <2>2, <2>3, GoneKept DEF SaveSelect
<1>6. CASE Reinsert(r)
  <2>1. q.want # NoRow /\ InFlight(r)
    BY <1>0, <1>6, NullAssumption DEF Reinsert, Shape, Holding, InFlight, Ended
  <2>2. q.id # x /\ reservations'[x] = NoRow
    BY <1>0, <1>6, <2>1 DEF Reinsert, TypeInv, TypeOK
  <2> QED BY <1>a, <1>6, <2>2 DEF Reinsert
<1>7. CASE SaveUpdate(r)
  <2>1. reservations'[x] = NoRow
    BY <1>0, <1>7 DEF SaveUpdate, TypeInv, TypeOK
  <2> QED BY <1>a, <1>7, <2>1 DEF SaveUpdate
<1>8. CASE ConfirmPreauth(r)
  <2>1. reservations'[x] = NoRow
    BY <1>0, <1>8 DEF ConfirmPreauth, TypeInv, TypeOK
  <2> QED BY <1>a, <1>8, <2>1 DEF ConfirmPreauth
<1>9. CASE Delete(r)
  <2>1. reservations'[x] = NoRow
    BY <1>0, <1>9 DEF Delete, TypeInv, TypeOK
  <2> QED BY <1>a, <1>9, <2>1 DEF Delete
<1>10. CASE AppendEvent(r)
  BY <1>0, <1>a, <1>10 DEF AppendEvent
<1> QED BY <1>3, <1>4, <1>5, <1>6, <1>7, <1>8, <1>9, <1>10 DEF Step

LEMMA FleetGone ==
    ASSUME TypeInv, NEW x \in ReservationIds, Gone(x), Fleet
    PROVE  Gone(x)'
<1>1. requests' = requests /\ issued' = issued
  BY DEF Fleet, SetVehicle, DeleteVehicle, AddSlot, MoveSlot, RemoveSlot
<1>2. reservations'[x] = NoRow
  BY DEF Fleet, SetVehicle, DeleteVehicle, AddSlot, MoveSlot, RemoveSlot, Gone
<1> QED BY <1>1, <1>2 DEF Gone, InFlight

(***************************************************************************)
(* For every interleaving and every failure: a deleted reservation whose   *)
(* entity no handler holds is never inserted again, by save(), the UPDATE  *)
(* of createStripePreauth or a creation, however many requests name it     *)
(* afterwards.                                                             *)
(***************************************************************************)
THEOREM RemovalIsFinal == Spec => GoneForGood
<1>1. Init => TypeInv
  BY InitTypeInv
<1>2. TypeInv /\ [Next]_vars => TypeInv'
  BY NextTypeInv
<1>3. TypeInv /\ [Next]_vars =>
         [\A x \in ReservationIds : Gone(x) => Gone(x)']_vars
  <2> SUFFICES ASSUME TypeInv, Next, NEW x \in ReservationIds, Gone(x)
               PROVE  Gone(x)'
    OBVIOUS
  <2>1. CASE Quiet
    BY <2>1 DEF Quiet, vars, Gone, InFlight
  <2> QED BY <2>1, StartGone, StepGone, FleetGone DEF Next
<1> QED BY <1>1, <1>2, <1>3, PTL DEF Spec, GoneForGood

-----------------------------------------------------------------------------
(***************************************************************************)
(* With one request at a time per reservation, ensureDateRange protects    *)
(* the stored range although save() writes the two dates separately.       *)
(***************************************************************************)
THEOREM RangesStayOrdered ==
    ASSUME Isolation # "none"
    PROVE  Spec => []RangesOrdered
<1>1. Init => DossierInv
  BY InitDossierInv
<1>2. DossierInv /\ [Next]_vars => DossierInv'
  BY NextDossierInv
<1>3. DossierInv => RangesOrdered
  BY DEF DossierInv
<1> QED BY <1>1, <1>2, <1>3, PTL DEF Spec

-----------------------------------------------------------------------------
(***************************************************************************)
(* One request at a time (Isolation = "serial"), and no update that names  *)
(* another vehicle: the calendar.  The check of create() and update() is   *)
(* on the vehicle and the range that are stored later, and nothing has     *)
(* changed in between.                                                     *)
(***************************************************************************)
AtMostOne ==
    \A r, q \in RequestIds : InFlight(r) /\ InFlight(q) => r = q

\* The entity of q clashes with no reservation but its own.
Fits(q) == \A y \in ReservationIds \ {q.id} : ~Clash(q.want, reservations[y])

Cleared(q) ==
    /\ q.pc \in Checking => q.vehicle = q.want.vehicle
    /\ q.pc \in Checking \cup {"insert"} /\ q.op = "create" => q.id = NoId
    /\ q.pc \in {"insert", "select", "save"} => Fits(q)
    /\ q.pc = "save" => \A c \in Columns \ q.diff : q.want[c] = reservations[q.id][c]

CalendarInv ==
    /\ DossierInv
    /\ AtMostOne
    /\ NoDoubleBooking
    /\ \A r \in RequestIds : Cleared(requests[r])

LEMMA ClashSymmetric ==
    ASSUME NEW u \in Row \cup {NoRow}, NEW w \in Row \cup {NoRow}
    PROVE  Clash(u, w) <=> Clash(w, u)
  BY TimesAssumption, NullAssumption DEF Clash, Blocking, Overlaps, Row

\* Replacing one row by one that clashes with no other.
LEMMA OneRow ==
    ASSUME CalendarInv, TypeInv', NEW x \in ReservationIds,
           \A y \in ReservationIds \ {x} : reservations'[y] = reservations[y],
           \A y \in ReservationIds \ {x} : ~Clash(reservations'[x], reservations[y])
    PROVE  NoDoubleBooking'
<1>1. \A y \in ReservationIds : reservations'[y] \in Row \cup {NoRow}
  BY DEF TypeInv, TypeOK
<1>2. \A y \in ReservationIds \ {x} : ~Clash(reservations'[y], reservations'[x])
  BY <1>1, ClashSymmetric
<1> QED BY <1>2 DEF CalendarInv, NoDoubleBooking

\* A row that keeps its vehicle and its range, and was blocking if it is.
LEMMA SameBooking ==
    ASSUME NEW u, NEW v, NEW w, ~Clash(u, w), Blocking(v) => Blocking(u),
           v # NoRow =>
              /\ v.vehicle = u.vehicle /\ v.start = u.start /\ v.end = u.end
    PROVE  ~Clash(v, w)
  BY DEF Clash, Blocking

\* Only blocking statuses have a successor.
LEMMA OnlyBlockingMoves ==
    ASSUME NEW s \in Statuses, NEW t \in ALLOWED_TRANSITIONS[s]
    PROVE  s \in BLOCKING_STATUSES
  BY DEF ALLOWED_TRANSITIONS, BLOCKING_STATUSES, Statuses

LEMMA InitCalendarInv == Init => CalendarInv
<1> SUFFICES ASSUME Init PROVE CalendarInv
  OBVIOUS
<1>1. \A r \in RequestIds : requests[r].pc = "idle"
  BY DEF Init, Idle
<1>2. AtMostOne /\ \A r \in RequestIds : Cleared(requests[r])
  BY <1>1 DEF AtMostOne, InFlight, Cleared, Checking
<1> QED BY <1>2, InitDossierInv DEF CalendarInv, NoDoubleBooking, Init

\* The rest of the invariant, when the step is one of request r.
LEMMA OneClears ==
    ASSUME CalendarInv, DossierInv', NoDoubleBooking', NEW r \in RequestIds,
           \A q \in RequestIds \ {r} : requests'[q] = requests[q] /\ ~InFlight(q),
           Cleared(requests[r])'
    PROVE  CalendarInv'
<1>1. AtMostOne'
  BY DEF AtMostOne, InFlight
<1>2. ASSUME NEW q \in RequestIds \ {r}
      PROVE  Cleared(requests[q])'
  BY DEF InFlight, Cleared, Checking, Ended
<1> QED BY <1>1, <1>2 DEF CalendarInv

LEMMA CreateCalendarInv ==
    ASSUME Isolation = "serial", CalendarInv, DossierInv', NEW r \in RequestIds,
           NEW v \in VehicleIds \cup {NoVehicle},
           NEW s \in Times, NEW e \in Times, Create(r, v, s, e)
    PROVE  CalendarInv'
<1> DEFINE p == requests'[r]
<1>1. /\ p.pc = IF v = NoVehicle THEN "insert" ELSE "vehicle"
      /\ p.id = NoId /\ p.vehicle = v /\ p.want.vehicle = v
      /\ \A q \in RequestIds \ {r} : requests'[q] = requests[q]
  BY DEF Create, NewRow, Idle, CalendarInv, DossierInv, TypeInv, TypeOK
<1>2. reservations' = reservations /\ \A q \in RequestIds : ~InFlight(q)
  BY DEF Create, MayStart
<1>3. \A y \in ReservationIds : v = NoVehicle => ~Clash(p.want, reservations[y])
  BY <1>1 DEF Clash
<1>4. Cleared(requests[r])'
  BY <1>1, <1>2, <1>3 DEF Cleared, Checking, Fits
<1>5. NoDoubleBooking'
  BY <1>2 DEF CalendarInv, NoDoubleBooking
<1> QED BY <1>1, <1>2, <1>4, <1>5, OneClears

LEMMA LoadedCalendarInv ==
    ASSUME Isolation = "serial", CalendarInv, DossierInv', NEW r \in RequestIds,
           NEW x \in ReservationIds, NEW op, NEW pc, NEW v, NEW want, NEW todo,
           Loaded(r, x, op, pc, v, want, todo),
           op # "create",
           pc \notin {"save", "insert"},
           pc \in Checking => v = want.vehicle,
           pc = "select" =>
              \A y \in ReservationIds \ {x} : ~Clash(want, reservations[y])
    PROVE  CalendarInv'
<1> DEFINE p == requests'[r]
<1>1. /\ p.pc = pc /\ p.op = op /\ p.id = x /\ p.vehicle = v /\ p.want = want
      /\ \A q \in RequestIds \ {r} : requests'[q] = requests[q]
  BY DEF Loaded, Idle, CalendarInv, DossierInv, TypeInv, TypeOK
<1>2. reservations' = reservations /\ \A q \in RequestIds : ~InFlight(q)
  BY DEF Loaded, MayStart
<1>3. Cleared(requests[r])'
  BY <1>1, <1>2 DEF Cleared, Checking, Fits
<1>4. NoDoubleBooking'
  BY <1>2 DEF CalendarInv, NoDoubleBooking
<1> QED BY <1>1, <1>2, <1>3, <1>4, OneClears

\* A change of status alone makes no new clash.
LEMMA StatusFits ==
    ASSUME CalendarInv, NEW x \in ReservationIds, reservations[x] # NoRow,
           NEW status \in ALLOWED_TRANSITIONS[reservations[x].status]
    PROVE  \A y \in ReservationIds \ {x} :
              ~Clash([reservations[x] EXCEPT !.status = status], reservations[y])
<1> DEFINE want == [reservations[x] EXCEPT !.status = status]
<1>1. reservations[x] \in Row
  BY DEF CalendarInv, DossierInv, TypeInv, TypeOK
<1>2. Blocking(reservations[x])
  BY <1>1, OnlyBlockingMoves DEF Blocking, Row
<1>3. /\ want.vehicle = reservations[x].vehicle
      /\ want.start = reservations[x].start /\ want.end = reservations[x].end
  BY <1>1 DEF Row
<1>4. \A y \in ReservationIds \ {x} : ~Clash(reservations[x], reservations[y])
  BY DEF CalendarInv, NoDoubleBooking
<1> HIDE DEF want
<1>5. \A y \in ReservationIds \ {x} : ~Clash(want, reservations[y])
  BY <1>2, <1>3, <1>4, SameBooking
<1> QED BY <1>5 DEF want

LEMMA StartCalendarInv ==
    ASSUME Isolation = "serial", ~Retargets, CalendarInv, DossierInv',
           NEW r \in RequestIds, Start(r)
    PROVE  CalendarInv'
<1>1. ASSUME NEW v \in VehicleIds \cup {NoVehicle}, NEW s \in Times,
             NEW e \in Times, Create(r, v, s, e)
      PROVE  CalendarInv'
  BY <1>1, CreateCalendarInv
<1>2. ASSUME NEW x \in ReservationIds, NEW dto \in Updates, LoadUpdate(r, x, dto)
      PROVE  CalendarInv'
  <2> DEFINE row == reservations[x]
             next == OrElse(dto.vehicle, row.vehicle)
             want == [row EXCEPT !.vehicle = IF row.vehicle # NoVehicle
                                             THEN row.vehicle ELSE next,
                                 !.start = OrElse(dto.start, row.start),
                                 !.end = OrElse(dto.end, row.end)]
             pc == CASE dto.vehicle # Unset -> "vehicle"
                     [] dto.vehicle = Unset /\ next # NoVehicle -> "slots"
                     [] OTHER -> "select"
  <2>1. row \in Row
    BY <1>2 DEF LoadUpdate, CalendarInv, DossierInv, TypeInv, TypeOK
  <2>2. want.vehicle = next
    BY <1>2, <2>1 DEF LoadUpdate, OrElse, Row
  <2>3. pc = "select" => next = NoVehicle
    OBVIOUS
  <2>4. pc \in {"vehicle", "slots", "select"}
    OBVIOUS
  <2>5. Loaded(r, x, "update", pc, next, want,
               <<Ev(r, "reservation_updated", NoStatus)>>)
    BY <1>2 DEF LoadUpdate
  <2> HIDE DEF want, pc, next
  <2>6. pc = "select" => \A y \in ReservationIds : ~Clash(want, reservations[y])
    BY <2>2, <2>3 DEF Clash
  <2> QED BY <2>2, <2>4, <2>5, <2>6, LoadedCalendarInv
<1>3. ASSUME NEW x \in ReservationIds, NEW status \in Statuses,
             LoadUpdateStatus(r, x, status)
      PROVE  CalendarInv'
  BY <1>3, StatusFits, LoadedCalendarInv DEF LoadUpdateStatus, Checking
<1>4. ASSUME NEW x \in ReservationIds, NEW body \in EventBodies,
             LoadStatusEvent(r, x, body)
      PROVE  CalendarInv'
  <2>1. EventTo[body.type] \in ALLOWED_TRANSITIONS[EventFrom[body.type]]
    BY <1>4 DEF LoadStatusEvent, EventTo, EventFrom, ALLOWED_TRANSITIONS, Statuses
  <2> QED BY <1>4, <2>1, StatusFits, LoadedCalendarInv DEF LoadStatusEvent, Checking
<1>5. ASSUME NEW x \in ReservationIds,
             LoadPreauth(r, x) \/ LoadRemove(r, x)
      PROVE  CalendarInv'
  BY <1>5, LoadedCalendarInv DEF LoadPreauth, LoadRemove, Checking
<1>6. ASSUME NEW x \in ReservationIds, NEW body \in EventBodies,
             LoadNote(r, x, body)
      PROVE  CalendarInv'
  BY <1>6, LoadedCalendarInv DEF LoadNote, Checking
<1> QED BY <1>1, <1>2, <1>3, <1>4, <1>5, <1>6 DEF Start

-----------------------------------------------------------------------------
LEMMA GotoCalendarInv ==
    ASSUME CalendarInv, DossierInv', NEW r \in RequestIds, NEW pc \in PcValues,
           Goto(r, pc), InFlight(r),
           \/ pc \in Ended
           \/ /\ requests[r].pc \in Checking
              /\ pc \in Checking \cup {AfterChecks(r)}
              /\ pc = AfterChecks(r) => Fits(requests[r])
    PROVE  CalendarInv'
<1> DEFINE q == requests[r]
           p == requests'[r]
<1>1. p = IF pc \in Ended THEN Onward(q, pc, <<>>) ELSE [q EXCEPT !.pc = pc]
  BY DEF Goto, CalendarInv, DossierInv, TypeInv, TypeOK
<1>2. q \in Request /\ Cleared(q)
  BY DEF CalendarInv, DossierInv, TypeInv, TypeOK
<1>3. p.pc = pc
  BY <1>1, <1>2 DEF Onward, Idle, Request
<1>4. pc \notin Ended =>
         p.op = q.op /\ p.id = q.id /\ p.want = q.want /\ p.vehicle = q.vehicle
  BY <1>1, <1>2 DEF Request
<1>5. /\ reservations' = reservations
      /\ \A o \in RequestIds \ {r} : requests'[o] = requests[o] /\ ~InFlight(o)
  BY DEF Goto, CalendarInv, AtMostOne, DossierInv, TypeInv, TypeOK
<1>6. Cleared(requests[r])'
  <2>1. CASE pc \in Ended
    BY <1>3, <2>1 DEF Cleared, Checking, Ended
  <2>2. CASE pc \notin Ended
    BY <1>2, <1>3, <1>4, <1>5, <2>2 DEF Cleared, Fits, AfterChecks, Checking
  <2> QED BY <2>1, <2>2
<1>7. NoDoubleBooking'
  BY <1>5 DEF CalendarInv, NoDoubleBooking
<1> QED BY <1>5, <1>6, <1>7, OneClears

\* The two ways through ensureNoVehicleOverlap that let the request go on.
LEMMA PassedChecks ==
    ASSUME CalendarInv, NEW r \in RequestIds, requests[r].pc \in {"blocking", "overlap"},
           \A x \in BlockingOthers(r) :
              ~Overlaps(reservations[x].start, reservations[x].end,
                        requests[r].want.start, requests[r].want.end)
    PROVE  Fits(requests[r])
<1> DEFINE q == requests[r]
<1>1. q.want \in Row /\ q.vehicle = q.want.vehicle
  BY DEF CalendarInv, DossierInv, TypeInv, Shape, Cleared, Holding, Checking
<1> SUFFICES ASSUME NEW y \in ReservationIds \ {q.id}, Clash(q.want, reservations[y])
             PROVE  FALSE
  BY DEF Fits
<1>2. y \in BlockingOthers(r) /\ reservations[y] \in Row
  BY <1>1
      DEF Clash, BlockingOthers, Blocking, CalendarInv, DossierInv, TypeInv,
          TypeOK
<1>3. Overlaps(reservations[y].start, reservations[y].end, q.want.start, q.want.end)
  BY <1>1, <1>2, TimesAssumption DEF Clash, Overlaps, Row
<1> QED BY <1>2, <1>3

LEMMA StepCalendarInv ==
    ASSUME CalendarInv, TypeInv', DossierInv', NEW r \in RequestIds, Step(r)
    PROVE  CalendarInv'
<1> DEFINE q == requests[r]
<1>0. Shape(q) /\ q \in Request /\ Agrees(q) /\ Cleared(q)
  BY DEF CalendarInv, DossierInv, TypeInv, Shape
<1>1. CASE CheckVehicle(r)
  BY <1>1, GotoCalendarInv
  DEF CheckVehicle, InFlight, AfterChecks, Checking, PcValues, Ended
<1>2. CASE CheckSlots(r)
  BY <1>2, GotoCalendarInv
  DEF CheckSlots, InFlight, AfterChecks, Checking, PcValues, Ended
<1>3. CASE CountBlocking(r)
  <2>1. BlockingOthers(r) = {} => Fits(q)
    BY <1>3, PassedChecks DEF CountBlocking
  <2> QED BY <1>3, <2>1, GotoCalendarInv
          DEF CountBlocking, InFlight, AfterChecks, Checking, PcValues, Ended
<1>4. CASE CheckOverlap(r)
  <2> DEFINE overlap == \E x \in BlockingOthers(r) :
                Overlaps(reservations[x].start, reservations[x].end,
                         q.want.start, q.want.end)
  <2>1. ~overlap => Fits(q)
    BY <1>4, PassedChecks DEF CheckOverlap
  <2>2. Goto(r, IF overlap THEN "refused" ELSE AfterChecks(r)) /\ q.pc = "overlap"
    BY <1>4 DEF CheckOverlap
  <2> HIDE DEF overlap
  <2> QED BY <2>1, <2>2, GotoCalendarInv
          DEF InFlight, AfterChecks, Checking, PcValues, Ended
\* The remaining statements end the time in which the entity matters, or
\* keep the reservations as they are.
<1>a. ASSUME InFlight(r), NoDoubleBooking', Cleared(requests[r])',
             \E p : requests' = [requests EXCEPT ![r] = p]
      PROVE  CalendarInv'
  <2>1. \A o \in RequestIds \ {r} : requests'[o] = requests[o] /\ ~InFlight(o)
    BY <1>a DEF CalendarInv, AtMostOne, DossierInv, TypeInv, TypeOK
  <2> QED BY <1>a, <2>1, OneClears
<1>b. ASSUME requests'[r].pc \in Ended \cup {"append", "confirm"}
      PROVE  Cleared(requests[r])'
  BY <1>b DEF Cleared, Checking, Ended
<1>c. \A o, pc, todo, x :
         /\ Onward(o, pc, todo).pc = pc
         /\ [Onward(o, pc, todo) EXCEPT !.id = x].pc = pc
  BY DEF Onward, Idle
<1>5. ASSUME NEW x \in ReservationIds, Insert(r, x)
      PROVE  CalendarInv'
  <2>1. /\ q.pc = "insert" /\ q.id = NoId /\ Fits(q)
        /\ reservations'[x] = q.want
        /\ \A y \in ReservationIds \ {x} : reservations'[y] = reservations[y]
        /\ requests'[r].pc = "append"
    BY <1>0, <1>5, <1>c
    DEF Insert, Agrees, Cleared, Checking, CalendarInv, DossierInv, TypeInv, TypeOK
  <2>2. \A y \in ReservationIds : ~Clash(q.want, reservations[y])
    BY <2>1, NullAssumption DEF Fits
  <2>3. NoDoubleBooking'
    BY <2>1, <2>2, OneRow
  <2> QED BY <1>5, <1>a, <1>b, <2>1, <2>3 DEF Insert, InFlight, Ended
<1>6. CASE SaveSelect(r)
  <2>1. /\ q.pc = "select" /\ q.op # "create" /\ reservations[q.id] # NoRow
        /\ Fits(q) /\ UNCHANGED reservations
    BY <1>0, <1>6 DEF SaveSelect, Agrees, Cleared, Checking, Follows
  <2>2. /\ requests'[r].pc = "save" /\ requests'[r].id = q.id
        /\ requests'[r].want = q.want
        /\ requests'[r].diff = {c \in Columns : q.want[c] # reservations[q.id][c]}
    BY <1>0, <1>6, <2>1
        DEF SaveSelect, CalendarInv, DossierInv, TypeInv, TypeOK, Request
  <2>3. Cleared(requests[r])'
    BY <2>1, <2>2 DEF Cleared, Fits, Checking
  <2>4. NoDoubleBooking'
    BY <2>1 DEF CalendarInv, NoDoubleBooking
  <2> QED BY <1>6, <1>a, <2>1, <2>3, <2>4 DEF SaveSelect, InFlight, Ended
<1>7. CASE SaveUpdate(r)
  <2> DEFINE row == reservations[q.id]
             new == Merge(row, q.want, q.diff)
  <2>1. /\ q.pc = "save" /\ q.id \in ReservationIds /\ row # NoRow /\ Fits(q)
        /\ \A c \in Columns \ q.diff : q.want[c] = row[c]
    BY <1>0, <1>7 DEF SaveUpdate, Shape, Agrees, Follows, Cleared, Checking
  <2>2. /\ reservations'[q.id] = new
        /\ \A y \in ReservationIds \ {q.id} : reservations'[y] = reservations[y]
        /\ requests'[r].pc = "append"
    BY <1>7, <1>c, <2>1 DEF SaveUpdate, CalendarInv, DossierInv, TypeInv, TypeOK
  <2>3. /\ new.status = q.want.status /\ new.vehicle = q.want.vehicle
        /\ new.start = q.want.start /\ new.end = q.want.end
    <3>1. /\ "status" \notin q.diff => q.want.status = row.status
          /\ "vehicle" \notin q.diff => q.want.vehicle = row.vehicle
          /\ "start" \notin q.diff => q.want.start = row.start
          /\ "end" \notin q.diff => q.want.end = row.end
      BY <2>1 DEF Columns
    <3> QED BY <3>1 DEF Merge
  <2>4. q.want \in Row
    BY <1>0, <2>1 DEF Shape, Holding
  <2> HIDE DEF new
  <2>5. \A y \in ReservationIds \ {q.id} : ~Clash(new, reservations[y])
    BY <2>1, <2>3, <2>4, NullAssumption, SameBooking DEF Fits, Blocking
  <2>6. NoDoubleBooking'
    BY <2>1, <2>2, <2>5, OneRow
  <2> QED BY <1>7, <1>a, <1>b, <2>1, <2>2, <2>6 DEF SaveUpdate, InFlight, Ended
<1>8. CASE Reinsert(r)
  BY <1>0, <1>8 DEF Reinsert, Agrees
<1>9. CASE AppendEvent(r)
  <2>1. q.pc = "append" /\ UNCHANGED reservations
    BY <1>9 DEF AppendEvent
  <2>2. requests'[r].pc \in {"done", "confirm", "append"}
    BY <1>9, <1>c DEF AppendEvent, CalendarInv, DossierInv, TypeInv, TypeOK
  <2>3. NoDoubleBooking'
    BY <2>1 DEF CalendarInv, NoDoubleBooking
  <2> QED BY <1>9, <1>a, <1>b, <2>1, <2>2, <2>3 DEF AppendEvent, InFlight, Ended
<1>10. CASE ConfirmPreauth(r)
  <2>1. /\ q.pc = "confirm" /\ q.id \in ReservationIds /\ reservations[q.id] # NoRow
        /\ reservations[q.id].status = "EN_ATTENTE_PAIEMENT"
    BY <1>0, <1>10 DEF ConfirmPreauth, Shape, Agrees, Confirming
  <2>2. /\ reservations'[q.id] = [reservations[q.id] EXCEPT !.status = "CONFIRMEE"]
        /\ \A y \in ReservationIds \ {q.id} : reservations'[y] = reservations[y]
        /\ requests'[r].pc = "append"
    BY <1>10, <1>c, <2>1
        DEF ConfirmPreauth, CalendarInv, DossierInv, TypeInv, TypeOK
  <2>3. "CONFIRMEE" \in ALLOWED_TRANSITIONS["EN_ATTENTE_PAIEMENT"]
    BY DEF ALLOWED_TRANSITIONS, Statuses
  <2>4. NoDoubleBooking'
    BY <2>1, <2>2, <2>3, StatusFits, OneRow
  <2> QED BY <1>10, <1>a, <1>b, <2>1, <2>2, <2>4 DEF ConfirmPreauth, InFlight, Ended
<1>11. CASE Delete(r)
  <2>1. q.pc = "delete" /\ q.id \in ReservationIds
    BY <1>0, <1>11 DEF Delete, Shape
  <2>2. /\ reservations'[q.id] = NoRow
        /\ \A y \in ReservationIds \ {q.id} : reservations'[y] = reservations[y]
        /\ requests'[r].pc = "done"
    BY <1>11, <1>c, <2>1 DEF Delete, CalendarInv, DossierInv, TypeInv, TypeOK
  <2>3. NoDoubleBooking'
    BY <2>1, <2>2, OneRow DEF Clash, Blocking
  <2> QED BY <1>11, <1>a, <1>b, <2>1, <2>2, <2>3 DEF Delete, InFlight, Ended
<1>12. CASE Fail(r)
  BY <1>12, GotoCalendarInv DEF Fail, PcValues, Ended
<1> QED BY <1>1, <1>2, <1>3, <1>4, <1>5, <1>6, <1>7, <1>8, <1>9, <1>10, <1>11,
           <1>12 DEF Step

LEMMA FleetCalendarInv ==
    ASSUME Isolation = "serial", CalendarInv, DossierInv', Fleet
    PROVE  CalendarInv'
<1>1. requests' = requests /\ \A r \in RequestIds : ~InFlight(r)
  BY DEF Fleet, FleetMayAct, SetVehicle, DeleteVehicle, AddSlot, MoveSlot,
         RemoveSlot, View!SetVehicle, View!DeleteVehicle, View!AddSlot,
         View!MoveSlot, View!RemoveSlot
<1>2. AtMostOne' /\ \A r \in RequestIds : Cleared(requests[r])'
  BY <1>1 DEF AtMostOne, InFlight, Cleared, Checking, Ended
<1>3. ASSUME NEW v \in VehicleIds, DeleteVehicle(v) PROVE NoDoubleBooking'
  <2>1. \A x \in ReservationIds :
           \/ reservations'[x] = reservations[x]
           \/ reservations'[x] # NoRow => reservations'[x].vehicle = NoVehicle
    <3>1. \A x \in ReservationIds : reservations[x] # NoRow =>
             [reservations[x] EXCEPT !.vehicle = NoVehicle].vehicle = NoVehicle
      BY DEF CalendarInv, DossierInv, TypeInv, TypeOK, Row
    <3> QED BY <1>3, <3>1 DEF DeleteVehicle, View!DeleteVehicle
  <2> QED BY <2>1 DEF CalendarInv, NoDoubleBooking, Clash, Blocking
<1>4. NoDoubleBooking'
  <2>1. UNCHANGED reservations => NoDoubleBooking'
    BY DEF CalendarInv, NoDoubleBooking
  <2> QED BY <1>3, <2>1
      DEF Fleet, SetVehicle, AddSlot, MoveSlot, RemoveSlot, View!SetVehicle,
          View!AddSlot, View!MoveSlot, View!RemoveSlot
<1> QED BY <1>2, <1>4 DEF CalendarInv

LEMMA NextCalendarInv ==
    ASSUME Isolation = "serial", ~Retargets
    PROVE  CalendarInv /\ [Next]_vars => CalendarInv'
<1> SUFFICES ASSUME CalendarInv, [Next]_vars PROVE CalendarInv'
  OBVIOUS
<1>1. DossierInv' /\ TypeInv'
  BY NextDossierInv DEF CalendarInv, DossierInv
<1>2. ASSUME NEW r \in RequestIds, Start(r) PROVE CalendarInv'
  BY <1>1, <1>2, StartCalendarInv
<1>3. ASSUME NEW r \in RequestIds, Step(r) PROVE CalendarInv'
  BY <1>1, <1>3, StepCalendarInv
<1>4. CASE Fleet
  BY <1>1, <1>4, FleetCalendarInv
<1>5. CASE UNCHANGED vars
  BY <1>1, <1>5
  DEF vars, CalendarInv, AtMostOne, InFlight, NoDoubleBooking, Cleared, Fits
<1> QED BY <1>2, <1>3, <1>4, <1>5 DEF Next, Quiet

(***************************************************************************)
(* When requests are handled one at a time and no update moves a           *)
(* reservation to another vehicle, ensureNoVehicleOverlap keeps its        *)
(* promise: no vehicle is promised to two reservations at one time, over   *)
(* any number of reservations, vehicles and instants, with failures at any *)
(* await.  Run race_double_booking shows what happens when requests        *)
(* overlap, section 4 of README.md what happens when an update names       *)
(* another vehicle.                                                        *)
(***************************************************************************)
THEOREM CalendarKept ==
    ASSUME Isolation = "serial", ~Retargets
    PROVE  Spec => []NoDoubleBooking
<1>1. Init => CalendarInv
  BY InitCalendarInv
<1>2. CalendarInv /\ [Next]_vars => CalendarInv'
  BY NextCalendarInv
<1>3. CalendarInv => NoDoubleBooking
  BY DEF CalendarInv
<1> QED BY <1>1, <1>2, <1>3, PTL DEF Spec

=============================================================================
