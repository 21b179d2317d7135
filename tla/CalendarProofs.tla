--------------------------- MODULE CalendarProofs ---------------------------
(***************************************************************************)
(* One request at a time, and no update that names another vehicle,        *)
(* Reservations implements Calendar: each statement of a handler is one    *)
(* step of the atomic calendar, or changes nothing of it.                  *)
(*                                                                         *)
(* The proof looks at one row before and after a step.  CalendarInv, which *)
(* holds on both sides, and the lifecycle of the step leave only Place,    *)
(* Move, Close and a stutter, once the row is known to keep its vehicle.   *)
(* The last part is about the fleet: what the checks found of the vehicle  *)
(* and its schedule slots is still so when the booking is written.         *)
(***************************************************************************)
EXTENDS ReservationsProofs

\* The entity update() holds is on the vehicle of the row, if that has one.
KeepsVehicle(q) ==
    (/\ q.pc \in Checking \cup {"select", "save"} /\ q.op # "create"
     /\ reservations[q.id] # NoRow /\ reservations[q.id].vehicle # NoVehicle)
    => q.want.vehicle = reservations[q.id].vehicle

BookingInv ==
    /\ CalendarInv
    /\ \A r \in RequestIds : KeepsVehicle(requests[r])

\* A step of one request leaves the others out of flight.
LEMMA OneKeeps ==
    ASSUME NEW r \in RequestIds,
           \A o \in RequestIds \ {r} : requests'[o] = requests[o] /\ ~InFlight(o),
           KeepsVehicle(requests[r])'
    PROVE  (\A o \in RequestIds : KeepsVehicle(requests[o]))'
<1> SUFFICES ASSUME NEW o \in RequestIds PROVE KeepsVehicle(requests[o])'
  OBVIOUS
<1>1. CASE o = r
  BY <1>1
<1>2. CASE o # r
  BY <1>2 DEF InFlight, KeepsVehicle, Checking, Ended
<1> QED BY <1>1, <1>2

LEMMA LoadedKeeps ==
    ASSUME Isolation = "serial", TypeInv, NEW r \in RequestIds,
           NEW x \in ReservationIds, NEW op, NEW pc, NEW v, NEW want, NEW todo,
           Loaded(r, x, op, pc, v, want, todo),
           \/ pc \notin Checking \cup {"select", "save"}
           \/ reservations[x].vehicle # NoVehicle =>
                 want.vehicle = reservations[x].vehicle
    PROVE  (\A o \in RequestIds : KeepsVehicle(requests[o]))'
<1>1. /\ requests'[r].pc = pc /\ requests'[r].id = x /\ requests'[r].want = want
      /\ \A q \in RequestIds \ {r} : requests'[q] = requests[q]
  BY DEF Loaded, Idle, TypeInv, TypeOK
<1>2. reservations' = reservations /\ \A q \in RequestIds : ~InFlight(q)
  BY DEF Loaded, MayStart
<1>3. KeepsVehicle(requests[r])'
  BY <1>1, <1>2 DEF KeepsVehicle
<1> QED BY <1>1, <1>2, <1>3, OneKeeps

LEMMA StartKeeps ==
    ASSUME Isolation = "serial", TypeInv, NEW r \in RequestIds, Start(r)
    PROVE  (\A o \in RequestIds : KeepsVehicle(requests[o]))'
<1>1. ASSUME NEW v \in VehicleIds \cup {NoVehicle}, NEW s \in Times,
             NEW e \in Times, Create(r, v, s, e)
      PROVE  (\A o \in RequestIds : KeepsVehicle(requests[o]))'
  <2>1. /\ requests'[r].op = "create"
        /\ \A q \in RequestIds \ {r} : requests'[q] = requests[q]
    BY <1>1 DEF Create, Idle, TypeInv, TypeOK
  <2>2. \A q \in RequestIds : ~InFlight(q)
    BY <1>1 DEF Create, MayStart
  <2> QED BY <2>1, <2>2, OneKeeps DEF KeepsVehicle
<1>2. ASSUME NEW x \in ReservationIds, NEW dto \in Updates, LoadUpdate(r, x, dto)
      PROVE  (\A o \in RequestIds : KeepsVehicle(requests[o]))'
  <2> DEFINE row == reservations[x]
             next == OrElse(dto.vehicle, row.vehicle)
             want == [row EXCEPT !.vehicle = IF row.vehicle # NoVehicle
                                             THEN row.vehicle ELSE next,
                                 !.start = OrElse(dto.start, row.start),
                                 !.end = OrElse(dto.end, row.end)]
             pc == CASE dto.vehicle # Unset -> "vehicle"
                     [] dto.vehicle = Unset /\ next # NoVehicle -> "slots"
                     [] OTHER -> "select"
  <2>1. row \in Row
    BY <1>2 DEF LoadUpdate, TypeInv, TypeOK
  <2>2. row.vehicle # NoVehicle => want.vehicle = row.vehicle
    BY <2>1 DEF Row
  <2>3. Loaded(r, x, "update", pc, next, want,
               <<Ev(r, "reservation_updated", NoStatus)>>)
    BY <1>2 DEF LoadUpdate
  <2> HIDE DEF want, pc, next
  <2> QED BY <2>2, <2>3, LoadedKeeps
<1>3. ASSUME NEW x \in ReservationIds, NEW status,
             reservations[x] # NoRow
      PROVE  [reservations[x] EXCEPT !.status = status].vehicle
                = reservations[x].vehicle
  BY <1>3 DEF TypeInv, TypeOK, Row
<1>4. ASSUME NEW x \in ReservationIds, NEW status \in Statuses,
             LoadUpdateStatus(r, x, status)
      PROVE  (\A o \in RequestIds : KeepsVehicle(requests[o]))'
  BY <1>3, <1>4, LoadedKeeps DEF LoadUpdateStatus
<1>5. ASSUME NEW x \in ReservationIds,
             NEW body \in EventBodies, LoadStatusEvent(r, x, body)
      PROVE  (\A o \in RequestIds : KeepsVehicle(requests[o]))'
  BY <1>3, <1>5, LoadedKeeps DEF LoadStatusEvent
<1>6. ASSUME NEW x \in ReservationIds,
             \/ LoadPreauth(r, x)
             \/ \E body \in EventBodies : LoadNote(r, x, body)
             \/ LoadRemove(r, x)
      PROVE  (\A o \in RequestIds : KeepsVehicle(requests[o]))'
  BY <1>6, LoadedKeeps DEF LoadPreauth, LoadNote, LoadRemove, Checking
<1> QED BY <1>1, <1>2, <1>4, <1>5, <1>6 DEF Start

LEMMA StepKeeps ==
    ASSUME BookingInv, TypeInv', NEW r \in RequestIds, Step(r)
    PROVE  (\A o \in RequestIds : KeepsVehicle(requests[o]))'
<1> DEFINE q == requests[r]
           p == requests'[r]
<1>0. Shape(q) /\ q \in Request /\ Agrees(q) /\ KeepsVehicle(q)
  BY DEF BookingInv, CalendarInv, DossierInv, TypeInv, Shape
<1>1. ASSUME InFlight(r), KeepsVehicle(requests[r])',
             \E new : requests' = [requests EXCEPT ![r] = new]
      PROVE  (\A o \in RequestIds : KeepsVehicle(requests[o]))'
  <2>1. \A o \in RequestIds \ {r} : requests'[o] = requests[o] /\ ~InFlight(o)
    BY <1>1 DEF BookingInv, CalendarInv, AtMostOne, DossierInv, TypeInv, TypeOK
  <2> QED BY <1>1, <2>1, OneKeeps
<1>2. \A o, pc, todo, x :
         /\ Onward(o, pc, todo).pc = pc
         /\ [Onward(o, pc, todo) EXCEPT !.id = x].pc = pc
  BY DEF Onward, Idle
\* The checks, and any failure.
<1>3. ASSUME NEW pc, Goto(r, pc), InFlight(r),
             \/ pc \in Ended
             \/ q.pc \in Checking
      PROVE  (\A o \in RequestIds : KeepsVehicle(requests[o]))'
  <2>1. /\ p = IF pc \in Ended THEN Onward(q, pc, <<>>) ELSE [q EXCEPT !.pc = pc]
        /\ reservations' = reservations
    BY <1>3 DEF Goto, BookingInv, CalendarInv, DossierInv, TypeInv, TypeOK
  <2>2. CASE pc \in Ended
    <3>1. KeepsVehicle(requests[r])'
      BY <1>2, <2>1, <2>2 DEF KeepsVehicle, Checking, Ended
    <3> QED BY <1>1, <1>3, <3>1 DEF Goto
  <2>3. CASE pc \notin Ended
    <3>1. p.op = q.op /\ p.id = q.id /\ p.want = q.want
      BY <1>0, <2>1, <2>3 DEF Request
    <3>2. KeepsVehicle(requests[r])'
      BY <1>0, <1>3, <2>1, <2>3, <3>1 DEF KeepsVehicle
    <3> QED BY <1>1, <1>3, <3>2 DEF Goto
  <2> QED BY <2>2, <2>3
<1>4. CASE CheckVehicle(r) \/ CheckSlots(r) \/ CountBlocking(r) \/ CheckOverlap(r)
  <2>1. q.pc \in Checking /\ \E pc : Goto(r, pc)
    BY <1>4 DEF CheckVehicle, CheckSlots, CountBlocking, CheckOverlap, Checking
  <2>2. InFlight(r)
    BY <2>1 DEF InFlight, Checking, Ended
  <2> QED BY <1>3, <2>1, <2>2
<1>5. CASE Fail(r)
  BY <1>3, <1>5 DEF Fail, Ended
<1>6. CASE SaveSelect(r)
  <2>1. q.pc = "select" /\ q.op # "create" /\ reservations[q.id] # NoRow
    BY <1>0, <1>6 DEF SaveSelect, Agrees, Follows
  <2>2. /\ p.id = q.id /\ p.want = q.want /\ p.op = q.op
        /\ reservations' = reservations
    BY <1>0, <1>6, <2>1
    DEF SaveSelect, BookingInv, CalendarInv, DossierInv, TypeInv, TypeOK, Request
  <2>3. KeepsVehicle(requests[r])'
    BY <1>0, <2>1, <2>2 DEF KeepsVehicle
  <2> QED BY <1>1, <1>6, <2>1, <2>3 DEF SaveSelect, InFlight, Ended
\* After a write the entity no longer matters.
<1>7. ASSUME InFlight(r), p.pc \in Ended \cup {"append", "confirm"},
             \E new : requests' = [requests EXCEPT ![r] = new]
      PROVE  (\A o \in RequestIds : KeepsVehicle(requests[o]))'
  <2>1. KeepsVehicle(requests[r])'
    BY <1>7 DEF KeepsVehicle, Checking, Ended
  <2> QED BY <1>1, <1>7, <2>1
<1>8. ASSUME NEW x \in ReservationIds, Insert(r, x)
      PROVE  (\A o \in RequestIds : KeepsVehicle(requests[o]))'
  <2>1. p.pc = "append"
    BY <1>2, <1>8 DEF Insert, BookingInv, CalendarInv, DossierInv, TypeInv, TypeOK
  <2> QED BY <1>7, <1>8, <2>1 DEF Insert, InFlight, Ended
<1>9. CASE \/ SaveUpdate(r) \/ Reinsert(r) \/ AppendEvent(r)
           \/ ConfirmPreauth(r) \/ Delete(r)
  <2>1. /\ q.pc \in {"save", "reinsert", "append", "confirm", "delete"}
        /\ \E pc \in {"append", "confirm", "done"} : \E todo :
              requests' = [requests EXCEPT ![r] = Onward(q, pc, todo)]
    BY <1>9 DEF SaveUpdate, Reinsert, AppendEvent, ConfirmPreauth, Delete
  <2>2. p.pc \in Ended \cup {"append", "confirm"}
    BY <1>2, <2>1
    DEF Ended, BookingInv, CalendarInv, DossierInv, TypeInv, TypeOK
  <2>3. InFlight(r)
    BY <2>1 DEF InFlight, Ended
  <2> QED BY <1>7, <2>1, <2>2, <2>3
<1> QED BY <1>4, <1>5, <1>6, <1>8, <1>9 DEF Step

LEMMA InitBookingInv == Init => BookingInv
  BY InitCalendarInv DEF BookingInv, Init, Idle, KeepsVehicle, Checking

LEMMA NextBookingInv ==
    ASSUME Isolation = "serial", ~Retargets
    PROVE  BookingInv /\ [Next]_vars => BookingInv'
<1> SUFFICES ASSUME BookingInv, [Next]_vars PROVE BookingInv'
  OBVIOUS
<1>1. CalendarInv'
  BY NextCalendarInv DEF BookingInv
<1>2. TypeInv /\ TypeInv'
  BY <1>1 DEF BookingInv, CalendarInv, DossierInv
<1>3. CASE \E r \in RequestIds : Start(r)
  BY <1>1, <1>2, <1>3, StartKeeps DEF BookingInv
<1>4. CASE \E r \in RequestIds : Step(r)
  BY <1>1, <1>2, <1>4, StepKeeps DEF BookingInv
<1>5. CASE Fleet
  <2>1. requests' = requests /\ \A r \in RequestIds : ~InFlight(r)
    BY <1>5 DEF Fleet, FleetMayAct, SetVehicle, DeleteVehicle, AddSlot, MoveSlot,
       RemoveSlot
  <2> QED BY <1>1, <2>1 DEF BookingInv, KeepsVehicle, InFlight, Checking, Ended
<1>6. CASE UNCHANGED vars
  BY <1>1, <1>6 DEF BookingInv, KeepsVehicle, vars
<1> QED BY <1>3, <1>4, <1>5, <1>6 DEF Next, Quiet

-----------------------------------------------------------------------------
(***************************************************************************)
(* The steps.                                                              *)
(***************************************************************************)

Kept(x) ==
    (/\ reservations[x] # NoRow /\ reservations'[x] # NoRow
     /\ reservations[x].vehicle # NoVehicle)
    => reservations'[x].vehicle = reservations[x].vehicle

\* The booking a row stands for.
LEMMA BookingOfRow ==
    ASSUME NEW w \in Row \cup {NoRow}
    PROVE  /\ BookingOf(w) \in Promised!Booking \cup {NoRow}
           /\ BookingOf(w) # NoRow <=> Blocking(w) /\ w.vehicle # NoVehicle
           /\ BookingOf(w) # NoRow =>
                 /\ BookingOf(w).vehicle = w.vehicle
                 /\ BookingOf(w).start = w.start
                 /\ BookingOf(w).end = w.end
<1> DEFINE b == [vehicle |-> w.vehicle, start |-> w.start, end |-> w.end]
<1>1. Blocking(w) /\ w.vehicle # NoVehicle => b \in Slot
  BY DEF Blocking, Row, Slot
<1>2. BookingOf(w) = IF Blocking(w) /\ w.vehicle # NoVehicle THEN b ELSE NoRow
  BY DEF BookingOf
<1> QED BY <1>1, <1>2, NullAssumption DEF Slot, Promised!Booking

\* Rows that do not clash give bookings that do not overlap.
LEMMA BookingsApart ==
    ASSUME NEW u \in Row \cup {NoRow}, NEW w \in Row \cup {NoRow}, ~Clash(u, w),
           BookingOf(u) # NoRow, BookingOf(w) # NoRow,
           BookingOf(u).vehicle = BookingOf(w).vehicle
    PROVE  ~Promised!Overlaps(BookingOf(u).start, BookingOf(u).end,
                              BookingOf(w).start, BookingOf(w).end)
  BY BookingOfRow DEF Clash, Overlaps, Promised!Overlaps

\* A step that writes the row of x and no other.
LEMMA RowRefines ==
    ASSUME TypeInv, IdsIssued, TypeInv', IdsIssued',
           RangesOrdered', NoDoubleBooking', LifecycleStep,
           NEW x \in ReservationIds, Kept(x),
           \A y \in ReservationIds \ {x} : reservations'[y] = reservations[y],
           issued' \in {issued, issued \cup {x}}
    PROVE  [Promised!Next]_(Promised!vars)
<1> DEFINE old == reservations[x]
           new == reservations'[x]
<1>0. /\ \A y \in ReservationIds : reservations[y] \in Row \cup {NoRow}
      /\ \A y \in ReservationIds : reservations'[y] \in Row \cup {NoRow}
      /\ \A y \in ReservationIds : Bookings[y] = BookingOf(reservations[y])
      /\ \A y \in ReservationIds : Bookings'[y] = BookingOf(reservations'[y])
  BY DEF TypeInv, TypeOK, Bookings
<1>1. \A y \in ReservationIds \ {x} :
         Bookings'[y] = Bookings[y] /\ (y \in Over' <=> y \in Over)
  BY DEF Bookings, Over
<1>2. /\ Bookings' = [Bookings EXCEPT ![x] = Bookings'[x]]
      /\ Bookings'[x] = Bookings[x] => Bookings' = Bookings
  BY <1>1 DEF Bookings
<1>3. Over \subseteq ReservationIds /\ Over' \subseteq ReservationIds
  BY DEF Over, TypeInv, TypeOK
<1>4. /\ Bookings[x] # NoRow <=> Blocking(old) /\ old.vehicle # NoVehicle
      /\ Bookings[x] # NoRow => Bookings[x].vehicle = old.vehicle
  BY <1>0, BookingOfRow
<1>5. /\ Bookings'[x] \in Promised!Booking \cup {NoRow}
      /\ Bookings'[x] # NoRow <=> Blocking(new) /\ new.vehicle # NoVehicle
      /\ Bookings'[x] # NoRow =>
            /\ Bookings'[x].vehicle = new.vehicle
            /\ Bookings'[x].start = new.start /\ Bookings'[x].end = new.end
  BY <1>0, BookingOfRow
<1>6. CASE x \in Over
  <2>1. x \in issued /\ ~Blocking(old)
    BY <1>6 DEF Over
  <2>2. ~Blocking(new)
    <3>1. CASE old = NoRow
      BY <2>1, <3>1 DEF LifecycleStep, Blocking
    <3>2. CASE old # NoRow /\ new # NoRow
      <4>1. old.status \in Statuses /\ old.status \notin BLOCKING_STATUSES
        BY <2>1, <3>2 DEF Blocking, TypeInv, TypeOK, Row
      <4>2. new.status = old.status
        BY <3>2, <4>1, OnlyBlockingMoves DEF LifecycleStep
      <4> QED BY <4>1, <4>2 DEF Blocking
    <3> QED BY <3>1, <3>2 DEF Blocking
  <2>3. x \in Over'
    BY <2>1, <2>2 DEF Over
  <2>4. Over' = Over
    BY <1>1, <1>3, <1>6, <2>3
  <2>5. Bookings' = Bookings
    BY <1>2, <1>4, <1>5, <2>1, <2>2
  <2> QED BY <2>4, <2>5 DEF Promised!vars
<1>7. CASE x \notin Over /\ x \in Over'
  <2>1. Over' = Over \cup {x}
    BY <1>1, <1>3, <1>7
  <2>2. Bookings'[x] = NoRow
    BY <1>5, <1>7 DEF Over
  <2>3. Promised!Close(x)
    BY <1>2, <1>7, <2>1, <2>2 DEF Promised!Close
  <2> QED BY <2>3 DEF Promised!Next
<1>8. CASE x \notin Over /\ x \notin Over'
  <2>1. Over' = Over
    BY <1>1, <1>3, <1>8
  <2>2. Bookings[x] # NoRow => Bookings'[x] # NoRow /\ new.vehicle = old.vehicle
    <3>1. SUFFICES ASSUME Bookings[x] # NoRow
                   PROVE  Blocking(new) /\ new.vehicle = old.vehicle
      BY <1>4, <1>5
    <3>2. old # NoRow /\ old.vehicle # NoVehicle
      BY <1>4, <3>1 DEF Blocking
    <3>3. Blocking(new)
      BY <1>8, <3>2 DEF IdsIssued, Over
    <3> QED BY <3>2, <3>3 DEF Kept, Blocking
  <2>3. CASE Bookings'[x] = NoRow
    BY <1>2, <2>1, <2>2, <2>3 DEF Promised!vars
  <2>4. CASE Bookings'[x] # NoRow
    <3>1. \A y \in ReservationIds \ {x} : ~Clash(reservations'[y], new)
      BY DEF NoDoubleBooking
    <3>2. Promised!Free(x, Bookings'[x])
      BY <1>0, <1>1, <2>4, <3>1, BookingsApart DEF Promised!Free
    <3>3. Bookings'[x].start < Bookings'[x].end
      BY <1>5, <2>4 DEF RangesOrdered, Blocking
    <3>4. Bookings[x] # NoRow => Bookings'[x].vehicle = Bookings[x].vehicle
      BY <1>4, <1>5, <2>2, <2>4
    <3>5. Promised!Place(x, Bookings'[x]) \/ Promised!Move(x, Bookings'[x])
      BY <1>2, <1>8, <2>1, <3>2, <3>3, <3>4 DEF Promised!Place, Promised!Move
    <3> QED BY <1>5, <2>4, <3>5 DEF Promised!Next
  <2> QED BY <2>3, <2>4
<1> QED BY <1>6, <1>7, <1>8

LEMMA StepRefines ==
    ASSUME BookingInv, CalendarInv', LifecycleStep, NEW r \in RequestIds, Step(r)
    PROVE  [Promised!Next]_(Promised!vars)
<1> DEFINE q == requests[r]
<1>0. /\ TypeInv /\ IdsIssued /\ TypeInv' /\ IdsIssued'
      /\ RangesOrdered' /\ NoDoubleBooking'
      /\ Shape(q) /\ Agrees(q) /\ KeepsVehicle(q)
  BY DEF BookingInv, CalendarInv, DossierInv, TypeInv
<1>1. ASSUME UNCHANGED <<reservations, issued>>
      PROVE  [Promised!Next]_(Promised!vars)
  BY <1>1 DEF Promised!vars, Bookings, Over
<1>2. ASSUME NEW x \in ReservationIds, Insert(r, x)
      PROVE  [Promised!Next]_(Promised!vars)
  <2>1. /\ reservations[x] = NoRow /\ issued' = issued \cup {x}
        /\ \A y \in ReservationIds \ {x} : reservations'[y] = reservations[y]
    BY <1>0, <1>2 DEF Insert, IdsIssued, TypeInv, TypeOK
  <2> QED BY <1>0, <2>1, RowRefines DEF Kept
\* The other writes are to the row of q.
<1>3. ASSUME q.id \in ReservationIds, issued' = issued, Kept(q.id),
             \A y \in ReservationIds \ {q.id} : reservations'[y] = reservations[y]
      PROVE  [Promised!Next]_(Promised!vars)
  BY <1>0, <1>3, RowRefines
<1>4. CASE SaveUpdate(r)
  <2> DEFINE row == reservations[q.id]
  <2>1. /\ q.pc = "save" /\ q.id \in ReservationIds
        /\ row # NoRow /\ q.op # "create"
    BY <1>0, <1>4 DEF SaveUpdate, Shape, Agrees, Follows
  <2>2. /\ reservations'[q.id] = Merge(row, q.want, q.diff)
        /\ \A y \in ReservationIds \ {q.id} : reservations'[y] = reservations[y]
        /\ issued' = issued
    BY <1>0, <1>4, <2>1 DEF SaveUpdate, TypeInv, TypeOK
  <2>3. reservations'[q.id].vehicle \in {row.vehicle, q.want.vehicle}
    BY <2>2 DEF Merge
  <2>4. Kept(q.id)
    BY <1>0, <2>1, <2>3 DEF Kept, KeepsVehicle
  <2> QED BY <1>3, <2>1, <2>2, <2>4
<1>5. CASE ConfirmPreauth(r)
  <2>1. q.id \in ReservationIds /\ reservations[q.id] \in Row \cup {NoRow}
    BY <1>0, <1>5 DEF ConfirmPreauth, Shape, TypeInv, TypeOK
  <2>2. /\ reservations'[q.id] = IF reservations[q.id] = NoRow THEN NoRow
               ELSE [reservations[q.id] EXCEPT !.status = "CONFIRMEE"]
        /\ \A y \in ReservationIds \ {q.id} : reservations'[y] = reservations[y]
        /\ issued' = issued
    BY <1>0, <1>5, <2>1 DEF ConfirmPreauth, TypeInv, TypeOK
  <2>3. Kept(q.id)
    BY <2>1, <2>2 DEF Kept, Row
  <2> QED BY <1>3, <2>1, <2>2, <2>3
<1>6. CASE Delete(r)
  <2>1. q.id \in ReservationIds
    BY <1>0, <1>6 DEF Delete, Shape
  <2>2. /\ reservations'[q.id] = NoRow /\ issued' = issued
        /\ \A y \in ReservationIds \ {q.id} : reservations'[y] = reservations[y]
    BY <1>0, <1>6, <2>1 DEF Delete, TypeInv, TypeOK
  <2> QED BY <1>3, <2>1, <2>2 DEF Kept
<1>7. CASE Reinsert(r)
  BY <1>0, <1>7 DEF Reinsert, Agrees
<1>8. CASE \/ CheckVehicle(r) \/ CheckSlots(r) \/ CountBlocking(r)
           \/ CheckOverlap(r) \/ SaveSelect(r) \/ AppendEvent(r) \/ Fail(r)
  BY <1>1, <1>8 DEF CheckVehicle, CheckSlots, CountBlocking, CheckOverlap,
     SaveSelect, AppendEvent, Fail, Goto
<1> QED BY <1>2, <1>4, <1>5, <1>6, <1>7, <1>8 DEF Step

\* VehiclesService.remove withdraws the vehicle's bookings, and no more.
LEMMA FleetRefines ==
    ASSUME TypeInv, TypeInv', Fleet
    PROVE  [Promised!Next]_(Promised!vars)
<1>1. ASSUME UNCHANGED <<reservations, issued>>
      PROVE  [Promised!Next]_(Promised!vars)
  BY <1>1 DEF Promised!vars, Bookings, Over
<1>2. ASSUME NEW v \in VehicleIds, DeleteVehicle(v)
      PROVE  [Promised!Next]_(Promised!vars)
  <2>1. issued' = issued /\ v # NoVehicle
    BY <1>2, NullAssumption DEF DeleteVehicle
  <2>2. ASSUME NEW x \in ReservationIds
        PROVE  /\ Blocking(reservations'[x]) <=> Blocking(reservations[x])
               /\ BookingOf(reservations'[x]) =
                     IF BookingOf(reservations[x]) # NoRow
                          /\ BookingOf(reservations[x]).vehicle = v
                     THEN NoRow ELSE BookingOf(reservations[x])
    <3> DEFINE old == reservations[x]
               new == reservations'[x]
    <3>1. old \in Row \cup {NoRow} /\ new \in Row \cup {NoRow}
      BY DEF TypeInv, TypeOK
    <3>2. new = IF old # NoRow /\ old.vehicle = v
                THEN [old EXCEPT !.vehicle = NoVehicle] ELSE old
      BY <1>2 DEF DeleteVehicle
    <3>3. CASE old # NoRow /\ old.vehicle = v
      <4>1. new.vehicle = NoVehicle /\ new.status = old.status
        BY <3>1, <3>2, <3>3 DEF Row
      <4>2. new # NoRow
        BY <3>1, <3>2, <3>3, NullAssumption DEF Row
      <4>3. BookingOf(new) = NoRow
        BY <4>1 DEF BookingOf
      <4>4. BookingOf(old) # NoRow => BookingOf(old).vehicle = v
        BY <3>1, <3>3, BookingOfRow
      <4> QED BY <3>3, <4>1, <4>2, <4>3, <4>4 DEF Blocking
    <3>4. CASE ~(old # NoRow /\ old.vehicle = v)
      <4>1. new = old
        BY <3>2, <3>4
      <4>2. BookingOf(old) # NoRow => BookingOf(old).vehicle # v
        BY <3>1, <3>4, BookingOfRow DEF Blocking
      <4> QED BY <4>1, <4>2
    <3> QED BY <3>3, <3>4
  <2>3. Over' = Over
    BY <2>1, <2>2 DEF Over, TypeInv, TypeOK
  <2>4. Bookings' = [x \in ReservationIds |->
           IF Bookings[x] # NoRow /\ Bookings[x].vehicle = v
           THEN NoRow ELSE Bookings[x]]
    BY <2>2 DEF Bookings
  <2> QED BY <2>3, <2>4 DEF Promised!Next, Promised!Withdraw
<1> QED BY <1>1, <1>2 DEF Fleet, SetVehicle, AddSlot, MoveSlot, RemoveSlot

LEMMA InitRefines == Init => Promised!Init
<1> SUFFICES ASSUME Init PROVE Promised!Init
  OBVIOUS
<1>1. CalendarInv
  BY InitCalendarInv
<1>2. TypeInv /\ NoDoubleBooking
  BY <1>1 DEF CalendarInv, DossierInv
<1>3. /\ \A x \in ReservationIds : reservations[x] \in Row \cup {NoRow}
      /\ \A x \in ReservationIds : Bookings[x] = BookingOf(reservations[x])
      /\ Bookings = [x \in ReservationIds |-> Bookings[x]]
  BY <1>2 DEF TypeInv, TypeOK, Bookings
<1>4. Bookings \in [ReservationIds -> Promised!Booking \cup {NoRow}]
  BY <1>3, BookingOfRow
<1>5. \A x \in ReservationIds : Bookings[x] # NoRow => Promised!Free(x, Bookings[x])
  BY <1>2, <1>3, BookingsApart DEF NoDoubleBooking, Promised!Free
<1>6. Over \in SUBSET {x \in ReservationIds : Bookings[x] = NoRow}
  BY <1>2, <1>3, BookingOfRow DEF Over, TypeInv, TypeOK
<1> QED BY <1>4, <1>5, <1>6 DEF Promised!Init

LEMMA NextRefines ==
    ASSUME Isolation = "serial", ~Retargets
    PROVE  BookingInv /\ [Next]_vars => [Promised!Next]_(Promised!vars)
<1> SUFFICES ASSUME BookingInv, [Next]_vars
             PROVE  [Promised!Next]_(Promised!vars)
  OBVIOUS
<1>1. CalendarInv' /\ LifecycleStep
  BY NextCalendarInv, StepLifecycle DEF BookingInv, CalendarInv
<1>2. TypeInv /\ TypeInv'
  BY <1>1 DEF BookingInv, CalendarInv, DossierInv
<1>3. UNCHANGED <<reservations, issued>> => UNCHANGED Promised!vars
  BY DEF Promised!vars, Bookings, Over
<1>4. CASE \E r \in RequestIds : Start(r)
  <2> PICK r \in RequestIds : Start(r)
    BY <1>4
  <2>1. ASSUME NEW x, NEW op, NEW pc, NEW v, NEW want, NEW todo,
               Loaded(r, x, op, pc, v, want, todo)
        PROVE  UNCHANGED <<reservations, issued>>
    BY <2>1 DEF Loaded
  <2>2. UNCHANGED <<reservations, issued>>
    BY <2>1 DEF Start, Create, LoadUpdate, LoadUpdateStatus, LoadPreauth,
       LoadStatusEvent, LoadNote, LoadRemove
  <2> QED BY <1>3, <2>2
<1>5. CASE \E r \in RequestIds : Step(r)
  BY <1>1, <1>5, StepRefines
<1>6. CASE Fleet
  BY <1>2, <1>6, FleetRefines
<1>7. CASE UNCHANGED vars
  BY <1>3, <1>7 DEF vars
<1> QED BY <1>4, <1>5, <1>6, <1>7 DEF Next, Quiet

(***************************************************************************)
(* One request at a time, ReservationsService is the atomic calendar:      *)
(* over any number of reservations, vehicles and requests, with failures   *)
(* at any await and vehicles deleted under their bookings, each write      *)
(* places, moves or ends one booking that is free at that moment, and a    *)
(* closed, cancelled, refused or removed reservation never books again.    *)
(***************************************************************************)
THEOREM ReservationsKeepCalendar ==
    ASSUME Isolation = "serial", ~Retargets
    PROVE  Spec => ImplementsCalendar
<1>1. Init => BookingInv /\ Promised!Init
  BY InitBookingInv, InitRefines
<1>2. BookingInv /\ [Next]_vars => BookingInv'
  BY NextBookingInv
<1>3. BookingInv /\ [Next]_vars => [Promised!Next]_(Promised!vars)
  BY NextRefines
<1> QED BY <1>1, <1>2, <1>3, PTL DEF Spec, ImplementsCalendar, Promised!Spec

-----------------------------------------------------------------------------
(***************************************************************************)
(* The fleet.  What ensureVehicleAssignable and the slot query found about *)
(* the entity of a handler still holds when the entity is stored: one      *)
(* request at a time, the fleet waits for its end.  An entity that is      *)
(* stored without those checks puts its reservation on no other vehicle    *)
(* and, without the slot query, on no other dates either.                  *)
(***************************************************************************)
Places(q) == q.op = "create" \/ reservations[q.id].vehicle # q.want.vehicle

Moves(q) ==
    \/ Places(q)
    \/ reservations[q.id].start # q.want.start
    \/ reservations[q.id].end # q.want.end

HeedsFleet(q) ==
    LET v == q.want.vehicle
    IN  v # NoVehicle =>
           /\ q.pc \in Holding \ {"vehicle"} /\ Places(q) =>
                 vehicles[v] = "assignable"
           /\ q.pc \in Holding \ {"vehicle", "slots"} /\ Moves(q) =>
                 ~SlotConflict(v, q.want)

FleetInv ==
    /\ BookingInv
    /\ \A r \in RequestIds : HeedsFleet(requests[r])

LEMMA OneHeeds ==
    ASSUME NEW r \in RequestIds,
           \A o \in RequestIds \ {r} : requests'[o] = requests[o] /\ ~InFlight(o),
           HeedsFleet(requests[r])'
    PROVE  (\A o \in RequestIds : HeedsFleet(requests[o]))'
<1> SUFFICES ASSUME NEW o \in RequestIds PROVE HeedsFleet(requests[o])'
  OBVIOUS
<1>1. CASE o = r
  BY <1>1
<1>2. CASE o # r
  BY <1>2 DEF InFlight, HeedsFleet, Holding, Checking, Ended
<1> QED BY <1>1, <1>2

LEMMA LoadedHeeds ==
    ASSUME Isolation = "serial", TypeInv, NEW r \in RequestIds,
           NEW x \in ReservationIds, NEW op, NEW pc, NEW v, NEW want, NEW todo,
           Loaded(r, x, op, pc, v, want, todo),
           op # "create", pc \in Holding => pc \in {"vehicle", "slots", "select"},
           pc = "slots" => want.vehicle = reservations[x].vehicle,
           pc = "select" =>
              \/ want.vehicle = NoVehicle
              \/ /\ want.vehicle = reservations[x].vehicle
                 /\ want.start = reservations[x].start
                 /\ want.end = reservations[x].end
    PROVE  (\A o \in RequestIds : HeedsFleet(requests[o]))'
<1>1. /\ requests'[r].pc = pc /\ requests'[r].id = x /\ requests'[r].want = want
      /\ requests'[r].op = op
      /\ \A q \in RequestIds \ {r} : requests'[q] = requests[q]
  BY DEF Loaded, Idle, TypeInv, TypeOK
<1>2. reservations' = reservations /\ \A q \in RequestIds : ~InFlight(q)
  BY DEF Loaded, MayStart
<1>3. HeedsFleet(requests[r])'
  BY <1>1, <1>2 DEF HeedsFleet, Places, Moves
<1> QED BY <1>1, <1>2, <1>3, OneHeeds

LEMMA StartHeeds ==
    ASSUME Isolation = "serial", ~Retargets, TypeInv, NEW r \in RequestIds, Start(r)
    PROVE  (\A o \in RequestIds : HeedsFleet(requests[o]))'
<1>1. ASSUME NEW v \in VehicleIds \cup {NoVehicle}, NEW s \in Times,
             NEW e \in Times, Create(r, v, s, e)
      PROVE  (\A o \in RequestIds : HeedsFleet(requests[o]))'
  <2>1. /\ requests'[r].pc = IF v = NoVehicle THEN "insert" ELSE "vehicle"
        /\ requests'[r].want.vehicle = v
        /\ \A q \in RequestIds \ {r} : requests'[q] = requests[q]
    BY <1>1 DEF Create, NewRow, Idle, TypeInv, TypeOK
  <2>2. \A q \in RequestIds : ~InFlight(q)
    BY <1>1 DEF Create, MayStart
  <2> QED BY <2>1, <2>2, OneHeeds DEF HeedsFleet
<1>2. ASSUME NEW x \in ReservationIds, NEW dto \in Updates, LoadUpdate(r, x, dto)
      PROVE  (\A o \in RequestIds : HeedsFleet(requests[o]))'
  <2> DEFINE row == reservations[x]
             next == OrElse(dto.vehicle, row.vehicle)
             want == [row EXCEPT !.vehicle = IF row.vehicle # NoVehicle
                                             THEN row.vehicle ELSE next,
                                 !.start = OrElse(dto.start, row.start),
                                 !.end = OrElse(dto.end, row.end)]
             pc == CASE dto.vehicle # Unset -> "vehicle"
                     [] dto.vehicle = Unset /\ next # NoVehicle -> "slots"
                     [] OTHER -> "select"
  <2>1. row \in Row
    BY <1>2 DEF LoadUpdate, TypeInv, TypeOK
  <2>2. /\ want.vehicle = next
        /\ dto.vehicle = Unset => next = row.vehicle
    BY <1>2, <2>1 DEF LoadUpdate, OrElse, Row
  <2>3. /\ pc \in {"vehicle", "slots", "select"}
        /\ pc = "slots" => dto.vehicle = Unset
        /\ pc = "select" => next = NoVehicle
    OBVIOUS
  <2>4. Loaded(r, x, "update", pc, next, want,
               <<Ev(r, "reservation_updated", NoStatus)>>)
    BY <1>2 DEF LoadUpdate
  <2> HIDE DEF want, pc, next
  <2> QED BY <2>2, <2>3, <2>4, LoadedHeeds
<1>3. ASSUME NEW x \in ReservationIds, NEW status, reservations[x] # NoRow
      PROVE  LET want == [reservations[x] EXCEPT !.status = status]
             IN  /\ want.vehicle = reservations[x].vehicle
                 /\ want.start = reservations[x].start
                 /\ want.end = reservations[x].end
  BY <1>3 DEF TypeInv, TypeOK, Row
<1>4. ASSUME NEW x \in ReservationIds, NEW status \in Statuses,
             LoadUpdateStatus(r, x, status)
      PROVE  (\A o \in RequestIds : HeedsFleet(requests[o]))'
  BY <1>3, <1>4, LoadedHeeds DEF LoadUpdateStatus
<1>5. ASSUME NEW x \in ReservationIds,
             NEW body \in EventBodies, LoadStatusEvent(r, x, body)
      PROVE  (\A o \in RequestIds : HeedsFleet(requests[o]))'
  BY <1>3, <1>5, LoadedHeeds DEF LoadStatusEvent
<1>6. ASSUME NEW x \in ReservationIds,
             \/ LoadPreauth(r, x)
             \/ \E body \in EventBodies : LoadNote(r, x, body)
             \/ LoadRemove(r, x)
      PROVE  (\A o \in RequestIds : HeedsFleet(requests[o]))'
  BY <1>6, LoadedHeeds DEF LoadPreauth, LoadNote, LoadRemove, Holding, Checking
<1> QED BY <1>1, <1>2, <1>4, <1>5, <1>6 DEF Start

LEMMA StepHeeds ==
    ASSUME FleetInv, TypeInv', NEW r \in RequestIds, Step(r)
    PROVE  (\A o \in RequestIds : HeedsFleet(requests[o]))'
<1> DEFINE q == requests[r]
           p == requests'[r]
<1>0. /\ TypeInv /\ Shape(q) /\ q \in Request /\ Agrees(q) /\ Cleared(q)
      /\ HeedsFleet(q)
  BY DEF FleetInv, BookingInv, CalendarInv, DossierInv, TypeInv, Shape
<1>1. ASSUME InFlight(r), HeedsFleet(requests[r])',
             \E new : requests' = [requests EXCEPT ![r] = new]
      PROVE  (\A o \in RequestIds : HeedsFleet(requests[o]))'
  <2>1. \A o \in RequestIds \ {r} : requests'[o] = requests[o] /\ ~InFlight(o)
    BY <1>1 DEF FleetInv, BookingInv, CalendarInv, AtMostOne, DossierInv,
       TypeInv, TypeOK
  <2> QED BY <1>1, <2>1, OneHeeds
<1>2. \A o, pc, todo, x :
         /\ Onward(o, pc, todo).pc = pc
         /\ [Onward(o, pc, todo) EXCEPT !.id = x].pc = pc
  BY DEF Onward, Idle
\* The checks, and any failure.
<1>3. ASSUME NEW pc, Goto(r, pc), InFlight(r),
             pc \notin Ended =>
                /\ q.pc \in Checking
                /\ q.pc = "vehicle" => pc = "slots"
                                       /\ vehicles[q.vehicle] = "assignable"
                /\ q.pc = "slots" => ~SlotConflict(q.vehicle, q.want)
      PROVE  (\A o \in RequestIds : HeedsFleet(requests[o]))'
  <2>1. /\ p = IF pc \in Ended THEN Onward(q, pc, <<>>) ELSE [q EXCEPT !.pc = pc]
        /\ UNCHANGED <<reservations, vehicles, slots>>
    BY <1>0, <1>3 DEF Goto, TypeInv, TypeOK
  <2>2. CASE pc \in Ended
    <3>1. HeedsFleet(requests[r])'
      BY <1>2, <2>1, <2>2 DEF HeedsFleet, Holding, Checking, Ended
    <3> QED BY <1>1, <1>3, <3>1 DEF Goto
  <2>3. CASE pc \notin Ended
    <3>1. p.pc = pc /\ p.op = q.op /\ p.id = q.id /\ p.want = q.want
      BY <1>0, <2>1, <2>3 DEF Request
    <3>2. q.vehicle = q.want.vehicle
      BY <1>0, <1>3, <2>3 DEF Cleared
    <3>3. HeedsFleet(requests[r])'
      BY <1>0, <1>3, <2>1, <2>3, <3>1, <3>2
         DEF HeedsFleet, Places, Moves, SlotConflict, Holding, Checking
    <3> QED BY <1>1, <1>3, <3>3 DEF Goto
  <2> QED BY <2>2, <2>3
<1>4. CASE CheckVehicle(r) \/ CheckSlots(r) \/ CountBlocking(r) \/ CheckOverlap(r)
  <2>1. CASE CheckVehicle(r)
    BY <1>3, <2>1 DEF CheckVehicle, InFlight, Checking, Ended
  <2>2. CASE CheckSlots(r)
    BY <1>3, <2>2 DEF CheckSlots, InFlight, Checking, Ended
  <2>3. CASE CountBlocking(r) \/ CheckOverlap(r)
    <3>1. q.pc \in {"blocking", "overlap"} /\ \E pc : Goto(r, pc)
      BY <2>3 DEF CountBlocking, CheckOverlap
    <3> QED BY <1>3, <3>1 DEF InFlight, Checking, Ended
  <2> QED BY <1>4, <2>1, <2>2, <2>3
<1>5. CASE Fail(r)
  BY <1>3, <1>5 DEF Fail, Ended
<1>6. CASE SaveSelect(r)
  <2>1. q.pc = "select" /\ reservations[q.id] # NoRow
    BY <1>0, <1>6 DEF SaveSelect, Agrees, Follows
  <2>2. /\ p.pc = "save" /\ p.id = q.id /\ p.want = q.want /\ p.op = q.op
        /\ UNCHANGED <<reservations, vehicles, slots>>
    BY <1>0, <1>6, <2>1 DEF SaveSelect, TypeInv, TypeOK, Request
  <2>3. HeedsFleet(requests[r])'
    BY <1>0, <2>1, <2>2
       DEF HeedsFleet, Places, Moves, SlotConflict, Holding
  <2> QED BY <1>1, <1>6, <2>1, <2>3 DEF SaveSelect, InFlight, Ended
\* After a write the entity no longer matters.
<1>7. ASSUME InFlight(r), p.pc \in Ended \cup {"append", "confirm"},
             \E new : requests' = [requests EXCEPT ![r] = new]
      PROVE  (\A o \in RequestIds : HeedsFleet(requests[o]))'
  <2>1. HeedsFleet(requests[r])'
    BY <1>7 DEF HeedsFleet, Holding, Checking, Ended
  <2> QED BY <1>1, <1>7, <2>1
<1>8. ASSUME NEW x \in ReservationIds, Insert(r, x)
      PROVE  (\A o \in RequestIds : HeedsFleet(requests[o]))'
  <2>1. p.pc = "append"
    BY <1>0, <1>2, <1>8 DEF Insert, TypeInv, TypeOK
  <2> QED BY <1>7, <1>8, <2>1 DEF Insert, InFlight, Ended
<1>9. CASE \/ SaveUpdate(r) \/ Reinsert(r) \/ AppendEvent(r)
           \/ ConfirmPreauth(r) \/ Delete(r)
  <2>1. /\ q.pc \in {"save", "reinsert", "append", "confirm", "delete"}
        /\ \E pc \in {"append", "confirm", "done"} : \E todo :
              requests' = [requests EXCEPT ![r] = Onward(q, pc, todo)]
    BY <1>9 DEF SaveUpdate, Reinsert, AppendEvent, ConfirmPreauth, Delete
  <2>2. p.pc \in Ended \cup {"append", "confirm"}
    BY <1>0, <1>2, <2>1 DEF Ended, TypeInv, TypeOK
  <2>3. InFlight(r)
    BY <2>1 DEF InFlight, Ended
  <2> QED BY <1>7, <2>1, <2>2, <2>3
<1> QED BY <1>4, <1>5, <1>6, <1>8, <1>9 DEF Step

LEMMA InitFleetInv == Init => FleetInv
  BY InitBookingInv DEF FleetInv, Init, Idle, HeedsFleet, Holding, Checking

LEMMA NextFleetInv ==
    ASSUME Isolation = "serial", ~Retargets
    PROVE  FleetInv /\ [Next]_vars => FleetInv'
<1> SUFFICES ASSUME FleetInv, [Next]_vars PROVE FleetInv'
  OBVIOUS
<1>1. BookingInv' /\ TypeInv /\ TypeInv'
  BY NextBookingInv DEF FleetInv, BookingInv, CalendarInv, DossierInv
<1>2. CASE \E r \in RequestIds : Start(r)
  BY <1>1, <1>2, StartHeeds DEF FleetInv
<1>3. CASE \E r \in RequestIds : Step(r)
  BY <1>1, <1>3, StepHeeds DEF FleetInv
<1>4. CASE Fleet
  <2>1. requests' = requests /\ \A r \in RequestIds : ~InFlight(r)
    BY <1>4 DEF Fleet, FleetMayAct, SetVehicle, DeleteVehicle, AddSlot, MoveSlot,
       RemoveSlot
  <2> QED BY <1>1, <2>1 DEF FleetInv, HeedsFleet, InFlight, Holding, Checking, Ended
<1>5. CASE UNCHANGED vars
  BY <1>1, <1>5
  DEF FleetInv, HeedsFleet, Places, Moves, SlotConflict, vars
<1> QED BY <1>2, <1>3, <1>4, <1>5 DEF Next, Quiet

\* BookingRespectsFleet, for the step from row old to row new.
Heeded(old, new) ==
    LET placed == old = NoRow \/ old.vehicle # new.vehicle
        moved  == placed \/ old.start # new.start \/ old.end # new.end
    IN  (new # NoRow /\ new.vehicle # NoVehicle) =>
           /\ moved  => ~SlotConflict(new.vehicle, new)
           /\ placed => vehicles[new.vehicle] = "assignable"

LEMMA SameHeeded ==
    ASSUME NEW old, NEW new,
           new = NoRow \/ new.vehicle = NoVehicle
             \/ (/\ old # NoRow /\ new.vehicle = old.vehicle
                 /\ new.start = old.start /\ new.end = old.end)
    PROVE  Heeded(old, new)
  BY DEF Heeded

LEMMA StepHeeded ==
    ASSUME FleetInv, NEW r \in RequestIds, Step(r), NEW x \in ReservationIds
    PROVE  Heeded(reservations[x], reservations'[x])
<1> DEFINE q == requests[r]
           row == reservations[q.id]
<1>0. /\ TypeInv /\ IdsIssued /\ Shape(q) /\ Agrees(q) /\ Cleared(q)
      /\ HeedsFleet(q)
  BY DEF FleetInv, BookingInv, CalendarInv, DossierInv, TypeInv
<1>1. ASSUME reservations'[x] = reservations[x]
      PROVE  Heeded(reservations[x], reservations'[x])
  BY <1>1, SameHeeded
<1>2. ASSUME NEW y \in ReservationIds, Insert(r, y)
      PROVE  Heeded(reservations[x], reservations'[x])
  <2>1. /\ q.pc = "insert" /\ q.op = "create" /\ reservations'[y] = q.want
        /\ reservations[y] = NoRow
        /\ \A z \in ReservationIds \ {y} : reservations'[z] = reservations[z]
    BY <1>0, <1>2 DEF Insert, Agrees, IdsIssued, TypeInv, TypeOK
  <2>2. q.want.vehicle # NoVehicle =>
           /\ vehicles[q.want.vehicle] = "assignable"
           /\ ~SlotConflict(q.want.vehicle, q.want)
    BY <1>0, <2>1 DEF HeedsFleet, Places, Moves, Holding
  <2> QED BY <1>1, <2>1, <2>2 DEF Heeded
<1>3. CASE SaveUpdate(r)
  <2> DEFINE new == Merge(row, q.want, q.diff)
  <2>1. /\ q.pc = "save" /\ q.id \in ReservationIds /\ row # NoRow
        /\ \A c \in Columns \ q.diff : q.want[c] = row[c]
    BY <1>0, <1>3 DEF SaveUpdate, Shape, Agrees, Follows, Cleared
  <2>2. /\ reservations'[q.id] = new
        /\ \A y \in ReservationIds \ {q.id} : reservations'[y] = reservations[y]
    BY <1>0, <1>3, <2>1 DEF SaveUpdate, TypeInv, TypeOK
  <2>3. /\ new.vehicle = q.want.vehicle
        /\ new.start = q.want.start /\ new.end = q.want.end
    <3>1. /\ "vehicle" \notin q.diff => q.want.vehicle = row.vehicle
          /\ "start" \notin q.diff => q.want.start = row.start
          /\ "end" \notin q.diff => q.want.end = row.end
      BY <2>1 DEF Columns
    <3> QED BY <3>1 DEF Merge
  <2> HIDE DEF new
  <2>4. q.want.vehicle # NoVehicle =>
           /\ row.vehicle # q.want.vehicle =>
                 vehicles[q.want.vehicle] = "assignable"
           /\ (\/ row.vehicle # q.want.vehicle
               \/ row.start # q.want.start
               \/ row.end # q.want.end)
              => ~SlotConflict(q.want.vehicle, q.want)
    BY <1>0, <2>1 DEF HeedsFleet, Places, Moves, Holding
  <2>5. SlotConflict(new.vehicle, new) => SlotConflict(q.want.vehicle, q.want)
    BY <2>3 DEF SlotConflict
  <2>6. Heeded(row, new)
    BY <2>1, <2>3, <2>4, <2>5 DEF Heeded
  <2> QED BY <1>1, <2>2, <2>6
<1>4. CASE ConfirmPreauth(r)
  <2>1. q.id \in ReservationIds /\ row # NoRow /\ row \in Row
    BY <1>0, <1>4 DEF ConfirmPreauth, Shape, Agrees, Confirming, TypeInv, TypeOK
  <2>2. /\ reservations'[q.id] = [row EXCEPT !.status = "CONFIRMEE"]
        /\ \A y \in ReservationIds \ {q.id} : reservations'[y] = reservations[y]
    BY <1>0, <1>4, <2>1 DEF ConfirmPreauth, TypeInv, TypeOK
  <2>3. /\ reservations'[q.id].vehicle = row.vehicle
        /\ reservations'[q.id].start = row.start
        /\ reservations'[q.id].end = row.end
    BY <2>1, <2>2 DEF Row
  <2> QED BY <1>1, <2>1, <2>2, <2>3, SameHeeded
<1>5. CASE Delete(r)
  <2>1. q.id \in ReservationIds
    BY <1>0, <1>5 DEF Delete, Shape
  <2>2. /\ reservations'[q.id] = NoRow
        /\ \A y \in ReservationIds \ {q.id} : reservations'[y] = reservations[y]
    BY <1>0, <1>5, <2>1 DEF Delete, TypeInv, TypeOK
  <2> QED BY <1>1, <2>2, SameHeeded
<1>6. CASE Reinsert(r)
  BY <1>0, <1>6 DEF Reinsert, Agrees
<1>7. CASE \/ CheckVehicle(r) \/ CheckSlots(r) \/ CountBlocking(r)
           \/ CheckOverlap(r) \/ SaveSelect(r) \/ AppendEvent(r) \/ Fail(r)
  BY <1>1, <1>7 DEF CheckVehicle, CheckSlots, CountBlocking, CheckOverlap,
     SaveSelect, AppendEvent, Fail, Goto
<1> QED BY <1>2, <1>3, <1>4, <1>5, <1>6, <1>7 DEF Step

LEMMA NextHeeded ==
    ASSUME FleetInv, [Next]_vars, NEW x \in ReservationIds
    PROVE  Heeded(reservations[x], reservations'[x])
<1>1. ASSUME reservations'[x] = reservations[x]
      PROVE  Heeded(reservations[x], reservations'[x])
  BY <1>1, SameHeeded
<1>2. ASSUME NEW r \in RequestIds, Start(r)
      PROVE  reservations'[x] = reservations[x]
  <2>1. ASSUME NEW y, NEW op, NEW pc, NEW v, NEW want, NEW todo,
               Loaded(r, y, op, pc, v, want, todo)
        PROVE  reservations' = reservations
    BY <2>1 DEF Loaded
  <2> QED BY <1>2, <2>1 DEF Start, Create, LoadUpdate, LoadUpdateStatus,
       LoadPreauth, LoadStatusEvent, LoadNote, LoadRemove
<1>3. ASSUME NEW v \in VehicleIds, DeleteVehicle(v)
      PROVE  Heeded(reservations[x], reservations'[x])
  <2>1. reservations[x] # NoRow => reservations[x] \in Row
    BY DEF FleetInv, BookingInv, CalendarInv, DossierInv, TypeInv, TypeOK
  <2>2. \/ reservations'[x] = reservations[x]
        \/ reservations'[x].vehicle = NoVehicle
    BY <1>3, <2>1 DEF DeleteVehicle, Row
  <2> QED BY <1>1, <2>2, SameHeeded
<1>4. CASE Fleet
  BY <1>1, <1>3, <1>4 DEF Fleet, SetVehicle, AddSlot, MoveSlot, RemoveSlot
<1>5. CASE UNCHANGED vars
  BY <1>1, <1>5 DEF vars
<1> QED BY <1>1, <1>2, <1>4, <1>5, StepHeeded DEF Next, Quiet

(***************************************************************************)
(* One request at a time, and no update that names another vehicle, a      *)
(* booking is placed only on an assignable vehicle, and placed or moved    *)
(* only where no schedule slot of it is in the way, over any number of     *)
(* reservations, vehicles and slots, with failures at any await.           *)
(***************************************************************************)
THEOREM BookingsHeedFleet ==
    ASSUME Isolation = "serial", ~Retargets
    PROVE  Spec => BookingRespectsFleet
<1>1. Init => FleetInv
  BY InitFleetInv
<1>2. FleetInv /\ [Next]_vars => FleetInv'
  BY NextFleetInv
<1>3. FleetInv /\ [Next]_vars =>
         [\A x \in ReservationIds :
             LET old == reservations[x]
                 new == reservations'[x]
                 placed == old = NoRow \/ old.vehicle # new.vehicle
                 moved  == placed \/ old.start # new.start \/ old.end # new.end
             IN  (new # NoRow /\ new.vehicle # NoVehicle) =>
                    /\ moved  => ~SlotConflict(new.vehicle, new)
                    /\ placed => vehicles[new.vehicle] = "assignable"]_vars
  BY NextHeeded DEF Heeded
<1> QED BY <1>1, <1>2, <1>3, PTL DEF Spec, BookingRespectsFleet
=============================================================================
