--------------------------- MODULE TimelineProofs ---------------------------
(***************************************************************************)
(* Proofs about the timeline of a reservation (reservation_events): what   *)
(* it records whatever interleaves, and what it records once when the      *)
(* requests about one reservation are handled one after the other.         *)
(***************************************************************************)
EXTENDS ReservationsProofs

-----------------------------------------------------------------------------
(***************************************************************************)
(* What is left of a list of timeline rows once the first is inserted.     *)
(***************************************************************************)
LEMMA TailInside ==
    ASSUME NEW todo \in Seq(Event), todo # <<>>, NEW j \in 1..Len(Tail(todo))
    PROVE  /\ j + 1 \in 1..Len(todo)
           /\ Tail(todo)[j] = todo[j + 1]
<1>1. Len(todo) \in Nat /\ Len(todo) # 0 /\ Len(Tail(todo)) = Len(todo) - 1
  OBVIOUS
<1> QED BY <1>1

LEMMA HeadOrTail ==
    ASSUME NEW todo \in Seq(Event), todo # <<>>, NEW i \in 1..Len(todo)
    PROVE  \/ todo[i] = Head(todo)
           \/ \E j \in 1..Len(Tail(todo)) : Tail(todo)[j] = todo[i]
<1>1. Len(todo) \in Nat /\ Len(todo) # 0 /\ Len(Tail(todo)) = Len(todo) - 1
  OBVIOUS
<1>2. CASE i = 1
  BY <1>2
<1>3. CASE i # 1
  <2>1. i - 1 \in 1..Len(Tail(todo))
    BY <1>1, <1>3
  <2>2. Tail(todo)[i - 1] = todo[i]
    BY <2>1, TailInside
  <2> QED BY <2>1, <2>2
<1> QED BY <1>2, <1>3

LEMMA LastOfTail ==
    ASSUME NEW todo \in Seq(Event), todo # <<>>, Len(todo) # 1
    PROVE  /\ Len(Tail(todo)) \in 1..Len(Tail(todo))
           /\ Tail(todo)[Len(Tail(todo))] = todo[Len(todo)]
<1>1. Len(todo) \in Nat /\ Len(todo) # 0 /\ Len(Tail(todo)) = Len(todo) - 1
  OBVIOUS
<1>2. Len(Tail(todo)) \in 1..Len(Tail(todo))
  BY <1>1
<1> QED BY <1>1, <1>2, TailInside

-----------------------------------------------------------------------------
(***************************************************************************)
(* What the timeline records whatever interleaves, when no statement fails *)
(* and as long as nothing is removed.  A status may be written by one handler and     *)
(* overwritten by another before it is announced, or written back by a     *)
(* save() of an entity loaded before; but no status is ever stored that    *)
(* has not been announced, or will not be by a handler that is past the    *)
(* point where it could be refused.                                        *)
(***************************************************************************)

\* The event of its creation that request r records.
Created(r) == Ev(r, "reservation_created", "NOUVELLE_DEMANDE")

\* The service itself announces status s by event e.
Tells(e, s) == ~e.client /\ e.status = s

\* An event of the service of status s is among those q has left to insert.
Owes(q, s) == \E i \in 1..Len(q.todo) : Tells(q.todo[i], s)

\* Status s is announced in the timeline of x, or is about to be.
Accounted(x, s) ==
    \/ \E e \in events[x] : Tells(e, s)
    \/ \E o \in RequestIds : /\ requests[o].pc \in {"append", "confirm"}
                             /\ requests[o].id = x
                             /\ Owes(requests[o], s)

\* The status r is about to store is already accounted for, or r will announce
\* it once it is stored.
Backed(r) ==
    requests[r].pc \in Holding =>
       \/ Owes(requests[r], requests[r].want.status)
       \/ /\ requests[r].id \in ReservationIds
          /\ Accounted(requests[r].id, requests[r].want.status)

Tracks(r) ==
    LET q == requests[r]
    IN  /\ q.pc \notin {"delete", "reinsert"}
        /\ q.id # NoId => reservations[q.id] # NoRow
        /\ q.pc = "insert" => q.op = "create"
        /\ q.pc = "confirm" => q.op = "preauth"
        /\ q.op = "preauth" => q.pc \notin Holding
        /\ q.pc \in {"append", "confirm"} /\ q.op = "preauth" =>
              Tells(q.todo[Len(q.todo)], "CONFIRMEE")
        /\ q.op = "create" =>
              /\ q.pc \in Holding => q.id = NoId /\ Head(q.todo) = Created(r)
              /\ q.pc = "append" => \/ Head(q.todo) = Created(r)
                                    \/ Created(r) \in events[q.id]
              /\ q.pc \in Ended /\ q.id # NoId => Created(r) \in events[q.id]

LedgerInv ==
    /\ TypeInv
    /\ \A x \in ReservationIds : reservations[x] # NoRow =>
          x \in issued /\ Accounted(x, reservations[x].status)
    /\ \A r \in RequestIds : Backed(r) /\ Tracks(r)

\* Removing, after the step.
RemovingNext == \E r \in RequestIds : requests'[r].op = "remove"

LEMMA InitLedger == Init => LedgerInv
<1> SUFFICES ASSUME Init PROVE LedgerInv
  OBVIOUS
<1>1. ASSUME NEW x \in ReservationIds, reservations[x] # NoRow
      PROVE  x \in issued /\ Accounted(x, reservations[x].status)
  BY <1>1 DEF Init, Accounted, Tells, Ev
<1>2. \A r \in RequestIds : Backed(r) /\ Tracks(r)
  BY DEF Init, Backed, Tracks, Idle, Holding, Checking, Ended
<1> QED BY <1>1, <1>2, InitTypeInv DEF LedgerInv

(***************************************************************************)
(* What a step of request r must do for the ledger: rows stay and their    *)
(* timelines grow; what r owed is recorded or still owed; a new status is  *)
(* accounted for.                                                          *)
(***************************************************************************)
\* Accounted and Backed, after the step.
AccountedNext(x, s) ==
    \/ \E e \in events'[x] : Tells(e, s)
    \/ \E o \in RequestIds : /\ requests'[o].pc \in {"append", "confirm"}
                             /\ requests'[o].id = x
                             /\ Owes(requests'[o], s)

BackedNext(r) ==
    requests'[r].pc \in Holding =>
       \/ Owes(requests'[r], requests'[r].want.status)
       \/ /\ requests'[r].id \in ReservationIds
          /\ AccountedNext(requests'[r].id, requests'[r].want.status)

Keeps(r, p) ==
    /\ requests' = [requests EXCEPT ![r] = p]
    /\ issued \subseteq issued'
    /\ \A x \in ReservationIds : events[x] \subseteq events'[x]
    /\ \A x \in ReservationIds : reservations[x] # NoRow => reservations'[x] # NoRow
    /\ requests[r].pc \in {"append", "confirm"} =>
          \A s : Owes(requests[r], s) =>
             \/ \E e \in events'[requests[r].id] : Tells(e, s)
             \/ /\ p.pc \in {"append", "confirm"}
                /\ p.id = requests[r].id
                /\ Owes(p, s)

LEMMA AccountedStays ==
    ASSUME TypeInv, NEW r \in RequestIds, NEW p, Keeps(r, p)
    PROVE  \A x \in ReservationIds : \A s : Accounted(x, s) => AccountedNext(x, s)
<1> SUFFICES ASSUME NEW x \in ReservationIds, NEW s, Accounted(x, s)
             PROVE  AccountedNext(x, s)
  OBVIOUS
<1>1. CASE \E e \in events[x] : Tells(e, s)
  BY <1>1 DEF Keeps, AccountedNext
<1>2. ASSUME NEW o \in RequestIds, requests[o].pc \in {"append", "confirm"},
             requests[o].id = x, Owes(requests[o], s)
      PROVE  AccountedNext(x, s)
  <2>1. CASE o = r
    <3>1. requests'[r] = p
      BY DEF Keeps, TypeInv, TypeOK
    <3> QED BY <1>2, <2>1, <3>1 DEF Keeps, AccountedNext
  <2>2. CASE o # r
    <3>1. requests'[o] = requests[o]
      BY <2>2 DEF Keeps, TypeInv, TypeOK
    <3> QED BY <1>2, <3>1 DEF AccountedNext
  <2> QED BY <2>1, <2>2
<1> QED BY <1>1, <1>2 DEF Accounted

LEMMA LedgerStep ==
    ASSUME LedgerInv, TypeInv', NEW r \in RequestIds, NEW p, Keeps(r, p),
           BackedNext(r), Tracks(r)',
           \A x \in ReservationIds : reservations'[x] # NoRow =>
              \/ reservations[x] # NoRow /\ reservations'[x].status = reservations[x].status
              \/ x \in issued' /\ AccountedNext(x, reservations'[x].status)
    PROVE  LedgerInv'
<1>0. TypeInv
  BY DEF LedgerInv
<1>1. \A x \in ReservationIds : \A s : Accounted(x, s) => AccountedNext(x, s)
  BY <1>0, AccountedStays
<1>2. \A x \in ReservationIds : reservations'[x] # NoRow =>
         x \in issued' /\ AccountedNext(x, reservations'[x].status)
  BY <1>1 DEF LedgerInv, Keeps
<1>3. \A x \in ReservationIds : reservations'[x] # NoRow =>
         x \in issued' /\ Accounted(x, reservations[x].status)'
  BY <1>2 DEF AccountedNext, Accounted
<1>4. ASSUME NEW o \in RequestIds \ {r}
      PROVE  BackedNext(o) /\ Tracks(o)'
  <2> DEFINE q == requests[o]
  <2>1. requests'[o] = q
    BY DEF Keeps, LedgerInv, TypeInv, TypeOK
  <2>2. Tracks(o) /\ Backed(o) /\ q \in Request
    BY DEF LedgerInv, TypeInv, TypeOK
  <2>3. q.id \in ReservationIds \cup {NoId}
    BY <2>2 DEF Request
  <2>4. q.id # NoId => /\ reservations'[q.id] # NoRow
                       /\ events[q.id] \subseteq events'[q.id]
    BY <2>2, <2>3 DEF Tracks, Keeps
  <2>5. BackedNext(o)
    BY <1>1, <2>1, <2>2 DEF Backed, BackedNext
  <2>6. q.pc = "append" => q.id # NoId
    BY NullAssumption DEF LedgerInv, TypeInv, Shape
  <2> QED BY <2>1, <2>2, <2>4, <2>5, <2>6 DEF Tracks, Created, Ev
<1>5. BackedNext(r) /\ Tracks(r)'
  OBVIOUS
<1>6. \A o \in RequestIds : Backed(o)'
  BY <1>4, <1>5 DEF BackedNext, AccountedNext, Backed, Accounted
<1> QED BY <1>3, <1>4, <1>5, <1>6 DEF LedgerInv
\* A request that starts changes no table.
LEMMA FreshLedger ==
    ASSUME LedgerInv, TypeInv', NEW r \in RequestIds, NEW p,
           requests' = [requests EXCEPT ![r] = p], requests[r].pc = "idle",
           UNCHANGED <<reservations, issued, events>>,
           BackedNext(r), Tracks(r)'
    PROVE  LedgerInv'
<1>1. Keeps(r, p)
  BY DEF Keeps
<1> QED BY <1>1, LedgerStep

LEMMA CreateLedger ==
    ASSUME LedgerInv, TypeInv', NEW r \in RequestIds,
           NEW v \in VehicleIds \cup {NoVehicle},
           NEW s \in Times, NEW e \in Times, Create(r, v, s, e)
    PROVE  LedgerInv'
<1> DEFINE want == NewRow(v, s, e)
           todo == <<Created(r), Ev(r, "reservation_ack_email_sent", NoStatus),
                     Ev(r, "reservation_admin_notified", NoStatus)>>
           p == [Idle EXCEPT !.pc = IF v = NoVehicle THEN "insert" ELSE "vehicle",
                             !.op = "create", !.vehicle = v, !.want = want,
                             !.todo = todo]
<1>1. requests' = [requests EXCEPT ![r] = p]
  BY DEF Create, Created
<1>2. requests'[r] = p
  BY <1>1 DEF LedgerInv, TypeInv, TypeOK
<1>3. /\ p.id = NoId /\ p.op = "create" /\ p.pc \in {"insert", "vehicle"}
      /\ p.want = want /\ p.todo = todo
  BY DEF Idle
<1>4. Len(todo) = 3 /\ todo[1] = Created(r) /\ Head(todo) = Created(r)
  OBVIOUS
<1>5. want.status = "NOUVELLE_DEMANDE" /\ Tells(Created(r), "NOUVELLE_DEMANDE")
  BY DEF NewRow, Created, Tells, Ev
<1> HIDE DEF p, want, todo
<1>6. Owes(p, p.want.status)
  <2>1. 1 \in 1..Len(p.todo)
    BY <1>3, <1>4
  <2> QED BY <1>3, <1>4, <1>5, <2>1 DEF Owes
<1>7. BackedNext(r)
  BY <1>2, <1>6 DEF BackedNext
<1>8. Tracks(r)'
  BY <1>2, <1>3, <1>4 DEF Tracks, Created, Ev, Ended
<1> QED BY <1>1, <1>7, <1>8, FreshLedger DEF Create, MayStart

LEMMA LoadedLedger ==
    ASSUME LedgerInv, TypeInv', NEW r \in RequestIds, NEW x \in ReservationIds,
           NEW op, NEW pc, NEW v, NEW want, NEW todo,
           Loaded(r, x, op, pc, v, want, todo),
           op # "create", pc \in {"vehicle", "slots", "select", "append"},
           pc # "append" =>
              \/ want.status = reservations[x].status
              \/ \E i \in 1..Len(todo) : Tells(todo[i], want.status),
           op = "preauth" => pc = "append" /\ Tells(todo[Len(todo)], "CONFIRMEE")
    PROVE  LedgerInv'
<1> DEFINE p == [Idle EXCEPT !.pc = pc, !.op = op, !.id = x, !.vehicle = v,
                             !.want = want, !.todo = todo,
                             !.seen = IF want = NoRow THEN {} ELSE events[x]]
<1>1. requests' = [requests EXCEPT ![r] = p]
  BY DEF Loaded
<1>2. requests'[r] = p
  BY <1>1 DEF LedgerInv, TypeInv, TypeOK
<1>3. p.id = x /\ p.op = op /\ p.pc = pc /\ p.want = want /\ p.todo = todo
  BY DEF Idle
<1>4. /\ reservations[x] # NoRow /\ requests[r].pc = "idle"
      /\ UNCHANGED <<reservations, issued, events>>
  BY DEF Loaded, MayStart
<1> HIDE DEF p
<1>5. Accounted(x, reservations[x].status)
  BY <1>4 DEF LedgerInv
<1>6. Keeps(r, p)
  BY <1>1, <1>4 DEF Keeps
<1>7. AccountedNext(x, reservations[x].status)
  BY <1>5, <1>6, AccountedStays DEF LedgerInv
<1>8. BackedNext(r)
  BY <1>2, <1>3, <1>7 DEF BackedNext, Owes, Holding, Checking
<1>9. Tracks(r)'
  BY <1>2, <1>3, <1>4 DEF Tracks, Holding, Checking
<1> QED BY <1>1, <1>4, <1>8, <1>9, FreshLedger

LEMMA StartLedger ==
    ASSUME ~RemovingNext, LedgerInv, TypeInv', NEW r \in RequestIds,
           Start(r)
    PROVE  LedgerInv'
<1>0. ASSUME NEW x \in ReservationIds, reservations[x] # NoRow, NEW s
      PROVE  [reservations[x] EXCEPT !.status = s].status = s
  BY <1>0 DEF LedgerInv, TypeInv, TypeOK, Row
<1>a. ASSUME NEW type, NEW s, NEW e
      PROVE  \E i \in 1..Len(<<Ev(r, type, s), e>>) : Tells(<<Ev(r, type, s), e>>[i], s)
  <2>1. Tells(<<Ev(r, type, s), e>>[1], s) /\ Len(<<Ev(r, type, s), e>>) = 2
    BY DEF Tells, Ev
  <2>2. 1 \in 1..2
    OBVIOUS
  <2> QED BY <2>1, <2>2
<1>1. ASSUME NEW v \in VehicleIds \cup {NoVehicle}, NEW s \in Times,
             NEW e \in Times, Create(r, v, s, e)
      PROVE  LedgerInv'
  BY <1>1, CreateLedger
<1>2. ASSUME NEW x \in ReservationIds, NEW dto \in Updates, LoadUpdate(r, x, dto)
      PROVE  LedgerInv'
  <2> DEFINE row == reservations[x]
             next == OrElse(dto.vehicle, row.vehicle)
             want == [row EXCEPT !.vehicle = IF row.vehicle # NoVehicle
                                             THEN row.vehicle ELSE next,
                                 !.start = OrElse(dto.start, row.start),
                                 !.end = OrElse(dto.end, row.end)]
             pc == CASE dto.vehicle # Unset -> "vehicle"
                     [] dto.vehicle = Unset /\ next # NoVehicle -> "slots"
                     [] OTHER -> "select"
  <2>1. row \in Row
    BY <1>2 DEF LoadUpdate, LedgerInv, TypeInv, TypeOK
  <2>2. want.status = row.status
    BY <2>1 DEF Row
  <2>3. pc \in {"vehicle", "slots", "select"}
    OBVIOUS
  <2>4. Loaded(r, x, "update", pc, next, want,
               <<Ev(r, "reservation_updated", NoStatus)>>)
    BY <1>2 DEF LoadUpdate
  <2> HIDE DEF want, pc, next
  <2> QED BY <2>2, <2>3, <2>4, LoadedLedger
<1>3. ASSUME NEW x \in ReservationIds, NEW status \in Statuses,
             LoadUpdateStatus(r, x, status)
      PROVE  LedgerInv'
  <2> DEFINE want == [reservations[x] EXCEPT !.status = status]
             todo == <<Ev(r, "reservation_status_changed", status),
                       Ev(r, STATUS_EVENT_MAP[status], status)>>
  <2>1. want.status = status
    BY <1>0, <1>3 DEF LoadUpdateStatus
  <2>2. \E i \in 1..Len(todo) : Tells(todo[i], status)
    BY <1>a
  <2>3. Loaded(r, x, "updateStatus", "select", NoVehicle, want, todo)
    BY <1>3 DEF LoadUpdateStatus
  <2> HIDE DEF want, todo
  <2> QED BY <2>1, <2>2, <2>3, LoadedLedger
<1>4. ASSUME NEW x \in ReservationIds, LoadPreauth(r, x)
      PROVE  LedgerInv'
  <2> DEFINE todo == <<Ev(r, "reservation_stripe_preauth_created", NoStatus),
                       Ev(r, "reservation_status_changed", "CONFIRMEE")>>
  <2>1. Tells(todo[Len(todo)], "CONFIRMEE")
    BY DEF Tells, Ev
  <2>2. Loaded(r, x, "preauth", "append", NoVehicle, NoRow, todo)
    BY <1>4 DEF LoadPreauth
  <2> HIDE DEF todo
  <2> QED BY <2>1, <2>2, LoadedLedger
<1>5. ASSUME NEW x \in ReservationIds, NEW body \in EventBodies,
             LoadStatusEvent(r, x, body)
      PROVE  LedgerInv'
  <2> DEFINE want == [reservations[x] EXCEPT !.status = EventTo[body.type]]
             todo == <<Ev(r, "reservation_status_changed", EventTo[body.type]),
                       Note(r, body)>>
  <2>1. want.status = EventTo[body.type]
    BY <1>0, <1>5 DEF LoadStatusEvent
  <2>2. \E i \in 1..Len(todo) : Tells(todo[i], EventTo[body.type])
    BY <1>a
  <2>3. Loaded(r, x, "event", "select", NoVehicle, want, todo)
    BY <1>5 DEF LoadStatusEvent
  <2> HIDE DEF want, todo
  <2> QED BY <2>1, <2>2, <2>3, LoadedLedger
<1>6. ASSUME NEW x \in ReservationIds, NEW body \in EventBodies,
             LoadNote(r, x, body)
      PROVE  LedgerInv'
  BY <1>6, LoadedLedger DEF LoadNote
<1>7. ASSUME NEW x \in ReservationIds PROVE ~LoadRemove(r, x)
  BY DEF LoadRemove, Loaded, Idle, RemovingNext, LedgerInv, TypeInv, TypeOK
<1> QED BY <1>1, <1>2, <1>3, <1>4, <1>5, <1>6, <1>7 DEF Start
-----------------------------------------------------------------------------
\* The checks of create and update, and a statement that fails before the
\* first write.
LEMMA GotoLedger ==
    ASSUME LedgerInv, TypeInv', NEW r \in RequestIds, NEW pc \in PcValues,
           Goto(r, pc), requests[r].pc \in Holding,
           pc \in Ended \/ pc \in Checking \cup {AfterChecks(r)}
    PROVE  LedgerInv'
<1> DEFINE q == requests[r]
           p == IF pc \in Ended THEN Onward(q, pc, <<>>) ELSE [q EXCEPT !.pc = pc]
<1>1. requests' = [requests EXCEPT ![r] = p]
  BY DEF Goto, LedgerInv, TypeInv, TypeOK
<1>2. requests'[r] = p
  BY <1>1 DEF LedgerInv, TypeInv, TypeOK
<1>3. q \in Request /\ Tracks(r) /\ Backed(r)
  BY DEF LedgerInv, TypeInv, TypeOK
<1>4. p.id = q.id /\ p.pc = pc /\ p.op = q.op
  BY <1>3 DEF Onward, Idle, Request
<1>5. pc \notin Ended => p.want = q.want /\ p.todo = q.todo
  BY <1>3 DEF Request
<1>6. UNCHANGED <<reservations, issued, events>>
  BY DEF Goto
<1> HIDE DEF p
<1>7. Keeps(r, p)
  BY <1>1, <1>6 DEF Keeps, Holding, Checking
<1>8. BackedNext(r)
  <2>1. CASE pc \in Ended
    BY <1>2, <1>4, <2>1 DEF BackedNext, Holding, Checking, Ended
  <2>2. CASE pc \notin Ended
    <3>1. \/ Owes(q, q.want.status)
          \/ q.id \in ReservationIds /\ Accounted(q.id, q.want.status)
      BY <1>3 DEF Backed
    <3>2. q.id \in ReservationIds /\ Accounted(q.id, q.want.status)
             => AccountedNext(q.id, q.want.status)
      BY <1>7, AccountedStays DEF LedgerInv
    <3> QED BY <1>2, <1>4, <1>5, <2>2, <3>1, <3>2 DEF BackedNext, Owes
  <2> QED BY <2>1, <2>2
<1>9. Tracks(r)'
  <2>1. CASE pc \in Ended
    BY <1>2, <1>3, <1>4, <1>6, <2>1 DEF Tracks, Holding, Checking, Ended
  <2>2. CASE pc \notin Ended
    <3>1. pc \in {"vehicle", "slots", "blocking", "overlap", "insert", "select"}
      BY <2>2 DEF Checking, AfterChecks
    <3>2. pc = "insert" => q.op = "create"
      BY <2>2 DEF Checking, AfterChecks
    <3> QED BY <1>2, <1>3, <1>4, <1>5, <1>6, <2>2, <3>1, <3>2
            DEF Tracks, Created, Ev
  <2> QED BY <2>1, <2>2
<1> QED BY <1>6, <1>7, <1>8, <1>9, LedgerStep

\* A write, after which r is at append or later.
LEMMA WriteLedger ==
    ASSUME LedgerInv, TypeInv', NEW r \in RequestIds, NEW p, Keeps(r, p),
           p.pc \in {"append", "confirm", "done"}, Tracks(r)',
           NEW x \in ReservationIds,
           \A y \in ReservationIds \ {x} : reservations'[y] = reservations[y],
           \/ reservations'[x] = reservations[x]
           \/ x \in issued' /\ AccountedNext(x, reservations'[x].status)
    PROVE  LedgerInv'
<1>1. requests'[r] = p
  BY DEF Keeps, LedgerInv, TypeInv, TypeOK
<1>2. BackedNext(r)
  BY <1>1 DEF BackedNext, Holding, Checking
<1> QED BY <1>2, LedgerStep

LEMMA InsertLedger ==
    ASSUME LedgerInv, TypeInv', NEW r \in RequestIds, NEW x \in ReservationIds,
           Insert(r, x)
    PROVE  LedgerInv'
<1> DEFINE q == requests[r]
           p == [Onward(q, "append", q.todo) EXCEPT !.id = x]
<1>1. requests' = [requests EXCEPT ![r] = p]
  BY DEF Insert
<1>2. requests'[r] = p
  BY <1>1 DEF LedgerInv, TypeInv, TypeOK
<1>3. Shape(q) /\ Tracks(r) /\ Backed(r) /\ q.pc = "insert"
  BY DEF LedgerInv, TypeInv, Insert
<1>4. p.id = x /\ p.pc = "append" /\ p.op = q.op /\ p.todo = q.todo
  BY DEF Onward, Idle
<1> HIDE DEF p
<1>5. q.op = "create" /\ q.id = NoId /\ Head(q.todo) = Created(r)
  BY <1>3 DEF Tracks, Holding
<1>6. Owes(q, q.want.status)
  BY <1>3, <1>5, NullAssumption DEF Backed, Holding
<1>7. /\ reservations'[x] = q.want
      /\ \A y \in ReservationIds \ {x} : reservations'[y] = reservations[y]
      /\ x \in issued' /\ issued \subseteq issued' /\ events' = events
  BY DEF Insert, LedgerInv, TypeInv, TypeOK
<1>8. q.want # NoRow
  BY <1>3, NullAssumption DEF Shape, Holding
<1>9. Keeps(r, p)
  BY <1>1, <1>3, <1>7, <1>8 DEF Keeps
<1>10. AccountedNext(x, q.want.status)
  BY <1>2, <1>4, <1>6 DEF AccountedNext, Owes
<1>11. Tracks(r)'
  BY <1>2, <1>4, <1>5, <1>7, <1>8 DEF Tracks, Created, Ev, Holding, Checking, Ended
<1> QED BY <1>4, <1>7, <1>9, <1>10, <1>11, WriteLedger

LEMMA SaveSelectLedger ==
    ASSUME LedgerInv, TypeInv', NEW r \in RequestIds, SaveSelect(r)
    PROVE  LedgerInv'
<1> DEFINE q == requests[r]
           p == [q EXCEPT !.pc = "save",
                          !.diff = {c \in Columns : q.want[c] # reservations[q.id][c]},
                          !.found = events[q.id]]
<1>1. Shape(q) /\ q \in Request /\ Tracks(r) /\ Backed(r) /\ q.pc = "select"
  BY DEF LedgerInv, TypeInv, TypeOK, SaveSelect
<1>2. q.id \in ReservationIds /\ q.id # NoId /\ reservations[q.id] # NoRow
  BY <1>1, NullAssumption DEF Shape, Tracks
<1>3. requests' = [requests EXCEPT ![r] = p] /\ UNCHANGED <<reservations, issued, events>>
  BY <1>2 DEF SaveSelect
<1>4. requests'[r] = p
  BY <1>3 DEF LedgerInv, TypeInv, TypeOK
<1>5. /\ p.id = q.id /\ p.pc = "save" /\ p.op = q.op /\ p.want = q.want
      /\ p.todo = q.todo
  BY <1>1 DEF Request
<1> HIDE DEF p
<1>6. Keeps(r, p)
  BY <1>1, <1>3 DEF Keeps
<1>7. BackedNext(r)
  <2>1. \/ Owes(q, q.want.status)
        \/ Accounted(q.id, q.want.status)
    BY <1>1 DEF Backed, Holding
  <2>2. Accounted(q.id, q.want.status) => AccountedNext(q.id, q.want.status)
    BY <1>2, <1>6, AccountedStays DEF LedgerInv
  <2> QED BY <1>2, <1>4, <1>5, <2>1, <2>2 DEF BackedNext, Owes
<1>8. Tracks(r)'
  BY <1>1, <1>2, <1>3, <1>4, <1>5 DEF Tracks, Created, Ev, Holding, Ended
<1> QED BY <1>3, <1>6, <1>7, <1>8, LedgerStep

LEMMA SaveUpdateLedger ==
    ASSUME LedgerInv, TypeInv', NEW r \in RequestIds, SaveUpdate(r)
    PROVE  LedgerInv'
<1> DEFINE q == requests[r]
           p == Onward(q, "append", q.todo)
           row == reservations[q.id]
<1>1. Shape(q) /\ Tracks(r) /\ Backed(r) /\ q.pc = "save"
  BY DEF LedgerInv, TypeInv, SaveUpdate
<1>2. /\ q.id \in ReservationIds /\ q.id # NoId /\ row # NoRow /\ row \in Row
      /\ q.op # "create"
  BY <1>1, NullAssumption DEF Shape, Tracks, Holding, LedgerInv, TypeInv, TypeOK
<1>3. /\ requests' = [requests EXCEPT ![r] = p] /\ issued' = issued
      /\ reservations'[q.id] = Merge(row, q.want, q.diff)
      /\ \A y \in ReservationIds \ {q.id} : reservations'[y] = reservations[y]
      /\ \A y \in ReservationIds : events[y] \subseteq events'[y]
  BY <1>2 DEF SaveUpdate, LedgerInv, TypeInv, TypeOK
<1>4. requests'[r] = p
  BY <1>3 DEF LedgerInv, TypeInv, TypeOK
<1>5. p.id = q.id /\ p.pc = "append" /\ p.op = q.op /\ p.todo = q.todo
  BY DEF Onward, Idle
<1> HIDE DEF p
<1>6. Merge(row, q.want, q.diff) # NoRow
  <2>1. q.want \in Row
    BY <1>1 DEF Shape, Holding
  <2>2. Merge(row, q.want, q.diff) \in Row
    BY <1>2, <2>1 DEF Merge, Row
  <2> QED BY <2>2, NullAssumption
<1>7. Keeps(r, p)
  BY <1>1, <1>3, <1>6 DEF Keeps
<1>8. AccountedNext(q.id, q.want.status)
  <2>1. CASE Owes(q, q.want.status)
    BY <1>4, <1>5, <2>1 DEF AccountedNext, Owes
  <2>2. CASE Accounted(q.id, q.want.status)
    BY <1>2, <1>7, <2>2, AccountedStays DEF LedgerInv
  <2> QED BY <1>1, <2>1, <2>2 DEF Backed, Holding
<1>9. AccountedNext(q.id, row.status)
  BY <1>2, <1>7, AccountedStays DEF LedgerInv
<1>10. q.id \in issued' /\ AccountedNext(q.id, reservations'[q.id].status)
  <2>1. \/ reservations'[q.id].status = row.status
        \/ reservations'[q.id].status = q.want.status
    BY <1>3 DEF Merge
  <2> QED BY <1>2, <1>3, <1>8, <1>9, <2>1 DEF LedgerInv
<1>11. Tracks(r)'
  BY <1>1, <1>2, <1>3, <1>4, <1>5, <1>6 DEF Tracks, Holding, Checking
<1> QED BY <1>2, <1>3, <1>5, <1>7, <1>10, <1>11, WriteLedger
LEMMA AppendLedger ==
    ASSUME LedgerInv, TypeInv', NEW r \in RequestIds, AppendEvent(r)
    PROVE  LedgerInv'
<1> DEFINE q == requests[r]
           pc == CASE Len(q.todo) = 1 -> "done"
                   [] Len(q.todo) # 1 /\ q.op = "preauth" -> "confirm"
                   [] OTHER -> "append"
           p == Onward(q, pc, Tail(q.todo))
<1>1. Shape(q) /\ Tracks(r) /\ q.pc = "append"
  BY DEF LedgerInv, TypeInv, AppendEvent
<1>2. /\ q.id \in ReservationIds /\ q.id # NoId /\ reservations[q.id] # NoRow
      /\ q.todo \in Seq(Event) /\ q.todo # <<>>
  BY <1>1, NullAssumption DEF Shape, Tracks, Request
<1>3. /\ requests' = [requests EXCEPT ![r] = p]
      /\ UNCHANGED <<reservations, issued>>
      /\ events'[q.id] = events[q.id] \cup {Head(q.todo)}
      /\ \A y \in ReservationIds : events[y] \subseteq events'[y]
  BY <1>2 DEF AppendEvent, LedgerInv, TypeInv, TypeOK
<1>4. requests'[r] = p
  BY <1>3 DEF LedgerInv, TypeInv, TypeOK
<1>5. p.id = q.id /\ p.pc = pc /\ p.op = q.op /\ p.todo = Tail(q.todo)
  BY DEF Onward, Idle
<1>6. /\ pc \in {"append", "confirm", "done"}
      /\ pc = "done" <=> Len(q.todo) = 1
      /\ pc = "confirm" => q.op = "preauth"
  OBVIOUS
<1> HIDE DEF p, pc
<1>7. Keeps(r, p)
  <2> SUFFICES ASSUME NEW s, NEW i \in 1..Len(q.todo), Tells(q.todo[i], s)
               PROVE  \/ \E e \in events'[q.id] : Tells(e, s)
                      \/ p.pc \in {"append", "confirm"} /\ Owes(p, s)
    BY <1>1, <1>3, <1>5 DEF Keeps, Owes
  <2>1. CASE q.todo[i] = Head(q.todo)
    BY <1>3, <2>1
  <2>2. ASSUME NEW j \in 1..Len(Tail(q.todo)), Tail(q.todo)[j] = q.todo[i]
        PROVE  p.pc \in {"append", "confirm"} /\ Owes(p, s)
    <3>1. Len(q.todo) # 1
      BY <1>2, <2>2, TailInside
    <3> QED BY <1>5, <1>6, <2>2, <3>1 DEF Owes
  <2> QED BY <1>2, <2>1, <2>2, HeadOrTail
<1>8. /\ p.pc \in {"append", "confirm"} /\ p.op = "preauth" =>
            Tells(p.todo[Len(p.todo)], "CONFIRMEE")
      /\ p.pc = "confirm" => p.op = "preauth"
  <2>1. Len(q.todo) # 1 =>
           Tail(q.todo)[Len(Tail(q.todo))] = q.todo[Len(q.todo)]
    BY <1>2, LastOfTail
  <2> QED BY <1>1, <1>5, <1>6, <2>1 DEF Tracks
<1>9. p.op = "create" => Created(r) \in events'[q.id]
  BY <1>1, <1>3, <1>5 DEF Tracks
<1>10. Tracks(r)'
  BY <1>1, <1>2, <1>3, <1>4, <1>5, <1>6, <1>8, <1>9
  DEF Tracks, Created, Ev, Holding, Checking
<1> QED BY <1>2, <1>3, <1>5, <1>6, <1>7, <1>10, WriteLedger

LEMMA ConfirmLedger ==
    ASSUME LedgerInv, TypeInv', NEW r \in RequestIds, ConfirmPreauth(r)
    PROVE  LedgerInv'
<1> DEFINE q == requests[r]
           p == Onward(q, "append", q.todo)
<1>1. Shape(q) /\ Tracks(r) /\ q.pc = "confirm"
  BY DEF LedgerInv, TypeInv, ConfirmPreauth
<1>2. /\ q.id \in ReservationIds /\ q.id # NoId /\ reservations[q.id] # NoRow
      /\ reservations[q.id] \in Row
      /\ q.op = "preauth" /\ q.todo \in Seq(Event) /\ q.todo # <<>>
  BY <1>1, NullAssumption DEF Shape, Tracks, Request, LedgerInv, TypeInv, TypeOK
<1>3. /\ requests' = [requests EXCEPT ![r] = p]
      /\ UNCHANGED <<issued, events>>
      /\ reservations'[q.id] = [reservations[q.id] EXCEPT !.status = "CONFIRMEE"]
      /\ \A y \in ReservationIds \ {q.id} : reservations'[y] = reservations[y]
  BY <1>2 DEF ConfirmPreauth, LedgerInv, TypeInv, TypeOK
<1>4. requests'[r] = p
  BY <1>3 DEF LedgerInv, TypeInv, TypeOK
<1>5. p.id = q.id /\ p.pc = "append" /\ p.op = q.op /\ p.todo = q.todo
  BY DEF Onward, Idle
<1> HIDE DEF p
<1>6. reservations'[q.id].status = "CONFIRMEE" /\ reservations'[q.id] # NoRow
  <2>1. [reservations[q.id] EXCEPT !.status = "CONFIRMEE"] \in Row
    BY <1>2, StatusRow DEF Statuses
  <2> QED BY <1>2, <1>3, <2>1, NullAssumption DEF Row
<1>7. Keeps(r, p)
  BY <1>3, <1>5, <1>6 DEF Keeps, Owes
<1>8. Owes(q, "CONFIRMEE")
  <2>1. Len(q.todo) \in 1..Len(q.todo)
    BY <1>2
  <2> QED BY <1>1, <1>2, <2>1 DEF Tracks, Owes
<1>9. q.id \in issued' /\ AccountedNext(q.id, reservations'[q.id].status)
  <2>1. AccountedNext(q.id, "CONFIRMEE")
    BY <1>4, <1>5, <1>8 DEF AccountedNext, Owes
  <2> QED BY <1>2, <1>3, <1>6, <2>1 DEF LedgerInv
<1>10. Tracks(r)'
  BY <1>1, <1>2, <1>3, <1>4, <1>5, <1>6 DEF Tracks, Holding, Checking
<1> QED BY <1>2, <1>3, <1>5, <1>7, <1>9, <1>10, WriteLedger

LEMMA StepLedger ==
    ASSUME ~MayFail, LedgerInv, TypeInv', NEW r \in RequestIds, Step(r)
    PROVE  LedgerInv'
<1>1. Shape(requests[r]) /\ Tracks(r)
  BY DEF LedgerInv, TypeInv
<1>2. CASE CheckVehicle(r)
  BY <1>2, GotoLedger DEF CheckVehicle, Holding, Checking, PcValues, Ended
<1>3. CASE CheckSlots(r)
  BY <1>3, GotoLedger DEF CheckSlots, Holding, Checking, PcValues, Ended
<1>4. CASE CountBlocking(r)
  BY <1>4, GotoLedger
  DEF CountBlocking, AfterChecks, Holding, Checking, PcValues, Ended
<1>5. CASE CheckOverlap(r)
  BY <1>5, GotoLedger
  DEF CheckOverlap, AfterChecks, Holding, Checking, PcValues, Ended
\* What fails is a first write: once a row is there, its timeline can grow.
<1>6. CASE Fail(r)
  <2>1. requests[r].pc \in {"insert", "save", "reinsert", "append"}
    BY <1>6 DEF Fail, Violates
  <2>2. requests[r].pc # "append"
    BY <1>1, <1>6, NullAssumption DEF Fail, Violates, Tracks, Shape
  <2> QED BY <1>6, <2>1, <2>2, GotoLedger DEF Fail, Holding, Checking, PcValues, Ended
<1>7. CASE Reinsert(r)
  BY <1>1, <1>7 DEF Reinsert, Tracks
<1>8. CASE Delete(r)
  BY <1>1, <1>8 DEF Delete, Tracks
<1> QED BY <1>2, <1>3, <1>4, <1>5, <1>6, <1>7, <1>8, InsertLedger, SaveSelectLedger,
           SaveUpdateLedger, AppendLedger, ConfirmLedger DEF Step

\* What the fleet does keeps every reservation, its status and its timeline.
LEMMA FleetKeepsRows ==
    ASSUME TypeInv, Fleet
    PROVE  /\ UNCHANGED <<issued, events, requests>>
           /\ \A x \in ReservationIds :
                 /\ reservations'[x] = NoRow <=> reservations[x] = NoRow
                 /\ reservations[x] # NoRow =>
                       reservations'[x].status = reservations[x].status
<1>1. UNCHANGED <<issued, events, requests>>
  BY DEF Fleet, SetVehicle, DeleteVehicle, AddSlot, MoveSlot, RemoveSlot
<1>2. ASSUME NEW v \in VehicleIds, DeleteVehicle(v), NEW x \in ReservationIds,
             reservations[x] # NoRow
      PROVE  /\ reservations'[x] # NoRow
             /\ reservations'[x].status = reservations[x].status
  <2>1. reservations[x] \in Row
    BY <1>2 DEF TypeInv, TypeOK
  <2>2. [reservations[x] EXCEPT !.vehicle = NoVehicle] \in Row
    BY <2>1 DEF Row
  <2> QED BY <1>2, <2>1, <2>2, NullAssumption DEF DeleteVehicle, Row
<1>3. ASSUME NEW v \in VehicleIds, DeleteVehicle(v), NEW x \in ReservationIds,
             reservations[x] = NoRow
      PROVE  reservations'[x] = NoRow
  BY <1>3 DEF DeleteVehicle
<1>4. (\E v \in VehicleIds : DeleteVehicle(v)) \/ UNCHANGED reservations
  BY DEF Fleet, SetVehicle, AddSlot, MoveSlot, RemoveSlot
<1> QED BY <1>1, <1>2, <1>3, <1>4

LEMMA FleetLedger ==
    ASSUME LedgerInv, TypeInv', Fleet
    PROVE  LedgerInv'
<1>1. /\ UNCHANGED <<issued, events, requests>>
      /\ \A x \in ReservationIds :
            /\ reservations'[x] = NoRow <=> reservations[x] = NoRow
            /\ reservations[x] # NoRow =>
                  reservations'[x].status = reservations[x].status
  BY FleetKeepsRows DEF LedgerInv
<1>2. ASSUME NEW x \in ReservationIds, reservations'[x] # NoRow
      PROVE  (x \in issued /\ Accounted(x, reservations[x].status))'
  BY <1>1, <1>2 DEF LedgerInv, Accounted
<1>3. ASSUME NEW r \in RequestIds
      PROVE  Backed(r)' /\ Tracks(r)'
  <2>1. Backed(r)'
    BY <1>1 DEF LedgerInv, Backed, Accounted
  <2>2. requests[r].id # NoId => requests[r].id \in ReservationIds
    BY DEF LedgerInv, TypeInv, TypeOK, Request
  <2> QED BY <1>1, <2>1, <2>2 DEF LedgerInv, Tracks
<1> QED BY <1>2, <1>3 DEF LedgerInv

LEMMA NextLedger ==
    ASSUME ~MayFail, LedgerInv, [Next]_vars, ~RemovingNext
    PROVE  LedgerInv'
<1>1. TypeInv'
  BY NextTypeInv DEF LedgerInv
<1>2. ASSUME NEW r \in RequestIds, Start(r) PROVE LedgerInv'
  BY <1>1, <1>2, StartLedger
<1>3. ASSUME NEW r \in RequestIds, Step(r) PROVE LedgerInv'
  BY <1>1, <1>3, StepLedger
<1>4. CASE Fleet
  BY <1>1, <1>4, FleetLedger
<1>5. CASE UNCHANGED vars
  BY <1>1, <1>5 DEF vars, LedgerInv, Backed, Accounted, Tracks
<1> QED BY <1>2, <1>3, <1>4, <1>5 DEF Next, Quiet

(***************************************************************************)
(* A request that removes a reservation is known by its op for the rest of *)
(* the run; from its arrival on, the ledger is no longer kept.             *)
(***************************************************************************)
Untouched == \A r \in RequestIds : requests[r].pc = "idle" => requests[r].op = "none"

LedgerOrRemoval == TypeInv /\ Untouched /\ (LedgerInv \/ Removing)

\* A step of r that leaves no request idle but those it found idle, and does
\* not forget a removal.
LEMMA OpKept ==
    ASSUME TypeInv, Untouched, NEW r \in RequestIds, NEW p,
           requests' = [requests EXCEPT ![r] = p], p.pc # "idle",
           requests[r].op = "remove" => p.op = "remove"
    PROVE  Untouched' /\ (Removing => RemovingNext)
  BY DEF Untouched, Removing, RemovingNext, TypeInv, TypeOK

LEMMA StartOps ==
    ASSUME TypeInv, Untouched, NEW r \in RequestIds, Start(r)
    PROVE  Untouched' /\ (Removing => RemovingNext)
<1>1. ASSUME NEW x, NEW op, NEW pc, NEW v, NEW want, NEW todo, pc # "idle",
             Loaded(r, x, op, pc, v, want, todo)
      PROVE  Untouched' /\ (Removing => RemovingNext)
  <2> DEFINE p == [Idle EXCEPT !.pc = pc, !.op = op, !.id = x, !.vehicle = v,
                               !.want = want, !.todo = todo,
                               !.seen = IF want = NoRow THEN {} ELSE events[x]]
  <2>1. requests' = [requests EXCEPT ![r] = p] /\ requests[r].op = "none"
    BY <1>1 DEF Loaded, MayStart, Untouched
  <2>2. p.pc = pc
    BY DEF Idle
  <2> HIDE DEF p
  <2> QED BY <1>1, <2>1, <2>2, OpKept
<1>2. ASSUME NEW v, NEW s, NEW e, Create(r, v, s, e)
      PROVE  Untouched' /\ (Removing => RemovingNext)
  <2> DEFINE p == [Idle EXCEPT !.pc = IF v = NoVehicle THEN "insert" ELSE "vehicle",
                       !.op = "create", !.vehicle = v,
                       !.want = NewRow(v, s, e),
                       !.todo = <<Ev(r, "reservation_created", "NOUVELLE_DEMANDE"),
                                  Ev(r, "reservation_ack_email_sent", NoStatus),
                                  Ev(r, "reservation_admin_notified", NoStatus)>>]
  <2>1. requests' = [requests EXCEPT ![r] = p] /\ requests[r].op = "none"
    BY <1>2 DEF Create, MayStart, Untouched
  <2>2. p.pc # "idle"
    BY DEF Idle
  <2> HIDE DEF p
  <2> QED BY <2>1, <2>2, OpKept
<1> QED BY <1>1, <1>2
        DEF Start, LoadUpdate, LoadUpdateStatus, LoadPreauth, LoadStatusEvent,
            LoadNote, LoadRemove

LEMMA StepOps ==
    ASSUME TypeInv, Untouched, NEW r \in RequestIds, Step(r)
    PROVE  Untouched' /\ (Removing => RemovingNext)
<1> DEFINE q == requests[r]
<1>0. q \in Request
  BY DEF TypeInv, TypeOK
<1>1. ASSUME NEW pc, NEW todo, pc # "idle",
             requests' = [requests EXCEPT ![r] = Onward(q, pc, todo)]
      PROVE  Untouched' /\ (Removing => RemovingNext)
  <2> DEFINE p == Onward(q, pc, todo)
  <2>1. p.pc = pc /\ p.op = q.op
    BY DEF Onward, Idle
  <2> HIDE DEF p
  <2> QED BY <1>1, <2>1, OpKept DEF p
<1>2. ASSUME NEW p, requests' = [requests EXCEPT ![r] = p], p.op = q.op, p.pc # "idle"
      PROVE  Untouched' /\ (Removing => RemovingNext)
  BY <1>2, OpKept
<1>3. ASSUME NEW pc, Goto(r, pc), pc # "idle"
      PROVE  Untouched' /\ (Removing => RemovingNext)
  <2>1. CASE pc \in Ended
    BY <1>1, <1>3, <2>1 DEF Goto
  <2>2. CASE pc \notin Ended
    <3>1. requests' = [requests EXCEPT ![r] = [q EXCEPT !.pc = pc]]
      BY <1>3, <2>2 DEF Goto, TypeInv, TypeOK
    <3>2. [q EXCEPT !.pc = pc].op = q.op /\ [q EXCEPT !.pc = pc].pc = pc
      BY <1>0 DEF Request
    <3> QED BY <1>2, <1>3, <3>1, <3>2
  <2> QED BY <2>1, <2>2
<1>4. CASE \/ CheckVehicle(r) \/ CheckSlots(r) \/ CountBlocking(r)
           \/ CheckOverlap(r) \/ Fail(r)
  BY <1>3, <1>4 DEF CheckVehicle, CheckSlots, CountBlocking, CheckOverlap, Fail,
     AfterChecks
<1>5. ASSUME NEW y \in ReservationIds, Insert(r, y)
      PROVE  Untouched' /\ (Removing => RemovingNext)
  <2> DEFINE p == [Onward(q, "append", q.todo) EXCEPT !.id = y]
  <2>1. requests' = [requests EXCEPT ![r] = p] /\ p.op = q.op /\ p.pc = "append"
    BY <1>5 DEF Insert, Onward, Idle
  <2> HIDE DEF p
  <2> QED BY <1>2, <2>1
<1>6. CASE SaveSelect(r)
  <2> DEFINE row == reservations[q.id]
             p == IF row = NoRow THEN [q EXCEPT !.pc = "reinsert"]
                  ELSE [q EXCEPT !.pc = "save",
                                 !.diff = {c \in Columns : q.want[c] # row[c]},
                                 !.found = events[q.id]]
  <2>1. requests' = [requests EXCEPT ![r] = p]
    BY <1>6 DEF SaveSelect
  <2>2. p.op = q.op /\ p.pc # "idle"
    BY <1>0 DEF Request
  <2> HIDE DEF p
  <2> QED BY <1>2, <2>1, <2>2
<1>7. CASE SaveUpdate(r) \/ Reinsert(r) \/ ConfirmPreauth(r) \/ Delete(r)
  BY <1>1, <1>7 DEF SaveUpdate, Reinsert, ConfirmPreauth, Delete
<1>8. CASE AppendEvent(r)
  BY <1>1, <1>8 DEF AppendEvent
<1> QED BY <1>4, <1>5, <1>6, <1>7, <1>8 DEF Step

LEMMA NextLedgerOrRemoval ==
    ASSUME ~MayFail, LedgerOrRemoval, [Next]_vars
    PROVE  LedgerOrRemoval'
<1>1. TypeInv'
  BY NextTypeInv DEF LedgerOrRemoval
<1>2. Untouched' /\ (Removing => RemovingNext)
  <2>1. CASE UNCHANGED requests
    BY <2>1 DEF LedgerOrRemoval, Untouched, Removing, RemovingNext
  <2>2. CASE Fleet \/ Quiet \/ UNCHANGED vars
    BY <2>1, <2>2 DEF Fleet, SetVehicle, DeleteVehicle, AddSlot, MoveSlot,
       RemoveSlot, Quiet, vars
  <2> QED BY <2>2, StartOps, StepOps DEF Next, LedgerOrRemoval
<1>3. RemovingNext => Removing'
  BY DEF RemovingNext, Removing
<1> QED BY <1>1, <1>2, <1>3, NextLedger DEF LedgerOrRemoval

LEMMA InitLedgerOrRemoval == Init => LedgerOrRemoval
  BY InitLedger DEF LedgerOrRemoval, LedgerInv, Untouched, Init, Idle

(***************************************************************************)
(* Line 113, "First timeline event is always emitted at creation": every   *)
(* reservation a finished create() stored has its reservation_created      *)
(* event, whatever the requests beside it do, as long as no statement      *)
(* fails by itself and nothing is being removed.  A vehicle removed under  *)
(* the request makes the INSERT fail, and nothing is stored.               *)
(***************************************************************************)
THEOREM CreationsRecorded ==
    ASSUME ~MayFail
    PROVE  Spec => []CreationRecorded
<1>1. Init => LedgerOrRemoval
  BY InitLedgerOrRemoval
<1>2. LedgerOrRemoval /\ [Next]_vars => LedgerOrRemoval'
  BY NextLedgerOrRemoval
<1>3. LedgerOrRemoval => CreationRecorded
  BY DEF LedgerOrRemoval, LedgerInv, Tracks, CreationRecorded, Created
<1> QED BY <1>1, <1>2, <1>3, PTL DEF Spec

(***************************************************************************)
(* Under the same conditions, and for every interleaving, the service has  *)
(* announced the status of each reservation once the requests are over,    *)
(* although handlers overwrite each other's status.                        *)
(***************************************************************************)
THEOREM TimelineExplains ==
    ASSUME ~MayFail
    PROVE  Spec => []TimelineExplainsStatus
<1>1. Init => LedgerOrRemoval
  BY InitLedgerOrRemoval
<1>2. LedgerOrRemoval /\ [Next]_vars => LedgerOrRemoval'
  BY NextLedgerOrRemoval
<1>3. LedgerOrRemoval => TimelineExplainsStatus
  BY DEF LedgerOrRemoval, LedgerInv, Accounted, Tells, TimelineExplainsStatus,
     InFlight, Ended
<1> QED BY <1>1, <1>2, <1>3, PTL DEF Spec

-----------------------------------------------------------------------------
(***************************************************************************)
(* One request at a time per reservation (Isolation # "none"): each status *)
(* is announced once.  The lifecycle has no cycle, so the statuses can be  *)
(* numbered along it; the announced ones never go beyond the stored one,   *)
(* and a status that is about to be announced is beyond all of them.       *)
(***************************************************************************)
Stage == [s \in Statuses |->
    CASE s = "NOUVELLE_DEMANDE"    -> 0
      [] s = "EN_ANALYSE"          -> 1
      [] s = "PROPOSITION_ENVOYEE" -> 2
      [] s = "EN_ATTENTE_PAIEMENT" -> 3
      [] s = "CONFIRMEE"           -> 4
      [] s = "EN_COURS"            -> 5
      [] OTHER                     -> 6]

LEMMA StageType == \A s \in Statuses : Stage[s] \in Nat
  BY DEF Stage, Statuses

LEMMA StagesGrow ==
    ASSUME NEW s \in Statuses, NEW t \in ALLOWED_TRANSITIONS[s]
    PROVE  t \in Statuses /\ Stage[s] < Stage[t]
  BY DEF ALLOWED_TRANSITIONS, Stage, Statuses

IsChange(e) == e.type = "reservation_status_changed" /\ ~e.client

\* The statuses announced for x all come before s.
Past(x, s) == \A e \in events[x] : IsChange(e) => Stage[e.status] < Stage[s]

\* The timeline of x: nothing without a row, no announcement ahead of the
\* stored status, none twice.
ToldAt(x) ==
    /\ reservations[x] = NoRow => events[x] = {}
    /\ \A e \in events[x] : IsChange(e) =>
          e.status \in Statuses /\ Stage[e.status] <= Stage[reservations[x].status]
    /\ \A e, f \in events[x] :
          IsChange(e) /\ IsChange(f) /\ e.status = f.status => e = f

\* What is left to announce, by the phase of the handler.
Announces(r) ==
    LET q   == requests[r]
        row == reservations[q.id]
    IN  /\ q.pc \in Holding /\ q.op # "create" => q.seen \subseteq events[q.id]
        /\ q.pc = "save" => "status" \in q.diff \/ row.status = q.want.status
        /\ q.op = "preauth" /\ q.pc \in {"append", "confirm"} =>
              IsChange(q.todo[Len(q.todo)])
        /\ \A i, j \in 1..Len(q.todo) :
              IsChange(q.todo[i]) /\ IsChange(q.todo[j]) => i = j
        /\ \A i \in 1..Len(q.todo) : IsChange(q.todo[i]) =>
              LET s == q.todo[i].status
              IN  /\ s \in Statuses
                  /\ q.pc \in Holding =>
                        q.op # "create" /\ s = q.want.status /\ s # row.status
                  /\ Confirming(q) => s = "CONFIRMEE"
                  /\ q.pc = "append" /\ ~Confirming(q) =>
                        /\ Past(q.id, s)
                        /\ row # NoRow => Stage[s] <= Stage[row.status]

AnnounceInv ==
    /\ DossierInv
    /\ \A x \in ReservationIds : ToldAt(x)
    /\ \A r \in RequestIds : Announces(r)

LEMMA InitAnnounce == Init => AnnounceInv
<1> SUFFICES ASSUME Init PROVE AnnounceInv
  OBVIOUS
<1>1. ASSUME NEW x \in ReservationIds PROVE ToldAt(x)
  <2>1. reservations[x] # NoRow => reservations[x].status \in Statuses
    BY InputAssumption DEF Init, Row
  <2>2. CASE reservations[x] = NoRow
    BY <2>2 DEF Init, ToldAt
  <2>3. CASE reservations[x] # NoRow
    <3>1. events[x] = {Ev(NoRequest, "reservation_status_changed",
                          reservations[x].status)}
      BY <2>3 DEF Init
    <3> QED BY <2>1, <2>3, <3>1, StageType DEF ToldAt, Ev
  <2> QED BY <2>2, <2>3
<1>2. ASSUME NEW r \in RequestIds PROVE Announces(r)
  <2>1. requests[r].pc = "idle" /\ requests[r].op = "none" /\ requests[r].todo = <<>>
    BY DEF Init, Idle
  <2>2. 1..Len(<<>>) = {}
    OBVIOUS
  <2> QED BY <2>1, <2>2 DEF Announces, Holding, Checking
<1> QED BY <1>1, <1>2, InitDossierInv DEF AnnounceInv

\* ToldAt, after the step.
ToldNext(x) ==
    /\ reservations'[x] = NoRow => events'[x] = {}
    /\ \A e \in events'[x] : IsChange(e) =>
          e.status \in Statuses /\ Stage[e.status] <= Stage[reservations'[x].status]
    /\ \A e, f \in events'[x] :
          IsChange(e) /\ IsChange(f) /\ e.status = f.status => e = f

(***************************************************************************)
(* A step of one request leaves what the others have to announce alone: no *)
(* other handler in flight is about its reservation.                       *)
(***************************************************************************)
LEMMA OthersAnnounce ==
    ASSUME AnnounceInv, DossierInv', NEW r \in RequestIds, NEW p,
           requests' = [requests EXCEPT ![r] = p],
           \A o \in RequestIds \ {r} :
              InFlight(o) /\ requests[o].id # NoId => requests[o].id # p.id,
           \A x \in ReservationIds \ {p.id} :
              reservations'[x] = reservations[x] /\ events'[x] = events[x],
           p.id \in ReservationIds => ToldNext(p.id),
           Announces(r)'
    PROVE  AnnounceInv'
<1>1. ASSUME NEW x \in ReservationIds PROVE ToldAt(x)'
  <2>1. CASE x = p.id
    <3>1. ToldNext(x)
      BY <2>1
    <3> QED BY <3>1 DEF ToldNext, ToldAt
  <2>2. CASE x # p.id
    BY <2>2 DEF AnnounceInv, ToldAt
  <2> QED BY <2>1, <2>2
<1>2. ASSUME NEW o \in RequestIds \ {r} PROVE Announces(o)'
  <2> DEFINE q == requests[o]
  <2>1. requests'[o] = q
    BY DEF AnnounceInv, DossierInv, TypeInv, TypeOK
  <2>2. Announces(o) /\ Shape(q)
    BY DEF AnnounceInv, DossierInv, TypeInv
  <2>3. CASE ~InFlight(o)
    BY <2>1, <2>2, <2>3
    DEF Announces, InFlight, Confirming, Holding, Checking, Ended
  <2>4. CASE InFlight(o) /\ q.id = NoId
    <3>1. q.pc \in Checking \cup {"insert"} /\ q.op # "preauth"
          /\ (q.pc \in Checking => q.op = "create")
          /\ (q.pc = "insert" => q.op = "create")
      BY <2>2, <2>4, NullAssumption
      DEF Shape, AnnounceInv, DossierInv, Agrees, InFlight, Request, PcValues,
          Ended, Holding, Checking
    <3> QED BY <2>1, <2>2, <2>4, <3>1
            DEF Announces, Confirming, Holding, Checking
  <2>5. CASE InFlight(o) /\ q.id # NoId
    <3>1. q.id \in ReservationIds \ {p.id}
      BY <2>2, <2>5 DEF Shape, Request
    <3>2. reservations'[q.id] = reservations[q.id] /\ events'[q.id] = events[q.id]
      BY <3>1
    <3> QED BY <2>1, <2>2, <3>2 DEF Announces, Past, Confirming
  <2> QED BY <2>3, <2>4, <2>5
<1> QED BY <1>1, <1>2 DEF AnnounceInv
LEMMA CreateAnnounce ==
    ASSUME AnnounceInv, DossierInv', NEW r \in RequestIds,
           NEW v \in VehicleIds \cup {NoVehicle},
           NEW s \in Times, NEW e \in Times, Create(r, v, s, e)
    PROVE  AnnounceInv'
<1> DEFINE todo == <<Created(r), Ev(r, "reservation_ack_email_sent", NoStatus),
                     Ev(r, "reservation_admin_notified", NoStatus)>>
           p == [Idle EXCEPT !.pc = IF v = NoVehicle THEN "insert" ELSE "vehicle",
                             !.op = "create", !.vehicle = v,
                             !.want = NewRow(v, s, e), !.todo = todo]
<1>1. requests' = [requests EXCEPT ![r] = p]
  BY DEF Create, Created
<1>2. requests'[r] = p
  BY <1>1 DEF AnnounceInv, DossierInv, TypeInv, TypeOK
<1>3. p.id = NoId /\ p.op = "create" /\ p.pc \in {"insert", "vehicle"} /\ p.todo = todo
  BY DEF Idle
<1>4. \A i \in 1..Len(todo) : ~IsChange(todo[i])
  BY DEF IsChange, Created, Ev
<1> HIDE DEF p, todo
<1>5. Announces(r)'
  BY <1>2, <1>3, <1>4 DEF Announces, Holding, Checking
<1>6. UNCHANGED <<reservations, events>>
  BY DEF Create
<1> QED BY <1>1, <1>3, <1>5, <1>6, NullAssumption, OthersAnnounce

LEMMA LoadedAnnounce ==
    ASSUME Isolation # "none", AnnounceInv, DossierInv', NEW r \in RequestIds,
           NEW x \in ReservationIds, NEW op, NEW pc, NEW v, NEW want, NEW todo,
           Loaded(r, x, op, pc, v, want, todo),
           op # "create", pc \notin {"save", "confirm"},
           op = "preauth" => pc = "append" /\ IsChange(todo[Len(todo)]),
           \A i, j \in 1..Len(todo) : IsChange(todo[i]) /\ IsChange(todo[j]) => i = j,
           \A i \in 1..Len(todo) : IsChange(todo[i]) =>
              /\ todo[i].status \in Statuses
              /\ pc \in Holding =>
                    todo[i].status = want.status /\ want.status # reservations[x].status
              /\ pc = "append" =>
                    op = "preauth" /\ Len(todo) = 2 /\ todo[i].status = "CONFIRMEE"
    PROVE  AnnounceInv'
<1> DEFINE p == [Idle EXCEPT !.pc = pc, !.op = op, !.id = x, !.vehicle = v,
                             !.want = want, !.todo = todo,
                             !.seen = IF want = NoRow THEN {} ELSE events[x]]
<1>1. requests' = [requests EXCEPT ![r] = p]
  BY DEF Loaded
<1>2. requests'[r] = p
  BY <1>1 DEF AnnounceInv, DossierInv, TypeInv, TypeOK
<1>3. /\ p.id = x /\ p.op = op /\ p.pc = pc /\ p.want = want /\ p.todo = todo
      /\ p.seen \subseteq events[x]
      /\ MayStart(r, x) /\ UNCHANGED <<reservations, events>>
  BY DEF Idle, Loaded
<1> HIDE DEF p
<1>4. Announces(r)'
  BY <1>2, <1>3 DEF Announces, Confirming
<1>5. ToldNext(x)
  BY <1>3 DEF AnnounceInv, ToldAt, ToldNext
<1>6. \A o \in RequestIds \ {r} :
         InFlight(o) /\ requests[o].id # NoId => requests[o].id # p.id
  BY <1>3, Isolated
<1> QED BY <1>1, <1>3, <1>4, <1>5, <1>6, OthersAnnounce

LEMMA StartAnnounce ==
    ASSUME Isolation # "none", AnnounceInv, DossierInv', NEW r \in RequestIds, Start(r)
    PROVE  AnnounceInv'
<1>0. ASSUME NEW x \in ReservationIds, reservations[x] # NoRow, NEW s
      PROVE  [reservations[x] EXCEPT !.status = s].status = s
  BY <1>0 DEF AnnounceInv, DossierInv, TypeInv, TypeOK, Row
\* A list of a change and of an event that is none.
<1>a. ASSUME NEW s, NEW e, ~IsChange(e)
      PROVE  LET todo == <<Ev(r, "reservation_status_changed", s), e>>
             IN  \A i \in 1..Len(todo) : IsChange(todo[i]) => i = 1 /\ todo[i].status = s
  BY <1>a DEF IsChange, Ev
<1>1. ASSUME NEW v \in VehicleIds \cup {NoVehicle}, NEW s \in Times,
             NEW e \in Times, Create(r, v, s, e)
      PROVE  AnnounceInv'
  BY <1>1, CreateAnnounce
<1>2. ASSUME NEW x \in ReservationIds, NEW dto \in Updates, LoadUpdate(r, x, dto)
      PROVE  AnnounceInv'
  <2> DEFINE row == reservations[x]
             next == OrElse(dto.vehicle, row.vehicle)
             want == [row EXCEPT !.vehicle = IF row.vehicle # NoVehicle
                                             THEN row.vehicle ELSE next,
                                 !.start = OrElse(dto.start, row.start),
                                 !.end = OrElse(dto.end, row.end)]
             pc == CASE dto.vehicle # Unset -> "vehicle"
                     [] dto.vehicle = Unset /\ next # NoVehicle -> "slots"
                     [] OTHER -> "select"
             todo == <<Ev(r, "reservation_updated", NoStatus)>>
  <2>1. pc \in {"vehicle", "slots", "select"}
    OBVIOUS
  <2>2. \A i \in 1..Len(todo) : ~IsChange(todo[i])
    BY DEF IsChange, Ev
  <2>3. Loaded(r, x, "update", pc, next, want, todo)
    BY <1>2 DEF LoadUpdate
  <2> HIDE DEF want, pc, next, todo
  <2> QED BY <2>1, <2>2, <2>3, LoadedAnnounce
<1>3. ASSUME NEW x \in ReservationIds, NEW status \in Statuses,
             LoadUpdateStatus(r, x, status)
      PROVE  AnnounceInv'
  <2> DEFINE want == [reservations[x] EXCEPT !.status = status]
             todo == <<Ev(r, "reservation_status_changed", status),
                       Ev(r, STATUS_EVENT_MAP[status], status)>>
  <2>1. want.status = status /\ reservations[x].status \in Statuses
    BY <1>0, <1>3
    DEF LoadUpdateStatus, AnnounceInv, DossierInv, TypeInv, TypeOK, Row
  <2>2. status # reservations[x].status
    BY <1>3, <2>1, StagesGrow, StageType DEF LoadUpdateStatus
  <2>3. \A i \in 1..Len(todo) : IsChange(todo[i]) => i = 1 /\ todo[i].status = status
    <3>1. STATUS_EVENT_MAP[status] # "reservation_status_changed"
      BY DEF STATUS_EVENT_MAP, Statuses
    <3>2. ~IsChange(Ev(r, STATUS_EVENT_MAP[status], status))
      BY <3>1 DEF IsChange, Ev
    <3> QED BY <1>a, <3>2
  <2>4. Loaded(r, x, "updateStatus", "select", NoVehicle, want, todo)
    BY <1>3 DEF LoadUpdateStatus
  <2> HIDE DEF want, todo
  <2> QED BY <2>1, <2>2, <2>3, <2>4, LoadedAnnounce
<1>4. ASSUME NEW x \in ReservationIds, LoadPreauth(r, x)
      PROVE  AnnounceInv'
  <2> DEFINE todo == <<Ev(r, "reservation_stripe_preauth_created", NoStatus),
                       Ev(r, "reservation_status_changed", "CONFIRMEE")>>
  <2>1. Len(todo) = 2 /\ IsChange(todo[Len(todo)])
    BY DEF IsChange, Ev
  <2>2. \A i \in 1..Len(todo) : IsChange(todo[i]) => i = 2 /\ todo[i].status = "CONFIRMEE"
    BY DEF IsChange, Ev
  <2>3. Loaded(r, x, "preauth", "append", NoVehicle, NoRow, todo)
    BY <1>4 DEF LoadPreauth
  <2> HIDE DEF todo
  <2> QED BY <2>1, <2>2, <2>3, LoadedAnnounce DEF Statuses, Holding, Checking
<1>5. ASSUME NEW x \in ReservationIds, NEW body \in EventBodies,
             LoadStatusEvent(r, x, body)
      PROVE  AnnounceInv'
  <2> DEFINE want == [reservations[x] EXCEPT !.status = EventTo[body.type]]
             todo == <<Ev(r, "reservation_status_changed", EventTo[body.type]),
                       Note(r, body)>>
  <2>1. want.status = EventTo[body.type]
    BY <1>0, <1>5 DEF LoadStatusEvent
  <2>2. EventTo[body.type] # reservations[x].status /\ EventTo[body.type] \in Statuses
    BY <1>5 DEF LoadStatusEvent, EventTo, EventFrom, Statuses
  <2>3. \A i \in 1..Len(todo) : IsChange(todo[i]) =>
           i = 1 /\ todo[i].status = EventTo[body.type]
    <3>1. ~IsChange(Note(r, body))
      BY DEF IsChange, Note
    <3> QED BY <1>a, <3>1
  <2>4. Loaded(r, x, "event", "select", NoVehicle, want, todo)
    BY <1>5 DEF LoadStatusEvent
  <2> HIDE DEF want, todo
  <2> QED BY <2>1, <2>2, <2>3, <2>4, LoadedAnnounce
<1>6. ASSUME NEW x \in ReservationIds, NEW body \in EventBodies,
             LoadNote(r, x, body)
      PROVE  AnnounceInv'
  <2> DEFINE todo == <<Note(r, body)>>
  <2>1. \A i \in 1..Len(todo) : ~IsChange(todo[i])
    BY DEF IsChange, Note
  <2>2. Loaded(r, x, "event", "append", NoVehicle, NoRow, todo)
    BY <1>6 DEF LoadNote
  <2> HIDE DEF todo
  <2> QED BY <2>1, <2>2, LoadedAnnounce
<1>7. ASSUME NEW x \in ReservationIds, LoadRemove(r, x)
      PROVE  AnnounceInv'
  <2>1. 1..Len(<<>>) = {}
    OBVIOUS
  <2> QED BY <1>7, <2>1, LoadedAnnounce DEF LoadRemove
<1> QED BY <1>1, <1>2, <1>3, <1>4, <1>5, <1>6, <1>7 DEF Start
-----------------------------------------------------------------------------
LEMMA GotoAnnounce ==
    ASSUME AnnounceInv, DossierInv', NEW r \in RequestIds, NEW pc \in PcValues,
           Goto(r, pc), InFlight(r),
           \/ pc \in Ended
           \/ /\ requests[r].pc \in Checking
              /\ pc \in Checking \cup {AfterChecks(r)}
    PROVE  AnnounceInv'
<1> DEFINE q == requests[r]
           p == IF pc \in Ended THEN Onward(q, pc, <<>>) ELSE [q EXCEPT !.pc = pc]
<1>1. requests' = [requests EXCEPT ![r] = p]
  BY DEF Goto, AnnounceInv, DossierInv, TypeInv, TypeOK
<1>2. requests'[r] = p
  BY <1>1 DEF AnnounceInv, DossierInv, TypeInv, TypeOK
<1>3. q \in Request /\ Announces(r)
  BY DEF AnnounceInv, DossierInv, TypeInv, TypeOK
<1>4. p.id = q.id /\ p.pc = pc
  BY <1>3 DEF Onward, Idle, Request
<1>5. IF pc \in Ended THEN p.todo = <<>>
      ELSE /\ p.op = q.op /\ p.want = q.want /\ p.todo = q.todo /\ p.seen = q.seen
  BY <1>3 DEF Onward, Idle, Request
<1>6. UNCHANGED <<reservations, events>>
  BY DEF Goto
<1> HIDE DEF p
<1>7. Announces(r)'
  <2>1. CASE pc \in Ended
    <3>1. 1..Len(<<>>) = {}
      OBVIOUS
    <3> QED BY <1>2, <1>4, <1>5, <2>1, <3>1
            DEF Announces, Holding, Checking, Ended
  <2>2. CASE pc \notin Ended
    <3>1. pc \in Checking \cup {"insert", "select"} /\ q.pc \in Holding
      BY <2>2 DEF AfterChecks, Holding
    <3> QED BY <1>2, <1>3, <1>4, <1>5, <1>6, <2>2, <3>1
            DEF Announces, Confirming, Holding, Checking
  <2> QED BY <2>1, <2>2
<1>8. q.id \in ReservationIds => ToldNext(q.id)
  BY <1>6 DEF AnnounceInv, ToldAt, ToldNext
<1>9. \A o \in RequestIds \ {r} :
         InFlight(o) /\ requests[o].id # NoId => requests[o].id # p.id
  BY <1>4, OnlyOne DEF AnnounceInv
<1> QED BY <1>1, <1>4, <1>6, <1>7, <1>8, <1>9, OthersAnnounce

LEMMA InsertAnnounce ==
    ASSUME AnnounceInv, DossierInv', NEW r \in RequestIds, NEW x \in ReservationIds,
           Insert(r, x)
    PROVE  AnnounceInv'
<1> DEFINE q == requests[r]
           p == [Onward(q, "append", q.todo) EXCEPT !.id = x]
<1>1. requests' = [requests EXCEPT ![r] = p]
  BY DEF Insert
<1>2. requests'[r] = p
  BY <1>1 DEF AnnounceInv, DossierInv, TypeInv, TypeOK
<1>3. Announces(r) /\ Agrees(q) /\ q.pc = "insert"
  BY DEF AnnounceInv, DossierInv, Insert
<1>4. p.id = x /\ p.pc = "append" /\ p.op = q.op /\ p.todo = q.todo
  BY DEF Onward, Idle
<1> HIDE DEF p
<1>5. q.op = "create" /\ \A i \in 1..Len(q.todo) : ~IsChange(q.todo[i])
  BY <1>3 DEF Announces, Agrees, Holding
<1>6. events[x] = {} /\ events' = events
  BY DEF Insert, AnnounceInv, DossierInv, IdsIssued, ToldAt
<1>7. \A y \in ReservationIds \ {x} : reservations'[y] = reservations[y]
  BY DEF Insert, AnnounceInv, DossierInv, TypeInv, TypeOK
<1>8. Announces(r)'
  BY <1>2, <1>4, <1>5 DEF Announces, Holding, Checking
<1>9. ToldNext(x)
  BY <1>6 DEF ToldNext
<1>10. \A o \in RequestIds \ {r} :
          InFlight(o) /\ requests[o].id # NoId => requests[o].id # x
  BY DEF Insert, AnnounceInv, DossierInv, IdsIssued
<1> QED BY <1>1, <1>4, <1>6, <1>7, <1>8, <1>9, <1>10, OthersAnnounce

LEMMA SaveSelectAnnounce ==
    ASSUME AnnounceInv, DossierInv', NEW r \in RequestIds, SaveSelect(r)
    PROVE  AnnounceInv'
<1> DEFINE q == requests[r]
           p == [q EXCEPT !.pc = "save",
                          !.diff = {c \in Columns : q.want[c] # reservations[q.id][c]},
                          !.found = events[q.id]]
<1>1. /\ Shape(q) /\ q \in Request /\ Announces(r) /\ Agrees(q) /\ q.pc = "select"
  BY DEF AnnounceInv, DossierInv, TypeInv, TypeOK, SaveSelect
<1>2. q.id \in ReservationIds /\ reservations[q.id] # NoRow /\ InFlight(r)
  BY <1>1 DEF Shape, Agrees, Follows, InFlight, Ended
<1>3. requests' = [requests EXCEPT ![r] = p] /\ UNCHANGED <<reservations, events>>
  BY <1>2 DEF SaveSelect
<1>4. requests'[r] = p
  BY <1>3 DEF AnnounceInv, DossierInv, TypeInv, TypeOK
<1>5. /\ p.id = q.id /\ p.pc = "save" /\ p.op = q.op /\ p.want = q.want
      /\ p.todo = q.todo /\ p.seen = q.seen
      /\ p.diff = {c \in Columns : q.want[c] # reservations[q.id][c]}
  BY <1>1 DEF Request
<1> HIDE DEF p
<1>6. "status" \in p.diff \/ reservations[q.id].status = q.want.status
  BY <1>5 DEF Columns
<1>7. Announces(r)'
  BY <1>1, <1>3, <1>4, <1>5, <1>6 DEF Announces, Confirming, Holding, Checking
<1>8. ToldNext(q.id)
  BY <1>2, <1>3 DEF AnnounceInv, ToldAt, ToldNext
<1>9. \A o \in RequestIds \ {r} :
         InFlight(o) /\ requests[o].id # NoId => requests[o].id # p.id
  BY <1>2, <1>5, OnlyOne DEF AnnounceInv
<1> QED BY <1>3, <1>5, <1>7, <1>8, <1>9, OthersAnnounce

LEMMA SaveUpdateAnnounce ==
    ASSUME AnnounceInv, DossierInv', NEW r \in RequestIds, SaveUpdate(r)
    PROVE  AnnounceInv'
<1> DEFINE q == requests[r]
           p == Onward(q, "append", q.todo)
           row == reservations[q.id]
<1>1. /\ Shape(q) /\ q \in Request /\ Announces(r) /\ Agrees(q) /\ q.pc = "save"
  BY DEF AnnounceInv, DossierInv, TypeInv, TypeOK, SaveUpdate
<1>2. /\ q.id \in ReservationIds /\ row \in Row /\ row # NoRow /\ InFlight(r)
      /\ q.op # "create" /\ q.op # "preauth" /\ q.want \in Row /\ Follows(q)
  BY <1>1
  DEF Shape, Agrees, Follows, InFlight, Ended, Holding, AnnounceInv, DossierInv,
      TypeInv, TypeOK
<1>3. /\ requests' = [requests EXCEPT ![r] = p]
      /\ reservations'[q.id] = Merge(row, q.want, q.diff)
      /\ \A y \in ReservationIds \ {q.id} : reservations'[y] = reservations[y]
      /\ events'[q.id] = events[q.id] \cup (q.seen \ q.found)
      /\ \A y \in ReservationIds \ {q.id} : events'[y] = events[y]
  BY <1>2 DEF SaveUpdate, AnnounceInv, DossierInv, TypeInv, TypeOK
<1>4. requests'[r] = p
  BY <1>3 DEF AnnounceInv, DossierInv, TypeInv, TypeOK
<1>5. p.id = q.id /\ p.pc = "append" /\ p.op = q.op /\ p.todo = q.todo
  BY DEF Onward, Idle
<1> HIDE DEF p
<1>6. events'[q.id] = events[q.id]
  BY <1>1, <1>2, <1>3 DEF Announces, Holding
<1>7. reservations'[q.id].status = q.want.status /\ reservations'[q.id] # NoRow
  <2>1. Merge(row, q.want, q.diff) \in Row
    BY <1>2 DEF Merge, Row
  <2> QED BY <1>1, <1>3, <2>1, NullAssumption DEF Merge, Announces
<1>8. /\ row.status \in Statuses /\ q.want.status \in Statuses
      /\ Stage[row.status] \in Nat /\ Stage[q.want.status] \in Nat
      /\ Stage[row.status] <= Stage[q.want.status]
      /\ q.want.status # row.status => Stage[row.status] < Stage[q.want.status]
  BY <1>2, StageType, StagesGrow DEF Follows, Row
<1>9. \A e \in events[q.id] : IsChange(e) =>
         e.status \in Statuses /\ Stage[e.status] \in Nat
         /\ Stage[e.status] <= Stage[row.status]
  BY <1>2, StageType DEF AnnounceInv, ToldAt
<1>10. ToldNext(q.id)
  BY <1>2, <1>6, <1>7, <1>8, <1>9 DEF AnnounceInv, ToldAt, ToldNext
<1>11. ASSUME NEW i \in 1..Len(q.todo), IsChange(q.todo[i])
       PROVE  /\ q.todo[i].status = q.want.status
              /\ \A e \in events'[q.id] : IsChange(e) =>
                    Stage[e.status] < Stage[q.want.status]
  BY <1>1, <1>6, <1>8, <1>9, <1>11 DEF Announces, Holding
<1>12. Announces(r)'
  BY <1>1, <1>2, <1>4, <1>5, <1>7, <1>8, <1>11
  DEF Announces, Past, Confirming, Holding, Checking
<1>13. \A o \in RequestIds \ {r} :
         InFlight(o) /\ requests[o].id # NoId => requests[o].id # p.id
  BY <1>2, <1>5, OnlyOne DEF AnnounceInv
<1> QED BY <1>3, <1>5, <1>10, <1>12, <1>13, OthersAnnounce
LEMMA AppendAnnounce ==
    ASSUME AnnounceInv, DossierInv', NEW r \in RequestIds, AppendEvent(r)
    PROVE  AnnounceInv'
<1> DEFINE q == requests[r]
           e == Head(q.todo)
           row == reservations[q.id]
           pc == CASE Len(q.todo) = 1 -> "done"
                   [] Len(q.todo) # 1 /\ q.op = "preauth" -> "confirm"
                   [] OTHER -> "append"
           p == Onward(q, pc, Tail(q.todo))
<1>1. Shape(q) /\ Announces(r) /\ Agrees(q) /\ q.pc = "append"
  BY DEF AnnounceInv, DossierInv, TypeInv, AppendEvent
<1>2. /\ q.id \in ReservationIds /\ row # NoRow /\ row \in Row /\ InFlight(r)
      /\ q.todo \in Seq(Event) /\ q.todo # <<>>
  BY <1>1
  DEF Shape, Request, AppendEvent, Violates, InFlight, Ended, AnnounceInv,
      DossierInv, TypeInv, TypeOK
<1>3. /\ requests' = [requests EXCEPT ![r] = p]
      /\ reservations' = reservations
      /\ events'[q.id] = events[q.id] \cup {e}
      /\ \A y \in ReservationIds \ {q.id} : events'[y] = events[y]
  BY <1>2 DEF AppendEvent, AnnounceInv, DossierInv, TypeInv, TypeOK
<1>4. requests'[r] = p
  BY <1>3 DEF AnnounceInv, DossierInv, TypeInv, TypeOK
<1>5. p.id = q.id /\ p.pc = pc /\ p.op = q.op /\ p.todo = Tail(q.todo)
  BY DEF Onward, Idle
<1>6. /\ pc \in {"append", "confirm", "done"}
      /\ pc = "done" <=> Len(q.todo) = 1
      /\ pc = "confirm" => q.op = "preauth"
      /\ q.op = "preauth" => pc # "append"
  OBVIOUS
<1>7. 1 \in 1..Len(q.todo) /\ q.todo[1] = e
  <2>1. Len(q.todo) \in Nat /\ Len(q.todo) # 0
    BY <1>2
  <2> QED BY <2>1
<1>8. Len(q.todo) # 1 =>
         /\ Len(p.todo) \in 1..Len(p.todo)
         /\ p.todo[Len(p.todo)] = q.todo[Len(q.todo)]
  BY <1>2, <1>5, LastOfTail
<1>9. \A j \in 1..Len(p.todo) : j + 1 \in 1..Len(q.todo) /\ p.todo[j] = q.todo[j + 1]
  BY <1>2, <1>5, TailInside
<1> HIDE DEF p, pc, e
\* The preauthorisation comes before the change it leads to.
<1>10. Confirming(q) => ~IsChange(e)
  <2> SUFFICES ASSUME q.op = "preauth", Len(q.todo) = 2, IsChange(e) PROVE FALSE
    BY <1>1 DEF Confirming
  <2>1. IsChange(q.todo[2]) /\ 2 \in 1..Len(q.todo)
    BY <1>1 DEF Announces
  <2> QED BY <1>1, <1>7, <2>1 DEF Announces
<1>11. IsChange(e) => /\ e.status \in Statuses
                      /\ Past(q.id, e.status)
                      /\ Stage[e.status] <= Stage[row.status]
  BY <1>1, <1>2, <1>7, <1>10 DEF Announces
<1>12. ToldNext(q.id)
  <2>1. ToldAt(q.id)
    BY <1>2 DEF AnnounceInv
  <2>2. ASSUME NEW f \in events[q.id], IsChange(f), IsChange(e),
               f.status = e.status
        PROVE  FALSE
    <3>1. Stage[e.status] < Stage[e.status]
      BY <1>11, <2>2 DEF Past
    <3> QED BY <1>11, <2>2, <3>1, StageType
  <2>3. \A f \in events'[q.id] : f \in events[q.id] \/ f = e
    BY <1>3
  <2> QED BY <1>2, <1>3, <1>11, <2>1, <2>2, <2>3 DEF ToldAt, ToldNext
\* What is left comes after e, so that a change among it is that of a
\* preauthorisation, or e was not one.
<1>13. ASSUME NEW j \in 1..Len(p.todo), IsChange(p.todo[j])
       PROVE  /\ p.todo[j].status \in Statuses
              /\ Confirming(p) => p.todo[j].status = "CONFIRMEE"
              /\ p.pc = "append" => Past(q.id, p.todo[j].status)
                                    /\ Stage[p.todo[j].status] <= Stage[row.status]
              /\ ~IsChange(e)
  <2>1. j + 1 \in 1..Len(q.todo) /\ p.todo[j] = q.todo[j + 1] /\ j + 1 # 1
    BY <1>9
  <2>2. Confirming(p) => Confirming(q)
    <3>1. Confirming(p) => q.op = "preauth"
      BY <1>5, <1>6 DEF Confirming
    <3>2. q.op = "preauth" => Len(q.todo) \in {1, 2}
      BY <1>1 DEF Agrees
    <3>3. Len(q.todo) # 1
      BY <2>1
    <3> QED BY <1>1, <3>1, <3>2, <3>3 DEF Confirming
  <2>3. p.pc = "append" => ~Confirming(q)
    BY <1>1, <1>5, <1>6 DEF Confirming
  <2>4. ~IsChange(e)
    BY <1>1, <1>7, <1>13, <2>1 DEF Announces
  <2> QED BY <1>1, <1>2, <1>13, <2>1, <2>2, <2>3, <2>4 DEF Announces
<1>14. \A i, j \in 1..Len(p.todo) :
          IsChange(p.todo[i]) /\ IsChange(p.todo[j]) => i = j
  <2> SUFFICES ASSUME NEW i \in 1..Len(p.todo), NEW j \in 1..Len(p.todo),
                      IsChange(p.todo[i]), IsChange(p.todo[j])
               PROVE  i = j
    OBVIOUS
  <2>1. i + 1 = j + 1
    BY <1>1, <1>9 DEF Announces
  <2> QED BY <2>1
<1>15. p.op = "preauth" /\ p.pc \in {"append", "confirm"} =>
          IsChange(p.todo[Len(p.todo)])
  BY <1>1, <1>5, <1>6, <1>8 DEF Announces
<1>16. ASSUME NEW j \in 1..Len(p.todo), IsChange(p.todo[j]), p.pc = "append"
       PROVE  \A f \in events'[q.id] :
                 IsChange(f) => Stage[f.status] < Stage[p.todo[j].status]
  BY <1>3, <1>13, <1>16 DEF Past
<1>17. Announces(r)'
  BY <1>3, <1>4, <1>5, <1>6, <1>13, <1>14, <1>15, <1>16
  DEF Announces, Past, Confirming, Holding, Checking
<1>18. \A o \in RequestIds \ {r} :
          InFlight(o) /\ requests[o].id # NoId => requests[o].id # p.id
  BY <1>2, <1>5, OnlyOne DEF AnnounceInv
<1> QED BY <1>3, <1>5, <1>12, <1>17, <1>18, OthersAnnounce

LEMMA ConfirmAnnounce ==
    ASSUME AnnounceInv, DossierInv', NEW r \in RequestIds, ConfirmPreauth(r)
    PROVE  AnnounceInv'
<1> DEFINE q == requests[r]
           p == Onward(q, "append", q.todo)
           row == reservations[q.id]
<1>1. Shape(q) /\ Announces(r) /\ Agrees(q) /\ q.pc = "confirm"
  BY DEF AnnounceInv, DossierInv, TypeInv, ConfirmPreauth
<1>2. /\ q.id \in ReservationIds /\ row # NoRow /\ row \in Row /\ InFlight(r)
      /\ row.status = "EN_ATTENTE_PAIEMENT" /\ q.op = "preauth" /\ Len(q.todo) = 1
  BY <1>1
  DEF Shape, Agrees, Confirming, InFlight, Ended, AnnounceInv, DossierInv,
      TypeInv, TypeOK
<1>3. /\ requests' = [requests EXCEPT ![r] = p]
      /\ reservations'[q.id] = [row EXCEPT !.status = "CONFIRMEE"]
      /\ \A y \in ReservationIds \ {q.id} : reservations'[y] = reservations[y]
      /\ events' = events
  BY <1>2 DEF ConfirmPreauth, AnnounceInv, DossierInv, TypeInv, TypeOK
<1>4. requests'[r] = p
  BY <1>3 DEF AnnounceInv, DossierInv, TypeInv, TypeOK
<1>5. p.id = q.id /\ p.pc = "append" /\ p.op = q.op /\ p.todo = q.todo
  BY DEF Onward, Idle
<1> HIDE DEF p
<1>6. reservations'[q.id].status = "CONFIRMEE" /\ reservations'[q.id] # NoRow
  <2>1. [row EXCEPT !.status = "CONFIRMEE"] \in Row
    BY <1>2, StatusRow DEF Statuses
  <2> QED BY <1>2, <1>3, <2>1, NullAssumption DEF Row
<1>7. /\ "CONFIRMEE" \in Statuses /\ "EN_ATTENTE_PAIEMENT" \in Statuses
      /\ Stage["CONFIRMEE"] = 4 /\ Stage["EN_ATTENTE_PAIEMENT"] = 3
  BY DEF Stage, Statuses
<1>8. \A e \in events[q.id] : IsChange(e) =>
         e.status \in Statuses /\ Stage[e.status] \in Nat /\ Stage[e.status] <= 3
  BY <1>2, <1>7, StageType DEF AnnounceInv, ToldAt
<1>9. ToldNext(q.id)
  BY <1>2, <1>3, <1>6, <1>7, <1>8 DEF AnnounceInv, ToldAt, ToldNext
<1>10. Announces(r)'
  <2>1. /\ \A i, j \in 1..Len(q.todo) :
              IsChange(q.todo[i]) /\ IsChange(q.todo[j]) => i = j
        /\ \A i \in 1..Len(q.todo) :
              IsChange(q.todo[i]) => q.todo[i].status = "CONFIRMEE"
        /\ IsChange(q.todo[Len(q.todo)])
    BY <1>1, <1>2 DEF Announces, Confirming
  <2>2. \A e \in events'[q.id] : IsChange(e) => Stage[e.status] < Stage["CONFIRMEE"]
    BY <1>3, <1>7, <1>8
  <2>3. Stage["CONFIRMEE"] <= Stage[reservations'[q.id].status]
    BY <1>6, <1>7
  <2> QED BY <1>4, <1>5, <1>7, <2>1, <2>2, <2>3
          DEF Announces, Past, Holding, Checking
<1>11. \A o \in RequestIds \ {r} :
          InFlight(o) /\ requests[o].id # NoId => requests[o].id # p.id
  BY <1>2, <1>5, OnlyOne DEF AnnounceInv
<1> QED BY <1>3, <1>5, <1>9, <1>10, <1>11, OthersAnnounce

LEMMA DeleteAnnounce ==
    ASSUME AnnounceInv, DossierInv', NEW r \in RequestIds, Delete(r)
    PROVE  AnnounceInv'
<1> DEFINE q == requests[r]
           p == Onward(q, "done", <<>>)
<1>1. q.id \in ReservationIds /\ InFlight(r)
  BY DEF Delete, AnnounceInv, DossierInv, TypeInv, Shape, InFlight, Ended
<1>2. /\ requests' = [requests EXCEPT ![r] = p]
      /\ reservations'[q.id] = NoRow /\ events'[q.id] = {}
      /\ \A y \in ReservationIds \ {q.id} :
            reservations'[y] = reservations[y] /\ events'[y] = events[y]
  BY <1>1 DEF Delete, AnnounceInv, DossierInv, TypeInv, TypeOK
<1>3. requests'[r] = p
  BY <1>2 DEF AnnounceInv, DossierInv, TypeInv, TypeOK
<1>4. p.id = q.id /\ p.pc = "done" /\ p.todo = <<>> /\ 1..Len(<<>>) = {}
  BY DEF Onward, Idle
<1> HIDE DEF p
<1>5. Announces(r)'
  BY <1>3, <1>4 DEF Announces, Holding, Checking
<1>6. ToldNext(q.id)
  BY <1>2 DEF ToldNext
<1>7. \A o \in RequestIds \ {r} :
         InFlight(o) /\ requests[o].id # NoId => requests[o].id # p.id
  BY <1>1, <1>4, OnlyOne DEF AnnounceInv
<1> QED BY <1>2, <1>4, <1>5, <1>6, <1>7, OthersAnnounce
LEMMA StepAnnounce ==
    ASSUME AnnounceInv, DossierInv', NEW r \in RequestIds, Step(r)
    PROVE  AnnounceInv'
<1>1. CASE CheckVehicle(r)
  BY <1>1, GotoAnnounce DEF CheckVehicle, InFlight, Checking, PcValues, Ended
<1>2. CASE CheckSlots(r)
  BY <1>2, GotoAnnounce DEF CheckSlots, InFlight, Checking, PcValues, Ended
<1>3. CASE CountBlocking(r)
  BY <1>3, GotoAnnounce
  DEF CountBlocking, InFlight, AfterChecks, Checking, PcValues, Ended
<1>4. CASE CheckOverlap(r)
  BY <1>4, GotoAnnounce
  DEF CheckOverlap, InFlight, AfterChecks, Checking, PcValues, Ended
<1>5. CASE Fail(r)
  BY <1>5, GotoAnnounce DEF Fail, PcValues, Ended
<1>6. CASE Reinsert(r)
  BY <1>6 DEF Reinsert, AnnounceInv, DossierInv, Agrees
<1> QED BY <1>1, <1>2, <1>3, <1>4, <1>5, <1>6, InsertAnnounce, SaveSelectAnnounce,
           SaveUpdateAnnounce, AppendAnnounce, ConfirmAnnounce, DeleteAnnounce
        DEF Step

LEMMA FleetAnnounce ==
    ASSUME AnnounceInv, DossierInv', Fleet
    PROVE  AnnounceInv'
<1>1. /\ UNCHANGED <<events, requests>>
      /\ \A x \in ReservationIds :
            /\ reservations'[x] = NoRow <=> reservations[x] = NoRow
            /\ reservations[x] # NoRow =>
                  reservations'[x].status = reservations[x].status
  BY FleetKeepsRows DEF AnnounceInv, DossierInv
<1>2. ASSUME NEW x \in ReservationIds PROVE ToldAt(x)'
  <2>1. CASE reservations[x] = NoRow
    BY <1>1, <2>1 DEF AnnounceInv, ToldAt
  <2>2. CASE reservations[x] # NoRow
    BY <1>1, <2>2 DEF AnnounceInv, ToldAt
  <2> QED BY <2>1, <2>2
<1>3. ASSUME NEW r \in RequestIds PROVE Announces(r)'
  <2> DEFINE q == requests[r]
  <2>1. Announces(r) /\ Agrees(q) /\ Shape(q)
    BY DEF AnnounceInv, DossierInv, TypeInv
  <2>2. q.pc \in {"append", "save", "select"} \/ (q.pc \in Checking /\ q.op # "create")
           => q.id \in ReservationIds
    BY <2>1 DEF Shape
  <2>3. q.pc = "save" \/ (q.pc \in Holding /\ q.op # "create")
           => q.id \in ReservationIds /\ reservations[q.id] # NoRow
    BY <2>1, <2>2 DEF Agrees, Follows, Holding, Checking
  <2> QED BY <1>1, <2>1, <2>2, <2>3 DEF Announces, Past, Confirming
<1> QED BY <1>2, <1>3 DEF AnnounceInv

LEMMA NextAnnounce ==
    ASSUME Isolation # "none"
    PROVE  AnnounceInv /\ [Next]_vars => AnnounceInv'
<1> SUFFICES ASSUME AnnounceInv, [Next]_vars PROVE AnnounceInv'
  OBVIOUS
<1>1. DossierInv'
  BY NextDossierInv DEF AnnounceInv
<1>2. ASSUME NEW r \in RequestIds, Start(r) PROVE AnnounceInv'
  BY <1>1, <1>2, StartAnnounce
<1>3. ASSUME NEW r \in RequestIds, Step(r) PROVE AnnounceInv'
  BY <1>1, <1>3, StepAnnounce
<1>4. CASE Fleet
  BY <1>1, <1>4, FleetAnnounce
<1>5. CASE UNCHANGED vars
  BY <1>1, <1>5 DEF vars, AnnounceInv, ToldAt, Announces, Past, Confirming
<1> QED BY <1>2, <1>3, <1>4, <1>5 DEF Next, Quiet

(***************************************************************************)
(* With one request at a time per reservation, the timeline of a           *)
(* reservation never announces a status twice, over any number of          *)
(* reservations and requests, with failures and removals at any await.     *)
(***************************************************************************)
THEOREM StatusesAnnouncedOnce ==
    ASSUME Isolation # "none"
    PROVE  Spec => []StatusAnnouncedOnce
<1>1. Init => AnnounceInv
  BY InitAnnounce
<1>2. AnnounceInv /\ [Next]_vars => AnnounceInv'
  BY NextAnnounce
<1>3. AnnounceInv => StatusAnnouncedOnce
  BY DEF AnnounceInv, ToldAt, IsChange, StatusAnnouncedOnce
<1> QED BY <1>1, <1>2, <1>3, PTL DEF Spec
-----------------------------------------------------------------------------
(***************************************************************************)
(* One preauthorisation.  As long as no handler fails, a reservation whose *)
(* deposit is preauthorised is confirmed, or the handler that              *)
(* preauthorised it is about to confirm it and no other handler is about   *)
(* this reservation; and createStripePreauth only starts before that       *)
(* stage.                                                                  *)
(***************************************************************************)
NoneFailed == \A r \in RequestIds : requests[r].pc # "failed"

\* A preauthorisation recorded by createStripePreauth; updateStatus and
\* createEvent append events of the same type.
Stripe(e) ==
    /\ e.type = "reservation_stripe_preauth_created"
    /\ e.by # NoRequest
    /\ requests[e.by].op = "preauth"

\* The events of a request are its own.
Signed ==
    /\ \A r \in RequestIds : \A i \in 1..Len(requests[r].todo) :
          requests[r].todo[i].by = r
    /\ \A x \in ReservationIds : \A e \in events[x] :
          e.by # NoRequest => requests[e.by].pc # "idle"

Charged ==
    NoneFailed =>
       \A x \in ReservationIds : \A e \in events[x] : Stripe(e) =>
          \/ Stage[reservations[x].status] >= Stage["CONFIRMEE"]
          \/ requests[e.by].pc = "confirm" /\ requests[e.by].id = x

ChargeInv == AnnounceInv /\ Signed /\ Charged /\ SinglePreauth

\* What a step of request r does to the requests and the timelines.
Effect(r) ==
    /\ \A o \in RequestIds \ {r} : requests'[o] = requests[o]
    /\ requests[r].pc \notin Ended
    /\ requests'[r].pc # "idle"
    /\ requests[r].pc # "idle" => requests'[r].op = requests[r].op
    /\ \A i \in 1..Len(requests'[r].todo) : requests'[r].todo[i].by = r
    /\ \A x \in ReservationIds : \A e \in events'[x] :
          \/ e \in events[x]
          \/ AppendEvent(r) /\ x = requests[r].id /\ e = Head(requests[r].todo)
    /\ requests[r].pc = "confirm" /\ requests'[r].pc # "failed" => ConfirmPreauth(r)

LEMMA InitCharge == Init => ChargeInv
<1> SUFFICES ASSUME Init PROVE ChargeInv
  OBVIOUS
<1>1. \A x \in ReservationIds : \A e \in events[x] : e.by = NoRequest
  BY DEF Init, Ev
<1>2. \A r \in RequestIds : 1..Len(requests[r].todo) = {}
  <2>1. 1..Len(<<>>) = {}
    OBVIOUS
  <2> QED BY <2>1 DEF Init, Idle
<1> QED BY <1>1, <1>2, InitAnnounce
        DEF ChargeInv, Signed, Charged, Stripe, SinglePreauth

LEMMA LoadedEffect ==
    ASSUME TypeInv, NEW r \in RequestIds, NEW x, NEW op, NEW pc, NEW v, NEW want,
           NEW todo, Loaded(r, x, op, pc, v, want, todo), pc # "idle",
           \A i \in 1..Len(todo) : todo[i].by = r
    PROVE  Effect(r)
<1> DEFINE p == [Idle EXCEPT !.pc = pc, !.op = op, !.id = x, !.vehicle = v,
                             !.want = want, !.todo = todo,
                             !.seen = IF want = NoRow THEN {} ELSE events[x]]
<1>1. requests' = [requests EXCEPT ![r] = p]
  BY DEF Loaded
<1>2. requests'[r] = p /\ \A o \in RequestIds \ {r} : requests'[o] = requests[o]
  BY <1>1 DEF TypeInv, TypeOK
<1>3. p.pc = pc /\ p.todo = todo
  BY DEF Idle
<1>4. requests[r].pc = "idle" /\ events' = events
  BY DEF Loaded, MayStart
<1> HIDE DEF p
<1> QED BY <1>2, <1>3, <1>4 DEF Effect, Ended

LEMMA StartEffect ==
    ASSUME TypeInv, NEW r \in RequestIds, Start(r)
    PROVE  Effect(r)
<1>a. ASSUME NEW type, NEW s
      PROVE  \A i \in 1..Len(<<Ev(r, type, s)>>) : <<Ev(r, type, s)>>[i].by = r
  BY DEF Ev
<1>b. ASSUME NEW type, NEW s, NEW e, e.by = r
      PROVE  \A i \in 1..Len(<<Ev(r, type, s), e>>) : <<Ev(r, type, s), e>>[i].by = r
  BY <1>b DEF Ev
<1>c. ASSUME NEW type, NEW s PROVE Ev(r, type, s).by = r
  BY DEF Ev
<1>d. ASSUME NEW body PROVE Note(r, body).by = r
  BY DEF Note
<1>1. ASSUME NEW v \in VehicleIds \cup {NoVehicle}, NEW s \in Times,
             NEW e \in Times, Create(r, v, s, e)
      PROVE  Effect(r)
  <2> DEFINE todo == <<Created(r), Ev(r, "reservation_ack_email_sent", NoStatus),
                       Ev(r, "reservation_admin_notified", NoStatus)>>
             p == [Idle EXCEPT !.pc = IF v = NoVehicle THEN "insert" ELSE "vehicle",
                               !.op = "create", !.vehicle = v,
                               !.want = NewRow(v, s, e), !.todo = todo]
  <2>1. requests' = [requests EXCEPT ![r] = p]
    BY <1>1 DEF Create, Created
  <2>2. requests'[r] = p /\ \A o \in RequestIds \ {r} : requests'[o] = requests[o]
    BY <2>1 DEF TypeInv, TypeOK
  <2>3. p.pc \in {"insert", "vehicle"} /\ p.todo = todo
    BY DEF Idle
  <2>4. requests[r].pc = "idle" /\ events' = events
    BY <1>1 DEF Create, MayStart
  <2>5. \A i \in 1..Len(todo) : todo[i].by = r
    BY DEF Created, Ev
  <2> HIDE DEF p, todo
  <2> QED BY <2>2, <2>3, <2>4, <2>5 DEF Effect, Ended
<1>2. ASSUME NEW x \in ReservationIds, NEW dto \in Updates, LoadUpdate(r, x, dto)
      PROVE  Effect(r)
  <2> DEFINE row == reservations[x]
             next == OrElse(dto.vehicle, row.vehicle)
             want == [row EXCEPT !.vehicle = IF row.vehicle # NoVehicle
                                             THEN row.vehicle ELSE next,
                                 !.start = OrElse(dto.start, row.start),
                                 !.end = OrElse(dto.end, row.end)]
             pc == CASE dto.vehicle # Unset -> "vehicle"
                     [] dto.vehicle = Unset /\ next # NoVehicle -> "slots"
                     [] OTHER -> "select"
  <2>1. pc # "idle"
    OBVIOUS
  <2>2. Loaded(r, x, "update", pc, next, want,
               <<Ev(r, "reservation_updated", NoStatus)>>)
    BY <1>2 DEF LoadUpdate
  <2> HIDE DEF want, pc, next
  <2> QED BY <1>a, <2>1, <2>2, LoadedEffect
<1>3. ASSUME NEW x \in ReservationIds, NEW status \in Statuses,
             LoadUpdateStatus(r, x, status)
      PROVE  Effect(r)
  <2> DEFINE want == [reservations[x] EXCEPT !.status = status]
             todo == <<Ev(r, "reservation_status_changed", status),
                       Ev(r, STATUS_EVENT_MAP[status], status)>>
  <2>1. \A i \in 1..Len(todo) : todo[i].by = r
    BY <1>b, <1>c
  <2>2. Loaded(r, x, "updateStatus", "select", NoVehicle, want, todo)
    BY <1>3 DEF LoadUpdateStatus
  <2> HIDE DEF want, todo
  <2> QED BY <2>1, <2>2, LoadedEffect
<1>4. ASSUME NEW x \in ReservationIds, LoadPreauth(r, x)
      PROVE  Effect(r)
  <2> DEFINE todo == <<Ev(r, "reservation_stripe_preauth_created", NoStatus),
                       Ev(r, "reservation_status_changed", "CONFIRMEE")>>
  <2>1. \A i \in 1..Len(todo) : todo[i].by = r
    BY <1>b, <1>c
  <2>2. Loaded(r, x, "preauth", "append", NoVehicle, NoRow, todo)
    BY <1>4 DEF LoadPreauth
  <2> HIDE DEF todo
  <2> QED BY <2>1, <2>2, LoadedEffect
<1>5. ASSUME NEW x \in ReservationIds, NEW body \in EventBodies,
             LoadStatusEvent(r, x, body)
      PROVE  Effect(r)
  <2> DEFINE want == [reservations[x] EXCEPT !.status = EventTo[body.type]]
             todo == <<Ev(r, "reservation_status_changed", EventTo[body.type]),
                       Note(r, body)>>
  <2>1. \A i \in 1..Len(todo) : todo[i].by = r
    BY <1>b, <1>d
  <2>2. Loaded(r, x, "event", "select", NoVehicle, want, todo)
    BY <1>5 DEF LoadStatusEvent
  <2> HIDE DEF want, todo
  <2> QED BY <2>1, <2>2, LoadedEffect
<1>6. ASSUME NEW x \in ReservationIds, NEW body \in EventBodies,
             LoadNote(r, x, body)
      PROVE  Effect(r)
  <2> DEFINE todo == <<Note(r, body)>>
  <2>1. \A i \in 1..Len(todo) : todo[i].by = r
    BY <1>d
  <2>2. Loaded(r, x, "event", "append", NoVehicle, NoRow, todo)
    BY <1>6 DEF LoadNote
  <2> HIDE DEF todo
  <2> QED BY <2>1, <2>2, LoadedEffect
<1>7. ASSUME NEW x \in ReservationIds, LoadRemove(r, x)
      PROVE  Effect(r)
  <2>1. 1..Len(<<>>) = {}
    OBVIOUS
  <2> QED BY <1>7, <2>1, LoadedEffect DEF LoadRemove
<1> QED BY <1>1, <1>2, <1>3, <1>4, <1>5, <1>6, <1>7 DEF Start

\* A request that goes on, when its timeline is not touched.
LEMMA QuietEffect ==
    ASSUME TypeInv, Signed, NEW r \in RequestIds, InFlight(r), NEW p,
           requests' = [requests EXCEPT ![r] = p], p.pc # "idle",
           p.op = requests[r].op, p.todo \in {requests[r].todo, <<>>},
           \A x \in ReservationIds : events'[x] \subseteq events[x],
           requests[r].pc = "confirm" /\ p.pc # "failed" => ConfirmPreauth(r)
    PROVE  Effect(r)
<1>1. requests'[r] = p /\ \A o \in RequestIds \ {r} : requests'[o] = requests[o]
  BY DEF TypeInv, TypeOK
<1>2. 1..Len(<<>>) = {}
  OBVIOUS
<1>3. \A i \in 1..Len(p.todo) : p.todo[i].by = r
  BY <1>2 DEF Signed
<1> QED BY <1>1, <1>3 DEF Effect, InFlight, Ended

LEMMA StepEffect ==
    ASSUME AnnounceInv, Signed, NEW r \in RequestIds, Step(r)
    PROVE  Effect(r)
<1> DEFINE q == requests[r]
<1>0. /\ TypeInv /\ Shape(q) /\ q \in Request /\ Agrees(q) /\ Announces(r)
  BY DEF AnnounceInv, DossierInv, TypeInv, Shape
<1>1. ASSUME NEW pc, Goto(r, pc), InFlight(r), pc # "idle",
             q.pc = "confirm" => pc = "failed"
      PROVE  Effect(r)
  <2> DEFINE p == IF pc \in Ended THEN Onward(q, pc, <<>>) ELSE [q EXCEPT !.pc = pc]
  <2>1. requests' = [requests EXCEPT ![r] = p] /\ events' = events
    BY <1>1 DEF Goto
  <2>2. p.pc = pc /\ p.op = q.op /\ p.todo \in {q.todo, <<>>}
    BY <1>0 DEF Onward, Idle, Request
  <2> HIDE DEF p
  <2> QED BY <1>0, <1>1, <2>1, <2>2, QuietEffect
<1>2. CASE CheckVehicle(r)
  BY <1>1, <1>2 DEF CheckVehicle, InFlight, Ended
<1>3. CASE CheckSlots(r)
  BY <1>1, <1>3 DEF CheckSlots, InFlight, Ended
<1>4. CASE CountBlocking(r)
  BY <1>1, <1>4 DEF CountBlocking, AfterChecks, InFlight, Ended
<1>5. CASE CheckOverlap(r)
  BY <1>1, <1>5 DEF CheckOverlap, AfterChecks, InFlight, Ended
<1>6. CASE Fail(r)
  BY <1>1, <1>6 DEF Fail
<1>7. ASSUME NEW x \in ReservationIds, Insert(r, x)
      PROVE  Effect(r)
  <2> DEFINE p == [Onward(q, "append", q.todo) EXCEPT !.id = x]
  <2>1. /\ requests' = [requests EXCEPT ![r] = p] /\ events' = events
        /\ q.pc = "insert"
    BY <1>7 DEF Insert
  <2>2. p.pc = "append" /\ p.op = q.op /\ p.todo = q.todo
    BY DEF Onward, Idle
  <2> HIDE DEF p
  <2> QED BY <1>0, <2>1, <2>2, QuietEffect DEF InFlight, Ended
<1>8. CASE SaveSelect(r)
  <2> DEFINE p == IF reservations[q.id] = NoRow THEN [q EXCEPT !.pc = "reinsert"]
                  ELSE [q EXCEPT !.pc = "save",
                                 !.diff = {c \in Columns :
                                             q.want[c] # reservations[q.id][c]},
                                 !.found = events[q.id]]
  <2>1. /\ requests' = [requests EXCEPT ![r] = p] /\ events' = events
        /\ q.pc = "select"
    BY <1>8 DEF SaveSelect
  <2>2. p.pc \in {"reinsert", "save"} /\ p.op = q.op /\ p.todo = q.todo
    BY <1>0 DEF Request
  <2> HIDE DEF p
  <2> QED BY <1>0, <2>1, <2>2, QuietEffect DEF InFlight, Ended
<1>9. CASE SaveUpdate(r)
  <2> DEFINE p == Onward(q, "append", q.todo)
  <2>1. requests' = [requests EXCEPT ![r] = p] /\ q.pc = "save"
    BY <1>9 DEF SaveUpdate
  <2>2. q.id \in ReservationIds /\ q.seen \subseteq events[q.id]
    BY <1>0, <2>1 DEF Shape, Agrees, Announces, Holding
  <2>3. \A x \in ReservationIds : events'[x] \subseteq events[x]
    BY <1>0, <1>9, <2>2 DEF SaveUpdate, TypeInv, TypeOK
  <2>4. p.pc = "append" /\ p.op = q.op /\ p.todo = q.todo
    BY DEF Onward, Idle
  <2> HIDE DEF p
  <2> QED BY <1>0, <2>1, <2>3, <2>4, QuietEffect DEF InFlight, Ended
<1>10. CASE Reinsert(r)
  BY <1>0, <1>10 DEF Reinsert, Agrees
<1>11. CASE AppendEvent(r)
  <2> DEFINE pc == CASE Len(q.todo) = 1 -> "done"
                     [] Len(q.todo) # 1 /\ q.op = "preauth" -> "confirm"
                     [] OTHER -> "append"
             p == Onward(q, pc, Tail(q.todo))
  <2>1. requests' = [requests EXCEPT ![r] = p] /\ q.pc = "append"
    BY <1>11 DEF AppendEvent
  <2>2. requests'[r] = p /\ \A o \in RequestIds \ {r} : requests'[o] = requests[o]
    BY <1>0, <2>1 DEF TypeInv, TypeOK
  <2>3. p.pc # "idle" /\ p.op = q.op /\ p.todo = Tail(q.todo)
    BY DEF Onward, Idle
  <2>4. q.todo \in Seq(Event) /\ q.todo # <<>>
    BY <1>0, <2>1 DEF Shape, Request
  <2> HIDE DEF p, pc
  <2>5. \A i \in 1..Len(p.todo) : p.todo[i].by = r
    BY <2>3, <2>4, TailInside DEF Signed
  <2>6. ASSUME NEW x \in ReservationIds, NEW e \in events'[x]
        PROVE  e \in events[x] \/ (x = q.id /\ e = Head(q.todo))
    <3>1. q.id \in ReservationIds
      BY <1>0, <2>1 DEF Shape
    <3>2. /\ events' = [events EXCEPT ![q.id] = events[q.id] \cup {Head(q.todo)}]
          /\ DOMAIN events = ReservationIds
      BY <1>0, <1>11 DEF AppendEvent, TypeInv, TypeOK
    <3>3. CASE x = q.id
      BY <2>6, <3>1, <3>2, <3>3
    <3>4. CASE x # q.id
      BY <2>6, <3>1, <3>2, <3>4
    <3> QED BY <3>3, <3>4
  <2> QED BY <1>11, <2>1, <2>2, <2>3, <2>5, <2>6 DEF Effect, Ended
<1>12. CASE ConfirmPreauth(r)
  <2> DEFINE p == Onward(q, "append", q.todo)
  <2>1. /\ requests' = [requests EXCEPT ![r] = p] /\ events' = events
        /\ q.pc = "confirm"
    BY <1>12 DEF ConfirmPreauth
  <2>2. p.pc = "append" /\ p.op = q.op /\ p.todo = q.todo
    BY DEF Onward, Idle
  <2> HIDE DEF p
  <2> QED BY <1>0, <1>12, <2>1, <2>2, QuietEffect DEF InFlight, Ended
<1>13. CASE Delete(r)
  <2> DEFINE p == Onward(q, "done", <<>>)
  <2>1. /\ requests' = [requests EXCEPT ![r] = p] /\ q.pc = "delete"
        /\ \A x \in ReservationIds : events'[x] \subseteq events[x]
    BY <1>0, <1>13 DEF Delete, TypeInv, TypeOK
  <2>2. p.pc = "done" /\ p.op = q.op /\ p.todo = <<>>
    BY DEF Onward, Idle
  <2> HIDE DEF p
  <2> QED BY <1>0, <2>1, <2>2, QuietEffect DEF InFlight, Ended
<1> QED BY <1>2, <1>3, <1>4, <1>5, <1>6, <1>7, <1>8, <1>9, <1>10, <1>11, <1>12,
           <1>13 DEF Step

LEMMA EffectSigned ==
    ASSUME TypeInv, TypeInv', Signed, NEW r \in RequestIds, Effect(r)
    PROVE  Signed'
<1>1. ASSUME NEW o \in RequestIds, NEW i \in 1..Len(requests'[o].todo)
      PROVE  requests'[o].todo[i].by = o
  BY DEF Effect, Signed
<1>2. ASSUME NEW x \in ReservationIds, NEW e \in events'[x], e.by # NoRequest
      PROVE  requests'[e.by].pc # "idle"
  <2>1. e.by \in RequestIds
    BY <1>2 DEF TypeInv, TypeOK, Event
  <2>2. CASE e.by = r
    BY <2>2 DEF Effect
  <2>3. CASE e.by # r
    <3>1. CASE e \in events[x]
      BY <1>2, <2>1, <2>3, <3>1 DEF Effect, Signed
    <3>2. CASE AppendEvent(r) /\ e = Head(requests[r].todo)
      <4>1. /\ requests[r].todo \in Seq(Event) /\ requests[r].todo # <<>>
        BY <3>2 DEF AppendEvent, TypeInv, Shape, Request
      <4>2. Len(requests[r].todo) \in Nat /\ Len(requests[r].todo) # 0
        BY <4>1
      <4>3. 1 \in 1..Len(requests[r].todo) /\ e = requests[r].todo[1]
        BY <3>2, <4>2
      <4>4. e.by = r
        BY <4>3 DEF Signed
      <4> QED BY <2>3, <4>4
    <3> QED BY <1>2, <3>1, <3>2 DEF Effect
  <2> QED BY <2>2, <2>3
<1> QED BY <1>1, <1>2 DEF Signed

\* An event of a step: it was there, or the step is its INSERT.
LEMMA EffectEvent ==
    ASSUME TypeInv, Signed, NEW r \in RequestIds, Effect(r),
           NEW x \in ReservationIds, NEW e \in events'[x], Stripe(e)'
    PROVE  \/ e \in events[x] /\ Stripe(e)
           \/ /\ AppendEvent(r) /\ x = requests[r].id
              /\ e = Head(requests[r].todo) /\ e.by = r
              /\ requests[r].op = "preauth"
<1>1. /\ e.type = "reservation_stripe_preauth_created" /\ e.by # NoRequest
      /\ requests'[e.by].op = "preauth"
  BY DEF Stripe
<1>2. CASE e \in events[x]
  <2>1. e.by \in RequestIds /\ requests[e.by].pc # "idle"
    BY <1>1, <1>2 DEF TypeInv, TypeOK, Event, Signed
  <2>2. requests[e.by].op = requests'[e.by].op
    BY <2>1 DEF Effect
  <2> QED BY <1>1, <1>2, <2>2 DEF Stripe
<1>3. CASE AppendEvent(r) /\ x = requests[r].id /\ e = Head(requests[r].todo)
  <2>1. /\ requests[r].todo \in Seq(Event) /\ requests[r].todo # <<>>
        /\ requests[r].pc = "append"
    BY <1>3 DEF AppendEvent, TypeInv, Shape, Request
  <2>2. Len(requests[r].todo) \in Nat /\ Len(requests[r].todo) # 0
    BY <2>1
  <2>3. 1 \in 1..Len(requests[r].todo) /\ e = requests[r].todo[1]
    BY <1>3, <2>2
  <2>4. e.by = r
    BY <2>3 DEF Signed
  <2>5. requests[r].op = "preauth"
    BY <1>1, <2>1, <2>4 DEF Effect
  <2> QED BY <1>3, <2>4, <2>5
<1> QED BY <1>2, <1>3 DEF Effect

(***************************************************************************)
(* Stripe's answer is recorded by a request that is still to confirm: it   *)
(* is the first event of the handler, not the announcement that ends it.   *)
(***************************************************************************)
LEMMA FirstEventConfirms ==
    ASSUME AnnounceInv, NEW r \in RequestIds, AppendEvent(r),
           requests[r].op = "preauth",
           Head(requests[r].todo).type = "reservation_stripe_preauth_created"
    PROVE  /\ requests[r].id \in ReservationIds
           /\ reservations[requests[r].id].status = "EN_ATTENTE_PAIEMENT"
           /\ requests'[r].pc = "confirm" /\ requests'[r].id = requests[r].id
<1> DEFINE q == requests[r]
<1>1. /\ q.pc = "append" /\ Shape(q) /\ Agrees(q) /\ Announces(r)
      /\ q \in Request
  BY DEF AppendEvent, AnnounceInv, DossierInv, TypeInv, Shape
<1>2. Len(q.todo) \in {1, 2} /\ q.id \in ReservationIds
  BY <1>1 DEF Agrees, Shape
<1>3. q.todo \in Seq(Event)
  BY <1>1 DEF Request
<1>4. Head(q.todo) = q.todo[1]
  BY <1>2, <1>3
<1>5. Len(q.todo) = 2
  BY <1>1, <1>2, <1>4 DEF Announces, IsChange
<1>6. reservations[q.id].status = "EN_ATTENTE_PAIEMENT"
  BY <1>1, <1>5 DEF Agrees, Confirming
<1> DEFINE p == Onward(q, "confirm", Tail(q.todo))
<1>7. requests' = [requests EXCEPT ![r] = p]
  BY <1>5 DEF AppendEvent
<1>8. requests'[r] = p /\ p.pc = "confirm" /\ p.id = q.id
  BY <1>7 DEF Onward, Idle, AnnounceInv, DossierInv, TypeInv, TypeOK
<1> QED BY <1>2, <1>6, <1>8

\* A reservation with events is still there after the step, no stage back.
LEMMA StageKept ==
    ASSUME AnnounceInv, AnnounceInv', LifecycleStep, NEW x \in ReservationIds,
           events[x] # {}, events'[x] # {}
    PROVE  /\ Stage[reservations[x].status] \in Nat
           /\ Stage[reservations'[x].status] \in Nat
           /\ Stage[reservations[x].status] <= Stage[reservations'[x].status]
<1>1. reservations[x] # NoRow /\ reservations'[x] # NoRow
  BY DEF AnnounceInv, ToldAt
<1>2. reservations[x] \in Row /\ reservations'[x] \in Row
  BY <1>1 DEF AnnounceInv, DossierInv, TypeInv, TypeOK
<1>3. reservations[x].status \in Statuses /\ reservations'[x].status \in Statuses
  BY <1>2 DEF Row
<1>4. \/ reservations'[x].status = reservations[x].status
      \/ reservations'[x].status \in ALLOWED_TRANSITIONS[reservations[x].status]
  BY <1>1 DEF LifecycleStep
<1> QED BY <1>3, <1>4, StageType, StagesGrow

LEMMA EffectCharge ==
    ASSUME ChargeInv, AnnounceInv', LifecycleStep, NEW r \in RequestIds, Effect(r)
    PROVE  ChargeInv'
<1>0. /\ AnnounceInv /\ TypeInv /\ TypeInv' /\ Signed /\ Charged /\ SinglePreauth
      /\ Stage["CONFIRMEE"] = 4 /\ Stage["EN_ATTENTE_PAIEMENT"] = 3
  BY DEF ChargeInv, AnnounceInv, DossierInv, Stage, Statuses
<1>1. Signed'
  BY <1>0, EffectSigned
<1>2. ASSUME NoneFailed' PROVE NoneFailed
  BY <1>2 DEF NoneFailed, Effect, Ended
<1>3. ASSUME NoneFailed', NEW x \in ReservationIds, NEW e \in events'[x], Stripe(e)',
             e \in events[x], Stripe(e)
      PROVE  \/ Stage[reservations'[x].status] >= 4
             \/ requests'[e.by].pc = "confirm" /\ requests'[e.by].id = x
  <2>1. /\ Stage[reservations[x].status] \in Nat
        /\ Stage[reservations'[x].status] \in Nat
        /\ Stage[reservations[x].status] <= Stage[reservations'[x].status]
    BY <1>0, <1>3, StageKept
  <2>2. CASE Stage[reservations[x].status] >= 4
    BY <2>1, <2>2
  <2>3. CASE requests[e.by].pc = "confirm" /\ requests[e.by].id = x
    <3>1. e.by \in RequestIds
      BY <1>0, <1>3 DEF TypeInv, TypeOK, Event, Stripe
    <3>2. CASE e.by # r
      BY <2>3, <3>1, <3>2 DEF Effect
    <3>3. CASE e.by = r
      <4>1. ConfirmPreauth(r)
        BY <1>3, <2>3, <3>3 DEF Effect, NoneFailed
      <4>2. reservations[x] # NoRow /\ reservations[x] \in Row
        BY <1>0, <1>3 DEF AnnounceInv, ToldAt, TypeInv, TypeOK
      <4>3. reservations' = [reservations EXCEPT ![x] =
                               [reservations[x] EXCEPT !.status = "CONFIRMEE"]]
        BY <2>3, <3>3, <4>1, <4>2 DEF ConfirmPreauth
      <4>4. reservations'[x].status = "CONFIRMEE"
        BY <1>0, <4>2, <4>3 DEF TypeInv, TypeOK, Row
      <4> QED BY <1>0, <4>4
    <3> QED BY <3>2, <3>3
  <2>4. \/ Stage[reservations[x].status] >= 4
        \/ requests[e.by].pc = "confirm" /\ requests[e.by].id = x
    BY <1>0, <1>2, <1>3 DEF Charged
  <2> QED BY <2>2, <2>3, <2>4
<1>4. ASSUME NoneFailed', NEW x \in ReservationIds, NEW e \in events'[x], Stripe(e)',
             AppendEvent(r), x = requests[r].id, e = Head(requests[r].todo),
             e.by = r, requests[r].op = "preauth"
      PROVE  /\ reservations[x].status = "EN_ATTENTE_PAIEMENT"
             /\ requests'[r].pc = "confirm" /\ requests'[r].id = x
  BY <1>0, <1>4, FirstEventConfirms DEF Stripe
<1>5. Charged'
  <2> SUFFICES ASSUME NoneFailed', NEW x \in ReservationIds, NEW e \in events'[x],
                      Stripe(e)'
               PROVE  \/ Stage[reservations'[x].status] >= 4
                      \/ requests'[e.by].pc = "confirm" /\ requests'[e.by].id = x
    BY <1>0 DEF Charged
  <2>1. CASE e \in events[x] /\ Stripe(e)
    BY <1>3, <2>1
  <2>2. CASE /\ AppendEvent(r) /\ x = requests[r].id
             /\ e = Head(requests[r].todo) /\ e.by = r
             /\ requests[r].op = "preauth"
    BY <1>4, <2>2
  <2> QED BY <1>0, <2>1, <2>2, EffectEvent
\* A preauthorisation recorded now is the first one.
<1>6. ASSUME NoneFailed', NEW x \in ReservationIds,
             NEW e \in events'[x], Stripe(e)', NEW f \in events[x], Stripe(f),
             AppendEvent(r), x = requests[r].id, e = Head(requests[r].todo),
             e.by = r, requests[r].op = "preauth"
      PROVE  FALSE
  <2>1. reservations[x].status = "EN_ATTENTE_PAIEMENT"
    BY <1>4, <1>6
  <2>2. requests[f.by].pc = "confirm" /\ requests[f.by].id = x
    BY <1>0, <1>2, <1>6, <2>1 DEF Charged
  <2>3. f.by \in RequestIds
    BY <1>0, <1>6 DEF TypeInv, TypeOK, Event, Stripe
  <2>4. requests[r].pc = "append"
    BY <1>6 DEF AppendEvent
  <2>5. InFlight(r) /\ InFlight(f.by) /\ f.by # r
    BY <2>2, <2>4 DEF InFlight, Ended
  <2> QED BY <1>0, <1>6, <2>2, <2>3, <2>5, NullAssumption
          DEF AnnounceInv, DossierInv, Alone
<1>7. SinglePreauth'
  <2> SUFFICES ASSUME NoneFailed', NEW x \in ReservationIds,
                      NEW e \in events'[x], NEW f \in events'[x],
                      Stripe(e)', Stripe(f)'
               PROVE  e = f
    BY DEF SinglePreauth, NoneFailed, Stripe
  <2> DEFINE Now(ev) == /\ AppendEvent(r) /\ x = requests[r].id
                        /\ ev = Head(requests[r].todo) /\ ev.by = r
                        /\ requests[r].op = "preauth"
  <2>1. (e \in events[x] /\ Stripe(e)) \/ Now(e)
    BY <1>0, EffectEvent
  <2>2. (f \in events[x] /\ Stripe(f)) \/ Now(f)
    BY <1>0, EffectEvent
  <2>3. CASE e \in events[x] /\ Stripe(e) /\ f \in events[x] /\ Stripe(f)
    BY <1>0, <1>2, <2>3 DEF SinglePreauth, NoneFailed, Stripe
  <2>4. CASE Now(e) /\ f \in events[x] /\ Stripe(f)
    BY <1>6, <2>4
  <2>5. CASE Now(f) /\ e \in events[x] /\ Stripe(e)
    BY <1>6, <2>5
  <2>6. CASE Now(e) /\ Now(f)
    BY <2>6
  <2> QED BY <2>1, <2>2, <2>3, <2>4, <2>5, <2>6
<1> QED BY <1>1, <1>5, <1>7 DEF ChargeInv

LEMMA NextCharge ==
    ASSUME Isolation # "none"
    PROVE  ChargeInv /\ [Next]_vars => ChargeInv'
<1> SUFFICES ASSUME ChargeInv, [Next]_vars PROVE ChargeInv'
  OBVIOUS
<1>1. /\ AnnounceInv /\ AnnounceInv' /\ DossierInv /\ TypeInv /\ Signed
      /\ Charged /\ SinglePreauth
  BY NextAnnounce DEF ChargeInv, AnnounceInv, DossierInv
<1>2. LifecycleStep
  BY <1>1, StepLifecycle
<1>3. ASSUME NEW r \in RequestIds, Start(r) \/ Step(r) PROVE ChargeInv'
  <2>1. Effect(r)
    BY <1>1, <1>3, StartEffect, StepEffect
  <2> QED BY <1>1, <1>2, <2>1, EffectCharge
<1>4. CASE Fleet
  <2>1. /\ UNCHANGED <<events, requests>>
        /\ \A x \in ReservationIds :
              reservations[x] # NoRow =>
                 reservations'[x].status = reservations[x].status
    BY <1>1, <1>4, FleetKeepsRows
  <2>2. \A x \in ReservationIds : reservations[x] = NoRow => events[x] = {}
    BY <1>1 DEF AnnounceInv, ToldAt
  <2> QED BY <1>1, <2>1, <2>2
          DEF ChargeInv, Signed, Charged, NoneFailed, Stripe, SinglePreauth
<1>5. CASE UNCHANGED vars
  BY <1>1, <1>5
  DEF vars, ChargeInv, Signed, Charged, NoneFailed, Stripe, SinglePreauth
<1> QED BY <1>3, <1>4, <1>5 DEF Next, Quiet

(***************************************************************************)
(* With one request at a time per reservation, createStripePreauth leaves  *)
(* at most one preauthorisation in the timeline of a reservation as long   *)
(* as no handler failed, whatever the other handlers do to it.             *)
(***************************************************************************)
THEOREM SinglePreauthorisation ==
    ASSUME Isolation # "none"
    PROVE  Spec => []SinglePreauth
<1>1. Init => ChargeInv
  BY InitCharge
<1>2. ChargeInv /\ [Next]_vars => ChargeInv'
  BY NextCharge
<1>3. ChargeInv => SinglePreauth
  BY DEF ChargeInv
<1> QED BY <1>1, <1>2, <1>3, PTL DEF Spec

=============================================================================
