--------------------------- MODULE MCReservations ---------------------------
(***************************************************************************)
(* Small instances of Reservations: two reservations and one or two        *)
(* vehicles over three instants.  The rows the table may hold at the start *)
(* and the bodies an update may carry are chosen per run.                  *)
(***************************************************************************)
EXTENDS Reservations, TLC

MCTimes == 1..3

OneSlotRange == {<<1, 2>>}

MCSlotRanges == {<<1, 2>>, <<2, 3>>}

\* A row of the table at the start.
Stored(status, v, s, e) ==
    [status |-> status, vehicle |-> v, start |-> s, end |-> e]

\* Busy or cancelled rows on either of two ranges that touch.
CalendarRows ==
    {Stored(st, v, s, s + 1) :
        st \in {"EN_COURS", "ANNULEE"}, v \in VehicleIds \cup {NoVehicle},
        s \in {1, 2}}

\* The stages around the payment, where preauthorisation and status meet.
PaymentRows ==
    {Stored(st, v, 1, 3) :
        st \in {"EN_ATTENTE_PAIEMENT", "CONFIRMEE"}, v \in VehicleIds}

\* An empty table.
NoRows == {}

\* Rows waiting for their payment.
PaymentDue == {Stored("EN_ATTENTE_PAIEMENT", v, 1, 3) : v \in VehicleIds}

\* The body of an update; Unset is a field it does not carry.
Body(v, s, e) == [vehicle |-> v, start |-> s, end |-> e]

\* One body: a new start.
OneUpdate == {Body(Unset, 2, Unset)}

\* Every body an update may carry.
AllUpdates == Dto

\* The vehicle alone, one date alone, both dates, nothing at all.
SomeUpdates ==
    {Body(v, Unset, Unset) : v \in VehicleIds \cup {Unset}}
    \cup {Body(Unset, s, Unset) : s \in {1, 2}}
    \cup {Body(Unset, Unset, e) : e \in {2, 3}}

\* The body of a client's event.
Happened(type, status) == [type |-> type, status |-> status]

\* The two types that move the status.
MovingEvents == {Happened("reservation_vehicle_handover", NoStatus),
                 Happened("reservation_closed", NoStatus)}

\* Those, a type of the client's own, and two the service announces itself.
SomeEvents ==
    MovingEvents
    \cup {Happened("other", NoStatus),
          Happened("reservation_status_changed", "CONFIRMEE"),
          Happened("reservation_stripe_preauth_created", NoStatus)}

\* Requests and reservations are interchangeable (for safety runs only).
Symmetry == Permutations(RequestIds) \cup Permutations(ReservationIds)

=============================================================================
