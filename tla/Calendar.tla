------------------------------ MODULE Calendar ------------------------------
(***************************************************************************)
(* What ReservationsService promises about the vehicles: each reservation  *)
(* has at most one booking, a booking is placed, moved and dropped in one  *)
(* step, no two bookings of a vehicle overlap, and a reservation that is   *)
(* over (closed, cancelled, refused or removed) never books again.         *)
(*                                                                         *)
(* Reservations, the statements of the handlers, is shown to implement it. *)
(***************************************************************************)
EXTENDS Lifecycle

CONSTANTS ReservationIds, VehicleIds, Times, NoBooking

VARIABLES
    bookings,  \* [ReservationIds -> Booking or NoBooking]
    over       \* the reservations that never book again

vars == <<bookings, over>>

Booking == [vehicle : VehicleIds, start : Times, end : Times]

\* Booking b of reservation x meets no booking of another reservation.
Free(x, b) ==
    \A y \in ReservationIds \ {x} :
        (bookings[y] # NoBooking /\ bookings[y].vehicle = b.vehicle) =>
            ~Overlaps(bookings[y].start, bookings[y].end, b.start, b.end)

Init ==
    /\ bookings \in [ReservationIds -> Booking \cup {NoBooking}]
    /\ \A x \in ReservationIds :
          bookings[x] # NoBooking => Free(x, bookings[x])
    /\ over \in SUBSET {x \in ReservationIds : bookings[x] = NoBooking}

\* create(), or an update() that gives a vehicle to a reservation without one
Place(x, b) ==
    /\ x \notin over
    /\ bookings[x] = NoBooking
    /\ b.start < b.end /\ Free(x, b)
    /\ bookings' = [bookings EXCEPT ![x] = b]
    /\ UNCHANGED over

\* update(): other dates; the reservation keeps its vehicle
Move(x, b) ==
    /\ bookings[x] # NoBooking
    /\ b.vehicle = bookings[x].vehicle
    /\ b.start < b.end /\ Free(x, b)
    /\ bookings' = [bookings EXCEPT ![x] = b]
    /\ UNCHANGED over

\* The reservation ends by its status, or is removed.
Close(x) ==
    /\ x \notin over
    /\ over' = over \cup {x}
    /\ bookings' = [bookings EXCEPT ![x] = NoBooking]

\* VehiclesService.remove: the reservations of the vehicle go on without one
Withdraw(v) ==
    /\ bookings' = [x \in ReservationIds |->
          IF bookings[x] # NoBooking /\ bookings[x].vehicle = v
          THEN NoBooking ELSE bookings[x]]
    /\ UNCHANGED over

Next ==
    \/ \E x \in ReservationIds :
          \/ \E b \in Booking : Place(x, b) \/ Move(x, b)
          \/ Close(x)
    \/ \E v \in VehicleIds : Withdraw(v)

Spec == Init /\ [][Next]_vars
=============================================================================
