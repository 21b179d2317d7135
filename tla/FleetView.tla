----------------------------- MODULE FleetView ------------------------------
(***************************************************************************)
(* What the rest of the system may rely on about the fleet: a vehicle is   *)
(* assignable, blocked or gone, and schedule slots with ordered dates are  *)
(* added to, moved along and taken from vehicles that exist, each in one   *)
(* step.  A vehicle that is gone stays gone, and its slots go with it.     *)
(*                                                                         *)
(* Reservations is written against these actions; Fleet, the handlers of   *)
(* FleetService themselves, is shown to implement them.                    *)
(***************************************************************************)
EXTENDS Integers

CONSTANTS VehicleIds, Times

VARIABLES
    vehicles,  \* [VehicleIds -> "assignable" | "blocked" | "gone"]
    slots      \* set of [vehicle, start, end]

vars == <<vehicles, slots>>

Slot == [vehicle : VehicleIds, start : Times, end : Times]

Init ==
    /\ vehicles \in [VehicleIds -> {"assignable", "blocked"}]
    /\ slots \in SUBSET {k \in Slot : k.start < k.end}

\* The operational status of a vehicle is set, by hand or by an incident.
SetVehicle(v, s) ==
    /\ vehicles[v] # "gone"
    /\ vehicles' = [vehicles EXCEPT ![v] = s]
    /\ UNCHANGED slots

\* VehiclesService.remove; ON DELETE CASCADE on the slots
DeleteVehicle(v) ==
    /\ vehicles[v] # "gone"
    /\ vehicles' = [vehicles EXCEPT ![v] = "gone"]
    /\ slots' = {k \in slots : k.vehicle # v}

\* FleetService.createScheduleSlot: no look at the reservations
AddSlot(v, s, e) ==
    /\ vehicles[v] # "gone"
    /\ s < e
    /\ slots' = slots \cup {[vehicle |-> v, start |-> s, end |-> e]}
    /\ UNCHANGED vehicles

\* FleetService.updateScheduleSlot: other dates; the slot keeps the vehicle
\* it was loaded with.
MoveSlot(k, s, e) ==
    /\ s < e
    /\ slots' = (slots \ {k}) \cup {[k EXCEPT !.start = s, !.end = e]}
    /\ UNCHANGED vehicles

\* FleetService.removeScheduleSlot
RemoveSlot(k) ==
    /\ slots' = slots \ {k}
    /\ UNCHANGED vehicles

Next ==
    \/ \E v \in VehicleIds, s \in {"assignable", "blocked"} : SetVehicle(v, s)
    \/ \E v \in VehicleIds : DeleteVehicle(v)
    \/ \E v \in VehicleIds, s, e \in Times : AddSlot(v, s, e)
    \/ \E k \in slots, s, e \in Times : MoveSlot(k, s, e)
    \/ \E k \in slots : RemoveSlot(k)

Spec == Init /\ [][Next]_vars
=============================================================================
