------------------------------ MODULE MCFleet -------------------------------
(***************************************************************************)
(* Small instances of Fleet: one or two vehicles, an incident, a slot, two *)
(* requests, three instants, every kind of body.                           *)
(***************************************************************************)
EXTENDS Fleet

MCTimes == 1..3

\* An incident, or the body of an incident request.
Report(v, severity, status) ==
    [vehicle |-> v, severity |-> severity, status |-> status]

\* A schedule slot, or the body of a slot request.
Range(v, s, e) == [vehicle |-> v, start |-> s, end |-> e]

\* Incidents that do not block their vehicle: minor, or critical and closed.
QuietIncidents ==
    {Report(v, "MINEUR", "OUVERT") : v \in VehicleIds}
    \cup {Report(v, "CRITIQUE", "RESOLU") : v \in VehicleIds}

\* Bodies of creations and updates, with and without each of the fields.
Reports ==
    LET named == VehicleIds \cup {Unset}
    IN  {Report(v, sev, st) : v \in named, sev \in {"CRITIQUE", Unset},
                              st \in {"EN_COURS", "RESOLU", Unset}}
        \cup {Report(v, "MINEUR", "EN_COURS") : v \in named}

LongSlots == {Range(v, 1, 3) : v \in VehicleIds}

\* Whole ranges, one date alone, the vehicle alone.
Ranges ==
    {Range(v, s, e) : v \in VehicleIds, s, e \in {1, 2}}
    \cup {Range(Unset, 2, Unset), Range(Unset, Unset, 2)}
    \cup {Range(v, Unset, Unset) : v \in VehicleIds}

=============================================================================
