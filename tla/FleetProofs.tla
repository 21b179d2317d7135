---------------------------- MODULE FleetProofs -----------------------------
(***************************************************************************)
(* Proofs about Fleet: types, ordered slots, what an answer about a        *)
(* critical incident says of its vehicle, who puts a vehicle back in       *)
(* service, and that the handlers implement FleetView.                     *)
(***************************************************************************)
EXTENDS Fleet, TLAPS

-----------------------------------------------------------------------------
(***************************************************************************)
(* Types.  Which fields of a request mean something depends on its pc.     *)
(***************************************************************************)

Storing == {"insert", "find", "select", "save", "reinsert"}
OnVehicle == {"vfind", "vselect", "vsave", "vreinsert", "vdelete"}
IncidentWrites == {"createIncident", "updateIncident"}

Shape(q) ==
    /\ q.pc \in Storing => q.id \in Ids /\ q.want \in Rows(q.id)
    /\ q.pc \in Storing /\ q.id \in IncidentIds => q.op \in IncidentWrites
    /\ q.pc \in Storing \cup OnVehicle => q.vehicle \in VehicleIds
    /\ q.pc = "delete" => q.id \in Ids /\ q.op \notin IncidentWrites
    /\ q.pc \in Storing \ {"insert"} => q.op # "createIncident"
    /\ q.pc = "vdelete" => q.op = "removeVehicle"
    /\ q.op \in IncidentWrites => q.status = "INDISPONIBLE"

TypeInv == TypeOK /\ \A r \in RequestIds : Shape(requests[r])

LEMMA AtShape ==
    ASSUME NEW q \in Request, NEW pc \in PcValues,
           pc \notin Ended => Shape([q EXCEPT !.pc = pc])
    PROVE  At(q, pc) \in Request /\ Shape(At(q, pc))
BY DEF At, Idle, Request, PcValues, Ended, Shape, Storing, OnVehicle,
       IncidentWrites, VehicleStatuses

\* A request moves on, the tables stay.
LEMMA BecomeTypes ==
    ASSUME TypeInv, NEW r \in RequestIds, NEW q \in Request, Shape(q),
           Become(r, q), issued' \subseteq Ids
    PROVE  TypeInv'
BY DEF TypeInv, TypeOK, Become, Shape, Rows

LEMMA GotoTypes ==
    ASSUME TypeInv, NEW r \in RequestIds, NEW pc \in PcValues,
           pc \notin Ended => Shape([requests[r] EXCEPT !.pc = pc]),
           Goto(r, pc)
    PROVE  TypeInv'
<1>1. requests[r] \in Request BY DEF TypeInv, TypeOK
<1>2. At(requests[r], pc) \in Request /\ Shape(At(requests[r], pc))
  BY <1>1, AtShape
<1> QED BY <1>2, BecomeTypes DEF Goto, TypeInv, TypeOK

\* save() mixes the columns of two rows of one table.
LEMMA MergeType ==
    ASSUME NEW x \in Ids, NEW row \in Rows(x), NEW want \in Rows(x), NEW diff
    PROVE  Merge(row, want, diff) \in Rows(x)
<1> DEFINE m == Merge(row, want, diff)
<1> USE DEF Merge
<1>1. CASE x \in IncidentIds
  <2>1. row \in Incident /\ want \in Incident BY <1>1 DEF Rows
  <2>2. DOMAIN row = {"vehicle", "severity", "status"} BY <2>1 DEF Incident
  <2>3. m = [vehicle |-> m["vehicle"], severity |-> m["severity"],
             status |-> m["status"]]
    BY <2>2
  <2>4. /\ m["vehicle"] \in VehicleIds /\ m["severity"] \in Severities
        /\ m["status"] \in IncidentStatuses
    BY <2>1, <2>2 DEF Incident
  <2> QED BY <1>1, <2>3, <2>4 DEF Rows, Incident
<1>2. CASE x \notin IncidentIds
  <2>1. row \in Slot /\ want \in Slot BY <1>2 DEF Rows
  <2>2. DOMAIN row = {"vehicle", "start", "end"} BY <2>1 DEF Slot
  <2>3. m = [vehicle |-> m["vehicle"], start |-> m["start"], end |-> m["end"]]
    BY <2>2
  <2>4. m["vehicle"] \in VehicleIds /\ m["start"] \in Times /\ m["end"] \in Times
    BY <2>1, <2>2 DEF Slot
  <2> QED BY <1>2, <2>3, <2>4 DEF Rows, Slot
<1> QED BY <1>1, <1>2

LEMMA WriteTypes ==
    ASSUME TypeInv, NEW r \in RequestIds,
           requests[r].pc \in Storing \cup {"delete"},
           NEW row \in Rows(requests[r].id) \cup {NoRow}, Write(r, row)
    PROVE  TypeInv'
<1> DEFINE q == requests[r]
           pc == AfterSave(q)
<1>1. q \in Request /\ Shape(q) /\ q.id \in Ids
  BY DEF TypeInv, TypeOK, Shape
<1>2. pc \in {"done", "vselect", "vfind"} BY DEF AfterSave
<1>3. pc # "done" => q.op \in IncidentWrites BY DEF AfterSave, IncidentWrites
<1>4. pc # "done" => Shape([q EXCEPT !.pc = pc])
  BY <1>1, <1>2, <1>3 DEF Shape, Storing, OnVehicle, Request, IncidentWrites
<1>5. At(q, pc) \in Request /\ Shape(At(q, pc))
  BY <1>1, <1>2, <1>4, AtShape DEF PcValues, Ended
<1> HIDE DEF q, pc
<1>6. /\ rows' = [rows EXCEPT ![q.id] = row]
      /\ requests' = [requests EXCEPT ![r] = At(q, pc)]
      /\ UNCHANGED <<vehicles, issued>>
  BY DEF Write, q, pc
<1>7. TypeOK' BY <1>1, <1>5, <1>6 DEF TypeInv, TypeOK, Rows, q
<1>8. \A s \in RequestIds : Shape(requests'[s])
  BY <1>5, <1>6 DEF TypeInv, TypeOK
<1> QED BY <1>7, <1>8 DEF TypeInv, Shape, Rows

\* What the environment may ask for.
LEMMA DtoType ==
    /\ \A dto \in IncidentBodies :
          /\ dto.vehicle \in VehicleIds \cup {Unset}
          /\ dto.severity \in Severities \cup {Unset}
          /\ dto.status \in IncidentStatuses \cup {Unset}
    /\ \A dto \in SlotBodies :
          /\ dto.vehicle \in VehicleIds \cup {Unset}
          /\ dto.start \in Times \cup {Unset}
          /\ dto.end \in Times \cup {Unset}
    /\ \A dto \in IncidentBodies :
          dto = [vehicle |-> dto.vehicle, severity |-> dto.severity,
                 status |-> dto.status]
    /\ \A dto \in SlotBodies :
          dto = [vehicle |-> dto.vehicle, start |-> dto.start, end |-> dto.end]
BY InputAssumption DEF IncidentDto, SlotDto

LEMMA InitTypes == Init => TypeInv
<1> SUFFICES ASSUME Init PROVE TypeInv OBVIOUS
<1>1. Idle \in Request /\ Shape(Idle)
  BY DEF Idle, Request, PcValues, Ended, Shape, Storing, OnVehicle,
         IncidentWrites, VehicleStatuses
<1>2. requests \in [RequestIds -> Request] BY <1>1 DEF Init
<1>3. \A r \in RequestIds : Shape(requests[r]) BY <1>1 DEF Init
<1>4. TypeOK BY <1>2 DEF Init, TypeOK
<1> QED BY <1>3, <1>4 DEF TypeInv

\* The first statement of each handler.
LEMMA StartTypes ==
    ASSUME TypeInv, NEW r \in RequestIds, Start(r)
    PROVE  TypeInv'
<1> USE DEF Request, PcValues, Ended, Idle, VehicleStatuses
<1>1. ASSUME NEW v \in VehicleIds, NEW s \in VehicleStatuses,
             NEW op \in {"updateVehicleStatus", "updateVehicle"},
             LoadVehicle(r, v, op, s)
      PROVE  TypeInv'
  <2> DEFINE q == [Idle EXCEPT !.pc = "vselect", !.op = op, !.vehicle = v,
                               !.status = s]
  <2>1. q \in Request /\ Shape(q)
    BY DEF Shape, Storing, OnVehicle, IncidentWrites
  <2> QED BY <1>1, <2>1, BecomeTypes DEF LoadVehicle, Arrive, TypeInv, TypeOK
<1>2. ASSUME NEW v \in VehicleIds, LoadVehicleRemoval(r, v) PROVE TypeInv'
  <2> DEFINE q == [Idle EXCEPT !.pc = "vdelete", !.op = "removeVehicle",
                               !.vehicle = v]
  <2>1. q \in Request /\ Shape(q)
    BY DEF Shape, Storing, OnVehicle, IncidentWrites
  <2> QED
    BY <1>2, <2>1, BecomeTypes DEF LoadVehicleRemoval, Arrive, TypeInv, TypeOK
<1>3. ASSUME NEW x \in Ids, NEW op \in {"createIncident", "createSlot"},
             NEW row \in Rows(x), Create(r, x, op, row),
             x \in IncidentIds => op = "createIncident"
      PROVE  TypeInv'
  <2> DEFINE q == [Idle EXCEPT !.pc = "insert", !.op = op, !.id = x,
                               !.vehicle = row.vehicle, !.want = row]
  <2>1. row \in Incident \cup Slot /\ row.vehicle \in VehicleIds
    BY DEF Rows, Incident, Slot
  <2>2. q \in Request /\ Shape(q)
    BY <1>3, <2>1 DEF Shape, Storing, OnVehicle, IncidentWrites
  <2>3. Become(r, q) /\ issued' \subseteq Ids
    BY <1>3 DEF Create, Arrive, TypeInv, TypeOK
  <2> QED BY <2>2, <2>3, BecomeTypes
<1>4. ASSUME NEW x \in Ids, NEW op \in {"updateIncident", "updateSlot"},
             NEW dto, dto.vehicle \in VehicleIds \cup {Unset},
             NEW want \in Rows(x), rows[x] # NoRow, LoadUpdate(r, x, op, dto, want),
             x \in IncidentIds => op = "updateIncident"
      PROVE  TypeInv'
  <2> DEFINE v == OrElse(dto.vehicle, rows[x].vehicle)
             pc == IF dto.vehicle = Unset THEN "select" ELSE "find"
             q == [Idle EXCEPT !.pc = pc, !.op = op, !.id = x, !.want = want,
                               !.vehicle = v]
  <2>1. want \in Incident \cup Slot BY DEF Rows
  <2>2. rows[x].vehicle \in VehicleIds
    BY <1>4 DEF TypeInv, TypeOK, Rows, Incident, Slot
  <2>3. v \in VehicleIds BY <1>4, <2>2 DEF OrElse
  <2>4. pc \in {"select", "find"} OBVIOUS
  <2> HIDE DEF v, pc
  <2>5. q \in Request /\ Shape(q)
    BY <1>4, <2>1, <2>3, <2>4 DEF Shape, Storing, OnVehicle, IncidentWrites
  <2>6. Become(r, q) /\ issued' \subseteq Ids
    BY <1>4 DEF LoadUpdate, Arrive, TypeInv, TypeOK, v, pc
  <2> QED BY <2>5, <2>6, BecomeTypes
<1>5. ASSUME NEW x \in Ids, NEW op \in {"removeIncident", "removeSlot"},
             LoadRemoval(r, x, op)
      PROVE  TypeInv'
  <2> DEFINE q == [Idle EXCEPT !.pc = "delete", !.op = op, !.id = x]
  <2>1. q \in Request /\ Shape(q)
    BY DEF Shape, Storing, OnVehicle, IncidentWrites
  <2> QED BY <1>5, <2>1, BecomeTypes DEF LoadRemoval, Arrive, TypeInv, TypeOK
<1>6. ASSUME NEW i \in IncidentIds, NEW dto \in IncidentBodies,
             CreateIncident(r, i, dto)
      PROVE  TypeInv'
  <2>1. NewIncident(dto) \in Incident
    <3>1. /\ dto.vehicle \in VehicleIds /\ dto.severity \in Severities
          /\ OrElse(dto.status, "OUVERT") \in IncidentStatuses
      BY <1>6, DtoType DEF CreateIncident, OrElse, IncidentStatuses
    <3> QED BY <3>1, DtoType DEF NewIncident, Incident
  <2> QED BY <1>3, <1>6, <2>1 DEF CreateIncident, Rows, Ids
<1>7. ASSUME NEW k \in SlotIds, NEW dto \in SlotBodies, CreateSlot(r, k, dto)
      PROVE  TypeInv'
  <2>1. dto \in Slot BY <1>7, DtoType DEF CreateSlot, Slot
  <2> QED BY <1>3, <1>7, <2>1, NullAssumption DEF CreateSlot, Rows, Ids
<1>8. ASSUME NEW i \in IncidentIds, NEW dto \in IncidentBodies,
             UpdateIncident(r, i, dto)
      PROVE  TypeInv'
  <2> DEFINE want == [rows[i] EXCEPT !.severity = OrElse(dto.severity, @),
                                     !.status = OrElse(dto.status, @)]
  <2>1. rows[i] \in Incident
    BY <1>8 DEF UpdateIncident, TypeInv, TypeOK, Rows, Ids
  <2>2. want \in Incident BY <2>1, DtoType DEF Incident, OrElse
  <2> HIDE DEF want
  <2>3. LoadUpdate(r, i, "updateIncident", dto, want) /\ rows[i] # NoRow
    BY <1>8 DEF UpdateIncident, want
  <2> QED BY <1>4, <2>2, <2>3, DtoType DEF Rows, Ids
<1>9. ASSUME NEW k \in SlotIds, NEW dto \in SlotBodies, UpdateSlot(r, k, dto)
      PROVE  TypeInv'
  <2> DEFINE want == [rows[k] EXCEPT !.start = OrElse(dto.start, @),
                                     !.end = OrElse(dto.end, @)]
  <2>1. rows[k] \in Slot
    BY <1>9, NullAssumption DEF UpdateSlot, TypeInv, TypeOK, Rows, Ids
  <2>2. want \in Slot BY <2>1, DtoType DEF Slot, OrElse
  <2> HIDE DEF want
  <2>3. LoadUpdate(r, k, "updateSlot", dto, want) /\ rows[k] # NoRow
    BY <1>9 DEF UpdateSlot, want
  <2> QED BY <1>4, <2>2, <2>3, DtoType, NullAssumption DEF Rows, Ids
<1>10. ASSUME NEW v \in VehicleIds, NEW s \in SettableStatuses,
              UpdateVehicleStatus(r, v, s)
       PROVE  TypeInv'
  BY <1>1, <1>10, InputAssumption DEF UpdateVehicleStatus
<1>11. ASSUME NEW v \in VehicleIds, NEW s \in SettableStatuses \cup {Unset},
              UpdateVehicle(r, v, s)
       PROVE  TypeInv'
  <2>1. vehicles[v] \in VehicleStatuses
    BY <1>11 DEF UpdateVehicle, LoadVehicle, Exists, TypeInv, TypeOK
  <2>2. OrElse(s, vehicles[v]) \in VehicleStatuses
    BY <2>1, InputAssumption DEF OrElse
  <2> QED BY <1>1, <1>11, <2>2 DEF UpdateVehicle
<1> QED BY <1>2, <1>5, <1>6, <1>7, <1>8, <1>9, <1>10, <1>11 DEF Start, Ids

\* Every other statement.
LEMMA StepTypes ==
    ASSUME TypeInv, NEW r \in RequestIds, Step(r)
    PROVE  TypeInv'
<1> DEFINE q == requests[r]
<1>1. q \in Request /\ Shape(q) BY DEF TypeInv, TypeOK
<1>2. ASSUME NEW pc \in {"select", "refused", "vselect", "done", "vreinsert",
                         "vsave", "failed"},
             q.pc = "find" \/ pc # "select",
             pc \in {"vselect", "vreinsert", "vsave"} => q.pc \in OnVehicle,
             Goto(r, pc)
      PROVE  TypeInv'
  <2>1. pc \notin Ended => Shape([q EXCEPT !.pc = pc])
    BY <1>1, <1>2 DEF Shape, Storing, OnVehicle, Request, Ended
  <2> QED BY <1>2, <2>1, GotoTypes DEF PcValues, Ended
<1>3. CASE FindVehicle(r) BY <1>2, <1>3 DEF FindVehicle, OnVehicle
<1>4. CASE Insert(r)
  BY <1>1, <1>4, WriteTypes DEF Insert, Storing, Shape
<1>5. CASE SaveSelect(r)
  <2> DEFINE diff == {c \in DOMAIN rows[q.id] : q.want[c] # rows[q.id][c]}
  <2>1. q.id \in Ids /\ q.pc = "select"
    BY <1>1, <1>5 DEF SaveSelect, Shape, Storing
  <2>2. rows[q.id] # NoRow => diff \in SUBSET Columns
    BY <2>1 DEF TypeInv, TypeOK, Rows, Incident, Slot, Columns
  <2> HIDE DEF diff
  <2>3. CASE rows[q.id] = NoRow
    <3>1. Become(r, [q EXCEPT !.pc = "reinsert"]) BY <1>5, <2>3 DEF SaveSelect
    <3>2. [q EXCEPT !.pc = "reinsert"] \in Request
          /\ Shape([q EXCEPT !.pc = "reinsert"])
      BY <1>1, <2>1 DEF Request, PcValues, Shape, Storing, OnVehicle
    <3> QED BY <1>5, <3>1, <3>2, BecomeTypes DEF SaveSelect, TypeInv, TypeOK
  <2>4. CASE rows[q.id] # NoRow
    <3>1. Become(r, [q EXCEPT !.pc = "save", !.diff = diff])
      BY <1>5, <2>4 DEF SaveSelect, diff
    <3>2. [q EXCEPT !.pc = "save", !.diff = diff] \in Request
          /\ Shape([q EXCEPT !.pc = "save", !.diff = diff])
      BY <1>1, <2>1, <2>2, <2>4 DEF Request, PcValues, Shape, Storing, OnVehicle
    <3> QED BY <1>5, <3>1, <3>2, BecomeTypes DEF SaveSelect, TypeInv, TypeOK
  <2> QED BY <2>3, <2>4
<1>6. CASE SaveUpdate(r)
  <2> DEFINE row == IF rows[q.id] = NoRow THEN NoRow
                    ELSE Merge(rows[q.id], q.want, q.diff)
  <2>1. q.pc \in Storing /\ q.id \in Ids /\ q.want \in Rows(q.id)
    BY <1>1, <1>6 DEF SaveUpdate, Shape, Storing
  <2>2. row \in Rows(q.id) \cup {NoRow}
    BY <2>1, MergeType DEF TypeInv, TypeOK
  <2>3. Write(r, row) BY <1>6 DEF SaveUpdate
  <2> QED BY <2>1, <2>2, <2>3, WriteTypes
<1>7. CASE Reinsert(r)
  BY <1>1, <1>7, WriteTypes DEF Reinsert, Storing, Shape
<1>8. CASE Delete(r) BY <1>8, WriteTypes DEF Delete
<1>9. CASE FindBlockedVehicle(r)
  BY <1>2, <1>9 DEF FindBlockedVehicle, OnVehicle
<1>10. CASE VehicleSelect(r)
  <2>1. PICK pc \in {"done", "vreinsert", "vsave"} : Goto(r, pc)
    BY <1>10 DEF VehicleSelect
  <2> QED BY <1>2, <1>10, <2>1 DEF VehicleSelect, OnVehicle
<1>11. ASSUME NEW s \in VehicleStatuses \cup {"gone"}, q.pc \in OnVehicle,
              VehicleWrite(r, s)
       PROVE  TypeInv'
  <2>1. q.vehicle \in VehicleIds BY <1>1, <1>11 DEF Shape, OnVehicle
  <2>2. At(q, "done") \in Request /\ Shape(At(q, "done"))
    BY <1>1, AtShape DEF PcValues, Ended
  <2> QED BY <1>11, <2>1, <2>2 DEF VehicleWrite, TypeInv, TypeOK, Shape, Rows
<1>12. CASE VehicleSave(r)
  <2>1. q.status \in VehicleStatuses BY <1>1 DEF Request
  <2> QED BY <1>11, <1>12, <2>1 DEF VehicleSave, OnVehicle
<1>13. CASE VehicleDelete(r)
  <2>1. At(q, "done") \in Request /\ Shape(At(q, "done"))
    BY <1>1, AtShape DEF PcValues, Ended
  <2> QED BY <1>13, <2>1 DEF VehicleDelete, TypeInv, TypeOK, Shape, Rows
<1>14. CASE Fail(r) BY <1>2, <1>14 DEF Fail
<1> QED BY <1>3, <1>4, <1>5, <1>6, <1>7, <1>8, <1>9, <1>10, <1>12, <1>13,
           <1>14 DEF Step

LEMMA NextTypes == TypeInv /\ [Next]_vars => TypeInv'
<1> SUFFICES ASSUME TypeInv, [Next]_vars PROVE TypeInv' OBVIOUS
<1>1. CASE UNCHANGED vars BY <1>1 DEF vars, TypeInv, TypeOK, Shape, Rows
<1>2. CASE Quiet BY <1>1, <1>2 DEF Quiet
<1>3. CASE \E r \in RequestIds : Start(r) \/ Step(r)
  BY <1>3, StartTypes, StepTypes
<1> QED BY <1>1, <1>2, <1>3 DEF Next

(***************************************************************************)
(* Every table and request keeps its type, however requests interleave.    *)
(***************************************************************************)
THEOREM TypeCorrect == Spec => []TypeOK
<1>1. Spec => []TypeInv BY InitTypes, NextTypes, PTL DEF Spec
<1>2. TypeInv => TypeOK BY DEF TypeInv
<1> QED BY <1>1, <1>2, PTL

-----------------------------------------------------------------------------
(***************************************************************************)
(* What starting a request and what a statement may touch.                 *)
(***************************************************************************)

\* A request that starts now.
Starts(q) ==
    \/ /\ q.pc \in {"vselect", "vdelete"}
       /\ Exists(q.vehicle)
       /\ q.status \in SettableStatuses \cup {"INDISPONIBLE", vehicles[q.vehicle]}
    \/ /\ q.pc = "insert"
       /\ q.id \in Ids \ issued /\ q.id \in issued'
       /\ q.id \in SlotIds => q.want.start < q.want.end
       /\ q.vehicle = q.want.vehicle
       /\ q.status = "INDISPONIBLE"
    \/ /\ q.pc \in {"find", "select"}
       /\ q.id \in Ids /\ rows[q.id] # NoRow
       /\ q.id \in SlotIds => q.want.start < q.want.end
       /\ q.want.vehicle = rows[q.id].vehicle
       /\ q.status = "INDISPONIBLE"
    \/ /\ q.pc = "delete"
       /\ q.status = "INDISPONIBLE"

LEMMA StartCases ==
    ASSUME TypeInv, NEW r \in RequestIds, Start(r)
    PROVE  /\ UNCHANGED <<vehicles, rows>>
           /\ issued \subseteq issued'
           /\ \A s \in RequestIds \ {r} : requests'[s] = requests[s]
           /\ MayStart(r, requests'[r])
           /\ Starts(requests'[r])
<1> USE DEF Idle, Become, Arrive, Starts
<1>0. requests \in [RequestIds -> Request] BY DEF TypeInv, TypeOK
<1>1. ASSUME NEW v \in VehicleIds, NEW op,
             NEW s \in SettableStatuses \cup {vehicles[v]}, LoadVehicle(r, v, op, s)
      PROVE  UNCHANGED <<vehicles, rows>> /\ issued' = issued
             /\ (\A t \in RequestIds \ {r} : requests'[t] = requests[t])
             /\ MayStart(r, requests'[r]) /\ Starts(requests'[r])
  BY <1>0, <1>1 DEF LoadVehicle
<1>2. ASSUME NEW v \in VehicleIds, LoadVehicleRemoval(r, v)
      PROVE  UNCHANGED <<vehicles, rows>> /\ issued' = issued
             /\ (\A t \in RequestIds \ {r} : requests'[t] = requests[t])
             /\ MayStart(r, requests'[r]) /\ Starts(requests'[r])
  BY <1>0, <1>2 DEF LoadVehicleRemoval
<1>3. ASSUME NEW x \in Ids, NEW op, NEW row, Create(r, x, op, row),
             x \in SlotIds => row.start < row.end
      PROVE  UNCHANGED <<vehicles, rows>> /\ issued \subseteq issued'
             /\ (\A t \in RequestIds \ {r} : requests'[t] = requests[t])
             /\ MayStart(r, requests'[r]) /\ Starts(requests'[r])
  BY <1>0, <1>3 DEF Create
<1>4. ASSUME NEW x \in Ids, NEW op, NEW dto, NEW want,
             LoadUpdate(r, x, op, dto, want),
             rows[x] # NoRow, x \in SlotIds => want.start < want.end,
             want.vehicle = rows[x].vehicle
      PROVE  UNCHANGED <<vehicles, rows>> /\ issued' = issued
             /\ (\A t \in RequestIds \ {r} : requests'[t] = requests[t])
             /\ MayStart(r, requests'[r]) /\ Starts(requests'[r])
  BY <1>0, <1>4 DEF LoadUpdate
<1>5. ASSUME NEW x \in Ids, NEW op, LoadRemoval(r, x, op)
      PROVE  UNCHANGED <<vehicles, rows>> /\ issued' = issued
             /\ (\A t \in RequestIds \ {r} : requests'[t] = requests[t])
             /\ MayStart(r, requests'[r]) /\ Starts(requests'[r])
  BY <1>0, <1>5 DEF LoadRemoval
<1>6. ASSUME NEW i \in IncidentIds, NEW dto \in IncidentBodies,
             UpdateIncident(r, i, dto)
      PROVE  \E want : /\ LoadUpdate(r, i, "updateIncident", dto, want)
                       /\ rows[i] # NoRow /\ want.vehicle = rows[i].vehicle
  <2>1. rows[i] \in Incident
    BY <1>6 DEF UpdateIncident, TypeInv, TypeOK, Rows, Ids
  <2> DEFINE w == [rows[i] EXCEPT !.severity = OrElse(dto.severity, @),
                                  !.status = OrElse(dto.status, @)]
  <2>2. LoadUpdate(r, i, "updateIncident", dto, w) /\ rows[i] # NoRow
    BY <1>6 DEF UpdateIncident
  <2>3. w.vehicle = rows[i].vehicle BY <2>1 DEF Incident
  <2> HIDE DEF w
  <2> QED BY <2>2, <2>3
<1>7. ASSUME NEW k \in SlotIds, NEW dto \in SlotBodies, UpdateSlot(r, k, dto)
      PROVE  \E want : /\ LoadUpdate(r, k, "updateSlot", dto, want)
                       /\ rows[k] # NoRow /\ want.vehicle = rows[k].vehicle
                       /\ want.start < want.end
  <2>1. rows[k] \in Slot
    BY <1>7, NullAssumption DEF UpdateSlot, TypeInv, TypeOK, Rows, Ids
  <2> QED BY <1>7, <2>1 DEF UpdateSlot, Slot, EnsureValidSlotRange
<1> HIDE DEF Idle, Become, Arrive, Starts
<1>8. CASE \E v \in VehicleIds :
              \/ \E s \in SettableStatuses : UpdateVehicleStatus(r, v, s)
              \/ \E s \in SettableStatuses \cup {Unset} : UpdateVehicle(r, v, s)
              \/ LoadVehicleRemoval(r, v)
  BY <1>1, <1>2, <1>8 DEF UpdateVehicleStatus, UpdateVehicle, OrElse
<1>9. CASE \E i \in IncidentIds :
              \/ \E dto \in IncidentBodies :
                    CreateIncident(r, i, dto) \/ UpdateIncident(r, i, dto)
              \/ LoadRemoval(r, i, "removeIncident")
  BY <1>3, <1>4, <1>5, <1>6, <1>9, NullAssumption DEF Ids, CreateIncident
<1>10. CASE \E k \in SlotIds :
              \/ \E dto \in SlotBodies :
                    CreateSlot(r, k, dto) \/ UpdateSlot(r, k, dto)
              \/ LoadRemoval(r, k, "removeSlot")
  BY <1>3, <1>4, <1>5, <1>7, <1>10 DEF Ids, CreateSlot, EnsureValidSlotRange
<1> QED BY <1>8, <1>9, <1>10 DEF Start

\* What a statement may touch besides its own request.
LEMMA StepFrame ==
    ASSUME TypeInv, NEW r \in RequestIds, Step(r)
    PROVE  /\ InFlight(r)
           /\ issued' = issued
           /\ \A s \in RequestIds \ {r} : requests'[s] = requests[s]
           /\ \/ requests'[r].pc \in Ended
              \/ /\ requests'[r].id = requests[r].id
                 /\ requests'[r].vehicle = requests[r].vehicle
                 /\ requests'[r].status = requests[r].status
                 /\ requests'[r].want = requests[r].want
                 /\ requests'[r].op = requests[r].op
           /\ \A x \in Ids : \/ rows'[x] = rows[x]
                             \/ rows'[x] = NoRow
                             \/ x = requests[r].id
<1> DEFINE q == requests[r]
<1>0. requests \in [RequestIds -> Request] /\ q \in Request /\ DOMAIN rows = Ids
  BY DEF TypeInv, TypeOK
<1>1. \A pc : /\ At(q, pc).pc = pc
              /\ \/ pc \in Ended
                 \/ /\ At(q, pc).id = q.id /\ At(q, pc).vehicle = q.vehicle
                    /\ At(q, pc).status = q.status /\ At(q, pc).want = q.want
                    /\ At(q, pc).op = q.op
  BY <1>0 DEF At, Idle, Request
<1> USE DEF InFlight, Ended
<1>2. CASE FindVehicle(r) BY <1>0, <1>1, <1>2 DEF FindVehicle, Goto, Become
<1>3. CASE Insert(r) BY <1>0, <1>1, <1>3 DEF Insert, Write
<1>4. CASE SaveSelect(r)
  BY <1>0, <1>4 DEF SaveSelect, Become, Request
<1>5. CASE SaveUpdate(r) BY <1>0, <1>1, <1>5 DEF SaveUpdate, Write
<1>6. CASE Reinsert(r) BY <1>0, <1>1, <1>6 DEF Reinsert, Write
<1>7. CASE Delete(r) BY <1>0, <1>1, <1>7 DEF Delete, Write
<1>8. CASE FindBlockedVehicle(r)
  BY <1>0, <1>1, <1>8 DEF FindBlockedVehicle, Goto, Become
<1>9. CASE VehicleSelect(r)
  <2>1. PICK pc : Goto(r, pc) BY <1>9 DEF VehicleSelect
  <2> QED BY <1>0, <1>1, <1>9, <2>1 DEF VehicleSelect, Goto, Become
<1>10. CASE VehicleSave(r)
  BY <1>0, <1>1, <1>10 DEF VehicleSave, VehicleWrite
<1>11. CASE VehicleDelete(r) BY <1>0, <1>1, <1>11 DEF VehicleDelete
<1>12. CASE Fail(r) BY <1>0, <1>1, <1>12 DEF Fail, Goto, Become
<1> QED BY <1>2, <1>3, <1>4, <1>5, <1>6, <1>7, <1>8, <1>9, <1>10, <1>11,
           <1>12 DEF Step

\* What a statement may do to the vehicles: nothing, write the status of its
\* request to the vehicle of its request, or delete that vehicle.
LEMMA StepVehicles ==
    ASSUME TypeInv, NEW r \in RequestIds, Step(r)
    PROVE  \/ vehicles' = vehicles
           \/ /\ requests[r].vehicle \in VehicleIds
              /\ \E s \in {requests[r].status, "gone"} :
                    vehicles' = [vehicles EXCEPT ![requests[r].vehicle] = s]
<1> DEFINE q == requests[r]
<1>1. Shape(q) BY DEF TypeInv
<1>2. CASE VehicleSave(r) \/ VehicleDelete(r)
  BY <1>1, <1>2 DEF VehicleSave, VehicleWrite, VehicleDelete, Shape, OnVehicle
<1>3. CASE \/ FindVehicle(r) \/ Insert(r) \/ SaveSelect(r) \/ SaveUpdate(r)
           \/ Reinsert(r) \/ Delete(r) \/ FindBlockedVehicle(r)
           \/ VehicleSelect(r) \/ Fail(r)
  BY <1>3 DEF FindVehicle, Insert, SaveSelect, SaveUpdate, Reinsert, Delete,
              FindBlockedVehicle, VehicleSelect, Fail, Goto, Become, Write
<1> QED BY <1>2, <1>3 DEF Step

-----------------------------------------------------------------------------
(***************************************************************************)
(* What the answer to a critical incident says.                            *)
(***************************************************************************)

\* The last statement of such a request is the one that found or wrote the
\* status INDISPONIBLE.
LEMMA AnswerBlocks ==
    ASSUME TypeInv, NEW r \in RequestIds, Step(r),
           MustBlock(requests[r]), requests'[r].pc = "done"
    PROVE  vehicles'[requests[r].vehicle] \in {"INDISPONIBLE", "gone"}
<1> DEFINE q == requests[r]
<1>0. /\ requests \in [RequestIds -> Request] /\ q \in Request /\ Shape(q)
      /\ vehicles \in [VehicleIds -> VehicleStatuses \cup {"gone"}]
  BY DEF TypeInv, TypeOK
<1>1. \A pc : At(q, pc).pc = pc BY <1>0 DEF At, Idle, Request
<1>2. q.status = "INDISPONIBLE" /\ q.op \in IncidentWrites
  BY <1>0 DEF MustBlock, Shape, IncidentWrites
<1>3. CASE Insert(r) \/ SaveUpdate(r) \/ Reinsert(r) \/ Delete(r)
  <2>1. requests'[r].pc = AfterSave(q)
    BY <1>0, <1>1, <1>3 DEF Insert, SaveUpdate, Reinsert, Delete, Write
  <2>2. AfterSave(q) # "done" BY DEF AfterSave, MustBlock, CriticalUnresolved
  <2> QED BY <2>1, <2>2
<1>4. CASE VehicleSelect(r)
  <2>1. q.pc = "vselect" /\ vehicles' = vehicles /\ q.vehicle \in VehicleIds
    BY <1>0, <1>4 DEF VehicleSelect, Goto, Become, Shape, OnVehicle
  <2>2. PICK pc : /\ Goto(r, pc)
                  /\ pc = "done" => vehicles[q.vehicle] = q.status
    BY <1>4 DEF VehicleSelect
  <2>3. requests'[r].pc = pc BY <1>0, <1>1, <2>2 DEF Goto, Become
  <2> QED BY <1>2, <2>1, <2>2, <2>3
<1>5. CASE VehicleSave(r)
  <2>1. q.vehicle \in VehicleIds
    BY <1>0, <1>5 DEF VehicleSave, Shape, OnVehicle
  <2> QED BY <1>0, <1>2, <1>5, <2>1 DEF VehicleSave, VehicleWrite
<1>6. CASE VehicleDelete(r)
  BY <1>0, <1>2, <1>6 DEF VehicleDelete, Shape, IncidentWrites
<1>7. CASE FindVehicle(r) \/ FindBlockedVehicle(r) \/ Fail(r)
  BY <1>0, <1>1, <1>7 DEF FindVehicle, FindBlockedVehicle, Fail, Goto, Become
<1>8. CASE SaveSelect(r)
  BY <1>0, <1>8 DEF SaveSelect, Become, Request
<1> QED BY <1>3, <1>4, <1>5, <1>6, <1>7, <1>8 DEF Step

(***************************************************************************)
(* A request about a critical unresolved incident is answered only once    *)
(* the vehicle it names is out of service: however requests interleave,    *)
(* whichever statements fail, whatever they retarget or delete.            *)
(***************************************************************************)
THEOREM CriticalAnswersBlock == Spec => BlockedWhenAnswered
<1> DEFINE A == \A r \in RequestIds :
                   MustBlock(requests[r]) /\ requests'[r].pc = "done" =>
                      vehicles'[requests[r].vehicle] \in {"INDISPONIBLE", "gone"}
<1>1. ASSUME TypeInv, [Next]_vars PROVE A
  <2> SUFFICES ASSUME NEW r \in RequestIds, MustBlock(requests[r]),
                      requests'[r].pc = "done"
               PROVE  vehicles'[requests[r].vehicle] \in {"INDISPONIBLE", "gone"}
    OBVIOUS
  <2>1. requests[r].pc # "done" BY DEF MustBlock, Ended
  <2>2. requests'[r] # requests[r] BY <2>1
  <2>3. CASE UNCHANGED vars BY <2>2, <2>3 DEF vars
  <2>4. ASSUME NEW s \in RequestIds, Start(s) PROVE FALSE
    BY <1>1, <2>2, <2>4, StartCases DEF Starts
  <2>5. ASSUME NEW s \in RequestIds, Step(s) PROVE s = r
    BY <1>1, <2>2, <2>5, StepFrame
  <2> QED BY <1>1, <2>3, <2>4, <2>5, AnswerBlocks DEF Next, Quiet
<1>2. Spec => []TypeInv BY InitTypes, NextTypes, PTL DEF Spec
<1>3. TypeInv /\ [Next]_vars => [A]_vars BY <1>1
<1> QED BY <1>2, <1>3, PTL DEF Spec, BlockedWhenAnswered

(***************************************************************************)
(* When no request names the status DISPONIBLE, a vehicle out of service   *)
(* that no handler holds an older copy of stays out of service, however    *)
(* requests interleave: only such a copy can release it.                   *)
(***************************************************************************)
THEOREM OnlyOldCopiesRelease ==
    ASSUME "DISPONIBLE" \notin SettableStatuses
    PROVE  Spec => StaysOutOfService
<1> DEFINE A == \A v \in VehicleIds : OutOfService(v) => OutOfService(v)'
<1>1. ASSUME TypeInv, [Next]_vars PROVE A
  <2> SUFFICES ASSUME NEW v \in VehicleIds, OutOfService(v)
               PROVE  OutOfService(v)'
    OBVIOUS
  <2>0. vehicles \in [VehicleIds -> VehicleStatuses \cup {"gone"}]
    BY <1>1 DEF TypeInv, TypeOK
  <2> USE DEF OutOfService, InFlight
  <2>1. CASE UNCHANGED vars BY <2>1 DEF vars
  <2>2. ASSUME NEW s \in RequestIds, Start(s) PROVE OutOfService(v)'
    <3>1. /\ UNCHANGED vehicles
          /\ \A t \in RequestIds \ {s} : requests'[t] = requests[t]
          /\ Starts(requests'[s])
      BY <1>1, <2>2, StartCases
    <3>2. requests'[s].vehicle = v => requests'[s].status # "DISPONIBLE"
      BY <3>1 DEF Starts
    <3> QED BY <3>1, <3>2
  <2>3. ASSUME NEW s \in RequestIds, Step(s) PROVE OutOfService(v)'
    <3>1. /\ InFlight(s)
          /\ \A t \in RequestIds \ {s} : requests'[t] = requests[t]
          /\ \/ requests'[s].pc \in Ended
             \/ /\ requests'[s].vehicle = requests[s].vehicle
                /\ requests'[s].status = requests[s].status
      BY <1>1, <2>3, StepFrame
    <3>2. vehicles'[v] # "DISPONIBLE"
      BY <1>1, <2>0, <2>3, <3>1, StepVehicles
    <3> QED BY <3>1, <3>2
  <2> QED BY <1>1, <2>1, <2>2, <2>3 DEF Next, Quiet
<1>2. Spec => []TypeInv BY InitTypes, NextTypes, PTL DEF Spec
<1>3. TypeInv /\ [Next]_vars => [A]_vars BY <1>1
<1> QED BY <1>2, <1>3, PTL DEF Spec, StaysOutOfService

-----------------------------------------------------------------------------
(***************************************************************************)
(* Requests that do not interfere: what a handler holds of its slot stays  *)
(* true until it writes.                                                   *)
(***************************************************************************)

\* No two requests in flight interfere.
Apart ==
    \A q, r \in RequestIds :
        q # r /\ InFlight(q) /\ InFlight(r) =>
            ~Interfere(requests[q], requests[r])

IdsIssued == \A k \in SlotIds : rows[k] # NoRow => k \in issued

\* The slot is validated, keeps the vehicle of the row, and the columns
\* save() leaves out are the same in both.
HoldsSlot(q) ==
    /\ q.id \in issued
    /\ q.want.start < q.want.end
    /\ q.pc = "insert" => rows[q.id] = NoRow
    /\ q.pc \in {"find", "select", "save"} /\ rows[q.id] # NoRow =>
          q.want.vehicle = rows[q.id].vehicle
    /\ q.pc = "save" /\ rows[q.id] # NoRow =>
          Merge(rows[q.id], q.want, q.diff) = q.want

Holds(q) == q.pc \in Storing /\ q.id \in SlotIds => HoldsSlot(q)

RecordInv ==
    /\ TypeInv
    /\ Apart
    /\ IdsIssued
    /\ SlotsOrdered
    /\ \A r \in RequestIds : Holds(requests[r])

LEMMA MergeExact ==
    ASSUME NEW x \in Ids, NEW row \in Rows(x), NEW want \in Rows(x)
    PROVE  Merge(row, want, {c \in DOMAIN row : want[c] # row[c]}) = want
<1> DEFINE m == Merge(row, want, {c \in DOMAIN row : want[c] # row[c]})
<1>1. DOMAIN row = DOMAIN want /\ want = [c \in DOMAIN want |-> want[c]]
  BY DEF Rows, Incident, Slot
<1>2. m = [c \in DOMAIN row |-> want[c]] BY DEF Merge
<1> QED BY <1>1, <1>2

\* A request that starts, or ends, or keeps what Interfere looks at.
LEMMA StaysApart ==
    ASSUME RecordInv, NEW r \in RequestIds,
           \A s \in RequestIds \ {r} : requests'[s] = requests[s],
           \/ MayStart(r, requests'[r]) /\ Isolation # "none"
           \/ requests'[r].pc \in Ended
           \/ /\ InFlight(r)
              /\ requests'[r].id = requests[r].id
              /\ requests'[r].vehicle = requests[r].vehicle
              /\ requests'[r].op = requests[r].op
    PROVE  Apart'
<1> USE DEF InFlight
<1>1. CASE MayStart(r, requests'[r]) /\ Isolation # "none"
  <2>1. \A s \in RequestIds \ {r} :
           InFlight(s) => ~Interfere(requests[s], requests'[r])
    BY <1>1, InputAssumption DEF MayStart
  <2>2. \A s \in RequestIds \ {r} :
           InFlight(s) => ~Interfere(requests'[r], requests[s])
    BY <2>1 DEF Interfere
  <2> QED BY <2>1, <2>2 DEF RecordInv, Apart, Interfere
<1>2. CASE requests'[r].pc \in Ended BY <1>2 DEF RecordInv, Apart, Interfere
<1>3. CASE /\ InFlight(r)
           /\ requests'[r].id = requests[r].id
           /\ requests'[r].vehicle = requests[r].vehicle
           /\ requests'[r].op = requests[r].op
  BY <1>3 DEF RecordInv, Apart, Interfere
<1> QED BY <1>1, <1>2, <1>3

LEMMA OthersHold ==
    ASSUME RecordInv, NEW r \in RequestIds, NEW s \in RequestIds \ {r},
           InFlight(r), requests'[s] = requests[s], issued \subseteq issued',
           \A x \in Ids : \/ rows'[x] = rows[x]
                          \/ rows'[x] = NoRow
                          \/ x = requests[r].id
    PROVE  Holds(requests[s])'
<1> DEFINE q == requests[s]
<1>1. Holds(q) BY DEF RecordInv
<1>2. CASE ~(q.pc \in Storing /\ q.id \in SlotIds) BY <1>2 DEF Holds
<1>3. CASE q.pc \in Storing /\ q.id \in SlotIds
  <2>1. InFlight(s) BY <1>3 DEF InFlight, Storing, Ended
  <2>2. q.id # requests[r].id
    BY <1>3, <2>1 DEF RecordInv, Apart, Interfere
  <2>3. rows'[q.id] = rows[q.id] \/ rows'[q.id] = NoRow
    BY <1>3, <2>2 DEF Ids
  <2> QED BY <1>1, <1>3, <2>3 DEF Holds, HoldsSlot
<1> QED BY <1>2, <1>3

\* The rows a handler writes are validated.
LEMMA WriteOrdered ==
    ASSUME RecordInv, NEW r \in RequestIds, Step(r)
    PROVE  \A k \in SlotIds :
              \/ rows'[k] = rows[k]
              \/ rows'[k] = NoRow
              \/ /\ k = requests[r].id
                 /\ requests[r].pc \in Storing
                 /\ rows'[k] = requests[r].want
<1> DEFINE q == requests[r]
<1>1. DOMAIN rows = Ids /\ Holds(q) /\ SlotIds \subseteq Ids
  BY DEF RecordInv, TypeInv, TypeOK, Ids
<1>2. CASE Insert(r) BY <1>1, <1>2 DEF Insert, Write, Storing
<1>3. CASE SaveUpdate(r)
  BY <1>1, <1>3 DEF SaveUpdate, Write, Storing, Holds, HoldsSlot
<1>4. CASE Reinsert(r) BY <1>1, <1>4 DEF Reinsert, Write, Storing
<1>5. CASE Delete(r) BY <1>1, <1>5 DEF Delete, Write
<1>6. CASE VehicleDelete(r) BY <1>1, <1>6 DEF VehicleDelete
<1>7. CASE \/ FindVehicle(r) \/ SaveSelect(r) \/ FindBlockedVehicle(r)
           \/ VehicleSelect(r) \/ VehicleSave(r) \/ Fail(r)
  BY <1>7 DEF FindVehicle, SaveSelect, FindBlockedVehicle, VehicleSelect,
              VehicleSave, Fail, Goto, Become, VehicleWrite
<1> QED BY <1>2, <1>3, <1>4, <1>5, <1>6, <1>7 DEF Step

LEMMA OwnHold ==
    ASSUME RecordInv, NEW r \in RequestIds, Step(r)
    PROVE  Holds(requests[r])'
<1> DEFINE q == requests[r]
<1>1. /\ q \in Request /\ Shape(q) /\ Holds(q)
      /\ requests \in [RequestIds -> Request]
  BY DEF RecordInv, TypeInv, TypeOK
<1>2. CASE requests'[r].pc \notin Storing BY <1>2 DEF Holds
<1>3. CASE SaveSelect(r)
  <2> DEFINE diff == {c \in DOMAIN rows[q.id] : q.want[c] # rows[q.id][c]}
  <2>1. /\ q.pc = "select" /\ q.id \in Ids /\ q.want \in Rows(q.id)
        /\ UNCHANGED <<rows, issued>>
    BY <1>1, <1>3 DEF SaveSelect, Shape, Storing, Become
  <2>2. CASE rows[q.id] = NoRow
    <3>1. requests'[r] = [q EXCEPT !.pc = "reinsert"]
      BY <1>1, <1>3, <2>2 DEF SaveSelect, Become
    <3> QED BY <1>1, <2>1, <3>1 DEF Holds, HoldsSlot, Storing, Request
  <2>3. CASE rows[q.id] # NoRow
    <3>1. requests'[r] = [q EXCEPT !.pc = "save", !.diff = diff]
      BY <1>1, <1>3, <2>3 DEF SaveSelect, Become
    <3>2. Merge(rows[q.id], q.want, diff) = q.want
      BY <2>1, <2>3, MergeExact DEF RecordInv, TypeInv, TypeOK
    <3> HIDE DEF diff
    <3> QED BY <1>1, <2>1, <3>1, <3>2 DEF Holds, HoldsSlot, Storing, Request
  <2> QED BY <2>2, <2>3
<1>4. CASE FindVehicle(r)
  <2>1. /\ q.pc = "find" /\ UNCHANGED <<rows, issued>>
        /\ \/ requests'[r] = [q EXCEPT !.pc = "select"]
           \/ requests'[r].pc = "refused"
    BY <1>1, <1>4 DEF FindVehicle, Goto, Become, At, Ended, Idle
  <2> QED BY <1>1, <2>1 DEF Holds, HoldsSlot, Storing, Request
<1>5. CASE Insert(r) \/ SaveUpdate(r) \/ Reinsert(r) \/ Delete(r)
  <2>1. AfterSave(q) \in {"done", "vselect", "vfind"} BY DEF AfterSave
  <2>2. requests'[r] = At(q, AfterSave(q))
    BY <1>1, <1>5 DEF Insert, SaveUpdate, Reinsert, Delete, Write
  <2> HIDE DEF q
  <2>3. requests'[r].pc \notin Storing
    BY <1>1, <2>1, <2>2 DEF At, Ended, Idle, Storing, Request
  <2> QED BY <1>2, <2>3
<1>6. CASE FindBlockedVehicle(r) \/ Fail(r)
  <2>1. requests'[r].pc \in {"vselect", "refused", "failed"}
    BY <1>1, <1>6
        DEF FindBlockedVehicle, Fail, Goto, Become, At, Ended, Idle, Request
  <2> QED BY <1>2, <2>1 DEF Storing
<1>7. CASE VehicleSelect(r) \/ VehicleSave(r) \/ VehicleDelete(r)
  <2>1. requests'[r].pc \in {"vsave", "vreinsert", "done"}
    <3>1. CASE VehicleSelect(r)
      <4>1. PICK pc \in {"done", "vreinsert", "vsave"} : Goto(r, pc)
        BY <3>1 DEF VehicleSelect
      <4> QED BY <1>1, <4>1 DEF Goto, Become, At, Ended, Idle, Request
    <3>2. CASE VehicleSave(r) \/ VehicleDelete(r)
      BY <1>1, <3>2 DEF VehicleSave, VehicleDelete, VehicleWrite, At, Ended, Idle
    <3> QED BY <1>7, <3>1, <3>2
  <2> QED BY <1>2, <2>1 DEF Storing
<1> QED BY <1>3, <1>4, <1>5, <1>6, <1>7 DEF Step

LEMMA InitRecord == Init => RecordInv
<1> SUFFICES ASSUME Init PROVE RecordInv OBVIOUS
<1>1. \A r \in RequestIds : requests[r].pc = "idle" BY DEF Init, Idle
<1>2. Apart /\ \A r \in RequestIds : Holds(requests[r])
  BY <1>1 DEF Apart, InFlight, Holds, Storing
<1>3. IdsIssued BY DEF Init, IdsIssued, Ids
<1>4. SlotsOrdered
  <2> SUFFICES ASSUME NEW k \in SlotIds, rows[k] # NoRow
               PROVE  rows[k].start < rows[k].end
    BY DEF SlotsOrdered
  <2>1. rows[k] \in Slot /\ rows[k] \in InitialIncidents \cup InitialSlots
    BY NullAssumption DEF Init, Rows, Ids
  <2>2. \A w \in Slot : w \notin Incident
    BY DEF Slot, Incident
  <2> QED BY <2>1, <2>2, InputAssumption
<1> QED BY <1>2, <1>3, <1>4, InitTypes DEF RecordInv

LEMMA NextRecord ==
    ASSUME Isolation # "none"
    PROVE  RecordInv /\ [Next]_vars => RecordInv'
<1> SUFFICES ASSUME RecordInv, [Next]_vars PROVE RecordInv' OBVIOUS
<1>0. TypeInv /\ TypeInv' BY NextTypes DEF RecordInv
<1>1. CASE UNCHANGED vars
  BY <1>0, <1>1
     DEF vars, RecordInv, Apart, Interfere, IdsIssued, SlotsOrdered, Holds,
         HoldsSlot, InFlight
<1>2. ASSUME NEW r \in RequestIds, Start(r) PROVE RecordInv'
  <2>1. /\ UNCHANGED <<vehicles, rows>> /\ issued \subseteq issued'
        /\ \A s \in RequestIds \ {r} : requests'[s] = requests[s]
        /\ MayStart(r, requests'[r]) /\ Starts(requests'[r])
    BY <1>0, <1>2, StartCases
  <2>2. Apart' BY <2>1, StaysApart
  <2>3. Holds(requests[r])'
    BY <2>1, <1>0 DEF Starts, Holds, HoldsSlot, Storing, RecordInv, IdsIssued
  <2>4. ASSUME NEW s \in RequestIds \ {r} PROVE Holds(requests[s])'
    BY <2>1 DEF RecordInv, Holds, HoldsSlot
  <2>5. IdsIssued' /\ SlotsOrdered'
    BY <2>1 DEF RecordInv, IdsIssued, SlotsOrdered
  <2> QED BY <1>0, <2>2, <2>3, <2>4, <2>5 DEF RecordInv
<1>3. ASSUME NEW r \in RequestIds, Step(r) PROVE RecordInv'
  <2>1. /\ InFlight(r) /\ issued' = issued
        /\ \A s \in RequestIds \ {r} : requests'[s] = requests[s]
        /\ \/ requests'[r].pc \in Ended
           \/ /\ requests'[r].id = requests[r].id
              /\ requests'[r].vehicle = requests[r].vehicle
              /\ requests'[r].op = requests[r].op
        /\ \A x \in Ids : \/ rows'[x] = rows[x] \/ rows'[x] = NoRow
                          \/ x = requests[r].id
    BY <1>0, <1>3, StepFrame
  <2>2. Apart' BY <2>1, StaysApart
  <2>3. \A s \in RequestIds \ {r} : Holds(requests[s])'
    BY <2>1, OthersHold
  <2>4. Holds(requests[r])' BY <1>3, OwnHold
  <2>5. Holds(requests[r]) BY DEF RecordInv
  <2>6. IdsIssued'
    BY <1>3, <2>1, <2>5, WriteOrdered DEF RecordInv, IdsIssued, Holds, HoldsSlot
  <2>7. SlotsOrdered'
    BY <1>3, <2>5, WriteOrdered DEF RecordInv, SlotsOrdered, Holds, HoldsSlot
  <2> QED BY <1>0, <2>2, <2>3, <2>4, <2>6, <2>7 DEF RecordInv
<1> QED BY <1>1, <1>2, <1>3 DEF Next, Quiet

(***************************************************************************)
(* When requests do not interfere, every schedule slot starts before it    *)
(* ends: the dates a handler leaves out of its write are those it          *)
(* validated with.                                                         *)
(***************************************************************************)
THEOREM SlotsStayOrdered ==
    ASSUME Isolation # "none"
    PROVE  Spec => []SlotsOrdered
<1>1. Spec => []RecordInv BY InitRecord, NextRecord, PTL DEF Spec
<1>2. RecordInv => SlotsOrdered BY DEF RecordInv
<1> QED BY <1>1, <1>2, PTL

-----------------------------------------------------------------------------
(***************************************************************************)
(* Requests that do not interfere: each write is one step of FleetView.    *)
(***************************************************************************)

\* Every slot has a vehicle that exists.
KeysHold == \A k \in SlotIds : rows[k] # NoRow => Exists(rows[k].vehicle)

\* The vehicle a handler is about to write is there.
Current(q) ==
    /\ q.pc = "insert" => q.vehicle = q.want.vehicle
    /\ q.pc \in {"vselect", "vsave", "vdelete"} => Exists(q.vehicle)
    /\ q.pc # "vreinsert"

ViewInv ==
    /\ RecordInv
    /\ KeysHold
    /\ \A r \in RequestIds : Current(requests[r])

LEMMA InitView == Init => ViewInv
<1> SUFFICES ASSUME Init PROVE ViewInv OBVIOUS
<1>1. \A r \in RequestIds : Current(requests[r]) BY DEF Init, Idle, Current
<1>2. KeysHold
  <2> SUFFICES ASSUME NEW k \in SlotIds, rows[k] # NoRow
               PROVE  Exists(rows[k].vehicle)
    BY DEF KeysHold
  <2>1. rows[k].vehicle \in VehicleIds
    BY DEF Init, Rows, Incident, Slot, Ids
  <2> QED BY <2>1 DEF Init, Exists, VehicleStatuses
<1> QED BY <1>1, <1>2, InitRecord DEF ViewInv

LEMMA StepCurrent ==
    ASSUME ViewInv, NEW r \in RequestIds, Step(r)
    PROVE  Current(requests[r])'
<1> DEFINE q == requests[r]
<1>0. /\ requests \in [RequestIds -> Request] /\ q \in Request
      /\ Shape(q) /\ Current(q)
  BY DEF ViewInv, RecordInv, TypeInv, TypeOK
<1> USE DEF Current
<1>1. CASE Insert(r) \/ SaveUpdate(r) \/ Reinsert(r) \/ Delete(r)
  <2>1. PICK pc \in {"done", "vselect", "vfind"} : AfterSave(q) = pc
    BY DEF AfterSave
  <2>2. requests'[r] = At(q, pc) /\ vehicles' = vehicles
    BY <1>0, <1>1, <2>1 DEF Insert, SaveUpdate, Reinsert, Delete, Write
  <2>3. pc = "vselect" => Exists(q.vehicle)
    <3>1. pc = "vselect" => q.op = "createIncident" BY <2>1 DEF AfterSave
    <3>2. CASE Insert(r) BY <1>0, <3>2 DEF Insert
    <3>3. CASE SaveUpdate(r) \/ Reinsert(r) \/ Delete(r)
      BY <1>0, <3>1, <3>3
         DEF SaveUpdate, Reinsert, Delete, Shape, Storing, IncidentWrites
    <3> QED BY <1>1, <3>2, <3>3
  <2>4. /\ requests'[r].pc = pc
        /\ pc # "done" => requests'[r].vehicle = q.vehicle
    BY <1>0, <2>1, <2>2 DEF At, Ended, Idle, Request
  <2> QED BY <2>1, <2>2, <2>3, <2>4 DEF Exists
<1>2. CASE SaveSelect(r)
  <2>1. requests'[r].pc \in {"save", "reinsert"}
    BY <1>0, <1>2 DEF SaveSelect, Become, Request
  <2> QED BY <2>1
<1>3. CASE FindVehicle(r)
  <2>1. requests'[r].pc \in {"select", "refused"}
    BY <1>0, <1>3 DEF FindVehicle, Goto, Become, At, Ended, Idle, Request
  <2> QED BY <2>1
<1>4. CASE FindBlockedVehicle(r)
  <2>1. /\ UNCHANGED vehicles
        /\ \/ requests'[r].pc = "refused"
           \/ /\ requests'[r].pc = "vselect" /\ requests'[r].vehicle = q.vehicle
              /\ Exists(q.vehicle)
    BY <1>0, <1>4 DEF FindBlockedVehicle, Goto, Become, At, Ended, Idle, Request
  <2> QED BY <2>1 DEF Exists
<1>5. CASE VehicleSelect(r)
  <2>1. q.pc = "vselect" /\ Exists(q.vehicle) /\ UNCHANGED vehicles
    BY <1>0, <1>5 DEF VehicleSelect, Goto, Become
  <2>2. PICK pc \in {"done", "vsave"} : Goto(r, pc)
    BY <1>5, <2>1 DEF VehicleSelect
  <2>3. /\ requests'[r].pc = pc
        /\ pc = "vsave" => requests'[r].vehicle = q.vehicle
    BY <1>0, <2>2 DEF Goto, Become, At, Ended, Idle, Request
  <2> QED BY <2>1, <2>2, <2>3 DEF Exists
<1>6. CASE VehicleSave(r) \/ VehicleDelete(r) \/ Fail(r)
  <2>1. requests'[r].pc \in {"done", "failed"}
    BY <1>0, <1>6 DEF VehicleSave, VehicleDelete, Fail,
                      VehicleWrite, Goto, Become, At, Ended, Idle, Request
  <2> QED BY <2>1
<1> QED BY <1>1, <1>2, <1>3, <1>4, <1>5, <1>6 DEF Step

\* A vehicle is deleted only by a request that no other one about it is beside.
LEMMA OthersCurrent ==
    ASSUME ViewInv, NEW r \in RequestIds, Step(r), NEW s \in RequestIds \ {r}
    PROVE  Current(requests[s])'
<1> DEFINE q == requests[s]
<1>1. requests'[s] = q /\ InFlight(r)
  BY StepFrame DEF ViewInv, RecordInv
<1>2. Current(q) /\ Shape(q) /\ Shape(requests[r])
  BY DEF ViewInv, RecordInv, TypeInv
<1>3. CASE q.pc \notin {"vselect", "vsave", "vdelete"}
  BY <1>1, <1>2, <1>3 DEF Current
<1>4. CASE q.pc \in {"vselect", "vsave", "vdelete"}
  <2>1. InFlight(s) /\ q.vehicle \in VehicleIds /\ Exists(q.vehicle)
    BY <1>2, <1>4 DEF InFlight, Ended, Shape, OnVehicle, Current
  <2>2. vehicles'[q.vehicle] # "gone"
    <3>0. /\ vehicles \in [VehicleIds -> VehicleStatuses \cup {"gone"}]
          /\ requests[r].status # "gone"
      BY DEF ViewInv, RecordInv, TypeInv, TypeOK, Request, VehicleStatuses
    <3>1. CASE VehicleDelete(r)
      <4>1. requests[r].op = "removeVehicle" BY <1>2, <3>1 DEF VehicleDelete, Shape
      <4>2. requests[r].vehicle # q.vehicle
        BY <1>1, <2>1, <4>1 DEF ViewInv, RecordInv, Apart, Interfere
      <4> QED BY <2>1, <3>0, <3>1, <4>2 DEF VehicleDelete, Exists
    <3>2. CASE VehicleSave(r)
      BY <1>2, <2>1, <3>0, <3>2
         DEF VehicleSave, VehicleWrite, Exists, Shape, OnVehicle
    <3>3. CASE UNCHANGED vehicles BY <2>1, <3>3 DEF Exists
    <3>4. CASE \/ FindVehicle(r) \/ Insert(r) \/ SaveSelect(r) \/ SaveUpdate(r)
               \/ Reinsert(r) \/ Delete(r) \/ FindBlockedVehicle(r)
               \/ VehicleSelect(r) \/ Fail(r)
      BY <3>3, <3>4
         DEF FindVehicle, Insert, SaveSelect, SaveUpdate, Reinsert, Delete,
             FindBlockedVehicle, VehicleSelect, Fail, Goto, Become, Write
    <3> QED BY <3>1, <3>2, <3>4 DEF Step
  <2> QED BY <1>1, <1>2, <1>4, <2>2 DEF Current, Exists
<1> QED BY <1>3, <1>4

LEMMA StepKeys ==
    ASSUME ViewInv, NEW r \in RequestIds, Step(r)
    PROVE  KeysHold'
<1> DEFINE q == requests[r]
<1>0. /\ q \in Request /\ vehicles \in [VehicleIds -> VehicleStatuses \cup {"gone"}]
      /\ Shape(q) /\ Holds(q) /\ Current(q) /\ RecordInv /\ SlotIds \subseteq Ids
      /\ DOMAIN rows = Ids
  BY DEF ViewInv, RecordInv, TypeInv, TypeOK, Ids
<1>1. CASE Insert(r) \/ SaveUpdate(r) \/ Reinsert(r) \/ Delete(r)
  <2>1. UNCHANGED vehicles /\ \A k \in SlotIds \ {q.id} : rows'[k] = rows[k]
    BY <1>0, <1>1 DEF Insert, SaveUpdate, Reinsert, Delete, Write
  <2>2. CASE Insert(r) \/ Reinsert(r)
    BY <1>0, <2>1, <2>2, WriteOrdered
       DEF Insert, Reinsert, ViewInv, KeysHold, Exists
  <2>3. CASE SaveUpdate(r)
    <3>1. q.id \in SlotIds /\ rows[q.id] # NoRow => Exists(q.want.vehicle)
      BY <1>0, <2>3
         DEF SaveUpdate, Holds, HoldsSlot, Storing, ViewInv, KeysHold
    <3>2. q.id \in SlotIds /\ rows[q.id] = NoRow => rows'[q.id] = NoRow
      BY <1>0, <2>3 DEF SaveUpdate, Write, RecordInv, TypeInv, TypeOK
    <3> QED BY <1>0, <2>1, <3>1, <3>2, WriteOrdered DEF ViewInv, KeysHold, Exists
  <2>4. CASE Delete(r)
    BY <1>0, <2>1, <2>4, WriteOrdered
       DEF Delete, Storing, ViewInv, KeysHold, Exists
  <2> QED BY <1>1, <2>2, <2>3, <2>4
<1>2. CASE VehicleSave(r)
  <2>1. /\ q.vehicle \in VehicleIds /\ q.status # "gone"
        /\ vehicles' = [vehicles EXCEPT ![q.vehicle] = q.status]
        /\ UNCHANGED rows
    BY <1>0, <1>2 DEF VehicleSave, VehicleWrite, Shape, OnVehicle, Current,
                      Request, VehicleStatuses
  <2> QED BY <1>0, <2>1 DEF ViewInv, KeysHold, Exists
<1>3. CASE VehicleDelete(r)
  BY <1>0, <1>3 DEF VehicleDelete, ViewInv, KeysHold, Exists
<1>4. CASE \/ FindVehicle(r) \/ SaveSelect(r) \/ FindBlockedVehicle(r)
           \/ VehicleSelect(r) \/ Fail(r)
  <2>1. UNCHANGED <<vehicles, rows>>
    BY <1>4 DEF FindVehicle, SaveSelect, FindBlockedVehicle, VehicleSelect,
                Fail, Goto, Become
  <2> QED BY <2>1 DEF ViewInv, KeysHold, Exists
<1> QED BY <1>1, <1>2, <1>3, <1>4 DEF Step

LEMMA NextView ==
    ASSUME Isolation # "none"
    PROVE  ViewInv /\ [Next]_vars => ViewInv'
<1> SUFFICES ASSUME ViewInv, [Next]_vars PROVE ViewInv' OBVIOUS
<1>0. RecordInv /\ RecordInv' /\ TypeInv
  BY NextRecord DEF ViewInv, RecordInv
<1>1. CASE UNCHANGED vars
  BY <1>0, <1>1 DEF vars, ViewInv, KeysHold, Exists, Current
<1>2. ASSUME NEW r \in RequestIds, Start(r) PROVE ViewInv'
  <2>1. /\ UNCHANGED <<vehicles, rows>>
        /\ \A s \in RequestIds \ {r} : requests'[s] = requests[s]
        /\ Starts(requests'[r])
    BY <1>0, <1>2, StartCases
  <2>2. Current(requests[r])' BY <2>1 DEF Starts, Current, Exists
  <2>3. \A s \in RequestIds \ {r} : Current(requests[s])'
    BY <2>1 DEF ViewInv, Current, Exists
  <2>4. KeysHold' BY <2>1 DEF ViewInv, KeysHold, Exists
  <2> QED BY <1>0, <2>2, <2>3, <2>4 DEF ViewInv
<1>3. ASSUME NEW r \in RequestIds, Step(r) PROVE ViewInv'
  BY <1>0, <1>3, StepCurrent, OthersCurrent, StepKeys DEF ViewInv
<1> QED BY <1>1, <1>2, <1>3 DEF Next, Quiet

\* What the rest of the system sees, as in the INSTANCE of FleetView.
SeenVehicles == [v \in VehicleIds |-> Assignable(vehicles[v])]
SeenSlots == {rows[k] : k \in {k \in SlotIds : rows[k] # NoRow}}

LEMMA InitRefines == Init => View!Init
<1> SUFFICES ASSUME Init PROVE View!Init OBVIOUS
<1>1. SeenVehicles \in [VehicleIds -> {"assignable", "blocked"}]
  <2>1. \A v \in VehicleIds : Assignable(vehicles[v]) \in {"assignable", "blocked"}
    BY DEF Init, Assignable, VehicleStatuses
  <2> QED BY <2>1 DEF SeenVehicles
<1>2. SeenSlots \in SUBSET {k \in View!Slot : k.start < k.end}
  <2> SUFFICES ASSUME NEW k \in SlotIds, rows[k] # NoRow
               PROVE  rows[k] \in View!Slot /\ rows[k].start < rows[k].end
    BY DEF SeenSlots
  <2>1. rows[k] \in Slot BY NullAssumption DEF Init, Rows, Ids
  <2>2. rows[k].start < rows[k].end
    BY InitRecord DEF RecordInv, SlotsOrdered
  <2> QED BY <2>1, <2>2 DEF Slot, View!Slot
<1> QED BY <1>1, <1>2 DEF View!Init, SeenVehicles, SeenSlots

LEMMA Unseen ==
    ASSUME UNCHANGED SeenVehicles, UNCHANGED SeenSlots
    PROVE  UNCHANGED View!vars
BY DEF View!vars, SeenVehicles, SeenSlots

\* The steps of the view, in terms of what is seen.
LEMMA ViewSets ==
    ASSUME NEW v \in VehicleIds, NEW s \in {"assignable", "blocked"},
           SeenVehicles[v] # "gone",
           SeenVehicles' = [SeenVehicles EXCEPT ![v] = s], UNCHANGED SeenSlots
    PROVE  View!Next
<1>1. View!SetVehicle(v, s) BY DEF View!SetVehicle, SeenVehicles, SeenSlots
<1> QED BY <1>1 DEF View!Next

LEMMA ViewDeletes ==
    ASSUME NEW v \in VehicleIds, SeenVehicles[v] # "gone",
           SeenVehicles' = [SeenVehicles EXCEPT ![v] = "gone"],
           SeenSlots' = {k \in SeenSlots : k.vehicle # v}
    PROVE  View!Next
<1>1. View!DeleteVehicle(v) BY DEF View!DeleteVehicle, SeenVehicles, SeenSlots
<1> QED BY <1>1 DEF View!Next

LEMMA ViewAdds ==
    ASSUME NEW k \in Slot, k.start < k.end, SeenVehicles[k.vehicle] # "gone",
           SeenSlots' = SeenSlots \cup {k}, UNCHANGED SeenVehicles
    PROVE  View!Next
<1>1. PICK v \in VehicleIds, s \in Times, e \in Times :
         k = [vehicle |-> v, start |-> s, end |-> e]
  BY DEF Slot
<1>2. View!AddSlot(v, s, e)
  BY <1>1 DEF View!AddSlot, SeenVehicles, SeenSlots
<1> QED BY <1>2 DEF View!Next

LEMMA ViewMoves ==
    ASSUME NEW k \in SeenSlots, NEW s \in Times, NEW e \in Times, s < e,
           SeenSlots' = (SeenSlots \ {k})
                           \cup {[k EXCEPT !.start = s, !.end = e]},
           UNCHANGED SeenVehicles
    PROVE  View!Next
<1>1. View!MoveSlot(k, s, e) BY DEF View!MoveSlot, SeenVehicles, SeenSlots
<1> QED BY <1>1 DEF View!Next, SeenSlots

LEMMA ViewRemoves ==
    ASSUME NEW k \in SeenSlots, SeenSlots' = SeenSlots \ {k},
           UNCHANGED SeenVehicles
    PROVE  View!Next
<1>1. View!RemoveSlot(k) BY DEF View!RemoveSlot, SeenVehicles, SeenSlots
<1> QED BY <1>1 DEF View!Next, SeenSlots

\* A slot's row is replaced; another slot may hold the same row.
LEMMA SlotReplaced ==
    ASSUME DOMAIN rows = Ids, NEW k \in SlotIds, NEW row,
           rows' = [rows EXCEPT ![k] = row]
    PROVE  LET others == {rows[x] : x \in {x \in SlotIds \ {k} : rows[x] # NoRow}}
           IN  /\ SeenSlots' = others \cup {w \in {row} : w # NoRow}
               /\ SeenSlots = others \cup {w \in {rows[k]} : w # NoRow}
BY DEF SeenSlots, Ids

LEMMA WriteRefines ==
    ASSUME ViewInv, NEW r \in RequestIds,
           Insert(r) \/ SaveUpdate(r) \/ Reinsert(r) \/ Delete(r)
    PROVE  View!Next \/ UNCHANGED View!vars
<1> DEFINE q == requests[r]
           old == rows[q.id]
           row == rows'[q.id]
<1>0. /\ DOMAIN rows = Ids /\ Shape(q) /\ Holds(q) /\ Current(q)
      /\ q.id \in Ids /\ UNCHANGED vehicles /\ rows' = [rows EXCEPT ![q.id] = row]
  BY DEF ViewInv, RecordInv, TypeInv, TypeOK, Shape, Storing, Insert,
         SaveUpdate, Reinsert, Delete, Write
<1>1. UNCHANGED SeenVehicles BY <1>0 DEF SeenVehicles
<1>2. CASE q.id \in IncidentIds
  <2>1. \A k \in SlotIds : rows'[k] = rows[k] BY <1>0, <1>2, NullAssumption DEF Ids
  <2> QED BY <1>1, <2>1, Unseen DEF SeenSlots
<1>3. CASE q.id \in SlotIds
  <2> DEFINE others == {rows[x] : x \in {x \in SlotIds \ {q.id} : rows[x] # NoRow}}
  <2>1. /\ SeenSlots' = others \cup {w \in {row} : w # NoRow}
        /\ SeenSlots = others \cup {w \in {old} : w # NoRow}
    BY <1>0, <1>3, SlotReplaced
  <2>2. q.id \notin IncidentIds BY <1>3, NullAssumption
  <2> HIDE DEF others, row, old
  <2>3. CASE Delete(r)
    <3>1. row = NoRow BY <1>0, <2>3 DEF Delete, Write, row
    <3>2. SeenSlots' = others BY <2>1, <3>1
    <3>3. CASE old = NoRow \/ old \in others
      BY <1>1, <2>1, <3>2, <3>3, Unseen
    <3>4. CASE old # NoRow /\ old \notin others
      <4>1. old \in SeenSlots /\ SeenSlots' = SeenSlots \ {old}
        BY <2>1, <3>2, <3>4
      <4> QED BY <1>1, <4>1, ViewRemoves
    <3> QED BY <3>3, <3>4
  <2>4. CASE SaveUpdate(r) /\ old = NoRow
    <3>1. row = NoRow BY <1>0, <2>4 DEF SaveUpdate, Write, row, old
    <3> QED BY <1>1, <2>1, <2>4, <3>1, Unseen
  <2>5. CASE Insert(r) \/ (SaveUpdate(r) /\ old # NoRow) \/ Reinsert(r)
    <3>1. /\ q.want \in Slot /\ q.want.start < q.want.end /\ q.want # NoRow
          /\ q.pc \in Storing
      BY <1>0, <1>3, <2>2, <2>5, NullAssumption
         DEF Insert, SaveUpdate, Reinsert, Shape, Holds, HoldsSlot, Storing, Rows
    <3>2. row = q.want
      BY <1>0, <1>3, <2>5
         DEF Insert, SaveUpdate, Reinsert, Write, Storing, Holds, HoldsSlot, row, old
    <3>3. Exists(q.want.vehicle)
      BY <1>0, <1>3, <2>5
         DEF Insert, SaveUpdate, Reinsert, Storing, Holds, HoldsSlot, ViewInv,
             KeysHold, old
    <3>4. q.want = [vehicle |-> q.want.vehicle, start |-> q.want.start,
                    end |-> q.want.end]
          /\ q.want.vehicle \in VehicleIds /\ q.want.start \in Times
          /\ q.want.end \in Times
      BY <3>1 DEF Slot
    <3>5. SeenSlots' = others \cup {q.want} BY <2>1, <3>1, <3>2
    <3>6. CASE old = NoRow \/ old \in others
      <4>1. SeenSlots' = SeenSlots \cup {q.want} BY <2>1, <3>5, <3>6
      <4>2. SeenVehicles[q.want.vehicle] # "gone"
        BY <3>3, <3>4 DEF SeenVehicles, Assignable, Exists
      <4> QED BY <1>1, <3>1, <4>1, <4>2, ViewAdds
    <3>7. CASE old # NoRow /\ old \notin others
      <4>1. old \in SeenSlots /\ SeenSlots' = (SeenSlots \ {old}) \cup {q.want}
        BY <2>1, <3>5, <3>7
      <4>2. SaveUpdate(r)
        BY <1>0, <1>3, <2>5, <3>7
           DEF Insert, Reinsert, Storing, Holds, HoldsSlot, old
      <4>3. old.vehicle = q.want.vehicle
        BY <1>0, <1>3, <3>7, <4>2 DEF SaveUpdate, Storing, Holds, HoldsSlot, old
      <4>4. old \in Slot
        BY <1>0, <2>2, <3>7
           DEF ViewInv, RecordInv, TypeInv, TypeOK, Rows, old
      <4>5. [old EXCEPT !.start = q.want.start, !.end = q.want.end] = q.want
        BY <3>4, <4>3, <4>4 DEF Slot
      <4> QED BY <1>1, <3>1, <3>4, <4>1, <4>5, ViewMoves
    <3> QED BY <3>6, <3>7
  <2> QED BY <2>3, <2>4, <2>5
<1> QED BY <1>0, <1>2, <1>3 DEF Ids

LEMMA StepRefines ==
    ASSUME ViewInv, NEW r \in RequestIds, Step(r)
    PROVE  View!Next \/ UNCHANGED View!vars
<1> DEFINE q == requests[r]
<1>0. /\ q \in Request /\ vehicles \in [VehicleIds -> VehicleStatuses \cup {"gone"}]
      /\ DOMAIN rows = Ids /\ Shape(q) /\ Current(q)
  BY DEF ViewInv, RecordInv, TypeInv, TypeOK
<1>1. CASE Insert(r) \/ SaveUpdate(r) \/ Reinsert(r) \/ Delete(r)
  BY <1>1, WriteRefines
<1>2. CASE VehicleSave(r)
  <2> DEFINE s == Assignable(q.status)
  <2>1. /\ q.vehicle \in VehicleIds /\ Exists(q.vehicle)
        /\ q.status \in VehicleStatuses
        /\ vehicles' = [vehicles EXCEPT ![q.vehicle] = q.status]
        /\ UNCHANGED rows
    BY <1>0, <1>2 DEF VehicleSave, VehicleWrite, Shape, OnVehicle, Current, Request
  <2>2. s \in {"assignable", "blocked"} BY <2>1 DEF Assignable, VehicleStatuses
  <2>3. SeenVehicles[q.vehicle] # "gone"
    BY <2>1 DEF SeenVehicles, Assignable, Exists
  <2>4. SeenVehicles' = [SeenVehicles EXCEPT ![q.vehicle] = s]
    BY <1>0, <2>1 DEF SeenVehicles
  <2>5. UNCHANGED SeenSlots BY <2>1 DEF SeenSlots
  <2> QED BY <2>1, <2>2, <2>3, <2>4, <2>5, ViewSets
<1>3. CASE VehicleDelete(r)
  <2>1. /\ q.vehicle \in VehicleIds /\ Exists(q.vehicle)
        /\ vehicles' = [vehicles EXCEPT ![q.vehicle] = "gone"]
        /\ rows' = [x \in Ids |->
              IF rows[x] # NoRow /\ rows[x].vehicle = q.vehicle
              THEN NoRow ELSE rows[x]]
    BY <1>0, <1>3 DEF VehicleDelete, Shape, OnVehicle, Current
  <2>2. SeenVehicles[q.vehicle] # "gone"
    BY <2>1 DEF SeenVehicles, Assignable, Exists
  <2>3. SeenVehicles' = [SeenVehicles EXCEPT ![q.vehicle] = "gone"]
    BY <1>0, <2>1 DEF SeenVehicles, Assignable
  <2>4. SeenSlots' = {k \in SeenSlots : k.vehicle # q.vehicle}
    BY <2>1 DEF SeenSlots, Ids
  <2> QED BY <2>1, <2>2, <2>3, <2>4, ViewDeletes
<1>4. CASE \/ FindVehicle(r) \/ SaveSelect(r) \/ FindBlockedVehicle(r)
           \/ VehicleSelect(r) \/ Fail(r)
  <2>1. UNCHANGED <<vehicles, rows>>
    BY <1>4 DEF FindVehicle, SaveSelect, FindBlockedVehicle, VehicleSelect,
                Fail, Goto, Become
  <2> QED BY <2>1, Unseen DEF SeenVehicles, SeenSlots
<1> QED BY <1>1, <1>2, <1>3, <1>4 DEF Step

LEMMA NextRefines ==
    ASSUME ViewInv, [Next]_vars
    PROVE  [View!Next]_(View!vars)
<1>1. CASE UNCHANGED <<vehicles, rows>>
  BY <1>1, Unseen DEF SeenVehicles, SeenSlots
<1>2. ASSUME NEW r \in RequestIds, Start(r) PROVE UNCHANGED <<vehicles, rows>>
  BY <1>2, StartCases DEF ViewInv, RecordInv
<1>3. ASSUME NEW r \in RequestIds, Step(r) PROVE [View!Next]_(View!vars)
  BY <1>3, StepRefines
<1> QED BY <1>1, <1>2, <1>3 DEF Next, Quiet, vars

(***************************************************************************)
(* As long as no two requests change one slot at once and none removes a   *)
(* vehicle another one holds, the handlers implement the fleet that        *)
(* Reservations is written against, failures included.                     *)
(***************************************************************************)
THEOREM FleetImplementsView ==
    ASSUME Isolation # "none"
    PROVE  Spec => ImplementsFleetView
<1>1. ViewInv /\ [Next]_vars => ViewInv' BY NextView
<1>2. ViewInv /\ [Next]_vars => [View!Next]_(View!vars) BY NextRefines
<1> QED BY <1>1, <1>2, InitView, InitRefines, PTL
        DEF Spec, ImplementsFleetView, View!Spec
=============================================================================
