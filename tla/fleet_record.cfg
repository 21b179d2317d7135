CONSTANTS
    VehicleIds = {v1, v2}
    IncidentIds = {i1}
    SlotIds = {k1}
    RequestIds = {q1, q2}
    Times <- MCTimes
    InitialIncidents <- QuietIncidents
    InitialSlots <- LongSlots
    IncidentBodies <- Reports
    SlotBodies <- Ranges
    SettableStatuses = {"MAINTENANCE"}
    Operations = {"updateVehicleStatus", "updateVehicle", "removeVehicle", "createIncident", "updateIncident", "removeIncident", "createSlot", "updateSlot", "removeSlot"}
    Isolation = "record"
    MayFail = TRUE
    Retargets = TRUE
    NoRow = NoRow
    NoVehicle = NoVehicle
    NoId = NoId
    Unset = Unset
SPECIFICATION FairSpec
INVARIANTS TypeOK SlotsOrdered
PROPERTIES ImplementsFleetView  StaysOutOfService EveryRequestEnds
