CONSTANTS
    VehicleIds = {v1}
    IncidentIds = {i1}
    SlotIds = {}
    RequestIds = {q1, q2}
    Times <- MCTimes
    InitialIncidents <- QuietIncidents
    InitialSlots <- LongSlots
    IncidentBodies <- Reports
    SlotBodies <- Ranges
    SettableStatuses = {"MAINTENANCE"}
    Operations = {"updateVehicle", "createIncident"}
    Isolation = "record"
    MayFail = FALSE
    Retargets = FALSE
    NoRow = NoRow
    NoVehicle = NoVehicle
    NoId = NoId
    Unset = Unset
SPECIFICATION Spec
INVARIANTS CriticalBlocks
