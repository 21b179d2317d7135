CONSTANTS
    ReservationIds = {r1, r2}
    VehicleIds = {v1}
    RequestIds = {q1, q2}
    Times <- MCTimes
    SlotRanges <- MCSlotRanges
    InitialRows <- PaymentRows
    Updates <- SomeUpdates
    EventBodies <- SomeEvents
    Operations = {"create", "update", "updateStatus", "preauth", "event", "remove", "fleet"}
    Isolation = "dossier"
    MayFail = TRUE
    Retargets = TRUE
    NoRow = NoRow
    NoVehicle = NoVehicle
    NoId = NoId
    NoStatus = NoStatus
    NoRequest = NoRequest
    Unset = Unset
SPECIFICATION FairSpec
INVARIANTS StatusAnnouncedOnce SinglePreauth
PROPERTIES LegalTransitions EveryRequestEnds
