CONSTANTS
    ReservationIds = {r1, r2}
    VehicleIds = {v1}
    RequestIds = {q1, q2, q3}
    Times <- MCTimes
    SlotRanges <- MCSlotRanges
    InitialRows <- PaymentDue
    Updates <- OneUpdate
    EventBodies <- SomeEvents
    Operations = {"create", "update", "updateStatus", "preauth", "event", "remove"}
    Isolation = "none"
    MayFail = FALSE
    Retargets = TRUE
    NoRow = NoRow
    NoVehicle = NoVehicle
    NoId = NoId
    NoStatus = NoStatus
    NoRequest = NoRequest
    Unset = Unset
SPECIFICATION Spec
SYMMETRY Symmetry
INVARIANTS TimelineExplainsStatus CreationRecorded
PROPERTIES GoneForGood
