CONSTANTS
    ReservationIds = {r1, r2}
    VehicleIds = {v1}
    RequestIds = {q1, q2}
    Times <- MCTimes
    SlotRanges <- MCSlotRanges
    InitialRows <- NoRows
    Updates <- OneUpdate
    EventBodies <- SomeEvents
    Operations = {"create"}
    Isolation = "none"
    MayFail = FALSE
    Retargets = FALSE
    NoRow = NoRow
    NoVehicle = NoVehicle
    NoId = NoId
    NoStatus = NoStatus
    NoRequest = NoRequest
    Unset = Unset
SPECIFICATION Spec
INVARIANTS NoDoubleBooking
