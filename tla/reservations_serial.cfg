CONSTANTS
    ReservationIds = {r1, r2}
    VehicleIds = {v1}
    RequestIds = {q1, q2}
    Times <- MCTimes
    SlotRanges <- OneSlotRange
    InitialRows <- CalendarRows
    Updates <- SomeUpdates
    EventBodies <- SomeEvents
    Operations = {"create", "update", "updateStatus", "preauth", "event", "remove", "fleet"}
    Isolation = "serial"
    MayFail = TRUE
    Retargets = FALSE
    NoRow = NoRow
    NoVehicle = NoVehicle
    NoId = NoId
    NoStatus = NoStatus
    NoRequest = NoRequest
    Unset = Unset
SPECIFICATION Spec
INVARIANTS TypeOK NoDoubleBooking RangesOrdered
PROPERTIES BookingRespectsFleet ImplementsCalendar
