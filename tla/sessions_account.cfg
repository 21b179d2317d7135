CONSTANTS
    o1 = o1
    e1 = e1
    e2 = e2
    RequestIds = {q1, q2, q3}
    Old = {o1}
    Emails = {e1, e2}
    OldEmail <- MCOldEmail
    OldOtps <- MCOldOtps
    Bodies <- MCBodies
    Operations = {"register", "confirm", "login", "refresh", "forgot", "reset", "create", "update", "updateStatus", "remove", "expiry"}
    Isolation = "account"
    MayFail = TRUE
    FixedCode = TRUE
    NoRow = NoRow
    NoId = NoId
    Unset = Unset
SPECIFICATION Spec
SYMMETRY Symmetry
INVARIANTS TypeOK RefreshedOnce ResetEndsSessions OtpUsedOnce OneLiveOtp
PROPERTIES PasswordKept
