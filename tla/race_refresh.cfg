CONSTANTS
    o1 = o1
    e1 = e1
    e2 = e2
    RequestIds = {q1, q2}
    Old = {o1}
    Emails = {e1, e2}
    OldEmail <- MCOldEmail
    OldOtps <- MCOldOtps
    Bodies <- MCBodies
    Operations = {"refresh"}
    Isolation = "none"
    MayFail = FALSE
    FixedCode = TRUE
    NoRow = NoRow
    NoId = NoId
    Unset = Unset
SPECIFICATION Spec
INVARIANTS RefreshedOnce
