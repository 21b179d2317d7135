CONSTANTS
    o1 = o1
    e1 = e1
    e2 = e2
    RequestIds = {q1, q2, q3}
    Old = {o1}
    Emails = {e1, e2}
    OldEmail <- MCOldEmail
    OldOtps <- MCOldOtps
    Bodies <- MCBodies
    Operations = {"confirm", "login", "refresh", "forgot", "reset", "updateStatus", "remove"}
    Isolation = "none"
    MayFail = FALSE
    FixedCode = TRUE
    NoRow = NoRow
    NoId = NoId
    Unset = Unset
SPECIFICATION FairSpec
INVARIANTS RotationChain RevokedForCause
PROPERTIES RevocationFinal EveryRequestEnds
