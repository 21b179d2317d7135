CONSTANTS
    RequestIds = {r1, r2, r3}
    Existing = {v1}
    Links = {l1, l2}
    Operations = {"create", "update", "remove", "upload", "removeImage"}
    Isolation = "vehicle"
    MayFail = TRUE
    Earlier = Earlier
    None = None
SPECIFICATION Spec
INVARIANTS TypeOK OrphansFromUploads DanglingFromRemovals
SYMMETRY Symmetry
