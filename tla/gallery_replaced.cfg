CONSTANTS
    RequestIds = {r1}
    Existing = {v1}
    Links = {l1, l2}
    Operations = {"update"}
    Isolation = "vehicle"
    MayFail = FALSE
    Earlier = Earlier
    None = None
SPECIFICATION Spec
PROPERTIES ReplacesGallery
