\* Three handlers of two users, any statement may fail.
CONSTANTS
    Handlers = {x1, x2, x3}
    People = {p1, p2}
    Tracks = {t1}
    Modes = {"full", "original"}
    MayFail = TRUE
    Nobody = Nobody
SPECIFICATION Spec
SYMMETRY Symmetry
INVARIANTS
    TypeOK
    RemovedOnce
PROPERTIES
    OwnDataOnly
    ProfilePromise
CHECK_DEADLOCK FALSE
