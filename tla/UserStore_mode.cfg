\* /settings against a mode button, no statement fails.
CONSTANTS
    Handlers = {x1, x2}
    People = {p1}
    Tracks = {t1}
    Modes = {"full", "original"}
    MayFail = FALSE
    Nobody = Nobody
SPECIFICATION Spec
PROPERTIES
    SavedModeKept
CHECK_DEADLOCK FALSE
