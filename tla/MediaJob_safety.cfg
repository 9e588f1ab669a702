\* Two jobs, one worker, two providers, one restart.
CONSTANTS
    Jobs = {j1, j2}
    Workers = 1
    Providers = 2
    MaxRestarts = 1
SPECIFICATION Spec
SYMMETRY Symmetry
INVARIANTS
    TypeOK
    NoStuckRow
    TrackLinked
    DirsOwned
PROPERTIES
    OriginalNeverLost
    AnswerPromise
CHECK_DEADLOCK FALSE
