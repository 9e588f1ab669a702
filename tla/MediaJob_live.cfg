\* Two jobs share one worker: liveness.
CONSTANTS
    Jobs = {j1, j2}
    Workers = 1
    Providers = 1
    MaxRestarts = 0
SPECIFICATION FairSpec
PROPERTIES
    EveryJobEnds
CHECK_DEADLOCK FALSE
