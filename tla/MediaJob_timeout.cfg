\* A job whose deadline passed before it got its worker.
CONSTANTS
    Jobs = {j1}
    Workers = 1
    Providers = 2
    MaxRestarts = 0
SPECIFICATION FairSpec
PROPERTIES
    TimeoutNamed
CHECK_DEADLOCK FALSE
