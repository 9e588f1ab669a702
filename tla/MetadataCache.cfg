\* Two jobs on two links with one key or on uploads, a row from before,
\* statements up to a tick late.
CONSTANTS
    Jobs = {j1, j2}
    Codes = {c1}
    Spellings = {lower, upper}
    Files = {f1, f2}
    CacheTTL = 2
    Nothing = Nothing
    MaxLag = 1
    Horizon = 2
    MaxNow = 4
SPECIFICATION FairSpec
INVARIANTS
    TypeOK
    NeverStale
    Remembered
    AnswerForKey
PROPERTIES
    EveryRowEnds
CHECK_DEADLOCK FALSE
