\* Two providers, DefaultDurationPolicy, any files.
CONSTANTS
    Chain <- MCChain
    Lengths <- MCLengths
    Durations <- MCDurations
    NoFile = NoFile
    MinFullTrackSeconds = 60
    RelativeTolerance = 10
    MinToleranceSeconds = 10
    MaxOvershootFactor = 3
SPECIFICATION FairSpec
INVARIANTS
    TypeOK
    FirstTrackWins
PROPERTIES
    StagesKept
    FilesSettled
CHECK_DEADLOCK FALSE
