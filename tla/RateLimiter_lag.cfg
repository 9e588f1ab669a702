\* Statements that commit up to three ticks after their call read the clock.
CONSTANTS
    Users = {u1}
    Calls = {c1, c2, c3}
    Limit = 2
    Window = 2
    MaxAttempts = 2
    MaxLag = 3
    MaxNow = 5
SPECIFICATION Spec
SYMMETRY Symmetry
INVARIANTS
    TypeOK
    LongRunBudget
    BurstBound
    ChargedOnce
PROPERTIES
    DenialJustified
