\* Three requests on up to three URLs, one worker and one place to wait, one crash.
CONSTANTS
    Owners = {r1, r2, r3}
    Keys = {k1, k2, k3}
    Nobody = Nobody
    LeaseTTL = 2
    Workers = 1
    QueueLimit = 1
    Horizon = 2
    MaxNow = 4
    MaxCrashes = 1
SPECIFICATION Spec
SYMMETRY Symmetry
INVARIANTS
    TypeOK
    Accounting
    WaitingBounded
    LeaseProtected
    NoLeaseLeaked
PROPERTIES
    OnlyOwnerEndsLease
    GatePromise
