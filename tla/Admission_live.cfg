\* Two requests that share a URL or not, one worker, one crash: liveness.
CONSTANTS
    Owners = {r1, r2}
    Keys = {k1, k2}
    Nobody = Nobody
    LeaseTTL = 1
    Workers = 1
    QueueLimit = 1
    Horizon = 1
    MaxNow = 2
    MaxCrashes = 1
SPECIFICATION FairSpec
PROPERTIES
    EveryRequestEnds
    EveryLeaseEnds
