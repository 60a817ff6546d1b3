\* One handler and two sweeps of one store, under the fairness of the runtime.
SPECIFICATION FairSpec
CONSTANTS
    t1 = t1
    t2 = t2
    w1 = w1
    w2 = w2
    alice = alice
    bob = bob
    Threads = {t1}
    Sweepers = {w1, w2}
    Dids = {alice}
    Tokens = {1, 2, 3}
    MaxSessions = 1
    MaxPerDid = 1
    Ttl = 1
    MaxTime = 2
    BackendFails = FALSE
    OverflowChecks = FALSE
PROPERTIES
    ExpiredIsSwept
    OnlyTheLastSweepStops
