\* A build with overflow checks; a create lands inside the sweep's purge.
SPECIFICATION Spec
CONSTANTS
    t1 = t1
    t2 = t2
    w1 = w1
    w2 = w2
    alice = alice
    bob = bob
    Threads = {t1}
    Sweepers = {w1}
    Dids = {alice}
    Tokens = {1, 2}
    MaxSessions = 4
    MaxPerDid = 2
    Ttl = 2
    MaxTime = 1
    BackendFails = FALSE
    OverflowChecks = TRUE
INVARIANT SweepNeverDies
