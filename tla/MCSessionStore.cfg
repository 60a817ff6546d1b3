\* Two handlers, two DIDs, no sweep: every interleaving of two calls of the store.
SPECIFICATION Spec
SYMMETRY HandlerSymmetry
CONSTANTS
    t1 = t1
    t2 = t2
    w1 = w1
    w2 = w2
    alice = alice
    bob = bob
    Threads = {t1, t2}
    Sweepers = {}
    Dids = {alice, bob}
    Tokens = {1, 2, 3, 4}
    MaxSessions = 2
    MaxPerDid = 1
    Ttl = 1
    MaxTime = 1
    BackendFails = TRUE
    OverflowChecks = FALSE
INVARIANTS
    TypeOK
    GlobalCapUpToHandlers
    PerDidCapUpToLostEvictions
    RevokedStaysRevoked
PROPERTIES
    LiveEndsOnlyByItsOwnDid
    RevokeAllIsComplete
