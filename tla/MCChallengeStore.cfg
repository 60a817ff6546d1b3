\* Two concurrent callers of a store of capacity one, with enough nonces to
\* race for the same victim more than once.
SPECIFICATION Spec
SYMMETRY ThreadSymmetry
CONSTANTS
    t1 = t1
    t2 = t2
    alice = alice
    chainless = chainless
    Threads = {t1, t2}
    Dids = {alice, chainless}
    WellFormed = {alice, chainless}
    Renderable = {alice}
    Nonces = {1, 2, 3, 4}
    MaxChallenges = 1
    Ttl = 2
    MaxTime = 3
INVARIANTS
    TypeOK
    SingleUse
    CapacityUpToLostEvictions
PROPERTIES
    LiveLeavesOnlyIfConsumedOrEvicted
    ImplementsLifecycle
