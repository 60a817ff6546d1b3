\* Two verifiers through overlapping, nested and separate windows, registered at any
\* time; the clock stops for good.
SPECIFICATION Spec
CHECK_DEADLOCK FALSE
SYMMETRY Symmetry
CONSTANTS
    v1 = v1
    v2 = v2
    Verifiers = {v1, v2}
    Candidates <- Windows
    Ed25519DidKeys = {"A", "B", "C"}
    MinCache = 2
    MaxTime = 8
INVARIANTS
    ExpiredOnlyWithinFloor
    MissedOnlyWhileOthersLive
