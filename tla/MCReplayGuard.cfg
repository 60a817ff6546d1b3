\* Two verifiers on a guard of capacity one; requests arrive any number of times.
SPECIFICATION Spec
SYMMETRY ThreadSymmetry
CONSTANTS
    t1 = t1
    t2 = t2
    Threads = {t1, t2}
    Requests <- ThreeRequests
    Capacity = 1
    Skew = 1
    MaxValidity = 3
    MaxTime = 3
    MaxPresented = 5
INVARIANTS
    TypeOK
    RememberedWhileLive
    CapacityUpToLostEvictions
PROPERTY
    HonouredAgainOnlyIfForgotten
