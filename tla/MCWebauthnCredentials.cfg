\* Two registrations and two logins over two credential ids and two keys, one of
\* them not P-256; every ceremony may be over for good.
SPECIFICATION Spec
CHECK_DEADLOCK FALSE
SYMMETRY Symmetry
CONSTANTS
    i1 = i1
    i2 = i2
    p = p
    rsa = rsa
    w1 = w1
    w2 = w2
    r1 = r1
    r2 = r2
    l1 = l1
    l2 = l2
    CredIds = {i1, i2}
    Keys = {p, rsa}
    P256Keys = {p}
    Wallets = {w1, w2}
    Registrations = {r1, r2}
    Logins = {l1, l2}
    MaxCount = 2
INVARIANTS
    BoundToItsOwner
    SessionIsForTheDidAsked
    CounterRemembersLogins
    CloneNeedsARace
