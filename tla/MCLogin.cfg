\* Three clients of one server, or two of an endpoint that misdirects to it; either
\* server may restart.  The clients may be done for good.
SPECIFICATION Spec
CHECK_DEADLOCK FALSE
CONSTRAINT OneGroup
CONSTANTS
    c1 = c1
    c2 = c2
    c3 = c3
    d1 = d1
    d2 = d2
    s1 = s1
    s2 = s2
    key = key
    peer = peer
    web = web
    Clients = {c1, c2, c3, d1, d2}
    Servers = {s1, s2}
    Dids = {key, peer, web}
    Signer <- SignerOf
    Base <- BaseOf
    Ident <- SameKey
    Supported = {key, peer}
    MaxPerDid = 1
    Strays = {s2}
    MaxOps <- OpsOf
    MaxRestarts = 1
INVARIANTS
    ProvedPossession
    SessionsOnlyWhereDialled
    TokenIsOwn
    SendExecutesOnce
PROPERTY
    RefusedTwiceOnlyIfForgottenTwice
