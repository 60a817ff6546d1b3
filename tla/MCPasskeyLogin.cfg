\* Two users at three nodes, two of which expect derived challenges; every kind of
\* page.  Nonces and assertions may run out for good.
SPECIFICATION Spec
CHECK_DEADLOCK FALSE
SYMMETRY Symmetry
CONSTANTS
    n1 = n1
    n2 = n2
    n3 = n3
    Nodes = {n1, n2, n3}
    NodeUrl <- Urls
    Derived = {n1, n2}
    alice = alice
    bob = bob
    c1 = c1
    c2 = c2
    Keys = {alice, bob}
    Credentials = {c1, c2}
    Pages <- AllPages
    Calls <- AllCalls
    MaxNonce = 3
    MaxMade = 2
INVARIANTS
    MeantUnlessSignedAsSent
    PrincipalIsSigner
    TwoPromptsTwoProofs
    PageBelongsToRpId
