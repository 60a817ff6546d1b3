CONSTANTS
    DidAqua = TRUE
    Omega = 2
    K = 2
    Signers <- MCSigners
    Dids <- MCDids
    Parts <- MCParts
    Validities = {0, 1, 2}
    Hints <- MCHints
    MAX_VALIDITY = 1
    ClockSkew = 1
    expected_tag = "aqua-auth"
    MaxClock = 1
    MaxSigned = 2
    MaxHonoured = 1
    MaxLogins = 2
    ek = ek
    qk = qk
    hk = hk
    pk = pk
SPECIFICATION Spec
INVARIANTS
    HonouredAsSigned
    PrincipalHoldsKey
    SignedVerifies
    OneEncodingHonoured
CHECK_DEADLOCK FALSE
