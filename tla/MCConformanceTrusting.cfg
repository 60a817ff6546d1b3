CONSTANTS
    DidAqua = TRUE
    Omega = 1
    K = 1
    Servers <- MCTrusting
    Urls <- MCUrls
    AllowRemote = FALSE
    TTL = 3
    SESSION_TTL = 5
    ONE_DAY = 9
    Milli = 11
    MAX_EXPIRY_WAIT = 4
    MaxFaults = 0
SPECIFICATION Spec
INVARIANT BrokenRulesAreReported
CHECK_DEADLOCK FALSE
