SPECIFICATION FairSpec
CONSTANTS
    Requests = {r1, r2, r3, r4}
    Clients = {c1}
    SecretSet = TRUE
    MaxRequests = 2
    Window = 2
    Faults = {"redis_error", "api_crash"}
    NoClient = NoClient
INVARIANTS TypeOK Quota Burst KeyWillExpire
PROPERTY WindowCloses
