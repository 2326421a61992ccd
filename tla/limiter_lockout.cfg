SPECIFICATION FairSpec
CONSTANTS
    Requests = {r1, r2, r3}
    Clients = {c1}
    SecretSet = FALSE
    MaxRequests = 1
    Window = 2
    Faults = {"redis_error"}
    NoClient = NoClient
PROPERTY EveryWindowCloses
