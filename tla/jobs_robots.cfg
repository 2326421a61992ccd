SPECIFICATION Spec
CONSTANTS
    Jobs = {j1}
    Workers = {w1}
    Faults = {}
    NoMessage = NoMessage
INVARIANT BlockedSiteIsTold
