SPECIFICATION Spec
CONSTANTS
    Jobs = {j1, j2}
    Workers = {w1, w2}
    Faults = {"db_error", "broker", "broker_loss", "api_crash", "kill"}
    NoMessage = NoMessage
SYMMETRY Symmetry
INVARIANT AtMostOneRun
PROPERTY RefinesLifecycle
