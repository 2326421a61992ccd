SPECIFICATION FairSpec
CONSTANTS
    Jobs = {j1}
    Workers = {w1, w2}
    Faults = {"db_error", "db_ambiguous", "broker", "broker_loss", "duplicate",
              "api_crash", "kill", "soft_limit"}
    NoMessage = NoMessage
INVARIANTS TypeOK CoherentReport PhaseMatchesRow StrandedHasCause MailMeansReport
PROPERTIES NeverBackwards JobSettles SlotsRecover
