SPECIFICATION FairSpec
CONSTANTS
    Start <- Audited
    Draft = 100
\* A page without recommendations is left as it is.
CHECK_DEADLOCK FALSE
INVARIANTS TypeOK ScoresInRange UnadvisedIsGood AdviceIsExact
PROPERTIES AdvicePays AdviceSettles
