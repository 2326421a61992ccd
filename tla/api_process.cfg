SPECIFICATION FairSpec
CONSTANTS
    Posts = {p1}
    Gets = {g1}
    Probes = {k1}
    Configs <- SomeConfigs
    MaxBoots = 2
INVARIANTS TypeOK ReadyIsHonest ReadsYourWrites
PROPERTIES EveryRequestAnswered RefinesAuditJobs
