SPECIFICATION FairSpec
CONSTANT Topology = "local"
\* A stack that is up, or that cannot come up, is left as it is.
CHECK_DEADLOCK FALSE
PROPERTY StackStarts
