SPECIFICATION FairSpec
CONSTANTS
    Sessions = {s1, s2}
    MaxConnections = 3
    MaxSeconds = 2
INVARIANTS
    TypeOK
    OneConnection
    FreedOnce
    OrderlyStop
PROPERTY
    StopCompletes
CHECK_DEADLOCK FALSE
