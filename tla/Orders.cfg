SPECIFICATION FairSpec
CONSTANTS
    first = first
    other = other
    Orders = {first, other}
    SessionOf <- Sessions
    RefOf <- TheRefs
    VolumeOf <- Volumes
    MaxSessions = 2
    MaxCancels = 1
    MaxErrors = 1
    MaxLine = 2
    Named = {first}
CHECK_DEADLOCK FALSE
INVARIANTS
    TypeOK
    TradesTold
    AnsweredOnce
PROPERTIES
    Settles
