SPECIFICATION FairSpec
CONSTANTS
    i1 = i1
    c1 = c1
    Loops = {i1}
    Clients = {c1}
    MaxEvents = 2
    MaxMishaps = 1
    MaxDay = 2
    MaxOwed = 2
    MaxRefresh = 1
CHECK_DEADLOCK FALSE
INVARIANTS
    TypeOK
    
PROPERTIES
    NeedsMet
    PositionsRefreshed
