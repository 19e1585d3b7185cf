SPECIFICATION Spec
CONSTANTS
    Distinct = TRUE
    Trades <- TwoDays
    Yesterday <- OneLot
    MaxDay = 2
    MaxQueries = 3
CHECK_DEADLOCK FALSE
INVARIANTS
    TypeOK
    TotalsExact
    PartsSane
    EveryTradeCounted
