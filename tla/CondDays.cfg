SPECIFICATION Spec
CONSTANTS
    a = a
    b = b
    o1 = o1
    o2 = o2
    OrderIDs = {o1, o2}
    Instruments = {a}
    ProductOf <- ProductOfA
    Combos = {}
    Listed = {a}
    Requests <- DayRequests
    Reports <- NoReports
    MaxPrice = 2
    MaxTime = 0
    TimeWindow = 1
    MaxDay = 2
    MaxNewOrdersPerDay = 2
    MaxValidOrdersTotal = 1
    MaxLosses = 1
    DiskMayFail = FALSE
INVARIANTS
    LimitsRespected
    NoStaleOrder
PROPERTIES
    CancelIsFinal
    LedgerSpec
