SPECIFICATION Spec
CONSTANTS
    a = a
    b = b
    o1 = o1
    o2 = o2
    OrderIDs = {o1, o2}
    Instruments = {a, b}
    ProductOf <- ProductOfAB
    Combos = {b}
    Listed = {a, b}
    Requests <- MixedRequests
    Reports <- MixedReports
    MaxPrice = 2
    MaxTime = 1
    TimeWindow = 1
    MaxDay = 1
    MaxNewOrdersPerDay = 2
    MaxValidOrdersTotal = 2
    MaxLosses = 0
    DiskMayFail = FALSE
INVARIANTS
    TypeOK
    CountsExact
    IndexFresh
    NoneOverdue
    DurableAtRest
PROPERTIES
    NoneOverlooked
