SPECIFICATION Spec
CONSTANTS
    a = a
    b = b
    o1 = o1
    o2 = o2
    OrderIDs = {o1}
    Instruments = {a}
    ProductOf <- ProductOfA
    Combos = {}
    Listed = {a}
    Requests <- DiskRequests
    Reports <- NoReports
    MaxPrice = 2
    MaxTime = 0
    TimeWindow = 1
    MaxDay = 2
    MaxNewOrdersPerDay = 1
    MaxValidOrdersTotal = 1
    MaxLosses = 2
    DiskMayFail = TRUE
INVARIANTS
    FiresBounded
