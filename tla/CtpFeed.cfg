SPECIFICATION LiveSpec
CONSTANTS
    k1 = k1
    k2 = k2
    Contracts = {k1, k2}
    MaxDrops = 2
INVARIANTS
    WantedServed
PROPERTIES
    ComesToBeServed
