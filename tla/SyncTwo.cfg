SPECIFICATION Spec
CONSTANTS
    c1 = c1
    c2 = c2
    pos = pos
    acct = acct
    bank = bank
    Clients = {c1, c2}
    Positions = {pos}
    Accounts = {acct}
    Banks = {}
    Others = {}
    Insolvency = TRUE
    CondEnabled = FALSE
    Capacity = 1
    MaxUpdates = 2
    MaxSessions = 1
CHECK_DEADLOCK FALSE
SYMMETRY Swap
INVARIANTS
    Synced
