SPECIFICATION LiveSpec
CONSTANTS
    c1 = c1
    c2 = c2
    pos = pos
    acct = acct
    bank = bank
    Clients = {c1}
    Positions = {}
    Accounts = {}
    Banks = {bank}
    Others = {}
    Insolvency = FALSE
    CondEnabled = TRUE
    Capacity = 2
    MaxUpdates = 2
    MaxSessions = 2
CHECK_DEADLOCK FALSE
INVARIANTS
    Synced
PROPERTIES
    ViewsNeverRegress
    DiffsArrive
