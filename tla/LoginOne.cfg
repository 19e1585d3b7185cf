SPECIFICATION Spec
CONSTANTS
    c1 = c1
    c2 = c2
    good = good
    bad = bad
    nobroker = nobroker
    Clients = {c1}
    Logins = {good, bad, nobroker}
    Configured = {good, bad}
    Accepted = {good, nobroker}
    AutoConfirm = FALSE
    CondEnabled = TRUE
    MayStop = TRUE
    MaxApis = 1
    MaxDay = 2
    MaxDrops = 1
    MaxErrors = 1
    MaxTimeouts = 1
    MaxLoops = 2
    MaxPending = 2
CHECK_DEADLOCK FALSE
INVARIANTS
    ReadyIsComplete
    ConfirmationIsCurrent
