SPECIFICATION FairSpec
CONSTANTS
    c1 = c1
    c2 = c2
    good = good
    bad = bad
    nobroker = nobroker
    Clients = {c1}
    Logins = {good, bad}
    Configured = {good, bad}
    Accepted = {good, nobroker}
    AutoConfirm = TRUE
    CondEnabled = TRUE
    MayStop = FALSE
    MaxApis = 2
    MaxDay = 1
    MaxDrops = 1
    MaxErrors = 1
    MaxTimeouts = 0
    MaxLoops = 0
    MaxPending = 1
CHECK_DEADLOCK FALSE
INVARIANTS
    LoginWatched
PROPERTIES
    PanicIsOverlap
    ReadyAgain
