SPECIFICATION LiveSpec
CONSTANTS
    s1 = s1
    s2 = s2
    Symbols = {s1}
    Tx = 1
    Rx = 1
    MaxGen = 2
    MayClose = TRUE
CHECK_DEADLOCK FALSE
INVARIANTS
    OneWriterOneReader
    ListReached
    NeverMute
PROPERTIES
    Resubscribes
    CallerReturns
