SPECIFICATION InitSpec
CONSTANTS
    Calls <- MCCalls
    Start <- MCStart
    Layout <- MCLayout
    Timeout = 1
    Timely = FALSE
    Lossy = FALSE
    Split = {FALSE}
    MaxPending = 3
INVARIANT InitHonest
PROPERTY InitEnds
CHECK_DEADLOCK FALSE
