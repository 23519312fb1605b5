SPECIFICATION Spec
CONSTANTS
    Calls <- MCCalls
    Start <- MCStart
    Layout <- MCLayout
    Timeout = 2
    Timely = TRUE
    Lossy = TRUE
    Split = {TRUE, FALSE}
    MaxPending = 3
INVARIANTS TypeOK SetHonest GetHonest Readable
PROPERTY CallReturns
