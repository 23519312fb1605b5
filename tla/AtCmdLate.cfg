SPECIFICATION Spec
CONSTANTS
    Calls <- MCLate
    Start <- MCStart
    Layout <- MCLayout
    Timeout = 2
    Timely = FALSE
    Lossy = FALSE
    Split = {FALSE}
    MaxPending = 3
INVARIANT SetHonest
