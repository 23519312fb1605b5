SPECIFICATION Spec
CONSTANTS
    Threads <- MCThreads
    Above <- MCAbove
    BufSize = 3
    MaxBytes = 2
    Prompt = FALSE
INVARIANTS TypeOK Terminated
