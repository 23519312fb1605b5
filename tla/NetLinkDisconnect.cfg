SPECIFICATION Spec
CONSTANTS
    BufSize = 2
    MaxBytes = 1
    Prompt = TRUE
    MsgLen <- MCMsgLen
    TxSize = 3
    ErrFrames = {TRUE, FALSE}
    MaxCmds = 0
INVARIANT WholeMessages
