SPECIFICATION Spec
CONSTANTS
    BufSize = 3
    MaxBytes = 2
    Prompt = TRUE
    MsgLen <- MCMsgLen
    TxSize = 3
    ErrFrames = {FALSE}
    MaxCmds = 0
PROPERTY NothingUnread
