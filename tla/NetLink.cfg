SPECIFICATION Spec
CONSTANTS
    BufSize = 2
    MaxBytes = 1
    Prompt = TRUE
    MsgLen <- MCMsgLen
    TxSize = 3
    ErrFrames = {TRUE, FALSE}
    MaxCmds = 1
PROPERTIES ImplementsRx ImplementsTx HeartbeatForever StormEnds FrameReported
