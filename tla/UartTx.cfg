SPECIFICATION Spec
CONSTANTS
    Threads <- MCThreads
    Above <- MCAbove
    Msgs <- MCMsgs
    MsgLen <- MCMsgLen
    TxSize = 4
INVARIANTS TypeOK LockExclusive BusyHasOwner
PROPERTY BusyEnds
