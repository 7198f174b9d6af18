SPECIFICATION PortSpec
CONSTANTS
    RxLen = 1
    TxLen = 1
    Images <- MCImages
    Ops <- PromptSlcan
    MaxConns = 2
    Blocks = 2
    PerBlock = 3
    SeqMod = 2
    Retries = 3
    MaxPending = 1
    MaxLost = 2
    MaxLate = 1
PROPERTY PortRecovers
CHECK_DEADLOCK FALSE
