SPECIFICATION FairSpec

CONSTANTS
    gateway = gateway
    probe = probe
    Node = {gateway, probe}
    Peer <- MCPeer
    TxWindow = 1
    RxWindow = 1
    TxQueue = 1
    CtrlQueue = 1
    RawQueue = 1
    AppQueue = 1
    ResyncRetries = 1
    Commands <- TwoDown
    Epochs <- TwoEpochs
    Resyncs <- BothRecover
    Restartable = {}
    Operators = {}
    Fading = {}
    Heartbeats = {}

PROPERTIES
    EveryCommandSettles
