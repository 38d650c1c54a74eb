SPECIFICATION FairSpec

CONSTANTS
    gateway = gateway
    probe = probe
    Node = {gateway, probe}
    Peer <- MCPeer
    TxWindow = 1
    RxWindow = 1
    TxQueue = 1
    CtrlQueue = 1
    RawQueue = 1
    AppQueue = 1
    ResyncRetries = 1
    Commands <- Two
    Epochs <- OneEpoch
    Resyncs <- None
    Restartable = {}
    Operators = {}
    Fading = {}
    Heartbeats = {}

PROPERTIES
    HeadErrorReported
