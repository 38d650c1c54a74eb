SPECIFICATION Spec

CONSTANTS
    gateway = gateway
    probe = probe
    Node = {gateway, probe}
    Peer <- MCPeer
    TxWindow = 2
    RxWindow = 2
    TxQueue = 1
    CtrlQueue = 1
    RawQueue = 1
    AppQueue = 1
    ResyncRetries = 1
    Commands <- OneDown
    Epochs <- TwoEpochs
    Resyncs <- GatewayRecovers
    Restartable = {}
    Operators = {gateway}
    Fading = {}
    Heartbeats = {}

INVARIANTS
    AtMostOnce
