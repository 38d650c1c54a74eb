SPECIFICATION Spec

CONSTANTS
    gateway = gateway
    probe = probe
    Node = {gateway, probe}
    Peer <- MCPeer
    TxWindow = 1
    RxWindow = 1
    TxQueue = 1
    CtrlQueue = 1
    RawQueue = 1
    AppQueue = 1
    ResyncRetries = 1
    Commands <- TwoDown
    Epochs <- TwoEpochs
    Resyncs <- None
    Restartable = {gateway}
    Operators = {}
    Fading = {probe}
    Heartbeats = {}

INVARIANTS
    NoLossByAck
