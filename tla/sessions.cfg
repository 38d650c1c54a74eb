SPECIFICATION Spec

CONSTANTS
    gateway = gateway
    probe = probe
    Node = {gateway, probe}
    Peer <- MCPeer
    TxWindow = 1
    RxWindow = 1
    TxQueue = 1
    CtrlQueue = 1
    RawQueue = 1
    AppQueue = 2
    ResyncRetries = 2
    Commands <- TwoDown
    Epochs <- GatewayTwoEpochs
    Resyncs <- ProbeRecovers
    Restartable = {gateway}
    Operators = {}
    Fading = {probe}
    Heartbeats = {}

INVARIANTS
    AtMostOnce

PROPERTIES
    ExecutionIsOrdered
    CompletionIsCurrent
